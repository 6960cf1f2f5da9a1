-------------------------------- MODULE MCCli ---------------------------------
(* Instance: one client runs any command, the other stops the daemon. *)
EXTENDS Cli, TLC

CONSTANTS user, other

MCClients == {user, other}
MCInvokes == user :> Commands @@ other :> {"daemonStop"}
===============================================================================
