--------------------------------- MODULE Chain ---------------------------------
(***************************************************************************)
(* Payments between two agents over the Status Network backend of the      *)
(* ExecutionBackend trait (execution/src/status_network.rs) with the       *)
(* payment steps of the node (node/src/tasks/payment.rs): a payer whose    *)
(* auto_pay attaches the hash pay gave it, and a payee that verifies the   *)
(* hash, offline or by the receipt the chain has for it, one task after    *)
(* the other (TaskIntake has the polls that overlap).                      *)
(*                                                                         *)
(* A hash is a string, and seen_tx_hashes keeps it as the task spells it;  *)
(* verify_transfer puts a missing 0x in front before it asks the chain, so *)
(* that several spellings name one transaction.                            *)
(*                                                                         *)
(* Amounts on the chain are wider than the u64 of the code: Wide values    *)
(* wrap at 2^Width.  pay is a stub of the backend: its hash is a digest of *)
(* the payee and the amount, and nothing is transferred; the receipts are  *)
(* of transfers that somebody made.                                        *)
(***************************************************************************)
EXTENDS Integers, Sequences, FiniteSets

CONSTANTS
    Payee, Other,   \* accounts
    Width,          \* bits of an amount in the code: 64
    Wide,           \* amounts on the chain
    Fees,           \* amounts a payee may ask for, and a payer may pay
    Spellings,      \* of the hash of the transaction: with 0x in front, and without
    MaxLogs,        \* bound: logs of a receipt
    MaxVerified,    \* bound: tasks that name the transaction
    MaxPaid         \* bound: tasks sent with a payment

ASSUME ChainAssumption ==
    /\ Width \in Nat /\ 2 ^ Width \in Nat \ {0}
    /\ Wide \subseteq Nat /\ Fees \subseteq Nat /\ MaxLogs \in Nat

Accounts == {Payee, Other}
U64(n) == n % 2 ^ Width
Logs ==
    [event : {"Transfer"}, token : {"ours", "another"}, to : Accounts, amount : Wide]
    \cup [event : {"short", "other"}, token : {"ours"}, to : {Payee}, amount : Wide]
TransferDetails == [to : Accounts, amount : 0 .. 2 ^ Width - 1]
NoTransfer == [to |-> Other, amount |-> -1]

VARIABLES
    receipt,    \* what eth_getTransactionReceipt has for the hash: state, and logs
    fee,        \* required_amount of the payee
    account,    \* its receiving_account: the payee's, or none
    contract,   \* the token_contract of its backend: the token's, or none
    named,      \* tasks that name the transaction: how each spells it, and the verdict of the payee
    paid,       \* payments of the payer: the amounts, in order
    used,       \* seen_tx_hashes of the payee: what pay returned, and spellings of the transaction
    refused,    \* positions of paid whose task the payee turned away
    holds,      \* tokens the payee had on the chain when its balance was asked for
    reported    \* what balance said of them: Unread until then, and for an error

chainVars == <<receipt, fee, account, contract, named, paid, used, refused, holds, reported>>
Unread == -1

ChainInit ==
    /\ receipt \in [state : {"absent", "failed", "mined"}, logs : UNION {[1 .. n -> Logs] : n \in 0 .. MaxLogs}]
    /\ receipt.state # "mined" => receipt.logs = <<>>
    /\ fee \in Fees /\ account \in {"payee", "any"} /\ contract \in {"ours", "any"}
    /\ named = <<>> /\ paid = <<>> /\ used = {} /\ refused = {}
    /\ holds = 0 /\ reported = Unread

\* Mutant: transfers of any token count, whatever the token_contract.
IsTransferOfAny(l) == l.event = "Transfer"
IsTransfer(l) == l.event = "Transfer" /\ (contract = "any" \/ l.token = "ours")

\* parse_transfer_log: the first log that is a Transfer of the token, its amount cut to 64 bits.
ParseTransferLog(logs) ==
    LET is == {i \in 1 .. Len(logs) : IsTransfer(logs[i])}
        first == CHOOSE i \in is : \A j \in is : i <= j
    IN IF is = {} THEN NoTransfer
       ELSE [to |-> logs[first].to, amount |-> U64(logs[first].amount)]

\* rpc_call gives the result the endpoint has, or an error: unreachable, not JSON, an error or no
\* result in the answer.
RpcCall(result, error) == {result, error}

\* verify_transfer: an RPC error, no receipt, a failed transaction and no transfer are errors.
VerifyTransfer(found) == IF found.state = "mined" THEN ParseTransferLog(found.logs) ELSE NoTransfer

\* The hash string of a task that names the transaction: no digest that pay made.
Spelt(spelling) == <<"chain", spelling>>

\* verify_payment, on chain, of a task that spells the hash so: the spelling is new, amount and
\* recipient of the transfer are compared, and the spelling is recorded.
VerifyPayment(spelling) ==
    /\ fee > 0 /\ Len(named) < MaxVerified
    /\ \E found \in RpcCall(receipt, [state |-> "absent", logs |-> <<>>]) :
        LET details == VerifyTransfer(found)
            accepted == /\ Spelt(spelling) \notin used
                        /\ details # NoTransfer /\ details.amount >= fee
                        /\ account = "any" \/ details.to = Payee
        IN /\ named' = Append(named, [spelling |-> spelling, accepted |-> accepted])
           /\ used' = IF accepted THEN used \cup {Spelt(spelling)} ELSE used
    /\ UNCHANGED <<receipt, fee, account, contract, paid, refused, holds, reported>>

\* sha2_hash: one 64-bit hash of the data, four times over.  No two data in reach collide.
Digest(data) == [i \in 1 .. 4 |-> data]

\* pay: the hash it returns for an amount.
Pay(n) == <<"pay", Digest(<<Payee, n>>)>>

\* A task is sent with a payment, unless the call that pay makes fails, and the payee checks it
\* offline: the hash is new, the amount enough.
SendPaid(n) ==
    /\ receipt.state = "absent" /\ Len(paid) < MaxPaid
    /\ \E hash \in RpcCall(Pay(n), <<>>) :
        /\ hash # <<>>
        /\ paid' = Append(paid, n)
        /\ IF hash \notin used /\ n >= fee
           THEN used' = used \cup {hash} /\ UNCHANGED refused
           ELSE refused' = refused \cup {Len(paid')} /\ UNCHANGED used
    /\ UNCHANGED <<receipt, fee, account, contract, named, holds, reported>>

\* balance: one that does not fit 64 bits does not parse, and reads as none.
BalanceOf(n) == IF n < 2 ^ Width THEN n ELSE 0

Balance ==
    /\ reported = Unread
    /\ holds' \in Wide
    /\ reported' \in RpcCall(BalanceOf(holds'), Unread) \ {Unread}
    /\ UNCHANGED <<receipt, fee, account, contract, named, paid, used, refused>>

ChainNext ==
    \/ Balance
    \/ \E s \in Spellings : VerifyPayment(s)
    \/ \E n \in Fees \ {0} : fee > 0 /\ SendPaid(n)

-------------------------------------------------------------------------------
(* Properties *)

ChainTypeOK ==
    /\ named \in Seq([spelling : Spellings, accepted : BOOLEAN])
    /\ reported \in {Unread} \cup Wide /\ paid \in Seq(Fees) /\ refused \subseteq 1 .. MaxPaid

\* A task that names a transaction is accepted only if the chain has a transfer in it of at least the
\* fee, of the token where the backend is given one, to the payee where it says who it is, and the
\* transaction succeeded: cutting the amount to 64 bits, or reading the wrong log, never makes it
\* larger.  No two tasks that spell the hash alike are accepted (two spellings are: the lookup comes
\* before the 0x is added).  A task that paid the fee is turned away only if the payer had paid that
\* very amount before: the hash of pay says no more than who is paid and how much.  And balance never
\* reports more than the chain has.
ChainIsReadRight ==
    /\ \A i \in 1 .. Len(named) : named[i].accepted =>
           /\ receipt.state = "mined"
           /\ \E k \in 1 .. Len(receipt.logs) :
               LET l == receipt.logs[k] IN
               /\ l.event = "Transfer" /\ l.amount >= fee
               /\ contract = "any" \/ l.token = "ours"
               /\ account = "any" \/ l.to = Payee
           /\ \A j \in 1 .. i - 1 : named[j].accepted => named[j].spelling # named[i].spelling
    /\ \A i \in refused : paid[i] >= fee => \E j \in 1 .. i - 1 : paid[j] = paid[i]
    /\ reported <= holds
===============================================================================
