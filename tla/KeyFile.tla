-------------------------------- MODULE KeyFile -------------------------------
(***************************************************************************)
(* The two files that hold the identity of a node: the signing key         *)
(* (node/src/lib.rs from_keyfile) and the X25519 secret beside it          *)
(* (cli/src/common.rs load_or_create_x25519), read by every process that   *)
(* is started with --keyfile, and made by the first one.                   *)
(*                                                                         *)
(* Each is looked for, and then read, or created empty and written.  An    *)
(* empty file cannot be read as a key.  A secret is the process that made  *)
(* it.                                                                     *)
(***************************************************************************)
EXTENDS Integers, FiniteSets

CONSTANT Starts     \* starts of a process

Files == {"keyfile", "x25519"}
Absent == "absent"
Blank == "blank"
Content == Starts \cup {Absent, Blank}

\* A secret is neither of the two things a file without one can be.
ASSUME KeyAssumption == Absent \notin Starts /\ Blank \notin Starts

VARIABLES
    disk,       \* the files
    phase,      \* where each start is: the file it is at and what it does with it, or how it ended
    brief,      \* starts of `trust pubkey`, which needs the signing key alone
    identity,   \* the secrets it holds
    overlapped  \* history: a file was created by a start that did not see another's

keyVars == <<disk, phase, brief, identity, overlapped>>

Doing == {"look", "read", "create", "write"}
Phases_ == (Files \X Doing) \cup ({"node"} \X {"none", "running", "told", "failed"})

KeyInit ==
    /\ disk = [f \in Files |-> Absent]
    /\ phase = [s \in Starts |-> <<"node", "none">>]
    /\ brief = {}
    /\ identity = [s \in Starts |-> [f \in Files |-> Absent]]
    /\ overlapped = FALSE

In(s, f, what) == phase[s] = <<f, what>>
Into(s, f, what) == phase' = [phase EXCEPT ![s] = <<f, what>>]
\* The keyfile comes first, then the secret beside it; `trust pubkey` prints its key and ends.
Onward(s, f) ==
    IF f = "x25519" THEN Into(s, "node", "running")
    ELSE IF s \in brief THEN Into(s, "node", "told") ELSE Into(s, "x25519", "look")
Hold(s, f, k) == identity' = [identity EXCEPT ![s][f] = k]

-------------------------------------------------------------------------------
BuildNode(s) ==
    /\ In(s, "node", "none")
    /\ Into(s, "keyfile", "look")
    /\ UNCHANGED <<disk, brief, identity, overlapped>>

TrustPubkey(s) ==
    /\ In(s, "node", "none")
    /\ Into(s, "keyfile", "look")
    /\ brief' = brief \cup {s}
    /\ UNCHANGED <<disk, identity, overlapped>>

\* Mutant: whether the file exists is not asked.
LookNever(s, f) ==
    /\ In(s, f, "look")
    /\ Into(s, f, "create")
    /\ UNCHANGED <<disk, brief, identity, overlapped>>

Look(s, f) ==
    /\ In(s, f, "look")
    /\ Into(s, f, IF disk[f] = Absent THEN "create" ELSE "read")
    /\ UNCHANGED <<disk, brief, identity, overlapped>>

\* A blank file is no key: the start fails.
Read(s, f) ==
    /\ In(s, f, "read")
    /\ IF disk[f] = Blank
       THEN Into(s, "node", "failed") /\ UNCHANGED identity
       ELSE Onward(s, f) /\ Hold(s, f, disk[f])
    /\ UNCHANGED <<disk, brief, overlapped>>

\* File::create truncates what another start made in the meantime.
Create(s, f) ==
    /\ In(s, f, "create")
    /\ disk' = [disk EXCEPT ![f] = Blank]
    /\ overlapped' = (overlapped \/ \E t \in Starts \ {s} : In(t, f, "create") \/ In(t, f, "write"))
    /\ Into(s, f, "write")
    /\ UNCHANGED <<brief, identity>>

WriteSecret(s, f) ==
    /\ In(s, f, "write")
    /\ disk' = [disk EXCEPT ![f] = s]
    /\ Hold(s, f, s)
    /\ Onward(s, f)
    /\ UNCHANGED <<brief, overlapped>>

Dies(s) ==
    /\ phase[s] \in Files \X Doing
    /\ Into(s, "node", "failed")
    /\ UNCHANGED <<disk, brief, identity, overlapped>>

KeyNext ==
    \E s \in Starts :
        \/ BuildNode(s) \/ TrustPubkey(s) \/ Dies(s)
        \/ \E f \in Files : Look(s, f) \/ Read(s, f) \/ Create(s, f) \/ WriteSecret(s, f)

-------------------------------------------------------------------------------
(* Properties *)

KeyTypeOK ==
    /\ disk \in [Files -> Content]
    /\ phase \in [Starts -> Phases_]
    /\ brief \subseteq Starts
    /\ identity \in [Starts -> [Files -> Content]]
    /\ overlapped \in BOOLEAN

\* Every process that runs has the two secrets the files hold, so restarts and later processes are
\* the same agent to its peers, and the key `trust pubkey` prints is the key of that agent: unless two
\* first starts overlapped.
SameIdentity ==
    ~overlapped =>
        \A s \in Starts :
            /\ In(s, "node", "running") => identity[s] = disk
            /\ In(s, "node", "told") => identity[s]["keyfile"] = disk["keyfile"]
===============================================================================
