---------------------------- MODULE StreamPromise ----------------------------
(***************************************************************************)
(* What streaming promises to the reader of one stream: chunks that were   *)
(* published, more and more of them, and a text from the moment the final  *)
(* chunk is there.                                                         *)
(***************************************************************************)
EXTENDS Naturals

CONSTANT N          \* chunks of the stream

VARIABLES
    published,      \* chunks published so far
    visible,        \* chunks the reader sees
    complete        \* the reader has the text

svars == <<published, visible, complete>>

PInit == published = {} /\ visible = {} /\ complete = FALSE

PublishNext ==
    /\ \E k \in (0..(N - 1)) \ published : published' = published \cup {k}
    /\ UNCHANGED <<visible, complete>>

Reveal ==
    /\ visible \subseteq visible' /\ visible' \subseteq published
    /\ complete' = (N - 1 \in visible')
    /\ UNCHANGED published

Promise == PInit /\ [][PublishNext \/ Reveal]_svars
==============================================================================
