---------------------------- MODULE HostStateProofs ---------------------------
(***************************************************************************)
(* What holds of the files and of the state around a node for every number *)
(* of processes, threads and commands, checked by TLAPS: the key files     *)
(* (KeyFile), the node behind the C interfaces (FfiNode), the trust list   *)
(* with its file (TrustStore) and the sessions (Sessions).                 *)
(***************************************************************************)
EXTENDS KeyFile, FfiNode, TrustStore, Sessions, TLAPS

-------------------------------------------------------------------------------
(* The key files *)

KeySpec == KeyInit /\ [][KeyNext]_keyVars

\* What a start knows of a file at each place.  A secret once held is in the file: nobody who looked
\* before it was there is left to truncate it.
Undisturbed ==
    ~overlapped =>
        \A f \in Files : \A s \in Starts :
            /\ In(s, f, "create") => disk[f] = Absent
            /\ In(s, f, "write") =>
                   /\ disk[f] = Blank
                   /\ \A t \in Starts \ {s} : ~In(t, f, "create") /\ ~In(t, f, "write")
            /\ identity[s][f] # Absent => identity[s][f] \in Starts /\ identity[s][f] = disk[f]

\* A file that was there stays there, and who has passed a file holds its secret.
Passed ==
    \A s \in Starts :
        /\ \A f \in Files : In(s, f, "read") => disk[f] # Absent
        /\ In(s, "node", "running") => \A f \in Files : identity[s][f] # Absent
        /\ In(s, "node", "told") => identity[s]["keyfile"] # Absent
        /\ (\E what \in Doing : In(s, "x25519", what)) => identity[s]["keyfile"] # Absent

KeyInv == KeyTypeOK /\ Passed /\ Undisturbed

LEMMA KeyTypes == KeyTypeOK /\ [KeyNext]_keyVars => KeyTypeOK'
<1> SUFFICES ASSUME KeyTypeOK, [KeyNext]_keyVars PROVE KeyTypeOK'
  OBVIOUS
<1> USE DEF KeyTypeOK, In, Into, Hold, Onward, Phases_, Doing, Files
<1>1. ASSUME NEW s \in Starts, BuildNode(s) \/ TrustPubkey(s) \/ Dies(s) PROVE KeyTypeOK'
  BY <1>1 DEF BuildNode, TrustPubkey, Dies
<1>2. ASSUME NEW s \in Starts, NEW f \in Files, Look(s, f) \/ Create(s, f) PROVE KeyTypeOK'
  <2>1. CASE Look(s, f)
    BY <2>1 DEF Look
  <2>2. CASE Create(s, f)
    <3>1. disk' \in [Files -> Content] /\ phase' \in [Starts -> Phases_] /\ UNCHANGED <<brief, identity>>
      BY <2>2 DEF Create, Content
    <3>2. overlapped' \in BOOLEAN
      BY <2>2, Zenon DEF Create
    <3> QED
      BY <3>1, <3>2
  <2> QED
    BY <1>2, <2>1, <2>2
<1>3. ASSUME NEW s \in Starts, NEW f \in Files, Read(s, f) PROVE KeyTypeOK'
  BY <1>3 DEF Read
<1>4. ASSUME NEW s \in Starts, NEW f \in Files, WriteSecret(s, f) PROVE KeyTypeOK'
  BY <1>4 DEF WriteSecret, Content
<1>5. CASE UNCHANGED keyVars
  BY <1>5 DEF keyVars
<1> QED
  BY <1>1, <1>2, <1>3, <1>4, <1>5 DEF KeyNext

LEMMA KeyStepLooks ==
    ASSUME KeyInv, NEW s \in Starts,
           BuildNode(s) \/ TrustPubkey(s) \/ Dies(s) \/ \E f \in Files : Look(s, f)
    PROVE  Passed' /\ Undisturbed'
<1>1. UNCHANGED <<disk, identity, overlapped>> /\ phase \in [Starts -> Phases_]
  BY DEF BuildNode, TrustPubkey, Dies, Look, KeyInv, KeyTypeOK
<1>2. \A t \in Starts \ {s} : phase'[t] = phase[t]
  BY DEF BuildNode, TrustPubkey, Dies, Look, Into, KeyInv, KeyTypeOK
<1>3. \/ phase'[s] = <<"keyfile", "look">>
      \/ phase'[s] = <<"node", "failed">>
      \/ \E f \in Files : /\ phase[s] = <<f, "look">>
                          /\ phase'[s] = <<f, IF disk[f] = Absent THEN "create" ELSE "read">>
  BY <1>1 DEF BuildNode, TrustPubkey, Dies, Look, Into, In
<1>4. Passed'
  <2> SUFFICES ASSUME NEW t \in Starts
               PROVE  /\ \A f \in Files : In(t, f, "read")' => disk[f] # Absent
                      /\ In(t, "node", "running")' => \A f \in Files : identity[t][f] # Absent
                      /\ In(t, "node", "told")' => identity[t]["keyfile"] # Absent
                      /\ (\E what \in Doing : In(t, "x25519", what)') => identity[t]["keyfile"] # Absent
    BY <1>1 DEF Passed, In
  <2>1. CASE t # s
    BY <1>2, <2>1 DEF KeyInv, Passed, In
  <2>2. CASE t = s
    BY <1>3, <2>2 DEF KeyInv, Passed, In, Doing, Files
  <2> QED
    BY <2>1, <2>2
<1>5. Undisturbed'
  <2> SUFFICES ASSUME ~overlapped, NEW f \in Files, NEW t \in Starts
               PROVE  /\ In(t, f, "create")' => disk[f] = Absent
                      /\ In(t, f, "write")' =>
                             /\ disk[f] = Blank
                             /\ \A u \in Starts \ {t} : ~In(u, f, "create")' /\ ~In(u, f, "write")'
                      /\ identity[t][f] # Absent =>
                             identity[t][f] \in Starts /\ identity[t][f] = disk[f]
    BY <1>1 DEF Undisturbed, In
  <2>1. \A u \in Starts : In(u, f, "write")' => In(u, f, "write") /\ u # s
    BY <1>2, <1>3 DEF In, Files
  <2>2. \A u \in Starts : In(u, f, "create")' => In(u, f, "create") \/ disk[f] = Absent
    BY <1>2, <1>3 DEF In, Files
  <2>3. Absent # Blank
    BY DEF Absent, Blank
  <2> QED
    BY <2>1, <2>2, <2>3 DEF KeyInv, Undisturbed
<1> QED
  BY <1>4, <1>5

\* The step to the next file, or past both.
LEMMA OnwardLemma ==
    ASSUME KeyTypeOK, NEW s \in Starts, NEW f \in Files, Onward(s, f)
    PROVE  /\ \A t \in Starts \ {s} : phase'[t] = phase[t]
           /\ phase'[s] \in {<<"node", "running">>, <<"node", "told">>, <<"x25519", "look">>}
           /\ f = "keyfile" => phase'[s] # <<"node", "running">>
  BY DEF KeyTypeOK, Onward, Into, Files

\* Reading a secret.
LEMMA KeyStepRead ==
    ASSUME KeyInv, NEW s \in Starts, NEW f \in Files, Read(s, f)
    PROVE  Passed' /\ Undisturbed'
<1>1. CASE disk[f] = Blank
  <2>1. UNCHANGED <<disk, identity, overlapped>>
    BY <1>1 DEF Read
  <2>2. \A t \in Starts : phase'[t] = IF t = s THEN <<"node", "failed">> ELSE phase[t]
    BY <1>1 DEF Read, Into, KeyInv, KeyTypeOK
  <2>3. Passed'
    BY <2>1, <2>2 DEF KeyInv, Passed, In, Doing, Files
  <2>4. Undisturbed'
    BY <2>1, <2>2 DEF KeyInv, Undisturbed, In, Doing, Files
  <2> QED
    BY <2>3, <2>4
<1>2. CASE disk[f] # Blank
  <2>1. UNCHANGED <<disk, overlapped>> /\ Onward(s, f) /\ phase[s] = <<f, "read">>
    BY <1>2 DEF Read, In
  <2>2. disk[f] \in Starts
    BY <1>2, <2>1 DEF KeyInv, KeyTypeOK, Content, Passed, In
  <2>3. /\ identity'[s][f] = disk[f]
        /\ \A g \in Files : g # f => identity'[s][g] = identity[s][g]
        /\ \A t \in Starts \ {s} : identity'[t] = identity[t]
    BY <1>2 DEF Read, Hold, KeyInv, KeyTypeOK
  <2>4. /\ \A t \in Starts \ {s} : phase'[t] = phase[t]
        /\ phase'[s] \in {<<"node", "running">>, <<"node", "told">>, <<"x25519", "look">>}
        /\ f = "keyfile" => phase'[s] # <<"node", "running">>
    BY <2>1, OnwardLemma DEF KeyInv
  <2>5. Absent \notin Starts
    BY KeyAssumption
  <2>6. Passed'
    <3>1. ASSUME NEW t \in Starts \ {s}, NEW what, NEW g PROVE In(t, g, what)' <=> In(t, g, what)
      BY <2>4 DEF In
    <3>2. f = "x25519" => identity[s]["keyfile"] # Absent
      BY <2>1 DEF KeyInv, Passed, In, Doing
    <3>3. /\ \A g \in Files : ~In(s, g, "read")'
          /\ In(s, "node", "running")' => f = "x25519"
      BY <2>4 DEF In, Files
    <3>4. identity'[s]["keyfile"] # Absent /\ (f = "x25519" => identity'[s]["x25519"] # Absent)
      BY <2>2, <2>3, <2>5, <3>2 DEF Files
    <3>5. disk' = disk
      BY <2>1
    <3> QED
      BY <2>3, <3>1, <3>3, <3>4, <3>5 DEF KeyInv, Passed, Files
  <2>7. Undisturbed'
    <3> SUFFICES ASSUME ~overlapped, NEW g \in Files, NEW t \in Starts
                 PROVE  /\ In(t, g, "create")' => disk[g] = Absent
                        /\ In(t, g, "write")' =>
                             /\ disk[g] = Blank
                             /\ \A u \in Starts \ {t} : ~In(u, g, "create")' /\ ~In(u, g, "write")'
                        /\ identity'[t][g] # Absent =>
                             identity'[t][g] \in Starts /\ identity'[t][g] = disk[g]
      BY <2>1 DEF Undisturbed, In
    <3>1. \A u \in Starts : /\ In(u, g, "write")' => In(u, g, "write")
                            /\ In(u, g, "create")' => In(u, g, "create")
      BY <2>4 DEF In, Files
    <3>2. identity'[t][g] = identity[t][g] \/ (identity'[t][g] = disk[g] /\ disk[g] \in Starts)
      BY <2>2, <2>3
    <3> QED
      BY <3>1, <3>2 DEF KeyInv, Undisturbed
  <2> QED
    BY <2>6, <2>7
<1> QED
  BY <1>1, <1>2

\* File::create: without overlap nobody holds the secret that is truncated, for there is none.
LEMMA KeyStepCreate ==
    ASSUME KeyInv, NEW s \in Starts, NEW f \in Files, Create(s, f)
    PROVE  Passed' /\ Undisturbed'
<1>1. /\ disk' = [disk EXCEPT ![f] = Blank] /\ identity' = identity /\ phase[s] = <<f, "create">>
      /\ disk'[f] = Blank /\ \A g \in Files : g # f => disk'[g] = disk[g]
  BY DEF Create, In, KeyInv, KeyTypeOK
<1>2. \A t \in Starts : phase'[t] = IF t = s THEN <<f, "write">> ELSE phase[t]
  BY DEF Create, Into, KeyInv, KeyTypeOK
<1>3. ~overlapped' => ~overlapped /\ \A t \in Starts \ {s} : ~In(t, f, "create") /\ ~In(t, f, "write")
  BY Zenon DEF Create
<1>4. Absent # Blank /\ Blank \notin Starts /\ Absent \notin Starts
  BY KeyAssumption DEF Absent, Blank
<1>5. Passed'
  <2>1. f = "x25519" => identity[s]["keyfile"] # Absent
    BY <1>1 DEF KeyInv, Passed, In, Doing
  <2>2. ASSUME NEW t \in Starts, NEW g \in Files, In(t, g, "read")' PROVE disk'[g] # Absent
    BY <1>1, <1>2, <1>4, <2>2 DEF KeyInv, Passed, In
  <2> QED
    BY <1>1, <1>2, <2>1, <2>2 DEF KeyInv, Passed, In, Doing, Files
<1>6. Undisturbed'
  <2> SUFFICES ASSUME ~overlapped', NEW g \in Files, NEW t \in Starts
               PROVE  /\ In(t, g, "create")' => disk'[g] = Absent
                      /\ In(t, g, "write")' =>
                             /\ disk'[g] = Blank
                             /\ \A u \in Starts \ {t} : ~In(u, g, "create")' /\ ~In(u, g, "write")'
                      /\ identity[t][g] # Absent =>
                             identity[t][g] \in Starts /\ identity[t][g] = disk'[g]
    BY <1>1 DEF Undisturbed
  <2>1. CASE g = f
    <3>1. \A u \in Starts \ {s} : ~In(u, f, "create")' /\ ~In(u, f, "write")'
      BY <1>2, <1>3 DEF In
    <3>2. ~In(s, f, "create")'
      BY <1>2 DEF In
    <3>3. identity[t][f] = Absent
      BY <1>1, <1>3, <1>4 DEF KeyInv, Undisturbed, In
    <3> QED
      BY <1>1, <2>1, <3>1, <3>2, <3>3
  <2>2. CASE g # f
    <3>1. \A u \in Starts, what \in Doing : In(u, g, what)' <=> In(u, g, what)
      BY <1>1, <1>2, <2>2 DEF In
    <3> QED
      BY <1>1, <1>3, <2>2, <3>1 DEF KeyInv, Undisturbed, Doing
  <2> QED
    BY <2>1, <2>2
<1> QED
  BY <1>5, <1>6

\* The secret is written into the blank file, which without overlap is still the writer's own.
LEMMA KeyStepWrite ==
    ASSUME KeyInv, NEW s \in Starts, NEW f \in Files, WriteSecret(s, f)
    PROVE  Passed' /\ Undisturbed'
<1>1. /\ Onward(s, f) /\ overlapped' = overlapped /\ phase[s] = <<f, "write">>
      /\ disk'[f] = s /\ \A g \in Files : g # f => disk'[g] = disk[g]
  BY DEF WriteSecret, In, KeyInv, KeyTypeOK
<1>2. /\ identity'[s][f] = s
      /\ \A g \in Files : g # f => identity'[s][g] = identity[s][g]
      /\ \A t \in Starts \ {s} : identity'[t] = identity[t]
  BY DEF WriteSecret, Hold, KeyInv, KeyTypeOK
<1>3. /\ \A t \in Starts \ {s} : phase'[t] = phase[t]
      /\ phase'[s] \in {<<"node", "running">>, <<"node", "told">>, <<"x25519", "look">>}
      /\ f = "keyfile" => phase'[s] # <<"node", "running">>
  BY <1>1, OnwardLemma DEF KeyInv
<1>4. Absent # Blank /\ Blank \notin Starts /\ Absent \notin Starts
  BY KeyAssumption DEF Absent, Blank
<1>5. Passed'
  <2>1. ASSUME NEW t \in Starts \ {s}, NEW what, NEW g PROVE In(t, g, what)' <=> In(t, g, what)
    BY <1>3 DEF In
  <2>2. f = "x25519" => identity[s]["keyfile"] # Absent
    BY <1>1 DEF KeyInv, Passed, In, Doing
  <2>3. /\ \A g \in Files : ~In(s, g, "read")'
        /\ In(s, "node", "running")' => f = "x25519"
    BY <1>3 DEF In, Files
  <2>4. identity'[s]["keyfile"] # Absent /\ (f = "x25519" => identity'[s]["x25519"] # Absent)
    BY <1>2, <1>4, <2>2 DEF Files
  <2>5. \A g \in Files : disk[g] # Absent => disk'[g] # Absent
    BY <1>1, <1>4
  <2> QED
    BY <1>2, <2>1, <2>3, <2>4, <2>5 DEF KeyInv, Passed, Files
<1>6. Undisturbed'
  <2> SUFFICES ASSUME ~overlapped, NEW g \in Files, NEW t \in Starts
               PROVE  /\ In(t, g, "create")' => disk'[g] = Absent
                      /\ In(t, g, "write")' =>
                             /\ disk'[g] = Blank
                             /\ \A u \in Starts \ {t} : ~In(u, g, "create")' /\ ~In(u, g, "write")'
                      /\ identity'[t][g] # Absent =>
                             identity'[t][g] \in Starts /\ identity'[t][g] = disk'[g]
    BY <1>1 DEF Undisturbed
  <2>1. \A u \in Starts : /\ In(u, g, "write")' => In(u, g, "write") /\ u # s
                          /\ In(u, g, "create")' => In(u, g, "create") /\ u # s
    BY <1>3 DEF In, Files
  <2>2. CASE g = f
    <3>1. \A u \in Starts \ {s} : ~In(u, f, "create") /\ ~In(u, f, "write")
      BY <1>1 DEF KeyInv, Undisturbed, In
    <3>2. \A u \in Starts : identity[u][f] = Absent
      BY <1>1, <1>4 DEF KeyInv, Undisturbed, In
    <3> QED
      BY <1>1, <1>2, <2>1, <2>2, <3>1, <3>2
  <2>3. CASE g # f
    <3>1. disk'[g] = disk[g] /\ identity'[t][g] = identity[t][g]
      BY <1>1, <1>2, <2>3, Zenon
    <3>2. /\ In(t, g, "create") => disk[g] = Absent
          /\ In(t, g, "write") =>
                 /\ disk[g] = Blank
                 /\ \A u \in Starts \ {t} : ~In(u, g, "create") /\ ~In(u, g, "write")
          /\ identity[t][g] # Absent => identity[t][g] \in Starts /\ identity[t][g] = disk[g]
      BY Zenon DEF KeyInv, Undisturbed
    <3> QED
      BY <2>1, <3>1, <3>2, Zenon
  <2> QED
    BY <2>2, <2>3
<1> QED
  BY <1>5, <1>6

\* Unless two first starts overlap, every process that runs holds the two secrets that from_keyfile
\* and load_or_create_x25519 have left in the files, whoever wrote them and whoever died on the way,
\* and the key `trust pubkey` prints is the one in the file.
THEOREM SameIdentityHolds == KeySpec => []SameIdentity
<1>1. KeyInit => KeyInv
  <2> SUFFICES ASSUME KeyInit PROVE KeyInv
    OBVIOUS
  <2>1. KeyTypeOK
    BY Zenon DEF KeyInit, KeyTypeOK, Content, Phases_
  <2>2. Passed /\ Undisturbed
    BY DEF KeyInit, Passed, Undisturbed, In, Doing, Files
  <2> QED
    BY <2>1, <2>2 DEF KeyInv
<1>2. KeyInv /\ [KeyNext]_keyVars => KeyInv'
  <2> SUFFICES ASSUME KeyInv, [KeyNext]_keyVars PROVE KeyInv'
    OBVIOUS
  <2>1. CASE UNCHANGED keyVars
    BY <2>1 DEF keyVars, KeyInv, KeyTypeOK, Passed, Undisturbed, In
  <2>2. CASE KeyNext
    BY <2>2, KeyTypes, KeyStepLooks, KeyStepRead, KeyStepCreate, KeyStepWrite DEF KeyNext, KeyInv
  <2> QED
    BY <2>1, <2>2
<1>3. KeyInv => SameIdentity
  <2> SUFFICES ASSUME KeyInv, ~overlapped, NEW s \in Starts
               PROVE  /\ In(s, "node", "running") => identity[s] = disk
                      /\ In(s, "node", "told") => identity[s]["keyfile"] = disk["keyfile"]
    BY DEF SameIdentity
  <2>1. identity[s] \in [Files -> Content] /\ disk \in [Files -> Content]
    BY DEF KeyInv, KeyTypeOK
  <2>2. \A f \in Files : identity[s][f] # Absent => identity[s][f] = disk[f]
    BY DEF KeyInv, Undisturbed
  <2>3. In(s, "node", "running") => \A f \in Files : identity[s][f] = disk[f]
    BY <2>2 DEF KeyInv, Passed
  <2>4. In(s, "node", "told") => identity[s]["keyfile"] = disk["keyfile"]
    BY <2>2 DEF KeyInv, Passed, Files
  <2> QED
    BY <2>1, <2>3, <2>4
<1> QED
  BY <1>1, <1>2, <1>3, PTL DEF KeySpec

-------------------------------------------------------------------------------
(* The node behind the C interfaces *)

FfiSpec == FfiInit /\ [][FfiNext]_ffiVars

\* Where a thread is, and what it may hold there.
ThreadInv ==
    \A t \in HostThreads :
        /\ inCall[t] = "none" <=> stage[t] = "out"
        /\ owns[t] => stage[t] = "back"
        /\ inCall[t] \in {"init", "shutdown"} => api = "waku" /\ stage[t] # "work"
        /\ stage[t] = "work" => using[t] = slot /\ slot # 0
        /\ stage[t] = "work" /\ api = "waku" => holder = t
        /\ stage[t] = "make" => api = "lmao" /\ holder = t /\ slot = 0 /\ made = 1
        /\ inCall[t] = "init" => using[t] \in 1..made

\* The OnceLock: one node, in place once it was announced.
OnceLock ==
    api = "lmao" =>
        /\ made <= 1
        /\ slot # 0 => slot = made /\ slot \in presented
        /\ holder = NobodyHolds /\ slot = 0 => made = 0

FfiInv == FfiTypeOK /\ ThreadInv /\ OnceLock

LEMMA FfiStep ==
    ASSUME FfiInv, NEW t \in HostThreads,
           \/ \E what \in LmaoCalls \cup WakuCalls : HostCalls(t, what)
           \/ ReturnEarly(t) \/ LmaoReturns(t) \/ CallFfiStr(t)
    PROVE  FfiInv'
<1> USE FfiAssumption DEF FfiInv, FfiTypeOK, LmaoCalls, WakuCalls
<1>1. ASSUME NEW what \in LmaoCalls \cup WakuCalls, HostCalls(t, what) PROVE FfiInv'
  BY <1>1 DEF HostCalls, ThreadInv, OnceLock
<1>2. CASE ReturnEarly(t)
  BY <1>2 DEF ReturnEarly, Finish, ThreadInv, OnceLock
<1>3. CASE LmaoReturns(t)
  BY <1>3 DEF LmaoReturns, Finish, ThreadInv, OnceLock
<1>4. CASE CallFfiStr(t)
  BY <1>4 DEF CallFfiStr, ThreadInv, OnceLock
<1> QED
  BY <1>1, <1>2, <1>3, <1>4

LEMMA FfiMake ==
    ASSUME FfiInv, NEW t \in HostThreads, GetOrInitNode(t) \/ Present(t)
    PROVE  FfiInv'
<1> USE FfiAssumption DEF FfiInv, FfiTypeOK, LmaoCalls, WakuCalls
<1>1. CASE GetOrInitNode(t) /\ slot # 0
  BY <1>1 DEF GetOrInitNode, Work, ThreadInv, OnceLock
<1>2. CASE GetOrInitNode(t) /\ slot = 0
  BY <1>2 DEF GetOrInitNode, ThreadInv, OnceLock
<1>3. CASE Present(t)
  BY <1>3 DEF Present, Work, ThreadInv, OnceLock
<1> QED
  BY <1>1, <1>2, <1>3

LEMMA FfiWaku ==
    ASSUME FfiInv, NEW t \in HostThreads,
           WakuNewNode(t) \/ WakuInit(t) \/ WakuShutdown(t) \/ WakuLock(t) \/ WakuReturns(t)
    PROVE  FfiInv'
<1> USE FfiAssumption DEF FfiInv, FfiTypeOK, LmaoCalls, WakuCalls
<1>1. CASE WakuNewNode(t)
  BY <1>1 DEF WakuNewNode, ThreadInv, OnceLock
<1>2. CASE WakuInit(t)
  BY <1>2 DEF WakuInit, Finish, ThreadInv, OnceLock
<1>3. CASE WakuShutdown(t)
  BY <1>3 DEF WakuShutdown, Finish, ThreadInv, OnceLock
<1>4. CASE WakuLock(t)
  <2>1. CASE slot = 0
    BY <1>4, <2>1, Zenon DEF WakuLock, Finish, ThreadInv, OnceLock
  <2>2. CASE slot # 0
    <3>1. /\ api = "waku" /\ holder = NobodyHolds /\ holder' = t
          /\ stage' = [stage EXCEPT ![t] = "work"] /\ using' = [using EXCEPT ![t] = slot]
          /\ inCall[t] \in {"text", "code"} /\ stage[t] = "in"
          /\ UNCHANGED <<api, slot, made, presented, inCall, owns>>
      BY <1>4, <2>2, Zenon DEF WakuLock, Work
    <3>2. FfiTypeOK' /\ OnceLock'
      BY <3>1 DEF OnceLock
    <3>3. ThreadInv'
      BY <2>2, <3>1 DEF ThreadInv
    <3> QED
      BY <3>2, <3>3
  <2> QED
    BY <2>1, <2>2
<1>5. CASE WakuReturns(t)
  BY <1>5 DEF WakuReturns, Finish, ThreadInv, OnceLock
<1> QED
  BY <1>1, <1>2, <1>3, <1>4, <1>5, Zenon

\* A call works with the node that is in place, so waku_a2a_shutdown and a second waku_a2a_init
\* return only when nobody uses the node they drop; get_or_init_node makes one node and announces it
\* before any call has it; and a host in no call owes no string, however its threads interleave.
THEOREM NodeInUseIsCurrentHolds == FfiSpec => []NodeInUseIsCurrent
<1>1. FfiInit => FfiInv
  BY FfiAssumption DEF FfiInit, FfiInv, FfiTypeOK, ThreadInv, OnceLock, LmaoCalls, WakuCalls
<1>2. FfiInv /\ [FfiNext]_ffiVars => FfiInv'
  <2> SUFFICES ASSUME FfiInv, [FfiNext]_ffiVars PROVE FfiInv'
    OBVIOUS
  <2>1. CASE UNCHANGED ffiVars
    BY <2>1 DEF ffiVars, FfiInv, FfiTypeOK, ThreadInv, OnceLock
  <2>2. CASE FfiNext
    BY <2>2, FfiStep, FfiMake, FfiWaku DEF FfiNext
  <2> QED
    BY <2>1, <2>2
<1>3. FfiInv => NodeInUseIsCurrent
  BY DEF FfiInv, ThreadInv, OnceLock, NodeInUseIsCurrent
<1> QED
  BY <1>1, <1>2, <1>3, PTL DEF FfiSpec

-------------------------------------------------------------------------------
(* The trust list and its file *)

TrustSpec == TrustInit /\ [][TrustNext]_trustVars

LEMMA OpFields ==
    ASSUME NEW o \in Op
    PROVE  /\ o.kind \in {"add", "remove", "import", "mode", "list", "export"}
           /\ o.kind \in {"add", "remove", "import"} => o.peer \in Peers
           /\ o.kind = "mode" => o.mode \in TrustMode
  BY DEF Op

\* A list that names peers is off only if somebody asked for that.
Honest(list, asked) == list.peers # {} /\ list.mode = "Off" => asked

LEMMA ListFields ==
    ASSUME NEW list \in TrustList
    PROVE  /\ list.mode \in TrustMode /\ list.peers \subseteq Peers
           /\ list = [mode |-> list.mode, peers |-> list.peers]
           /\ list = Empty <=> list.mode = "Off" /\ list.peers = {}
  BY DEF TrustList, Empty

LEMMA EmptyLemma == Empty \in TrustList /\ Empty.peers = {}
  BY DEF Empty, TrustList, TrustMode

\* add, remove, merge and a new mode give a list, which is honest if the one before was.
LEMMA ApplyLemma ==
    ASSUME NEW o \in Op, ~Shows(o), NEW list \in TrustList, NEW asked, Honest(list, asked)
    PROVE  /\ Apply(o, list) \in TrustList
           /\ Honest(Apply(o, list), asked \/ AsksOff(o))
<1>1. o.kind \in {"add", "remove", "import", "mode"}
  BY OpFields DEF Shows
<1>2. CASE o.kind = "add"
  <2>1. Apply(o, list) = [mode |-> IF list = Empty THEN "Enforce" ELSE list.mode,
                          peers |-> list.peers \cup {o.peer}]
    BY <1>2, Zenon DEF Apply, FirstAdd, AddTo, TrustList
  <2>2. o.peer \in Peers
    BY <1>2, OpFields
  <2> QED
    BY <2>1, <2>2, ListFields DEF Honest, TrustList, TrustMode
<1>3. CASE o.kind = "remove"
  <2>1. Apply(o, list) = [mode |-> list.mode, peers |-> list.peers \ {o.peer}]
    BY <1>3 DEF Apply, RemoveFrom, TrustList
  <2> QED
    BY <2>1, ListFields DEF Honest, TrustList, TrustMode
<1>4. CASE o.kind = "mode"
  <2>1. Apply(o, list) = [mode |-> o.mode, peers |-> list.peers]
    BY <1>4 DEF Apply, TrustList
  <2> QED
    BY <1>4, <2>1, ListFields, OpFields DEF Honest, AsksOff, TrustList
<1>5. CASE o.kind = "import"
  <2>1. Apply(o, list) = [mode |-> list.mode, peers |-> list.peers \cup {o.peer}]
    BY <1>5 DEF Apply, Merge, TrustList
  <2> QED
    BY <1>5, <2>1, ListFields, OpFields DEF Honest, AsksOff, TrustList
<1> QED
  BY <1>1, <1>2, <1>3, <1>4, <1>5

\* A handler that has changed the list of the daemon, or may have, and has not saved it yet.
Unsaved(c) ==
    step[c] \in {"persist", "saving"} \/ (step[c] = "mutate" /\ op[c].kind = "add")

\* The list of the daemon and its file.
Saved ==
    /\ starts > 0 /\ ~tainted /\ (\A c \in Cmds : ~Unsaved(c)) => file = mem
    /\ \A c \in Cmds :
        /\ step[c] = "saving" => view[c] = mem
        /\ step[c] = "write" => tainted
        /\ ~up => step[c] \notin {"bump", "mutate", "persist", "saving"}

\* The mode: a handler that is about to add finds the list on, or somebody asked for Off.
ModeKept ==
    /\ Honest(mem, offAsked) /\ Honest(file, offAsked)
    /\ \A c \in Cmds :
        /\ Honest(view[c], offAsked)
        /\ step[c] \in {"edit", "write"} => ~Shows(op[c])
        /\ step[c] = "bump" => op[c].kind = "add"
        /\ step[c] = "mutate" /\ op[c].kind = "add" => mem.mode # "Off" \/ offAsked

TrustTypes ==
    /\ op \in [Cmds -> Op]
    /\ step \in [Cmds -> Handling \cup {"start", "load", "edit", "write", "bump", "done", "failed"}]
    /\ view \in [Cmds -> TrustList] /\ mem \in TrustList /\ file \in TrustList
    /\ up \in BOOLEAN /\ starts \in Nat
    /\ tainted \in BOOLEAN /\ offAsked \in BOOLEAN

TrustInv == TrustTypes /\ Saved /\ ModeKept

\* The steps of a command that only read.
LEMMA TrustReads ==
    ASSUME TrustInv, NEW c \in Cmds,
           \/ Probe(c) \/ RequestFails(c) \/ LoadFrom(c) \/ List(c) \/ Export(c)
           \/ ListViaDaemon(c) \/ Snapshot(c)
    PROVE  TrustInv'
<1> USE DEF TrustInv, TrustTypes, At, Go, Handling
<1>1. CASE Probe(c) \/ RequestFails(c)
  <2>1. /\ UNCHANGED <<op, view, mem, up, starts, file, tainted, offAsked>>
        /\ step[c] \in {"start", "snapshot"}
        /\ \E s \in {"snapshot", "load", "failed"} : step' = [step EXCEPT ![c] = s]
    BY <1>1 DEF Probe, RequestFails
  <2>2. /\ step' \in [Cmds -> Handling \cup {"start", "load", "edit", "write", "bump", "done", "failed"}]
        /\ step'[c] \in {"snapshot", "load", "failed"} /\ \A d \in Cmds \ {c} : step'[d] = step[d]
    BY <2>1
  <2>3. Saved'
    BY <2>1, <2>2 DEF Saved, Unsaved
  <2>4. ModeKept'
    BY <2>1, <2>2 DEF ModeKept
  <2> QED
    BY <2>1, <2>2, <2>3, <2>4
<1>2. CASE LoadFrom(c)
  BY <1>2, Zenon DEF LoadFrom, Saved, Unsaved, ModeKept
<1>3. CASE List(c) \/ Export(c) \/ ListViaDaemon(c)
  <2>1. /\ UNCHANGED <<op, mem, file, up, starts, tainted, offAsked>>
        /\ step' = [step EXCEPT ![c] = "done"] /\ step[c] \in {"load", "snapshot"}
        /\ \E v \in {mem, file} : view' = [view EXCEPT ![c] = v]
    BY <1>3, Zenon DEF List, Export, ListViaDaemon, TrustSnapshot
  <2>2. /\ \A d \in Cmds : d # c => step'[d] = step[d] /\ view'[d] = view[d]
        /\ step'[c] = "done" /\ view'[c] \in {mem, file}
    BY <2>1
  <2>3. TrustTypes'
    BY <2>1
  <2>4. Saved'
    BY <2>1, <2>2 DEF Saved, Unsaved
  <2>5. ModeKept'
    BY <2>1, <2>2 DEF ModeKept
  <2> QED
    BY <2>3, <2>4, <2>5
<1>4. CASE Snapshot(c)
  <2>1. /\ step[c] = "snapshot" /\ up /\ UNCHANGED <<op, mem, up, starts, file, tainted, offAsked>>
        /\ view' = [view EXCEPT ![c] = mem]
        /\ \A d \in Cmds : d # c => step'[d] = step[d]
        /\ step' \in [Cmds -> Handling \cup {"start", "load", "edit", "write", "bump", "done", "failed"}]
        /\ \/ step'[c] = "bump" /\ op[c].kind = "add"
           \/ step'[c] = "done"
           \/ step'[c] = "mutate" /\ (op[c].kind = "add" => mem # Empty)
    BY <1>4, Zenon DEF Snapshot
  <2>2. mem # Empty => mem.mode # "Off" \/ offAsked
    BY ListFields DEF ModeKept, Honest
  <2>3. TrustTypes'
    BY <2>1
  <2>4. Saved'
    BY <2>1 DEF Saved, Unsaved
  <2>5. ModeKept'
    BY <2>1, <2>2 DEF ModeKept
  <2> QED
    BY <2>3, <2>4, <2>5
<1> QED
  BY <1>1, <1>2, <1>3, <1>4

\* The steps of a command that edits the file itself.
LEMMA TrustEdits ==
    ASSUME TrustInv, NEW c \in Cmds, SaveTo(c) \/ WriteFile(c)
    PROVE  TrustInv'
<1> USE DEF TrustInv, TrustTypes, At, Go, Handling
<1>1. CASE SaveTo(c)
  BY <1>1, EmptyLemma, Zenon DEF SaveTo, Saved, Unsaved, ModeKept, Honest
<1>2. CASE WriteFile(c)
  <2>1. Apply(op[c], view[c]) \in TrustList /\ Honest(Apply(op[c], view[c]), offAsked \/ AsksOff(op[c]))
    BY <1>2, ApplyLemma DEF WriteFile, ModeKept
  <2>2. /\ step[c] = "write" /\ tainted' = TRUE /\ step' = [step EXCEPT ![c] = "done"]
        /\ UNCHANGED <<op, view, mem, up, starts>>
        /\ (offAsked => offAsked') /\ offAsked' \in BOOLEAN
        /\ file' \in TrustList /\ Honest(file', offAsked')
    BY <1>2, <2>1, Zenon DEF WriteFile, ModeKept, Honest, AsksOff
  <2>3. TrustTypes' /\ Saved'
    BY <2>2 DEF Saved, Unsaved
  <2>4. ModeKept'
    BY <2>2, Zenon DEF ModeKept, Honest
  <2> QED
    BY <2>3, <2>4
<1> QED
  BY <1>1, <1>2

\* The steps of a handler that change the list of the daemon: no save is in progress.
LEMMA TrustListChanges ==
    ASSUME TrustInv, NEW c \in Cmds,
           TrustSetMode(c) \/ TrustAdd(c) \/ TrustRemove(c) \/ TrustModeSet(c)
    PROVE  TrustInv'
<1> USE DEF TrustInv, TrustTypes, At, Go, Handling
<1>1. /\ up /\ \A d \in Cmds : step[d] # "saving"
      /\ UNCHANGED <<op, view, up, starts, file, tainted>>
      /\ \A d \in Cmds : d # c => step'[d] = step[d]
  BY DEF TrustSetMode, TrustAdd, TrustRemove, TrustModeSet, Writable
<1>2. CASE TrustSetMode(c)
  <2>1. /\ mem' = [mode |-> "Enforce", peers |-> mem.peers]
        /\ step[c] = "bump" /\ step' = [step EXCEPT ![c] = "mutate"] /\ offAsked' = offAsked
    BY <1>2 DEF TrustSetMode, TrustList
  <2>2. TrustTypes'
    BY <1>1, <2>1, ListFields DEF TrustList, TrustMode
  <2>3. Saved'
    BY <1>1, <2>1 DEF Saved, Unsaved, ModeKept
  <2>4. ModeKept'
    BY <1>1, <2>1, Zenon DEF ModeKept, Honest
  <2> QED
    BY <2>2, <2>3, <2>4
<1>3. CASE TrustAdd(c)
  <2>1. /\ mem' = [mode |-> mem.mode, peers |-> mem.peers \cup {op[c].peer}]
        /\ step[c] = "mutate" /\ op[c].kind = "add"
        /\ step' = [step EXCEPT ![c] = "persist"] /\ offAsked' = offAsked
    BY <1>3, Zenon DEF TrustAdd, AddTo, TrustList
  <2>2. TrustTypes'
    BY <1>1, <2>1, ListFields, OpFields DEF TrustList
  <2>3. Saved'
    BY <1>1, <2>1 DEF Saved, Unsaved
  <2>4. ModeKept'
    BY <1>1, <2>1, Zenon DEF ModeKept, Honest
  <2> QED
    BY <2>2, <2>3, <2>4
<1>4. CASE TrustRemove(c)
  <2>1. /\ mem' = [mode |-> mem.mode, peers |-> mem.peers \ {op[c].peer}]
        /\ step[c] = "mutate" /\ op[c].kind = "remove" /\ offAsked' = offAsked
        /\ step' = [step EXCEPT ![c] = IF op[c].peer \in mem.peers THEN "persist" ELSE "failed"]
    BY <1>4, Zenon DEF TrustRemove, Apply, RemoveFrom, TrustList
  <2>2. TrustTypes'
    BY <1>1, <2>1, ListFields DEF TrustList
  <2>3. op[c].peer \notin mem.peers => mem' = mem
    <3>1. op[c].peer \notin mem.peers => mem.peers \ {op[c].peer} = mem.peers
      BY Zenon
    <3> QED
      BY <2>1, <3>1, ListFields
  <2>4. Saved'
    <3>1. CASE op[c].peer \in mem.peers
      BY <1>1, <2>1, <3>1 DEF Saved, Unsaved
    <3>2. CASE op[c].peer \notin mem.peers
      <4>1. \A d \in Cmds : Unsaved(d)' <=> Unsaved(d)
        BY <1>1, <2>1, <3>2, Zenon DEF Unsaved
      <4>2. \A d \in Cmds : step'[d] # "saving" /\ (step'[d] = "write" => step[d] = "write")
        BY <1>1, <2>1, <3>2, Zenon
      <4> QED
        BY <1>1, <2>3, <3>2, <4>1, <4>2, Zenon DEF Saved
    <3> QED
      BY <3>1, <3>2, Zenon
  <2>5. ModeKept'
    BY <1>1, <2>1, Zenon DEF ModeKept, Honest
  <2> QED
    BY <2>2, <2>4, <2>5
<1>5. CASE TrustModeSet(c)
  <2>1. /\ mem' = [mode |-> op[c].mode, peers |-> mem.peers]
        /\ step[c] = "mutate" /\ op[c].kind = "mode" /\ op[c].mode \in TrustMode
        /\ step' = [step EXCEPT ![c] = "persist"]
        /\ offAsked' = (offAsked \/ op[c].mode = "Off")
    BY <1>5, OpFields DEF TrustModeSet, Apply, AsksOff, TrustList
  <2>2. TrustTypes'
    BY <1>1, <2>1, ListFields, Zenon DEF TrustList
  <2>3. Saved'
    BY <1>1, <2>1 DEF Saved, Unsaved
  <2>4. ModeKept'
    BY <1>1, <2>1, Zenon DEF ModeKept, Honest
  <2> QED
    BY <2>2, <2>3, <2>4
<1> QED
  BY <1>2, <1>3, <1>4, <1>5

\* The save of a handler, and the daemon.
LEMMA TrustSaves ==
    ASSUME TrustInv, NEW c \in Cmds, Persist(c) \/ PersistFails(c) \/ Persisted(c)
    PROVE  TrustInv'
<1> USE DEF TrustInv, TrustTypes, At, Go, Handling
<1>1. CASE Persist(c)
  BY <1>1, EmptyLemma, Zenon DEF Persist, Saved, Unsaved, ModeKept, Honest
<1>2. CASE PersistFails(c)
  BY <1>2, Zenon DEF PersistFails, Saved, Unsaved, ModeKept
<1>3. CASE Persisted(c)
  BY <1>3, Zenon DEF Persisted, Saved, Unsaved, ModeKept
<1> QED
  BY <1>1, <1>2, <1>3

LEMMA TrustDaemon ==
    ASSUME TrustInv, Start \/ Stop
    PROVE  TrustInv'
<1> USE DEF TrustInv, TrustTypes, At, Handling
<1>1. CASE Start
  <2>1. tainted' \in BOOLEAN
    BY <1>1, Zenon DEF Start
  <2>2. /\ UNCHANGED <<op, step, view, file, offAsked>> /\ mem' = file /\ up' = TRUE /\ ~up
        /\ starts' \in Nat /\ \A c \in Cmds : step[c] = "write" => tainted'
    BY <1>1 DEF Start
  <2>3. TrustTypes'
    BY <2>1, <2>2, Zenon
  <2>4. Saved'
    BY <2>2, Zenon DEF Saved, Unsaved
  <2>5. ModeKept'
    BY <2>2, Zenon DEF Saved, ModeKept
  <2> QED
    BY <2>3, <2>4, <2>5
<1>2. CASE Stop
  <2>1. /\ UNCHANGED <<op, view, mem, starts, file, offAsked>> /\ up' = FALSE
        /\ tainted => tainted'
        /\ \A c \in Cmds : step[c] \in {"mutate", "persist", "saving"} => tainted'
    BY <1>2, Zenon DEF Stop
  <2>2. tainted' \in BOOLEAN
    BY <1>2, Zenon DEF Stop
  <2>3. \A c \in Cmds : /\ step'[c] = step[c] \/ step'[c] = "failed"
                        /\ step'[c] \notin {"bump", "mutate", "persist", "saving"}
    BY <1>2 DEF Stop, InHandler
  <2>4. TrustTypes'
    BY <1>2, <2>1, <2>2, <2>3, Zenon DEF Stop
  <2>5. Saved'
    BY <2>1, <2>2, <2>3 DEF Saved, Unsaved
  <2>6. ModeKept'
    BY <2>1, <2>3 DEF ModeKept
  <2> QED
    BY <2>4, <2>5, <2>6
<1> QED
  BY <1>1, <1>2

\* However the handlers of the daemon interleave, and with restarts, its list is the one in its file
\* whenever no request is being handled, unless the file was edited, a save failed or the daemon
\* ended between a change and its save; and no list that names peers is in mode Off unless somebody
\* asked for that.
THEOREM TrustListIsKeptHolds == TrustSpec => []TrustListIsKept
<1>1. TrustInit => TrustInv
  <2> SUFFICES ASSUME TrustInit PROVE TrustInv
    OBVIOUS
  <2>1. /\ \A c \in Cmds : step[c] = "start" /\ view[c] = Empty
        /\ mem = Empty /\ file = Empty /\ starts = 0
    BY DEF TrustInit
  <2>2. TrustTypes
    BY EmptyLemma, Zenon DEF TrustInit, TrustTypes
  <2>3. Saved
    BY <2>1 DEF Saved
  <2>4. ModeKept
    BY <2>1, EmptyLemma, Zenon DEF ModeKept, Honest
  <2> QED
    BY <2>2, <2>3, <2>4 DEF TrustInv
<1>2. TrustInv /\ [TrustNext]_trustVars => TrustInv'
  <2> SUFFICES ASSUME TrustInv, [TrustNext]_trustVars PROVE TrustInv'
    OBVIOUS
  <2>1. CASE UNCHANGED trustVars
    BY <2>1, Zenon DEF trustVars, TrustInv, TrustTypes, Saved, Unsaved, ModeKept
  <2>2. CASE TrustNext
    BY <2>2, TrustReads, TrustEdits, TrustListChanges, TrustSaves, TrustDaemon DEF TrustNext
  <2> QED
    BY <2>1, <2>2
<1>3. TrustInv => TrustListIsKept
  BY Zenon DEF TrustInv, Saved, Unsaved, ModeKept, Honest, TrustListIsKept, InHandler, Handling, At
<1> QED
  BY <1>1, <1>2, <1>3, PTL DEF TrustSpec

-------------------------------------------------------------------------------
(* The sessions *)

\* The age of a session in the map is that of the last task received in it, and what is on top of
\* MaxTaskIds is what send_in_session has added.
SessionKept(s) ==
    /\ Len(sessions[s].task_ids) <= MaxTaskIds + ownTasks[s]
    /\ sessions[s].last_seen = lastTask[s]

SessionInv ==
    /\ DOMAIN sessions \subseteq Sids
    /\ sessions \in [DOMAIN sessions -> Session]
    /\ now \in Nat
    /\ pending \subseteq Call
    /\ ownTasks \in [Sids -> Nat]
    /\ lastTask \in [Sids -> Nat]
    /\ \A s \in DOMAIN sessions : SessionKept(s)

LEMMA PushedTask ==
    ASSUME NEW session \in Session, NEW task \in TaskIds, now \in Nat,
           NEW n \in Nat, Len(session.task_ids) <= MaxTaskIds + n
    PROVE  /\ PushTask(session, task) \in Session
           /\ Len(PushTask(session, task).task_ids) <= MaxTaskIds + n
           /\ PushTask(session, task).last_seen = now
<1> DEFINE ids == Append(session.task_ids, task)
           drop == IF Len(ids) > MaxTaskIds THEN Len(ids) - MaxTaskIds ELSE 0
           rest == SubSeq(ids, drop + 1, Len(ids))
<1>0. session.task_ids \in Seq(TaskIds)
  BY DEF Session
<1>1. ids \in Seq(TaskIds) /\ Len(ids) \in Nat
  BY <1>0
<1>2. MaxTaskIds \in Nat \ {0}
  BY SessionsAssumption
<1> HIDE DEF ids
<1>3. drop \in Nat /\ drop <= Len(ids) /\ Len(ids) - drop <= MaxTaskIds
  BY <1>1, <1>2
<1> HIDE DEF drop
<1>4. rest \in Seq(TaskIds) /\ Len(rest) <= MaxTaskIds
  BY <1>1, <1>2, <1>3
<1> HIDE DEF rest
<1>5. PushTask(session, task) =
        [session EXCEPT !.task_ids = IF task \in Range(session.task_ids) THEN session.task_ids ELSE rest,
                        !.last_seen = now]
  BY Zenon DEF PushTask, ids, drop, rest
<1> DEFINE kept == IF task \in Range(session.task_ids) THEN session.task_ids ELSE rest
<1>6. kept \in Seq(TaskIds) /\ Len(kept) <= MaxTaskIds + n
  BY <1>0, <1>2, <1>4
<1> HIDE DEF kept
<1>7. PushTask(session, task) = [session EXCEPT !.task_ids = kept, !.last_seen = now]
  BY <1>5, Zenon DEF kept
<1> QED
  BY <1>6, <1>7, Zenon DEF Session

\* A session is put in the map, new or in place of what was there.
LEMMA SessionPut ==
    ASSUME SessionInv, NEW s \in Sids, NEW session \in Session,
           session.last_seen = now, Len(session.task_ids) <= MaxTaskIds + ownTasks'[s],
           sessions' = Put(sessions, s, session), UNCHANGED <<now, pending>>,
           lastTask' = [lastTask EXCEPT ![s] = now],
           ownTasks' \in [Sids -> Nat], \A r \in Sids \ {s} : ownTasks'[r] = ownTasks[r]
    PROVE  SessionInv'
<1>1. DOMAIN sessions' = DOMAIN sessions \cup {s} /\ DOMAIN sessions \subseteq Sids
  BY Zenon DEF Put, SessionInv
<1>2. sessions'[s] = session /\ \A r \in DOMAIN sessions \ {s} : sessions'[r] = sessions[r]
  BY Zenon DEF Put
<1>3. sessions' = [k \in DOMAIN sessions' |-> sessions'[k]]
  BY Zenon DEF Put
<1>4. \A k \in DOMAIN sessions' : sessions'[k] \in Session
  BY <1>1, <1>2, Zenon DEF SessionInv
<1>5. sessions' \in [DOMAIN sessions' -> Session]
  BY <1>3, <1>4, Zenon
<1>6. lastTask' \in [Sids -> Nat] /\ lastTask'[s] = now /\ \A r \in Sids \ {s} : lastTask'[r] = lastTask[r]
  BY DEF SessionInv
<1>7. \A r \in DOMAIN sessions' : SessionKept(r)'
  <2> SUFFICES ASSUME NEW r \in DOMAIN sessions' PROVE SessionKept(r)'
    OBVIOUS
  <2>1. CASE r = s
    BY <2>1, <1>2, <1>6, Zenon DEF SessionKept
  <2>2. CASE r # s
    <3>1. r \in DOMAIN sessions \ {s} /\ r \in Sids \ {s} /\ SessionKept(r)
      BY <2>2, <1>1, Zenon DEF SessionInv
    <3> QED
      BY <3>1, <1>2, <1>6, Zenon DEF SessionKept
  <2> QED
    BY <2>1, <2>2
<1> QED
  BY <1>1, <1>5, <1>6, <1>7, Zenon DEF SessionInv

\* A session of the map is updated in place: that is a Put as well.
LEMMA SessionReplaced ==
    ASSUME NEW s \in DOMAIN sessions, NEW session, sessions = [r \in DOMAIN sessions |-> sessions[r]]
    PROVE  [sessions EXCEPT ![s] = session] = Put(sessions, s, session)
BY DEF Put

LEMMA NewSessionLemma ==
    ASSUME NEW id \in Sids, now \in Nat
    PROVE  NewSession(id) \in Session /\ Len(NewSession(id).task_ids) = 0 /\ NewSession(id).last_seen = now
BY DEF NewSession, Session

LEMMA LongerSession ==
    ASSUME NEW session \in Session, NEW task \in TaskIds
    PROVE  LET longer == [session EXCEPT !.task_ids = Append(@, task)]
           IN  /\ longer \in Session /\ longer.last_seen = session.last_seen
               /\ Len(longer.task_ids) = Len(session.task_ids) + 1
               /\ Len(session.task_ids) \in Nat
BY DEF Session

LEMMA SessionTracked ==
    ASSUME SessionInv, NEW s \in Sids, NEW t \in TaskIds, TrackTask(s, t)
    PROVE  SessionInv'
<1>1. /\ now \in Nat /\ MaxTaskIds \in Nat /\ UNCHANGED <<now, pending>>
      /\ lastTask' = [lastTask EXCEPT ![s] = now] /\ ownTasks \in [Sids -> Nat]
  BY SessionsAssumption DEF SessionInv, TrackTask
<1>2. CASE s \in DOMAIN sessions
  <2>1. sessions' = [sessions EXCEPT ![s] = PushTask(sessions[s], t)] /\ ownTasks' = ownTasks
    BY <1>2 DEF TrackTask
  <2>2. sessions[s] \in Session /\ Len(sessions[s].task_ids) <= MaxTaskIds + ownTasks[s]
    BY <1>2, Zenon DEF SessionInv, SessionKept
  <2>3. ownTasks[s] \in Nat
    BY <1>1
  <2>4. /\ PushTask(sessions[s], t) \in Session
        /\ Len(PushTask(sessions[s], t).task_ids) <= MaxTaskIds + ownTasks[s]
        /\ PushTask(sessions[s], t).last_seen = now
    BY <1>1, <2>2, <2>3, PushedTask, Zenon
  <2>5. sessions' = Put(sessions, s, PushTask(sessions[s], t))
    BY <1>2, <2>1, SessionReplaced, Zenon DEF SessionInv
  <2> QED
    BY <1>1, <2>1, <2>4, <2>5, SessionPut, Zenon
<1>3. CASE s \notin DOMAIN sessions
  <2>1. PICK id \in Sids : /\ sessions' = Put(sessions, s, PushTask(NewSession(id), t))
                           /\ ownTasks' = [ownTasks EXCEPT ![s] = 0]
    BY <1>3 DEF TrackTask
  <2>2. /\ PushTask(NewSession(id), t) \in Session
        /\ Len(PushTask(NewSession(id), t).task_ids) <= MaxTaskIds + 0
        /\ PushTask(NewSession(id), t).last_seen = now
    <3>1. NewSession(id) \in Session /\ Len(NewSession(id).task_ids) <= MaxTaskIds + 0
      BY <1>1, NewSessionLemma
    <3> QED
      BY <1>1, <3>1, PushedTask
  <2>3. ownTasks' \in [Sids -> Nat] /\ ownTasks'[s] = 0 /\ \A r \in Sids \ {s} : ownTasks'[r] = ownTasks[r]
    BY <1>1, <2>1
  <2> QED
    BY <1>1, <2>1, <2>2, <2>3, SessionPut, Zenon
<1> QED
  BY <1>2, <1>3

LEMMA SessionSent ==
    ASSUME SessionInv, NEW c \in pending, SendEnd(c)
    PROVE  SessionInv'
<1>1. /\ UNCHANGED <<now, lastTask>> /\ pending' \subseteq Call /\ c.sid \in Sids /\ c.task \in TaskIds
      /\ MaxTaskIds \in Nat
  BY SessionsAssumption DEF SessionInv, SendEnd, Call
<1>2. CASE c.sid \notin DOMAIN sessions
  BY <1>1, <1>2 DEF SendEnd, SessionInv, SessionKept
<1>3. CASE c.sid \in DOMAIN sessions
  <2> DEFINE s == c.sid
             longer == [sessions[s] EXCEPT !.task_ids = Append(@, c.task)]
  <2>1. sessions' = [sessions EXCEPT ![s] = longer] /\ ownTasks' = [ownTasks EXCEPT ![s] = @ + 1]
    BY <1>3 DEF SendEnd
  <2>2. /\ sessions[s] \in Session /\ sessions[s].last_seen = lastTask[s]
        /\ Len(sessions[s].task_ids) <= MaxTaskIds + ownTasks[s]
    BY <1>3, Zenon DEF SessionInv, SessionKept
  <2>3. /\ longer \in Session /\ longer.last_seen = lastTask[s]
        /\ Len(longer.task_ids) = Len(sessions[s].task_ids) + 1
    BY <1>1, <2>2, LongerSession, Zenon
  <2>4. Len(sessions[s].task_ids) \in Nat
    BY <1>1, <2>2, LongerSession, Zenon
  <2>5. /\ ownTasks' \in [Sids -> Nat] /\ ownTasks'[s] = ownTasks[s] + 1 /\ ownTasks[s] \in Nat
        /\ \A r \in Sids \ {s} : ownTasks'[r] = ownTasks[r]
    BY <1>1, <2>1 DEF SessionInv
  <2>6. Len(longer.task_ids) <= MaxTaskIds + ownTasks'[s]
    BY <1>1, <2>2, <2>3, <2>4, <2>5
  <2> HIDE DEF longer
  <2>7. /\ DOMAIN sessions' = DOMAIN sessions /\ sessions' \in [DOMAIN sessions -> Session]
        /\ sessions'[s] = longer /\ \A r \in DOMAIN sessions \ {s} : sessions'[r] = sessions[r]
    BY <1>3, <2>1, <2>3 DEF SessionInv
  <2>8. \A r \in DOMAIN sessions' : SessionKept(r)'
    <3> SUFFICES ASSUME NEW r \in DOMAIN sessions' PROVE SessionKept(r)'
      OBVIOUS
    <3>1. CASE r = s
      BY <3>1, <1>1, <2>3, <2>6, <2>7, Zenon DEF SessionKept
    <3>2. CASE r # s
      BY <3>2, <1>1, <2>5, <2>7, Zenon DEF SessionKept, SessionInv
    <3> QED
      BY <3>1, <3>2
  <2> QED
    BY <1>1, <2>5, <2>7, <2>8, Zenon DEF SessionInv
<1> QED
  BY <1>2, <1>3

LEMMA SessionsEvicted ==
    ASSUME SessionInv, EvictIdleSessions
    PROVE  SessionInv' /\ \A s \in DOMAIN sessions \ DOMAIN sessions' : now - lastTask[s] > MaxAge
<1> DEFINE stay == {s \in DOMAIN sessions : now - sessions[s].last_seen <= MaxAge}
<1>1. /\ sessions' = [s \in stay |-> sessions[s]] /\ UNCHANGED <<now, pending, lastTask>>
      /\ ownTasks' = [s \in Sids |-> IF s \in DOMAIN sessions' THEN ownTasks[s] ELSE 0]
  BY DEF EvictIdleSessions, Restrict
<1>2. DOMAIN sessions' = stay /\ DOMAIN sessions \subseteq Sids /\ stay \subseteq DOMAIN sessions
  BY <1>1, Zenon DEF SessionInv
<1>3. sessions' \in [stay -> Session] /\ \A s \in stay : sessions'[s] = sessions[s] /\ SessionKept(s)
  BY <1>1, <1>2, Zenon DEF SessionInv
<1>4. ownTasks' \in [Sids -> Nat] /\ \A s \in stay : ownTasks'[s] = ownTasks[s]
  BY <1>1, <1>2 DEF SessionInv
<1>5. \A s \in stay : SessionKept(s)'
  BY <1>1, <1>3, <1>4, Zenon DEF SessionKept
<1>6. SessionInv'
  BY <1>1, <1>2, <1>3, <1>4, <1>5, Zenon DEF SessionInv
<1>7. ASSUME NEW s \in DOMAIN sessions \ stay PROVE now - lastTask[s] > MaxAge
  <2>1. lastTask[s] = sessions[s].last_seen /\ lastTask[s] \in Nat /\ now \in Nat /\ MaxAge \in Nat
    BY <1>2, SessionsAssumption, Zenon DEF SessionInv, SessionKept
  <2> QED
    BY <2>1
<1> QED
  BY <1>2, <1>6, <1>7, Zenon

LEMMA SessionStep ==
    ASSUME SessionInv, [Next]_vars
    PROVE  SessionInv' /\ \A s \in DOMAIN sessions \ DOMAIN sessions' : now - lastTask[s] > MaxAge
<1>1. CASE UNCHANGED vars
  BY <1>1, Zenon DEF vars, SessionInv, SessionKept
<1>2. ASSUME NEW s \in Sids, CreateSession(s) PROVE SessionInv' /\ DOMAIN sessions \subseteq DOMAIN sessions'
  <2>1. now \in Nat /\ MaxTaskIds \in Nat /\ ownTasks \in [Sids -> Nat]
    BY SessionsAssumption DEF SessionInv
  <2>2. NewSession(s) \in Session /\ Len(NewSession(s).task_ids) = 0 /\ NewSession(s).last_seen = now
    BY <2>1, NewSessionLemma
  <2>3. 0 <= MaxTaskIds + ownTasks[s]
    BY <2>1
  <2>4. /\ sessions' = Put(sessions, s, NewSession(s)) /\ UNCHANGED <<now, pending, ownTasks>>
        /\ lastTask' = [lastTask EXCEPT ![s] = now]
    BY <1>2 DEF CreateSession
  <2>5. SessionInv'
    BY <2>1, <2>2, <2>3, <2>4, SessionPut, Zenon
  <2> QED
    BY <2>4, <2>5, Zenon DEF Put
<1>3. ASSUME NEW s \in Sids, NEW t \in TaskIds, TrackTask(s, t)
      PROVE  SessionInv' /\ DOMAIN sessions \subseteq DOMAIN sessions'
  BY <1>3, SessionTracked, Zenon DEF TrackTask, Put
<1>4. ASSUME NEW c \in pending, SendEnd(c) PROVE SessionInv' /\ DOMAIN sessions \subseteq DOMAIN sessions'
  BY <1>4, SessionSent, Zenon DEF SendEnd
<1>5. ASSUME \/ \E s \in Sids : RemoteSession(s)
             \/ \E s \in Sids, t \in TaskIds : SendBegin(s, t)
             \/ \E c \in pending : SendError(c)
             \/ Tick
      PROVE  SessionInv' /\ DOMAIN sessions \subseteq DOMAIN sessions'
  <2>1. /\ UNCHANGED <<sessions, lastTask, ownTasks>> /\ now' \in Nat /\ pending' \subseteq Call
    BY <1>5 DEF SessionInv, RemoteSession, SendBegin, SendError, Tick, Call
  <2> QED
    BY <2>1, Zenon DEF SessionInv, SessionKept
<1> QED
  BY <1>1, <1>2, <1>3, <1>4, <1>5, SessionsEvicted, Zenon DEF Next

\* evict_idle_sessions drops only sessions in which nothing was received for more than MaxAge, and
\* a session holds MaxTaskIds ids of received tasks at most, beside those send_in_session pushed, for
\* any number of sessions, tasks and calls that wait for send_task.
THEOREM SessionsAreKeptHolds == Spec => SessionsAreKept
<1>1. Init => SessionInv
  <2> SUFFICES ASSUME Init PROVE SessionInv
    OBVIOUS
  <2>1. DOMAIN sessions = {} /\ sessions \in [{} -> Session]
    BY DEF Init
  <2>2. now \in Nat /\ pending \subseteq Call /\ ownTasks \in [Sids -> Nat] /\ lastTask \in [Sids -> Nat]
    BY DEF Init
  <2> QED
    BY <2>1, <2>2, Zenon DEF SessionInv
<1>2. SessionInv /\ [Next]_vars => SessionInv'
  BY SessionStep
<1>3. SessionInv /\ [Next]_vars => [\A s \in DOMAIN sessions \ DOMAIN sessions' : now - lastTask[s] > MaxAge]_vars
  BY SessionStep
<1>4. SessionInv => \A s \in DOMAIN sessions : Len(sessions[s].task_ids) <= MaxTaskIds + ownTasks[s]
  BY DEF SessionInv, SessionKept
<1> QED
  BY <1>1, <1>2, <1>3, <1>4, PTL DEF Spec, SessionsAreKept
===============================================================================
