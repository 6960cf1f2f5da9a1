--------------------------- MODULE TaskIntakeProofs ---------------------------
(***************************************************************************)
(* What holds of the intake of tasks for every number of callers, tasks,   *)
(* senders and payments, and every list of requirements, checked by TLAPS. *)
(***************************************************************************)
EXTENDS TaskIntake, SequenceTheorems, FiniteSetTheorems, TLAPS

-------------------------------------------------------------------------------
(* Sequences *)

\* An element occurs at most once.
Once(s, t) == \A i, j \in DOMAIN s : s[i] = t /\ s[j] = t => i = j

\* What taking the first element off a sequence does.
LEMMA TailLemma ==
    ASSUME NEW S, NEW s \in Seq(S), s # <<>>
    PROVE  /\ Head(s) \in S /\ Tail(s) \in Seq(S)
           /\ Len(Tail(s)) < Len(s)
           /\ Head(s) \in Range(s)
           /\ Range(s) = Range(Tail(s)) \cup {Head(s)}
           /\ \A t : Once(s, t) => Once(Tail(s), t) /\ (t = Head(s) => t \notin Range(Tail(s)))
<1>1. /\ Head(s) \in S /\ Tail(s) \in Seq(S) /\ Len(Tail(s)) = Len(s) - 1
      /\ \A i \in 1..Len(Tail(s)) : Tail(s)[i] = s[i + 1]
      /\ Len(s) \in Nat /\ Len(s) >= 1 /\ DOMAIN s = 1..Len(s) /\ Head(s) = s[1]
  BY HeadTailProperties, LenProperties, EmptySeq
<1>2. DOMAIN Tail(s) = 1..(Len(s) - 1)
  BY <1>1, LenProperties
<1> DEFINE r == Tail(s)
           n == Len(s)
<1>3. /\ DOMAIN r = 1..(n - 1) /\ DOMAIN s = 1..n /\ n \in Nat /\ n >= 1
      /\ \A i \in 1..(n - 1) : r[i] = s[i + 1]
  BY <1>1, <1>2
<1> HIDE DEF r, n
<1>4. Range(s) = Range(r) \cup {s[1]}
  <2>1. ASSUME NEW i \in 1..n PROVE s[i] \in Range(r) \cup {s[1]}
    <3>1. CASE i = 1
      BY <3>1
    <3>2. CASE i # 1
      <4>1. i - 1 \in 1..(n - 1) /\ (i - 1) + 1 = i
        BY <1>3, <3>2
      <4>2. r[i - 1] = s[i]
        BY <1>3, <4>1
      <4> QED
        BY <1>3, <4>1, <4>2 DEF Range
    <3> QED
      BY <3>1, <3>2
  <2>2. ASSUME NEW i \in 1..(n - 1) PROVE r[i] \in Range(s)
    BY <1>3 DEF Range
  <2>3. s[1] \in Range(s)
    BY <1>3 DEF Range
  <2> QED
    BY <1>3, <2>1, <2>2, <2>3 DEF Range
<1>5. ASSUME NEW t, Once(s, t) PROVE Once(r, t) /\ (t = s[1] => t \notin Range(r))
  <2>1. ASSUME NEW i \in 1..(n - 1), NEW j \in 1..(n - 1), r[i] = t, r[j] = t PROVE i = j
    <3>1. i + 1 \in 1..n /\ j + 1 \in 1..n /\ s[i + 1] = t /\ s[j + 1] = t
      BY <1>3, <2>1
    <3>2. i + 1 = j + 1
      BY <1>3, <1>5, <3>1 DEF Once
    <3> QED
      BY <3>2
  <2>2. ASSUME t = s[1], NEW i \in 1..(n - 1) PROVE r[i] # t
    <3>1. i + 1 \in 1..n /\ 1 \in 1..n /\ i + 1 # 1 /\ r[i] = s[i + 1]
      BY <1>3
    <3> QED
      BY <1>3, <1>5, <2>2, <3>1 DEF Once
  <2> QED
    BY <1>3, <2>1, <2>2 DEF Once, Range
<1> QED
  BY <1>1, <1>4, <1>5 DEF r

\* What appending to a sequence does.
LEMMA AppendLemma ==
    ASSUME NEW S, NEW s \in Seq(S), NEW e \in S
    PROVE  /\ Append(s, e) \in Seq(S)
           /\ Range(Append(s, e)) = Range(s) \cup {e}
           /\ \A t : Once(s, t) /\ (t = e => t \notin Range(s)) => Once(Append(s, e), t)
<1> DEFINE a == Append(s, e)
           n == Len(s)
<1>1. /\ a \in Seq(S) /\ n \in Nat /\ DOMAIN s = 1..n /\ Len(a) = n + 1
      /\ a[n + 1] = e /\ \A i \in 1..n : a[i] = s[i]
  BY AppendProperties, LenProperties
<1>2. DOMAIN a = 1..(n + 1)
  BY <1>1, LenProperties
<1> HIDE DEF a, n
<1>3. Range(a) = Range(s) \cup {e}
  <2>1. ASSUME NEW i \in 1..(n + 1) PROVE a[i] \in Range(s) \cup {e}
    <3>1. i \in 1..n \/ i = n + 1
      BY <1>1
    <3> QED
      BY <1>1, <3>1 DEF Range
  <2>2. ASSUME NEW i \in 1..n PROVE s[i] \in Range(a)
    <3>1. i \in 1..(n + 1)
      BY <1>1
    <3> QED
      BY <1>1, <1>2, <3>1 DEF Range
  <2>3. e \in Range(a)
    <3>1. n + 1 \in 1..(n + 1)
      BY <1>1
    <3> QED
      BY <1>1, <1>2, <3>1 DEF Range
  <2> QED
    BY <1>1, <1>2, <2>1, <2>2, <2>3 DEF Range
<1>4. ASSUME NEW t, Once(s, t), t = e => t \notin Range(s),
             NEW i \in 1..(n + 1), NEW j \in 1..(n + 1), a[i] = t, a[j] = t
      PROVE  i = j
  <2>1. t = e => \A k \in 1..n : s[k] # e
    BY <1>1, <1>4 DEF Range
  <2>2. (i \in 1..n \/ i = n + 1) /\ (j \in 1..n \/ j = n + 1)
    BY <1>1
  <2> QED
    BY <1>1, <1>4, <2>1, <2>2 DEF Once
<1>5. ASSUME NEW t, Once(s, t), t = e => t \notin Range(s) PROVE Once(a, t)
  BY <1>2, <1>4, <1>5 DEF Once
<1> QED
  BY <1>1, <1>3, <1>5 DEF a

\* How often a value occurs in a sequence.
LEMMA OccurrencesLemma ==
    ASSUME NEW S, NEW s \in Seq(S), NEW e
    PROVE  LET n == Cardinality({i \in DOMAIN s : s[i] = e})
           IN  n \in Nat /\ (n > 0 <=> e \in Range(s)) /\ (Once(s, e) => n <= 1)
<1> DEFINE at == {i \in DOMAIN s : s[i] = e}
<1>1. DOMAIN s = 1..Len(s) /\ Len(s) \in Nat
  BY LenProperties
<1>2. IsFiniteSet(DOMAIN s) /\ at \in SUBSET DOMAIN s
  BY <1>1, FS_Interval
<1>3. IsFiniteSet(at) /\ Cardinality(at) \in Nat
  BY <1>2, FS_Subset, FS_CardinalityType
<1>4. Cardinality(at) > 0 <=> e \in Range(s)
  <2>1. at # {} <=> e \in Range(s)
    BY DEF Range
  <2> HIDE DEF at
  <2>2. Cardinality(at) = 0 <=> at = {}
    BY <1>3, FS_EmptySet
  <2> QED
    BY <1>3, <2>1, <2>2
<1>5. ASSUME Once(s, e) PROVE Cardinality(at) <= 1
  <2>1. CASE at = {}
    <3> HIDE DEF at
    <3> QED
      BY <2>1, FS_EmptySet
  <2>2. CASE at # {}
    <3>1. PICK i : i \in at
      BY <2>2
    <3>2. at = {i}
      BY <1>5, <3>1 DEF Once
    <3>3. Cardinality({i}) = 1
      BY FS_Singleton, Zenon
    <3> QED
      BY <3>2, <3>3
  <2> QED
    BY <2>1, <2>2
<1> QED
  BY <1>3, <1>4, <1>5

\* Sequences of no and of one element.
LEMMA ShortLemma ==
    /\ Range(<<>>) = {} /\ \A t : Once(<<>>, t)
    /\ \A S : \A e \in S : <<e>> \in Seq(S) /\ <<e>> # <<>>
    /\ \A e : Range(<<e>>) = {e} /\ \A t : Once(<<e>>, t)
  BY DEF Range, Once

-------------------------------------------------------------------------------
(* Types *)

\* Where a caller looks at content, and where it may have any.
Looking == {"contents", "accept", "mode"}
Receiving == Looking \cup {"resolve"}

IntakeTypes ==
    /\ queue \in Seq(Tasks)
    /\ seen \subseteq Tasks
    /\ waiting \in [Tasks -> Nat] /\ resets \in Nat
    /\ pc \in [Callers -> Places]
    /\ batch \in [Callers -> Seq(Tasks)]
    /\ content \in [Callers -> Seq(Tasks)]
    /\ tasks \in [Callers -> Seq(Tasks)]
    /\ verified \in [Callers -> Seq(Tasks)]
    /\ \A p \in Callers : pc[p] = "receive" => batch[p] # <<>>
    /\ \A p \in Callers : pc[p] \in Looking => content[p] # <<>>
    /\ \A p \in Callers : pc[p] = "pay" => tasks[p] # <<>>
    /\ surfaced \in [Tasks -> Nat]
    /\ refused \subseteq Tasks
    /\ fetchErrors \in Nat
    /\ required \in Nat

\* The first message of a batch, the first content, the first accepted task, and what is left without
\* them.
LEMMA HeadTypes ==
    ASSUME IntakeTypes, NEW p \in Callers
    PROVE  /\ batch[p] # <<>> => Message(p) \in Tasks /\ Tail(batch[p]) \in Seq(Tasks)
           /\ content[p] # <<>> => Current(p) \in Tasks /\ Tail(content[p]) \in Seq(Tasks)
           /\ tasks[p] # <<>> => Head(tasks[p]) \in Tasks /\ Tail(tasks[p]) \in Seq(Tasks)
  BY TailLemma DEF IntakeTypes, Message, Current

\* The next content keeps the types.
LEMMA NextContentTypes ==
    ASSUME IntakeTypes, NEW p \in Callers, content[p] # <<>>, NextContent(p)
    PROVE  /\ content' \in [Callers -> Seq(Tasks)]
           /\ content'[p] = Tail(content[p]) /\ \A q \in Callers : q # p => content'[q] = content[q]
           /\ pc' = [pc EXCEPT ![p] = With(content'[p])]
           /\ pc' \in [Callers -> Places]
           /\ \A q \in Callers : pc'[q] \in Looking => content'[q] # <<>>
           /\ \A q \in Callers : pc'[q] \notin {"messages", "contents"} => q # p /\ pc'[q] = pc[q]
<1>1. Tail(content[p]) \in Seq(Tasks)
  BY HeadTypes
<1>2. content' = [content EXCEPT ![p] = Tail(@)] /\ pc' = [pc EXCEPT ![p] = With(content'[p])]
  BY DEF NextContent, Goto
<1>3. /\ content' \in [Callers -> Seq(Tasks)]
      /\ content'[p] = Tail(content[p]) /\ \A q \in Callers : q # p => content'[q] = content[q]
  BY <1>1, <1>2 DEF IntakeTypes
<1>4. With(content'[p]) \in Places /\ With(content'[p]) \in {"messages", "contents"}
  BY DEF With, Places
<1>5. /\ pc'[p] = With(content'[p]) /\ \A q \in Callers : q # p => pc'[q] = pc[q]
      /\ pc' \in [Callers -> Places]
  BY <1>2, <1>4 DEF IntakeTypes
<1>6. With(content'[p]) \in Looking => content'[p] # <<>>
  BY DEF With, Looking
<1> QED
  BY <1>2, <1>3, <1>4, <1>5, <1>6, Zenon DEF IntakeTypes

\* A step that leaves the accepted tasks alone, goes on with a message or a content, and does to the
\* filter and the buffer what receive does.
LEMMA ReceiveTypes ==
    ASSUME IntakeTypes, NEW p \in Callers,
           \/ Drain(p) \/ CheckDuplicate(p) \/ DeliverNow(p) \/ Buffer(p) \/ Received(p)
           \/ \E t \in Tasks : Release(p, t)
    PROVE  IntakeTypes'
<1>1. CASE Drain(p)
  BY <1>1 DEF IntakeTypes, Drain, Goto, Places, Looking, config, payment, channel
<1>2. CASE CheckDuplicate(p)
  <2>1. batch[p] # <<>> /\ Tail(batch[p]) \in Seq(Tasks)
    BY <1>2, HeadTypes DEF CheckDuplicate
  <2>2. UNCHANGED <<queue, seen, waiting, resets, content, tasks, verified, surfaced, refused, fetchErrors, required>>
    BY <1>2 DEF CheckDuplicate, config, payment, channel
  <2>3. CASE batch' = [batch EXCEPT ![p] = Tail(@)] /\ UNCHANGED pc
    <3>1. batch' \in [Callers -> Seq(Tasks)] /\ \A q \in Callers : q # p => batch'[q] = batch[q]
      BY <2>1, <2>3 DEF IntakeTypes
    <3>2. pc[p] = "messages"
      BY <1>2 DEF CheckDuplicate
    <3> QED
      BY <2>2, <2>3, <3>1, <3>2, Zenon DEF IntakeTypes
  <2>4. CASE Goto(p, "receive") /\ UNCHANGED batch
    BY <2>1, <2>2, <2>4 DEF IntakeTypes, Goto, Places, Looking
  <2> QED
    BY <1>2, <2>3, <2>4, Zenon DEF CheckDuplicate
<1>3. CASE DeliverNow(p)
  <2>1. batch[p] # <<>> /\ Message(p) \in Tasks /\ Tail(batch[p]) \in Seq(Tasks)
    BY <1>3, HeadTypes DEF DeliverNow, IntakeTypes
  <2>2. /\ content' = [content EXCEPT ![p] = <<Message(p)>>] /\ batch' = [batch EXCEPT ![p] = Tail(@)]
        /\ UNCHANGED <<queue, waiting, tasks, verified, surfaced, refused, fetchErrors, required>>
    BY <1>3 DEF DeliverNow, config, payment
  <2>3. seen' \subseteq Tasks /\ resets' \in Nat
    <3>1. SetInFilter(Message(p))
      BY <1>3, Zenon DEF DeliverNow
    <3>2. seen \subseteq Tasks /\ resets \in Nat
      BY DEF IntakeTypes
    <3> QED
      BY <2>1, <3>1, <3>2 DEF SetInFilter
  <2>4. PICK place \in {"resolve", "contents"} : pc' = [pc EXCEPT ![p] = place]
    BY <1>3 DEF DeliverNow, Goto
  <2>5. <<Message(p)>> \in Seq(Tasks) /\ <<Message(p)>> # <<>>
    BY <2>1, ShortLemma
  <2> QED
    BY <2>1, <2>2, <2>3, <2>4, <2>5 DEF IntakeTypes, Places, Looking
<1>4. CASE Buffer(p)
  <2>1. batch[p] # <<>> /\ Message(p) \in Tasks /\ Tail(batch[p]) \in Seq(Tasks)
    BY <1>4, HeadTypes DEF Buffer, IntakeTypes
  <2>2. waiting' \in [Tasks -> Nat]
    BY <1>4, <2>1 DEF Buffer, IntakeTypes
  <2> QED
    BY <1>4, <2>1, <2>2 DEF Buffer, IntakeTypes, Goto, Places, Looking, config, payment
<1>5. CASE Received(p)
  <2>1. With(content[p]) \in Places /\ (With(content[p]) \in Looking => content[p] # <<>>)
        /\ With(content[p]) \in {"messages", "contents"}
    BY DEF With, Places, Looking
  <2>2. /\ pc' = [pc EXCEPT ![p] = With(content[p])]
        /\ UNCHANGED <<queue, seen, waiting, resets, batch, content, tasks, verified, surfaced, refused, fetchErrors, required>>
    BY <1>5 DEF Received, Goto, config, payment, channel
  <2> QED
    BY <2>1, <2>2 DEF IntakeTypes
<1>6. ASSUME NEW t \in Tasks, Release(p, t) PROVE IntakeTypes'
  <2>1. /\ pc[p] = "resolve" /\ waiting[t] > 0 /\ waiting' = [waiting EXCEPT ![t] = @ - 1]
        /\ content' = [content EXCEPT ![p] = Append(@, t)]
        /\ UNCHANGED <<queue, pc, batch, tasks, verified, surfaced, refused, fetchErrors, required>>
    BY <1>6 DEF Release, config, payment
  <2>2. seen' \subseteq Tasks /\ resets' \in Nat
    <3>1. SetInFilter(t)
      BY <1>6, Zenon DEF Release
    <3>2. seen \subseteq Tasks /\ resets \in Nat
      BY DEF IntakeTypes
    <3> QED
      BY <3>1, <3>2 DEF SetInFilter
  <2>3. Append(content[p], t) \in Seq(Tasks)
    BY AppendLemma DEF IntakeTypes
  <2>4. waiting' \in [Tasks -> Nat]
    BY <2>1 DEF IntakeTypes
  <2> QED
    BY <2>1, <2>2, <2>3, <2>4 DEF IntakeTypes, Looking
<1> QED
  BY <1>1, <1>2, <1>3, <1>4, <1>5, <1>6

LEMMA ContentTypes ==
    ASSUME IntakeTypes, NEW p \in Callers, Extract(p) \/ FetchError(p)
    PROVE  IntakeTypes'
<1>1. CASE Extract(p)
  <2>1. content[p] # <<>> /\ Current(p) \in Tasks
    BY <1>1, HeadTypes DEF IntakeTypes, Extract, Looking
  <2>2. UNCHANGED <<queue, seen, waiting, resets, batch, tasks, verified, required, surfaced, fetchErrors>>
    BY <1>1 DEF Extract, config, payment, channel
  <2>3. CASE NextContent(p) /\ refused' = refused \cup {Current(p)}
    <3>1. refused' \subseteq Tasks
      BY <2>1, <2>3 DEF IntakeTypes
    <3> QED
      BY <2>1, <2>2, <2>3, <3>1, NextContentTypes, Zenon DEF IntakeTypes
  <2>4. CASE Goto(p, "accept") /\ UNCHANGED <<content, refused>>
    BY <2>1, <2>2, <2>4 DEF IntakeTypes, Goto, Places, Looking
  <2> QED
    BY <1>1, <2>3, <2>4, Zenon DEF Extract
<1>2. CASE FetchError(p)
  <2>1. /\ UNCHANGED <<queue, seen, waiting, resets, verified, required, surfaced, refused>>
        /\ fetchErrors' = fetchErrors + 1
    BY <1>2 DEF FetchError, config, payment, channel
  <2>2. /\ pc' = [pc EXCEPT ![p] = "idle"] /\ batch' = [batch EXCEPT ![p] = <<>>]
        /\ content' = [content EXCEPT ![p] = <<>>] /\ tasks' = [tasks EXCEPT ![p] = <<>>]
    BY <1>2 DEF FetchError, Goto
  <2>3. /\ batch' \in [Callers -> Seq(Tasks)] /\ content' \in [Callers -> Seq(Tasks)]
        /\ tasks' \in [Callers -> Seq(Tasks)] /\ fetchErrors' \in Nat
        /\ pc' \in [Callers -> Places] /\ pc'[p] = "idle"
        /\ \A q \in Callers : q # p => /\ pc'[q] = pc[q] /\ batch'[q] = batch[q]
                                       /\ content'[q] = content[q] /\ tasks'[q] = tasks[q]
    BY <2>1, <2>2 DEF IntakeTypes, Places
  <2>4. "idle" \notin Looking /\ "idle" # "receive" /\ "idle" # "pay"
    BY DEF Looking
  <2> QED
    BY <2>1, <2>3, <2>4, Zenon DEF IntakeTypes
<1> QED
  BY <1>1, <1>2

LEMMA AcceptTypes ==
    ASSUME IntakeTypes, NEW p \in Callers, Accept(p) \/ AcceptByMode(p)
    PROVE  IntakeTypes'
<1>1. content[p] # <<>> /\ Current(p) \in Tasks
  BY HeadTypes DEF IntakeTypes, Accept, AcceptByMode, Looking
<1>2. UNCHANGED <<queue, seen, waiting, resets, batch, verified, required, surfaced, fetchErrors>>
  BY DEF Accept, AcceptByMode, config, payment, channel
<1>3. CASE Admit(p)
  <2>1. Append(tasks[p], Current(p)) \in Seq(Tasks)
    BY <1>1, AppendLemma DEF IntakeTypes
  <2>2. /\ tasks' \in [Callers -> Seq(Tasks)] /\ \A q \in Callers : q # p => tasks'[q] = tasks[q]
        /\ NextContent(p) /\ refused' = refused
    BY <1>3, <2>1 DEF Admit, IntakeTypes
  <2> QED
    BY <1>1, <1>2, <2>2, NextContentTypes, Zenon DEF IntakeTypes
<1>4. CASE Goto(p, "mode") /\ UNCHANGED <<content, tasks, refused>>
  BY <1>1, <1>2, <1>4 DEF IntakeTypes, Goto, Places, Looking
<1>5. CASE NextContent(p) /\ UNCHANGED tasks /\ refused' = refused \cup {Current(p)}
  <2>1. refused' \subseteq Tasks
    BY <1>1, <1>5 DEF IntakeTypes
  <2> QED
    BY <1>1, <1>2, <1>5, <2>1, NextContentTypes, Zenon DEF IntakeTypes
<1> QED
  BY <1>3, <1>4, <1>5, Zenon DEF Accept, AcceptByMode

\* The return of verify_payment keeps the types.
LEMMA VerifiedTypes ==
    ASSUME IntakeTypes, NEW p \in Callers, tasks[p] # <<>>, NEW ok \in BOOLEAN, Verified(p, ok)
    PROVE  /\ tasks' = [tasks EXCEPT ![p] = Tail(@)] /\ tasks' \in [Callers -> Seq(Tasks)]
           /\ verified' \in [Callers -> Seq(Tasks)]
           /\ pc' = [pc EXCEPT ![p] = "verify"]
           /\ refused' \subseteq Tasks
<1>1. Head(tasks[p]) \in Tasks /\ Tail(tasks[p]) \in Seq(Tasks)
  BY HeadTypes
<1>2. Append(verified[p], Head(tasks[p])) \in Seq(Tasks)
  BY <1>1, AppendLemma DEF IntakeTypes
<1> QED
  BY <1>1, <1>2 DEF IntakeTypes, Verified, Goto

LEMMA PaymentTypes ==
    ASSUME IntakeTypes, NEW p \in Callers,
           StartVerify(p) \/ VerifyPayment(p) \/ Pay(p) \/ ReturnTasks(p)
    PROVE  IntakeTypes'
<1>1. CASE StartVerify(p)
  BY <1>1 DEF IntakeTypes, StartVerify, Goto, Places, Looking, config, payment, channel
<1>2. ASSUME NEW ok \in BOOLEAN, Verified(p, ok), tasks[p] # <<>>,
             UNCHANGED <<queue, seen, waiting, resets, batch, content, required, fetchErrors, surfaced>>
      PROVE  IntakeTypes'
  BY <1>2, VerifiedTypes, Zenon DEF IntakeTypes, Places, Looking
<1>3. CASE VerifyPayment(p)
  <2>1. /\ tasks[p] # <<>>
        /\ UNCHANGED <<queue, seen, waiting, resets, batch, content, required, fetchErrors, surfaced>>
        /\ \/ Verified(p, TRUE) \/ Verified(p, FALSE)
           \/ Goto(p, "pay") /\ UNCHANGED <<tasks, verified, refused>>
    BY <1>3, Zenon DEF VerifyPayment, config, payment, channel, IntakeTypes
  <2>2. CASE Goto(p, "pay") /\ UNCHANGED <<tasks, verified, refused>>
    BY <2>1, <2>2 DEF IntakeTypes, Goto, Places, Looking
  <2> QED
    BY <1>2, <2>1, <2>2, Zenon
<1>4. CASE Pay(p)
  <2>1. /\ tasks[p] # <<>>
        /\ UNCHANGED <<queue, seen, waiting, resets, batch, content, required, fetchErrors, surfaced>>
        /\ Verified(p, TRUE) \/ Verified(p, FALSE)
    BY <1>4, Zenon DEF Pay, config, payment, channel, IntakeTypes
  <2> QED
    BY <1>2, <2>1, Zenon
<1>5. CASE ReturnTasks(p)
  <2> DEFINE times(t) == Cardinality({i \in DOMAIN verified[p] : verified[p][i] = t})
  <2>1. ASSUME NEW t \in Tasks PROVE times(t) \in Nat
    <3>1. verified[p] \in Seq(Tasks)
      BY DEF IntakeTypes
    <3> QED
      BY <3>1, OccurrencesLemma, Zenon
  <2>2. surfaced' = [t \in Tasks |-> surfaced[t] + times(t)]
    BY <1>5 DEF ReturnTasks
  <2> HIDE DEF times
  <2>3. surfaced' \in [Tasks -> Nat]
    BY <2>1, <2>2 DEF IntakeTypes
  <2> QED
    BY <1>5, <2>3 DEF IntakeTypes, ReturnTasks, Goto, Places, Looking, config, payment, channel
<1> QED
  BY <1>1, <1>3, <1>4, <1>5

LEMMA IntakeStepTypes == IntakeTypes /\ [Next]_vars => IntakeTypes'
<1> SUFFICES ASSUME IntakeTypes, [Next]_vars PROVE IntakeTypes'
  OBVIOUS
<1>1. ASSUME NEW t \in Tasks, Arrive(t) PROVE IntakeTypes'
  BY <1>1, AppendLemma DEF IntakeTypes, Arrive, caller, config, payment, channel
<1>2. CASE ChangeTrust
  BY <1>2 DEF IntakeTypes, ChangeTrust, caller, payment, channel
<1>3. CASE UNCHANGED vars
  BY <1>3 DEF IntakeTypes, vars, caller, config, payment, channel
<1>4. CASE OtherMessage
  BY <1>4 DEF IntakeTypes, OtherMessage, caller, config, payment
<1>5. ASSUME NEW p \in Callers, PollTasks(p) PROVE IntakeTypes'
  BY <1>5, ReceiveTypes, ContentTypes, AcceptTypes, PaymentTypes DEF PollTasks
<1> QED
  BY <1>1, <1>2, <1>3, <1>4, <1>5 DEF Next

LEMMA IntakeInitTypes == Init => IntakeTypes
  BY IntakeAssumption DEF Init, IntakeTypes, Places, Looking

-------------------------------------------------------------------------------
(* The steps of poll_tasks, seen from the caller that takes them *)

Keeps(p) == content'[p] = content[p] /\ tasks'[p] = tasks[p] /\ verified'[p] = verified[p]
Quiet == UNCHANGED <<channel, surfaced, refused, seenTx, fetchErrors, overlap>>

\* The filter is told a task, or emptied.
Told(t) ==
    \/ seen' = seen \cup {t} /\ resets' = resets
    \/ seen' = {} /\ resets' = resets + 1

Drains(p) ==
    /\ pc[p] = "idle" /\ pc'[p] = "messages" /\ Keeps(p)
    /\ overlap' = (overlap \/ \E q \in Callers : pc[q] # "idle")
    /\ UNCHANGED <<channel, surfaced, refused, seenTx, fetchErrors>>
Skips(p) == pc[p] = "messages" /\ pc'[p] = "messages" /\ Keeps(p) /\ Quiet
FindsNew(p) ==
    /\ pc[p] = "messages" /\ pc'[p] = "receive" /\ batch'[p] = batch[p] /\ Keeps(p) /\ Quiet
    /\ Message(p) \notin seen
Delivers(p) ==
    /\ pc[p] = "receive" /\ pc'[p] \in {"resolve", "contents"}
    /\ Told(Message(p)) /\ LetIn(Message(p)) /\ waiting' = waiting
    /\ content'[p] = <<Message(p)>> /\ tasks'[p] = tasks[p] /\ verified'[p] = verified[p]
    /\ UNCHANGED <<surfaced, refused, seenTx, fetchErrors, overlap>>
Buffers(p) ==
    /\ pc[p] = "receive" /\ pc'[p] = "resolve" /\ Keeps(p) /\ LetIn(Message(p))
    /\ waiting' = [waiting EXCEPT ![Message(p)] = @ + 1]
    /\ UNCHANGED <<seen, resets, surfaced, refused, seenTx, fetchErrors, overlap>>
Releases(p, t) ==
    /\ pc[p] = "resolve" /\ pc'[p] = "resolve"
    /\ waiting[t] > 0 /\ waiting' = [waiting EXCEPT ![t] = @ - 1] /\ Told(t) /\ doubled' = doubled
    /\ content'[p] = Append(content[p], t) /\ tasks'[p] = tasks[p] /\ verified'[p] = verified[p]
    /\ UNCHANGED <<surfaced, refused, seenTx, fetchErrors, overlap>>
Receives(p) == pc[p] = "resolve" /\ pc'[p] = With(content[p]) /\ Keeps(p) /\ Quiet
Refuses(p) ==
    /\ pc[p] \in Looking /\ pc'[p] = With(content'[p])
    /\ content'[p] = Tail(content[p]) /\ tasks'[p] = tasks[p] /\ verified'[p] = verified[p]
    /\ refused' = refused \cup {Current(p)}
    /\ UNCHANGED <<channel, surfaced, seenTx, fetchErrors, overlap>>
Advances(p) == pc[p] \in Looking /\ pc'[p] \in Looking /\ Keeps(p) /\ Quiet
Fails(p) ==
    /\ pc[p] \in Looking /\ pc'[p] = "idle"
    /\ content'[p] = <<>> /\ tasks'[p] = <<>> /\ verified'[p] = verified[p]
    /\ fetchErrors' = fetchErrors + 1
    /\ UNCHANGED <<channel, surfaced, refused, seenTx, overlap>>
Admits(p) ==
    /\ pc[p] \in Looking /\ pc'[p] = With(content'[p]) /\ Quiet
    /\ content'[p] = Tail(content[p])
    /\ tasks'[p] = Append(tasks[p], Current(p)) /\ verified'[p] = verified[p]
    /\ mode # "enforce" \/ From[Current(p)] \in trusted
Begins(p) == pc[p] = "messages" /\ pc'[p] = "verify" /\ Keeps(p) /\ Quiet
Checks(p) ==
    /\ pc[p] = "verify" /\ pc'[p] = "pay" /\ Keeps(p) /\ Quiet
    /\ CheckSeen(Head(tasks[p]))
Rejects(p) ==
    /\ pc[p] \in {"verify", "pay"} /\ pc'[p] = "verify" /\ tasks[p] # <<>>
    /\ content'[p] = content[p] /\ tasks'[p] = Tail(tasks[p]) /\ verified'[p] = verified[p]
    /\ refused' = refused \cup {Head(tasks[p])}
    /\ UNCHANGED <<channel, surfaced, seenTx, fetchErrors, overlap>>
Clears(p) ==
    /\ pc[p] \in {"verify", "pay"} /\ pc'[p] = "verify" /\ tasks[p] # <<>>
    /\ content'[p] = content[p]
    /\ tasks'[p] = Tail(tasks[p]) /\ verified'[p] = Append(verified[p], Head(tasks[p]))
    /\ \/ required = 0 /\ seenTx' = seenTx
       \/ /\ pc[p] = "pay" /\ AmountSuffices(Head(tasks[p]))
          /\ seenTx' = seenTx \cup {Tx[Head(tasks[p])]}
    /\ UNCHANGED <<channel, surfaced, refused, fetchErrors, overlap>>
Returns(p) ==
    /\ pc[p] = "verify" /\ pc'[p] = "idle" /\ tasks[p] = <<>>
    /\ content'[p] = content[p] /\ tasks'[p] = tasks[p] /\ verified'[p] = <<>>
    /\ surfaced' = [t \in Tasks |->
                      surfaced[t] + Cardinality({i \in DOMAIN verified[p] : verified[p][i] = t})]
    /\ UNCHANGED <<channel, refused, seenTx, fetchErrors, overlap>>

Effect(p) ==
    \/ Drains(p) \/ Skips(p) \/ FindsNew(p) \/ Delivers(p) \/ Buffers(p)
    \/ (\E t \in Tasks : Releases(p, t)) \/ Receives(p) \/ Refuses(p) \/ Advances(p)
    \/ Fails(p) \/ Admits(p) \/ Begins(p) \/ Checks(p) \/ Rejects(p) \/ Clears(p) \/ Returns(p)

Elsewhere(p) ==
    \A q \in Callers : q # p =>
        /\ pc'[q] = pc[q] /\ batch'[q] = batch[q] /\ content'[q] = content[q]
        /\ tasks'[q] = tasks[q] /\ verified'[q] = verified[q]

LEMMA ReceiveEffects ==
    ASSUME IntakeTypes, NEW p \in Callers,
           \/ Drain(p) \/ CheckDuplicate(p) \/ DeliverNow(p) \/ Buffer(p) \/ Received(p)
           \/ \E t \in Tasks : Release(p, t)
    PROVE  Effect(p) /\ Elsewhere(p) /\ UNCHANGED <<required, verifyOnChain>>
<1>1. /\ DOMAIN pc = Callers /\ DOMAIN batch = Callers /\ DOMAIN tasks = Callers
      /\ DOMAIN content = Callers
  BY DEF IntakeTypes
<1>2. CASE Drain(p)
  <2>1. Drains(p) /\ Elsewhere(p)
    BY <1>1, <1>2 DEF Drain, Goto, Drains, Keeps, Elsewhere
  <2> QED
    BY <1>2, <2>1, Zenon DEF Drain, Effect, config, payment
<1>3. CASE CheckDuplicate(p)
  <2>1. (Skips(p) \/ FindsNew(p)) /\ Elsewhere(p)
    BY <1>1, <1>3 DEF CheckDuplicate, Goto, Skips, FindsNew, Keeps, Quiet, Elsewhere, traffic
  <2> QED
    BY <1>3, <2>1, Zenon DEF CheckDuplicate, Effect, config, payment
<1>4. CASE DeliverNow(p)
  <2>1. Told(Message(p))
    BY <1>4, Zenon DEF DeliverNow, SetInFilter, Told
  <2>2. Delivers(p) /\ Elsewhere(p)
    BY <1>1, <1>4, <2>1 DEF DeliverNow, Goto, Delivers, Elsewhere, traffic
  <2> QED
    BY <1>4, <2>2, Zenon DEF DeliverNow, Effect, config, payment
<1>5. CASE Buffer(p)
  <2>1. Buffers(p) /\ Elsewhere(p)
    BY <1>1, <1>5 DEF Buffer, Goto, Buffers, Keeps, Elsewhere, traffic
  <2> QED
    BY <1>5, <2>1, Zenon DEF Buffer, Effect, config, payment
<1>6. CASE Received(p)
  <2>1. Receives(p) /\ Elsewhere(p)
    BY <1>1, <1>6 DEF Received, Goto, Receives, Keeps, Quiet, Elsewhere, traffic
  <2> QED
    BY <1>6, <2>1, Zenon DEF Received, Effect, config, payment
<1>7. ASSUME NEW t \in Tasks, Release(p, t)
      PROVE  Effect(p) /\ Elsewhere(p) /\ UNCHANGED <<required, verifyOnChain>>
  <2>1. Told(t)
    BY <1>7, Zenon DEF Release, SetInFilter, Told
  <2>2. Releases(p, t) /\ Elsewhere(p)
    BY <1>1, <1>7, <2>1 DEF Release, Releases, Elsewhere, traffic
  <2> QED
    BY <1>7, <2>2, Zenon DEF Release, Effect, config, payment
<1> QED
  BY <1>2, <1>3, <1>4, <1>5, <1>6, <1>7

\* The next content, seen from the caller.
LEMMA NextContentEffect ==
    ASSUME IntakeTypes, NEW p \in Callers, NextContent(p)
    PROVE  /\ content'[p] = Tail(content[p]) /\ pc'[p] = With(content'[p])
           /\ \A q \in Callers : q # p => content'[q] = content[q] /\ pc'[q] = pc[q]
<1>1. DOMAIN pc = Callers /\ DOMAIN content = Callers
  BY DEF IntakeTypes
<1> QED
  BY <1>1 DEF NextContent, Goto

LEMMA ContentEffects ==
    ASSUME IntakeTypes, NEW p \in Callers,
           Extract(p) \/ FetchError(p) \/ Accept(p) \/ AcceptByMode(p)
    PROVE  Effect(p) /\ Elsewhere(p) /\ UNCHANGED <<required, verifyOnChain>>
<1>1. /\ DOMAIN pc = Callers /\ DOMAIN batch = Callers /\ DOMAIN tasks = Callers
      /\ DOMAIN content = Callers
  BY DEF IntakeTypes
<1>2. pc[p] \in Looking
  BY DEF Extract, FetchError, Accept, AcceptByMode, Looking
<1>3. UNCHANGED <<required, verifyOnChain, channel, seenTx, overlap, surfaced>>
  BY DEF Extract, FetchError, Accept, AcceptByMode, config, payment, traffic
<1>4. CASE FetchError(p)
  <2>1. Fails(p) /\ Elsewhere(p)
    BY <1>1, <1>2, <1>3, <1>4 DEF FetchError, Goto, Fails, Elsewhere
  <2> QED
    BY <1>3, <2>1, Zenon DEF Effect
<1>5. ASSUME UNCHANGED <<batch, verified, fetchErrors>>, Admit(p),
             mode # "enforce" \/ From[Current(p)] \in trusted
      PROVE  Effect(p) /\ Elsewhere(p)
  <2>1. /\ tasks'[p] = Append(tasks[p], Current(p)) /\ refused' = refused
        /\ \A q \in Callers : q # p => tasks'[q] = tasks[q]
    BY <1>1, <1>5 DEF Admit
  <2>2. NextContent(p)
    BY <1>5 DEF Admit
  <2>3. Admits(p) /\ Elsewhere(p)
    BY <1>2, <1>3, <1>5, <2>1, <2>2, NextContentEffect, Zenon DEF Admits, Quiet, Elsewhere
  <2> QED
    BY <2>3, Zenon DEF Effect
<1>6. ASSUME UNCHANGED <<batch, tasks, verified, fetchErrors>>, NextContent(p),
             refused' = refused \cup {Current(p)}
      PROVE  Effect(p) /\ Elsewhere(p)
  <2>1. Refuses(p) /\ Elsewhere(p)
    BY <1>2, <1>3, <1>6, NextContentEffect, Zenon DEF Refuses, Elsewhere
  <2> QED
    BY <2>1, Zenon DEF Effect
<1>7. ASSUME UNCHANGED <<batch, content, tasks, verified, fetchErrors, refused>>,
             NEW place \in Looking, Goto(p, place)
      PROVE  Effect(p) /\ Elsewhere(p)
  <2>1. Advances(p) /\ Elsewhere(p)
    BY <1>1, <1>2, <1>3, <1>7 DEF Advances, Goto, Keeps, Quiet, Elsewhere
  <2> QED
    BY <2>1, Zenon DEF Effect
<1>8. "accept" \in Looking /\ "mode" \in Looking
  BY DEF Looking
<1>9. CASE Extract(p)
  BY <1>3, <1>6, <1>7, <1>8, <1>9, Zenon DEF Extract
<1>10. CASE Accept(p)
  <2>1. IsTrusted(Current(p)) => mode # "enforce" \/ From[Current(p)] \in trusted
    BY DEF IsTrusted
  <2> QED
    BY <1>3, <1>5, <1>7, <1>8, <1>10, <2>1, Zenon DEF Accept
<1>11. CASE AcceptByMode(p)
  BY <1>3, <1>5, <1>6, <1>11, Zenon DEF AcceptByMode
<1> QED
  BY <1>3, <1>4, <1>9, <1>10, <1>11, Zenon

LEMMA PaymentEffects ==
    ASSUME IntakeTypes, NEW p \in Callers,
           \/ StartVerify(p) \/ VerifyPayment(p) \/ Pay(p) \/ ReturnTasks(p)
    PROVE  Effect(p) /\ Elsewhere(p) /\ UNCHANGED <<required, verifyOnChain>>
<1>1. /\ DOMAIN pc = Callers /\ DOMAIN batch = Callers /\ DOMAIN tasks = Callers
      /\ DOMAIN verified = Callers
  BY DEF IntakeTypes
<1>2. CASE StartVerify(p)
  <2>1. Begins(p) /\ Elsewhere(p)
    BY <1>1, <1>2 DEF StartVerify, Goto, Begins, Keeps, Quiet, Elsewhere, traffic
  <2> QED
    BY <1>2, <2>1, Zenon DEF StartVerify, Effect, config, payment
<1>3. CASE VerifyPayment(p)
  <2>1. CASE Goto(p, "pay") /\ UNCHANGED <<tasks, verified, refused>> /\ CheckSeen(Head(tasks[p]))
    <3>1. Checks(p) /\ Elsewhere(p)
      BY <1>1, <1>3, <2>1 DEF VerifyPayment, Goto, Checks, Keeps, Quiet, Elsewhere, traffic
    <3> QED
      BY <1>3, <3>1, Zenon DEF VerifyPayment, Effect, config, payment
  <2>2. CASE Verified(p, TRUE) /\ required = 0
    <3>1. Clears(p) /\ Elsewhere(p)
      BY <1>1, <1>3, <2>2 DEF VerifyPayment, Verified, Goto, Clears, Elsewhere, traffic
    <3> QED
      BY <1>3, <3>1, Zenon DEF VerifyPayment, Effect, config, payment
  <2>3. CASE Verified(p, FALSE)
    <3>1. Rejects(p) /\ Elsewhere(p)
      BY <1>1, <1>3, <2>3 DEF VerifyPayment, Verified, Goto, Rejects, Elsewhere, traffic
    <3> QED
      BY <1>3, <3>1, Zenon DEF VerifyPayment, Effect, config, payment
  <2> QED
    BY <1>3, <2>1, <2>2, <2>3, Zenon DEF VerifyPayment
<1>4. CASE Pay(p)
  <2>1. tasks[p] # <<>>
    BY <1>4 DEF Pay, IntakeTypes
  <2>2. CASE Verified(p, TRUE) /\ AmountSuffices(Head(tasks[p]))
             /\ seenTx' = seenTx \cup {Tx[Head(tasks[p])]}
    <3>1. Clears(p) /\ Elsewhere(p)
      BY <1>1, <1>4, <2>1, <2>2 DEF Pay, Verified, Goto, Clears, Elsewhere, traffic
    <3> QED
      BY <1>4, <3>1, Zenon DEF Pay, Effect, config, payment
  <2>3. CASE Verified(p, FALSE) /\ UNCHANGED seenTx
    <3>1. Rejects(p) /\ Elsewhere(p)
      BY <1>1, <1>4, <2>1, <2>3 DEF Pay, Verified, Goto, Rejects, Elsewhere, traffic
    <3> QED
      BY <1>4, <3>1, Zenon DEF Pay, Effect, config, payment
  <2> QED
    BY <1>4, <2>2, <2>3, Zenon DEF Pay
<1>5. CASE ReturnTasks(p)
  <2>1. Returns(p) /\ Elsewhere(p)
    BY <1>1, <1>5 DEF ReturnTasks, Goto, Returns, Elsewhere, traffic
  <2> QED
    BY <1>5, <2>1, Zenon DEF ReturnTasks, Effect, config, payment
<1> QED
  BY <1>2, <1>3, <1>4, <1>5

\* Every other step leaves the callers and what they found out alone, but may empty the filter.
Outside ==
    /\ UNCHANGED <<pc, batch, content, tasks, verified, waiting, doubled, surfaced, refused, seenTx,
                   fetchErrors, overlap>>
    /\ \/ seen' = seen /\ resets' = resets
       \/ seen' = {} /\ resets' = resets + 1

LEMMA Steps ==
    ASSUME IntakeTypes, [Next]_vars
    PROVE  /\ UNCHANGED <<required, verifyOnChain>>
           /\ Outside \/ \E p \in Callers : Effect(p) /\ Elsewhere(p)
<1>1. ASSUME NEW t \in Tasks, Arrive(t) PROVE Outside /\ UNCHANGED <<required, verifyOnChain>>
  BY <1>1 DEF Arrive, Outside, caller, config, payment, channel
<1>2. CASE ChangeTrust
  BY <1>2 DEF ChangeTrust, Outside, caller, payment, traffic, channel
<1>3. CASE UNCHANGED vars
  BY <1>3 DEF vars, Outside, caller, config, payment, traffic, channel
<1>4. ASSUME NEW p \in Callers, PollTasks(p)
      PROVE  Effect(p) /\ Elsewhere(p) /\ UNCHANGED <<required, verifyOnChain>>
  BY <1>4, ReceiveEffects, ContentEffects, PaymentEffects DEF PollTasks
<1>5. CASE OtherMessage
  BY <1>5 DEF OtherMessage, Outside, caller, config, payment, traffic
<1> QED
  BY <1>1, <1>2, <1>3, <1>4, <1>5, Zenon DEF Next

-------------------------------------------------------------------------------
(* The inductive invariants *)

\* A caller has content only while it receives and looks at it, and fills verified only while it
\* verifies; it starts and ends with nothing.
Phases ==
    \A p \in Callers :
        /\ pc[p] \notin Receiving => content[p] = <<>>
        /\ pc[p] \notin {"verify", "pay"} => verified[p] = <<>>
        /\ pc[p] = "idle" => tasks[p] = <<>>

\* Calls follow each other: at most one is in progress.
Alone == ~overlap => \A p, q \in Callers : pc[p] # "idle" /\ pc[q] # "idle" => p = q

Paid(t) == Tx[t] # NoTx /\ AmountSuffices(t)

\* What has passed verify_payment has paid.
PaidFor ==
    required > 0 =>
        /\ \A p \in Callers : pc[p] = "pay" => Tx[Head(tasks[p])] # NoTx
        /\ \A p \in Callers : \A t \in Range(verified[p]) : Paid(t)
        /\ \A t \in Tasks : surfaced[t] > 0 => Paid(t)

Cleared(t) == surfaced[t] > 0 \/ \E p \in Callers : t \in Range(verified[p])

\* Without overlap each payment is in seen_tx_hashes, and only one task has passed with it.
OwnPayment ==
    required > 0 /\ ~overlap =>
        /\ \A p \in Callers : pc[p] = "pay" => Tx[Head(tasks[p])] \notin seenTx
        /\ \A t \in Tasks : Cleared(t) => Tx[t] \in seenTx
        /\ \A t, u \in Tasks : Cleared(t) /\ Cleared(u) /\ t # u => Tx[t] # Tx[u]

\* A task is in one place only, and never again once it was returned: at most one copy of it waits,
\* unknown to the filter, or a caller holds it, or it was returned.
OnePlace(p, t) ==
    /\ Once(content[p], t) /\ Once(tasks[p], t) /\ Once(verified[p], t)
    /\ t \in InHand(p) => t \in seen /\ surfaced[t] = 0
    /\ t \in Range(content[p]) => t \notin Range(tasks[p])
    /\ t \in Range(tasks[p]) => t \notin Range(verified[p])
    /\ pc[p] = "receive" /\ Message(p) = t => t \notin seen

Singly(t) ==
    /\ surfaced[t] <= 1 /\ (surfaced[t] > 0 => t \in seen)
    /\ waiting[t] <= 1 /\ (waiting[t] > 0 => t \notin seen)
    /\ \A p \in Callers : OnePlace(p, t)

\* So it is without overlap and as long as the filter is not emptied, unless a copy was let in while
\* another waited.
AtMostOnce == ~overlap /\ resets = 0 => \A t \in Tasks \ doubled : Singly(t)

-------------------------------------------------------------------------------
(* What the steps do to the sets of tasks *)

\* The same of the sequence that a step leaves behind.
LEMMA AppendedLemma ==
    ASSUME NEW S, NEW s \in Seq(S), NEW e \in S, NEW r, r = Append(s, e)
    PROVE  /\ Range(r) = Range(s) \cup {e}
           /\ \A t : Once(s, t) /\ (t = e => t \notin Range(s)) => Once(r, t)
  BY AppendLemma

LEMMA TailedLemma ==
    ASSUME NEW S, NEW s \in Seq(S), s # <<>>, NEW r, r = Tail(s)
    PROVE  /\ Head(s) \in S
           /\ Range(s) = Range(r) \cup {Head(s)}
           /\ \A t : Once(s, t) => Once(r, t) /\ (t = Head(s) => t \notin Range(r))
  BY TailLemma

LEMMA LookingLemma ==
    ASSUME IntakeTypes, NEW p \in Callers, pc[p] \in Looking
    PROVE  /\ Current(p) \in Tasks
           /\ Range(content[p]) = Range(Tail(content[p])) \cup {Current(p)}
           /\ \A t : Once(content[p], t) =>
                  Once(Tail(content[p]), t) /\ (t = Current(p) => t \notin Range(Tail(content[p])))
<1>1. content[p] \in Seq(Tasks) /\ content[p] # <<>>
  BY DEF IntakeTypes
<1> QED
  BY <1>1, TailedLemma, Zenon DEF Current

LEMMA AdmitsLemma ==
    ASSUME IntakeTypes, NEW p \in Callers, Admits(p)
    PROVE  /\ Range(tasks'[p]) = Range(tasks[p]) \cup {Current(p)}
           /\ \A t : Once(tasks[p], t) /\ (t = Current(p) => t \notin Range(tasks[p]))
                      => Once(tasks'[p], t)
<1>1. Current(p) \in Tasks /\ tasks[p] \in Seq(Tasks)
  BY LookingLemma DEF IntakeTypes, Admits
<1>2. tasks'[p] = Append(tasks[p], Current(p))
  BY Zenon DEF Admits
<1> QED
  BY <1>1, <1>2, AppendedLemma, Zenon

LEMMA ReleasesLemma ==
    ASSUME IntakeTypes, NEW p \in Callers, NEW u \in Tasks, Releases(p, u)
    PROVE  /\ Range(content'[p]) = Range(content[p]) \cup {u}
           /\ \A t : Once(content[p], t) /\ (t = u => t \notin Range(content[p]))
                      => Once(content'[p], t)
<1>1. content[p] \in Seq(Tasks)
  BY DEF IntakeTypes
<1>2. content'[p] = Append(content[p], u)
  BY Zenon DEF Releases
<1> QED
  BY <1>1, <1>2, AppendedLemma, Zenon

LEMMA DeliversLemma ==
    ASSUME NEW p \in Callers, Delivers(p)
    PROVE  Range(content'[p]) = {Message(p)} /\ \A t : Once(content'[p], t)
<1>1. content'[p] = <<Message(p)>>
  BY Zenon DEF Delivers
<1>2. \A r : r = <<Message(p)>> => Range(r) = {Message(p)} /\ \A t : Once(r, t)
  BY ShortLemma
<1> QED
  BY <1>1, <1>2, Zenon

LEMMA FirstLemma ==
    ASSUME IntakeTypes, NEW p \in Callers, tasks[p] # <<>>, tasks'[p] = Tail(tasks[p])
    PROVE  /\ Head(tasks[p]) \in Tasks
           /\ Range(tasks[p]) = Range(tasks'[p]) \cup {Head(tasks[p])}
           /\ \A t : Once(tasks[p], t) =>
                  Once(tasks'[p], t) /\ (t = Head(tasks[p]) => t \notin Range(tasks'[p]))
<1>1. tasks[p] \in Seq(Tasks)
  BY DEF IntakeTypes
<1> QED
  BY <1>1, TailedLemma, Zenon

LEMMA ClearsLemma ==
    ASSUME IntakeTypes, NEW p \in Callers, Clears(p)
    PROVE  /\ Range(verified'[p]) = Range(verified[p]) \cup {Head(tasks[p])}
           /\ \A t : Once(verified[p], t) /\ (t = Head(tasks[p]) => t \notin Range(verified[p]))
                      => Once(verified'[p], t)
<1>1. Head(tasks[p]) \in Tasks /\ verified[p] \in Seq(Tasks)
  BY FirstLemma DEF Clears, IntakeTypes
<1>2. verified'[p] = Append(verified[p], Head(tasks[p]))
  BY Zenon DEF Clears
<1> QED
  BY <1>1, <1>2, AppendedLemma, Zenon

LEMMA ReturnsLemma ==
    ASSUME IntakeTypes, NEW p \in Callers, Returns(p), NEW t \in Tasks
    PROVE  /\ surfaced'[t] > 0 <=> surfaced[t] > 0 \/ t \in Range(verified[p])
           /\ t \notin Range(verified[p]) => surfaced'[t] = surfaced[t]
           /\ Once(verified[p], t) => surfaced'[t] <= surfaced[t] + 1
<1> DEFINE n == Cardinality({i \in DOMAIN verified[p] : verified[p][i] = t})
<1>1. n \in Nat /\ (n > 0 <=> t \in Range(verified[p])) /\ (Once(verified[p], t) => n <= 1)
  <2>1. verified[p] \in Seq(Tasks)
    BY DEF IntakeTypes
  <2> QED
    BY <2>1, OccurrencesLemma
<1>2. surfaced'[t] = surfaced[t] + n /\ surfaced[t] \in Nat
  BY DEF Returns, IntakeTypes
<1>3. \A a, b \in Nat : /\ a + b > 0 <=> a > 0 \/ b > 0
                        /\ ~(b > 0) => a + b = a
                        /\ b <= 1 => a + b <= a + 1
  OBVIOUS
<1> HIDE DEF n
<1> QED
  BY <1>1, <1>2, <1>3, Zenon

-------------------------------------------------------------------------------
(* Trust *)

\* A caller takes up a task only while its sender is on the trust list or the mode does not
\* enforce it, whatever trust_set_mode, trust_add and trust_remove do between the two reads of
\* accept_or_drop.
THEOREM AdmissionRespectsTrustHolds == Spec => AdmissionRespectsTrust
<1> DEFINE A == \A p \in Callers :
                    Len(tasks'[p]) > Len(tasks[p]) =>
                        mode # "enforce" \/ From[Current(p)] \in trusted
<1>1. IntakeTypes /\ [Next]_vars => [A]_vars
  <2> SUFFICES ASSUME IntakeTypes, [Next]_vars, NEW q \in Callers, Len(tasks'[q]) > Len(tasks[q])
               PROVE  mode # "enforce" \/ From[Current(q)] \in trusted
    OBVIOUS
  <2>1. tasks[q] \in Seq(Tasks) /\ Len(tasks[q]) \in Nat
    BY LenProperties DEF IntakeTypes
  <2>2. tasks'[q] # tasks[q] /\ tasks'[q] # <<>>
    <3>1. Len(<<>>) = 0
      OBVIOUS
    <3> QED
      BY <2>1, <3>1
  <2>3. PICK p \in Callers : Effect(p) /\ Elsewhere(p)
    BY <2>2, Steps DEF Outside
  <2>4. p = q
    BY <2>2, <2>3 DEF Elsewhere
  <2>5. ~(tasks[q] # <<>> /\ tasks'[q] = Tail(tasks[q]))
    <3> SUFFICES ASSUME tasks[q] # <<>>, tasks'[q] = Tail(tasks[q]) PROVE FALSE
      OBVIOUS
    <3> DEFINE n == Len(tasks[q])
               m == Len(tasks'[q])
    <3>1. m < n /\ m \in Nat
      BY <2>1, TailLemma, LenProperties
    <3>2. m > n /\ n \in Nat
      BY <2>1
    <3> HIDE DEF m, n
    <3> QED
      BY <3>1, <3>2
  <2>6. Admits(q)
    BY <2>2, <2>3, <2>4, <2>5 DEF Effect, Drains, Skips, FindsNew, Delivers, Buffers, Releases,
                                  Receives, Refuses, Advances, Fails, Begins, Checks, Rejects,
                                  Clears, Returns, Keeps
  <2> QED
    BY <2>6 DEF Admits
<1> QED
  BY <1>1, IntakeInitTypes, IntakeStepTypes, PTL DEF Spec, AdmissionRespectsTrust

-------------------------------------------------------------------------------
(* Nothing vanishes *)

\* What a step of a caller does to the tasks that are accounted for.
LEMMA Accounts ==
    ASSUME IntakeTypes, Phases, NEW p \in Callers, Effect(p)
    PROVE  /\ \A t \in seen' : t \in seen \/ t \in InHand(p)'
           /\ \A t \in Tasks : surfaced[t] > 0 => surfaced'[t] > 0
           /\ refused \subseteq refused'
           /\ fetchErrors' = 0 =>
                  /\ fetchErrors = 0
                  /\ \A t \in InHand(p) \cap Tasks :
                         t \in InHand(p)' \/ surfaced'[t] > 0 \/ t \in refused'
<1>1. CASE \/ Drains(p) \/ Skips(p) \/ FindsNew(p) \/ Begins(p) \/ Checks(p) \/ Buffers(p)
           \/ Receives(p) \/ Advances(p)
  <2>1. Keeps(p) /\ UNCHANGED <<seen, surfaced, refused, fetchErrors>>
    BY <1>1, Zenon DEF Drains, Skips, FindsNew, Begins, Checks, Buffers, Receives, Advances, Quiet,
                       channel
  <2> QED
    BY <2>1, Zenon DEF Keeps, InHand
<1>2. CASE Delivers(p)
  <2>1. content[p] = <<>> /\ Range(content[p]) = {}
    BY <1>2, ShortLemma DEF Delivers, Phases, Receiving, Looking
  <2> QED
    BY <1>2, <2>1, DeliversLemma, Zenon DEF Delivers, Told, InHand
<1>3. ASSUME NEW u \in Tasks, Releases(p, u) PROVE Range(content'[p]) = Range(content[p]) \cup {u}
  BY <1>3, ReleasesLemma
<1>4. CASE \E u \in Tasks : Releases(p, u)
  BY <1>3, <1>4, Zenon DEF Releases, Told, InHand
<1>5. CASE Refuses(p)
  <2>1. Range(content[p]) = Range(content'[p]) \cup {Current(p)}
    BY <1>5, LookingLemma DEF Refuses
  <2> QED
    BY <1>5, <2>1, Zenon DEF Refuses, InHand, channel
<1>6. CASE Fails(p)
  <2>1. fetchErrors' # 0
    <3>1. fetchErrors \in Nat /\ fetchErrors' = fetchErrors + 1
      BY <1>6, Zenon DEF Fails, IntakeTypes
    <3> QED
      BY <3>1
  <2> QED
    BY <1>6, <2>1, Zenon DEF Fails, channel
<1>7. CASE Admits(p)
  <2>1. Range(content[p]) = Range(content'[p]) \cup {Current(p)}
    BY <1>7, LookingLemma DEF Admits
  <2> QED
    BY <1>7, <2>1, AdmitsLemma, Zenon DEF Admits, Quiet, InHand, channel
<1>8. CASE Rejects(p)
  <2>1. Range(tasks[p]) = Range(tasks'[p]) \cup {Head(tasks[p])}
    BY <1>8, FirstLemma DEF Rejects
  <2> QED
    BY <1>8, <2>1, Zenon DEF Rejects, InHand, channel
<1>9. CASE Clears(p)
  <2>1. Range(tasks[p]) = Range(tasks'[p]) \cup {Head(tasks[p])}
    BY <1>9, FirstLemma, Zenon DEF Clears
  <2> QED
    BY <1>9, <2>1, ClearsLemma, Zenon DEF Clears, InHand, channel
<1>10. CASE Returns(p)
  <2>1. Keeps(p) \/ (content'[p] = content[p] /\ tasks'[p] = tasks[p] /\ verified'[p] = <<>>)
    BY <1>10 DEF Returns
  <2>2. UNCHANGED <<seen, refused, fetchErrors>>
    BY <1>10, Zenon DEF Returns, channel
  <2> QED
    BY <1>10, <2>1, <2>2, ReturnsLemma, Zenon DEF Keeps, InHand
<1> QED
  BY <1>1, <1>2, <1>4, <1>5, <1>6, <1>7, <1>8, <1>9, <1>10, Zenon DEF Effect

LEMMA PhasesStep == IntakeTypes /\ Phases /\ [Next]_vars => Phases'
<1> SUFFICES ASSUME IntakeTypes, Phases, [Next]_vars, NEW q \in Callers
             PROVE  /\ pc'[q] \notin Receiving => content'[q] = <<>>
                    /\ pc'[q] \notin {"verify", "pay"} => verified'[q] = <<>>
                    /\ pc'[q] = "idle" => tasks'[q] = <<>>
  BY DEF Phases
<1>1. CASE Outside
  BY <1>1 DEF Outside, Phases
<1>2. ASSUME NEW p \in Callers, Effect(p), Elsewhere(p), p # q
      PROVE  /\ pc'[q] = pc[q] /\ content'[q] = content[q]
             /\ tasks'[q] = tasks[q] /\ verified'[q] = verified[q]
  BY <1>2 DEF Elsewhere
<1>3. CASE Effect(q)
  <2>1. \A s : /\ With(s) \notin {"idle", "verify", "pay", "receive"}
               /\ With(s) \notin Receiving => s = <<>>
    BY DEF With, Receiving, Looking
  <2>2. pc[q] = "resolve" => pc[q] \in Receiving
    BY DEF Receiving
  <2> QED
    BY <1>3, <2>1, <2>2
       DEF Phases, Effect, Drains, Skips, FindsNew, Delivers, Buffers, Releases, Receives, Refuses,
           Advances, Fails, Admits, Begins, Checks, Rejects, Clears, Returns, Keeps, Looking, Receiving
<1> QED
  BY <1>1, <1>2, <1>3, Steps DEF Phases

LEMMA NothingVanishesStep ==
    IntakeTypes /\ Phases /\ NothingVanishes /\ [Next]_vars => NothingVanishes'
<1> SUFFICES ASSUME IntakeTypes, Phases, NothingVanishes, [Next]_vars, fetchErrors' = 0, NEW t \in seen'
             PROVE  surfaced'[t] > 0 \/ t \in refused' \/ \E q \in Callers : t \in InHand(q)'
  BY DEF NothingVanishes
<1>1. CASE Outside
  BY <1>1 DEF Outside, NothingVanishes, InHand
<1>2. ASSUME NEW p \in Callers, Effect(p), Elsewhere(p)
      PROVE  surfaced'[t] > 0 \/ t \in refused' \/ \E q \in Callers : t \in InHand(q)'
  <2>1. CASE t \in InHand(p)'
    BY <2>1
  <2>2. CASE t \in seen /\ t \notin InHand(p)'
    <3>1. t \in Tasks
      BY <2>2 DEF IntakeTypes
    <3>2. fetchErrors = 0
      BY <1>2, Accounts
    <3>3. CASE surfaced[t] > 0 \/ t \in refused
      BY <1>2, <3>1, <3>3, Accounts
    <3>4. ASSUME NEW q \in Callers, t \in InHand(q), q # p PROVE t \in InHand(q)'
      BY <1>2, <3>4 DEF Elsewhere, InHand
    <3>5. CASE t \in InHand(p)
      BY <1>2, <2>2, <3>1, <3>5, Accounts
    <3> QED
      BY <2>2, <3>2, <3>3, <3>4, <3>5 DEF NothingVanishes
  <2> QED
    BY <1>2, <2>1, <2>2, Accounts
<1> QED
  BY <1>1, <1>2, Steps

\* Once the filter knows a task, so that poll_tasks never processes it again, some caller holds
\* it, it was returned, or it was refused; a failed fetch of maybe_fetch_offloaded is the one
\* exception.
THEOREM NothingVanishesHolds == Spec => []NothingVanishes
<1>1. Init => NothingVanishes /\ Phases
  BY DEF Init, NothingVanishes, Phases
<1> QED
  BY <1>1, IntakeInitTypes, IntakeStepTypes, PhasesStep, NothingVanishesStep, PTL DEF Spec

-------------------------------------------------------------------------------
(* One call at a time *)

\* A step that begins a call while another is in progress sets overlap; overlap is never reset.
LEMMA AloneStep ==
    ASSUME IntakeTypes, Alone, NEW p \in Callers, Effect(p), Elsewhere(p), ~overlap'
    PROVE  ~overlap /\ \A q \in Callers : q # p => pc[q] = "idle" /\ pc'[q] = "idle"
<1>1. CASE Drains(p)
  BY <1>1, Zenon DEF Drains, Elsewhere
<1>2. CASE ~Drains(p)
  <2>1. overlap' = overlap /\ pc[p] # "idle"
    BY <1>2 DEF Effect, Skips, FindsNew, Delivers, Buffers, Releases, Receives, Refuses, Advances,
                Fails, Admits, Begins, Checks, Rejects, Clears, Returns, Quiet, Looking
  <2> QED
    BY <2>1 DEF Alone, Elsewhere
<1> QED
  BY <1>1, <1>2

LEMMA AloneInv == IntakeTypes /\ Alone /\ [Next]_vars => Alone'
<1> SUFFICES ASSUME IntakeTypes, Alone, [Next]_vars, ~overlap' PROVE Alone'
  BY DEF Alone
<1>1. CASE Outside
  BY <1>1 DEF Outside, Alone
<1>2. ASSUME NEW p \in Callers, Effect(p), Elsewhere(p) PROVE Alone'
  BY <1>2, AloneStep DEF Alone
<1> QED
  BY <1>1, <1>2, Steps

-------------------------------------------------------------------------------
(* Payment *)

\* What passes verify_payment, or is returned, has passed it before or passes it now.
LEMMA ClearedStep ==
    ASSUME IntakeTypes, NEW p \in Callers, Effect(p)
    PROVE  /\ \A t \in Range(verified'[p]) :
                  t \in Range(verified[p]) \/ (Clears(p) /\ t = Head(tasks[p]))
           /\ \A t \in Tasks : surfaced'[t] > 0 => surfaced[t] > 0 \/ t \in Range(verified[p])
<1>1. CASE Clears(p)
  BY <1>1, ClearsLemma, Zenon DEF Clears
<1>2. CASE Returns(p)
  BY <1>2, ReturnsLemma, ShortLemma DEF Returns
<1>3. CASE ~Clears(p) /\ ~Returns(p)
  BY <1>3, Zenon DEF Effect, Drains, Skips, FindsNew, Delivers, Buffers, Releases, Receives, Refuses,
                     Advances, Fails, Admits, Begins, Checks, Rejects, Keeps, Quiet
<1> QED
  BY <1>1, <1>2, <1>3

LEMMA PayingStep ==
    ASSUME NEW p \in Callers, Effect(p), pc'[p] = "pay"
    PROVE  CheckSeen(Head(tasks'[p])) /\ seenTx' = seenTx
  BY DEF Effect, Drains, Skips, FindsNew, Delivers, Buffers, Releases, Receives, Refuses, Advances,
         Fails, Admits, Begins, Checks, Rejects, Clears, Returns, Keeps, Quiet, Looking, With

LEMMA PaidForStep == IntakeTypes /\ PaidFor /\ [Next]_vars => PaidFor'
<1> SUFFICES ASSUME IntakeTypes, PaidFor, [Next]_vars, required > 0 PROVE PaidFor'
  BY Steps, Zenon DEF PaidFor
<1>1. required' = required /\ verifyOnChain' = verifyOnChain
  BY Steps
<1>2. \A t : Paid(t)' <=> Paid(t)
  BY <1>1 DEF Paid, AmountSuffices
<1>3. CASE Outside
  BY <1>2, <1>3 DEF Outside, PaidFor
<1>4. ASSUME NEW p \in Callers, Effect(p), Elsewhere(p) PROVE PaidFor'
  <2>1. ASSUME NEW q \in Callers, pc'[q] = "pay" PROVE Tx[Head(tasks'[q])] # NoTx
    BY <1>4, <2>1, PayingStep DEF Elsewhere, PaidFor, CheckSeen
  <2>2. Clears(p) => Paid(Head(tasks[p]))
    <3>1. required # 0
      OBVIOUS
    <3> QED
      BY <3>1, Zenon DEF Clears, PaidFor, Paid
  <2>3. ASSUME NEW q \in Callers, NEW t \in Range(verified'[q]) PROVE Paid(t)
    <3>1. CASE q # p
      BY <1>4, <2>3, <3>1 DEF Elsewhere, PaidFor
    <3>2. CASE q = p
      BY <1>4, <2>2, <2>3, <3>2, ClearedStep DEF PaidFor
    <3> QED
      BY <3>1, <3>2
  <2>4. ASSUME NEW t \in Tasks, surfaced'[t] > 0 PROVE Paid(t)
    BY <1>4, <2>4, ClearedStep DEF PaidFor
  <2> QED
    BY <1>2, <2>1, <2>3, <2>4 DEF PaidFor
<1> QED
  BY <1>3, <1>4, Steps

LEMMA OwnPaymentStep ==
    IntakeTypes /\ Alone /\ OwnPayment /\ [Next]_vars => OwnPayment'
<1> SUFFICES ASSUME IntakeTypes, Alone, OwnPayment, [Next]_vars, required > 0, ~overlap'
             PROVE  OwnPayment'
  BY Steps DEF OwnPayment
<1>1. CASE Outside
  BY <1>1 DEF Outside, OwnPayment, Cleared
<1>2. ASSUME NEW p \in Callers, Effect(p), Elsewhere(p) PROVE OwnPayment'
  <2>1. ~overlap /\ \A q \in Callers : q # p => pc'[q] = "idle"
    BY <1>2, AloneStep
  <2>2. ASSUME NEW q \in Callers, pc'[q] = "pay" PROVE Tx[Head(tasks'[q])] \notin seenTx'
    BY <1>2, <2>1, <2>2, PayingStep DEF CheckSeen
  <2>3. ASSUME NEW t \in Tasks, Cleared(t)'
        PROVE  Cleared(t) \/ (Clears(p) /\ t = Head(tasks[p]))
    BY <1>2, <2>3, ClearedStep DEF Cleared, Elsewhere
  <2>4. Clears(p) => /\ seenTx' = seenTx \cup {Tx[Head(tasks[p])]}
                     /\ Tx[Head(tasks[p])] \notin seenTx
    <3>1. ASSUME Clears(p) PROVE pc[p] = "pay" /\ seenTx' = seenTx \cup {Tx[Head(tasks[p])]}
      <4>1. required # 0
        OBVIOUS
      <4> QED
        BY <3>1, <4>1, Zenon DEF Clears
    <3> QED
      BY <2>1, <3>1, Zenon DEF OwnPayment
  <2>5. seenTx \subseteq seenTx'
    BY <1>2, <2>4, Zenon DEF Effect, Drains, Skips, FindsNew, Delivers, Buffers, Releases, Receives,
                             Refuses, Advances, Fails, Admits, Begins, Checks, Rejects, Returns, Quiet
  <2>6. ASSUME NEW t \in Tasks, Cleared(t)' PROVE Tx[t] \in seenTx'
    BY <2>1, <2>3, <2>4, <2>5, <2>6 DEF OwnPayment
  <2>7. ASSUME NEW t \in Tasks, NEW u \in Tasks, Cleared(t)', Cleared(u)', t # u
        PROVE  Tx[t] # Tx[u]
    BY <2>1, <2>3, <2>4, <2>7, Zenon DEF OwnPayment
  <2> QED
    BY <2>2, <2>6, <2>7 DEF OwnPayment
<1> QED
  BY <1>1, <1>2, Steps

\* Under a payment requirement verify_payment lets no task through that did not pay the required
\* amount, as claimed or, with verification, on chain, whatever other callers do during the
\* await of verify_transfer; and as long as calls of poll_tasks follow each other, no two tasks
\* pass with the same hash.
THEOREM PaidInFullHolds == Spec => []PaidInFull
<1> DEFINE PaymentInv == IntakeTypes /\ Alone /\ PaidFor /\ OwnPayment
<1>1. Init => PaymentInv
  <2> SUFFICES ASSUME Init PROVE PaymentInv
    OBVIOUS
  <2>1. IntakeTypes /\ Alone
    BY IntakeInitTypes, Zenon DEF Init, Alone
  <2>2. \A t \in Tasks : ~Cleared(t) /\ ~(surfaced[t] > 0)
    BY ShortLemma DEF Init, Cleared
  <2>3. \A p \in Callers : Range(verified[p]) = {} /\ pc[p] # "pay"
    BY ShortLemma DEF Init
  <2> QED
    BY <2>1, <2>2, <2>3 DEF PaidFor, OwnPayment
<1>2. PaymentInv /\ [Next]_vars => PaymentInv'
  BY IntakeStepTypes, AloneInv, PaidForStep, OwnPaymentStep
<1>3. PaymentInv => PaidInFull
  BY DEF PaidFor, OwnPayment, PaidInFull, Paid, AmountSuffices, Cleared
<1> QED
  BY <1>1, <1>2, <1>3, PTL DEF Spec

-------------------------------------------------------------------------------
(* Once *)

\* A caller between two calls holds nothing.
LEMMA IdleHoldsNothing ==
    ASSUME Phases, NEW q \in Callers, pc[q] = "idle", NEW t
    PROVE  OnePlace(q, t)
<1>1. content[q] = <<>> /\ tasks[q] = <<>> /\ verified[q] = <<>>
  BY DEF Phases, Receiving, Looking
<1>2. InHand(q) = {}
  BY <1>1, ShortLemma DEF InHand
<1> QED
  BY <1>1, <1>2, ShortLemma DEF OnePlace

\* What a step that lets a task in or out does to the filter and the buffer, for the tasks of which no
\* two copies were let in.
LEMMA ChannelStep ==
    ASSUME IntakeTypes, NEW p \in Callers, Effect(p), resets' = 0, NEW t \in Tasks, t \notin doubled'
    PROVE  /\ resets = 0 /\ t \notin doubled /\ seen \subseteq seen'
           /\ t \in seen' => \/ t \in seen
                             \/ Delivers(p) /\ t = Message(p)
                             \/ Releases(p, t)
           /\ t = Message(p) /\ (Delivers(p) \/ Buffers(p)) => waiting[t] = 0
           /\ Buffers(p) /\ t = Message(p) => waiting'[t] = 1
           /\ Releases(p, t) => waiting'[t] = waiting[t] - 1
           /\ ~(Buffers(p) /\ t = Message(p)) /\ ~Releases(p, t) => waiting'[t] = waiting[t]
<1>0. /\ resets \in Nat /\ waiting[t] \in Nat /\ DOMAIN waiting = Tasks
      /\ \A u : u \in Tasks => (waiting[t] > 0 \/ waiting[t] = 0)
  BY DEF IntakeTypes
<1>1. resets + 1 # 0
  BY <1>0
<1>2. ASSUME NEW u, Told(u) PROVE resets = 0 /\ seen' = seen \cup {u}
  BY <1>1, <1>2, Zenon DEF Told
<1>3. ASSUME NEW u, LetIn(u) PROVE t \notin doubled /\ (t = u => waiting[t] = 0)
  BY <1>0, <1>3, Zenon DEF LetIn
<1>4. ~(Delivers(p) /\ Buffers(p))
  <2> SUFFICES ASSUME Delivers(p), Buffers(p) PROVE FALSE
    OBVIOUS
  <2>1. waiting' = waiting /\ waiting' = [waiting EXCEPT ![Message(p)] = @ + 1] /\ pc[p] = "receive"
    BY Zenon DEF Delivers, Buffers
  <2>2. waiting[Message(p)] \in Nat /\ Message(p) \in DOMAIN waiting
    BY <2>1, HeadTypes DEF IntakeTypes
  <2> QED
    BY <2>1, <2>2
<1>5. ~(Delivers(p) /\ Releases(p, t)) /\ ~(Buffers(p) /\ Releases(p, t))
  BY DEF Delivers, Buffers, Releases
<1>6. CASE Delivers(p)
  <2>1. ~Buffers(p) /\ ~Releases(p, t) /\ Told(Message(p)) /\ LetIn(Message(p)) /\ waiting' = waiting
    BY <1>4, <1>5, <1>6, Zenon DEF Delivers
  <2>2. resets = 0 /\ seen' = seen \cup {Message(p)}
    BY <1>2, <2>1
  <2>3. t \notin doubled /\ (t = Message(p) => waiting[t] = 0)
    BY <1>3, <2>1
  <2> QED
    BY <1>6, <2>1, <2>2, <2>3, Zenon
<1>7. CASE Buffers(p)
  <2>1. /\ ~Delivers(p) /\ ~Releases(p, t) /\ LetIn(Message(p)) /\ seen' = seen /\ resets = 0
        /\ waiting' = [waiting EXCEPT ![Message(p)] = @ + 1]
    BY <1>4, <1>5, <1>7, Zenon DEF Buffers
  <2>2. waiting'[t] = IF t = Message(p) THEN waiting[t] + 1 ELSE waiting[t]
    BY <1>0, <2>1
  <2>3. t = Message(p) => waiting[t] = 0 /\ waiting'[t] = 1
    BY <1>3, <2>1, <2>2
  <2> QED
    BY <1>3, <1>7, <2>1, <2>2, <2>3, Zenon
<1>8. ASSUME NEW u \in Tasks, Releases(p, u)
      PROVE  /\ resets = 0 /\ t \notin doubled /\ seen \subseteq seen' /\ ~Delivers(p) /\ ~Buffers(p)
             /\ t \in seen' => t \in seen \/ Releases(p, t)
             /\ Releases(p, t) => waiting'[t] = waiting[t] - 1
             /\ ~Releases(p, t) => waiting'[t] = waiting[t]
  <2>1. /\ ~Delivers(p) /\ ~Buffers(p) /\ Told(u) /\ doubled' = doubled
        /\ waiting' = [waiting EXCEPT ![u] = @ - 1]
    BY <1>8 DEF Delivers, Buffers, Releases
  <2>2. waiting'[t] = IF t = u THEN waiting[t] - 1 ELSE waiting[t]
    BY <1>0, <2>1
  <2>3. waiting[t] - 1 # waiting[t]
    BY <1>0
  <2>4. CASE t = u
    BY <1>2, <1>8, <2>1, <2>2, <2>4, Zenon
  <2>5. CASE t # u
    <3>1. ~Releases(p, t)
      <4>1. Releases(p, t) => waiting'[t] = waiting[t] - 1
        BY <1>0 DEF Releases
      <4> QED
        BY <2>2, <2>3, <2>5, <4>1, Zenon
    <3>2. waiting'[t] = waiting[t]
      BY <2>2, <2>5
    <3>3. resets = 0 /\ seen' = seen \cup {u}
      BY <1>2, <2>1
    <3> QED
      BY <2>1, <2>5, <3>1, <3>2, <3>3, Zenon
  <2> QED
    BY <2>4, <2>5
<1>9. CASE \E u \in Tasks : Releases(p, u)
  BY <1>8, <1>9, Zenon
<1>10. CASE ~Delivers(p) /\ ~Buffers(p) /\ ~(\E u \in Tasks : Releases(p, u))
  <2>1. UNCHANGED channel
    BY <1>10, Zenon DEF Effect, Drains, Skips, FindsNew, Receives, Refuses, Advances, Fails, Admits,
                       Begins, Checks, Rejects, Clears, Returns, Quiet
  <2> QED
    BY <1>10, <2>1, Zenon DEF channel
<1> QED
  BY <1>6, <1>7, <1>9, <1>10, Zenon

LEMMA OnePlaceStep ==
    ASSUME IntakeTypes, Phases, NEW p \in Callers, Effect(p), resets' = 0,
           NEW t \in Tasks, t \notin doubled', Singly(t)
    PROVE  OnePlace(p, t)'
<1>0. /\ surfaced[t] \in Nat /\ OnePlace(p, t) /\ seen \subseteq seen'
      /\ t \in InHand(p) => t \in seen /\ surfaced[t] = 0
      /\ t \notin seen => surfaced[t] = 0 /\ t \notin InHand(p)
  <2>1. surfaced[t] \in Nat /\ (~(surfaced[t] > 0) => surfaced[t] = 0)
    BY DEF IntakeTypes
  <2> QED
    BY <2>1, ChannelStep, Zenon DEF Singly, OnePlace
<1>1. CASE Drains(p) \/ Skips(p) \/ FindsNew(p) \/ Begins(p) \/ Checks(p) \/ Advances(p) \/ Receives(p)
  <2>1. Keeps(p) /\ UNCHANGED <<seen, surfaced>>
    BY <1>1, Zenon DEF Drains, Skips, FindsNew, Begins, Checks, Advances, Receives, Quiet, channel
  <2>2. pc'[p] = "receive" => FindsNew(p)
    BY <1>1 DEF Drains, Skips, Begins, Checks, Advances, Receives, With, Looking
  <2>3. pc'[p] = "receive" /\ Message(p)' = t => t \notin seen'
    BY <2>1, <2>2, Zenon DEF FindsNew, Message
  <2> QED
    BY <1>0, <2>1, <2>3, Zenon DEF OnePlace, Keeps, InHand
<1>2. CASE Delivers(p)
  <2>1. /\ content[p] = <<>> /\ verified'[p] = verified[p] /\ tasks'[p] = tasks[p]
        /\ surfaced' = surfaced /\ pc'[p] # "receive" /\ pc[p] = "receive"
        /\ Range(content'[p]) = {Message(p)} /\ Once(content'[p], t)
    BY <1>2, DeliversLemma DEF Delivers, Phases, Receiving, Looking
  <2>2. t = Message(p) => t \notin seen
    BY <1>0, <2>1, Zenon DEF OnePlace
  <2>3. t = Message(p) => t \in seen'
    <3>1. resets + 1 # 0
      BY DEF IntakeTypes
    <3> QED
      BY <1>2, <3>1, Zenon DEF Delivers, Told
  <2>4. t = Message(p) => surfaced[t] = 0 /\ t \notin Range(tasks[p]) /\ t \notin Range(verified[p])
    BY <1>0, <2>2, Zenon DEF InHand
  <2> QED
    BY <1>0, <2>1, <2>3, <2>4, Zenon DEF OnePlace, InHand
<1>3. CASE Buffers(p)
  <2>1. Keeps(p) /\ pc'[p] # "receive" /\ surfaced' = surfaced /\ seen' = seen
    BY <1>3 DEF Buffers
  <2> QED
    BY <1>0, <2>1, Zenon DEF OnePlace, Keeps, InHand
<1>4. ASSUME NEW u \in Tasks, Releases(p, u) PROVE OnePlace(p, t)'
  <2>1. /\ verified'[p] = verified[p] /\ tasks'[p] = tasks[p] /\ surfaced' = surfaced
        /\ pc'[p] # "receive" /\ waiting[u] > 0 /\ Told(u)
    BY <1>4 DEF Releases
  <2>2. t = u => t \notin seen
    BY <2>1, Zenon DEF Singly
  <2>3. t = u => t \in seen'
    <3>1. resets + 1 # 0
      BY DEF IntakeTypes
    <3> QED
      BY <2>1, <3>1, Zenon DEF Told
  <2>4. /\ t = u => /\ surfaced[t] = 0 /\ t \notin Range(tasks[p]) /\ t \notin Range(verified[p])
                    /\ t \notin Range(content[p])
    BY <1>0, <2>2, Zenon DEF InHand
  <2>5. Range(content'[p]) = Range(content[p]) \cup {u} /\ Once(content'[p], t)
    BY <1>0, <1>4, <2>4, ReleasesLemma, Zenon DEF OnePlace
  <2> QED
    BY <1>0, <2>1, <2>3, <2>4, <2>5, Zenon DEF OnePlace, InHand
<1>5. CASE Refuses(p)
  <2>1. /\ verified'[p] = verified[p] /\ tasks'[p] = tasks[p] /\ surfaced' = surfaced /\ seen' = seen
        /\ pc'[p] # "receive"
    BY <1>5 DEF Refuses, With, channel
  <2>2. Range(content[p]) = Range(content'[p]) \cup {Current(p)} /\ Once(content'[p], t)
    BY <1>0, <1>5, LookingLemma, Zenon DEF Refuses, OnePlace
  <2> QED
    BY <1>0, <2>1, <2>2, Zenon DEF OnePlace, InHand
<1>6. CASE Fails(p)
  <2>1. /\ pc[p] \notin {"verify", "pay"} /\ pc'[p] # "receive"
    BY <1>6 DEF Fails, Looking
  <2>2. content'[p] = <<>> /\ tasks'[p] = <<>> /\ verified'[p] = <<>>
    BY <1>6, <2>1, Zenon DEF Fails, Phases
  <2> QED
    BY <2>1, <2>2, ShortLemma, Zenon DEF OnePlace, InHand
<1>7. CASE Admits(p)
  <2>1. /\ verified'[p] = verified[p] /\ surfaced' = surfaced /\ seen' = seen
        /\ pc'[p] # "receive" /\ pc[p] \notin {"verify", "pay"}
    BY <1>7 DEF Admits, With, channel, Looking, Quiet
  <2>2. Range(verified[p]) = {}
    BY <2>1, ShortLemma, Zenon DEF Phases
  <2>3. /\ Range(content[p]) = Range(content'[p]) \cup {Current(p)} /\ Once(content'[p], t)
        /\ t = Current(p) => t \notin Range(content'[p])
    BY <1>0, <1>7, LookingLemma, Zenon DEF Admits, OnePlace
  <2>4. t = Current(p) => t \notin Range(tasks[p])
    BY <1>0, <2>3, Zenon DEF OnePlace
  <2>5. Range(tasks'[p]) = Range(tasks[p]) \cup {Current(p)} /\ Once(tasks'[p], t)
    BY <1>0, <1>7, <2>4, AdmitsLemma, Zenon DEF OnePlace
  <2> QED
    BY <1>0, <2>1, <2>2, <2>3, <2>4, <2>5, Zenon DEF OnePlace, InHand
<1>8. CASE Rejects(p)
  <2>1. /\ verified'[p] = verified[p] /\ content'[p] = content[p] /\ surfaced' = surfaced
        /\ seen' = seen /\ pc'[p] # "receive"
    BY <1>8 DEF Rejects, channel
  <2>2. Range(tasks[p]) = Range(tasks'[p]) \cup {Head(tasks[p])} /\ Once(tasks'[p], t)
    BY <1>0, <1>8, FirstLemma, Zenon DEF Rejects, OnePlace
  <2> QED
    BY <1>0, <2>1, <2>2, Zenon DEF OnePlace, InHand
<1>9. CASE Clears(p)
  <2>1. /\ content'[p] = content[p] /\ surfaced' = surfaced /\ seen' = seen /\ pc'[p] # "receive"
    BY <1>9 DEF Clears, channel
  <2>2. /\ Range(tasks[p]) = Range(tasks'[p]) \cup {Head(tasks[p])} /\ Once(tasks'[p], t)
        /\ t = Head(tasks[p]) => t \notin Range(tasks'[p])
    BY <1>0, <1>9, FirstLemma, Zenon DEF Clears, OnePlace
  <2>3. t = Head(tasks[p]) => t \notin Range(verified[p])
    BY <1>0, <2>2, Zenon DEF OnePlace
  <2>4. Range(verified'[p]) = Range(verified[p]) \cup {Head(tasks[p])} /\ Once(verified'[p], t)
    BY <1>0, <1>9, <2>3, ClearsLemma, Zenon DEF OnePlace
  <2> QED
    BY <1>0, <2>1, <2>2, <2>3, <2>4, Zenon DEF OnePlace, InHand
<1>10. CASE Returns(p)
  <2>1. /\ content[p] = <<>> /\ tasks[p] = <<>> /\ pc'[p] # "receive"
    BY <1>10 DEF Returns, Phases, Receiving, Looking
  <2>2. content'[p] = <<>> /\ tasks'[p] = <<>> /\ verified'[p] = <<>>
    BY <1>10, <2>1, Zenon DEF Returns
  <2> QED
    BY <2>1, <2>2, ShortLemma, Zenon DEF OnePlace, InHand
<1> QED
  BY <1>1, <1>2, <1>3, <1>4, <1>5, <1>6, <1>7, <1>8, <1>9, <1>10, Zenon DEF Effect

\* A task returned now was held by the caller, so it was not returned before.
LEMMA SurfacedStep ==
    ASSUME IntakeTypes, NEW p \in Callers, Effect(p), resets' = 0,
           NEW t \in Tasks, t \notin doubled', Singly(t)
    PROVE  surfaced'[t] <= 1 /\ (surfaced'[t] > 0 => t \in seen')
<1>1. surfaced[t] <= 1 /\ (surfaced[t] > 0 => t \in seen) /\ seen \subseteq seen'
  BY ChannelStep, Zenon DEF Singly
<1>2. CASE Returns(p)
  <2>1. Once(verified[p], t) /\ (t \in Range(verified[p]) => surfaced[t] = 0 /\ t \in seen)
    BY Zenon DEF Singly, OnePlace, InHand
  <2>2. /\ surfaced'[t] > 0 => surfaced[t] > 0 \/ t \in Range(verified[p])
        /\ t \notin Range(verified[p]) => surfaced'[t] = surfaced[t]
        /\ surfaced'[t] <= surfaced[t] + 1
    BY <1>2, <2>1, ReturnsLemma, Zenon
  <2>3. CASE t \in Range(verified[p])
    <3>1. surfaced[t] = 0 /\ surfaced'[t] <= surfaced[t] + 1
      BY <2>1, <2>2, <2>3, Zenon
    <3>2. surfaced'[t] <= 1
      BY <3>1
    <3> QED
      BY <1>1, <2>1, <2>3, <3>2, Zenon
  <2>4. CASE t \notin Range(verified[p])
    BY <1>1, <2>2, <2>4, Zenon
  <2> QED
    BY <2>3, <2>4, Zenon
<1>3. CASE ~Returns(p)
  <2>1. surfaced' = surfaced
    BY <1>3, Zenon DEF Effect, Drains, Skips, FindsNew, Delivers, Buffers, Releases, Receives, Refuses,
                       Advances, Fails, Admits, Begins, Checks, Rejects, Clears, Quiet
  <2> QED
    BY <1>1, <2>1, Zenon
<1> QED
  BY <1>2, <1>3

\* Of a task of which no two copies were let in, at most one waits, and only while the filter does
\* not know it.
LEMMA WaitingStep ==
    ASSUME IntakeTypes, NEW p \in Callers, Effect(p), resets' = 0,
           NEW t \in Tasks, t \notin doubled', Singly(t)
    PROVE  waiting'[t] <= 1 /\ (waiting'[t] > 0 => t \notin seen')
<1>1. waiting[t] \in Nat /\ waiting[t] <= 1 /\ (waiting[t] > 0 => t \notin seen)
  BY DEF IntakeTypes, Singly
<1>2. CASE Buffers(p) /\ t = Message(p)
  <2>1. waiting'[t] = 1 /\ seen' = seen /\ pc[p] = "receive"
    BY <1>2, ChannelStep, Zenon DEF Buffers
  <2>2. t \notin seen'
    BY <1>2, <2>1, Zenon DEF Singly, OnePlace
  <2> QED
    BY <2>1, <2>2
<1>3. CASE Releases(p, t)
  <2>1. ~Buffers(p)
    BY <1>3 DEF Buffers, Releases
  <2>2. waiting'[t] = waiting[t] - 1
    BY <1>3, <2>1, ChannelStep, Zenon
  <2> QED
    BY <1>1, <2>2
<1>4. CASE ~(Buffers(p) /\ t = Message(p)) /\ ~Releases(p, t)
  <2>1. waiting'[t] = waiting[t]
    BY <1>4, ChannelStep, Zenon
  <2>2. t \in seen' => t \in seen \/ waiting[t] = 0
    BY <1>4, ChannelStep, Zenon
  <2>3. waiting[t] = 0 => ~(waiting[t] > 0)
    BY <1>1
  <2> QED
    BY <1>1, <2>1, <2>2, <2>3, Zenon
<1> QED
  BY <1>2, <1>3, <1>4, Zenon

LEMMA AtMostOnceStep ==
    IntakeTypes /\ Phases /\ Alone /\ AtMostOnce /\ [Next]_vars => AtMostOnce'
<1> SUFFICES ASSUME IntakeTypes, Phases, Alone, AtMostOnce, [Next]_vars, ~overlap', resets' = 0,
                    NEW t \in Tasks, t \notin doubled'
             PROVE  Singly(t)'
  BY Zenon DEF AtMostOnce
<1>1. CASE Outside
  <2>1. resets + 1 # 0
    BY DEF IntakeTypes
  <2> QED
    BY <1>1, <2>1, Zenon DEF Outside, AtMostOnce, Singly, OnePlace, Message, InHand
<1>2. ASSUME NEW p \in Callers, Effect(p), Elsewhere(p) PROVE Singly(t)'
  <2>1. ~overlap /\ \A q \in Callers : q # p => pc'[q] = "idle"
    BY <1>2, AloneStep
  <2>2. Singly(t)
    BY <1>2, <2>1, ChannelStep, Zenon DEF AtMostOnce
  <2>3. OnePlace(p, t)'
    BY <1>2, <2>2, OnePlaceStep
  <2>4. ASSUME NEW q \in Callers, q # p PROVE OnePlace(q, t)'
    <3>1. content'[q] = <<>> /\ tasks'[q] = <<>> /\ verified'[q] = <<>> /\ pc'[q] = "idle"
      BY <2>1, <2>4, PhasesStep DEF Phases, Receiving, Looking
    <3>2. pc'[q] # "receive"
      BY <3>1
    <3> QED
      BY <3>1, <3>2, ShortLemma, Zenon DEF OnePlace, InHand
  <2>5. surfaced'[t] <= 1 /\ (surfaced'[t] > 0 => t \in seen')
    BY <1>2, <2>2, SurfacedStep
  <2>6. waiting'[t] <= 1 /\ (waiting'[t] > 0 => t \notin seen')
    BY <1>2, <2>2, WaitingStep
  <2> QED
    BY <2>3, <2>4, <2>5, <2>6, Zenon DEF Singly
<1> QED
  BY <1>1, <1>2, Steps

\* As long as calls of poll_tasks follow each other and the filter of the channel is not emptied, a
\* task is returned once, however often the transport delivers its message, whether receive delivers
\* it or has it wait, and whatever is refused or fails on the way; but for a task of which a copy was
\* let in while another waited in incoming_buffer.
THEOREM SurfacedOnceHolds == Spec => []SurfacedOnce
<1> DEFINE OnceInv == IntakeTypes /\ Phases /\ Alone /\ AtMostOnce
<1>1. Init => OnceInv
  <2> SUFFICES ASSUME Init PROVE OnceInv
    OBVIOUS
  <2>1. IntakeTypes /\ Alone /\ Phases
    BY IntakeInitTypes, Zenon DEF Init, Alone, Phases
  <2>2. \A p \in Callers : \A t \in Tasks : OnePlace(p, t)
    BY <2>1, IdleHoldsNothing DEF Init
  <2>3. \A t \in Tasks : surfaced[t] = 0 /\ waiting[t] = 0
    BY DEF Init
  <2> QED
    BY <2>1, <2>2, <2>3 DEF AtMostOnce, Singly
<1>2. OnceInv /\ [Next]_vars => OnceInv'
  BY IntakeStepTypes, PhasesStep, AloneInv, AtMostOnceStep
<1>3. OnceInv => SurfacedOnce
  BY DEF AtMostOnce, SurfacedOnce, Singly
<1> QED
  BY <1>1, <1>2, <1>3, PTL DEF Spec
===============================================================================
