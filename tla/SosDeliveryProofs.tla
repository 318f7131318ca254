-------------------------- MODULE SosDeliveryProofs --------------------------
(* Theorems of NotificationQueue, then of SosDelivery, which extends it.   *)
(* Of the queue, for every number of payloads, workers, attempts, faults   *)
(* and script runs: types, the dead-letter list, no loss without a fault,  *)
(* how many copies of a payload there can be, and the refinement of        *)
(* JobLifecycle. Of the delivery: its detailed handler implements the      *)
(* abstract one of the queue, whatever the constants, so what holds of the *)
(* queue holds with the handler's steps in between; and what the recipient *)
(* rows and the rings of an alert can be.                                  *)
EXTENDS SosDelivery, SequenceTheorems, WellFoundedInduction, FiniteSetTheorems, TLAPS

-----------------------------------------------------------------------------
(* What the list commands do to the set of entries of a list.              *)

LEMMA PushTail ==
  ASSUME NEW S, NEW s \in Seq(S), NEW e \in S
  PROVE  Append(s, e) \in Seq(S) /\ ToSet(Append(s, e)) = ToSet(s) \cup {e}
<1>1. Append(s, e) \in Seq(S) OBVIOUS
<1>2. \A i \in 1..Len(s) : Append(s, e)[i] = s[i] OBVIOUS
<1>3. Append(s, e)[Len(s) + 1] = e OBVIOUS
<1>4. DOMAIN Append(s, e) = 1..(Len(s) + 1) /\ DOMAIN s = 1..Len(s) OBVIOUS
<1>5. Len(s) \in Nat OBVIOUS
<1>6. 1..(Len(s) + 1) = 1..Len(s) \cup {Len(s) + 1} BY <1>5
<1> QED BY <1>1, <1>2, <1>3, <1>4, <1>6 DEF ToSet

LEMMA PushHead ==
  ASSUME NEW S, NEW s \in Seq(S), NEW e \in S
  PROVE  Cons(e, s) \in Seq(S) /\ ToSet(Cons(e, s)) = ToSet(s) \cup {e}
<1> DEFINE t == <<e>> \o s
<1>1. /\ t \in Seq(S) /\ Len(t) = Len(s) + 1 /\ t[1] = e
      /\ \A i \in 1..Len(s) : t[i + 1] = s[i]
  BY ConcatProperties
<1>2. DOMAIN t = 1..(Len(s) + 1) /\ DOMAIN s = 1..Len(s) /\ Len(s) \in Nat
  BY <1>1
<1>3. \A j \in 1..(Len(s) + 1) : j = 1 \/ \E i \in 1..Len(s) : j = i + 1
  <2>1. ASSUME NEW j \in 1..(Len(s) + 1), j # 1
        PROVE  j - 1 \in 1..Len(s) /\ j = (j - 1) + 1
    BY <1>2, <2>1
  <2> QED BY <2>1
<1>4. ASSUME NEW i \in 1..Len(s) PROVE i + 1 \in 1..(Len(s) + 1)
  BY <1>2
<1>5. 1 \in 1..(Len(s) + 1) BY <1>2
<1> HIDE DEF t
<1>6. {t[j] : j \in DOMAIN t} = {s[i] : i \in DOMAIN s} \cup {e}
  BY <1>1, <1>2, <1>3, <1>4, <1>5
<1> QED BY <1>1, <1>6 DEF t, ToSet, Cons

LEMMA PopTail ==
  ASSUME NEW S, NEW s \in Seq(S), s # <<>>
  PROVE  /\ Front(s) \in Seq(S) /\ Last(s) \in S
         /\ ToSet(s) = ToSet(Front(s)) \cup {Last(s)}
<1>1. Len(s) \in Nat \ {0} /\ DOMAIN s = 1..Len(s) OBVIOUS
<1>2. /\ Front(s) \in Seq(S) /\ Len(Front(s)) = Len(s) - 1
      /\ \A i \in 1..(Len(s) - 1) : Front(s)[i] = s[i]
  BY <1>1 DEF Front
<1>3. Last(s) = s[Len(s)] /\ Last(s) \in S BY <1>1 DEF Last
<1>4. 1..Len(s) = 1..(Len(s) - 1) \cup {Len(s)} BY <1>1
<1>5. DOMAIN Front(s) = 1..(Len(s) - 1) BY <1>2
<1> QED BY <1>1, <1>2, <1>3, <1>4, <1>5 DEF ToSet

LEMMA PopHead ==
  ASSUME NEW S, NEW s \in Seq(S), s # <<>>
  PROVE  /\ Tail(s) \in Seq(S) /\ Head(s) \in S
         /\ ToSet(s) = ToSet(Tail(s)) \cup {Head(s)}
<1>1. /\ Tail(s) \in Seq(S) /\ Head(s) \in S /\ Len(Tail(s)) = Len(s) - 1
      /\ \A i \in 1..Len(Tail(s)) : Tail(s)[i] = s[i + 1]
  BY HeadTailProperties
<1>2. Len(s) \in Nat \ {0} /\ DOMAIN s = 1..Len(s) /\ Head(s) = s[1] OBVIOUS
<1>3. DOMAIN Tail(s) = 1..(Len(s) - 1) BY <1>1
<1>4. \A j \in 1..Len(s) : j = 1 \/ \E i \in 1..(Len(s) - 1) : j = i + 1
  <2>1. ASSUME NEW j \in 1..Len(s), j # 1
        PROVE  j - 1 \in 1..(Len(s) - 1) /\ j = (j - 1) + 1
    BY <1>2, <2>1
  <2> QED BY <2>1
<1>5. \A i \in 1..(Len(s) - 1) : i + 1 \in 1..Len(s) BY <1>2
<1>6. 1 \in 1..Len(s) BY <1>2
<1>7. \A i \in 1..(Len(s) - 1) : Tail(s)[i] = s[i + 1] BY <1>1
<1> DEFINE t == Tail(s)
           n == Len(s) - 1
<1> HIDE DEF t, n
<1>8. {s[j] : j \in 1..Len(s)} = {t[i] : i \in 1..n} \cup {s[1]}
  BY <1>4, <1>5, <1>6, <1>7 DEF t, n
<1> QED BY <1>1, <1>2, <1>3, <1>8 DEF ToSet, t, n

LEMMA LeastElement ==
  ASSUME NEW I \in SUBSET Nat, I # {}
  PROVE  Min(I) \in I
<1>1. PICK x \in I : \A y \in I : ~ (<<y, x>> \in OpToRel(<, Nat))
  BY NatLessThanWellFounded, WFMin
<1>2. ASSUME NEW y \in I PROVE ~ (y < x)
  <2>1. SUFFICES ASSUME y < x PROVE <<y, x>> \in OpToRel(<, Nat)
    BY <1>1
  <2>2. <<y, x>> \in Nat \X Nat OBVIOUS
  <2> QED BY <2>1, <2>2 DEF OpToRel
<1>3. \A y \in I : x <= y BY <1>2
<1> QED BY <1>3 DEF Min

\* A list without its k-th entry.
Without(s, k, t) ==
  /\ k \in 1..Len(s) /\ Len(t) = Len(s) - 1
  /\ \A i \in 1..(Len(s) - 1) : t[i] = IF i < k THEN s[i] ELSE s[i + 1]

\* LREM 1 takes away one entry equal to its argument.
LEMMA RemoveFirstOf ==
  ASSUME NEW S, NEW s \in Seq(S), NEW e, \E i \in 1..Len(s) : s[i] = e
  PROVE  /\ RemoveFirst(s, e) \in Seq(S)
         /\ \E k \in 1..Len(s) : s[k] = e /\ Without(s, k, RemoveFirst(s, e))
<1> DEFINE k == SelectInSeq(s, LAMBDA v : v = e)
           t == RemoveAt(s, k)
<1>1. k \in 1..Len(s) /\ s[k] = e
  <2> DEFINE I == {i \in 1..Len(s) : s[i] = e}
  <2>1. I # {} /\ I \in SUBSET Nat OBVIOUS
  <2>2. k = Min(I) BY <2>1 DEF SelectInSeq
  <2> QED BY <2>1, <2>2, LeastElement
<1>2. RemoveFirst(s, e) = t BY DEF RemoveFirst
<1> DEFINE a == SubSeq(s, 1, k - 1)
           b == SubSeq(s, k + 1, Len(s))
           n == Len(s)
<1>3. t = a \o b BY DEF RemoveAt
<1> HIDE DEF k, t
<1>4. n \in Nat /\ DOMAIN s = 1..n OBVIOUS
<1>5. /\ a \in Seq(S) /\ Len(a) = k - 1
      /\ \A i \in 1..(k - 1) : a[i] = s[i]
  BY <1>1, <1>4
<1>6. /\ b \in Seq(S) /\ Len(b) = n - k
      /\ \A i \in 1..(n - k) : b[i] = s[k + i]
  <2>1. k + 1 \in Int /\ n \in Int /\ \A i \in (k + 1)..n : s[i] \in S
    BY <1>1, <1>4
  <2>2. /\ b \in Seq(S)
        /\ Len(b) = IF k + 1 <= n THEN n - (k + 1) + 1 ELSE 0
        /\ \A i \in 1..(n - (k + 1) + 1) : b[i] = s[(k + 1) + i - 1]
    <3> HIDE DEF n
    <3> QED BY <2>1, SubSeqProperties DEF n
  <2>3. Len(b) = n - k
    <3> HIDE DEF b, n
    <3>1. k \in Nat /\ k <= n /\ n \in Nat BY <1>1, <1>4 DEF n
    <3>2. Len(b) = IF k + 1 <= n THEN n - (k + 1) + 1 ELSE 0 BY <2>2
    <3> QED BY <3>1, <3>2
  <2>4. ASSUME NEW i \in 1..(n - k) PROVE b[i] = s[k + i]
    <3>1. i \in 1..(n - (k + 1) + 1) /\ (k + 1) + i - 1 = k + i
      BY <1>1, <1>4
    <3> QED BY <3>1, <2>2
  <2> QED BY <2>2, <2>3, <2>4
<1> HIDE DEF a, b
<1>7. /\ t \in Seq(S) /\ Len(t) = n - 1
      /\ \A i \in 1..(n - 1) : t[i] = IF i < k THEN s[i] ELSE s[i + 1]
  <2>1. /\ t \in Seq(S) /\ Len(t) = Len(a) + Len(b)
        /\ \A i \in 1..(Len(a) + Len(b)) :
             t[i] = IF i <= Len(a) THEN a[i] ELSE b[i - Len(a)]
    BY <1>3, <1>5, <1>6, ConcatProperties
  <2>2. Len(a) + Len(b) = n - 1 BY <1>1, <1>4, <1>5, <1>6
  <2>3. ASSUME NEW i \in 1..(n - 1)
        PROVE  t[i] = IF i < k THEN s[i] ELSE s[i + 1]
    <3>1. CASE i < k BY <3>1, <1>1, <1>4, <1>5, <2>1, <2>2
    <3>2. CASE ~ (i < k)
      <4>1. i - (k - 1) \in 1..(n - k) /\ k + (i - (k - 1)) = i + 1
        BY <3>2, <1>1, <1>4
      <4>2. t[i] = b[i - (k - 1)]
        <5>1. i \in 1..(Len(a) + Len(b)) BY <2>2
        <5>2. ~ (i <= Len(a)) /\ Len(a) = k - 1 BY <3>2, <1>1, <1>4, <1>5
        <5> QED BY <5>1, <5>2, <2>1
      <4>3. b[i - (k - 1)] = s[k + (i - (k - 1))] BY <4>1, <1>6
      <4> QED BY <3>2, <4>1, <4>2, <4>3
    <3> QED BY <3>1, <3>2
  <2> QED BY <2>1, <2>2, <2>3
<1> QED BY <1>1, <1>2, <1>7 DEF Without

\* Nothing but one entry equal to its argument.
LEMMA RemoveOne ==
  ASSUME NEW S, NEW s \in Seq(S), NEW e
  PROVE  /\ RemoveFirst(s, e) \in Seq(S)
         /\ ToSet(RemoveFirst(s, e)) \subseteq ToSet(s)
         /\ ToSet(s) \subseteq ToSet(RemoveFirst(s, e)) \cup {e}
<1>1. CASE ~ \E i \in 1..Len(s) : s[i] = e
  BY <1>1 DEF RemoveFirst
<1>2. CASE \E i \in 1..Len(s) : s[i] = e
  <2> DEFINE t == RemoveFirst(s, e)
             n == Len(s)
  <2>1. PICK k \in 1..n : s[k] = e /\ Without(s, k, t) BY <1>2, RemoveFirstOf
  <2>2. t \in Seq(S) BY <1>2, RemoveFirstOf
  <2> HIDE DEF t
  <2>3. n \in Nat /\ DOMAIN s = 1..n OBVIOUS
  <2>4. /\ t \in Seq(S) /\ Len(t) = n - 1
        /\ \A i \in 1..(n - 1) : t[i] = IF i < k THEN s[i] ELSE s[i + 1]
    BY <2>1, <2>2 DEF Without
  <2>5. DOMAIN t = 1..(n - 1) BY <2>4
  <2>6. ToSet(t) \subseteq ToSet(s)
    <3>1. ASSUME NEW i \in 1..(n - 1) PROVE \E j \in 1..n : t[i] = s[j]
      BY <2>1, <2>3, <2>4
    <3> QED BY <2>3, <2>5, <3>1 DEF ToSet
  <2>7. ToSet(s) \subseteq ToSet(t) \cup {e}
    <3>1. ASSUME NEW j \in 1..n, j # k PROVE \E i \in 1..(n - 1) : s[j] = t[i]
      <4>1. CASE j < k
        <5>1. j \in 1..(n - 1) BY <4>1, <2>1, <2>3
        <5> QED BY <5>1, <4>1, <2>4
      <4>2. CASE j > k
        <5>1. j - 1 \in 1..(n - 1) /\ ~ (j - 1 < k) /\ (j - 1) + 1 = j
          BY <4>2, <2>1, <2>3
        <5> QED BY <5>1, <2>4
      <4> QED BY <3>1, <4>1, <4>2, <2>1, <2>3
    <3> QED BY <2>1, <2>3, <2>5, <3>1 DEF ToSet
  <2> QED BY <2>4, <2>6, <2>7 DEF t
<1> QED BY <1>1, <1>2

-----------------------------------------------------------------------------
(* Type correctness.                                                       *)

LEMMA AttemptedIsAJob ==
  ASSUME NEW j \in Job
  PROVE  Attempted(j) \in Job /\ Attempted(j).msg = j.msg
BY QueueAssumption DEF Attempted, Job

LEMMA TypeInit == Init => TypeOK
<1> SUFFICES ASSUME Init PROVE TypeOK OBVIOUS
<1>1. queue \in Seq(Job) /\ processing \in Seq(Job) /\ dlq \in Seq(Job)
  BY DEF Init
<1>2. /\ step \in [Worker -> Step] /\ hand \in [Worker -> Job \cup {None}]
      /\ \A w \in Worker : hand[w] = None <=> step[w] \notin Holding
  BY DEF Init, Step, Holding
<1>3. /\ published \in [Msg -> Nat] /\ sends \in [Msg -> 0..2]
      /\ stolen \in [Msg -> Nat] /\ cleared \subseteq Msg
  BY DEF Init
<1>4. /\ stops \in Nat /\ outages \in Nat /\ requeues \in Nat
      /\ redisUp \in BOOLEAN /\ requeuing \in BOOLEAN /\ popped \in Job \cup {None}
  BY DEF Init
<1> QED BY <1>1, <1>2, <1>3, <1>4 DEF TypeOK

LEMMA TypeEnqueue ==
  ASSUME TypeOK, NEW m \in Msg, Enqueue(m) PROVE TypeOK'
<1>1. [msg |-> m, attempts |-> 0] \in Job BY QueueAssumption DEF Job
<1>2. queue' \in Seq(Job) BY <1>1, PushTail DEF Enqueue, TypeOK
<1>3. published' \in [Msg -> Nat] BY DEF Enqueue, TypeOK
<1> QED BY <1>2, <1>3 DEF Enqueue, TypeOK, workerVars, scriptVars, faultVars

\* The control part of TypeOK: a worker holds a job exactly in these steps.
HandOK ==
  /\ step \in [Worker -> Step]
  /\ hand \in [Worker -> Job \cup {None}]
  /\ \A w \in Worker : hand[w] = None <=> step[w] \notin Holding

LEMMA HandAfterPutDown ==
  ASSUME HandOK, NEW w \in Worker, NEW s \in Step \ Holding, PutDown(w, s)
  PROVE  HandOK'
BY DEF HandOK, PutDown, Goto

LEMMA HandAfterGoto ==
  ASSUME HandOK, NEW w \in Worker, NEW s \in Step, Goto(w, s),
         s \in Holding <=> step[w] \in Holding, UNCHANGED hand
  PROVE  HandOK'
BY DEF HandOK, Goto

LEMMA HandAfterTake ==
  ASSUME HandOK, NEW w \in Worker, NEW s \in Holding, NEW j \in Job,
         Goto(w, s), hand' = [hand EXCEPT ![w] = j]
  PROVE  HandOK'
BY QueueAssumption DEF HandOK, Goto, Holding, Step

LEMMA HeldJob ==
  ASSUME TypeOK, NEW w \in Worker, step[w] \in Holding
  PROVE  hand[w] \in Job /\ hand[w].msg \in Msg
BY DEF TypeOK, Job

LEMMA TypeWorker ==
  ASSUME TypeOK, NEW w \in Worker,
         \/ Start(w) \/ Recover(w)
         \/ Dequeue(w) \/ DequeueReplyLost(w) \/ AckReplyLost(w)
         \/ Handle(w) \/ Settle(w) \/ Stop(w)
  PROVE  TypeOK'
<1> USE DEF workerVars, redisVars, scriptVars, faultVars, historyVars
<1>h. HandOK BY DEF TypeOK, HandOK
<1>s. {"stopped", "recovering", "idle"} \subseteq Step \ Holding
      /\ Holding \subseteq Step /\ InFlight \subseteq Holding
  BY DEF Step, Holding, InFlight
<1>q. TypeOK' <=> /\ queue' \in Seq(Job) /\ processing' \in Seq(Job)
                  /\ dlq' \in Seq(Job) /\ redisUp' \in BOOLEAN /\ HandOK'
                  /\ requeuing' \in BOOLEAN /\ popped' \in Job \cup {None}
                  /\ published' \in [Msg -> Nat] /\ sends' \in [Msg -> 0..2]
                  /\ cleared' \subseteq Msg /\ stolen' \in [Msg -> Nat]
                  /\ stops' \in Nat /\ outages' \in Nat /\ requeues' \in Nat
  BY DEF TypeOK, HandOK
<1>1. CASE Start(w)
  <2>1. HandOK' BY <1>1, <1>h, <1>s, HandAfterGoto DEF Start
  <2> QED BY <1>1, <1>q, <2>1 DEF Start, TypeOK
<1>2. CASE RecoverOne(w)
  <2>1. processing # <<>> /\ processing \in Seq(Job) BY <1>2 DEF RecoverOne, TypeOK
  <2>2. Last(processing) \in Job /\ processing' \in Seq(Job)
    BY <1>2, <2>1, PopTail DEF RecoverOne
  <2>3. queue' \in Seq(Job) BY <1>2, <2>2, PushHead DEF RecoverOne, TypeOK
  <2> DEFINE m == Last(processing).msg
  <2>m. m \in Msg BY <2>2 DEF Job
  <2> HIDE DEF m
  <2>4. stolen' \in [Msg -> Nat]
    <3>1. stolen' = stolen \/ stolen' = [stolen EXCEPT ![m] = @ + 1]
      BY <1>2 DEF RecoverOne, m
    <3>2. stolen \in [Msg -> Nat] BY DEF TypeOK
    <3> QED BY <2>m, <3>1, <3>2
  <2>5. HandOK' BY <1>2, <1>h DEF RecoverOne, HandOK
  <2> QED BY <1>2, <1>q, <2>2, <2>3, <2>4, <2>5 DEF RecoverOne, TypeOK
<1>3. CASE RecoverDone(w)
  <2>1. HandOK' BY <1>3, <1>h, <1>s, HandAfterGoto DEF RecoverDone
  <2> QED BY <1>3, <1>q, <2>1 DEF RecoverDone, TypeOK
<1>4. CASE StartFails(w)
  <2>1. HandOK' BY <1>4, <1>h, <1>s, HandAfterGoto DEF StartFails
  <2> QED BY <1>4, <1>q, <2>1 DEF StartFails, TypeOK
<1>5. ASSUME TakeTail
      PROVE  queue' \in Seq(Job) /\ processing' \in Seq(Job) /\ Last(queue) \in Job
  BY <1>5, PopTail, PushHead DEF TakeTail, TypeOK
<1>6. CASE Dequeue(w)
  <2>1. HandOK' BY <1>6, <1>h, <1>5, HandAfterTake DEF Dequeue, Holding
  <2> QED BY <1>6, <1>q, <1>5, <2>1 DEF Dequeue, TypeOK
<1>7. CASE DequeueReplyLost(w)
  <2>1. HandOK' BY <1>7, <1>h DEF DequeueReplyLost, HandOK
  <2>2. outages' \in Nat /\ redisUp' \in BOOLEAN
    <3>1. outages' = outages + 1 /\ outages \in Nat
      BY <1>7 DEF DequeueReplyLost, TypeOK
    <3>2. redisUp' \in BOOLEAN BY <1>7, Zenon DEF DequeueReplyLost
    <3> QED BY <3>1, <3>2
  <2>3. queue' \in Seq(Job) /\ processing' \in Seq(Job)
    BY <1>7, <1>5 DEF DequeueReplyLost
  <2> QED BY <1>7, <1>q, <2>1, <2>2, <2>3 DEF DequeueReplyLost, TypeOK
<1>8. CASE HandleOk(w)
  <2>1. HandOK'
    BY <1>8, <1>h, <1>s, HandAfterGoto DEF HandleOk, Holding
  <2> DEFINE m == hand[w].msg
  <2>m. m \in Msg BY <1>8, HeldJob DEF HandleOk, Holding
  <2> HIDE DEF m
  <2>2. sends' \in [Msg -> 0..2]
    <3>1. sends' = [sends EXCEPT ![m] = IF @ < 2 THEN @ + 1 ELSE @]
      BY <1>8 DEF HandleOk, m
    <3>2. sends \in [Msg -> 0..2] BY DEF TypeOK
    <3> QED BY <2>m, <3>1, <3>2
  <2> QED BY <1>8, <1>q, <2>1, <2>2 DEF HandleOk, TypeOK
<1>9. CASE HandleFail(w)
  <2>1. HandOK'
    BY <1>9, <1>h, <1>s, HandAfterGoto DEF HandleFail, Holding
  <2> QED BY <1>9, <1>q, <2>1 DEF HandleFail, TypeOK
<1>10. CASE Ack(w)
  <2>1. HandOK' BY <1>10, <1>h, <1>s, HandAfterPutDown DEF Ack
  <2>2. processing' \in Seq(Job) BY <1>10, RemoveOne DEF Ack, TypeOK
  <2> QED BY <1>10, <1>q, <2>1, <2>2 DEF Ack, TypeOK
<1>11. CASE AckFails(w)
  <2>1. HandOK'
    BY <1>11, <1>h, <1>s, HandAfterGoto DEF AckFails, Holding
  <2> QED BY <1>11, <1>q, <2>1 DEF AckFails, TypeOK
<1>12. CASE RetryAck(w)
  <2>1. Attempted(hand[w]) \in Job
    BY <1>12, HeldJob, AttemptedIsAJob DEF RetryAck, Holding
  <2>2. HandOK' BY <1>12, <1>h, <2>1, HandAfterTake DEF RetryAck, Holding
  <2>3. processing' \in Seq(Job) BY <1>12, RemoveOne DEF RetryAck, TypeOK
  <2> QED BY <1>12, <1>q, <2>2, <2>3 DEF RetryAck, TypeOK
<1>13. CASE RetryAckFails(w)
  <2>1. HandOK' BY <1>13, <1>h, <1>s, HandAfterPutDown DEF RetryAckFails
  <2> QED BY <1>13, <1>q, <2>1 DEF RetryAckFails, TypeOK
<1>14. CASE Retry(w)
  <2>1. HandOK' BY <1>14, <1>h, <1>s, HandAfterPutDown DEF Retry
  <2>2. queue' \in Seq(Job)
    BY <1>14, HeldJob, PushTail DEF Retry, TypeOK, Holding
  <2> QED BY <1>14, <1>q, <2>1, <2>2 DEF Retry, TypeOK
<1>15. CASE MoveToDlq(w)
  <2>1. HandOK' BY <1>15, <1>h, <1>s, HandAfterPutDown DEF MoveToDlq
  <2>2. dlq' \in Seq(Job)
    BY <1>15, HeldJob, PushTail DEF MoveToDlq, TypeOK, Holding
  <2> QED BY <1>15, <1>q, <2>1, <2>2 DEF MoveToDlq, TypeOK
<1>16. CASE RepushFails(w)
  <2>1. HandOK' BY <1>16, <1>h, <1>s, HandAfterPutDown DEF RepushFails
  <2> QED BY <1>16, <1>q, <2>1 DEF RepushFails, TypeOK
<1>17. CASE Stop(w)
  <2>1. HandOK' BY <1>17, <1>h, <1>s, HandAfterPutDown DEF Stop
  <2>2. stops' \in Nat BY <1>17 DEF Stop, TypeOK
  <2> QED BY <1>17, <1>q, <2>1, <2>2 DEF Stop, TypeOK
<1>18. CASE AckReplyLost(w)
  <2>1. HandOK'
    BY <1>18, <1>h, <1>s, HandAfterGoto DEF AckReplyLost, Holding
  <2>2. outages' \in Nat /\ redisUp' \in BOOLEAN
    <3>1. outages' = outages + 1 /\ outages \in Nat
      BY <1>18 DEF AckReplyLost, TypeOK
    <3>2. redisUp' \in BOOLEAN BY <1>18, Zenon DEF AckReplyLost
    <3> QED BY <3>1, <3>2
  <2>3. processing' \in Seq(Job) BY <1>18, RemoveOne DEF AckReplyLost, TypeOK
  <2> QED BY <1>18, <1>q, <2>1, <2>2, <2>3 DEF AckReplyLost, TypeOK
<1> QED BY <1>1, <1>2, <1>3, <1>4, <1>6, <1>7, <1>8, <1>9, <1>10, <1>11, <1>12,
           <1>13, <1>14, <1>15, <1>16, <1>17, <1>18 DEF Recover, Handle, Settle

LEMMA TypeScript ==
  ASSUME TypeOK,
         RequeueStart \/ Requeue \/ ClearDlq \/ RedisDown \/ RedisBack
  PROVE  TypeOK'
<1> USE DEF workerVars, redisVars, scriptVars, faultVars, historyVars
<1>1. CASE RequeueStart
  <2>1. requeues' \in Nat /\ requeuing' \in BOOLEAN
    BY <1>1 DEF RequeueStart, TypeOK
  <2> QED BY <1>1, <2>1 DEF RequeueStart, TypeOK
<1>2. CASE RequeuePop
  <2>1. dlq' \in Seq(Job) /\ popped' \in Job
    BY <1>2, PopHead DEF RequeuePop, TypeOK
  <2> QED BY <1>2, <2>1 DEF RequeuePop, TypeOK
<1>3. CASE RequeuePush
  <2>1. queue' \in Seq(Job) /\ popped' \in Job \cup {None}
    BY <1>3, PushTail DEF RequeuePush, TypeOK
  <2> QED BY <1>3, <2>1 DEF RequeuePush, TypeOK
<1>4. CASE RequeueEnd
  BY <1>4 DEF RequeueEnd, TypeOK
<1>5. CASE RequeueFails
  BY <1>5 DEF RequeueFails, TypeOK
<1>6. CASE ClearDlq
  <2>1. <<>> \in Seq(Job) OBVIOUS
  <2>2. Payloads(dlq) \subseteq Msg
    <3>1. \A i \in DOMAIN dlq : dlq[i] \in Job BY DEF TypeOK
    <3> QED BY <3>1 DEF Payloads, ToSet, Job
  <2>3. dlq' \in Seq(Job) /\ cleared' \subseteq Msg
    BY <1>6, <2>1, <2>2 DEF ClearDlq, TypeOK
  <2> QED BY <1>6, <2>3 DEF ClearDlq, TypeOK
<1>7. CASE RedisDown
  <2>1. outages' = outages + 1 /\ outages \in Nat
    BY <1>7 DEF RedisDown, TypeOK
  <2>2. redisUp' \in BOOLEAN BY <1>7, Zenon DEF RedisDown
  <2> QED BY <1>7, <2>1, <2>2 DEF RedisDown, TypeOK
<1>8. CASE RedisBack
  BY <1>8 DEF RedisBack, TypeOK
<1> QED BY <1>1, <1>2, <1>3, <1>4, <1>5, <1>6, <1>7, <1>8 DEF Requeue

LEMMA TypeNext == TypeOK /\ [Next]_vars => TypeOK'
<1> SUFFICES ASSUME TypeOK, [Next]_vars PROVE TypeOK' OBVIOUS
<1>1. CASE UNCHANGED vars
  BY <1>1 DEF vars, redisVars, workerVars, scriptVars, faultVars, historyVars, TypeOK
<1>2. CASE Next
  BY <1>2, TypeEnqueue, TypeWorker, TypeScript DEF Next
<1> QED BY <1>1, <1>2

\* The lists, the hands of the workers and of the script, and the counters
\* keep their types whatever fails and however the processes interleave.
THEOREM TypeCorrect == Spec => []TypeOK
BY TypeInit, TypeNext, PTL DEF Spec

-----------------------------------------------------------------------------
(* Dead letters.                                                           *)

Full(j) == j.attempts = MaxDeliveryAttempts
Fresh(s) == \A j \in ToSet(s) : j.attempts < MaxDeliveryAttempts

\* DeadLettersAreExhausted says nothing of the script: before its first run it
\* holds nothing, so that a job taken by a worker is one never requeued.
DeadLettersInv ==
  /\ \A j \in ToSet(dlq) : Full(j)
  /\ requeues = 0 =>
       /\ Fresh(queue) /\ Fresh(processing)
       /\ \A w \in Worker :
            step[w] \in InFlight => hand[w].attempts < MaxDeliveryAttempts
       /\ ~requeuing /\ popped = None

LEMMA DeadLettersInit == Init => DeadLettersInv
<1>1. Init => ToSet(queue) = {} /\ ToSet(processing) = {} /\ ToSet(dlq) = {}
  BY DEF Init, ToSet
<1> QED BY <1>1 DEF Init, DeadLettersInv, Fresh, InFlight

\* No hand but w's changes, and w's next job is in flight only if it is fresh.
LEMMA FreshHands ==
  ASSUME TypeOK, NEW w \in Worker, NEW s, Goto(w, s),
         \A v \in Worker : step[v] \in InFlight => hand[v].attempts < MaxDeliveryAttempts,
         NEW j, hand' = [hand EXCEPT ![w] = j],
         s \in InFlight => j.attempts < MaxDeliveryAttempts
  PROVE  \A v \in Worker :
           step'[v] \in InFlight => hand'[v].attempts < MaxDeliveryAttempts
<1>1. step \in [Worker -> Step] /\ hand \in [Worker -> Job \cup {None}]
  BY DEF TypeOK
<1>2. step' = [step EXCEPT ![w] = s] BY DEF Goto
<1> TAKE v \in Worker
<1>3. CASE v = w BY <1>1, <1>2, <1>3
<1>4. CASE v # w BY <1>1, <1>2, <1>4
<1> QED BY <1>3, <1>4

LEMMA DeadLettersNext ==
  TypeOK /\ DeadLettersInv /\ [Next]_vars => DeadLettersInv'
<1> SUFFICES ASSUME TypeOK, DeadLettersInv, [Next]_vars
             PROVE  DeadLettersInv'
  OBVIOUS
<1> USE DEF workerVars, redisVars, scriptVars, faultVars, historyVars
<1>t. /\ queue \in Seq(Job) /\ processing \in Seq(Job) /\ dlq \in Seq(Job)
      /\ requeues \in Nat /\ MaxDeliveryAttempts \in Nat \ {0}
      /\ hand \in [Worker -> Job \cup {None}] /\ step \in [Worker -> Step]
  BY QueueAssumption DEF TypeOK
<1> DEFINE HandsFresh ==
             \A w \in Worker :
               step[w] \in InFlight => hand[w].attempts < MaxDeliveryAttempts
\* Steps that touch no list: only hands and script variables matter.
<1>a. ASSUME UNCHANGED redisVars, UNCHANGED <<requeuing, popped, requeues>>,
             HandsFresh => HandsFresh'
      PROVE  DeadLettersInv'
  BY <1>a DEF DeadLettersInv, Fresh
<1>b. ASSUME NEW w \in Worker, NEW s \in {"stopped", "recovering", "idle", "repush"},
             NEW j, Goto(w, s), hand' = [hand EXCEPT ![w] = j]
      PROVE  HandsFresh => HandsFresh'
  BY <1>b, FreshHands DEF InFlight
<1>c. ASSUME NEW w \in Worker, NEW s, Goto(w, s), UNCHANGED hand,
             s \in InFlight => step[w] \in InFlight
      PROVE  HandsFresh => HandsFresh'
  BY <1>c, <1>t DEF Goto
<1>d. ASSUME UNCHANGED workerVars PROVE HandsFresh => HandsFresh'
  BY <1>d
<1>e. ASSUME NEW e PROVE Fresh(RemoveFirst(processing, e)) \/ ~Fresh(processing)
  BY <1>t, RemoveOne DEF Fresh
<1>f. ASSUME TakeTail, Fresh(queue), Fresh(processing)
      PROVE  Fresh(queue') /\ Fresh(processing')
             /\ Last(queue).attempts < MaxDeliveryAttempts
  <2>1. queue # <<>> /\ queue' = Front(queue)
        /\ processing' = Cons(Last(queue), processing)
    BY <1>f DEF TakeTail
  <2>2. ToSet(queue) = ToSet(queue') \cup {Last(queue)} /\ Last(queue) \in Job
    BY <2>1, <1>t, PopTail
  <2>a. ASSUME NEW e \in Job
        PROVE  ToSet(Cons(e, processing)) = ToSet(processing) \cup {e}
    BY <1>t, PushHead
  <2>3. ToSet(processing') = ToSet(processing) \cup {Last(queue)}
    BY <2>1, <2>2, <2>a
  <2> QED BY <1>f, <2>2, <2>3 DEF Fresh
<1>1. CASE UNCHANGED vars
  BY <1>1, <1>a, <1>d DEF vars
<1>2. ASSUME NEW m \in Msg, Enqueue(m) PROVE DeadLettersInv'
  <2>1. [msg |-> m, attempts |-> 0] \in Job BY <1>t DEF Job
  <2>2. ToSet(queue') = ToSet(queue) \cup {[msg |-> m, attempts |-> 0]}
    BY <1>2, <1>t, <2>1, PushTail DEF Enqueue
  <2>3. Fresh(queue) => Fresh(queue') BY <1>t, <2>2 DEF Fresh
  <2> QED BY <1>2, <2>3, <1>d DEF Enqueue, DeadLettersInv, Fresh
<1> DEFINE Quiet(w) ==
             \/ Start(w) \/ RecoverDone(w) \/ StartFails(w) \/ Handle(w)
             \/ AckFails(w) \/ RetryAckFails(w) \/ RepushFails(w) \/ Stop(w)
<1>3. ASSUME NEW w \in Worker, Quiet(w) PROVE DeadLettersInv'
  <2>1. UNCHANGED redisVars /\ UNCHANGED <<requeuing, popped, requeues>>
    BY <1>3 DEF Start, RecoverDone, StartFails, Handle, HandleOk, HandleFail,
                AckFails, RetryAckFails, RepushFails, Stop
  <2>2. CASE Start(w) \/ RecoverDone(w) \/ StartFails(w)
    <3>1. \E s \in {"stopped", "recovering", "idle"} : Goto(w, s) /\ UNCHANGED hand
      BY <2>2 DEF Start, RecoverDone, StartFails
    <3> QED BY <3>1, <2>1, <1>a, <1>c DEF InFlight
  <2>3. CASE Handle(w) \/ AckFails(w)
    <3>1. step[w] \in InFlight /\ \E s \in InFlight : Goto(w, s) /\ UNCHANGED hand
      BY <2>3 DEF Handle, HandleOk, HandleFail, AckFails, InFlight
    <3> QED BY <3>1, <2>1, <1>a, <1>c
  <2>4. CASE RetryAckFails(w) \/ RepushFails(w) \/ Stop(w)
    <3>1. \E s \in {"stopped", "idle"} : Goto(w, s) /\ hand' = [hand EXCEPT ![w] = None]
      BY <2>4 DEF RetryAckFails, RepushFails, Stop, PutDown
    <3> QED BY <3>1, <2>1, <1>a, <1>b
  <2> QED BY <1>3, <2>2, <2>3, <2>4
<1>4. ASSUME NEW w \in Worker, RecoverOne(w) PROVE DeadLettersInv'
  <2> DEFINE e == Last(processing)
  <2>1. /\ processing # <<>> /\ queue' = Cons(e, queue)
        /\ processing' = Front(processing)
    BY <1>4 DEF RecoverOne
  <2>2. e \in Job /\ ToSet(processing) = ToSet(processing') \cup {e}
    BY <2>1, <1>t, PopTail
  <2> HIDE DEF e
  <2>a. ToSet(Cons(e, queue)) = ToSet(queue) \cup {e} BY <2>2, <1>t, PushHead
  <2>3. ToSet(queue') = ToSet(queue) \cup {e} BY <2>1, <2>a
  <2>4. Fresh(processing) /\ Fresh(queue) => Fresh(processing') /\ Fresh(queue')
    BY <2>2, <2>3 DEF Fresh
  <2> QED BY <1>4, <2>4, <1>d DEF RecoverOne, DeadLettersInv
<1>5. ASSUME NEW w \in Worker, Dequeue(w) PROVE DeadLettersInv'
  <2>1. requeues = 0 => Fresh(queue) /\ Fresh(processing) /\ HandsFresh
    BY DEF DeadLettersInv
  <2>2. requeues = 0 => HandsFresh' BY <2>1, <1>5, <1>f, FreshHands DEF Dequeue
  <2> QED BY <1>5, <2>1, <2>2, <1>f DEF Dequeue, DeadLettersInv
<1>6. ASSUME NEW w \in Worker, DequeueReplyLost(w) PROVE DeadLettersInv'
  BY <1>6, <1>f, <1>d DEF DequeueReplyLost, DeadLettersInv
<1>7. ASSUME NEW w \in Worker, Ack(w) \/ RetryAck(w) PROVE DeadLettersInv'
  <2>1. HandsFresh => HandsFresh'
    <3>1. \E s \in {"idle", "repush"} : \E j \in {None, Attempted(hand[w])} :
            Goto(w, s) /\ hand' = [hand EXCEPT ![w] = j]
      BY <1>7, <1>t DEF Ack, RetryAck, PutDown
    <3> QED BY <3>1, <1>b
  <2>2. processing' = RemoveFirst(processing, hand[w])
    BY <1>7 DEF Ack, RetryAck
  <2>3. Fresh(processing) => Fresh(processing') BY <2>2, <1>e
  <2> QED BY <1>7, <2>1, <2>3 DEF Ack, RetryAck, DeadLettersInv
<1>16. ASSUME NEW w \in Worker, AckReplyLost(w) PROVE DeadLettersInv'
  <2>1. HandsFresh => HandsFresh' BY <1>16, <1>c DEF AckReplyLost, InFlight
  <2>2. Fresh(processing) => Fresh(processing') BY <1>16, <1>e DEF AckReplyLost
  <2> QED BY <1>16, <2>1, <2>2 DEF AckReplyLost, DeadLettersInv
<1>8. ASSUME NEW w \in Worker, Retry(w) PROVE DeadLettersInv'
  <2>1. HandsFresh => HandsFresh' BY <1>8, <1>b DEF Retry, PutDown
  <2>2. hand[w] \in Job BY <1>8, HeldJob DEF Retry, Holding
  <2>3. hand[w].attempts < MaxDeliveryAttempts
    BY <1>8, <1>t, <2>2 DEF Retry, Exhausted, Job
  <2>4. ToSet(queue') = ToSet(queue) \cup {hand[w]}
    BY <1>8, <2>2, <1>t, PushTail DEF Retry
  <2>5. Fresh(queue) => Fresh(queue') BY <2>3, <2>4 DEF Fresh
  <2> QED BY <1>8, <2>1, <2>5 DEF Retry, DeadLettersInv
<1>9. ASSUME NEW w \in Worker, MoveToDlq(w) PROVE DeadLettersInv'
  <2>1. HandsFresh => HandsFresh' BY <1>9, <1>b DEF MoveToDlq, PutDown
  <2>2. hand[w] \in Job BY <1>9, HeldJob DEF MoveToDlq, Holding
  <2>3. Full(hand[w]) BY <1>9, <1>t, <2>2 DEF MoveToDlq, Exhausted, Job, Full
  <2>4. ToSet(dlq') = ToSet(dlq) \cup {hand[w]}
    BY <1>9, <2>2, <1>t, PushTail DEF MoveToDlq
  <2> QED BY <1>9, <2>1, <2>3, <2>4 DEF MoveToDlq, DeadLettersInv
<1>10. CASE RequeueStart
  <2>1. requeues' # 0 BY <1>10, <1>t DEF RequeueStart
  <2> QED BY <1>10, <2>1 DEF RequeueStart, DeadLettersInv
<1>11. CASE RequeuePop
  <2>1. ToSet(dlq) = ToSet(dlq') \cup {Head(dlq)}
    BY <1>11, <1>t, PopHead DEF RequeuePop
  <2> QED BY <1>11, <2>1 DEF RequeuePop, DeadLettersInv
<1>12. CASE RequeuePush
  BY <1>12 DEF RequeuePush, DeadLettersInv
<1>13. CASE RequeueEnd \/ RequeueFails
  BY <1>13, <1>d DEF RequeueEnd, RequeueFails, DeadLettersInv
<1>14. CASE ClearDlq
  <2>1. ToSet(dlq') = {} BY <1>14 DEF ClearDlq, ToSet
  <2> QED BY <1>14, <2>1, <1>d DEF ClearDlq, DeadLettersInv
<1>15. CASE RedisDown \/ RedisBack
  BY <1>15, <1>a, <1>d DEF RedisDown, RedisBack
<1> QED
  BY <1>1, <1>2, <1>3, <1>4, <1>5, <1>6, <1>7, <1>8, <1>9, <1>10, <1>11, <1>12,
     <1>13, <1>14, <1>15, <1>16 DEF Next, Recover, Handle, Settle, Requeue

\* retry_or_dlq dead-letters exactly the jobs whose attempts are used up, for
\* every limit, number of workers and pattern of faults.
THEOREM DeadLettersCorrect == Spec => []DeadLettersAreExhausted
<1>1. DeadLettersInv => DeadLettersAreExhausted
  BY DEF DeadLettersInv, DeadLettersAreExhausted, Full, Fresh
<1> QED
  BY <1>1, DeadLettersInit, DeadLettersNext, TypeInit, TypeNext, PTL DEF Spec

-----------------------------------------------------------------------------
(* No loss without a fault.                                                *)

\* The entry of a delivered job may go: its payload has been sent.  All other
\* moves take a job from one list and put it in a hand or another list.
NoLossInv ==
  stops = 0 /\ outages = 0 =>
    /\ redisUp
    /\ \A w \in Worker : step[w] = "delivered" => hand[w].msg \in Sent
    /\ Accepted \subseteq Kept \cup Sent \cup cleared

LEMMA NoLossInit == Init => NoLossInv
BY DEF Init, NoLossInv, Accepted

Repushed == HeldBy({"repush"})

LEMMA PayloadsOfUnion ==
  ASSUME NEW s, NEW t, NEW e, ToSet(s) \subseteq ToSet(t) \cup {e}
  PROVE  Payloads(s) \subseteq Payloads(t) \cup {e.msg}
BY DEF Payloads

LEMMA PayloadsOfPush ==
  ASSUME NEW s, NEW t, NEW e, ToSet(t) = ToSet(s) \cup {e}
  PROVE  Payloads(t) = Payloads(s) \cup {e.msg}
BY DEF Payloads

LEMMA KeptIs ==
  Kept = Payloads(queue) \cup Payloads(processing) \cup Payloads(dlq)
           \cup Repushed \cup PoppedPayloads
BY DEF Kept, Repushed

LEMMA KeptNext ==
  Kept' = Payloads(queue') \cup Payloads(processing') \cup Payloads(dlq')
            \cup Repushed' \cup PoppedPayloads'
BY DEF Kept, Repushed, Payloads, HeldBy, PoppedPayloads, ToSet

\* A step of w leaves the jobs in the hands of the others where they are.
LEMMA OtherHands ==
  ASSUME TypeOK, NEW w \in Worker, NEW s, Goto(w, s), NEW j,
         hand' = [hand EXCEPT ![w] = j] \/ UNCHANGED hand
  PROVE  /\ Repushed \subseteq Repushed' \cup
                (IF step[w] = "repush" THEN {hand[w].msg} ELSE {})
         /\ \A v \in Worker \ {w} : step'[v] = step[v] /\ hand'[v] = hand[v]
         /\ step'[w] = s
<1>1. /\ step \in [Worker -> Step] /\ hand \in [Worker -> Job \cup {None}]
      /\ step' = [step EXCEPT ![w] = s]
  BY DEF TypeOK, Goto
<1>2. /\ \A v \in Worker \ {w} : step'[v] = step[v] /\ hand'[v] = hand[v]
      /\ step'[w] = s
  BY <1>1
<1>3. ASSUME NEW m \in Repushed, m \notin Repushed'
      PROVE  step[w] = "repush" /\ m = hand[w].msg
  <2>1. PICK v \in Worker : step[v] = "repush" /\ hand[v].msg = m
    BY DEF Repushed, HeldBy
  <2>2. v = w BY <1>2, <1>3, <2>1 DEF Repushed, HeldBy
  <2> QED BY <2>1, <2>2
<1> QED BY <1>2, <1>3

\* What the inductive step has to show, once no fault has happened.
LEMMA NoLossStep ==
  ASSUME NoLossInv, stops = 0, outages = 0,
         redisUp', UNCHANGED <<published, sends>>, cleared \subseteq cleared',
         Kept \subseteq Kept' \cup Sent \cup cleared',
         \A w \in Worker : step'[w] = "delivered" =>
                             step[w] = "delivered" /\ hand'[w] = hand[w]
  PROVE  NoLossInv'
<1>1. Accepted' = Accepted /\ Sent' = Sent BY DEF Accepted, Sent
<1>2. Accepted \subseteq Kept \cup Sent \cup cleared BY DEF NoLossInv
<1>3. Accepted' \subseteq Kept' \cup Sent' \cup cleared' BY <1>1, <1>2
<1>4. \A w \in Worker : step'[w] = "delivered" => hand'[w].msg \in Sent'
  BY <1>1 DEF NoLossInv
<1> QED BY <1>3, <1>4 DEF NoLossInv

LEMMA NoLossNext == TypeOK /\ NoLossInv /\ [Next]_vars => NoLossInv'
<1> SUFFICES ASSUME TypeOK, NoLossInv, [Next]_vars, stops' = 0, outages' = 0
             PROVE  NoLossInv'
  BY DEF NoLossInv
<1> USE DEF workerVars, redisVars, scriptVars, faultVars, historyVars
<1>t. /\ queue \in Seq(Job) /\ processing \in Seq(Job) /\ dlq \in Seq(Job)
      /\ stops \in Nat /\ outages \in Nat
      /\ hand \in [Worker -> Job \cup {None}] /\ step \in [Worker -> Step]
  BY DEF TypeOK
<1>0. stops = 0 /\ outages = 0
  <2>1. ASSUME Next PROVE stops' \in {stops, stops + 1} /\ outages' \in {outages, outages + 1}
    BY <2>1 DEF Next, Enqueue, Start, Recover, RecoverOne, RecoverDone, StartFails,
        Dequeue, DequeueReplyLost, Handle, HandleOk, HandleFail, Settle, Ack,
        AckFails, AckReplyLost, RetryAck, RetryAckFails, Retry, MoveToDlq, RepushFails, Stop,
        RequeueStart, Requeue, RequeuePop, RequeuePush, RequeueEnd, RequeueFails,
        ClearDlq, RedisDown, RedisBack
  <2>2. stops' \in {stops, stops + 1} /\ outages' \in {outages, outages + 1}
    BY <2>1 DEF vars
  <2> QED BY <2>2, <1>t
<1>u. redisUp BY <1>0 DEF NoLossInv
<1>k. /\ UNCHANGED queue => Payloads(queue') = Payloads(queue)
      /\ UNCHANGED processing => Payloads(processing') = Payloads(processing)
      /\ UNCHANGED dlq => Payloads(dlq') = Payloads(dlq)
      /\ UNCHANGED popped => PoppedPayloads' = PoppedPayloads
      /\ UNCHANGED workerVars => Repushed' = Repushed
  BY DEF PoppedPayloads, Repushed, HeldBy
\* A worker that only moves on, or drops a job that is not being pushed.
<1>m. ASSUME NEW w \in Worker, NEW s, Goto(w, s), s # "delivered",
             step[w] # "repush", NEW j,
             hand' = [hand EXCEPT ![w] = j] \/ UNCHANGED hand,
             UNCHANGED <<redisVars, scriptVars, redisUp, historyVars>>
      PROVE  NoLossInv'
  <2>1. Repushed \subseteq Repushed' BY <1>m, OtherHands
  <2>2. Kept \subseteq Kept' BY <1>m, <1>k, <2>1, KeptIs, KeptNext
  <2>3. \A v \in Worker : step'[v] = "delivered" =>
                           step[v] = "delivered" /\ hand'[v] = hand[v]
    BY <1>m, OtherHands
  <2> QED BY <1>m, <1>0, <1>u, <2>2, <2>3, NoLossStep
\* The script, the services and Redis leave the workers alone.
<1>n. ASSUME UNCHANGED <<workerVars, redisUp, published, sends>>,
             cleared \subseteq cleared', Kept \subseteq Kept' \cup cleared'
      PROVE  NoLossInv'
  BY <1>n, <1>0, <1>u, NoLossStep
<1>1. CASE UNCHANGED vars
  <2>1. Kept' = Kept BY <1>1, <1>k, KeptIs, KeptNext DEF vars
  <2> QED BY <1>1, <2>1, <1>n DEF vars
<1>2. ASSUME NEW m \in Msg, Enqueue(m) PROVE NoLossInv'
  <2> DEFINE e == [msg |-> m, attempts |-> 0]
  <2>1. e \in Job /\ e.msg = m BY QueueAssumption DEF Job
  <2>2. queue' = Append(queue, e) BY <1>2 DEF Enqueue
  <2> HIDE DEF e
  <2>3. ToSet(Append(queue, e)) = ToSet(queue) \cup {e} BY <2>1, <1>t, PushTail
  <2>4. Payloads(queue') = Payloads(queue) \cup {m}
    BY <2>1, <2>2, <2>3, PayloadsOfPush
  <2>5. Kept' = Kept \cup {m}
    BY <1>2, <2>4, <1>k, KeptIs, KeptNext DEF Enqueue
  <2>6. Accepted' \subseteq Accepted \cup {m} BY <1>2 DEF Enqueue, Accepted, TypeOK
  <2>7. Sent' = Sent BY <1>2 DEF Enqueue, Sent
  <2>8. /\ \A w \in Worker : step[w] = "delivered" => hand[w].msg \in Sent
        /\ Accepted \subseteq Kept \cup Sent \cup cleared
    BY <1>0 DEF NoLossInv
  <2> QED BY <1>2, <1>u, <2>5, <2>6, <2>7, <2>8 DEF Enqueue, NoLossInv
<1>3. ASSUME NEW w \in Worker, Start(w) \/ RecoverDone(w) PROVE NoLossInv'
  BY <1>3, <1>m DEF Start, RecoverDone
<1>4. ASSUME NEW w \in Worker,
             \/ StartFails(w) \/ DequeueReplyLost(w) \/ AckFails(w) \/ RetryAckFails(w)
             \/ AckReplyLost(w) \/ RepushFails(w) \/ Stop(w)
      PROVE  FALSE
  BY <1>4, <1>0, <1>t, <1>u DEF StartFails, DequeueReplyLost, AckFails,
                                AckReplyLost, RetryAckFails, RepushFails, Stop
<1>17. CASE RequeueFails \/ RedisDown \/ RedisBack
  BY <1>17, <1>0, <1>u DEF RequeueFails, RedisDown, RedisBack
<1>5. ASSUME NEW w \in Worker, RecoverOne(w) PROVE NoLossInv'
  <2> DEFINE e == Last(processing)
  <2>1. /\ processing # <<>> /\ queue' = Cons(e, queue)
        /\ processing' = Front(processing)
        /\ UNCHANGED <<dlq, workerVars, scriptVars, redisUp, published, sends, cleared>>
    BY <1>5 DEF RecoverOne
  <2>2. e \in Job /\ ToSet(processing) = ToSet(processing') \cup {e}
    BY <2>1, <1>t, PopTail
  <2> HIDE DEF e
  <2>3. ToSet(Cons(e, queue)) = ToSet(queue) \cup {e} BY <2>2, <1>t, PushHead
  <2>4. Payloads(queue') = Payloads(queue) \cup {e.msg}
    BY <2>1, <2>3, PayloadsOfPush
  <2>5. Payloads(processing) \subseteq Payloads(processing') \cup {e.msg}
    BY <2>2, PayloadsOfUnion
  <2>6. Kept \subseteq Kept' BY <2>1, <2>4, <2>5, <1>k, KeptIs, KeptNext
  <2> QED BY <2>1, <2>6, <1>n
<1>6. ASSUME NEW w \in Worker, Dequeue(w) PROVE NoLossInv'
  <2> DEFINE e == Last(queue)
  <2>1. /\ queue # <<>> /\ queue' = Front(queue)
        /\ processing' = Cons(e, processing)
        /\ UNCHANGED <<dlq, scriptVars, redisUp, historyVars>>
        /\ Goto(w, "delivering") /\ hand' = [hand EXCEPT ![w] = e]
        /\ step[w] = "idle"
    BY <1>6 DEF Dequeue, TakeTail
  <2>2. e \in Job /\ ToSet(queue) = ToSet(queue') \cup {e}
    BY <2>1, <1>t, PopTail
  <2> HIDE DEF e
  <2>3. ToSet(Cons(e, processing)) = ToSet(processing) \cup {e}
    BY <2>2, <1>t, PushHead
  <2>4. Payloads(processing') = Payloads(processing) \cup {e.msg}
    BY <2>1, <2>3, PayloadsOfPush
  <2>5. Payloads(queue) \subseteq Payloads(queue') \cup {e.msg}
    BY <2>2, PayloadsOfUnion
  <2>6. Repushed \subseteq Repushed' BY <2>1, OtherHands
  <2>7. Kept \subseteq Kept' BY <2>1, <2>4, <2>5, <2>6, <1>k, KeptIs, KeptNext
  <2>8. \A v \in Worker : step'[v] = "delivered" =>
                           step[v] = "delivered" /\ hand'[v] = hand[v]
    BY <2>1, OtherHands
  <2> QED BY <2>1, <2>7, <2>8, <1>0, <1>u, NoLossStep
<1>7. ASSUME NEW w \in Worker, HandleOk(w) PROVE NoLossInv'
  <2> DEFINE m == hand[w].msg
  <2>1. m \in Msg BY <1>7, HeldJob DEF HandleOk, Holding
  <2>2. /\ sends' = [sends EXCEPT ![m] = IF @ < 2 THEN @ + 1 ELSE @]
        /\ Goto(w, "delivered") /\ UNCHANGED hand /\ step[w] = "delivering"
        /\ UNCHANGED <<redisVars, scriptVars, redisUp, published, cleared>>
    BY <1>7 DEF HandleOk
  <2>3. hand[w].msg = m OBVIOUS
  <2> HIDE DEF m
  <2>4. Sent \subseteq Sent' /\ m \in Sent'
    <3>1. sends \in [Msg -> 0..2] BY DEF TypeOK
    <3> QED BY <2>1, <2>2, <3>1 DEF Sent
  <2>5. Repushed \subseteq Repushed' BY <2>2, OtherHands
  <2>6. Kept \subseteq Kept' BY <2>2, <2>5, <1>k, KeptIs, KeptNext
  <2>7. /\ \A v \in Worker : step[v] = "delivered" => hand[v].msg \in Sent
        /\ Accepted \subseteq Kept \cup Sent \cup cleared
    BY <1>0 DEF NoLossInv
  <2>8. \A v \in Worker : step'[v] = "delivered" => hand'[v].msg \in Sent'
    BY <2>2, <2>3, <2>4, <2>7, OtherHands
  <2>9. Accepted' = Accepted BY <2>2 DEF Accepted
  <2> QED BY <2>2, <2>4, <2>6, <2>7, <2>8, <2>9, <1>u DEF NoLossInv
<1>8. ASSUME NEW w \in Worker, HandleFail(w) PROVE NoLossInv'
  BY <1>8, <1>m DEF HandleFail
<1>9. ASSUME NEW w \in Worker, Ack(w) PROVE NoLossInv'
  <2>1. /\ processing' = RemoveFirst(processing, hand[w])
        /\ UNCHANGED <<queue, dlq, scriptVars, redisUp, historyVars>>
        /\ Goto(w, "idle") /\ hand' = [hand EXCEPT ![w] = None]
        /\ step[w] = "delivered"
    BY <1>9 DEF Ack, PutDown
  <2>2. hand[w].msg \in Sent BY <2>1, <1>0 DEF NoLossInv
  <2>3. ToSet(processing) \subseteq ToSet(processing') \cup {hand[w]}
    BY <2>1, <1>t, RemoveOne
  <2>4. Payloads(processing) \subseteq Payloads(processing') \cup Sent
    BY <2>2, <2>3, PayloadsOfUnion
  <2>5. Repushed \subseteq Repushed' BY <2>1, OtherHands
  <2>6. Kept \subseteq Kept' \cup Sent
    BY <2>1, <2>4, <2>5, <1>k, KeptIs, KeptNext
  <2>7. \A v \in Worker : step'[v] = "delivered" =>
                           step[v] = "delivered" /\ hand'[v] = hand[v]
    BY <2>1, OtherHands
  <2> QED BY <2>1, <2>6, <2>7, <1>0, <1>u, NoLossStep
<1>10. ASSUME NEW w \in Worker, RetryAck(w) PROVE NoLossInv'
  <2> DEFINE e == hand[w]
             j == Attempted(hand[w])
  <2>0. e \in Job /\ j.msg = e.msg
    BY <1>10, HeldJob, AttemptedIsAJob DEF RetryAck, Holding
  <2>1. /\ processing' = RemoveFirst(processing, e)
        /\ UNCHANGED <<queue, dlq, scriptVars, redisUp, historyVars>>
        /\ Goto(w, "repush") /\ hand' = [hand EXCEPT ![w] = j]
        /\ step[w] = "failing"
    BY <1>10, <1>t DEF RetryAck
  <2> HIDE DEF e, j
  <2>3. ToSet(processing) \subseteq ToSet(processing') \cup {e}
    BY <2>1, <1>t, RemoveOne
  <2>4. Payloads(processing) \subseteq Payloads(processing') \cup {e.msg}
    BY <2>3, PayloadsOfUnion
  <2>5. Repushed \subseteq Repushed' BY <2>1, OtherHands
  <2>6. e.msg \in Repushed'
    <3>1. step'[w] = "repush" /\ hand'[w] = j BY <2>1, <1>t DEF Goto
    <3> QED BY <2>0, <3>1 DEF Repushed, HeldBy
  <2>7. Kept \subseteq Kept'
    BY <2>1, <2>4, <2>5, <2>6, <1>k, KeptIs, KeptNext
  <2>8. \A v \in Worker : step'[v] = "delivered" =>
                           step[v] = "delivered" /\ hand'[v] = hand[v]
    BY <2>1, OtherHands
  <2> QED BY <2>1, <2>7, <2>8, <1>0, <1>u, NoLossStep
<1>11. ASSUME NEW w \in Worker, Retry(w) \/ MoveToDlq(w) PROVE NoLossInv'
  <2> DEFINE e == hand[w]
  <2>1. /\ \/ queue' = Append(queue, e) /\ UNCHANGED dlq
           \/ dlq' = Append(dlq, e) /\ UNCHANGED queue
        /\ UNCHANGED <<processing, scriptVars, redisUp, historyVars>>
        /\ Goto(w, "idle") /\ hand' = [hand EXCEPT ![w] = None]
        /\ step[w] = "repush"
    BY <1>11 DEF Retry, MoveToDlq, PutDown
  <2>2. e \in Job BY <2>1, HeldJob DEF Holding
  <2>3. Repushed \subseteq Repushed' \cup {e.msg} BY <2>1, OtherHands
  <2> HIDE DEF e
  <2>4. /\ ToSet(Append(queue, e)) = ToSet(queue) \cup {e}
        /\ ToSet(Append(dlq, e)) = ToSet(dlq) \cup {e}
    BY <2>2, <1>t, PushTail
  <2>5. /\ Payloads(Append(queue, e)) = Payloads(queue) \cup {e.msg}
        /\ Payloads(Append(dlq, e)) = Payloads(dlq) \cup {e.msg}
    BY <2>4, PayloadsOfPush
  <2>6. Kept \subseteq Kept'
    BY <2>1, <2>3, <2>5, <1>k, KeptIs, KeptNext
  <2>7. \A v \in Worker : step'[v] = "delivered" =>
                           step[v] = "delivered" /\ hand'[v] = hand[v]
    BY <2>1, OtherHands
  <2> QED BY <2>1, <2>6, <2>7, <1>0, <1>u, NoLossStep
<1>12. CASE RequeueStart
  <2>1. Kept' = Kept BY <1>12, <1>k, KeptIs, KeptNext DEF RequeueStart
  <2> QED BY <1>12, <2>1, <1>n DEF RequeueStart
<1>13. CASE RequeuePop
  <2>1. ToSet(dlq) = ToSet(dlq') \cup {Head(dlq)} /\ Head(dlq) \in Job
    BY <1>13, <1>t, PopHead DEF RequeuePop
  <2>2. Payloads(dlq) \subseteq Payloads(dlq') \cup {Head(dlq).msg}
    BY <2>1, PayloadsOfUnion
  <2>3. Head(dlq).msg \in PoppedPayloads' /\ PoppedPayloads = {}
    BY <1>13, <2>1, QueueAssumption DEF RequeuePop, PoppedPayloads
  <2>4. Kept \subseteq Kept'
    BY <1>13, <2>2, <2>3, <1>k, KeptIs, KeptNext DEF RequeuePop
  <2> QED BY <1>13, <2>4, <1>n DEF RequeuePop
<1>14. CASE RequeuePush
  <2>1. popped \in Job BY <1>14 DEF RequeuePush, TypeOK
  <2>2. ToSet(queue') = ToSet(queue) \cup {popped}
    BY <1>14, <2>1, <1>t, PushTail DEF RequeuePush
  <2>3. Payloads(queue') = Payloads(queue) \cup PoppedPayloads
    BY <1>14, <2>2, PayloadsOfPush DEF RequeuePush, PoppedPayloads
  <2>4. Kept \subseteq Kept'
    BY <1>14, <2>3, <1>k, KeptIs, KeptNext DEF RequeuePush
  <2> QED BY <1>14, <2>4, <1>n DEF RequeuePush
<1>15. CASE RequeueEnd
  <2>1. Kept' = Kept BY <1>15, <1>k, KeptIs, KeptNext DEF RequeueEnd
  <2> QED BY <1>15, <2>1, <1>n DEF RequeueEnd
<1>16. CASE ClearDlq
  <2>1. /\ cleared' = cleared \cup Payloads(dlq)
        /\ UNCHANGED <<queue, processing, workerVars, scriptVars, redisUp, published, sends>>
    BY <1>16 DEF ClearDlq
  <2>2. Kept \subseteq Kept' \cup Payloads(dlq)
    BY <2>1, <1>k, KeptIs, KeptNext
  <2> QED BY <2>1, <2>2, <1>n
<1> QED
  BY <1>1, <1>2, <1>3, <1>4, <1>5, <1>6, <1>7, <1>8, <1>9, <1>10, <1>11, <1>12,
     <1>13, <1>14, <1>15, <1>16, <1>17
  DEF Next, Recover, Handle, Settle, Requeue

\* No interleaving of services, any number of workers, their recoveries and
\* the operator's script loses an accepted payload: only faults do.
THEOREM NoLossCorrect == Spec => []NoLossWithoutFault
<1>1. NoLossInv => NoLossWithoutFault BY DEF NoLossInv, NoLossWithoutFault
<1> QED BY <1>1, NoLossInit, NoLossNext, TypeInit, TypeNext, PTL DEF Spec

-----------------------------------------------------------------------------
(* How many copies of a payload NotificationQueue can make: no more than   *)
(* were published, and one more for each recovery of an entry a worker was *)
(* at work on.  For every number of payloads, workers, attempts and faults.*)
(*                                                                         *)
(* The lists say how often they hold an entry, never whose it is: an ack   *)
(* removes any entry that equals the job (LREM 1).  The inductive invariant*)
(* CopiesInv therefore numbers the equal entries of `processing` and gives *)
(* each worker that handles a job the number of one of them, or none when  *)
(* its entry has been recovered or removed.  A copy is then an entry of a  *)
(* list, the job in the script's hand, or a worker without an entry, and   *)
(* each action is shown to make no more of them than it counts.            *)

-----------------------------------------------------------------------------
(* Counting the copies of a payload.                                       *)

\* How often a list holds an entry, and its entries of a payload, numbered.
Occ(s, j) == Cardinality({i \in 1..Len(s) : s[i] = j})
Copies(s, m) == {c \in Job \X (Nat \ {0}) : c[1].msg = m /\ c[2] <= Occ(s, c[1])}

\* s is t and one entry e more.
OneMoreOf(s, t, e) ==
  \A j : Occ(s, j) = IF j = e THEN Occ(t, j) + 1 ELSE Occ(t, j)

LEMMA OccType == ASSUME NEW S, NEW s \in Seq(S), NEW j PROVE Occ(s, j) \in Nat
<1>1. Len(s) \in Nat OBVIOUS
<1>2. IsFiniteSet(1..Len(s)) BY <1>1, FS_Interval
<1>3. {i \in 1..Len(s) : s[i] = j} \in SUBSET (1..Len(s)) OBVIOUS
<1>4. IsFiniteSet({i \in 1..Len(s) : s[i] = j}) BY <1>2, <1>3, FS_Subset
<1> QED BY <1>4, FS_CardinalityType DEF Occ

LEMMA OccOfWithout ==
  ASSUME NEW S, NEW s \in Seq(S), NEW t \in Seq(S), NEW k \in 1..Len(s), Without(s, k, t)
  PROVE  OneMoreOf(s, t, s[k])
<1> DEFINE n == Len(s)
<1>0. n \in Nat /\ k \in 1..n OBVIOUS
<1>1. Len(t) = n - 1 /\ \A i \in 1..(n - 1) : t[i] = IF i < k THEN s[i] ELSE s[i + 1]
  BY DEF Without
<1> HIDE DEF n
<1> SUFFICES ASSUME NEW j PROVE Occ(s, j) = IF j = s[k] THEN Occ(t, j) + 1 ELSE Occ(t, j)
  BY DEF OneMoreOf
<1> DEFINE I == {i \in 1..n : s[i] = j}
           J == {i \in 1..(n - 1) : t[i] = j}
           f == [i \in J |-> IF i < k THEN i ELSE i + 1]
<1>2. IsFiniteSet(I) /\ IsFiniteSet(J)
  <2>1. IsFiniteSet(1..n) /\ IsFiniteSet(1..(n - 1)) BY <1>0, FS_Interval
  <2>2. I \in SUBSET (1..n) /\ J \in SUBSET (1..(n - 1)) OBVIOUS
  <2> QED BY <2>1, <2>2, FS_Subset
<1>3. f \in Bijection(J, I \ {k})
  <2>1. ASSUME NEW i \in J PROVE f[i] \in I \ {k}
    <3>1. i \in 1..(n - 1) /\ t[i] = j OBVIOUS
    <3>2. CASE i < k
      <4>1. i \in 1..n /\ i # k BY <1>0, <3>1, <3>2
      <4> QED BY <1>1, <3>1, <3>2, <4>1
    <3>3. CASE ~ (i < k)
      <4>1. i + 1 \in 1..n /\ i + 1 # k BY <1>0, <3>1, <3>3
      <4> QED BY <1>1, <3>1, <3>3, <4>1
    <3> QED BY <3>2, <3>3
  <2>2. f \in [J -> I \ {k}] BY <2>1
  <2>3. ASSUME NEW x \in J, NEW y \in J, f[x] = f[y] PROVE x = y
    <3>1. x \in Int /\ y \in Int /\ k \in Int BY <1>0
    <3>2. f[x] = (IF x < k THEN x ELSE x + 1) /\ f[y] = IF y < k THEN y ELSE y + 1 OBVIOUS
    <3>3. (IF x < k THEN x ELSE x + 1) = (IF y < k THEN y ELSE y + 1) BY <2>3, <3>2
    <3> HIDE DEF f, J
    <3> QED BY <3>1, <3>3
  <2>4. ASSUME NEW z \in I \ {k} PROVE \E i \in J : f[i] = z
    <3>1. z \in 1..n /\ s[z] = j /\ z # k OBVIOUS
    <3>2. CASE z < k
      <4>1. z \in 1..(n - 1) BY <1>0, <3>1, <3>2
      <4>2. t[z] = s[z] BY <1>1, <3>2, <4>1
      <4>3. z \in J BY <3>1, <4>1, <4>2
      <4> QED BY <3>2, <4>3
    <3>3. CASE z > k
      <4>1. z - 1 \in 1..(n - 1) /\ ~ (z - 1 < k) /\ (z - 1) + 1 = z BY <1>0, <3>1, <3>3
      <4>2. t[z - 1] = s[z] BY <1>1, <4>1
      <4>3. z - 1 \in J BY <3>1, <4>1, <4>2
      <4> QED BY <4>1, <4>3
    <3>4. z < k \/ z > k BY <1>0, <3>1
    <3> HIDE DEF f, J
    <3> QED BY <3>2, <3>3, <3>4
  <2> QED BY <2>2, <2>3, <2>4 DEF Bijection, Injection, Surjection, IsInjective
<1>4. Cardinality(I \ {k}) = Cardinality(J)
  <2>1. ExistsBijection(J, I \ {k}) BY <1>3 DEF ExistsBijection
  <2> QED BY <1>2, <2>1, FS_Bijection
<1>5. Cardinality(I) \in Nat BY <1>2, FS_CardinalityType
<1>6. k \in I <=> j = s[k] BY <1>0
<1>7. Cardinality(I \ {k}) = IF k \in I THEN Cardinality(I) - 1 ELSE Cardinality(I)
  BY <1>2, FS_RemoveElement
<1>8. Occ(s, j) = Cardinality(I) /\ Occ(t, j) = Cardinality(J) BY <1>1 DEF Occ, n
<1> QED BY <1>4, <1>5, <1>6, <1>7, <1>8

LEMMA OccOfPushTail ==
  ASSUME NEW S, NEW s \in Seq(S), NEW e \in S PROVE OneMoreOf(Append(s, e), s, e)
<1> DEFINE t == Append(s, e)
           k == Len(s) + 1
<1>1. t \in Seq(S) /\ Len(t) = k /\ Len(s) \in Nat /\ t[k] = e
      /\ \A i \in 1..Len(s) : t[i] = s[i]
  OBVIOUS
<1> HIDE DEF t
<1>2. Without(t, k, s) BY <1>1 DEF Without
<1> QED BY <1>1, <1>2, OccOfWithout DEF t, Without

LEMMA OccOfPushHead ==
  ASSUME NEW S, NEW s \in Seq(S), NEW e \in S PROVE OneMoreOf(Cons(e, s), s, e)
<1> DEFINE t == <<e>> \o s
<1>1. /\ t \in Seq(S) /\ Len(t) = Len(s) + 1 /\ t[1] = e /\ Len(s) \in Nat
      /\ \A i \in 1..Len(s) : t[i + 1] = s[i]
  BY ConcatProperties
<1> HIDE DEF t
<1>2. Without(t, 1, s) BY <1>1 DEF Without
<1> QED BY <1>1, <1>2, OccOfWithout DEF t, Without, Cons

LEMMA OccOfPopTail ==
  ASSUME NEW S, NEW s \in Seq(S), s # <<>> PROVE OneMoreOf(s, Front(s), Last(s))
<1>1. Len(s) \in Nat \ {0} /\ DOMAIN s = 1..Len(s) OBVIOUS
<1>2. /\ Front(s) \in Seq(S) /\ Len(Front(s)) = Len(s) - 1
      /\ \A i \in 1..(Len(s) - 1) : Front(s)[i] = s[i]
  BY <1>1 DEF Front
<1>3. Last(s) = s[Len(s)] BY DEF Last
<1>4. Len(s) \in 1..Len(s) BY <1>1
<1>5. Without(s, Len(s), Front(s)) BY <1>1, <1>2, <1>4 DEF Without
<1> QED BY <1>2, <1>3, <1>4, <1>5, OccOfWithout

LEMMA OccOfPopHead ==
  ASSUME NEW S, NEW s \in Seq(S), s # <<>> PROVE OneMoreOf(s, Tail(s), Head(s))
<1> DEFINE t == Tail(s)
<1>1. Len(s) \in Nat \ {0} OBVIOUS
<1>2. t \in Seq(S) /\ Len(t) = Len(s) - 1 /\ \A i \in 1..Len(t) : t[i] = s[i + 1]
  BY HeadTailProperties
<1>3. Head(s) = s[1] OBVIOUS
<1> HIDE DEF t
<1>4. 1 \in 1..Len(s) BY <1>1
<1>5. Without(s, 1, t) BY <1>1, <1>2, <1>4 DEF Without
<1>6. OneMoreOf(s, t, s[1]) BY <1>2, <1>4, <1>5, OccOfWithout
<1> QED BY <1>3, <1>6 DEF t

\* LREM takes one equal entry, if there is one.
LEMMA OccOfRemove ==
  ASSUME NEW S, NEW s \in Seq(S), NEW e
  PROVE  \/ OneMoreOf(s, RemoveFirst(s, e), e)
         \/ Occ(s, e) = 0 /\ RemoveFirst(s, e) = s
<1>1. CASE \E i \in 1..Len(s) : s[i] = e
  <2> DEFINE t == RemoveFirst(s, e)
  <2>1. t \in Seq(S) BY <1>1, RemoveFirstOf
  <2>2. PICK k \in 1..Len(s) : s[k] = e /\ Without(s, k, t) BY <1>1, RemoveFirstOf
  <2> HIDE DEF t
  <2>3. OneMoreOf(s, t, e) BY <2>1, <2>2, OccOfWithout
  <2> QED BY <2>3 DEF t
<1>2. CASE ~ \E i \in 1..Len(s) : s[i] = e
  <2>1. {i \in 1..Len(s) : s[i] = e} = {} BY <1>2
  <2>2. Occ(s, e) = 0 BY <2>1, FS_EmptySet DEF Occ
  <2> QED BY <1>2, <2>2 DEF RemoveFirst
<1> QED BY <1>1, <1>2

\* Then s has one copy more of the entry's payload, and of no other.
LEMMA CopiesOfOneMore ==
  ASSUME NEW s \in Seq(Job), NEW t \in Seq(Job), NEW e \in Job, OneMoreOf(s, t, e), NEW m
  PROVE  Copies(s, m) = Copies(t, m) \cup (IF e.msg = m THEN {<<e, Occ(s, e)>>} ELSE {})
         /\ (e.msg = m => <<e, Occ(s, e)>> \notin Copies(t, m))
<1>1. \A j : Occ(s, j) \in Nat /\ Occ(t, j) \in Nat BY OccType
<1>2. Occ(s, e) = Occ(t, e) + 1 /\ \A j : j # e => Occ(s, j) = Occ(t, j) BY DEF OneMoreOf
<1>3. ASSUME NEW j \in Job, NEW n \in Nat \ {0}
      PROVE  n <= Occ(s, j) <=> n <= Occ(t, j) \/ (j = e /\ n = Occ(s, e))
  <2>1. CASE j = e BY <1>1, <1>2, <2>1
  <2>2. CASE j # e BY <1>2, <2>2
  <2> QED BY <2>1, <2>2
<1>4. Occ(s, e) \in Nat \ {0} /\ ~ (Occ(s, e) <= Occ(t, e)) BY <1>1, <1>2
<1> QED BY <1>3, <1>4 DEF Copies

LEMMA CopiesCount ==
  ASSUME NEW s \in Seq(Job), NEW t \in Seq(Job), NEW e \in Job, OneMoreOf(s, t, e), NEW m,
         IsFiniteSet(Copies(s, m)) \/ IsFiniteSet(Copies(t, m))
  PROVE  /\ IsFiniteSet(Copies(s, m)) /\ IsFiniteSet(Copies(t, m))
         /\ Cardinality(Copies(s, m)) \in Nat /\ Cardinality(Copies(t, m)) \in Nat
         /\ Cardinality(Copies(s, m)) = Cardinality(Copies(t, m)) + IF e.msg = m THEN 1 ELSE 0
<1> DEFINE x == <<e, Occ(s, e)>>
           A == Copies(s, m)
           B == Copies(t, m)
<1>1. A = B \cup (IF e.msg = m THEN {x} ELSE {}) /\ (e.msg = m => x \notin B)
  BY CopiesOfOneMore
<1> HIDE DEF A, B, x
<1>2. CASE e.msg # m
  <2>1. A = B BY <1>1, <1>2
  <2>2. IsFiniteSet(A) /\ IsFiniteSet(B) BY <2>1 DEF A, B
  <2>3. Cardinality(A) \in Nat BY <2>2, FS_CardinalityType
  <2> QED BY <1>2, <2>1, <2>2, <2>3 DEF A, B
<1>3. CASE e.msg = m
  <2>1. A = B \cup {x} /\ x \notin B /\ B = A \ {x} BY <1>1, <1>3
  <2>2. IsFiniteSet(A) \/ IsFiniteSet(B) BY DEF A, B
  <2>3. IsFiniteSet(A) /\ IsFiniteSet(B) BY <2>1, <2>2, FS_AddElement, FS_RemoveElement
  <2>4. Cardinality(A) = Cardinality(B) + 1 BY <2>1, <2>3, FS_AddElement
  <2>5. Cardinality(A) \in Nat /\ Cardinality(B) \in Nat BY <2>3, FS_CardinalityType
  <2> QED BY <1>3, <2>3, <2>4, <2>5 DEF A, B
<1> QED BY <1>2, <1>3

-----------------------------------------------------------------------------
(* The workers and the copies in the lists.                                *)

Num(s, m) == Cardinality(Copies(s, m))
Counts(s) == \A m \in Msg : IsFiniteSet(Copies(s, m))
One(cond) == IF cond THEN 1 ELSE 0

Holders(m) == {w \in Worker : step[w] \in Holding /\ hand[w].msg = m}
DeliveredBy(m) == {w \in Worker : step[w] = "delivered" /\ hand[w].msg = m}

\* b numbers the entries of `processing` that stand behind a job in hand:
\* worker w has the b[w]-th of the entries that equal its job, or none (0).
Backing(b) ==
  /\ b \in [Worker -> Nat]
  /\ \A w \in Worker : b[w] # 0 =>
       step[w] \in InFlight /\ b[w] <= Occ(processing, hand[w])
  /\ \A v, w \in Worker :
       v # w /\ hand[v] = hand[w] /\ b[v] # 0 => b[v] # b[w]
Unbacked(m, b) == {w \in Holders(m) : b[w] = 0}

\* Copies of m in Redis and in the hand of the operator's script, and all there are.
Stored(m) == Num(queue, m) + Num(processing, m) + Num(dlq, m) + One(m \in PoppedPayloads)
Total(m, b) == Stored(m) + Cardinality(Unbacked(m, b))

Counted(b) == \A m \in Msg :
  /\ Total(m, b) <= published[m] + stolen[m]
  /\ stops = 0 /\ outages = 0 =>
       sends[m] + Total(m, b)
         <= published[m] + stolen[m] + Cardinality(DeliveredBy(m))

Explained(b) == \A w \in Worker : step[w] \in InFlight =>
  \/ b[w] # 0
  \/ stolen[hand[w].msg] > 0
  \/ outages > 0 /\ (step[w] = "failing" \/ published[hand[w].msg] > 1)

CopiesInv ==
  /\ Counts(queue) /\ Counts(processing) /\ Counts(dlq)
  /\ ~redisUp => outages > 0
  /\ \E b \in [Worker -> Nat] : Backing(b) /\ Counted(b) /\ Explained(b)

LEMMA WorkersFinite ==
  /\ \A V \in SUBSET Worker : IsFiniteSet(V) /\ Cardinality(V) \in Nat
  /\ \A m, b : /\ IsFiniteSet(Holders(m)) /\ Cardinality(Holders(m)) \in Nat
               /\ IsFiniteSet(Unbacked(m, b)) /\ Cardinality(Unbacked(m, b)) \in Nat
               /\ IsFiniteSet(DeliveredBy(m)) /\ Cardinality(DeliveredBy(m)) \in Nat
<1>1. ASSUME NEW V \in SUBSET Worker PROVE IsFiniteSet(V) /\ Cardinality(V) \in Nat
  <2>1. IsFiniteSet(V) BY FS_Subset, QueueAssumption
  <2> QED BY <2>1, FS_CardinalityType
<1>2. ASSUME NEW m, NEW b
      PROVE  /\ Holders(m) \in SUBSET Worker /\ Unbacked(m, b) \in SUBSET Worker
             /\ DeliveredBy(m) \in SUBSET Worker
  BY DEF Holders, Unbacked, DeliveredBy
<1> QED BY <1>1, <1>2

LEMMA NumMoves ==
  ASSUME NEW s \in Seq(Job), NEW t \in Seq(Job), NEW e \in Job, OneMoreOf(s, t, e),
         Counts(s) \/ Counts(t)
  PROVE  /\ Counts(s) /\ Counts(t)
         /\ \A m \in Msg : /\ Num(s, m) \in Nat /\ Num(t, m) \in Nat
                           /\ Num(s, m) = Num(t, m) + One(e.msg = m)
<1> SUFFICES ASSUME NEW m \in Msg
             PROVE  /\ IsFiniteSet(Copies(s, m)) /\ IsFiniteSet(Copies(t, m))
                    /\ Num(s, m) \in Nat /\ Num(t, m) \in Nat
                    /\ Num(s, m) = Num(t, m) + One(e.msg = m)
  BY DEF Counts
<1>1. IsFiniteSet(Copies(s, m)) \/ IsFiniteSet(Copies(t, m)) BY DEF Counts
<1> QED BY <1>1, CopiesCount DEF Num, One

LEMMA NumType ==
  ASSUME NEW s, Counts(s), NEW m \in Msg PROVE Num(s, m) \in Nat
BY FS_CardinalityType DEF Counts, Num

LEMMA NumEmpty == \A m : Copies(<<>>, m) = {} /\ Num(<<>>, m) = 0
<1>1. ASSUME NEW j PROVE Occ(<<>>, j) = 0
  <2>1. {i \in 1..Len(<<>>) : (<<>>)[i] = j} = {} OBVIOUS
  <2> QED BY <2>1, FS_EmptySet DEF Occ
<1>2. \A m : Copies(<<>>, m) = {} BY <1>1 DEF Copies
<1> QED BY <1>2, FS_EmptySet DEF Num

LEMMA CopiesInit == Init => CopiesInv
<1> SUFFICES ASSUME Init PROVE CopiesInv OBVIOUS
<1> DEFINE b == [w \in Worker |-> 0]
<1>1. b \in [Worker -> Nat] OBVIOUS
<1>2. Backing(b) /\ Explained(b)
  BY <1>1 DEF Init, Backing, Explained, InFlight
<1>3. ASSUME NEW m \in Msg PROVE Total(m, b) = 0
  <2>1. Holders(m) = {} BY DEF Init, Holders, Holding
  <2>2. Unbacked(m, b) = {} BY <2>1 DEF Unbacked
  <2>3. Cardinality(Unbacked(m, b)) = 0 BY <2>2, FS_EmptySet
  <2>4. m \notin PoppedPayloads BY DEF Init, PoppedPayloads
  <2> QED BY <2>3, <2>4, NumEmpty DEF Init, Total, Stored, One
<1>4. Counted(b) BY <1>3, WorkersFinite DEF Counted, Init
<1>5. Counts(queue) /\ Counts(processing) /\ Counts(dlq)
  BY NumEmpty, FS_EmptySet DEF Init, Counts
<1> QED BY <1>1, <1>2, <1>4, <1>5 DEF CopiesInv, Init

-----------------------------------------------------------------------------
(* What the invariant says of the queue.                                   *)

LEMMA TotalType ==
  ASSUME Counts(queue), Counts(processing), Counts(dlq), NEW m \in Msg, NEW b
  PROVE  /\ Total(m, b) \in Nat /\ Stored(m) \in Nat
         /\ Num(queue, m) \in Nat /\ Num(processing, m) \in Nat /\ Num(dlq, m) \in Nat
         /\ Cardinality(Unbacked(m, b)) \in Nat
BY NumType, WorkersFinite DEF Total, Stored, One

\* Every holder of a payload has a copy of its own: its entry, or itself.
LEMMA HoldersHaveCopies ==
  ASSUME TypeOK, Counts(processing), NEW m \in Msg, NEW b, Backing(b)
  PROVE  Cardinality(Holders(m)) <= Num(processing, m) + Cardinality(Unbacked(m, b))
<1> DEFINE H == Holders(m)
           U == Unbacked(m, b)
           B == H \ U
           f == [w \in B |-> <<hand[w], b[w]>>]
<1>1. ASSUME NEW w \in B PROVE f[w] \in Copies(processing, m)
  <2>1. w \in Worker /\ step[w] \in Holding /\ hand[w].msg = m /\ b[w] # 0
    BY DEF Holders, Unbacked
  <2>2. hand[w] \in Job /\ b[w] \in Nat \ {0} /\ b[w] <= Occ(processing, hand[w])
    BY <2>1, HeldJob DEF Backing
  <2> QED BY <2>1, <2>2 DEF Copies
<1>2. ASSUME NEW v \in B, NEW w \in B, f[v] = f[w] PROVE v = w
  <2>1. v \in Worker /\ w \in Worker /\ b[v] # 0 BY DEF Holders, Unbacked
  <2>2. hand[v] = hand[w] /\ b[v] = b[w] BY <1>2
  <2> QED BY <2>1, <2>2 DEF Backing
<1>3. f \in Injection(B, Copies(processing, m))
  BY <1>1, <1>2 DEF Injection, IsInjective
<1>4. IsFiniteSet(B) /\ Cardinality(B) <= Num(processing, m)
  BY <1>3, FS_Injection DEF Counts, Num
<1> HIDE DEF B, U, H
<1>5. IsFiniteSet(U) BY WorkersFinite DEF U
<1>6. /\ Cardinality(B \cup U) = Cardinality(B) + Cardinality(U) - Cardinality(B \cap U)
  BY <1>4, <1>5, FS_Union
<1>7. B \cap U = {} /\ B \cup U = H BY DEF B, U, H, Unbacked
<1>8. Cardinality(H) = Cardinality(B) + Cardinality(U) - 0
  BY <1>6, <1>7, FS_EmptySet
<1>9. Cardinality(B) \in Nat /\ Cardinality(U) \in Nat /\ Num(processing, m) \in Nat
  BY <1>4, <1>5, FS_CardinalityType, NumType
<1> QED BY <1>4, <1>8, <1>9 DEF H, U

LEMMA OccPositive ==
  ASSUME NEW S, NEW s \in Seq(S), NEW e, Occ(s, e) # 0 PROVE e \in ToSet(s)
<1>1. CASE {i \in 1..Len(s) : s[i] = e} = {}
  BY <1>1, FS_EmptySet DEF Occ
<1>2. CASE {i \in 1..Len(s) : s[i] = e} # {}
  BY <1>2 DEF ToSet
<1> QED BY <1>1, <1>2

LEMMA CopiesImplyBacked == TypeOK /\ CopiesInv => InFlightIsBacked
<1> SUFFICES ASSUME TypeOK, CopiesInv PROVE InFlightIsBacked OBVIOUS
<1>1. PICK b \in [Worker -> Nat] : Backing(b) /\ Explained(b) BY DEF CopiesInv
<1>2. ASSUME NEW w \in Worker, step[w] \in InFlight, b[w] # 0
      PROVE  hand[w] \in ToSet(processing)
  <2>1. b[w] \in Nat /\ b[w] <= Occ(processing, hand[w]) BY <1>1, <1>2 DEF Backing
  <2>2. Occ(processing, hand[w]) # 0 BY <1>2, <2>1
  <2> QED BY <2>2, OccPositive DEF TypeOK
<1> QED BY <1>1, <1>2 DEF Explained, InFlightIsBacked

LEMMA CopiesImplyDuplicates == TypeOK /\ CopiesInv => DuplicatesHaveACause
<1> SUFFICES ASSUME TypeOK, CopiesInv, NEW m \in Msg
             PROVE  /\ Cardinality(Holders(m)) <= published[m] + stolen[m]
                    /\ published[m] = 1 /\ sends[m] > 1 => stolen[m] + stops + outages > 0
  BY DEF DuplicatesHaveACause, Holders
<1>1. PICK b \in [Worker -> Nat] : Backing(b) /\ Counted(b) BY DEF CopiesInv
<1>2. Counts(queue) /\ Counts(processing) /\ Counts(dlq) BY DEF CopiesInv
<1> DEFINE P == Num(processing, m)
           U == Cardinality(Unbacked(m, b))
           H == Cardinality(Holders(m))
           D == Cardinality(DeliveredBy(m))
           T == Total(m, b)
<1>3. P \in Nat /\ U \in Nat /\ H \in Nat /\ D \in Nat /\ T \in Nat
  BY <1>2, TotalType, WorkersFinite
<1>4. P + U <= T
  <2>1. /\ Num(queue, m) \in Nat /\ Num(dlq, m) \in Nat /\ One(m \in PoppedPayloads) \in Nat
        /\ T = Num(queue, m) + P + Num(dlq, m) + One(m \in PoppedPayloads) + U
    BY <1>2, TotalType DEF Total, Stored, One
  <2> HIDE DEF P, U, T
  <2> QED BY <1>3, <2>1
<1>5. H <= P + U BY <1>1, <1>2, HoldersHaveCopies
<1>6. D <= H
  <2>1. DeliveredBy(m) \in SUBSET Holders(m) BY DEF DeliveredBy, Holders, Holding
  <2> QED BY <2>1, WorkersFinite, FS_Subset
<1>7. /\ T <= published[m] + stolen[m]
      /\ stops = 0 /\ outages = 0 => sends[m] + T <= published[m] + stolen[m] + D
  BY <1>1 DEF Counted
<1>8. /\ published[m] \in Nat /\ stolen[m] \in Nat /\ sends[m] \in Nat
      /\ stops \in Nat /\ outages \in Nat
  BY DEF TypeOK
<1> HIDE DEF P, U, H, D, T
<1>9. H <= published[m] + stolen[m] BY <1>3, <1>4, <1>5, <1>7, <1>8
<1>10. published[m] = 1 /\ sends[m] > 1 => stolen[m] + stops + outages > 0
  BY <1>3, <1>4, <1>5, <1>6, <1>7, <1>8
<1> QED BY <1>9, <1>10 DEF H

\* A payload in a list is a copy there.
LEMMA ListedCounts ==
  ASSUME NEW s \in Seq(Job), Counts(s), NEW m \in Msg, m \in Payloads(s)
  PROVE  Num(s, m) \in Nat \ {0}
<1>1. PICK i \in 1..Len(s) : s[i].msg = m BY DEF Payloads, ToSet
<1> DEFINE j == s[i]
           I == {k \in 1..Len(s) : s[k] = j}
<1>2. j \in Job /\ j.msg = m BY <1>1
<1>3. IsFiniteSet(I) /\ I # {}
  <2>1. Len(s) \in Nat OBVIOUS
  <2>2. IsFiniteSet(1..Len(s)) BY <2>1, FS_Interval
  <2>3. I \in SUBSET (1..Len(s)) /\ i \in I OBVIOUS
  <2> QED BY <2>2, <2>3, FS_Subset
<1>4. Occ(s, j) = Cardinality(I) BY DEF Occ
<1> HIDE DEF I, j
<1>5. Occ(s, j) \in Nat \ {0} BY <1>3, <1>4, FS_CardinalityType, FS_EmptySet
<1>6. 1 <= Occ(s, j) BY <1>5
<1>7. <<j, 1>> \in Copies(s, m) BY <1>2, <1>6 DEF Copies
<1>8. IsFiniteSet(Copies(s, m)) BY DEF Counts
<1> QED BY <1>7, <1>8, FS_CardinalityType, FS_EmptySet DEF Num

\* The only copy of a payload, when it is in the dead-letter list, is there.
LEMMA DeadLetterIsAlone ==
  ASSUME TypeOK, CopiesInv, NEW m \in Msg, m \in Payloads(dlq)
  PROVE  /\ published[m] + stolen[m] >= 1
         /\ published[m] + stolen[m] = 1 => Holders(m) = {}
<1>1. PICK b \in [Worker -> Nat] : Backing(b) /\ Counted(b) BY DEF CopiesInv
<1>2. Counts(queue) /\ Counts(processing) /\ Counts(dlq) BY DEF CopiesInv
<1> DEFINE P == Num(processing, m)
           D == Num(dlq, m)
           U == Cardinality(Unbacked(m, b))
           H == Cardinality(Holders(m))
           T == Total(m, b)
           Q == Num(queue, m) + One(m \in PoppedPayloads)
<1>3. P \in Nat /\ U \in Nat /\ H \in Nat /\ T \in Nat BY <1>2, TotalType, WorkersFinite
<1>4. D \in Nat \ {0} BY <1>2, ListedCounts DEF TypeOK
<1>5. Q \in Nat /\ T = Q + P + D + U
  <2>1. Num(queue, m) \in Nat /\ One(m \in PoppedPayloads) \in Nat
    BY <1>2, TotalType DEF One
  <2>2. T = Num(queue, m) + P + D + One(m \in PoppedPayloads) + U BY DEF Total, Stored
  <2> HIDE DEF P, D, U, T
  <2> QED BY <1>3, <1>4, <2>1, <2>2
<1>6. H <= P + U BY <1>1, <1>2, HoldersHaveCopies
<1>7. T <= published[m] + stolen[m] BY <1>1 DEF Counted
<1>8. published[m] \in Nat /\ stolen[m] \in Nat BY DEF TypeOK
<1> HIDE DEF P, D, U, H, T, Q
<1>9. published[m] + stolen[m] >= 1 BY <1>3, <1>4, <1>5, <1>7, <1>8
<1>10. published[m] + stolen[m] = 1 => H = 0
  BY <1>3, <1>4, <1>5, <1>6, <1>7, <1>8
<1>11. H = 0 => Holders(m) = {} BY WorkersFinite, FS_EmptySet DEF H
<1> QED BY <1>9, <1>10, <1>11

-----------------------------------------------------------------------------
(* Renumbering when an entry leaves `processing`.                          *)

\* b numbers entries of s, and no two holders share one.
Tickets(s, b) ==
  /\ \A v \in Worker : b[v] # 0 => b[v] <= Occ(s, hand[v])
  /\ \A v, w \in Worker : v # w /\ hand[v] = hand[w] /\ b[v] # 0 => b[v] # b[w]

\* The numbers c that follow b when an entry e leaves s, which is t then, and
\* w gives up its own.
Renumbered(s, t, e, b, w, c) ==
  /\ c[w] = 0 /\ Tickets(t, c)
  /\ \A v \in Worker : c[v] # 0 => b[v] # 0
  /\ \E x \in Worker : \A v \in Worker \ {w} :
       c[v] = 0 /\ b[v] # 0 =>
         v = x /\ hand[v] = e /\ b[w] = 0 /\ b[v] = Occ(s, e)

\* An entry e leaves s, perhaps the one behind w.  Whoever stood behind the last
\* of them takes over the number of w, and has none if w had none.
LEMMA TicketsAfterRemoval ==
  ASSUME NEW s \in Seq(Job), NEW t \in Seq(Job), NEW e \in Job,
         OneMoreOf(s, t, e) \/ (Occ(s, e) = 0 /\ t = s),
         NEW b \in [Worker -> Nat], Tickets(s, b),
         NEW w \in Worker, hand[w] = e \/ b[w] = 0
  PROVE  \E c \in [Worker -> Nat] : Renumbered(s, t, e, b, w, c)
<1> DEFINE N == Occ(s, e)
           c == [v \in Worker |-> IF v = w THEN 0
                                  ELSE IF hand[v] = e /\ b[v] = N THEN b[w] ELSE b[v]]
<1>1. /\ N \in Nat /\ \A j : Occ(s, j) \in Nat /\ Occ(t, j) \in Nat
      /\ \A j : j # e => Occ(t, j) = Occ(s, j)
      /\ N # 0 => Occ(t, e) = N - 1
  <2>1. \A j : Occ(s, j) \in Nat /\ Occ(t, j) \in Nat BY OccType
  <2>2. CASE OneMoreOf(s, t, e) BY <2>1, <2>2 DEF OneMoreOf
  <2>3. CASE Occ(s, e) = 0 /\ t = s BY <2>1, <2>3
  <2> QED BY <2>2, <2>3
<1>2. /\ \A v \in Worker : b[v] \in Nat /\ (b[v] # 0 => b[v] <= Occ(s, hand[v]))
      /\ \A v, u \in Worker : v # u /\ hand[v] = hand[u] /\ b[v] # 0 => b[v] # b[u]
  BY DEF Tickets
<1>3. c \in [Worker -> Nat] /\ c[w] = 0 BY <1>2
<1> HIDE DEF N
<1>4. ASSUME NEW v \in Worker, c[v] # 0
      PROVE  b[v] # 0 /\ c[v] <= Occ(t, hand[v])
  <2>1. v # w BY <1>3, <1>4
  <2>2. CASE hand[v] # e
    <3>1. c[v] = b[v] BY <2>1, <2>2
    <3>2. b[v] <= Occ(s, hand[v]) /\ Occ(t, hand[v]) = Occ(s, hand[v])
      BY <1>1, <1>2, <1>4, <2>2, <3>1
    <3> QED BY <1>4, <3>1, <3>2
  <2>3. CASE hand[v] = e /\ b[v] = N
    <3>1. c[v] = b[w] BY <2>1, <2>3
    <3>2. hand[w] = e /\ b[w] \in Nat /\ b[w] <= N BY <1>2, <1>4, <3>1 DEF N
    <3>3. b[w] # b[v] BY <1>2, <1>4, <2>1, <2>3, <3>1, <3>2
    <3>4. N # 0 /\ b[w] <= N - 1 BY <1>1, <1>4, <2>3, <3>1, <3>2, <3>3
    <3> QED BY <1>1, <2>3, <3>1, <3>4
  <2>4. CASE hand[v] = e /\ b[v] # N
    <3>1. c[v] = b[v] BY <2>1, <2>4
    <3>2. b[v] \in Nat /\ b[v] <= N BY <1>2, <1>4, <2>4, <3>1 DEF N
    <3>3. N # 0 /\ b[v] <= N - 1 BY <1>1, <1>4, <2>4, <3>1, <3>2
    <3> QED BY <1>1, <1>4, <2>4, <3>1, <3>3
  <2> QED BY <2>2, <2>3, <2>4
<1>5. ASSUME NEW v \in Worker, NEW u \in Worker, v # u, hand[v] = hand[u], c[v] # 0
      PROVE  c[v] # c[u]
  <2>1. v # w BY <1>3, <1>5
  <2>2. CASE u = w BY <1>3, <1>5, <2>2
  <2>3. CASE u # w
    <3>1. CASE hand[v] # e
      <4>1. c[v] = b[v] /\ c[u] = b[u] BY <1>5, <2>1, <2>3, <3>1
      <4> QED BY <1>2, <1>5, <4>1
    <3>2. CASE hand[v] = e
      <4>1. b[v] # 0 BY <1>4, <1>5
      <4>2. b[v] # b[u] BY <1>2, <1>5, <4>1
      <4>3. c[v] = (IF b[v] = N THEN b[w] ELSE b[v]) /\ c[u] = IF b[u] = N THEN b[w] ELSE b[u]
        BY <1>5, <2>1, <2>3, <3>2
      <4>4. b[w] # 0 => b[w] # b[v] /\ b[w] # b[u]
        BY <1>2, <1>5, <2>1, <2>3, <3>2
      <4> HIDE DEF c
      <4> QED BY <1>5, <4>1, <4>2, <4>3, <4>4
    <3> QED BY <3>1, <3>2
  <2> QED BY <2>2, <2>3
<1>6. ASSUME NEW v \in Worker \ {w}, c[v] = 0, b[v] # 0
      PROVE  hand[v] = e /\ b[w] = 0 /\ b[v] = N
  BY <1>6
<1>7. \E x \in Worker : \A v \in Worker \ {w} : c[v] = 0 /\ b[v] # 0 => v = x
  <2>1. CASE \E v \in Worker \ {w} : c[v] = 0 /\ b[v] # 0
    <3>1. PICK x \in Worker \ {w} : c[x] = 0 /\ b[x] # 0 BY <2>1
    <3>2. ASSUME NEW v \in Worker \ {w}, c[v] = 0, b[v] # 0 PROVE v = x
      <4>1. hand[v] = hand[x] /\ b[v] = b[x] BY <1>6, <3>1, <3>2
      <4> QED BY <1>2, <3>2, <4>1
    <3> QED BY <3>2
  <2>2. CASE ~ \E v \in Worker \ {w} : c[v] = 0 /\ b[v] # 0 BY <2>2
  <2> QED BY <2>1, <2>2
<1>8. Tickets(t, c) BY <1>4, <1>5 DEF Tickets
<1>9. PICK x \in Worker : \A v \in Worker \ {w} : c[v] = 0 /\ b[v] # 0 => v = x BY <1>7
<1> HIDE DEF c
<1>10. /\ c[w] = 0 /\ Tickets(t, c)
       /\ \A v \in Worker : c[v] # 0 => b[v] # 0
       /\ \A v \in Worker \ {w} :
                c[v] = 0 /\ b[v] # 0 =>
                  v = x /\ hand[v] = e /\ b[w] = 0 /\ b[v] = Occ(s, e)
  BY <1>3, <1>4, <1>6, <1>8, <1>9 DEF N
<1> QED BY <1>3, <1>10 DEF Renumbered

\* The unbacked holders of m besides w, under the new numbers c.
Rest(m, w, c) == {v \in Holders(m) \ {w} : c[v] = 0}

Loose(m) == stolen[m] > 0 \/ (outages > 0 /\ published[m] > 1)

\* LREM of the job in the hand of w, which its holder thereby gives up.
LEMMA Release ==
  ASSUME TypeOK, Counts(queue), Counts(processing), Counts(dlq),
         NEW b \in [Worker -> Nat], Backing(b), Counted(b), Explained(b),
         NEW w \in Worker, step[w] \in InFlight,
         NEW p, p = RemoveFirst(processing, hand[w])
  PROVE  /\ Counts(p)
         /\ \E c \in [Worker -> Nat] :
              /\ c[w] = 0 /\ Tickets(p, c)
              /\ \A v \in Worker : c[v] # 0 => b[v] # 0
              /\ \A v \in Worker \ {w} : c[v] = 0 /\ b[v] # 0 => Loose(hand[v].msg)
              /\ \A m \in Msg :
                   Num(p, m) + Cardinality(Rest(m, w, c)) + One(hand[w].msg = m)
                     <= Num(processing, m) + Cardinality(Unbacked(m, b))
<1> DEFINE e == hand[w]
<1>0. e \in Job /\ e.msg \in Msg /\ w \in Holders(e.msg)
  BY HeldJob DEF InFlight, Holding, Holders
<1>1. p \in Seq(Job) /\ processing \in Seq(Job) BY RemoveOne DEF TypeOK
<1>2. OneMoreOf(processing, p, e) \/ (Occ(processing, e) = 0 /\ p = processing)
  BY <1>1, OccOfRemove
<1>3. Tickets(processing, b) /\ (hand[w] = e \/ b[w] = 0) BY DEF Backing, Tickets
<1> HIDE DEF e
<1>4. PICK c \in [Worker -> Nat] : Renumbered(processing, p, e, b, w, c)
  BY <1>0, <1>1, <1>2, <1>3, TicketsAfterRemoval
<1>5. PICK x \in Worker : \A v \in Worker \ {w} :
                c[v] = 0 /\ b[v] # 0 =>
                  v = x /\ hand[v] = e /\ b[w] = 0 /\ b[v] = Occ(processing, e)
  BY <1>4 DEF Renumbered
<1>6. Counts(p) BY <1>0, <1>1, <1>2, NumMoves
<1>7. ASSUME NEW v \in Worker \ {w}, c[v] = 0, b[v] # 0 PROVE Loose(hand[v].msg)
  <2> DEFINE m == e.msg
             P == Num(processing, m)
             U == Cardinality(Unbacked(m, b))
             T == Total(m, b)
  <2>1. hand[v] = e /\ b[w] = 0 /\ b[v] = Occ(processing, e) BY <1>5, <1>7
  <2>2. OneMoreOf(processing, p, e) BY <1>2, <1>7, <2>1
  <2>3. P \in Nat /\ P >= 1
    <3>1. P = Num(p, m) + 1 /\ Num(p, m) \in Nat BY <1>0, <1>1, <2>2, NumMoves DEF One
    <3> HIDE DEF P
    <3> QED BY <3>1
  <2>4. U \in Nat /\ U # 0
    <3>1. w \in Unbacked(m, b) BY <1>0, <2>1 DEF Unbacked
    <3> QED BY <3>1, WorkersFinite, FS_EmptySet
  <2>5. T >= P + U
    <3>1. /\ Num(queue, m) \in Nat /\ Num(dlq, m) \in Nat /\ One(m \in PoppedPayloads) \in Nat
          /\ T = Num(queue, m) + P + Num(dlq, m) + One(m \in PoppedPayloads) + U
      BY <1>0, TotalType DEF Total, Stored, One
    <3> HIDE DEF P, U, T
    <3> QED BY <2>3, <2>4, <3>1
  <2>6. T <= published[m] + stolen[m] /\ T \in Nat BY <1>0, TotalType DEF Counted
  <2>7. published[m] \in Nat /\ stolen[m] \in Nat BY <1>0 DEF TypeOK
  <2>8. stolen[m] > 0 \/ outages > 0 BY <2>1 DEF Explained, e
  <2> HIDE DEF P, U, T, m
  <2>9. stolen[m] > 0 \/ published[m] > 1 BY <2>3, <2>4, <2>5, <2>6, <2>7
  <2> QED BY <2>1, <2>8, <2>9 DEF Loose, m
<1>8. ASSUME NEW m \in Msg
      PROVE  Num(p, m) + Cardinality(Rest(m, w, c)) + One(e.msg = m)
               <= Num(processing, m) + Cardinality(Unbacked(m, b))
  <2> DEFINE V == Rest(m, w, c)
             U == Unbacked(m, b)
  <2>1. /\ V \in SUBSET Worker /\ IsFiniteSet(V) /\ IsFiniteSet(U)
        /\ Cardinality(V) \in Nat /\ Cardinality(U) \in Nat
    <3>1. V \in SUBSET Worker BY DEF Rest, Holders
    <3> QED BY <3>1, WorkersFinite
  <2>2. Num(p, m) \in Nat /\ Num(processing, m) \in Nat BY <1>6, NumType
  <2>3. \A v \in V : v \in U \/ (v = x /\ hand[v] = e /\ b[w] = 0 /\ b[v] = Occ(processing, e) /\ b[v] # 0)
    BY <1>5 DEF Rest, Unbacked, Holders
  <2>4. w \notin V /\ \A v \in V : v \in Holders(m) /\ hand[v].msg = m BY DEF Rest, Holders
  <2>w. w \in U <=> e.msg = m /\ b[w] = 0
    BY <1>0 DEF Unbacked, Holders, e
  <2> HIDE DEF V, U
  <2>5. CASE e.msg # m
    <3>1. V \in SUBSET U BY <2>3, <2>4, <2>5
    <3>2. Cardinality(V) <= Cardinality(U) BY <2>1, <3>1, FS_Subset
    <3>3. Num(p, m) = Num(processing, m)
      BY <1>0, <1>1, <1>2, <2>2, <2>5, NumMoves DEF One
    <3> QED BY <2>1, <2>2, <2>5, <3>2, <3>3 DEF One, V, U
  <2>6. CASE e.msg = m /\ ~ OneMoreOf(processing, p, e)
    <3>1. Occ(processing, e) = 0 /\ p = processing BY <1>2, <2>6
    <3>2. b[w] = 0
      BY <3>1 DEF Backing, e
    <3>3. V \in SUBSET (U \ {w}) /\ w \in U BY <2>3, <2>4, <2>6, <2>w, <3>1, <3>2
    <3>4. IsFiniteSet(U \ {w}) /\ Cardinality(U \ {w}) = Cardinality(U) - 1
      BY <2>1, <3>3, FS_RemoveElement
    <3>5. Cardinality(V) <= Cardinality(U) - 1 BY <3>3, <3>4, FS_Subset
    <3> QED BY <2>1, <2>2, <2>6, <3>1, <3>5 DEF One, V, U
  <2>7. CASE e.msg = m /\ OneMoreOf(processing, p, e)
    <3>1. Num(processing, m) = Num(p, m) + 1
      BY <1>0, <1>1, <2>7, NumMoves DEF One
    <3>2. Cardinality(V) <= Cardinality(U)
      <4>1. CASE b[w] # 0
        <5>1. V \in SUBSET U BY <2>3, <4>1
        <5> QED BY <2>1, <5>1, FS_Subset
      <4>2. CASE b[w] = 0
        <5>1. w \in U /\ V \in SUBSET ((U \ {w}) \cup {x}) BY <2>3, <2>4, <2>7, <2>w, <4>2
        <5>2. IsFiniteSet(U \ {w}) /\ Cardinality(U \ {w}) = Cardinality(U) - 1
          BY <2>1, <5>1, FS_RemoveElement
        <5>3. /\ IsFiniteSet((U \ {w}) \cup {x})
              /\ Cardinality((U \ {w}) \cup {x}) <= Cardinality(U)
          <6> DEFINE D == U \ {w}
          <6>1. IsFiniteSet(D) /\ Cardinality(D) = Cardinality(U) - 1 BY <5>2
          <6> HIDE DEF D
          <6>2. IsFiniteSet(D \cup {x})
                /\ Cardinality(D \cup {x}) \in {Cardinality(D), Cardinality(D) + 1}
            BY <6>1, FS_AddElement
          <6>3. Cardinality(D \cup {x}) <= Cardinality(U) BY <2>1, <6>1, <6>2
          <6> QED BY <6>2, <6>3 DEF D
        <5>4. Cardinality(V) <= Cardinality((U \ {w}) \cup {x}) BY <5>1, <5>3, FS_Subset
        <5>5. Cardinality((U \ {w}) \cup {x}) \in Nat BY <5>3, FS_CardinalityType
        <5> QED BY <2>1, <5>3, <5>4, <5>5
      <4> QED BY <4>1, <4>2
    <3> QED BY <2>1, <2>2, <2>7, <3>1, <3>2 DEF One, V, U
  <2> QED BY <2>5, <2>6, <2>7
<1>9. c[w] = 0 /\ Tickets(p, c) /\ \A v \in Worker : c[v] # 0 => b[v] # 0
  BY <1>4 DEF Renumbered
<1> QED BY <1>6, <1>7, <1>8, <1>9 DEF e

-----------------------------------------------------------------------------
(* Counting the copies of the next state.                                  *)

AllCounts == Counts(queue) /\ Counts(processing) /\ Counts(dlq)

\* CopiesInv in the next state, for numbers c that are given in this one.
LEMMA CopiesNextIs ==
  ASSUME Counts(queue'), Counts(processing'), Counts(dlq'), ~redisUp' => outages' > 0,
         NEW c \in [Worker -> Nat],
         \A w \in Worker : c[w] # 0 =>
           step'[w] \in InFlight /\ c[w] <= Occ(processing', hand'[w]),
         \A v, w \in Worker :
           v # w /\ hand'[v] = hand'[w] /\ c[v] # 0 => c[v] # c[w],
         \A m \in Msg :
           /\ Total(m, c)' <= published'[m] + stolen'[m]
           /\ stops' = 0 /\ outages' = 0 =>
                sends'[m] + Total(m, c)'
                  <= published'[m] + stolen'[m] + Cardinality(DeliveredBy(m)'),
         \A w \in Worker : step'[w] \in InFlight =>
           \/ c[w] # 0
           \/ stolen'[hand'[w].msg] > 0
           \/ outages' > 0 /\ (step'[w] = "failing" \/ published'[hand'[w].msg] > 1)
  PROVE  CopiesInv'
<1>1. Backing(c)' BY DEF Backing, Occ
<1>2. Counted(c)' BY DEF Counted
<1>3. Explained(c)' BY DEF Explained
<1>4. Counts(queue)' /\ Counts(processing)' /\ Counts(dlq)' BY DEF Counts, Copies, Occ
<1> QED BY <1>1, <1>2, <1>3, <1>4 DEF CopiesInv

LEMMA StoredNext ==
  ASSUME NEW m
  PROVE  Stored(m)' = Num(queue', m) + Num(processing', m) + Num(dlq', m)
                        + One(m \in PoppedPayloads')
BY DEF Stored, Num, Copies, Occ, One

LEMMA StoredNextType ==
  ASSUME Counts(queue'), Counts(processing'), Counts(dlq'), NEW m \in Msg
  PROVE  Stored(m)' \in Nat
<1>1. Num(queue', m) \in Nat /\ Num(processing', m) \in Nat /\ Num(dlq', m) \in Nat
  BY NumType
<1>2. One(m \in PoppedPayloads') \in Nat BY DEF One
<1> QED BY <1>1, <1>2, StoredNext

LEMMA TotalNext ==
  ASSUME NEW m, NEW c
  PROVE  Total(m, c)' = Stored(m)' + Cardinality(Unbacked(m, c)')
BY DEF Total

\* The holders of m, one worker w singled out.
LEMMA AllButOne ==
  ASSUME NEW w \in Worker, NEW m, NEW b
  PROVE  Cardinality(Unbacked(m, b)) = Cardinality(Rest(m, w, b))
           + One(step[w] \in Holding /\ hand[w].msg = m /\ b[w] = 0)
<1>1. /\ IsFiniteSet(Rest(m, w, b)) /\ Cardinality(Rest(m, w, b)) \in Nat
  <2>1. Rest(m, w, b) \in SUBSET Worker BY DEF Rest, Holders
  <2> QED BY <2>1, WorkersFinite
<1>2. w \notin Rest(m, w, b) BY DEF Rest
<1>3. CASE step[w] \in Holding /\ hand[w].msg = m /\ b[w] = 0
  <2>1. Unbacked(m, b) = Rest(m, w, b) \cup {w} BY <1>3 DEF Rest, Holders, Unbacked
  <2> QED BY <1>1, <1>2, <1>3, <2>1, FS_AddElement DEF One
<1>4. CASE ~ (step[w] \in Holding /\ hand[w].msg = m /\ b[w] = 0)
  <2>1. Unbacked(m, b) = Rest(m, w, b) BY <1>4 DEF Rest, Holders, Unbacked
  <2> QED BY <1>1, <1>4, <2>1 DEF One
<1> QED BY <1>3, <1>4

LEMMA AfterMove ==
  ASSUME TypeOK, NEW w \in Worker, NEW s, Goto(w, s), NEW j,
         hand' = [hand EXCEPT ![w] = j] \/ UNCHANGED hand, NEW m
  PROVE  /\ \A v \in Worker \ {w} : step'[v] = step[v] /\ hand'[v] = hand[v]
         /\ step'[w] = s
         /\ Cardinality(DeliveredBy(m)') + One(step[w] = "delivered" /\ hand[w].msg = m)
              = Cardinality(DeliveredBy(m)) + One(s = "delivered" /\ hand'[w].msg = m)
<1>1. /\ \A v \in Worker \ {w} : step'[v] = step[v] /\ hand'[v] = hand[v]
      /\ step'[w] = s
  BY OtherHands
<1>2. Cardinality(DeliveredBy(m)') + One(step[w] = "delivered" /\ hand[w].msg = m)
        = Cardinality(DeliveredBy(m)) + One(s = "delivered" /\ hand'[w].msg = m)
  <2> DEFINE A == DeliveredBy(m)
             B == DeliveredBy(m)'
             p == step[w] = "delivered" /\ hand[w].msg = m
             q == s = "delivered" /\ hand'[w].msg = m
             R == A \ {w}
  <2>1. A \in SUBSET Worker /\ R \in SUBSET Worker BY DEF DeliveredBy
  <2>2. IsFiniteSet(R) /\ Cardinality(R) \in Nat /\ w \notin R BY <2>1, WorkersFinite
  <2>3. /\ \A v : v \in A <=> v \in R \/ (v = w /\ p)
        /\ \A v : v \in B <=> v \in R \/ (v = w /\ q)
    BY <1>1 DEF DeliveredBy
  <2> HIDE DEF A, B, p, q, R
  <2>4. Cardinality(A) = Cardinality(R) + One(p)
    <3>1. CASE p
      <4>1. A = R \cup {w} BY <2>3, <3>1
      <4> QED BY <2>2, <3>1, <4>1, FS_AddElement DEF One
    <3>2. CASE ~p
      <4>1. A = R BY <2>3, <3>2
      <4> QED BY <2>2, <3>2, <4>1 DEF One
    <3> QED BY <3>1, <3>2
  <2>5. Cardinality(B) = Cardinality(R) + One(q)
    <3>1. CASE q
      <4>1. B = R \cup {w} BY <2>3, <3>1
      <4> QED BY <2>2, <3>1, <4>1, FS_AddElement DEF One
    <3>2. CASE ~q
      <4>1. B = R BY <2>3, <3>2
      <4> QED BY <2>2, <3>2, <4>1 DEF One
    <3> QED BY <3>1, <3>2
  <2>6. One(p) \in Nat /\ One(q) \in Nat BY DEF One
  <2>7. Cardinality(B) + One(p) = Cardinality(A) + One(q) BY <2>2, <2>4, <2>5, <2>6
  <2> QED BY <2>7 DEF A, B, p, q
<1> QED BY <1>1, <1>2

LEMMA UnbackedAfterMove ==
  ASSUME TypeOK, NEW w \in Worker, NEW s, Goto(w, s), NEW j,
         hand' = [hand EXCEPT ![w] = j] \/ UNCHANGED hand, NEW m, NEW c
  PROVE  Cardinality(Unbacked(m, c)') = Cardinality(Rest(m, w, c))
           + One(s \in Holding /\ hand'[w].msg = m /\ c[w] = 0)
<1> DEFINE R == Rest(m, w, c)
           U == Unbacked(m, c)'
           p == s \in Holding /\ hand'[w].msg = m /\ c[w] = 0
<1>1. R \in SUBSET Worker BY DEF Rest, Holders
<1>2. IsFiniteSet(R) /\ Cardinality(R) \in Nat BY <1>1, WorkersFinite
<1>3. w \notin R BY DEF Rest
<1>4. \A v : v \in U <=> v \in R \/ (v = w /\ p)
  BY AfterMove DEF Rest, Holders, Unbacked
<1> HIDE DEF R, U, p
<1>5. CASE p
  <2>1. U = R \cup {w} BY <1>4, <1>5
  <2> QED BY <1>2, <1>3, <1>5, <2>1, FS_AddElement DEF One, p, R, U
<1>6. CASE ~p
  <2>1. U = R BY <1>4, <1>6
  <2> QED BY <1>2, <1>6, <2>1 DEF One, p, R, U
<1> QED BY <1>5, <1>6

-----------------------------------------------------------------------------
(* Obligations of a step of one worker, and of one that moves list entries. *)

\* What CopiesInv says of one numbering.
Numbering(b) == b \in [Worker -> Nat] /\ Backing(b) /\ Counted(b) /\ Explained(b)

\* Faults are counted, and an outage is one.
FaultsGrow ==
  /\ ~redisUp' => outages' > 0
  /\ outages' >= outages /\ stops' >= stops

\* The numbers c fit the entries and hands of the next state.
Fits(c) ==
  /\ \A w \in Worker : c[w] # 0 => c[w] <= Occ(processing', hand'[w])
  /\ \A v, w \in Worker : v # w /\ hand'[v] = hand'[w] /\ c[v] # 0 => c[v] # c[w]

\* Worker w goes to step s.  No copy comes into being: what it holds then without
\* an entry, the others hold without one, and the lists have, was there before.
NoneAppears(w, s, b, c) == \A m \in Msg :
  LET kept == Stored(m)' + Cardinality(Rest(m, w, c))
                + One(s \in Holding /\ hand'[w].msg = m /\ c[w] = 0)
  IN /\ kept <= Total(m, b)
     /\ stops' = 0 /\ outages' = 0 =>
          sends'[m] + kept + One(step[w] = "delivered" /\ hand[w].msg = m)
            <= sends[m] + Total(m, b) + One(s = "delivered" /\ hand'[w].msg = m)

\* Why w has no entry for its job in step s, if it has none.
Excused(w, s, c) == s \in InFlight =>
  \/ c[w] # 0
  \/ stolen'[hand'[w].msg] > 0
  \/ outages' > 0 /\ (s = "failing" \/ published'[hand'[w].msg] > 1)

LEMMA NatHistory ==
  ASSUME TypeOK, TypeOK'
  PROVE  \A m \in Msg :
           /\ published[m] \in Nat /\ stolen[m] \in Nat /\ sends[m] \in Nat
           /\ published'[m] \in Nat /\ stolen'[m] \in Nat /\ sends'[m] \in Nat
<1>1. /\ published \in [Msg -> Nat] /\ stolen \in [Msg -> Nat] /\ sends \in [Msg -> 0..2]
      /\ published' \in [Msg -> Nat] /\ stolen' \in [Msg -> Nat] /\ sends' \in [Msg -> 0..2]
  BY DEF TypeOK
<1> QED BY <1>1

LEMMA WorkerStep ==
  ASSUME TypeOK, TypeOK', AllCounts, Counts(queue'), Counts(processing'), Counts(dlq'),
         FaultsGrow, UNCHANGED <<published, stolen>>,
         NEW b, Numbering(b), NEW c \in [Worker -> Nat], Fits(c),
         NEW w \in Worker, NEW s, Goto(w, s),
         NEW j, hand' = [hand EXCEPT ![w] = j] \/ UNCHANGED hand,
         \A v \in Worker \ {w} : c[v] # 0 => b[v] # 0,
         \A v \in Worker \ {w} : c[v] = 0 /\ b[v] # 0 => Loose(hand[v].msg),
         c[w] # 0 => s \in InFlight,
         Excused(w, s, c), NoneAppears(w, s, b, c)
  PROVE  CopiesInv'
<1>1. /\ \A v \in Worker \ {w} : step'[v] = step[v] /\ hand'[v] = hand[v]
      /\ step'[w] = s
  BY AfterMove
<1>2. ASSUME NEW v \in Worker, c[v] # 0
      PROVE  step'[v] \in InFlight /\ c[v] <= Occ(processing', hand'[v])
  <2>1. c[v] <= Occ(processing', hand'[v]) BY <1>2 DEF Fits
  <2>2. CASE v = w BY <1>1, <1>2, <2>1, <2>2
  <2>3. CASE v # w BY <1>1, <1>2, <2>1, <2>3 DEF Numbering, Backing
  <2> QED BY <2>2, <2>3
<1>3. ASSUME NEW v \in Worker, step'[v] \in InFlight
      PROVE  \/ c[v] # 0
             \/ stolen'[hand'[v].msg] > 0
             \/ outages' > 0 /\ (step'[v] = "failing" \/ published'[hand'[v].msg] > 1)
  <2>1. CASE v = w BY <1>1, <1>3, <2>1 DEF Excused
  <2>2. CASE v # w /\ c[v] = 0
    <3>1. step[v] \in InFlight /\ hand'[v] = hand[v] /\ step'[v] = step[v]
      BY <1>1, <1>3, <2>2
    <3>2. \/ stolen[hand[v].msg] > 0
          \/ outages > 0 /\ (step[v] = "failing" \/ published[hand[v].msg] > 1)
      BY <2>2, <3>1 DEF Numbering, Explained, Loose
    <3>3. outages > 0 => outages' > 0 BY DEF FaultsGrow, TypeOK
    <3> QED BY <3>1, <3>2, <3>3
  <2> QED BY <2>1, <2>2
<1>4. ASSUME NEW m \in Msg
      PROVE  /\ Total(m, c)' <= published'[m] + stolen'[m]
             /\ stops' = 0 /\ outages' = 0 =>
                  sends'[m] + Total(m, c)'
                    <= published'[m] + stolen'[m] + Cardinality(DeliveredBy(m)')
  <2> DEFINE T == Total(m, b)
             L == Stored(m)'
             R == Cardinality(Rest(m, w, c))
             o == One(s \in Holding /\ hand'[w].msg = m /\ c[w] = 0)
             d == One(step[w] = "delivered" /\ hand[w].msg = m)
             e == One(s = "delivered" /\ hand'[w].msg = m)
             D == Cardinality(DeliveredBy(m))
             E == Cardinality(DeliveredBy(m)')
             U == Total(m, c)'
  <2>1. U = L + R + o
    <3>1. Cardinality(Unbacked(m, c)') = R + o BY UnbackedAfterMove
    <3>2. U = L + Cardinality(Unbacked(m, c)') BY TotalNext
    <3>3. L \in Nat BY StoredNextType
    <3>4. R \in Nat
      <4>1. Rest(m, w, c) \in SUBSET Worker BY DEF Rest, Holders
      <4> QED BY <4>1, WorkersFinite
    <3>5. o \in Nat BY DEF One
    <3> HIDE DEF L, R, o, U
    <3> QED BY <3>1, <3>2, <3>3, <3>4, <3>5
  <2>2. E + d = D + e BY AfterMove
  <2>3. /\ L + R + o <= T
        /\ stops' = 0 /\ outages' = 0 => sends'[m] + (L + R + o) + d <= sends[m] + T + e
    BY DEF NoneAppears
  <2>4. /\ T <= published[m] + stolen[m]
        /\ stops = 0 /\ outages = 0 => sends[m] + T <= published[m] + stolen[m] + D
    BY DEF Numbering, Counted
  <2>5. stops' = 0 /\ outages' = 0 => stops = 0 /\ outages = 0
    BY DEF FaultsGrow, TypeOK
  <2>6. /\ published[m] \in Nat /\ stolen[m] \in Nat /\ sends[m] \in Nat /\ sends'[m] \in Nat
        /\ published' = published /\ stolen' = stolen
    BY NatHistory
  <2>7. T \in Nat /\ D \in Nat /\ d \in Nat /\ e \in Nat
    BY TotalType, WorkersFinite DEF AllCounts, One
  <2>8. E \in Int
    <3>1. DeliveredBy(m)' \in SUBSET Worker BY DEF DeliveredBy
    <3> QED BY <3>1, WorkersFinite
  <2>9. U \in Int
    <3>1. Stored(m)' \in Nat BY StoredNextType
    <3>2. Unbacked(m, c)' \in SUBSET Worker BY DEF Unbacked, Holders
    <3>3. Cardinality(Unbacked(m, c)') \in Nat BY <3>2, WorkersFinite
    <3> QED BY <3>1, <3>3, TotalNext
  <2> HIDE DEF T, L, R, o, d, e, D, E, U
  <2>10. U <= T /\ (stops' = 0 /\ outages' = 0 => sends'[m] + U + d <= sends[m] + T + e)
    BY <2>1, <2>3
  <2>11. U <= published'[m] + stolen'[m] BY <2>4, <2>6, <2>7, <2>9, <2>10
  <2>12. ASSUME stops' = 0, outages' = 0 PROVE sends'[m] + U <= published'[m] + stolen'[m] + E
    <3>1. sends'[m] + U + d <= sends[m] + T + e BY <2>10, <2>12
    <3>2. sends[m] + T <= published[m] + stolen[m] + D BY <2>4, <2>5, <2>12
    <3> QED BY <2>2, <2>6, <2>7, <2>8, <2>9, <3>1, <3>2
  <2> QED BY <2>11, <2>12 DEF U, E
<1>5. \A u, v \in Worker : u # v /\ hand'[u] = hand'[v] /\ c[u] # 0 => c[u] # c[v]
  BY DEF Fits
<1>6. ~redisUp' => outages' > 0 BY DEF FaultsGrow
<1> QED BY <1>2, <1>3, <1>4, <1>5, <1>6, CopiesNextIs

\* The services, the script, Redis, and a recovery: the workers stay where they are.
LEMMA ListStep ==
  ASSUME TypeOK, TypeOK', AllCounts, Counts(queue'), Counts(processing'), Counts(dlq'),
         FaultsGrow, UNCHANGED <<step, hand, sends>>,
         NEW b, Numbering(b), NEW c \in [Worker -> Nat], Fits(c),
         \A m \in Msg : published'[m] >= published[m] /\ stolen'[m] >= stolen[m],
         \A v \in Worker : c[v] # 0 => b[v] # 0,
         \A v \in Worker : c[v] = 0 /\ b[v] # 0 => stolen'[hand[v].msg] > 0,
         \A m \in Msg : Stored(m)' + Cardinality(Unbacked(m, c)) + published[m] + stolen[m]
                          <= Total(m, b) + published'[m] + stolen'[m]
  PROVE  CopiesInv'
<1>1. \A m : Unbacked(m, c)' = Unbacked(m, c) /\ DeliveredBy(m)' = DeliveredBy(m)
  BY DEF Unbacked, Holders, DeliveredBy
<1>2. ASSUME NEW v \in Worker, c[v] # 0
      PROVE  step'[v] \in InFlight /\ c[v] <= Occ(processing', hand'[v])
  BY <1>2 DEF Numbering, Backing, Fits
<1>3. ASSUME NEW v \in Worker, step'[v] \in InFlight
      PROVE  \/ c[v] # 0
             \/ stolen'[hand'[v].msg] > 0
             \/ outages' > 0 /\ (step'[v] = "failing" \/ published'[hand'[v].msg] > 1)
  <2>1. CASE b[v] # 0 BY <2>1
  <2>2. CASE b[v] = 0
    <3>1. hand[v].msg \in Msg BY <1>3, HeldJob DEF InFlight, Holding
    <3> DEFINE m == hand[v].msg
    <3>2. stolen[m] > 0 \/ (outages > 0 /\ (step[v] = "failing" \/ published[m] > 1))
      BY <1>3, <2>2 DEF Numbering, Explained
    <3>3. outages' >= outages /\ outages \in Nat /\ outages' \in Nat BY DEF FaultsGrow, TypeOK
    <3>4. /\ published'[m] >= published[m] /\ stolen'[m] >= stolen[m]
          /\ published[m] \in Nat /\ stolen[m] \in Nat /\ published'[m] \in Nat /\ stolen'[m] \in Nat
      BY <3>1 DEF TypeOK
    <3>5. hand'[v] = hand[v] /\ step'[v] = step[v] OBVIOUS
    <3> HIDE DEF m
    <3>6. stolen'[m] > 0 \/ (outages' > 0 /\ (step[v] = "failing" \/ published'[m] > 1))
      BY <3>2, <3>3, <3>4
    <3> QED BY <3>5, <3>6 DEF m
  <2> QED BY <2>1, <2>2
<1>4. ASSUME NEW m \in Msg
      PROVE  /\ Total(m, c)' <= published'[m] + stolen'[m]
             /\ stops' = 0 /\ outages' = 0 =>
                  sends'[m] + Total(m, c)'
                    <= published'[m] + stolen'[m] + Cardinality(DeliveredBy(m)')
  <2> DEFINE T == Total(m, b)
             L == Stored(m)'
             R == Cardinality(Unbacked(m, c))
             D == Cardinality(DeliveredBy(m))
             U == Total(m, c)'
  <2>1. U = L + R BY <1>1, TotalNext
  <2>2. L + R + published[m] + stolen[m] <= T + published'[m] + stolen'[m] OBVIOUS
  <2>3. L \in Nat BY StoredNextType
  <2>4. /\ T <= published[m] + stolen[m]
        /\ stops = 0 /\ outages = 0 => sends[m] + T <= published[m] + stolen[m] + D
    BY DEF Numbering, Counted
  <2>5. stops' = 0 /\ outages' = 0 => stops = 0 /\ outages = 0
    BY DEF FaultsGrow, TypeOK
  <2>6. /\ published[m] \in Nat /\ stolen[m] \in Nat /\ sends[m] \in Nat
        /\ published'[m] \in Nat /\ stolen'[m] \in Nat /\ sends' = sends
    BY NatHistory
  <2>7. T \in Nat /\ D \in Nat /\ R \in Nat BY TotalType, WorkersFinite DEF AllCounts
  <2>8. Cardinality(DeliveredBy(m)') = D BY <1>1
  <2> HIDE DEF T, L, R, D, U
  <2>9. U <= published'[m] + stolen'[m] BY <2>1, <2>2, <2>3, <2>4, <2>6, <2>7
  <2>10. ASSUME stops' = 0, outages' = 0 PROVE sends'[m] + U <= published'[m] + stolen'[m] + D
    <3>1. sends[m] + T <= published[m] + stolen[m] + D BY <2>4, <2>5, <2>10
    <3> QED BY <2>1, <2>2, <2>3, <2>6, <2>7, <3>1
  <2> QED BY <2>8, <2>9, <2>10 DEF U
<1>5. \A u, v \in Worker : u # v /\ hand'[u] = hand'[v] /\ c[u] # 0 => c[u] # c[v]
  BY DEF Fits
<1>6. ~redisUp' => outages' > 0 BY DEF FaultsGrow
<1> QED BY <1>2, <1>3, <1>4, <1>5, <1>6, CopiesNextIs

-----------------------------------------------------------------------------
(* Steps that keep the hands, and those that put the job down.             *)

LEMMA RestSame ==
  ASSUME NEW w, NEW m, NEW b, NEW c, \A v \in Worker \ {w} : c[v] = b[v]
  PROVE  Rest(m, w, c) = Rest(m, w, b)
BY DEF Rest, Holders

LEMMA RestType ==
  ASSUME NEW w, NEW m, NEW c PROVE Cardinality(Rest(m, w, c)) \in Nat
<1>1. Rest(m, w, c) \in SUBSET Worker BY DEF Rest, Holders
<1> QED BY <1>1, WorkersFinite

LEMMA StoredSame ==
  ASSUME UNCHANGED <<queue, processing, dlq, popped>>, NEW m
  PROVE  Stored(m)' = Stored(m)
BY DEF Stored, Num, Copies, Occ, One, PoppedPayloads

\* A worker goes on with the job it holds, or without one.
LEMMA SameHandStep ==
  ASSUME TypeOK, TypeOK', AllCounts, FaultsGrow, NEW b, Numbering(b),
         NEW w \in Worker, NEW s, Goto(w, s),
         UNCHANGED <<hand, queue, processing, dlq, popped, published, stolen>>,
         s \in Holding <=> step[w] \in Holding, s \in InFlight <=> step[w] \in InFlight,
         step[w] = "failing" => s = "failing",
         \A m \in Msg : stops' = 0 /\ outages' = 0 =>
           sends'[m] + One(step[w] = "delivered" /\ hand[w].msg = m)
             <= sends[m] + One(s = "delivered" /\ hand[w].msg = m)
  PROVE  CopiesInv'
<1>1. Counts(queue') /\ Counts(processing') /\ Counts(dlq') BY DEF AllCounts
<1>2. b \in [Worker -> Nat] /\ Backing(b) /\ Explained(b) BY DEF Numbering
<1>3. Fits(b) BY <1>2 DEF Fits, Backing
<1>4. b[w] # 0 => s \in InFlight BY <1>2 DEF Backing
<1>5. Excused(w, s, b)
  <2>1. outages > 0 => outages' > 0 BY DEF FaultsGrow, TypeOK
  <2>2. hand'[w] = hand[w] OBVIOUS
  <2> QED BY <1>2, <2>1, <2>2 DEF Excused, Explained
<1>6. ASSUME NEW m \in Msg
      PROVE  LET kept == Stored(m)' + Cardinality(Rest(m, w, b))
                           + One(s \in Holding /\ hand'[w].msg = m /\ b[w] = 0)
             IN /\ kept <= Total(m, b)
                /\ stops' = 0 /\ outages' = 0 =>
                     sends'[m] + kept + One(step[w] = "delivered" /\ hand[w].msg = m)
                       <= sends[m] + Total(m, b) + One(s = "delivered" /\ hand'[w].msg = m)
  <2> DEFINE L == Stored(m)'
             R == Cardinality(Rest(m, w, b))
             o == One(s \in Holding /\ hand'[w].msg = m /\ b[w] = 0)
             d == One(step[w] = "delivered" /\ hand[w].msg = m)
             e == One(s = "delivered" /\ hand'[w].msg = m)
             T == Total(m, b)
  <2>1. T = L + (R + o)
    <3>1. o = One(step[w] \in Holding /\ hand[w].msg = m /\ b[w] = 0) BY DEF One
    <3>2. Cardinality(Unbacked(m, b)) = R + o BY <3>1, AllButOne
    <3>3. L = Stored(m) BY StoredSame
    <3> QED BY <3>2, <3>3 DEF Total
  <2>2. /\ e = One(s = "delivered" /\ hand[w].msg = m) /\ d \in Nat /\ e \in Nat /\ o \in Nat
        /\ R \in Nat /\ L \in Nat
    BY <1>1, RestType, StoredNextType DEF One
  <2>3. stops' = 0 /\ outages' = 0 => sends'[m] + d <= sends[m] + e BY <2>2
  <2>4. sends[m] \in Nat /\ sends'[m] \in Nat BY NatHistory
  <2> HIDE DEF L, R, o, d, e, T
  <2>5. L + R + o = T BY <2>1, <2>2
  <2>6. T \in Nat BY <2>1, <2>2
  <2>7. stops' = 0 /\ outages' = 0 => sends'[m] + (L + R + o) + d <= sends[m] + T + e
    BY <2>2, <2>3, <2>4, <2>5, <2>6
  <2> QED BY <2>5, <2>6, <2>7 DEF L, R, o, d, e, T
<1>7. NoneAppears(w, s, b, b) BY <1>6 DEF NoneAppears
<1>8. \A v \in Worker : b[v] = 0 /\ b[v] # 0 => Loose(hand[v].msg) OBVIOUS
<1> QED BY <1>1, <1>2, <1>3, <1>4, <1>5, <1>7, <1>8, WorkerStep

\* A worker puts its job down: its entry stays, or the job goes to another list.
LEMMA PutDownStep ==
  ASSUME TypeOK, TypeOK', AllCounts, FaultsGrow, NEW b, Numbering(b),
         NEW w \in Worker, NEW s \in {"idle", "stopped"}, PutDown(w, s),
         UNCHANGED <<processing, popped, published, stolen, sends>>,
         Counts(queue'), Counts(dlq'),
         \A m \in Msg : Num(queue', m) + Num(dlq', m)
           <= Num(queue, m) + Num(dlq, m) + One(step[w] = "repush" /\ hand[w].msg = m),
         step[w] = "delivered" => stops' > 0 \/ outages' > 0
  PROVE  CopiesInv'
<1> DEFINE c == [b EXCEPT ![w] = 0]
<1>1. Counts(processing') BY DEF AllCounts
<1>2. b \in [Worker -> Nat] /\ Backing(b) BY DEF Numbering
<1>3. c \in [Worker -> Nat] /\ c[w] = 0 /\ \A v \in Worker \ {w} : c[v] = b[v] BY <1>2
<1>m. /\ Goto(w, s) /\ hand' = [hand EXCEPT ![w] = None]
      /\ s \notin InFlight /\ s \notin Holding /\ s # "delivered"
  BY DEF PutDown, InFlight, Holding
<1>4. /\ \A v \in Worker \ {w} : hand'[v] = hand[v]
  BY <1>m DEF TypeOK
<1> HIDE DEF c
<1>5. Fits(c) BY <1>2, <1>3, <1>4 DEF Fits, Backing
<1>6. Excused(w, s, c) BY <1>m DEF Excused
<1>7. ASSUME NEW m \in Msg
      PROVE  LET kept == Stored(m)' + Cardinality(Rest(m, w, c))
                           + One(s \in Holding /\ hand'[w].msg = m /\ c[w] = 0)
             IN /\ kept <= Total(m, b)
                /\ stops' = 0 /\ outages' = 0 =>
                     sends'[m] + kept + One(step[w] = "delivered" /\ hand[w].msg = m)
                       <= sends[m] + Total(m, b) + One(s = "delivered" /\ hand'[w].msg = m)
  <2> DEFINE L == Stored(m)'
             R == Cardinality(Rest(m, w, c))
             o == One(s \in Holding /\ hand'[w].msg = m /\ c[w] = 0)
             d == One(step[w] = "delivered" /\ hand[w].msg = m)
             e == One(s = "delivered" /\ hand'[w].msg = m)
             r == One(step[w] = "repush" /\ hand[w].msg = m)
             u == One(step[w] \in Holding /\ hand[w].msg = m /\ b[w] = 0)
             T == Total(m, b)
  <2>1. o = 0 /\ e = 0 /\ (stops' = 0 /\ outages' = 0 => d = 0) BY <1>m DEF One
  <2>2. r <= u /\ r \in Nat /\ u \in Nat
    BY <1>2 DEF One, Backing, InFlight, Holding
  <2>3. T = Stored(m) + (R + u)
    <3>1. Cardinality(Unbacked(m, b)) = Cardinality(Rest(m, w, b)) + u BY AllButOne
    <3>2. Rest(m, w, c) = Rest(m, w, b) BY <1>3, RestSame
    <3> QED BY <3>1, <3>2 DEF Total
  <2>4. R \in Nat BY RestType
  <2>5. L <= Stored(m) + r /\ L \in Nat /\ Stored(m) \in Nat
    <3>1. /\ Num(queue', m) \in Nat /\ Num(dlq', m) \in Nat /\ Num(processing', m) \in Nat
      BY <1>1, NumType
    <3>2. Num(queue, m) \in Nat /\ Num(dlq, m) \in Nat /\ Num(processing, m) \in Nat
      BY NumType DEF AllCounts
    <3>3. Num(processing', m) = Num(processing, m) OBVIOUS
    <3>4. One(m \in PoppedPayloads') = One(m \in PoppedPayloads) BY DEF PoppedPayloads
    <3>5. One(m \in PoppedPayloads) \in Nat BY DEF One
    <3>6. L = Num(queue', m) + Num(processing', m) + Num(dlq', m) + One(m \in PoppedPayloads')
      BY StoredNext
    <3>7. Stored(m) = Num(queue, m) + Num(processing, m) + Num(dlq, m) + One(m \in PoppedPayloads)
      BY DEF Stored
    <3>8. Num(queue', m) + Num(dlq', m) <= Num(queue, m) + Num(dlq, m) + r OBVIOUS
    <3> HIDE DEF L, r
    <3> QED BY <2>2, <3>1, <3>2, <3>3, <3>4, <3>5, <3>6, <3>7, <3>8
  <2>6. sends[m] \in Nat /\ sends'[m] = sends[m] BY NatHistory
  <2> HIDE DEF L, R, o, d, e, T, u, r
  <2>7. L + R + o <= T BY <2>1, <2>2, <2>3, <2>4, <2>5
  <2>8. T \in Nat BY <2>2, <2>3, <2>4, <2>5
  <2>9. stops' = 0 /\ outages' = 0 => sends'[m] + (L + R + o) + d <= sends[m] + T + e
    BY <2>1, <2>4, <2>5, <2>6, <2>7, <2>8
  <2> QED BY <2>7, <2>9 DEF L, R, o, d, e, T
<1>8. NoneAppears(w, s, b, c) BY <1>7 DEF NoneAppears
<1>9. /\ \A v \in Worker \ {w} : c[v] # 0 => b[v] # 0
      /\ \A v \in Worker \ {w} : c[v] = 0 /\ b[v] # 0 => Loose(hand[v].msg)
      /\ c[w] # 0 => s \in InFlight
      /\ UNCHANGED <<published, stolen>>
  BY <1>3
<1> QED BY <1>1, <1>3, <1>m, <1>5, <1>6, <1>8, <1>9, WorkerStep

-----------------------------------------------------------------------------
(* Taking a job, and giving up its entry.                                  *)

\* BRPOPLPUSH: the entry that arrives in `processing` stands behind its taker.
LEMMA TakeStep ==
  ASSUME TypeOK, TypeOK', AllCounts, FaultsGrow, NEW b, Numbering(b),
         NEW w \in Worker, Dequeue(w)
  PROVE  CopiesInv'
<1> DEFINE e == Last(queue)
           n == Occ(processing', e)
<1>1. /\ queue # <<>> /\ queue' = Front(queue) /\ processing' = Cons(e, processing)
      /\ Goto(w, "delivering") /\ hand' = [hand EXCEPT ![w] = e] /\ step[w] = "idle"
      /\ UNCHANGED <<dlq, popped, published, stolen, sends>>
  BY DEF Dequeue, TakeTail, historyVars, scriptVars
<1>2. e \in Job /\ queue' \in Seq(Job) /\ processing' \in Seq(Job)
      /\ queue \in Seq(Job) /\ processing \in Seq(Job)
  BY <1>1, PopTail DEF TypeOK
<1>3. OneMoreOf(queue, queue', e) BY <1>1, <1>2, OccOfPopTail
<1>4. OneMoreOf(processing', processing, e) BY <1>1, <1>2, OccOfPushHead
<1> HIDE DEF e, n
<1>5. PICK k \in Nat : k = n BY <1>2, OccType DEF n
<1>6. PICK f \in [Worker -> Nat] : f = [b EXCEPT ![w] = k]
  BY DEF Numbering
<1>b. b \in [Worker -> Nat] /\ Backing(b) BY DEF Numbering
<1>7. f[w] = k /\ b[w] = 0 /\ \A v \in Worker \ {w} : f[v] = b[v]
  BY <1>1, <1>6, <1>b DEF Backing, InFlight
<1>8. k # 0 /\ k = Occ(processing, e) + 1 /\ Occ(processing, e) \in Nat
      /\ \A j : Occ(processing', j) >= Occ(processing, j) /\ Occ(processing', j) \in Nat
                /\ Occ(processing, j) \in Nat
  <2>1. \A j : Occ(processing', j) \in Nat /\ Occ(processing, j) \in Nat
    BY <1>2, OccType
  <2>2. \A j : Occ(processing', j) =
          IF j = e THEN Occ(processing, j) + 1 ELSE Occ(processing, j)
    BY <1>4 DEF OneMoreOf
  <2> QED BY <1>5, <2>1, <2>2 DEF n
<1>9. \A v \in Worker \ {w} : hand'[v] = hand[v] BY <1>1 DEF TypeOK
<1>10. hand'[w] = e BY <1>1 DEF TypeOK
<1>11. Fits(f)
  <2>1. ASSUME NEW v \in Worker, f[v] # 0 PROVE f[v] <= Occ(processing', hand'[v])
    <3>1. CASE v = w
      <4>1. f[v] = k /\ hand'[v] = e BY <1>7, <1>10, <3>1
      <4>2. Occ(processing', e) = k BY <1>5 DEF n
      <4> QED BY <4>1, <4>2
    <3>2. CASE v # w
      <4>1. b[v] # 0 /\ f[v] = b[v] /\ hand'[v] = hand[v] BY <1>7, <1>9, <2>1, <3>2
      <4>2. b[v] <= Occ(processing, hand[v]) /\ b[v] \in Nat BY <1>b, <4>1 DEF Backing
      <4> QED BY <1>8, <4>1, <4>2
    <3> QED BY <3>1, <3>2
  <2>2. ASSUME NEW v \in Worker \ {w}, hand[v] = e PROVE b[v] # k
    <3>1. b[v] # 0 => b[v] <= Occ(processing, e) BY <1>b, <2>2 DEF Backing
    <3>2. b[v] \in Nat BY <1>b
    <3> QED BY <1>8, <3>1, <3>2
  <2>3. ASSUME NEW u \in Worker, NEW v \in Worker, u # v, hand'[u] = hand'[v], f[u] # 0
        PROVE  f[u] # f[v]
    <3>1. CASE u = w BY <1>7, <1>9, <1>10, <2>2, <2>3, <3>1
    <3>2. CASE v = w BY <1>7, <1>9, <1>10, <2>2, <2>3, <3>2
    <3>3. CASE u # w /\ v # w
      <4>1. f[u] = b[u] /\ f[v] = b[v] /\ hand[u] = hand[v] BY <1>7, <1>9, <2>3, <3>3
      <4> QED BY <1>b, <2>3, <4>1 DEF Backing
    <3> QED BY <3>1, <3>2, <3>3
  <2> QED BY <2>1, <2>3 DEF Fits
<1>12. /\ Counts(queue') /\ Counts(processing') /\ Counts(dlq')
       /\ \A m \in Msg :
            /\ Num(queue, m) \in Nat /\ Num(queue', m) \in Nat
            /\ Num(queue, m) = Num(queue', m) + One(e.msg = m)
            /\ Num(processing, m) \in Nat /\ Num(processing', m) \in Nat
            /\ Num(processing', m) = Num(processing, m) + One(e.msg = m)
  <2>1. Counts(queue) /\ Counts(processing) /\ Counts(dlq') BY <1>1 DEF AllCounts
  <2>2. /\ Counts(queue')
        /\ \A m \in Msg : /\ Num(queue, m) \in Nat /\ Num(queue', m) \in Nat
                          /\ Num(queue, m) = Num(queue', m) + One(e.msg = m)
    BY <1>2, <1>3, <2>1, NumMoves
  <2>3. /\ Counts(processing')
        /\ \A m \in Msg : /\ Num(processing, m) \in Nat /\ Num(processing', m) \in Nat
                          /\ Num(processing', m) = Num(processing, m) + One(e.msg = m)
    BY <1>2, <1>4, <2>1, NumMoves
  <2> QED BY <2>1, <2>2, <2>3
<1>13. ASSUME NEW m \in Msg
       PROVE  LET kept == Stored(m)' + Cardinality(Rest(m, w, f))
                            + One("delivering" \in Holding /\ hand'[w].msg = m /\ f[w] = 0)
              IN /\ kept <= Total(m, b)
                 /\ stops' = 0 /\ outages' = 0 =>
                      sends'[m] + kept + One(step[w] = "delivered" /\ hand[w].msg = m)
                        <= sends[m] + Total(m, b)
                             + One("delivering" = "delivered" /\ hand'[w].msg = m)
  <2> DEFINE L == Stored(m)'
             R == Cardinality(Rest(m, w, f))
             o == One("delivering" \in Holding /\ hand'[w].msg = m /\ f[w] = 0)
             d == One(step[w] = "delivered" /\ hand[w].msg = m)
             i == One("delivering" = "delivered" /\ hand'[w].msg = m)
             T == Total(m, b)
  <2>1. o = 0 /\ d = 0 /\ i = 0 BY <1>1, <1>7, <1>8 DEF One
  <2>2. T = Stored(m) + R
    <3>1. One(step[w] \in Holding /\ hand[w].msg = m /\ b[w] = 0) = 0
      BY <1>1 DEF One, Holding
    <3>2. Cardinality(Unbacked(m, b)) = Cardinality(Rest(m, w, b)) + 0
      BY <3>1, AllButOne
    <3>3. Rest(m, w, f) = Rest(m, w, b) BY <1>7, RestSame
    <3> QED BY <3>2, <3>3, RestType DEF Total
  <2>3. L = Stored(m) /\ L \in Nat
    <3>1. One(m \in PoppedPayloads') = One(m \in PoppedPayloads) BY <1>1 DEF PoppedPayloads
    <3>2. L = Num(queue', m) + Num(processing', m) + Num(dlq', m) + One(m \in PoppedPayloads')
      BY StoredNext
    <3>3. Stored(m) = Num(queue, m) + Num(processing, m) + Num(dlq, m) + One(m \in PoppedPayloads)
      BY DEF Stored
    <3>4. One(e.msg = m) \in Nat /\ One(m \in PoppedPayloads) \in Nat BY DEF One
    <3>5. Num(dlq', m) = Num(dlq, m) /\ Num(dlq', m) \in Nat BY <1>1, <1>12, NumType
    <3> HIDE DEF L
    <3> QED BY <1>12, <3>1, <3>2, <3>3, <3>4, <3>5
  <2>4. R \in Nat BY RestType
  <2>5. sends'[m] = sends[m] /\ sends[m] \in Nat BY <1>1, NatHistory
  <2> HIDE DEF L, R, o, d, i, T
  <2>6. /\ L + R + o <= T
        /\ sends'[m] + (L + R + o) + d <= sends[m] + T + i
    BY <2>1, <2>2, <2>3, <2>4, <2>5
  <2> QED BY <2>6 DEF L, R, o, d, i, T
<1>14. NoneAppears(w, "delivering", b, f) BY <1>13 DEF NoneAppears
<1>15. /\ \A v \in Worker \ {w} : f[v] # 0 => b[v] # 0
       /\ \A v \in Worker \ {w} : f[v] = 0 /\ b[v] # 0 => Loose(hand[v].msg)
       /\ f[w] # 0 => "delivering" \in InFlight
       /\ Excused(w, "delivering", f)
       /\ UNCHANGED <<published, stolen>>
  BY <1>1, <1>7, <1>8 DEF InFlight, Excused
<1> QED BY <1>1, <1>11, <1>12, <1>14, <1>15, WorkerStep

\* LREM of the job in hand: it is settled (idle), counted for a retry (repush), or
\* held on to because the reply was lost (failing).
LEMMA ReleaseStep ==
  ASSUME TypeOK, TypeOK', AllCounts, FaultsGrow, NEW b, Numbering(b),
         NEW w \in Worker, step[w] \in InFlight,
         processing' = RemoveFirst(processing, hand[w]),
         UNCHANGED <<queue, dlq, popped, published, stolen, sends>>,
         NEW s \in {"idle", "repush", "failing"}, Goto(w, s),
         NEW j, hand' = [hand EXCEPT ![w] = j] \/ UNCHANGED hand,
         s # "idle" => hand'[w].msg = hand[w].msg,
         step[w] = "delivered" => s = "idle" \/ outages' > 0,
         s = "failing" => outages' > 0
  PROVE  CopiesInv'
<1>1. b \in [Worker -> Nat] /\ Backing(b) /\ Counted(b) /\ Explained(b) BY DEF Numbering
<1>2. /\ Counts(processing')
      /\ \E c \in [Worker -> Nat] :
              /\ c[w] = 0 /\ Tickets(processing', c)
              /\ \A v \in Worker : c[v] # 0 => b[v] # 0
              /\ \A v \in Worker \ {w} : c[v] = 0 /\ b[v] # 0 => Loose(hand[v].msg)
              /\ \A m \in Msg :
                   Num(processing', m) + Cardinality(Rest(m, w, c)) + One(hand[w].msg = m)
                     <= Num(processing, m) + Cardinality(Unbacked(m, b))
  BY <1>1, Release DEF AllCounts
<1>3. PICK c \in [Worker -> Nat] :
              /\ c[w] = 0 /\ Tickets(processing', c)
              /\ \A v \in Worker : c[v] # 0 => b[v] # 0
              /\ \A v \in Worker \ {w} : c[v] = 0 /\ b[v] # 0 => Loose(hand[v].msg)
              /\ \A m \in Msg :
                   Num(processing', m) + Cardinality(Rest(m, w, c)) + One(hand[w].msg = m)
                     <= Num(processing, m) + Cardinality(Unbacked(m, b))
  BY <1>2
<1>4. \A v \in Worker \ {w} : hand'[v] = hand[v] BY AfterMove
<1>5. Fits(c) BY <1>3, <1>4 DEF Fits, Tickets
<1>6. Excused(w, s, c) BY DEF Excused, InFlight
<1>7. Counts(queue') /\ Counts(processing') /\ Counts(dlq') BY <1>2 DEF AllCounts
<1>8. ASSUME NEW m \in Msg
      PROVE  LET kept == Stored(m)' + Cardinality(Rest(m, w, c))
                           + One(s \in Holding /\ hand'[w].msg = m /\ c[w] = 0)
             IN /\ kept <= Total(m, b)
                /\ stops' = 0 /\ outages' = 0 =>
                     sends'[m] + kept + One(step[w] = "delivered" /\ hand[w].msg = m)
                       <= sends[m] + Total(m, b) + One(s = "delivered" /\ hand'[w].msg = m)
  <2> DEFINE L == Stored(m)'
             R == Cardinality(Rest(m, w, c))
             o == One(s \in Holding /\ hand'[w].msg = m /\ c[w] = 0)
             d == One(step[w] = "delivered" /\ hand[w].msg = m)
             i == One(s = "delivered" /\ hand'[w].msg = m)
             h == One(hand[w].msg = m)
             T == Total(m, b)
             U == Cardinality(Unbacked(m, b))
             P == Num(processing, m)
             Q == Num(processing', m)
  <2>1. /\ o <= h /\ o \in Nat /\ d \in Nat /\ h \in Nat /\ i = 0
        /\ stops' = 0 /\ outages' = 0 => o + d <= h
    BY DEF One, Holding
  <2>2. Q + R + h <= P + U /\ Q \in Nat /\ R \in Nat /\ P \in Nat /\ U \in Nat
    <3>1. Q \in Nat BY <1>7, NumType
    <3>2. P \in Nat BY NumType DEF AllCounts
    <3> QED BY <1>3, <3>1, <3>2, RestType, WorkersFinite
  <2>3. L + R + h <= T /\ L \in Nat /\ T \in Nat
    <3>1. One(m \in PoppedPayloads') = One(m \in PoppedPayloads) BY DEF PoppedPayloads
    <3>2. L = Num(queue', m) + Q + Num(dlq', m) + One(m \in PoppedPayloads')
      BY StoredNext
    <3>3. T = Num(queue, m) + P + Num(dlq, m) + One(m \in PoppedPayloads) + U
      BY DEF Stored, Total
    <3>4. One(m \in PoppedPayloads) \in Nat BY DEF One
    <3>5. /\ Num(dlq', m) = Num(dlq, m) /\ Num(dlq', m) \in Nat
          /\ Num(queue', m) = Num(queue, m) /\ Num(queue', m) \in Nat
      BY <1>7, NumType
    <3> HIDE DEF L, Q, P, U, T, R, h
    <3> QED BY <2>1, <2>2, <3>1, <3>2, <3>3, <3>4, <3>5
  <2>5. sends'[m] = sends[m] /\ sends[m] \in Nat BY NatHistory
  <2> HIDE DEF L, R, o, d, i, T, U, P, Q, h
  <2>6. /\ L + R + o <= T
        /\ stops' = 0 /\ outages' = 0 => sends'[m] + (L + R + o) + d <= sends[m] + T + i
    BY <2>1, <2>2, <2>3, <2>5
  <2> QED BY <2>6 DEF L, R, o, d, i, T
<1>9. NoneAppears(w, s, b, c) BY <1>8 DEF NoneAppears
<1>10. /\ \A v \in Worker \ {w} : c[v] # 0 => b[v] # 0
       /\ c[w] # 0 => s \in InFlight
       /\ UNCHANGED <<published, stolen>>
  BY <1>3
<1> QED BY <1>3, <1>5, <1>6, <1>7, <1>9, <1>10, WorkerStep

-----------------------------------------------------------------------------
(* Recovery, and the operator's script.                                    *)

\* RPOPLPUSH of recover_processing: who stood behind the last such entry has lost it.
LEMMA RecoverStep ==
  ASSUME TypeOK, TypeOK', AllCounts, FaultsGrow, NEW b, Numbering(b),
         NEW w \in Worker, RecoverOne(w)
  PROVE  CopiesInv'
<1> DEFINE e == Last(processing)
<1>1. /\ processing # <<>> /\ queue' = Cons(e, queue) /\ processing' = Front(processing)
      /\ step[w] = "recovering"
      /\ UNCHANGED <<dlq, step, hand, popped, published, sends>>
      /\ stolen' = [stolen EXCEPT ![e.msg] = @ + 1] \/ (~BeingHandled(e) /\ stolen' = stolen)
      /\ BeingHandled(e) => stolen' = [stolen EXCEPT ![e.msg] = @ + 1]
  BY DEF RecoverOne, workerVars, scriptVars
<1>2. e \in Job /\ e.msg \in Msg /\ queue' \in Seq(Job) /\ processing' \in Seq(Job)
      /\ queue \in Seq(Job) /\ processing \in Seq(Job)
  <2>1. e \in Job BY <1>1, PopTail DEF TypeOK
  <2> HIDE DEF e
  <2>2. e.msg \in Msg BY <2>1 DEF Job
  <2> QED BY <2>1, <2>2 DEF TypeOK
<1>3. OneMoreOf(processing, processing', e) BY <1>1, <1>2, OccOfPopTail
<1>4. OneMoreOf(queue', queue, e) BY <1>1, <1>2, OccOfPushHead
<1> HIDE DEF e
<1>5. b \in [Worker -> Nat] /\ Backing(b) BY DEF Numbering
<1>6. b[w] = 0 /\ Tickets(processing, b) BY <1>1, <1>5 DEF Backing, Tickets, InFlight
<1>7. PICK c \in [Worker -> Nat] : Renumbered(processing, processing', e, b, w, c)
  BY <1>2, <1>3, <1>5, <1>6, TicketsAfterRemoval
<1>8. Fits(c) BY <1>1, <1>7 DEF Fits, Renumbered, Tickets
<1>9. PICK x \in Worker : \A v \in Worker \ {w} :
        c[v] = 0 /\ b[v] # 0 => v = x /\ hand[v] = e
  BY <1>7 DEF Renumbered
<1>10. /\ Counts(queue') /\ Counts(processing') /\ Counts(dlq')
       /\ \A m \in Msg :
            /\ Num(queue, m) \in Nat /\ Num(queue', m) \in Nat
            /\ Num(queue', m) = Num(queue, m) + One(e.msg = m)
            /\ Num(processing, m) \in Nat /\ Num(processing', m) \in Nat
            /\ Num(processing, m) = Num(processing', m) + One(e.msg = m)
  <2>1. Counts(queue) /\ Counts(processing) /\ Counts(dlq') BY <1>1 DEF AllCounts
  <2>2. /\ Counts(queue')
        /\ \A m \in Msg : /\ Num(queue, m) \in Nat /\ Num(queue', m) \in Nat
                          /\ Num(queue', m) = Num(queue, m) + One(e.msg = m)
    BY <1>2, <1>4, <2>1, NumMoves
  <2>3. /\ Counts(processing')
        /\ \A m \in Msg : /\ Num(processing, m) \in Nat /\ Num(processing', m) \in Nat
                          /\ Num(processing, m) = Num(processing', m) + One(e.msg = m)
    BY <1>2, <1>3, <2>1, NumMoves
  <2> QED BY <2>1, <2>2, <2>3
<1>11. /\ stolen \in [Msg -> Nat] /\ stolen' \in [Msg -> Nat]
       /\ published \in [Msg -> Nat] /\ published' = published
  BY <1>1 DEF TypeOK
<1>12. \A m \in Msg : stolen'[m] >= stolen[m]
  <2> DEFINE k == e.msg
  <2>1. k \in Msg /\ (stolen' = [stolen EXCEPT ![k] = @ + 1] \/ stolen' = stolen)
    BY <1>1, <1>2
  <2> HIDE DEF k
  <2> SUFFICES ASSUME NEW m \in Msg PROVE stolen'[m] >= stolen[m] OBVIOUS
  <2>2. stolen[m] \in Nat /\ stolen'[m] \in {stolen[m], stolen[m] + 1} BY <1>11, <2>1
  <2> QED BY <2>2
<1>13. ASSUME NEW v \in Worker, c[v] = 0, b[v] # 0
       PROVE  stolen'[e.msg] > 0 /\ stolen'[e.msg] = stolen[e.msg] + 1 /\ hand[v] = e
              /\ v = x
  <2>1. v # w BY <1>6, <1>13
  <2>2. hand[v] = e /\ v = x BY <1>9, <1>13, <2>1
  <2>3. step[v] \in InFlight BY <1>5, <1>13 DEF Backing
  <2>4. BeingHandled(e) BY <2>2, <2>3 DEF BeingHandled
  <2>5. stolen' = [stolen EXCEPT ![e.msg] = @ + 1] BY <1>1, <2>4
  <2> DEFINE m == e.msg
  <2>6. m \in Msg /\ stolen' = [stolen EXCEPT ![m] = @ + 1] BY <1>2, <2>5
  <2> HIDE DEF m
  <2>7. stolen'[m] = stolen[m] + 1 /\ stolen[m] \in Nat BY <1>11, <2>6
  <2>8. stolen'[m] > 0 BY <2>7
  <2> QED BY <2>2, <2>7, <2>8 DEF m
<1>14. ASSUME NEW m \in Msg
       PROVE  Stored(m)' + Cardinality(Unbacked(m, c)) + published[m] + stolen[m]
                <= Total(m, b) + published'[m] + stolen'[m]
  <2> DEFINE V == Unbacked(m, c)
             U == Unbacked(m, b)
             L == Stored(m)'
  <2>1. IsFiniteSet(U) /\ Cardinality(U) \in Nat /\ Cardinality(V) \in Nat
    BY WorkersFinite
  <2>2. L = Stored(m) /\ L \in Nat
    <3>1. One(m \in PoppedPayloads') = One(m \in PoppedPayloads) BY <1>1 DEF PoppedPayloads
    <3>2. L = Num(queue', m) + Num(processing', m) + Num(dlq', m) + One(m \in PoppedPayloads')
      BY StoredNext
    <3>3. Stored(m) = Num(queue, m) + Num(processing, m) + Num(dlq, m) + One(m \in PoppedPayloads)
      BY DEF Stored
    <3>4. One(e.msg = m) \in Nat /\ One(m \in PoppedPayloads) \in Nat BY DEF One
    <3>5. Num(dlq', m) = Num(dlq, m) /\ Num(dlq', m) \in Nat BY <1>1, <1>10, NumType
    <3> HIDE DEF L
    <3> QED BY <1>10, <3>1, <3>2, <3>3, <3>4, <3>5
  <2>3. Total(m, b) = L + Cardinality(U) BY <2>2 DEF Total
  <2>4. Cardinality(V) + stolen[m] <= Cardinality(U) + stolen'[m]
    <3>1. stolen[m] \in Nat /\ stolen'[m] \in Nat /\ stolen'[m] >= stolen[m]
      BY <1>11, <1>12
    <3>2. CASE \E v \in V : b[v] # 0
      <4>1. PICK v \in V : b[v] # 0 BY <3>2
      <4>2. v \in Worker /\ c[v] = 0 /\ hand[v].msg = m BY DEF Unbacked, Holders
      <4>3. stolen'[m] = stolen[m] + 1 BY <1>13, <4>1, <4>2
      <4>4. V \in SUBSET (U \cup {x})
        BY <1>13 DEF Unbacked, Holders
      <4> HIDE DEF U, V
      <4>5. IsFiniteSet(U \cup {x}) /\ Cardinality(U \cup {x}) \in {Cardinality(U), Cardinality(U) + 1}
        BY <2>1, FS_AddElement
      <4>6. Cardinality(V) <= Cardinality(U \cup {x}) BY <4>4, <4>5, FS_Subset
      <4>7. Cardinality(V) <= Cardinality(U) + 1 BY <2>1, <4>5, <4>6
      <4> QED BY <2>1, <3>1, <4>3, <4>7
    <3>3. CASE \A v \in V : b[v] = 0
      <4>1. V \in SUBSET U BY <3>3 DEF Unbacked
      <4>2. Cardinality(V) <= Cardinality(U) BY <2>1, <4>1, FS_Subset
      <4> HIDE DEF U, V
      <4> QED BY <2>1, <3>1, <4>2
    <3> QED BY <3>2, <3>3
  <2>5. published'[m] = published[m] /\ published[m] \in Nat /\ stolen[m] \in Nat
        /\ stolen'[m] \in Nat
    BY <1>11
  <2> HIDE DEF V, U, L
  <2>6. L + Cardinality(V) + published[m] + stolen[m]
          <= Total(m, b) + published'[m] + stolen'[m]
    BY <2>1, <2>2, <2>3, <2>4, <2>5
  <2> QED BY <2>6 DEF V, L
<1>15. \A v \in Worker : c[v] # 0 => b[v] # 0 BY <1>7 DEF Renumbered
<1>16. \A v \in Worker : c[v] = 0 /\ b[v] # 0 => stolen'[hand[v].msg] > 0 BY <1>13
<1>17. \A m \in Msg : published'[m] >= published[m] /\ stolen'[m] >= stolen[m]
  BY <1>11, <1>12
<1> QED BY <1>1, <1>8, <1>10, <1>14, <1>15, <1>16, <1>17, ListStep

\* The other commands on the lists: no entry leaves `processing`, and none comes
\* into being unless a service enqueues it.
LEMMA OtherListStep ==
  ASSUME TypeOK, TypeOK', AllCounts, FaultsGrow, NEW b, Numbering(b),
         UNCHANGED <<step, hand, sends, stolen>>,
         Counts(queue'), Counts(processing'), Counts(dlq'),
         \A j : Occ(processing', j) >= Occ(processing, j),
         \A m \in Msg : /\ published'[m] >= published[m]
                        /\ Stored(m)' + published[m] <= Stored(m) + published'[m]
  PROVE  CopiesInv'
<1>1. b \in [Worker -> Nat] /\ Backing(b) BY DEF Numbering
<1>2. Fits(b)
  <2>1. ASSUME NEW v \in Worker, b[v] # 0 PROVE b[v] <= Occ(processing', hand'[v])
    <3>1. b[v] <= Occ(processing, hand[v]) /\ b[v] \in Nat BY <1>1, <2>1 DEF Backing
    <3>2. Occ(processing, hand[v]) \in Nat /\ Occ(processing', hand[v]) \in Nat
      BY OccType DEF TypeOK
    <3> QED BY <3>1, <3>2
  <2> QED BY <1>1, <2>1 DEF Fits, Backing
<1>3. \A m \in Msg : published'[m] >= published[m] /\ stolen'[m] >= stolen[m]
  <2>1. \A m \in Msg : stolen[m] \in Nat /\ stolen' = stolen BY NatHistory
  <2> QED BY <2>1
<1>4. ASSUME NEW m \in Msg
      PROVE  Stored(m)' + Cardinality(Unbacked(m, b)) + published[m] + stolen[m]
               <= Total(m, b) + published'[m] + stolen'[m]
  <2> DEFINE L == Stored(m)'
             S == Stored(m)
             U == Cardinality(Unbacked(m, b))
  <2>1. Total(m, b) = S + U /\ U \in Nat /\ S \in Nat
    BY TotalType DEF AllCounts, Total
  <2>2. L \in Nat BY StoredNextType
  <2>3. L + published[m] <= S + published'[m] OBVIOUS
  <2>4. /\ published[m] \in Nat /\ published'[m] \in Nat /\ stolen[m] \in Nat
        /\ stolen'[m] = stolen[m]
    BY NatHistory
  <2> HIDE DEF L, S, U
  <2>5. L + U + published[m] + stolen[m] <= Total(m, b) + published'[m] + stolen'[m]
    BY <2>1, <2>2, <2>3, <2>4
  <2> QED BY <2>5 DEF L, U
<1>5. \A v \in Worker : b[v] = 0 /\ b[v] # 0 => stolen'[hand[v].msg] > 0 OBVIOUS
<1> QED BY <1>1, <1>2, <1>3, <1>4, <1>5, ListStep

-----------------------------------------------------------------------------
(* Every action.                                                           *)

LEMMA FaultsGrowNext == TypeOK /\ CopiesInv /\ [Next]_vars => FaultsGrow
<1> SUFFICES ASSUME TypeOK, CopiesInv, [Next]_vars PROVE FaultsGrow OBVIOUS
<1> USE DEF workerVars, redisVars, scriptVars, faultVars, historyVars
<1>1. ASSUME Next
      PROVE  /\ stops' \in {stops, stops + 1} /\ outages' \in {outages, outages + 1}
             /\ redisUp' \/ (redisUp' = redisUp /\ outages' = outages) \/ outages' = outages + 1
  BY <1>1 DEF Next, Enqueue, Start, Recover, RecoverOne, RecoverDone, StartFails,
        Dequeue, DequeueReplyLost, Handle, HandleOk, HandleFail, Settle, Ack,
        AckFails, AckReplyLost, RetryAck, RetryAckFails, Retry, MoveToDlq, RepushFails, Stop,
        RequeueStart, Requeue, RequeuePop, RequeuePush, RequeueEnd, RequeueFails,
        ClearDlq, RedisDown, RedisBack
<1>2. /\ stops' \in {stops, stops + 1} /\ outages' \in {outages, outages + 1}
      /\ redisUp' \/ (redisUp' = redisUp /\ outages' = outages) \/ outages' = outages + 1
  BY <1>1 DEF vars
<1>3. stops \in Nat /\ outages \in Nat /\ (~redisUp => outages > 0)
  BY DEF TypeOK, CopiesInv
<1> QED BY <1>2, <1>3 DEF FaultsGrow

LEMMA CopiesNext == TypeOK /\ CopiesInv /\ [Next]_vars => CopiesInv'
<1> SUFFICES ASSUME TypeOK, CopiesInv, [Next]_vars PROVE CopiesInv' OBVIOUS
<1> USE DEF workerVars, redisVars, scriptVars, faultVars, historyVars
<1>t. TypeOK' /\ FaultsGrow BY TypeNext, FaultsGrowNext
<1>a. AllCounts BY DEF CopiesInv, AllCounts
<1>b. PICK b : Numbering(b)
  BY DEF CopiesInv, Numbering
<1>d. ~redisUp => outages > 0 BY DEF CopiesInv
<1>n. stops \in Nat /\ outages \in Nat BY DEF TypeOK
<1>l. /\ queue \in Seq(Job) /\ processing \in Seq(Job) /\ dlq \in Seq(Job)
      /\ queue' \in Seq(Job) /\ processing' \in Seq(Job) /\ dlq' \in Seq(Job)
  BY <1>t DEF TypeOK
<1>o. \A j : Occ(processing, j) \in Nat BY <1>l, OccType
<1>p. \A m \in Msg :
        /\ Num(queue, m) \in Nat /\ Num(processing, m) \in Nat /\ Num(dlq, m) \in Nat
        /\ One(m \in PoppedPayloads) \in Nat /\ One(m \in PoppedPayloads') \in Nat
        /\ Stored(m) = Num(queue, m) + Num(processing, m) + Num(dlq, m) + One(m \in PoppedPayloads)
        /\ Stored(m)' = Num(queue', m) + Num(processing', m) + Num(dlq', m)
                          + One(m \in PoppedPayloads')
  BY <1>a, NumType, StoredNext DEF AllCounts, Stored, One
<1>u. UNCHANGED popped => \A m : One(m \in PoppedPayloads') = One(m \in PoppedPayloads)
  BY DEF PoppedPayloads
\* Steps that touch neither the lists nor the hands.
<1>q. ASSUME UNCHANGED <<step, hand, queue, processing, dlq, popped, published, sends, stolen>>
      PROVE  CopiesInv'
  <2>1. Counts(queue') /\ Counts(processing') /\ Counts(dlq') BY <1>a, <1>q DEF AllCounts
  <2>2. \A j : Occ(processing', j) >= Occ(processing, j) BY <1>q, <1>o
  <2>3. \A m \in Msg : published[m] \in Nat BY <1>t, NatHistory
  <2>4. \A m \in Msg : Stored(m)' = Stored(m) BY <1>q, StoredSame
  <2>5. ASSUME NEW m \in Msg
        PROVE  /\ published'[m] >= published[m]
               /\ Stored(m)' + published[m] <= Stored(m) + published'[m]
    <3>1. Stored(m) \in Nat BY <1>a, TotalType DEF AllCounts
    <3> QED BY <1>q, <2>3, <2>4, <3>1
  <2> QED BY <1>a, <1>b, <1>t, <1>q, <2>1, <2>2, <2>5, OtherListStep
<1>1. CASE UNCHANGED vars BY <1>1, <1>q DEF vars
<1>2. CASE RequeueStart \/ RequeueEnd \/ RedisDown \/ RedisBack
  BY <1>2, <1>q DEF RequeueStart, RequeueEnd, RedisDown, RedisBack
<1>3. ASSUME NEW m0 \in Msg, Enqueue(m0) PROVE CopiesInv'
  <2> DEFINE e == [msg |-> m0, attempts |-> 0]
  <2>1. e \in Job /\ e.msg = m0 BY QueueAssumption DEF Job
  <2>2. /\ queue' = Append(queue, e) /\ published' = [published EXCEPT ![m0] = @ + 1]
        /\ UNCHANGED <<processing, dlq, step, hand, popped, sends, stolen>>
    BY <1>3 DEF Enqueue
  <2> HIDE DEF e
  <2>3. OneMoreOf(queue', queue, e) BY <1>l, <2>1, <2>2, OccOfPushTail
  <2>4. /\ Counts(queue') /\ Counts(processing') /\ Counts(dlq')
        /\ \A m \in Msg : Num(queue', m) = Num(queue, m) + One(m0 = m)
    <3>1. Counts(queue) /\ Counts(processing') /\ Counts(dlq') BY <1>a, <2>2 DEF AllCounts
    <3>2. Counts(queue') /\ \A m \in Msg : Num(queue', m) = Num(queue, m) + One(e.msg = m)
      BY <1>l, <2>1, <2>3, <3>1, NumMoves
    <3> QED BY <2>1, <3>1, <3>2
  <2>5. \A j : Occ(processing', j) >= Occ(processing, j) BY <2>2, <1>o
  <2>6. ASSUME NEW m \in Msg
        PROVE  /\ published'[m] >= published[m]
               /\ Stored(m)' + published[m] <= Stored(m) + published'[m]
    <3>1. published \in [Msg -> Nat] BY DEF TypeOK
    <3>2. published'[m] = published[m] + One(m0 = m) /\ published[m] \in Nat
      BY <2>2, <3>1 DEF One
    <3>3. Stored(m)' = Stored(m) + One(m0 = m) /\ Stored(m) \in Nat /\ One(m0 = m) \in Nat
      <4>1. One(m0 = m) \in Nat BY DEF One
      <4>2. Num(processing', m) = Num(processing, m) /\ Num(dlq', m) = Num(dlq, m) BY <2>2
      <4>3. One(m \in PoppedPayloads') = One(m \in PoppedPayloads) BY <1>u, <2>2
      <4>4. Num(queue', m) = Num(queue, m) + One(m0 = m) BY <2>4
      <4> QED BY <1>p, <4>1, <4>2, <4>3, <4>4
    <3> QED BY <3>2, <3>3
  <2> QED BY <1>a, <1>b, <1>t, <2>2, <2>4, <2>5, <2>6, OtherListStep
<1>4. ASSUME NEW w \in Worker, RecoverOne(w) PROVE CopiesInv'
  BY <1>a, <1>b, <1>t, <1>4, RecoverStep
<1>5. ASSUME NEW w \in Worker, Dequeue(w) PROVE CopiesInv'
  BY <1>a, <1>b, <1>t, <1>5, TakeStep
<1>6. ASSUME NEW w \in Worker,
             \/ Start(w) \/ RecoverDone(w) \/ StartFails(w) \/ HandleFail(w) \/ AckFails(w)
      PROVE  CopiesInv'
  <2>1. PICK s \in {"recovering", "idle", "stopped", "failing"} :
          /\ Goto(w, s)
          /\ s \in Holding <=> step[w] \in Holding
          /\ s \in InFlight <=> step[w] \in InFlight
          /\ step[w] # "failing"
          /\ step[w] = "delivered" => ~redisUp /\ UNCHANGED outages
    BY <1>6 DEF Start, RecoverDone, StartFails, HandleFail, AckFails, Holding, InFlight
  <2>2. UNCHANGED <<hand, queue, processing, dlq, popped, published, stolen, sends>>
    BY <1>6 DEF Start, RecoverDone, StartFails, HandleFail, AckFails
  <2>3. ASSUME NEW m \in Msg, stops' = 0, outages' = 0
        PROVE  sends'[m] + One(step[w] = "delivered" /\ hand[w].msg = m)
                 <= sends[m] + One(s = "delivered" /\ hand[w].msg = m)
    <3>1. sends[m] \in Nat BY <1>t, NatHistory
    <3>2. step[w] # "delivered" /\ s # "delivered" BY <1>d, <1>n, <2>1, <2>3
    <3> QED BY <2>2, <3>1, <3>2 DEF One
  <2> QED BY <1>a, <1>b, <1>t, <2>1, <2>2, <2>3, SameHandStep
<1>7. ASSUME NEW w \in Worker, HandleOk(w) PROVE CopiesInv'
  <2> DEFINE k == hand[w].msg
  <2>1. /\ Goto(w, "delivered") /\ step[w] = "delivering"
        /\ sends' = [sends EXCEPT ![k] = IF @ < 2 THEN @ + 1 ELSE @]
        /\ UNCHANGED <<hand, queue, processing, dlq, popped, published, stolen>>
    BY <1>7 DEF HandleOk
  <2>2. k \in Msg BY <1>7, HeldJob DEF HandleOk, Holding
  <2>3. /\ "delivered" \in Holding <=> step[w] \in Holding
        /\ "delivered" \in InFlight <=> step[w] \in InFlight
        /\ step[w] # "failing"
    BY <2>1 DEF Holding, InFlight
  <2>4. ASSUME NEW m \in Msg
        PROVE  sends'[m] + One(step[w] = "delivered" /\ k = m)
                 <= sends[m] + One("delivered" = "delivered" /\ k = m)
    <3> HIDE DEF k
    <3>1. sends \in [Msg -> 0..2] BY DEF TypeOK
    <3>2. One(step[w] = "delivered" /\ k = m) = 0 BY <2>1 DEF One
    <3>3. CASE k = m
      <4>1. sends'[m] = (IF sends[m] < 2 THEN sends[m] + 1 ELSE sends[m]) /\ sends[m] \in Nat
        BY <2>1, <2>2, <3>1, <3>3
      <4> QED BY <3>2, <3>3, <4>1 DEF One
    <3>4. CASE k # m
      <4>1. sends'[m] = sends[m] /\ sends[m] \in Nat BY <2>1, <3>1, <3>4
      <4> QED BY <3>2, <3>4, <4>1 DEF One
    <3> QED BY <3>3, <3>4
  <2> QED BY <1>a, <1>b, <1>t, <2>1, <2>3, <2>4, SameHandStep
<1>8. ASSUME NEW w \in Worker, RetryAckFails(w) \/ RepushFails(w) \/ Stop(w) PROVE CopiesInv'
  <2>1. PICK s \in {"idle", "stopped"} :
          /\ PutDown(w, s)
          /\ step[w] = "delivered" => stops' = stops + 1
    BY <1>8 DEF RetryAckFails, RepushFails, Stop
  <2>2. UNCHANGED <<queue, dlq, processing, popped, published, stolen, sends>>
    BY <1>8 DEF RetryAckFails, RepushFails, Stop
  <2>3. Counts(queue') /\ Counts(dlq') BY <1>a, <2>2 DEF AllCounts
  <2>4. ASSUME NEW m \in Msg
        PROVE  Num(queue', m) + Num(dlq', m)
                 <= Num(queue, m) + Num(dlq, m) + One(step[w] = "repush" /\ hand[w].msg = m)
    <3>1. One(step[w] = "repush" /\ hand[w].msg = m) \in Nat BY DEF One
    <3>2. Num(queue', m) = Num(queue, m) /\ Num(dlq', m) = Num(dlq, m) BY <2>2
    <3> QED BY <1>p, <3>1, <3>2
  <2>5. step[w] = "delivered" => stops' > 0 \/ outages' > 0 BY <1>n, <2>1
  <2> QED BY <1>a, <1>b, <1>t, <2>1, <2>2, <2>3, <2>4, <2>5, PutDownStep
<1>9. ASSUME NEW w \in Worker, Retry(w) \/ MoveToDlq(w) PROVE CopiesInv'
  <2> DEFINE e == hand[w]
  <2>1. /\ \/ queue' = Append(queue, e) /\ UNCHANGED dlq
           \/ dlq' = Append(dlq, e) /\ UNCHANGED queue
        /\ PutDown(w, "idle") /\ step[w] = "repush"
        /\ UNCHANGED <<processing, popped, published, stolen, sends>>
    BY <1>9 DEF Retry, MoveToDlq
  <2>2. e \in Job BY <2>1, HeldJob DEF Holding
  <2>3. \/ OneMoreOf(queue', queue, e) /\ UNCHANGED dlq
        \/ OneMoreOf(dlq', dlq, e) /\ UNCHANGED queue
    <3> HIDE DEF e
    <3> QED BY <1>l, <2>1, <2>2, OccOfPushTail
  <2>4. /\ Counts(queue') /\ Counts(dlq')
        /\ \A m \in Msg : \/ Num(queue', m) = Num(queue, m) + One(e.msg = m) /\ UNCHANGED dlq
                          \/ Num(dlq', m) = Num(dlq, m) + One(e.msg = m) /\ UNCHANGED queue
    <3> HIDE DEF e
    <3> QED BY <1>a, <1>l, <2>2, <2>3, NumMoves DEF AllCounts
  <2>5. ASSUME NEW m \in Msg
        PROVE  Num(queue', m) + Num(dlq', m)
                 <= Num(queue, m) + Num(dlq, m) + One(step[w] = "repush" /\ hand[w].msg = m)
    <3>1. One(step[w] = "repush" /\ hand[w].msg = m) = One(e.msg = m) BY <2>1
    <3>2. One(e.msg = m) \in Nat BY DEF One
    <3> HIDE DEF e
    <3>3. \/ Num(queue', m) = Num(queue, m) + One(e.msg = m) /\ Num(dlq', m) = Num(dlq, m)
          \/ Num(dlq', m) = Num(dlq, m) + One(e.msg = m) /\ Num(queue', m) = Num(queue, m)
      BY <2>4
    <3> QED BY <1>p, <3>1, <3>2, <3>3
  <2> QED BY <1>a, <1>b, <1>t, <2>1, <2>4, <2>5, PutDownStep
<1>10. ASSUME NEW w \in Worker, Ack(w) \/ RetryAck(w) \/ AckReplyLost(w) PROVE CopiesInv'
  <2>1. /\ step[w] \in InFlight /\ processing' = RemoveFirst(processing, hand[w])
        /\ UNCHANGED <<queue, dlq, popped, published, stolen, sends>>
    BY <1>10 DEF Ack, RetryAck, AckReplyLost, InFlight
  <2>2. CASE Ack(w)
    <3>1. Goto(w, "idle") /\ hand' = [hand EXCEPT ![w] = None]
      BY <2>2 DEF Ack, PutDown
    <3> QED BY <1>a, <1>b, <1>t, <2>1, <3>1, ReleaseStep
  <2>3. CASE RetryAck(w)
    <3>1. /\ Goto(w, "repush") /\ hand' = [hand EXCEPT ![w] = Attempted(hand[w])]
          /\ step[w] = "failing"
      BY <2>3 DEF RetryAck, TypeOK
    <3>2. hand'[w].msg = hand[w].msg
      <4>1. hand[w] \in Job BY <3>1, HeldJob DEF Holding
      <4>2. hand'[w] = Attempted(hand[w]) BY <3>1 DEF TypeOK
      <4> QED BY <4>1, <4>2, AttemptedIsAJob
    <3> QED BY <1>a, <1>b, <1>t, <2>1, <3>1, <3>2, ReleaseStep
  <2>4. CASE AckReplyLost(w)
    <3>1. Goto(w, "failing") /\ UNCHANGED hand /\ outages' = outages + 1
      BY <2>4 DEF AckReplyLost
    <3>2. outages' > 0 BY <1>n, <3>1
    <3> QED BY <1>a, <1>b, <1>t, <2>1, <3>1, <3>2, ReleaseStep
  <2> QED BY <1>10, <2>2, <2>3, <2>4
<1>11. ASSUME NEW w \in Worker, DequeueReplyLost(w) PROVE CopiesInv'
  <2> DEFINE e == Last(queue)
  <2>1. /\ queue # <<>> /\ queue' = Front(queue) /\ processing' = Cons(e, processing)
        /\ UNCHANGED <<dlq, step, hand, popped, published, stolen, sends>>
    BY <1>11 DEF DequeueReplyLost, TakeTail
  <2>2. e \in Job BY <1>l, <2>1, PopTail
  <2>3. OneMoreOf(queue, queue', e) BY <1>l, <2>1, OccOfPopTail
  <2>4. OneMoreOf(processing', processing, e) BY <1>l, <2>1, <2>2, OccOfPushHead
  <2> HIDE DEF e
  <2>5. /\ Counts(queue') /\ Counts(processing') /\ Counts(dlq')
        /\ \A m \in Msg : /\ Num(queue, m) = Num(queue', m) + One(e.msg = m)
                          /\ Num(processing', m) = Num(processing, m) + One(e.msg = m)
                          /\ Num(queue', m) \in Nat
    <3>1. /\ Counts(queue')
          /\ \A m \in Msg : /\ Num(queue, m) = Num(queue', m) + One(e.msg = m)
                            /\ Num(queue', m) \in Nat
      BY <1>a, <1>l, <2>2, <2>3, NumMoves DEF AllCounts
    <3>2. /\ Counts(processing')
          /\ \A m \in Msg : Num(processing', m) = Num(processing, m) + One(e.msg = m)
      BY <1>a, <1>l, <2>2, <2>4, NumMoves DEF AllCounts
    <3> QED BY <1>a, <2>1, <3>1, <3>2 DEF AllCounts
  <2>6. \A j : Occ(processing', j) >= Occ(processing, j) BY <1>o, <2>4 DEF OneMoreOf
  <2>7. ASSUME NEW m \in Msg
        PROVE  /\ published'[m] >= published[m]
               /\ Stored(m)' + published[m] <= Stored(m) + published'[m]
    <3>1. published'[m] = published[m] /\ published[m] \in Nat BY <1>t, <2>1, NatHistory
    <3>2. One(e.msg = m) \in Nat /\ Num(dlq', m) = Num(dlq, m) BY <2>1 DEF One
    <3>3. Stored(m)' = Stored(m) /\ Stored(m) \in Nat
      BY <1>p, <1>u, <2>1, <2>5, <3>2
    <3> QED BY <3>1, <3>3
  <2> QED BY <1>a, <1>b, <1>t, <2>1, <2>5, <2>6, <2>7, OtherListStep
\* The script and the operator: no list but these two and `popped` change.
<1>s. ASSUME UNCHANGED <<step, hand, processing, published, stolen, sends>>,
             Counts(queue'), Counts(dlq'),
             \A m \in Msg :
               /\ Num(queue', m) \in Nat /\ Num(dlq', m) \in Nat
               /\ Num(queue', m) + Num(dlq', m) + One(m \in PoppedPayloads')
                    <= Num(queue, m) + Num(dlq, m) + One(m \in PoppedPayloads)
      PROVE  CopiesInv'
  <2>1. Counts(processing') BY <1>a, <1>s DEF AllCounts
  <2>2. \A j : Occ(processing', j) >= Occ(processing, j) BY <1>s, <1>o
  <2>3. ASSUME NEW m \in Msg
        PROVE  /\ published'[m] >= published[m]
               /\ Stored(m)' + published[m] <= Stored(m) + published'[m]
    <3>1. published'[m] = published[m] /\ published[m] \in Nat BY <1>t, <1>s, NatHistory
    <3>2. Num(processing', m) = Num(processing, m) BY <1>s
    <3>3. Stored(m)' <= Stored(m) /\ Stored(m) \in Nat /\ Stored(m)' \in Nat
      BY <1>p, <1>s, <3>2
    <3> QED BY <3>1, <3>3
  <2> QED BY <1>a, <1>b, <1>t, <1>s, <2>1, <2>2, <2>3, OtherListStep
<1>12. CASE RequeuePop
  <2> DEFINE e == Head(dlq)
  <2>1. /\ dlq # <<>> /\ dlq' = Tail(dlq) /\ popped = None /\ popped' = e
        /\ UNCHANGED <<queue, processing, step, hand, published, stolen, sends>>
    BY <1>12 DEF RequeuePop
  <2>2. e \in Job BY <1>l, <2>1, PopHead
  <2>3. OneMoreOf(dlq, dlq', e) BY <1>l, <2>1, OccOfPopHead
  <2> HIDE DEF e
  <2>4. /\ Counts(queue') /\ Counts(dlq')
        /\ \A m \in Msg : Num(dlq, m) = Num(dlq', m) + One(e.msg = m) /\ Num(dlq', m) \in Nat
    <3>1. Counts(queue') /\ Counts(dlq) BY <1>a, <2>1 DEF AllCounts
    <3> QED BY <1>l, <2>2, <2>3, <3>1, NumMoves
  <2>5. \A m : One(m \in PoppedPayloads) = 0 /\ One(m \in PoppedPayloads') = One(e.msg = m)
    BY <2>1, <2>2, QueueAssumption DEF PoppedPayloads, One
  <2>6. ASSUME NEW m \in Msg
        PROVE  /\ Num(queue', m) \in Nat /\ Num(dlq', m) \in Nat
               /\ Num(queue', m) + Num(dlq', m) + One(m \in PoppedPayloads')
                    <= Num(queue, m) + Num(dlq, m) + One(m \in PoppedPayloads)
    <3>1. One(e.msg = m) \in Nat /\ Num(queue', m) = Num(queue, m) BY <2>1 DEF One
    <3> QED BY <1>p, <2>4, <2>5, <3>1
  <2> QED BY <1>s, <2>1, <2>4, <2>6
<1>13. CASE RequeuePush
  <2>1. /\ popped # None /\ queue' = Append(queue, popped) /\ popped' = None
        /\ UNCHANGED <<dlq, processing, step, hand, published, stolen, sends>>
    BY <1>13 DEF RequeuePush
  <2>2. popped \in Job BY <2>1 DEF TypeOK
  <2>3. OneMoreOf(queue', queue, popped) BY <1>l, <2>1, <2>2, OccOfPushTail
  <2>4. /\ Counts(queue') /\ Counts(dlq')
        /\ \A m \in Msg : Num(queue', m) = Num(queue, m) + One(popped.msg = m)
    <3>1. Counts(queue) /\ Counts(dlq') BY <1>a, <2>1 DEF AllCounts
    <3> QED BY <1>l, <2>2, <2>3, <3>1, NumMoves
  <2>5. \A m : One(m \in PoppedPayloads') = 0 /\ One(m \in PoppedPayloads) = One(popped.msg = m)
    BY <2>1 DEF PoppedPayloads, One
  <2>6. ASSUME NEW m \in Msg
        PROVE  /\ Num(queue', m) \in Nat /\ Num(dlq', m) \in Nat
               /\ Num(queue', m) + Num(dlq', m) + One(m \in PoppedPayloads')
                    <= Num(queue, m) + Num(dlq, m) + One(m \in PoppedPayloads)
    <3>1. One(popped.msg = m) \in Nat /\ Num(dlq', m) = Num(dlq, m) BY <2>1 DEF One
    <3> QED BY <1>p, <2>4, <2>5, <3>1
  <2> QED BY <1>s, <2>1, <2>4, <2>6
<1>14. CASE RequeueFails \/ ClearDlq
  <2>1. /\ UNCHANGED <<queue, processing, step, hand, published, stolen, sends>>
        /\ \/ UNCHANGED dlq /\ popped' = None
           \/ dlq' = <<>> /\ UNCHANGED popped
    BY <1>14 DEF RequeueFails, ClearDlq
  <2>2. Counts(queue') /\ Counts(dlq')
    BY <1>a, <2>1, NumEmpty, FS_EmptySet DEF AllCounts, Counts
  <2>3. ASSUME NEW m \in Msg
        PROVE  /\ Num(queue', m) \in Nat /\ Num(dlq', m) \in Nat
               /\ Num(queue', m) + Num(dlq', m) + One(m \in PoppedPayloads')
                    <= Num(queue, m) + Num(dlq, m) + One(m \in PoppedPayloads)
    <3>1. Num(queue', m) = Num(queue, m) BY <2>1
    <3>2. \/ Num(dlq', m) = Num(dlq, m) /\ One(m \in PoppedPayloads') = 0
          \/ Num(dlq', m) = 0 /\ One(m \in PoppedPayloads') = One(m \in PoppedPayloads)
      BY <2>1, NumEmpty DEF PoppedPayloads, One
    <3> QED BY <1>p, <3>1, <3>2
  <2> QED BY <1>s, <2>1, <2>2, <2>3
<1> QED
  BY <1>1, <1>2, <1>3, <1>4, <1>5, <1>6, <1>7, <1>8, <1>9, <1>10, <1>11, <1>12, <1>13, <1>14
  DEF Next, Recover, Handle, Settle, Requeue

\* More workers never hold a payload than copies of it were published, or taken
\* from a worker by another's recovery; and a payload published once is
\* delivered twice only after such a recovery, a stop or an outage.
THEOREM DuplicatesCorrect == Spec => []DuplicatesHaveACause
BY CopiesInit, CopiesNext, CopiesImplyDuplicates, TypeInit, TypeNext, PTL DEF Spec

\* A worker that handles a job has its entry in `processing`, where a restart
\* finds it, unless a recovery took it or an outage hid a removal.
THEOREM BackedCorrect == Spec => []InFlightIsBacked
BY CopiesInit, CopiesNext, CopiesImplyBacked, TypeInit, TypeNext, PTL DEF Spec

-----------------------------------------------------------------------------
(* The refinement of JobLifecycle.                                         *)

\* Every payload is enqueued once at most, and no recovery takes an entry from
\* a worker: then there is one copy of it at most.
OneCopyEach == \A m \in Msg : published[m] <= 1 /\ stolen[m] = 0

\* Where the one copy of m may be.
Placed(m) ==
  /\ m \in Payloads(queue) =>
       m \notin Payloads(processing) \cup Buried \cup HeldBy(Holding)
  /\ m \in Payloads(processing) => m \notin Buried \cup HeldBy({"repush"})
  /\ m \in Payloads(dlq) => m \notin PoppedPayloads \cup HeldBy(Holding)
  /\ m \in PoppedPayloads => m \notin HeldBy(Holding)
  /\ m \in Waiting \cup Buried => m \in Accepted
  /\ \A v, w \in Holders(m) : v = w

LEMMA OneCopyIsPlaced ==
  ASSUME TypeOK, CopiesInv, OneCopyEach, NEW m \in Msg PROVE Placed(m)
<1>1. PICK b \in [Worker -> Nat] : Backing(b) /\ Counted(b) BY DEF CopiesInv
<1>2. Counts(queue) /\ Counts(processing) /\ Counts(dlq) BY DEF CopiesInv
<1> DEFINE Q == Num(queue, m)
           P == Num(processing, m)
           D == Num(dlq, m)
           X == One(m \in PoppedPayloads)
           U == Cardinality(Unbacked(m, b))
           H == Cardinality(Holders(m))
<1>3. /\ Q \in Nat /\ P \in Nat /\ D \in Nat /\ X \in Nat /\ U \in Nat /\ H \in Nat
      /\ X = IF m \in PoppedPayloads THEN 1 ELSE 0
  BY <1>2, NumType, WorkersFinite DEF One
<1>4. H <= P + U BY <1>1, <1>2, HoldersHaveCopies
<1>5. published[m] \in Nat /\ published[m] <= 1 /\ stolen[m] = 0 BY DEF OneCopyEach, TypeOK
<1>6. Q + P + D + X + U <= published[m]
  <2>1. Q + P + D + X + U <= published[m] + stolen[m] BY <1>1 DEF Counted, Total, Stored
  <2> HIDE DEF Q, P, D, X, U
  <2> QED BY <1>3, <1>5, <2>1
<1>7. /\ m \in Payloads(queue) => Q # 0
      /\ m \in Payloads(processing) => P # 0
      /\ m \in Payloads(dlq) => D # 0
  BY <1>2, ListedCounts DEF TypeOK
<1>8. m \in HeldBy(Holding) => H # 0 /\ P + U # 0
  <2>1. m \in HeldBy(Holding) => Holders(m) # {} BY DEF HeldBy, Holders
  <2>2. H = 0 => Holders(m) = {} BY WorkersFinite, FS_EmptySet
  <2> HIDE DEF H, P, U
  <2> QED BY <1>3, <1>4, <2>1, <2>2
<1>9. m \in HeldBy({"repush"}) => U # 0
  <2>1. ASSUME NEW w \in Worker, step[w] = "repush", hand[w].msg = m PROVE w \in Unbacked(m, b)
    BY <1>1, <2>1 DEF Backing, Unbacked, Holders, Holding, InFlight
  <2>2. m \in HeldBy({"repush"}) => Unbacked(m, b) # {} BY <2>1 DEF HeldBy
  <2>3. U = 0 => Unbacked(m, b) = {} BY WorkersFinite, FS_EmptySet
  <2> QED BY <2>2, <2>3
<1>10. ASSUME H <= 1, NEW v \in Holders(m), NEW w \in Holders(m) PROVE v = w
  <2>1. {v, w} \in SUBSET Holders(m) OBVIOUS
  <2>2. IsFiniteSet(Holders(m)) BY WorkersFinite
  <2>3. IsFiniteSet({v, w}) /\ Cardinality({v, w}) <= H BY <2>1, <2>2, FS_Subset
  <2>4. IsFiniteSet({w}) /\ Cardinality({w}) = 1 BY FS_Singleton
  <2>5. v \notin {w} => Cardinality({w} \cup {v}) = 1 + 1 BY <2>4, FS_AddElement
  <2>6. {w} \cup {v} = {v, w} OBVIOUS
  <2> HIDE DEF H
  <2> QED BY <1>3, <1>10, <2>3, <2>5, <2>6
<1> HIDE DEF Q, P, D, X, U, H
<1>11. H <= 1 BY <1>3, <1>4, <1>5, <1>6
<1>12. m \in Accepted <=> published[m] > 0 BY DEF Accepted
<1>13. \A v, w \in Holders(m) : v = w BY <1>10, <1>11
<1>14. m \in Payloads(queue) => m \notin Payloads(processing) \cup Buried \cup HeldBy(Holding)
  BY <1>3, <1>5, <1>6, <1>7, <1>8 DEF Buried
<1>15. m \in Payloads(processing) => m \notin Buried \cup HeldBy({"repush"})
  BY <1>3, <1>5, <1>6, <1>7, <1>9 DEF Buried
<1>16. m \in Payloads(dlq) => m \notin PoppedPayloads \cup HeldBy(Holding)
  BY <1>3, <1>5, <1>6, <1>7, <1>8
<1>17. m \in PoppedPayloads => m \notin HeldBy(Holding)
  BY <1>3, <1>5, <1>6, <1>8
<1>18. m \in Waiting \cup Buried => m \in Accepted
  BY <1>3, <1>5, <1>6, <1>7, <1>8, <1>12 DEF Waiting, Buried
<1> QED BY <1>13, <1>14, <1>15, <1>16, <1>17, <1>18 DEF Placed

\* A delivered job has been sent, and what was sent or deleted was accepted;
\* a payload that an operator deleted is nowhere any more.
FateInv ==
  /\ \A w \in Worker : step[w] = "delivered" => hand[w].msg \in Sent
  /\ Sent \cup cleared \subseteq Accepted
  /\ cleared \cap (Waiting \cup Buried) = {}

Faulted == stops + outages > 0

\* The fate of a payload, by where it is.
LEMMA FateIs ==
  \A m \in Msg : FateOf(m) =
    IF m \in Sent THEN "delivered"
    ELSE IF m \notin Accepted THEN "new"
    ELSE IF m \in Waiting THEN "pending"
    ELSE IF m \in Buried THEN "dead"
    ELSE IF m \in cleared THEN "discarded" ELSE "lost"
<1>1. HeldBy(Holding) = HeldBy(InFlight) \cup HeldBy({"repush"}) BY DEF HeldBy, Holding, InFlight
<1>2. Kept \cup HeldBy(InFlight) = Waiting \cup Buried BY <1>1 DEF Kept, Waiting, Buried
<1>3. Lost = Accepted \ (Waiting \cup Buried \cup Sent \cup cleared) BY <1>2 DEF Lost
<1> QED BY <1>3 DEF FateOf

LEMMA FateIsNext ==
  \A m \in Msg : FateOf(m)' =
    IF m \in Sent' THEN "delivered"
    ELSE IF m \notin Accepted' THEN "new"
    ELSE IF m \in Waiting' THEN "pending"
    ELSE IF m \in Buried' THEN "dead"
    ELSE IF m \in cleared' THEN "discarded" ELSE "lost"
<1>1. (\A m \in Msg : FateOf(m) =
         IF m \in Sent THEN "delivered"
         ELSE IF m \notin Accepted THEN "new"
         ELSE IF m \in Waiting THEN "pending"
         ELSE IF m \in Buried THEN "dead"
         ELSE IF m \in cleared THEN "discarded" ELSE "lost")'
  BY FateIs, PTL
<1> QED BY <1>1

\* A step leaves m where it is.
SamePlace(m) ==
  /\ m \in Sent' <=> m \in Sent
  /\ m \in Accepted' <=> m \in Accepted
  /\ m \in cleared' <=> m \in cleared
  /\ m \in Waiting' <=> m \in Waiting
  /\ m \in Buried' <=> m \in Buried

LEMMA SameFate == ASSUME NEW m \in Msg, SamePlace(m) PROVE FateOf(m)' = FateOf(m)
BY FateIs, FateIsNext DEF SamePlace

\* What JobLifecycle allows to become of one payload.
MayBecome(old, new) ==
  \/ new = old
  \/ /\ Faulted' = Faulted
     /\ \/ old = "new" /\ new = "pending"
        \/ old = "pending" /\ new \in {"delivered", "dead"}
        \/ old = "dead" /\ new = "pending"
  \/ old \in {"pending", "dead"} /\ new = "lost" /\ Faulted'

LEMMA OneMoves ==
  ASSUME NEW x \in Msg, \A m \in Msg \ {x} : FateOf(m)' = FateOf(m),
         MayBecome(FateOf(x), FateOf(x)'), Faulted' \in {Faulted, TRUE}
  PROVE  [Lifecycle!Next]_(Lifecycle!vars)
<1> DEFINE F == [m \in Msg |-> FateOf(m)]
<1>1. F' = [F EXCEPT ![x] = FateOf(x)'] OBVIOUS
<1>2. F[x] = FateOf(x) /\ F'[x] = FateOf(x)' OBVIOUS
<1>3. ASSUME FateOf(x)' = FateOf(x) PROVE F' = F BY <1>3
<1>4. Faulted \in BOOLEAN /\ Faulted' \in BOOLEAN BY DEF Faulted
<1>5. CASE F' = F
  <2>1. CASE Faulted' = Faulted
    BY <1>5, <2>1 DEF Lifecycle!vars, Faulted
  <2>2. CASE Faulted' = TRUE
    BY <1>5, <2>2 DEF Lifecycle!Next, Lifecycle!Fault, Faulted
  <2> QED BY <2>1, <2>2
<1>6. CASE /\ Faulted' = Faulted
           /\ FateOf(x) = "new" /\ FateOf(x)' = "pending"
  <2>1. Lifecycle!Accept(x)
    BY <1>1, <1>2, <1>6 DEF Lifecycle!Accept, Lifecycle!Becomes, Faulted
  <2> QED BY <2>1 DEF Lifecycle!Next
<1>7. CASE /\ Faulted' = Faulted
           /\ FateOf(x) = "pending" /\ FateOf(x)' = "delivered"
  <2>1. Lifecycle!Deliver(x)
    BY <1>1, <1>2, <1>7 DEF Lifecycle!Deliver, Lifecycle!Becomes, Faulted
  <2> QED BY <2>1 DEF Lifecycle!Next
<1>8. CASE /\ Faulted' = Faulted
           /\ FateOf(x) = "pending" /\ FateOf(x)' = "dead"
  <2>1. Lifecycle!Bury(x)
    BY <1>1, <1>2, <1>8 DEF Lifecycle!Bury, Lifecycle!Becomes, Faulted
  <2> QED BY <2>1 DEF Lifecycle!Next
<1>9. CASE /\ Faulted' = Faulted
           /\ FateOf(x) = "dead" /\ FateOf(x)' = "pending"
  <2>1. Lifecycle!Revive(x)
    BY <1>1, <1>2, <1>9 DEF Lifecycle!Revive, Lifecycle!Becomes, Faulted
  <2> QED BY <2>1 DEF Lifecycle!Next
<1>10. CASE FateOf(x) \in {"pending", "dead"} /\ FateOf(x)' = "lost" /\ Faulted'
  <2>1. Lifecycle!Fault
    BY <1>1, <1>2, <1>10 DEF Lifecycle!Fault, Faulted
  <2> QED BY <2>1 DEF Lifecycle!Next
<1> QED BY <1>3, <1>5, <1>6, <1>7, <1>8, <1>9, <1>10 DEF MayBecome

LEMMA NoneMoves ==
  ASSUME \A m \in Msg : FateOf(m)' = FateOf(m), Faulted' \in {Faulted, TRUE}
  PROVE  [Lifecycle!Next]_(Lifecycle!vars)
<1> DEFINE F == [m \in Msg |-> FateOf(m)]
<1>1. F' = F OBVIOUS
<1>2. CASE Faulted' = Faulted BY <1>1, <1>2 DEF Lifecycle!vars, Faulted
<1>3. CASE Faulted' = TRUE BY <1>1, <1>3 DEF Lifecycle!Next, Lifecycle!Fault, Faulted
<1> QED BY <1>2, <1>3

\* The jobs in other hands than w's stay there.
LEMMA OthersHeld ==
  ASSUME TypeOK, NEW w \in Worker, NEW s, Goto(w, s), NEW j,
         (hand' = [hand EXCEPT ![w] = j]) \/ (UNCHANGED hand /\ j = hand[w]),
         NEW m, step[w] \in Holding => hand[w].msg # m, s \in Holding => j.msg # m
  PROVE  m \in HeldBy(Holding)' <=> m \in HeldBy(Holding)
<1>1. /\ step \in [Worker -> Step] /\ hand \in [Worker -> Job \cup {None}]
      /\ step' = [step EXCEPT ![w] = s]
  BY DEF TypeOK, Goto
<1>2. /\ \A v \in Worker \ {w} : step'[v] = step[v] /\ hand'[v] = hand[v]
      /\ step'[w] = s /\ hand'[w] = j
  BY <1>1
<1>3. m \in HeldBy(Holding) <=> \E v \in Worker \ {w} : step[v] \in Holding /\ hand[v].msg = m
  BY DEF HeldBy
<1>4. m \in HeldBy(Holding)' <=> \E v \in Worker \ {w} : step'[v] \in Holding /\ hand'[v].msg = m
  BY <1>2 DEF HeldBy
<1> QED BY <1>2, <1>3, <1>4

\* Workers come to `delivered` only by a delivery.
DeliveredBefore ==
  \A w \in Worker : step'[w] = "delivered" => step[w] = "delivered" /\ hand'[w] = hand[w]

LEMMA StepOfNone ==
  ASSUME TypeOK, TypeOK', FateInv, DeliveredBefore, Faulted' \in {Faulted, TRUE},
         \A m \in Msg : SamePlace(m)
  PROVE  FateInv' /\ [Lifecycle!Next]_(Lifecycle!vars)
<1>1. [Lifecycle!Next]_(Lifecycle!vars) BY SameFate, NoneMoves
<1>2. Sent \subseteq Msg /\ Sent' \subseteq Msg /\ cleared \subseteq Msg /\ cleared' \subseteq Msg
  BY DEF Sent, TypeOK
<1>3. Sent' = Sent /\ cleared' = cleared BY <1>2 DEF SamePlace
<1>4. \A w \in Worker : step'[w] = "delivered" => hand'[w].msg \in Sent'
  BY <1>3 DEF FateInv, DeliveredBefore
<1>5. Sent' \cup cleared' \subseteq Accepted' BY <1>2, <1>3 DEF SamePlace, FateInv
<1>6. cleared' \cap (Waiting' \cup Buried') = {} BY <1>2, <1>3 DEF SamePlace, FateInv
<1> QED BY <1>1, <1>4, <1>5, <1>6 DEF FateInv

LEMMA StepOfOne ==
  ASSUME TypeOK, FateInv, DeliveredBefore, Faulted' \in {Faulted, TRUE},
         Sent' = Sent, Accepted' = Accepted, cleared' = cleared,
         NEW x \in Msg, \A m \in Msg \ {x} : SamePlace(m),
         x \in cleared => x \notin Waiting' \cup Buried',
         MayBecome(FateOf(x), FateOf(x)')
  PROVE  FateInv' /\ [Lifecycle!Next]_(Lifecycle!vars)
<1>1. [Lifecycle!Next]_(Lifecycle!vars) BY SameFate, OneMoves
<1>2. cleared \subseteq Msg BY DEF TypeOK
<1>3. \A w \in Worker : step'[w] = "delivered" => hand'[w].msg \in Sent'
  BY DEF FateInv, DeliveredBefore
<1>4. \A m \in cleared : m \notin Waiting' \cup Buried' BY <1>2 DEF SamePlace, FateInv
<1> QED BY <1>1, <1>3, <1>4 DEF FateInv

\* What the unchanged parts of a step leave alone.
LEMMA FateFrame ==
  /\ UNCHANGED queue => Payloads(queue)' = Payloads(queue)
  /\ UNCHANGED processing => Payloads(processing)' = Payloads(processing)
  /\ UNCHANGED dlq => Payloads(dlq)' = Payloads(dlq)
  /\ UNCHANGED popped => PoppedPayloads' = PoppedPayloads
  /\ UNCHANGED workerVars => HeldBy(Holding)' = HeldBy(Holding)
  /\ UNCHANGED <<published, sends, cleared>> =>
       Accepted' = Accepted /\ Sent' = Sent /\ cleared' = cleared
  /\ UNCHANGED <<stops, outages>> => Faulted' = Faulted
  /\ UNCHANGED workerVars => DeliveredBefore
  /\ Waiting' = Payloads(queue)' \cup Payloads(processing)' \cup HeldBy(Holding)'
  /\ Buried' = Payloads(dlq)' \cup PoppedPayloads'
BY DEF PoppedPayloads, HeldBy, Accepted, Sent, Faulted, DeliveredBefore, Waiting, Buried, workerVars

LEMMA PayloadsOfPop ==
  ASSUME NEW s, NEW t, NEW e, ToSet(s) = ToSet(t) \cup {e}
  PROVE  /\ e.msg \in Payloads(s)
         /\ \A m : m # e.msg => (m \in Payloads(s) <=> m \in Payloads(t))
         /\ Payloads(s) = Payloads(t) \cup {e.msg}
BY DEF Payloads

LEMMA PayloadsOfRemove ==
  ASSUME NEW s \in Seq(Job), NEW e
  PROVE  \A m : m # e.msg => (m \in Payloads(RemoveFirst(s, e)) <=> m \in Payloads(s))
<1> DEFINE t == RemoveFirst(s, e)
<1>1. ToSet(t) \subseteq ToSet(s) /\ ToSet(s) \subseteq ToSet(t) \cup {e} BY RemoveOne
<1> HIDE DEF t
<1> QED BY <1>1 DEF t, Payloads

\* A worker that goes on with what it holds, or without.
LEMMA MoveOn ==
  ASSUME TypeOK, NEW w \in Worker, NEW s, Goto(w, s), UNCHANGED hand,
         s \in Holding <=> step[w] \in Holding
  PROVE  HeldBy(Holding)' = HeldBy(Holding)
<1>1. step \in [Worker -> Step] /\ step' = [step EXCEPT ![w] = s] BY DEF TypeOK, Goto
<1>2. \A v \in Worker : step'[v] \in Holding <=> step[v] \in Holding BY <1>1
<1> QED BY <1>2 DEF HeldBy

LEMMA OthersKept ==
  ASSUME TypeOK, NEW w \in Worker, NEW s, s \notin Holding, PutDown(w, s),
         NEW m, hand[w].msg # m
  PROVE  m \in HeldBy(Holding)' <=> m \in HeldBy(Holding)
<1>1. Goto(w, s) /\ hand' = [hand EXCEPT ![w] = None] BY DEF PutDown
<1> QED BY <1>1, OthersHeld

LEMMA NotDelivered ==
  ASSUME TypeOK, NEW w \in Worker, NEW s, s # "delivered", Goto(w, s), NEW j,
         (hand' = [hand EXCEPT ![w] = j]) \/ UNCHANGED hand
  PROVE  DeliveredBefore
<1>1. /\ step \in [Worker -> Step] /\ hand \in [Worker -> Job \cup {None}]
      /\ step' = [step EXCEPT ![w] = s]
  BY DEF TypeOK, Goto
<1> QED BY <1>1 DEF DeliveredBefore

FateOK == TypeOK /\ CopiesInv /\ OneCopyEach /\ FateInv /\ \A m \in Msg : Placed(m)
Refines == FateInv' /\ [Lifecycle!Next]_(Lifecycle!vars)

\* What a worker is handed over is a job of an accepted payload.
LEMMA HandIsPlaced ==
  ASSUME FateOK, NEW w \in Worker, step[w] \in Holding
  PROVE  LET x == hand[w].msg IN
         /\ hand[w] \in Job /\ x \in Msg /\ x \in HeldBy(Holding) /\ x \in Waiting
         /\ x \in Accepted /\ x \notin Buried /\ x \notin cleared
         /\ FateOf(x) = IF x \in Sent THEN "delivered" ELSE "pending"
<1> DEFINE x == hand[w].msg
<1>1. hand[w] \in Job /\ x \in Msg BY HeldJob DEF FateOK
<1>2. x \in HeldBy(Holding) BY DEF HeldBy
<1>3. x \in Waiting BY <1>2 DEF Waiting
<1>4. Placed(x) BY <1>1 DEF FateOK
<1> HIDE DEF x
<1>5. x \notin Buried /\ x \in Accepted BY <1>2, <1>3, <1>4 DEF Placed, Buried
<1>6. x \notin cleared BY <1>3 DEF FateOK, FateInv
<1>7. FateOf(x) = IF x \in Sent THEN "delivered" ELSE "pending"
  BY <1>1, <1>3, <1>5, FateIs
<1> QED BY <1>1, <1>2, <1>3, <1>5, <1>6, <1>7 DEF x

LEMMA FateEnqueue ==
  ASSUME FateOK, TypeOK', OneCopyEach', NEW x \in Msg, Enqueue(x) PROVE Refines
<1> DEFINE e == [msg |-> x, attempts |-> 0]
<1>1. e \in Job /\ e.msg = x BY QueueAssumption DEF Job
<1>2. /\ queue' = Append(queue, e)
      /\ UNCHANGED <<processing, dlq, popped, sends, cleared, stops, outages>>
      /\ UNCHANGED workerVars
      /\ published' = [published EXCEPT ![x] = @ + 1]
  BY DEF Enqueue, scriptVars, faultVars
<1> HIDE DEF e
<1>3. published \in [Msg -> Nat] /\ published'[x] <= 1 /\ queue \in Seq(Job)
  BY DEF OneCopyEach, FateOK, TypeOK
<1>4. Payloads(queue)' = Payloads(queue) \cup {x}
  <2>1. ToSet(queue') = ToSet(queue) \cup {e} BY <1>1, <1>2, <1>3, PushTail
  <2> QED BY <1>1, <2>1, PayloadsOfPush
<1>5. Accepted' = Accepted \cup {x} /\ x \notin Accepted BY <1>2, <1>3 DEF Accepted
<1>6. Sent' = Sent /\ cleared' = cleared BY <1>2 DEF Sent
<1>7. Waiting' = Waiting \cup {x} /\ Buried' = Buried BY <1>2, <1>4, FateFrame DEF Waiting, Buried
<1>8. \A m \in Msg \ {x} : SamePlace(m) BY <1>5, <1>6, <1>7 DEF SamePlace
<1>9. x \notin Sent /\ x \notin cleared BY <1>5 DEF FateOK, FateInv
<1>10. FateOf(x) = "new" /\ FateOf(x)' = "pending"
  BY <1>5, <1>6, <1>7, <1>9, FateIs, FateIsNext
<1>11. Faulted' = Faulted BY <1>2, FateFrame
<1>12. [Lifecycle!Next]_(Lifecycle!vars) BY <1>8, <1>10, <1>11, SameFate, OneMoves DEF MayBecome
<1>13. FateInv'
  <2>1. \A w \in Worker : step'[w] = "delivered" => hand'[w].msg \in Sent'
    BY <1>2, <1>6 DEF FateOK, FateInv, workerVars
  <2>2. cleared' \cap (Waiting' \cup Buried') = {} BY <1>6, <1>7, <1>9 DEF FateOK, FateInv
  <2> QED BY <1>5, <1>6, <2>1, <2>2 DEF FateOK, FateInv
<1> QED BY <1>12, <1>13 DEF Refines

\* Steps that move nothing, or an entry from one list to the other.
LEMMA FateSame ==
  ASSUME FateOK, TypeOK', DeliveredBefore, UNCHANGED <<published, sends, cleared>>,
         Waiting' = Waiting, Buried' = Buried,
         UNCHANGED <<stops, outages>> \/ Faulted'
  PROVE  Refines
<1>1. Accepted' = Accepted /\ Sent' = Sent /\ cleared' = cleared BY FateFrame
<1>2. \A m \in Msg : SamePlace(m) BY <1>1 DEF SamePlace
<1>3. Faulted' \in {Faulted, TRUE}
  <2>1. Faulted' \in BOOLEAN BY DEF Faulted
  <2> QED BY <2>1, FateFrame
<1> QED BY <1>2, <1>3, StepOfNone DEF FateOK, Refines

\* A worker that has put its job down and removed, or pushed, nothing or one
\* entry: only the job's payload may have moved.
LEMMA FateDropped ==
  ASSUME FateOK, NEW w \in Worker, step[w] \in Holding, NEW s \in Step \ Holding,
         PutDown(w, s), UNCHANGED <<queue, processing, dlq, popped, published, sends, cleared>>,
         Faulted'
  PROVE  Refines
<1>0. hand[w].msg \in Msg BY HandIsPlaced
<1> PICK x \in Msg : x = hand[w].msg BY <1>0
<1>1. /\ x \in Accepted /\ x \notin Buried /\ x \notin cleared
      /\ FateOf(x) = IF x \in Sent THEN "delivered" ELSE "pending"
  BY HandIsPlaced
<1>2. Goto(w, s) /\ hand' = [hand EXCEPT ![w] = None] BY DEF PutDown
<1>3. ASSUME NEW m, m # x PROVE m \in HeldBy(Holding)' <=> m \in HeldBy(Holding)
  BY <1>2, <1>3, OthersHeld DEF FateOK
<1>4. Accepted' = Accepted /\ Sent' = Sent /\ cleared' = cleared BY FateFrame
<1>5. \A m \in Msg \ {x} : SamePlace(m) BY <1>3, <1>4, FateFrame DEF SamePlace, Waiting, Buried
<1>6. Buried' = Buried BY FateFrame DEF Buried
<1>7. MayBecome(FateOf(x), FateOf(x)')
  <2>1. FateOf(x)' = IF x \in Sent THEN "delivered"
                     ELSE IF x \in Waiting' THEN "pending" ELSE "lost"
    BY <1>1, <1>4, <1>6, FateIsNext
  <2> QED BY <1>1, <2>1 DEF MayBecome
<1>8. DeliveredBefore BY <1>2, NotDelivered DEF FateOK, Holding
<1>9. Faulted' \in {Faulted, TRUE}
  <2>1. Faulted' \in BOOLEAN BY DEF Faulted
  <2> QED BY <2>1
<1> QED BY <1>1, <1>4, <1>5, <1>7, <1>8, <1>9, StepOfOne DEF FateOK, Refines

\* A worker's command on a list, after which it holds its job or does not.
LEMMA FateRetry ==
  ASSUME FateOK, TypeOK', NEW w \in Worker, RetryAck(w) \/ Retry(w) PROVE Refines
<1>1. step[w] \in Holding BY DEF RetryAck, Retry, Holding
<1>2. hand[w] \in Job /\ hand[w].msg \in Msg BY <1>1, HandIsPlaced
<1> PICK e \in Job : e = hand[w] BY <1>2
<1>3. e.msg \in Msg /\ e.msg \in Waiting /\ e.msg \notin cleared BY <1>1, HandIsPlaced
<1>4. UNCHANGED <<dlq, popped, published, sends, cleared, stops, outages>>
  BY DEF RetryAck, Retry, scriptVars, faultVars, historyVars
<1>5. queue \in Seq(Job) /\ processing \in Seq(Job) BY DEF FateOK, TypeOK
<1>6. \A m : m \in Waiting' <=> m \in Waiting
  <2>1. CASE RetryAck(w)
    <3> DEFINE j == Attempted(e)
    <3>1. /\ UNCHANGED queue /\ processing' = RemoveFirst(processing, e)
          /\ Goto(w, "repush") /\ hand' = [hand EXCEPT ![w] = j]
      BY <2>1, HandIsPlaced DEF RetryAck, FateOK, TypeOK
    <3>2. j \in Job /\ j.msg = e.msg BY AttemptedIsAJob
    <3> HIDE DEF j
    <3>3. \A m : m # e.msg => (m \in Payloads(processing)' <=> m \in Payloads(processing))
      BY <1>5, <3>1, PayloadsOfRemove DEF Payloads
    <3>4. ASSUME NEW m, m # e.msg PROVE m \in HeldBy(Holding)' <=> m \in HeldBy(Holding)
      BY <3>1, <3>2, <3>4, OthersHeld DEF FateOK
    <3>5. e.msg \in HeldBy(Holding)'
      <4>1. step'[w] = "repush" /\ hand'[w] = j
        BY <3>1 DEF Goto, FateOK, TypeOK
      <4> QED BY <3>2, <4>1 DEF HeldBy, Holding
    <3> QED BY <1>3, <3>1, <3>3, <3>4, <3>5, FateFrame DEF Waiting
  <2>2. CASE Retry(w)
    <3>1. UNCHANGED processing /\ queue' = Append(queue, e) /\ PutDown(w, "idle")
      BY <2>2 DEF Retry
    <3>2. ToSet(queue') = ToSet(queue) \cup {e} BY <1>5, <3>1, PushTail
    <3>3. Payloads(queue)' = Payloads(queue) \cup {e.msg}
      <4> PICK x \in Msg : x = e.msg BY <1>3
      <4> QED BY <3>2, PayloadsOfPush
    <3>4. ASSUME NEW m, m # e.msg PROVE m \in HeldBy(Holding)' <=> m \in HeldBy(Holding)
      <4>1. "idle" \notin Holding BY DEF Holding
      <4> QED BY <3>1, <3>4, <4>1, OthersKept DEF FateOK
    <3> QED BY <1>3, <3>1, <3>3, <3>4, FateFrame DEF Waiting
  <2> QED BY <2>1, <2>2
<1>7. Waiting' = Waiting /\ Buried' = Buried BY <1>4, <1>6, FateFrame DEF Buried
<1>8. DeliveredBefore
  BY NotDelivered DEF RetryAck, Retry, PutDown, FateOK
<1> QED BY <1>4, <1>7, <1>8, FateSame

LEMMA FateBury ==
  ASSUME FateOK, TypeOK', \A m \in Msg : Placed(m)', NEW w \in Worker, MoveToDlq(w)
  PROVE  Refines
<1>1. step[w] \in Holding BY DEF MoveToDlq, Holding
<1>2. hand[w] \in Job /\ hand[w].msg \in Msg BY <1>1, HandIsPlaced
<1> PICK e \in Job : e = hand[w] BY <1>2
<1> PICK x \in Msg : x = e.msg BY <1>2
<1>3. /\ x \in Accepted /\ x \notin cleared
      /\ FateOf(x) = IF x \in Sent THEN "delivered" ELSE "pending"
  BY <1>1, HandIsPlaced
<1>4. /\ UNCHANGED <<queue, processing, popped, published, sends, cleared, stops, outages>>
      /\ dlq' = Append(dlq, e) /\ PutDown(w, "idle")
  BY DEF MoveToDlq, scriptVars, faultVars, historyVars
<1>5. Payloads(dlq)' = Payloads(dlq) \cup {x}
  <2>1. dlq \in Seq(Job) BY DEF FateOK, TypeOK
  <2>2. ToSet(dlq') = ToSet(dlq) \cup {e} BY <1>4, <2>1, PushTail
  <2> QED BY <2>2, PayloadsOfPush
<1>6. ASSUME NEW m, m # x PROVE m \in HeldBy(Holding)' <=> m \in HeldBy(Holding)
  <2>1. "idle" \notin Holding BY DEF Holding
  <2> QED BY <1>4, <1>6, <2>1, OthersKept DEF FateOK
<1>7. Accepted' = Accepted /\ Sent' = Sent /\ cleared' = cleared /\ Faulted' = Faulted
  BY <1>4, FateFrame
<1>8. \A m \in Msg \ {x} : SamePlace(m)
  BY <1>4, <1>5, <1>6, <1>7, FateFrame DEF SamePlace, Waiting, Buried
<1>9. x \in Buried' /\ x \notin Waiting'
  <2>1. Placed(x)' OBVIOUS
  <2> QED BY <1>5, <2>1, FateFrame DEF Placed
<1>10. MayBecome(FateOf(x), FateOf(x)')
  <2>1. FateOf(x)' = IF x \in Sent THEN "delivered" ELSE "dead"
    BY <1>3, <1>7, <1>9, FateIsNext
  <2> QED BY <1>3, <1>7, <2>1 DEF MayBecome
<1>11. DeliveredBefore BY <1>4, NotDelivered DEF FateOK, PutDown
<1> QED BY <1>3, <1>7, <1>8, <1>10, <1>11, StepOfOne DEF FateOK, Refines

LEMMA FateDeliver ==
  ASSUME FateOK, TypeOK', NEW w \in Worker, HandleOk(w) PROVE Refines
<1>1. step[w] \in Holding BY DEF HandleOk, Holding
<1>2. hand[w].msg \in Msg BY <1>1, HandIsPlaced
<1> PICK x \in Msg : x = hand[w].msg BY <1>2
<1>3. /\ x \in Accepted /\ x \notin cleared /\ x \in Waiting
      /\ FateOf(x) = IF x \in Sent THEN "delivered" ELSE "pending"
  BY <1>1, HandIsPlaced
<1>4. /\ UNCHANGED <<queue, processing, dlq, popped, published, cleared, stops, outages>>
      /\ Goto(w, "delivered") /\ UNCHANGED hand
      /\ sends' = [sends EXCEPT ![x] = IF @ < 2 THEN @ + 1 ELSE @]
  BY DEF HandleOk, redisVars, scriptVars, faultVars
<1>5. Sent' = Sent \cup {x}
  <2>1. sends \in [Msg -> 0..2] BY DEF FateOK, TypeOK
  <2> QED BY <1>4, <2>1 DEF Sent
<1>6. HeldBy(Holding)' = HeldBy(Holding) BY <1>1, <1>4, MoveOn DEF FateOK, Holding
<1>7. /\ Waiting' = Waiting /\ Buried' = Buried /\ Accepted' = Accepted /\ cleared' = cleared
      /\ Faulted' = Faulted
  BY <1>4, <1>6, FateFrame DEF Waiting, Buried, Accepted
<1>8. \A m \in Msg \ {x} : SamePlace(m) BY <1>5, <1>7 DEF SamePlace
<1>9. FateOf(x)' = "delivered" BY <1>5, FateIsNext
<1>10. MayBecome(FateOf(x), FateOf(x)') BY <1>3, <1>7, <1>9 DEF MayBecome
<1>11. [Lifecycle!Next]_(Lifecycle!vars) BY <1>7, <1>8, <1>10, SameFate, OneMoves
<1>12. FateInv'
  <2>1. /\ step \in [Worker -> Step] /\ step' = [step EXCEPT ![w] = "delivered"]
    BY <1>4 DEF FateOK, TypeOK, Goto
  <2>2. \A v \in Worker : step'[v] = "delivered" => v = w \/ step[v] = "delivered" BY <2>1
  <2>3. \A v \in Worker : step'[v] = "delivered" => hand'[v].msg \in Sent'
    BY <1>4, <1>5, <2>2 DEF FateOK, FateInv
  <2> QED BY <1>3, <1>5, <1>7, <2>3 DEF FateOK, FateInv
<1> QED BY <1>11, <1>12 DEF Refines

\* Whatever was sent may lose its entry.
LEMMA FateAck ==
  ASSUME FateOK, TypeOK', NEW w \in Worker, Ack(w) \/ AckReplyLost(w) PROVE Refines
<1>1. step[w] = "delivered" BY DEF Ack, AckReplyLost
<1>2. hand[w] \in Job /\ hand[w].msg \in Msg BY <1>1, HandIsPlaced DEF Holding
<1> PICK e \in Job : e = hand[w] BY <1>2
<1> PICK x \in Msg : x = e.msg BY <1>2
<1>3. /\ x \in Accepted /\ x \notin cleared /\ x \in Sent
  BY <1>1, HandIsPlaced DEF Holding, FateOK, FateInv
<1>4. /\ UNCHANGED <<queue, dlq, popped, published, sends, cleared>>
      /\ processing' = RemoveFirst(processing, e)
  BY DEF Ack, AckReplyLost, scriptVars, historyVars
<1>5. \A m : m # x => (m \in Payloads(processing)' <=> m \in Payloads(processing))
  BY <1>4, PayloadsOfRemove DEF Payloads, FateOK, TypeOK
<1>6. ASSUME NEW m, m # x PROVE m \in HeldBy(Holding)' <=> m \in HeldBy(Holding)
  <2>1. CASE Ack(w)
    <3>1. PutDown(w, "idle") BY <2>1 DEF Ack
    <3>2. "idle" \notin Holding BY DEF Holding
    <3> QED BY <1>6, <3>1, <3>2, OthersKept DEF FateOK
  <2>2. CASE AckReplyLost(w)
    BY <1>1, <2>2, MoveOn DEF AckReplyLost, FateOK, Holding
  <2> QED BY <2>1, <2>2
<1>7. Accepted' = Accepted /\ Sent' = Sent /\ cleared' = cleared BY <1>4, FateFrame
<1>8. \A m \in Msg \ {x} : SamePlace(m)
  BY <1>4, <1>5, <1>6, <1>7, FateFrame DEF SamePlace, Waiting, Buried
<1>9. FateOf(x) = "delivered" /\ FateOf(x)' = "delivered" BY <1>3, <1>7, FateIs, FateIsNext
<1>10. Faulted' \in {Faulted, TRUE}
  <2>1. UNCHANGED <<stops, outages>> \/ (stops' = stops /\ outages' = outages + 1)
    BY DEF Ack, AckReplyLost, faultVars
  <2>2. stops \in Nat /\ outages \in Nat BY DEF FateOK, TypeOK
  <2>3. CASE UNCHANGED <<stops, outages>> BY <2>3, FateFrame
  <2>4. CASE stops' = stops /\ outages' = outages + 1
    <3>1. Faulted' BY <2>2, <2>4 DEF Faulted
    <3>2. Faulted' \in BOOLEAN BY DEF Faulted
    <3> QED BY <3>1, <3>2
  <2> QED BY <2>1, <2>3, <2>4
<1>11. DeliveredBefore BY NotDelivered DEF Ack, AckReplyLost, PutDown, FateOK
<1> QED BY <1>3, <1>7, <1>8, <1>9, <1>10, <1>11, StepOfOne DEF FateOK, Refines, MayBecome

\* Steps of workers that move nothing or put their job down.
LEMMA FateQuietWorker ==
  ASSUME FateOK, TypeOK', NEW w \in Worker,
         \/ Start(w) \/ RecoverDone(w) \/ StartFails(w) \/ HandleFail(w) \/ AckFails(w)
         \/ RetryAckFails(w) \/ RepushFails(w) \/ Stop(w)
  PROVE  Refines
<1>1. UNCHANGED <<queue, processing, dlq, popped, published, sends, cleared>>
  BY DEF Start, RecoverDone, StartFails, HandleFail, AckFails, RetryAckFails, RepushFails, Stop,
         redisVars, scriptVars, historyVars
<1>2. stops \in Nat /\ outages \in Nat /\ step \in [Worker -> Step] BY DEF FateOK, TypeOK
<1>3. Buried' = Buried BY <1>1, FateFrame DEF Buried
<1>4. CASE Start(w) \/ RecoverDone(w) \/ StartFails(w) \/ HandleFail(w) \/ AckFails(w)
  <2>1. UNCHANGED hand /\ UNCHANGED <<stops, outages>>
    BY <1>4 DEF Start, RecoverDone, StartFails, HandleFail, AckFails, faultVars
  <2>2. PICK s \in Step \ {"delivered"} : Goto(w, s) /\ (s \in Holding <=> step[w] \in Holding)
    BY <1>4 DEF Start, RecoverDone, StartFails, HandleFail, AckFails, Step, Holding
  <2>3. HeldBy(Holding)' = HeldBy(Holding) BY <2>1, <2>2, MoveOn DEF FateOK
  <2>4. Waiting' = Waiting BY <1>1, <2>3, FateFrame DEF Waiting
  <2>5. DeliveredBefore BY <2>1, <2>2, NotDelivered DEF FateOK
  <2> QED BY <1>1, <1>3, <2>1, <2>4, <2>5, FateSame
<1>5. CASE RetryAckFails(w) \/ RepushFails(w)
  <2>1. PutDown(w, "idle") /\ step[w] \in Holding /\ ~redisUp /\ UNCHANGED <<stops, outages>>
    BY <1>5 DEF RetryAckFails, RepushFails, Holding, faultVars
  <2>2. outages > 0 BY <2>1 DEF FateOK, CopiesInv
  <2>3. Faulted' BY <1>2, <2>1, <2>2 DEF Faulted
  <2>4. "idle" \in Step \ Holding BY DEF Step, Holding
  <2> QED BY <1>1, <2>1, <2>3, <2>4, FateDropped
<1>6. CASE Stop(w)
  <2>1. PutDown(w, "stopped") /\ stops' = stops + 1 /\ outages' = outages
    BY <1>6 DEF Stop
  <2>2. Faulted' BY <1>2, <2>1 DEF Faulted
  <2>3. "stopped" \in Step \ Holding BY DEF Step, Holding
  <2>4. CASE step[w] \in Holding BY <1>1, <2>1, <2>2, <2>3, <2>4, FateDropped
  <2>5. CASE step[w] \notin Holding
    <3>1. hand[w] = None /\ hand \in [Worker -> Job \cup {None}] BY <2>5 DEF FateOK, TypeOK
    <3>2. UNCHANGED hand BY <2>1, <3>1 DEF PutDown
    <3>3. HeldBy(Holding)' = HeldBy(Holding)
      BY <2>1, <2>3, <2>5, <3>2, MoveOn DEF FateOK, PutDown
    <3>4. Waiting' = Waiting BY <1>1, <3>3, FateFrame DEF Waiting
    <3>5. DeliveredBefore BY <2>1, NotDelivered DEF FateOK, PutDown
    <3> QED BY <1>1, <1>3, <2>2, <3>4, <3>5, FateSame
  <2> QED BY <2>4, <2>5
<1> QED BY <1>4, <1>5, <1>6

\* An entry goes from one of the two lists to the other.
LEMMA FateRecover ==
  ASSUME FateOK, TypeOK', NEW w \in Worker, RecoverOne(w) PROVE Refines
<1> PICK e : e = Last(processing) OBVIOUS
<1>1. /\ processing # <<>> /\ queue' = Cons(e, queue) /\ processing' = Front(processing)
      /\ UNCHANGED <<dlq, popped, published, sends, cleared, stops, outages>> /\ UNCHANGED workerVars
  BY DEF RecoverOne, scriptVars, faultVars
<1>2. queue \in Seq(Job) /\ processing \in Seq(Job) BY DEF FateOK, TypeOK
<1>3. e \in Job /\ ToSet(processing) = ToSet(processing') \cup {e} BY <1>1, <1>2, PopTail
<1>4. ToSet(queue') = ToSet(queue) \cup {e}
  <2>1. e \in Job BY <1>3
  <2>2. ToSet(Cons(e, queue)) = ToSet(queue) \cup {e} BY <1>2, <2>1, PushHead
  <2> QED BY <1>1, <2>2
<1> PICK x : x = e.msg OBVIOUS
<1>5. Payloads(queue)' = Payloads(queue) \cup {x} BY <1>4, PayloadsOfPush
<1>6. Payloads(processing) = Payloads(processing)' \cup {x} BY <1>3, PayloadsOfPush
<1>7. Waiting' = Waiting /\ Buried' = Buried BY <1>1, <1>5, <1>6, FateFrame DEF Waiting, Buried
<1> QED BY <1>1, <1>7, FateFrame, FateSame

LEMMA FateTake ==
  ASSUME FateOK, TypeOK', NEW w \in Worker, Dequeue(w) \/ DequeueReplyLost(w) PROVE Refines
<1> PICK e : e = Last(queue) OBVIOUS
<1>1. /\ queue # <<>> /\ processing' = Cons(e, processing) /\ queue' = Front(queue)
      /\ UNCHANGED <<dlq, popped, published, sends, cleared>>
      /\ step[w] = "idle"
  BY DEF Dequeue, DequeueReplyLost, TakeTail, scriptVars, historyVars
<1>2. queue \in Seq(Job) /\ processing \in Seq(Job) BY DEF FateOK, TypeOK
<1>3. e \in Job /\ ToSet(queue) = ToSet(queue') \cup {e} BY <1>1, <1>2, PopTail
<1>4. ToSet(processing') = ToSet(processing) \cup {e}
  <2>1. e \in Job BY <1>3
  <2>2. ToSet(Cons(e, processing)) = ToSet(processing) \cup {e} BY <1>2, <2>1, PushHead
  <2> QED BY <1>1, <2>2
<1> PICK x : x = e.msg OBVIOUS
<1>5. Payloads(processing)' = Payloads(processing) \cup {x} BY <1>4, PayloadsOfPush
<1>6. Payloads(queue) = Payloads(queue)' \cup {x} BY <1>3, PayloadsOfPush
<1>7. ASSUME NEW m, m # x PROVE m \in HeldBy(Holding)' <=> m \in HeldBy(Holding)
  <2>1. CASE Dequeue(w)
    <3>1. Goto(w, "delivering") /\ hand' = [hand EXCEPT ![w] = e] BY <2>1 DEF Dequeue
    <3>2. step[w] \notin Holding BY <1>1 DEF Holding
    <3> QED BY <1>7, <3>1, <3>2, OthersHeld DEF FateOK
  <2>2. CASE DequeueReplyLost(w) BY <2>2, FateFrame DEF DequeueReplyLost
  <2> QED BY <2>1, <2>2
<1>8. Waiting' = Waiting
  <2>1. ASSUME NEW m PROVE m \in Waiting' <=> m \in Waiting
    BY <1>5, <1>6, <1>7, FateFrame DEF Waiting
  <2> QED BY <2>1
<1>9. Buried' = Buried BY <1>1, FateFrame DEF Buried
<1>10. DeliveredBefore
  <2>1. CASE Dequeue(w) BY <2>1, NotDelivered DEF Dequeue, FateOK
  <2>2. CASE DequeueReplyLost(w) BY <2>2, FateFrame DEF DequeueReplyLost
  <2> QED BY <2>1, <2>2
<1>11. UNCHANGED <<stops, outages>> \/ Faulted'
  <2>1. stops \in Nat /\ outages \in Nat BY DEF FateOK, TypeOK
  <2>2. UNCHANGED <<stops, outages>> \/ (stops' = stops /\ outages' = outages + 1)
    BY DEF Dequeue, DequeueReplyLost, faultVars
  <2>3. ASSUME stops' = stops, outages' = outages + 1 PROVE Faulted' BY <2>1, <2>3 DEF Faulted
  <2> QED BY <2>2, <2>3
<1> QED BY <1>1, <1>8, <1>9, <1>10, <1>11, FateSame

-----------------------------------------------------------------------------
\* The operator's script.
LEMMA FateScript ==
  ASSUME FateOK, TypeOK', RequeueStart \/ RequeuePop \/ RequeuePush \/ RequeueEnd \/ RequeueFails
  PROVE  Refines
<1>1. /\ UNCHANGED <<published, sends, cleared, stops, outages>> /\ UNCHANGED workerVars
      /\ UNCHANGED processing
  BY DEF RequeueStart, RequeuePop, RequeuePush, RequeueEnd, RequeueFails,
         redisVars, faultVars, historyVars
<1>2. DeliveredBefore /\ Faulted' = Faulted BY <1>1, FateFrame
<1>3. /\ queue \in Seq(Job) /\ dlq \in Seq(Job) /\ popped \in Job \cup {None}
      /\ stops \in Nat /\ outages \in Nat
  BY DEF FateOK, TypeOK
<1>4. CASE RequeueStart \/ RequeueEnd
  <2>1. Waiting' = Waiting /\ Buried' = Buried
    BY <1>1, <1>4, FateFrame DEF RequeueStart, RequeueEnd, Waiting, Buried, redisVars
  <2> QED BY <1>1, <1>2, <2>1, FateSame
<1>5. CASE RequeuePop
  <2>1. /\ popped = None /\ dlq # <<>> /\ popped' = Head(dlq) /\ dlq' = Tail(dlq)
        /\ UNCHANGED queue
    BY <1>5 DEF RequeuePop
  <2>2. Head(dlq) \in Job /\ ToSet(dlq) = ToSet(dlq') \cup {Head(dlq)} BY <1>3, <2>1, PopHead
  <2> PICK e \in Job : e = Head(dlq) BY <2>2
  <2> PICK x : x = e.msg OBVIOUS
  <2>3. Payloads(dlq) = Payloads(dlq)' \cup {x} BY <2>2, PayloadsOfPush
  <2>4. PoppedPayloads = {} /\ PoppedPayloads' = {x}
    BY <2>1, QueueAssumption DEF PoppedPayloads
  <2>5. Buried' = Buried /\ Waiting' = Waiting
    BY <1>1, <2>1, <2>3, <2>4, FateFrame DEF Buried, Waiting
  <2> QED BY <1>1, <1>2, <2>5, FateSame
<1>6. CASE /\ \/ RequeuePush
              \/ RequeueFails /\ popped # None
  <2>1. popped \in Job /\ popped.msg \in Msg BY <1>3, <1>6 DEF RequeuePush, Job
  <2> PICK e \in Job : e = popped BY <2>1
  <2> PICK x \in Msg : x = e.msg BY <2>1
  <2>2. popped # None /\ popped' = None /\ UNCHANGED dlq
    BY <1>6 DEF RequeuePush, RequeueFails, redisVars
  <2>3. PoppedPayloads = {x} /\ PoppedPayloads' = {} BY <2>2 DEF PoppedPayloads
  <2>4. Placed(x) BY DEF FateOK
  <2>5. x \in Buried /\ x \notin Payloads(dlq) /\ x \notin Waiting
    BY <2>3, <2>4 DEF Placed, Waiting, Buried
  <2>6. x \in Accepted /\ x \notin cleared BY <2>4, <2>5 DEF Placed, FateOK, FateInv
  <2>7. Accepted' = Accepted /\ Sent' = Sent /\ cleared' = cleared BY <1>1, FateFrame
  <2>8. Buried' = Buried \ {x} BY <2>2, <2>3, <2>5, FateFrame DEF Buried
  <2>9. FateOf(x) = IF x \in Sent THEN "delivered" ELSE "dead" BY <2>5, <2>6, FateIs
  <2>10. CASE RequeuePush
    <3>1. ToSet(queue') = ToSet(queue) \cup {e} BY <1>3, <2>10, PushTail DEF RequeuePush
    <3>2. Payloads(queue)' = Payloads(queue) \cup {x} BY <3>1, PayloadsOfPush
    <3>3. Waiting' = Waiting \cup {x} BY <1>1, <3>2, FateFrame DEF Waiting
    <3>4. \A m \in Msg \ {x} : SamePlace(m) BY <2>7, <2>8, <3>3 DEF SamePlace
    <3>5. FateOf(x)' = IF x \in Sent THEN "delivered" ELSE "pending"
      BY <2>6, <2>7, <3>3, FateIsNext
    <3>6. MayBecome(FateOf(x), FateOf(x)') BY <1>2, <2>9, <3>5 DEF MayBecome
    <3> QED BY <1>2, <2>6, <2>7, <3>4, <3>6, StepOfOne DEF FateOK, Refines
  <2>11. CASE RequeueFails
    <3>1. Waiting' = Waiting BY <1>1, <2>11, FateFrame DEF RequeueFails, Waiting, redisVars
    <3>2. \A m \in Msg \ {x} : SamePlace(m) BY <2>7, <2>8, <3>1 DEF SamePlace
    <3>3. FateOf(x)' = IF x \in Sent THEN "delivered" ELSE "lost"
      BY <2>5, <2>6, <2>7, <2>8, <3>1, FateIsNext
    <3>4. outages > 0 BY <2>11 DEF RequeueFails, FateOK, CopiesInv
    <3>5. Faulted' BY <1>1, <1>3, <3>4 DEF Faulted
    <3>6. MayBecome(FateOf(x), FateOf(x)') BY <2>9, <3>3, <3>5 DEF MayBecome
    <3>7. x \notin Waiting' \cup Buried' BY <2>5, <2>8, <3>1
    <3> QED BY <1>2, <2>7, <3>2, <3>6, <3>7, StepOfOne DEF FateOK, Refines
  <2> QED BY <1>6, <2>10, <2>11
<1>7. CASE RequeueFails /\ popped = None
  <2>1. Waiting' = Waiting /\ Buried' = Buried
    BY <1>1, <1>7, FateFrame DEF RequeueFails, Waiting, Buried, redisVars
  <2> QED BY <1>1, <1>2, <2>1, FateSame
<1> QED BY <1>4, <1>5, <1>6, <1>7

LEMMA FateClear ==
  ASSUME FateOK, TypeOK', ClearDlq PROVE Refines
<1>1. /\ dlq # <<>> /\ dlq' = <<>> /\ cleared' = cleared \cup Payloads(dlq)
      /\ UNCHANGED <<queue, processing, popped, published, sends, stops, outages>>
      /\ UNCHANGED workerVars
  BY DEF ClearDlq, scriptVars, faultVars
<1> DEFINE D == Payloads(dlq)
           F == [m \in Msg |-> FateOf(m)]
           Gone == {m \in Msg : m \in D /\ FateOf(m) = "dead"}
<1>2. Payloads(dlq)' = {}
  <2>1. ToSet(<<>>) = {} BY DEF ToSet
  <2> QED BY <1>1, <2>1 DEF Payloads
<1>3. Accepted' = Accepted /\ Sent' = Sent /\ Faulted' = Faulted
  BY <1>1 DEF Accepted, Sent, Faulted
<1>4. Waiting' = Waiting /\ Buried' = PoppedPayloads
  BY <1>1, <1>2, FateFrame DEF Waiting, Buried
<1>5. D \subseteq Msg
  <2>1. dlq \in Seq(Job) BY DEF FateOK, TypeOK
  <2>2. \A j \in ToSet(dlq) : j \in Job BY <2>1 DEF ToSet
  <2>3. \A j \in Job : j.msg \in Msg BY DEF Job
  <2> QED BY <2>2, <2>3 DEF Payloads
<1>6. ASSUME NEW m \in Msg, m \in D
      PROVE  /\ m \in Accepted /\ m \in cleared' /\ m \notin Waiting' \cup Buried'
             /\ FateOf(m) = IF m \in Sent THEN "delivered" ELSE "dead"
             /\ FateOf(m)' = IF m \in Sent THEN "delivered" ELSE "discarded"
  <2>1. Placed(m) BY DEF FateOK
  <2>2. m \in Accepted /\ m \in Buried /\ m \notin PoppedPayloads /\ m \notin Waiting
    BY <1>6, <2>1 DEF Placed, Waiting, Buried
  <2>3. m \in cleared' /\ m \notin Waiting' \cup Buried' BY <1>1, <1>4, <1>6, <2>2
  <2> QED BY <1>3, <2>2, <2>3, FateIs, FateIsNext
<1>7. ASSUME NEW m \in Msg, m \notin D PROVE FateOf(m)' = FateOf(m)
  <2>1. SamePlace(m) BY <1>1, <1>3, <1>4, <1>7 DEF SamePlace, Buried
  <2> QED BY <2>1, SameFate
<1>8. ASSUME NEW m \in Msg
      PROVE  FateOf(m)' = IF m \in Gone THEN "discarded" ELSE FateOf(m)
  BY <1>6, <1>7
<1>9. [Lifecycle!Next]_(Lifecycle!vars)
  <2>1. CASE Gone = {}
    <3>1. \A m \in Msg : FateOf(m)' = FateOf(m) BY <1>8, <2>1
    <3> QED BY <1>3, <3>1, NoneMoves
  <2>2. CASE Gone # {}
    <3> PICK G : G = Gone OBVIOUS
    <3>1. G \in SUBSET {m \in Msg : F[m] = "dead"} /\ G # {} BY <2>2
    <3>2. F' = [m \in Msg |-> IF m \in G THEN "discarded" ELSE F[m]]
      <4>1. \A m \in Msg : FateOf(m)' = IF m \in G THEN "discarded" ELSE FateOf(m) BY <1>8
      <4> HIDE DEF Gone, D
      <4> QED BY <4>1
    <3>3. (stops' + outages' > 0) = (stops + outages > 0) BY <1>1
    <3>4. Lifecycle!DiscardAll BY <3>1, <3>2, <3>3 DEF Lifecycle!DiscardAll
    <3> QED BY <3>4 DEF Lifecycle!Next
  <2> QED BY <2>1, <2>2
<1>10. FateInv'
  <2>1. \A w \in Worker : step'[w] = "delivered" => hand'[w].msg \in Sent'
    BY <1>1, <1>3 DEF FateOK, FateInv, workerVars
  <2>2. Sent' \cup cleared' \subseteq Accepted' BY <1>1, <1>3, <1>5, <1>6 DEF FateOK, FateInv
  <2>3. ASSUME NEW m \in cleared PROVE m \notin Waiting' \cup Buried'
    BY <1>4 DEF FateOK, FateInv, Buried
  <2>4. cleared' \cap (Waiting' \cup Buried') = {} BY <1>1, <1>5, <1>6, <2>3
  <2> QED BY <2>1, <2>2, <2>4 DEF FateInv
<1> QED BY <1>9, <1>10 DEF Refines

LEMMA FateRedis ==
  ASSUME FateOK, TypeOK', RedisDown \/ RedisBack PROVE Refines
<1>1. /\ UNCHANGED <<queue, processing, dlq, popped, published, sends, cleared>>
      /\ UNCHANGED workerVars
  BY DEF RedisDown, RedisBack, redisVars, scriptVars, historyVars
<1>2. Waiting' = Waiting /\ Buried' = Buried BY <1>1, FateFrame DEF Waiting, Buried
<1>3. UNCHANGED <<stops, outages>> \/ Faulted'
  <2>1. stops \in Nat /\ outages \in Nat BY DEF FateOK, TypeOK
  <2>2. UNCHANGED <<stops, outages>> \/ (stops' = stops /\ outages' = outages + 1)
    BY DEF RedisDown, RedisBack
  <2>3. ASSUME stops' = stops, outages' = outages + 1 PROVE Faulted' BY <2>1, <2>3 DEF Faulted
  <2> QED BY <2>2, <2>3
<1> QED BY <1>1, <1>2, <1>3, FateFrame, FateSame

LEMMA LifecycleNext ==
  ASSUME FateOK, TypeOK', OneCopyEach', \A m \in Msg : Placed(m)', [Next]_vars
  PROVE  Refines
<1>1. CASE UNCHANGED vars
  <2>1. /\ UNCHANGED <<queue, processing, dlq, popped, published, sends, cleared, stops, outages>>
        /\ UNCHANGED workerVars
    BY <1>1 DEF vars, redisVars, scriptVars, historyVars, faultVars
  <2>2. Waiting' = Waiting /\ Buried' = Buried BY <2>1, FateFrame DEF Waiting, Buried
  <2> QED BY <2>1, <2>2, FateFrame, FateSame
<1>2. ASSUME NEW m \in Msg, Enqueue(m) PROVE Refines BY <1>2, FateEnqueue
<1>3. ASSUME NEW w \in Worker,
             \/ Start(w) \/ Recover(w) \/ Dequeue(w) \/ DequeueReplyLost(w) \/ AckReplyLost(w)
             \/ Handle(w) \/ Settle(w) \/ Stop(w)
      PROVE  Refines
  BY <1>3, FateQuietWorker, FateRecover, FateTake, FateAck, FateDeliver, FateRetry, FateBury
  DEF Recover, Handle, Settle
<1>4. CASE RequeueStart \/ Requeue BY <1>4, FateScript DEF Requeue
<1>5. CASE ClearDlq BY <1>5, FateClear
<1>6. CASE RedisDown \/ RedisBack BY <1>6, FateRedis
<1> QED BY <1>1, <1>2, <1>3, <1>4, <1>5, <1>6 DEF Next

LEMMA FateInit == Init => FateInv /\ Lifecycle!Init
<1> SUFFICES ASSUME Init PROVE FateInv /\ Lifecycle!Init OBVIOUS
<1>1. Sent = {} /\ Accepted = {} /\ cleared = {} BY DEF Init, Sent, Accepted
<1>2. \A m \in Msg : FateOf(m) = "new" BY <1>1, FateIs
<1>3. ~(stops + outages > 0) BY DEF Init
<1>4. \A w \in Worker : step[w] # "delivered" BY DEF Init
<1>5. FateInv BY <1>1, <1>4 DEF FateInv
<1>6. Lifecycle!Init BY <1>2, <1>3 DEF Lifecycle!Init
<1> QED BY <1>5, <1>6

\* The lists, any number of workers with their recoveries, faults and the
\* operator's script keep the promise of JobLifecycle for payloads enqueued once:
\* delivery is final, a dead-lettered payload comes back only by the script, and
\* none is lost but after a stop or an outage.
THEOREM LifecycleCorrect == Spec /\ []OneCopyEach => KeepsTheLifecycle
<1> DEFINE Inv == TypeOK /\ CopiesInv /\ FateInv
<1>1. TypeOK /\ CopiesInv /\ OneCopyEach => \A m \in Msg : Placed(m)
  BY OneCopyIsPlaced
<1>2. (TypeOK /\ CopiesInv /\ OneCopyEach => \A m \in Msg : Placed(m))'
  BY <1>1, PTL
<1>3. Init => Inv /\ Lifecycle!Init BY TypeInit, CopiesInit, FateInit
<1>4. Inv /\ OneCopyEach /\ OneCopyEach' /\ [Next]_vars =>
        Inv' /\ [Lifecycle!Next]_(Lifecycle!vars)
  <2> SUFFICES ASSUME Inv, OneCopyEach, OneCopyEach', [Next]_vars
               PROVE  Inv' /\ [Lifecycle!Next]_(Lifecycle!vars)
    OBVIOUS
  <2>1. TypeOK' /\ CopiesInv' BY TypeNext, CopiesNext
  <2>2. \A m \in Msg : Placed(m)' BY <1>2, <2>1
  <2>3. FateOK BY <1>1 DEF FateOK
  <2>4. Refines BY <2>1, <2>2, <2>3, LifecycleNext
  <2> QED BY <2>1, <2>4 DEF Refines
<1> QED BY <1>3, <1>4, PTL DEF Spec, KeepsTheLifecycle, Lifecycle!Spec

-----------------------------------------------------------------------------
(* SosDelivery: the detailed handler implements the abstract one.          *)

LEMMA HandlerStep ==
  ASSUME NEW w \in Worker, Handler(w) PROVE Next \/ UNCHANGED vars
<1>1. CASE Begin(w) BY <1>1 DEF Begin, Next
<1>2. CASE \/ Lookup(w) \/ SendChunk(w) \/ SendFails(w) \/ SendDone(w)
           \/ MarkAllFailed(w) \/ MarkAllFails(w)
  BY <1>2 DEF Lookup, SendChunk, SendFails, SendDone, MarkAllFailed, MarkAllFails
<1>3. CASE LookupFails(w) \/ MarkFails(w) \/ CleanUpFails(w)
  BY <1>3 DEF LookupFails, MarkFails, CleanUpFails, DbFails
<1>4. CASE \/ MarkDelivered(w) \/ MarkTokenless(w) \/ MarkUnreachable(w)
           \/ Unmark(w) \/ UnmarkTokenless(w)
  BY <1>4 DEF MarkDelivered, MarkTokenless, MarkUnreachable, Unmark,
              UnmarkTokenless, MarkStep
<1>5. CASE CleanUp(w) BY <1>5 DEF CleanUp, Handle, Next
<1>6. CASE Raise(w) BY <1>6 DEF Raise, Handle, Next
<1>7. CASE Repush(w) \/ DeadLetterFails(w)
  BY <1>7 DEF Repush, DeadLetterFails, Settle, Next
<1> QED BY <1>1, <1>2, <1>3, <1>4, <1>5, <1>6, <1>7 DEF Handler

LEMMA RestStep ==
  ASSUME QueueStep PROVE Next
BY DEF QueueStep, Next, Settle

LEMMA ImplementsNext == [SosNext]_sosVars => [Next]_vars
<1> SUFFICES ASSUME [SosNext]_sosVars PROVE Next \/ UNCHANGED vars OBVIOUS
<1>1. CASE QueueStep BY <1>1, RestStep
<1>2. ASSUME NEW w \in Worker, Handler(w) PROVE Next \/ UNCHANGED vars
  BY <1>2, HandlerStep
<1>3. ASSUME NEW w \in Worker, StopWorker(w) PROVE Next
  BY <1>3 DEF StopWorker, Next
<1>4. ASSUME NEW t \in Token, Register(t) PROVE UNCHANGED vars
  BY <1>4 DEF Register
<1>5. CASE UNCHANGED sosVars BY <1>5 DEF sosVars
<1> QED BY <1>1, <1>2, <1>3, <1>4, <1>5 DEF SosNext

\* Looking up tokens, posting chunks, marking recipients and deleting tokens,
\* with the database and Expo failing at any of them, is one of the outcomes
\* NotificationQueue allows a handler, and nothing else.
THEOREM DeliveryImplementsQueue == SosSpec => Spec
<1>1. SosInit => Init BY DEF SosInit
<1> QED BY <1>1, ImplementsNext, PTL DEF SosSpec, Spec

\* So with the detailed handler, too, no alert is lost without a fault.
THEOREM DeliveryLosesNothing == SosSpec => []NoLossWithoutFault
BY DeliveryImplementsQueue, NoLossCorrect


-----------------------------------------------------------------------------
(* Type correctness of the handler's variables.                            *)

LocalOK ==
  /\ sub \in [Worker -> Sub]
  /\ found \in [Worker -> SUBSET Token] /\ rest \in [Worker -> SUBSET Token]
  /\ stale \in [Worker -> SUBSET Token] /\ owed \in [Worker -> Msg \cup {None}]
TableOK ==
  /\ tokens \in SUBSET Token /\ dead \in SUBSET Token
  /\ status \in [Msg -> [User -> Status]]
  /\ accepted \in [Token -> Nat] /\ dbFaults \in Nat
Inside == Sub \ {"none", "mark all failed"}
\* The handler's steps are the queue's "delivering".
Place(w) ==
  /\ sub[w] \in Inside <=> step[w] = "delivering"
  /\ owed[w] # None <=> sub[w] = "mark all failed"
Places == \A w \in Worker : Place(w)
SosOK == TypeOK /\ LocalOK /\ TableOK /\ Places

LEMMA SosOKIsTypeOK == SosOK <=> SosTypeOK
<1>1. LocalOK => \A w \in Worker : sub[w] \in Inside <=> sub[w] \notin {"none", "mark all failed"}
  BY DEF LocalOK, Inside
<1> QED BY <1>1 DEF SosOK, SosTypeOK, LocalOK, TableOK, Places, Place

\* Nothing but Dequeue and the end of the handler changes these steps.
LEMMA QueueStepKeeps ==
  ASSUME TypeOK, QueueStep
  PROVE  /\ UNCHANGED deliveryVars
         /\ \A w \in Worker :
              /\ step'[w] = "delivering" <=> step[w] = "delivering"
              /\ step'[w] = "delivered" => step[w] = "delivered"
              /\ step[w] \in {"repush", "idle"} => step'[w] = step[w]
              /\ step'[w] \in {"delivering", "delivered"} => hand'[w] = hand[w]
<1>1. UNCHANGED deliveryVars BY DEF QueueStep
<1>2. step \in [Worker -> Step] /\ hand \in [Worker -> Job \cup {None}] BY DEF TypeOK
<1>3. CASE (\E m \in Msg : Enqueue(m)) \/ RequeueStart \/ Requeue \/ ClearDlq \/ RedisDown \/ RedisBack
  <2>1. UNCHANGED <<step, hand>>
    BY <1>3 DEF Enqueue, RequeueStart, Requeue, RequeuePop, RequeuePush, RequeueEnd, RequeueFails,
       ClearDlq, RedisDown, RedisBack, workerVars
  <2> QED BY <1>1, <2>1
<1>4. ASSUME NEW v \in Worker, DequeueReplyLost(v) PROVE UNCHANGED <<step, hand>>
  BY <1>4 DEF DequeueReplyLost, workerVars
<1>5. ASSUME NEW v \in Worker,
             \/ Start(v) \/ Recover(v) \/ Ack(v) \/ AckFails(v) \/ AckReplyLost(v)
             \/ RetryAck(v) \/ RetryAckFails(v)
      PROVE  \/ UNCHANGED <<step, hand>>
             \/ /\ step[v] \notin {"delivering", "repush", "idle"}
                /\ \E s \in Step \ {"delivering", "delivered"} : step' = [step EXCEPT ![v] = s]
                /\ \A u \in Worker \ {v} : hand'[u] = hand[u]
  <2>1. CASE Start(v) BY <2>1 DEF Start, Goto, Step
  <2>2. CASE RecoverOne(v) BY <2>2 DEF RecoverOne, workerVars
  <2>3. CASE RecoverDone(v) BY <2>3 DEF RecoverDone, Goto, Step
  <2>4. CASE StartFails(v) BY <2>4 DEF StartFails, Goto, Step
  <2>5. CASE Ack(v) BY <1>2, <2>5 DEF Ack, PutDown, Goto, Step
  <2>6. CASE AckFails(v) BY <2>6 DEF AckFails, Goto, Step
  <2>7. CASE AckReplyLost(v) BY <2>7 DEF AckReplyLost, Goto, Step
  <2>8. CASE RetryAck(v) BY <1>2, <2>8 DEF RetryAck, Goto, Step
  <2>9. CASE RetryAckFails(v) BY <1>2, <2>9 DEF RetryAckFails, PutDown, Goto, Step
  <2> QED BY <1>5, <2>1, <2>2, <2>3, <2>4, <2>5, <2>6, <2>7, <2>8, <2>9 DEF Recover
<1>6. ASSUME NEW v \in Worker,
             \/ Start(v) \/ Recover(v) \/ Ack(v) \/ AckFails(v) \/ AckReplyLost(v)
             \/ RetryAck(v) \/ RetryAckFails(v),
             NEW w \in Worker
      PROVE  /\ step'[w] = "delivering" <=> step[w] = "delivering"
             /\ step'[w] = "delivered" => step[w] = "delivered"
             /\ step[w] \in {"repush", "idle"} => step'[w] = step[w]
             /\ step'[w] \in {"delivering", "delivered"} => hand'[w] = hand[w]
  <2>1. CASE UNCHANGED <<step, hand>> BY <2>1
  <2>2. CASE w # v /\ step'[w] = step[w] /\ hand'[w] = hand[w] BY <2>2
  <2>3. CASE w = v /\ step[v] \notin {"delivering", "repush", "idle"}
             /\ step'[v] \notin {"delivering", "delivered"}
    BY <2>3
  <2>4. CASE ~ UNCHANGED <<step, hand>>
    <3>1. /\ step[v] \notin {"delivering", "repush", "idle"}
          /\ \E s \in Step \ {"delivering", "delivered"} : step' = [step EXCEPT ![v] = s]
          /\ \A u \in Worker \ {v} : hand'[u] = hand[u]
      BY <1>5, <1>6, <2>4
    <3>3. CASE w = v BY <1>2, <3>1, <3>3, <2>3
    <3>4. CASE w # v BY <1>2, <3>1, <3>4, <2>2
    <3> QED BY <3>3, <3>4
  <2> QED BY <2>1, <2>4
<1> QED BY <1>1, <1>3, <1>4, <1>6 DEF QueueStep

\* Another worker's variables are its own.
LEMMA LocalStep ==
  ASSUME LocalOK, TypeOK, NEW w \in Worker, Handler(w) \/ StopWorker(w)
  PROVE  \A v \in Worker \ {w} :
           /\ step'[v] = step[v] /\ hand'[v] = hand[v] /\ sub'[v] = sub[v]
           /\ found'[v] = found[v] /\ rest'[v] = rest[v] /\ stale'[v] = stale[v]
           /\ owed'[v] = owed[v]
<1> USE DEF LocalOK, TypeOK
<1>1. CASE Begin(w) BY <1>1 DEF Begin, Dequeue, Goto, To
<1>2. CASE Lookup(w) BY <1>2 DEF Lookup, To, vars, workerVars
<1>3. CASE SendChunk(w) BY <1>3 DEF SendChunk, vars, workerVars
<1>4. CASE SendFails(w) BY <1>4 DEF SendFails, To, vars, workerVars
<1>5. CASE SendDone(w) BY <1>5 DEF SendDone, To, vars, workerVars
<1>6. CASE LookupFails(w) \/ MarkFails(w) \/ CleanUpFails(w)
  <2>1. PICK s : To(w, s) BY <1>6 DEF LookupFails, MarkFails, CleanUpFails, DbFails
  <2>2. UNCHANGED <<step, hand, found, rest, stale, owed>>
    BY <1>6 DEF LookupFails, MarkFails, CleanUpFails, DbFails, vars, workerVars
  <2> QED BY <2>1, <2>2 DEF To
<1>7. CASE \/ MarkDelivered(w) \/ MarkTokenless(w) \/ MarkUnreachable(w)
           \/ Unmark(w) \/ UnmarkTokenless(w)
  <2>1. PICK s : To(w, s)
    BY <1>7 DEF MarkDelivered, MarkTokenless, MarkUnreachable, Unmark, UnmarkTokenless, MarkStep
  <2>2. UNCHANGED <<step, hand, found, rest, stale, owed>>
    BY <1>7 DEF MarkDelivered, MarkTokenless, MarkUnreachable, Unmark, UnmarkTokenless, MarkStep,
       vars, workerVars
  <2> QED BY <2>1, <2>2 DEF To
<1>8. CASE CleanUp(w) BY <1>8 DEF CleanUp, Forget, To, HandleOk, Goto
<1>9. CASE Raise(w) BY <1>9 DEF Raise, Forget, To, HandleFail, Goto
<1>10. CASE Repush(w)
  <2>1. step' = [step EXCEPT ![w] = "idle"] /\ hand' = [hand EXCEPT ![w] = None]
    BY <1>10 DEF Repush, Retry, MoveToDlq, RepushFails, PutDown, Goto
  <2> QED BY <1>10, <2>1 DEF Repush, To
<1>11. CASE MarkAllFailed(w) \/ MarkAllFails(w)
  <2>1. Forget(w) /\ UNCHANGED <<step, hand>>
    BY <1>11 DEF MarkAllFailed, MarkAllFails, vars, workerVars
  <2> QED BY <2>1 DEF Forget, To
<1>12. CASE DeadLetterFails(w)
  BY <1>12 DEF DeadLetterFails, RepushFails, PutDown, Goto, deliveryVars
<1>13. CASE StopWorker(w) BY <1>13 DEF StopWorker, Stop, PutDown, Goto, Forget, To
<1> QED BY <1>1, <1>2, <1>3, <1>4, <1>5, <1>6, <1>7, <1>8, <1>9, <1>10, <1>11, <1>12, <1>13
    DEF Handler

LEMMA MarkTypes ==
  ASSUME status \in [Msg -> [User -> Status]], NEW m \in Msg, NEW users, NEW s \in Status,
         Mark(m, users, s)
  PROVE  /\ status' \in [Msg -> [User -> Status]]
         /\ \A u \in User : u \in users => status'[m][u] = s
         /\ \A x \in Msg, u \in User :
              status'[x][u] = status[x][u] \/ (x = m /\ u \in users /\ status'[x][u] = s)
<1> DEFINE row == [u \in User |-> IF u \in users THEN s ELSE status[m][u]]
<1>1. status[m] \in [User -> Status] OBVIOUS
<1>2. row \in [User -> Status] BY <1>1
<1>3. status' = [status EXCEPT ![m] = row] BY DEF Mark
<1>4. \A x \in Msg : status'[x] = IF x = m THEN row ELSE status[x] BY <1>3
<1>5. \A u \in User : row[u] = IF u \in users THEN s ELSE status[m][u] OBVIOUS
<1> HIDE DEF row
<1> QED BY <1>2, <1>3, <1>4, <1>5

LEMMA HeldMsg == ASSUME SosOK, NEW w \in Worker, step[w] \in Holding
                 PROVE hand[w] \in Job /\ hand[w].msg \in Msg
<1>1. hand[w] \in Job BY DEF SosOK, TypeOK
<1> QED BY <1>1 DEF Job

LEMMA InsideHolds ==
  ASSUME SosOK, NEW w \in Worker, sub[w] \in Inside
  PROVE  step[w] = "delivering" /\ hand[w] \in Job /\ hand[w].msg \in Msg /\ owed[w] = None
<1>1. step[w] = "delivering" /\ owed[w] = None
  BY DEF SosOK, Places, Place, Inside
<1> QED BY <1>1, HeldMsg DEF Holding


\* The variables of w after its own step, and the tables.
LEMMA HandlerTypes ==
  ASSUME SosOK, NEW w \in Worker, Handler(w) \/ StopWorker(w)
  PROVE  LocalOK' /\ TableOK' /\ Place(w)'
<1> USE DEF SosOK
<1>1. CASE Begin(w)
  <2>1. step'[w] = "delivering" /\ sub'[w] = "lookup" /\ UNCHANGED owed /\ sub[w] = "none"
    BY <1>1 DEF Begin, Dequeue, Goto, To, TypeOK, LocalOK
  <2>2. LocalOK' BY <1>1 DEF Begin, To, LocalOK, Sub
  <2>3. TableOK' BY <1>1 DEF Begin, TableOK
  <2> QED BY <2>1, <2>2, <2>3 DEF Places, Place, Inside, Sub
<1>2. CASE Lookup(w)
  <2>1. UNCHANGED <<step, owed>> /\ sub[w] = "lookup" /\ sub'[w] \in {"mark unreachable", "send"}
    BY <1>2 DEF Lookup, To, vars, workerVars, LocalOK
  <2>2. LocalOK' BY <1>2 DEF Lookup, To, LocalOK, TableOK, Sub
  <2>3. TableOK' BY <1>2 DEF Lookup, TableOK
  <2> QED BY <2>1, <2>2, <2>3 DEF Places, Place, Inside, Sub
<1>3. CASE SendChunk(w)
  <2>1. UNCHANGED <<step, sub, owed>> BY <1>3 DEF SendChunk, vars, workerVars
  <2>2. PICK c \in NextChunk(w) : \E gone \in SUBSET c :
          /\ Posted(c \ gone) /\ rest' = [rest EXCEPT ![w] = @ \ c]
          /\ stale' = [stale EXCEPT ![w] = @ \cup gone] /\ dead' = dead \cup gone
    BY <1>3 DEF SendChunk
  <2>3. c \subseteq Token BY DEF NextChunk, LocalOK
  <2>4. LocalOK' BY <1>3, <2>2, <2>3 DEF SendChunk, LocalOK
  <2>5. accepted' \in [Token -> Nat] BY <2>2 DEF Posted, TableOK
  <2>6. TableOK' BY <1>3, <2>2, <2>3, <2>5 DEF SendChunk, TableOK
  <2> QED BY <2>1, <2>4, <2>6 DEF Places, Place
<1>4. CASE SendFails(w)
  <2>1. UNCHANGED <<step, owed>> /\ sub[w] = "send" /\ sub'[w] = "unmark"
    BY <1>4 DEF SendFails, To, vars, workerVars, LocalOK
  <2>2. LocalOK' BY <1>4 DEF SendFails, To, LocalOK, Sub
  <2>3. accepted' \in [Token -> Nat]
    <3>1. PICK c : Posted(c) BY <1>4 DEF SendFails
    <3> QED BY <3>1 DEF Posted, TableOK
  <2>4. TableOK' BY <1>4, <2>3 DEF SendFails, TableOK
  <2> QED BY <2>1, <2>2, <2>4 DEF Places, Place, Inside, Sub
<1>5. CASE SendDone(w)
  <2>1. UNCHANGED <<step, owed>> /\ sub[w] = "send" /\ sub'[w] = "mark delivered"
    BY <1>5 DEF SendDone, To, vars, workerVars, LocalOK
  <2>2. LocalOK' BY <1>5 DEF SendDone, To, LocalOK, Sub
  <2>3. TableOK' BY <1>5 DEF SendDone, TableOK
  <2> QED BY <2>1, <2>2, <2>3 DEF Places, Place, Inside, Sub
<1>6. CASE LookupFails(w) \/ MarkFails(w) \/ CleanUpFails(w)
  <2>1. PICK s \in {"raise", "unmark"} : DbFails(w, s) /\ sub[w] \in Inside
    BY <1>6 DEF LookupFails, MarkFails, CleanUpFails, Inside, Sub
  <2>2. UNCHANGED <<step, owed>> /\ sub'[w] = s
    BY <2>1 DEF DbFails, To, vars, workerVars, LocalOK
  <2>3. LocalOK' BY <2>1 DEF DbFails, To, LocalOK, Sub
  <2>4. TableOK' BY <2>1 DEF DbFails, TableOK
  <2> QED BY <2>1, <2>2, <2>3, <2>4 DEF Places, Place, Inside, Sub
<1>7. CASE \/ MarkDelivered(w) \/ MarkTokenless(w) \/ MarkUnreachable(w)
           \/ Unmark(w) \/ UnmarkTokenless(w)
  <2>1. PICK at \in Inside, s \in Status, to \in Inside : \E users : MarkStep(w, at, users, s, to)
    BY <1>7 DEF MarkDelivered, MarkTokenless, MarkUnreachable, Unmark, UnmarkTokenless, Inside, Sub,
       Status
  <2>2. UNCHANGED <<step, owed>> /\ sub[w] = at /\ sub'[w] = to
    BY <2>1 DEF MarkStep, To, vars, workerVars, LocalOK
  <2>3. LocalOK' BY <2>1 DEF MarkStep, To, LocalOK, Inside
  <2>4. hand[w].msg \in Msg /\ status \in [Msg -> [User -> Status]]
    BY <2>1, <2>2, InsideHolds DEF TableOK
  <2>5. status' \in [Msg -> [User -> Status]] BY <2>1, <2>4, MarkTypes DEF MarkStep
  <2>6. TableOK' BY <2>1, <2>5 DEF MarkStep, TableOK
  <2> QED BY <2>1, <2>2, <2>3, <2>6 DEF Places, Place, Inside
<1>8. CASE CleanUp(w) \/ Raise(w) \/ StopWorker(w)
  <2>1. Forget(w) /\ step'[w] \in {"delivered", "failing", "stopped"}
    BY <1>8 DEF CleanUp, Raise, StopWorker, Stop, PutDown, HandleOk, HandleFail, Goto, TypeOK
  <2>2. LocalOK' BY <2>1 DEF Forget, To, LocalOK, Sub
  <2>3. sub'[w] = "none" /\ owed'[w] = None BY <2>1 DEF Forget, To, LocalOK
  <2>4. TableOK' BY <1>8 DEF CleanUp, Raise, StopWorker, TableOK, LocalOK
  <2> QED BY <2>1, <2>2, <2>3, <2>4 DEF Place, Inside
<1>9. CASE Repush(w)
  <2>1. step[w] = "repush" /\ step'[w] = "idle"
    BY <1>9 DEF Repush, Retry, MoveToDlq, RepushFails, PutDown, Goto, TypeOK
  <2>2. hand[w].msg \in Msg BY <2>1, HeldMsg DEF Holding
  <2>3. sub'[w] = "mark all failed" /\ owed'[w] = hand[w].msg /\ owed'[w] # None
    BY <1>9, <2>2, DeliveryAssumption DEF Repush, To, LocalOK
  <2>4. LocalOK' BY <1>9, <2>2 DEF Repush, To, LocalOK, Sub
  <2>5. TableOK' BY <1>9 DEF Repush, TableOK
  <2> QED BY <2>1, <2>3, <2>4, <2>5 DEF Place, Inside
<1>10. CASE MarkAllFailed(w) \/ MarkAllFails(w)
  <2>1. Forget(w) /\ UNCHANGED step /\ sub[w] = "mark all failed"
    BY <1>10 DEF MarkAllFailed, MarkAllFails, vars, workerVars
  <2>2. LocalOK' BY <2>1 DEF Forget, To, LocalOK, Sub
  <2>3. sub'[w] = "none" /\ owed'[w] = None /\ step'[w] # "delivering"
    BY <2>1 DEF Forget, To, LocalOK, Places, Place, Inside
  <2>4. TableOK'
    <3>1. CASE MarkAllFails(w)
      <4>1. UNCHANGED <<tokens, status, accepted, dead>> /\ dbFaults' = dbFaults + 1
        BY <3>1 DEF MarkAllFails
      <4> QED BY <4>1 DEF TableOK
    <3>2. CASE MarkAllFailed(w)
      <4>1. owed[w] \in Msg /\ "failed" \in Status BY <2>1 DEF LocalOK, Places, Place, Status
      <4>2. status' \in [Msg -> [User -> Status]]
        BY <3>2, <4>1, MarkTypes DEF MarkAllFailed, TableOK
      <4> QED BY <3>2, <4>2 DEF MarkAllFailed, TableOK
    <3> QED BY <1>10, <3>1, <3>2
  <2> QED BY <2>2, <2>3, <2>4 DEF Place, Inside
<1>11. CASE DeadLetterFails(w)
  <2>1. step[w] = "repush" /\ step'[w] = "idle" /\ UNCHANGED deliveryVars
    BY <1>11 DEF DeadLetterFails, RepushFails, PutDown, Goto, TypeOK
  <2> QED BY <2>1 DEF deliveryVars, LocalOK, TableOK, Places, Place
<1> QED BY <1>1, <1>2, <1>3, <1>4, <1>5, <1>6, <1>7, <1>8, <1>9, <1>10, <1>11 DEF Handler

LEMMA SosTypeNext == SosOK /\ [SosNext]_sosVars => SosOK'
<1> SUFFICES ASSUME SosOK, [SosNext]_sosVars PROVE SosOK' OBVIOUS
<1>1. TypeOK'
  <2>1. [Next]_vars BY ImplementsNext
  <2> QED BY <2>1, TypeNext DEF SosOK
<1>2. CASE QueueStep
  <2>1. UNCHANGED deliveryVars
        /\ \A w \in Worker : step'[w] = "delivering" <=> step[w] = "delivering"
    BY <1>2, QueueStepKeeps DEF SosOK
  <2> QED BY <1>1, <2>1 DEF SosOK, deliveryVars, LocalOK, TableOK, Places, Place
<1>3. ASSUME NEW w \in Worker, Handler(w) \/ StopWorker(w) PROVE SosOK'
  <2>1. LocalOK' /\ TableOK' /\ Place(w)' BY <1>3, HandlerTypes
  <2>2. \A v \in Worker \ {w} : step'[v] = step[v] /\ sub'[v] = sub[v] /\ owed'[v] = owed[v]
    BY <1>3, LocalStep DEF SosOK
  <2>3. \A v \in Worker \ {w} : Place(v)' BY <2>2 DEF SosOK, Places, Place
  <2> QED BY <1>1, <2>1, <2>3 DEF SosOK, Places
<1>4. ASSUME NEW t \in Token, Register(t) PROVE SosOK'
  <2>1. UNCHANGED <<vars, sub, found, rest, stale, owed, status, accepted, dead, dbFaults>>
        /\ tokens' = tokens \cup {t}
    BY <1>4 DEF Register
  <2> QED BY <1>1, <2>1 DEF vars, workerVars, SosOK, LocalOK, TableOK, Places, Place
<1>5. CASE UNCHANGED sosVars
  BY <1>1, <1>5 DEF sosVars, vars, workerVars, deliveryVars, SosOK, LocalOK, TableOK, Places, Place
<1> QED BY <1>2, <1>3, <1>4, <1>5 DEF SosNext

LEMMA SosTypeInit == SosInit => SosOK
<1> SUFFICES ASSUME SosInit PROVE SosOK OBVIOUS
<1>1. TypeOK BY TypeInit DEF SosInit
<1>2. LocalOK BY DEF SosInit, LocalOK, Sub
<1>3. TableOK BY DEF SosInit, TableOK, Status
<1>4. Places BY DEF SosInit, Init, Places, Place, Inside
<1> QED BY <1>1, <1>2, <1>3, <1>4 DEF SosOK

LEMMA SosAlwaysOK == SosSpec => []SosOK
BY SosTypeInit, SosTypeNext, PTL DEF SosSpec

\* Every variable keeps its type; a worker is inside the handler exactly when
\* the queue takes it for delivering, and owes marks exactly after a push.
THEOREM HandlerTypesCorrect == SosSpec => []SosTypeOK
BY SosAlwaysOK, SosOKIsTypeOK, PTL


-----------------------------------------------------------------------------
(* What Expo has said.                                                     *)

\* A token Expo has heard of, in a post it took or refused for good, or one
\* that is never posted.
Offered(t) == accepted[t] > 0 \/ t \in dead \/ t \notin ExpoToken
\* While it posts, a worker has offered all tokens but those it still has; what
\* it takes for stale Expo has called so; and marks follow the posts.
PostedInv ==
  /\ \A w \in Worker : stale[w] \subseteq dead
  /\ \A w \in Worker : sub[w] \in {"send", "mark delivered"} =>
       \A t \in found[w] : t \in rest[w] \/ Offered(t)
  /\ \A w \in Worker : sub[w] = "mark delivered" => rest[w] = {}
  /\ \A m \in Msg, u \in User : status[m][u] = "delivered" =>
       \E t \in Token : Owner[t] = u /\ Offered(t)

LEMMA OfferedStays ==
  ASSUME accepted \in [Token -> Nat], accepted' \in [Token -> Nat], dead \subseteq dead',
         \A t \in Token : accepted[t] <= accepted'[t]
  PROVE  \A t \in Token : Offered(t) => Offered(t)'
BY DEF Offered

\* Steps after which Expo has said nothing new, w is not between posts and its
\* marks, and nobody shows as delivered who did not before.
LEMMA PostedQuiet ==
  ASSUME SosOK, PostedInv, NEW w \in Worker, UNCHANGED dead,
         accepted' \in [Token -> Nat], \A t \in Token : accepted[t] <= accepted'[t],
         \A v \in Worker \ {w} : /\ sub'[v] = sub[v] /\ found'[v] = found[v]
                                 /\ rest'[v] = rest[v] /\ stale'[v] = stale[v],
         stale'[w] \subseteq stale[w], sub'[w] \notin {"send", "mark delivered"},
         \A m \in Msg, u \in User : status'[m][u] = "delivered" => status[m][u] = "delivered"
  PROVE  PostedInv'
<1>1. \A t \in Token : Offered(t) => Offered(t)'
  BY OfferedStays DEF SosOK, TableOK
<1>2. \A v \in Worker : stale'[v] \subseteq dead BY DEF PostedInv
<1>3. ASSUME NEW v \in Worker, sub'[v] \in {"send", "mark delivered"}
      PROVE  v # w /\ sub[v] = sub'[v] /\ found'[v] = found[v] /\ rest'[v] = rest[v]
             /\ found[v] \subseteq Token
  BY <1>3 DEF SosOK, LocalOK
<1>4. \A v \in Worker : sub'[v] \in {"send", "mark delivered"} =>
        \A t \in found'[v] : t \in rest'[v] \/ Offered(t)'
  BY <1>1, <1>3 DEF PostedInv
<1>5. \A v \in Worker : sub'[v] = "mark delivered" => rest'[v] = {}
  BY <1>3 DEF PostedInv
<1>6. \A m \in Msg, u \in User : status'[m][u] = "delivered" =>
        \E t \in Token : Owner[t] = u /\ Offered(t)'
  <2> SUFFICES ASSUME NEW m \in Msg, NEW u \in User, status'[m][u] = "delivered"
               PROVE  \E t \in Token : Owner[t] = u /\ Offered(t)'
    OBVIOUS
  <2>1. PICK t \in Token : Owner[t] = u /\ Offered(t) BY DEF PostedInv
  <2> QED BY <1>1, <2>1
<1> QED BY <1>2, <1>4, <1>5, <1>6 DEF PostedInv


LEMMA PostedSend ==
  ASSUME SosOK, PostedInv, NEW w \in Worker, Lookup(w) \/ SendChunk(w) \/ SendDone(w)
  PROVE  PostedInv'
<1> USE DEF SosOK
<1>0. /\ UNCHANGED status /\ accepted \in [Token -> Nat]
      /\ \A v \in Worker \ {w} : /\ sub'[v] = sub[v] /\ found'[v] = found[v]
                                 /\ rest'[v] = rest[v] /\ stale'[v] = stale[v]
  <2>1. Handler(w) BY DEF Handler
  <2>2. UNCHANGED status BY DEF Lookup, SendChunk, SendDone
  <2> QED BY <2>1, <2>2, LocalStep DEF TableOK
<1>1. CASE Lookup(w)
  <2>1. UNCHANGED <<accepted, dead, stale>> /\ found'[w] = tokens /\ rest'[w] = tokens \cap ExpoToken
        /\ sub'[w] \in {"mark unreachable", "send"}
    BY <1>1 DEF Lookup, To, LocalOK
  <2>2. \A t \in Token : Offered(t)' <=> Offered(t) BY <2>1 DEF Offered
  <2>3. \A t \in found'[w] : t \in rest'[w] \/ Offered(t)'
    BY <2>1 DEF Offered, TableOK
  <2>4. ASSUME NEW v \in Worker, sub'[v] \in {"send", "mark delivered"}
        PROVE  \A t \in found'[v] : t \in rest'[v] \/ Offered(t)'
    BY <1>0, <2>2, <2>3, <2>4 DEF PostedInv, LocalOK
  <2>5. ASSUME NEW v \in Worker, sub'[v] = "mark delivered" PROVE rest'[v] = {}
    BY <1>0, <2>1, <2>5 DEF PostedInv
  <2>6. \A v \in Worker : stale'[v] \subseteq dead' BY <2>1 DEF PostedInv
  <2>7. \A m \in Msg, u \in User : status'[m][u] = "delivered" =>
          \E t \in Token : Owner[t] = u /\ Offered(t)'
    BY <1>0, <2>2 DEF PostedInv
  <2> QED BY <2>4, <2>5, <2>6, <2>7 DEF PostedInv
<1>2. CASE SendChunk(w)
  <2>1. PICK c \in NextChunk(w) : \E gone \in SUBSET c :
          /\ Posted(c \ gone) /\ rest' = [rest EXCEPT ![w] = @ \ c]
          /\ stale' = [stale EXCEPT ![w] = @ \cup gone] /\ dead' = dead \cup gone
    BY <1>2 DEF SendChunk
  <2>2. PICK gone \in SUBSET c :
          /\ Posted(c \ gone) /\ rest' = [rest EXCEPT ![w] = @ \ c]
          /\ stale' = [stale EXCEPT ![w] = @ \cup gone] /\ dead' = dead \cup gone
    BY <2>1
  <2>3. c \subseteq rest[w] /\ rest[w] \subseteq Token BY DEF NextChunk, LocalOK
  <2>4. /\ accepted' \in [Token -> Nat] /\ \A t \in Token : accepted[t] <= accepted'[t]
        /\ \A t \in c \ gone : accepted'[t] > 0
    BY <1>0, <2>2, <2>3 DEF Posted
  <2>5. \A t \in Token : Offered(t) => Offered(t)' BY <1>0, <2>2, <2>4, OfferedStays
  <2>6. \A t \in c : Offered(t)' BY <2>2, <2>4 DEF Offered
  <2>7. sub'[w] = sub[w] /\ sub[w] = "send" /\ found'[w] = found[w] /\ found[w] \subseteq Token
        /\ rest'[w] = rest[w] \ c /\ stale'[w] = stale[w] \cup gone
    BY <1>2, <2>2 DEF SendChunk, LocalOK
  <2>8. ASSUME NEW v \in Worker, sub'[v] \in {"send", "mark delivered"}
        PROVE  \A t \in found'[v] : t \in rest'[v] \/ Offered(t)'
    <3>1. \A t \in found[v] : t \in rest[v] \/ Offered(t) BY <1>0, <2>7, <2>8 DEF PostedInv
    <3>2. found[v] \subseteq Token BY DEF LocalOK
    <3>3. CASE v = w BY <2>5, <2>6, <2>7, <3>1, <3>2, <3>3
    <3>4. CASE v # w BY <1>0, <2>5, <3>1, <3>2, <3>4
    <3> QED BY <3>3, <3>4
  <2>9. ASSUME NEW v \in Worker, sub'[v] = "mark delivered" PROVE rest'[v] = {}
    BY <1>0, <2>7, <2>9 DEF PostedInv
  <2>10. \A v \in Worker : stale'[v] \subseteq dead' BY <1>0, <2>2, <2>7 DEF PostedInv
  <2>11. ASSUME NEW m \in Msg, NEW u \in User, status'[m][u] = "delivered"
         PROVE  \E t \in Token : Owner[t] = u /\ Offered(t)'
    <3>1. PICK t \in Token : Owner[t] = u /\ Offered(t) BY <1>0, <2>11 DEF PostedInv
    <3> QED BY <2>5, <3>1
  <2> QED BY <2>8, <2>9, <2>10, <2>11 DEF PostedInv
<1>3. CASE SendDone(w)
  <2>1. UNCHANGED <<accepted, dead, stale, found, rest>> /\ sub[w] = "send" /\ rest[w] = {}
    BY <1>3 DEF SendDone
  <2>2. \A t \in Token : Offered(t)' <=> Offered(t) BY <2>1 DEF Offered
  <2>3. \A v \in Worker : found[v] \subseteq Token BY DEF LocalOK
  <2>4. ASSUME NEW v \in Worker, sub'[v] \in {"send", "mark delivered"}
        PROVE  \A t \in found'[v] : t \in rest'[v] \/ Offered(t)'
    BY <1>0, <2>1, <2>2, <2>3, <2>4 DEF PostedInv
  <2>5. ASSUME NEW v \in Worker, sub'[v] = "mark delivered" PROVE rest'[v] = {}
    BY <1>0, <2>1, <2>5 DEF PostedInv
  <2>6. \A m \in Msg, u \in User : status'[m][u] = "delivered" =>
          \E t \in Token : Owner[t] = u /\ Offered(t)'
    BY <1>0, <2>2 DEF PostedInv
  <2> QED BY <2>1, <2>4, <2>5, <2>6 DEF PostedInv
<1> QED BY <1>1, <1>2, <1>3

LEMMA PostedMark ==
  ASSUME SosOK, PostedInv, NEW w \in Worker, MarkDelivered(w)
  PROVE  PostedInv'
<1> USE DEF SosOK
<1>1. /\ sub[w] = "mark delivered" /\ Mark(hand[w].msg, WithTokens(w), "delivered")
      /\ UNCHANGED <<found, rest, stale, accepted, dead>>
      /\ sub'[w] \in {"clean up", "mark tokenless"}
  BY DEF MarkDelivered, MarkStep, To, LocalOK
<1>2. \A v \in Worker \ {w} : sub'[v] = sub[v]
  <2>1. Handler(w) BY DEF Handler
  <2> QED BY <2>1, LocalStep
<1>3. \A t \in Token : Offered(t)' <=> Offered(t) BY <1>1 DEF Offered
<1>4. hand[w].msg \in Msg BY <1>1, InsideHolds DEF Inside, Sub
<1>5. \A m \in Msg, u \in User :
        status'[m][u] = "delivered" => status[m][u] = "delivered" \/ u \in WithTokens(w)
  <2>1. "delivered" \in Status BY DEF Status
  <2> DEFINE m == hand[w].msg
             users == WithTokens(w)
  <2>2. Mark(m, users, "delivered") /\ m \in Msg /\ status \in [Msg -> [User -> Status]]
    BY <1>1, <1>4 DEF TableOK
  <2> HIDE DEF m, users
  <2>3. \A x \in Msg, u \in User :
          status'[x][u] = status[x][u] \/ (x = m /\ u \in users /\ status'[x][u] = "delivered")
    BY <2>1, <2>2, MarkTypes
  <2> QED BY <2>3 DEF users
<1>6. \A u \in WithTokens(w) : \E t \in Token : Owner[t] = u /\ Offered(t)
  <2> SUFFICES ASSUME NEW t \in found[w] PROVE t \in Token /\ Offered(t) BY DEF WithTokens
  <2>1. rest[w] = {} BY <1>1 DEF PostedInv
  <2>2. t \in rest[w] \/ Offered(t) BY <1>1 DEF PostedInv
  <2> QED BY <2>1, <2>2 DEF LocalOK
<1>7. ASSUME NEW m \in Msg, NEW u \in User, status'[m][u] = "delivered"
      PROVE  \E t \in Token : Owner[t] = u /\ Offered(t)'
  <2>1. PICK t \in Token : Owner[t] = u /\ Offered(t) BY <1>5, <1>6, <1>7 DEF PostedInv
  <2> QED BY <1>3, <2>1
<1>8. ASSUME NEW v \in Worker, sub'[v] \in {"send", "mark delivered"}
      PROVE  (\A t \in found'[v] : t \in rest'[v] \/ Offered(t)')
             /\ (sub'[v] = "mark delivered" => rest'[v] = {})
  <2>1. v # w /\ sub'[v] = sub[v] /\ found[v] \subseteq Token BY <1>1, <1>2, <1>8 DEF LocalOK
  <2> QED BY <1>1, <1>3, <1>8, <2>1 DEF PostedInv
<1>9. \A v \in Worker : stale'[v] \subseteq dead' BY <1>1 DEF PostedInv
<1> QED BY <1>7, <1>8, <1>9 DEF PostedInv

LEMMA PostedNext == SosOK /\ PostedInv /\ [SosNext]_sosVars => PostedInv'
<1> SUFFICES ASSUME SosOK, PostedInv, [SosNext]_sosVars PROVE PostedInv' OBVIOUS
<1> USE DEF SosOK
<1>1. CASE UNCHANGED <<sub, found, rest, stale, status, accepted, dead>>
  BY <1>1 DEF PostedInv, Offered
<1>2. CASE QueueStep BY <1>1, <1>2 DEF QueueStep, deliveryVars
<1>3. ASSUME NEW t \in Token, Register(t) PROVE PostedInv' BY <1>1, <1>3 DEF Register
<1>4. CASE UNCHANGED sosVars BY <1>1, <1>4 DEF sosVars, deliveryVars
<1>5. ASSUME NEW w \in Worker, Handler(w) \/ StopWorker(w) PROVE PostedInv'
  <2>1. CASE Lookup(w) \/ SendChunk(w) \/ SendDone(w) BY <2>1, PostedSend
  <2>2. CASE MarkDelivered(w) BY <2>2, PostedMark
  <2>3. CASE DeadLetterFails(w) BY <1>1, <2>3 DEF DeadLetterFails, deliveryVars
  <2>4. \A v \in Worker \ {w} : /\ sub'[v] = sub[v] /\ found'[v] = found[v]
                                 /\ rest'[v] = rest[v] /\ stale'[v] = stale[v]
    BY <1>5, LocalStep
  <2>5. accepted \in [Token -> Nat] BY DEF TableOK
  <2>6. CASE SendFails(w)
    <3>1. PICK c : Posted(c) BY <2>6 DEF SendFails
    <3>2. accepted' \in [Token -> Nat] /\ \A t \in Token : accepted[t] <= accepted'[t]
      BY <2>5, <3>1 DEF Posted
    <3>3. UNCHANGED <<status, dead>> /\ stale'[w] = {} /\ sub'[w] = "unmark"
      BY <2>6 DEF SendFails, To, LocalOK
    <3> QED BY <2>4, <3>2, <3>3, PostedQuiet
  <2>7. CASE \/ Begin(w) \/ LookupFails(w) \/ MarkFails(w) \/ CleanUpFails(w)
             \/ Repush(w)
    <3>1. UNCHANGED <<status, accepted, dead, stale>>
      BY <2>7 DEF Begin, LookupFails, MarkFails, CleanUpFails, DbFails, Repush
    <3>2. sub'[w] \in {"lookup", "raise", "unmark", "mark all failed"}
      BY <2>7 DEF Begin, LookupFails, MarkFails, CleanUpFails, DbFails, Repush, To, LocalOK
    <3>3. \A t \in Token : accepted[t] <= accepted[t] BY <2>5
    <3> QED BY <2>4, <2>5, <3>1, <3>2, <3>3, PostedQuiet
  <2>8. CASE CleanUp(w) \/ Raise(w) \/ MarkAllFails(w) \/ StopWorker(w) \/ MarkAllFailed(w)
    <3>1. Forget(w) /\ UNCHANGED <<accepted, dead>>
      BY <2>8 DEF CleanUp, Raise, MarkAllFails, StopWorker, MarkAllFailed
    <3>2. stale'[w] = {} /\ sub'[w] = "none" BY <3>1 DEF Forget, To, LocalOK
    <3>3. \A m \in Msg, u \in User : status'[m][u] = "delivered" => status[m][u] = "delivered"
      <4>1. CASE UNCHANGED status BY <4>1
      <4>2. CASE MarkAllFailed(w)
        <5>1. sub[w] = "mark all failed" /\ Mark(owed[w], User, "failed")
          BY <4>2 DEF MarkAllFailed
        <5>2. owed[w] \in Msg BY <5>1 DEF LocalOK, Places, Place
        <5> DEFINE m == owed[w]
        <5>3. m \in Msg /\ Mark(m, User, "failed") /\ status \in [Msg -> [User -> Status]]
          BY <5>1, <5>2 DEF TableOK
        <5> HIDE DEF m
        <5>4. "failed" \in Status BY DEF Status
        <5>5. \A x \in Msg, u \in User :
                status'[x][u] = status[x][u] \/ (x = m /\ u \in User /\ status'[x][u] = "failed")
          BY <5>3, <5>4, MarkTypes
        <5> QED BY <5>5
      <4> QED BY <2>8, <4>1, <4>2 DEF CleanUp, Raise, MarkAllFails, StopWorker
    <3>4. \A t \in Token : accepted[t] <= accepted[t] BY <2>5
    <3> QED BY <2>4, <2>5, <3>1, <3>2, <3>3, <3>4, PostedQuiet
  <2>9. CASE MarkTokenless(w) \/ MarkUnreachable(w) \/ Unmark(w) \/ UnmarkTokenless(w)
    <3>1. PICK users : /\ Mark(hand[w].msg, users, "failed") /\ UNCHANGED <<accepted, dead, stale>>
                       /\ sub[w] \in Inside /\ sub'[w] \in {"clean up", "raise", "unmark tokenless"}
      BY <2>9 DEF MarkTokenless, MarkUnreachable, Unmark, UnmarkTokenless, MarkStep, To, LocalOK,
         Inside, Sub
    <3>2. hand[w].msg \in Msg BY <3>1, InsideHolds
    <3>3. \A m \in Msg, u \in User : status'[m][u] = "delivered" => status[m][u] = "delivered"
      <4> DEFINE m == hand[w].msg
      <4>1. m \in Msg /\ Mark(m, users, "failed") /\ status \in [Msg -> [User -> Status]]
        BY <3>1, <3>2 DEF TableOK
      <4> HIDE DEF m
      <4>2. "failed" \in Status BY DEF Status
      <4>3. \A x \in Msg, u \in User :
              status'[x][u] = status[x][u] \/ (x = m /\ u \in users /\ status'[x][u] = "failed")
        BY <4>1, <4>2, MarkTypes
      <4> QED BY <4>3
    <3>4. \A t \in Token : accepted[t] <= accepted[t] BY <2>5
    <3> QED BY <2>4, <2>5, <3>1, <3>3, <3>4, PostedQuiet
  <2> QED BY <1>5, <2>1, <2>2, <2>3, <2>6, <2>7, <2>8, <2>9 DEF Handler
<1> QED BY <1>2, <1>3, <1>4, <1>5 DEF SosNext

LEMMA AlwaysPosted == SosSpec => [](SosOK /\ PostedInv)
<1>1. SosInit => PostedInv
  <2> SUFFICES ASSUME SosInit PROVE PostedInv OBVIOUS
  <2>1. \A w \in Worker : sub[w] = "none" /\ stale[w] = {} BY DEF SosInit
  <2>2. \A m \in Msg, u \in User : status[m][u] = "pending" BY DEF SosInit
  <2> QED BY <2>1, <2>2 DEF PostedInv
<1> QED BY <1>1, SosTypeInit, SosTypeNext, PostedNext, PTL DEF SosSpec

\* A recipient shows as delivered only if Expo has answered for one of its
\* tokens, with any number of recipients, tokens, chunks and workers, and with
\* Expo and the database failing between any two of them.
THEOREM DeliveredCorrect == SosSpec => []DeliveredWasPosted
<1>1. SosOK /\ PostedInv => DeliveredWasPosted BY DEF PostedInv, Offered, DeliveredWasPosted
<1> QED BY <1>1, AlwaysPosted, PTL

\* No failure, retry or second copy makes a worker delete the token of a device
\* Expo has not called unregistered.
THEOREM OnlyDeadTokensCorrect == SosSpec => OnlyDeadTokensRemoved
<1>1. SosOK /\ PostedInv /\ [SosNext]_sosVars => [tokens \ tokens' \subseteq dead]_sosVars
  <2> SUFFICES ASSUME SosOK, PostedInv, SosNext PROVE tokens \ tokens' \subseteq dead OBVIOUS
  <2>1. CASE UNCHANGED tokens BY <2>1
  <2>2. ASSUME NEW t \in Token, Register(t) PROVE tokens \ tokens' \subseteq dead
    BY <2>2 DEF Register
  <2>3. ASSUME NEW w \in Worker, CleanUp(w) PROVE tokens \ tokens' \subseteq dead
    BY <2>3 DEF CleanUp, PostedInv
  <2>4. CASE QueueStep BY <2>1, <2>4 DEF QueueStep, deliveryVars
  <2>5. ASSUME NEW w \in Worker, Handler(w) \/ StopWorker(w), ~CleanUp(w) PROVE UNCHANGED tokens
    <3>1. CASE \/ Begin(w) \/ Lookup(w) \/ SendChunk(w) \/ SendFails(w) \/ SendDone(w)
               \/ Raise(w) \/ Repush(w) \/ MarkAllFailed(w) \/ MarkAllFails(w) \/ StopWorker(w)
      BY <3>1 DEF Begin, Lookup, SendChunk, SendFails, SendDone, Raise, Repush, MarkAllFailed,
         MarkAllFails, StopWorker
    <3>2. CASE \/ MarkDelivered(w) \/ MarkTokenless(w) \/ MarkUnreachable(w)
               \/ Unmark(w) \/ UnmarkTokenless(w)
      BY <3>2 DEF MarkDelivered, MarkTokenless, MarkUnreachable, Unmark, UnmarkTokenless, MarkStep
    <3>3. CASE LookupFails(w) \/ MarkFails(w) \/ CleanUpFails(w) \/ DeadLetterFails(w)
      BY <3>3 DEF LookupFails, MarkFails, CleanUpFails, DbFails, DeadLetterFails, deliveryVars
    <3> QED BY <2>5, <3>1, <3>2, <3>3 DEF Handler
  <2> QED BY <2>1, <2>2, <2>3, <2>4, <2>5 DEF SosNext
<1> QED BY <1>1, AlwaysPosted, PTL DEF SosSpec, OnlyDeadTokensRemoved


-----------------------------------------------------------------------------
(* Nobody is left pending.                                                 *)

\* Payloads in the hands of a worker or the script, or waiting for a worker.
Queued ==
  Payloads(queue) \cup Payloads(processing) \cup HeldBy(Holding) \cup PoppedPayloads

LEMMA QueuedNext ==
  Queued' = Payloads(queue') \cup Payloads(processing') \cup HeldBy(Holding)' \cup PoppedPayloads'
BY DEF Queued, Payloads, ToSet

\* Of the jobs in hands only the stepping worker's may leave them.
LEMMA HandsMove ==
  ASSUME NEW w \in Worker, \A v \in Worker \ {w} : step'[v] = step[v] /\ hand'[v] = hand[v]
  PROVE  /\ \A m \in HeldBy(Holding) \ HeldBy(Holding)' : step[w] \in Holding /\ m = hand[w].msg
         /\ step'[w] \in Holding => hand'[w].msg \in HeldBy(Holding)'
<1>1. ASSUME NEW m \in HeldBy(Holding), m \notin HeldBy(Holding)'
      PROVE  step[w] \in Holding /\ m = hand[w].msg
  <2>1. PICK v \in Worker : step[v] \in Holding /\ hand[v].msg = m BY DEF HeldBy
  <2>2. v = w BY <1>1, <2>1 DEF HeldBy
  <2> QED BY <2>1, <2>2
<1>2. step'[w] \in Holding => hand'[w].msg \in HeldBy(Holding)' BY DEF HeldBy
<1> QED BY <1>1, <1>2

\* While Redis answers and nobody is stopped, a payload leaves only by the ack
\* of a delivered job and by the dead-letter list.
LEMMA QueuedMoves ==
  ASSUME TypeOK, [Next]_vars, redisUp, redisUp', UNCHANGED stops
  PROVE  \A m \in Queued \ Queued' : \E w \in Worker :
           /\ hand[w].msg = m
           /\ \/ step[w] = "delivered"
              \/ step[w] = "repush" /\ step'[w] = "idle"
<1> USE DEF workerVars, redisVars, scriptVars, faultVars, historyVars
<1>t. /\ queue \in Seq(Job) /\ processing \in Seq(Job) /\ dlq \in Seq(Job)
      /\ hand \in [Worker -> Job \cup {None}] /\ step \in [Worker -> Step] /\ stops \in Nat
  BY DEF TypeOK
<1>k. /\ UNCHANGED queue => Payloads(queue') = Payloads(queue)
      /\ UNCHANGED processing => Payloads(processing') = Payloads(processing)
      /\ UNCHANGED popped => PoppedPayloads' = PoppedPayloads
      /\ UNCHANGED workerVars => HeldBy(Holding)' = HeldBy(Holding)
  BY DEF PoppedPayloads, HeldBy
<1>g. SUFFICES \/ Queued \subseteq Queued'
               \/ \E w \in Worker : /\ Queued \subseteq Queued' \cup {hand[w].msg}
                                    /\ \/ step[w] = "delivered"
                                       \/ step[w] = "repush" /\ step'[w] = "idle"
  OBVIOUS
\* A worker that goes on with its job, or stays without one.
<1>m. ASSUME NEW w \in Worker, NEW s, Goto(w, s), NEW j,
             hand' = [hand EXCEPT ![w] = j] \/ UNCHANGED hand,
             step[w] \in Holding => s \in Holding /\ hand'[w].msg = hand[w].msg
      PROVE  HeldBy(Holding) \subseteq HeldBy(Holding)'
  <2>1. /\ \A v \in Worker \ {w} : step'[v] = step[v] /\ hand'[v] = hand[v]
        /\ step'[w] = s
    BY <1>m, <1>t DEF Goto
  <2> QED BY <1>m, <2>1, HandsMove
<1>1. CASE UNCHANGED <<queue, processing, workerVars, popped>>
  <2>1. Queued' = Queued BY <1>1, <1>k, QueuedNext DEF Queued
  <2> QED BY <2>1
<1>2. ASSUME NEW m \in Msg, Enqueue(m) PROVE Queued \subseteq Queued'
  <2> DEFINE e == [msg |-> m, attempts |-> 0]
  <2>1. e \in Job BY QueueAssumption DEF Job
  <2>2. queue' = Append(queue, e) BY <1>2 DEF Enqueue
  <2> HIDE DEF e
  <2>3. ToSet(Append(queue, e)) = ToSet(queue) \cup {e} BY <2>1, <1>t, PushTail
  <2>4. Payloads(queue) \subseteq Payloads(queue') BY <2>2, <2>3, PayloadsOfPush
  <2> QED BY <1>2, <2>4, <1>k, QueuedNext DEF Enqueue, Queued
<1>3. ASSUME NEW w \in Worker, Start(w) \/ RecoverDone(w) \/ HandleOk(w) \/ HandleFail(w)
      PROVE  Queued \subseteq Queued'
  <2>1. UNCHANGED <<queue, processing, hand, popped>>
        /\ (\E s : Goto(w, s) /\ (step[w] \in Holding => s \in Holding))
    BY <1>3 DEF Start, RecoverDone, HandleOk, HandleFail, Holding
  <2>2. HeldBy(Holding) \subseteq HeldBy(Holding)' BY <2>1, <1>m
  <2> QED BY <2>1, <2>2, <1>k, QueuedNext DEF Queued
<1>4. ASSUME NEW w \in Worker,
             \/ StartFails(w) \/ DequeueReplyLost(w) \/ AckFails(w) \/ RetryAckFails(w)
             \/ AckReplyLost(w) \/ RepushFails(w) \/ Stop(w)
      PROVE  FALSE
  BY <1>4, <1>t DEF StartFails, DequeueReplyLost, AckFails,
                    AckReplyLost, RetryAckFails, RepushFails, Stop
<1>17. CASE RequeueFails \/ RedisDown \/ RedisBack
  BY <1>17 DEF RequeueFails, RedisDown, RedisBack
<1>5. ASSUME NEW w \in Worker, RecoverOne(w) PROVE Queued \subseteq Queued'
  <2> DEFINE e == Last(processing)
  <2>1. /\ processing # <<>> /\ queue' = Cons(e, queue)
        /\ processing' = Front(processing)
        /\ UNCHANGED <<workerVars, popped>>
    BY <1>5 DEF RecoverOne
  <2>2. e \in Job /\ ToSet(processing) = ToSet(processing') \cup {e}
    BY <2>1, <1>t, PopTail
  <2> HIDE DEF e
  <2>3. ToSet(Cons(e, queue)) = ToSet(queue) \cup {e} BY <2>2, <1>t, PushHead
  <2>4. Payloads(queue') = Payloads(queue) \cup {e.msg}
    BY <2>1, <2>3, PayloadsOfPush
  <2>5. Payloads(processing) \subseteq Payloads(processing') \cup {e.msg}
    BY <2>2, PayloadsOfUnion
  <2> QED BY <2>1, <2>4, <2>5, <1>k, QueuedNext DEF Queued
<1>6. ASSUME NEW w \in Worker, Dequeue(w) PROVE Queued \subseteq Queued'
  <2> DEFINE e == Last(queue)
  <2>1. /\ queue # <<>> /\ queue' = Front(queue)
        /\ processing' = Cons(e, processing) /\ UNCHANGED popped
        /\ Goto(w, "delivering") /\ hand' = [hand EXCEPT ![w] = e]
        /\ step[w] = "idle"
    BY <1>6 DEF Dequeue, TakeTail
  <2>2. e \in Job /\ ToSet(queue) = ToSet(queue') \cup {e}
    BY <2>1, <1>t, PopTail
  <2> HIDE DEF e
  <2>3. ToSet(Cons(e, processing)) = ToSet(processing) \cup {e}
    BY <2>2, <1>t, PushHead
  <2>4. Payloads(processing') = Payloads(processing) \cup {e.msg}
    BY <2>1, <2>3, PayloadsOfPush
  <2>5. Payloads(queue) \subseteq Payloads(queue') \cup {e.msg}
    BY <2>2, PayloadsOfUnion
  <2>6. HeldBy(Holding) \subseteq HeldBy(Holding)' BY <2>1, <1>m DEF Holding
  <2> QED BY <2>1, <2>4, <2>5, <2>6, <1>k, QueuedNext DEF Queued
<1>9. ASSUME NEW w \in Worker, Ack(w) \/ Retry(w) \/ MoveToDlq(w)
      PROVE  /\ Queued \subseteq Queued' \cup {hand[w].msg}
             /\ step[w] = "delivered" \/ (step[w] = "repush" /\ step'[w] = "idle")
  <2>1. /\ Goto(w, "idle") /\ hand' = [hand EXCEPT ![w] = None] /\ UNCHANGED popped
        /\ step[w] \in {"delivered", "repush"}
    BY <1>9 DEF Ack, Retry, MoveToDlq, PutDown
  <2>2. /\ \A v \in Worker \ {w} : step'[v] = step[v] /\ hand'[v] = hand[v]
        /\ step'[w] = "idle"
    BY <2>1, <1>t DEF Goto
  <2>3. HeldBy(Holding) \subseteq HeldBy(Holding)' \cup {hand[w].msg} BY <2>2, HandsMove
  <2>4. hand[w] \in Job BY <2>1, HeldJob DEF Holding
  <2>5. Payloads(queue) \subseteq Payloads(queue')
    <3>1. ToSet(Append(queue, hand[w])) = ToSet(queue) \cup {hand[w]} BY <2>4, <1>t, PushTail
    <3>2. Payloads(Append(queue, hand[w])) = Payloads(queue) \cup {hand[w].msg}
      BY <3>1, PayloadsOfPush
    <3> QED BY <1>9, <3>2 DEF Ack, Retry, MoveToDlq
  <2>6. Payloads(processing) \subseteq Payloads(processing') \cup {hand[w].msg}
    <3>1. ToSet(processing) \subseteq ToSet(RemoveFirst(processing, hand[w])) \cup {hand[w]}
      BY <1>t, RemoveOne
    <3>2. Payloads(processing) \subseteq Payloads(RemoveFirst(processing, hand[w])) \cup {hand[w].msg}
      BY <3>1, PayloadsOfUnion
    <3> QED BY <1>9, <3>2 DEF Ack, Retry, MoveToDlq
  <2> QED BY <2>1, <2>2, <2>3, <2>5, <2>6, <1>k, QueuedNext DEF Queued
<1>10. ASSUME NEW w \in Worker, RetryAck(w) PROVE Queued \subseteq Queued'
  <2> DEFINE e == hand[w]
             j == Attempted(hand[w])
  <2>0. e \in Job /\ j.msg = e.msg
    BY <1>10, HeldJob, AttemptedIsAJob DEF RetryAck, Holding
  <2>1. /\ processing' = RemoveFirst(processing, e)
        /\ UNCHANGED <<queue, popped>>
        /\ Goto(w, "repush") /\ hand' = [hand EXCEPT ![w] = j]
        /\ step[w] = "failing"
    BY <1>10, <1>t DEF RetryAck
  <2> HIDE DEF e, j
  <2>3. ToSet(processing) \subseteq ToSet(processing') \cup {e}
    BY <2>1, <1>t, RemoveOne
  <2>4. Payloads(processing) \subseteq Payloads(processing') \cup {e.msg}
    BY <2>3, PayloadsOfUnion
  <2>5. /\ \A v \in Worker \ {w} : step'[v] = step[v] /\ hand'[v] = hand[v]
        /\ step'[w] = "repush" /\ hand'[w] = j
    BY <2>1, <1>t DEF Goto
  <2>6. e.msg \in HeldBy(Holding)' /\ HeldBy(Holding) \subseteq HeldBy(Holding)' \cup {e.msg}
    BY <2>0, <2>5, HandsMove DEF Holding, e
  <2> QED BY <2>1, <2>4, <2>6, <1>k, QueuedNext DEF Queued
<1>13. CASE RequeuePop
  <2>1. Head(dlq) \in Job /\ PoppedPayloads = {} BY <1>13, <1>t DEF RequeuePop, PoppedPayloads
  <2> QED BY <1>13, <2>1, <1>k, QueuedNext DEF RequeuePop, Queued
<1>14. CASE RequeuePush
  <2>1. popped \in Job BY <1>14 DEF RequeuePush, TypeOK
  <2>2. ToSet(queue') = ToSet(queue) \cup {popped}
    BY <1>14, <2>1, <1>t, PushTail DEF RequeuePush
  <2>3. Payloads(queue') = Payloads(queue) \cup PoppedPayloads
    BY <1>14, <2>2, PayloadsOfPush DEF RequeuePush, PoppedPayloads
  <2> QED BY <1>14, <2>3, <1>k, QueuedNext DEF RequeuePush, Queued
<1>15. CASE RequeueStart \/ RequeueEnd \/ ClearDlq
  BY <1>1, <1>15 DEF RequeueStart, RequeueEnd, ClearDlq
<1>16. CASE UNCHANGED vars BY <1>1, <1>16 DEF vars
<1> QED
  BY <1>2, <1>3, <1>4, <1>5, <1>6, <1>9, <1>10, <1>13, <1>14, <1>15, <1>16, <1>17
  DEF Next, Recover, Handle, Settle, Requeue


\* A worker that owes marks has put its job down and takes no other.
OwedIdle == \A w \in Worker : sub[w] = "mark all failed" => step[w] = "idle"

LEMMA OwedIdleNext == SosOK /\ OwedIdle /\ [SosNext]_sosVars => OwedIdle'
<1> SUFFICES ASSUME SosOK, OwedIdle, [SosNext]_sosVars PROVE OwedIdle' OBVIOUS
<1> USE DEF SosOK
<1>1. CASE QueueStep
  <2>1. UNCHANGED sub /\ \A w \in Worker : step[w] = "idle" => step'[w] = "idle"
    BY <1>1, QueueStepKeeps DEF deliveryVars
  <2> QED BY <2>1 DEF OwedIdle
<1>2. ASSUME NEW w \in Worker, Handler(w) \/ StopWorker(w) PROVE OwedIdle'
  <2>1. \A v \in Worker \ {w} : step'[v] = step[v] /\ sub'[v] = sub[v] BY <1>2, LocalStep
  <2>2. CASE Repush(w)
    <3>1. step'[w] = "idle"
      BY <2>2 DEF Repush, Retry, MoveToDlq, RepushFails, PutDown, Goto, TypeOK
    <3> QED BY <2>1, <3>1 DEF OwedIdle
  <2>3. CASE DeadLetterFails(w)
    <3>1. step[w] = "repush" /\ UNCHANGED sub
      BY <2>3 DEF DeadLetterFails, RepushFails, deliveryVars
    <3> QED BY <2>1, <3>1 DEF OwedIdle
  <2>4. CASE \/ Begin(w) \/ Lookup(w) \/ LookupFails(w) \/ SendChunk(w) \/ SendFails(w)
             \/ SendDone(w) \/ MarkFails(w) \/ CleanUpFails(w)
    <3>1. sub'[w] # "mark all failed"
      BY <2>4 DEF Begin, Lookup, LookupFails, SendChunk, SendFails, SendDone, MarkFails,
         CleanUpFails, DbFails, To, LocalOK
    <3> QED BY <2>1, <3>1 DEF OwedIdle
  <2>5. CASE \/ MarkDelivered(w) \/ MarkTokenless(w) \/ MarkUnreachable(w)
             \/ Unmark(w) \/ UnmarkTokenless(w)
    <3>1. sub'[w] # "mark all failed"
      BY <2>5 DEF MarkDelivered, MarkTokenless, MarkUnreachable, Unmark, UnmarkTokenless,
         MarkStep, To, LocalOK
    <3> QED BY <2>1, <3>1 DEF OwedIdle
  <2>6. CASE CleanUp(w) \/ Raise(w) \/ MarkAllFailed(w) \/ MarkAllFails(w) \/ StopWorker(w)
    <3>1. Forget(w) BY <2>6 DEF CleanUp, Raise, MarkAllFailed, MarkAllFails, StopWorker
    <3>2. sub'[w] # "mark all failed" BY <3>1 DEF Forget, To, LocalOK
    <3> QED BY <2>1, <3>2 DEF OwedIdle
  <2> QED BY <1>2, <2>2, <2>3, <2>4, <2>5, <2>6 DEF Handler
<1>3. ASSUME NEW t \in Token, Register(t) PROVE OwedIdle'
  BY <1>3 DEF Register, vars, workerVars, OwedIdle
<1>4. CASE UNCHANGED sosVars
  BY <1>4 DEF sosVars, vars, workerVars, deliveryVars, OwedIdle
<1> QED BY <1>1, <1>2, <1>3, <1>4 DEF SosNext

\* Faults are only counted, and Redis goes down only with one.
LEMMA FaultsStay ==
  ASSUME TypeOK, [Next]_vars, stops' = 0, outages' = 0
  PROVE  stops = 0 /\ outages = 0 /\ (redisUp => redisUp')
<1> USE DEF faultVars, TypeOK
<1>1. CASE UNCHANGED faultVars BY <1>1
<1>2. CASE \/ \E m \in Msg : Enqueue(m)
           \/ \E w \in Worker : \/ Start(w) \/ Recover(w) \/ Dequeue(w) \/ Handle(w) \/ Settle(w)
           \/ Requeue \/ ClearDlq
  <2>1. UNCHANGED faultVars
    BY <1>2 DEF Enqueue, Start, Recover, RecoverOne, RecoverDone, StartFails, Dequeue, Handle,
       HandleOk, HandleFail, Settle, Ack, AckFails, RetryAck, RetryAckFails, Retry, MoveToDlq,
       RepushFails, Requeue, RequeuePop, RequeuePush, RequeueEnd, RequeueFails, ClearDlq
  <2> QED BY <1>1, <2>1
<1>3. CASE \/ \E w \in Worker : DequeueReplyLost(w) \/ AckReplyLost(w) \/ Stop(w)
           \/ RequeueStart \/ RedisDown \/ RedisBack
  BY <1>3 DEF DequeueReplyLost, AckReplyLost, Stop, RequeueStart, RedisDown, RedisBack
<1>4. CASE UNCHANGED vars BY <1>1, <1>4 DEF vars
<1> QED BY <1>2, <1>3, <1>4 DEF Next

\* A payload that Redis accepts is in the queue.
LEMMA AcceptedMoves ==
  ASSUME TypeOK, [Next]_vars PROVE Accepted' \subseteq Accepted \cup Queued'
<1> USE DEF historyVars
<1>1. CASE UNCHANGED published BY <1>1 DEF Accepted
<1>2. ASSUME NEW m \in Msg, Enqueue(m) PROVE Accepted' \subseteq Accepted \cup Queued'
  <2> DEFINE e == [msg |-> m, attempts |-> 0]
  <2>1. e \in Job /\ e.msg = m BY QueueAssumption DEF Job
  <2>2. queue' = Append(queue, e) BY <1>2 DEF Enqueue
  <2> HIDE DEF e
  <2>3. ToSet(Append(queue, e)) = ToSet(queue) \cup {e} BY <2>1, PushTail DEF TypeOK
  <2>4. Payloads(queue') = Payloads(queue) \cup {m} BY <2>1, <2>2, <2>3, PayloadsOfPush
  <2>5. \A x \in Msg : x # m => published'[x] = published[x]
    BY <1>2 DEF Enqueue, TypeOK
  <2> QED BY <2>4, <2>5, QueuedNext DEF Accepted
<1>3. CASE \/ \E w \in Worker : \/ Start(w) \/ Recover(w) \/ Dequeue(w) \/ Handle(w) \/ Settle(w)
                                \/ DequeueReplyLost(w) \/ AckReplyLost(w) \/ Stop(w)
           \/ RequeueStart \/ Requeue \/ ClearDlq \/ RedisDown \/ RedisBack
  <2>1. UNCHANGED published
    BY <1>3 DEF Start, Recover, RecoverOne, RecoverDone, StartFails, Dequeue, Handle,
       HandleOk, HandleFail, Settle, Ack, AckFails, RetryAck, RetryAckFails, Retry, MoveToDlq,
       RepushFails, Requeue, RequeuePop, RequeuePush, RequeueEnd, RequeueFails, ClearDlq,
       DequeueReplyLost, AckReplyLost, Stop, RequeueStart, RedisDown, RedisBack
  <2> QED BY <1>1, <2>1
<1>4. CASE UNCHANGED vars BY <1>1, <1>4 DEF vars
<1> QED BY <1>2, <1>3, <1>4 DEF Next


Marked(m) == \A u \in User : status[m][u] # "pending"
\* As long as nothing has failed, an accepted alert is being worked on or has
\* been marked, and a worker that leaves its job has marked it before.
MarkedBy(w) ==
  /\ step[w] = "delivered" \/ sub[w] = "clean up" => Marked(hand[w].msg)
  /\ sub[w] = "mark tokenless" =>
       \A u \in WithTokens(w) : status[hand[w].msg][u] # "pending"
Calm == dbFaults = 0 /\ stops = 0 /\ outages = 0
PendingInv ==
  Calm => /\ redisUp
          /\ \A m \in Accepted : AtWork(m) \/ Marked(m)
          /\ \A w \in Worker : MarkedBy(w)

\* Statuses never become pending again, and failed calls are only counted.
MarksStay ==
  /\ dbFaults \in Nat /\ dbFaults' \in Nat /\ dbFaults <= dbFaults'
  /\ \A m \in Msg, u \in User : status[m][u] # "pending" => status'[m][u] # "pending"

LEMMA MarkKeeps ==
  ASSUME status \in [Msg -> [User -> Status]], NEW m \in Msg, NEW users,
         NEW s \in {"delivered", "failed"}, Mark(m, users, s)
  PROVE  /\ \A x \in Msg, u \in User : status[x][u] # "pending" => status'[x][u] # "pending"
         /\ \A u \in User : u \in users => status'[m][u] # "pending"
<1>1. s \in Status BY DEF Status
<1>2. /\ \A u \in User : u \in users => status'[m][u] = s
      /\ \A x \in Msg, u \in User :
           status'[x][u] = status[x][u] \/ (x = m /\ u \in users /\ status'[x][u] = s)
  BY <1>1, MarkTypes
<1> QED BY <1>2

LEMMA HandlerMarks ==
  ASSUME SosOK, NEW w \in Worker, Handler(w) \/ StopWorker(w) PROVE MarksStay
<1> USE DEF SosOK
<1>1. dbFaults \in Nat BY DEF TableOK
<1>2. CASE /\ UNCHANGED status
           /\ UNCHANGED dbFaults \/ dbFaults' = dbFaults + 1
  BY <1>1, <1>2 DEF MarksStay
<1>3. CASE \/ Begin(w) \/ Lookup(w) \/ SendChunk(w) \/ SendFails(w) \/ SendDone(w) \/ CleanUp(w)
           \/ Raise(w) \/ Repush(w) \/ MarkAllFails(w) \/ DeadLetterFails(w) \/ StopWorker(w)
  BY <1>2, <1>3 DEF Begin, Lookup, SendChunk, SendFails, SendDone, CleanUp, Raise, Repush,
     MarkAllFails, DeadLetterFails, StopWorker, deliveryVars
<1>4. CASE LookupFails(w) \/ MarkFails(w) \/ CleanUpFails(w)
  BY <1>2, <1>4 DEF LookupFails, MarkFails, CleanUpFails, DbFails
<1>5. ASSUME NEW m \in Msg, NEW users, NEW s \in {"delivered", "failed"}, Mark(m, users, s),
             UNCHANGED dbFaults
      PROVE  MarksStay
  BY <1>1, <1>5, MarkKeeps DEF MarksStay, TableOK
<1>6. CASE MarkAllFailed(w)
  <2>1. owed[w] \in Msg BY <1>6 DEF MarkAllFailed, LocalOK, Places, Place
  <2> DEFINE m == owed[w]
  <2>2. m \in Msg /\ Mark(m, User, "failed") /\ UNCHANGED dbFaults
    BY <1>6, <2>1 DEF MarkAllFailed
  <2> HIDE DEF m
  <2> QED BY <2>2, <1>5
<1>7. CASE \/ MarkDelivered(w) \/ MarkTokenless(w) \/ MarkUnreachable(w)
           \/ Unmark(w) \/ UnmarkTokenless(w)
  <2>1. PICK s \in {"delivered", "failed"} : \E users :
          Mark(hand[w].msg, users, s) /\ UNCHANGED dbFaults /\ sub[w] \in Inside
    BY <1>7 DEF MarkDelivered, MarkTokenless, MarkUnreachable, Unmark, UnmarkTokenless, MarkStep,
       Inside, Sub
  <2> DEFINE m == hand[w].msg
  <2>2. PICK users : Mark(m, users, s) BY <2>1
  <2>3. m \in Msg BY <2>1, InsideHolds
  <2> HIDE DEF m
  <2> QED BY <2>1, <2>2, <2>3, <1>5
<1> QED BY <1>3, <1>4, <1>6, <1>7 DEF Handler

\* What w has marked when its own step takes it out of the handler.
LEMMA LeavesMarked ==
  ASSUME SosOK, OwedIdle, NEW w \in Worker, Handler(w) \/ StopWorker(w), MarkedBy(w)
  PROVE  MarkedBy(w)'
<1> USE DEF SosOK
<1>1. CASE /\ sub'[w] \notin {"clean up", "mark tokenless"}
           /\ step'[w] # "delivered"
  BY <1>1 DEF MarkedBy
<1>2. CASE Begin(w) BY <1>1, <1>2 DEF Begin, Dequeue, Goto, To, TypeOK, LocalOK
<1>3. CASE \/ Lookup(w) \/ SendChunk(w) \/ SendFails(w) \/ SendDone(w)
           \/ LookupFails(w) \/ MarkFails(w) \/ CleanUpFails(w) \/ Unmark(w) \/ UnmarkTokenless(w)
  <2>1. UNCHANGED step /\ sub[w] \in Inside
    BY <1>3 DEF Lookup, SendChunk, SendFails, SendDone, LookupFails, MarkFails, CleanUpFails, DbFails,
       Unmark, UnmarkTokenless, MarkStep, vars, workerVars, Inside, Sub
  <2>2. sub'[w] \notin {"clean up", "mark tokenless"}
    BY <1>3 DEF Lookup, SendChunk, SendFails, SendDone, LookupFails, MarkFails, CleanUpFails, DbFails,
       Unmark, UnmarkTokenless, MarkStep, To, LocalOK
  <2> QED BY <1>1, <2>1, <2>2, InsideHolds
<1>4. CASE Raise(w) \/ StopWorker(w)
  <2>1. Forget(w) /\ step'[w] # "delivered"
    BY <1>4 DEF Raise, StopWorker, Stop, PutDown, HandleFail, Goto, TypeOK
  <2> QED BY <1>1, <2>1 DEF Forget, To, LocalOK
<1>5. CASE MarkAllFailed(w) \/ MarkAllFails(w)
  <2>1. Forget(w) /\ UNCHANGED step /\ step[w] = "idle"
    BY <1>5 DEF MarkAllFailed, MarkAllFails, OwedIdle, vars, workerVars
  <2> QED BY <1>1, <2>1 DEF Forget, To, LocalOK
<1>6. CASE Repush(w)
  <2>1. step'[w] = "idle" /\ sub'[w] = "mark all failed"
    BY <1>6 DEF Repush, Retry, MoveToDlq, RepushFails, PutDown, Goto, To, TypeOK, LocalOK
  <2> QED BY <1>1, <2>1
<1>7. CASE DeadLetterFails(w)
  <2>1. step[w] = "repush" /\ step'[w] = "idle" /\ UNCHANGED sub
    BY <1>7 DEF DeadLetterFails, RepushFails, PutDown, Goto, TypeOK, deliveryVars
  <2>2. sub[w] \notin Inside BY <2>1, InsideHolds
  <2> QED BY <1>1, <2>1, <2>2 DEF Inside, Sub
<1>8. CASE CleanUp(w)
  <2>1. /\ sub[w] = "clean up" /\ UNCHANGED <<hand, status>> /\ Forget(w)
    BY <1>8 DEF CleanUp, HandleOk
  <2>2. sub'[w] = "none" BY <2>1 DEF Forget, To, LocalOK
  <2>3. Marked(hand[w].msg)' BY <2>1 DEF MarkedBy, Marked
  <2> QED BY <2>2, <2>3 DEF MarkedBy
<1>9. CASE MarkDelivered(w) \/ MarkTokenless(w) \/ MarkUnreachable(w)
  <2> DEFINE m == hand[w].msg
  <2>1. UNCHANGED <<step, hand, found>> /\ sub[w] \in Inside
    BY <1>9 DEF MarkDelivered, MarkTokenless, MarkUnreachable, MarkStep, vars, workerVars, Inside, Sub
  <2>2. step'[w] = "delivering" /\ m \in Msg /\ hand'[w].msg = m BY <2>1, InsideHolds
  <2>3. \/ /\ Mark(m, WithTokens(w), "delivered")
           /\ sub'[w] = IF Tokenless(w) = {} THEN "clean up" ELSE "mark tokenless"
        \/ /\ Mark(m, Tokenless(w), "failed") /\ sub'[w] = "clean up" /\ sub[w] = "mark tokenless"
        \/ Mark(m, User, "failed") /\ sub'[w] = "clean up"
    BY <1>9 DEF MarkDelivered, MarkTokenless, MarkUnreachable, MarkStep, To, LocalOK
  <2>9. WithTokens(w)' = WithTokens(w) BY <2>1 DEF WithTokens
  <2>10. WithTokens(w) \subseteq User
    BY DeliveryAssumption DEF LocalOK, WithTokens
  <2>4. /\ status \in [Msg -> [User -> Status]] /\ WithTokens(w)' = WithTokens(w)
        /\ sub[w] = "mark tokenless" => \A u \in WithTokens(w) : status[m][u] # "pending"
        /\ WithTokens(w) \subseteq User
    BY <2>9, <2>10 DEF TableOK, MarkedBy
  <2>5. /\ MarkedBy(w)' <=>
             /\ sub'[w] = "clean up" => \A u \in User : status'[m][u] # "pending"
             /\ sub'[w] = "mark tokenless" =>
                  \A u \in WithTokens(w) : status'[m][u] # "pending"
    BY <2>2, <2>4 DEF MarkedBy, Marked
  <2> HIDE DEF m
  <2>6. CASE /\ Mark(m, WithTokens(w), "delivered")
             /\ sub'[w] = IF Tokenless(w) = {} THEN "clean up" ELSE "mark tokenless"
    <3>1. \A u \in User : u \in WithTokens(w) => status'[m][u] # "pending"
      BY <2>2, <2>4, <2>6, MarkKeeps
    <3>2. Tokenless(w) = {} => User \subseteq WithTokens(w) BY DEF Tokenless
    <3> QED BY <2>4, <2>5, <2>6, <3>1, <3>2
  <2>7. CASE Mark(m, Tokenless(w), "failed") /\ sub'[w] = "clean up" /\ sub[w] = "mark tokenless"
    <3>1. /\ \A u \in User : status[m][u] # "pending" => status'[m][u] # "pending"
          /\ \A u \in User : u \in Tokenless(w) => status'[m][u] # "pending"
      BY <2>2, <2>4, <2>7, MarkKeeps
    <3> QED BY <2>4, <2>5, <2>7, <3>1 DEF Tokenless
  <2>8. CASE Mark(m, User, "failed") /\ sub'[w] = "clean up"
    <3>1. \A u \in User : u \in User => status'[m][u] # "pending"
      BY <2>2, <2>4, <2>8, MarkKeeps
    <3> QED BY <2>5, <2>8, <3>1
  <2> QED BY <2>3, <2>6, <2>7, <2>8
<1> QED BY <1>2, <1>3, <1>4, <1>5, <1>6, <1>7, <1>8, <1>9 DEF Handler

\* A worker that owes marks pays them in its next step, or forgets them with a
\* failed call or a stop.
LEMMA OwedMoves ==
  ASSUME SosOK, OwedIdle, NEW w \in Worker, Handler(w) \/ StopWorker(w), owed[w] # None,
         UNCHANGED <<dbFaults, stops>>
  PROVE  owed'[w] = owed[w] \/ \A u \in User : status'[owed[w]][u] = "failed"
<1> USE DEF SosOK
<1>1. sub[w] = "mark all failed" /\ step[w] = "idle" /\ owed[w] \in Msg
  BY DEF OwedIdle, Places, Place, LocalOK
<1>2. CASE MarkAllFailed(w)
  <2> DEFINE m == owed[w]
  <2>1. m \in Msg /\ Mark(m, User, "failed") /\ status \in [Msg -> [User -> Status]]
    BY <1>1, <1>2 DEF MarkAllFailed, TableOK
  <2> HIDE DEF m
  <2>2. \A u \in User : u \in User => status'[m][u] = "failed"
    BY <2>1, MarkTypes DEF Status
  <2> QED BY <2>2 DEF m
<1>3. ~MarkAllFails(w) /\ ~StopWorker(w)
  <2>1. dbFaults \in Nat /\ stops \in Nat BY DEF TableOK, TypeOK
  <2>2. dbFaults' # dbFaults + 1 /\ stops' # stops + 1 BY <2>1
  <2> QED BY <2>2 DEF MarkAllFails, StopWorker, Stop
<1>4. CASE \/ Begin(w) \/ Lookup(w) \/ LookupFails(w) \/ SendChunk(w) \/ SendFails(w)
           \/ SendDone(w) \/ MarkFails(w) \/ CleanUp(w) \/ CleanUpFails(w) \/ Raise(w)
           \/ Repush(w) \/ DeadLetterFails(w)
  BY <1>1, <1>4 DEF Begin, Lookup, LookupFails, SendChunk, SendFails, SendDone, MarkFails, CleanUp,
     CleanUpFails, Raise, Repush, Retry, MoveToDlq, RepushFails, DeadLetterFails
<1>5. CASE \/ MarkDelivered(w) \/ MarkTokenless(w) \/ MarkUnreachable(w)
           \/ Unmark(w) \/ UnmarkTokenless(w)
  BY <1>1, <1>5 DEF MarkDelivered, MarkTokenless, MarkUnreachable, Unmark, UnmarkTokenless, MarkStep
<1> QED BY <1>2, <1>3, <1>4, <1>5 DEF Handler

\* A failing worker that puts its job down has pushed it again and owes marks.
LEMMA RepushOwes ==
  ASSUME SosOK, NEW w \in Worker, Handler(w), redisUp, step[w] = "repush", step'[w] = "idle"
  PROVE  owed'[w] = hand[w].msg
<1> USE DEF SosOK
<1>1. sub[w] \notin Inside BY InsideHolds
<1>2. ~DeadLetterFails(w) /\ ~Begin(w) BY DEF DeadLetterFails, RepushFails, Begin, Dequeue
<1>3. CASE \/ Lookup(w) \/ LookupFails(w) \/ SendChunk(w) \/ SendFails(w)
           \/ SendDone(w) \/ MarkFails(w) \/ CleanUp(w) \/ CleanUpFails(w) \/ Raise(w)
  BY <1>1, <1>3 DEF Lookup, LookupFails, SendChunk, SendFails, SendDone, MarkFails, CleanUp,
     CleanUpFails, Raise, Inside, Sub
<1>4. CASE \/ MarkDelivered(w) \/ MarkTokenless(w) \/ MarkUnreachable(w)
           \/ Unmark(w) \/ UnmarkTokenless(w)
  BY <1>1, <1>4 DEF MarkDelivered, MarkTokenless, MarkUnreachable, Unmark, UnmarkTokenless, MarkStep,
     Inside, Sub
<1>5. CASE MarkAllFailed(w) \/ MarkAllFails(w)
  BY <1>5 DEF MarkAllFailed, MarkAllFails, vars, workerVars
<1>6. CASE Repush(w) BY <1>6 DEF Repush, LocalOK
<1> QED BY <1>2, <1>3, <1>4, <1>5, <1>6 DEF Handler


LEMMA PendingNext ==
  SosOK /\ SosOK' /\ OwedIdle /\ PendingInv /\ [SosNext]_sosVars => PendingInv'
<1> SUFFICES ASSUME SosOK, SosOK', OwedIdle, PendingInv, [SosNext]_sosVars, Calm'
             PROVE  /\ redisUp'
                    /\ \A m \in Accepted' : AtWork(m)' \/ Marked(m)'
                    /\ \A w \in Worker : MarkedBy(w)'
  BY DEF PendingInv
<1>1. [Next]_vars BY ImplementsNext
<1>2. MarksStay
  <2>1. ASSUME NEW w \in Worker, Handler(w) \/ StopWorker(w) PROVE MarksStay
    BY <2>1, HandlerMarks
  <2>2. CASE UNCHANGED <<status, dbFaults>> BY <2>2 DEF MarksStay, SosOK, TableOK
  <2> QED BY <2>1, <2>2 DEF SosNext, QueueStep, Register, sosVars, deliveryVars
<1>3. /\ dbFaults = 0 /\ stops = 0 /\ outages = 0 /\ dbFaults' = 0 /\ stops' = 0
      /\ redisUp => redisUp'
  <2>1. stops' = 0 /\ outages' = 0 /\ dbFaults' = 0 BY DEF Calm
  <2>2. stops = 0 /\ outages = 0 /\ (redisUp => redisUp') BY <1>1, <2>1, FaultsStay DEF SosOK
  <2>3. dbFaults = 0 BY <1>2, <2>1 DEF MarksStay
  <2> QED BY <2>1, <2>2, <2>3
<1>4. /\ redisUp /\ redisUp'
      /\ \A m \in Accepted : AtWork(m) \/ Marked(m)
      /\ \A w \in Worker : MarkedBy(w)
  BY <1>3 DEF PendingInv, Calm
<1>5. \A m \in Msg : Marked(m) => Marked(m)' BY <1>2 DEF Marked, MarksStay
<1>6. /\ Queued \subseteq Msg
      /\ \A m : AtWork(m) <=> m \in Queued \/ \E w \in Worker : owed[w] = m
      /\ \A m : AtWork(m)' <=> m \in Queued' \/ \E w \in Worker : owed'[w] = m
  <2>1. Queued \subseteq Msg
    <3>1. \A j \in ToSet(queue) \cup ToSet(processing) : j.msg \in Msg
      <4>1. queue \in Seq(Job) /\ processing \in Seq(Job) BY DEF SosOK, TypeOK
      <4>2. ToSet(queue) \subseteq Job /\ ToSet(processing) \subseteq Job BY <4>1 DEF ToSet
      <4> QED BY <4>2 DEF Job
    <3>2. HeldBy(Holding) \subseteq Msg BY HeldMsg DEF HeldBy
    <3>3. PoppedPayloads \subseteq Msg BY DEF SosOK, TypeOK, PoppedPayloads, Job
    <3> QED BY <3>1, <3>2, <3>3 DEF Queued, Payloads
  <2> QED BY <2>1 DEF AtWork, Queued
\* Who owes marks pays them.
<1>7. ASSUME NEW m \in Msg, NEW w \in Worker, owed[w] = m
      PROVE  owed'[w] = m \/ Marked(m)'
  <2>1. CASE UNCHANGED owed BY <1>7, <2>1
  <2>2. ASSUME NEW v \in Worker, Handler(v) \/ StopWorker(v) PROVE owed'[w] = m \/ Marked(m)'
    <3>1. CASE v # w BY <1>7, <2>2, <3>1, LocalStep DEF SosOK
    <3>2. CASE v = w
      <4>1. owed[w] # None BY <1>7, DeliveryAssumption
      <4>2. owed'[w] = owed[w] \/ \A u \in User : status'[owed[w]][u] = "failed"
        BY <1>3, <2>2, <3>2, <4>1, OwedMoves
      <4> QED BY <1>7, <4>2 DEF Marked
    <3> QED BY <3>1, <3>2
  <2> QED BY <2>1, <2>2 DEF SosNext, QueueStep, Register, sosVars, deliveryVars
\* What leaves the queue has been marked, or its worker owes the marks.
<1>8. ASSUME NEW m \in Queued, m \notin Queued'
      PROVE  AtWork(m)' \/ Marked(m)'
  <2>1. m \in Msg BY <1>6
  <2>2. PICK w \in Worker : /\ hand[w].msg = m
                            /\ \/ step[w] = "delivered"
                               \/ step[w] = "repush" /\ step'[w] = "idle"
    BY <1>1, <1>3, <1>4, <1>8, QueuedMoves DEF SosOK
  <2>3. CASE step[w] = "delivered"
    BY <1>4, <1>5, <2>1, <2>2, <2>3 DEF MarkedBy
  <2>4. CASE step[w] = "repush" /\ step'[w] = "idle"
    <3>1. ~QueueStep BY <2>4, QueueStepKeeps DEF SosOK
    <3>2. ASSUME NEW v \in Worker, Handler(v) \/ StopWorker(v) PROVE owed'[w] = m
      <4>1. v = w BY <2>4, <3>2, LocalStep DEF SosOK
      <4>2. ~StopWorker(w)
        <5>1. stops' # stops + 1 BY <1>3
        <5> QED BY <5>1 DEF StopWorker, Stop
      <4> QED BY <1>4, <2>2, <2>4, <3>2, <4>1, <4>2, RepushOwes
    <3>3. ~ UNCHANGED step BY <2>4
    <3>4. owed'[w] = m
      BY <3>1, <3>2, <3>3 DEF SosNext, Register, sosVars, vars, workerVars
    <3> QED BY <1>6, <3>4
  <2> QED BY <2>2, <2>3, <2>4
<1>9. ASSUME NEW m \in Accepted' PROVE AtWork(m)' \/ Marked(m)'
  <2>1. m \in Msg BY DEF Accepted
  <2>2. CASE m \in Queued' BY <1>6, <2>2
  <2>3. CASE m \notin Queued'
    <3>1. m \in Accepted BY <1>1, <2>3, AcceptedMoves DEF SosOK
    <3>2. CASE Marked(m) BY <1>5, <2>1, <3>2
    <3>3. CASE m \in Queued BY <1>8, <2>3, <3>3
    <3>4. ASSUME NEW w \in Worker, owed[w] = m PROVE AtWork(m)' \/ Marked(m)'
      BY <1>6, <1>7, <2>1, <3>4
    <3> QED BY <1>4, <1>6, <3>1, <3>2, <3>3, <3>4
  <2> QED BY <2>2, <2>3
<1>10. ASSUME NEW w \in Worker PROVE MarkedBy(w)'
\* A step of somebody else.
  <2>1. CASE /\ sub'[w] = sub[w] /\ found'[w] = found[w]
             /\ step'[w] = "delivered" => step[w] = "delivered"
             /\ step'[w] \in {"delivering", "delivered"} => hand'[w] = hand[w]
    <3>1. sub'[w] \in {"clean up", "mark tokenless"} => step'[w] = "delivering"
      BY DEF SosOK, Places, Place, Inside, Sub
    <3>2. CASE step'[w] \in {"delivering", "delivered"}
      <4> DEFINE m == hand[w].msg
      <4>1. m \in Msg
        <5>1. step[w] \in Holding
          BY <2>1, <3>2 DEF SosOK, Places, Place, Holding
        <5> QED BY <5>1, HeldMsg
      <4>2. hand'[w].msg = m /\ WithTokens(w)' = WithTokens(w)
        BY <2>1, <3>2 DEF WithTokens
      <4>3. WithTokens(w) \subseteq User BY DeliveryAssumption DEF WithTokens, SosOK, LocalOK
      <4>4. /\ step[w] = "delivered" \/ sub[w] = "clean up" =>
                 \A u \in User : status[m][u] # "pending"
            /\ sub[w] = "mark tokenless" => \A u \in WithTokens(w) : status[m][u] # "pending"
        BY <1>4 DEF MarkedBy, Marked
      <4>5. /\ MarkedBy(w)' <=>
                 /\ step'[w] = "delivered" \/ sub'[w] = "clean up" =>
                      \A u \in User : status'[m][u] # "pending"
                 /\ sub'[w] = "mark tokenless" =>
                      \A u \in WithTokens(w) : status'[m][u] # "pending"
        BY <4>2 DEF MarkedBy, Marked
      <4> HIDE DEF m
      <4> QED BY <1>2, <2>1, <4>1, <4>3, <4>4, <4>5 DEF MarksStay
    <3>3. CASE step'[w] \notin {"delivering", "delivered"} BY <3>1, <3>3 DEF MarkedBy
    <3> QED BY <3>2, <3>3
  <2>2. ASSUME NEW v \in Worker, Handler(v) \/ StopWorker(v) PROVE MarkedBy(w)'
    <3>1. CASE v = w BY <1>4, <2>2, <3>1, LeavesMarked
    <3>2. CASE v # w BY <2>1, <2>2, <3>2, LocalStep DEF SosOK
    <3> QED BY <3>1, <3>2
  <2>3. CASE QueueStep BY <2>1, <2>3, QueueStepKeeps DEF SosOK, deliveryVars
  <2>4. CASE UNCHANGED <<sub, found, step, hand>> BY <2>1, <2>4
  <2> QED BY <2>2, <2>3, <2>4 DEF SosNext, Register, sosVars, vars, workerVars, deliveryVars
<1> QED BY <1>4, <1>9, <1>10

LEMMA AlwaysPending == SosSpec => [](SosOK /\ OwedIdle /\ PendingInv)
<1>1. SosInit => OwedIdle /\ PendingInv
  <2> SUFFICES ASSUME SosInit PROVE OwedIdle /\ PendingInv OBVIOUS
  <2>1. \A w \in Worker : sub[w] = "none" /\ step[w] = "stopped" BY DEF SosInit, Init
  <2>2. redisUp /\ Accepted = {} BY DEF SosInit, Init, Accepted
  <2> QED BY <2>1, <2>2 DEF OwedIdle, PendingInv, MarkedBy
<1> QED BY <1>1, SosTypeInit, SosTypeNext, OwedIdleNext, PendingNext, PTL DEF SosSpec

\* As long as no database call has failed, no worker has been stopped and Redis
\* has answered, an alert nobody works on any more has every recipient marked:
\* with and without tokens, through Expo's failures, retries and dead letters.
THEOREM NobodyPendingCorrect == SosSpec => []NobodyPendingAfterwards
<1>1. SosOK /\ PendingInv => NobodyPendingAfterwards
  <2>1. SosOK => (dbFaults + stops + outages = 0 => dbFaults = 0 /\ stops = 0 /\ outages = 0)
    <3>1. SosOK => dbFaults \in Nat /\ stops \in Nat /\ outages \in Nat BY DEF SosOK, TableOK, TypeOK
    <3> QED BY <3>1
  <2> QED BY <2>1 DEF PendingInv, Calm, Marked, NobodyPendingAfterwards
<1> QED BY <1>1, AlwaysPending, PTL

-----------------------------------------------------------------------------
(* What a dead letter shows.                                               *)

Failed(m) == \A u \in User : status[m][u] = "failed"
\* A dead-lettered payload of which there is one copy has been marked failed,
\* or a worker that pushed it back into a list still owes the marks.
DeadInv ==
  \A m \in Msg :
    published[m] + stolen[m] = 1 /\ dbFaults = 0 /\ stops = 0 /\ m \in Payloads(dlq) =>
      Failed(m) \/ \E w \in Worker : owed[w] = m

LEMMA HistoryGrows ==
  ASSUME TypeOK, [Next]_vars, NEW m \in Msg
  PROVE  published'[m] >= published[m] /\ stolen'[m] >= stolen[m]
<1> USE DEF historyVars, TypeOK
<1>1. CASE UNCHANGED <<published, stolen>> BY <1>1
<1>2. ASSUME NEW x \in Msg, Enqueue(x)
      PROVE  published'[m] >= published[m] /\ stolen'[m] >= stolen[m]
  BY <1>2 DEF Enqueue
<1>3. ASSUME NEW w \in Worker, RecoverOne(w)
      PROVE  published'[m] >= published[m] /\ stolen'[m] >= stolen[m]
  <2> DEFINE x == Last(processing).msg
  <2>1. published' = published /\ (stolen' = stolen \/ stolen' = [stolen EXCEPT ![x] = @ + 1])
    BY <1>3 DEF RecoverOne
  <2> HIDE DEF x
  <2>2. stolen'[m] = stolen[m] \/ stolen'[m] = stolen[m] + 1
    <3>1. CASE stolen' = stolen BY <3>1
    <3>2. CASE stolen' = [stolen EXCEPT ![x] = @ + 1]
      <4>1. stolen \in [Msg -> Nat] OBVIOUS
      <4> QED BY <3>2, <4>1
    <3> QED BY <2>1, <3>1, <3>2
  <2> QED BY <2>1, <2>2
<1>4. CASE \/ \E w \in Worker : \/ Start(w) \/ RecoverDone(w) \/ StartFails(w) \/ Dequeue(w)
                                \/ Handle(w) \/ Settle(w) \/ DequeueReplyLost(w)
                                \/ AckReplyLost(w) \/ Stop(w)
           \/ RequeueStart \/ Requeue \/ ClearDlq \/ RedisDown \/ RedisBack
  <2>1. UNCHANGED <<published, stolen>>
    BY <1>4 DEF Start, RecoverDone, StartFails, Dequeue, Handle,
       HandleOk, HandleFail, Settle, Ack, AckFails, RetryAck, RetryAckFails, Retry, MoveToDlq,
       RepushFails, Requeue, RequeuePop, RequeuePush, RequeueEnd, RequeueFails, ClearDlq,
       DequeueReplyLost, AckReplyLost, Stop, RequeueStart, RedisDown, RedisBack
  <2> QED BY <1>1, <2>1
<1>5. CASE UNCHANGED vars BY <1>1, <1>5 DEF vars
<1> QED BY <1>2, <1>3, <1>4, <1>5 DEF Next, Recover

\* A payload enters the dead-letter list through a worker that owes its marks.
LEMMA DeadLetterMoves ==
  ASSUME SosOK, [SosNext]_sosVars, NEW m \in Payloads(dlq'), m \notin Payloads(dlq)
  PROVE  \E w \in Worker : owed'[w] = m
<1> USE DEF SosOK
<1>1. CASE UNCHANGED dlq BY <1>1
<1>2. ASSUME NEW w \in Worker, Repush(w), MoveToDlq(w) PROVE owed'[w] = m
  <2> DEFINE e == hand[w]
  <2>1. e \in Job /\ dlq' = Append(dlq, e) /\ owed' = [owed EXCEPT ![w] = e.msg]
    BY <1>2, HeldMsg DEF Repush, MoveToDlq, Holding
  <2> HIDE DEF e
  <2>2. ToSet(Append(dlq, e)) = ToSet(dlq) \cup {e} BY <2>1, PushTail DEF TypeOK
  <2>3. Payloads(dlq') = Payloads(dlq) \cup {e.msg} BY <2>1, <2>2, PayloadsOfPush
  <2> QED BY <2>1, <2>3 DEF LocalOK
<1>3. ~RequeuePop
  <2>1. ASSUME RequeuePop PROVE Payloads(dlq') \subseteq Payloads(dlq)
    <3>1. dlq # <<>> /\ dlq' = Tail(dlq) BY <2>1 DEF RequeuePop
    <3>2. ToSet(dlq) = ToSet(Tail(dlq)) \cup {Head(dlq)} BY <3>1, PopHead DEF TypeOK
    <3> QED BY <3>1, <3>2 DEF Payloads
  <2> QED BY <2>1
<1>4. ~ClearDlq
  <2>1. ASSUME ClearDlq PROVE Payloads(dlq') = {}
    BY <2>1 DEF ClearDlq, Payloads, ToSet
  <2> QED BY <2>1
<1>5. CASE QueueStep
  <2>1. UNCHANGED dlq
    BY <1>3, <1>4, <1>5 DEF QueueStep, Enqueue, Start, Recover, RecoverOne, RecoverDone, StartFails,
       DequeueReplyLost, Ack, AckFails, AckReplyLost, RetryAck, RetryAckFails, RequeueStart,
       Requeue, RequeuePush, RequeueEnd, RequeueFails, RedisDown, RedisBack, redisVars
  <2> QED BY <1>1, <2>1
<1>6. ASSUME NEW w \in Worker, Handler(w) \/ StopWorker(w)
      PROVE  UNCHANGED dlq \/ (Repush(w) /\ MoveToDlq(w))
  <2>1. CASE Begin(w) \/ CleanUp(w) \/ Raise(w) \/ DeadLetterFails(w) \/ StopWorker(w)
    BY <2>1 DEF Begin, Dequeue, CleanUp, HandleOk, Raise, HandleFail, DeadLetterFails, RepushFails,
       StopWorker, Stop, redisVars
  <2>2. CASE \/ Lookup(w) \/ LookupFails(w) \/ SendChunk(w) \/ SendFails(w) \/ SendDone(w)
             \/ MarkFails(w) \/ CleanUpFails(w) \/ MarkAllFailed(w) \/ MarkAllFails(w)
    BY <2>2 DEF Lookup, LookupFails, SendChunk, SendFails, SendDone, MarkFails, CleanUpFails,
       MarkAllFailed, MarkAllFails, DbFails, vars, redisVars
  <2>3. CASE \/ MarkDelivered(w) \/ MarkTokenless(w) \/ MarkUnreachable(w)
             \/ Unmark(w) \/ UnmarkTokenless(w)
    BY <2>3 DEF MarkDelivered, MarkTokenless, MarkUnreachable, Unmark, UnmarkTokenless, MarkStep,
       vars, redisVars
  <2>4. CASE Repush(w) BY <2>4 DEF Repush, Retry, RepushFails, redisVars
  <2> QED BY <1>6, <2>1, <2>2, <2>3, <2>4 DEF Handler
<1>7. CASE \E t \in Token : Register(t)
  BY <1>1, <1>7 DEF Register, vars, redisVars
<1>8. CASE UNCHANGED sosVars BY <1>1, <1>8 DEF sosVars, vars, redisVars
<1> QED BY <1>1, <1>2, <1>5, <1>6, <1>7, <1>8 DEF SosNext

\* Nobody but a worker that holds the payload marks its recipients otherwise.
LEMMA FailedStays ==
  ASSUME SosOK, NEW w \in Worker, Handler(w) \/ StopWorker(w),
         NEW m \in Msg, Holders(m) = {}, Failed(m)
  PROVE  Failed(m)'
<1> USE DEF SosOK
<1>1. CASE UNCHANGED status BY <1>1 DEF Failed
<1>2. CASE \/ Begin(w) \/ Lookup(w) \/ SendChunk(w) \/ SendFails(w) \/ SendDone(w) \/ CleanUp(w)
           \/ Raise(w) \/ Repush(w) \/ MarkAllFails(w) \/ DeadLetterFails(w) \/ StopWorker(w)
           \/ LookupFails(w) \/ MarkFails(w) \/ CleanUpFails(w)
  BY <1>1, <1>2 DEF Begin, Lookup, SendChunk, SendFails, SendDone, CleanUp, Raise, Repush,
     MarkAllFails, DeadLetterFails, StopWorker, LookupFails, MarkFails, CleanUpFails, DbFails,
     deliveryVars
<1>3. CASE MarkAllFailed(w)
  <2> DEFINE x == owed[w]
  <2>1. x \in Msg /\ Mark(x, User, "failed") /\ status \in [Msg -> [User -> Status]]
    BY <1>3 DEF MarkAllFailed, LocalOK, TableOK, Places, Place
  <2> HIDE DEF x
  <2>2. \A y \in Msg, u \in User : status'[y][u] = status[y][u] \/ status'[y][u] = "failed"
    BY <2>1, MarkTypes DEF Status
  <2> QED BY <2>2 DEF Failed
<1>4. CASE \/ MarkDelivered(w) \/ MarkTokenless(w) \/ MarkUnreachable(w)
           \/ Unmark(w) \/ UnmarkTokenless(w)
  <2> DEFINE x == hand[w].msg
  <2>1. PICK s \in {"delivered", "failed"} : \E users : Mark(x, users, s) /\ sub[w] \in Inside
    BY <1>4 DEF MarkDelivered, MarkTokenless, MarkUnreachable, Unmark, UnmarkTokenless, MarkStep,
       Inside, Sub
  <2>2. PICK users : Mark(x, users, s) BY <2>1
  <2>3. x \in Msg /\ step[w] = "delivering" BY <2>1, InsideHolds
  <2>4. x # m BY <2>3 DEF Holders, Holding
  <2>5. s \in Status BY DEF Status
  <2>6. status \in [Msg -> [User -> Status]] BY DEF TableOK
  <2> HIDE DEF x
  <2>7. \A y \in Msg, u \in User : status'[y][u] = status[y][u] \/ y = x
    BY <2>2, <2>3, <2>5, <2>6, MarkTypes
  <2> QED BY <2>4, <2>7 DEF Failed
<1> QED BY <1>2, <1>3, <1>4 DEF Handler

LEMMA DeadNext ==
  SosOK /\ SosOK' /\ OwedIdle /\ CopiesInv /\ DeadInv /\ [SosNext]_sosVars => DeadInv'
<1> SUFFICES ASSUME SosOK, SosOK', OwedIdle, CopiesInv, DeadInv, [SosNext]_sosVars,
                    NEW m \in Msg, published'[m] + stolen'[m] = 1, dbFaults' = 0, stops' = 0,
                    m \in Payloads(dlq')
             PROVE  Failed(m)' \/ \E w \in Worker : owed'[w] = m
  BY DEF DeadInv, Failed
<1>1. [Next]_vars /\ TypeOK BY ImplementsNext DEF SosOK
<1>2. CASE m \notin Payloads(dlq) BY <1>2, DeadLetterMoves
<1>3. CASE m \in Payloads(dlq)
  <2>1. published[m] + stolen[m] >= 1 /\ (published[m] + stolen[m] = 1 => Holders(m) = {})
    BY <1>1, <1>3, DeadLetterIsAlone
  <2>2. published[m] + stolen[m] = 1 /\ stops = 0 /\ dbFaults = 0
    <3>1. published'[m] >= published[m] /\ stolen'[m] >= stolen[m] BY <1>1, HistoryGrows
    <3>2. /\ published[m] \in Nat /\ stolen[m] \in Nat /\ published'[m] \in Nat
          /\ stolen'[m] \in Nat /\ stops \in Nat
      BY <1>1 DEF SosOK, TypeOK
    <3>3. published[m] + stolen[m] = 1 BY <2>1, <3>1, <3>2
    <3>4. stops' >= stops BY <1>1, FaultsGrowNext DEF FaultsGrow
    <3>5. stops = 0 BY <3>2, <3>4
    <3>6. MarksStay
      <4>1. ASSUME NEW w \in Worker, Handler(w) \/ StopWorker(w) PROVE MarksStay
        BY <4>1, HandlerMarks
      <4>2. CASE UNCHANGED <<status, dbFaults>> BY <4>2 DEF MarksStay, SosOK, TableOK
      <4> QED BY <4>1, <4>2 DEF SosNext, QueueStep, Register, sosVars, deliveryVars
    <3>7. dbFaults = 0 BY <3>6 DEF MarksStay
    <3> QED BY <3>3, <3>5, <3>7
  <2>3. Holders(m) = {} BY <2>1, <2>2
  <2>4. CASE UNCHANGED <<owed, status>>
    <3>1. Failed(m) \/ \E w \in Worker : owed[w] = m BY <1>3, <2>2 DEF DeadInv
    <3> QED BY <2>4, <3>1 DEF Failed
  <2>5. ASSUME NEW v \in Worker, Handler(v) \/ StopWorker(v)
        PROVE  Failed(m)' \/ \E w \in Worker : owed'[w] = m
    <3>1. CASE Failed(m) BY <2>3, <2>5, <3>1, FailedStays
    <3>2. ASSUME NEW w \in Worker, owed[w] = m PROVE Failed(m)' \/ owed'[w] = m
      <4>1. CASE v # w BY <2>5, <3>2, <4>1, LocalStep DEF SosOK
      <4>2. CASE v = w
        <5>1. owed[w] # None BY <3>2, DeliveryAssumption
        <5>2. owed'[w] = owed[w] \/ \A u \in User : status'[owed[w]][u] = "failed"
          BY <2>2, <2>5, <4>2, <5>1, OwedMoves
        <5> QED BY <3>2, <5>2 DEF Failed
      <4> QED BY <4>1, <4>2
    <3> QED BY <1>3, <2>2, <3>1, <3>2 DEF DeadInv
  <2> QED BY <2>4, <2>5 DEF SosNext, QueueStep, Register, sosVars, deliveryVars
<1> QED BY <1>2, <1>3

\* A dead-lettered alert shows every recipient as failed once its worker has
\* marked them, if only one copy of it was made: no second worker, no requeue
\* script and no failed push leaves a "delivered" behind.
THEOREM DeadLetterCorrect == SosSpec => []DeadLetterShowsFailed
<1>1. SosInit => OwedIdle /\ CopiesInv /\ DeadInv
  <2> SUFFICES ASSUME SosInit PROVE OwedIdle /\ CopiesInv /\ DeadInv OBVIOUS
  <2>1. Init /\ \A w \in Worker : sub[w] = "none" BY DEF SosInit
  <2>2. Payloads(dlq) = {} BY <2>1 DEF Init, Payloads, ToSet
  <2> QED BY <2>1, <2>2, CopiesInit DEF OwedIdle, DeadInv
<1>2. SosOK /\ CopiesInv /\ [SosNext]_sosVars => CopiesInv'
  BY ImplementsNext, CopiesNext DEF SosOK
<1>3. SosOK /\ DeadInv => DeadLetterShowsFailed
  <2> SUFFICES ASSUME SosOK, DeadInv, NEW m \in Payloads(dlq), published[m] + stolen[m] = 1,
                      dbFaults + stops = 0, ~AtWork(m)
               PROVE  Failed(m)
    BY DEF DeadLetterShowsFailed, Failed
  <2>1. m \in Msg
    <3>1. ToSet(dlq) \subseteq Job BY DEF SosOK, TypeOK, ToSet
    <3> QED BY <3>1 DEF Payloads, Job
  <2>2. dbFaults = 0 /\ stops = 0
    <3>1. dbFaults \in Nat /\ stops \in Nat BY DEF SosOK, TableOK, TypeOK
    <3> QED BY <3>1
  <2>3. ~ \E w \in Worker : owed[w] = m BY DEF AtWork
  <2> QED BY <2>1, <2>2, <2>3 DEF DeadInv
<1> QED BY <1>1, <1>2, <1>3, SosTypeInit, SosTypeNext, OwedIdleNext, DeadNext, PTL DEF SosSpec

-----------------------------------------------------------------------------
(* Rings: while nothing fails, every entry of `processing` is in the hands *)
(* of a worker, so that a recovery that takes one is on record.            *)

OwnersOf(j) == {w \in Worker : step[w] \in InFlight /\ hand[w] = j}
AttendedInv ==
  stops = 0 /\ outages = 0 =>
    \A j \in Job : Occ(processing, j) <= Cardinality(OwnersOf(j))

\* Of two sets of workers that differ in w at most.
LEMMA SetMove ==
  ASSUME NEW w \in Worker, NEW A \in SUBSET Worker, NEW B \in SUBSET Worker,
         \A v \in Worker \ {w} : v \in A <=> v \in B
  PROVE  /\ Cardinality(A) \in Nat /\ Cardinality(B) \in Nat
         /\ Cardinality(B) + One(w \in A) = Cardinality(A) + One(w \in B)
<1>1. /\ IsFiniteSet(A) /\ Cardinality(A) \in Nat
      /\ IsFiniteSet(B) /\ Cardinality(B) \in Nat
  BY WorkersFinite
<1>2. CASE w \in A /\ w \in B
  <2>1. A = B BY <1>2
  <2> QED BY <1>1, <2>1
<1>3. CASE w \notin A /\ w \notin B
  <2>1. A = B BY <1>3
  <2> QED BY <1>1, <2>1
<1>4. CASE w \in A /\ w \notin B
  <2>1. A = B \cup {w} BY <1>4
  <2>2. Cardinality(A) = Cardinality(B) + 1 BY <1>1, <1>4, <2>1, FS_AddElement
  <2> QED BY <1>1, <1>4, <2>2 DEF One
<1>5. CASE w \notin A /\ w \in B
  <2>1. B = A \cup {w} BY <1>5
  <2>2. Cardinality(B) = Cardinality(A) + 1 BY <1>1, <1>5, <2>1, FS_AddElement
  <2> QED BY <1>1, <1>5, <2>2 DEF One
<1> QED BY <1>2, <1>3, <1>4, <1>5

\* The owners of a job after a step of w.
LEMMA OwnersMove ==
  ASSUME NEW w \in Worker, NEW j,
         \A v \in Worker \ {w} : step'[v] = step[v] /\ hand'[v] = hand[v]
  PROVE  /\ Cardinality(OwnersOf(j)) \in Nat /\ Cardinality(OwnersOf(j)') \in Nat
         /\ Cardinality(OwnersOf(j)') + One(step[w] \in InFlight /\ hand[w] = j)
              = Cardinality(OwnersOf(j)) + One(step'[w] \in InFlight /\ hand'[w] = j)
<1>1. PICK A, B : A = OwnersOf(j) /\ B = OwnersOf(j)' OBVIOUS
<1>2. /\ A \in SUBSET Worker /\ B \in SUBSET Worker
      /\ \A v \in Worker \ {w} : v \in A <=> v \in B
      /\ w \in A <=> step[w] \in InFlight /\ hand[w] = j
      /\ w \in B <=> step'[w] \in InFlight /\ hand'[w] = j
  BY <1>1 DEF OwnersOf
<1>3. /\ Cardinality(A) \in Nat /\ Cardinality(B) \in Nat
      /\ Cardinality(B) + One(w \in A) = Cardinality(A) + One(w \in B)
  BY <1>2, SetMove
<1>4. /\ One(w \in A) = One(step[w] \in InFlight /\ hand[w] = j)
      /\ One(w \in B) = One(step'[w] \in InFlight /\ hand'[w] = j)
  BY <1>2 DEF One
<1> QED BY <1>1, <1>3, <1>4

\* A recovery takes no entry unseen.
LEMMA AttendedEntry ==
  ASSUME TypeOK, AttendedInv, stops = 0, outages = 0, processing # <<>>
  PROVE  BeingHandled(Last(processing))
<1> DEFINE j == Last(processing)
           f == Front(processing)
<1>1. processing \in Seq(Job) BY DEF TypeOK
<1>2. j \in Job /\ f \in Seq(Job) BY <1>1, PopTail
<1>3. OneMoreOf(processing, f, j) BY <1>1, OccOfPopTail
<1>4. Occ(f, j) \in Nat BY <1>2, OccType
<1>5. Occ(processing, j) = Occ(f, j) + 1 BY <1>3 DEF OneMoreOf
<1>6. Occ(processing, j) <= Cardinality(OwnersOf(j)) BY <1>2 DEF AttendedInv
<1>7. Cardinality(OwnersOf(j)) # 0
  <2>1. OwnersOf(j) \in SUBSET Worker BY DEF OwnersOf
  <2>2. Cardinality(OwnersOf(j)) \in Nat BY <2>1, WorkersFinite
  <2> HIDE DEF j, f
  <2> QED BY <1>4, <1>5, <1>6, <2>2
<1>8. OwnersOf(j) # {} BY <1>7, FS_EmptySet
<1> QED BY <1>8 DEF OwnersOf, BeingHandled

LEMMA AttendedNext ==
  ASSUME TypeOK, TypeOK', ~redisUp => outages > 0, AttendedInv, [Next]_vars
  PROVE  AttendedInv'
<1> SUFFICES ASSUME stops' = 0, outages' = 0, NEW j \in Job
             PROVE  Occ(processing', j) <= Cardinality(OwnersOf(j)')
  BY DEF AttendedInv, OwnersOf
<1> USE DEF faultVars
<1>1. stops = 0 /\ outages = 0 /\ redisUp BY FaultsStay
<1>2. Occ(processing, j) <= Cardinality(OwnersOf(j)) BY <1>1 DEF AttendedInv
<1>3. /\ processing \in Seq(Job) /\ processing' \in Seq(Job) /\ queue \in Seq(Job)
      /\ step \in [Worker -> Step] /\ hand \in [Worker -> Job \cup {None}]
  BY DEF TypeOK
<1>4. Occ(processing, j) \in Nat /\ Occ(processing', j) \in Nat BY <1>3, OccType
<1>5. CASE \/ \E m \in Msg : Enqueue(m)
           \/ RequeueStart \/ Requeue \/ ClearDlq \/ RedisBack \/ UNCHANGED vars
  <2>1. UNCHANGED <<processing, step, hand>>
    BY <1>5 DEF Enqueue, RequeueStart, Requeue, RequeuePop, RequeuePush, RequeueEnd,
       RequeueFails, ClearDlq, RedisBack, redisVars, workerVars, vars
  <2> QED BY <1>2, <2>1 DEF OwnersOf
<1>6. CASE RedisDown \/ \E w \in Worker : DequeueReplyLost(w) \/ AckReplyLost(w) \/ Stop(w)
  <2>1. outages' = outages + 1 \/ stops' = stops + 1
    BY <1>6 DEF RedisDown, DequeueReplyLost, AckReplyLost, Stop
  <2> QED BY <1>1, <2>1
\* Steps that leave what is in flight as it is.
<1>7. ASSUME NEW w \in Worker, UNCHANGED processing,
             \A v \in Worker \ {w} : step'[v] = step[v] /\ hand'[v] = hand[v],
             step[w] \in InFlight => step'[w] \in InFlight /\ hand'[w] = hand[w]
      PROVE  Occ(processing', j) <= Cardinality(OwnersOf(j)')
  <2>1. /\ Cardinality(OwnersOf(j)) \in Nat /\ Cardinality(OwnersOf(j)') \in Nat
        /\ Cardinality(OwnersOf(j)') + One(step[w] \in InFlight /\ hand[w] = j)
             = Cardinality(OwnersOf(j)) + One(step'[w] \in InFlight /\ hand'[w] = j)
    BY <1>7, OwnersMove
  <2>2. One(step[w] \in InFlight /\ hand[w] = j) <= One(step'[w] \in InFlight /\ hand'[w] = j)
        /\ One(step[w] \in InFlight /\ hand[w] = j) \in Nat
        /\ One(step'[w] \in InFlight /\ hand'[w] = j) \in Nat
    BY <1>7 DEF One
  <2> QED BY <1>2, <1>4, <1>7, <2>1, <2>2
<1>8. ASSUME NEW w \in Worker,
             \/ Start(w) \/ RecoverDone(w) \/ StartFails(w) \/ Handle(w) \/ AckFails(w)
             \/ Retry(w) \/ MoveToDlq(w) \/ RepushFails(w)
      PROVE  Occ(processing', j) <= Cardinality(OwnersOf(j)')
  <2>1. UNCHANGED processing
    BY <1>8 DEF Start, RecoverDone, StartFails, Handle, HandleOk, HandleFail, AckFails,
       Retry, MoveToDlq, RepushFails, redisVars
  <2>2. \A v \in Worker \ {w} : step'[v] = step[v] /\ hand'[v] = hand[v]
    BY <1>3, <1>8 DEF Start, RecoverDone, StartFails, Handle, HandleOk, HandleFail, AckFails,
       Retry, MoveToDlq, RepushFails, Goto, PutDown
  <2>3. step[w] \in InFlight => step'[w] \in InFlight /\ hand'[w] = hand[w]
    <3>1. CASE \/ Start(w) \/ RecoverDone(w) \/ StartFails(w)
               \/ Retry(w) \/ MoveToDlq(w) \/ RepushFails(w)
      <4>1. step[w] \in {"stopped", "recovering", "repush"}
        BY <3>1 DEF Start, RecoverDone, StartFails, Retry, MoveToDlq, RepushFails
      <4> QED BY <4>1 DEF InFlight
    <3>2. CASE Handle(w) \/ AckFails(w)
      <4>1. step'[w] \in {"delivered", "failing"} /\ UNCHANGED hand
        BY <1>3, <3>2 DEF Handle, HandleOk, HandleFail, AckFails, Goto
      <4> QED BY <4>1 DEF InFlight
    <3> QED BY <1>8, <3>1, <3>2
  <2> QED BY <1>7, <2>1, <2>2, <2>3
<1>9. ASSUME NEW w \in Worker, RetryAckFails(w)
      PROVE  Occ(processing', j) <= Cardinality(OwnersOf(j)')
  BY <1>1, <1>9 DEF RetryAckFails
<1>10. ASSUME NEW w \in Worker, Dequeue(w)
       PROVE  Occ(processing', j) <= Cardinality(OwnersOf(j)')
  <2>1. PICK e : e = Last(queue) OBVIOUS
  <2>2. /\ step[w] = "idle" /\ queue # <<>> /\ processing' = Cons(e, processing)
        /\ hand' = [hand EXCEPT ![w] = e] /\ step' = [step EXCEPT ![w] = "delivering"]
    BY <1>10, <2>1 DEF Dequeue, TakeTail, Goto
  <2>3. e \in Job BY <1>3, <2>1, <2>2, PopTail
  <2>4. Occ(processing', j) = Occ(processing, j) + One(j = e)
    <3>1. OneMoreOf(processing', processing, e) BY <1>3, <2>2, <2>3, OccOfPushHead
    <3> QED BY <1>4, <3>1 DEF OneMoreOf, One
  <2>5. /\ \A v \in Worker \ {w} : step'[v] = step[v] /\ hand'[v] = hand[v]
        /\ step'[w] = "delivering" /\ hand'[w] = e
    BY <1>3, <2>2
  <2>6. /\ Cardinality(OwnersOf(j)) \in Nat /\ Cardinality(OwnersOf(j)') \in Nat
        /\ Cardinality(OwnersOf(j)') + One(step[w] \in InFlight /\ hand[w] = j)
             = Cardinality(OwnersOf(j)) + One(step'[w] \in InFlight /\ hand'[w] = j)
    BY <2>5, OwnersMove
  <2>7. One(step[w] \in InFlight /\ hand[w] = j) = 0 BY <2>2 DEF InFlight, One
  <2>8. One(step'[w] \in InFlight /\ hand'[w] = j) = One(j = e) /\ One(j = e) \in Nat
    BY <2>5 DEF InFlight, One
  <2> QED BY <1>2, <1>4, <2>4, <2>6, <2>7, <2>8
<1>11. ASSUME NEW w \in Worker, Ack(w) \/ RetryAck(w)
       PROVE  Occ(processing', j) <= Cardinality(OwnersOf(j)')
  <2>1. PICK e : e = hand[w] OBVIOUS
  <2>2. /\ step[w] \in InFlight /\ processing' = RemoveFirst(processing, e)
        /\ \A v \in Worker \ {w} : step'[v] = step[v] /\ hand'[v] = hand[v]
        /\ step'[w] \in {"idle", "repush"}
    BY <1>3, <1>11, <2>1 DEF Ack, RetryAck, PutDown, Goto, InFlight
  <2>3. Occ(processing', j) = Occ(processing, j) - One(j = e) \/
        (Occ(processing, j) = Occ(processing', j) /\ (j = e => Occ(processing, j) = 0))
    <3>1. CASE OneMoreOf(processing, processing', e) BY <1>4, <3>1 DEF OneMoreOf, One
    <3>2. CASE Occ(processing, e) = 0 /\ processing' = processing BY <3>2
    <3> QED BY <1>3, <2>2, <3>1, <3>2, OccOfRemove
  <2>4. /\ Cardinality(OwnersOf(j)) \in Nat /\ Cardinality(OwnersOf(j)') \in Nat
        /\ Cardinality(OwnersOf(j)') + One(step[w] \in InFlight /\ hand[w] = j)
             = Cardinality(OwnersOf(j)) + One(step'[w] \in InFlight /\ hand'[w] = j)
    BY <2>2, OwnersMove
  <2>5. One(step'[w] \in InFlight /\ hand'[w] = j) = 0 BY <2>2 DEF InFlight, One
  <2>6. One(step[w] \in InFlight /\ hand[w] = j) = One(j = e) BY <2>1, <2>2 DEF One
  <2>7. One(j = e) \in {0, 1} /\ (One(j = e) = 1 => j = e) BY DEF One
  <2> QED BY <1>2, <1>4, <2>3, <2>4, <2>5, <2>6, <2>7
<1>12. ASSUME NEW w \in Worker, RecoverOne(w)
       PROVE  Occ(processing', j) <= Cardinality(OwnersOf(j)')
  <2>1. processing' = Front(processing) /\ processing # <<>> /\ UNCHANGED <<step, hand>>
    BY <1>12 DEF RecoverOne, workerVars
  <2>2. OneMoreOf(processing, processing', Last(processing)) BY <1>3, <2>1, OccOfPopTail
  <2>3. Occ(processing', j) <= Occ(processing, j) BY <1>4, <2>2 DEF OneMoreOf
  <2>4. OwnersOf(j)' = OwnersOf(j) BY <2>1 DEF OwnersOf
  <2>5. Cardinality(OwnersOf(j)) \in Nat
    <3>1. OwnersOf(j) \in SUBSET Worker BY DEF OwnersOf
    <3> QED BY <3>1, WorkersFinite
  <2> QED BY <1>2, <1>4, <2>3, <2>4, <2>5
<1> QED BY <1>5, <1>6, <1>8, <1>9, <1>10, <1>11, <1>12 DEF Next, Recover, Settle


-----------------------------------------------------------------------------
(* Each attempt of a copy rings a device at most once.  The attempts made  *)
(* are numbered apart: c[m][k] of them, of payload m, rang t in a copy's   *)
(* attempt k (from 0).  With the copies that may still come to ring t in   *)
(* their attempt k they are never more than the copies there are.          *)

Level == 0..(MaxDeliveryAttempts - 1)
Given(m) == published[m] + stolen[m]

\* Entries of a payload that have not had attempt k yet.
LevelCopies(s, m, k) == {x \in Copies(s, m) : x[1].attempts <= k}
LevelNum(s, m, k) == Cardinality(LevelCopies(s, m, k))
\* And workers that hold such a job: w comes to t in attempt k of m, if at all.
StillDue(w, t) ==
  \/ sub[w] = "lookup"
  \/ sub[w] = "send" /\ t \in rest[w]
  \/ step[w] = "repush"
MayRing(w, m, k, t) ==
  /\ step[w] \in Holding /\ hand[w].msg = m
  /\ hand[w].attempts < k \/ (hand[w].attempts = k /\ StillDue(w, t))
Calling(m, k, t) == {w \in Worker : MayRing(w, m, k, t)}
Ringable(m, k, t) == LevelNum(queue, m, k) + Cardinality(Calling(m, k, t))

Rings(c) == {x \in (Msg \X (Nat \ {0})) \X Level : x[1][2] <= c[x[1][1]][x[2]]}
RingOK(c, t) ==
  /\ IsFiniteSet(Rings(c)) /\ Cardinality(Rings(c)) = accepted[t]
  /\ \A m \in Msg, k \in Level : c[m][k] + Ringable(m, k, t) <= Given(m)
RingInv ==
  stops = 0 /\ outages = 0 /\ requeues = 0 =>
    \A t \in Token : \E c \in [Msg -> [Level -> Nat]] : RingOK(c, t)

LEMMA LevelTypes ==
  ASSUME NEW s, Counts(s), NEW m \in Msg, NEW k PROVE LevelNum(s, m, k) \in Nat
<1>1. LevelCopies(s, m, k) \in SUBSET Copies(s, m) BY DEF LevelCopies
<1>2. IsFiniteSet(Copies(s, m)) BY DEF Counts
<1>3. IsFiniteSet(LevelCopies(s, m, k)) BY <1>1, <1>2, FS_Subset
<1> QED BY <1>3, FS_CardinalityType DEF LevelNum

LEMMA LevelMoves ==
  ASSUME NEW s \in Seq(Job), NEW t \in Seq(Job), NEW e \in Job, OneMoreOf(s, t, e),
         Counts(s) \/ Counts(t), NEW m \in Msg, NEW k
  PROVE  /\ LevelNum(s, m, k) \in Nat /\ LevelNum(t, m, k) \in Nat
         /\ LevelNum(s, m, k) = LevelNum(t, m, k) + One(e.msg = m /\ e.attempts <= k)
<1> DEFINE x == <<e, Occ(s, e)>>
           A == LevelCopies(s, m, k)
           B == LevelCopies(t, m, k)
<1>1. Counts(s) /\ Counts(t) BY NumMoves
<1>2. LevelNum(s, m, k) \in Nat /\ LevelNum(t, m, k) \in Nat BY <1>1, LevelTypes
<1>3. IsFiniteSet(B)
  <2>1. B \in SUBSET Copies(t, m) BY DEF LevelCopies
  <2>2. IsFiniteSet(Copies(t, m)) BY <1>1 DEF Counts
  <2> QED BY <2>1, <2>2, FS_Subset
<1>4. /\ Copies(s, m) = Copies(t, m) \cup (IF e.msg = m THEN {x} ELSE {})
      /\ (e.msg = m => x \notin Copies(t, m))
  BY CopiesOfOneMore
<1>5. x[1] = e OBVIOUS
<1>6. CASE e.msg = m /\ e.attempts <= k
  <2>1. A = B \cup {x} /\ x \notin B
    <3> HIDE DEF x
    <3> QED BY <1>4, <1>5, <1>6 DEF LevelCopies
  <2> HIDE DEF A, B, x
  <2>2. Cardinality(A) = Cardinality(B) + 1 BY <1>3, <2>1, FS_AddElement
  <2> QED BY <1>2, <1>6, <2>2 DEF A, B, LevelNum, One
<1>7. CASE ~ (e.msg = m /\ e.attempts <= k)
  <2>1. A = B
    <3> HIDE DEF x
    <3> QED BY <1>4, <1>5, <1>7 DEF LevelCopies
  <2> HIDE DEF A, B
  <2>2. LevelNum(s, m, k) = LevelNum(t, m, k) BY <2>1 DEF A, B, LevelNum
  <2> QED BY <1>2, <1>7, <2>2 DEF One
<1> QED BY <1>6, <1>7

LEMMA LevelNext == \A m, k : LevelNum(queue, m, k)' = LevelNum(queue', m, k)
BY DEF LevelNum, LevelCopies, Copies, Occ

\* What may still ring after a step of w.
LEMMA CallingMove ==
  ASSUME NEW w \in Worker, NEW m, NEW k, NEW t,
         \A v \in Worker \ {w} : /\ step'[v] = step[v] /\ hand'[v] = hand[v]
                                 /\ sub'[v] = sub[v] /\ rest'[v] = rest[v]
  PROVE  /\ Cardinality(Calling(m, k, t)) \in Nat /\ Cardinality(Calling(m, k, t)') \in Nat
         /\ Cardinality(Calling(m, k, t)') + One(MayRing(w, m, k, t))
              = Cardinality(Calling(m, k, t)) + One(MayRing(w, m, k, t)')
<1>1. PICK A, B : A = Calling(m, k, t) /\ B = Calling(m, k, t)' OBVIOUS
<1>2. A \in SUBSET Worker /\ B \in SUBSET Worker BY <1>1 DEF Calling
<1>3. (w \in A <=> MayRing(w, m, k, t)) /\ (w \in B <=> MayRing(w, m, k, t)')
  BY <1>1 DEF Calling
<1>4. \A v \in Worker \ {w} : v \in A <=> v \in B
  <2> SUFFICES ASSUME NEW v \in Worker \ {w}
               PROVE  MayRing(v, m, k, t) <=> MayRing(v, m, k, t)'
    BY <1>1 DEF Calling
  <2> QED BY DEF MayRing, StillDue
<1>5. /\ Cardinality(A) \in Nat /\ Cardinality(B) \in Nat
      /\ Cardinality(B) + One(w \in A) = Cardinality(A) + One(w \in B)
  BY <1>2, <1>4, SetMove
<1>6. /\ One(w \in A) = One(MayRing(w, m, k, t))
      /\ One(w \in B) = One(MayRing(w, m, k, t)')
  BY <1>3 DEF One
<1> QED BY <1>1, <1>5, <1>6


\* A step that rings t no more, and brings no more to ring than copies.
LEMMA RingStays ==
  ASSUME NEW t \in Token, NEW c \in [Msg -> [Level -> Nat]], RingOK(c, t),
         accepted'[t] = accepted[t],
         \A m \in Msg, k \in Level :
           /\ Ringable(m, k, t) \in Nat /\ Ringable(m, k, t)' \in Nat
           /\ Given(m) \in Nat /\ Given(m)' \in Nat
           /\ Ringable(m, k, t)' + Given(m) <= Ringable(m, k, t) + Given(m)'
  PROVE  RingOK(c, t)'
<1>1. /\ IsFiniteSet(Rings(c))' /\ Cardinality(Rings(c))' = accepted'[t]
  BY DEF RingOK, Rings, Level
<1>2. ASSUME NEW m \in Msg, NEW k \in Level
      PROVE  c[m][k] + Ringable(m, k, t)' <= Given(m)'
  <2>1. c[m][k] \in Nat OBVIOUS
  <2>2. c[m][k] + Ringable(m, k, t) <= Given(m) BY DEF RingOK
  <2>3. /\ Ringable(m, k, t) \in Nat /\ Ringable(m, k, t)' \in Nat
        /\ Given(m) \in Nat /\ Given(m)' \in Nat
        /\ Ringable(m, k, t)' + Given(m) <= Ringable(m, k, t) + Given(m)'
    OBVIOUS
  <2> HIDE DEF Ringable, Given
  <2> QED BY <2>1, <2>2, <2>3
<1> QED BY <1>1, <1>2 DEF RingOK, Level

\* The same, for a step of w.
LEMMA RingStaysFor ==
  ASSUME TypeOK, TypeOK', Counts(queue), Counts(queue'), NEW w \in Worker, NEW t \in Token,
         NEW c \in [Msg -> [Level -> Nat]], RingOK(c, t), accepted'[t] = accepted[t],
         \A v \in Worker \ {w} : /\ step'[v] = step[v] /\ hand'[v] = hand[v]
                                 /\ sub'[v] = sub[v] /\ rest'[v] = rest[v],
         \A m \in Msg, k \in Level :
           LevelNum(queue', m, k) + One(MayRing(w, m, k, t)') + Given(m)
             <= LevelNum(queue, m, k) + One(MayRing(w, m, k, t)) + Given(m)'
  PROVE  RingOK(c, t)'
<1>1. ASSUME NEW m \in Msg, NEW k \in Level
      PROVE  /\ Ringable(m, k, t) \in Nat /\ Ringable(m, k, t)' \in Nat
             /\ Given(m) \in Nat /\ Given(m)' \in Nat
             /\ Ringable(m, k, t)' + Given(m) <= Ringable(m, k, t) + Given(m)'
  <2>1. /\ Cardinality(Calling(m, k, t)) \in Nat /\ Cardinality(Calling(m, k, t)') \in Nat
        /\ Cardinality(Calling(m, k, t)') + One(MayRing(w, m, k, t))
             = Cardinality(Calling(m, k, t)) + One(MayRing(w, m, k, t)')
    BY CallingMove
  <2>2. LevelNum(queue, m, k) \in Nat /\ LevelNum(queue', m, k) \in Nat BY LevelTypes
  <2>3. /\ Ringable(m, k, t) = LevelNum(queue, m, k) + Cardinality(Calling(m, k, t))
        /\ Ringable(m, k, t)' = LevelNum(queue', m, k) + Cardinality(Calling(m, k, t)')
    BY LevelNext DEF Ringable
  <2>4. Given(m) \in Nat /\ Given(m)' \in Nat
    <3>1. /\ published[m] \in Nat /\ stolen[m] \in Nat
          /\ published'[m] \in Nat /\ stolen'[m] \in Nat
      BY NatHistory
    <3> QED BY <3>1 DEF Given
  <2>5. One(MayRing(w, m, k, t)) \in Nat /\ One(MayRing(w, m, k, t)') \in Nat BY DEF One
  <2>6. LevelNum(queue', m, k) + One(MayRing(w, m, k, t)') + Given(m)
          <= LevelNum(queue, m, k) + One(MayRing(w, m, k, t)) + Given(m)'
    OBVIOUS
  <2> HIDE DEF Ringable, LevelNum, One, Given, MayRing
  <2> QED BY <2>1, <2>2, <2>3, <2>4, <2>5, <2>6
<1> QED BY <1>1, RingStays

\* w moves without a ring, and with no list changed, away from what it may ring.
LEMMA RingQuiet ==
  ASSUME TypeOK, TypeOK', Counts(queue), NEW w \in Worker, NEW t \in Token,
         UNCHANGED <<queue, published, stolen>>,
         NEW c \in [Msg -> [Level -> Nat]], RingOK(c, t), accepted'[t] = accepted[t],
         \A v \in Worker \ {w} : /\ step'[v] = step[v] /\ hand'[v] = hand[v]
                                 /\ sub'[v] = sub[v] /\ rest'[v] = rest[v],
         \A m \in Msg, k \in Level : MayRing(w, m, k, t)' => MayRing(w, m, k, t)
  PROVE  RingOK(c, t)'
<1>1. ASSUME NEW m \in Msg, NEW k \in Level
      PROVE  LevelNum(queue', m, k) + One(MayRing(w, m, k, t)') + Given(m)
               <= LevelNum(queue, m, k) + One(MayRing(w, m, k, t)) + Given(m)'
  <2>1. Given(m)' = Given(m) /\ Given(m) \in Nat BY NatHistory DEF Given
  <2>2. LevelNum(queue', m, k) = LevelNum(queue, m, k) /\ LevelNum(queue, m, k) \in Nat
    BY LevelTypes
  <2>3. One(MayRing(w, m, k, t)') <= One(MayRing(w, m, k, t))
        /\ One(MayRing(w, m, k, t)) \in Nat /\ One(MayRing(w, m, k, t)') \in Nat
    <3>1. MayRing(w, m, k, t)' => MayRing(w, m, k, t) OBVIOUS
    <3> HIDE DEF MayRing
    <3> QED BY <3>1 DEF One
  <2> HIDE DEF LevelNum, One, Given, MayRing
  <2> QED BY <2>1, <2>2, <2>3
<1>2. Counts(queue') OBVIOUS
<1> QED BY <1>1, <1>2, RingStaysFor

\* t rings once, in the attempt k of m that w makes.
LEMMA RingPosts ==
  ASSUME SosOK, SosOK', Counts(queue), NEW w \in Worker, NEW t \in Token,
         UNCHANGED <<queue, published, stolen, step, hand>>,
         NEW c \in [Msg -> [Level -> Nat]], RingOK(c, t), accepted'[t] = accepted[t] + 1,
         \A v \in Worker \ {w} : sub'[v] = sub[v] /\ rest'[v] = rest[v],
         step[w] = "delivering", hand[w].attempts \in Level, StillDue(w, t), ~StillDue(w, t)'
  PROVE  \E d \in [Msg -> [Level -> Nat]] : RingOK(d, t)'
<1>1. PICK x, a : x = hand[w].msg /\ a = hand[w].attempts OBVIOUS
<1>2. x \in Msg /\ a \in Level /\ accepted[t] \in Nat
  <2>1. hand[w].msg \in Msg BY HeldMsg DEF Holding
  <2> QED BY <1>1, <2>1 DEF SosOK, TableOK
<1>3. PICK n : n = c[x][a] OBVIOUS
<1>4. n \in Nat BY <1>2, <1>3
<1> DEFINE d == [c EXCEPT ![x] = [@ EXCEPT ![a] = n + 1]]
<1>5. d \in [Msg -> [Level -> Nat]] BY <1>2, <1>4
<1>6. \A m \in Msg, k \in Level : d[m][k] = IF m = x /\ k = a THEN n + 1 ELSE c[m][k]
  BY <1>2
<1> HIDE DEF d
<1>7. Rings(d) = Rings(c) \cup {<<<<x, n + 1>>, a>>} /\ <<<<x, n + 1>>, a>> \notin Rings(c)
  <2>1. \A i \in Nat \ {0} : i <= n + 1 <=> i <= n \/ i = n + 1 BY <1>4
  <2>2. ~ (n + 1 <= n) /\ n + 1 \in Nat \ {0} BY <1>4
  <2>3. ASSUME NEW m \in Msg, NEW i \in Nat \ {0}, NEW k \in Level
        PROVE  i <= d[m][k] <=> i <= c[m][k] \/ (m = x /\ i = n + 1 /\ k = a)
    BY <1>3, <1>6, <2>1
  <2> QED BY <1>2, <1>3, <2>2, <2>3 DEF Rings
<1>8. IsFiniteSet(Rings(d)) /\ Cardinality(Rings(d)) = accepted[t] + 1
  <2>1. IsFiniteSet(Rings(c)) /\ Cardinality(Rings(c)) = accepted[t] BY DEF RingOK
  <2> QED BY <1>7, <2>1, FS_AddElement
<1>9. ASSUME NEW m \in Msg, NEW k \in Level
      PROVE  d[m][k] + Ringable(m, k, t)' <= Given(m)'
  <2>1. /\ Cardinality(Calling(m, k, t)) \in Nat /\ Cardinality(Calling(m, k, t)') \in Nat
        /\ Cardinality(Calling(m, k, t)') + One(MayRing(w, m, k, t))
             = Cardinality(Calling(m, k, t)) + One(MayRing(w, m, k, t)')
    BY CallingMove
  <2>2. LevelNum(queue, m, k) \in Nat BY LevelTypes
  <2>3. /\ Ringable(m, k, t) = LevelNum(queue, m, k) + Cardinality(Calling(m, k, t))
        /\ Ringable(m, k, t)' = LevelNum(queue, m, k) + Cardinality(Calling(m, k, t)')
    BY LevelNext DEF Ringable
  <2>4. Given(m) \in Nat /\ Given(m)' = Given(m) BY NatHistory DEF Given, SosOK
  <2>5. c[m][k] + Ringable(m, k, t) <= Given(m) /\ c[m][k] \in Nat BY DEF RingOK
  <2>6. CASE m = x /\ k = a
    <3>1. One(MayRing(w, m, k, t)) = 1 /\ One(MayRing(w, m, k, t)') = 0
      BY <1>1, <2>6 DEF One, MayRing, Level, Holding
    <3>2. d[m][k] = c[m][k] + 1 BY <1>3, <1>6, <2>6
    <3> HIDE DEF Ringable, LevelNum, One, Given, MayRing
    <3> QED BY <2>1, <2>2, <2>3, <2>4, <2>5, <3>1, <3>2
  <2>7. CASE ~ (m = x /\ k = a)
    <3>1. MayRing(w, m, k, t)' => MayRing(w, m, k, t)
      BY <1>1, <2>7 DEF MayRing
    <3>2. One(MayRing(w, m, k, t)') <= One(MayRing(w, m, k, t))
          /\ One(MayRing(w, m, k, t)) \in Nat /\ One(MayRing(w, m, k, t)') \in Nat
      <4> HIDE DEF MayRing
      <4> QED BY <3>1 DEF One
    <3>3. d[m][k] = c[m][k] BY <1>6, <2>7
    <3> HIDE DEF Ringable, LevelNum, One, Given, MayRing
    <3> QED BY <2>1, <2>2, <2>3, <2>4, <2>5, <3>2, <3>3
  <2> QED BY <2>6, <2>7
<1>10. RingOK(d, t)'
  BY <1>5, <1>8, <1>9 DEF RingOK, Rings, Level
<1> QED BY <1>5, <1>10


\* Only an enqueue and a recovery of an entry in other hands make a copy.
LEMMA GivenMoves ==
  ASSUME TypeOK, [Next]_vars
  PROVE  \/ \A m \in Msg : Given(m)' = Given(m)
         \/ \E x \in Msg : \A m \in Msg : Given(m)' = Given(m) + One(m = x)
<1>1. CASE UNCHANGED <<published, stolen>> BY <1>1 DEF Given
<1>2. ASSUME NEW x \in Msg, published' = [published EXCEPT ![x] = @ + 1], stolen' = stolen
      PROVE  \A m \in Msg : Given(m)' = Given(m) + One(m = x)
  <2> TAKE m \in Msg
  <2>1. published \in [Msg -> Nat] /\ stolen[m] \in Nat BY DEF TypeOK
  <2>2. published[m] \in Nat /\ published'[m] = published[m] + One(m = x)
    BY <1>2, <2>1 DEF One
  <2>3. One(m = x) \in Nat BY DEF One
  <2> HIDE DEF One
  <2> QED BY <1>2, <2>1, <2>2, <2>3 DEF Given
<1>3. ASSUME NEW x \in Msg, stolen' = [stolen EXCEPT ![x] = @ + 1], published' = published
      PROVE  \A m \in Msg : Given(m)' = Given(m) + One(m = x)
  <2> TAKE m \in Msg
  <2>1. stolen \in [Msg -> Nat] /\ published[m] \in Nat BY DEF TypeOK
  <2>2. stolen[m] \in Nat /\ stolen'[m] = stolen[m] + One(m = x) BY <1>3, <2>1 DEF One
  <2>3. One(m = x) \in Nat BY DEF One
  <2> HIDE DEF One
  <2> QED BY <1>3, <2>1, <2>2, <2>3 DEF Given
<1>4. ASSUME NEW x \in Msg, Enqueue(x)
      PROVE  \A m \in Msg : Given(m)' = Given(m) + One(m = x)
  BY <1>2, <1>4 DEF Enqueue
<1>5. ASSUME NEW w \in Worker, RecoverOne(w), stolen' # stolen
      PROVE  \E x \in Msg : \A m \in Msg : Given(m)' = Given(m) + One(m = x)
  <2> DEFINE x == Last(processing).msg
  <2>1. processing \in Seq(Job) /\ processing # <<>> BY <1>5 DEF RecoverOne, TypeOK
  <2>2. Last(processing) \in Job BY <2>1, PopTail
  <2>3. x \in Msg BY <2>2 DEF Job
  <2>4. stolen' = [stolen EXCEPT ![x] = @ + 1] /\ published' = published
    BY <1>5 DEF RecoverOne
  <2> HIDE DEF x
  <2> QED BY <1>3, <2>3, <2>4
<1>6. ASSUME NEW w \in Worker, RecoverOne(w), stolen' = stolen
      PROVE  UNCHANGED <<published, stolen>>
  BY <1>6 DEF RecoverOne
<1>7. CASE \/ \E w \in Worker : \/ Start(w) \/ RecoverDone(w) \/ StartFails(w) \/ Dequeue(w)
                                \/ Handle(w) \/ Settle(w) \/ DequeueReplyLost(w)
                                \/ AckReplyLost(w) \/ Stop(w)
           \/ RequeueStart \/ Requeue \/ ClearDlq \/ RedisDown \/ RedisBack \/ UNCHANGED vars
  <2>1. UNCHANGED <<published, stolen>>
    BY <1>7 DEF Start, RecoverDone, StartFails, Dequeue, Handle,
       HandleOk, HandleFail, Settle, Ack, AckFails, RetryAck, RetryAckFails, Retry, MoveToDlq,
       RepushFails, Requeue, RequeuePop, RequeuePush, RequeueEnd, RequeueFails, ClearDlq,
       DequeueReplyLost, AckReplyLost, Stop, RequeueStart, RedisDown, RedisBack, historyVars, vars
  <2> QED BY <1>1, <2>1
<1> QED BY <1>1, <1>4, <1>5, <1>6, <1>7 DEF Next, Recover

LEMMA IssuedNext ==
  ASSUME TypeOK, TypeOK', [Next]_vars, IsFiniteSet(Issued) PROVE IsFiniteSet(Issued)'
<1>1. /\ Issued = {i \in Msg \X (Nat \ {0}) : i[2] <= Given(i[1])}
      /\ Issued' = {i \in Msg \X (Nat \ {0}) : i[2] <= Given(i[1])'}
  <2>1. \A m \in Msg : Given(m) \in Nat /\ Given(m)' \in Nat BY NatHistory DEF Given
  <2> QED BY <2>1 DEF Issued, Given
<1>2. \A m \in Msg : Given(m) \in Nat BY NatHistory DEF Given
<1>3. CASE \A m \in Msg : Given(m)' = Given(m)
  <2>1. Issued' = Issued
    <3> HIDE DEF Given
    <3> QED BY <1>1, <1>3
  <2> QED BY <2>1
<1>4. ASSUME NEW x \in Msg, \A m \in Msg : Given(m)' = Given(m) + One(m = x)
      PROVE  IsFiniteSet(Issued)'
  <2>1. PICK n : n = Given(x) + 1 OBVIOUS
  <2>2. ASSUME NEW m \in Msg, NEW i \in Nat \ {0}
        PROVE  i <= Given(m)' <=> i <= Given(m) \/ (m = x /\ i = n)
    <3>1. Given(m) \in Nat /\ Given(m)' = Given(m) + One(m = x) BY <1>2, <1>4
    <3> HIDE DEF Given
    <3>2. CASE m = x BY <2>1, <3>1, <3>2 DEF One
    <3>3. CASE m # x BY <3>1, <3>3 DEF One
    <3> QED BY <3>2, <3>3
  <2>3. n \in Nat \ {0} BY <1>2, <2>1
  <2>4. Issued' = Issued \cup {<<x, n>>}
    <3> HIDE DEF Given
    <3> QED BY <1>1, <2>2, <2>3
  <2>5. IsFiniteSet(Issued') BY <2>4, FS_AddElement
  <2> QED BY <2>5
<1> QED BY <1>3, <1>4, GivenMoves


\* Within its loop a worker rings nobody but in its handler's "send".
LEMMA RingHandler ==
  ASSUME SosOK, SosOK', AllCounts, Counts(queue'), DeadLettersInv, requeues = 0, redisUp,
         NEW w \in Worker, Handler(w), NEW t \in Token,
         NEW c \in [Msg -> [Level -> Nat]], RingOK(c, t)
  PROVE  \E d \in [Msg -> [Level -> Nat]] : RingOK(d, t)'
<1> USE DEF SosOK, AllCounts
<1>1. \A v \in Worker \ {w} : /\ step'[v] = step[v] /\ hand'[v] = hand[v]
                              /\ sub'[v] = sub[v] /\ rest'[v] = rest[v]
  BY LocalStep
<1>2. /\ step \in [Worker -> Step] /\ hand \in [Worker -> Job \cup {None}]
      /\ sub \in [Worker -> Sub] /\ rest \in [Worker -> SUBSET Token]
      /\ accepted \in [Token -> Nat] /\ queue \in Seq(Job) /\ queue' \in Seq(Job)
  BY DEF TypeOK, LocalOK, TableOK
<1>3. ASSUME UNCHANGED <<queue, published, stolen>>, accepted'[t] = accepted[t],
             \A m \in Msg, k \in Level : MayRing(w, m, k, t)' => MayRing(w, m, k, t)
      PROVE  \E d \in [Msg -> [Level -> Nat]] : RingOK(d, t)'
  BY <1>1, <1>3, RingQuiet
<1>4. ASSUME UNCHANGED <<queue, published, stolen, accepted>>,
             step'[w] \notin Holding \/
               (step[w] \in Holding /\ hand'[w] = hand[w] /\ (StillDue(w, t)' => StillDue(w, t)))
      PROVE  \E d \in [Msg -> [Level -> Nat]] : RingOK(d, t)'
  <2>1. \A m \in Msg, k \in Level : MayRing(w, m, k, t)' => MayRing(w, m, k, t)
    BY <1>4 DEF MayRing
  <2> QED BY <1>3, <1>4, <2>1
<1>5. CASE Begin(w)
  <2>1. PICK e : e = Last(queue) OBVIOUS
  <2>2. /\ step[w] = "idle" /\ queue # <<>> /\ queue' = Front(queue)
        /\ hand' = [hand EXCEPT ![w] = e] /\ step' = [step EXCEPT ![w] = "delivering"]
        /\ sub' = [sub EXCEPT ![w] = "lookup"] /\ UNCHANGED <<published, stolen, accepted>>
    BY <1>5, <2>1 DEF Begin, Dequeue, TakeTail, Goto, To, historyVars
  <2>3. e \in Job BY <1>2, <2>1, <2>2, PopTail
  <2>4. OneMoreOf(queue, queue', e) BY <1>2, <2>1, <2>2, OccOfPopTail
  <2>5. ASSUME NEW m \in Msg, NEW k \in Level
        PROVE  LevelNum(queue', m, k) + One(MayRing(w, m, k, t)') + Given(m)
                 <= LevelNum(queue, m, k) + One(MayRing(w, m, k, t)) + Given(m)'
    <3>1. /\ LevelNum(queue, m, k) \in Nat /\ LevelNum(queue', m, k) \in Nat
          /\ LevelNum(queue, m, k) = LevelNum(queue', m, k) + One(e.msg = m /\ e.attempts <= k)
      BY <1>2, <2>3, <2>4, LevelMoves
    <3>2. One(MayRing(w, m, k, t)) = 0 BY <2>2 DEF MayRing, Holding, One
    <3>3. One(MayRing(w, m, k, t)') <= One(e.msg = m /\ e.attempts <= k)
          /\ One(MayRing(w, m, k, t)') \in Nat /\ One(e.msg = m /\ e.attempts <= k) \in Nat
      <4>1. MayRing(w, m, k, t)' => e.msg = m /\ e.attempts <= k
        BY <1>2, <2>2, <2>3, QueueAssumption DEF MayRing, Level, Job
      <4> HIDE DEF MayRing
      <4> QED BY <4>1 DEF One
    <3>4. Given(m)' = Given(m) /\ Given(m) \in Nat BY <2>2, NatHistory DEF Given
    <3> HIDE DEF LevelNum, One, Given, MayRing
    <3> QED BY <3>1, <3>2, <3>3, <3>4
  <2>6. accepted'[t] = accepted[t] BY <2>2
  <2>7. RingOK(c, t)' BY <1>1, <2>5, <2>6, RingStaysFor
  <2> QED BY <2>7
<1>6. CASE SendChunk(w) \/ SendFails(w)
  <2>1. PICK s \in SUBSET rest[w] : Posted(s) /\ (rest'[w] \cap s = {} \/ sub'[w] = "unmark")
    <3>1. CASE SendChunk(w)
      <4>1. PICK x \in NextChunk(w) : \E gone \in SUBSET x :
              Posted(x \ gone) /\ rest' = [rest EXCEPT ![w] = @ \ x]
        BY <3>1 DEF SendChunk
      <4>2. PICK gone \in SUBSET x :
              Posted(x \ gone) /\ rest' = [rest EXCEPT ![w] = @ \ x]
        BY <4>1
      <4>3. x \ gone \in SUBSET rest[w] /\ rest'[w] \cap (x \ gone) = {}
        BY <1>2, <4>1, <4>2 DEF NextChunk
      <4> QED BY <4>2, <4>3
    <3>2. CASE SendFails(w)
      <4>1. PICK x \in NextChunk(w) \cup {{}} : Posted(x) BY <3>2 DEF SendFails
      <4>2. x \in SUBSET rest[w] BY <4>1 DEF NextChunk
      <4>3. sub'[w] = "unmark" BY <1>2, <3>2 DEF SendFails, To
      <4> QED BY <4>1, <4>2, <4>3
    <3> QED BY <1>6, <3>1, <3>2
  <2>2. sub[w] = "send" /\ UNCHANGED vars BY <1>6 DEF SendChunk, SendFails
  <2>3. UNCHANGED <<queue, published, stolen, step, hand>>
    BY <2>2 DEF vars, redisVars, historyVars, workerVars
  <2>4. step[w] = "delivering" BY <2>2, InsideHolds DEF Inside, Sub
  <2>5. /\ sub'[w] \in {"send", "unmark"} /\ rest'[w] \subseteq rest[w]
        /\ step'[w] = "delivering"
    <3>1. CASE SendChunk(w) BY <1>2, <2>2, <2>3, <2>4, <3>1 DEF SendChunk
    <3>2. CASE SendFails(w) BY <1>2, <2>3, <2>4, <3>2 DEF SendFails, To
    <3> QED BY <1>6, <3>1, <3>2
  <2>6. StillDue(w, t)' => StillDue(w, t) BY <2>2, <2>5 DEF StillDue
  <2>7. CASE t \in s
    <3>1. accepted'[t] = accepted[t] + 1 BY <2>1, <2>7 DEF Posted
    <3>2. StillDue(w, t) BY <2>1, <2>2, <2>7 DEF StillDue
    <3>3. ~StillDue(w, t)' BY <2>1, <2>5, <2>7 DEF StillDue
    <3>4. hand[w].attempts \in Level
      <4>1. hand[w].attempts < MaxDeliveryAttempts BY <2>4 DEF DeadLettersInv, InFlight
      <4>2. hand[w] \in Job BY <2>4, HeldMsg DEF Holding
      <4>3. hand[w].attempts \in 0..MaxDeliveryAttempts BY <4>2 DEF Job
      <4> QED BY <4>1, <4>3, QueueAssumption DEF Level
    <3> QED BY <1>1, <2>3, <2>4, <3>1, <3>2, <3>3, <3>4, RingPosts
  <2>8. CASE t \notin s
    <3>1. accepted'[t] = accepted[t] BY <1>2, <2>1, <2>8 DEF Posted
    <3>2. \A m \in Msg, k \in Level : MayRing(w, m, k, t)' => MayRing(w, m, k, t)
      BY <2>3, <2>6 DEF MayRing
    <3> QED BY <1>3, <2>3, <3>1, <3>2
  <2> QED BY <2>7, <2>8
<1>7. CASE Lookup(w)
  <2>1. /\ UNCHANGED vars /\ UNCHANGED accepted /\ sub[w] = "lookup"
    BY <1>7 DEF Lookup
  <2>2. step[w] \in Holding BY <2>1, InsideHolds DEF Inside, Sub, Holding
  <2>3. StillDue(w, t) BY <2>1 DEF StillDue
  <2>4. UNCHANGED <<queue, published, stolen, accepted, step, hand>>
    BY <2>1 DEF vars, redisVars, historyVars, workerVars
  <2> QED BY <1>4, <2>2, <2>3, <2>4
<1>8. CASE \/ LookupFails(w) \/ SendDone(w) \/ MarkDelivered(w) \/ MarkTokenless(w)
           \/ MarkUnreachable(w) \/ Unmark(w) \/ UnmarkTokenless(w) \/ MarkFails(w)
           \/ CleanUpFails(w) \/ MarkAllFailed(w) \/ MarkAllFails(w)
  <2>1. UNCHANGED vars /\ UNCHANGED accepted
    BY <1>8 DEF LookupFails, SendDone, MarkDelivered, MarkTokenless, MarkUnreachable, Unmark,
       UnmarkTokenless, MarkFails, CleanUpFails, MarkAllFailed, MarkAllFails, DbFails, MarkStep
  <2>2. sub'[w] \notin {"lookup", "send"}
    BY <1>2, <1>8 DEF LookupFails, SendDone, MarkDelivered, MarkTokenless, MarkUnreachable, Unmark,
       UnmarkTokenless, MarkFails, CleanUpFails, MarkAllFailed, MarkAllFails, DbFails, MarkStep,
       To, Forget
  <2>3. UNCHANGED <<queue, published, stolen, accepted, step, hand>>
    BY <2>1 DEF vars, redisVars, historyVars, workerVars
  <2>4. StillDue(w, t)' => StillDue(w, t) BY <2>2, <2>3 DEF StillDue
  <2>5. \A m \in Msg, k \in Level : MayRing(w, m, k, t)' => MayRing(w, m, k, t)
    BY <2>3, <2>4 DEF MayRing
  <2> QED BY <1>3, <2>3, <2>5
<1>9. CASE CleanUp(w) \/ Raise(w)
  <2>1. /\ UNCHANGED <<queue, published, stolen, accepted, hand>>
        /\ step[w] = "delivering" /\ step'[w] \in {"delivered", "failing"} /\ sub'[w] = "none"
    BY <1>2, <1>9 DEF CleanUp, Raise, HandleOk, HandleFail, Forget, To, Goto, redisVars, historyVars
  <2>2. ~StillDue(w, t)' BY <2>1 DEF StillDue
  <2> QED BY <1>4, <2>1, <2>2 DEF Holding
<1>10. CASE DeadLetterFails(w) \/ (Repush(w) /\ ~Retry(w))
  <2>1. UNCHANGED <<queue, published, stolen, accepted>> /\ step'[w] = "idle"
    BY <1>2, <1>10 DEF DeadLetterFails, Repush, MoveToDlq, RepushFails, PutDown, Goto, redisVars,
       historyVars, deliveryVars
  <2> QED BY <1>4, <2>1 DEF Holding
<1>11. CASE Repush(w) /\ Retry(w)
  <2>1. PICK e : e = hand[w] OBVIOUS
  <2>2. /\ step[w] = "repush" /\ queue' = Append(queue, e) /\ step'[w] = "idle"
        /\ UNCHANGED <<published, stolen, accepted>>
    BY <1>2, <1>11, <2>1 DEF Repush, Retry, PutDown, Goto, historyVars
  <2>3. e \in Job BY <2>1, <2>2, HeldMsg DEF Holding
  <2>4. OneMoreOf(queue', queue, e) BY <1>2, <2>2, <2>3, OccOfPushTail
  <2>5. ASSUME NEW m \in Msg, NEW k \in Level
        PROVE  LevelNum(queue', m, k) + One(MayRing(w, m, k, t)') + Given(m)
                 <= LevelNum(queue, m, k) + One(MayRing(w, m, k, t)) + Given(m)'
    <3>1. /\ LevelNum(queue, m, k) \in Nat /\ LevelNum(queue', m, k) \in Nat
          /\ LevelNum(queue', m, k) = LevelNum(queue, m, k) + One(e.msg = m /\ e.attempts <= k)
      BY <1>2, <2>3, <2>4, LevelMoves
    <3>2. One(MayRing(w, m, k, t)') = 0 BY <2>2 DEF MayRing, Holding, One
    <3>3. One(e.msg = m /\ e.attempts <= k) <= One(MayRing(w, m, k, t))
          /\ One(MayRing(w, m, k, t)) \in Nat /\ One(e.msg = m /\ e.attempts <= k) \in Nat
      <4>1. e.msg = m /\ e.attempts <= k => MayRing(w, m, k, t)
        BY <2>1, <2>2, <2>3, QueueAssumption DEF MayRing, StillDue, Holding, Level, Job
      <4> HIDE DEF MayRing
      <4> QED BY <4>1 DEF One
    <3>4. Given(m)' = Given(m) /\ Given(m) \in Nat BY <2>2, NatHistory DEF Given
    <3> HIDE DEF LevelNum, One, Given, MayRing
    <3> QED BY <3>1, <3>2, <3>3, <3>4
  <2>6. accepted'[t] = accepted[t] BY <2>2
  <2>7. RingOK(c, t)' BY <1>1, <2>5, <2>6, RingStaysFor
  <2> QED BY <2>7
<1> QED BY <1>5, <1>6, <1>7, <1>8, <1>9, <1>10, <1>11 DEF Handler


\* Steps of no worker's handler: copies may come, and nothing else.
LEMMA RingIdle ==
  ASSUME TypeOK, TypeOK', Counts(queue), Counts(queue'), UNCHANGED <<step, hand, sub, rest>>,
         NEW t \in Token, NEW c \in [Msg -> [Level -> Nat]], RingOK(c, t),
         accepted'[t] = accepted[t],
         \A m \in Msg, k \in Level :
           LevelNum(queue', m, k) + Given(m) <= LevelNum(queue, m, k) + Given(m)'
  PROVE  RingOK(c, t)'
<1>1. ASSUME NEW m \in Msg, NEW k \in Level
      PROVE  /\ Ringable(m, k, t) \in Nat /\ Ringable(m, k, t)' \in Nat
             /\ Given(m) \in Nat /\ Given(m)' \in Nat
             /\ Ringable(m, k, t)' + Given(m) <= Ringable(m, k, t) + Given(m)'
  <2>1. Calling(m, k, t)' = Calling(m, k, t) BY DEF Calling, MayRing, StillDue
  <2>2. Cardinality(Calling(m, k, t)) \in Nat
    <3>1. Calling(m, k, t) \in SUBSET Worker BY DEF Calling
    <3> QED BY <3>1, WorkersFinite
  <2>3. LevelNum(queue, m, k) \in Nat /\ LevelNum(queue', m, k) \in Nat BY LevelTypes
  <2>4. /\ Ringable(m, k, t) = LevelNum(queue, m, k) + Cardinality(Calling(m, k, t))
        /\ Ringable(m, k, t)' = LevelNum(queue', m, k) + Cardinality(Calling(m, k, t))
    BY <2>1, LevelNext DEF Ringable
  <2>5. Given(m) \in Nat /\ Given(m)' \in Nat BY NatHistory DEF Given
  <2>6. LevelNum(queue', m, k) + Given(m) <= LevelNum(queue, m, k) + Given(m)' OBVIOUS
  <2> HIDE DEF Ringable, LevelNum, Given, Calling
  <2> QED BY <2>2, <2>3, <2>4, <2>5, <2>6
<1> QED BY <1>1, RingStays

\* A list takes one entry, and its payload has one copy more.
LEMMA RingGiven ==
  ASSUME TypeOK, TypeOK', Counts(queue), Counts(queue'), UNCHANGED <<step, hand, sub, rest>>,
         NEW t \in Token, NEW c \in [Msg -> [Level -> Nat]], RingOK(c, t),
         accepted'[t] = accepted[t], NEW e \in Job, OneMoreOf(queue', queue, e),
         \A m \in Msg : Given(m)' = Given(m) + One(m = e.msg)
  PROVE  RingOK(c, t)'
<1>1. queue \in Seq(Job) /\ queue' \in Seq(Job) BY DEF TypeOK
<1>2. ASSUME NEW m \in Msg, NEW k \in Level
      PROVE  LevelNum(queue', m, k) + Given(m) <= LevelNum(queue, m, k) + Given(m)'
  <2>1. /\ LevelNum(queue, m, k) \in Nat /\ LevelNum(queue', m, k) \in Nat
        /\ LevelNum(queue', m, k) = LevelNum(queue, m, k) + One(e.msg = m /\ e.attempts <= k)
    BY <1>1, LevelMoves
  <2>2. Given(m) \in Nat BY NatHistory DEF Given
  <2>3. /\ One(e.msg = m /\ e.attempts <= k) \in Nat /\ One(m = e.msg) \in Nat
        /\ One(e.msg = m /\ e.attempts <= k) <= One(m = e.msg)
    BY DEF One
  <2>4. Given(m)' = Given(m) + One(m = e.msg) OBVIOUS
  <2> HIDE DEF LevelNum, One, Given
  <2> QED BY <2>1, <2>2, <2>3, <2>4
<1> QED BY <1>2, RingIdle

LEMMA RingQueue ==
  ASSUME SosOK, SosOK', AllCounts, Counts(queue'), DeadLettersInv, AttendedInv, redisUp,
         stops = 0, outages = 0, requeues = 0, outages' = 0, requeues' = 0,
         QueueStep, NEW t \in Token, NEW c \in [Msg -> [Level -> Nat]], RingOK(c, t)
  PROVE  RingOK(c, t)'
<1> USE DEF SosOK, AllCounts
<1>1. UNCHANGED <<sub, rest, accepted>> BY DEF QueueStep, deliveryVars
<1>2. /\ step \in [Worker -> Step] /\ hand \in [Worker -> Job \cup {None}]
      /\ queue \in Seq(Job) /\ processing \in Seq(Job)
      /\ published \in [Msg -> Nat] /\ stolen \in [Msg -> Nat]
  BY DEF TypeOK
<1>3. CASE UNCHANGED <<queue, step, hand, published, stolen>>
  <2>1. ASSUME NEW m \in Msg, NEW k \in Level
        PROVE  LevelNum(queue', m, k) + Given(m) <= LevelNum(queue, m, k) + Given(m)'
    <3>1. LevelNum(queue', m, k) = LevelNum(queue, m, k) /\ LevelNum(queue, m, k) \in Nat
      BY <1>3, LevelTypes
    <3>2. Given(m)' = Given(m) /\ Given(m) \in Nat BY <1>3, NatHistory DEF Given
    <3> HIDE DEF LevelNum, Given
    <3> QED BY <3>1, <3>2
  <2> QED BY <1>1, <1>3, <2>1, RingIdle
<1>4. ASSUME NEW x \in Msg, Enqueue(x) PROVE RingOK(c, t)'
  <2> DEFINE e == [msg |-> x, attempts |-> 0]
  <2>1. e \in Job /\ e.msg = x BY QueueAssumption DEF Job
  <2>2. /\ queue' = Append(queue, e) /\ UNCHANGED <<step, hand>>
        /\ published' = [published EXCEPT ![x] = @ + 1] /\ stolen' = stolen
    BY <1>4 DEF Enqueue, workerVars
  <2> HIDE DEF e
  <2>3. OneMoreOf(queue', queue, e) BY <1>2, <2>1, <2>2, OccOfPushTail
  <2>4. \A m \in Msg : Given(m)' = Given(m) + One(m = e.msg)
    BY <1>2, <2>1, <2>2 DEF Given, One
  <2> QED BY <1>1, <2>1, <2>2, <2>3, <2>4, RingGiven
<1>5. ASSUME NEW w \in Worker, RecoverOne(w) PROVE RingOK(c, t)'
  <2>1. PICK e : e = Last(processing) OBVIOUS
  <2>2. processing # <<>> /\ queue' = Cons(e, queue) /\ UNCHANGED <<step, hand>>
        /\ published' = published
    BY <1>5, <2>1 DEF RecoverOne, workerVars
  <2>3. e \in Job BY <1>2, <2>1, <2>2, PopTail
  <2>4. BeingHandled(e) BY <2>1, <2>2, AttendedEntry
  <2>5. stolen' = [stolen EXCEPT ![e.msg] = @ + 1] BY <1>5, <2>1, <2>4 DEF RecoverOne
  <2>6. OneMoreOf(queue', queue, e) BY <1>2, <2>2, <2>3, OccOfPushHead
  <2>7. \A m \in Msg : Given(m)' = Given(m) + One(m = e.msg)
    BY <1>2, <2>2, <2>3, <2>5 DEF Given, One
  <2> QED BY <1>1, <2>2, <2>3, <2>6, <2>7, RingGiven
<1>6. ASSUME NEW w \in Worker, UNCHANGED <<queue, published, stolen>>,
             \A v \in Worker \ {w} : step'[v] = step[v] /\ hand'[v] = hand[v],
             \A m \in Msg, k \in Level : MayRing(w, m, k, t)' => MayRing(w, m, k, t)
      PROVE  RingOK(c, t)'
  BY <1>1, <1>6, RingQuiet
<1>7. ASSUME NEW w \in Worker, Start(w) \/ RecoverDone(w) \/ Ack(w) PROVE RingOK(c, t)'
  <2>1. /\ UNCHANGED <<queue, published, stolen>>
        /\ \A v \in Worker \ {w} : step'[v] = step[v] /\ hand'[v] = hand[v]
        /\ step'[w] \in {"recovering", "idle"}
    BY <1>2, <1>7 DEF Start, RecoverDone, Ack, PutDown, Goto, redisVars, historyVars
  <2>2. \A m \in Msg, k \in Level : ~MayRing(w, m, k, t)' BY <2>1 DEF MayRing, Holding
  <2> QED BY <1>6, <2>1, <2>2
<1>8. ASSUME NEW w \in Worker, RetryAck(w) PROVE RingOK(c, t)'
  <2>1. PICK e : e = hand[w] OBVIOUS
  <2>2. /\ UNCHANGED <<queue, published, stolen>>
        /\ \A v \in Worker \ {w} : step'[v] = step[v] /\ hand'[v] = hand[v]
        /\ step[w] = "failing" /\ step'[w] = "repush" /\ hand'[w] = Attempted(e)
    BY <1>2, <1>8, <2>1 DEF RetryAck, Goto, historyVars
  <2>3. e \in Job /\ e.attempts < MaxDeliveryAttempts
    <3>1. hand[w] \in Job BY <2>2, HeldMsg DEF Holding
    <3>2. hand[w].attempts < MaxDeliveryAttempts BY <2>2 DEF DeadLettersInv, InFlight
    <3> QED BY <2>1, <3>1, <3>2
  <2>4. Attempted(e).msg = e.msg /\ Attempted(e).attempts = e.attempts + 1
    BY <2>3 DEF Attempted, Job
  <2>5. ASSUME NEW m \in Msg, NEW k \in Level, MayRing(w, m, k, t)' PROVE MayRing(w, m, k, t)
    <3>1. hand'[w].msg = m /\ (hand'[w].attempts < k \/ hand'[w].attempts = k)
      BY <2>5, Zenon DEF MayRing
    <3>2. e.msg = m /\ (e.attempts + 1 < k \/ e.attempts + 1 = k) BY <2>2, <2>4, <3>1
    <3>3. e.attempts \in Nat /\ k \in Nat BY <2>3, QueueAssumption DEF Level, Job
    <3>4. e.attempts < k BY <3>2, <3>3
    <3> QED BY <2>1, <2>2, <3>2, <3>4 DEF MayRing, Holding
  <2> QED BY <1>6, <2>2, <2>5
<1>9. ASSUME NEW w \in Worker, \/ StartFails(w) \/ DequeueReplyLost(w) \/ AckFails(w)
                               \/ AckReplyLost(w) \/ RetryAckFails(w)
      PROVE  FALSE
  <2>1. ~ (StartFails(w) \/ AckFails(w) \/ RetryAckFails(w))
    BY DEF StartFails, AckFails, RetryAckFails
  <2>2. ~ (DequeueReplyLost(w) \/ AckReplyLost(w)) BY DEF DequeueReplyLost, AckReplyLost
  <2> QED BY <1>9, <2>1, <2>2
<1>10. CASE RequeueStart \/ Requeue \/ ClearDlq \/ RedisDown \/ RedisBack
  <2>1. ~RequeueStart BY DEF RequeueStart
  <2>2. ~Requeue
    BY DEF DeadLettersInv, Requeue, RequeuePop, RequeuePush, RequeueEnd, RequeueFails
  <2>3. ~RedisDown BY DEF RedisDown
  <2>4. ~RedisBack BY DEF RedisBack
  <2>5. UNCHANGED <<queue, step, hand, published, stolen>>
    BY <1>10, <2>1, <2>2, <2>3, <2>4 DEF ClearDlq, workerVars
  <2> QED BY <1>3, <2>5
<1> QED BY <1>4, <1>5, <1>7, <1>8, <1>9, <1>10 DEF QueueStep, Recover


LEMMA RingNext ==
  ASSUME SosOK, SosOK', CopiesInv, CopiesInv', DeadLettersInv, AttendedInv, RingInv,
         [SosNext]_sosVars
  PROVE  RingInv'
<1> SUFFICES ASSUME stops' = 0, outages' = 0, requeues' = 0, NEW t \in Token
             PROVE  \E c \in [Msg -> [Level -> Nat]] : RingOK(c, t)'
  BY DEF RingInv, Level
<1>1. TypeOK /\ TypeOK' /\ [Next]_vars BY ImplementsNext DEF SosOK
<1>2. AllCounts /\ (~redisUp => outages > 0) BY DEF CopiesInv, AllCounts
<1>3. Counts(queue')
  <2>1. Counts(queue)' BY DEF CopiesInv
  <2> QED BY <2>1 DEF Counts, Copies, Occ
<1>4. stops = 0 /\ outages = 0 BY <1>1, FaultsStay
<1>5. redisUp BY <1>2, <1>4
<1>6. requeues = 0
  <2>1. requeues \in Nat BY <1>1 DEF TypeOK
  <2>2. requeues' = requeues \/ requeues' = requeues + 1
    <3>1. CASE QueueStep
      <4>1. CASE RequeueStart BY <4>1 DEF RequeueStart
      <4>2. CASE ~RequeueStart
        BY <3>1, <4>2 DEF QueueStep, Enqueue, Start, Recover, RecoverOne, RecoverDone, StartFails,
           DequeueReplyLost, Ack, AckFails, AckReplyLost, RetryAck, RetryAckFails, Requeue,
           RequeuePop, RequeuePush, RequeueEnd, RequeueFails, ClearDlq, RedisDown, RedisBack,
           faultVars
      <4> QED BY <4>1, <4>2
    <3>2. ASSUME NEW w \in Worker, Handler(w) \/ StopWorker(w) PROVE UNCHANGED requeues
      <4>1. CASE \/ Begin(w) \/ CleanUp(w) \/ Raise(w) \/ Repush(w) \/ DeadLetterFails(w)
                 \/ StopWorker(w)
        BY <4>1 DEF Begin, Dequeue, CleanUp, HandleOk, Raise, HandleFail, Repush, Retry, MoveToDlq,
           RepushFails, DeadLetterFails, StopWorker, Stop, faultVars
      <4>2. CASE \/ Lookup(w) \/ LookupFails(w) \/ SendChunk(w) \/ SendFails(w) \/ SendDone(w)
                 \/ MarkDelivered(w) \/ MarkTokenless(w) \/ MarkUnreachable(w) \/ Unmark(w)
                 \/ UnmarkTokenless(w) \/ MarkFails(w) \/ CleanUpFails(w) \/ MarkAllFailed(w)
                 \/ MarkAllFails(w)
        <5>1. UNCHANGED vars
          BY <4>2 DEF Lookup, LookupFails, SendChunk, SendFails, SendDone, MarkDelivered,
             MarkTokenless, MarkUnreachable, Unmark, UnmarkTokenless, MarkFails, CleanUpFails,
             MarkAllFailed, MarkAllFails, DbFails, MarkStep
        <5> QED BY <5>1 DEF vars, faultVars
      <4> QED BY <3>2, <4>1, <4>2 DEF Handler
    <3>3. CASE (\E t1 \in Token : Register(t1)) \/ UNCHANGED sosVars
      BY <3>3 DEF Register, sosVars, vars, faultVars
    <3> QED BY <3>1, <3>2, <3>3 DEF SosNext
  <2> QED BY <2>1, <2>2
<1>7. PICK c \in [Msg -> [Level -> Nat]] : RingOK(c, t) BY <1>4, <1>6 DEF RingInv
<1>8. CASE QueueStep BY <1>2, <1>3, <1>4, <1>5, <1>6, <1>7, <1>8, RingQueue
<1>9. ASSUME NEW w \in Worker, Handler(w)
      PROVE  \E d \in [Msg -> [Level -> Nat]] : RingOK(d, t)'
  BY <1>2, <1>3, <1>5, <1>6, <1>7, <1>9, RingHandler
<1>10. ASSUME NEW w \in Worker, StopWorker(w) PROVE FALSE
  <2>1. stops' = stops + 1 BY <1>10 DEF StopWorker, Stop
  <2> QED BY <1>4, <2>1
<1>11. CASE (\E x \in Token : Register(x)) \/ UNCHANGED sosVars
  <2>1. UNCHANGED <<queue, published, stolen, step, hand, sub, rest, accepted>>
    BY <1>11 DEF Register, sosVars, vars, redisVars, historyVars, workerVars, deliveryVars
  <2>2. ASSUME NEW m \in Msg, NEW k \in Level
        PROVE  LevelNum(queue', m, k) + Given(m) <= LevelNum(queue, m, k) + Given(m)'
    <3>1. LevelNum(queue', m, k) = LevelNum(queue, m, k) /\ LevelNum(queue, m, k) \in Nat
      BY <1>2, <2>1, LevelTypes DEF AllCounts
    <3>2. Given(m)' = Given(m) /\ Given(m) \in Nat BY <1>1, <2>1, NatHistory DEF Given
    <3> HIDE DEF LevelNum, Given
    <3> QED BY <3>1, <3>2
  <2>3. Counts(queue) BY <1>2 DEF AllCounts
  <2>4. accepted'[t] = accepted[t] BY <2>1
  <2>5. RingOK(c, t)' BY <1>1, <1>3, <1>7, <2>1, <2>2, <2>3, <2>4, RingIdle
  <2> QED BY <2>5
<1> QED BY <1>8, <1>9, <1>10, <1>11 DEF SosNext

LEMMA RingInit == SosInit => AttendedInv /\ RingInv /\ IsFiniteSet(Issued)
<1> SUFFICES ASSUME SosInit PROVE AttendedInv /\ RingInv /\ IsFiniteSet(Issued) OBVIOUS
<1>1. Init /\ accepted = [t \in Token |-> 0] BY DEF SosInit
<1>2. /\ queue = <<>> /\ processing = <<>> /\ \A w \in Worker : step[w] = "stopped"
      /\ \A m \in Msg : published[m] = 0 /\ stolen[m] = 0
  BY <1>1 DEF Init
<1>3. AttendedInv
  <2>1. ASSUME NEW j \in Job PROVE Occ(processing, j) <= Cardinality(OwnersOf(j))
    <3>1. {i \in 1..Len(processing) : processing[i] = j} = {} BY <1>2
    <3>2. Occ(processing, j) = 0 BY <3>1, FS_EmptySet DEF Occ
    <3>3. OwnersOf(j) \in SUBSET Worker BY DEF OwnersOf
    <3>4. Cardinality(OwnersOf(j)) \in Nat BY <3>3, WorkersFinite
    <3> QED BY <3>2, <3>4
  <2> QED BY <2>1 DEF AttendedInv
<1>4. IsFiniteSet(Issued)
  <2>1. \A m \in Msg : 1..(published[m] + stolen[m]) = {} BY <1>2
  <2>2. Issued = {} BY <2>1 DEF Issued
  <2> QED BY <2>2, FS_EmptySet
<1>5. ASSUME NEW t \in Token PROVE \E c \in [Msg -> [Level -> Nat]] : RingOK(c, t)
  <2> DEFINE c == [m \in Msg |-> [k \in Level |-> 0]]
  <2>1. c \in [Msg -> [Level -> Nat]] /\ \A m \in Msg, k \in Level : c[m][k] = 0 OBVIOUS
  <2> HIDE DEF c
  <2>2. Rings(c) = {} BY <2>1 DEF Rings
  <2>3. IsFiniteSet(Rings(c)) /\ Cardinality(Rings(c)) = accepted[t]
    BY <1>1, <2>2, FS_EmptySet
  <2>4. ASSUME NEW m \in Msg, NEW k \in Level PROVE c[m][k] + Ringable(m, k, t) <= Given(m)
    <3>1. LevelNum(queue, m, k) = 0
      <4>1. LevelCopies(<<>>, m, k) = {} BY NumEmpty DEF LevelCopies
      <4> QED BY <1>2, <4>1, FS_EmptySet DEF LevelNum
    <3>2. Calling(m, k, t) = {} BY <1>2 DEF Calling, MayRing, Holding
    <3>3. Cardinality(Calling(m, k, t)) = 0 BY <3>2, FS_EmptySet
    <3>4. Given(m) = 0 BY <1>2 DEF Given
    <3> QED BY <2>1, <3>1, <3>3, <3>4 DEF Ringable
  <2> QED BY <2>1, <2>3, <2>4 DEF RingOK
<1> QED BY <1>3, <1>4, <1>5 DEF RingInv

\* The rings are pairs of a copy, by its number, and an attempt.
LEMMA RingsAreFew ==
  ASSUME SosOK, AllCounts, IsFiniteSet(Issued), RingInv PROVE RingsBounded
<1> SUFFICES ASSUME stops = 0, outages = 0, requeues = 0, NEW t \in Token
             PROVE  accepted[t] <= MaxDeliveryAttempts * Cardinality(Issued)
  BY DEF RingsBounded
<1> DEFINE Limit == MaxDeliveryAttempts
<1>1. Limit \in Nat \ {0} BY QueueAssumption
<1>2. PICK c \in [Msg -> [Level -> Nat]] : RingOK(c, t) BY DEF RingInv
<1>3. ASSUME NEW m \in Msg, NEW k \in Level
      PROVE  c[m][k] \in Nat /\ Given(m) \in Nat /\ c[m][k] <= Given(m)
  <2>1. c[m][k] \in Nat /\ c[m][k] + Ringable(m, k, t) <= Given(m) BY <1>2 DEF RingOK
  <2>2. Ringable(m, k, t) \in Nat
    <3>1. LevelNum(queue, m, k) \in Nat BY LevelTypes DEF AllCounts
    <3>2. Calling(m, k, t) \in SUBSET Worker BY DEF Calling
    <3>3. Cardinality(Calling(m, k, t)) \in Nat BY <3>2, WorkersFinite
    <3> QED BY <3>1, <3>3 DEF Ringable
  <2>3. Given(m) \in Nat
    <3>1. published[m] \in Nat /\ stolen[m] \in Nat BY DEF SosOK, TypeOK
    <3> QED BY <3>1 DEF Given
  <2> HIDE DEF Ringable, Given
  <2> QED BY <2>1, <2>2, <2>3
<1>4. Rings(c) \subseteq Issued \X Level
  <2>1. ASSUME NEW m \in Msg, NEW n \in Nat \ {0}, NEW k \in Level, n <= c[m][k]
        PROVE  <<m, n>> \in Issued
    <3>1. n <= Given(m)
      <4> HIDE DEF Given
      <4> QED BY <1>3, <2>1
    <3>2. n \in 1..(published[m] + stolen[m]) BY <1>3, <3>1 DEF Given
    <3> QED BY <3>2 DEF Issued
  <2> QED BY <2>1 DEF Rings
<1>5. IsFiniteSet(Level) /\ Cardinality(Level) = Limit
  BY <1>1, FS_Interval DEF Level
<1>6. /\ IsFiniteSet(Issued \X Level)
      /\ Cardinality(Issued \X Level) = Cardinality(Issued) * Limit
  BY <1>5, FS_Product
<1>7. Cardinality(Rings(c)) <= Cardinality(Issued \X Level) BY <1>4, <1>6, FS_Subset
<1>8. Cardinality(Issued) \in Nat BY FS_CardinalityType
<1>9. Cardinality(Rings(c)) = accepted[t] BY <1>2 DEF RingOK
<1>10. accepted[t] <= Cardinality(Issued) * Limit BY <1>6, <1>7, <1>9
<1>11. Cardinality(Issued) * Limit = Limit * Cardinality(Issued) BY <1>1, <1>8
<1> QED BY <1>10, <1>11

\* As long as no worker has been stopped, Redis has answered and no operator has
\* put dead letters back, Expo takes a message for a device at most
\* MaxDeliveryAttempts times per enqueue, and as often again for every entry a
\* recovery took from a worker that goes on with it: failed chunks, lost answers
\* and retries never multiply a ring.
THEOREM RingsCorrect == SosSpec => []RingsBounded
<1>1. SosInit => CopiesInv /\ DeadLettersInv BY CopiesInit, DeadLettersInit DEF SosInit
<1>2. SosOK /\ CopiesInv /\ DeadLettersInv /\ [SosNext]_sosVars => CopiesInv' /\ DeadLettersInv'
  BY ImplementsNext, CopiesNext, DeadLettersNext DEF SosOK
<1>3. SosOK /\ SosOK' /\ CopiesInv /\ AttendedInv /\ [SosNext]_sosVars => AttendedInv'
  BY ImplementsNext, AttendedNext DEF SosOK, CopiesInv
<1>4. SosOK /\ SosOK' /\ CopiesInv /\ CopiesInv' /\ DeadLettersInv /\ AttendedInv /\ RingInv
        /\ [SosNext]_sosVars => RingInv'
  BY RingNext
<1>5. SosOK /\ SosOK' /\ IsFiniteSet(Issued) /\ [SosNext]_sosVars => IsFiniteSet(Issued)'
  BY ImplementsNext, IssuedNext DEF SosOK
<1>6. SosOK /\ CopiesInv /\ IsFiniteSet(Issued) /\ RingInv => RingsBounded
  BY RingsAreFew DEF CopiesInv, AllCounts
<1> QED
  BY <1>1, <1>2, <1>3, <1>4, <1>5, <1>6, RingInit, SosTypeInit, SosTypeNext, PTL DEF SosSpec
=============================================================================
