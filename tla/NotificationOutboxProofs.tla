----------------------- MODULE NotificationOutboxProofs -----------------------
(***************************************************************************)
(* Theorems of NotificationOutbox, for every number of alerts and of       *)
(* drainers, every batch size, and any number of faults.                   *)
(***************************************************************************)
EXTENDS NotificationOutbox, FiniteSetTheorems, TLAPS

-----------------------------------------------------------------------------
(* Type correctness.                                                       *)

\* Beyond types: rows belong to committed requests, a drainer has rows only while
\* it drains, and no row twice.
RowsOK ==
  /\ \A a \in Alert : row[a] # "none" => request[a] = "committed"
  /\ \A d \in Drainer, a \in Alert :
       a \in todo[d] \cup done[d] => request[a] = "committed"
  /\ \A d \in Drainer : todo[d] \cap done[d] = {}
  /\ \A d \in Drainer : drain[d] # "draining" => todo[d] = {} /\ done[d] = {}

LEMMA TypeInit == Init => TypeOK /\ RowsOK
BY DEF Init, TypeOK, RowsOK, Drainer

\* A drainer takes on pending rows.
LEMMA OldestArePending ==
  ASSUME NEW c \in Oldest(Pending) PROVE c \subseteq Alert /\ \A a \in c : row[a] = "pending"
BY DEF Oldest, Choices, Pending

LEMMA TypeNext == TypeOK /\ RowsOK /\ [Next]_vars => TypeOK' /\ RowsOK'
<1> SUFFICES ASSUME TypeOK, RowsOK, [Next]_vars PROVE TypeOK' /\ RowsOK'
  OBVIOUS
<1>1. ASSUME NEW a \in Alert, Open(a) \/ Commit(a) \/ Rollback(a)
      PROVE  TypeOK' /\ RowsOK'
  <2>1. /\ request[a] \in {"new", "open"} /\ UNCHANGED <<drain, todo, done>>
        /\ \E r \in {"open", "committed", "rolled back"} : request' = [request EXCEPT ![a] = r]
    BY <1>1 DEF Open, Commit, Rollback, drainVars
  <2>2. \/ UNCHANGED row
        \/ request'[a] = "committed" /\ row' = [row EXCEPT ![a] = "pending"]
    BY <1>1 DEF Open, Commit, Rollback, TypeOK
  <2>3. TypeOK'
    <3>1. UNCHANGED <<redisUp, pushes, faults, outages>>
      BY <1>1 DEF Open, Commit, Rollback
    <3>2. opened' \in Seq(Alert)
      <4>1. opened' = Append(opened, a) \/ UNCHANGED opened
        BY <1>1 DEF Open, Commit, Rollback
      <4>2. opened \in Seq(Alert) BY DEF TypeOK
      <4> QED BY <4>1, <4>2
    <3>3. request' \in [Alert -> {"new", "open", "committed", "rolled back"}]
      BY <2>1 DEF TypeOK
    <3>4. row' \in [Alert -> {"none", "pending", "published"}] BY <2>2 DEF TypeOK
    <3> QED BY <2>1, <3>1, <3>2, <3>3, <3>4 DEF TypeOK
  <2>4. \A b \in Alert : request[b] = "committed" => request'[b] = "committed"
    BY <2>1 DEF TypeOK
  <2>5. RowsOK'
    <3>1. \A b \in Alert : row'[b] # "none" => request'[b] = "committed"
      <4>1. ASSUME NEW b \in Alert, row'[b] # "none"
            PROVE  row[b] # "none" \/ request'[b] = "committed"
        BY <2>2, <4>1 DEF TypeOK
      <4> QED BY <2>4, <4>1 DEF RowsOK
    <3>2. \A d \in Drainer, b \in Alert :
            b \in todo'[d] \cup done'[d] => request'[b] = "committed"
      BY <2>1, <2>4 DEF RowsOK
    <3> QED BY <2>1, <3>1, <3>2 DEF RowsOK
  <2> QED BY <2>3, <2>5
<1>4. ASSUME NEW d \in Drainer, DrainRead(d) PROVE TypeOK' /\ RowsOK'
  <2>1. PICK c \in Oldest(Pending) : todo' = [todo EXCEPT ![d] = c] BY <1>4 DEF DrainRead
  <2>2. c \subseteq Alert /\ \A a \in c : row[a] = "pending" BY <2>1, OldestArePending
  <2>3. done[d] = {} BY <1>4 DEF DrainRead, MayDrain, RowsOK
  <2>4. /\ drain' = [drain EXCEPT ![d] = "draining"]
        /\ UNCHANGED <<request, opened, row, done, redisUp, pushes, faults, outages>>
    BY <1>4 DEF DrainRead, requestVars
  <2>5. TypeOK' BY <2>1, <2>2, <2>4 DEF TypeOK
  <2>6. RowsOK' BY <2>1, <2>2, <2>3, <2>4 DEF TypeOK, RowsOK
  <2> QED BY <2>5, <2>6
<1>5. ASSUME NEW d \in Drainer, DrainPublish(d) PROVE TypeOK' /\ RowsOK'
  <2>1. PICK a \in todo[d] :
          /\ \/ pushes' = [pushes EXCEPT ![a] = pushes[a] + 1]
             \/ UNCHANGED pushes
          /\ done' = [done EXCEPT ![d] = done[d] \cup {a}]
          /\ todo' = [todo EXCEPT ![d] = todo[d] \ {a}]
    BY <1>5 DEF DrainPublish
  <2>2. a \in Alert /\ request[a] = "committed" BY DEF TypeOK, RowsOK
  <2>3. pushes' \in [Alert -> Nat]
    <3>1. CASE pushes' = [pushes EXCEPT ![a] = pushes[a] + 1]
      <4>1. pushes \in [Alert -> Nat] BY DEF TypeOK
      <4>2. pushes[a] + 1 \in Nat BY <2>2, <4>1
      <4> QED BY <3>1, <4>1, <4>2
    <3> QED BY <2>1, <3>1 DEF TypeOK
  <2>4. UNCHANGED <<request, opened, row, drain, redisUp, faults, outages>>
        /\ drain[d] = "draining"
    BY <1>5 DEF DrainPublish, requestVars
  <2>5. TypeOK' BY <2>1, <2>2, <2>3, <2>4 DEF TypeOK
  <2>6. RowsOK' BY <2>1, <2>2, <2>4 DEF TypeOK, RowsOK
  <2> QED BY <2>5, <2>6
<1>6. ASSUME NEW d \in Drainer, DrainCommit(d) \/ DrainFails(d) PROVE TypeOK' /\ RowsOK'
  <2>1. /\ drain' = [drain EXCEPT ![d] = Finished(d)]
        /\ todo' = [todo EXCEPT ![d] = {}] /\ done' = [done EXCEPT ![d] = {}]
        /\ UNCHANGED <<request, opened, redisUp, pushes, outages>>
        /\ Finished(d) \in {"ready", "finished"}
    BY <1>6 DEF DrainCommit, DrainFails, Reset, requestVars, Finished
  <2>0. \/ UNCHANGED row /\ faults' = faults + 1
        \/ row' = Marked(done[d]) /\ UNCHANGED faults
    BY <1>6 DEF DrainCommit, DrainFails
  <2>2. /\ faults' \in Nat /\ row' \in [Alert -> {"none", "pending", "published"}]
        /\ \A a \in Alert : row'[a] = row[a] \/ a \in done[d]
    <3>1. faults \in Nat /\ row \in [Alert -> {"none", "pending", "published"}]
      BY DEF TypeOK
    <3> QED BY <2>0, <3>1 DEF Marked
  <2>3. TypeOK' BY <2>1, <2>2 DEF TypeOK
  <2>4. \A a \in Alert : row'[a] # "none" => request[a] = "committed" BY <2>2 DEF RowsOK
  <2>5. RowsOK' BY <2>1, <2>4 DEF TypeOK, RowsOK
  <2> QED BY <2>3, <2>5
<1>8. CASE RedisDown \/ RedisBack \/ UNCHANGED vars
  <2>1. UNCHANGED <<request, opened, row, drain, todo, done, pushes, faults>>
    BY <1>8 DEF RedisDown, RedisBack, vars, requestVars, drainVars
  <2>2. redisUp' \in BOOLEAN /\ outages' \in Nat
    <3>1. outages \in Nat /\ redisUp \in BOOLEAN BY DEF TypeOK
    <3>2. outages' = outages + 1 \/ outages' = outages
      BY <1>8 DEF RedisDown, RedisBack, vars
    <3>3. redisUp' = TRUE \/ redisUp' = FALSE \/ UNCHANGED redisUp
      BY <1>8, Zenon DEF RedisDown, RedisBack, vars
    <3>4. redisUp' \in BOOLEAN BY <3>1, <3>3, Zenon
    <3> QED BY <3>1, <3>2, <3>4
  <2>3. TypeOK' BY <2>1, <2>2 DEF TypeOK
  <2>4. RowsOK' BY <2>1 DEF RowsOK
  <2> QED BY <2>3, <2>4
<1> QED BY <1>1, <1>4, <1>5, <1>6, <1>8 DEF Next, Drain


\* Every variable keeps its type, and rows their place in the protocol.
THEOREM TypeCorrect == Spec => [](TypeOK /\ RowsOK)
BY TypeInit, TypeNext, PTL DEF Spec

-----------------------------------------------------------------------------
(* What one step does to the pushes and the drainers of one row.           *)

Reading(a) == {d \in Drainer : a \in todo[d]}
Marking(a) == {d \in Drainer : a \in done[d]}

\* A drainer starts on the row, pushes it, or is done with it; or none of these.
Takes(a, d) ==
  /\ row[a] = "pending" /\ UNCHANGED row
  /\ d \notin Reading(a) \cup Marking(a)
  /\ Reading(a)' = Reading(a) \cup {d} /\ Marking(a)' = Marking(a)
  /\ pushes'[a] = pushes[a] /\ faults' = faults
Pushes(a, d) ==
  /\ UNCHANGED row
  /\ d \in Reading(a) /\ d \notin Marking(a)
  /\ Reading(a)' = Reading(a) \ {d} /\ Marking(a)' = Marking(a) \cup {d}
  /\ pushes'[a] = pushes[a] \/ pushes'[a] = pushes[a] + 1
  /\ faults' = faults
Gives(a, d) ==
  /\ \/ row'[a] = row[a] /\ (faults' = faults + 1 \/ (d \notin Marking(a) /\ faults' = faults))
     \/ row'[a] = "published" /\ faults' = faults
  /\ Reading(a)' = Reading(a) \ {d} /\ Marking(a)' = Marking(a) \ {d}
  /\ pushes'[a] = pushes[a]
Leaves(a) ==
  /\ \/ row'[a] = row[a]
     \/ row[a] = "none" /\ row'[a] = "pending"
  /\ Reading(a)' = Reading(a) /\ Marking(a)' = Marking(a)
  /\ pushes'[a] = pushes[a] /\ faults' = faults

LEMMA RowStep ==
  ASSUME TypeOK, RowsOK, [Next]_vars, NEW a \in Alert
  PROVE  \/ \E d \in Drainer : Takes(a, d) \/ Pushes(a, d) \/ Gives(a, d)
         \/ Leaves(a)
<1>t. /\ todo \in [Drainer -> SUBSET Alert] /\ done \in [Drainer -> SUBSET Alert]
      /\ pushes \in [Alert -> Nat] /\ row \in [Alert -> {"none", "pending", "published"}]
  BY DEF TypeOK
<1>1. ASSUME NEW b \in Alert, Open(b) \/ Commit(b) \/ Rollback(b) PROVE Leaves(a)
  <2>1. UNCHANGED <<todo, done, pushes, faults>>
    BY <1>1 DEF Open, Commit, Rollback, drainVars
  <2>2. row'[a] = row[a] \/ (row[a] = "none" /\ row'[a] = "pending")
    <3>1. CASE Commit(b)
      <4>1. row' = [row EXCEPT ![b] = "pending"] /\ request[b] = "open"
        BY <3>1 DEF Commit
      <4>2. row[b] = "none" BY <4>1 DEF RowsOK
      <4> QED BY <1>t, <4>1, <4>2
    <3>2. CASE ~ Commit(b) BY <1>1, <3>2 DEF Open, Rollback
    <3> QED BY <3>1, <3>2
  <2> QED BY <2>1, <2>2 DEF Leaves, Reading, Marking
<1>2. ASSUME NEW d \in Drainer, DrainRead(d) PROVE Takes(a, d) \/ Leaves(a)
  <2>1. PICK c \in Oldest(Pending) : todo' = [todo EXCEPT ![d] = c] BY <1>2 DEF DrainRead
  <2>2. \A b \in c : row[b] = "pending" BY <2>1, OldestArePending
  <2>3. done[d] = {} /\ todo[d] = {} BY <1>2 DEF DrainRead, MayDrain, RowsOK
  <2>4. UNCHANGED <<row, done, pushes, faults>> BY <1>2 DEF DrainRead
  <2>5. CASE a \in c BY <1>t, <2>1, <2>2, <2>3, <2>4, <2>5 DEF Takes, Reading, Marking
  <2>6. CASE a \notin c BY <1>t, <2>1, <2>3, <2>4, <2>6 DEF Leaves, Reading, Marking
  <2> QED BY <2>5, <2>6
<1>3. ASSUME NEW d \in Drainer, DrainPublish(d) PROVE Pushes(a, d) \/ Leaves(a)
  <2>1. PICK b \in todo[d] :
          /\ pushes' = [pushes EXCEPT ![b] = pushes[b] + 1] \/ UNCHANGED pushes
          /\ done' = [done EXCEPT ![d] = done[d] \cup {b}]
          /\ todo' = [todo EXCEPT ![d] = todo[d] \ {b}]
    BY <1>3 DEF DrainPublish
  <2>2. UNCHANGED <<row, faults>> BY <1>3 DEF DrainPublish
  <2>3. b \notin done[d] /\ b \in Alert BY <1>t, <2>1 DEF RowsOK
  <2>4. CASE a = b
    <3>1. pushes'[a] = pushes[a] \/ pushes'[a] = pushes[a] + 1 BY <1>t, <2>1, <2>4
    <3>2. d \in Reading(a) /\ d \notin Marking(a) BY <2>3, <2>4 DEF Reading, Marking
    <3>3. Reading(a)' = Reading(a) \ {d} /\ Marking(a)' = Marking(a) \cup {d}
      BY <1>t, <2>1, <2>4 DEF Reading, Marking
    <3> QED BY <2>2, <3>1, <3>2, <3>3 DEF Pushes
  <2>5. CASE a # b
    <3>1. pushes'[a] = pushes[a] BY <1>t, <2>1, <2>3, <2>5
    <3>2. Reading(a)' = Reading(a) /\ Marking(a)' = Marking(a)
      BY <1>t, <2>1, <2>5 DEF Reading, Marking
    <3> QED BY <2>2, <3>1, <3>2 DEF Leaves
  <2> QED BY <2>4, <2>5
<1>4. ASSUME NEW d \in Drainer, DrainCommit(d) \/ DrainFails(d) PROVE Gives(a, d)
  <2>1. /\ todo' = [todo EXCEPT ![d] = {}] /\ done' = [done EXCEPT ![d] = {}]
        /\ UNCHANGED pushes
    BY <1>4 DEF DrainCommit, DrainFails, Reset
  <2>2. Reading(a)' = Reading(a) \ {d} /\ Marking(a)' = Marking(a) \ {d}
    BY <1>t, <2>1 DEF Reading, Marking
  <2>3. \/ UNCHANGED row /\ faults' = faults + 1
        \/ row' = Marked(done[d]) /\ UNCHANGED faults
    BY <1>4 DEF DrainCommit, DrainFails
  <2>4. \/ row'[a] = row[a]
           /\ (faults' = faults + 1 \/ (d \notin Marking(a) /\ faults' = faults))
        \/ row'[a] = "published" /\ faults' = faults
    <3>1. CASE UNCHANGED row /\ faults' = faults + 1 BY <3>1
    <3>2. CASE row' = Marked(done[d]) /\ UNCHANGED faults /\ a \in done[d]
      BY <3>2 DEF Marked
    <3>3. CASE row' = Marked(done[d]) /\ UNCHANGED faults /\ a \notin done[d]
      BY <3>3 DEF Marked, Marking
    <3> QED BY <2>3, <3>1, <3>2, <3>3
  <2> QED BY <2>1, <2>2, <2>4 DEF Gives
<1>5. CASE RedisDown \/ RedisBack \/ UNCHANGED vars
  <2>1. UNCHANGED <<row, todo, done, pushes, faults>>
    BY <1>5 DEF RedisDown, RedisBack, vars, drainVars
  <2> QED BY <2>1 DEF Leaves, Reading, Marking
<1> QED BY <1>1, <1>2, <1>3, <1>4, <1>5 DEF Next, Drain

-----------------------------------------------------------------------------
(* Pushes belong to committed requests.                                    *)

PushedInv == \A a \in Alert : pushes[a] > 0 => request[a] = "committed"

\* No notification leaves for an alert that was not committed.
THEOREM CommittedCorrect == Spec => []OnlyCommittedAlertsPushed
<1>1. Init => PushedInv BY DEF Init, PushedInv
<1>2. TypeOK /\ RowsOK /\ PushedInv /\ [Next]_vars => PushedInv'
  <2> SUFFICES ASSUME TypeOK, RowsOK, PushedInv, [Next]_vars, NEW a \in Alert, pushes'[a] > 0
               PROVE  request'[a] = "committed"
    BY DEF PushedInv
  <2>1. request[a] = "committed"
    <3>1. CASE pushes'[a] = pushes[a] BY <3>1 DEF PushedInv
    <3>2. ASSUME NEW d \in Drainer, Pushes(a, d) PROVE request[a] = "committed"
      <4>1. a \in todo[d] BY <3>2 DEF Pushes, Reading
      <4> QED BY <4>1 DEF RowsOK
    <3> QED BY RowStep, <3>1, <3>2 DEF Takes, Gives, Leaves
  <2>2. ASSUME NEW b \in Alert, Open(b) \/ Commit(b) \/ Rollback(b)
        PROVE  request'[a] = "committed"
    BY <2>1, <2>2 DEF Open, Commit, Rollback, TypeOK
  <2>3. CASE UNCHANGED request BY <2>1, <2>3
  <2> QED BY <2>2, <2>3 DEF Next, Drain, DrainRead, DrainPublish, DrainCommit, DrainFails,
                            RedisDown, RedisBack, vars, requestVars
<1>3. TypeOK /\ RowsOK /\ PushedInv => OnlyCommittedAlertsPushed
  BY DEF TypeOK, RowsOK, PushedInv, OnlyCommittedAlertsPushed
<1> QED BY <1>1, <1>2, <1>3, TypeCorrect, PTL DEF Spec

-----------------------------------------------------------------------------
(* How often a row is pushed.                                              *)

LEMMA DrainersFinite ==
  /\ IsFiniteSet(Drainer)
  /\ \A S \in SUBSET Drainer : IsFiniteSet(S) /\ Cardinality(S) \in Nat
<1>1. IsFiniteSet(Drainer) BY OutboxAssumption, FS_Union DEF Drainer
<1>2. \A S \in SUBSET Drainer : IsFiniteSet(S) BY <1>1, FS_Subset
<1> QED BY <1>1, <1>2, FS_CardinalityType

LEMMA WithOne ==
  ASSUME NEW S \in SUBSET Drainer, NEW d \in Drainer
  PROVE  /\ d \notin S => Cardinality(S \cup {d}) = Cardinality(S) + 1
         /\ d \in S => Cardinality(S \ {d}) = Cardinality(S) - 1
         /\ d \notin S => S \ {d} = S
<1>1. IsFiniteSet(S) BY DrainersFinite
<1>2. d \notin S => Cardinality(S \cup {d}) = Cardinality(S) + 1
  BY <1>1, FS_AddElement
<1>3. d \in S => Cardinality(S \ {d}) = Cardinality(S) - 1
  BY <1>1, FS_RemoveElement
<1> QED BY <1>2, <1>3

\* Two groups of drainers with none in common.
LEMMA TwoGroups ==
  ASSUME NEW S \in SUBSET Drainer, NEW T \in SUBSET Drainer, S \cap T = {}
  PROVE  Cardinality(S) + Cardinality(T) <= Cardinality(Drainer)
<1>1. IsFiniteSet(S) /\ IsFiniteSet(T) BY DrainersFinite
<1>2. Cardinality(S \cap T) = 0 BY FS_EmptySet
<1>3. Cardinality(S \cup T) = Cardinality(S) + Cardinality(T) - Cardinality(S \cap T)
  BY <1>1, FS_Union
<1>4. Cardinality(S \cup T) <= Cardinality(Drainer)
  BY DrainersFinite, FS_Subset
<1>5. Cardinality(S) \in Nat /\ Cardinality(T) \in Nat BY DrainersFinite
<1> QED BY <1>2, <1>3, <1>4, <1>5

\* Every drainer that has read the row may still push it; while the row is
\* pending, every push so far is one that is about to be marked or has failed.
RowBound(a) ==
  /\ row[a] = "none" => pushes[a] = 0 /\ Reading(a) = {}
  /\ row[a] = "pending" => pushes[a] <= Cardinality(Marking(a)) + faults
  /\ pushes[a] + Cardinality(Reading(a)) <= Cardinality(Drainer) + faults


LEMMA BoundStep ==
  ASSUME TypeOK, RowsOK, [Next]_vars, NEW a \in Alert, RowBound(a)
  PROVE  RowBound(a)'
<1> DEFINE R == Cardinality(Reading(a))
           M == Cardinality(Marking(a))
           D == Cardinality(Drainer)
<1>t. /\ pushes[a] \in Nat /\ faults \in Nat
      /\ row[a] \in {"none", "pending", "published"}
  BY DEF TypeOK
<1>s. Reading(a) \in SUBSET Drainer /\ Marking(a) \in SUBSET Drainer
  BY DEF Reading, Marking
<1>n. R \in Nat /\ M \in Nat /\ D \in Nat BY <1>s, DrainersFinite
<1>d. R + M <= D
  <2>1. Reading(a) \cap Marking(a) = {} BY DEF RowsOK, Reading, Marking
  <2> QED BY <1>s, <2>1, TwoGroups
<1> HIDE DEF R, M, D
<1>b. /\ row[a] = "none" => pushes[a] = 0 /\ Reading(a) = {}
      /\ row[a] = "pending" => pushes[a] <= M + faults
      /\ pushes[a] + R <= D + faults
  BY DEF RowBound, R, M, D
<1>1. ASSUME NEW d \in Drainer, Takes(a, d) PROVE RowBound(a)'
  <2>1. Cardinality(Reading(a)') = R + 1 /\ Cardinality(Marking(a)') = M
    BY <1>1, <1>s, WithOne DEF Takes, R, M
  <2>2. R + 1 + M <= D
    <3>1. Reading(a) \cup {d} \in SUBSET Drainer BY <1>s
    <3>2. (Reading(a) \cup {d}) \cap Marking(a) = {}
      BY <1>1 DEF RowsOK, Reading, Marking, Takes
    <3>3. Cardinality(Reading(a) \cup {d}) + M <= D BY <3>1, <3>2, <1>s, TwoGroups DEF M, D
    <3> QED BY <2>1, <3>3, <1>1, <1>n DEF Takes
  <2>3. pushes[a] + (R + 1) <= D + faults BY <1>1, <1>b, <1>n, <1>t, <2>2 DEF Takes
  <2> QED BY <1>1, <1>b, <2>1, <2>3 DEF Takes, RowBound, D
<1>2. ASSUME NEW d \in Drainer, Pushes(a, d) PROVE RowBound(a)'
  <2>1. Cardinality(Reading(a)') = R - 1 /\ Cardinality(Marking(a)') = M + 1
    BY <1>2, <1>s, WithOne DEF Pushes, R, M
  <2>2. row'[a] = row[a] /\ row[a] # "none" BY <1>2, <1>b DEF Pushes
  <2>3. \/ pushes'[a] = pushes[a]
        \/ pushes'[a] = pushes[a] + 1
    BY <1>2 DEF Pushes
  <2>4. row[a] = "pending" => pushes'[a] <= (M + 1) + faults
    BY <1>b, <1>n, <1>t, <2>3
  <2>5. pushes'[a] + (R - 1) <= D + faults BY <1>b, <1>n, <1>t, <2>3
  <2>6. faults' = faults BY <1>2 DEF Pushes
  <2> QED BY <2>1, <2>2, <2>4, <2>5, <2>6 DEF RowBound, D
<1>3. ASSUME NEW d \in Drainer, Gives(a, d) PROVE RowBound(a)'
  <2>1. /\ Cardinality(Reading(a)') \in Nat /\ Cardinality(Reading(a)') <= R
        /\ Reading(a) = {} => Reading(a)' = {}
    <3>1. Reading(a)' = Reading(a) \ {d} BY <1>3 DEF Gives
    <3>2. CASE d \in Reading(a)
      <4>1. Cardinality(Reading(a)') = R - 1 BY <3>1, <3>2, <1>s, WithOne DEF R
      <4>2. Cardinality(Reading(a)') \in Nat BY <3>1, <1>s, DrainersFinite
      <4> QED BY <3>1, <4>1, <4>2, <1>n
    <3>3. CASE d \notin Reading(a)
      <4>1. Reading(a)' = Reading(a) BY <3>1, <3>3
      <4> QED BY <4>1, <1>n DEF R
    <3> QED BY <3>2, <3>3
  <2>2. pushes'[a] = pushes[a] BY <1>3 DEF Gives
  <2>3. faults' = faults \/ faults' = faults + 1 BY <1>3 DEF Gives
  <2>4. pushes'[a] + Cardinality(Reading(a)') <= D + faults'
    BY <1>b, <1>n, <1>t, <2>1, <2>2, <2>3
  <2>5. CASE row'[a] = row[a] /\ faults' = faults + 1
    <3>1. M <= Cardinality(Marking(a)') + 1 /\ Cardinality(Marking(a)') \in Nat
      <4>1. Marking(a)' = Marking(a) \ {d} BY <1>3 DEF Gives
      <4>2. Cardinality(Marking(a)') \in Nat BY <4>1, <1>s, DrainersFinite
      <4>3. CASE d \in Marking(a)
        <5>1. Cardinality(Marking(a)') = M - 1 BY <4>1, <4>3, <1>s, WithOne DEF M
        <5> QED BY <4>2, <5>1, <1>n
      <4>4. CASE d \notin Marking(a)
        <5>1. Marking(a)' = Marking(a) BY <4>1, <4>4
        <5> QED BY <5>1, <1>n DEF M
      <4> QED BY <4>3, <4>4
    <3>2. row[a] = "pending" => pushes[a] <= Cardinality(Marking(a)') + (faults + 1)
      BY <1>b, <1>n, <1>t, <3>1
    <3> QED BY <1>b, <2>1, <2>2, <2>4, <2>5, <3>2 DEF RowBound, D
  <2>6. CASE row'[a] = row[a] /\ d \notin Marking(a) /\ faults' = faults
    <3>1. Marking(a)' = Marking(a) BY <1>3, <2>6 DEF Gives
    <3> QED BY <1>b, <2>1, <2>2, <2>4, <2>6, <3>1 DEF RowBound, D, M
  <2>7. CASE row'[a] = "published" BY <2>4, <2>7 DEF RowBound, D
  <2> QED BY <1>3, <2>5, <2>6, <2>7 DEF Gives
<1>4. CASE Leaves(a)
  <2>1. /\ Reading(a)' = Reading(a) /\ Marking(a)' = Marking(a)
        /\ pushes'[a] = pushes[a] /\ faults' = faults
    BY <1>4 DEF Leaves
  <2>2. CASE row'[a] = row[a] BY <1>b, <2>1, <2>2 DEF RowBound, R, M, D
  <2>3. CASE row[a] = "none" /\ row'[a] = "pending"
    <3>1. pushes[a] <= M + faults BY <1>b, <1>n, <1>t, <2>3
    <3> QED BY <1>b, <2>1, <2>3, <3>1 DEF RowBound, R, M, D
  <2> QED BY <1>4, <2>2, <2>3 DEF Leaves
<1> QED BY RowStep, <1>1, <1>2, <1>3, <1>4

BoundInv == \A a \in Alert : RowBound(a)

\* No drainer pushes a row twice but for a commit of its own that failed.
THEOREM BoundedCorrect == Spec => []PushesBounded
<1>1. Init => BoundInv
  <2> SUFFICES ASSUME Init, NEW a \in Alert PROVE RowBound(a)
    BY DEF BoundInv
  <2>1. Reading(a) = {} /\ row[a] = "none" /\ pushes[a] = 0 /\ faults = 0
    BY DEF Init, Reading, Drainer
  <2>2. Cardinality(Reading(a)) = 0 BY <2>1, FS_EmptySet
  <2>3. Cardinality(Drainer) \in Nat BY DrainersFinite
  <2> QED BY <2>1, <2>2, <2>3 DEF RowBound
<1>2. TypeOK /\ RowsOK /\ BoundInv /\ [Next]_vars => BoundInv'
  BY BoundStep DEF BoundInv
<1>3. TypeOK /\ BoundInv => PushesBounded
  <2> SUFFICES ASSUME TypeOK, BoundInv, NEW a \in Alert
               PROVE  /\ row[a] = "pending" =>
                           pushes[a] <= Cardinality({d \in Drainer : a \in done[d]}) + faults
                      /\ pushes[a] <= Cardinality(Drainer) + faults
    BY DEF PushesBounded
  <2>1. RowBound(a) BY DEF BoundInv
  <2>2. /\ pushes[a] \in Nat /\ faults \in Nat /\ Cardinality(Drainer) \in Nat
        /\ Cardinality(Reading(a)) \in Nat
    BY DrainersFinite DEF TypeOK, Reading
  <2> QED BY <2>1, <2>2 DEF RowBound, Marking
<1> QED BY <1>1, <1>2, <1>3, TypeCorrect, PTL DEF Spec
=============================================================================
