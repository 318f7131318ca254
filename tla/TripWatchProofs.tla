--------------------------- MODULE TripWatchProofs ---------------------------
(***************************************************************************)
(* Theorems of TripWatch, for every number of requests in progress and of  *)
(* trips.                                                                  *)
(***************************************************************************)
EXTENDS TripWatch, WellFoundedInduction, TLAPS

-----------------------------------------------------------------------------
(* Type correctness, and which steps belong to which request.              *)

Request == [kind : Kind,
            at : {"checked", "inserted", "announced", "saved", "arriving", "written",
                  "told", "untold"},
            on : SUBSET Trip, moved : BOOLEAN]

\* The part of TypeOK about requests and the rows they hold.
TxnOK ==
  /\ txn \in [Slot -> {Idle} \cup Request]
  /\ held \in [Slot -> SUBSET Trip]
  /\ \A s \in Slot : txn[s] = Idle => held[s] = {}

\* The rest of it.
RowsOK ==
  /\ status \in [Trip -> {"none", "active", "arrived", "ended", "expired"}]
  /\ arrivedAt \subseteq Trip /\ endedAt \subseteq Trip /\ due \subseteq Trip
  /\ created \in 0..MaxTrips /\ requests \in 0..MaxRequests
  /\ overlapped \subseteq SUBSET Trip /\ raced \subseteq Trip
  /\ told \in [Trip -> Nat] /\ undone \in [Trip -> Nat]

\* All but reads are about a single trip, and hold no other row than its own.
OneTrip == {"create", "location", "arrive", "end"}
ControlOK ==
  \A s \in Slot :
    /\ txn[s].kind \in OneTrip => (\E t \in Trip : txn[s].on = {t}) /\ held[s] \subseteq txn[s].on
    /\ txn[s].at = "written" => txn[s].kind \in {"location", "arrive", "end"}
    /\ txn[s].at \in {"told", "untold"} => txn[s].kind \in {"location", "arrive"}

LEMMA TypeParts == (TypeOK <=> TxnOK /\ RowsOK) /\ (TypeOK' <=> TxnOK' /\ RowsOK')
BY DEF TypeOK, TxnOK, RowsOK, Request

LEMMA AtIsBusy ==
  ASSUME TxnOK, NEW s \in Slot, txn[s].kind \in Kind
  PROVE  txn[s] # Idle /\ txn[s] \in Request
BY DEF TxnOK, Idle, Kind

LEMMA OnIsOne ==
  ASSUME ControlOK, NEW s \in Slot, txn[s].kind \in OneTrip
  PROVE  On(s) \in Trip /\ txn[s].on = {On(s)}
BY DEF ControlOK, On

\* The newest of some trips is one of them.
LEMMA NewestTrip ==
  ASSUME NEW ts \in SUBSET Trip, ts # {} PROVE Max(ts) \in ts
<1> DEFINE left == {MaxTrips - t : t \in ts}
<1>1. MaxTrips \in Nat BY TripAssumption
<1>2. left \in SUBSET Nat /\ left # {}
  <2>1. \A t \in ts : t \in Int /\ t <= MaxTrips BY <1>1 DEF Trip
  <2>2. \A t \in ts : MaxTrips - t \in Nat BY <1>1, <2>1
  <2>3. left # {} OBVIOUS
  <2> QED BY <2>2, <2>3
<1>3. PICK x \in left : \A y \in left : ~ (<<y, x>> \in OpToRel(<, Nat))
  BY <1>2, NatLessThanWellFounded, WFMin
<1>4. \A y \in left : ~ (y < x)
  <2>1. ASSUME NEW y \in left, y < x PROVE <<y, x>> \in OpToRel(<, Nat)
    <3>1. <<y, x>> \in Nat \X Nat BY <1>2
    <3> QED BY <2>1, <3>1 DEF OpToRel
  <2> QED BY <1>3, <2>1
<1>5. PICK t \in ts : x = MaxTrips - t BY <1>3
<1>6. \A u \in ts : t >= u
  <2>1. ASSUME NEW u \in ts PROVE t >= u
    <3>1. ~ (MaxTrips - u < MaxTrips - t) BY <1>4, <1>5
    <3> QED BY <1>1, <3>1 DEF Trip
  <2> QED BY <2>1
<1> QED BY <1>6 DEF Max

-----------------------------------------------------------------------------
(* What the building blocks of the actions do to requests.                 *)

\* Everything but the request in slot s stays as it is.
OthersStay(s) == \A r \in Slot \ {s} : txn'[r] = txn[r] /\ held'[r] = held[r]

LEMMA BeginTxn ==
  ASSUME TxnOK, RowsOK, NEW s \in Slot, NEW kind \in Kind, NEW ts \in SUBSET Trip,
         NEW moved \in BOOLEAN, Begin(s, kind, ts, moved)
  PROVE  /\ TxnOK' /\ OthersStay(s) /\ held[s] = {} /\ held'[s] = {}
         /\ txn'[s].kind = kind /\ txn'[s].at = "checked" /\ txn'[s].on = ts
         /\ requests' \in 0..MaxRequests /\ raced' \subseteq Trip /\ raced \subseteq raced'
<1> DEFINE r == [kind |-> kind, at |-> "checked", on |-> ts, moved |-> moved]
<1>1. r \in Request /\ r # Idle BY DEF Request, Kind, Idle
<1>2. txn[s] = Idle /\ txn' = [txn EXCEPT ![s] = r] /\ UNCHANGED held BY DEF Begin
<1>3. requests' \in 0..MaxRequests BY TripAssumption DEF Begin, RowsOK
<1>4. raced' = raced \cup UNION {ts \cap (txn[x].on \cup held[x]) : x \in Slot} BY DEF Begin
<1>5. raced' \subseteq Trip BY <1>4 DEF RowsOK
<1>6. r.kind = kind /\ r.at = "checked" /\ r.on = ts OBVIOUS
<1> HIDE DEF r
<1> QED BY <1>1, <1>2, <1>3, <1>4, <1>5, <1>6 DEF TxnOK, OthersStay

LEMMA EndTxn ==
  ASSUME TxnOK, NEW s \in Slot, End(s)
  PROVE  /\ TxnOK' /\ OthersStay(s) /\ txn'[s] = Idle /\ held'[s] = {}
         /\ Idle.kind = "idle" /\ Idle.on = {} /\ Idle.at = "start"
BY DEF End, TxnOK, OthersStay, Idle

LEMMA StepTxn ==
  ASSUME TxnOK, NEW s \in Slot, txn[s] \in Request, NEW ts \in SUBSET Trip,
         NEW at \in {"inserted", "announced", "saved", "arriving", "written"}, Step(s, ts, at)
  PROVE  /\ TxnOK' /\ OthersStay(s) /\ txn'[s] = [txn[s] EXCEPT !.at = at]
         /\ held'[s] = held[s] \cup ts /\ \A r \in Slot \ {s} : ts \cap held[r] = {}
         /\ UNCHANGED <<tripVars, due, created, requests, historyVars>>
<1>1. /\ txn' = [txn EXCEPT ![s].at = at] /\ held' = [held EXCEPT ![s] = @ \cup ts]
      /\ \A r \in Slot \ {s} : ts \cap held[r] = {}
      /\ UNCHANGED <<tripVars, due, created, requests, historyVars>>
  BY DEF Step, Lock, To
<1>2. txn'[s] = [txn[s] EXCEPT !.at = at] /\ held'[s] = held[s] \cup ts
  BY <1>1 DEF TxnOK
<1>3. txn'[s] \in Request /\ txn'[s] # Idle BY <1>2 DEF Request, Idle, Kind
<1> QED BY <1>1, <1>2, <1>3 DEF TxnOK, OthersStay

\* The request in slot s goes on, on no other trips than before; what it locks
\* it has to itself.
Moves(s) ==
  /\ OthersStay(s)
  /\ txn[s] \in Request /\ txn'[s] \in Request
  /\ txn'[s].kind = txn[s].kind /\ txn'[s].moved = txn[s].moved
  /\ txn'[s].on \subseteq txn[s].on
  /\ txn[s].kind \in OneTrip => txn'[s].on = txn[s].on
  /\ held[s] \subseteq held'[s] /\ held'[s] \subseteq held[s] \cup txn[s].on
  /\ \A r \in Slot \ {s} : (held'[s] \ held[s]) \cap held[r] = {}
  /\ UNCHANGED <<tripVars, due, created, requests, overlapped, raced, undone>>

\* Which step it takes.
Goes(s) ==
  LET Has(kind, at, next) == txn[s].kind = kind /\ txn[s].at = at /\ txn'[s].at = next
  IN
  \/ /\ Has("create", "checked", "inserted") \/ Has("create", "inserted", "announced")
     /\ UNCHANGED told
  \/ /\ Has("location", "checked", "saved") /\ UNCHANGED told
     /\ txn[s].moved => txn[s].on \subseteq held'[s]
  \/ Has("location", "saved", "arriving") /\ status[On(s)] = "active" /\ UNCHANGED told
  \/ /\ \/ Has("location", "arriving", "written")
        \/ Has("arrive", "checked", "written")
        \/ Has("end", "checked", "written")
     /\ txn[s].on \subseteq held'[s] /\ UNCHANGED told
  \/ /\ Has("location", "written", "told") \/ Has("arrive", "written", "told")
     /\ told' = [told EXCEPT ![On(s)] = @ + 1]
  \/ /\ Has("location", "written", "untold") \/ Has("arrive", "written", "untold")
     /\ UNCHANGED told
  \/ Has("read", "checked", "checked") /\ UNCHANGED told

LEMMA StepMoves ==
  ASSUME TxnOK, NEW s \in Slot, txn[s] \in Request, NEW ts \in SUBSET txn[s].on,
         NEW at \in {"inserted", "announced", "saved", "arriving", "written"}, Step(s, ts, at)
  PROVE  /\ Moves(s) /\ TxnOK' /\ UNCHANGED told
         /\ txn'[s].at = at /\ ts \subseteq held'[s]
<1>1. ts \in SUBSET Trip BY DEF Request
<1>2. /\ TxnOK' /\ OthersStay(s) /\ txn'[s] = [txn[s] EXCEPT !.at = at]
      /\ held'[s] = held[s] \cup ts /\ \A r \in Slot \ {s} : ts \cap held[r] = {}
      /\ UNCHANGED <<tripVars, due, created, requests, historyVars>>
  BY <1>1, StepTxn
<1>3. /\ txn'[s] \in Request /\ txn'[s].kind = txn[s].kind /\ txn'[s].moved = txn[s].moved
      /\ txn'[s].on = txn[s].on /\ txn'[s].at = at
  BY <1>2 DEF Request
<1>4. UNCHANGED <<overlapped, raced, told, undone>> BY <1>2 DEF historyVars
<1> QED BY <1>2, <1>3, <1>4 DEF Moves

LEMMA RequestMoves ==
  ASSUME TxnOK, ControlOK, NEW s \in Slot,
         \/ CreateInsert(s) \/ CreateTell(s)
         \/ LocationSave(s) \/ LocationArrives(s) \/ ArriveWrite(s) \/ EndWrite(s)
         \/ ArriveTell(s) \/ ReadNext(s)
  PROVE  Moves(s) /\ Goes(s) /\ TxnOK'
<1>k. ASSUME NEW kind \in Kind, NEW at, At(s, kind, at)
      PROVE  txn[s] \in Request /\ txn[s].kind = kind /\ txn[s].at = at
  BY <1>k, AtIsBusy DEF At
<1>1. CASE LocationSave(s)
  <2>1. txn[s] \in Request /\ txn[s].kind = "location" /\ txn[s].at = "checked"
    BY <1>1, <1>k DEF LocationSave, Kind
  <2>2. PICK ts \in SUBSET txn[s].on :
          Step(s, ts, "saved") /\ (txn[s].moved => ts = txn[s].on)
    BY <1>1 DEF LocationSave
  <2>3. /\ Moves(s) /\ TxnOK' /\ UNCHANGED told /\ txn'[s].at = "saved"
        /\ ts \subseteq held'[s]
    BY <2>1, <2>2, StepMoves
  <2> QED BY <2>1, <2>2, <2>3 DEF Goes
<1>2. CASE LocationArrives(s)
  <2>1. txn[s] \in Request /\ txn[s].kind = "location" /\ txn[s].at = "saved"
    BY <1>2, <1>k DEF LocationArrives, Kind
  <2>2. Step(s, {}, "arriving") /\ status[On(s)] = "active" BY <1>2 DEF LocationArrives
  <2>3. Moves(s) /\ TxnOK' /\ UNCHANGED told /\ txn'[s].at = "arriving"
    BY <2>1, <2>2, StepMoves
  <2> QED BY <2>1, <2>2, <2>3 DEF Goes
<1>3. CASE ArriveWrite(s) \/ EndWrite(s)
  <2>1. /\ txn[s] \in Request
        /\ \/ txn[s].kind = "location" /\ txn[s].at = "arriving"
           \/ txn[s].kind = "arrive" /\ txn[s].at = "checked"
           \/ txn[s].kind = "end" /\ txn[s].at = "checked"
    BY <1>3, <1>k DEF ArriveWrite, EndWrite, Kind
  <2>2. Step(s, txn[s].on, "written") BY <1>3 DEF ArriveWrite, EndWrite
  <2>3. /\ Moves(s) /\ TxnOK' /\ UNCHANGED told /\ txn'[s].at = "written"
        /\ txn[s].on \subseteq held'[s]
    BY <2>1, <2>2, StepMoves
  <2> QED BY <2>1, <2>3 DEF Goes
<1>4. CASE ArriveTell(s)
  <2>1. txn[s] \in Request /\ txn[s].kind \in {"location", "arrive"} /\ txn[s].at = "written"
    BY <1>4, <1>k DEF ArriveTell, Kind
  <2>2. PICK at \in {"told", "untold"} :
          /\ To(s, at)
          /\ \/ at = "told" /\ told' = [told EXCEPT ![On(s)] = @ + 1]
             \/ at = "untold" /\ UNCHANGED told
    BY <1>4 DEF ArriveTell
  <2>3. txn'[s] = [txn[s] EXCEPT !.at = at] /\ \A r \in Slot \ {s} : txn'[r] = txn[r]
    BY <2>2 DEF To, TxnOK
  <2>4. /\ txn'[s] \in Request /\ txn'[s].kind = txn[s].kind /\ txn'[s].moved = txn[s].moved
        /\ txn'[s].on = txn[s].on /\ txn'[s].at = at
    BY <2>1, <2>3 DEF Request
  <2>5. /\ UNCHANGED held
        /\ UNCHANGED <<tripVars, due, created, requests, overlapped, raced, undone>>
    BY <1>4 DEF ArriveTell
  <2>6. txn'[s] # Idle BY <2>1, <2>4 DEF Idle
  <2>7. TxnOK' BY <2>2, <2>4, <2>5, <2>6 DEF TxnOK, To
  <2>8. Moves(s) BY <2>1, <2>3, <2>4, <2>5 DEF Moves, OthersStay
  <2> QED BY <2>1, <2>2, <2>4, <2>7, <2>8 DEF Goes
<1>5. CASE ReadNext(s)
  <2> DEFINE t == Max(txn[s].on)
  <2>1. txn[s] \in Request /\ txn[s].kind = "read" /\ txn[s].at = "checked" /\ txn[s].on # {}
    BY <1>5, <1>k DEF ReadNext, Kind
  <2>2. t \in txn[s].on BY <2>1, NewestTrip DEF Request
  <2>3. /\ txn' = [txn EXCEPT ![s].on = @ \ {t}]
        /\ held' = [held EXCEPT ![s] = @ \cup ({t} \cap due)]
        /\ \A r \in Slot \ {s} : ({t} \cap due) \cap held[r] = {}
        /\ UNCHANGED <<tripVars, due, created, requests, historyVars>>
    BY <1>5 DEF ReadNext, Lock
  <2> HIDE DEF t
  <2>4. /\ txn'[s] = [txn[s] EXCEPT !.on = txn[s].on \ {t}]
        /\ held'[s] = held[s] \cup ({t} \cap due)
        /\ \A r \in Slot \ {s} : txn'[r] = txn[r] /\ held'[r] = held[r]
    BY <2>3 DEF TxnOK
  <2>5. /\ txn'[s] \in Request /\ txn'[s].kind = "read" /\ txn'[s].moved = txn[s].moved
        /\ txn'[s].on = txn[s].on \ {t} /\ txn'[s].at = "checked"
    BY <2>1, <2>4 DEF Request
  <2>6. txn'[s] # Idle BY <2>5 DEF Idle
  <2>7. t \in Trip BY <2>1, <2>2 DEF Request
  <2>8. TxnOK' BY <2>3, <2>5, <2>6, <2>7 DEF TxnOK
  <2>9. UNCHANGED <<overlapped, raced, told, undone>> BY <2>3 DEF historyVars
  <2>10. Moves(s) BY <2>1, <2>2, <2>3, <2>4, <2>5, <2>9 DEF Moves, OthersStay, OneTrip
  <2> QED BY <2>1, <2>5, <2>8, <2>9, <2>10 DEF Goes
<1>6. CASE CreateInsert(s)
  <2>1. txn[s] \in Request /\ txn[s].kind = "create" /\ txn[s].at = "checked"
    BY <1>6, <1>k DEF CreateInsert, Kind
  <2>2. Step(s, txn[s].on, "inserted") BY <1>6 DEF CreateInsert
  <2>3. Moves(s) /\ TxnOK' /\ UNCHANGED told /\ txn'[s].at = "inserted"
    BY <2>1, <2>2, StepMoves
  <2> QED BY <2>1, <2>3 DEF Goes, Moves
<1>7. CASE CreateTell(s)
  <2>1. txn[s] \in Request /\ txn[s].kind = "create" /\ txn[s].at = "inserted"
    BY <1>7, <1>k DEF CreateTell, Kind
  <2>2. Step(s, {}, "announced") BY <1>7 DEF CreateTell
  <2>3. Moves(s) /\ TxnOK' /\ UNCHANGED told /\ txn'[s].at = "announced"
    BY <2>1, <2>2, StepMoves
  <2> QED BY <2>1, <2>3 DEF Goes, Moves
<1> QED BY <1>1, <1>2, <1>3, <1>4, <1>5, <1>6, <1>7

\* What a commit may be: on which trips, with which status, of which request.
Commits(s, ts, how) ==
  /\ Finish(s, ts, how)
  /\ txn[s] \in Request
  /\ \/ /\ txn[s].kind = "create" /\ txn[s].at = "announced"
        /\ ts = txn[s].on /\ how = "active"
     \/ txn[s].kind = "location" /\ txn[s].at = "saved" /\ ts = {} /\ how = "active"
     \/ /\ txn[s].kind \in {"arrive", "location"} /\ txn[s].at \in {"told", "untold"}
        /\ ts = txn[s].on /\ how = "arrived"
     \/ txn[s].kind = "end" /\ txn[s].at = "written" /\ ts = txn[s].on /\ how = "ended"
     \/ txn[s].kind = "read" /\ txn[s].at = "checked" /\ ts = held[s] /\ how = "expired"

LEMMA RequestCommits ==
  ASSUME TxnOK, ControlOK, NEW s \in Slot,
         CreateCommit(s) \/ LocationCommit(s) \/ ArriveCommit(s) \/ EndCommit(s) \/ ReadCommit(s)
  PROVE  \E ts \in SUBSET Trip, how \in {"active", "arrived", "ended", "expired"} :
           Commits(s, ts, how)
<1>k. ASSUME NEW kind \in Kind, NEW at, At(s, kind, at)
      PROVE  txn[s] \in Request /\ txn[s].kind = kind /\ txn[s].at = at /\ txn[s].on \subseteq Trip
  BY <1>k, AtIsBusy DEF At, Request
<1>1. CASE CreateCommit(s) BY <1>1, <1>k DEF CreateCommit, Commits, Kind
<1>2. CASE LocationCommit(s) BY <1>2, <1>k DEF LocationCommit, Commits, Kind
<1>3. CASE ArriveCommit(s)
  <2>1. txn[s].at \in {"told", "untold"} /\ Finish(s, txn[s].on, "arrived")
    BY <1>3 DEF ArriveCommit
  <2>2. txn[s].kind \in {"location", "arrive"} BY <2>1 DEF ControlOK
  <2>3. txn[s] \in Request /\ txn[s].on \subseteq Trip BY <2>2, AtIsBusy DEF Kind, Request
  <2> QED BY <2>1, <2>2, <2>3 DEF Commits
<1>4. CASE EndCommit(s) BY <1>4, <1>k DEF EndCommit, Commits, Kind
<1>5. CASE ReadCommit(s)
  <2>1. held[s] \subseteq Trip BY DEF TxnOK
  <2> QED BY <1>5, <1>k, <2>1 DEF ReadCommit, Commits, Kind
<1> QED BY <1>1, <1>2, <1>3, <1>4, <1>5


\* A trip on which the request in slot s is at work.
Touches(s, t) == t \in txn[s].on \cup held[s]

\* How a request of a kind begins, on which trips.
Starts(s, kind, ts) ==
  /\ OthersStay(s)
  /\ txn[s] = Idle /\ held[s] = {} /\ held'[s] = {}
  /\ txn'[s].kind = kind /\ txn'[s].at = "checked" /\ txn'[s].on = ts
  /\ raced \subseteq raced'
  /\ \A t \in ts, r \in Slot : Touches(r, t) => t \in raced'
  /\ \/ /\ kind = "create" /\ ts = {created + 1} /\ created + 1 \in Trip
        /\ Active = {} /\ created' = created + 1
        /\ \A r \in Slot : txn[r].kind = "create" => {created + 1, On(r)} \in overlapped'
     \/ kind = "read" /\ ts \subseteq Active /\ UNCHANGED created
     \/ /\ kind \in {"location", "arrive", "end"} /\ UNCHANGED created
        /\ \E t \in Trip :
             /\ ts = {t}
             /\ status[t] = "active" \/ (kind = "end" /\ status[t] = "arrived")
  /\ overlapped \subseteq overlapped'
  /\ UNCHANGED <<tripVars, due, told, undone>>

LEMMA CheckStarts ==
  ASSUME TxnOK, RowsOK, NEW s \in Slot, NEW kind \in Kind \ {"create"},
         NEW ts \in SUBSET Trip, NEW moved \in BOOLEAN, Check(s, kind, ts, moved),
         \/ kind = "read" /\ ts \subseteq Active
         \/ /\ kind # "read"
            /\ \E t \in Trip :
                 /\ ts = {t}
                 /\ status[t] = "active" \/ (kind = "end" /\ status[t] = "arrived")
  PROVE  Starts(s, kind, ts) /\ TxnOK' /\ RowsOK'
<1>1. Begin(s, kind, ts, moved) /\ UNCHANGED <<created, overlapped>> /\ kind \in Kind
  BY DEF Check
<1>2. /\ TxnOK' /\ OthersStay(s) /\ held[s] = {} /\ held'[s] = {}
      /\ txn'[s].kind = kind /\ txn'[s].at = "checked" /\ txn'[s].on = ts
      /\ requests' \in 0..MaxRequests /\ raced' \subseteq Trip /\ raced \subseteq raced'
  BY <1>1, BeginTxn
<1>3. /\ txn[s] = Idle /\ UNCHANGED <<tripVars, due, told, undone>>
      /\ raced' = raced \cup UNION {ts \cap (txn[r].on \cup held[r]) : r \in Slot}
  BY <1>1 DEF Begin
<1>4. \A t \in ts, r \in Slot : Touches(r, t) => t \in raced' BY <1>3 DEF Touches
<1>5. kind = "read" \/ kind \in {"location", "arrive", "end"} BY DEF Kind
<1>6. Starts(s, kind, ts) BY <1>1, <1>2, <1>3, <1>4, <1>5 DEF Starts
<1>7. RowsOK' BY <1>1, <1>2, <1>3 DEF RowsOK, tripVars
<1> QED BY <1>2, <1>6, <1>7

LEMMA CreateStarts ==
  ASSUME TxnOK, RowsOK, ControlOK, NEW s \in Slot, CreateCheck(s)
  PROVE  Starts(s, "create", {created + 1}) /\ TxnOK' /\ RowsOK'
<1> DEFINE t == created + 1
<1>1. /\ Active = {} /\ created < MaxTrips /\ created' = t
      /\ Begin(s, "create", {t}, FALSE)
      /\ overlapped' = overlapped \cup
           {{t, On(r)} : r \in {x \in Slot : txn[x].kind = "create"}}
  BY DEF CreateCheck, Create
<1>2. t \in Trip /\ t \in 0..MaxTrips BY <1>1, TripAssumption DEF RowsOK, Trip
<1> HIDE DEF t
<1>3. /\ TxnOK' /\ OthersStay(s) /\ held[s] = {} /\ held'[s] = {}
      /\ txn'[s].kind = "create" /\ txn'[s].at = "checked" /\ txn'[s].on = {t}
      /\ requests' \in 0..MaxRequests /\ raced' \subseteq Trip /\ raced \subseteq raced'
  BY <1>1, <1>2, BeginTxn DEF Kind
<1>4. /\ txn[s] = Idle /\ UNCHANGED <<tripVars, due, told, undone>>
      /\ raced' = raced \cup UNION {{t} \cap (txn[r].on \cup held[r]) : r \in Slot}
  BY <1>1 DEF Begin
<1>5. \A u \in {t}, r \in Slot : Touches(r, u) => u \in raced' BY <1>4 DEF Touches
<1>6. \A r \in Slot : txn[r].kind = "create" => {t, On(r)} \in overlapped' BY <1>1
<1>7. Starts(s, "create", {t}) BY <1>1, <1>2, <1>3, <1>4, <1>5, <1>6 DEF Starts, t
<1>8. \A r \in Slot : txn[r].kind = "create" => On(r) \in Trip
  BY OnIsOne DEF OneTrip
<1>9. overlapped' \subseteq SUBSET Trip
  <2>1. ASSUME NEW r \in Slot, txn[r].kind = "create" PROVE {t, On(r)} \in SUBSET Trip
    BY <2>1, <1>2, <1>8
  <2>2. {{t, On(r)} : r \in {x \in Slot : txn[x].kind = "create"}} \subseteq SUBSET Trip
    BY <2>1, Zenon
  <2> QED BY <1>1, <2>2 DEF RowsOK
<1>10. RowsOK' BY <1>1, <1>2, <1>3, <1>4, <1>9 DEF RowsOK, tripVars
<1> QED BY <1>3, <1>7, <1>10 DEF t

LEMMA RequestStarts ==
  ASSUME TxnOK, RowsOK, ControlOK, NEW s \in Slot, Arrive(s)
  PROVE  /\ \E kind \in Kind, ts \in SUBSET Trip : Starts(s, kind, ts)
         /\ TxnOK' /\ RowsOK'
<1>1. CASE CreateCheck(s)
  <2>1. Starts(s, "create", {created + 1}) /\ TxnOK' /\ RowsOK' BY <1>1, CreateStarts
  <2>2. {created + 1} \in SUBSET Trip BY <2>1 DEF Starts
  <2> QED BY <2>1, <2>2 DEF Kind
<1>2. ASSUME NEW t \in Trip, NEW kind \in {"arrive", "end", "location"}, NEW moved \in BOOLEAN,
             Check(s, kind, {t}, moved),
             status[t] = "active" \/ (kind = "end" /\ status[t] = "arrived")
      PROVE  Starts(s, kind, {t}) /\ TxnOK' /\ RowsOK'
  BY <1>2, CheckStarts DEF Kind
<1>3. ASSUME NEW t \in Trip,
             \/ ArriveCheck(s, t) \/ EndCheck(s, t)
             \/ \E moved \in BOOLEAN : LocationCheck(s, t, moved)
      PROVE  /\ \E kind \in Kind, ts \in SUBSET Trip : Starts(s, kind, ts)
             /\ TxnOK' /\ RowsOK'
  <2>1. PICK kind \in {"arrive", "end", "location"}, moved \in BOOLEAN :
          /\ Check(s, kind, {t}, moved)
          /\ status[t] = "active" \/ (kind = "end" /\ status[t] = "arrived")
    BY <1>3 DEF ArriveCheck, EndCheck, LocationCheck
  <2>2. Starts(s, kind, {t}) /\ TxnOK' /\ RowsOK' BY <2>1, <1>2
  <2>3. kind \in Kind /\ {t} \in SUBSET Trip BY DEF Kind
  <2> QED BY <2>2, <2>3
<1>6. CASE \E ts \in {{t} : t \in Trip} \cup {Active} : ReadCheck(s, ts)
  <2>1. PICK ts \in {{t} : t \in Trip} \cup {Active} : ReadCheck(s, ts) BY <1>6
  <2>2. ts \in SUBSET Trip BY <2>1 DEF Active
  <2>3. Starts(s, "read", ts) /\ TxnOK' /\ RowsOK'
    BY <2>1, <2>2, CheckStarts DEF ReadCheck, Kind
  <2> QED BY <2>2, <2>3 DEF Kind
<1> QED BY <1>1, <1>3, <1>6 DEF Arrive


LEMMA FinishRows ==
  ASSUME RowsOK, NEW s \in Slot, NEW ts \in SUBSET Trip,
         NEW how \in {"active", "arrived", "ended", "expired"}, Finish(s, ts, how)
  PROVE  RowsOK'
BY DEF RowsOK, Finish

LEMMA RollbackRows ==
  ASSUME TxnOK, RowsOK, ControlOK, NEW s \in Slot, Rollback(s)
  PROVE  /\ RowsOK'
         /\ \/ txn[s].at # "told" /\ UNCHANGED undone
            \/ /\ txn[s].at = "told" /\ On(s) \in Trip /\ txn[s].on = {On(s)}
               /\ undone' = [undone EXCEPT ![On(s)] = @ + 1]
<1>1. CASE txn[s].at = "told"
  <2>1. txn[s].kind \in OneTrip BY <1>1 DEF ControlOK, OneTrip
  <2>2. On(s) \in Trip /\ txn[s].on = {On(s)} BY <2>1, OnIsOne
  <2>3. undone' = [undone EXCEPT ![On(s)] = @ + 1] BY <1>1 DEF Rollback
  <2>4. undone' \in [Trip -> Nat] BY <2>2, <2>3 DEF RowsOK
  <2> QED BY <1>1, <2>2, <2>3, <2>4 DEF RowsOK, Rollback, tripVars
<1>2. CASE txn[s].at # "told" BY <1>2 DEF RowsOK, Rollback, tripVars
<1> QED BY <1>1, <1>2

LEMMA MovesRows ==
  ASSUME TxnOK, RowsOK, ControlOK, NEW s \in Slot, Moves(s), Goes(s)
  PROVE  RowsOK'
<1>1. told' \in [Trip -> Nat]
  <2>1. CASE UNCHANGED told BY <2>1 DEF RowsOK
  <2>2. CASE told' = [told EXCEPT ![On(s)] = told[On(s)] + 1]
    <3>1. [t \in Trip |-> IF t = On(s) THEN told[On(s)] + 1 ELSE told[t]] = told'
      BY <2>2 DEF RowsOK
    <3>2. \A t \in Trip : told'[t] \in Nat BY <3>1 DEF RowsOK
    <3> QED BY <3>1, <3>2
  <2> QED BY <2>1, <2>2 DEF Goes
<1> QED BY <1>1 DEF RowsOK, Moves, tripVars

-----------------------------------------------------------------------------
(* Every step of the system is one of these.                               *)

StepOf(s) ==
  \/ \E kind \in Kind, ts \in SUBSET Trip : Starts(s, kind, ts)
  \/ Moves(s) /\ Goes(s)
  \/ \E ts \in SUBSET Trip, how \in {"active", "arrived", "ended", "expired"} :
       Commits(s, ts, how)
  \/ Rollback(s)

\* Nothing happens to requests; a watch may run out.
Waits == UNCHANGED <<tripVars, txn, held, created, requests, historyVars>>

LEMMA StepKinds ==
  ASSUME TypeOK, ControlOK, [Next]_vars
  PROVE  TypeOK' /\ (Waits \/ \E s \in Slot : StepOf(s))
<1>t. TxnOK /\ RowsOK BY TypeParts
<1>p. TxnOK' /\ RowsOK' => TypeOK' BY TypeParts
<1>1. ASSUME NEW s \in Slot, Arrive(s) PROVE TypeOK' /\ StepOf(s)
  BY <1>1, <1>t, <1>p, RequestStarts DEF StepOf
<1>2. ASSUME NEW s \in Slot,
             \/ CreateInsert(s) \/ CreateTell(s)
             \/ LocationSave(s) \/ LocationArrives(s) \/ ArriveWrite(s) \/ EndWrite(s)
             \/ ArriveTell(s) \/ ReadNext(s)
      PROVE  TypeOK' /\ StepOf(s)
  <2>1. Moves(s) /\ Goes(s) /\ TxnOK' BY <1>2, <1>t, RequestMoves
  <2> QED BY <2>1, <1>t, <1>p, MovesRows DEF StepOf
<1>3. ASSUME NEW s \in Slot,
             \/ CreateCommit(s) \/ LocationCommit(s) \/ ArriveCommit(s) \/ EndCommit(s)
             \/ ReadCommit(s)
      PROVE  TypeOK' /\ StepOf(s)
  <2>1. PICK ts \in SUBSET Trip, how \in {"active", "arrived", "ended", "expired"} :
          Commits(s, ts, how)
    BY <1>3, <1>t, RequestCommits
  <2>2. Finish(s, ts, how) /\ End(s) BY <2>1 DEF Commits, Finish
  <2>3. TxnOK' BY <2>2, <1>t, EndTxn
  <2>4. RowsOK' BY <2>2, <1>t, FinishRows
  <2> QED BY <2>1, <2>3, <2>4, <1>p DEF StepOf
<1>4. ASSUME NEW s \in Slot, Rollback(s) PROVE TypeOK' /\ StepOf(s)
  <2>1. TxnOK' BY <1>4, <1>t, EndTxn DEF Rollback
  <2>2. RowsOK' BY <1>4, <1>t, RollbackRows
  <2> QED BY <1>4, <2>1, <2>2, <1>p DEF StepOf
<1>5. ASSUME NEW t \in Trip, BecomeDue(t) PROVE TypeOK' /\ Waits
  <2>1. Waits /\ due' \subseteq Trip BY <1>5, <1>t DEF BecomeDue, Waits, RowsOK
  <2>2. TxnOK' /\ RowsOK' BY <2>1, <1>t DEF Waits, TxnOK, RowsOK, tripVars, historyVars
  <2> QED BY <2>1, <2>2, <1>p
<1>6. CASE UNCHANGED vars
  <2>1. Waits /\ UNCHANGED due BY <1>6 DEF vars, Waits
  <2>2. TxnOK' /\ RowsOK' BY <2>1, <1>t DEF Waits, TxnOK, RowsOK, tripVars, historyVars
  <2> QED BY <2>1, <2>2, <1>p
<1>7. ASSUME NEW s \in Slot, Proceed(s) PROVE TypeOK' /\ StepOf(s)
  BY <1>7, <1>2, <1>3 DEF Proceed
<1> QED BY <1>1, <1>4, <1>5, <1>6, <1>7 DEF Next


LEMMA ControlStep == TypeOK /\ ControlOK /\ [Next]_vars => ControlOK'
<1> SUFFICES ASSUME TypeOK, ControlOK, [Next]_vars PROVE ControlOK'
  OBVIOUS
<1>t. TxnOK /\ RowsOK BY TypeParts
<1>1. CASE Waits BY <1>1 DEF Waits, ControlOK
<1>2. ASSUME NEW s \in Slot, StepOf(s) PROVE ControlOK'
  <2> DEFINE C(r) ==
        /\ txn'[r].kind \in OneTrip =>
             (\E t \in Trip : txn'[r].on = {t}) /\ held'[r] \subseteq txn'[r].on
        /\ txn'[r].at = "written" => txn'[r].kind \in {"location", "arrive", "end"}
        /\ txn'[r].at \in {"told", "untold"} => txn'[r].kind \in {"location", "arrive"}
  <2> SUFFICES OthersStay(s) /\ C(s)
    BY DEF ControlOK, OthersStay
  <2>1. ASSUME NEW kind \in Kind, NEW ts \in SUBSET Trip, Starts(s, kind, ts)
        PROVE  OthersStay(s) /\ C(s)
    BY <2>1 DEF Starts, OneTrip
  <2>2. CASE Moves(s) /\ Goes(s)
    BY <2>2 DEF Moves, Goes, ControlOK, OneTrip
  <2>3. CASE End(s)
    BY <2>3, <1>t, EndTxn DEF OneTrip
  <2> QED BY <1>2, <2>1, <2>2, <2>3 DEF StepOf, Commits, Finish, Rollback
<1> QED BY <1>1, <1>2, StepKinds

\* Every variable keeps its type, and every request its place in its protocol.
THEOREM TypeCorrect == Spec => [](TypeOK /\ ControlOK)
<1>1. Init => TypeOK /\ ControlOK
  BY TripAssumption DEF Init, TypeOK, ControlOK, Idle, OneTrip
<1>2. TypeOK /\ ControlOK /\ [Next]_vars => TypeOK' /\ ControlOK'
  BY StepKinds, ControlStep
<1> QED BY <1>1, <1>2, PTL DEF Spec

-----------------------------------------------------------------------------
(* At most one active watch.                                               *)

\* Requests are on trips that exist, creations on trips that do not yet, each
\* on its own.
NewTrips ==
  /\ \A t \in Trip : t > created => status[t] = "none"
  /\ \A s \in Slot, t \in Trip : Touches(s, t) =>
       /\ t <= created
       /\ txn[s].kind = "create" <=> status[t] = "none"
  /\ \A r, s \in Slot : r # s /\ txn[r].kind = "create" /\ txn[s].kind = "create"
       => On(r) # On(s)

\* A creation in progress overlapped every other one, and that of every watch that
\* became active after it had looked for one.
CreatesOverlap ==
  \A s \in Slot : txn[s].kind = "create" =>
    /\ \A r \in Slot : r # s /\ txn[r].kind = "create" => {On(r), On(s)} \in overlapped
    /\ \A t \in Active : {t, On(s)} \in overlapped

ActiveInv == NewTrips /\ CreatesOverlap /\ OneActiveUnlessOverlapping

\* What Touches says of the slots that a step leaves alone and of the one it is of.
LEMMA TouchesSame ==
  ASSUME NEW s \in Slot, OthersStay(s)
  PROVE  \A r \in Slot \ {s} :
           /\ \A t : Touches(r, t)' <=> Touches(r, t)
           /\ On(r)' = On(r)
BY DEF OthersStay, Touches, On

LEMMA TouchesLess ==
  ASSUME NEW s \in Slot, Moves(s)
  PROVE  /\ \A t : Touches(s, t)' => Touches(s, t)
         /\ txn[s].kind \in OneTrip => On(s)' = On(s)
BY DEF Moves, Touches, On

LEMMA TouchesNone ==
  ASSUME TxnOK, NEW s \in Slot, End(s)
  PROVE  \A t : ~ Touches(s, t)'
BY EndTxn DEF Touches

\* A request on one trip touches no other, a creation in progress touches its own.
LEMMA TouchesOne ==
  ASSUME ControlOK, NEW s \in Slot, txn[s].kind \in OneTrip
  PROVE  On(s) \in Trip /\ \A t : Touches(s, t) <=> t = On(s)
BY OnIsOne DEF Touches, ControlOK


\* A commit in terms of the trips that it touches.
LEMMA CommitRows ==
  ASSUME TypeOK, NEW s \in Slot, NEW ts \in SUBSET Trip,
         NEW how \in {"active", "arrived", "ended", "expired"}, Commits(s, ts, how)
  PROVE  /\ OthersStay(s) /\ txn'[s].kind = "idle" /\ txn'[s].at = "start"
         /\ \A t : ~ Touches(s, t)'
         /\ \A t \in ts : Touches(s, t)
         /\ \A t \in Trip : status'[t] = IF t \in ts THEN how ELSE status[t]
         /\ UNCHANGED <<due, created, requests, overlapped, raced, told, undone>>
<1>t. TxnOK BY TypeParts
<1>1. Finish(s, ts, how) /\ End(s) BY DEF Commits, Finish
<1>2. OthersStay(s) /\ txn'[s].kind = "idle" /\ txn'[s].at = "start" BY <1>t, <1>1, EndTxn
<1>3. \A t : ~ Touches(s, t)' BY <1>t, <1>1, TouchesNone
<1>4. \A t \in ts : Touches(s, t) BY DEF Commits, Touches
<1> QED BY <1>1, <1>2, <1>3, <1>4 DEF Finish

LEMMA RollbackKeeps ==
  ASSUME TypeOK, NEW s \in Slot, Rollback(s)
  PROVE  /\ OthersStay(s) /\ txn'[s].kind = "idle" /\ txn'[s].at = "start"
         /\ \A t : ~ Touches(s, t)'
         /\ UNCHANGED <<tripVars, due, created, requests, overlapped, raced, told>>
BY TypeParts, EndTxn, TouchesNone DEF Rollback

LEMMA NewTripsStart ==
  ASSUME TypeOK, ControlOK, NewTrips, NEW s \in Slot, NEW kind \in Kind, NEW ts \in SUBSET Trip,
         Starts(s, kind, ts)
  PROVE  NewTrips'
<1>t. TxnOK /\ RowsOK BY TypeParts
<1>1. /\ \A r \in Slot \ {s} : (\A t : Touches(r, t)' <=> Touches(r, t)) /\ On(r)' = On(r)
      /\ \A r \in Slot \ {s} : txn'[r] = txn[r]
  BY TouchesSame DEF Starts, OthersStay
<1>2. /\ \A t : Touches(s, t)' <=> t \in ts
      /\ txn'[s].kind = kind /\ UNCHANGED status /\ created \in Nat
  BY <1>t DEF Starts, Touches, tripVars, RowsOK
<1>3. CASE kind # "create"
  <2>1. UNCHANGED created /\ \A t \in ts : status[t] # "none"
    BY <1>3 DEF Starts, Active
  <2>2. ASSUME NEW r \in Slot, NEW t \in Trip, Touches(r, t)'
        PROVE  t <= created /\ (txn'[r].kind = "create" <=> status[t] = "none")
    <3>1. CASE r = s
      <4>1. status[t] # "none" BY <2>1, <2>2, <3>1, <1>2
      <4>2. t <= created BY <4>1, <1>2 DEF NewTrips, Trip
      <4> QED BY <4>1, <4>2, <3>1, <1>2, <1>3
    <3>2. CASE r # s BY <2>2, <3>2, <1>1 DEF NewTrips
    <3> QED BY <3>1, <3>2
  <2> QED BY <2>1, <2>2, <1>1, <1>2, <1>3 DEF NewTrips
<1>4. CASE kind = "create"
  <2>1. /\ ts = {created + 1} /\ created + 1 \in Trip /\ created' = created + 1
        /\ txn'[s].on = {created + 1}
    BY <1>4 DEF Starts
  <2>2. On(s)' = created + 1 BY <2>1 DEF On
  <2>3. status[created + 1] = "none" BY <2>1, <1>2 DEF NewTrips
  <2>4. ASSUME NEW r \in Slot, NEW t \in Trip, Touches(r, t)'
        PROVE  t <= created' /\ (txn'[r].kind = "create" <=> status[t] = "none")
    <3>1. CASE r = s BY <3>1, <2>1, <2>3, <2>4, <1>2, <1>4 DEF Trip
    <3>2. CASE r # s
      <4>1. t <= created /\ (txn'[r].kind = "create" <=> status[t] = "none")
        BY <2>4, <3>2, <1>1 DEF NewTrips
      <4> QED BY <4>1, <2>1, <1>2 DEF Trip
    <3> QED BY <3>1, <3>2
  <2>5. ASSUME NEW r \in Slot \ {s}, txn'[r].kind = "create"
        PROVE  On(r)' # On(s)'
    <3>1. On(r) \in Trip /\ Touches(r, On(r))
      BY <2>5, <1>1, TouchesOne DEF OneTrip
    <3>2. On(r) <= created BY <3>1 DEF NewTrips
    <3> QED BY <3>1, <3>2, <2>2, <1>1, <1>2 DEF Trip
  <2>6. \A t \in Trip : t > created' => status[t] = "none"
    BY <2>1, <1>2 DEF NewTrips, Trip
  <2> QED BY <2>4, <2>5, <2>6, <1>1, <1>2 DEF NewTrips
<1> QED BY <1>3, <1>4

LEMMA NewTripsStep ==
  ASSUME TypeOK, ControlOK, NewTrips, [Next]_vars
  PROVE  NewTrips'
<1>t. TxnOK /\ RowsOK BY TypeParts
<1>1. CASE Waits
  <2>1. UNCHANGED <<status, txn, held, created>> BY <1>1 DEF Waits, tripVars
  <2> QED BY <2>1 DEF NewTrips, Touches, On
<1>2. ASSUME NEW s \in Slot, Moves(s) \/ Rollback(s) PROVE NewTrips'
  <2>1. /\ OthersStay(s) /\ UNCHANGED <<status, created>>
        /\ \A t : Touches(s, t)' => Touches(s, t)
        /\ \/ txn'[s].kind = txn[s].kind /\ (txn[s].kind = "create" => On(s)' = On(s))
           \/ txn'[s].kind # "create" /\ \A t : ~ Touches(s, t)'
    BY <1>2, TouchesLess, RollbackKeeps DEF Moves, tripVars, OneTrip
  <2>2. \A r \in Slot \ {s} : /\ \A t : Touches(r, t)' <=> Touches(r, t)
                              /\ On(r)' = On(r) /\ txn'[r] = txn[r]
    BY <2>1, TouchesSame DEF OthersStay
  <2> QED BY <2>1, <2>2 DEF NewTrips
<1>3. ASSUME NEW s \in Slot, NEW ts \in SUBSET Trip,
             NEW how \in {"active", "arrived", "ended", "expired"}, Commits(s, ts, how)
      PROVE  NewTrips'
  <2>1. /\ OthersStay(s) /\ txn'[s].kind = "idle"
        /\ \A t : ~ Touches(s, t)'
        /\ \A t \in ts : Touches(s, t)
        /\ \A t \in Trip : status'[t] = IF t \in ts THEN how ELSE status[t]
        /\ UNCHANGED created
    BY <1>3, CommitRows
  <2>2. \A r \in Slot \ {s} : /\ \A t : Touches(r, t)' <=> Touches(r, t)
                              /\ On(r)' = On(r) /\ txn'[r] = txn[r]
    BY <2>1, TouchesSame DEF OthersStay
  <2>3. \A t \in Trip : t > created => status'[t] = "none"
    <3>1. created \in Nat BY <1>t DEF RowsOK
    <3>2. \A t \in ts : ~ (t > created) BY <2>1, <3>1 DEF NewTrips, Trip
    <3> QED BY <2>1, <3>2 DEF NewTrips
  <2>4. ASSUME NEW r \in Slot \ {s}, NEW t \in Trip, Touches(r, t)
        PROVE  txn[r].kind = "create" <=> status'[t] = "none"
    <3>1. CASE t \notin ts BY <2>1, <2>4, <3>1 DEF NewTrips
    <3>2. CASE t \in ts
      <4>1. Touches(s, t) /\ status'[t] # "none" BY <2>1, <3>2
      <4>2. txn[r].kind # "create"
        <5>1. SUFFICES ASSUME txn[r].kind = "create" PROVE FALSE OBVIOUS
        <5>2. txn[s].kind = "create" BY <5>1, <4>1, <2>4 DEF NewTrips
        <5>3. t = On(r) /\ t = On(s) BY <5>1, <5>2, <4>1, <2>4, TouchesOne DEF OneTrip
        <5> QED BY <5>1, <5>2, <5>3 DEF NewTrips
      <4> QED BY <4>1, <4>2
    <3> QED BY <3>1, <3>2
  <2> QED BY <2>1, <2>2, <2>3, <2>4 DEF NewTrips
<1>4. ASSUME NEW s \in Slot, StepOf(s) PROVE NewTrips'
  BY <1>2, <1>3, <1>4, NewTripsStart DEF StepOf
<1> QED BY <1>1, <1>4, StepKinds


LEMMA OverlapStep ==
  ASSUME TypeOK, ControlOK, ActiveInv, [Next]_vars
  PROVE  CreatesOverlap' /\ OneActiveUnlessOverlapping'
<1>i. NewTrips /\ CreatesOverlap /\ OneActiveUnlessOverlapping BY DEF ActiveInv
<1>1. CASE Waits
  <2>1. UNCHANGED <<status, txn, overlapped>> BY <1>1 DEF Waits, tripVars, historyVars
  <2> QED BY <1>i, <2>1 DEF CreatesOverlap, OneActiveUnlessOverlapping, Active, On
<1>2. ASSUME NEW s \in Slot, Moves(s) \/ Rollback(s)
      PROVE  CreatesOverlap' /\ OneActiveUnlessOverlapping'
  <2>1. /\ OthersStay(s) /\ UNCHANGED <<status, overlapped>>
        /\ \/ txn'[s].kind = txn[s].kind /\ (txn[s].kind = "create" => On(s)' = On(s))
           \/ txn'[s].kind # "create"
    BY <1>2, TouchesLess, RollbackKeeps DEF Moves, tripVars, OneTrip
  <2>2. \A r \in Slot \ {s} : On(r)' = On(r) /\ txn'[r] = txn[r]
    BY <2>1, TouchesSame DEF OthersStay
  <2>3. Active' = Active BY <2>1 DEF Active
  <2> QED BY <1>i, <2>1, <2>2, <2>3 DEF CreatesOverlap, OneActiveUnlessOverlapping
<1>3. ASSUME NEW s \in Slot, NEW kind \in Kind, NEW ts \in SUBSET Trip, Starts(s, kind, ts)
      PROVE  CreatesOverlap' /\ OneActiveUnlessOverlapping'
  <2>1. /\ \A r \in Slot \ {s} : On(r)' = On(r) /\ txn'[r] = txn[r]
        /\ txn'[s].kind = kind /\ txn'[s].on = ts
        /\ overlapped \subseteq overlapped' /\ UNCHANGED status
    BY <1>3, TouchesSame DEF Starts, OthersStay, tripVars
  <2>2. Active' = Active BY <2>1 DEF Active
  <2>3. CASE kind # "create"
    BY <1>i, <2>1, <2>2, <2>3 DEF CreatesOverlap, OneActiveUnlessOverlapping
  <2>4. CASE kind = "create"
    <3>1. /\ ts = {created + 1} /\ Active = {}
          /\ \A r \in Slot : txn[r].kind = "create" => {created + 1, On(r)} \in overlapped'
      BY <1>3, <2>4 DEF Starts
    <3>2. On(s)' = created + 1 BY <2>1, <3>1 DEF On
    <3>3. \A r \in Slot \ {s} : txn'[r].kind = "create" =>
            {On(s)', On(r)'} \in overlapped' /\ {On(r)', On(s)'} \in overlapped'
      BY <2>1, <3>1, <3>2
    <3> QED BY <1>i, <2>1, <2>2, <3>1, <3>3 DEF CreatesOverlap, OneActiveUnlessOverlapping
  <2> QED BY <2>3, <2>4
<1>4. ASSUME NEW s \in Slot, NEW ts \in SUBSET Trip,
             NEW how \in {"active", "arrived", "ended", "expired"}, Commits(s, ts, how)
      PROVE  CreatesOverlap' /\ OneActiveUnlessOverlapping'
  <2>1. /\ OthersStay(s) /\ txn'[s].kind = "idle"
        /\ \A t \in Trip : status'[t] = IF t \in ts THEN how ELSE status[t]
        /\ UNCHANGED overlapped
    BY <1>4, CommitRows
  <2>2. \A r \in Slot \ {s} : On(r)' = On(r) /\ txn'[r] = txn[r]
    BY <2>1, TouchesSame DEF OthersStay
  <2>3. CASE Active' \subseteq Active
    BY <1>i, <2>1, <2>2, <2>3 DEF CreatesOverlap, OneActiveUnlessOverlapping
  <2>4. CASE ~ (Active' \subseteq Active)
    <3>1. how = "active" /\ ts # {} BY <2>1, <2>4 DEF Active
    <3>2. txn[s].kind = "create" /\ ts = txn[s].on BY <1>4, <3>1 DEF Commits
    <3>3. ts = {On(s)} BY <3>2, OnIsOne DEF OneTrip
    <3>4. Active' \subseteq Active \cup {On(s)} BY <2>1, <3>3 DEF Active
    <3>5. \A t \in Active : {t, On(s)} \in overlapped /\ {On(s), t} \in overlapped
      <4>1. \A t \in Active : {t, On(s)} \in overlapped
        BY <1>i, <3>2 DEF CreatesOverlap
      <4>2. \A t : {t, On(s)} = {On(s), t} OBVIOUS
      <4> QED BY <4>1, <4>2
    <3>6. \A r \in Slot \ {s} : txn[r].kind = "create" => {On(s), On(r)} \in overlapped
      BY <1>i, <3>2 DEF CreatesOverlap
    <3>7. OneActiveUnlessOverlapping'
      BY <1>i, <2>1, <3>4, <3>5 DEF OneActiveUnlessOverlapping
    <3>8. CreatesOverlap'
      <4>1. ASSUME NEW r \in Slot, txn'[r].kind = "create"
            PROVE  r # s /\ txn[r].kind = "create" /\ On(r)' = On(r)
        BY <2>1, <2>2, <4>1
      <4>2. ASSUME NEW r \in Slot, txn'[r].kind = "create", NEW t \in Active'
            PROVE  {t, On(r)} \in overlapped
        BY <1>i, <3>4, <3>6, <4>1, <4>2 DEF CreatesOverlap
      <4>3. ASSUME NEW r \in Slot, NEW q \in Slot, q # r, txn'[r].kind = "create",
                   txn'[q].kind = "create"
            PROVE  {On(q), On(r)} \in overlapped
        BY <1>i, <4>1, <4>3 DEF CreatesOverlap
      <4> QED BY <2>1, <4>1, <4>2, <4>3 DEF CreatesOverlap
    <3> QED BY <3>7, <3>8
  <2> QED BY <2>3, <2>4
<1>5. ASSUME NEW s \in Slot, StepOf(s) PROVE CreatesOverlap' /\ OneActiveUnlessOverlapping'
  BY <1>2, <1>3, <1>4, <1>5 DEF StepOf
<1> QED BY <1>1, <1>5, StepKinds

LEMMA ActiveInvariant == Spec => [](TypeOK /\ ControlOK /\ ActiveInv)
<1>1. Init => ActiveInv
  BY DEF Init, ActiveInv, NewTrips, CreatesOverlap, OneActiveUnlessOverlapping, Active,
         Touches, Idle
<1>2. TypeOK /\ ControlOK /\ ActiveInv /\ [Next]_vars => ActiveInv'
  BY NewTripsStep, OverlapStep DEF ActiveInv
<1> QED BY <1>1, <1>2, TypeCorrect, PTL DEF Spec

\* A traveler has one active watch, unless the creations of two overlapped.
THEOREM OneActiveCorrect == Spec => []OneActiveUnlessOverlapping
<1>1. ActiveInv => OneActiveUnlessOverlapping BY DEF ActiveInv
<1> QED BY <1>1, ActiveInvariant, PTL

\* A watch that has arrived, ended or expired is never active again.
THEOREM NeverAgainCorrect == Spec => NeverActiveAgain
<1> DEFINE Over == {"arrived", "ended", "expired"}
           Stays == \A t \in Trip : status[t] \in Over => status'[t] \in Over
<1>1. TypeOK /\ ControlOK /\ ActiveInv /\ [Next]_vars => [Stays]_vars
  <2> SUFFICES ASSUME TypeOK, ControlOK, ActiveInv, [Next]_vars PROVE Stays
    OBVIOUS
  <2>1. CASE UNCHANGED status BY <2>1
  <2>2. ASSUME NEW s \in Slot, NEW ts \in SUBSET Trip,
               NEW how \in {"active", "arrived", "ended", "expired"}, Commits(s, ts, how)
        PROVE  Stays
    <3>1. \A t \in Trip : status'[t] = IF t \in ts THEN how ELSE status[t]
      BY <2>2, CommitRows
    <3>2. CASE how # "active" BY <3>1, <3>2
    <3>3. CASE how = "active"
      <4>1. \A t \in ts : Touches(s, t) /\ txn[s].kind = "create"
        BY <2>2, <3>3, CommitRows DEF Commits
      <4>2. \A t \in ts : status[t] = "none" BY <4>1 DEF ActiveInv, NewTrips
      <4> QED BY <3>1, <4>2
    <3> QED BY <3>2, <3>3
  <2> QED BY <2>1, <2>2, StepKinds
      DEF StepOf, Starts, Moves, Rollback, Waits, tripVars
<1>2. Spec => [][Stays]_vars BY <1>1, ActiveInvariant, PTL DEF Spec
<1> QED BY <1>2 DEF NeverActiveAgain


-----------------------------------------------------------------------------
(* Trips that no two requests have raced for.                              *)

\* A request has such a trip to itself.
AloneUnlessRaced ==
  \A t \in Trip \ raced : \A r, s \in Slot : Touches(r, t) /\ Touches(s, t) => r = s

\* What a request has checked of such a trip still holds.
StillAsChecked ==
  \A t \in Trip \ raced : \A s \in Slot : Touches(s, t) =>
    /\ txn[s].kind \in {"location", "arrive", "read"} => status[t] = "active"
    /\ txn[s].kind = "end" => status[t] \in {"active", "arrived"}

\* The times of a trip are set with its status.
TimesAgree ==
  \A t \in Trip : status[t] \in {"none", "active"} => t \notin arrivedAt \cup endedAt

FinishInv == AloneUnlessRaced /\ StillAsChecked /\ TimesAgree /\ FinishesAgree

LEMMA FinishSame ==
  ASSUME FinishInv, UNCHANGED tripVars, raced \subseteq raced'
  PROVE  TimesAgree' /\ FinishesAgree'
BY DEF FinishInv, TimesAgree, FinishesAgree, tripVars

LEMMA FinishStep ==
  ASSUME TypeOK, ControlOK, NewTrips, FinishInv, [Next]_vars
  PROVE  FinishInv'
<1>i. AloneUnlessRaced /\ StillAsChecked /\ TimesAgree /\ FinishesAgree BY DEF FinishInv
<1>1. CASE Waits
  <2>1. UNCHANGED <<tripVars, txn, held, raced>> BY <1>1 DEF Waits, historyVars
  <2>2. TimesAgree' /\ FinishesAgree' BY <2>1, FinishSame
  <2>3. AloneUnlessRaced' /\ StillAsChecked'
    BY <1>i, <2>1 DEF AloneUnlessRaced, StillAsChecked, Touches, tripVars
  <2> QED BY <2>2, <2>3 DEF FinishInv
<1>2. ASSUME NEW s \in Slot, Moves(s) \/ Rollback(s) PROVE FinishInv'
  <2>1. /\ OthersStay(s) /\ UNCHANGED <<tripVars, raced>>
        /\ \A t : Touches(s, t)' => Touches(s, t)
        /\ \/ txn'[s].kind = txn[s].kind
           \/ \A t : ~ Touches(s, t)'
    BY <1>2, TouchesLess, RollbackKeeps DEF Moves
  <2>2. \A r \in Slot \ {s} : (\A t : Touches(r, t)' <=> Touches(r, t)) /\ txn'[r] = txn[r]
    BY <2>1, TouchesSame DEF OthersStay
  <2>3. TimesAgree' /\ FinishesAgree' BY <2>1, FinishSame
  <2>4. AloneUnlessRaced' BY <1>i, <2>1, <2>2 DEF AloneUnlessRaced
  <2>5. StillAsChecked' BY <1>i, <2>1, <2>2 DEF StillAsChecked, tripVars
  <2> QED BY <2>3, <2>4, <2>5 DEF FinishInv
<1>3. ASSUME NEW s \in Slot, NEW kind \in Kind, NEW ts \in SUBSET Trip, Starts(s, kind, ts)
      PROVE  FinishInv'
  <2>1. /\ OthersStay(s) /\ UNCHANGED tripVars /\ raced \subseteq raced'
        /\ \A t \in ts, r \in Slot : Touches(r, t) => t \in raced'
        /\ \A t : Touches(s, t)' <=> t \in ts
        /\ txn'[s].kind = kind
    BY <1>3 DEF Starts, Touches
  <2>2. \A r \in Slot \ {s} : (\A t : Touches(r, t)' <=> Touches(r, t)) /\ txn'[r] = txn[r]
    BY <2>1, TouchesSame DEF OthersStay
  <2>3. TimesAgree' /\ FinishesAgree' BY <2>1, FinishSame
  <2>4. AloneUnlessRaced' BY <1>i, <2>1, <2>2 DEF AloneUnlessRaced
  <2>5. \A t \in ts : /\ kind \in {"location", "arrive", "read"} => status[t] = "active"
                      /\ kind = "end" => status[t] \in {"active", "arrived"}
    BY <1>3 DEF Starts, Active
  <2>6. StillAsChecked' BY <1>i, <2>1, <2>2, <2>5 DEF StillAsChecked, tripVars
  <2> QED BY <2>3, <2>4, <2>6 DEF FinishInv
<1>4. ASSUME NEW s \in Slot, NEW ts \in SUBSET Trip,
             NEW how \in {"active", "arrived", "ended", "expired"}, Commits(s, ts, how)
      PROVE  FinishInv'
  <2>1. /\ OthersStay(s) /\ UNCHANGED raced
        /\ \A t : ~ Touches(s, t)'
        /\ \A t \in ts : Touches(s, t)
        /\ \A t \in Trip : status'[t] = IF t \in ts THEN how ELSE status[t]
    BY <1>4, CommitRows
  <2>2. \A r \in Slot \ {s} : (\A t : Touches(r, t)' <=> Touches(r, t)) /\ txn'[r] = txn[r]
    BY <2>1, TouchesSame DEF OthersStay
  <2>3. /\ arrivedAt' = IF how = "arrived" THEN arrivedAt \cup ts ELSE arrivedAt
        /\ endedAt' = IF how \in {"ended", "expired"} THEN endedAt \cup ts ELSE endedAt
    BY <1>4 DEF Commits, Finish
  <2>4. AloneUnlessRaced' BY <1>i, <2>1, <2>2 DEF AloneUnlessRaced
  <2>5. StillAsChecked'
    <3>1. ASSUME NEW t \in Trip \ raced, NEW r \in Slot \ {s}, Touches(r, t)
          PROVE  status'[t] = status[t]
      BY <1>i, <2>1, <3>1 DEF AloneUnlessRaced
    <3> QED BY <1>i, <2>1, <2>2, <3>1 DEF StillAsChecked
  <2>6. TimesAgree'
    <3>1. ASSUME NEW t \in ts, how = "active" PROVE status[t] = "none"
      <4>1. Touches(s, t) /\ txn[s].kind = "create" BY <1>4, <2>1, <3>1 DEF Commits
      <4> QED BY <4>1 DEF NewTrips
    <3> QED BY <1>i, <2>1, <2>3, <3>1 DEF TimesAgree
  <2>7. FinishesAgree'
    <3>1. ASSUME NEW t \in ts, t \notin raced, how \in {"arrived", "expired"}
          PROVE  t \notin arrivedAt \cup endedAt
      <4>1. Touches(s, t) /\ txn[s].kind \in {"location", "arrive", "read"}
        BY <1>4, <2>1, <3>1 DEF Commits
      <4>2. status[t] = "active" BY <1>i, <3>1, <4>1 DEF StillAsChecked
      <4> QED BY <1>i, <4>2 DEF TimesAgree
    <3> QED BY <1>i, <2>1, <2>3, <3>1 DEF FinishesAgree
  <2> QED BY <2>4, <2>5, <2>6, <2>7 DEF FinishInv
<1>5. ASSUME NEW s \in Slot, StepOf(s) PROVE FinishInv'
  BY <1>2, <1>3, <1>4, <1>5 DEF StepOf
<1> QED BY <1>1, <1>5, StepKinds

LEMMA FinishInvariant == Spec => [](TypeOK /\ ControlOK /\ ActiveInv /\ FinishInv)
<1>1. Init => FinishInv
  BY DEF Init, FinishInv, AloneUnlessRaced, StillAsChecked, TimesAgree, FinishesAgree,
         Touches, Idle
<1>2. TypeOK /\ ControlOK /\ ActiveInv /\ FinishInv /\ [Next]_vars => FinishInv'
  BY FinishStep DEF ActiveInv
<1> QED BY <1>1, <1>2, ActiveInvariant, PTL DEF Spec

\* An arrival stands only on a trip that was not over, and so does an expiry, if
\* no two requests were in progress for the trip.
THEOREM FinishesCorrect == Spec => []FinishesAgree
<1>1. FinishInv => FinishesAgree BY DEF FinishInv
<1> QED BY <1>1, FinishInvariant, PTL

-----------------------------------------------------------------------------
(* The group is told once.                                                 *)

\* Trip t is over, or a request is about to commit what it has told of it.
Telling(t) ==
  \/ \E s \in Slot : txn[s].at = "told" /\ t \in txn[s].on
  \/ status[t] \in {"arrived", "ended", "expired"}

\* Every time but one was rolled back; the one too, if nobody is telling.
ToldFor(t) ==
  /\ told[t] <= undone[t] + 1
  /\ ~ Telling(t) => told[t] <= undone[t]

ToldInv == \A t \in Trip \ raced : ToldFor(t)

LEMMA OneMore ==
  ASSUME NEW m \in Nat, NEW n \in Nat, m <= n
  PROVE  m <= n + 1 /\ m + 1 <= n + 1
OBVIOUS

\* Trips that are neither told of nor given up by this step.
LEMMA ToldSame ==
  ASSUME NEW t \in Trip, ToldFor(t), told'[t] = told[t], undone'[t] = undone[t],
         Telling(t) => Telling(t)'
  PROVE  ToldFor(t)'
BY DEF ToldFor

LEMMA ToldStep ==
  ASSUME TypeOK, ControlOK, ActiveInv, FinishInv, ToldInv, [Next]_vars
  PROVE  ToldInv'
<1>t. told \in [Trip -> Nat] /\ undone \in [Trip -> Nat] BY TypeParts DEF RowsOK
<1>i. AloneUnlessRaced /\ StillAsChecked BY DEF FinishInv
<1>1. CASE Waits
  <2>1. UNCHANGED <<status, txn, raced, told, undone>> BY <1>1 DEF Waits, historyVars, tripVars
  <2> QED BY <2>1 DEF ToldInv, ToldFor, Telling
<1>2. ASSUME NEW s \in Slot, NEW kind \in Kind, NEW ts \in SUBSET Trip, Starts(s, kind, ts),
             NEW t \in Trip \ raced'
      PROVE  ToldFor(t)'
  <2>1. ToldFor(t) BY <1>2 DEF Starts, ToldInv
  <2>2. UNCHANGED <<status, told, undone>> /\ txn[s].at # "told"
    BY <1>2 DEF Starts, tripVars, Idle
  <2>3. Telling(t) => Telling(t)' BY <1>2, <2>2 DEF Starts, OthersStay, Telling
  <2> QED BY <2>1, <2>2, <2>3, ToldSame
<1>3. ASSUME NEW s \in Slot, Moves(s), Goes(s), NEW t \in Trip \ raced' PROVE ToldFor(t)'
  <2>1. ToldFor(t) /\ t \notin raced BY <1>3 DEF Moves, ToldInv
  <2>2. UNCHANGED <<status, undone>> /\ txn[s].at # "told" BY <1>3 DEF Moves, tripVars, Goes
  <2>3. Telling(t) => Telling(t)' BY <1>3, <2>2 DEF Moves, OthersStay, Telling
  <2>4. CASE told'[t] = told[t] BY <2>1, <2>2, <2>3, <2>4, ToldSame
  <2>5. CASE told'[t] # told[t]
    <3>1. /\ txn[s].kind \in {"location", "arrive"} /\ txn'[s].at = "told"
          /\ told' = [told EXCEPT ![On(s)] = told[On(s)] + 1]
      BY <1>3, <2>5 DEF Goes
    <3>2. txn[s].on = {On(s)} /\ txn'[s].on = txn[s].on
      BY <1>3, <3>1, OnIsOne DEF OneTrip, Moves
    <3>3. t = On(s) /\ told'[t] = told[t] + 1 BY <1>t, <2>5, <3>1
    <3>4. Touches(s, t) BY <3>2, <3>3 DEF Touches
    <3>5. status[t] = "active" BY <1>i, <2>1, <3>1, <3>4 DEF StillAsChecked
    <3>6. ~ Telling(t)
      <4>1. \A r \in Slot : t \in txn[r].on => r = s
        BY <1>i, <2>1, <3>4 DEF AloneUnlessRaced, Touches
      <4> QED BY <2>2, <3>5, <4>1 DEF Telling
    <3>7. told[t] <= undone[t] BY <2>1, <3>6 DEF ToldFor
    <3>8. Telling(t)' BY <3>1, <3>2, <3>3 DEF Telling
    <3>9. told[t] \in Nat /\ undone[t] \in Nat BY <1>t
    <3>10. told'[t] <= undone[t] + 1 BY <3>3, <3>7, <3>9, OneMore
    <3> QED BY <2>2, <3>8, <3>10 DEF ToldFor
  <2> QED BY <2>4, <2>5
<1>4. ASSUME NEW s \in Slot, NEW ts \in SUBSET Trip,
             NEW how \in {"active", "arrived", "ended", "expired"}, Commits(s, ts, how),
             NEW t \in Trip \ raced'
      PROVE  ToldFor(t)'
  <2>1. /\ OthersStay(s) /\ UNCHANGED <<raced, told, undone>>
        /\ \A u \in ts : Touches(s, u)
        /\ \A u \in Trip : status'[u] = IF u \in ts THEN how ELSE status[u]
    BY <1>4, CommitRows
  <2>2. ToldFor(t) BY <2>1 DEF ToldInv
  <2>3. CASE t \in ts
    <3>1. CASE how = "active"
      <4>1. txn[s].kind = "create" /\ txn[s].at = "announced" /\ status[t] = "none"
        BY <1>4, <2>1, <2>3, <3>1 DEF Commits, ActiveInv, NewTrips
      <4>2. Telling(t) => Telling(t)' BY <2>1, <4>1 DEF Telling, OthersStay
      <4> QED BY <2>1, <2>2, <4>2, ToldSame
    <3>2. CASE how # "active"
      <4>1. Telling(t)' BY <2>1, <2>3, <3>2 DEF Telling
      <4> QED BY <2>1, <2>2, <4>1, ToldSame
    <3> QED BY <3>1, <3>2
  <2>4. CASE t \notin ts
    <3>1. txn[s].at = "told" => t \notin txn[s].on BY <1>4, <2>4 DEF Commits
    <3>2. Telling(t) => Telling(t)' BY <2>1, <2>4, <3>1 DEF Telling, OthersStay
    <3> QED BY <2>1, <2>2, <3>2, ToldSame
  <2> QED BY <2>3, <2>4
<1>5. ASSUME NEW s \in Slot, Rollback(s), NEW t \in Trip \ raced' PROVE ToldFor(t)'
  <2>1. OthersStay(s) /\ UNCHANGED <<status, raced, told>>
    BY <1>5, RollbackKeeps DEF tripVars
  <2>2. ToldFor(t) BY <2>1 DEF ToldInv
  <2>3. \/ txn[s].at # "told" /\ UNCHANGED undone
        \/ /\ txn[s].at = "told" /\ txn[s].on = {On(s)}
           /\ undone' = [undone EXCEPT ![On(s)] = undone[On(s)] + 1]
    BY <1>5, RollbackRows, TypeParts
  <2>4. CASE txn[s].at = "told" /\ t \in txn[s].on
    <3>1. undone'[t] = undone[t] + 1 BY <1>t, <2>3, <2>4
    <3>2. told[t] <= undone[t] + 1 BY <2>2 DEF ToldFor
    <3>3. told[t] \in Nat /\ undone[t] \in Nat BY <1>t
    <3>4. told'[t] <= undone'[t] /\ told'[t] <= undone'[t] + 1
      BY <2>1, <3>1, <3>2, <3>3, OneMore
    <3> QED BY <3>4 DEF ToldFor
  <2>5. CASE ~ (txn[s].at = "told" /\ t \in txn[s].on)
    <3>1. undone'[t] = undone[t] BY <1>t, <2>3, <2>5
    <3>2. Telling(t) => Telling(t)' BY <2>1, <2>5 DEF Telling, OthersStay
    <3> QED BY <2>1, <2>2, <3>1, <3>2, ToldSame
  <2> QED BY <2>4, <2>5
<1>6. ASSUME NEW s \in Slot, StepOf(s) PROVE ToldInv'
  BY <1>2, <1>3, <1>4, <1>5, <1>6 DEF StepOf, ToldInv
<1> QED BY <1>1, <1>6, StepKinds

\* The group is told of an arrival once, but for rollbacks after it was told, if
\* no two requests were in progress for the trip.
THEOREM ToldCorrect == Spec => []ToldOfOneArrival
<1>1. Init => ToldInv BY DEF Init, ToldInv, ToldFor
<1>2. TypeOK /\ ControlOK /\ ActiveInv /\ FinishInv /\ ToldInv /\ [Next]_vars => ToldInv'
  BY ToldStep
<1>3. TypeOK /\ ToldInv => ToldOfOneArrival
  <2> SUFFICES ASSUME TypeOK, ToldInv, NEW t \in Trip \ raced PROVE told[t] <= 1 + undone[t]
    BY DEF ToldOfOneArrival
  <2>1. told[t] <= undone[t] + 1 BY DEF ToldInv, ToldFor
  <2>2. told[t] \in Nat /\ undone[t] \in Nat BY TypeParts DEF RowsOK
  <2> QED BY <2>1, <2>2
<1> QED BY <1>1, <1>2, <1>3, FinishInvariant, PTL DEF Spec

-----------------------------------------------------------------------------
(* Arrivals by position.                                                   *)

LocksExclude == \A r, s \in Slot : r # s => held[r] \cap held[s] = {}

\* The rows that a request has written it holds.
Locked ==
  \A s \in Slot :
    /\ txn[s].at \in {"written", "told", "untold"} => txn[s].on \subseteq held[s]
    /\ txn[s].kind = "location" /\ txn[s].moved /\ txn[s].at # "checked"
       => txn[s].on \subseteq held[s]

ExactInv == LocksExclude /\ Locked /\ ArrivalByPositionIsExact


\* What the other requests may go on relying on, whatever the one in slot s does.
LEMMA ExactOthers ==
  ASSUME TypeOK, ControlOK, NewTrips, ExactInv, NEW s \in Slot,
         OthersStay(s), held'[s] \subseteq held[s] \cup (Trip \ UNION {held[r] : r \in Slot \ {s}}),
         \A t \in Trip : t \notin held[s] /\ status[t] # "none" => status'[t] = status[t],
         NEW r \in Slot \ {s}
  PROVE  /\ held'[r] \cap held'[s] = {} /\ held'[s] \cap held'[r] = {}
         /\ /\ txn'[r].at \in {"written", "told", "untold"} => txn'[r].on \subseteq held'[r]
            /\ txn'[r].kind = "location" /\ txn'[r].moved /\ txn'[r].at # "checked"
               => txn'[r].on \subseteq held'[r]
         /\ /\ txn'[r].kind = "location" /\ txn'[r].moved
            /\ txn'[r].at \in {"arriving", "written", "told", "untold"}
            => status'[On(r)'] = "active"
<1>1. txn'[r] = txn[r] /\ held'[r] = held[r] /\ On(r)' = On(r) BY TouchesSame DEF OthersStay
<1>2. held'[r] \cap held'[s] = {} /\ held'[s] \cap held'[r] = {}
  <2>1. held[r] \cap held[s] = {} /\ held[s] \cap held[r] = {} BY DEF ExactInv, LocksExclude
  <2> QED BY <1>1, <2>1
<1>3. ASSUME txn[r].kind = "location", txn[r].moved,
             txn[r].at \in {"arriving", "written", "told", "untold"}
      PROVE  status'[On(r)] = "active"
  <2>1. status[On(r)] = "active" BY <1>3 DEF ExactInv, ArrivalByPositionIsExact
  <2>2. On(r) \in Trip /\ txn[r].on = {On(r)} BY <1>3, OnIsOne DEF OneTrip
  <2>3. On(r) \in held[r] BY <1>3, <2>2 DEF ExactInv, Locked
  <2>4. On(r) \notin held[s] BY <2>3 DEF ExactInv, LocksExclude
  <2> QED BY <2>1, <2>2, <2>4
<1> QED BY <1>1, <1>2, <1>3 DEF ExactInv, Locked

LEMMA ExactStep ==
  ASSUME TypeOK, ControlOK, NewTrips, ExactInv, [Next]_vars
  PROVE  ExactInv'
<1>t. TxnOK BY TypeParts
<1>i. LocksExclude /\ Locked /\ ArrivalByPositionIsExact BY DEF ExactInv
<1>1. CASE Waits
  <2>1. UNCHANGED <<status, txn, held>> BY <1>1 DEF Waits, tripVars
  <2> QED BY <2>1 DEF ExactInv, LocksExclude, Locked, ArrivalByPositionIsExact, On
<1> DEFINE Mine(s) ==
      /\ held'[s] \subseteq held[s] \cup (Trip \ UNION {held[r] : r \in Slot \ {s}})
      /\ \A t \in Trip : t \notin held[s] /\ status[t] # "none" => status'[t] = status[t]
      /\ txn'[s].at \in {"written", "told", "untold"} => txn'[s].on \subseteq held'[s]
      /\ txn'[s].kind = "location" /\ txn'[s].moved /\ txn'[s].at # "checked"
         => txn'[s].on \subseteq held'[s]
      /\ /\ txn'[s].kind = "location" /\ txn'[s].moved
         /\ txn'[s].at \in {"arriving", "written", "told", "untold"}
         => status'[On(s)'] = "active"
<1>2. ASSUME NEW s \in Slot, OthersStay(s), Mine(s) PROVE ExactInv'
  <2>1. ASSUME NEW r \in Slot \ {s}
        PROVE  /\ held'[r] \cap held'[s] = {} /\ held'[s] \cap held'[r] = {}
               /\ /\ txn'[r].at \in {"written", "told", "untold"} => txn'[r].on \subseteq held'[r]
                  /\ txn'[r].kind = "location" /\ txn'[r].moved /\ txn'[r].at # "checked"
                     => txn'[r].on \subseteq held'[r]
               /\ /\ txn'[r].kind = "location" /\ txn'[r].moved
                  /\ txn'[r].at \in {"arriving", "written", "told", "untold"}
                  => status'[On(r)'] = "active"
    BY <1>2, ExactOthers
  <2>2. LocksExclude' BY <1>i, <1>2, <2>1 DEF LocksExclude, OthersStay
  <2>3. Locked' BY <1>2, <2>1 DEF Locked
  <2>4. ArrivalByPositionIsExact' BY <1>2, <2>1 DEF ArrivalByPositionIsExact
  <2> QED BY <2>2, <2>3, <2>4 DEF ExactInv
<1>3. ASSUME NEW s \in Slot, NEW kind \in Kind, NEW ts \in SUBSET Trip, Starts(s, kind, ts)
      PROVE  Mine(s)
  BY <1>3 DEF Starts, tripVars
<1>4. ASSUME NEW s \in Slot, Moves(s), Goes(s) PROVE Mine(s)
  <2>1. held'[s] \subseteq held[s] \cup (Trip \ UNION {held[r] : r \in Slot \ {s}})
    <3>1. held'[s] \subseteq Trip BY <1>t, <1>4 DEF Moves, Request, TxnOK
    <3>2. \A r \in Slot \ {s} : (held'[s] \ held[s]) \cap held[r] = {} BY <1>4 DEF Moves
    <3> QED BY <3>1, <3>2
  <2>2. UNCHANGED status /\ held[s] \subseteq held'[s] /\ txn'[s].kind = txn[s].kind
        /\ txn'[s].moved = txn[s].moved /\ txn'[s].on \subseteq txn[s].on
    BY <1>4 DEF Moves, tripVars
  <2>3. txn'[s].at \in {"written", "told", "untold"} => txn'[s].on \subseteq held'[s]
    <3>1. txn[s].at = "written" => txn[s].on \subseteq held[s] BY <1>i DEF Locked
    <3> QED BY <1>4, <2>2, <3>1 DEF Goes
  <2>4. CASE txn[s].kind = "location" /\ txn[s].moved
    <3>1. txn[s].at # "checked" => txn[s].on \subseteq held[s] BY <1>i, <2>4 DEF Locked
    <3>2. txn'[s].at # "checked" => txn'[s].on \subseteq held'[s]
      BY <1>4, <2>2, <2>4, <3>1 DEF Goes
    <3>3. On(s)' = On(s) BY <1>4, <2>4, TouchesLess DEF OneTrip
    <3>4. txn[s].at \in {"arriving", "written"} => status[On(s)] = "active"
      BY <1>i, <2>4 DEF ArrivalByPositionIsExact
    <3>5. txn'[s].at \in {"arriving", "written", "told", "untold"} => status[On(s)] = "active"
      BY <1>4, <2>4, <3>4 DEF Goes
    <3> QED BY <2>1, <2>2, <2>3, <3>2, <3>3, <3>5
  <2>5. CASE ~ (txn[s].kind = "location" /\ txn[s].moved) BY <2>1, <2>2, <2>3, <2>5
  <2> QED BY <2>4, <2>5
<1>5. ASSUME NEW s \in Slot, NEW ts \in SUBSET Trip,
             NEW how \in {"active", "arrived", "ended", "expired"}, Commits(s, ts, how)
      PROVE  Mine(s)
  <2>0. held'[s] = {} BY <1>5, <1>t, EndTxn DEF Commits, Finish
  <2>1. /\ txn'[s].kind = "idle" /\ txn'[s].at = "start"
        /\ \A t \in ts : Touches(s, t)
        /\ \A t \in Trip : status'[t] = IF t \in ts THEN how ELSE status[t]
    BY <1>5, CommitRows
  <2>2. ASSUME NEW t \in ts PROVE t \in held[s] \/ status[t] = "none"
    <3>1. CASE txn[s].kind = "create" BY <2>1, <3>1 DEF NewTrips
    <3>2. CASE txn[s].kind # "create" BY <1>5, <1>i, <3>2 DEF Commits, Locked
    <3> QED BY <3>1, <3>2
  <2> QED BY <2>0, <2>1, <2>2
<1>6. ASSUME NEW s \in Slot, Rollback(s) PROVE Mine(s)
  BY <1>6, <1>t, RollbackKeeps, EndTxn DEF Rollback, tripVars
<1> HIDE DEF Mine
<1>7. ASSUME NEW s \in Slot, StepOf(s) PROVE OthersStay(s) /\ Mine(s)
  <2>1. ASSUME NEW kind \in Kind, NEW ts \in SUBSET Trip, Starts(s, kind, ts)
        PROVE  OthersStay(s) /\ Mine(s)
    BY <2>1, <1>3 DEF Starts
  <2>2. CASE Moves(s) /\ Goes(s) BY <2>2, <1>4 DEF Moves
  <2>3. ASSUME NEW ts \in SUBSET Trip, NEW how \in {"active", "arrived", "ended", "expired"},
               Commits(s, ts, how)
        PROVE  OthersStay(s) /\ Mine(s)
    BY <2>3, <1>5, CommitRows
  <2>4. CASE Rollback(s) BY <2>4, <1>6, RollbackKeeps
  <2> QED BY <1>7, <2>1, <2>2, <2>3, <2>4 DEF StepOf
<1>8. ASSUME NEW s \in Slot, StepOf(s) PROVE ExactInv' BY <1>2, <1>7, <1>8
<1> QED BY <1>1, <1>8, StepKinds

\* A traveler who has moved arrives by position only on a trip that is active.
THEOREM ExactCorrect == Spec => []ArrivalByPositionIsExact
<1>1. Init => ExactInv
  BY DEF Init, ExactInv, LocksExclude, Locked, ArrivalByPositionIsExact, Idle
<1>2. TypeOK /\ ControlOK /\ ActiveInv /\ ExactInv /\ [Next]_vars => ExactInv'
  BY ExactStep DEF ActiveInv
<1>3. ExactInv => ArrivalByPositionIsExact BY DEF ExactInv
<1> QED BY <1>1, <1>2, <1>3, ActiveInvariant, PTL DEF Spec
=============================================================================
