------------------------------ MODULE TripWatch ------------------------------
(***************************************************************************)
(* TripService: the trip watches of one traveler, written by the           *)
(* traveler's requests (create, update_location, arrive, end) and by       *)
(* everybody's reads, which expire a watch that has run out. A request is  *)
(* one database transaction: what it reads is not locked, the first        *)
(* UPDATE of a row waits for other writers of it and then overwrites the   *)
(* columns that the request has changed.                                   *)
(***************************************************************************)
EXTENDS Integers, FiniteSets, FiniteSetsExt

CONSTANTS
  Slot,          \* requests in progress at the same time
  MaxTrips,      \* bound: trips created
  MaxRequests    \* bound: requests that start

ASSUME TripAssumption == MaxTrips \in Nat /\ MaxRequests \in Nat

Trip == 1..MaxTrips     \* numbered in the order of started_at

VARIABLES
  status,       \* trips.status of committed trips
  arrivedAt,    \* trips whose arrived_at is set
  endedAt,      \* trips whose ended_at is set
  due,          \* trips past their expires_at
  txn,          \* the request each slot is serving
  held,         \* trips whose row its transaction has updated
  created,      \* trips for which a create has begun
  requests,     \* history: requests started
  overlapped,   \* history: pairs of trips whose creations overlapped
  raced,        \* history: trips on which two requests were in progress at once
  told,         \* history: trip_arrived jobs pushed, per trip
  undone        \* history: requests rolled back after that push, per trip

tripVars == <<status, arrivedAt, endedAt>>
historyVars == <<overlapped, raced, told, undone>>
vars == <<tripVars, due, txn, held, created, requests, historyVars>>

Kind == {"create", "location", "arrive", "end", "read"}
Idle == [kind |-> "idle", at |-> "start", on |-> {}, moved |-> FALSE]

Init ==
  /\ status = [t \in Trip |-> "none"]
  /\ arrivedAt = {} /\ endedAt = {} /\ due = {}
  /\ txn = [s \in Slot |-> Idle]
  /\ held = [s \in Slot |-> {}]
  /\ created = 0 /\ requests = 0
  /\ overlapped = {} /\ raced = {}
  /\ told = [t \in Trip |-> 0]
  /\ undone = [t \in Trip |-> 0]

-----------------------------------------------------------------------------
(* Transactions.                                                           *)

Active == {t \in Trip : status[t] = "active"}
On(s) == CHOOSE t \in txn[s].on : TRUE        \* of a request on a single trip

\* A request on the trips ts has read what it decides on, and nothing else yet.
Begin(s, kind, ts, moved) ==
  /\ txn[s] = Idle /\ requests < MaxRequests
  /\ requests' = requests + 1
  /\ txn' = [txn EXCEPT ![s] = [kind |-> kind, at |-> "checked", on |-> ts, moved |-> moved]]
  /\ raced' = raced \cup UNION {ts \cap (txn[r].on \cup held[r]) : r \in Slot}
  /\ UNCHANGED <<tripVars, due, held, told, undone>>

\* Any request but a create.
Check(s, kind, ts, moved) == Begin(s, kind, ts, moved) /\ UNCHANGED <<created, overlapped>>

At(s, kind, at) == txn[s].kind = kind /\ txn[s].at = at
To(s, at) == txn' = [txn EXCEPT ![s].at = at]

\* An UPDATE of the rows ts waits for other writers and keeps them waiting.
Lock(s, ts) ==
  /\ \A r \in Slot \ {s} : ts \cap held[r] = {}
  /\ held' = [held EXCEPT ![s] = @ \cup ts]

\* The request goes on to `at`, its first UPDATE of ts behind it.
Step(s, ts, at) ==
  /\ Lock(s, ts)
  /\ To(s, at)
  /\ UNCHANGED <<tripVars, due, created, requests, historyVars>>

\* Mutant of End: the rows stay locked, as if the session were never closed.
EndBUG(s) == txn' = [txn EXCEPT ![s] = Idle] /\ UNCHANGED held

End(s) == txn' = [txn EXCEPT ![s] = Idle] /\ held' = [held EXCEPT ![s] = {}]

\* The commit of a request that has set the status of ts, and a time with it.
Finish(s, ts, how) ==
  /\ status' = [t \in Trip |-> IF t \in ts THEN how ELSE status[t]]
  /\ arrivedAt' = IF how = "arrived" THEN arrivedAt \cup ts ELSE arrivedAt
  /\ endedAt' = IF how \in {"ended", "expired"} THEN endedAt \cup ts ELSE endedAt
  /\ End(s)
  /\ UNCHANGED <<due, created, requests, overlapped, raced, told, undone>>

\* An error: nothing is kept of the request but what it has told others.
Rollback(s) ==
  /\ txn[s] # Idle
  /\ undone' = IF txn[s].at = "told" THEN [undone EXCEPT ![On(s)] = @ + 1] ELSE undone
  /\ End(s)
  /\ UNCHANGED <<tripVars, due, created, requests, overlapped, raced, told>>

-----------------------------------------------------------------------------
(* create, and time.                                                       *)

Create(s) ==
  /\ created < MaxTrips /\ created' = created + 1
  /\ Begin(s, "create", {created + 1}, FALSE)
  /\ overlapped' = overlapped \cup
       {{created + 1, On(r)} : r \in {x \in Slot : txn[x].kind = "create"}}

\* Mutant of CreateCheck: no look at the traveler's other watches.
CreateCheckBUG(s) == Create(s)

\* A watch that has run out and that nobody has read since is active here: it
\* stands in the way of a new one.
CreateCheck(s) == Active = {} /\ Create(s)

CreateInsert(s) == At(s, "create", "checked") /\ Step(s, txn[s].on, "inserted")

\* The group's job goes straight to Redis, with the trip not yet committed; an
\* error of Redis is swallowed. No state here tells the two apart.
CreateTell(s) == At(s, "create", "inserted") /\ Step(s, {}, "announced")

CreateCommit(s) ==
  /\ At(s, "create", "announced")
  /\ Finish(s, txn[s].on, "active")

\* expires_at passes.
BecomeDue(t) ==
  /\ status[t] # "none" /\ t \notin due
  /\ due' = due \cup {t}
  /\ UNCHANGED <<tripVars, txn, held, created, requests, historyVars>>

-----------------------------------------------------------------------------
(* arrive, and update_location, which arrives when it is close enough.     *)

\* Mutant of ArriveCheck: any trip may arrive.
ArriveCheckBUG(s, t) == status[t] # "none" /\ Check(s, "arrive", {t}, FALSE)

\* Neither looks at expires_at.
ArriveCheck(s, t) == status[t] = "active" /\ Check(s, "arrive", {t}, FALSE)

\* The throttle's memory is the service's, which is made anew for each request:
\* it refuses nothing.
LocationCheck(s, t, moved) == status[t] = "active" /\ Check(s, "location", {t}, moved)

\* A position equal to the stored one updates no row.
LocationSave(s) ==
  /\ At(s, "location", "checked")
  /\ Step(s, IF txn[s].moved THEN txn[s].on ELSE {}, "saved")

\* Mutant of LocationArrives: the trip is not read again after the write.
LocationArrivesBUG(s) == At(s, "location", "saved") /\ Step(s, {}, "arriving")

\* Within the arrival radius: arrive checks the trip as it was read again after
\* the write, with its row locked if the traveler has moved.
LocationArrives(s) ==
  /\ At(s, "location", "saved")
  /\ status[On(s)] = "active"
  /\ Step(s, {}, "arriving")

\* Elsewhere: the position alone is committed.
LocationCommit(s) ==
  /\ At(s, "location", "saved")
  /\ Finish(s, {}, "active")

ArriveWrite(s) ==
  /\ At(s, "arrive", "checked") \/ At(s, "location", "arriving")
  /\ Step(s, txn[s].on, "written")

\* The group's job goes straight to Redis; an error of Redis is swallowed.
ArriveTell(s) ==
  /\ At(s, "arrive", "written") \/ At(s, "location", "written")
  /\ \/ told' = [told EXCEPT ![On(s)] = @ + 1] /\ To(s, "told")
     \/ UNCHANGED told /\ To(s, "untold")
  /\ UNCHANGED <<tripVars, due, held, created, requests, overlapped, raced, undone>>

ArriveCommit(s) ==
  /\ txn[s].at \in {"told", "untold"}
  /\ Finish(s, txn[s].on, "arrived")

-----------------------------------------------------------------------------
(* end, of an active or an arrived trip; of any other it does nothing.     *)

EndCheck(s, t) == status[t] \in {"active", "arrived"} /\ Check(s, "end", {t}, FALSE)
EndWrite(s) == At(s, "end", "checked") /\ Step(s, txn[s].on, "written")
EndCommit(s) ==
  At(s, "end", "written") /\ Finish(s, txn[s].on, "ended")

-----------------------------------------------------------------------------
(* get and get_active_mine read one trip, list_active_for_group the active *)
(* ones, newest first; each is expired if it has run out.                  *)

\* Mutant of ReadCheck: a trip is looked at whatever its status.
ReadCheckBUG(s, ts) == (\A t \in ts : status[t] # "none") /\ Check(s, "read", ts, FALSE)

ReadCheck(s, ts) == ts \subseteq Active /\ Check(s, "read", ts, FALSE)

\* The next trip of the list is updated if it has run out by now, passed over if
\* not.
ReadNext(s) ==
  /\ At(s, "read", "checked") /\ txn[s].on # {}
  /\ LET t == Max(txn[s].on) IN
       /\ Lock(s, {t} \cap due)
       /\ txn' = [txn EXCEPT ![s].on = @ \ {t}]
  /\ UNCHANGED <<tripVars, due, created, requests, historyVars>>

\* Mutant of ReadCommit: the row is saved with the status that was read.
ReadCommitBUG(s) ==
  /\ At(s, "read", "checked") /\ txn[s].on = {}
  /\ Finish(s, held[s], "active")

ReadCommit(s) ==
  /\ At(s, "read", "checked") /\ txn[s].on = {}
  /\ Finish(s, held[s], "expired")

-----------------------------------------------------------------------------
Arrive(s) ==
  \/ CreateCheck(s)
  \/ \E t \in Trip :
       \/ ArriveCheck(s, t) \/ EndCheck(s, t)
       \/ \E moved \in BOOLEAN : LocationCheck(s, t, moved)
  \/ \E ts \in {{t} : t \in Trip} \cup {Active} : ReadCheck(s, ts)

Proceed(s) ==
  \/ CreateInsert(s) \/ CreateTell(s) \/ CreateCommit(s)
  \/ LocationSave(s) \/ LocationArrives(s) \/ LocationCommit(s)
  \/ ArriveWrite(s) \/ ArriveTell(s) \/ ArriveCommit(s)
  \/ EndWrite(s) \/ EndCommit(s)
  \/ ReadNext(s) \/ ReadCommit(s)

Next ==
  \/ \E s \in Slot : Arrive(s) \/ Proceed(s) \/ Rollback(s)
  \/ \E t \in Trip : BecomeDue(t)

Spec == Init /\ [][Next]_vars

\* The event loop runs every request on; nothing makes one start or fail.
FairSpec == Spec /\ \A s \in Slot : WF_vars(Proceed(s))

-----------------------------------------------------------------------------
(* Properties.                                                             *)

TypeOK ==
  /\ status \in [Trip -> {"none", "active", "arrived", "ended", "expired"}]
  /\ arrivedAt \subseteq Trip /\ endedAt \subseteq Trip /\ due \subseteq Trip
  /\ txn \in [Slot -> {Idle} \cup
                [kind : Kind,
                 at : {"checked", "inserted", "announced", "saved", "arriving", "written",
                       "told", "untold"},
                 on : SUBSET Trip, moved : BOOLEAN]]
  /\ held \in [Slot -> SUBSET Trip]
  /\ \A s \in Slot : txn[s] = Idle => held[s] = {}
  /\ created \in 0..MaxTrips /\ requests \in 0..MaxRequests
  /\ overlapped \subseteq SUBSET Trip /\ raced \subseteq Trip
  /\ told \in [Trip -> Nat] /\ undone \in [Trip -> Nat]

\* The traveler has one active watch, unless two creations overlapped: each looked
\* for a watch before the other had committed its own.
OneActiveUnlessOverlapping ==
  \A t, u \in Active : t # u => {t, u} \in overlapped

\* An arrival stands only on a trip that had not been ended or expired, and an
\* expiry only on one that had not arrived, unless requests raced for the trip.
FinishesAgree ==
  \A t \in Trip \ raced :
    /\ status[t] = "arrived" => t \notin endedAt
    /\ status[t] = "expired" => t \notin arrivedAt

\* The group is told of an arrival once, but for races and for arrivals that
\* were rolled back after it was told.
ToldOfOneArrival ==
  \A t \in Trip \ raced : told[t] <= 1 + undone[t]

\* A traveler who has moved arrives by position only on a trip that is active, even
\* if others end or expire it meanwhile: the second look is under the row's lock.
ArrivalByPositionIsExact ==
  \A s \in Slot :
    /\ txn[s].kind = "location" /\ txn[s].moved
    /\ txn[s].at \in {"arriving", "written", "told", "untold"}
    => status[On(s)] = "active"

\* A watch that is over is never active again, whatever was read while it was.
NeverActiveAgain ==
  [][\A t \in Trip : status[t] \in {"arrived", "ended", "expired"} =>
       status'[t] \in {"arrived", "ended", "expired"}]_vars

\* Requests that lock several trips, one after the other, do not wait for each
\* other for ever.
EveryRequestEnds == \A s \in Slot : txn[s] # Idle ~> txn[s] = Idle
=============================================================================
