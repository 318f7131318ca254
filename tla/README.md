# Formal models of the YouHoo Alert API

TLA+ models of `src/`, the FastAPI backend of an emergency-alert app, with TLC
configurations that check them on small instances and TLAPS proofs for all
instances. The models are written from the code; where a comment or the
repository's README says something else, a run shows the difference.

    tlc -workers 2 -config queue_workers.cfg MCNotificationQueue.tla
    tlapm SosDeliveryProofs.tla

## 1. The system and its components

A user raises an **SOS alert**; the API stores it in PostgreSQL, picks the
recipients among the members of the user's circles, and a **worker loop** pushes
it to their devices through Expo. Recipients answer, positions are shared live
over WebSockets, the creator resolves the alert. **Trip watches** tell a circle
about a journey. Everything runs in asyncio: a component can be interrupted at
every `await`, several API processes and standalone workers share one database
and one Redis.

    create_alert --(one transaction)--> alerts, alert_recipients, notification_outbox
        |  background flush                               ^ pending rows
        v                                                 |
    drain_pending (flush of every request, loop of every worker)
        |  RPUSH                                          respond, trips: RPUSH directly
        v                                                 v
    Redis: notifications:queue --BRPOPLPUSH--> :processing --(3 failures)--> :dlq
                                     |                                       ^ |
                                     v                      recover_dlq.py --+-+
                               _process -> Expo, alert_recipients, device_tokens

| Component (source under `src/app`) | State | Operations | Hard behaviour | What makes it correct |
|---|---|---|---|---|
| Notification queue, worker loop (`services/notification_queue.py`, `workers/notification_worker.py`, `scripts/recover_dlq.py`) | three Redis lists, the job each worker holds | enqueue, dequeue, ack, retry or dead-letter, recover, requeue, clear; start, stop | stops between two Redis commands, Redis outages, lost replies, a second worker starting, the script beside the workers | no job lost, none multiplied, dead-lettered only when its attempts are used up, each settled in the end |
| Outbox (`services/notification_outbox.py`, `notification_flush.py`, `db/session.py`) | `notification_outbox` rows, the session of each drainer | enqueue_in_transaction, commit, rollback, drain_pending | drainers read the same rows without locks; push before commit; errors swallowed | nothing pushed for an alert that does not exist; everything committed is pushed; few duplicates |
| SOS delivery (`notification_worker._process`, `services/expo_push_service.py`) | `alert_recipients.delivery_status`, `device_tokens`, progress of each handler | token lookup, chunked posts, marking, clean-up of dead tokens, failure path | failures between marks, retries after partial sends, two copies of one job | statuses tell the truth; every recipient gets one; bounded repeats |
| Alert lifecycle (`services/alert_service.py`) | `alerts`, `alert_responses`, `alert_location_updates` | create, respond, update_location, resolve | checks read committed rows, writes come later; told before committed | one response each, what the creator heard is stored, cooldown, a resolved alert stays so |
| Trip watches (`services/trip_service.py`) | `trips` | create, update_location (may arrive), arrive, end, reads that expire | last writer wins; automatic arrival; lists that write several rows | one active watch, a finished one stays finished, one arrival told |
| Routing (`services/routing_service.py`, the fallbacks of `alert_service.create`, `common/emergency_types.py`, `skills.py`) | what the request's session has loaded | build_recipients, two fallbacks | queries that see different states; rows loaded once and used later | whoever can be called throughout is called; nobody without a cause |
| Live channel (`websocket/manager.py`) | sockets per alert, Redis subscription, listener task | connect, disconnect, broadcast, fan-out, start, stop | own messages come back; clients hang up during a send; the listener dies | who is registered when a message sets out gets it, once each way, in order |
| Circles, invites, directory (`services/group_service.py`, `group_invite_helpers.py`, `contact_service.py`, `repositories/group_repository.py`) | groups, members, pending invites | create, update, add, remove, invite, accept, decline, set_member_groups, assign_invite_groups | check-then-insert races, duplicates that break later lookups, roles read earlier | one pending invite per person; an answer and a membership agree; owners stay |
| Phone identity (`services/identity_service.py`) | users, one-time-code sessions, phone invites, trusted contacts | log in, verify, invite, accept, link | error paths that roll back what they report as done; inserts without a look-up | an accepted invite has its contacts |
| Schema (`alembic/versions`, `models`) | tables, columns, indexes, constraints; stored emergency types | upgrade, downgrade, writes between them | data migrations, constraints over old rows, any sequence of commands | one schema per revision, the one the models need; no circle widened |
| Authentication and devices (`services/auth_service.py`, `core/security.py`, `services/token_revocation.py`) | refresh tokens, devices, Redis denylist | register, log in, refresh, register_device | a device that changes hands | a token belongs to one user |
| The rest: routers and schemas, rate limiting, settings, diagnostics, legacy store, donations, SMS, scripts | | | | thin, stateless, read-only, off by default or external |

`PROJECT.json` lists every component with its status, and under `hazards` each
thing in this code that is hard to test, at its line, with the properties that
would notice it.

## 2. The modules

| Module | Models | Extends |
|---|---|---|
| `NotificationQueue` | the Redis lists, all workers, the operator's script, outages and stops | |
| `JobLifecycle` | abstract: what the queue promises for one payload | |
| `SosDelivery` | `_process` for `alert_created`, every await a step | `NotificationQueue` |
| `NotificationOutbox` | `create_alert`'s transaction, drainers, commits | |
| `AlertLifecycle` | create, respond, update_location, resolve as transactions | |
| `TripWatch` | trips as transactions | |
| `SosRouting` | whom an SOS goes to, query by query, while circles change | |
| `Circles` | circles, invites, directory, phone invites and sign-in as transactions | |
| `LiveChannel` | the WebSocket managers of several processes and their fan-out | |
| `SchemaHistory` | thirteen revisions up and down, and the rows they rewrite | |
| `SosDeliveryProofs`, `NotificationOutboxProofs`, `AlertLifecycleProofs`, `TripWatchProofs`, `CirclesProofs`, `LiveChannelProofs`, `SosRoutingProofs`, `SchemaHistoryProofs` | theorems; those of `NotificationQueue` are in `SosDeliveryProofs`, too | the module they name |
| `MC*` | instances for TLC | the module they name |

Operators named `...BUG` stand before the definition they are a broken variant
of; no specification uses them. They are there to show that each property can
fail: with the variant in place of the definition, TLC finds it violated.

### NotificationQueue

`queue`, `processing` and `dlq` are the Redis lists, head first; a list command
is one action. A worker's `step` is where its coroutine waits and `hand` is the
payload it holds in memory, with `_attempts`:

    stopped -Start-> recovering -Recover*-> idle -Dequeue-> delivering
    delivering -HandleOk-> delivered -Ack-> idle
    delivering -HandleFail-> failing -RetryAck-> repush -Retry | MoveToDlq-> idle

`AckFails`, `RetryAckFails`, `RepushFails` and `StartFails` are the same calls
when Redis does not answer: inside `_process` the error leads to `retry_or_dlq`,
outside of it to the log line of `_run`, and `enqueue` swallows it.
`DequeueReplyLost` and `AckReplyLost` are commands that Redis ran though the
connection broke. (A lost reply to any push is the same as a stop or a failure
right after it, which the model has, or repeats nothing, since the code retries
no command.) `Stop` cancels the task at any await: `CancelledError` is not an
`Exception`, so no handler of `_process` runs. `RecoverOne` takes the oldest
entry of `processing`, whoever is handling it; `stolen` counts how often that
was in a worker's hands.

Abstractions. A payload is a model value: entries are equal if payload and
`_attempts` are, as the JSON texts that LREM compares (the added `_attempts`
keeps the text distinct per attempt). `_attempts` stops at the limit, because
the code only compares it. A Redis that loses its data is not modelled, an
unreachable one is.

### JobLifecycle

A payload is new, pending, delivered, dead, discarded or lost; only a fault
loses one, and delivery is final. `KeepsTheLifecycle` is the refinement, for
payloads enqueued once, with `FateOf` as the mapping.

### SosDelivery

The handler of `NotificationQueue` taken apart: `sub` is the await it is at,
`found`, `rest`, `stale` are its local variables, `status` is
`alert_recipients.delivery_status`, `tokens` is `device_tokens`. A post may be
taken, refused, or taken without an answer. Marks are transactions of their own.
Its last step is `HandleOk` or `HandleFail` of the queue, and `retry_or_dlq`
comes before the recipients are marked failed, as in the code: another worker
may have the job by then. `Owner` gives each token to one user (the column is
unique); non-Expo tokens are never posted, and their owners are still marked
delivered.

### NotificationOutbox

`request` is the transaction of a `create_alert`, `row` the committed row,
`drain`, `todo` and `done` a drainer's session: the rows it has read and not
pushed, a set because their order, that of `created_at`, is known from `begun`
(`Oldest`), and those it has pushed. Every request has a flush, every worker a
loop. `create_alert` schedules the flush, `get_db` commits; which of
them is first depends on the FastAPI release (only `>=0.115.0` is required), so
both orders are possible. `created_at` is the start of the transaction.

### AlertLifecycle and TripWatch

A slot is a request in progress. `...Check` is what it reads and decides on
(committed rows only: READ COMMITTED, no locks), `...Write` the flush that takes
the row lock and waits for others' (`Write` and `Lock`, from PostgreSQL), `...Tell`
the push to Redis before the commit, `...Commit` the end of `get_db`. `Rollback`
may come at any time; what was told stays told. SQLAlchemy writes only changed
columns, so a commit changes only what the request set. In `TripWatch`,
`update_location` refreshes the trip after its flush and `arrive` decides on
that second look; if the position is the stored one no UPDATE is sent, and the
second look is not under a lock (`moved`). Locks on the user's row are left out
of `TripWatch`: they are taken before the trip's and nothing takes them after.
A `respond` finds the stored answer as its session loaded it with the alert
(`seen`), and sends no UPDATE, and takes no lock, if nothing of it changes;
`heard` is the answer the creator was last told. A trip's creation is inserted,
told to the group and only then committed (`CreateInsert`, `CreateTell`,
`CreateCommit`).
`raced` and `overlapped` remember which requests ran at the same time.
An `end` of an ended or expired trip changes nothing and is no action.
Left out: validation of coordinates, formatting, audit and event rows.

### SosRouting

One request: `req.at` is the query it is about to make, and each action makes it
of what is committed by then (`CheckMember`, `ReadMemberships`, `ReadTypes`,
`ReadPrimary`, `ReadMembers`, then `Rank`, or the fallbacks). Others `Join`,
`Leave`, `Configure` and `Suspend` between the queries. The session's identity
map is part of the model. A user's suspension is the one first loaded (`loaded`,
`barred`), as long as the session has the row: it holds its rows weakly, so the
fallbacks, which come after the routing has returned, may find any of them kept
or read afresh (`FallbackMembers`), and the member list of the chosen circle may
be the one loaded for its name (`primary`) or a new one (`FallbackChosen`).
`Candidates` keeps one row per person, of a circle of
the best priority; rows of equal priority come in an order the query leaves
open. The score is in exact integers, 1500 for 1: `Score` differs from the
code's floating point only where rounding breaks a tie. A chosen circle that does
not match counts with priority 3, whatever its own (`Rating`). `worlds`
remembers every committed state of the request; the properties speak of what
was true throughout it or at some time of it.

Left out: changes of priority and profile during the request. Distances are
given numbers (`haversine_km` is geometry).

### Circles

A slot is a request, as in `AlertLifecycle`: `Create`, `Invite`, ... are its
first reads, `Decide` the later ones, where `...Decide` says what it will write
or `Refused`, and `Commit` writes all of it if no unique constraint objects
(`Violates`). Names of `...Decide` operators follow the services' methods.
Pending invites have no unique constraint, and `scalar_one_or_none` raises on
two: that is `Refused` in `Ensure` and `BringIn`. `account` says what a person has signed
in with; an invite addressed to a phone or an e-mail matches whoever has it by
then. `met` and `joinedBy` remember which requests overlapped on the
same subject, and which invites were accepted by a committed request.

Left out: one-time codes and their sessions, expiry of invites (the status
"expired" is set and rolled back by the error that reports it), unverified phone
numbers, a second account of one person, deletion of groups (there is none),
spelling of titles (compared trimmed, in lower case; a new spelling of its own
name clashes with no circle and changes nothing here), audit rows.

### LiveChannel

One alert. `stage` is how far the endpoint has got with a socket, `channel` is
`_channels`, `run[m]` the request that broadcasts message `m` and `run[p]` the
listener of process `p`, both in `_local_broadcast`: a snapshot of the sockets
(`left`), one `send_json` after the other, then the dead ones dropped. `inbox`
is what Redis has sent to a subscription. Sections under the lock have no await
and are single steps. A `Restart` is the end of a process and its start again.

Left out: what a message says, authentication, and the error of a dead listener
that `stop` raises again (nothing runs in that process any more).

### SchemaHistory

A schema is a set of parts `<<table, name>>`, and a revision the parts its
`upgrade` and `downgrade` drop and add, taken from the `op.` calls. `Upgrade` and
`Downgrade` run any number of revisions in one transaction, as `env.py` does, or
fail. `offends` stands for rows that contradict a constraint still to come,
`types`, `alerts` and `catalog` for stored emergency types: the two codes 011 and
012 retire, `need_pickup`, which replaces them, and `medical` for the other five
of the catalog. The legacy codes that requests may still send are
`pickup_request`, an alias of `need_pickup`, and `medical_help`, for those which
are an alias of another code. `CanonicalCode` is `canonical_code`; the
revisions rewrite by lists of their own, in which the legacy codes are not. Left
out: column types, defaults, foreign keys, and the names and order of catalog
entries.

## 3. The runs

| Run | Question | Bounds | States |
|---|---|---|---|
| `queue_workers` | what may two workers, a stop, an outage, a requeue and a stolen entry never do to two payloads, or to two copies of one? `TypeOK`, `NoLossWithoutFault`, `DeadLettersAreExhausted`, `DuplicatesHaveACause`, `InFlightIsBacked` | 2 payloads, 2 copies in all (constraint `TwoCopies`), 2 workers, 3 attempts, 1 of each fault | 1.7 M |
| `queue_lifecycle` | does one worker with stops, outage and requeue keep `JobLifecycle`, and is every payload settled? `KeepsTheLifecycle`, `EventuallySettled`, `RequeueEndsUnlessRevivedFail` | 2 payloads, 1 worker, 3 attempts, 1 of each fault | 28 k |
| `delivery` | do the recorded statuses tell the truth whatever fails? `DeliveredWasPosted`, `RingsBounded`, `NobodyPendingAfterwards`, `DeadLetterShowsFailed`, `OnlyDeadTokensRemoved` | 1 alert, 2 recipients with a token each, chunks of 1, 2 workers, 2 attempts, 1 theft, 1 fault (constraint `OneFault`: a stop, an outage or a failed database call) | 1.9 M |
| `outbox_drainers` | `OnlyCommittedAlertsPushed`, `PushesBounded`, `EventuallyPublished` with every overlap of drainers | 2 alerts, 2 loops, batch of 1, 1 failed drain, 1 outage | 254 k |
| `alerts` | `OneResponseEach`, `CooldownUnlessOverlapping`, `HeardAnswersAreStored`, `ResolvedIsFinal`, `EveryRequestEnds` with two requests at once | 2 alerts, 1 recipient, 3 answers, 2 slots, 4 requests | 110 k |
| `trips` | `OneActiveUnlessOverlapping`, `FinishesAgree`, `ToldOfOneArrival`, `ArrivalByPositionIsExact`, `NeverActiveAgain`, `EveryRequestEnds` with two requests at once | 2 trips, 2 slots, 5 requests | 168 k |
| `routing` | `StableContactsAreCalled`, `CalledForACause` whatever changes between the queries | 2 others, 2 circles of priority 1 and 5, 2 types, 2 profiles, no cap or 1, 2 changes | 3.6 M |
| `circles` | `DuplicatesHaveACause`, `AnswersAgree`, `PhoneInvitesAgree`, `DirectoryFollowsRequest`, `OwnersLeaveByName` with two requests at once | 2 people, 2 circles, 2 titles, 2 slots, 3 requests, 2 invites, 2 phone invites | 530 k |
| `live` | `OnceEachWayInOrder`, `OwedIsDelivered` with a client that goes away and one fault | 2 processes with a socket each, 2 messages, 1 outage or restart, 1 hang-up | 553 k |
| `schema` | `SchemaIsTheRevisions`, `HeadSpeaksTheSixTypes`, `StuckOnlyForACause`, `OnlyRevision11Reroutes` along any sequence of commands | 13 revisions, 1 circle, any set of 6 codes, 3 writes | 19 k |
| `queue_at_least_once` (violated) | `dequeue` promises at-least-once; a stop between `retry_or_dlq`'s ack and its push loses the job | 1 payload, 1 worker, 1 stop | |
| `outbox_outage` (violated) | the outbox promises reliable delivery; with Redis away a row is marked published and never pushed | 1 alert, 1 loop, 1 outage | |

Why these bounds are enough. The queue's actions touch one entry and one or two
workers: two payloads and two workers give every order of entries in a list and
every overlap of two handlers, a recovery or script beside them, and three
attempts (the code's number) reach the dead-letter list with a retry that is
neither first nor last. Two copies of one payload are equal entries, which an ack
by value can confuse. One fault of each kind, at any place, is what the code's
error paths react to; two in a row repeat them. (`delivery` allows one fault in
all, for the size of its state space; `queue_workers` combines them.) One token per chunk makes the
second post a second chunk. The batch of one makes `limit` bite with two rows.
In the transaction models two slots give every pair of overlapping requests, and
four or five requests allow a pair to race on what earlier ones have left; in
`circles` three do, because its `Init` chooses the accounts and may hold two
phone invites of one person, which would take two requests more.
In `routing` two others are enough for a cap of one to leave somebody out, two
circles for a person to have two rows, and two changes for one to undo what a
query saw and another to change what the next one sees; `MCInit` leaves out
starting points that differ in nothing the properties tell apart. In `live` two
messages can pass each other, two processes hear them in their own time, and one
fault ends either Redis or a process at any step. `schema` has all thirteen
revisions; a revision rewrites each circle by itself, so that one with any set
of codes is enough, and three writes give a circle its types, contradict a
constraint and mend it. In `alerts` a third answer lets an update be overtaken
by another one and repeated.
`MaxStops`, `MaxOutages`, `MaxRequeues`, `MaxThefts`, `MaxFaults`,
`MaxDbFaults`, `MaxPublishes`, `MaxRequests`, `MaxTrips`, `MaxInvites`,
`MaxCodes`, `MaxChanges`, `MaxHangUps` and `MaxWrites` name the bounds; the
proofs need none of them.

`CHECK_DEADLOCK FALSE` is set because the systems stop for good reasons: all
payloads settled, all requests served, all bounds used up; in `schema`, a
database downgraded below 003, which no command gets on from. That nothing hangs
is what the liveness properties are for. Symmetry is used only in runs without
liveness: of payloads and workers, of users with their tokens, of the people,
circles and slots of `Circles` (which all start alike), and of
the others in `SosRouting`, whose profiles `Init` chooses freely.

Fairness. `FairSpec` of the queue assumes that asyncio resumes a started worker,
that the platform restarts a stopped one, that a post to Expo ends (its client
has a timeout of 30 s), and that outages end; not that Expo ever accepts
anything. So a requeue run need not end: `requeue_dlq` loops until the list is
empty, and a job whose attempts are used up falls back into the list as soon as
it fails again. `RequeueEndsUnlessRevivedFail` says that nothing else keeps the
run going. That one goes on for ever TLC shows in a moment when `RequeueEnds` is
made a PROPERTY of `queue_lifecycle.cfg`. `EventuallySettled` is about runs
in which each requeue ends, since one that does not keeps the others waiting.
Nothing forces an
enqueue, an operator or a fault. `FairSpec` of the outbox and of the transaction
models says that a request or drain in progress goes on; none has to start or
to fail. That of `LiveChannel` says that tasks of a process go on, and that a
send ends: a client that does not read is found by the server's ping, and the
send then raises. Clients need not stay, Redis need not come back.

The properties marked "unless overlapping" or "without a fault" say what the code
guarantees, and no more: the cooldown of SOS alerts, the single active watch and
the once-told arrival do not hold for requests that overlap, since each checks
before the other commits. TLC confirms that the exceptions are needed.

Type invariants. `TypeOK` is checked by `queue_workers`; those of the other
modules say what their variables are, and are proved.

### Known differences between the code and what it says

Two have a run of their own (above). Others met on the way:

- The docstring of `dequeue` means that a job in progress keeps its entry in
  `processing`. After an ack whose reply is lost the same LREM is sent again, and
  removes by value: of a payload enqueued twice it takes the other copy's entry
  (`InFlightIsBacked` excepts this, and `queue_workers` reaches it).
- `requeue_dlq` says that it moves all entries to the queue and returns their count
  (`notification_queue.py:188`); while a job keeps failing the same run moves it
  again and again and does not return (`RequeueEndsUnlessRevivedFail`).
- `recover_processing` says it moves orphaned entries (`notification_queue.py:156`);
  it moves every entry of the list, also one a running worker is handling
  (`stolen` counts these, and `DuplicatesHaveACause` needs them as an exception).
- README.md:139 says failures are retried or dead-lettered; after an outage in
  the ack the job stays in `processing` while its worker lives
  (`EventuallySettled` excepts outages for this).
- README.md:142 says location updates are throttled; the throttle of trips keeps
  its memory in a `TripService`, which lives for one request.
- `common/enums.py:13` says retired types are accepted from historical rows
  only; `AlertCreateRequest` takes any member of `AlertType`, so an alert may
  still be stored with one (`CreateAlert` of `SchemaHistory`; routing maps it).
- `create_phone_invite` tells the sender that a person with an account was sent
  an invitation or became a contact; the same error rolls that back
  (`PhoneInviteDecide` is `Refused`).
- Revision 011 empties a circle configured for `general_help` alone, which then
  matches every emergency, although it says "Remove general_help from groups"
  (`OnlyRevision11Reroutes` says that no other revision changes what a circle or
  an alert is matched by).
- Revision 012 is titled "Restore original six-type catalog" but leaves rows with
  the legacy codes (`medical_help`, `pickup_request`, `unsafe_situation`); all
  that routes by them normalizes first, so they match as before.
- The downgrade of 003 drops the platform's tables and does not bring back those
  its upgrade dropped.
- The models do not declare `uq_users_phone_verified` and
  `ix_device_tokens_token_unique`, which the revisions create.

## 4. What is proved

For every value of the constants, with only the assumptions named in the
modules. These are: bounds are natural numbers and limits positive, sets that
stand for different things are disjoint, `None` is no payload and no job, and,
where a property counts or a request lists, the sets it goes over are finite
(`Worker` in `NotificationQueue`, `Slot` in `AlertLifecycle`, `Alert` and `Loop`
in `NotificationOutbox`, `Group` in `Circles` and `SosRouting`: processes,
requests, alerts, loops and circles of a real system are). `SosRouting` also
assumes that a type names at most 600 relevant skills (the code, at most a
handful), so that its integer points tell two counts of them apart, and that
distances are natural numbers. The numbers of workers, recipients, tokens, trips,
sockets, processes, messages, people and circles are arbitrary.

**NotificationQueue**

- `TypeCorrect`: `Spec => []TypeOK`. It includes that a worker holds a job
  exactly in the steps of its handler, which every other proof needs. The lemmas
  `PushTail`, `PushHead`, `PopTail`, `PopHead` and `RemoveOne` say what the
  list commands do to the set of entries (the last one by the least index of an
  equal entry).
- `DeadLettersCorrect`: `Spec => []DeadLettersAreExhausted`. Not inductive by
  itself: before the first requeue the script must also be known to hold no job,
  or its push could bring an exhausted one into `queue`. `DeadLettersInv` adds
  that; a worker's retry then pushes only jobs that `Exhausted` lets through,
  and every way into `dlq` brings an exhausted one.
- `NoLossCorrect`: `Spec => []NoLossWithoutFault`. Not inductive either: an ack
  removes an entry, and must know that its payload was sent; a command that
  fails must be known to come after an outage. `NoLossInv` adds both (a worker
  in step `delivered` holds a payload in `Sent`, and Redis is up); then every
  other command moves a payload between two parts of `Kept`, also when a worker
  acts on an entry that a recovery took from it.
- `DuplicatesCorrect` and `BackedCorrect`: `DuplicatesHaveACause` and
  `InFlightIsBacked`. Both need to know how many copies of a payload there are,
  and a list does not say whose an entry is: two equal
  entries may belong to two workers, and an ack removes either. `CopiesInv` says
  that the equal entries of `processing` can be numbered so that every worker in
  flight has the number of one of them and no two share one, or has none and the
  reason is on record (`Backing`, `Explained`); and that the entries of the three
  lists, the script's job and the workers without an entry are together no more
  copies than were published and stolen, and those already sent no more than
  that leaves (`Counted`). Each action gives new numbers: a removal that takes the
  last of the equal entries passes its owner the number of the worker that
  acked (`TicketsAfterRemoval`); a worker loses its entry only to a recovery, which
  counts in `stolen`, to its own ack whose reply was lost, or to the repeated ack
  of a worker that had lost its own so: an outage has caused both.
  `OccOfWithout` and `CopiesCount` do the counting.
- `LifecycleCorrect`: `Spec /\ []OneCopyEach => KeepsTheLifecycle`, the refinement
  of `JobLifecycle`, which is about payloads that are enqueued once and not taken
  from a worker by another's recovery (`OneCopyEach`); any fault, stop and script
  run is allowed. `CopiesInv` leaves such a payload one place at a time (`Placed`).
  `FateInv` adds that what a worker has delivered was sent and that what was
  deleted is nowhere. Then a step changes the fate of one payload at most
  (`SamePlace`, `FateSame`, `FateDropped`), or deletes those of the whole dead-letter
  list (`FateClear`), and each change is one that `JobLifecycle` allows (`MayBecome`).

**SosDelivery**

- `DeliveryImplementsQueue`: `SosSpec => Spec`. Each step of the detailed
  handler is a step of `NotificationQueue` or leaves its variables alone.
  `DeliveryLosesNothing`: so `NoLossWithoutFault` holds with it, too, as do all
  other theorems on the queue.
- `HandlerTypesCorrect`: `SosSpec => []SosTypeOK`. `QueueStepKeeps` and
  `LocalStep` say what the rest of the queue and a handler leave alone; all
  proofs below use them.
- `DeliveredCorrect`: `SosSpec => []DeliveredWasPosted`. `PostedInv` follows a job
  through its posts: of the tokens found, each is still in `rest` or Expo has
  answered for it; before the marks nothing is in `rest`; what a worker takes for
  stale Expo has called so.
- `OnlyDeadTokensCorrect`: the action property `OnlyDeadTokensRemoved`, from the
  same invariant.
- `NobodyPendingCorrect`: `SosSpec => []NobodyPendingAfterwards`. `PendingInv` says
  that a worker which leaves its job, and one that is about to delete dead
  tokens, has marked every recipient, and one that is about to mark those
  without a token has marked the others. `QueuedMoves` shows that a payload
  leaves the queue and all hands only by the ack of a delivered job or into the
  dead-letter list, and `OwedIdle` that a worker which owes marks takes no other
  job before it has paid.
- `DeadLetterCorrect`: `SosSpec => []DeadLetterShowsFailed`. A payload enters the
  dead-letter list through a worker that owes its marks (`DeadLetterMoves`), and
  those are paid before they are forgotten (`OwedMoves`). That no one marks a
  recipient "delivered" afterwards rests on the queue: `CopiesInv` leaves no
  worker holding a payload whose only copy is in the list (`DeadLetterIsAlone`).
- `RingsCorrect`: `SosSpec => []RingsBounded`, for any number of alerts and their
  copies. The rings of a device say nothing of the copies they came from, so
  `RingInv` says that they can be numbered: of each payload and attempt, the rings
  so far and the copies that may still ring the device in that attempt
  (`Ringable`: entries of `queue` and jobs in hand that have not come to it) are
  together no more than were enqueued and stolen. A ring takes a worker from the
  second group to the first (`RingPosts`); a retry keeps its place in the attempts
  still to come; only an enqueue and a recovery add copies, and `AttendedInv` shows
  that a recovery is on record each time: while nothing fails, every entry of
  `processing` is in a worker's hands. `DeadLettersInv` bounds the attempts.

**NotificationOutbox**

- `TypeCorrect`: types, and that rows and what drainers have read belong to
  committed requests, and that no drainer has read a row it has pushed
  (`RowsOK`).
- `CommittedCorrect`: `OnlyCommittedAlertsPushed`, from `RowsOK` and that a pushed
  alert was committed.
- `BoundedCorrect`: `PushesBounded`. `RowBound` counts drainers that have read the
  pending row, to push it or after they have, since each of them may still push
  it though another marks it first; each push moves a drainer from one set
  to the other, each failed drain adds one to `faults`.

**AlertLifecycle**

- `TypeCorrect`, and `OneResponseCorrect`: `OneResponseEach`. An insert must be
  known to hold the key of the unique constraint, which no one else holds
  (`AnswersHold`, `LocksExclude`), and that no committed row has it
  (`InsertsAreNew`): then its commit adds no second one.
- `CooldownCorrect`: `CooldownUnlessOverlapping`. Creates in progress at the same
  time are on record (`CreatesOverlap`), and an alert is new until its create
  commits (`FreshAlerts`).
- `ResolvedCorrect`: the action property `ResolvedIsFinal`.
- `HeardCorrect`: `HeardAnswersAreStored`. A request tells of its answer while it
  has the row, so none that changes the answer can have told and not ended:
  until its commit, what was last told is its answer or in doubt
  (`ToldIsHeard`), and the row it updates stays (`FoundStay`).

**TripWatch**

- `TypeCorrect`: types, and that a request past its check is on one trip and
  holds no other row (`ControlOK`).
- `OneActiveCorrect`, `NeverAgainCorrect`: `OneActiveUnlessOverlapping` as for
  alerts, and `NeverActiveAgain`.
- `FinishesCorrect`: `FinishesAgree`. A request alone on its trip finds it as it
  was checked (`AloneUnlessRaced`, `StillAsChecked`), so that status and times
  change together.
- `ToldCorrect`: `ToldOfOneArrival`. A trip that was told of and not taken back is
  arrived, or the one request that told is about to commit it.
- `ExactCorrect`: `ArrivalByPositionIsExact`. A request that has written holds the
  row from then on (`Locked`), no two hold one (`LocksExclude`), and only its
  holder changes a trip.

**Circles**

Fifteen kinds of request share one argument. A request that starts is `New`: it
is about circles that exist (`StartIs`, `NextIs`). Whatever it decides is
`Sound`: each part of the change that `Commit` will write is about rows that
exist and names what its kind of request may touch (`DecisionOK`). `Effect` says
row by row what the tables are after a commit (`CommitIs`): which rows of
`invites` and `codes` are answered, which are appended, who has joined, left or
become an owner. Every step is then `Quiet`, and leaves the tables alone, or
the commit of one slot (`StepIs`), and each property has a small invariant of its
own, kept by the one and by the other:

- `CirclesCorrect`: `Spec => []CirclesOK`: types; members, invites and codes belong
  to circles that exist, an invite is for one person; requests in progress know
  only rows that exist, and two about one subject are in `met`.
- `OwnersCorrect`: the action property `OwnersLeaveByName`. A change that takes out
  members was decided when the member may not yet have been its owner;
  `LeaveInv` says that no one can become one meanwhile: owners are made only with
  their circle.
- `PhoneInvitesCorrect`: `PhoneInvitesAgree`, inductive with `CirclesOK`: an
  acceptance commits the two contacts with it, and their unique constraint lets
  no second one through, of whatever code of the pair.
- `AnswersCorrect`: `AnswersAgree`. `AnswerInv` says that an invite about which no
  two requests have met and that someone is answering is still pending.
- `DuplicatesCorrect`: `DuplicatesHaveACause`. A request that is to insert an invite
  (`FreshInv`) or a name (`NameInv`) and has met nobody about it knows that there
  still is none, so that its commit makes the first.
- `DirectoryCorrect`: the action property `DirectoryFollowsRequest`. `DirInv` keeps
  what was decided true until the commit: whom it need not invite still is a
  member or can still answer an invite.

**SosRouting**

- `StableCorrect` and `CalledCorrect`: `StableContactsAreCalled` and
  `CalledForACause`, for any number of changes between the queries. Both come
  from one invariant, `RoutingInv` (`RoutingIsInvariant`). It has two sides: what
  the request holds was true at some time of it (`ReadOnce`), and what was true
  throughout has been read (`ReadAlways`), by which the rows to be ranked are
  complete and real (`RowsOK`) and the fallbacks are reached only when no one
  stable is left (`FallbackOK`). Changes by others only lengthen the history
  (`LongerHistory`), which weakens each claim about it; a query reads the state
  that is its last one (`NowIs`). For the cap, `OutrankingScores` shows that who is
  no worse than another in skills, distance, availability and priority, and better
  in one of the first three, has more points: each part of the score is
  monotone, the skill points also after the division (`PointsTellApart`); and
  the priority a row was ranked by is one that its circle had (`RatingStands`).

**LiveChannel**

- `TypeCorrect`: types, and that a process sends to its own sockets only and a
  request its own message.
- `OnceEachWayCorrect`: `OnceEachWayInOrder`. `OwnInv` says that a message still
  to be sent to a socket by its request has not been. `OrderInv` follows the
  published order: what sockets have heard, then the message their listener is
  sending, then the inbox are in the order of `published`, in which no message
  comes twice because a request ends with it (`OnceInv`).

**SchemaHistory**

- `SoundCorrect`: `Spec => []Sound`, for any number of circles and of writes. `Sound`
  says what a database at a revision is (`SoundAt`): its schema is the
  revision's, `SchemaAt`, but below a downgrade of 003 it is empty; a row that
  contradicts a constraint has its column and not the constraint; circles have
  types only from 008 on, the catalog the codes that stay from 009 on, and from
  012 on neither the catalog nor a circle has a code that 012 retires (a circle
  may have a legacy one). `UpgradeFits` and `DowngradeFits` go through the
  thirteen revisions once: each upgrade finds what it drops and nothing of what
  it adds, and leads to `SchemaAt`; each downgrade leads back, but that of 003. A
  command is a path of such steps (`UpgradePath`, `DowngradePath`: the recursive
  function it is defined by exists, by induction over the revisions), and an
  induction along it (`Ascending`, `Descending`) carries `SoundAt` from end to end
  (`StepUp`, `StepDown`).
- `SchemaIsTheRevisionsCorrect`: `SchemaIsTheRevisions`, since a new database goes
  the same path; `HeadHasTheModels` compares the head with the models.
- `HeadSpeaksCorrect`: `HeadSpeaksTheSixTypes`, a part of `Sound`.
- `StuckCorrect`: `StuckOnlyForACause`. On its way up a database gets no new
  contradictions, and of the four constraints that old rows may contradict, two
  come when their table is new (`BreakableAdds`): only those of 007 and 009 can
  stop an upgrade (`UpgradeGoes`).
- `ReroutesCorrect`: the action property `OnlyRevision11Reroutes`. Along a path
  every revision leaves the normalized codes of alerts and circles as they are
  (`ReplacedCodes`: replacing a retired code changes no set once normalized), and
  011 takes `general_help` from circles and nothing else.

Model-checked only: liveness under fairness (`EventuallySettled`,
`RequeueEndsUnlessRevivedFail`, `EventuallyPublished`, `EveryRequestEnds`,
`OwedIsDelivered`), which the prover does
not reach, nor does it ENABLED. All invariants and action properties of the passing
runs are proved.

## 5. What is not modelled, and the plan

Not modelled, and why:

- one-time-code sessions, expiry, refresh tokens and their denylist: clocks and
  signed strings, each used by one request and compared with the time;
- the responder profile and skills of `responder_service`, `directory()`, lists
  and serializers: reads, or writes of a single row of one's own;
- rate limiting and settings, diagnostics, routers and schemas: no state, or
  reads only;
- the legacy web store (off by default, on tables that revision 003 drops),
  donations, SMS and the Firebase client (single calls to outside services), the
  one-off scripts but for `recover_dlq.py`.

The composition of `NotificationOutbox` with `NotificationQueue` is left to
their interface: what the outbox pushes is an `Enqueue`, which `NotificationQueue`
allows at any time.
