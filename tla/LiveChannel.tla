------------------------------ MODULE LiveChannel ------------------------------
(***************************************************************************)
(* The live channel of one alert: AlertWebSocketManager in every API       *)
(* process, and the endpoint each socket is served by. A broadcast is sent *)
(* to the process's own sockets and published to Redis; the listener task  *)
(* of every process, the sender's too, sends what it hears to the sockets  *)
(* it finds then. The lock guards sections without an await, and so the    *)
(* sections are single steps.                                              *)
(***************************************************************************)
EXTENDS Naturals, Sequences, FiniteSets, SequencesExt

CONSTANTS
  Proc,        \* API processes
  Socket,
  Home,        \* the process a socket is connected to
  Msg,         \* broadcasts, numbered as they begin
  MaxFaults,   \* bound: outages of Redis and crashes of processes
  MaxHangUps   \* bound: clients that go away

ASSUME ChannelAssumption ==
  /\ Home \in [Socket -> Proc]
  /\ Msg \subseteq Nat /\ Proc \cap Msg = {}
  /\ MaxFaults \in Nat /\ MaxHangUps \in Nat

VARIABLES
  stage,       \* how far the endpoint has got with a socket
  peer,        \* whether the client is still there
  channel,     \* _channels: the sockets registered in each process
  listener,    \* _pubsub_task
  inbox,       \* what Redis has sent to the subscription of a process
  run,         \* _local_broadcast: one a message, by its request, one a listener
  redis,       \* whether Redis answers
  faults,
  own,         \* history: how often a socket was sent a message by its broadcast
  heard,       \* history: what it was sent by the listener, in order
  published,   \* history: what Redis has fanned out, in order
  owed         \* history: sockets registered when a message set out for them

procVars == <<channel, listener, inbox, run>>
vars == <<stage, peer, procVars, redis, faults, own, heard, published, owed>>

NoRun == [at |-> "idle"]
Fresh == [at |-> "unsent"]
Run ==
  {NoRun, Fresh} \cup [at : {"sending", "publish"}, p : Proc, m : Msg,
                       left : SUBSET Socket, dead : SUBSET Socket]
Sending(p, m) == [at |-> "sending", p |-> p, m |-> m, left |-> channel[p], dead |-> {}]

\* Some processes have subscribed, and some sockets are open.
Init ==
  /\ stage \in [Socket -> {"connecting", "open"}] /\ peer = [s \in Socket |-> TRUE]
  /\ channel = [p \in Proc |-> {s \in Socket : Home[s] = p /\ stage[s] = "open"}]
  /\ listener \in [Proc -> {"subscribing", "listening"}]
  /\ inbox = [p \in Proc |-> <<>>]
  /\ run = [k \in Msg \cup Proc |-> IF k \in Msg THEN Fresh ELSE NoRun]
  /\ redis = "up" /\ faults = 0
  /\ own = [s \in Socket |-> [m \in Msg |-> 0]]
  /\ heard = [s \in Socket |-> <<>>] /\ published = <<>> /\ owed = {}

-----------------------------------------------------------------------------
(* The endpoint: access check, accept, register, receive until the client  *)
(* is gone.                                                                *)

Stage(s, from, to) ==
  /\ stage[s] = from /\ stage' = [stage EXCEPT ![s] = to]
  /\ UNCHANGED <<peer, redis, faults, own, heard, published, owed>>

Refuse(s) == Stage(s, "connecting", "gone") /\ UNCHANGED procVars
Accept(s) == Stage(s, "connecting", IF peer[s] THEN "accepted" ELSE "gone") /\ UNCHANGED procVars
Register(s) ==
  /\ Stage(s, "accepted", "open")
  /\ channel' = [channel EXCEPT ![Home[s]] = @ \cup {s}]
  /\ UNCHANGED <<listener, inbox, run>>
Disconnect(s) ==
  /\ ~peer[s] /\ Stage(s, "open", "gone")
  /\ channel' = [channel EXCEPT ![Home[s]] = @ \ {s}]
  /\ UNCHANGED <<listener, inbox, run>>
HangUp(s) ==
  /\ peer[s] /\ Cardinality({x \in Socket : ~peer[x]}) < MaxHangUps
  /\ peer' = [peer EXCEPT ![s] = FALSE]
  /\ UNCHANGED <<stage, procVars, redis, faults, own, heard, published, owed>>

-----------------------------------------------------------------------------
(* broadcast and _local_broadcast.                                         *)

\* Mutant of After: the listener ends with its first message.
AfterBUG(k) == [run[k] EXCEPT !.at = "publish"]
\* A run ends: its request goes on to publish, the listener to the next message.
After(k) == IF k \in Msg THEN [run[k] EXCEPT !.at = "publish"] ELSE NoRun

Broadcast(p, m) ==
  /\ run[m] = Fresh /\ \A n \in Msg : n < m => run[n] # Fresh
  /\ run' = [run EXCEPT ![m] = Sending(p, m)]
  /\ owed' = owed \cup {<<s, m, "own">> : s \in channel[p]}
  /\ UNCHANGED <<stage, peer, channel, listener, inbox, redis, faults, own, heard, published>>

Sent(s, m, k) ==
  IF k \in Msg THEN own' = [own EXCEPT ![s][m] = @ + 1] /\ UNCHANGED heard
  ELSE heard' = [heard EXCEPT ![s] = Append(@, m)] /\ UNCHANGED own
Send(k) ==
  /\ run[k].at = "sending"
  /\ \E s \in run[k].left :
       /\ run' = [run EXCEPT ![k].left = @ \ {s}, ![k].dead = IF peer[s] THEN @ ELSE @ \cup {s}]
       /\ IF peer[s] THEN Sent(s, run[k].m, k) ELSE UNCHANGED <<own, heard>>
  /\ UNCHANGED <<stage, peer, channel, listener, inbox, redis, faults, published, owed>>

DropDead(k) ==
  /\ run[k].at = "sending" /\ run[k].left = {}
  /\ channel' = [channel EXCEPT ![run[k].p] = @ \ run[k].dead]
  /\ run' = [run EXCEPT ![k] = After(k)]
  /\ UNCHANGED <<stage, peer, listener, inbox, redis, faults, own, heard, published, owed>>

\* The warning is all that is left of a publish that fails.
Publish(m) ==
  /\ run[m].at = "publish"
  /\ run' = [run EXCEPT ![m] = NoRun]
  /\ IF redis = "up"
     THEN LET hearing == {p \in Proc : listener[p] = "listening"}
          IN /\ inbox' = [p \in Proc |-> IF p \in hearing THEN Append(inbox[p], m) ELSE inbox[p]]
             /\ published' = Append(published, m)
             /\ owed' = owed \cup {<<s, m, "heard">> : s \in UNION {channel[p] : p \in hearing}}
     ELSE UNCHANGED <<inbox, published, owed>>
  /\ UNCHANGED <<stage, peer, channel, listener, redis, faults, own, heard>>

-----------------------------------------------------------------------------
(* The listener task.                                                      *)

Subscribe(p) ==
  /\ listener[p] = "subscribing"
  /\ listener' = [listener EXCEPT ![p] = IF redis = "up" THEN "listening" ELSE "dead"]
  /\ UNCHANGED <<stage, peer, channel, inbox, run, redis, faults, own, heard, published, owed>>

\* Mutant of Hear: messages are handled by tasks of their own, in any order.
HearBUG(p) ==
  /\ listener[p] = "listening" /\ run[p] = NoRun
  /\ \E i \in DOMAIN inbox[p] :
       /\ run' = [run EXCEPT ![p] = Sending(p, inbox[p][i])]
       /\ inbox' = [inbox EXCEPT ![p] = RemoveAt(@, i)]
  /\ UNCHANGED <<stage, peer, channel, listener, redis, faults, own, heard, published, owed>>
Hear(p) ==
  /\ listener[p] = "listening" /\ run[p] = NoRun /\ inbox[p] # <<>>
  /\ run' = [run EXCEPT ![p] = Sending(p, Head(inbox[p]))]
  /\ inbox' = [inbox EXCEPT ![p] = Tail(@)]
  /\ UNCHANGED <<stage, peer, channel, listener, redis, faults, own, heard, published, owed>>

\* listen() raises; nobody starts the task again.
ListenFails(p) ==
  /\ redis = "down" /\ listener[p] = "listening" /\ run[p] = NoRun
  /\ listener' = [listener EXCEPT ![p] = "dead"]
  /\ inbox' = [inbox EXCEPT ![p] = <<>>]
  /\ UNCHANGED <<stage, peer, channel, run, redis, faults, own, heard, published, owed>>

-----------------------------------------------------------------------------
(* Faults.                                                                 *)

RedisDown ==
  /\ redis = "up" /\ faults < MaxFaults
  /\ redis' = "down" /\ faults' = faults + 1
  /\ UNCHANGED <<stage, peer, procVars, own, heard, published, owed>>
RedisUp ==
  /\ redis = "down" /\ redis' = "up"
  /\ UNCHANGED <<stage, peer, procVars, faults, own, heard, published, owed>>

\* A process ends, with its sockets and requests, and is started again: stop
\* cancels the listener, and start makes a new one.
Restart(p) ==
  /\ faults < MaxFaults /\ faults' = faults + 1
  /\ stage' = [s \in Socket |-> IF Home[s] = p /\ stage[s] # "connecting" THEN "gone" ELSE stage[s]]
  /\ channel' = [channel EXCEPT ![p] = {}]
  /\ listener' = [listener EXCEPT ![p] = "subscribing"]
  /\ inbox' = [inbox EXCEPT ![p] = <<>>]
  /\ run' = [k \in Msg \cup Proc |->
               IF k = p \/ (run[k].at \in {"sending", "publish"} /\ run[k].p = p)
               THEN NoRun ELSE run[k]]
  /\ UNCHANGED <<peer, redis, own, heard, published, owed>>

Endpoint(s) == Refuse(s) \/ Accept(s) \/ Register(s) \/ Disconnect(s)
Running(k) == Send(k) \/ DropDead(k)

Next ==
  \/ \E s \in Socket : Endpoint(s) \/ HangUp(s)
  \/ \E m \in Msg : Publish(m) \/ \E p \in Proc : Broadcast(p, m)
  \/ \E k \in Msg \cup Proc : Running(k)
  \/ \E p \in Proc : Subscribe(p) \/ Hear(p) \/ ListenFails(p) \/ Restart(p)
  \/ RedisDown \/ RedisUp

\* Tasks of a process go on; a send ends, with an error at the latest when the
\* server's ping finds the client gone. Clients and faults owe nothing.
Fairness ==
  /\ \A s \in Socket : WF_vars(Endpoint(s))
  /\ \A k \in Msg \cup Proc : WF_vars(Running(k))
  /\ \A m \in Msg : WF_vars(Publish(m))
  /\ \A p \in Proc : WF_vars(Subscribe(p)) /\ WF_vars(Hear(p))

Spec == Init /\ [][Next]_vars /\ Fairness

-----------------------------------------------------------------------------
(* Properties.                                                             *)

TypeOK ==
  /\ stage \in [Socket -> {"connecting", "accepted", "open", "gone"}]
  /\ peer \in [Socket -> BOOLEAN]
  /\ channel \in [Proc -> SUBSET Socket]
  /\ listener \in [Proc -> {"subscribing", "listening", "dead"}]
  /\ inbox \in [Proc -> Seq(Msg)]
  /\ run \in [Msg \cup Proc -> Run]
  /\ redis \in {"up", "down"} /\ faults \in Nat
  /\ own \in [Socket -> [Msg -> Nat]]
  /\ heard \in [Socket -> Seq(Msg)] /\ published \in Seq(Msg)
  /\ owed \subseteq Socket \X Msg \X {"own", "heard"}

\* The pairs of an earlier and a later element.
InOrder(q) ==
  {<<q[z[1]], q[z[2]]>> : z \in {y \in (DOMAIN q) \X (DOMAIN q) : y[1] < y[2]}}

\* What a socket gets by Redis it gets once and in the order of publication,
\* also when it is registered late or its process was busy, and by a broadcast
\* of its own process once more. The two copies together come in any order.
OnceEachWayInOrder ==
  \A s \in Socket :
    /\ \A m \in Msg : own[s][m] <= 1
    /\ \A m \in Msg : <<m, m>> \notin InOrder(heard[s])
    /\ InOrder(heard[s]) \subseteq InOrder(published)

\* A socket that was registered when a message set out for it gets it, or its
\* client is gone or its process restarted; from its own process also when
\* Redis is away, by Redis unless its listener died.
Settled(s, m, way) ==
  \/ ~peer[s] \/ stage[s] = "gone"
  \/ way = "own" /\ own[s][m] > 0
  \/ way = "heard" /\ (listener[Home[s]] = "dead" \/ m \in Range(heard[s]))
OwedIsDelivered == []<>(\A d \in owed : Settled(d[1], d[2], d[3]))
=============================================================================
