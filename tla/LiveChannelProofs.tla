-------------------------- MODULE LiveChannelProofs --------------------------
(***************************************************************************)
(* Theorems of LiveChannel, for every number of processes, sockets and     *)
(* messages, and all bounds on faults.                                     *)
(***************************************************************************)
EXTENDS LiveChannel, SequenceTheorems, TLAPS

-----------------------------------------------------------------------------
(* Type correctness.                                                       *)

At(p) == {s \in Socket : Home[s] = p}
RequestRun(m) ==
  {NoRun, Fresh} \cup [at : {"sending", "publish"}, p : Proc, m : {m},
                       left : SUBSET Socket, dead : SUBSET Socket]
ListenerRun(p) ==
  {NoRun} \cup [at : {"sending"}, p : {p}, m : Msg, left : SUBSET At(p), dead : SUBSET Socket]

\* A process sends to its own sockets, a request its own message.
RunsOK ==
  /\ run \in [Msg \cup Proc -> Run]
  /\ \A m \in Msg : run[m] \in RequestRun(m)
  /\ \A p \in Proc : run[p] \in ListenerRun(p)
ChannelOK == channel \in [Proc -> SUBSET Socket] /\ \A p \in Proc : channel[p] \subseteq At(p)
SocketsOK ==
  /\ stage \in [Socket -> {"connecting", "accepted", "open", "gone"}]
  /\ peer \in [Socket -> BOOLEAN]
ListenersOK ==
  /\ listener \in [Proc -> {"subscribing", "listening", "dead"}]
  /\ inbox \in [Proc -> Seq(Msg)]
  /\ redis \in {"up", "down"} /\ faults \in Nat
HistoryOK ==
  /\ own \in [Socket -> [Msg -> Nat]]
  /\ heard \in [Socket -> Seq(Msg)] /\ published \in Seq(Msg)
  /\ owed \subseteq Socket \X Msg \X {"own", "heard"}
AllOK == RunsOK /\ ChannelOK /\ SocketsOK /\ ListenersOK /\ HistoryOK

LEMMA RunTypes ==
  /\ \A m \in Msg : RequestRun(m) \subseteq Run
  /\ \A p \in Proc : ListenerRun(p) \subseteq Run
BY DEF RequestRun, ListenerRun, Run, At

\* What is sent to whom.
LEMMA SendingRun ==
  ASSUME RunsOK, NEW k \in Msg \cup Proc, run[k].at = "sending"
  PROVE  /\ run[k].p \in Proc /\ run[k].m \in Msg
         /\ run[k].left \subseteq Socket /\ run[k].dead \subseteq Socket
         /\ k \in Msg => run[k].m = k
         /\ k \in Proc => run[k].p = k /\ run[k].left \subseteq At(k)
         /\ run[k] = [at |-> "sending", p |-> run[k].p, m |-> run[k].m,
                      left |-> run[k].left, dead |-> run[k].dead]
<1>1. CASE k \in Msg
  <2>1. run[k] \in RequestRun(k) BY <1>1 DEF RunsOK
  <2>2. run[k] \notin {NoRun, Fresh} BY DEF NoRun, Fresh
  <2>3. k \notin Proc BY <1>1, ChannelAssumption
  <2> QED BY <2>1, <2>2, <2>3 DEF RequestRun
<1>2. CASE k \in Proc
  <2>1. run[k] \in ListenerRun(k) BY <1>2 DEF RunsOK
  <2>2. run[k] # NoRun BY DEF NoRun
  <2>3. k \notin Msg BY <1>2, ChannelAssumption
  <2> QED BY <2>1, <2>2, <2>3 DEF ListenerRun, At
<1> QED BY <1>1, <1>2

\* A step that changes one run.
LEMMA OneRun ==
  ASSUME RunsOK, NEW k \in Msg \cup Proc, NEW r, run' = [run EXCEPT ![k] = r],
         k \in Msg => r \in RequestRun(k), k \in Proc => r \in ListenerRun(k)
  PROVE  RunsOK'
<1>1. r \in Run BY RunTypes
<1>2. \A x \in Msg \cup Proc : run'[x] = IF x = k THEN r ELSE run[x] BY DEF RunsOK
<1>3. run' \in [Msg \cup Proc -> Run] BY <1>1 DEF RunsOK
<1> QED BY <1>2, <1>3 DEF RunsOK

LEMMA InitTypes == Init => AllOK
<1> SUFFICES ASSUME Init PROVE AllOK OBVIOUS
<1>1. RunsOK
  <2>1. \A k \in Msg \cup Proc : run[k] = IF k \in Msg THEN Fresh ELSE NoRun BY DEF Init
  <2>2. \A p \in Proc : run[p] = NoRun BY <2>1, ChannelAssumption
  <2> QED BY <2>1, <2>2 DEF Init, RunsOK, Run, RequestRun, ListenerRun
<1>2. ChannelOK BY DEF Init, ChannelOK, At
<1>3. SocketsOK BY DEF Init, SocketsOK
<1>4. ListenersOK BY DEF Init, ListenersOK
<1>5. HistoryOK BY DEF Init, HistoryOK
<1> QED BY <1>1, <1>2, <1>3, <1>4, <1>5 DEF AllOK

LEMMA EndpointTypes == ASSUME AllOK, NEW s \in Socket, Endpoint(s) \/ HangUp(s) PROVE AllOK'
<1>1. UNCHANGED <<listener, inbox, run, redis, faults, own, heard, published, owed>>
  BY DEF Endpoint, HangUp, Refuse, Accept, Register, Disconnect, Stage, procVars
<1>2. RunsOK' /\ ListenersOK' /\ HistoryOK' BY <1>1 DEF AllOK, RunsOK, ListenersOK, HistoryOK
<1>3. SocketsOK'
  BY DEF AllOK, SocketsOK, Endpoint, HangUp, Refuse, Accept, Register, Disconnect, Stage
<1>4. ChannelOK'
  <2>1. CASE UNCHANGED channel BY <2>1 DEF AllOK, ChannelOK
  <2>2. CASE Register(s)
    <3>1. Home[s] \in Proc /\ s \in At(Home[s]) BY ChannelAssumption DEF At
    <3> QED BY <2>2, <3>1 DEF AllOK, ChannelOK, Register
  <2>3. CASE Disconnect(s)
    <3>1. Home[s] \in Proc BY ChannelAssumption
    <3> QED BY <2>3, <3>1 DEF AllOK, ChannelOK, Disconnect
  <2> QED BY <2>1, <2>2, <2>3 DEF Endpoint, HangUp, Refuse, Accept, procVars
<1> QED BY <1>2, <1>3, <1>4 DEF AllOK

LEMMA BroadcastTypes == ASSUME AllOK, NEW p \in Proc, NEW m \in Msg, Broadcast(p, m) PROVE AllOK'
<1>1. Sending(p, m) \in RequestRun(m)
  <2>1. channel[p] \subseteq Socket BY DEF AllOK, ChannelOK
  <2> QED BY <2>1 DEF Sending, RequestRun
<1>2. m \notin Proc BY ChannelAssumption
<1>3. RunsOK'
  <2>1. run' = [run EXCEPT ![m] = Sending(p, m)] BY DEF Broadcast
  <2> QED BY <1>1, <1>2, <2>1, OneRun DEF AllOK
<1>4. ChannelOK' /\ SocketsOK' /\ ListenersOK'
  BY DEF Broadcast, AllOK, ChannelOK, SocketsOK, ListenersOK
<1>5. HistoryOK'
  <2>1. channel[p] \subseteq Socket BY DEF AllOK, ChannelOK
  <2> QED BY <2>1 DEF Broadcast, AllOK, HistoryOK
<1> QED BY <1>3, <1>4, <1>5 DEF AllOK

\* The run after a message was sent to s.
After1(k, s) ==
  [at |-> "sending", p |-> run[k].p, m |-> run[k].m, left |-> run[k].left \ {s},
   dead |-> IF peer[s] THEN run[k].dead ELSE run[k].dead \cup {s}]

LEMMA SendRun ==
  ASSUME AllOK, NEW k \in Msg \cup Proc, Send(k)
  PROVE  /\ run[k].at = "sending"
         /\ \E s \in run[k].left :
              /\ run' = [run EXCEPT ![k] = After1(k, s)]
              /\ IF peer[s] THEN Sent(s, run[k].m, k) ELSE UNCHANGED <<own, heard>>
<1>1. run[k].at = "sending" BY DEF Send
<1>2. PICK s \in run[k].left :
        /\ run' = [run EXCEPT ![k].left = @ \ {s}, ![k].dead = IF peer[s] THEN @ ELSE @ \cup {s}]
        /\ IF peer[s] THEN Sent(s, run[k].m, k) ELSE UNCHANGED <<own, heard>>
  BY DEF Send
<1>3. run[k] = [at |-> "sending", p |-> run[k].p, m |-> run[k].m,
                left |-> run[k].left, dead |-> run[k].dead]
  BY <1>1, SendingRun DEF AllOK
<1> DEFINE r1 == [at |-> "sending", p |-> run[k].p, m |-> run[k].m,
                  left |-> run[k].left \ {s}, dead |-> run[k].dead]
           f == [run EXCEPT ![k] = r1]
<1>4. f = [run EXCEPT ![k].left = @ \ {s}]
  <2>1. r1 = [run[k] EXCEPT !.left = @ \ {s}] BY <1>3
  <2> QED BY <2>1
<1>6. [f EXCEPT ![k].dead = IF peer[s] THEN @ ELSE @ \cup {s}] = [run EXCEPT ![k] = After1(k, s)]
  <2>1. f[k] = r1 /\ f \in [Msg \cup Proc -> {f[x] : x \in Msg \cup Proc}]
    BY DEF AllOK, RunsOK
  <2>2. [r1 EXCEPT !.dead = IF peer[s] THEN @ ELSE @ \cup {s}] = After1(k, s)
    <3>1. CASE peer[s] BY <3>1 DEF After1
    <3>2. CASE ~peer[s] BY <3>2 DEF After1
    <3> QED BY <3>1, <3>2
  <2> QED BY <2>1, <2>2 DEF AllOK, RunsOK
<1>5. run' = [run EXCEPT ![k] = After1(k, s)]
  BY <1>2, <1>4, <1>6
<1> QED BY <1>1, <1>2, <1>5

LEMMA SendTypes == ASSUME AllOK, NEW k \in Msg \cup Proc, Send(k) PROVE AllOK'
<1>1. run[k].at = "sending" BY DEF Send
<1>2. PICK s \in run[k].left :
        /\ run' = [run EXCEPT ![k] = After1(k, s)]
        /\ IF peer[s] THEN Sent(s, run[k].m, k) ELSE UNCHANGED <<own, heard>>
  BY SendRun
<1>3. /\ run[k].p \in Proc /\ run[k].m \in Msg
      /\ run[k].left \subseteq Socket /\ run[k].dead \subseteq Socket
      /\ k \in Msg => run[k].m = k
      /\ k \in Proc => run[k].p = k /\ run[k].left \subseteq At(k)
  BY <1>1, SendingRun DEF AllOK
<1>4. RunsOK'
  <2>1. k \in Msg => After1(k, s) \in RequestRun(k) BY <1>2, <1>3 DEF After1, RequestRun
  <2>2. k \in Proc => After1(k, s) \in ListenerRun(k) BY <1>2, <1>3 DEF After1, ListenerRun, At
  <2> QED BY <1>2, <2>1, <2>2, OneRun DEF AllOK
<1>5. ChannelOK' /\ SocketsOK' /\ ListenersOK'
  BY DEF Send, AllOK, ChannelOK, SocketsOK, ListenersOK
<1>6. HistoryOK'
  <2>1. s \in Socket /\ UNCHANGED <<published, owed>> BY <1>2, <1>3 DEF Send
  <2>2. CASE UNCHANGED <<own, heard>> BY <2>1, <2>2 DEF AllOK, HistoryOK
  <2>3. CASE own' = [own EXCEPT ![s][run[k].m] = @ + 1] /\ UNCHANGED heard
    <3>1. own[s] \in [Msg -> Nat] /\ own[s][run[k].m] + 1 \in Nat
      BY <1>3, <2>1 DEF AllOK, HistoryOK
    <3>2. own' \in [Socket -> [Msg -> Nat]]
      BY <1>3, <2>1, <2>3, <3>1 DEF AllOK, HistoryOK
    <3> QED BY <2>1, <2>3, <3>2 DEF AllOK, HistoryOK
  <2>4. CASE heard' = [heard EXCEPT ![s] = Append(@, run[k].m)] /\ UNCHANGED own
    <3>1. Append(heard[s], run[k].m) \in Seq(Msg) BY <1>3, <2>1 DEF AllOK, HistoryOK
    <3> QED BY <2>1, <2>4, <3>1 DEF AllOK, HistoryOK
  <2> QED BY <1>2, <2>2, <2>3, <2>4 DEF Sent
<1> QED BY <1>4, <1>5, <1>6 DEF AllOK

LEMMA DropTypes == ASSUME AllOK, NEW k \in Msg \cup Proc, DropDead(k) PROVE AllOK'
<1>1. run[k].at = "sending" /\ run' = [run EXCEPT ![k] = After(k)] BY DEF DropDead
<1>2. RunsOK'
  <2>1. k \in Msg => After(k) \in RequestRun(k)
    <3> SUFFICES ASSUME k \in Msg PROVE After(k) \in RequestRun(k) OBVIOUS
    <3>1. run[k] = [at |-> "sending", p |-> run[k].p, m |-> run[k].m,
                    left |-> run[k].left, dead |-> run[k].dead]
          /\ run[k].p \in Proc /\ run[k].m = k
          /\ run[k].left \subseteq Socket /\ run[k].dead \subseteq Socket
      BY <1>1, SendingRun DEF AllOK
    <3>2. After(k) = [at |-> "publish", p |-> run[k].p, m |-> run[k].m,
                      left |-> run[k].left, dead |-> run[k].dead]
      BY <3>1 DEF After
    <3> QED BY <3>1, <3>2 DEF RequestRun
  <2>2. k \in Proc => After(k) \in ListenerRun(k) BY ChannelAssumption DEF After, ListenerRun
  <2> QED BY <1>1, <2>1, <2>2, OneRun DEF AllOK
<1>3. ChannelOK'
  <2>1. run[k].p \in Proc BY <1>1, SendingRun DEF AllOK
  <2>2. channel' = [channel EXCEPT ![run[k].p] = @ \ run[k].dead] BY DEF DropDead
  <2> QED BY <2>1, <2>2 DEF AllOK, ChannelOK
<1>4. SocketsOK' /\ ListenersOK' /\ HistoryOK'
  BY DEF DropDead, AllOK, SocketsOK, ListenersOK, HistoryOK
<1> QED BY <1>2, <1>3, <1>4 DEF AllOK

LEMMA PublishTypes == ASSUME AllOK, NEW m \in Msg, Publish(m) PROVE AllOK'
<1>1. RunsOK'
  <2>1. NoRun \in RequestRun(m) /\ m \notin Proc BY ChannelAssumption DEF RequestRun
  <2>2. run' = [run EXCEPT ![m] = NoRun] BY DEF Publish
  <2> QED BY <2>1, <2>2, OneRun DEF AllOK
<1>2. ChannelOK' /\ SocketsOK' BY DEF Publish, AllOK, ChannelOK, SocketsOK
<1>3. ListenersOK' /\ HistoryOK'
  <2>1. CASE redis = "up"
    <3> DEFINE hearing == {p \in Proc : listener[p] = "listening"}
    <3>1. /\ inbox' = [p \in Proc |-> IF p \in hearing THEN Append(inbox[p], m) ELSE inbox[p]]
          /\ published' = Append(published, m)
          /\ owed' = owed \cup {<<s, m, "heard">> : s \in UNION {channel[p] : p \in hearing}}
      BY <2>1 DEF Publish
    <3>2. inbox' \in [Proc -> Seq(Msg)] BY <3>1 DEF AllOK, ListenersOK
    <3>3. published' \in Seq(Msg) BY <3>1 DEF AllOK, HistoryOK
    <3>4. owed' \subseteq Socket \X Msg \X {"own", "heard"}
      <4>1. UNION {channel[p] : p \in hearing} \subseteq Socket BY DEF AllOK, ChannelOK
      <4> QED BY <3>1, <4>1 DEF AllOK, HistoryOK
    <3> QED BY <3>2, <3>3, <3>4 DEF Publish, AllOK, ListenersOK, HistoryOK
  <2>2. CASE redis # "up" BY <2>2 DEF Publish, AllOK, ListenersOK, HistoryOK
  <2> QED BY <2>1, <2>2
<1> QED BY <1>1, <1>2, <1>3 DEF AllOK

LEMMA HearTypes == ASSUME AllOK, NEW p \in Proc, Hear(p) PROVE AllOK'
<1>1. /\ inbox[p] \in Seq(Msg) /\ inbox[p] # <<>>
      /\ Head(inbox[p]) \in Msg /\ Tail(inbox[p]) \in Seq(Msg)
  BY DEF Hear, AllOK, ListenersOK
<1>2. RunsOK'
  <2>1. Sending(p, Head(inbox[p])) \in ListenerRun(p)
    BY <1>1 DEF Sending, ListenerRun, AllOK, ChannelOK
  <2>2. p \notin Msg BY ChannelAssumption
  <2>3. run' = [run EXCEPT ![p] = Sending(p, Head(inbox[p]))] BY DEF Hear
  <2> QED BY <2>1, <2>2, <2>3, OneRun DEF AllOK
<1>3. ListenersOK' BY <1>1 DEF Hear, AllOK, ListenersOK
<1>4. ChannelOK' /\ SocketsOK' /\ HistoryOK'
  BY DEF Hear, AllOK, ChannelOK, SocketsOK, HistoryOK
<1> QED BY <1>2, <1>3, <1>4 DEF AllOK

LEMMA RestartTypes == ASSUME AllOK, NEW p \in Proc, Restart(p) PROVE AllOK'
<1>1. \A k \in Msg \cup Proc : run'[k] \in {NoRun, run[k]} BY DEF Restart
<1>2. RunsOK'
  <2>1. \A m \in Msg : run'[m] \in RequestRun(m) BY <1>1 DEF AllOK, RunsOK, RequestRun
  <2>2. \A q \in Proc : run'[q] \in ListenerRun(q) BY <1>1 DEF AllOK, RunsOK, ListenerRun
  <2>3. run' \in [Msg \cup Proc -> Run]
    <3>1. \A k \in Msg \cup Proc : run'[k] \in Run BY <1>1 DEF AllOK, RunsOK, Run
    <3> QED BY <3>1 DEF Restart
  <2> QED BY <2>1, <2>2, <2>3 DEF RunsOK
<1>3. ChannelOK' BY DEF Restart, AllOK, ChannelOK
<1>4. SocketsOK'
  <2>1. UNCHANGED peer /\ \A s \in Socket : stage'[s] \in {"gone", stage[s]} BY DEF Restart
  <2>2. stage' \in [Socket -> {"connecting", "accepted", "open", "gone"}]
    BY <2>1 DEF Restart, AllOK, SocketsOK
  <2> QED BY <2>1, <2>2 DEF AllOK, SocketsOK
<1>5. ListenersOK'
  <2>1. <<>> \in Seq(Msg) OBVIOUS
  <2> QED BY <2>1 DEF Restart, AllOK, ListenersOK
<1>6. HistoryOK' BY DEF Restart, AllOK, HistoryOK
<1> QED BY <1>2, <1>3, <1>4, <1>5, <1>6 DEF AllOK

\* The subscription, and Redis.
Rest == RedisDown \/ RedisUp \/ \E p \in Proc : Subscribe(p) \/ ListenFails(p)
LEMMA RestTypes == ASSUME AllOK, Rest PROVE AllOK'
<1>1. UNCHANGED <<stage, peer, channel, run, own, heard, published, owed>>
  BY DEF Rest, Subscribe, ListenFails, RedisDown, RedisUp, procVars
<1>2. ListenersOK'
  <2>1. CASE RedisDown \/ RedisUp BY <2>1 DEF RedisDown, RedisUp, procVars, AllOK, ListenersOK
  <2>2. ASSUME NEW p \in Proc, Subscribe(p) PROVE ListenersOK'
    BY <2>2 DEF Subscribe, AllOK, ListenersOK
  <2>3. ASSUME NEW p \in Proc, ListenFails(p) PROVE ListenersOK'
    <3>1. <<>> \in Seq(Msg) OBVIOUS
    <3> QED BY <2>3, <3>1 DEF ListenFails, AllOK, ListenersOK
  <2> QED BY <2>1, <2>2, <2>3 DEF Rest
<1> QED BY <1>1, <1>2 DEF AllOK, RunsOK, ChannelOK, SocketsOK, HistoryOK

LEMMA Steps ==
  ASSUME Next
  PROVE  \/ \E s \in Socket : Endpoint(s) \/ HangUp(s)
         \/ \E m \in Msg, p \in Proc : Broadcast(p, m)
         \/ \E m \in Msg : Publish(m)
         \/ \E k \in Msg \cup Proc : Send(k) \/ DropDead(k)
         \/ \E p \in Proc : Hear(p) \/ Restart(p)
         \/ Rest
BY DEF Next, Rest, Running

LEMMA NextTypes == ASSUME AllOK, [Next]_vars PROVE AllOK'
<1>1. CASE UNCHANGED vars
  BY <1>1 DEF vars, procVars, AllOK, RunsOK, ChannelOK, SocketsOK, ListenersOK, HistoryOK
<1>2. CASE Next
  BY <1>2, Steps, EndpointTypes, BroadcastTypes, PublishTypes, SendTypes, DropTypes, HearTypes,
     RestartTypes, RestTypes
<1> QED BY <1>1, <1>2

\* The variables keep their types, a listener sends to the sockets of its own
\* process only and a request nothing but its own message, with any number of
\* processes, sockets, messages and faults.
THEOREM TypeCorrect == Spec => [](TypeOK /\ RunsOK /\ ChannelOK)
<1>1. Spec => []AllOK BY InitTypes, NextTypes, PTL DEF Spec
<1>2. AllOK => TypeOK /\ RunsOK /\ ChannelOK
  BY DEF AllOK, TypeOK, RunsOK, ChannelOK, SocketsOK, ListenersOK, HistoryOK
<1> QED BY <1>1, <1>2, PTL


-----------------------------------------------------------------------------
(* Once each way: what the own process sends.                              *)

OwnInv ==
  \A s \in Socket, m \in Msg :
    /\ own[s][m] <= 1
    /\ run[m] = Fresh \/ (run[m].at = "sending" /\ s \in run[m].left) => own[s][m] = 0

\* The requests go on, or end, without sending.
LEMMA OwnQuiet ==
  ASSUME AllOK, OwnInv, UNCHANGED own,
         \A m \in Msg : run'[m] = run[m] \/ run'[m].at \in {"idle", "publish"}
  PROVE  OwnInv'
BY DEF OwnInv, Fresh

LEMMA OwnStep == ASSUME AllOK, OwnInv, [Next]_vars PROVE OwnInv'
<1>1. CASE UNCHANGED <<run, own>> BY <1>1 DEF OwnInv
<1>2. ASSUME NEW m \in Msg, NEW p \in Proc, Broadcast(p, m) PROVE OwnInv'
  <2>1. UNCHANGED own /\ run[m] = Fresh BY <1>2 DEF Broadcast
  <2>2. \A x \in Msg : run'[x] = IF x = m THEN Sending(p, m) ELSE run[x]
    BY <1>2 DEF Broadcast, AllOK, RunsOK
  <2> QED BY <2>1, <2>2 DEF OwnInv
<1>3. ASSUME NEW k \in Msg \cup Proc, Send(k) PROVE OwnInv'
  <2>1. PICK s \in run[k].left :
          /\ run' = [run EXCEPT ![k] = After1(k, s)]
          /\ IF peer[s] THEN Sent(s, run[k].m, k) ELSE UNCHANGED <<own, heard>>
    BY <1>3, SendRun
  <2>2. run[k].at = "sending" BY <1>3 DEF Send
  <2>3. /\ run[k].left \subseteq Socket /\ run[k].m \in Msg
        /\ k \in Msg => run[k].m = k
    BY <2>2, SendingRun DEF AllOK
  <2>4. \A x \in Msg : run'[x] = IF x = k THEN After1(k, s) ELSE run[x]
    BY <2>1 DEF AllOK, RunsOK
  <2>5. \A x \in Msg : run'[x] = Fresh => run[x] = Fresh BY <2>4 DEF After1, Fresh
  <2>6. \A x \in Msg : run'[x].at = "sending" =>
          run[x].at = "sending" /\ run'[x].left = IF x = k THEN run[x].left \ {s} ELSE run[x].left
    BY <2>2, <2>4 DEF After1
  <2>7. CASE UNCHANGED own BY <2>5, <2>6, <2>7 DEF OwnInv
  <2>8. CASE k \in Msg /\ own' = [own EXCEPT ![s][run[k].m] = @ + 1]
    <3>1. own \in [Socket -> [Msg -> Nat]] /\ s \in Socket /\ run[k].m = k
      BY <2>1, <2>3, <2>8 DEF AllOK, HistoryOK
    <3>2. own[s][k] = 0 BY <2>1, <2>2, <2>8, <3>1 DEF OwnInv
    <3>3. \A y \in Socket, m \in Msg : own'[y][m] = IF y = s /\ m = k THEN 1 ELSE own[y][m]
      BY <2>8, <3>1, <3>2
    <3>4. run'[k].left = run[k].left \ {s} /\ run'[k] # Fresh BY <2>4, <2>8 DEF After1, Fresh
    <3> SUFFICES ASSUME NEW y \in Socket, NEW m \in Msg
                 PROVE  /\ own'[y][m] <= 1
                        /\ run'[m] = Fresh \/ (run'[m].at = "sending" /\ y \in run'[m].left)
                             => own'[y][m] = 0
      BY DEF OwnInv
    <3>5. CASE y = s /\ m = k BY <3>3, <3>4, <3>5
    <3>6. CASE ~(y = s /\ m = k)
      <4>1. own'[y][m] = own[y][m] BY <3>3, <3>6
      <4> QED BY <2>5, <2>6, <4>1 DEF OwnInv
    <3> QED BY <3>5, <3>6
  <2> QED BY <2>1, <2>7, <2>8 DEF Sent
<1>4. ASSUME NEW k \in Msg \cup Proc, DropDead(k) PROVE OwnInv'
  <2>1. UNCHANGED own BY <1>4 DEF DropDead
  <2>2. \A x \in Msg : run'[x] = IF x = k THEN After(k) ELSE run[x]
    BY <1>4 DEF DropDead, AllOK, RunsOK
  <2>3. k \in Msg => After(k).at = "publish"
    <3> SUFFICES ASSUME k \in Msg PROVE After(k).at = "publish" OBVIOUS
    <3>1. run[k] = [at |-> "sending", p |-> run[k].p, m |-> run[k].m,
                    left |-> run[k].left, dead |-> run[k].dead]
      BY <1>4, SendingRun DEF DropDead, AllOK
    <3> QED BY <3>1 DEF After
  <2> QED BY <2>1, <2>2, <2>3, OwnQuiet
<1>5. ASSUME NEW m \in Msg, Publish(m) PROVE OwnInv'
  <2>1. UNCHANGED own /\ \A x \in Msg : run'[x] = IF x = m THEN NoRun ELSE run[x]
    BY <1>5 DEF Publish, AllOK, RunsOK
  <2> QED BY <2>1, OwnQuiet DEF NoRun
<1>6. ASSUME NEW p \in Proc, Hear(p) \/ Restart(p) PROVE OwnInv'
  <2>1. CASE Hear(p)
    <3>1. \A x \in Msg : x # p BY ChannelAssumption
    <3>2. UNCHANGED own /\ \A x \in Msg : run'[x] = run[x]
      BY <2>1, <3>1 DEF Hear, AllOK, RunsOK
    <3> QED BY <3>2, OwnQuiet
  <2>2. CASE Restart(p)
    <3>1. UNCHANGED own /\ \A x \in Msg : run'[x] \in {NoRun, run[x]} BY <2>2 DEF Restart
    <3> QED BY <3>1, OwnQuiet DEF NoRun
  <2> QED BY <1>6, <2>1, <2>2
<1>7. CASE UNCHANGED vars BY <1>1, <1>7 DEF vars, procVars
<1>8. CASE \/ \E s \in Socket : Endpoint(s) \/ HangUp(s)
           \/ Rest
  BY <1>1, <1>8 DEF Endpoint, Refuse, Accept, Register, Disconnect, Stage, HangUp, procVars,
     Rest, RedisDown, RedisUp, Subscribe, ListenFails
<1> QED BY <1>2, <1>3, <1>4, <1>5, <1>6, <1>7, <1>8, Steps

-----------------------------------------------------------------------------
(* In order: what is heard from Redis.                                     *)

LEMMA AppendOrder ==
  ASSUME NEW q \in Seq(Msg), NEW m \in Msg
  PROVE  /\ Range(Append(q, m)) = Range(q) \cup {m}
         /\ InOrder(Append(q, m)) = InOrder(q) \cup (Range(q) \X {m})
<1> DEFINE a == Append(q, m)
<1>1. /\ DOMAIN q = 1..Len(q) /\ DOMAIN a = 1..(Len(q) + 1) /\ Len(q) \in Nat
      /\ a[Len(q) + 1] = m /\ \A i \in DOMAIN q : a[i] = q[i]
  OBVIOUS
<1> HIDE DEF a
<1>2. Range(a) = Range(q) \cup {m} BY <1>1 DEF Range
<1>3. InOrder(a) \subseteq InOrder(q) \cup (Range(q) \X {m})
  <2> SUFFICES ASSUME NEW i \in DOMAIN a, NEW j \in DOMAIN a, i < j
               PROVE  <<a[i], a[j]>> \in InOrder(q) \cup (Range(q) \X {m})
    BY DEF InOrder
  <2>1. i \in DOMAIN q /\ a[i] = q[i] BY <1>1
  <2>2. CASE j \in DOMAIN q
    <3>1. <<i, j>> \in (DOMAIN q) \X (DOMAIN q) /\ a[j] = q[j] BY <1>1, <2>1, <2>2
    <3> QED BY <2>1, <3>1 DEF InOrder
  <2>3. CASE j = Len(q) + 1 BY <1>1, <2>1, <2>3 DEF Range
  <2> QED BY <1>1, <2>2, <2>3
<1>4. InOrder(q) \subseteq InOrder(a)
  <2> SUFFICES ASSUME NEW i \in DOMAIN q, NEW j \in DOMAIN q, i < j
               PROVE  <<q[i], q[j]>> \in InOrder(a)
    BY DEF InOrder
  <2>1. <<i, j>> \in (DOMAIN a) \X (DOMAIN a) /\ a[i] = q[i] /\ a[j] = q[j] BY <1>1
  <2> QED BY <2>1 DEF InOrder
<1>5. Range(q) \X {m} \subseteq InOrder(a)
  <2> SUFFICES ASSUME NEW i \in DOMAIN q PROVE <<q[i], m>> \in InOrder(a) BY DEF Range
  <2>1. <<i, Len(q) + 1>> \in (DOMAIN a) \X (DOMAIN a) /\ i < Len(q) + 1
        /\ a[i] = q[i] /\ a[Len(q) + 1] = m
    BY <1>1
  <2> QED BY <2>1 DEF InOrder
<1> QED BY <1>2, <1>3, <1>4, <1>5 DEF a

LEMMA HeadOrder ==
  ASSUME NEW q \in Seq(Msg), q # <<>>
  PROVE  /\ Head(q) \in Range(q) /\ Range(Tail(q)) \subseteq Range(q)
         /\ InOrder(Tail(q)) \subseteq InOrder(q)
         /\ {Head(q)} \X Range(Tail(q)) \subseteq InOrder(q)
<1> DEFINE t == Tail(q)
<1>1. /\ DOMAIN q = 1..Len(q) /\ Len(q) \in Nat \ {0} /\ DOMAIN t = 1..(Len(q) - 1)
      /\ Head(q) = q[1] /\ \A i \in DOMAIN t : i + 1 \in DOMAIN q /\ t[i] = q[i + 1]
  OBVIOUS
<1> HIDE DEF t
<1>2. Head(q) \in Range(q) /\ Range(t) \subseteq Range(q) BY <1>1 DEF Range
<1>3. InOrder(t) \subseteq InOrder(q)
  <2> SUFFICES ASSUME NEW i \in DOMAIN t, NEW j \in DOMAIN t, i < j
               PROVE  <<t[i], t[j]>> \in InOrder(q)
    BY DEF InOrder
  <2>1. <<i + 1, j + 1>> \in (DOMAIN q) \X (DOMAIN q) /\ i + 1 < j + 1
        /\ t[i] = q[i + 1] /\ t[j] = q[j + 1]
    BY <1>1
  <2> QED BY <2>1 DEF InOrder
<1>4. {Head(q)} \X Range(t) \subseteq InOrder(q)
  <2> SUFFICES ASSUME NEW j \in DOMAIN t PROVE <<Head(q), t[j]>> \in InOrder(q) BY DEF Range
  <2>1. <<1, j + 1>> \in (DOMAIN q) \X (DOMAIN q) /\ 1 < j + 1 /\ t[j] = q[j + 1] BY <1>1
  <2> QED BY <1>1, <2>1 DEF InOrder
<1> QED BY <1>2, <1>3, <1>4 DEF t

LEMMA NoOrder == Range(<<>>) = {} /\ InOrder(<<>>) = {}
BY DEF Range, InOrder

\* A message is published once, by the end of its request.
OnceInv == \A m \in Range(published) : run[m] = NoRun /\ <<m, m>> \notin InOrder(published)

\* What a process has still to hear, what it is sending and what its sockets
\* have heard follow each other as they were published.
InboxInv(p) ==
  /\ Range(inbox[p]) \subseteq Range(published)
  /\ InOrder(inbox[p]) \subseteq InOrder(published)
SendingInv(p) ==
  run[p].at = "sending" =>
    /\ run[p].m \in Range(published)
    /\ {run[p].m} \X Range(inbox[p]) \subseteq InOrder(published)
HeardInv(s) ==
  /\ Range(heard[s]) \subseteq Range(published)
  /\ InOrder(heard[s]) \subseteq InOrder(published)
  /\ Range(heard[s]) \X Range(inbox[Home[s]]) \subseteq InOrder(published)
  /\ run[Home[s]].at = "sending" /\ s \in run[Home[s]].left =>
       Range(heard[s]) \X {run[Home[s]].m} \subseteq InOrder(published)
OrderInv ==
  /\ OnceInv
  /\ \A p \in Proc : InboxInv(p) /\ SendingInv(p)
  /\ \A s \in Socket : HeardInv(s)

\* Nothing is published or heard; inboxes and runs go on or are dropped.
LEMMA OrderQuiet ==
  ASSUME AllOK, OrderInv, UNCHANGED <<published, heard>>,
         \A m \in Msg : run[m] = NoRun => run'[m] = NoRun,
         \A p \in Proc : /\ inbox'[p] \in {inbox[p], <<>>}
                         /\ run'[p] = run[p] \/ run'[p].at = "idle"
  PROVE  OrderInv'
<1>1. \A p \in Proc : Range(inbox'[p]) \subseteq Range(inbox[p])
                      /\ InOrder(inbox'[p]) \subseteq InOrder(inbox[p])
  BY NoOrder
<1>2. Range(published) \subseteq Msg BY DEF AllOK, HistoryOK, Range
<1>3. OnceInv' BY <1>2 DEF OrderInv, OnceInv
<1>4. \A p \in Proc : InboxInv(p)' BY <1>1 DEF OrderInv, InboxInv
<1>5. \A p \in Proc : SendingInv(p)' BY <1>1 DEF OrderInv, SendingInv
<1>6. ASSUME NEW s \in Socket PROVE HeardInv(s)'
  <2> DEFINE p == Home[s]
  <2>1. p \in Proc BY ChannelAssumption
  <2>2. HeardInv(s) BY DEF OrderInv
  <2>3. Range(heard[s]) \X Range(inbox'[p]) \subseteq InOrder(published)
    BY <1>1, <2>1, <2>2 DEF HeardInv
  <2>4. run'[p].at = "sending" => run'[p] = run[p] BY <2>1
  <2>5. run'[p].at = "sending" /\ s \in run'[p].left =>
          Range(heard[s]) \X {run'[p].m} \subseteq InOrder(published)
    BY <2>2, <2>4 DEF HeardInv
  <2> QED BY <2>2, <2>3, <2>5 DEF HeardInv
<1> QED BY <1>3, <1>4, <1>5, <1>6 DEF OrderInv


LEMMA SendOrder == ASSUME AllOK, OrderInv, NEW k \in Msg \cup Proc, Send(k) PROVE OrderInv'
<1>1. PICK s \in run[k].left :
        /\ run' = [run EXCEPT ![k] = After1(k, s)]
        /\ IF peer[s] THEN Sent(s, run[k].m, k) ELSE UNCHANGED <<own, heard>>
  BY SendRun
<1>2. run[k].at = "sending" /\ UNCHANGED <<published, inbox>> BY DEF Send
<1>3. /\ run[k].left \subseteq Socket /\ run[k].m \in Msg
      /\ k \in Proc => run[k].p = k /\ run[k].left \subseteq At(k)
  BY <1>2, SendingRun DEF AllOK
<1>4. \A x \in Msg \cup Proc : run'[x] = IF x = k THEN After1(k, s) ELSE run[x]
  BY <1>1 DEF AllOK, RunsOK
<1>5. \A x \in Msg \cup Proc :
        /\ run[x] = NoRun => run'[x] = NoRun
        /\ run'[x].at = "sending" =>
             run[x].at = "sending" /\ run'[x].m = run[x].m /\ run'[x].left \subseteq run[x].left
  BY <1>2, <1>4 DEF After1, NoRun
<1>6. OnceInv'
  <2>1. Range(published) \subseteq Msg BY DEF AllOK, HistoryOK, Range
  <2> QED BY <1>2, <1>5, <2>1 DEF OrderInv, OnceInv
<1>7. \A p \in Proc : InboxInv(p)' BY <1>2 DEF OrderInv, InboxInv
<1>8. \A p \in Proc : SendingInv(p)' BY <1>2, <1>5 DEF OrderInv, SendingInv
<1>9. ASSUME NEW y \in Socket PROVE HeardInv(y)'
  <2> DEFINE p == Home[y]
  <2>1. p \in Proc /\ HeardInv(y) BY ChannelAssumption DEF OrderInv
  <2>2. CASE heard'[y] = heard[y]
    <3>1. run'[p].at = "sending" /\ y \in run'[p].left =>
            Range(heard[y]) \X {run'[p].m} \subseteq InOrder(published)
      BY <1>5, <2>1 DEF HeardInv
    <3> QED BY <1>2, <2>1, <2>2, <3>1 DEF HeardInv
  <2>3. CASE y = s /\ k \in Proc /\ heard' = [heard EXCEPT ![s] = Append(@, run[k].m)]
    <3>1. k = p BY <1>3, <2>3 DEF At
    <3>2. heard[y] \in Seq(Msg) /\ heard'[y] = Append(heard[y], run[k].m)
      BY <2>3 DEF AllOK, HistoryOK
    <3>3. /\ Range(heard'[y]) = Range(heard[y]) \cup {run[k].m}
          /\ InOrder(heard'[y]) = InOrder(heard[y]) \cup (Range(heard[y]) \X {run[k].m})
      BY <1>3, <3>2, AppendOrder
    <3>4. /\ Range(heard[y]) \X {run[k].m} \subseteq InOrder(published)
          /\ Range(heard[y]) \X Range(inbox[p]) \subseteq InOrder(published)
      BY <1>2, <2>1, <2>3, <3>1 DEF HeardInv
    <3>5. run[k].m \in Range(published) /\ {run[k].m} \X Range(inbox[p]) \subseteq InOrder(published)
      BY <1>2, <2>1, <3>1 DEF OrderInv, SendingInv
    <3>6. y \notin run'[p].left BY <1>4, <2>3, <3>1 DEF After1
    <3>7. Range(heard'[y]) \subseteq Range(published) /\ InOrder(heard'[y]) \subseteq InOrder(published)
      BY <2>1, <3>3, <3>4, <3>5 DEF HeardInv
    <3>8. Range(heard'[y]) \X Range(inbox[p]) \subseteq InOrder(published)
      BY <3>3, <3>4, <3>5
    <3> QED BY <1>2, <3>6, <3>7, <3>8 DEF HeardInv
  <2>4. heard' = heard \/ (k \in Proc /\ heard' = [heard EXCEPT ![s] = Append(@, run[k].m)])
    BY <1>1 DEF Sent
  <2>5. heard \in [Socket -> Seq(Msg)] BY DEF AllOK, HistoryOK
  <2> QED BY <2>2, <2>3, <2>4, <2>5
<1> QED BY <1>6, <1>7, <1>8, <1>9 DEF OrderInv

LEMMA HearOrder == ASSUME AllOK, OrderInv, NEW p \in Proc, Hear(p) PROVE OrderInv'
<1> DEFINE m == Head(inbox[p])
<1>1. /\ inbox[p] \in Seq(Msg) /\ inbox[p] # <<>> /\ UNCHANGED <<heard, published>>
      /\ inbox' = [inbox EXCEPT ![p] = Tail(@)] /\ run' = [run EXCEPT ![p] = Sending(p, m)]
  BY DEF Hear, AllOK, ListenersOK
<1>2. /\ m \in Range(inbox[p]) /\ Range(Tail(inbox[p])) \subseteq Range(inbox[p])
      /\ InOrder(Tail(inbox[p])) \subseteq InOrder(inbox[p])
      /\ {m} \X Range(Tail(inbox[p])) \subseteq InOrder(inbox[p])
  BY <1>1, HeadOrder
<1>3. \A x \in Msg \cup Proc : run'[x] = IF x = p THEN Sending(p, m) ELSE run[x]
  BY <1>1 DEF AllOK, RunsOK
<1>4. \A q \in Proc : inbox'[q] = IF q = p THEN Tail(inbox[p]) ELSE inbox[q]
  BY <1>1 DEF AllOK, ListenersOK
<1> HIDE DEF m
<1>5. OnceInv'
  <2>1. Range(published) \subseteq Msg BY DEF AllOK, HistoryOK, Range
  <2>2. \A x \in Msg : run'[x] = run[x] BY <1>3, ChannelAssumption
  <2> QED BY <1>1, <2>1, <2>2 DEF OrderInv, OnceInv
<1>6. \A q \in Proc : InboxInv(q)' BY <1>1, <1>2, <1>4 DEF OrderInv, InboxInv
<1>7. \A q \in Proc : SendingInv(q)'
  <2> SUFFICES ASSUME NEW q \in Proc PROVE SendingInv(q)' OBVIOUS
  <2>1. CASE q # p BY <1>1, <1>3, <1>4, <2>1 DEF OrderInv, SendingInv
  <2>2. CASE q = p
    <3>1. InboxInv(p) BY DEF OrderInv
    <3>2. run'[p].m = m BY <1>3 DEF Sending
    <3>3. m \in Range(published) /\ {m} \X Range(inbox'[p]) \subseteq InOrder(published)
      BY <1>2, <1>4, <3>1 DEF InboxInv
    <3> QED BY <1>1, <2>2, <3>2, <3>3 DEF SendingInv
  <2> QED BY <2>1, <2>2
<1>8. ASSUME NEW s \in Socket PROVE HeardInv(s)'
  <2>1. Home[s] \in Proc /\ HeardInv(s) BY ChannelAssumption DEF OrderInv
  <2>2. CASE Home[s] # p BY <1>1, <1>3, <1>4, <2>1, <2>2 DEF HeardInv
  <2>3. CASE Home[s] = p
    <3>1. run'[p].m = m BY <1>3 DEF Sending
    <3>2. Range(heard[s]) \X Range(inbox'[p]) \subseteq InOrder(published)
      BY <1>2, <1>4, <2>1, <2>3 DEF HeardInv
    <3>3. Range(heard[s]) \X {m} \subseteq InOrder(published) BY <1>2, <2>1, <2>3 DEF HeardInv
    <3> QED BY <1>1, <2>1, <2>3, <3>1, <3>2, <3>3 DEF HeardInv
  <2> QED BY <2>2, <2>3
<1> QED BY <1>5, <1>6, <1>7, <1>8 DEF OrderInv

LEMMA PublishOrder == ASSUME AllOK, OrderInv, NEW m \in Msg, Publish(m) PROVE OrderInv'
<1>1. /\ run[m].at = "publish" /\ UNCHANGED heard
      /\ \A x \in Msg \cup Proc : run'[x] = IF x = m THEN NoRun ELSE run[x]
  BY DEF Publish, AllOK, RunsOK
<1>2. \A p \in Proc : run'[p] = run[p] BY <1>1, ChannelAssumption
<1>3. CASE redis # "up"
  <2>1. UNCHANGED <<published, inbox>> BY <1>3 DEF Publish
  <2> QED BY <1>1, <1>2, <2>1, OrderQuiet
<1>4. CASE redis = "up"
  <2>1. published' = Append(published, m) /\ published \in Seq(Msg)
    BY <1>4 DEF Publish, AllOK, HistoryOK
  <2>2. /\ Range(published') = Range(published) \cup {m}
        /\ InOrder(published') = InOrder(published) \cup (Range(published) \X {m})
    BY <2>1, AppendOrder
  <2>3. ASSUME NEW p \in Proc
        PROVE  /\ Range(inbox'[p]) \subseteq Range(inbox[p]) \cup {m}
               /\ InOrder(inbox'[p]) \subseteq InOrder(inbox[p]) \cup (Range(inbox[p]) \X {m})
    <3>1. inbox'[p] = inbox[p] \/ inbox'[p] = Append(inbox[p], m) BY <1>4 DEF Publish
    <3>2. inbox[p] \in Seq(Msg) BY DEF AllOK, ListenersOK
    <3> QED BY <3>1, <3>2, AppendOrder
  <2>4. OnceInv'
    <3>1. m \notin Range(published)
      <4>1. run[m] # NoRun BY <1>1 DEF NoRun
      <4> QED BY <4>1 DEF OrderInv, OnceInv
    <3>2. Range(published) \subseteq Msg BY DEF AllOK, HistoryOK, Range
    <3>3. <<m, m>> \notin InOrder(published)
      <4>1. InOrder(published) \subseteq Range(published) \X Range(published) BY DEF InOrder, Range
      <4> QED BY <3>1, <4>1
    <3> QED BY <1>1, <2>2, <3>1, <3>2, <3>3 DEF OrderInv, OnceInv
  <2>5. \A p \in Proc : InboxInv(p)' BY <2>2, <2>3 DEF OrderInv, InboxInv
  <2>6. ASSUME NEW p \in Proc PROVE SendingInv(p)'
    BY <1>2, <2>2, <2>3 DEF OrderInv, SendingInv
  <2>7. ASSUME NEW s \in Socket PROVE HeardInv(s)'
    <3> DEFINE p == Home[s]
    <3>1. p \in Proc /\ HeardInv(s) BY ChannelAssumption DEF OrderInv
    <3>2. Range(heard[s]) \X Range(inbox'[p]) \subseteq InOrder(published')
      BY <2>2, <2>3, <3>1 DEF HeardInv
    <3>3. run'[p].at = "sending" /\ s \in run'[p].left =>
            Range(heard[s]) \X {run'[p].m} \subseteq InOrder(published')
      BY <1>2, <2>2, <3>1 DEF HeardInv
    <3> QED BY <1>1, <2>2, <3>1, <3>2, <3>3 DEF HeardInv
  <2> QED BY <2>4, <2>5, <2>6, <2>7 DEF OrderInv
<1> QED BY <1>3, <1>4

LEMMA OrderStep == ASSUME AllOK, OrderInv, [Next]_vars PROVE OrderInv'
<1>1. CASE UNCHANGED <<published, heard, inbox, run>> BY <1>1, OrderQuiet
<1>2. ASSUME NEW m \in Msg, NEW p \in Proc, Broadcast(p, m) PROVE OrderInv'
  <2>1. /\ run[m] = Fresh /\ UNCHANGED <<published, heard, inbox>>
        /\ \A x \in Msg \cup Proc : run'[x] = IF x = m THEN Sending(p, m) ELSE run[x]
    BY <1>2 DEF Broadcast, AllOK, RunsOK
  <2>2. \A x \in Proc : run'[x] = run[x] BY <2>1, ChannelAssumption
  <2>3. \A x \in Msg : run[x] = NoRun => run'[x] = NoRun BY <2>1 DEF Fresh, NoRun
  <2> QED BY <2>1, <2>2, <2>3, OrderQuiet
<1>3. ASSUME NEW k \in Msg \cup Proc, DropDead(k) PROVE OrderInv'
  <2>1. /\ run[k].at = "sending" /\ UNCHANGED <<published, heard, inbox>>
        /\ \A x \in Msg \cup Proc : run'[x] = IF x = k THEN After(k) ELSE run[x]
    BY <1>3 DEF DropDead, AllOK, RunsOK
  <2>2. \A x \in Proc : run'[x] = run[x] \/ run'[x].at = "idle"
    BY <2>1, ChannelAssumption DEF After, NoRun
  <2>3. \A x \in Msg : run[x] = NoRun => run'[x] = NoRun BY <2>1 DEF NoRun
  <2> QED BY <2>1, <2>2, <2>3, OrderQuiet
<1>4. ASSUME NEW p \in Proc, Restart(p) PROVE OrderInv'
  <2>1. /\ UNCHANGED <<published, heard>>
        /\ \A x \in Msg \cup Proc : run'[x] \in {NoRun, run[x]}
        /\ \A q \in Proc : inbox'[q] \in {inbox[q], <<>>}
    BY <1>4 DEF Restart, AllOK, ListenersOK
  <2>2. NoRun.at = "idle" BY DEF NoRun
  <2> QED BY <2>1, <2>2, OrderQuiet
<1>5. CASE Rest
  <2>1. /\ UNCHANGED <<published, heard, run>>
        /\ \A q \in Proc : inbox'[q] \in {inbox[q], <<>>}
    BY <1>5 DEF Rest, RedisDown, RedisUp, Subscribe, ListenFails, procVars, AllOK, ListenersOK
  <2> QED BY <2>1, OrderQuiet
<1>6. CASE UNCHANGED vars BY <1>1, <1>6 DEF vars, procVars
<1>7. CASE \E s \in Socket : Endpoint(s) \/ HangUp(s)
  BY <1>1, <1>7 DEF Endpoint, Refuse, Accept, Register, Disconnect, Stage, HangUp, procVars
<1> QED BY <1>2, <1>3, <1>4, <1>5, <1>6, <1>7, SendOrder, HearOrder, PublishOrder, Steps

\* What a socket hears from Redis it hears once and in the order of publication,
\* and a broadcast reaches it once more from its own process at most: also when
\* it registers late, its process is slow or restarts, or Redis comes and goes.
THEOREM OnceEachWayCorrect == Spec => []OnceEachWayInOrder
<1> DEFINE IInv == AllOK /\ OwnInv /\ OrderInv
<1>1. Init => OwnInv /\ OrderInv
  <2> SUFFICES ASSUME Init PROVE OwnInv /\ OrderInv OBVIOUS
  <2>1. published = <<>> /\ (\A s \in Socket : heard[s] = <<>>) /\ (\A p \in Proc : inbox[p] = <<>>)
    BY DEF Init
  <2>2. OwnInv BY DEF Init, OwnInv
  <2>3. \A p \in Proc : run[p] = NoRun BY ChannelAssumption DEF Init
  <2>4. OnceInv BY <2>1, NoOrder DEF OnceInv
  <2>5. \A p \in Proc : InboxInv(p) /\ SendingInv(p)
    BY <2>1, <2>3, NoOrder DEF InboxInv, SendingInv, NoRun
  <2>6. \A s \in Socket : HeardInv(s)
    <3> SUFFICES ASSUME NEW s \in Socket PROVE HeardInv(s) OBVIOUS
    <3>1. heard[s] = <<>> BY <2>1
    <3> QED BY <3>1, NoOrder DEF HeardInv
  <2> QED BY <2>2, <2>4, <2>5, <2>6 DEF OrderInv
<1>2. IInv /\ [Next]_vars => IInv' BY NextTypes, OwnStep, OrderStep
<1>3. IInv => OnceEachWayInOrder
  <2> SUFFICES ASSUME AllOK, OwnInv, OrderInv, NEW s \in Socket
               PROVE  /\ \A m \in Msg : own[s][m] <= 1
                      /\ \A m \in Msg : <<m, m>> \notin InOrder(heard[s])
                      /\ InOrder(heard[s]) \subseteq InOrder(published)
    BY DEF OnceEachWayInOrder
  <2>1. InOrder(heard[s]) \subseteq InOrder(published) BY DEF OrderInv, HeardInv
  <2>2. InOrder(published) \subseteq Range(published) \X Range(published) BY DEF InOrder, Range
  <2>3. \A m \in Msg : <<m, m>> \notin InOrder(published) BY <2>2 DEF OrderInv, OnceInv
  <2> QED BY <2>1, <2>3 DEF OwnInv
<1> HIDE DEF IInv
<1>4. Spec => []IInv
  <2>1. Init => IInv BY <1>1, InitTypes DEF IInv
  <2> QED BY <2>1, <1>2, PTL DEF Spec
<1> QED BY <1>3, <1>4, PTL
=============================================================================
