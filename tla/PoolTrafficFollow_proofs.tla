---------------------- MODULE PoolTrafficFollow_proofs ----------------------
(***************************************************************************)
(* RelayFollowsPool of PoolTraffic, for every set of tasks, urls and       *)
(* subscriptions and for every capacity: whatever is resent, queued and    *)
(* lost on the way, a connected relay ends up with the pool's value of a   *)
(* subscription unless it was last sent an older one.                      *)
(***************************************************************************)
EXTENDS PoolTraffic_proofs, RelayPoolSafety_proofs

\* A value of s's id, in a queue of inputs: the last one is s, or there is none.
Same(i, s) == i \in Subscription /\ i.id = s.id

LastIn(q, s) ==
    \E k \in DOMAIN q : q[k] = s /\ \A j \in DOMAIN q : j > k => ~Same(q[j], s)

NoneIn(q, s) == \A j \in DOMAIN q : ~Same(q[j], s)

\* s is what the pool is sending to t.
Coming(t, s) == job.to # NoTask /\ job.input = s /\ t \in {job.to} \cup job.rest

\* s is the last value of its id in what t has to handle.
Waiting(t, s) ==
    \/ LastIn(inputs[t], s)
    \/ NoneIn(inputs[t], s) /\ LastIn(input_queue[t], s)

Quiet(t, s) == NoneIn(inputs[t], s) /\ NoneIn(input_queue[t], s)

\* t has s open, or the pool is to send it because t connected, or will.
Opened(t) == [url |-> UrlOf[t], event |-> "ConnectedToSocket"]

WillHave(t, s) ==
    \/ ~Connected(t)
    \/ s \in open[t]
    \/ resend[t][s] > 0
    \/ \E i \in DOMAIN toPool : toPool[i] = Opened(t)

Follows(t, s) == Coming(t, s) \/ Waiting(t, s) \/ (Quiet(t, s) /\ WillHave(t, s))

FollowInv ==
    \A t \in Listening, s \in subscriptions : s.id \in behind[t] \/ Follows(t, s)

\* A task has received nothing before it is spawned; the pool has one value of
\* an id, and no one to send to between two commands.
Fresh(t) ==
    state[t] = "Unspawned" =>
        /\ inputs[t] = <<>> /\ input_queue[t] = <<>>
        /\ \A s \in Subscription : resend[t][s] = 0

FreshInv ==
    /\ \A t \in Task : Fresh(t)
    /\ \A r, s \in subscriptions : r.id = s.id => r = s
    /\ job.to = NoTask => job.rest = {}

PoolInv == TypeInv /\ ListenerInv /\ JobInv

-----------------------------------------------------------------------------
(* Queues. *)

LEMMA AppendedLast ==
    ASSUME NEW S, NEW q \in Seq(S), NEW i \in S, NEW s \in Subscription
    PROVE  /\ i = s => LastIn(Append(q, i), s)
           /\ ~Same(i, s) /\ LastIn(q, s) => LastIn(Append(q, i), s)
           /\ ~Same(i, s) /\ NoneIn(q, s) => NoneIn(Append(q, i), s)
<1> DEFINE a == Append(q, i)
<1>1. /\ Len(q) \in Nat /\ DOMAIN q = 1 .. Len(q) /\ DOMAIN a = 1 .. Len(q) + 1
      /\ a[Len(q) + 1] = i /\ \A k \in DOMAIN q : a[k] = q[k]
  OBVIOUS
<1> HIDE DEF a
<1>2. ASSUME i = s PROVE LastIn(a, s)
  <2>1. Len(q) + 1 \in DOMAIN a /\ a[Len(q) + 1] = s BY <1>1, <1>2
  <2>2. \A j \in DOMAIN a : ~(j > Len(q) + 1) BY <1>1
  <2>3. QED BY <2>1, <2>2 DEF LastIn
<1>3. ASSUME ~Same(i, s), LastIn(q, s) PROVE LastIn(a, s)
  <2>1. PICK k \in DOMAIN q : q[k] = s /\ \A j \in DOMAIN q : j > k => ~Same(q[j], s)
    BY <1>3 DEF LastIn
  <2>2. k \in DOMAIN a /\ a[k] = s BY <1>1, <2>1
  <2>3. ASSUME NEW j \in DOMAIN a, j > k PROVE ~Same(a[j], s)
    <3>1. CASE j \in DOMAIN q
      <4>1. a[j] = q[j] BY <1>1, <3>1
      <4>2. ~Same(q[j], s) BY <2>1, <2>3, <3>1
      <4>3. QED BY <4>1, <4>2
    <3>2. CASE j \notin DOMAIN q
      <4>1. j = Len(q) + 1 BY <1>1, <3>2
      <4>2. QED BY <1>1, <1>3, <4>1
    <3>3. QED BY <3>1, <3>2
  <2>4. QED BY <2>2, <2>3 DEF LastIn
<1>4. ASSUME ~Same(i, s), NoneIn(q, s) PROVE NoneIn(a, s)
  <2>1. ASSUME NEW j \in DOMAIN a PROVE ~Same(a[j], s)
    <3>1. CASE j \in DOMAIN q
      <4>1. a[j] = q[j] BY <1>1, <3>1
      <4>2. ~Same(q[j], s) BY <1>4, <3>1 DEF NoneIn
      <4>3. QED BY <4>1, <4>2
    <3>2. CASE j \notin DOMAIN q
      <4>1. j = Len(q) + 1 BY <1>1, <3>2
      <4>2. QED BY <1>1, <1>4, <4>1
    <3>3. QED BY <3>1, <3>2
  <2>2. QED BY <2>1 DEF NoneIn
<1>5. QED BY <1>2, <1>3, <1>4 DEF a

LEMMA LastBehindHead ==
    ASSUME NEW S, NEW q \in Seq(S), q # <<>>, NEW s \in Subscription
    PROVE  /\ LastIn(q, s) => LastIn(Tail(q), s) \/ (Head(q) = s /\ NoneIn(Tail(q), s))
           /\ NoneIn(q, s) => NoneIn(Tail(q), s) /\ ~Same(Head(q), s)
<1> DEFINE r == Tail(q)
<1>1. /\ \A i \in DOMAIN q : i # 1 => i - 1 \in DOMAIN r /\ r[i - 1] = q[i]
      /\ \A i \in DOMAIN r : i + 1 \in DOMAIN q /\ r[i] = q[i + 1]
      /\ DOMAIN q \subseteq Nat /\ DOMAIN r \subseteq Nat
      /\ 1 \in DOMAIN q /\ Head(q) = q[1]
      /\ \A i \in DOMAIN r : i >= 1
  <2>1. \A i \in DOMAIN r : i >= 1 OBVIOUS
  <2>2. QED BY TailShifts, <2>1
<1> HIDE DEF r
<1>2. ASSUME LastIn(q, s) PROVE LastIn(r, s) \/ (Head(q) = s /\ NoneIn(r, s))
  <2>1. PICK k \in DOMAIN q : q[k] = s /\ \A j \in DOMAIN q : j > k => ~Same(q[j], s)
    BY <1>2 DEF LastIn
  <2>2. CASE k = 1
    <3>1. Head(q) = s BY <1>1, <2>1, <2>2
    <3>2. ASSUME NEW j \in DOMAIN r PROVE ~Same(r[j], s)
      <4>1. j + 1 \in DOMAIN q /\ r[j] = q[j + 1] BY <1>1
      <4>2. j + 1 > k BY <1>1, <2>2
      <4>3. QED BY <2>1, <4>1, <4>2
    <3>3. QED BY <3>1, <3>2 DEF NoneIn
  <2>3. CASE k # 1
    <3>1. k - 1 \in DOMAIN r /\ r[k - 1] = s BY <1>1, <2>1, <2>3
    <3>2. ASSUME NEW j \in DOMAIN r, j > k - 1 PROVE ~Same(r[j], s)
      <4>1. j + 1 \in DOMAIN q /\ r[j] = q[j + 1] BY <1>1
      <4>2. j + 1 > k BY <1>1, <3>2
      <4>3. QED BY <2>1, <4>1, <4>2
    <3>3. QED BY <3>1, <3>2 DEF LastIn
  <2>4. QED BY <2>2, <2>3
<1>3. ASSUME NoneIn(q, s) PROVE NoneIn(r, s) /\ ~Same(Head(q), s)
  <2>1. ~Same(Head(q), s) BY <1>1, <1>3 DEF NoneIn
  <2>2. \A j \in DOMAIN r : ~Same(r[j], s) BY <1>1, <1>3 DEF NoneIn
  <2>3. QED BY <2>1, <2>2 DEF NoneIn
<1>4. QED BY <1>2, <1>3 DEF r

LEMMA EmptyQueue == ASSUME NEW s PROVE NoneIn(<<>>, s) /\ ~LastIn(<<>>, s)
BY DEF NoneIn, LastIn

-----------------------------------------------------------------------------
(* What leaves a task's part of Follows alone. *)

LEMMA StillQueued ==
    ASSUME NEW t \in Task, NEW s \in Subscription,
           inputs'[t] = inputs[t], input_queue'[t] = input_queue[t]
    PROVE  (Waiting(t, s) => Waiting(t, s)') /\ (Quiet(t, s) => Quiet(t, s)')
BY DEF Waiting, Quiet, LastIn, NoneIn, Same

LEMMA StillWillHave ==
    ASSUME NEW t \in Task, NEW s \in Subscription, WillHave(t, s), toPool \in Seq(RelayToPool),
           state'[t] = state[t], s \in open[t] => s \in open'[t], resend[t][s] > 0 => resend'[t][s] > 0,
           toPool' = toPool \/ \E e \in RelayToPool : toPool' = Append(toPool, e)
    PROVE  WillHave(t, s)'
<1>1. ASSUME NEW i \in DOMAIN toPool PROVE i \in DOMAIN toPool' /\ toPool'[i] = toPool[i]
  <2>1. CASE toPool' = toPool BY <2>1
  <2>2. ASSUME NEW e \in RelayToPool, toPool' = Append(toPool, e)
        PROVE  i \in DOMAIN toPool' /\ toPool'[i] = toPool[i]
    BY <2>2
  <2>3. QED BY <2>1, <2>2
<1>2. QED BY <1>1 DEF WillHave, Connected, Opened

LEMMA StillFollows ==
    ASSUME NEW t \in Task, NEW s \in Subscription, Follows(t, s), toPool \in Seq(RelayToPool),
           Coming(t, s) => Coming(t, s)',
           inputs'[t] = inputs[t], input_queue'[t] = input_queue[t],
           state'[t] = state[t], s \in open[t] => s \in open'[t], resend[t][s] > 0 => resend'[t][s] > 0,
           toPool' = toPool \/ \E e \in RelayToPool : toPool' = Append(toPool, e)
    PROVE  Follows(t, s)'
<1>1. CASE Coming(t, s) BY <1>1 DEF Follows
<1>2. CASE Waiting(t, s) BY <1>2, StillQueued DEF Follows
<1>3. CASE Quiet(t, s) /\ WillHave(t, s) BY <1>3, StillQueued, StillWillHave DEF Follows
<1>4. QED BY <1>1, <1>2, <1>3 DEF Follows

LEMMA PoolTypes ==
    ASSUME TypeInv
    PROVE  /\ toPool \in Seq(RelayToPool)
           /\ inputs \in [Task -> Seq(RelayInput)]
           /\ state \in [Task -> RelayStatus \cup {"Unspawned", "Ended"}]
           /\ resend \in [Task -> [Subscription -> Nat]]
           /\ relays \in [Url -> Task \cup {NoTask}]
           /\ Listening \subseteq Task
           /\ subscriptions \subseteq Subscription
           /\ Subscription \subseteq Payload /\ Payload \subseteq RelayInput
           /\ NoTask \notin Task /\ UrlOf \in [Task -> Url]
BY PoolAssumption, RelayAssumption DEF TypeInv, TypeOK, RelayTypeOK, Listening, RelayInput

-----------------------------------------------------------------------------
(* The steps of a task. *)

\* A value the task handles is open afterwards, and no request of another id ends.
LEMMA HandledIsOpen ==
    ASSUME TrafficInv, NEW t \in Task, NEW i, handle_other_inputs_connected(t, i),
           NEW s \in Subscription
    PROVE  /\ i = s => s \in open'[t]
           /\ ~Same(i, s) /\ s \in open[t] => s \in open'[t]
           /\ \A r \in Task : r # t => open'[r] = open[r]
BY DEF handle_other_inputs_connected, subscribe, Insert, Same, TrafficInv

LEMMA ReceivingFollows ==
    ASSUME TypeInv, TrafficInv, NEW t \in Task, Receiving(t),
           NEW s \in Subscription, Follows(t, s)
    PROVE  Follows(t, s)'
<1> DEFINE i == Head(inputs[t])
<1>1. /\ inputs[t] # <<>> /\ inputs' = [inputs EXCEPT ![t] = Tail(inputs[t])]
      /\ toPool' = toPool /\ state' = state /\ job' = job /\ resend' = resend
  BY DEF Receiving, ReceiveStep, poolVars, TakeInput, TerminatedReconnect, TerminatedOther,
         DisconnectedClose, DisconnectedReconnect, DisconnectedOther, ConnectingClose,
         ConnectingOther, ConnectedClose, ConnectedOther, Receive, NextInput
<1>2. inputs[t] \in Seq(RelayInput) /\ inputs'[t] = Tail(inputs[t])
  BY <1>1, PoolTypes
<1>3. CASE Coming(t, s) BY <1>1, <1>3 DEF Coming, Follows
<1>4. /\ LastIn(inputs[t], s) => LastIn(inputs'[t], s) \/ (i = s /\ NoneIn(inputs'[t], s))
      /\ NoneIn(inputs[t], s) => NoneIn(inputs'[t], s) /\ ~Same(i, s)
  BY <1>1, <1>2, LastBehindHead
<1>5. CASE LastIn(inputs'[t], s) BY <1>5 DEF Follows, Waiting, LastIn, Same
<1>6. input_queue[t] \in Seq(Payload) BY DEF TrafficInv
\* The task handles the input, its queue being empty.
<1>7. CASE i \in Payload /\ Connected(t) /\ handle_other_inputs_connected(t, i)
                         /\ UNCHANGED input_queue
  <2>1. input_queue[t] = <<>> /\ input_queue'[t] = <<>>
    BY <1>7 DEF Receiving, Draining
  <2>2. NoneIn(input_queue'[t], s) /\ ~LastIn(input_queue[t], s) BY <2>1, EmptyQueue
  <2>3. CASE i = s /\ NoneIn(inputs'[t], s)
    <3>1. s \in open'[t] BY <1>7, <2>3, HandledIsOpen
    <3>2. QED BY <2>2, <2>3, <3>1 DEF Follows, Quiet, WillHave, NoneIn, Same
  <2>4. CASE Quiet(t, s) /\ WillHave(t, s)
    <3>1. NoneIn(inputs'[t], s) /\ ~Same(i, s) BY <1>4, <2>4 DEF Quiet
    <3>2. s \in open[t] => s \in open'[t] BY <1>7, <3>1, HandledIsOpen
    <3>3. WillHave(t, s)' BY <1>1, <2>4, <3>2, StillWillHave, PoolTypes
    <3>4. QED BY <2>2, <3>1, <3>3 DEF Follows, Quiet, NoneIn, Same
  <2>5. QED BY <1>3, <1>4, <1>5, <2>2, <2>3, <2>4 DEF Follows, Waiting
\* It keeps it for the next connection.
<1>8. CASE i \in Payload /\ ~Connected(t) /\ handle_input_disconnected_other(t, i)
  <2>1. ~Connected(t)' BY <1>1, <1>8 DEF Connected
  <2>2. input_queue'[t] = Append(input_queue[t], i) \/ (i \notin Subscription /\ input_queue'[t] = input_queue[t])
    BY <1>8, SubscriptionAssumption DEF handle_input_disconnected_other, Queued, TrafficInv
  <2>3. /\ i = s => LastIn(input_queue'[t], s)
        /\ ~Same(i, s) /\ LastIn(input_queue[t], s) => LastIn(input_queue'[t], s)
        /\ ~Same(i, s) /\ NoneIn(input_queue[t], s) => NoneIn(input_queue'[t], s)
    BY <1>6, <1>8, <2>2, AppendedLast
  <2>4. QED
    BY <1>3, <1>4, <1>5, <2>1, <2>3
       DEF Follows, Waiting, Quiet, WillHave, LastIn, NoneIn, Same
\* It is for the connection.
<1>9. CASE i \in {Close, Reconnect} /\ UNCHANGED <<held, input_queue, open>>
  <2>1. i \notin Subscription
    BY <1>9, PoolTypes, InputKinds
  <2>2. i # s /\ ~Same(i, s) BY <2>1 DEF Same
  <2>3. WillHave(t, s) => WillHave(t, s)' BY <1>1, <1>9, StillWillHave, PoolTypes
  <2>4. QED
    BY <1>3, <1>4, <1>5, <1>9, <2>2, <2>3 DEF Follows, Waiting, Quiet, LastIn, NoneIn, Same
<1>10. QED BY <1>7, <1>8, <1>9 DEF Receiving

\* An input that is worked off the queue is open.
LEMMA HandleQueuedFollows ==
    ASSUME TrafficInv, NEW t \in Task, HandleQueued(t),
           NEW s \in Subscription, Follows(t, s)
    PROVE  Follows(t, s)'
<1> DEFINE i == Head(input_queue[t])
<1>1. /\ input_queue[t] # <<>> /\ input_queue[t] \in Seq(Payload)
      /\ input_queue'[t] = Tail(input_queue[t])
      /\ handle_other_inputs_connected(t, i)
      /\ UNCHANGED <<job, inputs, state, resend, toPool>>
  BY DEF HandleQueued, Draining, TrafficInv, vars, relayVars, poolVars
<1>2. /\ LastIn(input_queue[t], s)
           => LastIn(input_queue'[t], s) \/ (i = s /\ NoneIn(input_queue'[t], s))
      /\ NoneIn(input_queue[t], s) => NoneIn(input_queue'[t], s) /\ ~Same(i, s)
  BY <1>1, LastBehindHead
<1>3. CASE Coming(t, s) BY <1>1, <1>3 DEF Follows, Coming
<1>5. CASE LastIn(inputs[t], s) BY <1>1, <1>5 DEF Follows, Waiting, LastIn, Same
<1>6. CASE NoneIn(inputs[t], s) /\ LastIn(input_queue'[t], s)
  BY <1>1, <1>6 DEF Follows, Waiting, LastIn, NoneIn, Same
<1>7. CASE NoneIn(inputs[t], s) /\ i = s /\ NoneIn(input_queue'[t], s)
  <2>1. s \in open'[t] BY <1>1, <1>7, HandledIsOpen
  <2>2. QED BY <1>1, <1>7, <2>1 DEF Follows, Quiet, WillHave, NoneIn, Same
<1>8. CASE Quiet(t, s) /\ WillHave(t, s)
  <2>1. ~Same(i, s) /\ NoneIn(input_queue'[t], s) BY <1>2, <1>8 DEF Quiet
  <2>2. s \in open[t] => s \in open'[t] BY <1>1, <2>1, HandledIsOpen
  <2>3. QED
    BY <1>1, <1>8, <2>1, <2>2 DEF Follows, Quiet, WillHave, Connected, Opened, NoneIn, Same
<1>9. QED BY <1>2, <1>3, <1>5, <1>6, <1>7, <1>8 DEF Follows, Waiting

\* A task that is listened to keeps its channel and its queue when it moves on: a
\* connection it loses has nothing to have open, and one it makes is announced.
LEMMA ConnectionFollows ==
    ASSUME TypeInv, ListenerInv, TrafficInv, NEW r \in Task, Connection(r),
           NEW t \in Listening, NEW s \in Subscription, Follows(t, s)
    PROVE  Follows(t, s)'
<1>1. /\ t \in Task /\ pool = "running" /\ RelayStep(r)
      /\ toPool \in Seq(RelayToPool) /\ UrlOf[t] \in Url
  BY PoolTypes DEF Connection, RelayStep, ListenerInv
<1>2. /\ UNCHANGED <<job, resend, input_queue>>
      /\ Coming(t, s) => Coming(t, s)'
      /\ open[r] \in SUBSET Subscription
      /\ open'[t] = IF t # r \/ Connected(r)' THEN open[t] ELSE {}
  BY <1>1, RelayStepFrame DEF Connection, poolVars, TrafficInv, Coming
<1>3. inputs'[t] = inputs[t]
  <2>1. CASE t # r BY <1>1, <2>1, RelayStepFrame
  <2>2. CASE t = r
    <3>1. ~EndStep(t) BY <1>1 DEF EndStep, HasSender
    <3>2. SendStep(t) \/ NetworkStep(t) BY <2>2, <3>1 DEF Connection
    <3>3. QED
      BY <3>2 DEF SendStep, SendToPool, NetworkStep, SleepElapsed, SocketLost, ConnectionResult
  <2>3. QED BY <2>1, <2>2
<1>4. (Waiting(t, s) => Waiting(t, s)') /\ (Quiet(t, s) => Quiet(t, s)')
  BY <1>1, <1>2, <1>3, StillQueued
<1>5. ASSUME WillHave(t, s) PROVE WillHave(t, s)'
  <2>1. CASE ~Connected(t)' BY <2>1 DEF WillHave
  <2>2. CASE state'[t] = state[t] /\ Connected(t)'
    <3>1. open'[t] = open[t] BY <1>2, <2>2
    <3>2. toPool' = toPool \/ \E e \in RelayToPool : toPool' = Append(toPool, e)
      <4>1. CASE toPool' = toPool BY <4>1
      <4>2. CASE /\ outgoing[r] \in RelayToPoolEvent
                 /\ toPool' = Append(toPool, [url |-> UrlOf[r], event |-> outgoing[r]])
        BY <1>1, <4>2, PoolTypes DEF RelayToPool
      <4>3. QED BY <1>1, <4>1, <4>2, RelayStepFrame
    <3>3. QED BY <1>1, <1>2, <1>5, <2>2, <3>1, <3>2, StillWillHave
  <2>3. CASE state'[t] # state[t] /\ Connected(t)'
    <3>1. /\ t = r /\ state'[t] = "Connected" /\ state'[t] = StateAfter(outgoing[t])
          /\ toPool' = Append(toPool, [url |-> UrlOf[t], event |-> outgoing[t]])
      BY <1>1, <2>3, RelayStepFrame DEF Connected
    <3>2. outgoing[t] = "ConnectedToSocket" BY <3>1 DEF StateAfter
    <3>3. toPool' = Append(toPool, Opened(t)) BY <3>1, <3>2 DEF Opened
    <3>4. Len(toPool) + 1 \in DOMAIN toPool' /\ toPool'[Len(toPool) + 1] = Opened(t)
      BY <1>1, <3>3
    <3>5. QED BY <3>4 DEF WillHave, Opened
  <2>4. QED BY <2>1, <2>2, <2>3
<1>6. QED BY <1>2, <1>4, <1>5 DEF Follows

-----------------------------------------------------------------------------
(* What the pool and its resends send. *)

LEMMA ListeningRuns ==
    ASSUME ListenerInv, NEW t \in Listening
    PROVE  state[t] \notin {"Unspawned", "Ended"} /\ relays[UrlOf[t]] = t
BY DEF ListenerInv, Listening, RelayStatus

\* After a send t has the value that was sent to come, or was left behind.
LEMMA DeliveredFollows ==
    ASSUME TypeInv, TrafficInv, FreshInv, NEW t \in Task, NEW i \in RelayInput,
           NEW s \in subscriptions, s.id \in behind[t] \/ Follows(t, s),
           state[t] # "Ended", Deliver(t, i), Sent(t, i),
           UNCHANGED <<state, open, input_queue>>, toPool' = toPool,
           i # s /\ Coming(t, s) => Coming(t, s)',
           i # s /\ resend[t][s] > 0 => resend'[t][s] > 0
    PROVE  s.id \in behind'[t] \/ Follows(t, s)'
<1>1. /\ inputs[t] \in Seq(RelayInput) /\ toPool \in Seq(RelayToPool) /\ s \in Subscription
      /\ inputs'[t] = Append(inputs[t], i)
      /\ behind \in [Task -> SUBSET {r.id : r \in Subscription}]
  BY PoolTypes DEF Deliver, TrafficInv
<1>2. CASE i = s
  <2>1. LastIn(inputs'[t], s) BY <1>1, <1>2, AppendedLast
  <2>2. QED BY <2>1 DEF Follows, Waiting, LastIn, Same
<1>3. CASE Same(i, s) /\ i # s
  <2>1. i \notin subscriptions BY <1>3 DEF FreshInv, Same
  <2>2. s.id \in behind'[t] BY <1>1, <1>3, <2>1 DEF Sent, Same
  <2>3. QED BY <2>2
<1>4. CASE ~Same(i, s)
  <2>1. i # s BY <1>1, <1>4 DEF Same
  <2>2. /\ LastIn(inputs[t], s) => LastIn(inputs'[t], s)
        /\ NoneIn(inputs[t], s) => NoneIn(inputs'[t], s)
    BY <1>1, <1>4, AppendedLast
  <2>3. s.id \in behind[t] => s.id \in behind'[t] BY <1>1, <1>4 DEF Sent, Same
  <2>4. Waiting(t, s) => Waiting(t, s)' BY <2>2 DEF Waiting, LastIn, NoneIn, Same
  <2>5. Quiet(t, s) => Quiet(t, s)' BY <2>2 DEF Quiet, NoneIn, Same
  <2>6. WillHave(t, s) => WillHave(t, s)' BY <1>1, <2>1, StillWillHave
  <2>7. QED BY <2>1, <2>3, <2>4, <2>5, <2>6 DEF Follows
<1>5. QED BY <1>2, <1>3, <1>4

LEMMA ResendFollows ==
    ASSUME PoolInv, TrafficInv, FreshInv, FollowInv,
           NEW r \in Task, NEW i \in Subscription, ResendTo(r, i)
    PROVE  FollowInv'
<1>1. /\ Listening' = Listening /\ subscriptions' = subscriptions /\ job' = job
      /\ Deliver(r, i) /\ Sent(r, i) /\ UNCHANGED <<state, open, input_queue, toPool>>
      /\ resend' = [resend EXCEPT ![r][i] = @ - 1]
  BY DEF ResendTo, Resend, Listening
<1>2. /\ i \in RelayInput /\ resend \in [Task -> [Subscription -> Nat]]
      /\ Listening \subseteq Task /\ subscriptions \subseteq Subscription
      /\ toPool \in Seq(RelayToPool)
  BY PoolTypes DEF PoolInv
<1>3. SUFFICES ASSUME NEW t \in Listening, NEW s \in subscriptions
               PROVE  s.id \in behind'[t] \/ Follows(t, s)'
  BY <1>1 DEF FollowInv
<1>4. /\ s.id \in behind[t] \/ Follows(t, s)
      /\ Coming(t, s) => Coming(t, s)'
      /\ t # r \/ s # i => resend'[t][s] = resend[t][s]
  BY <1>1, <1>2 DEF FollowInv, Coming
<1>5. state[t] # "Ended" BY ListeningRuns DEF PoolInv
<1>6. CASE t = r BY <1>1, <1>2, <1>4, <1>5, <1>6, DeliveredFollows DEF PoolInv
<1>7. CASE t # r
  <2>1. inputs'[t] = inputs[t] /\ behind'[t] = behind[t]
    BY <1>1, <1>2, <1>7, PoolTypes DEF PoolInv, Deliver, Sent, TrafficInv
  <2>2. QED BY <1>1, <1>2, <1>4, <1>7, <2>1, StillFollows
<1>8. QED BY <1>6, <1>7

\* The pool's send: those it still has to reach are the rest of its job.
LEMMA SendFollows ==
    ASSUME PoolInv, TrafficInv, FreshInv, FollowInv, SendTo
    PROVE  FollowInv'
<1>1. /\ Deliver(job.to, job.input) /\ Sent(job.to, job.input) /\ AfterSend
      /\ UNCHANGED <<state, open, input_queue, resend>>
      /\ job.to # NoTask /\ job.to \in Task /\ job.input \in RelayInput
  BY JobTypes DEF SendTo, PoolSend, PoolInv, TypeInv
<1>2. /\ Listening \subseteq Task /\ subscriptions \subseteq Subscription
      /\ toPool \in Seq(RelayToPool) /\ NoTask \notin Task
      /\ relays \in [Url -> Task \cup {NoTask}]
  BY PoolTypes DEF PoolInv
\* Either the pool stops, or it goes on with fewer listeners and the same channel.
<1>3. \/ Listening' = {}
      \/ /\ Listening' \subseteq Listening /\ subscriptions' = subscriptions /\ toPool' = toPool
         /\ \A t \in job.rest : job'.to # NoTask /\ job'.input = job.input
                                /\ t \in {job'.to} \cup job'.rest
  <2>1. CASE job.rest # {} /\ BeginSend(job.input, job.rest, job.then)
             /\ UNCHANGED <<relays, subscriptions, toPool>>
    <3>1. job.rest \subseteq Task BY JobTypes DEF PoolInv, TypeInv
    <3>2. PICK t \in job.rest :
             job' = [input |-> job.input, to |-> t, rest |-> job.rest \ {t}, then |-> job.then]
      BY <2>1 DEF BeginSend
    <3>3. QED BY <1>2, <2>1, <3>1, <3>2 DEF Listening
  <2>2. CASE job.rest = {} /\ UNCHANGED <<relays, subscriptions, toPool>>
    BY <2>2 DEF Listening
  <2>3. CASE job.rest = {} /\ relays' = [relays EXCEPT ![UrlOf[job.to]] = NoTask]
             /\ UNCHANGED <<subscriptions, toPool>>
    BY <1>2, <2>3 DEF Listening
  <2>4. CASE DropPool("shutdown") BY <2>4 DEF DropPool, Listening
  <2>5. QED BY <1>1, <2>1, <2>2, <2>3, <2>4 DEF AfterSend
<1>4. CASE Listening' = {} BY <1>4 DEF FollowInv
<1>5. CASE /\ Listening' \subseteq Listening /\ subscriptions' = subscriptions /\ toPool' = toPool
           /\ \A t \in job.rest : job'.to # NoTask /\ job'.input = job.input
                                  /\ t \in {job'.to} \cup job'.rest
  <2>1. SUFFICES ASSUME NEW t \in Listening, NEW s \in subscriptions
                 PROVE  s.id \in behind'[t] \/ Follows(t, s)'
    BY <1>5 DEF FollowInv
  <2>2. s.id \in behind[t] \/ Follows(t, s) BY DEF FollowInv
  <2>3. state[t] # "Ended" BY ListeningRuns DEF PoolInv
  <2>4. CASE t = job.to
    <3>1. job.input # s => ~Coming(t, s) BY DEF Coming
    <3>2. QED BY <1>1, <1>5, <2>2, <2>3, <2>4, <3>1, DeliveredFollows DEF PoolInv
  <2>5. CASE t # job.to
    <3>1. inputs'[t] = inputs[t] /\ behind'[t] = behind[t]
      BY <1>1, <1>2, <2>5, PoolTypes DEF PoolInv, Deliver, Sent, TrafficInv
    <3>2. Coming(t, s) => Coming(t, s)' BY <1>5, <2>5 DEF Coming
    <3>3. QED BY <1>1, <1>2, <1>5, <2>2, <3>1, <3>2, StillFollows
  <2>6. QED BY <2>4, <2>5
<1>6. QED BY <1>3, <1>4, <1>5

-----------------------------------------------------------------------------
(* What the pool is told. *)

\* The connection that is handled has the subscriptions sent again.
LEMMA EventFollows ==
    ASSUME PoolInv, FollowInv, RelayEvent
    PROVE  FollowInv'
<1>1. /\ UNCHANGED <<state, inputs, relays, subscriptions, job, held, input_queue, open, behind>>
      /\ toPool # <<>> /\ toPool' = Tail(toPool) /\ Listening' = Listening
  BY DEF RelayEvent, handle_relay_to_pool, trafficVars, Listening
<1>2. /\ toPool \in Seq(RelayToPool) /\ Listening \subseteq Task
      /\ subscriptions \subseteq Subscription /\ UrlOf \in [Task -> Url]
      /\ resend \in [Task -> [Subscription -> Nat]] /\ NoTask \notin Task
      /\ relays \in [Url -> Task \cup {NoTask}]
  BY PoolTypes DEF PoolInv
<1>3. SUFFICES ASSUME NEW t \in Listening, NEW s \in subscriptions, Follows(t, s)
               PROVE  Follows(t, s)'
  BY <1>1 DEF FollowInv
<1>4. resend[t][s] > 0 => resend'[t][s] > 0
  <2>1. CASE resend' = resend BY <2>1
  <2>2. ASSUME NEW r \in Task, SpawnResends(r) PROVE resend[t][s] > 0 => resend'[t][s] > 0
    BY <1>2, <2>2 DEF SpawnResends
  <2>3. relays[Head(toPool).url] \in Task \cup {NoTask}
    <3>1. Head(toPool) \in RelayToPool BY <1>1, <1>2
    <3>2. QED BY <1>2, <3>1 DEF RelayToPool
  <2>4. QED BY <2>1, <2>2, <2>3 DEF RelayEvent, handle_relay_to_pool
<1>5. (Waiting(t, s) => Waiting(t, s)') /\ (Quiet(t, s) => Quiet(t, s)')
  BY <1>1, <1>2, StillQueued
<1>6. ASSUME WillHave(t, s) PROVE WillHave(t, s)'
  <2>1. CASE ~Connected(t) \/ s \in open[t] \/ resend[t][s] > 0
    BY <1>1, <1>4, <2>1 DEF WillHave, Connected
  <2>2. ASSUME NEW k \in DOMAIN toPool, toPool[k] = Opened(t) PROVE WillHave(t, s)'
    <3>1. CASE k = 1
      <4>1. Head(toPool) = Opened(t) BY <1>1, <1>2, <2>2, <3>1
      <4>2. relays[UrlOf[t]] = t /\ t # NoTask BY <1>2, ListeningRuns DEF PoolInv
      <4>3. SpawnResends(t)
        BY <4>1, <4>2 DEF RelayEvent, handle_relay_to_pool, Opened
      <4>4. resend'[t][s] > 0 BY <1>2, <4>3 DEF SpawnResends
      <4>5. QED BY <4>4 DEF WillHave
    <3>2. CASE k # 1
      <4>1. k - 1 \in DOMAIN toPool' /\ toPool'[k - 1] = Opened(t)
        BY <1>1, <1>2, <2>2, <3>2, TailShifts
      <4>2. QED BY <4>1 DEF WillHave, Opened
    <3>3. QED BY <3>1, <3>2
  <2>3. QED BY <1>6, <2>1, <2>2 DEF WillHave
<1>7. Coming(t, s) => Coming(t, s)' BY <1>1 DEF Coming
<1>8. QED BY <1>3, <1>5, <1>6, <1>7 DEF Follows

\* A new value is on its way to a listener, or leaves it behind.
LEMMA SubscribedFollows ==
    ASSUME PoolInv, FreshInv, FollowInv, Client, NEW i \in Subscription,
           subscriptions' = WithSubscription(i),
           UNCHANGED <<relayVars, relays, resend>>, job.to = NoTask,
           \/ job' = job
           \/ job'.input = i /\ job'.to # NoTask
    PROVE  FollowInv'
<1>1. /\ Listening' = Listening /\ Listening \subseteq Task
      /\ subscriptions \subseteq Subscription /\ toPool \in Seq(RelayToPool)
      /\ UNCHANGED <<state, inputs, toPool, open, input_queue>>
  BY PoolTypes DEF PoolInv, Listening, relayVars, Client
<1>2. SUFFICES ASSUME NEW t \in Listening, NEW s \in subscriptions'
               PROVE  s.id \in behind'[t] \/ Follows(t, s)'
  BY <1>1 DEF FollowInv
<1>3. ~Coming(t, s) BY DEF Coming
<1>4. behind'[t] = IF t \in {job'.to} \cup job'.rest THEN behind[t]
                   ELSE behind[t] \cup {r.id : r \in subscriptions' \ subscriptions}
  BY <1>1 DEF Client
<1>5. CASE s \in subscriptions
  <2>1. s.id \in behind[t] => s.id \in behind'[t] BY <1>4
  <2>2. Follows(t, s) => Follows(t, s)' BY <1>1, <1>3, <1>5, StillFollows
  <2>3. QED BY <1>5, <2>1, <2>2 DEF FollowInv
<1>6. CASE s \notin subscriptions
  <2>1. s = i BY <1>6 DEF WithSubscription
  <2>2. s.id \in {r.id : r \in subscriptions' \ subscriptions} BY <1>6
  <2>3. CASE t \in {job'.to} \cup job'.rest
    <3>1. t # NoTask /\ job' # job BY <2>3, PoolAssumption, <1>1 DEF FreshInv
    <3>2. QED BY <2>1, <2>3, <3>1 DEF Follows, Coming
  <2>4. CASE t \notin {job'.to} \cup job'.rest BY <1>4, <2>2, <2>4
  <2>5. QED BY <2>3, <2>4
<1>7. QED BY <1>5, <1>6

LEMMA ClientFollows ==
    ASSUME PoolInv, TrafficInv, FreshInv, FollowInv, Client
    PROVE  FollowInv'
<1>1. /\ Listening \subseteq Task /\ subscriptions \subseteq Subscription
      /\ toPool \in Seq(RelayToPool) /\ NoTask \notin Task /\ UrlOf \in [Task -> Url]
      /\ relays \in [Url -> Task \cup {NoTask}]
      /\ state \in [Task -> RelayStatus \cup {"Unspawned", "Ended"}]
  BY PoolTypes DEF PoolInv
<1>2. job.to = NoTask /\ Command
  BY PoolStepFrame DEF Client, PoolInv
\* The other commands.
<1>3. ASSUME subscriptions' = subscriptions, UNCHANGED <<relayVars, relays, resend>>
      PROVE  FollowInv'
  <2>1. /\ Listening' = Listening /\ UNCHANGED <<state, inputs, toPool, open, input_queue>>
        /\ behind' = [t \in Task |-> IF t \in Listening \ ({job'.to} \cup job'.rest)
                                     THEN behind[t] \cup {s.id : s \in {}} ELSE behind[t]]
    BY <1>3 DEF Listening, relayVars, Client
  <2>2. SUFFICES ASSUME NEW t \in Listening, NEW s \in subscriptions
                 PROVE  s.id \in behind'[t] \/ Follows(t, s)'
    BY <1>3, <2>1 DEF FollowInv
  <2>3. s.id \in behind[t] => s.id \in behind'[t] BY <1>1, <2>1
  <2>4. ~Coming(t, s) BY <1>2 DEF Coming
  <2>5. Follows(t, s) => Follows(t, s)' BY <1>1, <1>3, <2>1, <2>4, StillFollows
  <2>6. QED BY <2>3, <2>5 DEF FollowInv
\* A relay that is added takes the place of its url's.
<1>4. ASSUME NEW r \in Task, AddRelay(UrlOf[r], r) PROVE FollowInv'
  <2>1. /\ state[r] = "Unspawned" /\ state' = [state EXCEPT ![r] = "Disconnected"]
        /\ relays' = [relays EXCEPT ![UrlOf[r]] = r]
        /\ UNCHANGED <<inputs, toPool, subscriptions, resend, job, open, input_queue>>
    BY <1>4 DEF AddRelay, Spawn, Client
  <2>2. Listening' \subseteq Listening \cup {r} BY <1>1, <2>1 DEF Listening
  <2>3. \A t \in Task : behind[t] \subseteq behind'[t] BY DEF Client
  <2>4. SUFFICES ASSUME NEW t \in Listening', NEW s \in subscriptions
                 PROVE  s.id \in behind'[t] \/ Follows(t, s)'
    BY <2>1 DEF FollowInv
  <2>5. t \in Task BY <1>1, <2>2
  <2>6. CASE t = r
    <3>1. ~Connected(t)' BY <1>1, <2>1, <2>6 DEF Connected
    <3>2. inputs'[t] = <<>> /\ input_queue'[t] = <<>> BY <2>1, <2>6 DEF FreshInv, Fresh
    <3>3. NoneIn(inputs'[t], s) /\ NoneIn(input_queue'[t], s) BY <3>2, EmptyQueue
    <3>4. QED BY <3>1, <3>3 DEF Follows, Quiet, WillHave, NoneIn, Same
  <2>7. CASE t # r
    <3>1. t \in Listening /\ state'[t] = state[t] BY <1>1, <2>1, <2>2, <2>5, <2>7
    <3>2. s.id \in behind[t] \/ Follows(t, s) BY <3>1 DEF FollowInv
    <3>3. ~Coming(t, s) BY <1>2 DEF Coming
    <3>4. Follows(t, s) => Follows(t, s)' BY <1>1, <2>1, <2>5, <3>1, <3>3, StillFollows
    <3>5. QED BY <2>3, <2>5, <3>2, <3>4
  <2>8. QED BY <2>6, <2>7
<1>5. ASSUME NEW i \in Subscription,
             AddSubscription(i) \/ \E u \in Url : AddSubscriptionToRelay(u, i)
      PROVE  FollowInv'
  <2>1. /\ subscriptions' = WithSubscription(i) /\ UNCHANGED <<relayVars, relays, resend>>
        /\ \/ job' = job
           \/ job'.input = i /\ \E t \in Listening : job'.to = t
    <3>1. CASE AddSubscription(i)
      BY <3>1 DEF AddSubscription, send_to_all, BeginSend
    <3>2. ASSUME NEW u \in Url, AddSubscriptionToRelay(u, i)
          PROVE  \/ job' = job
                 \/ job'.input = i /\ \E t \in Listening : job'.to = t
      BY <3>2 DEF AddSubscriptionToRelay, send_to_listener, BeginSend, Listening
    <3>3. QED BY <1>5, <3>1, <3>2 DEF AddSubscriptionToRelay
  <2>2. \A t \in Listening : t # NoTask BY <1>1
  <2>3. QED BY <1>2, <2>1, <2>2, SubscribedFollows
<1>6. ASSUME NEW reason, DropPool(reason) PROVE FollowInv'
  BY <1>6 DEF DropPool, FollowInv, Listening
<1>7. QED
  BY <1>2, <1>3, <1>4, <1>5, <1>6
     DEF Command, RemoveRelay, ReconnectRelay, ForwardToOne, ForwardToAll, Shutdown, Abandon

-----------------------------------------------------------------------------
(* FreshInv is inductive. *)

LEMMA TaskFresh ==
    ASSUME PoolInv, TrafficInv, FreshInv, NEW r \in Task,
           Receiving(r) \/ HandleQueued(r) \/ Connection(r)
    PROVE  FreshInv'
<1>1. UNCHANGED poolVars
  <2>1. CASE HandleQueued(r) BY <2>1 DEF HandleQueued, vars
  <2>2. CASE RelayStep(r) BY <2>2, RelayStepFrame DEF PoolInv
  <2>3. QED BY <2>1, <2>2 DEF Receiving, Connection, RelayStep
<1>2. ASSUME NEW t \in Task PROVE Fresh(t)'
  <2>1. CASE HandleQueued(r)
    <3>1. UNCHANGED <<state, inputs, resend>> /\ state[r] = "Connected"
      BY <2>1 DEF HandleQueued, Draining, Connected, vars, relayVars, poolVars
    <3>2. t # r => input_queue'[t] = input_queue[t] BY <2>1 DEF HandleQueued, TrafficInv
    <3>3. QED BY <3>1, <3>2 DEF FreshInv, Fresh
  <2>2. CASE Receiving(r)
    <3>1. state[r] # "Unspawned" /\ state' = state /\ resend' = resend
      BY <1>1, <2>2
         DEF poolVars, Receiving, ReceiveStep, TakeInput, TerminatedReconnect, TerminatedOther,
             DisconnectedClose, DisconnectedReconnect, DisconnectedOther, ConnectingClose,
             ConnectingOther, ConnectedClose, ConnectedOther, Selecting
    <3>2. t # r => inputs'[t] = inputs[t]
      BY <2>2, RelayStepFrame DEF Receiving, RelayStep, PoolInv
    <3>3. t # r => input_queue'[t] = input_queue[t]
      BY <2>2 DEF Receiving, handle_input_disconnected_other, TrafficInv
    <3>4. QED BY <3>1, <3>2, <3>3 DEF FreshInv, Fresh
  <2>3. CASE Connection(r)
    <3>1. RelayStep(r) /\ input_queue' = input_queue /\ resend' = resend
      BY <1>1, <2>3 DEF Connection, RelayStep, poolVars
    <3>2. inputs'[t] = inputs[t] \/ inputs'[t] = <<>>
      <4>1. CASE t # r BY <3>1, <4>1, RelayStepFrame DEF PoolInv
      <4>2. CASE t = r
        BY <2>3, <4>2, PoolTypes
           DEF PoolInv, Connection, SendStep, SendToPool, EndStep, InputClosed, SendToPoolFailed,
               End, NetworkStep, SleepElapsed, SocketLost, ConnectionResult
      <4>3. QED BY <4>1, <4>2
    <3>3. state'[t] = "Unspawned" => state[t] = "Unspawned"
      <4>1. CASE t # r BY <3>1, <4>1, RelayStepFrame DEF PoolInv
      <4>2. CASE t = r
        <5>1. \A e \in RelayToPoolEvent : StateAfter(e) # "Unspawned" BY DEF StateAfter
        <5>2. QED BY <3>1, <4>2, <5>1, RelayStepFrame DEF PoolInv
      <4>3. QED BY <4>1, <4>2
    <3>4. QED BY <3>1, <3>2, <3>3 DEF FreshInv, Fresh
  <2>4. QED BY <2>1, <2>2, <2>3
<1>3. QED BY <1>1, <1>2 DEF FreshInv, Fresh, poolVars

LEMMA DeliverFresh ==
    ASSUME FreshInv, NEW r, state[r] # "Unspawned", NEW i, Deliver(r, i),
           inputs \in [Task -> Seq(RelayInput)],
           UNCHANGED <<state, input_queue>>,
           \A t \in Task, s \in Subscription : t # r => resend'[t][s] = resend[t][s],
           NEW t \in Task
    PROVE  Fresh(t)'
<1>1. t # r => inputs'[t] = inputs[t] BY DEF Deliver
<1>2. QED BY <1>1 DEF FreshInv, Fresh

LEMMA ResendFresh ==
    ASSUME PoolInv, FreshInv, NEW r \in Task, NEW i \in Subscription, ResendTo(r, i)
    PROVE  FreshInv'
<1>1. /\ UNCHANGED <<state, subscriptions, job, input_queue>> /\ Deliver(r, i)
      /\ resend[r][i] > 0 /\ resend' = [resend EXCEPT ![r][i] = @ - 1]
  BY DEF ResendTo, Resend
<1>2. resend \in [Task -> [Subscription -> Nat]] /\ inputs \in [Task -> Seq(RelayInput)]
  BY PoolTypes DEF PoolInv
<1>3. state[r] # "Unspawned" BY <1>1, <1>2 DEF FreshInv, Fresh
<1>4. \A t \in Task, s \in Subscription : t # r => resend'[t][s] = resend[t][s]
  BY <1>1, <1>2
<1>5. \A t \in Task : Fresh(t)' BY <1>1, <1>2, <1>3, <1>4, DeliverFresh
<1>6. QED BY <1>1, <1>5 DEF FreshInv, Fresh

LEMMA SendFresh ==
    ASSUME PoolInv, FreshInv, SendTo
    PROVE  FreshInv'
<1>1. /\ UNCHANGED <<state, resend, input_queue>> /\ Deliver(job.to, job.input) /\ AfterSend
      /\ job.to # NoTask
  BY DEF SendTo, PoolSend
<1>2. inputs \in [Task -> Seq(RelayInput)] /\ NoTask \notin Task /\ job.rest \subseteq Task
  BY PoolTypes, JobTypes DEF PoolInv, TypeInv
<1>3. state[job.to] # "Unspawned" BY <1>1, ListeningRuns DEF PoolInv, JobInv
<1>4. \A t \in Task : Fresh(t)' BY <1>1, <1>2, <1>3, DeliverFresh
<1>5. subscriptions' = subscriptions \/ subscriptions' = {}
  BY <1>1 DEF AfterSend, DropPool
<1>6. job'.to = NoTask => job'.rest = {}
  BY <1>1, <1>2 DEF AfterSend, DropPool, BeginSend, Idle
<1>7. QED BY <1>4, <1>5, <1>6 DEF FreshInv, Fresh

LEMMA EventFresh ==
    ASSUME PoolInv, FreshInv, RelayEvent
    PROVE  FreshInv'
<1>1. /\ UNCHANGED <<state, inputs, input_queue, subscriptions, job>> /\ toPool # <<>>
      /\ \/ UNCHANGED resend
         \/ \E u \in Url : relays[u] # NoTask /\ SpawnResends(relays[u])
  <2>1. toPool # <<>> /\ toPool \in Seq(RelayToPool)
    BY PoolTypes DEF PoolInv, RelayEvent, handle_relay_to_pool
  <2>2. Head(toPool).url \in Url
    <3>1. Head(toPool) \in RelayToPool BY <2>1
    <3>2. QED BY <3>1 DEF RelayToPool
  <2>3. QED BY <2>1, <2>2 DEF RelayEvent, handle_relay_to_pool, trafficVars
<1>2. resend \in [Task -> [Subscription -> Nat]] BY PoolTypes DEF PoolInv
<1>3. ASSUME NEW t \in Task, state[t] = "Unspawned" PROVE resend'[t] = resend[t]
  <2>1. ASSUME NEW u \in Url, relays[u] # NoTask, SpawnResends(relays[u])
        PROVE  resend'[t] = resend[t]
    <3>1. relays[u] # t BY <1>3, <2>1 DEF PoolInv, ListenerInv, RelayStatus
    <3>2. QED BY <1>2, <2>1, <3>1 DEF SpawnResends
  <2>2. QED BY <1>1, <2>1
<1>4. QED BY <1>1, <1>3 DEF FreshInv, Fresh

LEMMA ClientFresh ==
    ASSUME PoolInv, FreshInv, Client
    PROVE  FreshInv'
<1>1. /\ Listening \subseteq Task /\ NoTask \notin Task
      /\ state \in [Task -> RelayStatus \cup {"Unspawned", "Ended"}]
  BY PoolTypes DEF PoolInv
<1>2. Command /\ input_queue' = input_queue BY DEF Client
<1>3. job'.to = NoTask => job'.rest = {}
  <2>1. ASSUME NEW i, NEW T \in SUBSET Listening, NEW then, BeginSend(i, T, then)
        PROVE  job'.to # NoTask
    BY <1>1, <2>1 DEF BeginSend
  <2>2. ASSUME job' = job PROVE job'.to = NoTask => job'.rest = {} BY <2>2 DEF FreshInv
  <2>3. \/ job' = job \/ job' = Idle
        \/ \E i \in RelayInput, T \in SUBSET Listening, then \in {"continue", "remove", "break"} :
               BeginSend(i, T, then)
    <3>1. Close \in RelayInput BY DEF RelayInput
    <3>2. \A u \in Url : relays[u] # NoTask => {relays[u]} \in SUBSET Listening
      BY DEF Listening
    <3>3. QED
      BY <1>2, <3>1, <3>2, CommandCases DEF PoolInv, AddRelay, DropPool
  <2>4. QED BY <2>1, <2>2, <2>3 DEF Idle
<1>4. \A r, s \in subscriptions' : r.id = s.id => r = s
  <2>1. CASE subscriptions' = subscriptions \/ subscriptions' = {} BY <2>1 DEF FreshInv
  <2>2. ASSUME NEW i \in Subscription, subscriptions' = WithSubscription(i)
        PROVE  \A r, s \in subscriptions' : r.id = s.id => r = s
    BY <2>2 DEF FreshInv, WithSubscription
  <2>3. QED
    BY <1>2, <2>1, <2>2
       DEF Command, AddRelay, RemoveRelay, ReconnectRelay, ForwardToOne, ForwardToAll,
           AddSubscription, AddSubscriptionToRelay, Shutdown, Abandon, DropPool
<1>5. /\ UNCHANGED <<inputs, resend>>
      /\ \/ UNCHANGED state
         \/ \E t \in Task : state' = [state EXCEPT ![t] = "Disconnected"]
  BY <1>2
     DEF Command, AddRelay, Spawn, RemoveRelay, ReconnectRelay, ForwardToOne, ForwardToAll,
         AddSubscription, AddSubscriptionToRelay, Shutdown, Abandon, relayVars
<1>6. \A t \in Task : state'[t] = "Unspawned" => state[t] = "Unspawned" BY <1>1, <1>5
<1>7. QED BY <1>2, <1>3, <1>4, <1>5, <1>6 DEF FreshInv, Fresh

-----------------------------------------------------------------------------

LEMMA FollowNext ==
    ASSUME PoolInv, TrafficInv, FreshInv, FollowInv, [TrafficNext]_allVars
    PROVE  FreshInv' /\ FollowInv'
<1>1. ASSUME NEW r \in Task, Receiving(r) \/ HandleQueued(r) \/ Connection(r)
      PROVE  FreshInv' /\ FollowInv'
  <2>1. /\ UNCHANGED <<relays, subscriptions, behind>> /\ Listening' = Listening
        /\ job' = job /\ resend' = resend
    <3>1. CASE HandleQueued(r) BY <3>1 DEF HandleQueued, vars, poolVars, Listening
    <3>2. CASE Receiving(r) BY <3>2 DEF Receiving, ReceiveStep, poolVars, Listening
    <3>3. CASE Connection(r)
      BY <3>3 DEF Connection, SendStep, EndStep, NetworkStep, poolVars, Listening
    <3>4. QED BY <1>1, <3>1, <3>2, <3>3
  <2>2. /\ Listening \subseteq Task /\ subscriptions \subseteq Subscription
        /\ toPool \in Seq(RelayToPool)
    BY PoolTypes DEF PoolInv
  <2>3. ASSUME NEW t \in Listening, NEW s \in subscriptions, Follows(t, s)
        PROVE  Follows(t, s)'
    <3>1. CASE Connection(r) BY <2>2, <2>3, <3>1, ConnectionFollows DEF PoolInv
    <3>2. CASE t = r /\ ~Connection(r)
      BY <1>1, <2>2, <2>3, <3>2, ReceivingFollows, HandleQueuedFollows DEF PoolInv
    <3>3. CASE t # r /\ ~Connection(r)
      <4>1. /\ state' = state /\ toPool' = toPool /\ inputs'[t] = inputs[t]
            /\ input_queue'[t] = input_queue[t] /\ open'[t] = open[t]
        <5>1. CASE HandleQueued(r)
          BY <2>2, <3>3, <5>1, HandledIsOpen DEF HandleQueued, vars, relayVars, TrafficInv
        <5>2. CASE Receiving(r)
          <6>1. inputs'[t] = inputs[t]
            BY <2>2, <3>3, <5>2, RelayStepFrame DEF PoolInv, Receiving, RelayStep
          <6>2. state' = state /\ toPool' = toPool
            BY <5>2
               DEF Receiving, ReceiveStep, TakeInput, TerminatedReconnect, TerminatedOther,
                   DisconnectedClose, DisconnectedReconnect, DisconnectedOther, ConnectingClose,
                   ConnectingOther, ConnectedClose, ConnectedOther
          <6>3. open'[t] = open[t]
            BY <2>2, <3>3, <5>2, HandledIsOpen DEF Receiving
          <6>4. input_queue'[t] = input_queue[t]
            BY <2>2, <3>3, <5>2 DEF Receiving, handle_input_disconnected_other, TrafficInv
          <6>5. QED BY <6>1, <6>2, <6>3, <6>4
        <5>3. QED BY <1>1, <3>3, <5>1, <5>2
      <4>2. Coming(t, s) => Coming(t, s)' BY <2>1 DEF Coming
      <4>3. QED BY <2>1, <2>2, <2>3, <4>1, <4>2, StillFollows
    <3>4. QED BY <3>1, <3>2, <3>3
  <2>4. FollowInv' BY <2>1, <2>3 DEF FollowInv
  <2>5. QED BY <1>1, <2>4, TaskFresh
<1>2. CASE \E t \in Task, s \in Subscription : ResendTo(t, s)
  BY <1>2, ResendFollows, ResendFresh
<1>3. CASE SendTo BY <1>3, SendFollows, SendFresh
<1>4. CASE RelayEvent BY <1>4, EventFollows, EventFresh
<1>5. CASE Client BY <1>5, ClientFollows, ClientFresh
<1>6. CASE UNCHANGED allVars
  <2>1. /\ UNCHANGED <<state, inputs, input_queue, resend, subscriptions, job, behind, open, toPool>>
        /\ Listening' = Listening
    BY <1>6 DEF allVars, vars, relayVars, poolVars, trafficVars, Listening
  <2>2. FreshInv' BY <2>1 DEF FreshInv, Fresh
  <2>3. FollowInv'
    BY <2>1 DEF FollowInv, Follows, Coming, Waiting, Quiet, WillHave, Connected, Opened,
                LastIn, NoneIn, Same
  <2>4. QED BY <2>2, <2>3
<1>7. QED BY <1>1, <1>2, <1>3, <1>4, <1>5, <1>6 DEF TrafficNext

\* When nothing is on its way to a connected relay it has open the pool's value of
\* every subscription, the ones meant for another relay included, unless the last
\* value sent to it, by a late resend, was an old one or the new one never was.
THEOREM FollowCorrect == TrafficSpec => []RelayFollowsPool
<1>1. TrafficInit => TrafficInv /\ FreshInv /\ FollowInv
  BY DEF TrafficInit, Init, RelayInit, TrafficInv, HeldOK, FreshInv, Fresh, FollowInv, Idle
<1>2. PoolInv /\ TrafficInv /\ FreshInv /\ FollowInv /\ [TrafficNext]_allVars
          => TrafficInv' /\ FreshInv' /\ FollowInv'
  BY TrafficInvNext, FollowNext DEF PoolInv
<1>3. PoolInv /\ FollowInv => RelayFollowsPool
  <2> SUFFICES ASSUME PoolInv, FollowInv, NEW t \in Task, Settled(t), NEW s \in subscriptions
               PROVE  s.id \in behind[t] \/ s \in open[t]
    BY DEF RelayFollowsPool
  <2>1. s \in Subscription /\ (s.id \in behind[t] \/ Follows(t, s))
    BY PoolTypes DEF FollowInv, Settled, PoolInv
  <2>2. ~Coming(t, s) BY DEF Settled, Coming
  <2>3. ~Waiting(t, s) BY EmptyQueue DEF Settled, Waiting
  <2>4. Follows(t, s) => s \in open[t]
    <3>1. resend[t] \in [Subscription -> Nat] BY PoolTypes DEF PoolInv
    <3>2. QED BY <2>1, <2>2, <2>3, <3>1 DEF Follows, WillHave, Settled, Opened
  <2>5. QED BY <2>1, <2>4
<1>4. TypeInv /\ ListenerInv /\ JobInv /\ RemovedInv => PoolInv BY DEF PoolInv
<1>5. QED
  BY TrafficImplementsPool, RemovedInvariance, <1>1, <1>2, <1>3, <1>4, PTL DEF TrafficSpec
=============================================================================
