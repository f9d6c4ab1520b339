------------------------- MODULE PoolTraffic_proofs -------------------------
(***************************************************************************)
(* PoolTraffic only adds to RelayPool: every step of it is a step of       *)
(* RelayPool's or leaves RelayPool's variables alone, so that what is      *)
(* proved of Spec holds of TrafficSpec.  A task holds every request it has *)
(* open, and one value of an id, and is a RelayTraffic by itself.          *)
(***************************************************************************)
EXTENDS PoolTraffic, RelayPoolSafety_proofs, SequenceTheorems

\* A relay task's step with its traffic is a step of the task.
LEMMA TaskStepIsPools ==
    ASSUME NEW t \in Task, Receiving(t) \/ HandleQueued(t) \/ Connection(t)
    PROVE  [Next]_vars
<1>1. CASE Receiving(t) BY <1>1 DEF Receiving, Next, RelayStep
<1>2. CASE HandleQueued(t) BY <1>2 DEF HandleQueued
<1>3. CASE Connection(t) BY <1>3 DEF Connection, Next, RelayStep
<1>4. QED BY <1>1, <1>2, <1>3

\* By the shape of its actions, the traffic adds no step to the pool, its relays or the
\* client: what is proved of these holds here too.
LEMMA TrafficImplementsPool == TrafficSpec => Spec
<1>1. TrafficInit => Init BY DEF TrafficInit
<1>2. [TrafficNext]_allVars => [Next]_vars
  <2> SUFFICES ASSUME [TrafficNext]_allVars PROVE [Next]_vars OBVIOUS
  <2>1. CASE \E t \in Task : Receiving(t) \/ HandleQueued(t) \/ Connection(t)
    BY <2>1, TaskStepIsPools
  <2>2. CASE \E t \in Task, s \in Subscription : ResendTo(t, s)
    BY <2>2 DEF ResendTo, Next
  <2>3. CASE SendTo BY <2>3 DEF SendTo, Next
  <2>4. CASE RelayEvent BY <2>4 DEF RelayEvent, Next
  <2>5. CASE Client BY <2>5 DEF Client, Next
  <2>6. CASE UNCHANGED allVars BY <2>6 DEF allVars
  <2>7. QED BY <2>1, <2>2, <2>3, <2>4, <2>5, <2>6 DEF TrafficNext
<1>3. QED BY <1>1, <1>2, PTL DEF TrafficSpec, Spec

-----------------------------------------------------------------------------
(* What a task holds. *)

\* The part of TrafficTypeOK about t's subscriptions.
HeldOK(H, O) ==
    /\ H \subseteq Subscription /\ O \subseteq H
    /\ \A r, s \in H : r.id = s.id => r = s

TrafficInv ==
    /\ held \in [Task -> SUBSET Subscription]
    /\ open \in [Task -> SUBSET Subscription]
    /\ \A t \in Task : HeldOK(held[t], open[t])
    /\ input_queue \in [Task -> Seq(Payload)]
    /\ behind \in [Task -> SUBSET {s.id : s \in Subscription}]

LEMMA InsertHeld ==
    ASSUME NEW H, NEW O, HeldOK(H, O), NEW s \in Subscription
    PROVE  HeldOK(Insert(H, s), Insert(O, s))
BY DEF HeldOK, Insert

\* An input that is handled leaves the map and the open requests in step.
LEMMA HandleHeld ==
    ASSUME TrafficInv, NEW t \in Task, NEW i, handle_other_inputs_connected(t, i),
           UNCHANGED behind, input_queue' \in [Task -> Seq(Payload)]
    PROVE  TrafficInv'
<1>1. CASE i \in Subscription
  <2>1. /\ held' = [held EXCEPT ![t] = Insert(held[t], i)]
        /\ open' = [open EXCEPT ![t] = Insert(open[t], i)]
    BY <1>1 DEF handle_other_inputs_connected, subscribe
  <2>2. HeldOK(Insert(held[t], i), Insert(open[t], i))
    BY <1>1, InsertHeld DEF TrafficInv
  <2>3. /\ Insert(held[t], i) \in SUBSET Subscription
        /\ Insert(open[t], i) \in SUBSET Subscription
    BY <2>2 DEF HeldOK
  <2>4. QED BY <2>1, <2>2, <2>3 DEF TrafficInv
<1>2. CASE i \notin Subscription
  BY <1>2 DEF handle_other_inputs_connected, TrafficInv
<1>3. QED BY <1>1, <1>2

LEMMA ReceivingHeld ==
    ASSUME TypeInv, TrafficInv, NEW t \in Task, Receiving(t)
    PROVE  TrafficInv'
<1> DEFINE i == Head(inputs[t])
<1>1. CASE i \in {Close, Reconnect} /\ UNCHANGED <<held, input_queue, open>>
  BY <1>1 DEF Receiving, TrafficInv
<1>2. CASE i \in Payload /\ handle_other_inputs_connected(t, i) /\ UNCHANGED input_queue
  BY <1>2, HandleHeld DEF Receiving, TrafficInv
<1>3. CASE /\ i \in Payload /\ handle_input_disconnected_other(t, i)
           /\ UNCHANGED <<held, open>>
  <2>1. Append(input_queue[t], i) \in Seq(Payload) BY <1>3 DEF TrafficInv
  <2>2. input_queue' \in [Task -> Seq(Payload)]
    <3>1. CASE Queued(i)
      <4>1. input_queue' = [input_queue EXCEPT ![t] = Append(input_queue[t], i)]
        BY <1>3, <3>1 DEF handle_input_disconnected_other
      <4>2. QED BY <2>1, <4>1 DEF TrafficInv
    <3>2. CASE ~Queued(i)
      BY <1>3, <3>2 DEF handle_input_disconnected_other, TrafficInv
    <3>3. QED BY <3>1, <3>2
  <2>3. QED BY <1>3, <2>2 DEF Receiving, TrafficInv
<1>4. QED BY <1>1, <1>2, <1>3 DEF Receiving

LEMMA TrafficInvNext ==
    ASSUME TypeInv, TrafficInv, [TrafficNext]_allVars
    PROVE  TrafficInv'
<1>1. ASSUME NEW t \in Task, Receiving(t) PROVE TrafficInv' BY <1>1, ReceivingHeld
<1>2. ASSUME NEW t \in Task, HandleQueued(t) PROVE TrafficInv'
  <2>1. input_queue' \in [Task -> Seq(Payload)]
    BY <1>2 DEF HandleQueued, Draining, TrafficInv
  <2>2. QED BY <1>2, <2>1, HandleHeld DEF HandleQueued
<1>3. ASSUME NEW t \in Task, Connection(t) PROVE TrafficInv'
  <2>1. /\ UNCHANGED <<held, input_queue, behind>>
        /\ \/ open' = open
           \/ open' = [open EXCEPT ![t] = {}]
    BY <1>3 DEF Connection, TrafficInv
  <2>2. QED BY <2>1 DEF TrafficInv, HeldOK
<1>4. ASSUME NEW t \in Task, NEW i, Sent(t, i), UNCHANGED <<held, input_queue, open>>
      PROVE  TrafficInv'
  <2>1. behind' \in [Task -> SUBSET {s.id : s \in Subscription}]
    BY <1>4 DEF Sent, TrafficInv
  <2>2. QED BY <1>4, <2>1 DEF TrafficInv
<1>5. CASE \E t \in Task, s \in Subscription : ResendTo(t, s) BY <1>4, <1>5 DEF ResendTo
<1>6. CASE SendTo
  <2>1. job.to \in Task
    BY <1>6 DEF SendTo, PoolSend, TypeInv, TypeOK, Job
  <2>2. QED BY <1>4, <1>6, <2>1 DEF SendTo
<1>7. CASE RelayEvent BY <1>7 DEF RelayEvent, trafficVars, TrafficInv
<1>8. CASE Client
  <2>1. subscriptions' \subseteq Subscription
    BY <1>8, PoolStepTypes DEF Client, TypeInv, TypeOK
  <2>2. behind' \in [Task -> SUBSET {s.id : s \in Subscription}]
    BY <1>8, <2>1 DEF Client, TrafficInv
  <2>3. QED BY <1>8, <2>2 DEF Client, TrafficInv
<1>9. CASE UNCHANGED allVars BY <1>9 DEF allVars, trafficVars, TrafficInv
<1>10. QED
  BY <1>1, <1>2, <1>3, <1>5, <1>6, <1>7, <1>8, <1>9 DEF TrafficNext

LEMMA TrafficInvariance == TrafficSpec => [](TypeInv /\ TrafficInv)
<1>1. TrafficInit => TrafficInv
  BY DEF TrafficInit, TrafficInv, HeldOK
<1>2. TypeInv /\ TrafficInv /\ [TrafficNext]_allVars => TrafficInv'
  BY TrafficInvNext
<1>3. QED
  BY TrafficImplementsPool, TypeInvariance, <1>1, <1>2, PTL DEF TrafficSpec

\* However the pool's sends, the resends and the lost connections follow each other,
\* a task has no request open that is not in its map, and one value of each id.
THEOREM TrafficTypeCorrect == TrafficSpec => []TrafficTypeOK
<1>1. TrafficInv => TrafficTypeOK
  BY DEF TrafficInv, HeldOK, TrafficTypeOK
<1>2. QED BY TrafficInvariance, <1>1, PTL

-----------------------------------------------------------------------------
(* Each task is a RelayTraffic. *)

\* A relay that is not connected has nothing open.
ClosedInv == \A t \in Task : Connected(t) \/ open[t] = {}

LEMMA TaskBegins ==
    ASSUME TrafficInit, NEW t \in Task
    PROVE  TrafficOf(t)!Init
BY DEF TrafficInit, Init, RelayInit, Connected, TrafficOf!Init

LEMMA TrafficStutters ==
    ASSUME NEW t \in Task, Connected(t)' = Connected(t),
           held'[t] = held[t], open'[t] = open[t], input_queue'[t] = input_queue[t]
    PROVE  [TrafficOf(t)!Next]_(TrafficOf(t)!vars)
BY DEF TrafficOf!vars, TrafficOf!socketVars, TrafficOf!switchVars, TrafficOf!sessionVars, TrafficOf!groupVars

LEMMA ConnectIsTraffics ==
    ASSUME NEW t \in Task, ~Connected(t), Connected(t)',
           held'[t] = held[t], open'[t] = open[t], input_queue'[t] = input_queue[t]
    PROVE  TrafficOf(t)!Next
<1>1. TrafficOf(t)!Connect
  BY DEF TrafficOf!Connect, TrafficOf!switchVars, TrafficOf!sessionVars, TrafficOf!groupVars
<1>2. QED BY <1>1 DEF TrafficOf!Next

\* A task leaves Connected with nothing queued, and its socket is dropped.
LEMMA CloseIsTraffics ==
    ASSUME NEW t \in Task, Connected(t), ~Connected(t)', input_queue[t] = <<>>,
           held'[t] = held[t], open'[t] = {}, input_queue'[t] = input_queue[t]
    PROVE  TrafficOf(t)!Next
<1>1. TrafficOf(t)!Disconnect
  BY DEF TrafficOf!Disconnect, TrafficOf!switchVars
<1>2. [i \in DOMAIN input_queue[t] |-> AsRelayInput(input_queue[t][i])] = <<>>
  OBVIOUS
<1>3. TrafficOf(t)!CloseReceived BY <1>1, <1>2 DEF TrafficOf!CloseReceived, TrafficOf!Selecting
<1>4. QED BY <1>3 DEF TrafficOf!Next

\* What TrafficOf(t)'s handlers change, when H is its map and O is open at its relay.
SessionWith(H, O) ==
    [ok |-> TRUE, subscriptions |-> H, timers |-> [s \in Subscription |-> 0], open |-> O,
     unanswered |-> O, unclosed |-> {}]

\* The request is written once the map's entry of its id was closed, or has none.
LEMMA RequestAfterClose ==
    ASSUME NEW t \in Task, NEW x, NEW s, NEW d, d.ok, NEW ok \in TrafficOf(t)!send_ws,
           d \in IF TrafficOf(t)!Entry(x.subscriptions, s.id) # {}
                 THEN TrafficOf(t)!close_subscription(x, s.id) ELSE {x}
    PROVE  TrafficOf(t)!Request(TrafficOf(t)!StartTimer(d, s), s, ok)
               \in TrafficOf(t)!subscribe(x, s)
<1>1. CASE TrafficOf(t)!Entry(x.subscriptions, s.id) = {}
  BY <1>1 DEF TrafficOf!subscribe
<1>2. CASE TrafficOf(t)!Entry(x.subscriptions, s.id) # {}
  BY <1>2 DEF TrafficOf!subscribe
<1>3. QED BY <1>1, <1>2
LEMMA SubscribeSession ==
    ASSUME NEW t \in Task, Connected(t), NEW s \in Subscription
    PROVE  \E H : /\ SessionWith(H, Insert(open[t], s))
                         \in TrafficOf(t)!subscribe(SessionWith(held[t], open[t]), s)
                  /\ Insert(H, s) = Insert(held[t], s)
<1> DEFINE x == SessionWith(held[t], open[t])
           Without(S) == {r \in S : r.id # s.id}
           c == SessionWith(Without(held[t]), Without(open[t]))
<1>1. PICK ok \in TrafficOf(t)!send_ws : ok = TRUE BY DEF TrafficOf!send_ws
<1>2. s.sub_type # "EOSE" BY SubscriptionAssumption
<1>3. ASSUME NEW H, NEW O
      PROVE  TrafficOf(t)!Request(TrafficOf(t)!StartTimer(SessionWith(H, O), s), s, ok)
                 = SessionWith(H, Insert(O, s))
  BY <1>1, <1>2 DEF TrafficOf!Request, TrafficOf!StartTimer, TrafficOf!Insert, TrafficOf!Remove,
                    SessionWith, Insert
<1>4. x.ok /\ c.ok /\ x.subscriptions = held[t] BY DEF SessionWith
<1>5. CASE TrafficOf(t)!Entry(held[t], s.id) = {}
  <2>1. TrafficOf(t)!Request(TrafficOf(t)!StartTimer(x, s), s, ok)
            \in TrafficOf(t)!subscribe(x, s)
    <3> HIDE DEF x
    <3>1. QED BY <1>4, <1>5, RequestAfterClose
  <2>2. QED BY <1>3, <2>1
<1>6. CASE TrafficOf(t)!Entry(held[t], s.id) # {}
  <2>1. c \in TrafficOf(t)!close_subscription(x, s.id)
    BY <1>1 DEF TrafficOf!close_subscription, TrafficOf!Remove, SessionWith
  <2>2. TrafficOf(t)!Request(TrafficOf(t)!StartTimer(c, s), s, ok)
            \in TrafficOf(t)!subscribe(x, s)
    <3> HIDE DEF x, c
    <3>1. QED BY <1>4, <1>6, <2>1, RequestAfterClose
  <2>3. SessionWith(Without(held[t]), Insert(Without(open[t]), s)) \in TrafficOf(t)!subscribe(x, s)
    BY <1>3, <2>2
  <2>4. /\ Insert(Without(open[t]), s) = Insert(open[t], s)
        /\ Insert(Without(held[t]), s) = Insert(held[t], s)
    BY DEF Insert
  <2>5. QED BY <2>3, <2>4
<1>7. QED BY <1>5, <1>6

\* A subscription that is handled replaces the one of its id, in the map and at the
\* relay.
LEMMA SubscribeIsTraffics ==
    ASSUME NEW t \in Task, Connected(t), NEW s \in Subscription,
           held'[t] = Insert(held[t], s), open'[t] = Insert(open[t], s)
    PROVE  TrafficOf(t)!Subscribe(s)
<1>1. TrafficOf(t)!Session = SessionWith(held[t], open[t])
  BY DEF TrafficOf!Session, SessionWith
<1>2. PICK H : /\ SessionWith(H, open'[t]) \in TrafficOf(t)!subscribe(TrafficOf(t)!Session, s)
               /\ Insert(H, s) = held'[t]
  BY <1>1, SubscribeSession
<1> DEFINE y == SessionWith(H, open'[t])
<1>3. TrafficOf(t)!Become(IF y.ok THEN [y EXCEPT !.subscriptions = TrafficOf(t)!Insert(@, s)] ELSE y)
  BY <1>2 DEF TrafficOf!Become, TrafficOf!Insert, TrafficOf!Remove, SessionWith, Insert
<1>4. QED
  BY <1>2, <1>3 DEF TrafficOf!Subscribe, TrafficOf!groupVars, TrafficOf!switchVars

\* What a connected task does with an input is what RelayTraffic does with a
\* Subscribe, or nothing.
LEMMA InputIsTraffics ==
    ASSUME TrafficInv, NEW t \in Task, Connected(t), NEW i \in Payload,
           handle_other_inputs_connected(t, i)
    PROVE  \/ /\ i \in Subscription /\ TrafficOf(t)!Subscribe(i)
              /\ AsRelayInput(i) = [kind |-> "Subscribe", subscription |-> i]
           \/ /\ AsRelayInput(i).kind \in {"SendEvent", "Auth", "FetchInformation"}
              /\ UNCHANGED <<TrafficOf(t)!sessionVars, TrafficOf(t)!groupVars,
                             TrafficOf(t)!switchVars>>
<1>1. CASE i \in Subscription
  <2>1. held'[t] = Insert(held[t], i) /\ open'[t] = Insert(open[t], i)
    BY <1>1 DEF handle_other_inputs_connected, subscribe, TrafficInv
  <2>2. TrafficOf(t)!Subscribe(i) BY <1>1, <2>1, SubscribeIsTraffics
  <2>3. QED BY <1>1, <2>2 DEF AsRelayInput
<1>2. CASE i \notin Subscription
  <2>1. AsRelayInput(i).kind \in {"SendEvent", "Auth", "FetchInformation"}
    BY <1>2, SubscriptionAssumption DEF AsRelayInput
  <2>2. UNCHANGED <<held, open>> BY <1>2 DEF handle_other_inputs_connected
  <2>3. QED
    BY <2>1, <2>2 DEF TrafficOf!sessionVars, TrafficOf!groupVars, TrafficOf!switchVars
<1>3. QED BY <1>1, <1>2

\* An input queue as RelayTraffic has it.
AsQueue(q) == [i \in DOMAIN q |-> AsRelayInput(q[i])]

LEMMA QueueOps ==
    ASSUME NEW q \in Seq(Payload)
    PROVE  /\ Len(AsQueue(q)) \in Nat
           /\ \A i \in Payload : AsQueue(Append(q, i)) = Append(AsQueue(q), AsRelayInput(i))
           /\ q = <<>> <=> AsQueue(q) = <<>>
           /\ q # <<>> => /\ Head(q) \in Payload
                          /\ Head(AsQueue(q)) = AsRelayInput(Head(q))
                          /\ AsQueue(Tail(q)) = Tail(AsQueue(q))
<1> DEFINE S == {AsRelayInput(p) : p \in Payload}
<1>1. AsQueue(q) \in Seq(S) /\ Len(AsQueue(q)) = Len(q) /\ Len(q) \in Nat BY DEF AsQueue
<1>2. ASSUME NEW i \in Payload PROVE AsQueue(Append(q, i)) = Append(AsQueue(q), AsRelayInput(i))
  <2> DEFINE a == Append(q, i)
             b == Append(AsQueue(q), AsRelayInput(i))
  <2>1. /\ a \in Seq(Payload) /\ Len(a) = Len(q) + 1 /\ a[Len(q) + 1] = i
        /\ \A k \in 1 .. Len(q) : a[k] = q[k]
    OBVIOUS
  <2>2. AsRelayInput(i) \in S OBVIOUS
  <2>3. /\ b \in Seq(S) /\ Len(b) = Len(q) + 1 /\ b[Len(q) + 1] = AsRelayInput(i)
        /\ \A k \in 1 .. Len(q) : b[k] = AsQueue(q)[k]
    <3> HIDE DEF S
    <3>1. QED BY <1>1, <2>2
  <2> HIDE DEF a, b
  <2>4. AsQueue(a) \in Seq(S) /\ Len(AsQueue(a)) = Len(a) BY <2>1 DEF AsQueue
  <2>5. ASSUME NEW k \in 1 .. Len(a) PROVE AsQueue(a)[k] = b[k]
    <3>1. AsQueue(a)[k] = AsRelayInput(a[k]) BY <2>1 DEF AsQueue
    <3>2. CASE k = Len(q) + 1 BY <2>1, <2>3, <3>1, <3>2
    <3>3. CASE k \in 1 .. Len(q)
      <4>1. AsQueue(q)[k] = AsRelayInput(q[k]) BY <3>3 DEF AsQueue
      <4>2. QED BY <2>1, <2>3, <3>1, <3>3, <4>1
    <3>4. QED BY <1>1, <2>1, <3>2, <3>3
  <2>6. AsQueue(a) = b
    <3> HIDE DEF S
    <3>1. QED BY <2>1, <2>3, <2>4, <2>5, SeqEqual
  <2>7. QED BY <2>6 DEF a, b
<1>3. q = <<>> <=> AsQueue(q) = <<>> BY <1>1 DEF AsQueue
<1>4. ASSUME q # <<>>
      PROVE  /\ Head(q) \in Payload
             /\ Head(AsQueue(q)) = AsRelayInput(Head(q))
             /\ AsQueue(Tail(q)) = Tail(AsQueue(q))
  <2> DEFINE a == Tail(q)
             b == Tail(AsQueue(q))
  <2>1. /\ a \in Seq(Payload) /\ Len(a) = Len(q) - 1 /\ Head(q) = q[1] /\ Head(q) \in Payload
        /\ \A k \in 1 .. Len(a) : a[k] = q[k + 1]
        /\ Len(q) > 0
    BY <1>4
  <2>2. /\ b \in Seq(S) /\ Len(b) = Len(q) - 1 /\ Head(AsQueue(q)) = AsQueue(q)[1]
        /\ \A k \in 1 .. Len(b) : b[k] = AsQueue(q)[k + 1]
    <3> HIDE DEF S
    <3>1. QED BY <1>1, <1>3, <1>4
  <2> HIDE DEF a, b
  <2>3. AsQueue(a) \in Seq(S) /\ Len(AsQueue(a)) = Len(a) BY <2>1 DEF AsQueue
  <2>4. ASSUME NEW k \in 1 .. Len(a) PROVE AsQueue(a)[k] = b[k]
    <3>1. AsQueue(a)[k] = AsRelayInput(a[k]) BY <2>1 DEF AsQueue
    <3>2. k + 1 \in 1 .. Len(q) /\ k \in 1 .. Len(b) BY <1>1, <2>1, <2>2
    <3>3. AsQueue(q)[k + 1] = AsRelayInput(q[k + 1]) BY <3>2 DEF AsQueue
    <3>4. a[k] = q[k + 1] /\ b[k] = AsQueue(q)[k + 1] BY <2>1, <2>2, <3>2
    <3>5. QED BY <3>1, <3>3, <3>4
  <2>5. AsQueue(a) = b
    <3> HIDE DEF S
    <3>1. QED BY <1>1, <2>1, <2>2, <2>3, <2>4, SeqEqual
  <2>6. AsQueue(q)[1] = AsRelayInput(q[1]) BY <1>1, <2>1 DEF AsQueue
  <2>7. QED BY <2>1, <2>2, <2>5, <2>6 DEF a, b
<1>5. QED BY <1>1, <1>2, <1>3, <1>4

\* The pool's client starts no groups.
LEMMA NothingStarted ==
    ASSUME NEW t \in Task, NEW i \in Payload
    PROVE  AsRelayInput(i) \in {j \in {AsRelayInput(p) : p \in Payload} : TrafficOf(t)!StartBound(j)}
<1>1. AsRelayInput(i).kind # "EoseActions" BY SubscriptionAssumption DEF AsRelayInput
<1>2. TrafficOf(t)!StartBound(AsRelayInput(i)) BY <1>1 DEF TrafficOf!StartBound
<1>3. QED BY <1>2

\* A connected task handles an input from its channel, or the first of its queue.
LEMMA ReceiveIsTraffics ==
    ASSUME TypeInv, TrafficInv, NEW t \in Task, Connected(t), Connected(t)', NEW i \in Payload,
           handle_other_inputs_connected(t, i), input_queue[t] = <<>>,
           input_queue'[t] = input_queue[t]
    PROVE  TrafficOf(t)!Next
<1>1. TrafficOf(t)!handle_other_inputs_connected(AsRelayInput(i))
  <2>1. CASE /\ TrafficOf(t)!Subscribe(i)
             /\ AsRelayInput(i) = [kind |-> "Subscribe", subscription |-> i]
    BY <2>1 DEF TrafficOf!handle_other_inputs_connected
  <2>2. CASE /\ AsRelayInput(i).kind \in {"SendEvent", "Auth", "FetchInformation"}
             /\ UNCHANGED <<TrafficOf(t)!sessionVars, TrafficOf(t)!groupVars,
                            TrafficOf(t)!switchVars>>
    BY <2>2 DEF TrafficOf!handle_other_inputs_connected
  <2>3. QED BY <2>1, <2>2, InputIsTraffics
<1>2. [k \in DOMAIN input_queue[t] |-> AsRelayInput(input_queue[t][k])] = <<>> OBVIOUS
<1>3. TrafficOf(t)!Selecting /\ TrafficOf(t)!TimerBound
  BY <1>2 DEF TrafficOf!Selecting, TrafficOf!TimerBound
<1>4. AsRelayInput(i) \in {j \in {AsRelayInput(p) : p \in Payload} : TrafficOf(t)!StartBound(j)}
  BY NothingStarted
<1>5. TrafficOf(t)!ReceiveInput
  BY <1>1, <1>3, <1>4 DEF TrafficOf!ReceiveInput, TrafficOf!socketVars
<1>6. QED BY <1>5 DEF TrafficOf!Next

LEMMA QueuedIsTraffics ==
    ASSUME TypeInv, TrafficInv, NEW t \in Task, HandleQueued(t)
    PROVE  TrafficOf(t)!Next
<1>1. /\ input_queue[t] \in Seq(Payload) /\ input_queue[t] # <<>>
      /\ input_queue'[t] = Tail(input_queue[t])
      /\ Connected(t) /\ Connected(t)'
      /\ handle_other_inputs_connected(t, Head(input_queue[t]))
  BY DEF HandleQueued, Draining, TrafficInv, Connected, vars, relayVars
<1>2. /\ Head(input_queue[t]) \in Payload
      /\ AsQueue(input_queue[t]) # <<>>
      /\ Head(AsQueue(input_queue[t])) = AsRelayInput(Head(input_queue[t]))
      /\ AsQueue(input_queue'[t]) = Tail(AsQueue(input_queue[t]))
  BY <1>1, QueueOps
<1>3. TrafficOf(t)!handle_other_inputs_connected(Head(AsQueue(input_queue[t])))
  <2>1. PICK i \in Payload : i = Head(input_queue[t]) BY <1>2
  <2>2. handle_other_inputs_connected(t, i)
    BY <1>1, <2>1 DEF handle_other_inputs_connected, subscribe
  <2>3. CASE /\ TrafficOf(t)!Subscribe(i)
             /\ AsRelayInput(i) = [kind |-> "Subscribe", subscription |-> i]
    <3>1. Head(AsQueue(input_queue[t])) = [kind |-> "Subscribe", subscription |-> i]
      BY <1>2, <2>1, <2>3
    <3>2. TrafficOf(t)!Subscribe(Head(AsQueue(input_queue[t])).subscription)
      BY <2>3, <3>1 DEF TrafficOf!Subscribe, TrafficOf!Become
    <3>3. QED BY <3>1, <3>2 DEF TrafficOf!handle_other_inputs_connected
  <2>4. CASE /\ AsRelayInput(i).kind \in {"SendEvent", "Auth", "FetchInformation"}
             /\ UNCHANGED <<TrafficOf(t)!sessionVars, TrafficOf(t)!groupVars,
                            TrafficOf(t)!switchVars>>
    BY <1>2, <2>1, <2>4 DEF TrafficOf!handle_other_inputs_connected
  <2>5. QED BY <1>1, <2>2, <2>3, <2>4, InputIsTraffics
<1>4. TrafficOf(t)!HandleQueued
  BY <1>1, <1>2, <1>3 DEF AsQueue, TrafficOf!HandleQueued, TrafficOf!socketVars
<1>5. QED BY <1>4 DEF TrafficOf!Next

\* What a task that is not connected does with an input.
LEMMA KeptIsTraffics ==
    ASSUME TypeInv, TrafficInv, NEW t \in Task, ~Connected(t), ~Connected(t)', NEW i \in Payload,
           handle_input_disconnected_other(t, i), UNCHANGED <<held, open>>
    PROVE  TrafficOf(t)!Next
<1>1. AsRelayInput(i).kind = i.kind BY SubscriptionAssumption DEF AsRelayInput
<1>2. i.kind \in {"Subscribe", "SendEvent", "Auth", "FetchInformation"}
  BY SubscriptionAssumption
<1>3. input_queue[t] \in Seq(Payload) BY DEF TrafficInv
<1>4. TrafficOf(t)!handle_input_disconnected_other(AsRelayInput(i))
  <2>1. CASE i.kind = "FetchInformation"
    <3>1. UNCHANGED input_queue BY <2>1 DEF handle_input_disconnected_other, Queued
    <3>2. QED
      BY <1>1, <2>1, <3>1 DEF TrafficOf!handle_input_disconnected_other, TrafficOf!sessionVars,
                              TrafficOf!groupVars, TrafficOf!switchVars
  <2>2. CASE i.kind # "FetchInformation"
    <3>1. input_queue'[t] = Append(input_queue[t], i)
      BY <1>2, <2>2 DEF handle_input_disconnected_other, Queued, TrafficInv
    <3>2. /\ AsQueue(input_queue'[t]) = Append(AsQueue(input_queue[t]), AsRelayInput(i))
          /\ Len(AsQueue(input_queue[t])) + 1 \in Nat
      BY <1>3, <3>1, QueueOps
    <3>3. QED
      BY <1>1, <1>2, <2>2, <3>2
         DEF AsQueue, TrafficOf!handle_input_disconnected_other, TrafficOf!sessionVars,
             TrafficOf!groupVars, TrafficOf!switchVars
  <2>3. QED BY <2>1, <2>2
<1>5. AsRelayInput(i) \in {j \in {AsRelayInput(p) : p \in Payload} : TrafficOf(t)!StartBound(j)}
  BY NothingStarted
<1>6. TrafficOf(t)!ReceiveInput
  <2>1. TrafficOf(t)!TimerBound BY DEF TrafficOf!TimerBound
  <2>2. UNCHANGED TrafficOf(t)!socketVars BY DEF Connected, TrafficOf!socketVars
  <2>3. \E j \in {k \in {AsRelayInput(p) : p \in Payload} : TrafficOf(t)!StartBound(k)} :
            ~Connected(t) /\ TrafficOf(t)!handle_input_disconnected_other(j)
    BY <1>4, <1>5
  <2>4. QED BY <2>1, <2>2, <2>3 DEF TrafficOf!ReceiveInput
<1>7. QED BY <1>6 DEF TrafficOf!Next

\* A step as t's RelayTraffic sees it.
TrafficStep(t) == [TrafficOf(t)!Next]_(TrafficOf(t)!vars)

\* A task's step leaves the traffic of the others alone.
LEMMA OthersStutter ==
    ASSUME TypeInv, TrafficInv, NEW r \in Task, Receiving(r) \/ HandleQueued(r) \/ Connection(r),
           NEW t \in Task, t # r
    PROVE  TrafficStep(t) /\ (Connected(t) \/ open[t] = {} => Connected(t)' \/ open'[t] = {})
<1>1. state'[t] = state[t]
  BY RelayStepFrame DEF Receiving, HandleQueued, Connection, RelayStep, vars, relayVars
<1>2. held'[t] = held[t] /\ open'[t] = open[t] /\ input_queue'[t] = input_queue[t]
  BY DEF Receiving, HandleQueued, Connection, handle_other_inputs_connected, subscribe,
         handle_input_disconnected_other, TrafficInv
<1>3. Connected(t)' = Connected(t) BY <1>1 DEF Connected
<1>4. TrafficStep(t) BY <1>2, <1>3, TrafficStutters DEF TrafficStep
<1>5. QED BY <1>1, <1>2, <1>4 DEF Connected

LEMMA ReceivingIsTraffics ==
    ASSUME TypeInv, TrafficInv, NEW t \in Task, Receiving(t)
    PROVE  TrafficStep(t) /\ (Connected(t) \/ open[t] = {} => Connected(t)' \/ open'[t] = {})
<1> DEFINE i == Head(inputs[t])
<1>1. state' = state
  BY DEF Receiving, ReceiveStep, TakeInput, TerminatedReconnect, TerminatedOther, DisconnectedClose,
         DisconnectedReconnect, DisconnectedOther, ConnectingClose, ConnectingOther,
         ConnectedClose, ConnectedOther
<1>2. Connected(t)' = Connected(t) BY <1>1 DEF Connected
<1>3. CASE i \in {Close, Reconnect} /\ UNCHANGED <<held, input_queue, open>>
  BY <1>2, <1>3, TrafficStutters DEF TrafficStep
<1>4. CASE /\ i \in Payload /\ Connected(t)
           /\ handle_other_inputs_connected(t, i) /\ UNCHANGED input_queue
  <2>1. input_queue[t] = <<>> BY <1>4 DEF Receiving, Draining
  <2>2. PICK p \in Payload : p = i BY <1>4
  <2>3. handle_other_inputs_connected(t, p)
    BY <1>4, <2>2 DEF handle_other_inputs_connected, subscribe
  <2>4. Connected(t)' BY <1>1, <1>4 DEF Connected
  <2>5. QED BY <1>4, <2>1, <2>3, <2>4, ReceiveIsTraffics DEF TrafficStep
<1>5. CASE /\ i \in Payload /\ ~Connected(t)
           /\ handle_input_disconnected_other(t, i) /\ UNCHANGED <<held, open>>
  <2>1. PICK p \in Payload : p = i BY <1>5
  <2>2. handle_input_disconnected_other(t, p)
    BY <1>5, <2>1 DEF handle_input_disconnected_other
  <2>3. ~Connected(t)' BY <1>1, <1>5 DEF Connected
  <2>4. TrafficOf(t)!Next BY <1>5, <2>2, <2>3, KeptIsTraffics
  <2>5. QED BY <1>5, <2>4 DEF TrafficStep
<1>6. QED BY <1>3, <1>4, <1>5 DEF Receiving

LEMMA ConnectionIsTraffics ==
    ASSUME TypeInv, TrafficInv, ClosedInv, NEW t \in Task, Connection(t)
    PROVE  TrafficStep(t) /\ (Connected(t)' \/ open'[t] = {})
<1>1. /\ held'[t] = held[t] /\ input_queue'[t] = input_queue[t]
      /\ open'[t] = IF Connected(t)' THEN open[t] ELSE {}
      /\ Connected(t) => input_queue[t] = <<>>
  BY DEF Connection, Draining, TrafficInv
<1>2. CASE Connected(t) /\ Connected(t)'
  BY <1>1, <1>2, TrafficStutters DEF TrafficStep, Connected
<1>3. CASE Connected(t) /\ ~Connected(t)'
  BY <1>1, <1>3, CloseIsTraffics DEF TrafficStep
<1>4. CASE ~Connected(t) /\ Connected(t)'
  BY <1>1, <1>4, ConnectIsTraffics DEF TrafficStep
<1>5. CASE ~Connected(t) /\ ~Connected(t)'
  <2>1. open'[t] = open[t] BY <1>1, <1>5 DEF ClosedInv
  <2>2. Connected(t)' = Connected(t) BY <1>5 DEF Connected
  <2>3. QED BY <1>1, <2>1, <2>2, <1>5, TrafficStutters DEF TrafficStep
<1>6. QED BY <1>1, <1>2, <1>3, <1>4, <1>5

\* The pool's steps spawn tasks and fill channels, which is no traffic yet.
LEMMA PoolIsNoTraffic ==
    ASSUME TypeInv, TrafficInv,
           \/ \E t \in Task, s \in Subscription : ResendTo(t, s)
           \/ SendTo \/ RelayEvent \/ Client \/ UNCHANGED allVars
    PROVE  /\ UNCHANGED <<held, open, input_queue>>
           /\ \A t \in Task : Connected(t)' = Connected(t)
<1>1. UNCHANGED <<held, open, input_queue>>
  BY DEF ResendTo, SendTo, RelayEvent, Client, allVars, trafficVars
<1>2. CASE state' = state BY <1>1, <1>2 DEF Connected
<1>3. CASE \E r \in Task : AddRelay(UrlOf[r], r)
  BY <1>1, <1>3 DEF AddRelay, Spawn, Connected, TypeInv, TypeOK, RelayTypeOK
<1>4. state' = state \/ \E r \in Task : AddRelay(UrlOf[r], r)
  <2>1. CASE \/ \E t \in Task, s \in Subscription : ResendTo(t, s)
             \/ SendTo \/ RelayEvent \/ UNCHANGED allVars
    BY <2>1 DEF ResendTo, Resend, SendTo, PoolSend, Deliver, RelayEvent, handle_relay_to_pool,
                allVars, vars, relayVars
  <2>2. CASE Client BY <2>2, CommandCases DEF Client, relayVars
  <2>3. QED BY <2>1, <2>2
<1>5. QED BY <1>2, <1>3, <1>4

LEMMA EachStepIsTraffics ==
    ASSUME TypeInv, TrafficInv, ClosedInv, [TrafficNext]_allVars
    PROVE  ClosedInv' /\ \A t \in Task : TrafficStep(t)
<1>1. SUFFICES ASSUME NEW t \in Task
               PROVE  TrafficStep(t) /\ (Connected(t)' \/ open'[t] = {})
  BY DEF ClosedInv
<1>2. Connected(t) \/ open[t] = {} BY DEF ClosedInv
<1>3. ASSUME NEW r \in Task, Receiving(r) \/ HandleQueued(r) \/ Connection(r), t # r
      PROVE  TrafficStep(t) /\ (Connected(t)' \/ open'[t] = {})
  BY <1>2, <1>3, OthersStutter
<1>4. CASE Receiving(t) BY <1>2, <1>4, ReceivingIsTraffics
<1>5. CASE HandleQueued(t)
  <2>1. Connected(t)' BY <1>5 DEF HandleQueued, Draining, Connected, vars, relayVars
  <2>2. QED BY <1>5, <2>1, QueuedIsTraffics DEF TrafficStep
<1>6. CASE Connection(t) BY <1>6, ConnectionIsTraffics
<1>7. CASE \/ \E r \in Task, s \in Subscription : ResendTo(r, s)
           \/ SendTo \/ RelayEvent \/ Client \/ UNCHANGED allVars
  BY <1>2, <1>7, PoolIsNoTraffic, TrafficStutters DEF TrafficStep
<1>8. QED BY <1>3, <1>4, <1>5, <1>6, <1>7 DEF TrafficNext

\* In the pool's hands every task does only what RelayTraffic lets a task do, over
\* resends, orphaned tasks and lost connections.
THEOREM TasksImplementTraffic == TrafficSpec => EachTaskIsTraffic
<1>1. TrafficInit => ClosedInv /\ \A t \in Task : TrafficOf(t)!Init
  BY TaskBegins DEF TrafficInit, ClosedInv
<1>2. TypeInv /\ TrafficInv /\ ClosedInv /\ [TrafficNext]_allVars
          => ClosedInv' /\ [\A t \in Task : TrafficStep(t)]_allVars
  BY EachStepIsTraffics
<1>3. TrafficSpec => [][\A t \in Task : TrafficStep(t)]_allVars
  BY <1>1, <1>2, TrafficInvariance, PTL DEF TrafficSpec
<1>4. QED BY <1>1, <1>3, PTL DEF TrafficSpec, EachTaskIsTraffic, TrafficStep
=============================================================================
