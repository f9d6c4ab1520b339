-------------------------- MODULE RelayPool_proofs --------------------------
(***************************************************************************)
(* Theorems about RelayPool, for every set of tasks, urls and payloads and *)
(* for every capacity.                                                     *)
(***************************************************************************)
EXTENDS RelayPool, TLAPS

(***************************************************************************)
(* The events each loop state can be sending.  A connection attempt is     *)
(* announced only while one is left, which bounds the attempt counter.     *)
(***************************************************************************)
EventsIn(s) ==
    IF s = "Disconnected" THEN {"Closed", "MaxAttempsExceeded", "AttempToConnect"}
    ELSE IF s = "Connecting"
         THEN {"Closed", "ConnectedToSocket", "FailedToConnect", "TerminateRelay"}
    ELSE IF s = "Connected" THEN {"Closed", "RelayDisconnected"}
    ELSE IF s = "Terminated" THEN {"Reconnecting"}
    ELSE {}

OutgoingOK ==
    \A t \in Task :
        /\ outgoing[t] \in EventsIn(state[t]) \cup {NoEvent}
        /\ outgoing[t] = "AttempToConnect" => attempts[t] < MaxAttempts

TypeInv == TypeOK /\ OutgoingOK

-----------------------------------------------------------------------------
(* Facts about the helpers. *)

\* The status the pool derives from an event is the loop state after it.
LEMMA StatusIsState ==
    ASSUME NEW e \in RelayToPoolEvent
    PROVE  /\ set_status(e) = StateAfter(e)
           /\ StateAfter(e) \in RelayStatus
  BY DEF set_status, StateAfter, RelayToPoolEvent, RelayStatus

\* What a completed send leaves in the fields of the Relay value has their types.
LEMMA AfterSendTypes ==
    ASSUME NEW e \in RelayToPoolEvent, NEW s \in RelayStatus, NEW d \in Nat,
           NEW a \in 0 .. MaxAttempts, e = "AttempToConnect" => a < MaxAttempts
    PROVE  /\ StatusAfter(e, s) \in RelayStatus
           /\ DelayAfter(e, d) \in Nat
           /\ AttemptsAfter(e, a) \in 0 .. MaxAttempts
  BY RelayAssumption
     DEF StatusAfter, DelayAfter, AttemptsAfter, retry_with_delay, RelayToPoolEvent, RelayStatus

LEMMA EventsInTypes ==
    ASSUME NEW s
    PROVE  /\ EventsIn(s) \subseteq RelayToPoolEvent
           /\ NoEvent \notin RelayToPoolEvent
  BY DEF EventsIn, RelayToPoolEvent, NoEvent

\* Shortening a channel from the front, or adding to one that has room.
LEMMA ChannelOps ==
    ASSUME NEW S, NEW q \in Seq(S), NEW n \in Nat, Len(q) <= n
    PROVE  /\ q # <<>> => /\ Head(q) \in S
                          /\ Tail(q) \in Seq(S)
                          /\ Len(Tail(q)) = Len(q) - 1
                          /\ \A i \in DOMAIN Tail(q) : i + 1 \in DOMAIN q /\ Tail(q)[i] = q[i + 1]
                          /\ \A i \in DOMAIN q : i # 1 => i - 1 \in DOMAIN Tail(q)
           /\ \A e \in S : /\ Append(q, e) \in Seq(S)
                           /\ Len(Append(q, e)) = Len(q) + 1
                           /\ Append(q, e)[Len(q) + 1] = e
                           /\ \A i \in DOMAIN q : Append(q, e)[i] = q[i]
           /\ DOMAIN q = 1 .. Len(q)
           /\ Len(q) \in Nat
  OBVIOUS

\* Receiving from an input channel, and delivering to one that can take it.
LEMMA InputTypes ==
    ASSUME TypeOK, NEW t \in Task
    PROVE  /\ inputs[t] # <<>> /\ Receive(t) =>
                 /\ inputs' \in [Task -> Seq(RelayInput)]
                 /\ \A s \in Task : Len(inputs'[s]) <= InputCap
           /\ \A i \in RelayInput : CanSend(t) /\ Deliver(t, i) =>
                 /\ inputs' \in [Task -> Seq(RelayInput)]
                 /\ \A s \in Task : Len(inputs'[s]) <= InputCap
<1>1. /\ inputs \in [Task -> Seq(RelayInput)]
      /\ \A s \in Task : Len(inputs[s]) <= InputCap
      /\ InputCap \in Nat
  BY RelayAssumption DEF TypeOK, RelayTypeOK
<1>2. ASSUME inputs[t] # <<>>, Receive(t)
      PROVE  /\ inputs' \in [Task -> Seq(RelayInput)]
             /\ \A s \in Task : Len(inputs'[s]) <= InputCap
  <2>1. Tail(inputs[t]) \in Seq(RelayInput) /\ Len(Tail(inputs[t])) <= InputCap
    BY <1>1, <1>2, ChannelOps
  <2> QED
    BY <1>1, <1>2, <2>1 DEF Receive
<1>3. ASSUME NEW i \in RelayInput, CanSend(t), Deliver(t, i)
      PROVE  /\ inputs' \in [Task -> Seq(RelayInput)]
             /\ \A s \in Task : Len(inputs'[s]) <= InputCap
  <2>1. CASE state[t] = "Ended"
    BY <1>1, <1>3, <2>1 DEF Deliver
  <2>2. CASE state[t] # "Ended"
    <3>1. /\ Append(inputs[t], i) \in Seq(RelayInput)
          /\ Len(Append(inputs[t], i)) <= InputCap
      BY <1>1, <1>3, <2>2 DEF CanSend
    <3> QED
      BY <1>1, <1>3, <2>2, <3>1 DEF Deliver
  <2> QED
    BY <2>1, <2>2
<1> QED
  BY <1>2, <1>3

-----------------------------------------------------------------------------
(* Types.  TypeOK alone is not inductive: the bound on the attempt counter   *)
(* needs to know that an attempt is only announced while one is left.        *)

LEMMA TypeInit == Init => TypeInv
  BY RelayAssumption, PoolAssumption
     DEF Init, RelayInit, TypeInv, TypeOK, RelayTypeOK, OutgoingOK, EventsIn, Job, Idle,
         RelayInput, RelayStatus, RelayToPoolEvent, NoEvent, Close

\* The steps of a relay task.
LEMMA RelayStepTypes ==
    ASSUME TypeInv, NEW t \in Task, RelayStep(t)
    PROVE  TypeInv'
<1>1. CASE ReceiveStep(t)
  <2> USE <1>1, InputTypes, RelayAssumption
      DEF ReceiveStep, TypeInv, TypeOK, RelayTypeOK, OutgoingOK, poolVars, Selecting, NextInput
  <2>1. CASE TerminatedReconnect(t)
    BY <2>1 DEF TerminatedReconnect, Announce, EventsIn, RelayToPoolEvent, NoEvent
  <2>2. CASE TerminatedOther(t)
    BY <2>2 DEF TerminatedOther
  <2>3. CASE DisconnectedClose(t)
    BY <2>3 DEF DisconnectedClose, Announce, EventsIn, RelayToPoolEvent, NoEvent
  <2>4. CASE DisconnectedReconnect(t)
    BY <2>4 DEF DisconnectedReconnect, try_connect, Announce, EventsIn, RelayToPoolEvent, NoEvent
  <2>5. CASE DisconnectedOther(t)
    BY <2>5 DEF DisconnectedOther, try_connect, Announce, EventsIn, RelayToPoolEvent, NoEvent
  <2>6. CASE ConnectingClose(t)
    BY <2>6 DEF ConnectingClose, Announce, EventsIn, RelayToPoolEvent, NoEvent
  <2>7. CASE ConnectingOther(t)
    BY <2>7 DEF ConnectingOther
  <2>8. CASE ConnectedClose(t)
    BY <2>8 DEF ConnectedClose, Announce, EventsIn, RelayToPoolEvent, NoEvent
  <2>9. CASE ConnectedOther(t)
    BY <2>9 DEF ConnectedOther
  <2> QED
    BY <2>1, <2>2, <2>3, <2>4, <2>5, <2>6, <2>7, <2>8, <2>9 DEF TakeInput
<1>2. CASE SendStep(t)
  <2> DEFINE e == outgoing[t]
  <2>1. /\ e \in RelayToPoolEvent /\ e # NoEvent
        /\ status[t] \in RelayStatus /\ delay[t] \in Nat /\ attempts[t] \in 0 .. MaxAttempts
        /\ e = "AttempToConnect" => attempts[t] < MaxAttempts
    BY <1>2 DEF SendStep, SendToPool, TypeInv, TypeOK, RelayTypeOK, OutgoingOK
  <2>2. /\ StateAfter(e) \in RelayStatus
        /\ StatusAfter(e, status[t]) \in RelayStatus
        /\ DelayAfter(e, delay[t]) \in Nat
        /\ AttemptsAfter(e, attempts[t]) \in 0 .. MaxAttempts
    BY <2>1, StatusIsState, AfterSendTypes
  <2>3. toPool' \in Seq(RelayToPool) /\ Len(toPool') <= PoolCap
    <3>1. [url |-> UrlOf[t], event |-> e] \in RelayToPool
      BY <2>1, RelayAssumption DEF RelayToPool
    <3>2. /\ toPool \in Seq(RelayToPool)
          /\ Len(toPool) < PoolCap /\ PoolCap \in Nat
          /\ toPool' = Append(toPool, [url |-> UrlOf[t], event |-> e])
      BY <1>2, RelayAssumption DEF SendStep, SendToPool, TypeInv, TypeOK, RelayTypeOK
    <3> HIDE DEF e
    <3> QED
      BY <3>1, <3>2, ChannelOps
  <2>4. /\ outgoing' = [outgoing EXCEPT ![t] = NoEvent]
        /\ state' = [state EXCEPT ![t] = StateAfter(e)]
        /\ status' = [status EXCEPT ![t] = StatusAfter(e, status[t])]
        /\ delay' = [delay EXCEPT ![t] = DelayAfter(e, delay[t])]
        /\ attempts' = [attempts EXCEPT ![t] = AttemptsAfter(e, attempts[t])]
        /\ UNCHANGED <<inputs, poolVars>>
    BY <1>2 DEF SendStep, SendToPool
  <2> HIDE DEF e
  <2>5. TypeOK'
    BY <2>2, <2>3, <2>4 DEF TypeInv, TypeOK, RelayTypeOK, poolVars
  <2>6. OutgoingOK'
    BY <2>4 DEF TypeInv, TypeOK, RelayTypeOK, OutgoingOK, NoEvent
  <2> QED
    BY <2>5, <2>6 DEF TypeInv
<1>3. CASE EndStep(t)
  <2>1. End(t) /\ UNCHANGED poolVars
    BY <1>3 DEF EndStep, InputClosed, SendToPoolFailed
  <2>2. 0 \in 0 .. MaxAttempts /\ InputCap \in Nat
    BY RelayAssumption
  <2>3. TypeOK'
    BY <2>1, <2>2 DEF End, TypeInv, TypeOK, RelayTypeOK, poolVars, RelayStatus
  <2>4. OutgoingOK'
    BY <2>1, <2>2 DEF End, TypeInv, TypeOK, RelayTypeOK, OutgoingOK, NoEvent
  <2> QED
    BY <2>3, <2>4 DEF TypeInv
<1>4. CASE NetworkStep(t)
  <2> USE <1>4 DEF NetworkStep, TypeInv, TypeOK, RelayTypeOK, OutgoingOK, poolVars, Selecting,
                   Announce, EventsIn, RelayToPoolEvent, NoEvent
  <2>1. CASE SleepElapsed(t)
    BY <2>1, RelayAssumption DEF SleepElapsed, try_connect
  <2>2. CASE SocketLost(t)
    BY <2>2 DEF SocketLost
  <2>3. CASE ConnectionResult(t)
    BY <2>3 DEF ConnectionResult
  <2> QED
    BY <2>1, <2>2, <2>3
<1> QED
  BY <1>1, <1>2, <1>3, <1>4 DEF RelayStep

\* A job the pool begins, and the ways one goes on.
LEMMA JobTypes ==
    ASSUME TypeOK
    PROVE  /\ Idle \in Job
           /\ Listening \subseteq Task
           /\ \A i \in RelayInput, targets \in SUBSET Task, then \in {"continue", "remove", "break"} :
                  BeginSend(i, targets, then) => job' \in Job
           /\ job.to # NoTask => job.to \in Task
           /\ job \in Job
           /\ job.input \in RelayInput /\ job.rest \in SUBSET Task
           /\ job.then \in {"continue", "remove", "break"}
<1>1. Idle \in Job
  BY DEF Idle, Job, RelayInput, Close
<1>2. Listening \subseteq Task
  BY DEF TypeOK, Listening
<1>3. ASSUME NEW i \in RelayInput, NEW targets \in SUBSET Task,
             NEW then \in {"continue", "remove", "break"}, BeginSend(i, targets, then)
      PROVE  job' \in Job
  BY <1>3 DEF BeginSend, Job
<1>4. /\ job.to # NoTask => job.to \in Task
      /\ job \in Job
      /\ job.input \in RelayInput /\ job.rest \in SUBSET Task
      /\ job.then \in {"continue", "remove", "break"}
  BY DEF TypeOK, Job
<1> QED
  BY <1>1, <1>2, <1>3, <1>4

LEMMA DropPoolTypes ==
    ASSUME NEW r \in {"shutdown", "abandoned"}, DropPool(r)
    PROVE  /\ pool' \in {"running", "shutdown", "abandoned"}
           /\ relays' \in [Url -> Task \cup {NoTask}]
           /\ listenerStatus' \in [Url -> RelayStatus]
           /\ subscriptions' \subseteq Subscription
           /\ toPool' \in Seq(RelayToPool)
           /\ Len(toPool') <= PoolCap
           /\ job' \in Job
  BY RelayAssumption DEF DropPool, RelayStatus, Idle, Job, RelayInput, Close

\* The pool's handling of events, commands and sends.
LEMMA PoolStepTypes ==
    ASSUME TypeInv,
           \/ \E t \in Task, s \in Subscription : Resend(t, s)
           \/ handle_relay_to_pool
           \/ Command
           \/ PoolSend
    PROVE  TypeInv'
<1> USE DEF TypeInv, TypeOK, RelayTypeOK, OutgoingOK
<1>0. /\ Subscription \subseteq RelayInput /\ Payload \subseteq RelayInput
      /\ Close \in RelayInput /\ Reconnect \in RelayInput
      /\ \A t \in Task : UrlOf[t] \in Url
  BY PoolAssumption, RelayAssumption DEF RelayInput
<1>1. ASSUME NEW t \in Task, NEW s \in Subscription, Resend(t, s)
      PROVE  TypeInv'
  BY <1>0, <1>1, InputTypes DEF Resend
<1>2. CASE handle_relay_to_pool
  <2>1. /\ toPool' \in Seq(RelayToPool)
        /\ Len(toPool') <= PoolCap
        /\ Head(toPool) \in RelayToPool
    <3>1. /\ toPool \in Seq(RelayToPool) /\ toPool # <<>>
          /\ Len(toPool) <= PoolCap /\ PoolCap \in Nat
          /\ toPool' = Tail(toPool)
      BY <1>2, RelayAssumption DEF handle_relay_to_pool
    <3> QED
      BY <3>1, ChannelOps
  <2>2. set_status(Head(toPool).event) \in RelayStatus
    BY <2>1, StatusIsState DEF RelayToPool
  <2>3. listenerStatus' \in [Url -> RelayStatus]
    BY <1>2, <2>2 DEF handle_relay_to_pool
  <2>4. resend' \in [Task -> [Subscription -> Nat]]
    <3>1. CASE UNCHANGED resend
      BY <3>1
    <3>2. ASSUME NEW t \in Task, SpawnResends(t)
          PROVE  resend' \in [Task -> [Subscription -> Nat]]
      <4> DEFINE f == [s \in Subscription |->
                         IF s \in subscriptions THEN resend[t][s] + 1 ELSE resend[t][s]]
      <4>1. f \in [Subscription -> Nat]
        OBVIOUS
      <4>2. resend' = [resend EXCEPT ![t] = f]
        BY <3>2 DEF SpawnResends
      <4> HIDE DEF f
      <4> QED
        BY <4>1, <4>2
    <3>3. relays[Head(toPool).url] # NoTask => relays[Head(toPool).url] \in Task
      BY <2>1 DEF RelayToPool
    <3> QED
      BY <1>2, <3>1, <3>2, <3>3 DEF handle_relay_to_pool
  <2> QED
    BY <1>2, <2>1, <2>3, <2>4 DEF handle_relay_to_pool
<1>3. CASE Command
  <2> USE <1>0, JobTypes DEF send_to_listener, send_to_all
  <2>1. ASSUME NEW t \in Task, AddRelay(UrlOf[t], t)
        PROVE  TypeInv'
    BY <2>1 DEF AddRelay, Spawn, RelayStatus, EventsIn, NoEvent
  <2>2. ASSUME NEW u \in Url, RemoveRelay(u)
        PROVE  TypeInv'
    BY <2>2 DEF RemoveRelay, relayVars
  <2>3. ASSUME NEW u \in Url, ReconnectRelay(u)
        PROVE  TypeInv'
    BY <2>3 DEF ReconnectRelay, relayVars
  <2>4. ASSUME NEW u \in Url, NEW p \in Payload \ Subscription, ForwardToOne(u, p)
        PROVE  TypeInv'
    BY <2>4 DEF ForwardToOne, relayVars
  <2>5. ASSUME NEW p \in Payload \ Subscription, ForwardToAll(p)
        PROVE  TypeInv'
    BY <2>5 DEF ForwardToAll, relayVars
  <2>6. ASSUME NEW s \in Subscription, AddSubscription(s)
        PROVE  TypeInv'
    <3>1. subscriptions' \subseteq Subscription
      BY <2>6 DEF AddSubscription, WithSubscription
    <3>2. job' \in Job
      BY <2>6 DEF AddSubscription
    <3> QED
      BY <2>6, <3>1, <3>2 DEF AddSubscription, relayVars
  <2>7. ASSUME NEW u \in Url, NEW s \in Subscription, AddSubscriptionToRelay(u, s)
        PROVE  TypeInv'
    <3>1. subscriptions' \subseteq Subscription
      BY <2>7 DEF AddSubscriptionToRelay, WithSubscription
    <3>2. job' \in Job
      BY <2>7 DEF AddSubscriptionToRelay
    <3> QED
      BY <2>7, <3>1, <3>2 DEF AddSubscriptionToRelay, relayVars
  <2>8. CASE Shutdown
    <3>1. CASE /\ DropPool("shutdown")
               /\ UNCHANGED <<state, delay, attempts, status, inputs, outgoing, resend>>
      BY <3>1, DropPoolTypes
    <3>2. CASE /\ BeginSend(Close, Listening, "break")
               /\ UNCHANGED <<relayVars, pool, relays, listenerStatus, subscriptions, resend>>
      BY <3>2 DEF relayVars
    <3> QED
      BY <2>8, <3>1, <3>2 DEF Shutdown
  <2>9. CASE Abandon
    BY <2>9, DropPoolTypes DEF Abandon
  <2> QED
    BY <1>3, <2>1, <2>2, <2>3, <2>4, <2>5, <2>6, <2>7, <2>8, <2>9 DEF Command
<1>4. CASE PoolSend
  <2>1. /\ inputs' \in [Task -> Seq(RelayInput)]
        /\ \A s \in Task : Len(inputs'[s]) <= InputCap
    BY <1>4, InputTypes, JobTypes DEF PoolSend
  <2>2. /\ job' \in Job
        /\ relays' \in [Url -> Task \cup {NoTask}]
        /\ listenerStatus' \in [Url -> RelayStatus]
        /\ subscriptions' \subseteq Subscription
        /\ pool' \in {"running", "shutdown", "abandoned"}
        /\ toPool' \in Seq(RelayToPool)
        /\ Len(toPool') <= PoolCap
    <3>1. CASE job.rest # {} /\ BeginSend(job.input, job.rest, job.then)
               /\ UNCHANGED <<pool, relays, listenerStatus, subscriptions, toPool>>
      BY <3>1, JobTypes
    <3>2. CASE job' = Idle /\ UNCHANGED <<pool, relays, listenerStatus, subscriptions, toPool>>
      BY <3>2, JobTypes
    <3>3. CASE /\ job' = Idle
               /\ relays' = [relays EXCEPT ![UrlOf[job.to]] = NoTask]
               /\ listenerStatus' = [listenerStatus EXCEPT ![UrlOf[job.to]] = "Disconnected"]
               /\ UNCHANGED <<pool, subscriptions, toPool>>
      BY <3>3, JobTypes DEF RelayStatus
    <3>4. CASE DropPool("shutdown")
      BY <3>4, DropPoolTypes
    <3> QED
      BY <1>4, <3>1, <3>2, <3>3, <3>4 DEF PoolSend, AfterSend
  <2> QED
    BY <1>4, <2>1, <2>2 DEF PoolSend
<1> QED
  BY <1>1, <1>2, <1>3, <1>4

LEMMA TypeInvariance == Spec => []TypeInv
<1>1. TypeInv /\ [Next]_vars => TypeInv'
  <2> SUFFICES ASSUME TypeInv, [Next]_vars PROVE TypeInv'
    OBVIOUS
  <2>1. CASE Next
    BY <2>1, RelayStepTypes, PoolStepTypes DEF Next
  <2>2. CASE UNCHANGED vars
    BY <2>2 DEF vars, relayVars, poolVars, TypeInv, TypeOK, RelayTypeOK, OutgoingOK
  <2> QED
    BY <2>1, <2>2
<1> QED
  BY TypeInit, <1>1, PTL DEF Spec

\* Type correctness: no task ever reads or writes a channel, a counter or the
\* pool's maps outside what their Rust types and capacities allow.
THEOREM TypeCorrect == Spec => []TypeOK
  BY TypeInvariance, PTL DEF TypeInv
=============================================================================
