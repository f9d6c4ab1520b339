----------------------- MODULE RelayPoolSafety_proofs -----------------------
(***************************************************************************)
(* The safety properties of RelayPool, proved from the type invariant of   *)
(* RelayPool_proofs and the inductive invariants below.                    *)
(***************************************************************************)
EXTENDS RelayPool_proofs

(***************************************************************************)
(* The map and the channel speak of tasks that exist: a listener is stored *)
(* under its task's url and its task is running, a stopped pool has none,  *)
(* and every event in the channel was sent by a task for its url.          *)
(***************************************************************************)
ListenerInv ==
    /\ \A u \in Url : relays[u] # NoTask =>
           /\ UrlOf[relays[u]] = u
           /\ state[relays[u]] \in RelayStatus
    /\ pool # "running" => Listening = {}
    /\ \A i \in DOMAIN toPool :
           \E t \in Task : UrlOf[t] = toPool[i].url /\ state[t] # "Unspawned"

\* What is left in t's channel, and what t is doing, ends in Terminated: a Close
\* no Reconnect follows, or its effect.
ClosedBehind(t) ==
    \/ \E i \in DOMAIN inputs[t] :
           /\ inputs[t][i] = Close
           /\ \A j \in DOMAIN inputs[t] : j > i => inputs[t][j] # Reconnect
    \/ /\ \A j \in DOMAIN inputs[t] : inputs[t][j] # Reconnect
       /\ \/ outgoing[t] = "Closed"
          \/ state[t] = "Terminated" /\ outgoing[t] = NoEvent
          \/ state[t] = "Ended"

\* A send under way is one of a running pool to its listeners.  When the listeners
\* are to be dropped after it, it is a Close, and those of a Shutdown that are not
\* waiting for theirs have had it.
JobInv ==
    job.to # NoTask =>
        /\ pool = "running"
        /\ job.to \in Listening
        /\ job.rest \subseteq Listening
        /\ job.then = "remove" => job.input = Close /\ job.rest = {}
        /\ job.then = "break" =>
               /\ job.input = Close
               /\ \A t \in Listening \ (job.rest \cup {job.to}) : ClosedBehind(t)

RemovedInv ==
    \A t \in Task :
        Sole(t) /\ state[t] # "Unspawned" /\ t \notin Listening /\ pool # "abandoned"
        => ClosedBehind(t)

\* The status RelayInformation reports, with what a relay that reports Terminated
\* while it is Disconnected, or that is Connected, knows of its counter.
InformationFor(t) ==
    /\ state[t] = "Unspawned" => status[t] = "Disconnected"
    /\ state[t] = "Disconnected" =>
           \/ status[t] = "Disconnected"
           \/ status[t] = "Terminated" /\ delay[t] = 0 /\ attempts[t] = 0
    /\ state[t] = "Connecting" => status[t] = "Connecting"
    /\ state[t] = "Connected" => status[t] = "Connected" /\ attempts[t] = 0
    /\ state[t] = "Terminated" =>
           \/ status[t] = "Terminated"
           \/ status[t] = "Disconnected" /\ attempts[t] = MaxAttempts
    /\ outgoing[t] = "MaxAttempsExceeded" => attempts[t] = MaxAttempts

InformationInv == \A t \in Task : InformationFor(t)

-----------------------------------------------------------------------------
(* The listeners and the channel. *)

\* Where the steps of a relay task leave the other tasks and the pool.
LEMMA RelayStepFrame ==
    ASSUME TypeInv, NEW t \in Task, RelayStep(t)
    PROVE  /\ UNCHANGED poolVars
           /\ \A r \in Task \ {t} : /\ state'[r] = state[r]
                                    /\ outgoing'[r] = outgoing[r]
                                    /\ inputs'[r] = inputs[r]
                                    /\ status'[r] = status[r]
                                    /\ delay'[r] = delay[r]
                                    /\ attempts'[r] = attempts[r]
           /\ \/ /\ state'[t] = state[t]
                 /\ toPool' = toPool
              \/ /\ outgoing[t] \in RelayToPoolEvent
                 /\ pool = "running"
                 /\ state[t] \in RelayStatus
                 /\ state'[t] = StateAfter(outgoing[t])
                 /\ toPool' = Append(toPool, [url |-> UrlOf[t], event |-> outgoing[t]])
              \/ /\ state[t] \in RelayStatus
                 /\ state'[t] = "Ended"
                 /\ toPool' = toPool
                 /\ t \notin Listening \/ pool # "running"
<1> USE DEF TypeInv, TypeOK, RelayTypeOK
<1>1. CASE ReceiveStep(t)
  BY <1>1 DEF ReceiveStep, TakeInput, TerminatedReconnect, TerminatedOther, DisconnectedClose,
              DisconnectedReconnect, DisconnectedOther, ConnectingClose, ConnectingOther,
              ConnectedClose, ConnectedOther, Receive, Announce, try_connect
<1>2. CASE SendStep(t)
  <2>1. outgoing[t] \in RelayToPoolEvent /\ state[t] \in RelayStatus
    BY <1>2 DEF SendStep, SendToPool, OutgoingOK, EventsIn, RelayStatus
  <2> QED
    BY <1>2, <2>1 DEF SendStep, SendToPool
<1>3. CASE EndStep(t)
  <2>1. state[t] \in RelayStatus
    BY <1>3 DEF EndStep, InputClosed, SendToPoolFailed, Selecting, OutgoingOK, EventsIn, RelayStatus
  <2> QED
    BY <1>3, <2>1 DEF EndStep, InputClosed, SendToPoolFailed, End, HasSender
<1>4. CASE NetworkStep(t)
  BY <1>4 DEF NetworkStep, SleepElapsed, SocketLost, ConnectionResult, Announce, try_connect
<1> QED
  BY <1>1, <1>2, <1>3, <1>4 DEF RelayStep

\* Once the pool is stopped it does nothing, and it handles events and commands
\* only between two sends.
LEMMA PoolStepFrame ==
    ASSUME TypeInv,
           \/ handle_relay_to_pool
           \/ Command
    PROVE  pool = "running" /\ job.to = NoTask
  BY DEF handle_relay_to_pool, Command, AddRelay, RemoveRelay, ReconnectRelay, ForwardToOne,
         ForwardToAll, AddSubscription, AddSubscriptionToRelay, Shutdown, Abandon, PoolSelecting

LEMMA ListenerInvariance == Spec => [](TypeInv /\ ListenerInv)
<1>1. Init => ListenerInv
  BY DEF Init, RelayInit, ListenerInv, Listening
<1>2. TypeInv /\ ListenerInv /\ [Next]_vars => ListenerInv'
  <2> SUFFICES ASSUME TypeInv, ListenerInv, [Next]_vars PROVE ListenerInv'
    OBVIOUS
  <2> USE DEF ListenerInv
  <2>0. /\ state \in [Task -> RelayStatus \cup {"Unspawned", "Ended"}]
        /\ toPool \in Seq(RelayToPool) /\ Len(toPool) <= PoolCap /\ PoolCap \in Nat
        /\ relays \in [Url -> Task \cup {NoTask}]
        /\ UrlOf \in [Task -> Url]
        /\ NoTask \notin Task
        /\ "Disconnected" \in RelayStatus /\ "Unspawned" \notin RelayStatus
    BY RelayAssumption, PoolAssumption DEF TypeInv, TypeOK, RelayTypeOK, RelayStatus
  <2>1. ASSUME NEW t \in Task, RelayStep(t)
        PROVE  ListenerInv'
    <3>1. UNCHANGED <<relays, pool>> /\ Listening' = Listening
      <4>1. UNCHANGED poolVars
        BY <2>1, RelayStepFrame
      <4> QED
        BY <4>1 DEF poolVars, Listening
    <3>2. CASE state'[t] = state[t] /\ toPool' = toPool
      <4>1. \A r \in Task : state'[r] = state[r]
        BY <2>1, <3>2, RelayStepFrame
      <4> QED
        BY <2>0, <3>1, <3>2, <4>1
    <3>3. CASE /\ outgoing[t] \in RelayToPoolEvent
               /\ state[t] \in RelayStatus
               /\ state'[t] = StateAfter(outgoing[t])
               /\ toPool' = Append(toPool, [url |-> UrlOf[t], event |-> outgoing[t]])
      <4>1. state'[t] \in RelayStatus /\ \A r \in Task \ {t} : state'[r] = state[r]
        BY <2>1, <3>3, RelayStepFrame, StatusIsState
      <4>2. \A r \in Task : /\ state[r] \in RelayStatus => state'[r] \in RelayStatus
                            /\ state[r] # "Unspawned" => state'[r] # "Unspawned"
        BY <2>0, <4>1
      <4>3. \A i \in DOMAIN toPool' :
                (i \in DOMAIN toPool /\ toPool'[i] = toPool[i]) \/ toPool'[i].url = UrlOf[t]
        BY <2>0, <3>3
      <4>4. \A i \in DOMAIN toPool' :
                \E r \in Task : UrlOf[r] = toPool'[i].url /\ state'[r] # "Unspawned"
        BY <2>0, <4>1, <4>2, <4>3
      <4> QED
        BY <2>0, <3>1, <4>2, <4>4
    <3>4. CASE state'[t] = "Ended" /\ toPool' = toPool /\ (t \notin Listening \/ pool # "running")
      <4>1. t \notin Listening
        BY <3>4
      <4>2. \A r \in Task \ {t} : state'[r] = state[r]
        BY <2>1, RelayStepFrame
      <4>3. \A u \in Url : relays[u] # NoTask => relays[u] # t
        BY <4>1 DEF Listening
      <4> QED
        BY <2>0, <3>1, <3>4, <4>2, <4>3
    <3> QED
      BY <2>1, <3>2, <3>3, <3>4, RelayStepFrame
  <2>2. ASSUME NEW t \in Task, NEW s \in Subscription, Resend(t, s)
        PROVE  ListenerInv'
    BY <2>2 DEF Resend, Listening
  <2>3. CASE handle_relay_to_pool
    <3>1. /\ UNCHANGED <<relays, pool, state>>
          /\ toPool # <<>> /\ toPool' = Tail(toPool)
      BY <2>3 DEF handle_relay_to_pool
    <3>2. \A i \in DOMAIN toPool' : i + 1 \in DOMAIN toPool /\ toPool'[i] = toPool[i + 1]
      BY <2>0, <3>1, ChannelOps
    <3> QED
      BY <3>1, <3>2 DEF Listening
  <2>4. CASE Command
    <3>0. pool = "running"
      BY <2>4, PoolStepFrame
    <3>1. ASSUME NEW t \in Task, AddRelay(UrlOf[t], t)
          PROVE  ListenerInv'
      <4>1. /\ state' = [state EXCEPT ![t] = "Disconnected"]
            /\ relays' = [relays EXCEPT ![UrlOf[t]] = t]
            /\ UNCHANGED <<toPool, pool>>
        BY <3>1 DEF AddRelay, Spawn
      <4>2. \A r \in Task : /\ state[r] \in RelayStatus => state'[r] \in RelayStatus
                            /\ state[r] # "Unspawned" => state'[r] # "Unspawned"
        BY <2>0, <4>1
      <4> QED
        BY <2>0, <3>0, <4>1, <4>2
    <3>2. CASE UNCHANGED <<relays, pool, state, toPool>>
      BY <3>2 DEF Listening
    <3>3. CASE DropPool("shutdown") /\ UNCHANGED state
      BY <3>3 DEF DropPool, Listening
    <3>4. CASE DropPool("abandoned") /\ UNCHANGED state
      BY <3>4 DEF DropPool, Listening
    <3> QED
      BY <2>4, <3>1, <3>2, <3>3, <3>4
         DEF Command, RemoveRelay, ReconnectRelay, ForwardToOne, ForwardToAll, AddSubscription,
             AddSubscriptionToRelay, Shutdown, Abandon, relayVars
  <2>5. CASE PoolSend
    <3>1. CASE DropPool("shutdown") /\ UNCHANGED state
      BY <3>1 DEF DropPool, Listening
    <3>2. CASE UNCHANGED <<relays, pool, state, toPool>>
      BY <3>2 DEF Listening
    <3>3. CASE /\ relays' = [relays EXCEPT ![UrlOf[job.to]] = NoTask]
               /\ UNCHANGED <<pool, state, toPool>>
      <4>1. \A u \in Url : relays'[u] # NoTask => relays'[u] = relays[u]
        BY <2>0, <3>3
      <4>2. Listening' \subseteq Listening
        BY <4>1, <2>0, <3>3 DEF Listening
      <4> QED
        BY <3>3, <4>1, <4>2
    <3> QED
      BY <2>5, <3>1, <3>2, <3>3 DEF PoolSend, AfterSend
  <2>6. CASE UNCHANGED vars
    BY <2>6 DEF vars, relayVars, poolVars, Listening
  <2> QED
    BY <2>1, <2>2, <2>3, <2>4, <2>5, <2>6 DEF Next
<1> QED
  BY TypeInvariance, <1>1, <1>2, PTL DEF Spec

-----------------------------------------------------------------------------
(* The status the pool shows. *)

StatusAgreesFor(t) ==
    /\ \A i \in DOMAIN toPool :
           LastEventOf(UrlOf[t], i) => set_status(toPool[i].event) = state[t]
    /\ (\A i \in DOMAIN toPool : toPool[i].url # UrlOf[t])
           => listenerStatus[UrlOf[t]] = state[t]

\* Nothing that concerns t's url happens.
LEMMA StatusUndisturbed ==
    ASSUME NEW t \in Task, StatusAgreesFor(t),
           state'[t] = state[t], listenerStatus'[UrlOf[t]] = listenerStatus[UrlOf[t]],
           UNCHANGED toPool
    PROVE  StatusAgreesFor(t)'
  BY DEF StatusAgreesFor, LastEventOf

\* A relay of another url, or t itself, sends an event.
LEMMA StatusAfterSend ==
    ASSUME TypeInv, NEW t \in Task, NEW r \in Task, StatusAgreesFor(t),
           NEW e \in RelayToPoolEvent,
           toPool' = Append(toPool, [url |-> UrlOf[r], event |-> e]),
           UNCHANGED listenerStatus,
           \/ r = t /\ state'[t] = StateAfter(e)
           \/ UrlOf[r] # UrlOf[t] /\ state'[t] = state[t]
    PROVE  StatusAgreesFor(t)'
<1> DEFINE n == Len(toPool) + 1
<1>1. /\ toPool \in Seq(RelayToPool)
      /\ n \in Nat
      /\ DOMAIN toPool = 1 .. (n - 1) /\ DOMAIN toPool' = 1 .. n
      /\ toPool'[n] = [url |-> UrlOf[r], event |-> e]
      /\ \A i \in DOMAIN toPool : toPool'[i] = toPool[i]
  BY DEF TypeInv, TypeOK, RelayTypeOK
<1>2. toPool'[n].url = UrlOf[r] /\ toPool'[n].event = e
  BY <1>1
<1> HIDE DEF n
<1>3. CASE r = t /\ state'[t] = StateAfter(e)
  <2>1. \A i \in DOMAIN toPool' : LastEventOf(UrlOf[t], i)' => i = n
    BY <1>1, <1>2, <1>3 DEF LastEventOf
  <2>2. set_status(e) = state'[t]
    BY <1>3, StatusIsState
  <2> QED
    BY <1>1, <1>2, <1>3, <2>1, <2>2 DEF StatusAgreesFor
<1>4. CASE UrlOf[r] # UrlOf[t] /\ state'[t] = state[t]
  <2>1. \A i \in DOMAIN toPool' : LastEventOf(UrlOf[t], i)' =>
            i \in DOMAIN toPool /\ LastEventOf(UrlOf[t], i) /\ toPool'[i] = toPool[i]
    BY <1>1, <1>2, <1>4 DEF LastEventOf
  <2>2. (\A i \in DOMAIN toPool' : toPool'[i].url # UrlOf[t])
            => \A i \in DOMAIN toPool : toPool[i].url # UrlOf[t]
    BY <1>1
  <2> QED
    BY <1>4, <2>1, <2>2 DEF StatusAgreesFor
<1> QED
  BY <1>3, <1>4

\* The pool handles the first event of its channel.
LEMMA StatusAfterHandling ==
    ASSUME TypeInv, NEW t \in Task, StatusAgreesFor(t), relays[UrlOf[t]] = t,
           handle_relay_to_pool
    PROVE  StatusAgreesFor(t)'
<1>1. /\ toPool \in Seq(RelayToPool) /\ toPool # <<>>
      /\ Len(toPool) <= PoolCap /\ PoolCap \in Nat
      /\ toPool' = Tail(toPool)
      /\ UrlOf[t] \in Url /\ t # NoTask
      /\ listenerStatus \in [Url -> RelayStatus]
      /\ UNCHANGED state
  BY RelayAssumption, PoolAssumption DEF handle_relay_to_pool, TypeInv, TypeOK, RelayTypeOK
<1>2. /\ \A i \in DOMAIN toPool' : i + 1 \in DOMAIN toPool /\ toPool'[i] = toPool[i + 1]
      /\ \A i \in DOMAIN toPool : i # 1 => i - 1 \in DOMAIN toPool' /\ toPool'[i - 1] = toPool[i]
      /\ DOMAIN toPool = 1 .. Len(toPool) /\ Len(toPool) \in Nat /\ 1 \in DOMAIN toPool
      /\ Head(toPool) = toPool[1]
      /\ DOMAIN toPool \subseteq Nat /\ DOMAIN toPool' \subseteq Nat
  BY <1>1
<1>3. \A i \in DOMAIN toPool' : LastEventOf(UrlOf[t], i)' =>
          LastEventOf(UrlOf[t], i + 1) /\ toPool'[i] = toPool[i + 1]
  <2> SUFFICES ASSUME NEW i \in DOMAIN toPool', LastEventOf(UrlOf[t], i)',
                      NEW j \in DOMAIN toPool, j > i + 1
               PROVE  toPool[j].url # UrlOf[t]
    BY <1>2 DEF LastEventOf
  <2>1. j - 1 \in DOMAIN toPool' /\ toPool'[j - 1] = toPool[j] /\ j - 1 > i
    BY <1>2
  <2> QED
    BY <2>1 DEF LastEventOf
<1>4. ASSUME \A i \in DOMAIN toPool' : toPool'[i].url # UrlOf[t]
      PROVE  listenerStatus'[UrlOf[t]] = state'[t]
  <2>1. \A i \in DOMAIN toPool : i # 1 => toPool[i].url # UrlOf[t]
    BY <1>2, <1>4
  <2>2. CASE Head(toPool).url = UrlOf[t]
    <3>1. LastEventOf(UrlOf[t], 1)
      BY <1>2, <2>1, <2>2 DEF LastEventOf
    <3>2. set_status(Head(toPool).event) = state[t]
      BY <1>2, <3>1 DEF StatusAgreesFor
    <3>3. listenerStatus'[UrlOf[t]] = set_status(Head(toPool).event)
      BY <1>1, <2>2 DEF handle_relay_to_pool
    <3> QED
      BY <1>1, <3>2, <3>3
  <2>3. CASE Head(toPool).url # UrlOf[t]
    <3>1. listenerStatus[UrlOf[t]] = state[t]
      BY <1>2, <2>1, <2>3 DEF StatusAgreesFor
    <3>2. listenerStatus'[UrlOf[t]] = listenerStatus[UrlOf[t]]
      BY <1>1, <2>3 DEF handle_relay_to_pool
    <3> QED
      BY <1>1, <3>1, <3>2
  <2> QED
    BY <2>2, <2>3
<1> QED
  BY <1>1, <1>2, <1>3, <1>4 DEF StatusAgreesFor

\* The status list is eventually exact: what a listener shows, or will show once
\* the events under way are handled, is the state its relay's loop is in.
THEOREM StatusCorrect == Spec => []StatusAgrees
<1>1. Init => StatusAgrees
  <2>1. ASSUME Init, NEW t \in Task
        PROVE  relays[UrlOf[t]] # t
    BY <2>1, RelayAssumption, PoolAssumption DEF Init
  <2> QED
    BY <2>1 DEF StatusAgrees
<1>2. TypeInv /\ ListenerInv /\ StatusAgrees /\ [Next]_vars => StatusAgrees'
  <2> SUFFICES ASSUME TypeInv, ListenerInv, StatusAgrees, [Next]_vars,
                      NEW t \in Task, Sole(t), relays'[UrlOf[t]] = t
               PROVE  StatusAgreesFor(t)'
    BY DEF StatusAgrees, StatusAgreesFor, Sole
  <2>0. /\ relays[UrlOf[t]] = t => StatusAgreesFor(t)
        /\ relays \in [Url -> Task \cup {NoTask}]
        /\ UrlOf \in [Task -> Url] /\ UrlOf[t] \in Url /\ t # NoTask
        /\ \A r \in Task \ {t} : UrlOf[r] # UrlOf[t]
    BY RelayAssumption, PoolAssumption DEF StatusAgrees, StatusAgreesFor, Sole, TypeInv, TypeOK
  <2>1. ASSUME NEW r \in Task, RelayStep(r)
        PROVE  StatusAgreesFor(t)'
    <3>1. /\ UNCHANGED <<relays, listenerStatus, pool>>
          /\ StatusAgreesFor(t)
          /\ t \in Listening /\ pool = "running"
      <4>1. UNCHANGED poolVars
        BY <2>1, RelayStepFrame
      <4>2. relays[UrlOf[t]] = t
        BY <4>1 DEF poolVars
      <4> QED
        BY <2>0, <4>1, <4>2 DEF poolVars, Listening, ListenerInv
    <3>2. r # t => state'[t] = state[t] /\ UrlOf[r] # UrlOf[t]
      BY <2>0, <2>1, RelayStepFrame
    <3>3. CASE state'[r] = state[r] /\ toPool' = toPool
      BY <3>1, <3>2, <3>3, StatusUndisturbed
    <3>4. CASE /\ outgoing[r] \in RelayToPoolEvent
               /\ state'[r] = StateAfter(outgoing[r])
               /\ toPool' = Append(toPool, [url |-> UrlOf[r], event |-> outgoing[r]])
      BY <3>1, <3>2, <3>4, StatusAfterSend
    <3>5. CASE toPool' = toPool /\ (r \notin Listening \/ pool # "running")
      BY <3>1, <3>2, <3>5, StatusUndisturbed
    <3> QED
      BY <2>1, <3>3, <3>4, <3>5, RelayStepFrame
  <2>2. ASSUME NEW r \in Task, NEW s \in Subscription, Resend(r, s)
        PROVE  StatusAgreesFor(t)'
    BY <2>0, <2>2, StatusUndisturbed DEF Resend
  <2>3. CASE handle_relay_to_pool
    BY <2>0, <2>3, StatusAfterHandling DEF handle_relay_to_pool
  <2>4. ASSUME NEW r \in Task, AddRelay(UrlOf[r], r)
        PROVE  StatusAgreesFor(t)'
    <3>1. /\ state[r] = "Unspawned"
          /\ state' = [state EXCEPT ![r] = "Disconnected"]
          /\ relays' = [relays EXCEPT ![UrlOf[r]] = r]
          /\ listenerStatus' = [listenerStatus EXCEPT ![UrlOf[r]] = "Disconnected"]
          /\ UNCHANGED toPool
          /\ state \in [Task -> RelayStatus \cup {"Unspawned", "Ended"}]
          /\ listenerStatus \in [Url -> RelayStatus]
      BY <2>4 DEF AddRelay, Spawn, TypeInv, TypeOK, RelayTypeOK
    <3>2. CASE r = t
      <4>1. \A i \in DOMAIN toPool : toPool[i].url # UrlOf[t]
        BY <2>0, <3>1, <3>2 DEF ListenerInv
      <4> QED
        BY <2>0, <3>1, <3>2, <4>1 DEF StatusAgreesFor, LastEventOf
    <3>3. CASE r # t
      <4>1. /\ state'[t] = state[t] /\ relays[UrlOf[t]] = t
            /\ listenerStatus'[UrlOf[t]] = listenerStatus[UrlOf[t]]
        BY <2>0, <3>1, <3>3
      <4> QED
        BY <2>0, <3>1, <4>1, StatusUndisturbed
    <3> QED
      BY <3>2, <3>3
  <2>5. CASE UNCHANGED <<state, toPool, relays, listenerStatus>>
    BY <2>0, <2>5, StatusUndisturbed
  <2>6. CASE DropPool("shutdown") \/ DropPool("abandoned")
    BY <2>0, <2>6 DEF DropPool
  <2>7. CASE PoolSend
    <3>1. CASE /\ relays' = [relays EXCEPT ![UrlOf[job.to]] = NoTask]
               /\ listenerStatus' = [listenerStatus EXCEPT ![UrlOf[job.to]] = "Disconnected"]
               /\ UNCHANGED <<state, toPool>>
      <4>1. UrlOf[job.to] # UrlOf[t]
        BY <2>0, <3>1
      <4>2. relays[UrlOf[t]] = t /\ listenerStatus'[UrlOf[t]] = listenerStatus[UrlOf[t]]
        BY <2>0, <3>1, <4>1 DEF TypeInv, TypeOK
      <4> QED
        BY <2>0, <3>1, <4>2, StatusUndisturbed
    <3> QED
      BY <2>5, <2>6, <2>7, <3>1 DEF PoolSend, AfterSend
  <2>8. CASE Command
    BY <2>4, <2>5, <2>6, <2>8
       DEF Command, RemoveRelay, ReconnectRelay, ForwardToOne, ForwardToAll, AddSubscription,
           AddSubscriptionToRelay, Shutdown, Abandon, relayVars
  <2>9. CASE UNCHANGED vars
    BY <2>5, <2>9 DEF vars, relayVars, poolVars
  <2> QED
    BY <2>1, <2>2, <2>3, <2>7, <2>8, <2>9 DEF Next
<1> QED
  BY ListenerInvariance, <1>1, <1>2, PTL DEF Spec

-----------------------------------------------------------------------------
(* Relays that were removed. *)

\* Two payloads are not one of the two inputs that concern the connection.
LEMMA InputKinds ==
    /\ Close # Reconnect
    /\ \A p \in Payload : p # Close /\ p # Reconnect /\ p.kind \in OtherKinds
    /\ Close.kind = "Close" /\ Close.kind \notin OtherKinds
    /\ Reconnect.kind = "Reconnect" /\ Reconnect.kind \notin OtherKinds
    /\ \A i \in RelayInput : /\ i.kind = "Close" <=> i = Close
                             /\ i.kind = "Reconnect" <=> i = Reconnect
  BY RelayAssumption DEF Close, Reconnect, OtherKinds, RelayInput

LEMMA TailShifts ==
    ASSUME NEW S, NEW q \in Seq(S), q # <<>>
    PROVE  /\ \A i \in DOMAIN q : i # 1 => i - 1 \in DOMAIN Tail(q) /\ Tail(q)[i - 1] = q[i]
           /\ \A i \in DOMAIN Tail(q) : i + 1 \in DOMAIN q /\ Tail(q)[i] = q[i + 1]
           /\ DOMAIN q \subseteq Nat /\ DOMAIN Tail(q) \subseteq Nat
           /\ 1 \in DOMAIN q /\ Head(q) = q[1]
           /\ Head(q) \in S
  OBVIOUS

\* A task takes the head of its channel.  What is behind it keeps its order.
LEMMA ClosedBehindTail ==
    ASSUME TypeInv, NEW t \in Task, inputs[t] # <<>>, inputs' = [inputs EXCEPT ![t] = Tail(@)]
    PROVE  /\ \A i \in DOMAIN inputs[t] : i # 1 =>
                  i - 1 \in DOMAIN inputs'[t] /\ inputs'[t][i - 1] = inputs[t][i]
           /\ \A i \in DOMAIN inputs'[t] :
                  i + 1 \in DOMAIN inputs[t] /\ inputs'[t][i] = inputs[t][i + 1]
           /\ DOMAIN inputs[t] \subseteq Nat /\ DOMAIN inputs'[t] \subseteq Nat
           /\ 1 \in DOMAIN inputs[t] /\ Head(inputs[t]) = inputs[t][1]
           /\ Head(inputs[t]) \in RelayInput
<1>1. inputs \in [Task -> Seq(RelayInput)]
  BY DEF TypeInv, TypeOK, RelayTypeOK
<1> DEFINE q == inputs[t]
           r == inputs'[t]
<1>2. q \in Seq(RelayInput) /\ q # <<>> /\ r = Tail(q)
  BY <1>1
<1> SUFFICES
        /\ \A i \in DOMAIN q : i # 1 => i - 1 \in DOMAIN r /\ r[i - 1] = q[i]
        /\ \A i \in DOMAIN r : i + 1 \in DOMAIN q /\ r[i] = q[i + 1]
        /\ DOMAIN q \subseteq Nat /\ DOMAIN r \subseteq Nat
        /\ 1 \in DOMAIN q /\ Head(q) = q[1]
        /\ Head(q) \in RelayInput
  OBVIOUS
<1> HIDE DEF q, r
<1> QED
  BY <1>2, TailShifts

\* A step of a task keeps its end assured.
LEMMA ClosedBehindStep ==
    ASSUME TypeInv, NEW t \in Task, RelayStep(t), ClosedBehind(t)
    PROVE  ClosedBehind(t)'
<1> USE DEF TypeInv, TypeOK, RelayTypeOK
<1>1. CASE ReceiveStep(t)
  <2>1. /\ outgoing[t] = NoEvent
        /\ inputs[t] # <<>>
        /\ inputs' = [inputs EXCEPT ![t] = Tail(@)]
        /\ state'[t] = state[t]
        /\ state[t] \in RelayStatus
        /\ Head(inputs[t]).kind = "Close" =>
               outgoing'[t] = "Closed" \/ (state[t] = "Terminated" /\ outgoing'[t] = NoEvent)
        /\ state[t] = "Terminated" /\ Head(inputs[t]).kind # "Reconnect" => outgoing'[t] = NoEvent
    BY <1>1, InputKinds
       DEF ReceiveStep, TakeInput, TerminatedReconnect, TerminatedOther, DisconnectedClose,
           DisconnectedReconnect, DisconnectedOther, ConnectingClose, ConnectingOther,
           ConnectedClose, ConnectedOther, Receive, Announce, try_connect, NextInput, Selecting,
           RelayStatus
  <2>2. CASE \A j \in DOMAIN inputs[t] : inputs[t][j] # Reconnect
    <3>1. \A j \in DOMAIN inputs'[t] : inputs'[t][j] # Reconnect
      BY <2>1, <2>2, ClosedBehindTail
    <3>2. Head(inputs[t]).kind # "Reconnect"
      BY <2>1, <2>2, ClosedBehindTail, InputKinds
    <3>3. CASE state[t] = "Terminated"
      BY <2>1, <3>1, <3>2, <3>3 DEF ClosedBehind
    <3>4. CASE state[t] # "Terminated"
      <4>1. PICK i \in DOMAIN inputs[t] : inputs[t][i] = Close
        BY <2>1, <3>4 DEF ClosedBehind, RelayStatus, NoEvent
      <4>2. CASE i = 1
        <5>1. Head(inputs[t]).kind = "Close"
          BY <2>1, <4>1, <4>2, ClosedBehindTail, InputKinds
        <5>2. outgoing'[t] = "Closed"
          BY <2>1, <3>4, <5>1
        <5> QED
          BY <3>1, <5>2 DEF ClosedBehind
      <4>3. CASE i # 1
        <5>1. i - 1 \in DOMAIN inputs'[t] /\ inputs'[t][i - 1] = Close
          BY <2>1, <4>1, <4>3, ClosedBehindTail
        <5> QED
          BY <3>1, <5>1 DEF ClosedBehind
      <4> QED
        BY <4>2, <4>3
    <3> QED
      BY <3>3, <3>4
  <2>3. CASE ~ \A j \in DOMAIN inputs[t] : inputs[t][j] # Reconnect
    <3>1. PICK i \in DOMAIN inputs[t] :
              /\ inputs[t][i] = Close
              /\ \A j \in DOMAIN inputs[t] : j > i => inputs[t][j] # Reconnect
      BY <2>3 DEF ClosedBehind
    <3>2. i # 1
      <4>1. PICK k \in DOMAIN inputs[t] : inputs[t][k] = Reconnect
        BY <2>3
      <4>2. k # i /\ ~(k > i) /\ k \in Nat /\ i \in Nat /\ k >= 1
        BY <2>1, <3>1, <4>1, InputKinds, ClosedBehindTail
      <4> QED
        BY <4>2
    <3>3. /\ i - 1 \in DOMAIN inputs'[t]
          /\ inputs'[t][i - 1] = Close
          /\ \A j \in DOMAIN inputs'[t] : j > i - 1 => inputs'[t][j] # Reconnect
      BY <2>1, <3>1, <3>2, ClosedBehindTail
    <3> QED
      BY <3>3 DEF ClosedBehind
  <2> QED
    BY <2>2, <2>3
<1>2. CASE SendStep(t)
  <2>1. /\ outgoing[t] # NoEvent /\ outgoing'[t] = NoEvent
        /\ state[t] # "Ended"
        /\ outgoing[t] = "Closed" => state'[t] = "Terminated"
        /\ inputs' = inputs
    BY <1>2 DEF SendStep, SendToPool, OutgoingOK, EventsIn, NoEvent, StateAfter
  <2> QED
    BY <2>1 DEF ClosedBehind
<1>3. CASE EndStep(t)
  <2>1. state'[t] = "Ended" /\ inputs'[t] = <<>>
    BY <1>3 DEF EndStep, InputClosed, SendToPoolFailed, End
  <2> QED
    BY <2>1 DEF ClosedBehind
<1>4. CASE NetworkStep(t)
  <2>1. /\ outgoing[t] = NoEvent /\ state'[t] = state[t] /\ inputs' = inputs
        /\ state[t] \in {"Disconnected", "Connecting", "Connected"}
    BY <1>4 DEF NetworkStep, SleepElapsed, SocketLost, ConnectionResult, Selecting
  <2> QED
    BY <2>1 DEF ClosedBehind, NoEvent
<1> QED
  BY <1>1, <1>2, <1>3, <1>4 DEF RelayStep

LEMMA ClosedBehindFrame ==
    ASSUME NEW t \in Task, ClosedBehind(t),
           state'[t] = state[t], outgoing'[t] = outgoing[t], inputs'[t] = inputs[t]
    PROVE  ClosedBehind(t)'
  BY DEF ClosedBehind

\* A delivered payload opens nothing, and a delivered Close assures the end.
LEMMA ClosedBehindDeliver ==
    ASSUME TypeInv, NEW t \in Task, NEW i \in RelayInput, Deliver(t, i),
           UNCHANGED <<state, outgoing>>
    PROVE  /\ ClosedBehind(t) /\ i # Reconnect => ClosedBehind(t)'
           /\ state[t] \in RelayStatus /\ i = Close => ClosedBehind(t)'
<1>1. inputs[t] \in Seq(RelayInput) /\ inputs \in [Task -> Seq(RelayInput)]
  BY DEF TypeInv, TypeOK, RelayTypeOK
<1>2. CASE state[t] = "Ended"
  BY <1>1, <1>2 DEF Deliver, ClosedBehind, RelayStatus
<1>3. CASE state[t] # "Ended"
  <2>1. inputs'[t] = Append(inputs[t], i)
    BY <1>1, <1>3 DEF Deliver
  <2> DEFINE n == Len(inputs[t]) + 1
  <2>2. /\ n \in DOMAIN inputs'[t] /\ inputs'[t][n] = i
        /\ \A j \in DOMAIN inputs'[t] :
               j = n \/ (j \in DOMAIN inputs[t] /\ inputs'[t][j] = inputs[t][j] /\ ~(j > n))
        /\ \A j \in DOMAIN inputs[t] : j \in DOMAIN inputs'[t] /\ inputs'[t][j] = inputs[t][j]
        /\ ~(n > n)
    BY <1>1, <2>1
  <2> HIDE DEF n
  <2>3. ASSUME ClosedBehind(t), i # Reconnect
        PROVE  ClosedBehind(t)'
    BY <2>2, <2>3 DEF ClosedBehind
  <2>4. ASSUME i = Close
        PROVE  ClosedBehind(t)'
    BY <2>2, <2>4, InputKinds DEF ClosedBehind
  <2> QED
    BY <2>3, <2>4
<1> QED
  BY <1>2, <1>3

\* Where the commands and the sends of the pool leave the tasks.
LEMMA CommandCases ==
    ASSUME TypeInv, Command
    PROVE  \/ \E t \in Task : AddRelay(UrlOf[t], t)
           \/ /\ UNCHANGED <<relayVars, pool, relays>>
              /\ \/ UNCHANGED job
                 \/ \E i \in RelayInput, targets \in SUBSET Listening :
                        BeginSend(i, targets, "continue")
                 \/ \E u \in Url : relays[u] # NoTask /\ BeginSend(Close, {relays[u]}, "remove")
                 \/ BeginSend(Close, Listening, "break")
           \/ /\ DropPool("shutdown") /\ Listening = {}
              /\ UNCHANGED <<state, outgoing, inputs>>
           \/ /\ DropPool("abandoned")
              /\ UNCHANGED <<state, outgoing, inputs>>
<1>0. /\ Subscription \subseteq RelayInput /\ Payload \subseteq RelayInput
      /\ Close \in RelayInput /\ Reconnect \in RelayInput
      /\ \A u \in Url : relays[u] # NoTask => {relays[u]} \subseteq Listening
  BY PoolAssumption DEF RelayInput, Listening
<1>1. ASSUME NEW i \in RelayInput, send_to_all(i)
      PROVE  \/ UNCHANGED job
             \/ \E k \in RelayInput, targets \in SUBSET Listening : BeginSend(k, targets, "continue")
  BY <1>1 DEF send_to_all
<1>2. ASSUME NEW i \in RelayInput, NEW u \in Url, send_to_listener(u, i)
      PROVE  \/ UNCHANGED job
             \/ \E k \in RelayInput, targets \in SUBSET Listening : BeginSend(k, targets, "continue")
  BY <1>0, <1>2 DEF send_to_listener
<1>3. ASSUME NEW u \in Url, RemoveRelay(u)
      PROVE  /\ UNCHANGED <<relayVars, pool, relays>>
             /\ relays[u] # NoTask /\ BeginSend(Close, {relays[u]}, "remove")
  BY <1>3 DEF RemoveRelay
<1>4. ASSUME NEW u \in Url, ReconnectRelay(u)
      PROVE  UNCHANGED <<relayVars, pool, relays>> /\ send_to_listener(u, Reconnect)
  BY <1>4 DEF ReconnectRelay
<1>5. ASSUME NEW u \in Url, NEW p \in Payload, ForwardToOne(u, p)
      PROVE  UNCHANGED <<relayVars, pool, relays>> /\ send_to_listener(u, p)
  BY <1>5 DEF ForwardToOne
<1>6. ASSUME NEW p \in Payload, ForwardToAll(p)
      PROVE  UNCHANGED <<relayVars, pool, relays>> /\ send_to_all(p)
  BY <1>6 DEF ForwardToAll
<1>7. ASSUME NEW s \in Subscription, AddSubscription(s)
      PROVE  UNCHANGED <<relayVars, pool, relays>> /\ send_to_all(s)
  BY <1>7 DEF AddSubscription
<1>8. ASSUME NEW u \in Url, NEW s \in Subscription, AddSubscriptionToRelay(u, s)
      PROVE  UNCHANGED <<relayVars, pool, relays>> /\ send_to_listener(u, s)
  BY <1>8 DEF AddSubscriptionToRelay
<1>9. ASSUME Shutdown
      PROVE  \/ /\ DropPool("shutdown") /\ Listening = {}
                /\ UNCHANGED <<state, outgoing, inputs>>
             \/ /\ UNCHANGED <<relayVars, pool, relays>>
                /\ BeginSend(Close, Listening, "break")
  BY <1>9 DEF Shutdown
<1>10. ASSUME Abandon
       PROVE  DropPool("abandoned") /\ UNCHANGED <<state, outgoing, inputs>>
  BY <1>10 DEF Abandon
<1> HIDE DEF Command
<1>11. \/ \E t \in Task : AddRelay(UrlOf[t], t)
       \/ \E u \in Url : RemoveRelay(u) \/ ReconnectRelay(u)
       \/ \E u \in Url, p \in Payload : ForwardToOne(u, p)
       \/ \E p \in Payload : ForwardToAll(p)
       \/ \E s \in Subscription : AddSubscription(s)
       \/ \E u \in Url, s \in Subscription : AddSubscriptionToRelay(u, s)
       \/ Shutdown
       \/ Abandon
  BY DEF Command
<1> QED
  BY <1>0, <1>1, <1>2, <1>3, <1>4, <1>5, <1>6, <1>7, <1>8, <1>9, <1>10, <1>11

\* What the two invariants need to know of a send of the pool.
LEMMA ClosedBehindSend ==
    ASSUME TypeInv, ListenerInv, JobInv, PoolSend
    PROVE  /\ pool = "running" /\ job.to \in Task /\ job.to \in Listening
           /\ relays[UrlOf[job.to]] = job.to /\ UrlOf[job.to] \in Url
           /\ UNCHANGED state
           /\ \A t \in Task \ {job.to} : ClosedBehind(t) => ClosedBehind(t)'
           /\ \A t \in Task : t = job.to /\ job.input = Close => ClosedBehind(t)'
<1>1. /\ job.to \in Task /\ job.to \in Listening /\ job.input \in RelayInput /\ pool = "running"
      /\ Deliver(job.to, job.input)
      /\ UNCHANGED <<state, outgoing>>
      /\ inputs \in [Task -> Seq(RelayInput)]
  BY JobTypes DEF PoolSend, JobInv, TypeInv, TypeOK, RelayTypeOK
<1>2. /\ relays[UrlOf[job.to]] = job.to /\ UrlOf[job.to] \in Url
      /\ state[job.to] \in RelayStatus
  BY <1>1, RelayAssumption, PoolAssumption DEF ListenerInv, Listening
<1>3. ASSUME NEW t \in Task, t = job.to, job.input = Close
      PROVE  ClosedBehind(t)'
  BY <1>1, <1>2, <1>3, ClosedBehindDeliver
<1>4. ASSUME NEW t \in Task \ {job.to}, ClosedBehind(t)
      PROVE  ClosedBehind(t)'
  <2>1. inputs'[t] = inputs[t]
    BY <1>1, <1>4 DEF Deliver
  <2> QED
    BY <1>1, <1>4, <2>1, ClosedBehindFrame
<1> QED
  BY <1>1, <1>2, <1>3, <1>4

LEMMA RemovedInvariance == Spec => [](TypeInv /\ ListenerInv /\ JobInv /\ RemovedInv)
<1>1. Init => JobInv /\ RemovedInv
  BY DEF Init, RelayInit, JobInv, RemovedInv, Idle
<1>2. TypeInv /\ ListenerInv /\ JobInv /\ RemovedInv /\ [Next]_vars => JobInv' /\ RemovedInv'
  <2> SUFFICES ASSUME TypeInv, ListenerInv, JobInv, RemovedInv, [Next]_vars
               PROVE  JobInv' /\ RemovedInv'
    OBVIOUS
  <2>0. /\ state \in [Task -> RelayStatus \cup {"Unspawned", "Ended"}]
        /\ relays \in [Url -> Task \cup {NoTask}]
        /\ UrlOf \in [Task -> Url] /\ NoTask \notin Task
        /\ "Unspawned" \notin RelayStatus
        /\ Idle.to = NoTask
    BY RelayAssumption, PoolAssumption DEF TypeInv, TypeOK, RelayTypeOK, RelayStatus, Idle
  <2>a. ASSUME UNCHANGED <<relays, pool, job>>,
               \A t \in Task : ClosedBehind(t) => ClosedBehind(t)',
               \A t \in Task : state[t] = "Unspawned" => state'[t] = "Unspawned"
        PROVE  JobInv' /\ RemovedInv'
    <3>1. Listening' = Listening /\ Listening \subseteq Task
      BY <2>a, JobTypes DEF Listening, TypeInv
    <3>2. JobInv'
      BY <2>a, <3>1 DEF JobInv
    <3>3. RemovedInv'
      BY <2>a, <3>1 DEF RemovedInv, Sole
    <3> QED
      BY <3>2, <3>3
  <2>1. ASSUME NEW r \in Task, RelayStep(r)
        PROVE  JobInv' /\ RemovedInv'
    <3>1. UNCHANGED <<relays, pool, job>>
      BY <2>1, RelayStepFrame DEF poolVars
    <3>2. ASSUME NEW t \in Task, ClosedBehind(t)
          PROVE  ClosedBehind(t)'
      <4>1. CASE t = r
        BY <2>1, <3>2, <4>1, ClosedBehindStep
      <4>2. CASE t # r
        BY <2>1, <3>2, <4>2, RelayStepFrame, ClosedBehindFrame
      <4> QED
        BY <4>1, <4>2
    <3>3. \A t \in Task : state[t] = "Unspawned" => state'[t] = "Unspawned"
      <4>1. \A t \in Task \ {r} : state'[t] = state[t]
        BY <2>1, RelayStepFrame
      <4>2. state[r] = "Unspawned" => state'[r] = state[r]
        BY <2>0, <2>1, RelayStepFrame
      <4> QED
        BY <4>1, <4>2
    <3> QED
      BY <2>a, <3>1, <3>2, <3>3
  <2>2. ASSUME NEW r \in Task, NEW s \in Subscription, Resend(r, s)
        PROVE  JobInv' /\ RemovedInv'
    <3>1. /\ UNCHANGED <<relays, pool, job, state, outgoing>>
          /\ Deliver(r, s) /\ s \in RelayInput /\ s # Reconnect
          /\ inputs \in [Task -> Seq(RelayInput)]
      BY <2>2, InputKinds, PoolAssumption DEF Resend, RelayInput, TypeInv, TypeOK, RelayTypeOK
    <3>2. ASSUME NEW t \in Task, ClosedBehind(t)
          PROVE  ClosedBehind(t)'
      <4>1. CASE t = r
        BY <3>1, <3>2, <4>1, ClosedBehindDeliver
      <4>2. CASE t # r
        <5>1. inputs'[t] = inputs[t]
          BY <3>1, <4>2 DEF Deliver
        <5> QED
          BY <3>1, <3>2, <5>1, ClosedBehindFrame
      <4> QED
        BY <4>1, <4>2
    <3> QED
      BY <2>a, <3>1, <3>2
  <2>b. ASSUME UNCHANGED <<relays, pool, job, state, outgoing, inputs>>
        PROVE  JobInv' /\ RemovedInv'
    BY <2>a, <2>b, ClosedBehindFrame
  <2>3. CASE handle_relay_to_pool
    BY <2>b, <2>3 DEF handle_relay_to_pool
  <2>4. CASE Command
    <3>0. pool = "running" /\ job.to = NoTask
      BY <2>4, PoolStepFrame
    <3>1. ASSUME NEW r \in Task, AddRelay(UrlOf[r], r)
          PROVE  JobInv' /\ RemovedInv'
      <4>1. /\ state' = [state EXCEPT ![r] = "Disconnected"]
            /\ relays' = [relays EXCEPT ![UrlOf[r]] = r]
            /\ UNCHANGED <<pool, job, outgoing, inputs>>
        BY <3>1 DEF AddRelay, Spawn
      <4>2. JobInv'
        BY <3>0, <4>1 DEF JobInv
      <4>3. ASSUME NEW t \in Task, Sole(t), state'[t] # "Unspawned", t \notin Listening'
            PROVE  ClosedBehind(t)'
        <5>1. t # r
          BY <2>0, <4>1, <4>3 DEF Listening
        <5>2. t \notin Listening
          <6>1. UrlOf[r] # UrlOf[t]
            BY <4>3, <5>1 DEF Sole
          <6>2. ASSUME NEW u \in Url, relays[u] = t
                PROVE  relays'[u] = t
            BY <2>0, <4>1, <6>1, <6>2 DEF ListenerInv
          <6> QED
            BY <2>0, <4>3, <6>2 DEF Listening
        <5>3. ClosedBehind(t)
          BY <2>0, <3>0, <4>1, <4>3, <5>1, <5>2 DEF RemovedInv
        <5> QED
          BY <2>0, <4>1, <5>1, <5>3, ClosedBehindFrame
      <4>4. RemovedInv'
        BY <4>3 DEF RemovedInv, Sole
      <4> QED
        BY <4>2, <4>4
    <3>2. ASSUME UNCHANGED <<relayVars, pool, relays>>, NEW i \in RelayInput,
                 NEW targets \in SUBSET Listening, NEW then,
                 BeginSend(i, targets, then),
                 then = "remove" => i = Close /\ \E t \in Task : targets = {t},
                 then = "break" => i = Close /\ targets = Listening
          PROVE  JobInv' /\ RemovedInv'
      <4>1. PICK t \in targets : job' = [input |-> i, to |-> t, rest |-> targets \ {t}, then |-> then]
        BY <3>2 DEF BeginSend
      <4>2. Listening' = Listening
        BY <3>2 DEF Listening
      <4>3. JobInv'
        BY <3>0, <3>2, <4>1, <4>2 DEF JobInv
      <4>4. RemovedInv'
        BY <3>2, <4>2 DEF RemovedInv, Sole, relayVars, ClosedBehind
      <4> QED
        BY <4>3, <4>4
    <3>3. CASE UNCHANGED <<relayVars, pool, relays, job>>
      BY <2>b, <3>3 DEF relayVars
    <3>4. CASE /\ DropPool("shutdown") /\ Listening = {}
               /\ UNCHANGED <<state, outgoing, inputs>>
      <4>1. JobInv'
        BY <2>0, <3>4 DEF DropPool, JobInv
      <4>2. RemovedInv'
        BY <3>0, <3>4 DEF RemovedInv, Sole, ClosedBehind
      <4> QED
        BY <4>1, <4>2
    <3>5. CASE DropPool("abandoned")
      BY <2>0, <3>5 DEF DropPool, JobInv, RemovedInv
    <3>6. Close \in RelayInput /\ \A u \in Url : relays[u] # NoTask => relays[u] \in Task
                               /\ {relays[u]} \subseteq Listening
      BY <2>0 DEF RelayInput, Listening
    <3> QED
      BY <2>4, <3>1, <3>2, <3>3, <3>4, <3>5, <3>6, CommandCases
  <2>5. CASE PoolSend
    <3>0. job.to # NoTask
      BY <2>5 DEF PoolSend
    <3>1. CASE /\ job.rest # {} /\ BeginSend(job.input, job.rest, job.then)
               /\ UNCHANGED <<pool, relays>>
      <4>1. PICK t \in job.rest : job' = [input |-> job.input, to |-> t,
                                          rest |-> job.rest \ {t}, then |-> job.then]
        BY <3>1 DEF BeginSend
      <4>2. Listening' = Listening /\ Listening \subseteq Task
        BY <3>1, JobTypes DEF Listening, TypeInv
      <4>3. /\ job'.to = t /\ job'.rest = job.rest \ {t}
            /\ job'.then = job.then /\ job'.input = job.input
            /\ t \in job.rest /\ job.rest \subseteq Listening
            /\ pool = "running" /\ job.then # "remove"
        BY <3>0, <3>1, <4>1 DEF JobInv
      <4>a. ASSUME job.then = "break"
            PROVE  /\ job.input = Close
                   /\ \A r \in Listening \ job.rest : ClosedBehind(r)'
        BY <2>5, <3>0, <4>2, <4>a, ClosedBehindSend DEF JobInv
      <4>b. job'.then = "break" =>
                /\ job'.input = Close
                /\ \A r \in Listening' \ (job'.rest \cup {job'.to}) : ClosedBehind(r)'
        BY <4>2, <4>3, <4>a
      <4>c. JobInv'
        BY <3>1, <4>2, <4>3, <4>b DEF JobInv
      <4>4. RemovedInv'
        BY <2>5, <3>1, <4>2, ClosedBehindSend DEF RemovedInv, Sole
      <4> QED
        BY <4>4, <4>c
    <3>2. CASE job' = Idle /\ UNCHANGED <<pool, relays>>
      <4>1. Listening' = Listening
        BY <3>2 DEF Listening
      <4>2. RemovedInv'
        BY <2>5, <3>2, <4>1, ClosedBehindSend DEF RemovedInv, Sole
      <4> QED
        BY <2>0, <3>2, <4>2 DEF JobInv
    <3>3. CASE /\ job.then = "remove" /\ job' = Idle
               /\ relays' = [relays EXCEPT ![UrlOf[job.to]] = NoTask]
               /\ UNCHANGED pool
      <4>1. ASSUME NEW t \in Task, Sole(t), state'[t] # "Unspawned", t \notin Listening'
            PROVE  ClosedBehind(t)'
        <5>1. CASE t = job.to
          BY <2>5, <3>0, <3>3, <5>1, ClosedBehindSend DEF JobInv
        <5>2. CASE t # job.to
          <6>1. \A u \in Url : relays[u] = t => relays'[u] = t
            BY <2>0, <2>5, <3>3, <5>2, ClosedBehindSend
          <6>2. t \notin Listening
            BY <2>0, <4>1, <6>1 DEF Listening
          <6> QED
            BY <2>5, <4>1, <5>2, <6>2, ClosedBehindSend DEF RemovedInv
        <5> QED
          BY <5>1, <5>2
      <4>2. RemovedInv'
        BY <4>1 DEF RemovedInv, Sole
      <4> QED
        BY <2>0, <3>3, <4>2 DEF JobInv
    <3>4. CASE job.rest = {} /\ job.then = "break" /\ DropPool("shutdown")
      <4>1. ASSUME NEW t \in Task, Sole(t), state'[t] # "Unspawned"
            PROVE  ClosedBehind(t)'
        <5>1. CASE t = job.to
          BY <2>5, <3>0, <3>4, <5>1, ClosedBehindSend DEF JobInv
        <5>2. CASE t # job.to
          BY <2>5, <3>0, <3>4, <4>1, <5>2, ClosedBehindSend DEF JobInv, RemovedInv
        <5> QED
          BY <5>1, <5>2
      <4>2. RemovedInv'
        BY <4>1 DEF RemovedInv, Sole
      <4> QED
        BY <2>0, <3>4, <4>2 DEF JobInv, DropPool
    <3> QED
      BY <2>5, <3>1, <3>2, <3>3, <3>4 DEF PoolSend, AfterSend
  <2>6. CASE UNCHANGED vars
    BY <2>b, <2>6 DEF vars, relayVars, poolVars
  <2> QED
    BY <2>1, <2>2, <2>3, <2>4, <2>5, <2>6 DEF Next
<1> QED
  BY ListenerInvariance, <1>1, <1>2, PTL DEF Spec

\* RemoveRelay and Shutdown always end a connection, even when Reconnect and
\* Subscribe inputs are still queued around their Close.
THEOREM RemovedClosed == Spec => []RemovedIsClosed
<1>1. RemovedInv => RemovedIsClosed
  BY DEF RemovedInv, RemovedIsClosed, ClosedBehind
<1> QED
  BY RemovedInvariance, <1>1, PTL

-----------------------------------------------------------------------------
(* The circular wait. *)

\* In a circular wait no step changes what it consists of.
LEMMA WaitCycleStep ==
    ASSUME TypeInv, ListenerInv, JobInv, [Next]_vars, NEW t \in Task, WaitCycle(t)
    PROVE  WaitCycle(t)'
<1>0. /\ job.to = t /\ t # NoTask /\ t \in Listening /\ pool = "running"
      /\ inputs \in [Task -> Seq(RelayInput)] /\ outgoing \in [Task -> RelayToPoolEvent \cup {NoEvent}]
      /\ Len(inputs[t]) = InputCap /\ outgoing[t] # NoEvent /\ Len(toPool) = PoolCap
      /\ state[t] \in RelayStatus
  BY RelayAssumption, PoolAssumption
     DEF WaitCycle, JobInv, ListenerInv, Listening, TypeInv, TypeOK, RelayTypeOK
<1>1. ~CanSend(t)
  BY <1>0, RelayAssumption DEF CanSend, RelayStatus
<1>2. ASSUME UNCHANGED <<job, toPool>>, inputs'[t] = inputs[t], outgoing'[t] = outgoing[t]
      PROVE  WaitCycle(t)'
  BY <1>0, <1>2 DEF WaitCycle
<1>3. ASSUME NEW r \in Task, RelayStep(r)
      PROVE  WaitCycle(t)'
  <2>1. UNCHANGED job
    BY <1>3, RelayStepFrame DEF poolVars
  <2>2. ~SendToPool(r)
    BY <1>0, RelayAssumption DEF SendToPool
  <2>3. CASE r = t
    BY <1>0, <1>3, <2>2, <2>3
       DEF RelayStep, ReceiveStep, SendStep, EndStep, NetworkStep, TakeInput, TerminatedReconnect,
           TerminatedOther, DisconnectedClose, DisconnectedReconnect, DisconnectedOther,
           ConnectingClose, ConnectingOther, ConnectedClose, ConnectedOther, SleepElapsed,
           ConnectionResult, SocketLost, InputClosed, SendToPoolFailed, Selecting
  <2>4. CASE r # t
    <3>1. inputs'[t] = inputs[t] /\ outgoing'[t] = outgoing[t]
      BY <1>3, <2>4, RelayStepFrame
    <3>2. UNCHANGED toPool
      BY <1>3, <2>2
         DEF RelayStep, ReceiveStep, SendStep, EndStep, NetworkStep, TakeInput, TerminatedReconnect,
             TerminatedOther, DisconnectedClose, DisconnectedReconnect, DisconnectedOther,
             ConnectingClose, ConnectingOther, ConnectedClose, ConnectedOther, SleepElapsed,
             ConnectionResult, SocketLost, InputClosed, SendToPoolFailed, End
    <3> QED
      BY <1>2, <2>1, <3>1, <3>2
  <2> QED
    BY <2>3, <2>4
<1>4. ASSUME NEW r \in Task, NEW s \in Subscription, Resend(r, s)
      PROVE  WaitCycle(t)'
  <2>1. r # t /\ Deliver(r, s) /\ UNCHANGED <<job, toPool, outgoing>>
    BY <1>1, <1>4 DEF Resend
  <2>2. inputs'[t] = inputs[t]
    BY <1>0, <2>1 DEF Deliver
  <2> QED
    BY <1>2, <2>1, <2>2
<1>5. ~handle_relay_to_pool /\ ~Command
  BY <1>0, PoolStepFrame
<1>6. ~PoolSend
  BY <1>0, <1>1 DEF PoolSend
<1>7. CASE UNCHANGED vars
  BY <1>2, <1>7 DEF vars, relayVars, poolVars
<1> QED
  BY <1>3, <1>4, <1>5, <1>6, <1>7 DEF Next

\* Once the pool awaits a relay that awaits the pool, neither ever goes on.
THEOREM WaitCycleForever == Spec => WaitCycleIsForever
<1>1. TypeInv /\ ListenerInv /\ JobInv /\ [Next]_vars
          => [\A t \in Task : WaitCycle(t) => WaitCycle(t)']_vars
  BY WaitCycleStep
<1> QED
  BY RemovedInvariance, <1>1, PTL DEF Spec, WaitCycleIsForever

-----------------------------------------------------------------------------
(* The status in RelayInformation. *)

LEMMA InformationUndisturbed ==
    ASSUME NEW t \in Task, InformationFor(t),
           state'[t] = state[t], status'[t] = status[t], delay'[t] = delay[t],
           attempts'[t] = attempts[t], outgoing'[t] = outgoing[t]
    PROVE  InformationFor(t)'
  BY DEF InformationFor

LEMMA InformationStep ==
    ASSUME TypeInv, NEW t \in Task, InformationFor(t), RelayStep(t)
    PROVE  InformationFor(t)'
<1>0. /\ state \in [Task -> RelayStatus \cup {"Unspawned", "Ended"}]
      /\ status \in [Task -> RelayStatus] /\ delay \in [Task -> Nat]
      /\ attempts \in [Task -> 0 .. MaxAttempts] /\ MaxAttempts \in Nat \ {0}
      /\ outgoing \in [Task -> RelayToPoolEvent \cup {NoEvent}]
      /\ outgoing[t] \in EventsIn(state[t]) \cup {NoEvent}
      /\ outgoing[t] = "AttempToConnect" => attempts[t] < MaxAttempts
  BY RelayAssumption DEF TypeInv, TypeOK, RelayTypeOK, OutgoingOK
<1>a. ASSUME try_connect(t, 0, 0), state[t] = "Disconnected", UNCHANGED <<state, status>>
      PROVE  InformationFor(t)'
  BY <1>0, <1>a DEF try_connect, Announce, InformationFor
<1>1. ASSUME try_connect(t, delay[t], attempts[t]), state[t] = "Disconnected",
             UNCHANGED <<state, status>>
      PROVE  InformationFor(t)'
  BY <1>0, <1>1 DEF try_connect, Announce, InformationFor
<1>2. ASSUME NEW e, Announce(t, e), e # "MaxAttempsExceeded",
             UNCHANGED <<state, status, delay, attempts>>
      PROVE  InformationFor(t)'
  BY <1>0, <1>2 DEF Announce, InformationFor
<1>3. ASSUME UNCHANGED <<state, status, delay, attempts, outgoing>>
      PROVE  InformationFor(t)'
  BY <1>3 DEF InformationFor
<1>4. CASE ReceiveStep(t)
  <2>1. CASE DisconnectedReconnect(t)
    BY <1>a, <2>1 DEF DisconnectedReconnect, Selecting
  <2>2. CASE DisconnectedOther(t)
    BY <1>1, <2>2 DEF DisconnectedOther, Selecting
  <2>3. CASE TerminatedReconnect(t) \/ DisconnectedClose(t) \/ ConnectingClose(t) \/ ConnectedClose(t)
    BY <1>2, <2>3 DEF TerminatedReconnect, DisconnectedClose, ConnectingClose, ConnectedClose
  <2>4. CASE TerminatedOther(t) \/ ConnectingOther(t) \/ ConnectedOther(t)
    BY <1>3, <2>4 DEF TerminatedOther, ConnectingOther, ConnectedOther
  <2> QED
    BY <1>4, <2>1, <2>2, <2>3, <2>4 DEF ReceiveStep, TakeInput
<1>5. CASE SendToPool(t)
  <2>1. /\ outgoing'[t] = NoEvent
        /\ state'[t] = StateAfter(outgoing[t])
        /\ status'[t] = StatusAfter(outgoing[t], status[t])
        /\ delay'[t] = DelayAfter(outgoing[t], delay[t])
        /\ attempts'[t] = AttemptsAfter(outgoing[t], attempts[t])
        /\ outgoing[t] \in EventsIn(state[t])
    BY <1>0, <1>5 DEF SendToPool
  <2> QED
    BY <1>0, <2>1 DEF InformationFor, EventsIn, StateAfter, StatusAfter, DelayAfter, AttemptsAfter,
                      NoEvent
<1>6. CASE End(t)
  BY <1>0, <1>6 DEF End, InformationFor, NoEvent
<1>7. CASE NetworkStep(t)
  <2>1. CASE SleepElapsed(t)
    BY <1>1, <2>1 DEF SleepElapsed, Selecting
  <2>2. CASE SocketLost(t) \/ ConnectionResult(t)
    BY <1>2, <2>2 DEF SocketLost, ConnectionResult
  <2> QED
    BY <1>7, <2>1, <2>2 DEF NetworkStep
<1> QED
  BY <1>4, <1>5, <1>6, <1>7
     DEF RelayStep, SendStep, EndStep, InputClosed, SendToPoolFailed

LEMMA InformationInvariance == Spec => [](TypeInv /\ InformationInv)
<1>1. Init => InformationInv
  BY DEF Init, RelayInit, InformationInv, InformationFor, NoEvent
<1>2. TypeInv /\ InformationInv /\ [Next]_vars => InformationInv'
  <2> SUFFICES ASSUME TypeInv, InformationInv, [Next]_vars, NEW t \in Task
               PROVE  InformationFor(t)'
    BY DEF InformationInv
  <2>0. InformationFor(t)
    BY DEF InformationInv
  <2>1. ASSUME NEW r \in Task, RelayStep(r)
        PROVE  InformationFor(t)'
    <3>1. CASE r = t
      BY <2>0, <2>1, <3>1, InformationStep
    <3>2. CASE r # t
      BY <2>0, <2>1, <3>2, RelayStepFrame, InformationUndisturbed
    <3> QED
      BY <3>1, <3>2
  <2>2. CASE UNCHANGED <<state, status, delay, attempts, outgoing>>
    BY <2>0, <2>2, InformationUndisturbed
  <2>3. ASSUME NEW r \in Task, Spawn(r)
        PROVE  InformationFor(t)'
    BY <2>0, <2>3 DEF Spawn, InformationFor, TypeInv, TypeOK, RelayTypeOK
  <2>4. CASE Command
    BY <2>2, <2>3, <2>4
       DEF Command, AddRelay, RemoveRelay, ReconnectRelay, ForwardToOne, ForwardToAll,
           AddSubscription, AddSubscriptionToRelay, Shutdown, Abandon, relayVars
  <2>5. CASE \/ \E r \in Task, s \in Subscription : Resend(r, s)
             \/ handle_relay_to_pool
             \/ PoolSend
    BY <2>2, <2>5 DEF Resend, handle_relay_to_pool, PoolSend
  <2>6. CASE UNCHANGED vars
    BY <2>2, <2>6 DEF vars, relayVars
  <2> QED
    BY <2>1, <2>4, <2>5, <2>6 DEF Next
<1> QED
  BY TypeInvariance, <1>1, <1>2, PTL DEF Spec

\* The status in RelayInformation lags the loop's state only after a lost socket
\* and after the last attempt.
THEOREM InformationCorrect == Spec => []InformationStatus
<1>1. TypeInv /\ InformationInv => InformationStatus
  BY RelayAssumption DEF InformationInv, InformationFor, InformationStatus, TypeInv, TypeOK, RelayTypeOK, RelayStatus
<1> QED
  BY InformationInvariance, <1>1, PTL

-----------------------------------------------------------------------------
(* The back-off. *)

\* The longest back-off after a attempts.
Longest(a) == 1000 * 2^(a - 1)

LEMMA LongestDoubles ==
    ASSUME NEW a \in 1 .. MaxAttempts
    PROVE  /\ Longest(a) \in Nat /\ Longest(a) >= 1000
           /\ Longest(a + 1) = 2 * Longest(a)
<1>1. MaxAttempts \in Nat BY RelayAssumption
<1>2. a - 1 \in 0 .. MaxAttempts BY <1>1
<1>3. PICK p \in Nat \ {0} : p = 2^(a - 1) BY <1>2, PowersOfTwo
<1>4. 2^((a - 1) + 1) = 2 * 2^(a - 1) BY <1>2, PowersOfTwo
<1>5. (a - 1) + 1 = (a + 1) - 1 BY <1>1
<1>6. Longest(a) = 1000 * p BY <1>3 DEF Longest
<1>7. 2^((a + 1) - 1) = 2 * p BY <1>3, <1>4, <1>5
<1>8. Longest(a + 1) = 1000 * (2 * p) BY <1>7 DEF Longest
<1>9. QED BY <1>3, <1>6, <1>8

\* A connecting relay has made the attempt it will double its delay for.
BackOffFor(t) ==
    /\ delay[t] > 0 => attempts[t] > 0 /\ delay[t] <= Longest(attempts[t])
    /\ state[t] = "Connecting" =>
           attempts[t] > 0 /\ (delay[t] > 0 => 2 * delay[t] <= Longest(attempts[t]))

BackOffInv == \A t \in Task : BackOffFor(t)

LEMMA BackOffUndisturbed ==
    ASSUME NEW t \in Task, BackOffFor(t),
           state'[t] = state[t] \/ state'[t] # "Connecting",
           delay'[t] = 0 \/ (delay'[t] = delay[t] /\ attempts'[t] = attempts[t]),
           attempts'[t] = attempts[t] \/ state'[t] # "Connecting"
    PROVE  BackOffFor(t)'
BY DEF BackOffFor

LEMMA BackOffStep ==
    ASSUME TypeInv, NEW t \in Task, BackOffFor(t), RelayStep(t)
    PROVE  BackOffFor(t)'
<1>0. /\ state \in [Task -> RelayStatus \cup {"Unspawned", "Ended"}]
      /\ delay \in [Task -> Nat] /\ attempts \in [Task -> 0 .. MaxAttempts]
      /\ status \in [Task -> RelayStatus] /\ MaxAttempts \in Nat \ {0}
      /\ outgoing[t] \in EventsIn(state[t]) \cup {NoEvent}
      /\ outgoing[t] = "AttempToConnect" => attempts[t] < MaxAttempts
      /\ delay[t] \in Nat /\ attempts[t] \in 0 .. MaxAttempts
  BY RelayAssumption DEF TypeInv, TypeOK, RelayTypeOK, OutgoingOK
<1>1. ASSUME UNCHANGED <<state, delay, attempts>> PROVE BackOffFor(t)'
  BY <1>1 DEF BackOffFor
<1>2. ASSUME try_connect(t, delay[t], attempts[t]), UNCHANGED state PROVE BackOffFor(t)'
  <2>1. delay'[t] = delay[t] /\ attempts'[t] = attempts[t] BY <1>0, <1>2 DEF try_connect
  <2>2. QED BY <1>2, <2>1, BackOffUndisturbed
<1>3. CASE ReceiveStep(t)
  <2>1. CASE DisconnectedReconnect(t)
    <3>1. delay'[t] = 0 /\ state'[t] = "Disconnected"
      BY <1>0, <2>1 DEF DisconnectedReconnect, try_connect, Selecting
    <3>2. QED BY <3>1, BackOffUndisturbed
  <2>2. CASE DisconnectedOther(t) BY <1>2, <2>2 DEF DisconnectedOther
  <2>3. CASE ~DisconnectedReconnect(t) /\ ~DisconnectedOther(t)
    BY <1>1, <1>3, <2>3
       DEF ReceiveStep, TakeInput, TerminatedReconnect, TerminatedOther, DisconnectedClose,
           ConnectingClose, ConnectingOther, ConnectedClose, ConnectedOther
  <2>4. QED BY <2>1, <2>2, <2>3
<1>4. CASE SendStep(t)
  <2>1. /\ state'[t] = StateAfter(outgoing[t])
        /\ delay'[t] = DelayAfter(outgoing[t], delay[t])
        /\ attempts'[t] = AttemptsAfter(outgoing[t], attempts[t])
        /\ outgoing[t] \in EventsIn(state[t])
    BY <1>0, <1>4 DEF SendStep, SendToPool
  <2>2. CASE outgoing[t] = "AttempToConnect"
    <3>1. delay'[t] = delay[t] /\ attempts'[t] = attempts[t] + 1
      BY <2>1, <2>2 DEF DelayAfter, AttemptsAfter
    <3>2. CASE delay[t] > 0
      <4>1. attempts[t] \in 1 .. MaxAttempts /\ delay[t] <= Longest(attempts[t])
        BY <1>0, <3>2 DEF BackOffFor
      <4>2. /\ Longest(attempts[t]) \in Nat
            /\ Longest(attempts[t] + 1) = 2 * Longest(attempts[t])
        BY <4>1, LongestDoubles
      <4>3. /\ 2 * delay[t] <= Longest(attempts[t] + 1) /\ delay[t] <= Longest(attempts[t] + 1)
            /\ attempts[t] + 1 > 0
        BY <1>0, <4>1, <4>2
      <4>4. QED BY <3>1, <4>3 DEF BackOffFor
    <3>3. CASE ~(delay[t] > 0)
      <4>1. attempts[t] + 1 > 0 BY <1>0
      <4>2. QED BY <3>1, <3>3, <4>1 DEF BackOffFor
    <3>4. QED BY <3>2, <3>3
  <2>3. CASE outgoing[t] = "FailedToConnect"
    <3>1. /\ state'[t] = "Disconnected" /\ attempts'[t] = attempts[t]
          /\ delay'[t] = IF delay[t] = 0 THEN 1000 ELSE 2 * delay[t]
      BY <2>1, <2>3 DEF StateAfter, DelayAfter, AttemptsAfter, retry_with_delay
    <3>2. state[t] = "Connecting" BY <2>1, <2>3 DEF EventsIn
    <3>3. attempts[t] \in 1 .. MaxAttempts BY <1>0, <3>2 DEF BackOffFor
    <3>4. Longest(attempts[t]) \in Nat /\ Longest(attempts[t]) >= 1000
      BY <3>3, LongestDoubles
    <3>5. delay[t] > 0 => 2 * delay[t] <= Longest(attempts[t]) BY <3>2 DEF BackOffFor
    <3>6. attempts'[t] > 0 /\ delay'[t] <= Longest(attempts[t])
      BY <1>0, <3>1, <3>3, <3>4, <3>5
    <3>7. QED BY <3>1, <3>6 DEF BackOffFor
  <2>4. CASE outgoing[t] \notin {"AttempToConnect", "FailedToConnect"}
    <3>1. delay'[t] = 0 /\ state'[t] # "Connecting"
      BY <2>1, <2>4 DEF DelayAfter, StateAfter
    <3>2. QED BY <3>1, BackOffUndisturbed
  <2>5. QED BY <2>2, <2>3, <2>4
<1>5. CASE EndStep(t)
  <2>1. delay'[t] = 0 /\ state'[t] # "Connecting"
    BY <1>0, <1>5 DEF EndStep, InputClosed, SendToPoolFailed, End
  <2>2. QED BY <2>1, BackOffUndisturbed
<1>6. CASE NetworkStep(t)
  <2>1. CASE SleepElapsed(t) BY <1>2, <2>1 DEF SleepElapsed
  <2>2. CASE SocketLost(t) \/ ConnectionResult(t)
    BY <1>1, <2>2 DEF SocketLost, ConnectionResult
  <2>3. QED BY <1>6, <2>1, <2>2 DEF NetworkStep
<1>7. QED BY <1>3, <1>4, <1>5, <1>6 DEF RelayStep

LEMMA BackOffNext ==
    ASSUME TypeInv, BackOffInv, [Next]_vars
    PROVE  BackOffInv'
<1> SUFFICES ASSUME NEW t \in Task PROVE BackOffFor(t)' BY DEF BackOffInv
<1>1. BackOffFor(t) BY DEF BackOffInv
<1>2. ASSUME NEW r \in Task, RelayStep(r) PROVE BackOffFor(t)'
  <2>1. CASE r = t BY <1>1, <1>2, <2>1, BackOffStep
  <2>2. CASE r # t BY <1>1, <1>2, <2>2, RelayStepFrame, BackOffUndisturbed
  <2>3. QED BY <2>1, <2>2
<1>3. CASE UNCHANGED <<state, delay, attempts>> BY <1>1, <1>3 DEF BackOffFor
<1>4. ASSUME NEW r \in Task, Spawn(r) PROVE BackOffFor(t)'
  <2>1. /\ delay'[t] = delay[t] /\ attempts'[t] = attempts[t]
        /\ state'[t] = state[t] \/ state'[t] = "Disconnected"
    BY <1>4 DEF Spawn, TypeInv, TypeOK, RelayTypeOK
  <2>2. QED BY <1>1, <2>1, BackOffUndisturbed
<1>5. CASE Command
  BY <1>3, <1>4, <1>5
     DEF Command, AddRelay, RemoveRelay, ReconnectRelay, ForwardToOne, ForwardToAll,
         AddSubscription, AddSubscriptionToRelay, Shutdown, Abandon, relayVars
<1>6. CASE \/ \E r \in Task, s \in Subscription : Resend(r, s)
           \/ handle_relay_to_pool
           \/ PoolSend
  BY <1>3, <1>6 DEF Resend, handle_relay_to_pool, PoolSend
<1>7. CASE UNCHANGED vars BY <1>3, <1>7 DEF vars, relayVars
<1>8. QED BY <1>2, <1>5, <1>6, <1>7 DEF Next

\* Whatever inputs cut its sleeps short, a relay makes at most MaxAttempts attempts in
\* a row, and its delay has been doubled at most once for each but the first.
THEOREM RetriesCorrect == Spec => []RetriesBounded
<1>1. Init => BackOffInv
  <2> SUFFICES ASSUME Init, NEW t \in Task PROVE BackOffFor(t) BY DEF BackOffInv
  <2>1. delay[t] = 0 /\ state[t] = "Unspawned" BY DEF Init, RelayInit
  <2>2. QED BY <2>1 DEF BackOffFor
<1>2. TypeInv /\ BackOffInv /\ [Next]_vars => BackOffInv' BY BackOffNext
<1>3. TypeInv /\ BackOffInv => RetriesBounded
  <2> SUFFICES ASSUME TypeInv, BackOffInv, NEW t \in Task
               PROVE  /\ attempts[t] <= MaxAttempts
                      /\ delay[t] > 0 =>
                             attempts[t] > 0 /\ delay[t] <= 1000 * 2^(attempts[t] - 1)
    BY DEF RetriesBounded
  <2>1. attempts[t] \in 0 .. MaxAttempts /\ MaxAttempts \in Nat
    BY RelayAssumption DEF TypeInv, TypeOK, RelayTypeOK
  <2>2. attempts[t] <= MaxAttempts BY <2>1
  <2>3. BackOffFor(t) BY DEF BackOffInv
  <2>4. QED BY <2>2, <2>3 DEF BackOffFor, Longest
<1>4. QED BY TypeInvariance, <1>1, <1>2, <1>3, PTL DEF Spec

=============================================================================
