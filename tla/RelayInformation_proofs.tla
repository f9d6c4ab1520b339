----------------------- MODULE RelayInformation_proofs -----------------------
(***************************************************************************)
(* The error list is what the relay has refused last for every limit below *)
(* the u8's range; the document is fetched once; the statistics agree with *)
(* the status.                                                             *)
(***************************************************************************)
EXTENDS RelayInformation, RelayPoolSafety_proofs

\* By the shape of its actions, keeping a relay's information adds no step to its task,
\* the pool or the client: what is proved of these holds here too.
LEMMA InformationImplementsPool == InformationSpec => Spec
<1>1. InformationInit => Init BY DEF InformationInit
<1>2. [InformationNext]_allVars => [Next]_vars
  <2> SUFFICES ASSUME [InformationNext]_allVars PROVE [Next]_vars OBVIOUS
  <2>1. CASE \E t \in Task : Step(t)
    BY <2>1 DEF Step, Unconcerned, Next, RelayStep
  <2>2. CASE \E t \in Task : Informing(t)
    BY <2>2 DEF Informing, RequestDocument, ReceiveDocument, check_ok_msg
  <2>3. CASE \E t \in Task : Answered(t) BY <2>3 DEF Answered
  <2>4. CASE PoolStep BY <2>4 DEF PoolStep, Next
  <2>5. CASE UNCHANGED allVars BY <2>5 DEF allVars
  <2>6. QED BY <2>1, <2>2, <2>3, <2>4, <2>5 DEF InformationNext
<1>3. QED BY <1>1, <1>2, PTL DEF InformationSpec, Spec

-----------------------------------------------------------------------------
(* The error list. *)

ListOK(list, n) ==
    /\ list \in Seq(Nat)
    /\ Len(list) = IF n < MAX_ERROR_MSGS_LIMIT THEN n ELSE MAX_ERROR_MSGS_LIMIT
    /\ \A i \in 1 .. Len(list) : list[i] = n - Len(list) + i

ErrorsInv ==
    \A t \in Task : refused[t] \in Nat /\ ListOK(error_messages[t], refused[t])

ErrorsTyped ==
    /\ refused \in [Task -> Nat]
    /\ error_messages \in [Task -> Seq(Nat)]

IInv == ErrorsTyped /\ ErrorsInv

\* One more refusal: the list grows to the limit, and from then on it moves.
LEMMA PushKeepsLatest ==
    ASSUME NEW n \in Nat, NEW list, ListOK(list, n)
    PROVE  ListOK(push_error(list, n + 1), n + 1)
<1> USE InformationAssumption
<1> DEFINE L == MAX_ERROR_MSGS_LIMIT
           pushed == Append(list, n + 1)
<1>1. /\ list \in Seq(Nat) /\ Len(list) \in Nat /\ Len(list) <= L
      /\ L \in Nat \ {0} /\ U8 \in Nat /\ L + 1 < U8
  BY DEF ListOK
<1>2. /\ pushed \in Seq(Nat) /\ Len(pushed) = Len(list) + 1
      /\ \A i \in 1 .. Len(pushed) : pushed[i] = n - Len(list) + i
  <2>1. pushed \in Seq(Nat) /\ Len(pushed) = Len(list) + 1 BY <1>1
  <2>2. ASSUME NEW i \in 1 .. Len(pushed) PROVE pushed[i] = n - Len(list) + i
    <3>1. CASE i = Len(list) + 1 BY <1>1, <2>1, <3>1
    <3>2. CASE i \in 1 .. Len(list)
      <4>1. pushed[i] = list[i] BY <1>1, <3>2
      <4>2. list[i] = n - Len(list) + i BY <3>2 DEF ListOK
      <4>3. QED BY <4>1, <4>2
    <3>3. QED BY <1>1, <2>1, <2>2, <3>1, <3>2
  <2>3. QED BY <2>1, <2>2
<1>3. Len(pushed) % U8 = Len(pushed)
  BY <1>1, <1>2
<1>4. CASE n < L
  <2>1. Len(list) = n BY <1>4 DEF ListOK
  <2>2. push_error(list, n + 1) = pushed BY <1>1, <1>2, <1>3, <1>4, <2>1 DEF push_error
  <2>3. Len(pushed) = IF n + 1 < L THEN n + 1 ELSE L BY <1>1, <1>2, <1>4, <2>1
  <2>4. ASSUME NEW i \in 1 .. Len(pushed) PROVE pushed[i] = (n + 1) - Len(pushed) + i
    BY <1>1, <1>2, <2>1, <2>4
  <2>5. QED BY <1>2, <2>2, <2>3, <2>4 DEF ListOK
<1>5. CASE ~(n < L)
  <2>1. Len(list) = L BY <1>5 DEF ListOK
  <2>2. push_error(list, n + 1) = Tail(pushed)
    BY <1>1, <1>2, <1>3, <2>1 DEF push_error
  <2>3. /\ Tail(pushed) \in Seq(Nat) /\ Len(Tail(pushed)) = L
        /\ \A i \in 1 .. L : Tail(pushed)[i] = pushed[i + 1]
    BY <1>1, <1>2, <2>1
  <2>4. ASSUME NEW i \in 1 .. L PROVE Tail(pushed)[i] = (n + 1) - L + i
    <3>1. i + 1 \in 1 .. Len(pushed) BY <1>1, <1>2, <2>1
    <3>2. pushed[i + 1] = n - L + (i + 1) BY <1>2, <2>1, <3>1
    <3>3. Tail(pushed)[i] = pushed[i + 1] BY <2>3
    <3>4. n - L + (i + 1) = (n + 1) - L + i BY <1>1
    <3>5. QED BY <3>2, <3>3, <3>4
  <2>5. ~(n + 1 < L) BY <1>1, <1>5
  <2>6. QED BY <2>2, <2>3, <2>4, <2>5 DEF ListOK
<1>6. QED BY <1>4, <1>5

LEMMA ErrorsInit == InformationInit => IInv
<1> SUFFICES ASSUME InformationInit PROVE IInv OBVIOUS
<1>1. refused = [t \in Task |-> 0] /\ error_messages = [t \in Task |-> <<>>]
  BY DEF InformationInit
<1>2. ListOK(<<>>, 0) BY InformationAssumption DEF ListOK
<1>3. QED BY <1>1, <1>2 DEF IInv, ErrorsTyped, ErrorsInv

LEMMA ErrorsNext == IInv /\ [InformationNext]_allVars => IInv'
<1> SUFFICES ASSUME IInv, [InformationNext]_allVars PROVE IInv' OBVIOUS
<1> USE DEF IInv, ErrorsTyped, ErrorsInv
<1>1. CASE UNCHANGED <<error_messages, refused>> BY <1>1 DEF ListOK
<1>2. ASSUME NEW t \in Task, check_ok_msg(t) PROVE IInv'
  <2>1. /\ refused' = [refused EXCEPT ![t] = refused[t] + 1]
        /\ error_messages' =
               [error_messages EXCEPT ![t] = push_error(error_messages[t], refused[t] + 1)]
    BY <1>2 DEF check_ok_msg
  <2>2. ListOK(push_error(error_messages[t], refused[t] + 1), refused[t] + 1)
    BY PushKeepsLatest
  <2>3. push_error(error_messages[t], refused[t] + 1) \in Seq(Nat)
    BY <2>2 DEF ListOK
  <2>4. QED BY <2>1, <2>2, <2>3
<1>3. ASSUME NEW t \in Task, Forget(t) PROVE IInv'
  <2>1. /\ refused' = [refused EXCEPT ![t] = 0]
        /\ error_messages' = [error_messages EXCEPT ![t] = <<>>]
    BY <1>3 DEF Forget
  <2>2. ListOK(<<>>, 0) BY InformationAssumption DEF ListOK
  <2>3. QED BY <2>1, <2>2
<1>4. CASE \E t \in Task : Step(t)
  BY <1>1, <1>3, <1>4 DEF Step, Unconcerned, informationVars, reset_conn_stats, new_success
<1>5. CASE \E t \in Task : Informing(t)
  BY <1>1, <1>2, <1>5 DEF Informing, RequestDocument, ReceiveDocument
<1>6. CASE \E t \in Task : Answered(t) BY <1>1, <1>6 DEF Answered
<1>7. CASE PoolStep BY <1>1, <1>7 DEF PoolStep, informationVars
<1>8. CASE UNCHANGED allVars BY <1>1, <1>8 DEF allVars, informationVars
<1>9. QED BY <1>4, <1>5, <1>6, <1>7, <1>8 DEF InformationNext

\* Whatever the limit, as long as a list one longer than it fits in the u8 it is
\* compared as, the list is that of the latest refusals.
THEOREM ErrorsCorrect == InformationSpec => []KeepsLatestErrors
<1>1. IInv => KeepsLatestErrors BY DEF IInv, ErrorsInv, ListOK, KeepsLatestErrors
<1>2. QED BY ErrorsInit, ErrorsNext, <1>1, PTL DEF InformationSpec

-----------------------------------------------------------------------------
(* The document. *)

\* A task that has not asked for the document has no fetch, past or present.
DocumentInv ==
    /\ document_request \in [Task -> DocRequestState]
    /\ fetch \in [Task -> {"None", "Running"} \cup Answer]
    /\ fetches \in [Task -> 0 .. 1]
    /\ \A t \in Task :
           /\ fetch[t] # "None" => document_request[t] = "Requested"
           /\ document_request[t] = "Initial" <=> fetches[t] = 0

LEMMA DocumentInit == InformationInit => DocumentInv
BY DEF InformationInit, DocumentInv, DocRequestState, Answer

LEMMA DocumentNext == DocumentInv /\ [InformationNext]_allVars => DocumentInv'
<1> SUFFICES ASSUME DocumentInv, [InformationNext]_allVars PROVE DocumentInv' OBVIOUS
<1> USE DEF DocumentInv, DocRequestState, Answer
<1>1. CASE UNCHANGED <<document_request, fetch, fetches>> BY <1>1
<1>2. ASSUME NEW t \in Task, RequestDocument(t) PROVE DocumentInv' BY <1>2 DEF RequestDocument
<1>3. ASSUME NEW t \in Task, ReceiveDocument(t) PROVE DocumentInv' BY <1>3 DEF ReceiveDocument
<1>4. ASSUME NEW t \in Task, Answered(t) PROVE DocumentInv' BY <1>4 DEF Answered
<1>5. ASSUME NEW t \in Task, Forget(t) PROVE DocumentInv' BY <1>5 DEF Forget
<1>6. CASE \E t \in Task : Step(t)
  BY <1>1, <1>5, <1>6 DEF Step, Unconcerned, informationVars, reset_conn_stats, new_success
<1>7. CASE \E t \in Task : Informing(t)
  BY <1>1, <1>2, <1>3, <1>7 DEF Informing, check_ok_msg
<1>8. CASE \E t \in Task : Answered(t) BY <1>4, <1>8
<1>9. CASE PoolStep BY <1>1, <1>9 DEF PoolStep, informationVars
<1>10. CASE UNCHANGED allVars BY <1>1, <1>10 DEF allVars, informationVars
<1>11. QED BY <1>6, <1>7, <1>8, <1>9, <1>10 DEF InformationNext

\* However often it connects, a relay task fetches its document once, and until the
\* answer is received it has the receiver.
THEOREM DocumentCorrect == InformationSpec => []OneFetchPerRelay
<1>1. DocumentInv => OneFetchPerRelay
  <2> SUFFICES ASSUME DocumentInv, NEW t \in Task
               PROVE  /\ fetches[t] <= 1
                      /\ fetch[t] # "None" => document_request[t] = "Requested"
                      /\ document_request[t] \in {"Received", "Failed"} => fetches[t] = 1
    BY DEF OneFetchPerRelay
  <2>1. fetches[t] \in 0 .. 1 BY DEF DocumentInv
  <2>2. fetches[t] <= 1 BY <2>1
  <2>3. document_request[t] \in {"Received", "Failed"} => fetches[t] # 0 BY DEF DocumentInv
  <2>4. QED BY <2>1, <2>2, <2>3 DEF DocumentInv
<1>2. QED BY DocumentInit, DocumentNext, <1>1, PTL DEF InformationSpec

-----------------------------------------------------------------------------
(* The statistics. *)

StatsFor(t) ==
    /\ status[t] = "Connected" => success[t] > 0
    /\ status[t] = "Connecting" => attempts[t] > 0
    /\ state[t] = "Ended" => status[t] = "Disconnected"

StatsInv ==
    /\ success \in [Task -> Nat]
    /\ \A t \in Task : StatsFor(t)

\* A task that says Connecting or Connected is, so that a reset, which comes in
\* Disconnected, does not touch it.
LEMMA NoStatsAtReset ==
    ASSUME TypeInv, NEW t \in Task, InformationFor(t), state[t] = "Disconnected"
    PROVE  status[t] \in {"Disconnected", "Terminated"}
BY DEF InformationFor

\* What each kind of step of a relay task leaves of the two counters.
LEMMA StatsSend ==
    ASSUME TypeInv, NEW t \in Task, InformationFor(t), StatsInv, SendStep(t)
    PROVE  /\ outgoing[t] = "ConnectedToSocket" /\ new_success(t) => StatsFor(t)'
           /\ outgoing[t] # "ConnectedToSocket" /\ UNCHANGED informationVars => StatsFor(t)'
<1>1. /\ status \in [Task -> RelayStatus] /\ attempts \in [Task -> 0 .. MaxAttempts]
      /\ success \in [Task -> Nat] /\ MaxAttempts \in Nat
      /\ outgoing[t] \in EventsIn(state[t])
  BY RelayAssumption DEF SendStep, SendToPool, TypeInv, TypeOK, RelayTypeOK, OutgoingOK, StatsInv
<1>2. /\ status'[t] = StatusAfter(outgoing[t], status[t])
      /\ attempts'[t] = AttemptsAfter(outgoing[t], attempts[t])
  BY <1>1 DEF SendStep, SendToPool, TypeInv, TypeOK, RelayTypeOK
<1>e. state'[t] # "Ended"
  BY DEF SendStep, SendToPool, StateAfter, TypeInv, TypeOK, RelayTypeOK
<1>3. ASSUME outgoing[t] = "ConnectedToSocket", new_success(t) PROVE StatsFor(t)'
  <2>1. status'[t] = "Connected" BY <1>2, <1>3 DEF StatusAfter
  <2>2. success'[t] = success[t] + 1 BY <1>1, <1>3 DEF new_success
  <2>3. success[t] + 1 > 0 BY <1>1
  <2>4. QED BY <1>e, <2>1, <2>2, <2>3 DEF StatsFor
<1>4. ASSUME outgoing[t] # "ConnectedToSocket", UNCHANGED informationVars PROVE StatsFor(t)'
  <2>1. status[t] \in {"Connecting", "Connected"} => state[t] = status[t]
    BY <1>1 DEF InformationFor, EventsIn
  <2>2. success'[t] = success[t] BY <1>4 DEF informationVars
  <2>3. CASE outgoing[t] = "AttempToConnect"
    <3>1. status'[t] = "Connecting" /\ attempts'[t] = attempts[t] + 1
      BY <1>2, <2>3 DEF StatusAfter, AttemptsAfter
    <3>2. attempts[t] + 1 > 0 BY <1>1
    <3>3. QED BY <1>e, <3>1, <3>2 DEF StatsFor
  <2>4. CASE outgoing[t] # "AttempToConnect"
    <3>1. status'[t] \notin {"Connecting", "Connected"}
      BY <1>1, <1>2, <1>4, <2>1, <2>4 DEF StatusAfter, EventsIn
    <3>2. QED BY <1>e, <3>1 DEF StatsFor
  <2>5. QED BY <2>3, <2>4
<1>5. QED BY <1>3, <1>4

\* Where a task leaves its counters alone, or only its own, the others keep theirs.
LEMMA StatsUndisturbed ==
    ASSUME NEW t \in Task, StatsFor(t), status'[t] = status[t],
           attempts'[t] = attempts[t], success'[t] = success[t],
           state'[t] = "Ended" => state[t] = "Ended"
    PROVE  StatsFor(t)'
BY DEF StatsFor

LEMMA StatsReset ==
    ASSUME TypeInv, NEW t \in Task, InformationFor(t), StatsFor(t), DisconnectedReconnect(t)
    PROVE  StatsFor(t)'
<1>1. status'[t] = status[t] /\ state[t] = "Disconnected" /\ state'[t] = state[t]
  BY DEF DisconnectedReconnect, Selecting
<1>2. QED BY <1>1, NoStatsAtReset DEF StatsFor

\* A step that does not send to the pool, end or reset changes neither counter.
LEMMA StatsReceive ==
    ASSUME TypeInv, NEW t \in Task,
           (ReceiveStep(t) /\ ~DisconnectedReconnect(t)) \/ NetworkStep(t)
    PROVE  status'[t] = status[t] /\ attempts'[t] = attempts[t] /\ state'[t] = state[t]
<1>1. attempts \in [Task -> 0 .. MaxAttempts] BY DEF TypeInv, TypeOK, RelayTypeOK
<1>2. ASSUME try_connect(t, delay[t], attempts[t]) PROVE attempts'[t] = attempts[t]
  BY <1>1, <1>2 DEF try_connect
<1>3. CASE ReceiveStep(t) /\ ~DisconnectedReconnect(t)
  <2>1. CASE DisconnectedOther(t) BY <1>2, <2>1 DEF DisconnectedOther
  <2>2. CASE ~DisconnectedOther(t)
    BY <1>3, <2>2 DEF ReceiveStep, TakeInput, TerminatedReconnect, TerminatedOther,
                      DisconnectedClose, ConnectingClose, ConnectingOther, ConnectedClose,
                      ConnectedOther
  <2>3. QED BY <2>1, <2>2
<1>4. CASE NetworkStep(t)
  <2>1. CASE SleepElapsed(t) BY <1>2, <2>1 DEF SleepElapsed
  <2>2. CASE ~SleepElapsed(t) BY <1>4, <2>2 DEF NetworkStep, ConnectionResult, SocketLost
  <2>3. QED BY <2>1, <2>2
<1>5. QED BY <1>3, <1>4

LEMMA StatsStep ==
    ASSUME TypeInv, InformationInv, StatsInv, NEW t \in Task, Step(t)
    PROVE  StatsFor(t)'
<1>1. InformationFor(t) /\ StatsFor(t) BY DEF InformationInv, StatsInv
<1>2. CASE Unconcerned(t)
  <2>1. CASE (ReceiveStep(t) /\ ~DisconnectedReconnect(t)) \/ NetworkStep(t)
    BY <1>1, <1>2, <2>1, StatsReceive, StatsUndisturbed DEF Unconcerned, informationVars
  <2>2. CASE SendStep(t) /\ outgoing[t] # "ConnectedToSocket"
    BY <1>1, <1>2, <2>2, StatsSend DEF Unconcerned
  <2>3. QED BY <1>2, <2>1, <2>2 DEF Unconcerned
<1>3. CASE DisconnectedReconnect(t) BY <1>1, <1>3, StatsReset
<1>4. CASE SendStep(t) /\ outgoing[t] = "ConnectedToSocket" /\ new_success(t)
  BY <1>1, <1>4, StatsSend
<1>5. CASE EndStep(t)
  <2>1. status'[t] = "Disconnected"
    BY <1>5 DEF EndStep, InputClosed, SendToPoolFailed, End, TypeInv, TypeOK, RelayTypeOK
  <2>2. QED BY <2>1 DEF StatsFor
<1>6. QED BY <1>2, <1>3, <1>4, <1>5 DEF Step

\* The pool's steps and the client's change no counter and end no task.
LEMMA StatsPoolStep ==
    ASSUME TypeInv, PoolStep
    PROVE  /\ UNCHANGED <<status, attempts>>
           /\ \A t \in Task : state'[t] = "Ended" => state[t] = "Ended"
<1>1. ASSUME UNCHANGED <<state, status, attempts>>
      PROVE  /\ UNCHANGED <<status, attempts>>
             /\ \A t \in Task : state'[t] = "Ended" => state[t] = "Ended"
  BY <1>1
<1>2. ASSUME NEW t \in Task, Spawn(t)
      PROVE  /\ UNCHANGED <<status, attempts>>
             /\ \A r \in Task : state'[r] = "Ended" => state[r] = "Ended"
  BY <1>2 DEF Spawn, TypeInv, TypeOK, RelayTypeOK
<1>3. CASE \E t \in Task, s \in Subscription : Resend(t, s) BY <1>1, <1>3 DEF Resend
<1>4. CASE handle_relay_to_pool BY <1>1, <1>4 DEF handle_relay_to_pool
<1>5. CASE PoolSend BY <1>1, <1>5 DEF PoolSend
<1>6. CASE Command
  <2>1. CASE \E t \in Task : AddRelay(UrlOf[t], t) BY <1>2, <2>1 DEF AddRelay
  <2>2. CASE Shutdown BY <1>1, <2>2 DEF Shutdown, relayVars
  <2>3. CASE Abandon BY <1>1, <2>3 DEF Abandon
  <2>4. CASE \/ \E u \in Url : RemoveRelay(u) \/ ReconnectRelay(u)
             \/ \E u \in Url, p \in Payload : ForwardToOne(u, p)
             \/ \E p \in Payload : ForwardToAll(p)
             \/ \E s \in Subscription : AddSubscription(s)
             \/ \E u \in Url, s \in Subscription : AddSubscriptionToRelay(u, s)
    BY <1>1, <2>4 DEF RemoveRelay, ReconnectRelay, ForwardToOne, ForwardToAll, AddSubscription,
                      AddSubscriptionToRelay, relayVars
  <2>5. QED BY <1>6, <2>1, <2>2, <2>3, <2>4 DEF Command
<1>7. QED BY <1>3, <1>4, <1>5, <1>6 DEF PoolStep

LEMMA StatsNext ==
    ASSUME TypeInv, InformationInv, StatsInv, [InformationNext]_allVars
    PROVE  StatsInv'
<1>1. ASSUME UNCHANGED <<status, attempts, success>>,
             \A t \in Task : state'[t] = "Ended" => state[t] = "Ended"
      PROVE  StatsInv'
  BY <1>1 DEF StatsInv, StatsFor
<1>2. ASSUME NEW t \in Task, Step(t) PROVE StatsInv'
  <2>1. StatsFor(t)' BY <1>2, StatsStep
  <2>2. success' \in [Task -> Nat] /\ \A r \in Task \ {t} : success'[r] = success[r]
    BY <1>2 DEF Step, Unconcerned, informationVars, reset_conn_stats, new_success, Forget, StatsInv
  <2>3. RelayStep(t)
    BY <1>2 DEF Step, Unconcerned, RelayStep
  <2>4. ASSUME NEW r \in Task \ {t} PROVE StatsFor(r)'
    BY <2>2, <2>3, <2>4, RelayStepFrame, StatsUndisturbed DEF StatsInv
  <2>5. QED BY <2>1, <2>2, <2>4 DEF StatsInv
<1>3. ASSUME NEW t \in Task, Informing(t) \/ Answered(t) PROVE StatsInv'
  BY <1>1, <1>3 DEF Informing, Answered, RequestDocument, ReceiveDocument, check_ok_msg, vars,
                    relayVars
<1>4. CASE PoolStep BY <1>1, <1>4, StatsPoolStep DEF PoolStep, informationVars
<1>5. CASE UNCHANGED allVars BY <1>1, <1>5 DEF allVars, informationVars, vars, relayVars
<1>6. QED BY <1>2, <1>3, <1>4, <1>5 DEF InformationNext

\* Through lost sockets, retries and Reconnects, information that says Connected
\* counts it, and one that says Connecting counts its attempt.
THEOREM StatsCorrect == InformationSpec => []StatsAgree
<1>1. InformationInit => StatsInv
  BY DEF InformationInit, Init, RelayInit, StatsInv, StatsFor
<1>2. TypeInv /\ InformationInv /\ StatsInv /\ [InformationNext]_allVars => StatsInv'
  BY StatsNext
<1>3. TypeInv /\ InformationInv /\ StatsInv => StatsAgree
  <2> SUFFICES ASSUME TypeInv, InformationInv, StatsInv, NEW t \in Task
               PROVE  /\ status[t] = "Connected" => success[t] > 0
                      /\ status[t] = "Connecting" => attempts[t] > 0
    BY DEF StatsAgree
  <2>1. InformationFor(t) /\ StatsFor(t) BY DEF InformationInv, StatsInv
  <2>2. state[t] \in RelayStatus \cup {"Unspawned", "Ended"}
    BY DEF TypeInv, TypeOK, RelayTypeOK
  <2>3. CASE state[t] = "Ended" BY <2>1, <2>3 DEF StatsFor
  <2>4. CASE state[t] # "Ended" BY <2>1, <2>2, <2>4 DEF InformationFor, StatsFor, RelayStatus
  <2>5. QED BY <2>3, <2>4
<1>4. QED
  BY InformationImplementsPool, InformationInvariance, <1>1, <1>2, <1>3, PTL DEF InformationSpec

-----------------------------------------------------------------------------
(* Types. *)

\* A list of the latest refusals names refusals that were made, and no more of them than
\* the limit.
LEMMA ListOfRefused ==
    ASSUME NEW n \in Nat, NEW list, ListOK(list, n)
    PROVE  list \in Seq(Nat \ {0}) /\ Len(list) <= MAX_ERROR_MSGS_LIMIT
<1>1. /\ list \in Seq(Nat) /\ Len(list) \in Nat /\ MAX_ERROR_MSGS_LIMIT \in Nat
      /\ Len(list) = IF n < MAX_ERROR_MSGS_LIMIT THEN n ELSE MAX_ERROR_MSGS_LIMIT
  BY InformationAssumption DEF ListOK
<1>2. Len(list) <= n /\ Len(list) <= MAX_ERROR_MSGS_LIMIT BY <1>1
<1>3. ASSUME NEW i \in 1 .. Len(list) PROVE list[i] \in Nat \ {0}
  <2>1. list[i] = n - Len(list) + i BY DEF ListOK
  <2>2. QED BY <1>1, <1>2, <2>1
<1>4. QED BY <1>1, <1>2, <1>3

\* The list holds refusals and is never longer than the limit, and the fetch and the
\* document are in states the code has.
THEOREM InformationTyped == InformationSpec => []InformationTypeOK
<1>1. InformationInit => StatsInv
  BY DEF InformationInit, Init, RelayInit, StatsInv, StatsFor
<1>2. TypeInv /\ InformationInv /\ StatsInv /\ [InformationNext]_allVars => StatsInv'
  BY StatsNext
<1>3. IInv /\ DocumentInv /\ StatsInv => InformationTypeOK
  <2> SUFFICES ASSUME IInv, DocumentInv, StatsInv PROVE InformationTypeOK OBVIOUS
  <2>1. error_messages \in [Task -> Seq(Nat)] BY DEF IInv, ErrorsTyped
  <2>2. ASSUME NEW t \in Task
        PROVE  /\ error_messages[t] \in Seq(Nat \ {0})
               /\ Len(error_messages[t]) <= MAX_ERROR_MSGS_LIMIT
    BY ListOfRefused DEF IInv, ErrorsInv
  <2>3. error_messages \in [Task -> Seq(Nat \ {0})] BY <2>1, <2>2
  <2>4. QED BY <2>2, <2>3 DEF DocumentInv, StatsInv, InformationTypeOK
<1>4. QED
  BY InformationImplementsPool, InformationInvariance, ErrorsInit, ErrorsNext, DocumentInit,
     DocumentNext, <1>1, <1>2, <1>3, PTL DEF InformationSpec

=============================================================================
