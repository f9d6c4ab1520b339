------------------------------- MODULE Relay -------------------------------
(***************************************************************************)
(* The connection machine of the relay tasks (lib/src/relay.rs): the loop  *)
(* of Relay::run and the handlers of its four states.  Every task t of     *)
(* Task runs one Relay value for the url UrlOf[t].                         *)
(*                                                                         *)
(* A handler that reports to the pool awaits a send on a bounded channel.  *)
(* It is therefore two steps: the branch of its select! that was taken     *)
(* (everything up to the await) leaves the event in outgoing[t], and       *)
(* SendToPool, once the channel has room, does everything after the await. *)
(* Inputs other than Close and Reconnect do not concern the connection:    *)
(* they are the members of Payload, and what they do is not in this        *)
(* module.                                                                 *)
(*                                                                         *)
(* A definition with a name the source does not have, placed just before   *)
(* one that has it and with the same parameters, is that definition with a *)
(* plausible mistake: the README says which property would tell.           *)
(***************************************************************************)
EXTENDS Naturals, Sequences

CONSTANTS
    Task,         \* the relay tasks that may ever be spawned
    Url,          \* the urls the client uses
    UrlOf,        \* the url field of each task's Relay
    Payload,      \* inputs that leave the connection alone
    InputCap,     \* RELAY_INPUT_CHANNEL_SIZE
    PoolCap,      \* RELAY_TO_POOL_CHANNEL_SIZE
    MaxAttempts   \* MAX_ATTEMPS

ASSUME RelayAssumption ==
    /\ UrlOf \in [Task -> Url]
    /\ \A p \in Payload : p.kind \notin {"Close", "Reconnect"}
    /\ InputCap \in Nat \ {0}
    /\ PoolCap \in Nat \ {0}
    /\ MaxAttempts \in Nat \ {0}

VARIABLES
    state,      \* the RelayState of each task; "Unspawned" before, "Ended" after run
    delay,      \* the milliseconds RelayState carries while it tries to connect
    attempts,   \* information.conn_stats.attempts
    status,     \* information.status, what RelayEvent::RelayInformation reports
    inputs,     \* each task's input channel
    outgoing,   \* the event a task is awaiting to send to the pool
    toPool      \* the channel shared by all tasks, read by the pool

relayVars == <<state, delay, attempts, status, inputs, outgoing, toPool>>

RelayStatus == {"Disconnected", "Connecting", "Connected", "Terminated"}

RelayToPoolEvent ==
    {"Reconnecting", "FailedToConnect", "ConnectedToSocket", "RelayDisconnected",
     "AttempToConnect", "Closed", "MaxAttempsExceeded", "TerminateRelay"}

RelayToPool == [url : Url, event : RelayToPoolEvent]

NoEvent == "NoEvent"

Close == [kind |-> "Close"]
Reconnect == [kind |-> "Reconnect"]
RelayInput == {Close, Reconnect} \cup Payload

RelayInit ==
    /\ state = [t \in Task |-> "Unspawned"]
    /\ delay = [t \in Task |-> 0]
    /\ attempts = [t \in Task |-> 0]
    /\ status = [t \in Task |-> "Disconnected"]
    /\ inputs = [t \in Task |-> <<>>]
    /\ outgoing = [t \in Task |-> NoEvent]
    /\ toPool = <<>>

\* Relay::new and the first line of run: Disconnected { delay: 0 }.
Spawn(t) ==
    /\ state[t] = "Unspawned"
    /\ state' = [state EXCEPT ![t] = "Disconnected"]
    /\ UNCHANGED <<delay, attempts, status, inputs, outgoing, toPool>>

-----------------------------------------------------------------------------
(* Helpers of the handlers. *)

\* t is at the select! of its state's handler, not inside a branch.
Selecting(t, s) == state[t] = s /\ outgoing[t] = NoEvent

NextInput(t, kinds) == inputs[t] # <<>> /\ Head(inputs[t]).kind \in kinds

Receive(t) == inputs' = [inputs EXCEPT ![t] = Tail(@)]

Announce(t, e) == outgoing' = [outgoing EXCEPT ![t] = e]

OtherKinds == {p.kind : p \in Payload}

\* One more failure: the wait before the next attempt doubles.
RetryDoubledTwice(d) == IF d = 0 THEN 1000 ELSE 4 * d
retry_with_delay(d) == IF d = 0 THEN 1000 ELSE 2 * d

TryOnceTooOften(t, d, a) ==
    /\ delay' = [delay EXCEPT ![t] = d]
    /\ attempts' = [attempts EXCEPT ![t] = a]
    /\ Announce(t, IF a > MaxAttempts THEN "MaxAttempsExceeded" ELSE "AttempToConnect")

\* The relay gives up, or spawns a connection task and says so.
try_connect(t, d, a) ==
    /\ delay' = [delay EXCEPT ![t] = d]
    /\ attempts' = [attempts EXCEPT ![t] = a]
    /\ Announce(t, IF a >= MaxAttempts THEN "MaxAttempsExceeded" ELSE "AttempToConnect")

\* The RelayState a handler returns after it has sent e.
StateAfter(e) ==
    IF e \in {"Reconnecting", "FailedToConnect", "RelayDisconnected"} THEN "Disconnected"
    ELSE IF e = "AttempToConnect" THEN "Connecting"
    ELSE IF e = "ConnectedToSocket" THEN "Connected"
    ELSE "Terminated"

StatusWithoutDisconnected(e, s) ==
    IF e = "AttempToConnect" THEN "Connecting"
    ELSE IF e = "ConnectedToSocket" THEN "Connected"
    ELSE IF e \in {"MaxAttempsExceeded", "Reconnecting", "FailedToConnect"} THEN s
    ELSE "Terminated"

\* What new_attempt, new_success, disconnected and terminated leave in
\* information.status.  A lost socket calls terminated() although the relay is
\* about to retry, and a relay that gives up calls none of them.
StatusAfter(e, s) ==
    IF e \in {"Reconnecting", "FailedToConnect"} THEN "Disconnected"
    ELSE IF e = "AttempToConnect" THEN "Connecting"
    ELSE IF e = "ConnectedToSocket" THEN "Connected"
    ELSE IF e = "MaxAttempsExceeded" THEN s
    ELSE "Terminated"

\* The delay of the RelayState a handler returns after it has sent e.
DelayAfter(e, d) ==
    IF e = "AttempToConnect" THEN d
    ELSE IF e = "FailedToConnect" THEN retry_with_delay(d)
    ELSE 0

\* new_attempt and new_success on the attempt counter.
AttemptsAfter(e, a) ==
    IF e = "AttempToConnect" THEN a + 1 ELSE IF e = "ConnectedToSocket" THEN 0 ELSE a

-----------------------------------------------------------------------------
(* Terminated: only inputs are awaited. *)

TerminatedReconnect(t) ==
    /\ Selecting(t, "Terminated") /\ NextInput(t, {"Reconnect"})
    /\ Receive(t)
    /\ Announce(t, "Reconnecting")
    /\ UNCHANGED <<state, delay, attempts, status, toPool>>

TerminatedOnlyClose(t) ==
    /\ Selecting(t, "Terminated") /\ NextInput(t, {"Close"})
    /\ Receive(t)
    /\ UNCHANGED <<state, delay, attempts, status, outgoing, toPool>>

\* Close is ignored, anything else is applied or queued.
TerminatedOther(t) ==
    /\ Selecting(t, "Terminated") /\ NextInput(t, OtherKinds \cup {"Close"})
    /\ Receive(t)
    /\ UNCHANGED <<state, delay, attempts, status, outgoing, toPool>>

-----------------------------------------------------------------------------
(* Disconnected: the back-off sleep or an input, whichever select! picks. *)

SleepElapsed(t) ==
    /\ Selecting(t, "Disconnected")
    /\ try_connect(t, delay[t], attempts[t])
    /\ UNCHANGED <<state, status, inputs, toPool>>

DisconnectedClose(t) ==
    /\ Selecting(t, "Disconnected") /\ NextInput(t, {"Close"})
    /\ Receive(t)
    /\ Announce(t, "Closed")
    /\ UNCHANGED <<state, delay, attempts, status, toPool>>

\* reconnect(): the statistics are reset and the sleep is skipped.
DisconnectedReconnect(t) ==
    /\ Selecting(t, "Disconnected") /\ NextInput(t, {"Reconnect"})
    /\ Receive(t)
    /\ try_connect(t, 0, 0)
    /\ UNCHANGED <<state, status, toPool>>

\* Any other input ends the select! and so the sleep: the attempt is made now.
DisconnectedOther(t) ==
    /\ Selecting(t, "Disconnected") /\ NextInput(t, OtherKinds)
    /\ Receive(t)
    /\ try_connect(t, delay[t], attempts[t])
    /\ UNCHANGED <<state, status, toPool>>

-----------------------------------------------------------------------------
(* Connecting: the result of the connection task or an input. *)

ConnectingClose(t) ==
    /\ Selecting(t, "Connecting") /\ NextInput(t, {"Close"})
    /\ Receive(t)
    /\ Announce(t, "Closed")
    /\ UNCHANGED <<state, delay, attempts, status, toPool>>

\* Reconnect is ignored, anything else is applied or queued.
ConnectingOther(t) ==
    /\ Selecting(t, "Connecting") /\ NextInput(t, OtherKinds \cup {"Reconnect"})
    /\ Receive(t)
    /\ UNCHANGED <<state, delay, attempts, status, outgoing, toPool>>

\* conn_rx yields a socket, an error, or nothing because its sender is gone.
ConnectionResult(t) ==
    /\ Selecting(t, "Connecting")
    /\ \E e \in {"ConnectedToSocket", "FailedToConnect", "TerminateRelay"} : Announce(t, e)
    /\ UNCHANGED <<state, delay, attempts, status, inputs, toPool>>

-----------------------------------------------------------------------------
(* Connected: the socket or an input. *)

ConnectedClose(t) ==
    /\ Selecting(t, "Connected") /\ NextInput(t, {"Close"})
    /\ Receive(t)
    /\ Announce(t, "Closed")
    /\ UNCHANGED <<state, delay, attempts, status, toPool>>

\* Reconnect is ignored, anything else is traffic.
ConnectedOther(t) ==
    /\ Selecting(t, "Connected") /\ NextInput(t, OtherKinds \cup {"Reconnect"})
    /\ Receive(t)
    /\ UNCHANGED <<state, delay, attempts, status, outgoing, toPool>>

\* The socket yields a close frame or a read error.
SocketLost(t) ==
    /\ Selecting(t, "Connected")
    /\ Announce(t, "RelayDisconnected")
    /\ UNCHANGED <<state, delay, attempts, status, inputs, toPool>>

-----------------------------------------------------------------------------
(* The await on the pool's channel, and the ways run returns. *)

SendToPool(t) ==
    LET e == outgoing[t] IN
    /\ e # NoEvent
    /\ Len(toPool) < PoolCap
    /\ toPool' = Append(toPool, [url |-> UrlOf[t], event |-> e])
    /\ outgoing' = [outgoing EXCEPT ![t] = NoEvent]
    /\ state' = [state EXCEPT ![t] = StateAfter(e)]
    /\ status' = [status EXCEPT ![t] = StatusAfter(e, @)]
    /\ delay' = [delay EXCEPT ![t] = DelayAfter(e, @)]
    /\ attempts' = [attempts EXCEPT ![t] = AttemptsAfter(e, @)]
    /\ UNCHANGED inputs

\* run returns: the Relay value and its end of the input channel are dropped.
End(t) ==
    /\ state' = [state EXCEPT ![t] = "Ended"]
    /\ delay' = [delay EXCEPT ![t] = 0]
    /\ attempts' = [attempts EXCEPT ![t] = 0]
    /\ status' = [status EXCEPT ![t] = "Disconnected"]
    /\ inputs' = [inputs EXCEPT ![t] = <<>>]
    /\ outgoing' = [outgoing EXCEPT ![t] = NoEvent]
    /\ UNCHANGED toPool

InputClosedWhenOpen(t) ==
    /\ \E s \in {"Disconnected", "Connecting", "Connected"} : Selecting(t, s)
    /\ inputs[t] = <<>>
    /\ End(t)

\* In every state recv yields None once the channel is empty and has no
\* sender; that it has none is for the module that owns the senders to say.
InputClosed(t) ==
    /\ \E s \in RelayStatus : Selecting(t, s)
    /\ inputs[t] = <<>>
    /\ End(t)

\* The pool's receiver is gone: the send fails and run returns the error.
SendToPoolFailed(t) == outgoing[t] # NoEvent /\ End(t)

\* The select! branches that receive an input.
TakeInput(t) ==
    \/ TerminatedReconnect(t) \/ TerminatedOther(t)
    \/ DisconnectedClose(t) \/ DisconnectedReconnect(t) \/ DisconnectedOther(t)
    \/ ConnectingClose(t) \/ ConnectingOther(t)
    \/ ConnectedClose(t) \/ ConnectedOther(t)

RelayTypeOK ==
    /\ state \in [Task -> RelayStatus \cup {"Unspawned", "Ended"}]
    /\ delay \in [Task -> Nat]
    /\ attempts \in [Task -> 0 .. MaxAttempts]
    /\ status \in [Task -> RelayStatus]
    /\ inputs \in [Task -> Seq(RelayInput)]
    /\ \A t \in Task : Len(inputs[t]) <= InputCap
    /\ outgoing \in [Task -> RelayToPoolEvent \cup {NoEvent}]
    /\ toPool \in Seq(RelayToPool)
    /\ Len(toPool) <= PoolCap
=============================================================================
