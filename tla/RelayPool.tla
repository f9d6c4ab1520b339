----------------------------- MODULE RelayPool -----------------------------
(***************************************************************************)
(* The pool task (lib/src/pool.rs) composed with the relay tasks it spawns *)
(* (module Relay).  The pool serves two channels: toPool, from the relays, *)
(* and the unbounded channel of the client's commands, which is left to    *)
(* the environment: any command may be received whenever the pool waits.   *)
(*                                                                         *)
(* A command that forwards an input to relays awaits a bounded channel per *)
(* relay, one after the other; job says which send is being awaited.  The  *)
(* pool serves nothing else meanwhile.                                     *)
(***************************************************************************)
EXTENDS Relay

CONSTANTS
    Subscription, \* RelayInput::Subscribe values, told apart by their id
    Commands,     \* bound: the PoolInput variants the client uses
    MaxResend,    \* bound: resends of one subscription a connection may find pending
    NoTask

ASSUME PoolAssumption ==
    /\ Subscription \subseteq Payload
    /\ MaxResend \in Nat \ {0}
    /\ NoTask \notin Task

\* What the powers of two in RetriesBounded are, for the provers do not know.
ASSUME PowersOfTwo == \A n \in 0 .. MaxAttempts : 2^n \in Nat \ {0} /\ 2^(n + 1) = 2 * 2^n

VARIABLES
    pool,           \* "running", or how run() left its loop
    relays,         \* the task whose relay_tx each url's RelayListener holds
    listenerStatus, \* RelayListener.status of each url
    subscriptions,  \* the pool's subscriptions, one per id
    resend,         \* spawned tasks still to send subscription s to task t
    job             \* the send().await the pool is in

poolVars == <<pool, relays, listenerStatus, subscriptions, resend, job>>
vars == <<relayVars, poolVars>>

Idle == [input |-> Close, to |-> NoTask, rest |-> {}, then |-> "continue"]

Job == [input : RelayInput, to : Task \cup {NoTask}, rest : SUBSET Task,
        then : {"continue", "remove", "break"}]

Init ==
    /\ RelayInit
    /\ pool = "running"
    /\ relays = [u \in Url |-> NoTask]
    /\ listenerStatus = [u \in Url |-> "Disconnected"]
    /\ subscriptions = {}
    /\ resend = [t \in Task |-> [s \in Subscription |-> 0]]
    /\ job = Idle

-----------------------------------------------------------------------------
(* Helpers. *)

\* The pool is at its select!.
PoolSelecting == pool = "running" /\ job.to = NoTask

Listening == {relays[u] : u \in Url} \ {NoTask}

\* Some clone of t's relay_tx is alive: in the map, or in a spawned resend.
HasSender(t) == t \in Listening \/ \E s \in Subscription : resend[t][s] > 0

CanAlwaysSend(t) == TRUE

\* A send to t's channel can complete: there is room, or no receiver any more.
CanSend(t) == state[t] = "Ended" \/ Len(inputs[t]) < InputCap

\* What the completed send leaves in the channel.
Deliver(t, i) ==
    inputs' = [inputs EXCEPT ![t] = IF state[t] = "Ended" THEN @ ELSE Append(@, i)]

StatusLikeTheRelays(e) ==
    IF e = "ConnectedToSocket" THEN "Connected"
    ELSE IF e = "AttempToConnect" THEN "Connecting"
    ELSE IF e \in {"FailedToConnect", "Reconnecting"} THEN "Disconnected"
    ELSE "Terminated"

\* The status a listener gets for each event.
set_status(e) ==
    IF e = "ConnectedToSocket" THEN "Connected"
    ELSE IF e = "AttempToConnect" THEN "Connecting"
    ELSE IF e \in {"MaxAttempsExceeded", "TerminateRelay", "Closed"} THEN "Terminated"
    ELSE "Disconnected"

\* One more spawned task per subscription, each with a clone of t's relay_tx.
SpawnResends(t) ==
    resend' = [resend EXCEPT ![t] =
        [s \in Subscription |-> IF s \in subscriptions THEN @[s] + 1 ELSE @[s]]]

WithSubscription(s) == {r \in subscriptions : r.id # s.id} \cup {s}

\* run returned: the task drops its map, its channels and its subscriptions.
DropPool(reason) ==
    /\ pool' = reason
    /\ relays' = [u \in Url |-> NoTask]
    /\ listenerStatus' = [u \in Url |-> "Disconnected"]
    /\ subscriptions' = {}
    /\ toPool' = <<>>
    /\ job' = Idle

-----------------------------------------------------------------------------
(* The relay tasks, and what their environment needs from the pool. *)

\* Bound: a connection opens only while fewer than MaxResend resends of each
\* subscription are pending for its url; nothing in the code bounds them.
ResendBound(t) ==
    \A r \in Task, s \in Subscription : UrlOf[r] = UrlOf[t] => resend[r][s] < MaxResend

\* A branch of select! that receives an input.
ReceiveStep(t) == TakeInput(t) /\ UNCHANGED poolVars

\* The await on the pool's channel is over.
SendStep(t) == SendToPool(t) /\ pool = "running" /\ UNCHANGED poolVars

EndOnlyWithoutSender(t) ==
    InputClosed(t) /\ ~HasSender(t) /\ UNCHANGED poolVars

\* run returns: no sender is left, or the pool's receiver is gone.
EndStep(t) ==
    /\ \/ InputClosed(t) /\ ~HasSender(t)
       \/ SendToPoolFailed(t) /\ pool # "running"
    /\ UNCHANGED poolVars

\* Time and the network.
NetworkStep(t) ==
    /\ \/ SleepElapsed(t)
       \/ SocketLost(t)
       \/ ConnectionResult(t) /\ (outgoing'[t] = "ConnectedToSocket" => ResendBound(t))
    /\ UNCHANGED poolVars

RelayStep(t) == ReceiveStep(t) \/ SendStep(t) \/ EndStep(t) \/ NetworkStep(t)

\* A spawned task's relay_tx_1.send(Subscribe(s)) completes.
Resend(t, s) ==
    /\ resend[t][s] > 0
    /\ CanSend(t)
    /\ Deliver(t, s)
    /\ resend' = [resend EXCEPT ![t][s] = @ - 1]
    /\ UNCHANGED <<state, delay, attempts, status, outgoing, toPool,
                   pool, relays, listenerStatus, subscriptions, job>>

-----------------------------------------------------------------------------
(* The pool's select!: an event of a relay. *)

\* The event reaches whichever listener holds the url now.  A connection makes
\* the pool spawn one resend per subscription.
handle_relay_to_pool ==
    /\ PoolSelecting /\ toPool # <<>>
    /\ toPool' = Tail(toPool)
    /\ LET u == Head(toPool).url
           e == Head(toPool).event
           t == relays[u]
       IN \/ /\ t = NoTask
             /\ UNCHANGED <<listenerStatus, resend>>
          \/ /\ t # NoTask
             /\ listenerStatus' = [listenerStatus EXCEPT ![u] = set_status(e)]
             /\ IF e = "ConnectedToSocket" THEN SpawnResends(t) ELSE UNCHANGED resend
    /\ UNCHANGED <<state, delay, attempts, status, inputs, outgoing,
                   pool, relays, subscriptions, job>>

-----------------------------------------------------------------------------
(* The pool's select!: a command. *)

\* The pool begins the sends of i, in the order the HashMap happens to have.
BeginSend(i, targets, then) ==
    \E t \in targets :
        job' = [input |-> i, to |-> t, rest |-> targets \ {t}, then |-> then]

send_to_all(i) ==
    IF Listening = {} THEN UNCHANGED job ELSE BeginSend(i, Listening, "continue")

send_to_listener(u, i) ==
    IF relays[u] = NoTask THEN UNCHANGED job ELSE BeginSend(i, {relays[u]}, "continue")

\* A relay task is spawned and its listener replaces the url's previous one.
AddRelay(u, t) ==
    /\ PoolSelecting
    /\ UrlOf[t] = u
    /\ Spawn(t)
    /\ relays' = [relays EXCEPT ![u] = t]
    /\ listenerStatus' = [listenerStatus EXCEPT ![u] = "Disconnected"]
    /\ UNCHANGED <<pool, subscriptions, resend, job>>

RemoveWithoutClose(u) ==
    /\ PoolSelecting /\ relays[u] # NoTask
    /\ relays' = [relays EXCEPT ![u] = NoTask]
    /\ listenerStatus' = [listenerStatus EXCEPT ![u] = "Disconnected"]
    /\ UNCHANGED <<relayVars, pool, subscriptions, resend, job>>

\* Close is sent first; the listener is removed when that send is over.
RemoveRelay(u) ==
    /\ PoolSelecting /\ relays[u] # NoTask
    /\ BeginSend(Close, {relays[u]}, "remove")
    /\ UNCHANGED <<relayVars, pool, relays, listenerStatus, subscriptions, resend>>

ReconnectRelay(u) ==
    /\ PoolSelecting /\ relays[u] # NoTask
    /\ send_to_listener(u, Reconnect)
    /\ UNCHANGED <<relayVars, pool, relays, listenerStatus, subscriptions, resend>>

\* Auth, EoseActions, FetchInformation, ToggleRead and ToggleWrite for one relay.
ForwardToOne(u, p) ==
    /\ PoolSelecting /\ relays[u] # NoTask
    /\ send_to_listener(u, p)
    /\ UNCHANGED <<relayVars, pool, relays, listenerStatus, subscriptions, resend>>

\* SendEvent and FetchInformation for every relay.
ForwardToAll(p) ==
    /\ PoolSelecting /\ Listening # {}
    /\ send_to_all(p)
    /\ UNCHANGED <<relayVars, pool, relays, listenerStatus, subscriptions, resend>>

AddSubscription(s) ==
    /\ PoolSelecting
    /\ subscriptions' = WithSubscription(s)
    /\ send_to_all(s)
    /\ UNCHANGED <<relayVars, pool, relays, listenerStatus, resend>>

\* Only one relay is told now, but every relay that connects later will be.
AddSubscriptionToRelay(u, s) ==
    /\ PoolSelecting
    /\ subscriptions' = WithSubscription(s)
    /\ send_to_listener(u, s)
    /\ UNCHANGED <<relayVars, pool, relays, listenerStatus, resend>>

\* Close goes to every relay, then the loop is left.
Shutdown ==
    /\ PoolSelecting
    /\ \/ /\ Listening = {}
          /\ DropPool("shutdown")
          /\ UNCHANGED <<state, delay, attempts, status, inputs, outgoing, resend>>
       \/ /\ BeginSend(Close, Listening, "break")
          /\ UNCHANGED <<relayVars, pool, relays, listenerStatus, subscriptions, resend>>

\* The loop is left without a Close: the client dropped the reply channel of a
\* status request, or every handle of the pool.
Abandon ==
    /\ PoolSelecting
    /\ DropPool("abandoned")
    /\ UNCHANGED <<state, delay, attempts, status, inputs, outgoing, resend>>

-----------------------------------------------------------------------------
(* The await on a relay's channel. *)

\* The loop goes on with another listener, or the command is over.
AfterSend ==
    \/ /\ job.rest # {}
       /\ BeginSend(job.input, job.rest, job.then)
       /\ UNCHANGED <<pool, relays, listenerStatus, subscriptions, toPool>>
    \/ /\ job.rest = {} /\ job.then = "continue"
       /\ job' = Idle
       /\ UNCHANGED <<pool, relays, listenerStatus, subscriptions, toPool>>
    \/ /\ job.rest = {} /\ job.then = "remove"
       /\ job' = Idle
       /\ relays' = [relays EXCEPT ![UrlOf[job.to]] = NoTask]
       /\ listenerStatus' = [listenerStatus EXCEPT ![UrlOf[job.to]] = "Disconnected"]
       /\ UNCHANGED <<pool, subscriptions, toPool>>
    \/ /\ job.rest = {} /\ job.then = "break"
       /\ DropPool("shutdown")

PoolSend ==
    /\ job.to # NoTask
    /\ CanSend(job.to)
    /\ Deliver(job.to, job.input)
    /\ AfterSend
    /\ UNCHANGED <<state, delay, attempts, status, outgoing, resend>>

-----------------------------------------------------------------------------

Command ==
    \/ "AddRelay" \in Commands /\ \E t \in Task : AddRelay(UrlOf[t], t)
    \/ "RemoveRelay" \in Commands /\ \E u \in Url : RemoveRelay(u)
    \/ "ReconnectRelay" \in Commands /\ \E u \in Url : ReconnectRelay(u)
    \/ "ForwardToOne" \in Commands
          /\ \E u \in Url, p \in Payload \ Subscription : ForwardToOne(u, p)
    \/ "ForwardToAll" \in Commands
          /\ \E p \in Payload \ Subscription : ForwardToAll(p)
    \/ "AddSubscription" \in Commands /\ \E s \in Subscription : AddSubscription(s)
    \/ "AddSubscriptionToRelay" \in Commands
          /\ \E u \in Url, s \in Subscription : AddSubscriptionToRelay(u, s)
    \/ "Shutdown" \in Commands /\ Shutdown
    \/ "Abandon" \in Commands /\ Abandon

Next ==
    \/ \E t \in Task : RelayStep(t)
    \/ \E t \in Task, s \in Subscription : Resend(t, s)
    \/ handle_relay_to_pool
    \/ Command
    \/ PoolSend

Spec == Init /\ [][Next]_vars

(***************************************************************************)
(* tokio's select! starts at a random branch, so an input that keeps being *)
(* ready is received (SF), as is the end of a channel; its channels queue  *)
(* their waiting senders in order, so a send to a channel that keeps being *)
(* drained completes (SF).  Time, the network and the client are not fair. *)
(***************************************************************************)
Fairness ==
    /\ \A t \in Task : /\ SF_vars(ReceiveStep(t))
                       /\ SF_vars(SendStep(t))
                       /\ SF_vars(EndStep(t))
                       /\ \A s \in Subscription : SF_vars(Resend(t, s))
    /\ SF_vars(handle_relay_to_pool)
    /\ SF_vars(PoolSend)

FairSpec == Spec /\ Fairness

-----------------------------------------------------------------------------
(* Safety. *)

TypeOK ==
    /\ RelayTypeOK
    /\ pool \in {"running", "shutdown", "abandoned"}
    /\ relays \in [Url -> Task \cup {NoTask}]
    /\ listenerStatus \in [Url -> RelayStatus]
    /\ subscriptions \subseteq Subscription
    /\ resend \in [Task -> [Subscription -> Nat]]
    /\ job \in Job

\* No other task ever runs for t's url: the client never adds it twice.
Sole(t) == \A s \in Task \ {t} : UrlOf[s] # UrlOf[t]

\* i is the last event in the channel that concerns url u.
LastEventOf(u, i) ==
    /\ i \in DOMAIN toPool
    /\ toPool[i].url = u
    /\ \A j \in DOMAIN toPool : j > i => toPool[j].url # u

\* The status the pool shows is late, never wrong: once it has handled the
\* events already in its channel, a listener shows the state its relay's loop is
\* in, whatever was connected, lost, retried or blocked meanwhile.
StatusAgrees ==
    \A t \in Task : Sole(t) /\ relays[UrlOf[t]] = t =>
        /\ \A i \in DOMAIN toPool :
               LastEventOf(UrlOf[t], i) => set_status(toPool[i].event) = state[t]
        /\ (\A i \in DOMAIN toPool : toPool[i].url # UrlOf[t])
               => listenerStatus[UrlOf[t]] = state[t]

\* A relay that RemoveRelay or Shutdown took out of the map is terminated, or
\* about to be: no input left in its channel can open a connection again that a
\* Close behind it does not end.
RemovedIsClosed ==
    \A t \in Task :
        Sole(t) /\ state[t] # "Unspawned" /\ t \notin Listening /\ pool # "abandoned"
        => \/ state[t] \in {"Terminated", "Ended"}
           \/ outgoing[t] = "Closed"
           \/ \E i \in DOMAIN inputs[t] : inputs[t][i] = Close

\* The status in RelayInformation lags the loop's state in two places only:
\* after a lost socket, which reports Terminated until the next attempt, and
\* after the last attempt, which reports Disconnected.
InformationStatus ==
    \A t \in Task : state[t] \in RelayStatus =>
        \/ status[t] = state[t]
        \/ state[t] = "Disconnected" /\ status[t] = "Terminated" /\ delay[t] = 0
        \/ state[t] = "Terminated" /\ status[t] = "Disconnected" /\ attempts[t] = MaxAttempts

\* Between two successes or resets a relay makes at most MaxAttempts attempts,
\* and its back-off is at most 1000 ms doubled once per attempt made, so the
\* u64 multiplication never overflows, whatever inputs cut the sleeps short.
RetriesBounded ==
    \A t \in Task :
        /\ attempts[t] <= MaxAttempts
        /\ delay[t] > 0 => attempts[t] > 0 /\ delay[t] <= 1000 * 2^(attempts[t] - 1)

-----------------------------------------------------------------------------
(* Action properties. *)

\* The pool awaits room in t's channel, and t awaits room in the pool's.
WaitCycle(t) ==
    /\ job.to = t
    /\ Len(inputs[t]) = InputCap
    /\ outgoing[t] # NoEvent
    /\ Len(toPool) = PoolCap

\* Two full channels stop the pool for good: no resend, no other relay and no
\* command ever breaks the circular wait of the pool's and the relay's awaits.
WaitCycleIsForever == [][\A t \in Task : WaitCycle(t) => WaitCycle(t)']_vars

\* A terminated relay that is told to reconnect leaves Terminated with an attempt
\* to spend.
ReconnectTriesAgain ==
    [][\A t \in Task : state[t] = "Terminated" /\ state'[t] = "Disconnected"
            => attempts'[t] < MaxAttempts]_vars

-----------------------------------------------------------------------------
(* Liveness, under FairSpec. *)

\* A send of the pool completes, unless it is one half of a circular wait.
PoolSendCompletes == \A t \in Task : job.to = t ~> (job.to # t \/ WaitCycle(t))

\* A task whose listener was removed or replaced, and whose resends are over,
\* returns from run and drops its socket, unless the pool is in a circular wait.
OrphansEnd ==
    \A t \in Task :
        state[t] \in RelayStatus /\ ~HasSender(t)
            ~> (state[t] = "Ended" \/ \E s \in Task : WaitCycle(s))

\* Once the pool's loop is left, for whatever reason, every relay task ends.
StopEndsAll ==
    pool # "running" ~> \A t \in Task : state[t] \in {"Unspawned", "Ended"}
=============================================================================
