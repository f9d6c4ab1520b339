---------------------------- MODULE PoolTraffic ----------------------------
(***************************************************************************)
(* The subscriptions of the pool and what becomes of them in its relays:   *)
(* RelayPool with, for every relay task, the map of its subscriptions, its *)
(* input queue and the requests open at its relay.  Every step is one of   *)
(* RelayPool's with its effect on these, or the handling of a queued       *)
(* input, which RelayPool does not see.                                    *)
(*                                                                         *)
(* Writes succeed here, subscriptions are endless, and of the other inputs *)
(* only their place in the queue counts: RelayTraffic has the rest, and    *)
(* what each task does here is one of its behaviours.                      *)
(***************************************************************************)
EXTENDS RelayPool

CONSTANT MaxQueue   \* bound: the inputs a relay holds when a command comes

\* Subscriptions are endless.  The other inputs are those a connected relay answers
\* with no request.
ASSUME SubscriptionAssumption ==
    /\ \A s \in Subscription : s.kind = "Subscribe" /\ s.sub_type = "Endless"
    /\ \A p \in Payload \ Subscription : p.kind \in {"SendEvent", "Auth", "FetchInformation"}

VARIABLES
    held,         \* Relay.subscriptions of each task
    input_queue,  \* Relay.input_queue of each task
    open,         \* the requests open at each task's relay
    behind        \* history: the ids of which a task was last sent an old value, or none

trafficVars == <<held, input_queue, open, behind>>
allVars == <<vars, trafficVars>>

TrafficInit ==
    /\ Init
    /\ held = [t \in Task |-> {}]
    /\ input_queue = [t \in Task |-> <<>>]
    /\ open = [t \in Task |-> {}]
    /\ behind = [t \in Task |-> {}]

-----------------------------------------------------------------------------
(* A relay task. *)

\* Bound: the client subscribes, and a connection to u opens, only while the
\* relays of the url hold fewer than MaxQueue inputs; nothing in the code bounds them.
QueueBound(u) ==
    \A t \in Task : UrlOf[t] = u => Len(inputs[t]) + Len(input_queue[t]) < MaxQueue

Connected(t) == state[t] = "Connected"

\* handle_connected is still at the queue, before its select!.
Draining(t) == Connected(t) /\ input_queue[t] # <<>>

InsertBeside(S, s) == S \cup {s}
Insert(S, s) == {r \in S : r.id # s.id} \cup {s}

\* An id that the map has is taken to be subscribed already.
SubscribeOnce(t, s) ==
    IF \E r \in held[t] : r.id = s.id
    THEN UNCHANGED <<held, open>>
    ELSE held' = [held EXCEPT ![t] = Insert(@, s)] /\ open' = [open EXCEPT ![t] = Insert(@, s)]

\* CLOSE for an entry of the same id, then REQ, which replaces the id's request.
subscribe(t, s) ==
    /\ held' = [held EXCEPT ![t] = Insert(@, s)]
    /\ open' = [open EXCEPT ![t] = Insert(@, s)]

handle_other_inputs_connected(t, i) ==
    IF i \in Subscription THEN subscribe(t, i) ELSE UNCHANGED <<held, open>>

\* Subscriptions and events wait for the connection.
Queued(i) == i.kind \in {"Subscribe", "EoseActions", "SendEvent", "Auth"}

handle_input_disconnected_other(t, i) ==
    IF Queued(i)
    THEN input_queue' = [input_queue EXCEPT ![t] = Append(@, i)]
    ELSE UNCHANGED input_queue

\* The input a task takes from its channel is handled, if it is not for the
\* connection.
Receiving(t) ==
    LET i == Head(inputs[t]) IN
    /\ ReceiveStep(t) /\ ~Draining(t)
    /\ \/ i \in {Close, Reconnect} /\ UNCHANGED <<held, input_queue, open>>
       \/ /\ i \in Payload /\ Connected(t)
          /\ handle_other_inputs_connected(t, i)
          /\ UNCHANGED input_queue
       \/ /\ i \in Payload /\ ~Connected(t)
          /\ handle_input_disconnected_other(t, i)
          /\ UNCHANGED <<held, open>>
    /\ UNCHANGED behind

HandleQueuedAndKeep(t) ==
    /\ Draining(t) /\ outgoing[t] = NoEvent
    /\ handle_other_inputs_connected(t, Head(input_queue[t]))
    /\ UNCHANGED <<vars, input_queue, behind>>

\* The first thing handle_connected does, one input after the other.
HandleQueued(t) ==
    /\ Draining(t) /\ outgoing[t] = NoEvent
    /\ handle_other_inputs_connected(t, Head(input_queue[t]))
    /\ input_queue' = [input_queue EXCEPT ![t] = Tail(@)]
    /\ UNCHANGED <<vars, behind>>

\* The other steps of a task leave its requests alone.
ConnectionForgetsNothing(t) ==
    /\ SendStep(t) \/ EndStep(t) \/ NetworkStep(t)
    /\ ~Draining(t)
    /\ outgoing'[t] = "ConnectedToSocket" => QueueBound(UrlOf[t])
    /\ UNCHANGED trafficVars

\* The other steps of a task; one that leaves Connected drops the socket.
Connection(t) ==
    /\ SendStep(t) \/ EndStep(t) \/ NetworkStep(t)
    /\ ~Draining(t)
    /\ outgoing'[t] = "ConnectedToSocket" => QueueBound(UrlOf[t])
    /\ open' = [open EXCEPT ![t] = IF Connected(t)' THEN @ ELSE {}]
    /\ UNCHANGED <<held, input_queue, behind>>

-----------------------------------------------------------------------------
(* The pool. *)

\* A value that is not the pool's any more leaves t behind, the pool's own
\* brings it up to date.
Sent(t, i) ==
    behind' = IF i \notin Subscription THEN behind
              ELSE [behind EXCEPT ![t] = IF i \in subscriptions THEN @ \ {i.id} ELSE @ \cup {i.id}]

ResendTo(t, s) == Resend(t, s) /\ Sent(t, s) /\ UNCHANGED <<held, input_queue, open>>

SendTo == PoolSend /\ Sent(job.to, job.input) /\ UNCHANGED <<held, input_queue, open>>

RelayEvent == handle_relay_to_pool /\ UNCHANGED trafficVars

\* A new value that is not on its way to a listener leaves it behind.
Client ==
    LET Changed == {s.id : s \in subscriptions' \ subscriptions}
        Told == {job'.to} \cup job'.rest
    IN /\ \A u \in Url : QueueBound(u)
       /\ Command
       /\ behind' = [t \in Task |->
              IF t \in Listening \ Told THEN behind[t] \cup Changed ELSE behind[t]]
       /\ UNCHANGED <<held, input_queue, open>>

TrafficNext ==
    \/ \E t \in Task : Receiving(t) \/ HandleQueued(t) \/ Connection(t)
    \/ \E t \in Task, s \in Subscription : ResendTo(t, s)
    \/ SendTo
    \/ RelayEvent
    \/ Client

TrafficSpec == TrafficInit /\ [][TrafficNext]_allVars

\* As in RelayPool; a connected task works off its queue before anything else.
TrafficFairness ==
    /\ \A t \in Task : /\ WF_allVars(HandleQueued(t))
                       /\ SF_allVars(Receiving(t))
                       /\ SF_allVars(Connection(t) /\ (SendStep(t) \/ EndStep(t)))
                       /\ \A s \in Subscription : SF_allVars(ResendTo(t, s))
    /\ SF_allVars(RelayEvent)
    /\ SF_allVars(SendTo)

TrafficFairSpec == TrafficSpec /\ TrafficFairness

-----------------------------------------------------------------------------
(* Properties. *)

TrafficTypeOK ==
    /\ \A t \in Task : held[t] \subseteq Subscription /\ open[t] \subseteq held[t]
    /\ input_queue \in [Task -> Seq(Payload)]
    /\ behind \in [Task -> SUBSET {s.id : s \in Subscription}]
    /\ \A t \in Task : \A r, s \in held[t] : r.id = s.id => r = s

\* No subscription is on its way to t, nor a connection that will have it sent.
Settled(t) ==
    /\ Connected(t) /\ t \in Listening /\ job.to = NoTask
    /\ inputs[t] = <<>> /\ input_queue[t] = <<>>
    /\ \A s \in Subscription : resend[t][s] = 0
    /\ \A i \in DOMAIN toPool : toPool[i] # [url |-> UrlOf[t], event |-> "ConnectedToSocket"]

\* When nothing is on its way a connected relay has open all that the pool is
\* subscribed to, those meant for another relay included, with their latest
\* filters.  Two things only leave it behind: a resend of an earlier value, spawned
\* for this connection or one before, that is received after the new value, and a new
\* value sent to one other relay.
RelayFollowsPool ==
    \A t \in Task : Settled(t) =>
        \A s \in subscriptions : s.id \in behind[t] \/ s \in open[t]

\* A subscription reaches every connected relay, unless it changes, the relay is
\* removed or lost, or left behind as above, or the pool is in a circular wait.
SubscriptionArrives ==
    \A t \in Task, s \in Subscription :
        s \in subscriptions /\ t \in Listening /\ Connected(t)
            ~> \/ s \in open[t] \/ s.id \in behind[t]
               \/ s \notin subscriptions \/ t \notin Listening \/ ~Connected(t)
               \/ \E r \in Task : WaitCycle(r)

AsRelayInput(i) == IF i \in Subscription THEN [kind |-> "Subscribe", subscription |-> i] ELSE i

TrafficOf(t) == INSTANCE RelayTraffic WITH
    ActionId <- {}, Inputs <- {AsRelayInput(p) : p \in Payload},
    QueueLengths <- Nat, MaxTimers <- 1, MaxStarts <- 1, MaxAnswers <- 1,
    online <- Connected(t), peer <- Connected(t), read <- TRUE, write <- TRUE,
    subscriptions <- held[t], eose_actions <- [a \in {} |-> {}],
    input_queue <- [i \in DOMAIN input_queue[t] |-> AsRelayInput(input_queue[t][i])],
    timers <- [s \in Subscription |-> 0],
    open <- open[t], unanswered <- open[t], answers <- <<>>,
    unclosed <- {}, stalled <- {}, starts <- [a \in {} |-> 0]

\* Each task, in the pool's hands, behaves as RelayTraffic says one does alone.
EachTaskIsTraffic ==
    /\ \A t \in Task : TrafficOf(t)!Init
    /\ [][\A t \in Task : [TrafficOf(t)!Next]_(TrafficOf(t)!vars)]_allVars
=============================================================================
