---------------------------- MODULE RelayTraffic ----------------------------
(***************************************************************************)
(* What one relay task sends to and hears from its relay (the traffic half *)
(* of lib/src/relay.rs): subscriptions, groups of EOSE actions, timeouts,  *)
(* the read and write switches and the inputs queued until a connection    *)
(* opens.  Module Relay has the other half; here online says that its      *)
(* state is Connected.                                                     *)
(*                                                                         *)
(* A request reaches the relay when it is written and what the relay says  *)
(* waits in answers: the delays of the two directions are one.  A handler  *)
(* makes up to three writes and gives up at the first that fails, so the   *)
(* helpers map a session, the part of the state they may change, to the    *)
(* set of sessions they may leave.                                         *)
(*                                                                         *)
(* Not here: notifications (StateMachine), the document request and OK     *)
(* messages (RelayInformation), and the input CloseSubscription, which     *)
(* nothing in the library sends.  Verb does not matter, for a Count is     *)
(* opened, closed and timed like a Req.                                    *)
(***************************************************************************)
EXTENDS Naturals, Sequences, FiniteSets, Functions

CONSTANTS
    Subscription, \* [id, filters, sub_type, timeout]: the values the client uses
    ActionId,     \* the names of its groups of EOSE actions
    Inputs,       \* the RelayInputs it sends
    QueueLengths, \* bound: how many inputs may be queued for the next connection
    MaxTimers,    \* bound: the timers of one value when another input comes
    MaxStarts,    \* bound: the starts of groups on a connection when another comes
    MaxAnswers    \* bound: the answers in flight

\* A map keyed by a subscription's id, as the set of its values.
Keyed(S) == S \subseteq Subscription /\ \A s, r \in S : s.id = r.id => s = r

\* An input of this half of the task, with the values its kind carries.  The list of
\* a group may repeat a request, but has one value of each id.
InputOK(i) ==
    /\ i.kind \notin {"Close", "Reconnect"}
    /\ i.kind = "Subscribe" => i.subscription \in Subscription
    /\ i.kind = "EoseActions" => /\ i.action_id \in ActionId
                                 /\ i.subscriptions \in Seq(Subscription)
                                 /\ Keyed(Range(i.subscriptions))
    /\ i.kind = "ToggleRead" => i.read \in BOOLEAN
    /\ i.kind = "ToggleWrite" => i.write \in BOOLEAN

ASSUME TrafficAssumption ==
    /\ \A s \in Subscription : s.id \in Nat /\ s.sub_type \in {"EOSE", "Endless"}
                                            /\ s.timeout \in BOOLEAN
    /\ \A i \in Inputs : InputOK(i)
    /\ 0 \in QueueLengths /\ QueueLengths \subseteq Nat
    /\ \A n \in QueueLengths : 0 .. n \subseteq QueueLengths

VARIABLES
    online,         \* the task is in handle_connected
    peer,           \* the relay at the other end of the socket is there
    read, write,    \* the switches of RelayOptions
    subscriptions,  \* the values of the map, one per id
    eose_actions,   \* what is left of each group
    input_queue,    \* the inputs kept for the next connection
    timers,         \* timers started for each value and not yet received
    open,           \* at the relay: the requests open on this connection
    unanswered,     \* at the relay: those whose EOSE it has not sent
    answers,        \* the EOSEs on their way, each with the request it answers
    unclosed,       \* history: open requests the task tried to close, or gave up
    stalled,        \* history: groups that lost their connection or a write
    starts          \* history: how often each group was started on this connection

socketVars == <<online, peer, answers>>
switchVars == <<read, write>>
sessionVars == <<subscriptions, timers, open, unanswered, unclosed>>
groupVars == <<eose_actions, stalled, starts>>
vars == <<socketVars, switchVars, sessionVars, groupVars, input_queue>>

Init ==
    /\ online = FALSE /\ peer = FALSE
    /\ read = TRUE /\ write = TRUE
    /\ subscriptions = {}
    /\ eose_actions = [a \in ActionId |-> {}]
    /\ input_queue = <<>>
    /\ timers = [s \in Subscription |-> 0]
    /\ open = {} /\ unanswered = {} /\ answers = <<>>
    /\ unclosed = {} /\ stalled = {}
    /\ starts = [a \in ActionId |-> 0]

-----------------------------------------------------------------------------
(* Maps keyed by a subscription's id, as sets of values. *)

Entry(S, id) == {s \in S : s.id = id}
Remove(S, id) == {s \in S : s.id # id}
Insert(S, s) == Remove(S, s.id) \cup {s}

\* first_key_value of a BTreeMap.
FirstOf(S) == CHOOSE s \in S : \A r \in S : s.id <= r.id

-----------------------------------------------------------------------------
(* Sessions. *)

Session ==
    [ok |-> TRUE, subscriptions |-> subscriptions, timers |-> timers, open |-> open,
     unanswered |-> unanswered, unclosed |-> unclosed]

Become(x) ==
    /\ subscriptions' = x.subscriptions
    /\ timers' = x.timers
    /\ open' = x.open
    /\ unanswered' = x.unanswered
    /\ unclosed' = x.unclosed

\* Whether a write succeeds: never with write off, and with the relay gone it may
\* fail or be lost.
send_ws == IF ~write THEN {FALSE} ELSE IF peer THEN {TRUE} ELSE {TRUE, FALSE}

\* CLOSE without removing the map's entry.
CloseKeepsEntry(x, id) ==
    {IF ok THEN [x EXCEPT !.open = Remove(@, id), !.unanswered = Remove(@, id),
                          !.unclosed = Remove(@, id)]
           ELSE [x EXCEPT !.ok = FALSE, !.unclosed = @ \cup Entry(x.open, id)]
       : ok \in send_ws}

\* CLOSE, and on success the map's entry is removed.
close_subscription(x, id) ==
    {IF ok THEN [x EXCEPT !.subscriptions = Remove(@, id), !.open = Remove(@, id),
                          !.unanswered = Remove(@, id), !.unclosed = Remove(@, id)]
           ELSE [x EXCEPT !.ok = FALSE, !.unclosed = @ \cup Entry(x.open, id)]
       : ok \in send_ws}

StartTimer(x, s) ==
    IF s.sub_type = "EOSE" /\ s.timeout THEN [x EXCEPT !.timers[s] = @ + 1] ELSE x

\* REQ: a relay that already has the id replaces its request.
Request(x, s, ok) ==
    IF ~ok THEN [x EXCEPT !.ok = FALSE]
    ELSE IF ~peer THEN x
    ELSE [x EXCEPT !.open = Insert(@, s), !.unanswered = Insert(@, s),
                   !.unclosed = Remove(@, s.id)]

\* Only an id that is new to the map gets a timer.
SubscribeKeepsTimer(x, s) ==
    IF Entry(x.subscriptions, s.id) = {}
    THEN {Request(StartTimer(x, s), s, ok) : ok \in send_ws}
    ELSE UNION {IF c.ok THEN {Request(c, s, ok) : ok \in send_ws} ELSE {c}
                  : c \in close_subscription(x, s.id)}

\* An entry of the same id is closed first; the timer starts before the write.
subscribe(x, s) ==
    LET Closed == IF Entry(x.subscriptions, s.id) # {}
                  THEN close_subscription(x, s.id)
                  ELSE {x}
    IN {c \in Closed : ~c.ok}
       \cup {Request(StartTimer(c, s), s, ok) : c \in {d \in Closed : d.ok}, ok \in send_ws}

-----------------------------------------------------------------------------
(* Inputs. *)

Subscribe(s) ==
    /\ \E x \in subscribe(Session, s) :
           Become(IF x.ok THEN [x EXCEPT !.subscriptions = Insert(@, s)] ELSE x)
    /\ UNCHANGED <<groupVars, switchVars>>

\* A group of the same name gets the list added to what it still has.
EoseActionsExtend(a, list) ==
    \/ list = <<>> /\ UNCHANGED <<sessionVars, groupVars, switchVars>>
    \/ /\ list # <<>>
       /\ \E x \in subscribe(Session, Head(list)) :
              \/ /\ x.ok
                 /\ eose_actions' = [eose_actions EXCEPT ![a] = @ \cup Range(list)]
                 /\ stalled' = stalled \ {a}
                 /\ starts' = [starts EXCEPT ![a] = @ + 1]
                 /\ Become(x)
              \/ ~x.ok /\ Become(x) /\ UNCHANGED groupVars
       /\ UNCHANGED switchVars

\* The first of the list is opened, and then the group replaces one of the same
\* name, whose open request is left as it is.
EoseActions(a, list) ==
    \/ list = <<>> /\ UNCHANGED <<sessionVars, groupVars, switchVars>>
    \/ /\ list # <<>>
       /\ \E x \in subscribe(Session, Head(list)) :
              \/ /\ x.ok
                 /\ eose_actions' = [eose_actions EXCEPT ![a] = Range(list)]
                 /\ stalled' = stalled \ {a}
                 /\ starts' = [starts EXCEPT ![a] = @ + 1]
                 /\ Become([x EXCEPT !.unclosed =
                        @ \cup ((x.open \cap eose_actions[a]) \ {Head(list)})])
              \/ ~x.ok /\ Become(x) /\ UNCHANGED groupVars
       /\ UNCHANGED switchVars

ToggleRead(on) == read' = on /\ UNCHANGED <<sessionVars, groupVars, write>>

ToggleWrite(on) == write' = on /\ UNCHANGED <<sessionVars, groupVars, read>>

handle_other_inputs_connected(i) ==
    \/ i.kind = "Subscribe" /\ Subscribe(i.subscription)
    \/ i.kind = "EoseActions" /\ EoseActions(i.action_id, i.subscriptions)
    \/ i.kind = "ToggleRead" /\ ToggleRead(i.read)
    \/ i.kind = "ToggleWrite" /\ ToggleWrite(i.write)
    \/ i.kind \in {"SendEvent", "Auth", "FetchInformation"}
          /\ UNCHANGED <<sessionVars, groupVars, switchVars>>

\* In the other states the switches act at once and requests and events are kept.
handle_input_disconnected_other(i) ==
    \/ /\ i.kind = "ToggleRead" /\ ToggleRead(i.read)
       /\ UNCHANGED input_queue
    \/ /\ i.kind = "ToggleWrite" /\ ToggleWrite(i.write)
       /\ UNCHANGED input_queue
    \/ /\ i.kind = "FetchInformation"
       /\ UNCHANGED <<sessionVars, groupVars, switchVars, input_queue>>
    \/ /\ i.kind \in {"Subscribe", "EoseActions", "SendEvent", "Auth"}
       /\ Len(input_queue) + 1 \in QueueLengths
       /\ input_queue' = Append(input_queue, i)
       /\ UNCHANGED <<sessionVars, groupVars, switchVars>>

\* The task is at the select! of handle_connected: its queue is empty.
Selecting == online /\ input_queue = <<>>

TimerBound == \A s \in Subscription : timers[s] < MaxTimers

StartBound(i) == i.kind = "EoseActions" => FoldFunction(+, 0, starts) < MaxStarts

ReceiveInput ==
    /\ TimerBound
    /\ \E i \in {j \in Inputs : StartBound(j)} :
           \/ Selecting /\ handle_other_inputs_connected(i) /\ UNCHANGED input_queue
           \/ ~online /\ handle_input_disconnected_other(i)
    /\ UNCHANGED socketVars

\* The first thing handle_connected does, one input after the other.
HandleQueued ==
    /\ online /\ input_queue # <<>>
    /\ handle_other_inputs_connected(Head(input_queue))
    /\ input_queue' = Tail(input_queue)
    /\ UNCHANGED socketVars

-----------------------------------------------------------------------------
(* EOSE and timeouts. *)

\* The group is left to a later EOSE.
NoNextAction(x, rest) == {x}

\* The group goes on with the first of what is left, unless the CLOSE failed.
NextAction(x, rest) == IF x.ok /\ rest # {} THEN subscribe(x, FirstOf(rest)) ELSE {x}

\* The action is done at the relay as well: nothing is closed.
ActionEoseWithoutClose(a, id) ==
    LET rest == Remove(eose_actions[a], id) IN
    /\ Entry(eose_actions[a], id) # {}
    /\ \E x \in NextAction(Session, rest) :
           /\ Become(x)
           /\ stalled' = IF x.ok THEN stalled ELSE stalled \cup {a}
    /\ eose_actions' = [eose_actions EXCEPT ![a] = rest]
    /\ UNCHANGED starts

\* find_action_subscription found the id in group a, and took it out.
ActionEose(a, id) ==
    LET rest == Remove(eose_actions[a], id) IN
    /\ Entry(eose_actions[a], id) # {}
    /\ \E c \in close_subscription(Session, id) : \E x \in NextAction(c, rest) :
           /\ Become(x)
           /\ stalled' = IF x.ok THEN stalled ELSE stalled \cup {a}
    /\ eose_actions' = [eose_actions EXCEPT ![a] = rest]
    /\ UNCHANGED starts

\* No group has the id: it may be an EOSE subscription of the map.
SubscriptionEose(id) ==
    /\ \A a \in ActionId : Entry(eose_actions[a], id) = {}
    /\ \/ /\ \E s \in Entry(subscriptions, id) : s.sub_type = "EOSE"
          /\ \E x \in close_subscription(Session, id) : Become(x)
       \/ /\ \A s \in Entry(subscriptions, id) : s.sub_type # "EOSE"
          /\ UNCHANGED sessionVars
    /\ UNCHANGED groupVars

\* Only the map is looked up.
CheckEoseOfMap ==
    /\ Selecting /\ read /\ answers # <<>>
    /\ answers' = Tail(answers)
    /\ \E x \in close_subscription(Session, Head(answers).id) :
           Become(IF Entry(subscriptions, Head(answers).id) = {} THEN Session ELSE x)
    /\ UNCHANGED <<online, peer, switchVars, groupVars, input_queue>>

check_eose ==
    /\ Selecting /\ read /\ answers # <<>>
    /\ answers' = Tail(answers)
    /\ SubscriptionEose(Head(answers).id) \/ \E a \in ActionId : ActionEose(a, Head(answers).id)
    /\ UNCHANGED <<online, peer, switchVars, input_queue>>

\* With read off there is no timeout either.
TimeoutWhenReading(s) ==
    LET x == [Session EXCEPT !.timers[s] = @ - 1] IN
    /\ Selecting /\ read /\ timers[s] > 0
    /\ \/ Entry(subscriptions, s.id) # {} /\ \E c \in close_subscription(x, s.id) : Become(c)
       \/ Entry(subscriptions, s.id) = {} /\ Become(x)
    /\ UNCHANGED <<socketVars, switchVars, groupVars, input_queue>>

\* A timer started for s is received: what counts is whether the map has its id.
Timeout(s) ==
    LET x == [Session EXCEPT !.timers[s] = @ - 1] IN
    /\ Selecting /\ timers[s] > 0
    /\ \/ Entry(subscriptions, s.id) # {} /\ \E c \in close_subscription(x, s.id) : Become(c)
       \/ Entry(subscriptions, s.id) = {} /\ Become(x)
    /\ UNCHANGED <<socketVars, switchVars, groupVars, input_queue>>

-----------------------------------------------------------------------------
(* The connection. *)

Connect ==
    /\ ~online
    /\ online' = TRUE /\ peer' = TRUE
    /\ UNCHANGED <<answers, switchVars, sessionVars, groupVars, input_queue>>

\* The socket outlives the Connected state.
DisconnectKeepsSocket ==
    /\ online' = FALSE
    /\ stalled' = stalled \cup {a \in ActionId : eose_actions[a] # {}}
    /\ UNCHANGED <<peer, answers, switchVars, sessionVars, eose_actions, starts, input_queue>>

\* The socket is dropped; nothing else is forgotten.
Disconnect ==
    /\ online' = FALSE /\ peer' = FALSE
    /\ open' = {} /\ unanswered' = {} /\ unclosed' = {} /\ answers' = <<>>
    /\ stalled' = stalled \cup {a \in ActionId : eose_actions[a] # {}}
    /\ starts' = [a \in ActionId |-> 0]
    /\ UNCHANGED <<switchVars, subscriptions, timers, eose_actions, input_queue>>

\* A close frame or a read error, which only a task that reads will notice.
ConnectionLost == Selecting /\ read /\ ~peer /\ Disconnect

CloseReceived == Selecting /\ Disconnect

-----------------------------------------------------------------------------
(* The relay at the other end. *)

PeerGone ==
    /\ peer
    /\ peer' = FALSE /\ open' = {} /\ unanswered' = {} /\ unclosed' = {}
    /\ UNCHANGED <<online, answers, switchVars, subscriptions, timers, groupVars, input_queue>>

\* The stored events of r have been sent.
AnswerEose(r) ==
    /\ r \in unanswered
    /\ Len(answers) < MaxAnswers
    /\ unanswered' = unanswered \ {r}
    /\ answers' = Append(answers, r)
    /\ UNCHANGED <<online, peer, switchVars, subscriptions, timers, open, unclosed, groupVars,
                   input_queue>>

-----------------------------------------------------------------------------

Next ==
    \/ ReceiveInput \/ HandleQueued
    \/ check_eose
    \/ \E s \in Subscription : Timeout(s)
    \/ Connect \/ ConnectionLost \/ CloseReceived
    \/ PeerGone
    \/ \E r \in Subscription : AnswerEose(r)

Spec == Init /\ [][Next]_vars

(***************************************************************************)
(* What the task does while it is connected is fair: select! starts at a   *)
(* random branch.  A relay is taken to send its EOSE sooner or later;      *)
(* strongly, only because MaxAnswers may make it wait.                     *)
(***************************************************************************)
Fairness ==
    /\ WF_vars(HandleQueued)
    /\ SF_vars(check_eose)
    /\ \A s \in Subscription : SF_vars(Timeout(s)) /\ SF_vars(AnswerEose(s))

FairSpec == Spec /\ Fairness

-----------------------------------------------------------------------------
(* Safety. *)

TypeOK ==
    /\ {online, peer, read, write} \subseteq BOOLEAN
    /\ peer => online
    /\ ~peer => open = {} /\ unanswered = {}
    /\ Keyed(subscriptions) /\ Keyed(open)
    /\ eose_actions \in [ActionId -> SUBSET Subscription]
    /\ \A a \in ActionId : Keyed(eose_actions[a])
    /\ input_queue \in Seq(Inputs) /\ Len(input_queue) \in QueueLengths
    /\ timers \in [Subscription -> Nat]
    /\ unanswered \subseteq open /\ unclosed \subseteq open
    /\ answers \in Seq(Subscription)
    /\ stalled \subseteq ActionId
    /\ starts \in [ActionId -> Nat]

\* No request is left open at the relay that the task does not know of, whatever
\* was queued, resent, answered late or timed out, except those it tried to close
\* in vain and those of a group that was replaced while it ran.
RequestsAreKnown ==
    open \subseteq subscriptions \cup (UNION Range(eose_actions)) \cup unclosed

\* An EOSE subscription with a timeout cannot stay open for ever: a timer started
\* for it is still to come, unless its CLOSE has failed.
TimerIsPending ==
    \A s \in (open \cap subscriptions) \ unclosed :
        s.sub_type = "EOSE" /\ s.timeout => timers[s] > 0

\* What a client asks of the groups named a.
Listed(a) ==
    UNION {Range(i.subscriptions) : i \in {j \in Inputs : j.kind = "EoseActions" /\ j.action_id = a}}

\* The names of the groups whose ids are their own: the client subscribes to none of
\* them, and uses none in groups of another name.
OwnIds ==
    {a \in ActionId : \A r \in Listed(a) :
        /\ \A i \in Inputs : i.kind = "Subscribe" => i.subscription.id # r.id
        /\ \A b \in ActionId \ {a} : \A q \in Listed(b) : q.id # r.id}

\* Starting a group again while it runs leaves its open request as it is, and a late
\* EOSE of the earlier run, taken for one of the new run, opens another beside the head
\* of the list.  All this costs the relay one request per start: on a connection no more
\* requests of a group are open than it was started, whatever CLOSE failed meanwhile.
OneRequestPerStart ==
    \A a \in OwnIds : Cardinality(open \cap Listed(a)) <= starts[a]

\* A group waits for an EOSE that will come, unless its connection was lost or one
\* of its writes failed: then it waits for ever.  Here too its ids are its own: a
\* Subscribe of one of them, and a timeout or EOSE of that, would take it away.
ActionsProgress ==
    \A a \in OwnIds \ stalled : online /\ peer /\ eose_actions[a] # {} =>
        \E s \in eose_actions[a] : s \in open /\ (s \in unanswered \/ s \in Range(answers))

-----------------------------------------------------------------------------
(* Action properties. *)

\* On one connection the map says what is open: what enters it was opened, and a
\* request that was open is not closed behind its back.
MapFollowsRequests ==
    [][peer /\ peer' => \A s \in Subscription :
           s \in subscriptions' /\ (s \notin subscriptions \/ s \in open) => s \in open']_vars

\* A request is ended early by nothing but its own timeout or its own EOSE.
EndsItsOwn ==
    [][/\ \A s \in Subscription : Timeout(s) => open \ open' \subseteq {s}
       /\ check_eose => open \ open' \subseteq {Head(answers)}]_vars

\* A timeout ends the request it was started for, when the task can write.
TimeoutEndsRequest ==
    [][\A s \in Subscription : Timeout(s) /\ write => s \notin open']_vars

-----------------------------------------------------------------------------
(* Liveness, under FairSpec. *)

\* Every request of a group is closed, unless the group is stalled or the task does
\* not read.
ActionRequestsEnd ==
    \A a \in ActionId, s \in Subscription :
        s \in open \cap eose_actions[a] ~> (s \notin open \/ s \in unclosed \/ a \in stalled \/ ~read)

\* Every EOSE subscription with a timeout is closed, even when the relay never
\* answers or the task does not read, unless its CLOSE fails.
TimedRequestsEnd ==
    \A s \in Subscription :
        s \in open \cap subscriptions /\ s.sub_type = "EOSE" /\ s.timeout
            ~> (s \notin open \/ s \in unclosed)
=============================================================================
