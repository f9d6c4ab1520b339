---------------------------- MODULE StateMachine ----------------------------
(***************************************************************************)
(* The client of examples/state_machine and one of its relays.  The client *)
(* is subscribed to the creations of channels; when they have all come, or *)
(* the subscription has timed out, it asks for the messages of every       *)
(* channel it knows, as one group of EOSE actions, and it stops when       *)
(* enough groups are done.  The relay's task is RelayTraffic's, its inputs *)
(* come from the client and from the pool's resends.                       *)
(*                                                                         *)
(* The client never writes a switch, and all groups have the same name but *)
(* requests of their own, for Subscription::new makes a new id.  Of the    *)
(* notifications those that the client only logs are left out, and so is   *)
(* the file it writes.                                                     *)
(***************************************************************************)
EXTENDS RelayTraffic

CONSTANTS
    MaxChannels,  \* bound: the channels the relay has
    MaxGroups,    \* bound: the groups the client may start
    Enough,       \* the groups that must be done: 3
    NoticeCap     \* EVENT_SENDER_CHANNEL_SIZE

Channels == 1 .. MaxChannels
Eose(i, timed) == [id |-> i, filters |-> "f", sub_type |-> "EOSE", timeout |-> timed]

\* The requests of the groups have timeouts too, which the task ignores (Timeout,
\* for an id that the map has not): they are left out.
channel_sub == Eose(0, TRUE)
RequestFor(n, c) == Eose((n - 1) * MaxChannels + c, FALSE)

actions_id == "SomeActionID123"

ASSUME StateMachineAssumption ==
    /\ Subscription = {channel_sub} \cup {RequestFor(n, c) : n \in 1 .. MaxGroups, c \in Channels}
    /\ ActionId = {actions_id}
    /\ Inputs = {}
    /\ MaxChannels \in Nat /\ MaxGroups \in Nat
    /\ NoticeCap \in Nat \ {0} /\ Enough \in Nat \ {0}

VARIABLES
    toRelay,      \* the inputs on their way through the pool to the task
    resends,      \* spawned tasks that are to send channel_sub
    notices,      \* the notifications the client has not received
    lagged,       \* it has missed some of them
    running,      \* the client's loop
    acc,          \* the groups done that it has counted
    channel_ids,  \* the channels it knows
    groups,       \* history: the groups it has started
    done          \* history: the groups the task has announced as done

clientVars == <<running, acc, channel_ids, groups>>
noticeVars == <<notices, lagged, done>>
linkVars == <<toRelay, resends>>
allVars == <<vars, clientVars, noticeVars, linkVars>>

MachineInit ==
    /\ Init
    /\ toRelay = <<>> /\ resends = 0
    /\ notices = <<>> /\ lagged = FALSE /\ done = 0
    /\ running = TRUE /\ acc = 0 /\ channel_ids = {} /\ groups = 0

-----------------------------------------------------------------------------
(* Notifications. *)

ActionsDone == [event |-> "ActionsDone"]
Event(c) == [event |-> "Event", channel |-> c]
EndOfStoredEvents(i) == [event |-> "EndOfStoredEvents", id |-> i]
TimedOut(i) == [event |-> "Timeout", id |-> i]

NotifyAll(list) == notices' = notices \o list /\ UNCHANGED lagged

\* A broadcast: the send never waits, the oldest notices are lost.
Notify(list) ==
    LET all == notices \o list
        lost == IF Len(all) > NoticeCap THEN Len(all) - NoticeCap ELSE 0
    IN /\ notices' = SubSeq(all, lost + 1, Len(all))
       /\ lagged' = (lagged \/ lost > 0)

-----------------------------------------------------------------------------
(* The relay's task. *)

TaskInput ==
    /\ toRelay # <<>>
    /\ \/ /\ Selecting
          /\ handle_other_inputs_connected(Head(toRelay))
          /\ UNCHANGED input_queue
       \/ ~online /\ handle_input_disconnected_other(Head(toRelay))
    /\ toRelay' = Tail(toRelay)
    /\ UNCHANGED <<socketVars, resends, clientVars, noticeVars>>

TaskQueued == HandleQueued /\ UNCHANGED <<linkVars, clientVars, noticeVars>>

EachAnswerIsDone == eose_actions' # eose_actions

\* The group's last request was answered and closed.
GroupDone ==
    /\ eose_actions[actions_id] # {} /\ eose_actions'[actions_id] = {}
    /\ stalled' = stalled

TaskEose ==
    /\ check_eose
    /\ LET eose == EndOfStoredEvents(Head(answers).id) IN
       \/ GroupDone /\ Notify(<<ActionsDone, eose>>) /\ done' = done + 1
       \/ ~GroupDone /\ Notify(<<eose>>) /\ UNCHANGED done
    /\ UNCHANGED <<linkVars, clientVars>>

TaskTimeout(s) ==
    /\ Timeout(s)
    /\ Notify(IF Entry(subscriptions, s.id) # {} THEN <<TimedOut(s.id)>> ELSE <<>>)
    /\ UNCHANGED <<linkVars, clientVars, done>>

\* The creation of a channel the client has not been told of.
TaskEvent(c) ==
    /\ Selecting /\ channel_sub \in unanswered
    /\ c \notin channel_ids /\ Event(c) \notin Range(notices)
    /\ Notify(<<Event(c)>>)
    /\ UNCHANGED <<vars, linkVars, clientVars, done>>

TaskLost == ConnectionLost /\ UNCHANGED <<linkVars, clientVars, noticeVars>>

Environment ==
    /\ PeerGone \/ \E r \in Subscription : AnswerEose(r)
    /\ UNCHANGED <<linkVars, clientVars, noticeVars>>

channel_input == [kind |-> "Subscribe", subscription |-> channel_sub]

\* Bound: a connection opens only while the Subscribes on their way and the timers
\* of earlier ones are fewer than MaxTimers.
SubscribesBound ==
    resends + timers[channel_sub] + Len(SelectSeq(toRelay \o input_queue, LAMBDA i : i = channel_input))
        < MaxTimers

\* The pool spawns a resend for every connection.
TaskConnect ==
    /\ Connect
    /\ SubscribesBound
    /\ resends' = resends + 1
    /\ UNCHANGED <<toRelay, clientVars, noticeVars>>

ResendChannel ==
    /\ resends > 0
    /\ resends' = resends - 1
    /\ toRelay' = Append(toRelay, channel_input)
    /\ UNCHANGED <<vars, clientVars, noticeVars>>

-----------------------------------------------------------------------------
(* The client's loop. *)

\* One request for each channel, in whatever order the HashSet has.
send_actions ==
    \E list \in {l \in [1 .. Cardinality(channel_ids) -> channel_ids] : IsInjective(l)} :
        /\ groups < MaxGroups
        /\ groups' = groups + 1
        /\ toRelay' = Append(toRelay,
               [kind |-> "EoseActions", action_id |-> actions_id,
                subscriptions |-> [i \in DOMAIN list |-> RequestFor(groups', list[i])]])

ReceiveNotice ==
    LET n == Head(notices) IN
    /\ running /\ ~lagged /\ notices # <<>>
    /\ notices' = Tail(notices)
    /\ \/ /\ n = ActionsDone
          /\ acc' = acc + 1 /\ running' = (acc' # Enough)
          /\ UNCHANGED <<channel_ids, groups, toRelay>>
       \/ /\ n.event = "Event"
          /\ channel_ids' = channel_ids \cup {n.channel}
          /\ UNCHANGED <<running, acc, groups, toRelay>>
       \/ /\ n.event \in {"Timeout", "EndOfStoredEvents"} /\ n.id = channel_sub.id
          /\ send_actions
          /\ UNCHANGED <<running, acc, channel_ids>>
       \/ /\ n.event \in {"Timeout", "EndOfStoredEvents"} /\ n.id # channel_sub.id
          /\ UNCHANGED <<clientVars, toRelay>>
    /\ UNCHANGED <<vars, resends, lagged, done>>

\* recv yields Lagged, and the loop ends.
Lagged ==
    /\ running /\ lagged
    /\ running' = FALSE
    /\ UNCHANGED <<vars, acc, channel_ids, groups, noticeVars, linkVars>>

-----------------------------------------------------------------------------

MachineNext ==
    \/ TaskInput \/ TaskQueued \/ TaskEose
    \/ \E s \in Subscription : TaskTimeout(s)
    \/ \E c \in Channels : TaskEvent(c)
    \/ TaskConnect \/ TaskLost \/ ResendChannel
    \/ Environment
    \/ ReceiveNotice \/ Lagged

MachineSpec == MachineInit /\ [][MachineNext]_allVars

-----------------------------------------------------------------------------
(* Properties. *)

MachineTypeOK ==
    /\ Keyed(subscriptions) /\ Keyed(open)
    /\ channel_ids \subseteq Channels
    /\ groups \in 0 .. MaxGroups /\ acc \in 0 .. Enough
    /\ Len(notices) <= NoticeCap

\* The client stops, if at all, after that many groups were really done: however
\* often a timeout, a late EOSE or a new connection made it start again, no group
\* is counted that was not started, and none twice.
CountsAreGroups ==
    /\ acc <= done /\ done <= groups
    /\ running \/ lagged \/ done >= Enough

\* Every group leaves at most one request open, the replaced ones included.
OpenRequestsBounded == Cardinality(open \ {channel_sub}) <= groups

\* In the client's hands, which names no two requests alike, a group keeps what
\* EoseGroup promises.
Asked == {r \in eose_actions[actions_id] : r \in unanswered \cup Range(answers)}

Group == INSTANCE EoseGroup WITH
    Requests <- Subscription, todo <- eose_actions[actions_id], asking <- Asked,
    broken <- actions_id \in stalled, done <- done

GroupKeepsPromise == Group!Spec
=============================================================================
