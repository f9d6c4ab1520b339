# A verification project for ns-client

`lib/` of this repository is a Nostr client library: a pool of relays, one tokio
task per relay and one for the pool, that talk through bounded channels. The
modules here model those tasks from their source, TLC checks them on small
instances, and TLAPS proves the main safety properties for every instance. Paths
below are relative to the repository (`src/` in `PROJECT.json`).

## 1. The system

| Component | Source | State | Operations |
|---|---|---|---|
| Client handle `RelayPool` | `lib/src/pool.rs` 277-427 | the sending end of the command channel | one method per command: parse the url, put a `PoolInput` on an unbounded channel |
| Pool task `RelayPoolTask` | `lib/src/pool.rs` 33-274, 464-479 | `relays` (url to listener with `relay_tx` and `status`), `subscriptions` (id to subscription) | `run`: a `select!` between relay events and commands; `handle_relay_to_pool`, `handle_input`, `send_to_listener`, `send_to_all`, `process_add_relay` |
| Relay task: connection | `lib/src/relay.rs` 190-200, 385-560, 773-794, 859; `stats.rs` | `RelayState` with its `delay`, `information.status`, `conn_stats.attempts` | `run` and its four handlers; `try_connect`, `reconnect` |
| Relay task: traffic | `lib/src/relay.rs` 202-383, 562-760 | `read`, `write`, `subscriptions`, `eose_actions`, `input_queue`, timeout channel | `subscribe`, `close_subscription`, `check_eose`, the input handlers, the timeout branch |
| Connection and document tasks | `lib/src/utils.rs` | a oneshot sender | `connect_async` or the NIP-11 request, then one send |
| Information | `lib/src/relay.rs` 75-133, `stats.rs` | status, statistics, the last 100 errors, the document and `document_request` | `check_ok_msg`, `push_error`, the document's request and answer, `reset_conn_stats` |
| Notifications | `lib/src/relay.rs`, `pool.rs` | a broadcast channel of 10000 events | sends that never block and whose errors are ignored |
| Examples | `examples/*` | | clients of the library; `original` uses `nostr_sdk` instead |
| `lib/src/other.rs` | | | a prototype `lib.rs` does not declare: never compiled |

How they interact:

* client to pool: unbounded channel of `PoolInput`. A method returns as soon as
  its command is queued, except `relay_status_list`, which awaits a oneshot reply;
* pool to relay: one channel of 100 inputs per relay. **The pool's loop awaits
  each send**, relay after relay for a command that goes to all of them, and
  serves nothing else meanwhile. A connection also makes the pool spawn one task
  per stored subscription, each with a clone of `relay_tx`, that sends it;
* relay to pool: one channel of 100 events shared by all relays, only drained by
  the pool's loop. **A handler awaits the send before it changes its state**;
* relay to client: the broadcast channel, which nobody waits for;
* life times: a relay task ends when its input channel is empty and has no sender
  left, or when a send to the pool fails because the pool's receiver is gone.

What is hard to test here: awaits on two bounded channels in opposite directions;
what other tasks do between two sends of one command; events applied late, or to
another task's listener for the same url; inputs that cut a back-off short; a
pool that stops while relays are blocked in a send; inputs queued around a Close;
a resend of an old value that overtakes the new one; timers and EOSEs that outlive
the request they were for; an answer that comes between two connections; a client
that misses notifications or starts a group while one runs.
`PROJECT.json` lists each of these hazards at its line, with the properties that
cover it or the reason none does yet.

What makes each component correct:

* connection: bounded retries and back-off between two successes; the status it
  reports is the state of its loop, up to named lags; it ends when it should;
* pool: the status it shows is the relay's, up to the events still in flight; a
  removed relay is closed; a send completes unless nothing can make it complete;
  when the loop is left everything ends;
* traffic: the task knows of every request it has open at the relay; a timeout or an
  EOSE closes the request it belongs to and no other; EOSE actions run one after the other and
  end with one `ActionsDone`; nothing is sent with `write` off; queued inputs are
  sent in their order after the connection opens;
* pool and traffic together: a connected relay ends up with the pool's subscriptions;
* information: the latest errors, one document, statistics that agree with the status;
* the example client: it counts each group that was done once.

## 2. The modules

    Relay <- RelayPool <- RelayPoolStatus  (implements StatusBoard)
                       <- PoolTraffic      (each task implements RelayTraffic)
                       <- RelayInformation
    RelayTraffic <- StateMachine           (implements EoseGroup)

### Relay

`Relay.tla` is the connection machine of every relay task: a function per field,
indexed by task. A handler that reports to the pool is two steps, because it
awaits room in the pool's channel in the middle: the branch that was taken leaves
the event in `outgoing[t]`, and `SendToPool(t)` appends it and then does what the
code does after the await: the new `RelayState` (`StateAfter`), `information.status`
(`StatusAfter`), the delay and the attempt counter. While `outgoing[t]` is set the
task receives nothing, as in the code. The branches are one action each, named for
their handler: `TerminatedReconnect`, `DisconnectedClose`, `ConnectingOther` and so
on; `SleepElapsed`, `ConnectionResult` and `SocketLost` are time and the network.

| Code | Model |
|---|---|
| `RelayState` and its `delay` | `state`, `delay` |
| `information.status`, `conn_stats.attempts` | `status`, `attempts` |
| `Relay.input` | `inputs` |
| a pending `pool_tx.send(..).await` | `outgoing` |
| `to_pool_tx` / `to_pool_rx` | `toPool` |
| `Relay::run` returned | `state[t] = "Ended"` |

All inputs other than `Close` and `Reconnect` leave the connection machine in the
same place, so they are the constant `Payload`, told apart by a kind. They still
matter here: they fill channels, and in Disconnected any of them ends the
`select!` and so the back-off sleep (`DisconnectedOther`).

### RelayPool

`RelayPool.tla` extends `Relay` with the pool task, and composes both into `Next`.
`job` is the `send().await` the pool is in: the input, the relay being awaited,
those still to come and what the code does afterwards (`continue`, `remove` the
listener, `break` the loop). Commands and events are handled only when there is no
such send (`PoolSelecting`); `PoolSend` ends one send and begins the next. Relays,
spawned resends and the network move between any two of these steps. The command
channel is unbounded and its sender never waits, so that the client is
nondeterminism: any command may be received at any `select!`.

`AddRelay` of a url already in the map spawns a second task and drops the first
one's sender, as `HashMap::insert` does. `Abandon` is the loop being left without
a Close: every handle was dropped, or the client dropped the reply channel of a
status request. A subscription resent by a spawned task is in flight in `resend`
until its send completes, and until then its task keeps the channel open.

### RelayTraffic

`RelayTraffic.tla` is what one relay task says to its relay and hears from it. It
stands alone: of the connection machine it keeps `online`, which says that
`RelayState` is Connected, and lets it change at any time. `peer` says whether the
relay is still at the other end, which the task does not know: a write to a relay
that is gone may succeed or fail, and only a task that reads will notice.

| Code | Model |
|---|---|
| `read`, `write`, `input_queue` | the variables of these names |
| `subscriptions`, `eose_actions` | maps keyed by an id, as sets of values |
| spawned timers and `timeout_rx` | `timers`: how many are pending for each value |
| requests open at the relay, EOSEs not yet sent, EOSEs on their way | `open`, `unanswered`, `answers` |
| `handle_input_connected` and the queue it empties first | `ReceiveInput`, `HandleQueued`, one action of the name of each input |
| `check_eose`, the timeout branch | `check_eose` (`ActionEose`, `SubscriptionEose`), `Timeout` |
| a Connected state entered and left | `Connect`, `ConnectionLost`, `CloseReceived` |
| the relay | `PeerGone`, `AnswerEose` |

`InputOK` says what an input carries. The list of a group may repeat a request, but has
one value of each id: of two, the code would open the first and keep the last, for it
collects the list into a `BTreeMap` keyed by the id. Clients that list two are left out.

A handler makes up to three writes (close the old request, open the new one) and
leaves at the first that fails, with what it has done until then done. `subscribe`
and `close_subscription` therefore map a session (the part of the state they
change) to the set of sessions they may leave, and an action installs one of them.
The order inside is the code's: the map's entry goes only after a CLOSE that
succeeded, the timer starts before the request is written, the action leaves its
group before its CLOSE is.

Three history variables serve the properties: `unclosed`, open requests whose CLOSE
failed or whose group was replaced, `stalled`, groups that lost their connection or
failed a write, and `starts`, how often each group was started on the connection. Filters and events carry no content;
a request is told from a later one of the same id by the value it was made with.

### StatusBoard and RelayPoolStatus

`StatusBoard.tla` is what the reply to a status request promises, without tasks or
channels: a list that follows the states of its relays, late, in order, leaving none
out, where a relay changes only as a relay's loop may (`Changes`).
`RelayPoolStatus.tla` maps `RelayPool` to it: what is shown is the listener's
status, what is behind are the url's events in the channel. `Behind` picks these by
their positions, the n-th being the position that n of them do not exceed: a definition
by cardinality, about which the prover can reason where it cannot about a recursive
filter. The refinement, `StatusesInOrder`, is proved (`StatusesFollow`). It holds if each
url is served by one task; after an `AddRelay` of a url that is in the map two tasks
write the same line.

### PoolTraffic

`PoolTraffic.tla` composes the pool with the subscriptions of its relays: it extends
`RelayPool` with each task's map (`held`), its input queue and the requests open at
its relay. Every action is one of `RelayPool`'s conjoined with its effect on these,
or `HandleQueued`, which `RelayPool` cannot see. A subscription is a value with an id,
so that an old value resent and a new one sent are told apart; `behind` is a history
of the tasks that were last sent something older than the pool's own value. Of the
traffic only endless subscriptions and successful writes are kept.

| Refinement | Mapping | Shown by |
|---|---|---|
| to `RelayPool` | the identity | by construction; the lemma `TrafficImplementsPool` says so for the proofs |
| to `RelayTraffic`, for each task | `online` and `peer` are `state[t] = "Connected"`, the switches are on, no timer, no group, any length of the queue | `EachTaskIsTraffic`, proved |

The second says that the two halves of a relay's task, modelled apart, fit: what the
connection machine and the pool make a task do is something `RelayTraffic` lets it do.

### RelayInformation

`RelayInformation.tla` extends `RelayPool` with what a task keeps for the client: the
error list, the request for the information document with the task that fetches it,
and the count of successes. All of it outlives a connection. `push_error` compares
the length of the list as a `u8`, so the model takes it modulo `U8`. `Informing` has
the branches of `handle_connected` that concern it, `Answered` is the web server.
A fetch whose sender was dropped (`Lost`) leaves the request as it is, as the code
does, which then polls a finished receiver in every `select!`.

### EoseGroup and StateMachine

`EoseGroup.tla` is the abstract specification of a group of EOSE actions: requests
asked one at a time, none leaves the group without an answer, `ActionsDone` when the
last one has its answer, or asking stops for good. The last answer goes without
`ActionsDone` only if the connection was lost or a write of the group failed since its
start (`broken`).

`StateMachine.tla` composes `RelayTraffic` with the client of `examples/state_machine`
and the broadcast channel between them. The relay's task is `RelayTraffic`'s with its
inputs from `toRelay`, the pool's way to it; a connection spawns a resend of the
client's subscription. `Notify` is the broadcast: it never waits and drops the oldest,
after which the client's loop ends (`Lagged`). `GroupKeepsPromise` is the refinement
to `EoseGroup`: `todo` is the group in `eose_actions`, `asking` those of it whose
answer is still to come, `broken` says that it is `stalled`. It is proved for any channels
and groups (`GroupImplements`). It needs a client that gives every request an id of its
own, which this one does; `RelayTraffic` alone, given inputs that share ids, does not
implement it.

### Proofs and instances

`MCRelayPool.tla`, `MCRelayTraffic.tla`, `MCPoolTraffic.tla`, `MCRelayInformation.tla` and
`MCStateMachine.tla` give the constants of the runs. The proofs (section 4) are in modules of their own:

| Module | Proves |
|---|---|
| `RelayPool_proofs` | the type invariant of the pool and its relays |
| `RelayPoolSafety_proofs` | their safety properties |
| `RelayPoolStatus_proofs` | the refinement to `StatusBoard` |
| `PoolTraffic_proofs`, `PoolTrafficFollow_proofs`, `RelayInformation_proofs` | what these modules add to `RelayPool`, and of each task of `PoolTraffic` the refinement to `RelayTraffic` |
| `RelayTraffic_proofs` | the safety and action properties of the traffic |
| `StateMachine_proofs` | those of the example client, and the refinement to `EoseGroup` |

A definition with a name the source does not have, placed just before one that has
it and with the same parameters (`TryOnceTooOften` before `try_connect`), is that
definition with a plausible mistake. No action uses it. It shows which property
would tell:

| Mistake | Property that tells |
|---|---|
| the last attempt is allowed once more (`TryOnceTooOften`) | `TypeOK` |
| `disconnected()` is forgotten (`StatusWithoutDisconnected`) | `InformationStatus`, `StatsAgree` |
| the delay is multiplied by 4 (`RetryDoubledTwice`) | `RetriesBounded` |
| the pool calls a lost socket Terminated as the relay does (`StatusLikeTheRelays`) | `StatusAgrees`, `StatusesInOrder` |
| the listener is removed without a Close (`RemoveWithoutClose`) | `RemovedIsClosed` |
| inputs are sent without waiting for room (`CanAlwaysSend`) | `WaitCycleIsForever` |
| Terminated receives only Close (`TerminatedOnlyClose`) | `PoolSendCompletes` |
| Terminated does not notice the end of its channel (`InputClosedWhenOpen`) | `OrphansEnd` |
| a failed send to the pool does not end the task (`EndOnlyWithoutSender`) | `StopEndsAll` |
| the socket outlives the Connected state (`DisconnectKeepsSocket`) | `TypeOK` of `RelayTraffic` |
| an action ends without a CLOSE (`ActionEoseWithoutClose`) | `RequestsAreKnown`, `OneRequestPerStart`, `OpenRequestsBounded` |
| a resubscription starts no timer (`SubscribeKeepsTimer`) | `TimerIsPending` |
| a group started again is added to what is left of it (`EoseActionsExtend`) | `GroupKeepsPromise` |
| an EOSE does not open the next of the group (`NoNextAction`) | `ActionsProgress` |
| a CLOSE keeps the map's entry (`CloseKeepsEntry`) | `MapFollowsRequests` |
| an EOSE is looked up in the map only (`CheckEoseOfMap`) | `ActionRequestsEnd` |
| timeouts are served only when reading (`TimeoutWhenReading`) | `TimedRequestsEnd` |
| the map keeps the old value beside the new (`InsertBeside`) | `TrafficTypeOK` |
| an id the map has is not subscribed again (`SubscribeOnce`) | `RelayFollowsPool` |
| a lost socket keeps its requests (`ConnectionForgetsNothing`) | `EachTaskIsTraffic` |
| a queued input is handled and left in the queue (`HandleQueuedAndKeep`) | `SubscriptionArrives` |
| a full error list takes no new message (`PushAtLimit`) | `KeepsLatestErrors` |
| the error list is trimmed before the new message is pushed (`TrimBeforePush`) | `InformationTypeOK` |
| every connection requests the document (`RequestOnEachConnection`) | `OneFetchPerRelay` |
| the receiver belongs to the connection (`UnconcernedButForgetful`) | `DocumentIsKept` |
| the broadcast has no capacity (`NotifyAll`) | `MachineTypeOK` |
| every EOSE of a group announces `ActionsDone` (`EachAnswerIsDone`) | `CountsAreGroups` |

## 3. The runs

| Run | Question | Instance |
|---|---|---|
| `one_relay` | all safety properties | one task, one subscription, one other payload, channels of 2, the source's 7 attempts, every command |
| `two_relays` | is one relay disturbed by another; is the status list a `StatusBoard` | two tasks of two urls, one subscription, inputs of 1, a pool channel of 2, one attempt; `AddRelay`, `RemoveRelay`, `ReconnectRelay`, `AddSubscription`, `Shutdown` |
| `pool_live` | liveness of the pool and of replaced, orphaned and abandoned tasks | two tasks of one url, channels of 1, one attempt; `AddRelay`, `ForwardToAll`, `Shutdown`, `Abandon` |
| `resubscription` | what becomes of a subscription whose filters change | one task and a second url without one, two values of an id, two resends, input channel and queue of 2 |
| `information` | errors, document and statistics over several connections | one task, three attempts, a limit of 3 compared modulo 5, six refusals, three successes |
| `state_machine` | does the example client count right | two channels, two groups, two timers, three notices |
| `traffic` | do groups of EOSE actions go on, at what cost; does the task know what is open, and time it out | a group of three requests without timeouts and with ids of its own, two groups of other names and two subscriptions that share an id, write on and off, queue of 1, two timers of a value, two answers in flight, two starts on a connection |
| `traffic_live` | does every request end | a timed subscription, groups without timeouts, switches, queue of 2; one answer in flight |
| `ended_early`, `action_timeout` | is a request ended by its own EOSE or timeout | violations, below |
| `attempts_forgotten` | do the statistics count what they say they count | a violation, below; the instance of `information` |
| `reconnect_after_giving_up` | does `Reconnect` of a terminated relay try again | a violation, below |

What they show:

* `StatusAgrees`: for a url that one task serves, the last event in the channel that
  concerns it, or the listener when there is none, says the state of the relay's
  loop. The relay may go on, block, fail and retry while its events wait.
* `StatusesInOrder`: the list never skips a state, shows two in the wrong order or a
  change no relay's loop makes, however two relays' events interleave in the channel.
  With room for two, an event of one relay waits before or behind one of the other, and two
  of one relay wait while the other is blocked in its send.
* `RemovedIsClosed`: a task that is no longer in the map of a pool that was not
  abandoned is terminated or has a Close before it. It is about
  `RemoveRelay`, which drops the sender right after the Close, and about
  `Shutdown`, whose loop awaits relay after relay while those already told go on.
* `InformationStatus`: `information.status` is the loop's state except after a lost
  socket (`terminated()` is called although the relay retries) and after the last
  attempt (nothing is called). These two lags are the code's behaviour, stated.
* `RetriesBounded`: whatever cuts the sleeps short, the delay is at most 1000 ms
  doubled once per attempt made. With seven attempts it is at most 64 s: the `u64`
  multiplication never overflows.
* `WaitCycleIsForever`: the pool awaiting room in a relay's channel while that relay
  awaits room in the pool's, both full, is never left: no spawned task, relay or
  command can break it. The runs reach it, since with small channels it takes few steps;
  with the code's 100 it takes a relay whose events and inputs outrun the loop.
* `PoolSendCompletes`: that circular wait is the *only* thing that stops a send.
* `OrphansEnd`: a task without a sender ends, in whichever state and with whatever
  is queued, unless the pool is stopped by the circular wait (its own send to
  the pool may then wait forever too).
* `StopEndsAll`: once the loop is left every task ends, with or without a Close.
* `reconnect_after_giving_up`: after `MaxAttempsExceeded` the counter stays at its
  limit. `Reconnect` in Terminated goes to Disconnected without resetting it (only
  `reconnect()`, called in Disconnected, does), and `try_connect` gives up again
  without an attempt. The comment at `lib/src/relay.rs:649` says "Only reconnects
  when terminated": there, after giving up, it does not reconnect at all. A second
  `Reconnect` helps only if it is received while the task is still Disconnected.
* `RequestsAreKnown`: what is open at the relay is in `subscriptions` or in a group,
  except what `unclosed` names, whatever was queued, replaced, refused or answered
  late. `MapFollowsRequests`: on one connection nothing enters the map
  that was not opened, and what is in it is not closed behind its back. Both hold
  even of a client that uses an id in two groups and a subscription.
* `TimerIsPending`: an open EOSE subscription with a timeout has a timer to come.
  An earlier timer of the same id may end it early (below), never leave it open.
* `OneRequestPerStart`: a group's requests are not always made one at a time. The code
  opens the head of the list and then puts the new list in the place of the old group,
  whose open request is left as it is; and it goes on with the first of the `BTreeMap`, so
  that an EOSE of the earlier run which is taken for one of the new run opens another
  request beside the head. What holds is that all this costs one request per start: on a
  connection no more requests of a group are open than it was started there, also
  counting those whose CLOSE failed. In the run the list of the group is not in the
  order of its ids.
* `ActionsProgress`: a group on a live connection waits for an EOSE that is still to come,
  or it is stalled. Stalled is for ever: nothing resumes a group after a lost connection
  or a failed write, and `ActionsDone` is never sent. This and the previous property are
  about the groups whose ids are their own (`OwnIds`), whatever ids others share: an id
  also subscribed to is closed by that subscription's timeout and the group waits in vain.
* `ActionRequestsEnd`, `TimedRequestsEnd`: a group's request ends if the relay sends
  EOSEs and the task reads; a timed subscription ends without either.
* `ended_early`: a timer carries the id only. A subscription made again while the
  timer of its predecessor runs is closed when that fires. In the same way the EOSE of the
  replaced request, on its way when the new one is made, ends the new one before its own
  stored events have come. TLC shows the shorter of the two.
* `action_timeout`: `subscribe` starts a timer for a subscription of a group, but the
  timeout branch looks only in `subscriptions`, where groups are not. The timeout is
  dropped, and a relay that sends no EOSE holds the group.

Both are against `lib/src/relay.rs:985`, "Subscribe until relay sends an "End
Of Stored Events" notification or timeout is reached".

* `RelayFollowsPool`: when nothing is on its way to a connected relay it has open all
  the pool is subscribed to, with the latest filters, what was subscribed for another
  relay included (the pool keeps one map). The exceptions are named by `behind`: a
  resend spawned, for an earlier connection or for this one, before the new value and
  received after it, and a new value sent to one other relay only. Without the first exception TLC finds the
  relay left on the old filters until it is subscribed or connected anew.
* `SubscriptionArrives`: a subscription of the pool is opened at each connected relay,
  over the resend, the queue and lost connections, with the same exceptions.
* `KeepsLatestErrors`: the list is exactly the last refusals. `OneFetchPerRelay`,
  `DocumentIsKept`: the document is fetched once per task, not once per connection,
  and an answer that comes while the relay is not connected is received by the next
  connection, if there is one.
* `StatsAgree`: an information that says Connected has counted that connection, one that
  says Connecting its attempt, through lost sockets and Reconnects.
* `attempts_forgotten`: the counter of attempts is the retry counter. `new_success` sets
  it to 0, so that a relay that connected reports a success and no attempt, while
  `lib/src/stats.rs:28` documents it as "The number of times a connection has been
  attempted".
* `CountsAreGroups`: the example starts a group on Timeout *and* on EOSE, and both can
  come for one subscription; the second replaces the first while it runs, and a resend after
  a reconnect starts more. Still it counts no group that was not done, and none twice,
  and it ends early only if it missed a notification. It may also never end: a group
  that was replaced or stalled announces nothing, and an empty one is dropped.
* `OpenRequestsBounded`: each group started leaves at most one request open at the
  relay (the replaced group's), which nothing closes until the connection is lost.
* `GroupKeepsPromise`: in this client's hands a group is an `EoseGroup`: the last answer of
  a group announces it, unless the connection was lost or a write failed on the way.

### Bounds

* `InputCap`, `PoolCap`: 1 or 2 for the code's 100. The code compares a channel's
  length only with its capacity, so full, empty and in between are the cases; with
  2 there are two inputs or events whose order can matter. The proofs hold for every
  capacity.
* `MaxAttempts`: 7, as in the code, in `one_relay`; fewer where the other bounds are
  what a run is about. The proofs hold for every positive value.
* `Commands`: the variants the client uses. `pool_live` keeps one that fills channels,
  one that replaces a task without closing it and the two that leave the loop;
  `resubscription` the ones that subscribe, `information` the ones that reconnect and that leave the loop.
* `Task`: how many relay tasks are ever spawned. The code never reuses one.
* `MaxResend`: a connection may open only while fewer resends than this of each
  subscription are pending for its url. The code has no such bound: a relay that
  connects and disconnects while its channel is full accumulates tasks. They are
  alike, so the model needs only to tell none, some and (with two tasks of a
  url) whose.
* `QueueLengths`: up to 1 or 2 inputs kept for the next connection, for the code's unbounded
  queue. They are handled one after the other by the same handler as later ones,
  so two, which may contradict each other, are the case that matters.
* `MaxTimers`: no further input comes while a value has this many timers, 2: an
  earlier one and its own. `MaxStarts`: a group is started only while groups were started
  fewer times than this on the connection, 2: a start and the one that replaces it, or two
  groups that share an id. `MaxAnswers`: 1 or 2 EOSEs in flight: a late one and the one
  after it.
* `MaxQueue` in `PoolTraffic`: the client subscribes, and a connection opens, only while
  the url's tasks hold fewer inputs than this.
* `MaxRefused`, `MaxSuccess`, `MAX_ERROR_MSGS_LIMIT`, `U8`: a list that is filled and
  then moves by its whole length, with the smallest range the limit fits in. The proof is
  for every limit, the code's 100 and 256 included.
* `MaxChannels`, `MaxGroups`, `Enough`, `NoticeCap`: groups of no, one and two requests;
  two groups, so that one is replaced or counted after the other; `Enough` is 2 for the
  example's 3. Three notices, for the code's 10000, are few enough to be missed.
* ids: two values of one id are what can be confused, and two or three ids what a
  group needs to have an order.

`CHECK_DEADLOCK FALSE` in every run of `RelayPool` and what extends it: the program
does stop, after a shutdown when every task has ended, and in the circular wait,
which has its own properties. In `state_machine` too: the client waits for a group that
stalled while every bound is reached.

### Fairness

`FairSpec` gives strong fairness to the steps of the program and none to time, the
network and the client:

* tokio's `select!` polls its branches from a random one, so a branch that is ready
  again and again is taken: receiving an input, noticing the end of a channel,
  handling an event. Weak fairness would not do, since the other branch may
  disable it for a while by moving the task to another state;
* tokio's bounded channels hand out room in the order it was asked for, so a sender
  waits only for those before it: the sends of a relay, of a spawned task and of the
  pool;
* a sleep, a connection result, a lost socket and a command may never come. The
  properties do not need them.

`FairSpec` of `RelayTraffic` is of the same kind: `HandleQueued` is weakly fair (nothing
precedes it in the handler), `check_eose` and `Timeout` strongly, as branches of the
`select!`. It adds one assumption on the relay: it sends the EOSE of a request that
stays open. That is strong fairness only because `MaxAnswers` may make it wait. There
is none on connections, inputs and failures.

`TrafficFairness` of `PoolTraffic` is that of `RelayPool` on the composed actions, with
`HandleQueued` weakly fair as in `RelayTraffic`. `InformationFairness` asks only that
a task that comes to its `select!` again and again takes the answer that waits there.

Writes to a socket are taken to complete or to fail. A write that never returns
would hold its relay in the Connected handler, and then the pool's send to it.

## 4. What is proved

With TLAPS, for any set of tasks, urls, payloads, subscriptions, groups, channels and
inputs, from the assumptions on the constants only:

| Assumption | What it says |
|---|---|
| `RelayAssumption`, `PoolAssumption` | capacities and the attempt limit are positive; `Close` and `Reconnect` are not payloads, subscriptions are |
| `PowersOfTwo` | what the powers of two up to the attempt limit are, since the prover does not know exponentiation; TLC evaluates it. Only `RetriesCorrect` uses it |
| `SubscriptionAssumption` | for `PoolTraffic`: subscriptions are endless `Subscribe` inputs, and other inputs are none that switch reading or writing or start a group |
| `TrafficAssumption` | for `RelayTraffic`: ids are numbers, inputs are `InputOK`, and the lengths of the queue are an initial segment of the naturals, all of them included |
| `InformationAssumption` | the error list, one longer than its limit, still fits in the `u8` its length is compared as |
| `StateMachineAssumption` | for `StateMachine`: the example's subscriptions have ids of their own, its bounds are numbers |

| Theorem | Statement | Inductive invariant |
|---|---|---|
| `TypeCorrect` | `Spec => []TypeOK` | `TypeInv`: `TypeOK` and `OutgoingOK` |
| `StatusCorrect` | `Spec => []StatusAgrees` | itself, with `TypeInv` and `ListenerInv` |
| `RemovedClosed` | `Spec => []RemovedIsClosed` | `JobInv`, `RemovedInv`, with the two above |
| `WaitCycleForever` | `Spec => WaitCycleIsForever` | `TypeInv`, `ListenerInv`, `JobInv` |
| `InformationCorrect` | `Spec => []InformationStatus` | `InformationInv`, with `TypeInv` |
| `TrafficTypeCorrect` | `TrafficSpec => []TrafficTypeOK` | `TrafficInv`, with `TypeInv` |
| `TasksImplementTraffic` | `TrafficSpec => EachTaskIsTraffic` | `ClosedInv`, with `TrafficInv` and `TypeInv` |
| `FollowCorrect` | `TrafficSpec => []RelayFollowsPool` | `FollowInv`, `FreshInv`, with `TrafficInv`, `TypeInv`, `ListenerInv`, `JobInv` |
| `ErrorsCorrect` | `InformationSpec => []KeepsLatestErrors` | `IInv`: `ErrorsTyped` and `ErrorsInv`, from `InformationAssumption` |
| `DocumentCorrect` | `InformationSpec => []OneFetchPerRelay` | `DocumentInv` |
| `StatsCorrect` | `InformationSpec => []StatsAgree` | `StatsInv`, with `InformationInv` and `TypeInv` |
| `InformationTyped` | `InformationSpec => []InformationTypeOK` | `IInv`, `DocumentInv`, `StatsInv` |
| `RetriesCorrect` | `Spec => []RetriesBounded` | `BackOffInv`, with `TypeInv` |
| `StatusesFollow` | `OneTaskPerUrl => (Spec => StatusesInOrder)` | `TypeInv`, `ListenerInv` |
| `TrafficTyped`, `RequestsKnown`, `TimersPending`, `MapFollows` | of `RelayTraffic`: `Spec => []TypeOK`, `[]RequestsAreKnown`, `[]TimerIsPending`, `MapFollowsRequests` | `TypeInv` of `RelayTraffic_proofs`: `TaskInv` and the queue |
| `GroupsProgress` | `Spec => []ActionsProgress` | `OwnInv`, `ProgressInv`, with `TypeInv` |
| `RequestsPerStart` | `Spec => []OneRequestPerStart` | `CostInv`, with `OwnInv`, `ProgressInv`, `TypeInv` |
| `MachineTyped`, `CountsCorrect`, `OpenRequests`, `GroupImplements` | `MachineSpec => []MachineTypeOK`, `[]CountsAreGroups`, `[]OpenRequestsBounded`, `GroupKeepsPromise` | `MachineInv`: `TaskInv`, `NoticesInv`, `HandledInv`, `WaitingInv` |

Why the strengthenings are needed:

* `OutgoingOK`: the event a task awaits to send is one its state announces, and it
  announces an attempt only when one is left. Without it `SendToPool` could
  raise the counter above its limit.
* `ListenerInv`: a listener is stored under its task's url, its task is running,
  and every event in the channel was sent by some spawned task for its url. A new
  listener starts as Disconnected with no old event of the same url behind
  it only because of the last part.
* `ClosedBehind(t)`: in `t`'s channel there is a Close that no Reconnect follows, or
  no Reconnect at all and the Close has had its effect. `RemovedIsClosed` says
  less and is not preserved by the step that receives the last Reconnect.
* `JobInv`: a send under way goes to a listener of a running pool; one that will
  remove the listener is a Close; and in a Shutdown every listener not
  waiting for its Close has had it (`ClosedBehind`). The last part carries the
  shutdown across its awaits.
* `InformationInv`: what the counter and the delay are in each state, and that giving
  up is announced only with the counter at its limit.
* `ErrorsInv`: the list is the latest refusals *and* as long as their number and the limit
  say. `PushKeepsLatest` shows that one more keeps it so; it needs the list to be
  within the limit, since the remainder modulo `U8` is the length only then.
* `DocumentInv`: a task is Initial exactly as long as it has fetched nothing. A
  fetch is started only by an Initial task, so that there is one.
* `FollowInv`: `RelayFollowsPool` is about a relay with nothing on its way to it. While
  something is, the pool's value of an id that is not in `behind` follows its way: it
  is what the pool is sending (`Coming`), or the last value of the id in the channel
  or else in the queue (`Waiting`), or there is none of the id in either and the task is
  not connected, has it open, or is about to be sent it because it connected
  (`WillHave`). Each step of the task, of the pool or of a resend moves it one
  place further; it never goes from one place to none.
* `FreshInv`: a task that is about to be added has nothing in its channel, its queue or
  its resends, so that an added relay starts with the last of these.
* `ClosedInv`: a relay that is not connected has nothing open. The step of a task that is
  not connected and stays so is a stutter of `RelayTraffic` only because of it.
  `TasksImplementTraffic` has a lemma for each kind of step: a connection is a
  `Connect`, leaving Connected a `CloseReceived`, an input a `ReceiveInput`, and the pool's
  steps stutter. Its instance lets the queue have any length, so that nothing rests on a bound.
* `BackOffInv`: a connecting relay has made the attempt it will double its delay for. The
  bound must leave room for that doubling before it is made.
* `TaskInv` is `RequestsAreKnown` and `TimerIsPending` (`Known`, `Pending`) with the
  types. They are stated of a session rather than of the state, because a handler
  makes several writes and may leave at each: a lemma for a CLOSE, one for a REQ and one
  for `subscribe` serve all the handlers.
* `OwnInv`: what is in a group, or in the map, is what the client's inputs can put
  there. For a group with `OwnIds` it keeps the map's timers and EOSEs, and those of
  other groups, away from its requests.
* `ProgressInv`: a relay that is not connected has no group that is not stalled, and
  otherwise a group's answer is still to come. It speaks of the groups also before
  the connection, where `ActionsProgress` says nothing.
* `CostInv`: "no more are open than starts" is not inductive: an EOSE of an earlier run
  that is received opens a request. So it counts both the requests open that no EOSE on
  its way answers (`Owing`) and the EOSEs on their way (`Owed`): an answer moves a request
  from the first to the second, receiving one pays for the request opened next, and only a
  start adds one.
* `HandledInv` and `WaitingInv`: the client numbers its groups and the relay's task
  handles them in order. Up to some `h` they have been handled: nothing open, on its
  way back or in the group is of a later one, and what waits for the task bears later
  numbers. So a group never meets a request of the next one.
* `NoticesInv`: the `ActionsDone` notices under way are of groups that come, in order,
  after those the client has counted and up to those done.
* `StatusesFollow` needs nothing new of the state. Its lemmas are about the channel: an
  event appended to it is appended to what is behind for its own url and for no other,
  and the pool's next event is the first behind for its url. The hypothesis, that each
  url is served by one task, is true of the instance `two_relays`; without it the
  statement is false (section 2).

`PoolTraffic` and `RelayInformation` conjoin effects with the actions of `RelayPool`, so
that they implement it by construction (`TrafficImplementsPool`,
`InformationImplementsPool`). These lemmas say nothing of the code; they carry what is
proved of `Spec`, such as `TypeInv`, over to the proofs about these modules.

Each step lemma has one step per action: `RelayStepFrame` says once what a relay's
step leaves alone, `CommandCases` what a command leaves of the map and of `job`.
In `StateMachine_proofs` an action of the task is taken
apart into what it does to the requests, the group and the notices, so that the four
theorems share one step lemma per action. TLC checked these invariants before they were
proved.

Only model-checked are the liveness properties, which are out of the prover's reach
(fairness and ENABLED), and the violations. The runs check one small value of each
constant, bounds included; the proofs are for every value the named assumptions allow.

## 5. What is not modelled

* `CloseSubscription`, an input nothing in the library sends;
* in the traffic: the content of events, the time between a timer's start and its end,
  `Verb::Count`, which is opened, timed and closed like a request;
* groups of EOSE actions and timeouts together with the whole pool: `PoolTraffic` has
  endless subscriptions only, `StateMachine` one relay and, of the pool, the resends;
* notifications no client here acts on (`SentSubscription`, `SentEvent`, `SendError`,
  `RelayInformation`): nothing waits for them and their errors are ignored;
* the timestamps of errors and connections, and the document's content;
* url parsing, the `Error` values of the client's handle, and the client's wait for a
  status list;
* what two tasks of one url show in the status list: it mixes both, and no document says
  what it should show. `OrphansEnd` and the safety properties do cover such tasks;
* in the examples: the file `state_machine` writes; `ex_test`, which only logs, polls
  the status list and reconnects at a key; `original`, a client of `nostr_sdk`;
* `other.rs`, a prototype `lib.rs` does not declare: it is never compiled.

## 6. Plan

Done: the pool and its relays (`Relay`, `RelayPool`), the traffic (`RelayTraffic`), their
composition (`PoolTraffic`), the status list (`StatusBoard`), the information, the
example client with its groups (`StateMachine`, `EoseGroup`), and the theorems above.

Every safety property, action property and refinement of the passing runs is proved.
Left: the theorems of `RelayTraffic` for the tasks of `PoolTraffic` (`TimerIsPending` and
the groups say nothing there, `RequestsAreKnown` is `TrafficTypeOK`), and a composition
of the pool with groups and timeouts, which would need the mapping of `PoolTraffic` with
the whole of `RelayTraffic`'s state for each task.
