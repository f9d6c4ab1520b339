------------------------ MODULE RelayTraffic_proofs ------------------------
(***************************************************************************)
(* What holds of a relay task's traffic for any subscriptions, groups and  *)
(* inputs.  The writes of a handler are taken one at a time: lemmas about  *)
(* sessions say what close_subscription and subscribe leave of one, and a  *)
(* handler's step is put together from these.  Nothing here needs to know  *)
(* where an input comes from, only that it is one (InputOK), so that       *)
(* StateMachine_proofs can use the same lemmas.                            *)
(***************************************************************************)
EXTENDS RelayTraffic, TLAPS, FiniteSetTheorems, FunctionTheorems, SequenceTheorems,
        WellFoundedInduction

Sessions ==
    [ok : BOOLEAN, subscriptions : SUBSET Subscription, timers : [Subscription -> Nat],
     open : SUBSET Subscription, unanswered : SUBSET Subscription,
     unclosed : SUBSET Subscription]

\* The part of TypeOK about what a handler's writes may change.
SessionOK(x) ==
    /\ x \in Sessions
    /\ Keyed(x.subscriptions) /\ Keyed(x.open)
    /\ x.unanswered \subseteq x.open /\ x.unclosed \subseteq x.open
    /\ ~peer => x.open = {}

\* c is what a CLOSE of id leaves of x.
Closes(x, c, id) ==
    /\ c.timers = x.timers
    /\ \/ /\ c.ok = x.ok
          /\ c.subscriptions = Remove(x.subscriptions, id)
          /\ c.open = Remove(x.open, id)
          /\ c.unanswered = Remove(x.unanswered, id)
          /\ c.unclosed = Remove(x.unclosed, id)
       \/ /\ c.ok = FALSE
          /\ c.subscriptions = x.subscriptions
          /\ c.open = x.open
          /\ c.unanswered = x.unanswered
          /\ c.unclosed = x.unclosed \cup Entry(x.open, id)

\* y is what is left of x when the request of s was written, lost or not.
Opens(x, y, s) ==
    /\ y.ok = x.ok
    /\ y.timers = StartTimer(x, s).timers
    /\ y.subscriptions = Remove(x.subscriptions, s.id)
    /\ \/ /\ peer
          /\ y.open = Insert(x.open, s)
          /\ y.unanswered = Insert(x.unanswered, s)
          /\ y.unclosed = Remove(x.unclosed, s.id)
       \/ ~peer /\ y.open = {} /\ y.unanswered = {} /\ y.unclosed = {}

\* y is what is left when the CLOSE of an earlier value of its id failed.
FailsToClose(x, y, s) ==
    /\ y.ok = FALSE
    /\ y.timers = x.timers
    /\ y.subscriptions = x.subscriptions
    /\ y.open = x.open
    /\ y.unanswered = x.unanswered
    /\ y.unclosed = x.unclosed \cup Entry(x.open, s.id)

\* y is what is left when the request itself failed.
FailsToOpen(x, y, s) ==
    /\ y.ok = FALSE
    /\ y.timers = StartTimer(x, s).timers
    /\ y.subscriptions = Remove(x.subscriptions, s.id)
    /\ peer => y.subscriptions = x.subscriptions
    /\ y.open = x.open
    /\ y.unanswered = x.unanswered
    /\ y.unclosed = x.unclosed

-----------------------------------------------------------------------------
(* The writes of a handler. *)

\* close_subscription keeps a session what it should be.
LEMMA CloseCases ==
    ASSUME NEW x, SessionOK(x), NEW id, NEW c \in close_subscription(x, id)
    PROVE  SessionOK(c) /\ Closes(x, c, id)
<1>1. PICK ok \in send_ws :
          c = IF ok THEN [x EXCEPT !.subscriptions = Remove(@, id), !.open = Remove(@, id),
                                   !.unanswered = Remove(@, id), !.unclosed = Remove(@, id)]
                    ELSE [x EXCEPT !.ok = FALSE, !.unclosed = @ \cup Entry(x.open, id)]
  BY DEF close_subscription
<1>2. x \in Sessions BY DEF SessionOK
<1>3. CASE ok
  <2>1. Closes(x, c, id) BY <1>1, <1>2, <1>3 DEF Closes, Sessions
  <2>2. c \in Sessions BY <1>1, <1>2, <1>3 DEF Sessions, Remove
  <2>3. QED BY <1>1, <1>2, <1>3, <2>1, <2>2 DEF Sessions, SessionOK, Remove, Keyed
<1>4. CASE ~ok
  <2>1. Closes(x, c, id) BY <1>1, <1>2, <1>4 DEF Closes, Sessions
  <2>2. c \in Sessions BY <1>1, <1>2, <1>4 DEF Sessions, Entry
  <2>3. QED BY <1>1, <1>2, <1>4, <2>1, <2>2 DEF Sessions, SessionOK, Entry, Keyed
<1>5. QED BY <1>3, <1>4

LEMMA StartTimerType ==
    ASSUME NEW x \in Sessions, NEW s \in Subscription
    PROVE  /\ StartTimer(x, s) = [x EXCEPT !.timers = StartTimer(x, s).timers]
           /\ StartTimer(x, s).timers \in [Subscription -> Nat]
           /\ \A r \in Subscription : StartTimer(x, s).timers[r] >= x.timers[r]
           /\ s.sub_type = "EOSE" /\ s.timeout => StartTimer(x, s).timers[s] > 0
BY DEF StartTimer, Sessions

\* Request makes the request, loses it or fails.
LEMMA RequestCases ==
    ASSUME NEW x, SessionOK(x), x.ok, NEW s \in Subscription, NEW ok \in send_ws,
           Entry(x.subscriptions, s.id) = {}
    PROVE  LET y == Request(StartTimer(x, s), s, ok) IN
           SessionOK(y) /\ (Opens(x, y, s) \/ FailsToOpen(x, y, s))
<1> DEFINE d == StartTimer(x, s)
           y == Request(d, s, ok)
<1>1. x \in Sessions BY DEF SessionOK
<1>2. /\ d = [x EXCEPT !.timers = d.timers]
      /\ d.timers \in [Subscription -> Nat]
  BY <1>1, StartTimerType
<1> HIDE DEF d
<1>3. Remove(x.subscriptions, s.id) = x.subscriptions BY DEF Remove, Entry
<1>4. CASE ~ok
  <2>1. y = [d EXCEPT !.ok = FALSE] BY <1>4 DEF Request
  <2>2. FailsToOpen(x, y, s) BY <1>1, <1>2, <1>3, <2>1 DEF FailsToOpen, Sessions, d
  <2>3. SessionOK(y) BY <1>1, <1>2, <2>1 DEF SessionOK, Sessions
  <2>4. QED BY <2>2, <2>3 DEF d
<1>5. CASE ok /\ ~peer
  <2>1. y = d BY <1>5 DEF Request
  <2>2. SessionOK(y) BY <1>1, <1>2, <2>1 DEF SessionOK, Sessions
  <2>3. y.ok = x.ok /\ y.subscriptions = x.subscriptions /\ y.timers = d.timers
    BY <1>1, <1>2, <2>1 DEF Sessions
  <2>4. y.open = {} /\ y.unanswered = {} /\ y.unclosed = {}
    BY <1>5, <2>2 DEF SessionOK
  <2>5. Opens(x, y, s) BY <1>5, <1>3, <2>3, <2>4 DEF Opens, d
  <2>6. QED BY <2>2, <2>5 DEF d
<1>6. CASE ok /\ peer
  <2>1. y = [d EXCEPT !.open = Insert(@, s), !.unanswered = Insert(@, s),
                      !.unclosed = Remove(@, s.id)]
    BY <1>6 DEF Request
  <2>2. /\ y.ok = x.ok /\ y.subscriptions = x.subscriptions /\ y.timers = d.timers
        /\ y.open = Insert(x.open, s) /\ y.unanswered = Insert(x.unanswered, s)
        /\ y.unclosed = Remove(x.unclosed, s.id)
    BY <1>1, <1>2, <2>1 DEF Sessions
  <2>3. Opens(x, y, s) BY <1>6, <1>3, <2>2 DEF Opens, d
  <2>4. y \in Sessions
    <3>1. /\ Insert(x.open, s) \in SUBSET Subscription
          /\ Insert(x.unanswered, s) \in SUBSET Subscription
          /\ Remove(x.unclosed, s.id) \in SUBSET Subscription
      BY <1>1 DEF Sessions, Insert, Remove
    <3>2. QED BY <1>1, <1>2, <2>1, <3>1 DEF Sessions
  <2>5. Keyed(y.open) /\ y.unanswered \subseteq y.open /\ y.unclosed \subseteq y.open
    BY <2>2 DEF SessionOK, Keyed, Insert, Remove
  <2>6. SessionOK(y) BY <1>6, <2>2, <2>4, <2>5 DEF SessionOK
  <2>7. QED BY <2>3, <2>6 DEF d
<1>7. QED BY <1>4, <1>5, <1>6

\* subscribe, with the CLOSE of an earlier value of the id.
LEMMA SubscribeCases ==
    ASSUME NEW x, SessionOK(x), x.ok, NEW s \in Subscription, NEW y \in subscribe(x, s)
    PROVE  SessionOK(y) /\ (Opens(x, y, s) \/ FailsToClose(x, y, s) \/ FailsToOpen(x, y, s))
<1>1. CASE Entry(x.subscriptions, s.id) = {}
  <2>1. \E ok \in send_ws : y = Request(StartTimer(x, s), s, ok)
    BY <1>1 DEF subscribe
  <2>2. QED BY <1>1, <2>1, RequestCases
<1>2. CASE Entry(x.subscriptions, s.id) # {}
  <2>1. PICK c \in close_subscription(x, s.id) :
            \/ ~c.ok /\ y = c
            \/ c.ok /\ \E ok \in send_ws : y = Request(StartTimer(c, s), s, ok)
    BY <1>2 DEF subscribe
  <2>2. SessionOK(c) /\ Closes(x, c, s.id) BY CloseCases
  <2>3. CASE ~c.ok /\ y = c
    BY <2>2, <2>3 DEF FailsToClose, Closes, SessionOK, Sessions
  <2>4. CASE c.ok /\ \E ok \in send_ws : y = Request(StartTimer(c, s), s, ok)
    <3>1. PICK ok \in send_ws : y = Request(StartTimer(c, s), s, ok) BY <2>4
    <3>2. /\ c.timers = x.timers
          /\ c.subscriptions = Remove(x.subscriptions, s.id)
          /\ c.open = Remove(x.open, s.id)
          /\ c.unanswered = Remove(x.unanswered, s.id)
          /\ c.unclosed = Remove(x.unclosed, s.id)
      BY <2>2, <2>4 DEF Closes
    <3>3. Entry(c.subscriptions, s.id) = {} BY <3>2 DEF Entry, Remove
    <3>4. SessionOK(y) /\ (Opens(c, y, s) \/ FailsToOpen(c, y, s))
      BY <2>2, <2>4, <3>1, <3>3, RequestCases
    <3>5. StartTimer(c, s).timers = StartTimer(x, s).timers
      BY <2>2, <3>2 DEF StartTimer, SessionOK, Sessions
    <3>6. CASE Opens(c, y, s)
      BY <3>2, <3>4, <3>5, <3>6, <2>4 DEF Opens, Remove, Insert
    <3>7. CASE FailsToOpen(c, y, s)
      <4>1. TRUE \in send_ws
        <5>1. PICK b \in send_ws :
                  c = IF b THEN [x EXCEPT !.subscriptions = Remove(@, s.id),
                                          !.open = Remove(@, s.id),
                                          !.unanswered = Remove(@, s.id),
                                          !.unclosed = Remove(@, s.id)]
                           ELSE [x EXCEPT !.ok = FALSE, !.unclosed = @ \cup Entry(x.open, s.id)]
          BY DEF close_subscription
        <5>2. b BY <5>1, <2>4 DEF SessionOK, Sessions
        <5>3. QED BY <5>2 DEF send_ws
      <4>2. ok \in BOOLEAN /\ (peer => ok) BY <4>1 DEF send_ws
      <4>3. ~ok
        <5>1. Request(StartTimer(c, s), s, TRUE).ok = c.ok
          BY <2>2 DEF Request, StartTimer, SessionOK, Sessions
        <5>2. QED BY <5>1, <4>2, <2>4, <3>1, <3>7 DEF FailsToOpen
      <4>4. ~peer BY <4>2, <4>3
      <4>5. QED BY <4>4, <2>2, <3>2, <3>4, <3>5, <3>7 DEF FailsToOpen, SessionOK, Remove
    <3>8. QED BY <3>4, <3>6, <3>7
  <2>5. QED BY <2>1, <2>3, <2>4
<1>3. QED BY <1>1, <1>2

-----------------------------------------------------------------------------
(* The first of a group. *)

LEMMA FirstIsLeast ==
    ASSUME NEW S \in SUBSET Subscription, S # {}
    PROVE  FirstOf(S) \in S /\ \A r \in S : FirstOf(S).id <= r.id
<1> DEFINE R == {ss \in Nat \X Nat : ss[1] < ss[2]}
           T == {s.id : s \in S}
<1>0. IsWellFoundedOn(R, Nat) BY NatLessThanWellFounded DEF OpToRel
<1>1. T \subseteq Nat /\ T # {} BY TrafficAssumption
<1>2. PICK n \in T : \A m \in T : <<m, n>> \notin R
  <2> HIDE DEF R, T
  <2>1. QED BY <1>0, <1>1, WFMin
<1>3. \A m \in T : n <= m
  <2>1. ASSUME NEW m \in Nat, NEW k \in Nat, m < k PROVE <<m, k>> \in R
    <3>1. <<m, k>> \in Nat \X Nat /\ <<m, k>>[1] < <<m, k>>[2] BY <2>1
    <3>2. QED BY <3>1, Zenon
  <2> HIDE DEF R, T
  <2>2. SUFFICES ASSUME NEW m \in T, ~(n <= m) PROVE FALSE OBVIOUS
  <2>3. m \in Nat /\ n \in Nat BY <1>1
  <2>4. m < n BY <2>2, <2>3
  <2>5. QED BY <1>2, <2>1, <2>3, <2>4
<1>4. \E s \in S : \A r \in S : s.id <= r.id BY <1>3
<1>5. QED BY <1>4 DEF FirstOf

-----------------------------------------------------------------------------
(* What the properties say of a session. *)

\* RequestsAreKnown, with G the requests of the groups.
Known(x, G) == x.open \subseteq x.subscriptions \cup G \cup x.unclosed

\* TimerIsPending.
Pending(x) ==
    \A s \in (x.open \cap x.subscriptions) \ x.unclosed :
        s.sub_type = "EOSE" /\ s.timeout => x.timers[s] > 0

\* MapFollowsRequests, from x to y.
Follows(x, y) == y.subscriptions \subseteq x.subscriptions /\ y.subscriptions \cap x.open \subseteq y.open

\* The requests that are asked, and not given up.
Live(x) == x.open \ x.unclosed

LEMMA CloseKeeps ==
    ASSUME NEW x, SessionOK(x), NEW id, NEW c, Closes(x, c, id), NEW G
    PROVE  /\ Known(x, G) => Known(c, Remove(G, id))
           /\ Pending(x) => Pending(c)
           /\ Follows(x, c)
           /\ Live(c) \subseteq Live(x)
<1>1. Known(x, G) => Known(c, Remove(G, id)) BY DEF Known, Closes, Remove, Entry
<1>2. Pending(x) => Pending(c) BY DEF Pending, Closes, Remove, Entry
<1>3. Follows(x, c) BY DEF Follows, Closes, Remove
<1>4. Live(c) \subseteq Live(x) BY DEF Live, Closes, Remove, Entry
<1>5. QED BY <1>1, <1>2, <1>3, <1>4

\* A request that could not be made, or was lost with the relay, leaves nothing new.
LEMMA SubscribeKeeps ==
    ASSUME NEW x, SessionOK(x), NEW s \in Subscription, NEW y, SessionOK(y),
           Opens(x, y, s) \/ FailsToClose(x, y, s) \/ FailsToOpen(x, y, s), NEW G
    PROVE  /\ Known(x, G) => Known(y, G \cup {s})
           /\ Known(x, G) /\ ~Opens(x, y, s) => Known(y, G)
           /\ Pending(x) => Pending(y)
           /\ peer => Follows(x, y)
           /\ Live(y) \subseteq Live(x) \cup {s}
           /\ ~Opens(x, y, s) => Live(y) \subseteq Live(x)
<1>1. \A r \in Subscription : StartTimer(x, s).timers[r] >= x.timers[r]
  BY StartTimerType DEF SessionOK
<1>2. /\ \A r \in Subscription : x.timers[r] \in Nat /\ StartTimer(x, s).timers[r] \in Nat
      /\ x.open \subseteq Subscription /\ x.unclosed \subseteq x.open
  BY StartTimerType DEF SessionOK, Sessions
<1>3. CASE Opens(x, y, s)
  <2>1. Known(x, G) => Known(y, G \cup {s}) BY <1>3 DEF Opens, Known, Insert, Remove
  <2>2. Pending(x) => Pending(y) BY <1>1, <1>2, <1>3 DEF Opens, Pending, Insert, Remove
  <2>3. peer => Follows(x, y) BY <1>3 DEF Opens, Follows, Insert, Remove
  <2>4. Live(y) \subseteq Live(x) \cup {s}
    BY <1>3 DEF Opens, Live, Insert, Remove
  <2>5. QED BY <1>3, <2>1, <2>2, <2>3, <2>4
<1>4. CASE FailsToClose(x, y, s)
  BY <1>4 DEF FailsToClose, Known, Pending, Follows, Live
<1>5. CASE FailsToOpen(x, y, s)
  <2>1. Known(x, G) => Known(y, G)
    BY <1>5 DEF FailsToOpen, Known, SessionOK
  <2>2. Pending(x) => Pending(y)
    BY <1>1, <1>2, <1>5 DEF FailsToOpen, Pending, Remove
  <2>3. peer => Follows(x, y) BY <1>5 DEF FailsToOpen, Follows
  <2>4. Live(y) \subseteq Live(x) BY <1>5 DEF FailsToOpen, Live
  <2>5. QED BY <2>1, <2>2, <2>3, <2>4 DEF Known
<1>6. QED BY <1>3, <1>4, <1>5

-----------------------------------------------------------------------------
(* The invariant of a task, without its queue. *)

SocketOK ==
    /\ {online, peer, read, write} \subseteq BOOLEAN
    /\ peer => online
    /\ answers \in Seq(Subscription)

GroupsOK ==
    /\ eose_actions \in [ActionId -> SUBSET Subscription]
    /\ \A a \in ActionId : Keyed(eose_actions[a])
    /\ stalled \subseteq ActionId
    /\ starts \in [ActionId -> Nat]

Grouped == UNION {eose_actions[a] : a \in ActionId}

TaskInv ==
    /\ SocketOK /\ GroupsOK /\ SessionOK(Session)
    /\ Known(Session, Grouped)
    /\ Pending(Session)

\* MapFollowsRequests, of one step.
MapStep ==
    peer /\ peer' => \A s \in Subscription :
        s \in subscriptions' /\ (s \notin subscriptions \/ s \in open) => s \in open'

\* What every handler of the Connected state leaves alone.
SameSocket == online' = online /\ peer' = peer /\ answers' \in Seq(Subscription)

\* A session that was installed is the task's.
LEMMA BecomeSession ==
    ASSUME NEW y, SessionOK(y), Become(y), peer' = peer
    PROVE  /\ SessionOK(Session)'
           /\ \A G : Known(y, G) => open' \subseteq subscriptions' \cup G \cup unclosed'
           /\ Pending(y) => Pending(Session)'
<1>1. SessionOK(Session)'
  BY DEF SessionOK, Become, Session, Sessions, Keyed
<1>2. ASSUME NEW G, Known(y, G) PROVE open' \subseteq subscriptions' \cup G \cup unclosed'
  BY <1>2 DEF Known, Become
<1>3. Pending(y) => Pending(Session)' BY DEF Pending, Become, Session
<1>4. QED BY <1>1, <1>2, <1>3

LEMMA SessionBegins ==
    ASSUME TaskInv
    PROVE  /\ Session.ok /\ SessionOK(Session)
           /\ Session.subscriptions = subscriptions /\ Session.open = open
           /\ Session.unclosed = unclosed /\ Session.timers = timers
           /\ Session.unanswered = unanswered
BY DEF TaskInv, Session

LEMMA SubscribeStep ==
    ASSUME TaskInv, SocketOK', SameSocket, NEW s \in Subscription, Subscribe(s)
    PROVE  TaskInv' /\ MapStep
<1>1. PICK x \in subscribe(Session, s) :
          Become(IF x.ok THEN [x EXCEPT !.subscriptions = Insert(@, s)] ELSE x)
  BY DEF Subscribe
<1>2. /\ SessionOK(x)
      /\ Opens(Session, x, s) \/ FailsToClose(Session, x, s) \/ FailsToOpen(Session, x, s)
  BY SessionBegins, SubscribeCases
<1>3. /\ Known(x, Grouped \cup {s})
      /\ ~Opens(Session, x, s) => Known(x, Grouped)
      /\ Pending(x)
      /\ peer => Follows(Session, x)
  BY <1>2, SessionBegins, SubscribeKeeps DEF TaskInv
<1>4. /\ UNCHANGED <<eose_actions, stalled>> /\ GroupsOK' /\ Grouped' = Grouped
      /\ peer' = peer
  BY DEF Subscribe, groupVars, TaskInv, GroupsOK, Grouped, SameSocket
<1> DEFINE y == [x EXCEPT !.subscriptions = Insert(@, s)]
<1>5. CASE ~x.ok
  <2>1. Become(x) BY <1>1, <1>5
  <2>2. ~Opens(Session, x, s) BY <1>5, SessionBegins DEF Opens
  <2>3. TaskInv' BY <2>1, <2>2, <1>2, <1>3, <1>4, BecomeSession DEF TaskInv, Known, Session
  <2>4. MapStep BY <2>1, <1>3, <1>4, SessionBegins DEF MapStep, Follows, Become
  <2>5. QED BY <2>3, <2>4
<1>6. CASE x.ok
  <2>1. Become(y) BY <1>1, <1>6
  <2>2. /\ Opens(Session, x, s)
        /\ x \in Sessions
        /\ y.subscriptions = Insert(x.subscriptions, s)
        /\ y.ok = x.ok /\ y.timers = x.timers /\ y.open = x.open
        /\ y.unanswered = x.unanswered /\ y.unclosed = x.unclosed
    BY <1>2, <1>6 DEF SessionOK, Sessions, FailsToClose, FailsToOpen
  <2>3. Insert(x.subscriptions, s) \in SUBSET Subscription /\ Keyed(Insert(x.subscriptions, s))
    BY <1>2 DEF SessionOK, Keyed, Insert, Remove
  <2>4. SessionOK(y) BY <1>2, <2>2, <2>3 DEF SessionOK, Sessions
  <2>5. Known(y, Grouped)
    <3>1. x.subscriptions = Remove(subscriptions, s.id)
      BY <2>2, SessionBegins DEF Opens
    <3>2. s.id \notin {r.id : r \in x.subscriptions} BY <3>1 DEF Remove
    <3>3. x.subscriptions \cup {s} \subseteq y.subscriptions
      BY <2>2, <3>2 DEF Insert, Remove
    <3>4. QED BY <1>3, <2>2, <3>3 DEF Known
  <2>6. Pending(y)
    <3>1. s.sub_type = "EOSE" /\ s.timeout => y.timers[s] > 0
      BY <2>2, SessionBegins, StartTimerType DEF Opens, SessionOK
    <3>2. QED BY <1>3, <2>2, <3>1 DEF Pending, Insert, Remove
  <2>7. TaskInv' BY <2>1, <2>4, <2>5, <2>6, <1>4, BecomeSession DEF TaskInv, Known, Session
  <2>8. MapStep
    <3>1. peer => s \in open' BY <2>1, <2>2 DEF Become, Opens, Insert
    <3>2. subscriptions' \subseteq x.subscriptions \cup {s} /\ open' = x.open
      BY <2>1, <2>2 DEF Become, Insert, Remove
    <3>3. QED BY <3>1, <3>2, <1>3, SessionBegins DEF MapStep, Follows
  <2>9. QED BY <2>7, <2>8
<1>7. QED BY <1>5, <1>6

LEMMA RangeOfList ==
    ASSUME NEW S, NEW list \in Seq(S), list # <<>>
    PROVE  /\ Head(list) \in S /\ Tail(list) \in Seq(S)
           /\ Head(list) \in Range(list)
           /\ Range(list) \subseteq S
           /\ Range(list) \subseteq {Head(list)} \cup Range(Tail(list))
           /\ Range(Tail(list)) \subseteq Range(list)
<1>1. Len(list) \in Nat \ {0} /\ DOMAIN list = 1 .. Len(list) BY EmptySeq, LenProperties
<1>2. /\ Head(list) = list[1] /\ Head(list) \in S /\ Tail(list) \in Seq(S)
      /\ Len(Tail(list)) = Len(list) - 1
      /\ \A i \in 1 .. Len(Tail(list)) : Tail(list)[i] = list[i + 1]
  BY HeadTailProperties
<1>3. DOMAIN Tail(list) = 1 .. Len(list) - 1 BY <1>2, LenProperties
<1>4. \A i \in 1 .. Len(list) : list[i] \in S BY ElementOfSeq
<1>5. Range(list) \subseteq {Head(list)} \cup Range(Tail(list))
  <2>1. SUFFICES ASSUME NEW i \in 1 .. Len(list), i # 1
                 PROVE  list[i] \in Range(Tail(list))
    BY <1>1, <1>2 DEF Range
  <2>2. i - 1 \in 1 .. Len(list) - 1 /\ Tail(list)[i - 1] = list[i] BY <1>1, <1>2, <2>1
  <2>3. QED BY <1>3, <2>2 DEF Range
<1>6. Range(Tail(list)) \subseteq Range(list)
  <2>1. SUFFICES ASSUME NEW i \in 1 .. Len(list) - 1 PROVE Tail(list)[i] \in Range(list)
    BY <1>3 DEF Range
  <2>2. i + 1 \in 1 .. Len(list) /\ Tail(list)[i] = list[i + 1] BY <1>1, <1>2
  <2>3. QED BY <1>1, <2>2 DEF Range
<1>7. QED BY <1>1, <1>2, <1>4, <1>5, <1>6 DEF Range

LEMMA RangeOfAppend ==
    ASSUME NEW S, NEW list \in Seq(S), NEW e \in S
    PROVE  Range(Append(list, e)) = Range(list) \cup {e}
<1>1. /\ Len(list) \in Nat /\ DOMAIN list = 1 .. Len(list)
      /\ DOMAIN Append(list, e) = 1 .. Len(list) + 1
      /\ \A i \in 1 .. Len(list) : Append(list, e)[i] = list[i]
      /\ Append(list, e)[Len(list) + 1] = e
  BY LenProperties, AppendProperties
<1>2. QED BY <1>1 DEF Range

\* A group is opened; the open request of the one it replaces is given up.
LEMMA EoseActionsStep ==
    ASSUME TaskInv, SocketOK', SameSocket, NEW a \in ActionId,
           NEW list \in Seq(Subscription), Keyed(Range(list)), EoseActions(a, list)
    PROVE  TaskInv' /\ MapStep
<1>0. peer' = peer BY DEF SameSocket
<1>1. CASE list = <<>> /\ UNCHANGED <<sessionVars, groupVars, switchVars>>
  <2>1. Session' = Session /\ GroupsOK' /\ Grouped' = Grouped
    BY <1>1 DEF Session, sessionVars, groupVars, GroupsOK, Grouped, TaskInv
  <2>2. TaskInv' BY <2>1, <1>0 DEF TaskInv, SessionOK, Known, Pending
  <2>3. QED BY <1>1, <2>2 DEF MapStep, sessionVars
<1>2. CASE list # <<>>
  <2> DEFINE s == Head(list)
  <2>1. s \in Subscription /\ s \in Range(list) /\ Range(list) \subseteq Subscription
    BY <1>2, RangeOfList
  <2>2. PICK x \in subscribe(Session, s) :
            \/ /\ x.ok
               /\ eose_actions' = [eose_actions EXCEPT ![a] = Range(list)]
               /\ stalled' = stalled \ {a}
               /\ starts' = [starts EXCEPT ![a] = @ + 1]
               /\ Become([x EXCEPT !.unclosed = @ \cup ((x.open \cap eose_actions[a]) \ {s})])
            \/ ~x.ok /\ Become(x) /\ UNCHANGED groupVars
    BY <1>2 DEF EoseActions
  <2> HIDE DEF s
  <2>3. /\ SessionOK(x)
        /\ Opens(Session, x, s) \/ FailsToClose(Session, x, s) \/ FailsToOpen(Session, x, s)
    BY <2>1, SessionBegins, SubscribeCases
  <2>4. /\ Known(x, Grouped \cup {s})
        /\ ~Opens(Session, x, s) => Known(x, Grouped)
        /\ Pending(x)
        /\ peer => Follows(Session, x)
    BY <2>1, <2>3, SessionBegins, SubscribeKeeps DEF TaskInv
  <2>5. CASE ~x.ok /\ Become(x) /\ UNCHANGED groupVars
    <3>1. ~Opens(Session, x, s) BY <2>5, SessionBegins DEF Opens
    <3>2. GroupsOK' /\ Grouped' = Grouped
      BY <2>5 DEF groupVars, GroupsOK, Grouped, TaskInv
    <3>3. TaskInv' BY <2>3, <2>4, <2>5, <3>1, <3>2, <1>0, BecomeSession DEF TaskInv, Known, Session
    <3>4. MapStep BY <2>4, <2>5, <1>0, SessionBegins DEF MapStep, Follows, Become
    <3>5. QED BY <3>3, <3>4
  <2>6. CASE /\ x.ok
             /\ eose_actions' = [eose_actions EXCEPT ![a] = Range(list)]
             /\ stalled' = stalled \ {a}
             /\ starts' = [starts EXCEPT ![a] = @ + 1]
             /\ Become([x EXCEPT !.unclosed = @ \cup ((x.open \cap eose_actions[a]) \ {s})])
    <3> DEFINE y == [x EXCEPT !.unclosed = @ \cup ((x.open \cap eose_actions[a]) \ {s})]
    <3>1. /\ y.subscriptions = x.subscriptions /\ y.open = x.open
          /\ y.ok = x.ok /\ y.timers = x.timers /\ y.unanswered = x.unanswered
          /\ y.unclosed = x.unclosed \cup ((x.open \cap eose_actions[a]) \ {s})
          /\ y \in Sessions
      BY <2>3 DEF SessionOK, Sessions
    <3>2. SessionOK(y) /\ Pending(y) BY <2>3, <2>4, <3>1 DEF SessionOK, Pending
    <3>3. Become(y) BY <2>6
    <3> HIDE DEF y
    <3>4. GroupsOK' BY <2>1, <2>6 DEF TaskInv, GroupsOK
    <3>5. Known(y, Grouped')
      <4>1. SUFFICES ASSUME NEW q \in x.open, q \notin y.unclosed, q \notin x.subscriptions
                     PROVE  q \in Grouped'
        BY <3>1 DEF Known
      <4>2. /\ q = s \/ q \notin eose_actions[a]
            /\ q \in Grouped \/ q = s
        BY <2>4, <3>1, <4>1 DEF Known
      <4>3. eose_actions'[a] = Range(list)
            /\ \A b \in ActionId \ {a} : eose_actions'[b] = eose_actions[b]
        BY <2>6 DEF TaskInv, GroupsOK
      <4>4. QED BY <2>1, <4>2, <4>3 DEF Grouped
    <3>6. TaskInv' BY <3>2, <3>3, <3>4, <3>5, <1>0, BecomeSession DEF TaskInv, Known, Session
    <3>7. MapStep BY <2>4, <3>1, <3>3, <1>0, SessionBegins DEF MapStep, Follows, Become
    <3>8. QED BY <3>6, <3>7
  <2>7. QED BY <2>2, <2>5, <2>6
<1>3. QED BY <1>1, <1>2 DEF EoseActions

\* An EOSE takes its request out of the group and opens the next.
LEMMA ActionEoseStep ==
    ASSUME TaskInv, SocketOK', SameSocket, NEW a \in ActionId, NEW id, ActionEose(a, id)
    PROVE  TaskInv' /\ MapStep
<1> DEFINE rest == Remove(eose_actions[a], id)
<1>0. peer' = peer BY DEF SameSocket
<1>c. PICK c \in close_subscription(Session, id) : \E y \in NextAction(c, rest) :
          /\ Become(y)
          /\ stalled' = IF y.ok THEN stalled ELSE stalled \cup {a}
  BY DEF ActionEose
<1>1. PICK y \in NextAction(c, rest) :
          /\ Become(y)
          /\ stalled' = IF y.ok THEN stalled ELSE stalled \cup {a}
  BY <1>c
<1>2. SessionOK(c) /\ Closes(Session, c, id) BY SessionBegins, CloseCases
<1>3. /\ eose_actions' = [eose_actions EXCEPT ![a] = rest] /\ starts' = starts
      /\ rest \subseteq eose_actions[a] /\ rest \in SUBSET Subscription /\ Keyed(rest)
  BY DEF ActionEose, TaskInv, GroupsOK, Remove, Keyed
<1>4. GroupsOK' /\ rest \subseteq Grouped'
  BY <1>1, <1>3 DEF TaskInv, GroupsOK, Grouped
<1>5. Remove(Grouped, id) \subseteq Grouped'
  BY <1>3 DEF TaskInv, GroupsOK, Grouped, Remove
<1>6. /\ Known(c, Grouped') /\ Pending(c) /\ Follows(Session, c)
  BY <1>2, <1>5, SessionBegins, CloseKeeps DEF TaskInv, Known
<1>7. /\ SessionOK(y) /\ Known(y, Grouped') /\ Pending(y)
      /\ peer => Follows(Session, y)
  <2>1. CASE ~(c.ok /\ rest # {})
    <3>1. y = c BY <1>1, <2>1 DEF NextAction
    <3>2. QED BY <3>1, <1>2, <1>6
  <2>2. CASE c.ok /\ rest # {}
    <3> DEFINE s == FirstOf(rest)
    <3>1. y \in subscribe(c, s) BY <1>1, <2>2 DEF NextAction
    <3>2. s \in rest BY <1>3, <2>2, FirstIsLeast
    <3>3. s \in Subscription /\ Grouped' \cup {s} = Grouped' BY <1>3, <1>4, <3>2
    <3> HIDE DEF s, rest
    <3>4. /\ SessionOK(y)
          /\ Opens(c, y, s) \/ FailsToClose(c, y, s) \/ FailsToOpen(c, y, s)
      BY <1>2, <2>2, <3>1, <3>3, SubscribeCases
    <3>5. Known(y, Grouped') /\ Pending(y) /\ (peer => Follows(c, y))
      BY <1>2, <1>6, <3>3, <3>4, SubscribeKeeps
    <3>6. QED BY <1>2, <1>6, <3>4, <3>5 DEF Follows
  <2>3. QED BY <2>1, <2>2
<1>8. TaskInv' BY <1>0, <1>1, <1>4, <1>7, BecomeSession DEF TaskInv, Known, Session
<1>9. MapStep BY <1>0, <1>1, <1>7, SessionBegins DEF MapStep, Follows, Become
<1>10. QED BY <1>8, <1>9

\* Of the session something is closed, or nothing changes.
LEMMA ClosingStep ==
    ASSUME TaskInv, SocketOK', SameSocket, UNCHANGED groupVars, NEW id,
           \/ \E c \in close_subscription(Session, id) : Become(c)
           \/ UNCHANGED sessionVars
    PROVE  TaskInv' /\ MapStep
<1>1. peer' = peer /\ GroupsOK' /\ Grouped' = Grouped
  BY DEF SameSocket, groupVars, GroupsOK, Grouped, TaskInv
<1>2. CASE UNCHANGED sessionVars
  <2>1. Session' = Session BY <1>2 DEF Session, sessionVars
  <2>2. TaskInv' BY <1>1, <2>1 DEF TaskInv, SessionOK, Known, Pending
  <2>3. QED BY <1>2, <2>2 DEF MapStep, sessionVars
<1>3. CASE \E c \in close_subscription(Session, id) : Become(c)
  <2>1. PICK c \in close_subscription(Session, id) : Become(c) BY <1>3
  <2>2. SessionOK(c) /\ Closes(Session, c, id) BY SessionBegins, CloseCases
  <2>3. /\ Known(c, Remove(Grouped, id)) /\ Pending(c) /\ Follows(Session, c)
    BY <2>2, SessionBegins, CloseKeeps DEF TaskInv
  <2>4. Known(c, Grouped) BY <2>3 DEF Known, Remove
  <2>5. TaskInv' BY <1>1, <2>1, <2>2, <2>3, <2>4, BecomeSession DEF TaskInv, Known, Session
  <2>6. MapStep BY <1>1, <2>1, <2>3, SessionBegins DEF MapStep, Follows, Become
  <2>7. QED BY <2>5, <2>6
<1>4. QED BY <1>2, <1>3

LEMMA SubscriptionEoseStep ==
    ASSUME TaskInv, SocketOK', SameSocket, NEW id, SubscriptionEose(id)
    PROVE  TaskInv' /\ MapStep
<1>1. \/ \E c \in close_subscription(Session, id) : Become(c)
      \/ UNCHANGED sessionVars
  BY DEF SubscriptionEose
<1>2. QED BY <1>1, ClosingStep DEF SubscriptionEose

\* The session without a timer that was received.
LEMMA TimerReceived ==
    ASSUME TaskInv, NEW s \in Subscription, Timeout(s)
    PROVE  LET x == [Session EXCEPT !.timers[s] = @ - 1] IN
           /\ SessionOK(x) /\ Known(x, Grouped)
           /\ x.subscriptions = subscriptions /\ x.open = open /\ x.unclosed = unclosed
           /\ x.unanswered = unanswered
           /\ \A r \in Subscription \ {s} : x.timers[r] = timers[r]
<1> DEFINE x == [Session EXCEPT !.timers[s] = @ - 1]
<1>1. timers \in [Subscription -> Nat] /\ timers[s] > 0
  BY SessionBegins DEF TaskInv, SessionOK, Sessions, Timeout
<1>2. [timers EXCEPT ![s] = @ - 1] \in [Subscription -> Nat] BY <1>1
<1>3. x = [Session EXCEPT !.timers = [timers EXCEPT ![s] = @ - 1]] BY DEF Session
<1>4. SessionOK(Session) /\ Known(Session, Grouped) BY DEF TaskInv
<1> HIDE DEF x
<1>5. /\ x.subscriptions = subscriptions /\ x.open = open /\ x.unclosed = unclosed
      /\ x.unanswered = unanswered
      /\ x.timers = [timers EXCEPT ![s] = @ - 1]
      /\ x \in Sessions
  BY <1>2, <1>3, <1>4, SessionBegins DEF SessionOK, Sessions
<1>6. SessionOK(x) BY <1>4, <1>5, SessionBegins DEF SessionOK
<1>7. Known(x, Grouped) BY <1>4, <1>5, SessionBegins DEF Known
<1>8. QED BY <1>1, <1>5, <1>6, <1>7 DEF x

\* A timer that is received closes what the map has of its id.
LEMMA TimeoutStep ==
    ASSUME TaskInv, NEW s \in Subscription, Timeout(s)
    PROVE  TaskInv' /\ MapStep
<1> DEFINE x == [Session EXCEPT !.timers[s] = @ - 1]
<1>1. /\ timers[s] > 0 /\ timers \in [Subscription -> Nat]
      /\ UNCHANGED <<socketVars, switchVars, groupVars>>
      /\ \/ Entry(subscriptions, s.id) # {} /\ \E c \in close_subscription(x, s.id) : Become(c)
         \/ Entry(subscriptions, s.id) = {} /\ Become(x)
  BY DEF Timeout, TaskInv, SessionOK, Session, Sessions
<1>2. peer' = peer /\ GroupsOK' /\ Grouped' = Grouped /\ SocketOK'
  BY <1>1 DEF socketVars, switchVars, groupVars, GroupsOK, Grouped, SocketOK, TaskInv
<1>3. /\ x.subscriptions = subscriptions /\ x.open = open /\ x.unclosed = unclosed
      /\ x.unanswered = unanswered
  BY TimerReceived
<1>4. SessionOK(x) /\ Known(x, Grouped) BY TimerReceived
<1>5. \A r \in Subscription \ {s} : x.timers[r] = timers[r] BY TimerReceived
<1>6. \A r \in (open \cap subscriptions) \ unclosed :
          r \in Subscription /\ (r.sub_type = "EOSE" /\ r.timeout => timers[r] > 0)
  BY SessionBegins DEF TaskInv, Pending, SessionOK, Sessions
<1> HIDE DEF x
<1>7. CASE Entry(subscriptions, s.id) = {} /\ Become(x)
  <2>1. s \notin subscriptions BY <1>7 DEF Entry
  <2>2. Pending(x) BY <1>3, <1>5, <1>6, <2>1 DEF Pending
  <2>3. TaskInv' BY <1>2, <1>4, <1>7, <2>2, BecomeSession DEF TaskInv, Known, Session
  <2>4. QED BY <2>3, <1>3, <1>7 DEF MapStep, Become
<1>8. CASE Entry(subscriptions, s.id) # {} /\ \E c \in close_subscription(x, s.id) : Become(c)
  <2>1. PICK c \in close_subscription(x, s.id) : Become(c) BY <1>8
  <2>2. SessionOK(c) /\ Closes(x, c, s.id) BY <1>4, CloseCases
  <2>3. Known(c, Grouped) BY <1>4, <2>2, CloseKeeps DEF Known, Remove
  <2>4. Follows(x, c) BY <1>4, <2>2, CloseKeeps
  <2>5. /\ s \notin (c.open \cap c.subscriptions) \ c.unclosed
        /\ c.timers = x.timers
        /\ (c.open \cap c.subscriptions) \ c.unclosed \subseteq (open \cap subscriptions) \ unclosed
    BY <1>3, <2>2 DEF Closes, Entry, Remove
  <2>6. Pending(c) BY <1>5, <1>6, <2>5 DEF Pending
  <2>7. TaskInv' BY <1>2, <2>1, <2>2, <2>3, <2>6, BecomeSession DEF TaskInv, Known, Session
  <2>8. MapStep BY <1>2, <1>3, <2>1, <2>4 DEF MapStep, Follows, Become
  <2>9. QED BY <2>7, <2>8
<1>9. QED BY <1>1, <1>7, <1>8

\* An input handled in the Connected state.
LEMMA InputStep ==
    ASSUME TaskInv, UNCHANGED socketVars, NEW i, InputOK(i), handle_other_inputs_connected(i)
    PROVE  TaskInv' /\ MapStep
<1>1. SameSocket BY DEF SameSocket, socketVars, TaskInv, SocketOK
<1>2. ASSUME UNCHANGED switchVars PROVE SocketOK'
  BY <1>2 DEF switchVars, socketVars, SocketOK, TaskInv
<1>3. CASE i.kind = "Subscribe" /\ Subscribe(i.subscription)
  BY <1>1, <1>2, <1>3, SubscribeStep DEF Subscribe, InputOK
<1>4. CASE i.kind = "EoseActions" /\ EoseActions(i.action_id, i.subscriptions)
  BY <1>1, <1>2, <1>4, EoseActionsStep DEF EoseActions, InputOK
<1>5. CASE /\ i.kind \notin {"Subscribe", "EoseActions"}
           /\ UNCHANGED <<sessionVars, groupVars>>
           /\ read' \in BOOLEAN /\ write' \in BOOLEAN
  <2>1. SocketOK' BY <1>5 DEF TaskInv, SocketOK, socketVars
  <2>2. QED BY <1>1, <1>5, <2>1, ClosingStep
<1>6. /\ TaskInv => read \in BOOLEAN /\ write \in BOOLEAN
      /\ i.kind = "ToggleRead" => i.read \in BOOLEAN
      /\ i.kind = "ToggleWrite" => i.write \in BOOLEAN
  BY DEF TaskInv, SocketOK, InputOK
<1>7. QED
  BY <1>3, <1>4, <1>5, <1>6
     DEF handle_other_inputs_connected, ToggleRead, ToggleWrite, switchVars

LEMMA EoseStep ==
    ASSUME TaskInv, check_eose
    PROVE  TaskInv' /\ MapStep
<1>1. SameSocket /\ SocketOK'
  <2>1. answers \in Seq(Subscription) /\ answers # <<>> /\ answers' = Tail(answers)
    BY DEF check_eose, TaskInv, SocketOK
  <2>2. answers' \in Seq(Subscription) BY <2>1, RangeOfList
  <2>3. QED BY <2>2 DEF check_eose, SameSocket, SocketOK, TaskInv, switchVars
<1>2. CASE SubscriptionEose(Head(answers).id) BY <1>1, <1>2, SubscriptionEoseStep
<1>3. CASE \E a \in ActionId : ActionEose(a, Head(answers).id) BY <1>1, <1>3, ActionEoseStep
<1>4. QED BY <1>2, <1>3 DEF check_eose

\* An input that finds the task in another state.
LEMMA InputOtherStep ==
    ASSUME TaskInv, UNCHANGED socketVars, NEW i, InputOK(i), handle_input_disconnected_other(i)
    PROVE  TaskInv' /\ MapStep
<1>1. /\ UNCHANGED <<sessionVars, groupVars>>
      /\ read' \in BOOLEAN /\ write' \in BOOLEAN
  BY DEF handle_input_disconnected_other, ToggleRead, ToggleWrite, switchVars, InputOK, TaskInv,
         SocketOK
<1>2. SocketOK' /\ SameSocket
  BY <1>1 DEF TaskInv, SocketOK, SameSocket, socketVars
<1>3. QED BY <1>1, <1>2, ClosingStep

\* The connection comes and goes, the relay answers or is gone.
LEMMA ConnectionStep ==
    ASSUME TaskInv,
           \/ Connect \/ ConnectionLost \/ CloseReceived \/ PeerGone
           \/ \E r \in Subscription : AnswerEose(r)
    PROVE  TaskInv' /\ MapStep
<1>1. /\ SocketOK /\ GroupsOK /\ SessionOK(Session)
      /\ Known(Session, Grouped) /\ Pending(Session)
      /\ Session.ok /\ Session.open = open /\ Session.subscriptions = subscriptions
      /\ Session.unclosed = unclosed /\ Session.unanswered = unanswered /\ Session.timers = timers
      /\ \A s \in open : s \in Subscription
      /\ Session \in Sessions
  BY SessionBegins DEF TaskInv, SessionOK, Sessions
<1> DEFINE gone == [ok |-> TRUE, subscriptions |-> subscriptions, timers |-> timers,
                    open |-> {}, unanswered |-> {}, unclosed |-> {}]
<1>2. /\ gone.ok /\ gone.open = {} /\ gone.unanswered = {} /\ gone.unclosed = {}
      /\ gone.subscriptions = subscriptions /\ gone.timers = timers
      /\ gone \in Sessions
  BY <1>1 DEF Sessions
<1>3. CASE Connect
  <2>1. Session' = Session /\ GroupsOK' /\ Grouped' = Grouped /\ SocketOK'
    BY <1>1, <1>3
       DEF Connect, sessionVars, groupVars, switchVars, Session, GroupsOK, Grouped, SocketOK
  <2>2. SessionOK(Session)' BY <1>1, <1>3, <2>1 DEF Connect, SessionOK
  <2>3. TaskInv' BY <1>1, <2>1, <2>2 DEF TaskInv, Known, Pending
  <2>4. QED BY <1>3, <2>3 DEF MapStep, Connect, sessionVars
<1>4. CASE Disconnect
  <2>1. Session' = gone BY <1>4 DEF Disconnect, Session
  <2>2. SocketOK' /\ GroupsOK' /\ Grouped' = Grouped
    BY <1>1, <1>4, EmptySeq DEF Disconnect, SocketOK, GroupsOK, Grouped, switchVars
  <2>3. SessionOK(Session)'
    <3>1. SessionOK(gone) BY <1>1, <1>2 DEF SessionOK, Keyed
    <3> HIDE DEF gone
    <3>2. /\ gone \in Sessions /\ Keyed(gone.subscriptions) /\ Keyed(gone.open)
          /\ gone.unanswered \subseteq gone.open /\ gone.unclosed \subseteq gone.open
      BY <3>1 DEF SessionOK
    <3>3. QED BY <1>2, <2>1, <3>2 DEF SessionOK
  <2> HIDE DEF gone
  <2>4. Known(Session, Grouped)' /\ Pending(Session)' BY <1>2, <2>1 DEF Known, Pending
  <2>5. TaskInv' BY <2>2, <2>3, <2>4 DEF TaskInv
  <2>6. QED BY <1>4, <2>5 DEF MapStep, Disconnect
<1>5. CASE PeerGone
  <2>1. Session' = gone BY <1>5 DEF PeerGone, Session
  <2>2. SocketOK' /\ GroupsOK' /\ Grouped' = Grouped
    BY <1>1, <1>5 DEF PeerGone, SocketOK, GroupsOK, Grouped, switchVars, groupVars
  <2>3. SessionOK(Session)'
    <3>1. SessionOK(gone) BY <1>1, <1>2 DEF SessionOK, Keyed
    <3> HIDE DEF gone
    <3>2. /\ gone \in Sessions /\ Keyed(gone.subscriptions) /\ Keyed(gone.open)
          /\ gone.unanswered \subseteq gone.open /\ gone.unclosed \subseteq gone.open
      BY <3>1 DEF SessionOK
    <3>3. QED BY <1>2, <2>1, <3>2 DEF SessionOK
  <2> HIDE DEF gone
  <2>4. Known(Session, Grouped)' /\ Pending(Session)' BY <1>2, <2>1 DEF Known, Pending
  <2>5. TaskInv' BY <2>2, <2>3, <2>4 DEF TaskInv
  <2>6. QED BY <1>5, <2>5 DEF MapStep, PeerGone
<1>6. ASSUME NEW r \in Subscription, AnswerEose(r) PROVE TaskInv' /\ MapStep
  <2>1. Session' = [ok |-> TRUE, subscriptions |-> subscriptions, timers |-> timers,
                    open |-> open, unanswered |-> unanswered \ {r}, unclosed |-> unclosed]
    BY <1>6 DEF AnswerEose, Session
  <2>2. SocketOK' /\ GroupsOK' /\ Grouped' = Grouped
    BY <1>1, <1>6, AppendProperties
       DEF AnswerEose, SocketOK, GroupsOK, Grouped, switchVars, groupVars
  <2>3. SessionOK(Session)' BY <1>1, <1>6, <2>1 DEF SessionOK, Sessions, Keyed, AnswerEose
  <2>4. Known(Session, Grouped)' /\ Pending(Session)'
    BY <1>1, <2>1, <2>2 DEF Known, Pending, Sessions
  <2>5. TaskInv' BY <2>2, <2>3, <2>4 DEF TaskInv
  <2>6. QED BY <1>6, <2>5 DEF MapStep, AnswerEose
<1>7. QED BY <1>3, <1>4, <1>5, <1>6 DEF ConnectionLost, CloseReceived

LEMMA TaskStutters ==
    ASSUME TaskInv, UNCHANGED <<socketVars, switchVars, sessionVars, groupVars>>
    PROVE  TaskInv' /\ MapStep
<1>1. SocketOK' /\ SameSocket
  BY DEF TaskInv, SocketOK, SameSocket, socketVars, switchVars
<1>2. QED BY <1>1, ClosingStep

-----------------------------------------------------------------------------
(* The task with its queue. *)

TypeInv == TaskInv /\ input_queue \in Seq(Inputs) /\ Len(input_queue) \in QueueLengths

LEMMA InitType == Init => TypeInv
<1> SUFFICES ASSUME Init PROVE TypeInv OBVIOUS
<1>1. Session \in Sessions BY DEF Init, Session, Sessions
<1>2. SessionOK(Session) BY <1>1 DEF Init, SessionOK, Session, Keyed
<1>3. SocketOK /\ GroupsOK BY EmptySeq DEF Init, SocketOK, GroupsOK, Keyed
<1>4. Known(Session, Grouped) /\ Pending(Session) BY DEF Init, Known, Pending, Session
<1>5. input_queue \in Seq(Inputs) /\ Len(input_queue) \in QueueLengths
  BY EmptySeq, TrafficAssumption DEF Init
<1>6. QED BY <1>2, <1>3, <1>4, <1>5 DEF TypeInv, TaskInv

LEMMA NextType == TypeInv /\ [Next]_vars => TypeInv' /\ MapStep
<1> SUFFICES ASSUME TypeInv, [Next]_vars PROVE TypeInv' /\ MapStep OBVIOUS
<1>1. /\ TaskInv /\ input_queue \in Seq(Inputs) /\ Len(input_queue) \in Nat
      /\ Len(input_queue) \in QueueLengths
      /\ \A i \in Inputs : InputOK(i)
  BY LenProperties, TrafficAssumption DEF TypeInv
<1>2. ASSUME UNCHANGED input_queue, TaskInv' /\ MapStep PROVE TypeInv' /\ MapStep
  BY <1>1, <1>2 DEF TypeInv
<1>3. CASE ReceiveInput
  <2>1. PICK i \in Inputs :
            \/ Selecting /\ handle_other_inputs_connected(i) /\ UNCHANGED input_queue
            \/ ~online /\ handle_input_disconnected_other(i)
    BY <1>3 DEF ReceiveInput
  <2>2. CASE Selecting /\ handle_other_inputs_connected(i) /\ UNCHANGED input_queue
    BY <1>1, <1>2, <1>3, <2>2, InputStep DEF ReceiveInput
  <2>3. CASE ~online /\ handle_input_disconnected_other(i)
    <3>1. TaskInv' /\ MapStep BY <1>1, <1>3, <2>3, InputOtherStep DEF ReceiveInput
    <3>2. \/ UNCHANGED input_queue
          \/ Len(input_queue) + 1 \in QueueLengths /\ input_queue' = Append(input_queue, i)
      BY <2>3 DEF handle_input_disconnected_other
    <3>3. input_queue' \in Seq(Inputs) /\ Len(input_queue') \in QueueLengths
      BY <1>1, <3>2, AppendProperties
    <3>4. QED BY <3>1, <3>3 DEF TypeInv
  <2>4. QED BY <2>1, <2>2, <2>3
<1>4. CASE HandleQueued
  <2>1. /\ Head(input_queue) \in Inputs
        /\ input_queue' \in Seq(Inputs) /\ Len(input_queue') \in QueueLengths
    <3>1. /\ Head(input_queue) \in Inputs /\ input_queue' \in Seq(Inputs)
          /\ Len(input_queue') = Len(input_queue) - 1 /\ Len(input_queue) # 0
      BY <1>1, <1>4, HeadTailProperties, EmptySeq DEF HandleQueued
    <3>2. Len(input_queue') \in 0 .. Len(input_queue) BY <1>1, <3>1
    <3>3. QED BY <1>1, <3>1, <3>2, TrafficAssumption
  <2>2. TaskInv' /\ MapStep BY <1>1, <1>4, <2>1, InputStep DEF HandleQueued
  <2>3. QED BY <2>1, <2>2 DEF TypeInv
<1>5. CASE check_eose BY <1>1, <1>2, <1>5, EoseStep DEF check_eose
<1>6. CASE \E s \in Subscription : Timeout(s) BY <1>1, <1>2, <1>6, TimeoutStep DEF Timeout
<1>7. CASE \/ Connect \/ ConnectionLost \/ CloseReceived \/ PeerGone
           \/ \E r \in Subscription : AnswerEose(r)
  <2>1. UNCHANGED input_queue
    BY <1>7 DEF Connect, ConnectionLost, CloseReceived, Disconnect, PeerGone, AnswerEose
  <2>2. QED BY <1>1, <1>2, <1>7, <2>1, ConnectionStep
<1>8. CASE UNCHANGED vars BY <1>1, <1>2, <1>8, TaskStutters DEF vars
<1>9. QED BY <1>3, <1>4, <1>5, <1>6, <1>7, <1>8 DEF Next

LEMMA TypeInvariant == Spec => []TypeInv
BY InitType, NextType, PTL DEF Spec

\* Every variable has its type: the maps have one value of an id, a relay that is gone
\* has no request open, and every answer expected or given up is of one that is.
THEOREM TrafficTyped == Spec => []TypeOK
<1>1. TypeInv => TypeOK
  <2> SUFFICES ASSUME TypeInv PROVE TypeOK OBVIOUS
  <2>1. /\ Session.subscriptions = subscriptions /\ Session.open = open
        /\ Session.unclosed = unclosed /\ Session.timers = timers
        /\ Session.unanswered = unanswered
    BY SessionBegins DEF TypeInv
  <2>2. QED BY <2>1 DEF TypeInv, TaskInv, SocketOK, GroupsOK, SessionOK, Sessions, TypeOK
<1>2. QED BY <1>1, TypeInvariant, PTL

\* A request open at the relay is one the task has in its map or in a group, or one it
\* has given up, for any inputs, ids shared by groups and subscriptions included.
THEOREM RequestsKnown == Spec => []RequestsAreKnown
<1>1. TypeInv => RequestsAreKnown
  <2> SUFFICES ASSUME TypeInv PROVE RequestsAreKnown OBVIOUS
  <2>1. Grouped \subseteq UNION Range(eose_actions)
    BY DEF TypeInv, TaskInv, GroupsOK, Grouped, Range
  <2>2. QED BY <2>1 DEF TypeInv, TaskInv, Known, Session, RequestsAreKnown
<1>2. QED BY <1>1, TypeInvariant, PTL

\* An open subscription with a timeout has a timer to come, unless its CLOSE failed.
THEOREM TimersPending == Spec => []TimerIsPending
<1>1. TypeInv => TimerIsPending
  BY DEF TypeInv, TaskInv, Pending, Session, TimerIsPending
<1>2. QED BY <1>1, TypeInvariant, PTL

\* While the relay is there, the map follows what is opened and closed at it.
THEOREM MapFollows == Spec => MapFollowsRequests
<1>1. TypeInv /\ [Next]_vars =>
          [peer /\ peer' => \A s \in Subscription :
               s \in subscriptions' /\ (s \notin subscriptions \/ s \in open) => s \in open']_vars
  BY NextType DEF MapStep
<1>2. QED BY <1>1, TypeInvariant, PTL DEF Spec, MapFollowsRequests

-----------------------------------------------------------------------------
(* Groups that have ids of their own. *)

\* An id the groups named a are not given.
Foreign(a, id) == \A r \in Listed(a) : r.id # id

OwnInv ==
    \A a \in ActionId :
        /\ eose_actions[a] \subseteq Listed(a)
        /\ a \in OwnIds => \A s \in subscriptions : Foreign(a, s.id)

\* Of what x has open and unanswered y differs only in the requests of ids in I.
Around(x, y, I) ==
    /\ y.subscriptions \subseteq x.subscriptions
    /\ peer => \A r \in Subscription : r.id \notin I =>
           (r \in x.open <=> r \in y.open) /\ (r \in x.unanswered <=> r \in y.unanswered)

\* The same of a step.
Leaves(I) ==
    peer => \A r \in Subscription : r.id \notin I =>
        (r \in open <=> r \in open') /\ (r \in unanswered <=> r \in unanswered')

\* A request of the group is still to be answered.
Coming(a) == \E s \in eose_actions[a] : s \in open /\ (s \in unanswered \/ s \in Range(answers))

ProgressInv ==
    /\ ~online => \A a \in ActionId \ stalled : eose_actions[a] = {}
    /\ peer => \A a \in ActionId \ stalled : a \in OwnIds /\ eose_actions[a] # {} => Coming(a)

LEMMA CloseAround ==
    ASSUME NEW x, NEW id, NEW c, Closes(x, c, id)
    PROVE  Around(x, c, {id})
BY DEF Closes, Around, Remove

LEMMA SubscribeAround ==
    ASSUME NEW x, NEW s, NEW y,
           Opens(x, y, s) \/ FailsToClose(x, y, s) \/ FailsToOpen(x, y, s)
    PROVE  /\ Around(x, y, {s.id})
           /\ Opens(x, y, s) /\ peer => s \in y.open /\ s \in y.unanswered
BY DEF Opens, FailsToClose, FailsToOpen, Around, Insert, Remove

\* What each handler does to the groups and to the requests of other ids.
LEMMA SubscribeEffect ==
    ASSUME TaskInv, NEW s \in Subscription, Subscribe(s)
    PROVE  /\ UNCHANGED groupVars
           /\ subscriptions' \subseteq subscriptions \cup {s}
           /\ Leaves({s.id})
<1>1. PICK x \in subscribe(Session, s) :
          Become(IF x.ok THEN [x EXCEPT !.subscriptions = Insert(@, s)] ELSE x)
  BY DEF Subscribe
<1>2. SessionOK(x) /\ Around(Session, x, {s.id})
  BY SessionBegins, SubscribeCases, SubscribeAround
<1>3. /\ subscriptions' \subseteq x.subscriptions \cup {s}
      /\ open' = x.open /\ unanswered' = x.unanswered
  BY <1>1, <1>2 DEF Become, SessionOK, Sessions, Insert, Remove
<1>4. Leaves({s.id}) /\ subscriptions' \subseteq subscriptions \cup {s}
  BY <1>2, <1>3, SessionBegins DEF Around, Leaves
<1>5. QED BY <1>4 DEF Subscribe, groupVars

LEMMA EoseActionsEffect ==
    ASSUME TaskInv, NEW a \in ActionId, NEW list \in Seq(Subscription), EoseActions(a, list)
    PROVE  \/ UNCHANGED <<sessionVars, groupVars>>
           \/ /\ list # <<>> /\ Head(list) \in Subscription /\ Head(list) \in Range(list)
              /\ subscriptions' \subseteq subscriptions
              /\ \/ Leaves({}) /\ UNCHANGED groupVars
                 \/ /\ eose_actions' = [eose_actions EXCEPT ![a] = Range(list)]
                    /\ stalled' = stalled \ {a}
                    /\ starts' = [starts EXCEPT ![a] = @ + 1]
                    /\ Leaves({Head(list).id})
                    /\ peer => Head(list) \in open' /\ Head(list) \in unanswered'
<1>1. CASE list = <<>> BY <1>1 DEF EoseActions
<1>2. CASE list # <<>>
  <2> DEFINE s == Head(list)
  <2>1. s \in Subscription /\ s \in Range(list) BY <1>2, RangeOfList
  <2>2. PICK x \in subscribe(Session, s) :
            \/ /\ x.ok
               /\ eose_actions' = [eose_actions EXCEPT ![a] = Range(list)]
               /\ stalled' = stalled \ {a}
               /\ starts' = [starts EXCEPT ![a] = @ + 1]
               /\ Become([x EXCEPT !.unclosed = @ \cup ((x.open \cap eose_actions[a]) \ {s})])
            \/ ~x.ok /\ Become(x) /\ UNCHANGED groupVars
    BY <1>2 DEF EoseActions
  <2> HIDE DEF s
  <2>3. /\ SessionOK(x) /\ Around(Session, x, {s.id})
        /\ x.ok /\ peer => s \in x.open /\ s \in x.unanswered
        /\ ~x.ok => Around(Session, x, {})
    <3>1. /\ SessionOK(x)
          /\ Opens(Session, x, s) \/ FailsToClose(Session, x, s) \/ FailsToOpen(Session, x, s)
      BY <2>1, SessionBegins, SubscribeCases
    <3>2. x.ok => Opens(Session, x, s) BY <3>1 DEF FailsToClose, FailsToOpen
    <3>3. ~x.ok => Around(Session, x, {})
      BY <3>1, SessionBegins DEF Opens, FailsToClose, FailsToOpen, Around, Remove
    <3>4. QED BY <3>1, <3>2, <3>3, SubscribeAround
  <2>4. /\ subscriptions' = x.subscriptions
        /\ open' = x.open /\ unanswered' = x.unanswered
    BY <2>2, <2>3 DEF Become, SessionOK, Sessions
  <2>5. /\ Leaves({s.id}) /\ subscriptions' \subseteq subscriptions
        /\ ~x.ok => Leaves({})
    BY <2>3, <2>4, SessionBegins DEF Around, Leaves
  <2>6. \/ Leaves({}) /\ UNCHANGED groupVars
        \/ /\ eose_actions' = [eose_actions EXCEPT ![a] = Range(list)]
           /\ stalled' = stalled \ {a}
           /\ starts' = [starts EXCEPT ![a] = @ + 1]
           /\ peer => s \in open' /\ s \in unanswered'
    BY <2>2, <2>3, <2>4, <2>5
  <2>7. QED BY <1>2, <2>1, <2>5, <2>6 DEF s
<1>3. QED BY <1>1, <1>2

LEMMA ActionEoseEffect ==
    ASSUME TaskInv, NEW a \in ActionId, NEW id, ActionEose(a, id)
    PROVE  /\ Entry(eose_actions[a], id) # {}
           /\ subscriptions' \subseteq subscriptions
           /\ eose_actions' = [eose_actions EXCEPT ![a] = Remove(eose_actions[a], id)]
           /\ stalled' \in {stalled, stalled \cup {a}} /\ starts' = starts
           /\ LET rest == Remove(eose_actions[a], id) IN
              \/ Leaves({id}) /\ (rest = {} \/ a \in stalled')
              \/ \E s \in rest : /\ Leaves({id, s.id}) /\ \A r \in open' : r.id # id
                                 /\ a \in stalled' \/ (peer => s \in open' /\ s \in unanswered')
<1> DEFINE rest == Remove(eose_actions[a], id)
<1>0. /\ Entry(eose_actions[a], id) # {}
      /\ eose_actions' = [eose_actions EXCEPT ![a] = rest]
      /\ rest \in SUBSET Subscription
  BY DEF ActionEose, TaskInv, GroupsOK, Remove
<1>c. PICK c \in close_subscription(Session, id) : \E y \in NextAction(c, rest) :
          /\ Become(y)
          /\ stalled' = IF y.ok THEN stalled ELSE stalled \cup {a}
  BY DEF ActionEose
<1>1. PICK y \in NextAction(c, rest) :
          /\ Become(y)
          /\ stalled' = IF y.ok THEN stalled ELSE stalled \cup {a}
  BY <1>c
<1>2. SessionOK(c) /\ Around(Session, c, {id}) BY SessionBegins, CloseCases, CloseAround
<1>3. stalled' \in {stalled, stalled \cup {a}} /\ starts' = starts BY <1>1 DEF ActionEose
<1> HIDE DEF rest
<1>4. CASE ~(c.ok /\ rest # {})
  <2>1. y = c BY <1>1, <1>4 DEF NextAction
  <2>2. subscriptions' \subseteq subscriptions /\ Leaves({id})
    BY <1>1, <1>2, <2>1, SessionBegins DEF Become, Around, Leaves
  <2>3. rest = {} \/ a \in stalled' BY <1>1, <1>4, <2>1
  <2>4. QED BY <1>0, <1>3, <2>2, <2>3 DEF rest
<1>5. CASE c.ok /\ rest # {}
  <2> DEFINE s == FirstOf(rest)
  <2>1. s \in rest /\ s \in Subscription BY <1>0, <1>5, FirstIsLeast
  <2>2. y \in subscribe(c, s) BY <1>1, <1>5 DEF NextAction
  <2> HIDE DEF s
  <2>3. /\ Around(c, y, {s.id})
        /\ y.ok /\ peer => s \in y.open /\ s \in y.unanswered
    BY <1>2, <1>5, <2>1, <2>2, SubscribeCases, SubscribeAround DEF FailsToClose, FailsToOpen
  <2>4. Around(Session, y, {id, s.id})
    BY <1>2, <2>3, SessionBegins DEF Around
  <2>5. subscriptions' \subseteq subscriptions /\ Leaves({id, s.id})
    BY <1>1, <2>4, SessionBegins DEF Become, Around, Leaves
  <2>6. a \in stalled' \/ (peer => s \in open' /\ s \in unanswered')
    BY <1>1, <2>3 DEF Become
  <2>7. \A r \in open' : r.id # id
    <3>1. c.open = Remove(open, id)
      <4>1. Closes(Session, c, id) BY CloseCases, SessionBegins
      <4>2. QED BY <1>5, <4>1, SessionBegins DEF Closes
    <3>2. s.id # id BY <2>1 DEF rest, Remove
    <3>3. y.open \subseteq c.open \cup {s}
      <4>1. Opens(c, y, s) \/ FailsToClose(c, y, s) \/ FailsToOpen(c, y, s)
        BY <1>2, <1>5, <2>1, <2>2, SubscribeCases
      <4>2. QED BY <4>1 DEF Opens, FailsToClose, FailsToOpen, Insert, Remove
    <3>4. QED BY <1>1, <3>1, <3>2, <3>3 DEF Become, Remove
  <2>8. QED BY <1>0, <1>3, <2>1, <2>5, <2>6, <2>7 DEF rest
<1>6. QED BY <1>4, <1>5

LEMMA SubscriptionEoseEffect ==
    ASSUME TaskInv, NEW id, SubscriptionEose(id)
    PROVE  /\ UNCHANGED groupVars
           /\ subscriptions' \subseteq subscriptions
           /\ Leaves({id}) /\ open' \subseteq open /\ unanswered' \subseteq unanswered
           /\ \A a \in ActionId : Entry(eose_actions[a], id) = {}
<1>1. CASE \E c \in close_subscription(Session, id) : Become(c)
  <2>1. PICK c \in close_subscription(Session, id) : Become(c) BY <1>1
  <2>2. Around(Session, c, {id}) BY SessionBegins, CloseCases, CloseAround
  <2>3. c.open \subseteq open /\ c.unanswered \subseteq unanswered
    <3>1. Closes(Session, c, id) BY <2>1, SessionBegins, CloseCases
    <3>2. QED BY <3>1, SessionBegins DEF Closes, Remove
  <2>4. QED
    BY <2>1, <2>2, <2>3, SessionBegins DEF Become, Around, Leaves, SubscriptionEose, groupVars
<1>2. CASE UNCHANGED sessionVars
  BY <1>2 DEF sessionVars, Leaves, SubscriptionEose, groupVars
<1>3. QED BY <1>1, <1>2 DEF SubscriptionEose

LEMMA TimeoutEffect ==
    ASSUME TaskInv, NEW s \in Subscription, Timeout(s)
    PROVE  /\ UNCHANGED <<groupVars, answers, online, peer, read, write, input_queue>>
           /\ subscriptions' \subseteq subscriptions
           /\ Leaves({r.id : r \in subscriptions} \cap {s.id})
<1> DEFINE x == [Session EXCEPT !.timers[s] = @ - 1]
<1>1. /\ x.subscriptions = subscriptions /\ x.open = open /\ x.unclosed = unclosed
      /\ x.unanswered = unanswered
      /\ SessionOK(x)
  BY TimerReceived
<1>2. UNCHANGED <<groupVars, answers, online, peer, read, write, input_queue>>
  BY DEF Timeout, socketVars, switchVars
<1>3. CASE Entry(subscriptions, s.id) = {} /\ Become(x)
  BY <1>1, <1>2, <1>3 DEF Become, Leaves
<1>4. CASE Entry(subscriptions, s.id) # {} /\ \E c \in close_subscription(x, s.id) : Become(c)
  <2> HIDE DEF x
  <2>1. PICK c \in close_subscription(x, s.id) : Become(c) BY <1>4
  <2>2. Around(x, c, {s.id}) BY <1>1, CloseCases, CloseAround
  <2>3. subscriptions' \subseteq subscriptions /\ Leaves({s.id})
    BY <1>1, <2>1, <2>2 DEF Become, Around, Leaves
  <2>4. {r.id : r \in subscriptions} \cap {s.id} = {s.id} BY <1>4 DEF Entry
  <2>5. QED BY <1>2, <2>3, <2>4
<1>5. QED BY <1>3, <1>4 DEF Timeout

\* Such a group has no id in common with the map or with another group.
LEMMA OwnApart ==
    ASSUME TaskInv, OwnInv
    PROVE  /\ \A a \in ActionId : \A r \in eose_actions[a] :
                  /\ r \in Subscription /\ r \in Listed(a)
                  /\ a \in OwnIds => \A s \in subscriptions : s.id # r.id
           /\ \A a, b \in ActionId : a \in OwnIds /\ a # b =>
                  \A r \in Listed(a), q \in Listed(b) : r.id # q.id
BY DEF TaskInv, GroupsOK, OwnIds, OwnInv, Foreign

LEMMA ComingKept ==
    ASSUME NEW a \in ActionId, eose_actions'[a] = eose_actions[a], Coming(a), peer,
           NEW I, Leaves(I), \A r \in eose_actions[a] : r \in Subscription /\ r.id \notin I,
           \A r \in eose_actions[a] : r \in Range(answers) => r \in Range(answers')
    PROVE  Coming(a)'
BY DEF Coming, Leaves

\* A step that changes no group, and nothing of the ids such groups have.
LEMMA ForeignStep ==
    ASSUME TaskInv, OwnInv, ProgressInv, UNCHANGED <<eose_actions, stalled, online, peer>>,
           \A a \in ActionId : a \in OwnIds =>
               \A s \in subscriptions' \ subscriptions : Foreign(a, s.id),
           NEW I, Leaves(I),
           \A a \in ActionId : a \in OwnIds => \A r \in eose_actions[a] : r.id \notin I,
           \A a \in ActionId : \A r \in eose_actions[a] :
               r \in Range(answers) => r \in Range(answers')
    PROVE  OwnInv' /\ ProgressInv'
<1>1. OwnInv' BY DEF OwnInv, Foreign
<1>2. ProgressInv' BY OwnApart, ComingKept DEF ProgressInv
<1>3. QED BY <1>1, <1>2

LEMMA InputProgress ==
    ASSUME TaskInv, OwnInv, ProgressInv, UNCHANGED socketVars, online,
           NEW i \in Inputs, handle_other_inputs_connected(i)
    PROVE  OwnInv' /\ ProgressInv'
<1>0. InputOK(i) /\ UNCHANGED <<online, peer, answers>> BY TrafficAssumption DEF socketVars
<1>1. CASE i.kind = "Subscribe" /\ Subscribe(i.subscription)
  <2> DEFINE s == i.subscription
  <2>1. s \in Subscription /\ \A a \in ActionId : a \in OwnIds => Foreign(a, s.id)
    BY <1>0, <1>1 DEF InputOK, OwnIds, Foreign
  <2>2. /\ UNCHANGED <<eose_actions, stalled>>
        /\ subscriptions' \subseteq subscriptions \cup {s} /\ Leaves({s.id})
    BY <1>1, <2>1, SubscribeEffect DEF groupVars
  <2>3. \A a \in ActionId : a \in OwnIds => \A r \in eose_actions[a] : r.id \notin {s.id}
    BY <2>1 DEF OwnInv, Foreign
  <2> HIDE DEF s
  <2>4. \A a \in ActionId : a \in OwnIds =>
            \A r \in subscriptions' \ subscriptions : Foreign(a, r.id)
    BY <2>1, <2>2
  <2>5. QED BY <1>0, <2>2, <2>3, <2>4, ForeignStep
<1>2. CASE i.kind = "EoseActions" /\ EoseActions(i.action_id, i.subscriptions)
  <2> DEFINE a == i.action_id
             list == i.subscriptions
             s == Head(list)
  <2>1. /\ a \in ActionId /\ list \in Seq(Subscription)
        /\ Range(list) \subseteq Listed(a)
    BY <1>0, <1>2 DEF InputOK, Listed
  <2>2. EoseActions(a, list) BY <1>2
  <2> HIDE DEF a, list
  <2>3. CASE UNCHANGED <<sessionVars, groupVars>>
    <3>1. Leaves({}) /\ UNCHANGED <<subscriptions, eose_actions, stalled>>
      BY <2>3 DEF Leaves, sessionVars, groupVars
    <3>2. QED BY <1>0, <3>1, ForeignStep
  <2>4. CASE subscriptions' \subseteq subscriptions /\ Leaves({}) /\ UNCHANGED groupVars
    BY <1>0, <2>4, ForeignStep DEF groupVars
  <2>5. CASE /\ list # <<>> /\ s \in Subscription /\ s \in Range(list)
             /\ subscriptions' \subseteq subscriptions
             /\ eose_actions' = [eose_actions EXCEPT ![a] = Range(list)]
             /\ stalled' = stalled \ {a}
             /\ starts' = [starts EXCEPT ![a] = @ + 1]
             /\ Leaves({s.id})
             /\ peer => s \in open' /\ s \in unanswered'
    <3> HIDE DEF s
    <3>1. /\ eose_actions'[a] = Range(list)
          /\ \A b \in ActionId \ {a} : eose_actions'[b] = eose_actions[b]
      BY <2>1, <2>5 DEF TaskInv, GroupsOK
    <3>2. OwnInv' BY <2>1, <2>5, <3>1 DEF OwnInv, Foreign
    <3>3. ASSUME NEW b \in ActionId \ {a}, b \in OwnIds, peer, Coming(b) PROVE Coming(b)'
      <4>1. \A r \in eose_actions[b] : r \in Subscription /\ r.id \notin {s.id}
        BY <2>1, <2>5, <3>3, OwnApart
      <4>2. QED BY <1>0, <2>5, <3>1, <3>3, <4>1, ComingKept
    <3>4. peer => Coming(a)' BY <2>5, <3>1 DEF Coming
    <3>5. ProgressInv' BY <1>0, <2>1, <2>5, <3>1, <3>3, <3>4 DEF ProgressInv
    <3>6. QED BY <3>2, <3>5
  <2>6. QED BY <2>1, <2>2, <2>3, <2>4, <2>5, EoseActionsEffect DEF s
<1>3. CASE UNCHANGED <<sessionVars, groupVars>>
  <2>1. Leaves({}) /\ UNCHANGED <<subscriptions, eose_actions, stalled>>
    BY <1>3 DEF Leaves, sessionVars, groupVars
  <2>2. QED BY <1>0, <2>1, ForeignStep
<1>4. QED BY <1>1, <1>2, <1>3 DEF handle_other_inputs_connected, ToggleRead, ToggleWrite

LEMMA EoseProgress ==
    ASSUME TaskInv, OwnInv, ProgressInv, check_eose
    PROVE  OwnInv' /\ ProgressInv'
<1> DEFINE id == Head(answers).id
<1>1. /\ UNCHANGED <<online, peer>> /\ online
      /\ answers \in Seq(Subscription) /\ answers # <<>> /\ answers' = Tail(answers)
  BY DEF check_eose, Selecting, TaskInv, SocketOK
<1>2. \A r \in Subscription : r.id # id /\ r \in Range(answers) => r \in Range(answers')
  BY <1>1, RangeOfList
<1> HIDE DEF id
<1>3. CASE SubscriptionEose(id)
  <2>1. /\ UNCHANGED <<eose_actions, stalled>>
        /\ subscriptions' \subseteq subscriptions /\ Leaves({id})
        /\ \A a \in ActionId : Entry(eose_actions[a], id) = {}
    BY <1>3, SubscriptionEoseEffect DEF groupVars
  <2>2. \A a \in ActionId : \A r \in eose_actions[a] : r \in Subscription /\ r.id \notin {id}
    BY <2>1, OwnApart DEF Entry
  <2>3. QED BY <1>1, <1>2, <2>1, <2>2, ForeignStep
<1>4. ASSUME NEW a \in ActionId, ActionEose(a, id) PROVE OwnInv' /\ ProgressInv'
  <2> DEFINE rest == Remove(eose_actions[a], id)
  <2>1. /\ Entry(eose_actions[a], id) # {}
        /\ subscriptions' \subseteq subscriptions
        /\ eose_actions' = [eose_actions EXCEPT ![a] = rest]
        /\ stalled' \in {stalled, stalled \cup {a}}
        /\ \/ Leaves({id}) /\ (rest = {} \/ a \in stalled')
           \/ \E s \in rest : /\ Leaves({id, s.id})
                              /\ a \in stalled' \/ (peer => s \in open' /\ s \in unanswered')
    BY <1>4, ActionEoseEffect
  <2>2. rest \subseteq eose_actions[a] BY DEF Remove
  <2>3. PICK e \in eose_actions[a] : e.id = id BY <2>1 DEF Entry
  <2> HIDE DEF rest
  <2>4. /\ eose_actions'[a] = rest
        /\ \A b \in ActionId \ {a} : eose_actions'[b] = eose_actions[b]
    BY <2>1 DEF TaskInv, GroupsOK
  <2>5. OwnInv' BY <2>1, <2>2, <2>4 DEF OwnInv, Foreign
  <2>6. ASSUME NEW b \in ActionId \ {a}, b \in OwnIds, peer, Coming(b) PROVE Coming(b)'
    <3>1. \A r \in eose_actions[b] : /\ r \in Subscription /\ r.id # id
                                     /\ \A s \in rest : r.id # s.id
      BY <2>2, <2>3, <2>6, OwnApart
    <3>2. CASE Leaves({id}) BY <1>2, <2>4, <2>6, <3>1, <3>2, ComingKept
    <3>3. ASSUME NEW s \in rest, Leaves({id, s.id}) PROVE Coming(b)'
      BY <1>2, <2>4, <2>6, <3>1, <3>3, ComingKept
    <3>4. QED BY <2>1, <3>2, <3>3
  <2>7. peer /\ a \notin stalled' /\ rest # {} => Coming(a)' BY <2>1, <2>4 DEF Coming
  <2>8. ProgressInv' BY <1>1, <2>1, <2>4, <2>6, <2>7 DEF ProgressInv
  <2>9. QED BY <2>5, <2>8
<1>5. QED BY <1>3, <1>4 DEF check_eose, id

LEMMA TimeoutProgress ==
    ASSUME TaskInv, OwnInv, ProgressInv, NEW s \in Subscription, Timeout(s)
    PROVE  OwnInv' /\ ProgressInv'
<1>1. /\ UNCHANGED <<eose_actions, stalled, answers, online, peer>>
      /\ subscriptions' \subseteq subscriptions
      /\ Leaves({r.id : r \in subscriptions} \cap {s.id})
  BY TimeoutEffect DEF groupVars
<1>2. \A a \in ActionId : a \in OwnIds => \A r \in eose_actions[a] :
          r.id \notin {q.id : q \in subscriptions} \cap {s.id}
  BY OwnApart
<1>3. QED BY <1>1, <1>2, ForeignStep

LEMMA ConnectionProgress ==
    ASSUME TaskInv, OwnInv, ProgressInv,
           \/ Connect \/ ConnectionLost \/ CloseReceived \/ PeerGone
           \/ \E r \in Subscription : AnswerEose(r)
    PROVE  OwnInv' /\ ProgressInv'
<1>1. CASE Connect
  <2>1. OwnInv' BY <1>1 DEF Connect, OwnInv, sessionVars, groupVars, Foreign
  <2>2. ProgressInv' BY <1>1 DEF Connect, ProgressInv, groupVars
  <2>3. QED BY <2>1, <2>2
<1>2. CASE Disconnect BY <1>2 DEF Disconnect, OwnInv, ProgressInv, Foreign
<1>3. CASE PeerGone
  <2>1. OwnInv' BY <1>3 DEF PeerGone, OwnInv, groupVars, Foreign
  <2>2. ProgressInv'
    BY <1>3 DEF PeerGone, ProgressInv, groupVars
  <2>3. QED BY <2>1, <2>2
<1>4. ASSUME NEW r \in Subscription, AnswerEose(r) PROVE OwnInv' /\ ProgressInv'
  <2>1. OwnInv' BY <1>4 DEF AnswerEose, OwnInv, groupVars, Foreign
  <2>2. answers \in Seq(Subscription) BY DEF TaskInv, SocketOK
  <2>3. Range(answers') = Range(answers) \cup {r} BY <1>4, <2>2, RangeOfAppend DEF AnswerEose
  <2>4. ASSUME NEW a \in ActionId, Coming(a) PROVE Coming(a)'
    BY <1>4, <2>3, <2>4 DEF AnswerEose, Coming, groupVars
  <2>5. ProgressInv' BY <1>4, <2>4 DEF AnswerEose, ProgressInv, groupVars
  <2>6. QED BY <2>1, <2>5
<1>5. QED BY <1>1, <1>2, <1>3, <1>4 DEF ConnectionLost, CloseReceived

\* A step at the task's queue, or none.
LEMMA QueueProgress ==
    ASSUME TaskInv, OwnInv, ProgressInv, UNCHANGED <<socketVars, sessionVars, groupVars>>
    PROVE  OwnInv' /\ ProgressInv'
<1>1. Leaves({}) /\ UNCHANGED <<subscriptions, eose_actions, stalled, online, peer, answers>>
  BY DEF Leaves, socketVars, sessionVars, groupVars
<1>2. QED BY <1>1, ForeignStep

LEMMA InitProgress == Init => OwnInv /\ ProgressInv
BY DEF Init, OwnInv, ProgressInv

LEMMA NextProgress ==
    ASSUME TypeInv, OwnInv, ProgressInv, [Next]_vars
    PROVE  OwnInv' /\ ProgressInv'
<1>1. TaskInv /\ input_queue \in Seq(Inputs) BY DEF TypeInv
<1>2. CASE ReceiveInput
  <2>1. PICK i \in Inputs :
            \/ Selecting /\ handle_other_inputs_connected(i) /\ UNCHANGED input_queue
            \/ ~online /\ handle_input_disconnected_other(i)
    BY <1>2 DEF ReceiveInput
  <2>2. CASE Selecting /\ handle_other_inputs_connected(i)
    BY <1>1, <1>2, <2>2, InputProgress DEF ReceiveInput, Selecting
  <2>3. CASE handle_input_disconnected_other(i)
    BY <1>1, <1>2, <2>3, QueueProgress
       DEF ReceiveInput, handle_input_disconnected_other, ToggleRead, ToggleWrite
  <2>4. QED BY <2>1, <2>2, <2>3
<1>3. CASE HandleQueued
  <2>1. Head(input_queue) \in Inputs BY <1>1, <1>3, HeadTailProperties DEF HandleQueued
  <2>2. QED BY <1>1, <1>3, <2>1, InputProgress DEF HandleQueued
<1>4. CASE check_eose BY <1>1, <1>4, EoseProgress
<1>5. CASE \E s \in Subscription : Timeout(s) BY <1>1, <1>5, TimeoutProgress
<1>6. CASE \/ Connect \/ ConnectionLost \/ CloseReceived \/ PeerGone
           \/ \E r \in Subscription : AnswerEose(r)
  BY <1>1, <1>6, ConnectionProgress
<1>7. CASE UNCHANGED vars BY <1>1, <1>7, QueueProgress DEF vars
<1>8. QED BY <1>2, <1>3, <1>4, <1>5, <1>6, <1>7 DEF Next

\* A group that lost neither its connection nor a write has a request whose EOSE is to
\* come, when its ids are its own, whatever ids the others share.
THEOREM GroupsProgress == Spec => []ActionsProgress
<1>1. OwnInv /\ ProgressInv => ActionsProgress
  BY DEF ActionsProgress, OwnIds, ProgressInv, Coming
<1>2. TypeInv /\ (OwnInv /\ ProgressInv) /\ [Next]_vars => (OwnInv /\ ProgressInv)'
  BY NextProgress
<1>3. QED BY <1>1, <1>2, InitProgress, TypeInvariant, PTL DEF Spec

-----------------------------------------------------------------------------
(* One request for each start of a group.                                  *)
(*                                                                         *)
(* A request that is open and has no EOSE on its way will cost the group   *)
(* nothing until it is answered, and each EOSE on its way pays for one     *)
(* more request when it is received.  The two together are never more than *)
(* the starts of the group.                                                *)

\* The values that have an id of the group's lists.
Values(a) == {r \in Subscription : \E q \in Listed(a) : q.id = r.id}

\* Requests open that no EOSE on its way answers.
Owing(a) == {r \in open \cap Values(a) : r \in unanswered \/ r \notin Range(answers)}

\* The places of EOSEs on their way.
Owed(a) == {n \in DOMAIN answers : answers[n] \in Values(a)}

GroupCost(a) ==
    /\ IsFiniteSet(Owing(a))
    /\ Cardinality(Owing(a)) + Cardinality(Owed(a)) <= starts[a]

CostInv == \A a \in ActionId : a \in OwnIds => GroupCost(a)

\* A set that loses elements, and one that gains at most the request of an id.
LEMMA AtMostOneMore ==
    ASSUME NEW S, IsFiniteSet(S), NEW O, Keyed(O), NEW j,
           NEW T, T \subseteq S \cup {r \in O : r.id = j}
    PROVE  IsFiniteSet(T) /\ Cardinality(T) \in Nat /\ Cardinality(T) <= Cardinality(S) + 1
<1>1. Cardinality(S) \in Nat BY FS_CardinalityType
<1>2. CASE T \subseteq S
  <2>1. IsFiniteSet(T) /\ Cardinality(T) <= Cardinality(S) BY <1>2, FS_Subset
  <2>2. QED BY <1>1, <2>1, FS_CardinalityType
<1>3. CASE \E e \in T : e \notin S
  <2>1. PICK e \in T : e \notin S BY <1>3
  <2>2. T \subseteq S \cup {e} BY <2>1 DEF Keyed
  <2>3. IsFiniteSet(S \cup {e}) /\ Cardinality(S \cup {e}) = Cardinality(S) + 1
    BY <2>1, FS_AddElement
  <2>4. IsFiniteSet(T) /\ Cardinality(T) <= Cardinality(S) + 1 BY <2>2, <2>3, FS_Subset
  <2>5. QED BY <2>4, FS_CardinalityType
<1>4. QED BY <1>2, <1>3

LEMMA OwedIsFinite ==
    ASSUME TaskInv, NEW a
    PROVE  IsFiniteSet(Owed(a)) /\ Cardinality(Owed(a)) \in Nat
<1>1. answers \in Seq(Subscription) BY DEF TaskInv, SocketOK
<1>2. DOMAIN answers = 1 .. Len(answers) /\ Len(answers) \in Nat BY <1>1, LenProperties
<1>3. IsFiniteSet(1 .. Len(answers)) BY <1>2, FS_Interval
<1>4. IsFiniteSet(Owed(a)) BY <1>2, <1>3, FS_Subset DEF Owed
<1>5. QED BY <1>4, FS_CardinalityType

\* The first EOSE is received.
LEMMA OwedOfTail ==
    ASSUME TaskInv, TaskInv', answers # <<>>, answers' = Tail(answers), NEW a
    PROVE  Cardinality(Owed(a)') =
               IF Head(answers) \in Values(a) THEN Cardinality(Owed(a)) - 1
               ELSE Cardinality(Owed(a))
<1>1. /\ answers \in Seq(Subscription) /\ answers' \in Seq(Subscription)
      /\ Len(answers) \in Nat \ {0} /\ Len(answers') = Len(answers) - 1
      /\ DOMAIN answers = 1 .. Len(answers) /\ DOMAIN answers' = 1 .. Len(answers')
      /\ \A n \in 1 .. Len(answers') : answers'[n] = answers[n + 1]
      /\ Head(answers) = answers[1]
  BY HeadTailProperties, LenProperties, EmptySeq DEF TaskInv, SocketOK
<1> DEFINE S == Owed(a)
           T == Owed(a)'
           R == S \ {1}
           f == [n \in T |-> n + 1]
<1>2. T = {n \in 1 .. Len(answers') : answers[n + 1] \in Values(a)} BY <1>1 DEF Owed
<1>3. R = {n \in 2 .. Len(answers) : answers[n] \in Values(a)} BY <1>1 DEF Owed
<1>4. f \in Bijection(T, R)
  <2>1. f \in [T -> R] BY <1>1, <1>2, <1>3
  <2>2. \A m, n \in T : f[m] = f[n] => m = n BY <1>1, <1>2
  <2>3. ASSUME NEW n \in R PROVE \E m \in T : f[m] = n
    <3>1. n - 1 \in T /\ f[n - 1] = n BY <1>1, <1>2, <1>3, <2>3
    <3>2. QED BY <3>1
  <2> HIDE DEF f, R, T
  <2>4. QED BY <2>1, <2>2, <2>3, Fun_IsBij
<1>5. IsFiniteSet(S) /\ Cardinality(S) \in Nat BY OwedIsFinite
<1>6. IsFiniteSet(R) /\ Cardinality(R) = IF 1 \in S THEN Cardinality(S) - 1 ELSE Cardinality(S)
  <2> HIDE DEF S
  <2>1. QED BY <1>5, FS_RemoveElement
<1>7. IsFiniteSet(T)
  <2>1. IsFiniteSet(1 .. Len(answers')) BY <1>1, FS_Interval
  <2>2. QED BY <1>2, <2>1, FS_Subset
<1>8. Cardinality(T) = Cardinality(R)
  <2> HIDE DEF T, R, f
  <2>1. ExistsBijection(T, R) BY <1>4 DEF ExistsBijection
  <2>2. QED BY <1>7, <2>1, FS_Bijection
<1>9. 1 \in S <=> Head(answers) \in Values(a) BY <1>1 DEF Owed
<1>10. QED BY <1>6, <1>8, <1>9

\* An EOSE is sent.
LEMMA OwedOfAppend ==
    ASSUME TaskInv, NEW r \in Subscription, answers' = Append(answers, r), NEW a
    PROVE  Cardinality(Owed(a)') =
               IF r \in Values(a) THEN Cardinality(Owed(a)) + 1 ELSE Cardinality(Owed(a))
<1> DEFINE m == Len(answers) + 1
<1>1. /\ answers \in Seq(Subscription) /\ Len(answers) \in Nat
      /\ DOMAIN answers = 1 .. Len(answers) /\ DOMAIN answers' = 1 .. m
      /\ \A n \in 1 .. Len(answers) : answers'[n] = answers[n]
      /\ answers'[m] = r
  BY AppendProperties, LenProperties DEF TaskInv, SocketOK
<1>2. m \notin Owed(a) BY <1>1 DEF Owed
<1>3. Owed(a)' = IF r \in Values(a) THEN Owed(a) \cup {m} ELSE Owed(a) BY <1>1 DEF Owed
<1> HIDE DEF m
<1>4. QED BY <1>2, <1>3, OwedIsFinite, FS_AddElement

\* A step that leaves the requests of all ids but those of I, and of these j is the only
\* one that is the group's and may still be open.
LEMMA OwingLeaves ==
    ASSUME TaskInv, TaskInv', peer' = peer, NEW I, Leaves(I), NEW a, NEW j,
           \A r \in open' \cap Values(a) : r.id # j =>
               /\ r.id \notin I
               /\ r \in Range(answers) => r \in Range(answers')
    PROVE  Owing(a)' \subseteq Owing(a) \cup {r \in open' : r.id = j}
<1>1. SUFFICES ASSUME NEW r \in Owing(a)', r.id # j PROVE r \in Owing(a)
  BY DEF Owing
<1>2. r \in open' /\ r \in Values(a) BY <1>1 DEF Owing
<1>3. peer BY <1>2 DEF TaskInv, SessionOK, Session
<1>4. r \in Subscription BY <1>2 DEF Values
<1>5. /\ r.id \notin I
      /\ r \in open /\ (r \in unanswered <=> r \in unanswered')
      /\ r \in Range(answers) => r \in Range(answers')
  BY <1>1, <1>2, <1>3, <1>4 DEF Leaves
<1>6. QED BY <1>1, <1>2, <1>5 DEF Owing

\* j may have been asked for: what pays for it is a start, or the EOSE received.
LEMMA CostPaid ==
    ASSUME TaskInv, TaskInv', peer' = peer, NEW I, Leaves(I), NEW a \in ActionId, GroupCost(a),
           NEW j,
           \A r \in open' \cap Values(a) : r.id # j =>
               /\ r.id \notin I
               /\ r \in Range(answers) => r \in Range(answers'),
           \/ answers' = answers /\ starts'[a] = starts[a] + 1
           \/ /\ answers # <<>> /\ answers' = Tail(answers) /\ starts'[a] = starts[a]
              /\ Head(answers) \in Values(a)
    PROVE  GroupCost(a)'
<1>1. Owing(a)' \subseteq Owing(a) \cup {r \in open' : r.id = j} BY OwingLeaves
<1>2. IsFiniteSet(Owing(a)) /\ Cardinality(Owing(a)) \in Nat BY FS_CardinalityType DEF GroupCost
<1>3. Keyed(open') BY DEF TaskInv, SessionOK, Session
<1>4. /\ IsFiniteSet(Owing(a)') /\ Cardinality(Owing(a)') \in Nat
      /\ Cardinality(Owing(a)') <= Cardinality(Owing(a)) + 1
  <2> DEFINE S == Owing(a)
             T == Owing(a)'
             O == open'
  <2>1. T \subseteq S \cup {r \in O : r.id = j} /\ IsFiniteSet(S) /\ Keyed(O)
    BY <1>1, <1>2, <1>3
  <2> HIDE DEF S, T, O
  <2>2. IsFiniteSet(T) /\ Cardinality(T) \in Nat /\ Cardinality(T) <= Cardinality(S) + 1
    BY <2>1, AtMostOneMore
  <2>3. QED BY <2>2 DEF S, T
<1>5. Cardinality(Owed(a)) \in Nat /\ Cardinality(Owed(a)') \in Nat
  <2>1. Cardinality(Owed(a)) \in Nat BY OwedIsFinite
  <2>2. answers' = answers => Owed(a)' = Owed(a) BY DEF Owed
  <2>3. answers' # answers => Cardinality(Owed(a)') \in Nat
    <3>1. CASE answers # <<>> /\ answers' = Tail(answers) /\ Head(answers) \in Values(a)
      <4>1. Head(answers) = answers[1] /\ 1 \in DOMAIN answers
        BY <3>1, LenProperties, EmptySeq DEF TaskInv, SocketOK
      <4>2. 1 \in Owed(a) BY <3>1, <4>1 DEF Owed
      <4>3. Cardinality(Owed(a)) # 0 BY <4>2, OwedIsFinite, FS_EmptySet
      <4>4. QED BY <2>1, <3>1, <4>3, OwedOfTail
    <3>2. QED BY <3>1
  <2>4. QED BY <2>1, <2>2, <2>3
<1>6. starts[a] \in Nat BY DEF TaskInv, GroupsOK
<1>7. CASE answers' = answers /\ starts'[a] = starts[a] + 1
  <2>1. Owed(a)' = Owed(a) BY <1>7 DEF Owed
  <2>2. QED BY <1>2, <1>4, <1>5, <1>6, <1>7, <2>1 DEF GroupCost
<1>8. CASE /\ answers # <<>> /\ answers' = Tail(answers) /\ starts'[a] = starts[a]
           /\ Head(answers) \in Values(a)
  <2>1. Cardinality(Owed(a)') = Cardinality(Owed(a)) - 1 BY <1>8, OwedOfTail
  <2>2. QED BY <1>2, <1>4, <1>5, <1>6, <1>8, <2>1 DEF GroupCost
<1>9. QED BY <1>7, <1>8

\* Nothing of the group is asked for, and none of its EOSEs received.
LEMMA CostKept ==
    ASSUME TaskInv, TaskInv', peer' = peer, NEW I, Leaves(I), NEW a \in ActionId, GroupCost(a),
           \A r \in Values(a) : r.id \notin I,
           starts'[a] = starts[a],
           \/ answers' = answers
           \/ answers # <<>> /\ answers' = Tail(answers) /\ Head(answers) \notin Values(a)
    PROVE  GroupCost(a)'
<1>1. Range(answers) \cap Values(a) \subseteq Range(answers')
  <2>1. answers \in Seq(Subscription) BY DEF TaskInv, SocketOK
  <2>2. QED BY <2>1, RangeOfList
<1>2. Owing(a)' \subseteq Owing(a)
  <2>1. PICK j : \A r \in Subscription : r.id # j
    <3>1. \A r \in Subscription : r.id \in Nat BY TrafficAssumption
    <3>2. \A r \in Subscription : r.id # 0 - 1 BY <3>1
    <3>3. QED BY <3>2
  <2>2. Owing(a)' \subseteq Owing(a) \cup {r \in open' : r.id = j} BY <1>1, OwingLeaves
  <2>3. \A r \in Owing(a)' : r.id # j BY <2>1 DEF Owing, Values
  <2>4. QED BY <2>2, <2>3
<1>3. IsFiniteSet(Owing(a)) /\ Cardinality(Owing(a)) \in Nat BY FS_CardinalityType DEF GroupCost
<1>4. /\ IsFiniteSet(Owing(a)') /\ Cardinality(Owing(a)') \in Nat
      /\ Cardinality(Owing(a)') <= Cardinality(Owing(a))
  <2> DEFINE S == Owing(a)
             T == Owing(a)'
  <2>1. T \subseteq S /\ IsFiniteSet(S) BY <1>2, <1>3
  <2> HIDE DEF S, T
  <2>2. IsFiniteSet(T) /\ Cardinality(T) <= Cardinality(S) BY <2>1, FS_Subset
  <2>3. Cardinality(T) \in Nat BY <2>2, FS_CardinalityType
  <2>4. QED BY <2>2, <2>3 DEF S, T
<1>5. Cardinality(Owed(a)') = Cardinality(Owed(a))
  <2>1. CASE answers' = answers BY <2>1 DEF Owed
  <2>2. CASE answers # <<>> /\ answers' = Tail(answers) /\ Head(answers) \notin Values(a)
    BY <2>2, OwedOfTail
  <2>3. QED BY <2>1, <2>2
<1>6. starts[a] \in Nat BY DEF TaskInv, GroupsOK
<1>7. QED BY <1>3, <1>4, <1>5, <1>6, OwedIsFinite DEF GroupCost

LEMMA CostStutters ==
    ASSUME CostInv, UNCHANGED <<open, unanswered, answers, starts>>
    PROVE  CostInv'
BY DEF CostInv, GroupCost, Owing, Owed

LEMMA InputCost ==
    ASSUME TaskInv, TaskInv', OwnInv, CostInv, UNCHANGED socketVars,
           NEW i \in Inputs, handle_other_inputs_connected(i)
    PROVE  CostInv'
<1>0. InputOK(i) /\ UNCHANGED <<peer, answers>> BY TrafficAssumption DEF socketVars
<1>1. CASE i.kind = "Subscribe" /\ Subscribe(i.subscription)
  <2> DEFINE s == i.subscription
  <2>1. s \in Subscription /\ \A a \in ActionId : a \in OwnIds => Foreign(a, s.id)
    BY <1>0, <1>1 DEF InputOK, OwnIds, Foreign
  <2>2. UNCHANGED groupVars /\ Leaves({s.id}) BY <1>1, <2>1, SubscribeEffect
  <2> HIDE DEF s
  <2>3. \A a \in ActionId : a \in OwnIds => \A r \in Values(a) : r.id \notin {s.id}
    BY <2>1 DEF Foreign, Values
  <2>4. QED BY <1>0, <2>2, <2>3, CostKept DEF CostInv, groupVars
<1>2. CASE i.kind = "EoseActions" /\ EoseActions(i.action_id, i.subscriptions)
  <2> DEFINE b == i.action_id
             list == i.subscriptions
             s == Head(list)
  <2>1. /\ b \in ActionId /\ list \in Seq(Subscription)
        /\ Range(list) \subseteq Listed(b)
    BY <1>0, <1>2 DEF InputOK, Listed
  <2>2. EoseActions(b, list) BY <1>2
  <2> HIDE DEF b, list
  <2>3. CASE UNCHANGED <<sessionVars, groupVars>>
    BY <1>0, <2>3, CostStutters DEF sessionVars, groupVars
  <2>4. CASE Leaves({}) /\ UNCHANGED groupVars
    BY <1>0, <2>4, CostKept DEF CostInv, groupVars
  <2>5. CASE /\ s \in Range(list)
             /\ starts' = [starts EXCEPT ![b] = @ + 1]
             /\ Leaves({s.id})
    <3> HIDE DEF s
    <3>1. /\ starts'[b] = starts[b] + 1
          /\ \A a \in ActionId \ {b} : starts'[a] = starts[a]
      BY <2>1, <2>5 DEF TaskInv, GroupsOK
    <3>2. b \in OwnIds => GroupCost(b)'
      <4> HAVE b \in OwnIds
      <4> DEFINE j == s.id
      <4>1. \A r \in open' \cap Values(b) : r.id # j =>
                /\ r.id \notin {j}
                /\ r \in Range(answers) => r \in Range(answers')
        BY <1>0
      <4>2. Leaves({j}) /\ GroupCost(b) BY <2>1, <2>5 DEF CostInv
      <4> HIDE DEF j
      <4>3. QED BY <1>0, <2>1, <3>1, <4>1, <4>2, CostPaid
    <3>3. ASSUME NEW a \in ActionId \ {b}, a \in OwnIds PROVE GroupCost(a)'
      <4>1. \A r \in Values(a) : r.id \notin {s.id} BY <2>1, <2>5, <3>3, OwnApart DEF Values
      <4>2. QED BY <1>0, <2>5, <3>1, <3>3, <4>1, CostKept DEF CostInv
    <3>4. QED BY <3>2, <3>3 DEF CostInv
  <2>6. QED BY <2>1, <2>2, <2>3, <2>4, <2>5, EoseActionsEffect DEF s
<1>3. CASE UNCHANGED <<sessionVars, groupVars>>
  BY <1>0, <1>3, CostStutters DEF sessionVars, groupVars
<1>4. QED BY <1>1, <1>2, <1>3 DEF handle_other_inputs_connected, ToggleRead, ToggleWrite

\* An EOSE pays for at most one request, and only for one of the group it belongs to.
LEMMA EoseCost ==
    ASSUME TaskInv, TaskInv', OwnInv, CostInv, check_eose
    PROVE  CostInv'
<1> DEFINE h == Head(answers)
           id == h.id
<1>1. /\ UNCHANGED peer
      /\ answers \in Seq(Subscription) /\ answers # <<>> /\ answers' = Tail(answers)
      /\ h \in Subscription
  BY HeadTailProperties DEF check_eose, TaskInv, SocketOK
<1>2. \A r \in Subscription : r.id # id /\ r \in Range(answers) => r \in Range(answers')
  BY <1>1, RangeOfList
<1>3. \A a \in ActionId : h \notin Values(a) =>
          \A r \in Values(a) \cup Listed(a) : r.id # id
  BY <1>1 DEF Values
<1>4. SubscriptionEose(id) \/ \E b \in ActionId : ActionEose(b, id) BY DEF check_eose
<1> HIDE DEF h, id
<1>5. SUFFICES ASSUME NEW a \in ActionId, a \in OwnIds PROVE GroupCost(a)'
  BY DEF CostInv
<1>6. GroupCost(a) BY <1>5 DEF CostInv
<1>7. \A r \in Values(a) : r \in Subscription BY DEF Values
<1>p. ASSUME Leaves({id}), h \in Values(a), starts'[a] = starts[a] PROVE GroupCost(a)'
  <2>1. \A r \in open' \cap Values(a) : r.id # id =>
            /\ r.id \notin {id}
            /\ r \in Range(answers) => r \in Range(answers')
    BY <1>2, <1>7
  <2>2. Head(answers) \in Values(a) BY <1>p DEF h
  <2>3. QED BY <1>1, <1>6, <1>p, <2>1, <2>2, CostPaid
<1>8. CASE SubscriptionEose(id)
  <2>1. UNCHANGED groupVars /\ Leaves({id}) BY <1>8, SubscriptionEoseEffect
  <2>2. CASE h \in Values(a)
    BY <1>p, <2>1, <2>2 DEF groupVars
  <2>3. CASE h \notin Values(a)
    BY <1>1, <1>3, <1>6, <2>1, <2>3, CostKept DEF groupVars, h
  <2>4. QED BY <2>2, <2>3
<1>9. ASSUME NEW b \in ActionId, ActionEose(b, id) PROVE GroupCost(a)'
  <2> DEFINE rest == Remove(eose_actions[b], id)
  <2>1. /\ Entry(eose_actions[b], id) # {} /\ starts' = starts
        /\ \/ Leaves({id})
           \/ \E s \in rest : Leaves({id, s.id}) /\ \A r \in open' : r.id # id
    BY <1>9, ActionEoseEffect
  <2>2. PICK e \in eose_actions[b] : e.id = id BY <2>1 DEF Entry
  <2>3. e \in Listed(b) /\ rest \subseteq Listed(b) BY <2>2 DEF OwnInv, Remove
  <2> HIDE DEF rest
  <2>4. CASE h \in Values(a)
    <3>1. CASE Leaves({id}) BY <1>p, <2>1, <2>4, <3>1
    <3>2. ASSUME NEW s \in rest, Leaves({id, s.id}), \A r \in open' : r.id # id
          PROVE  GroupCost(a)'
      <4>1. \A r \in open' \cap Values(a) : r.id # s.id =>
                /\ r.id \notin {id, s.id}
                /\ r \in Range(answers) => r \in Range(answers')
        BY <1>2, <1>7, <3>2
      <4>2. QED BY <1>1, <1>6, <2>1, <2>4, <3>2, <4>1, CostPaid DEF h
    <3>3. QED BY <2>1, <3>1, <3>2
  <2>5. CASE h \notin Values(a)
    <3>1. a # b BY <1>3, <2>2, <2>3, <2>5
    <3>2. \A r \in Values(a) : r.id # id /\ \A s \in rest : r.id # s.id
      BY <1>3, <1>5, <2>3, <2>5, <3>1, OwnApart DEF Values
    <3>3. CASE Leaves({id})
      BY <1>1, <1>6, <2>1, <2>5, <3>2, <3>3, CostKept DEF h
    <3>4. ASSUME NEW s \in rest, Leaves({id, s.id}) PROVE GroupCost(a)'
      <4>1. \A r \in Values(a) : r.id \notin {id, s.id} BY <3>2
      <4>2. QED BY <1>1, <1>6, <2>1, <2>5, <3>4, <4>1, CostKept DEF h
    <3>5. QED BY <2>1, <3>3, <3>4
  <2>6. QED BY <2>4, <2>5
<1>10. QED BY <1>4, <1>8, <1>9

LEMMA TimeoutCost ==
    ASSUME TaskInv, TaskInv', OwnInv, CostInv, NEW s \in Subscription, Timeout(s)
    PROVE  CostInv'
<1>1. /\ UNCHANGED <<groupVars, answers, peer>>
      /\ Leaves({r.id : r \in subscriptions} \cap {s.id})
  BY TimeoutEffect
<1>2. \A a \in ActionId : a \in OwnIds => \A r \in Values(a) :
          r.id \notin {q.id : q \in subscriptions} \cap {s.id}
  BY DEF OwnInv, Foreign, Values
<1>3. QED BY <1>1, <1>2, CostKept DEF CostInv, groupVars

\* A relay that sends an EOSE owes it from then on.
LEMMA AnswerCost ==
    ASSUME TaskInv, CostInv, NEW r \in Subscription, AnswerEose(r)
    PROVE  CostInv'
<1>1. /\ r \in unanswered /\ unanswered' = unanswered \ {r}
      /\ answers' = Append(answers, r) /\ UNCHANGED <<open, starts>>
      /\ answers \in Seq(Subscription) /\ unanswered \subseteq open
      /\ Range(answers') = Range(answers) \cup {r}
  BY RangeOfAppend DEF AnswerEose, TaskInv, SocketOK, SessionOK, Session, groupVars
<1>2. SUFFICES ASSUME NEW a \in ActionId, a \in OwnIds PROVE GroupCost(a)'
  BY DEF CostInv
<1>3. /\ IsFiniteSet(Owing(a)) /\ Cardinality(Owing(a)) \in Nat
      /\ Cardinality(Owing(a)) + Cardinality(Owed(a)) <= starts[a]
      /\ Cardinality(Owed(a)) \in Nat /\ starts[a] \in Nat
  BY <1>2, FS_CardinalityType, OwedIsFinite DEF CostInv, GroupCost, TaskInv, GroupsOK
<1>4. CASE r \in Values(a)
  <2>1. r \in Owing(a) /\ Owing(a)' = Owing(a) \ {r} BY <1>1, <1>4 DEF Owing
  <2>2. IsFiniteSet(Owing(a)') /\ Cardinality(Owing(a)') = Cardinality(Owing(a)) - 1
    BY <1>3, <2>1, FS_RemoveElement
  <2>3. Cardinality(Owed(a)') = Cardinality(Owed(a)) + 1 BY <1>1, <1>4, OwedOfAppend
  <2>4. QED BY <1>1, <1>3, <2>2, <2>3 DEF GroupCost
<1>5. CASE r \notin Values(a)
  <2>1. Owing(a)' = Owing(a) BY <1>1, <1>5 DEF Owing
  <2>2. Cardinality(Owed(a)') = Cardinality(Owed(a)) BY <1>1, <1>5, OwedOfAppend
  <2>3. QED BY <1>1, <1>3, <2>1, <2>2 DEF GroupCost
<1>6. QED BY <1>4, <1>5

LEMMA ConnectionCost ==
    ASSUME TaskInv, CostInv,
           \/ Connect \/ ConnectionLost \/ CloseReceived \/ PeerGone
           \/ \E r \in Subscription : AnswerEose(r)
    PROVE  CostInv'
<1>1. CASE Connect BY <1>1, CostStutters DEF Connect, sessionVars, groupVars
<1>2. CASE Disconnect
  <2>1. \A a \in ActionId : Owing(a)' = {} /\ Owed(a)' = {} /\ starts'[a] = 0
    BY <1>2 DEF Disconnect, Owing, Owed
  <2>2. QED BY <2>1, FS_EmptySet DEF CostInv, GroupCost
<1>3. CASE PeerGone
  <2>1. SUFFICES ASSUME NEW a \in ActionId, a \in OwnIds PROVE GroupCost(a)'
    BY DEF CostInv
  <2>2. Owing(a)' = {} /\ Owed(a)' = Owed(a) /\ starts' = starts
    BY <1>3 DEF PeerGone, Owing, Owed, groupVars
  <2>3. /\ Cardinality(Owing(a)) \in Nat /\ Cardinality(Owed(a)) \in Nat /\ starts[a] \in Nat
        /\ Cardinality(Owing(a)) + Cardinality(Owed(a)) <= starts[a]
    BY <2>1, FS_CardinalityType, OwedIsFinite DEF CostInv, GroupCost, TaskInv, GroupsOK
  <2>4. QED BY <2>2, <2>3, FS_EmptySet DEF GroupCost
<1>4. QED BY <1>1, <1>2, <1>3, AnswerCost DEF ConnectionLost, CloseReceived

LEMMA InitCost == Init => CostInv
<1>1. SUFFICES ASSUME Init, NEW a \in ActionId PROVE GroupCost(a)
  BY DEF CostInv
<1>2. Owing(a) = {} /\ Owed(a) = {} /\ starts[a] = 0 BY <1>1 DEF Init, Owing, Owed
<1>3. QED BY <1>2, FS_EmptySet DEF GroupCost

LEMMA NextCost ==
    ASSUME TypeInv, TypeInv', OwnInv, CostInv, [Next]_vars
    PROVE  CostInv'
<1>1. TaskInv /\ TaskInv' /\ input_queue \in Seq(Inputs) BY DEF TypeInv
<1>2. CASE ReceiveInput
  <2>1. PICK i \in Inputs :
            \/ Selecting /\ handle_other_inputs_connected(i) /\ UNCHANGED input_queue
            \/ ~online /\ handle_input_disconnected_other(i)
    BY <1>2 DEF ReceiveInput
  <2>2. CASE handle_other_inputs_connected(i)
    BY <1>1, <1>2, <2>2, InputCost DEF ReceiveInput
  <2>3. CASE handle_input_disconnected_other(i)
    BY <1>2, <2>3, CostStutters
       DEF ReceiveInput, handle_input_disconnected_other, ToggleRead, ToggleWrite,
           socketVars, sessionVars, groupVars
  <2>4. QED BY <2>1, <2>2, <2>3
<1>3. CASE HandleQueued
  <2>1. Head(input_queue) \in Inputs BY <1>1, <1>3, HeadTailProperties DEF HandleQueued
  <2>2. QED BY <1>1, <1>3, <2>1, InputCost DEF HandleQueued
<1>4. CASE check_eose BY <1>1, <1>4, EoseCost
<1>5. CASE \E s \in Subscription : Timeout(s) BY <1>1, <1>5, TimeoutCost
<1>6. CASE \/ Connect \/ ConnectionLost \/ CloseReceived \/ PeerGone
           \/ \E r \in Subscription : AnswerEose(r)
  BY <1>1, <1>6, ConnectionCost
<1>7. CASE UNCHANGED vars BY <1>7, CostStutters DEF vars, socketVars, sessionVars, groupVars
<1>8. QED BY <1>2, <1>3, <1>4, <1>5, <1>6, <1>7 DEF Next

\* The open requests of a group: each is owing, or one of its EOSEs is on its way.
LEMMA OpenIsPaidFor ==
    ASSUME TaskInv, NEW a \in ActionId, GroupCost(a)
    PROVE  Cardinality(open \cap Listed(a)) <= starts[a]
<1> DEFINE P == Owing(a)
           W == Owed(a)
           V == {answers[n] : n \in W}
           f == [n \in W |-> answers[n]]
           O == open \cap Listed(a)
<1>1. /\ IsFiniteSet(P) /\ Cardinality(P) \in Nat
      /\ IsFiniteSet(W) /\ Cardinality(W) \in Nat
      /\ Cardinality(P) + Cardinality(W) <= starts[a] /\ starts[a] \in Nat
  BY FS_CardinalityType, OwedIsFinite DEF GroupCost, TaskInv, GroupsOK
<1>2. IsFiniteSet(V) /\ Cardinality(V) <= Cardinality(W)
  <2>1. f \in [W -> V] /\ \A v \in V : \E n \in W : f[n] = v OBVIOUS
  <2> HIDE DEF f, V, W
  <2>2. f \in Surjection(W, V) BY <2>1, Fun_IsSurj
  <2>3. QED BY <1>1, <2>2, FS_Surjection
<1>3. O \subseteq P \cup V
  BY DEF Owing, Owed, Values, Range, TaskInv, SessionOK, Session, Sessions
<1> HIDE DEF P, W, V, O
<1>4. /\ IsFiniteSet(P \cup V) /\ Cardinality(P \cap V) \in Nat /\ Cardinality(V) \in Nat
      /\ Cardinality(P \cup V) = Cardinality(P) + Cardinality(V) - Cardinality(P \cap V)
  BY <1>1, <1>2, FS_Union, FS_Intersection, FS_CardinalityType
<1>5. Cardinality(O) <= Cardinality(P \cup V) /\ Cardinality(O) \in Nat
  BY <1>3, <1>4, FS_Subset, FS_CardinalityType
<1>6. Cardinality(O) <= starts[a] BY <1>1, <1>2, <1>4, <1>5
<1>7. QED BY <1>6 DEF O

\* A group whose ids are its own costs its relay no more open requests than the starts
\* of it: a request that a late EOSE of an earlier run opens in the new one is paid for by
\* the start of the earlier run.
THEOREM RequestsPerStart == Spec => []OneRequestPerStart
<1>1. TypeInv /\ CostInv => OneRequestPerStart
  BY OpenIsPaidFor DEF OneRequestPerStart, OwnIds, CostInv, TypeInv
<1>2. /\ TypeInv /\ (OwnInv /\ ProgressInv) /\ [Next]_vars => (OwnInv /\ ProgressInv)'
      /\ TypeInv /\ TypeInv' /\ OwnInv /\ CostInv /\ [Next]_vars => CostInv'
  BY NextProgress, NextCost
<1>3. QED BY <1>1, <1>2, InitProgress, InitCost, TypeInvariant, PTL DEF Spec
=============================================================================
