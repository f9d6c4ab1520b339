------------------------ MODULE StateMachine_proofs ------------------------
(***************************************************************************)
(* What holds of the client of examples/state_machine and its relay for    *)
(* any number of channels and groups and any capacity of the broadcast.    *)
(* The groups are numbered in the order the client starts them, and the    *)
(* task handles them in that order: h is the number of the last group it   *)
(* has handled, and what is open at the relay, answered or left of a group *)
(* bears a number up to h.                                                 *)
(***************************************************************************)
EXTENDS StateMachine, RelayTraffic_proofs

OfGroup(r, n) == \E c \in Channels : r = RequestFor(n, c)

\* The list of i asks for group n.
AsksFor(i, n) == \A r \in Range(i.subscriptions) : OfGroup(r, n)

GroupInput ==
    [kind : {"EoseActions"}, action_id : {actions_id}, subscriptions : Seq(Subscription)]

MachineInput == {channel_input} \cup GroupInput

Notice ==
    {ActionsDone} \cup {Event(c) : c \in Channels}
        \cup {EndOfStoredEvents(s.id) : s \in Subscription} \cup {TimedOut(s.id) : s \in Subscription}

\* f gives the elements of q that are in M numbers after lo and up to hi, in their order.
Climbs(f, q, M, lo, hi) ==
    /\ f \in [DOMAIN q -> 0 .. hi]
    /\ \A i \in DOMAIN q : q[i] \in M =>
           /\ f[i] \in lo + 1 .. hi
           /\ \A j \in DOMAIN q : j > i /\ q[j] \in M => f[i] < f[j]

\* The last number when e has been appended.
After(e, M, hi) == IF e \in M THEN hi + 1 ELSE hi

\* The numbers f of q, and one more.
Extended(f, q, last) == [i \in 1 .. Len(q) + 1 |-> IF i \in DOMAIN q THEN f[i] ELSE last]

Todo == eose_actions[actions_id]

\* What the task and its relay know of the groups up to h.
HandledInv(h) ==
    /\ subscriptions \subseteq {channel_sub}
    /\ ~online => answers = <<>>
    /\ \A r \in open \cup Range(answers) : r = channel_sub \/ \E n \in 1 .. h : OfGroup(r, n)
    /\ Todo # {} => \E n \in 1 .. h : \A r \in Todo : OfGroup(r, n)
    /\ \A n \in 1 .. h : \A r, q \in open : OfGroup(r, n) /\ OfGroup(q, n) => r = q
    /\ peer => Todo \cap Range(answers) \subseteq open
    /\ \A r, q \in Asked : r = q
    /\ done \in Nat /\ done + (IF Todo = {} THEN 0 ELSE 1) <= h

\* The inputs the task has not handled.
Waiting == input_queue \o toRelay

\* The groups in the list q bear numbers after h.
GroupsWait(q, h, last) ==
    \E f : /\ Climbs(f, q, GroupInput, h, last)
           /\ \A i \in DOMAIN q : q[i] \in GroupInput => AsksFor(q[i], f[i])

WaitingInv(h) ==
    /\ input_queue \in Seq(MachineInput) /\ toRelay \in Seq(MachineInput)
    /\ groups \in 0 .. MaxGroups
    /\ GroupsWait(Waiting, h, groups)

\* The groups done that the client is still to count come after those it has.
DoneWait(q, counted, last) == \E f : Climbs(f, q, {ActionsDone}, counted, last)

NoticesInv ==
    /\ notices \in Seq(Notice) /\ Len(notices) <= NoticeCap
    /\ running \in BOOLEAN /\ lagged \in BOOLEAN
    /\ channel_ids \subseteq Channels
    /\ acc \in 0 .. Enough /\ (running => acc < Enough)
    /\ done \in Nat /\ acc <= done
    /\ running \/ lagged \/ done >= Enough
    /\ DoneWait(notices, acc, done)

MachineInv == TaskInv /\ NoticesInv /\ \E h \in 0 .. groups : HandledInv(h) /\ WaitingInv(h)

\* A step as EoseGroup sees it.
GroupStep == [Group!Next]_(Group!vars)

-----------------------------------------------------------------------------
(* The requests and their numbers. *)

LEMMA IdsTell ==
    /\ channel_sub \in Subscription
    /\ \A r, q \in Subscription : r.id = q.id => r = q
<1>1. channel_sub \in Subscription BY StateMachineAssumption
<1>2. ASSUME NEW r \in Subscription
      PROVE  \/ r = channel_sub
             \/ \E n \in 1 .. MaxGroups, c \in Channels : r = RequestFor(n, c)
  BY StateMachineAssumption
<1>3. ASSUME NEW n \in 1 .. MaxGroups, NEW c \in Channels
      PROVE  RequestFor(n, c).id # channel_sub.id
  <2>1. n - 1 \in Nat /\ c \in Nat \ {0} /\ MaxChannels \in Nat
    BY StateMachineAssumption DEF Channels
  <2>2. (n - 1) * MaxChannels \in Nat BY <2>1
  <2>3. (n - 1) * MaxChannels + c # 0 BY <2>1, <2>2
  <2>4. QED BY <2>3 DEF RequestFor, channel_sub, Eose
<1>4. ASSUME NEW r \in Subscription, NEW q \in Subscription, r.id = q.id PROVE r = q
  <2>1. CASE r = channel_sub \/ q = channel_sub BY <1>2, <1>3, <1>4, <2>1
  <2>2. CASE r # channel_sub /\ q # channel_sub
    <3>1. r = Eose(r.id, FALSE) /\ q = Eose(q.id, FALSE)
      BY <1>2, <2>2 DEF RequestFor, Eose
    <3>2. QED BY <1>4, <3>1
  <2>3. QED BY <2>1, <2>2
<1>5. QED BY <1>1, <1>4

\* A request is of one group.
LEMMA NumberIsUnique ==
    ASSUME NEW r, NEW n \in Nat \ {0}, NEW m \in Nat \ {0}, OfGroup(r, n)
    PROVE  r # channel_sub /\ (OfGroup(r, m) => n = m)
<1>1. PICK c \in Channels : r = RequestFor(n, c) BY DEF OfGroup
<1>2. MaxChannels \in Nat /\ c \in 1 .. MaxChannels /\ r.id = (n - 1) * MaxChannels + c
  BY <1>1, StateMachineAssumption DEF Channels, RequestFor, Eose
<1>3. (n - 1) * MaxChannels \in Nat /\ (m - 1) * MaxChannels \in Nat BY <1>2
<1>4. r.id # 0 BY <1>2, <1>3
<1>5. r # channel_sub BY <1>4 DEF channel_sub, Eose
<1>6. ASSUME OfGroup(r, m) PROVE n = m
  <2>1. PICK d \in Channels : r = RequestFor(m, d) BY <1>6 DEF OfGroup
  <2>2. d \in 1 .. MaxChannels /\ (n - 1) * MaxChannels + c = (m - 1) * MaxChannels + d
    BY <1>2, <2>1 DEF Channels, RequestFor, Eose
  <2>3. ASSUME NEW i \in Nat, NEW j \in Nat, i < j
        PROVE  i * MaxChannels + MaxChannels <= j * MaxChannels
    <3>1. j - i - 1 \in Nat BY <2>3
    <3>2. (j - i - 1) * MaxChannels >= 0 BY <1>2, <3>1
    <3>3. (j - i - 1) * MaxChannels = j * MaxChannels - i * MaxChannels - MaxChannels
      BY <1>2
    <3>4. i * MaxChannels \in Nat /\ j * MaxChannels \in Nat BY <1>2
    <3>5. QED BY <1>2, <3>2, <3>3, <3>4
  <2>4. CASE n - 1 < m - 1
    BY <1>2, <1>3, <2>2, <2>3, <2>4
  <2>5. CASE m - 1 < n - 1
    BY <1>2, <1>3, <2>2, <2>3, <2>5
  <2>6. QED BY <2>4, <2>5
<1>7. QED BY <1>5, <1>6

-----------------------------------------------------------------------------
(* Numbers along a sequence. *)

LEMMA ClimbsTail ==
    ASSUME NEW S, NEW q \in Seq(S), q # <<>>, NEW M, NEW lo \in Nat, NEW hi \in Nat,
           NEW f, Climbs(f, q, M, lo, hi)
    PROVE  LET next == IF Head(q) \in M THEN f[1] ELSE lo
               g == [i \in DOMAIN Tail(q) |-> f[i + 1]]
           IN  /\ next \in Nat /\ lo <= next
               /\ Head(q) \in M => next \in lo + 1 .. hi
               /\ Climbs(g, Tail(q), M, next, hi)
               /\ \A i \in DOMAIN Tail(q) : i + 1 \in DOMAIN q /\ Tail(q)[i] = q[i + 1]
<1> DEFINE next == IF Head(q) \in M THEN f[1] ELSE lo
           g == [i \in DOMAIN Tail(q) |-> f[i + 1]]
<1>1. /\ Tail(q) \in Seq(S) /\ Len(q) \in Nat \ {0} /\ Head(q) = q[1] /\ 1 \in DOMAIN q
      /\ DOMAIN q = 1 .. Len(q) /\ DOMAIN Tail(q) = 1 .. Len(q) - 1
      /\ \A i \in DOMAIN Tail(q) : i + 1 \in DOMAIN q /\ Tail(q)[i] = q[i + 1]
  OBVIOUS
<1>2. Head(q) \in M => next \in lo + 1 .. hi BY <1>1 DEF Climbs
<1>3. next \in Nat /\ lo <= next BY <1>2
<1>4. g \in [DOMAIN Tail(q) -> 0 .. hi] BY <1>1 DEF Climbs
<1>5. ASSUME NEW i \in DOMAIN Tail(q), Tail(q)[i] \in M
      PROVE  /\ g[i] \in next + 1 .. hi
             /\ \A j \in DOMAIN Tail(q) : j > i /\ Tail(q)[j] \in M => g[i] < g[j]
  <2>1. /\ i + 1 \in DOMAIN q /\ q[i + 1] \in M /\ g[i] = f[i + 1] /\ i \in Nat \ {0}
    BY <1>1, <1>5
  <2>2. f[i + 1] \in lo + 1 .. hi BY <2>1 DEF Climbs
  <2>3. Head(q) \in M => f[1] < f[i + 1] BY <1>1, <2>1 DEF Climbs
  <2>4. g[i] \in next + 1 .. hi BY <1>2, <1>3, <2>1, <2>2, <2>3
  <2>5. ASSUME NEW j \in DOMAIN Tail(q), j > i, Tail(q)[j] \in M PROVE g[i] < g[j]
    <3>1. j + 1 \in DOMAIN q /\ q[j + 1] \in M /\ g[j] = f[j + 1] /\ j + 1 > i + 1
      BY <1>1, <2>5
    <3>2. f[i + 1] < f[j + 1] BY <2>1, <3>1 DEF Climbs
    <3>3. QED BY <2>1, <3>1, <3>2
  <2>6. QED BY <2>4, <2>5
<1>6. Climbs(g, Tail(q), M, next, hi) BY <1>4, <1>5 DEF Climbs
<1>7. QED BY <1>1, <1>2, <1>3, <1>6

LEMMA ClimbsAppend ==
    ASSUME NEW S, NEW q \in Seq(S), NEW e \in S, NEW M, NEW lo \in Nat, NEW hi \in Nat, lo <= hi,
           NEW f, Climbs(f, q, M, lo, hi)
    PROVE  Climbs(Extended(f, q, After(e, M, hi)), Append(q, e), M, lo, After(e, M, hi))
<1> DEFINE last == After(e, M, hi)
           r == Append(q, e)
           g == Extended(f, q, last)
<1>0. last \in {hi, hi + 1} /\ (e \in M => last = hi + 1) BY DEF After
<1> HIDE DEF last
<1>1. /\ Len(q) \in Nat /\ DOMAIN q = 1 .. Len(q) /\ DOMAIN r = 1 .. Len(q) + 1
      /\ \A i \in DOMAIN q : i \in DOMAIN r /\ r[i] = q[i]
      /\ r[Len(q) + 1] = e
  OBVIOUS
<1>2. /\ g = [i \in DOMAIN r |-> IF i \in DOMAIN q THEN f[i] ELSE last]
      /\ \A i \in DOMAIN q : g[i] = f[i]
      /\ \A i \in DOMAIN r \ DOMAIN q : i = Len(q) + 1 /\ r[i] = e /\ g[i] = last
  <2>1. g = [i \in DOMAIN r |-> IF i \in DOMAIN q THEN f[i] ELSE last]
    BY <1>1 DEF Extended
  <2>2. QED BY <1>1, <2>1
<1>3. last \in Nat /\ hi <= last BY <1>0
<1>4. g \in [DOMAIN r -> 0 .. last]
  <2>1. \A i \in DOMAIN q : f[i] \in 0 .. last BY <1>3 DEF Climbs
  <2>2. last \in 0 .. last BY <1>3
  <2>3. QED BY <1>2, <2>1, <2>2
<1> HIDE DEF g, r
<1>5. ASSUME NEW i \in DOMAIN r, r[i] \in M
      PROVE  /\ g[i] \in lo + 1 .. last
             /\ \A j \in DOMAIN r : j > i /\ r[j] \in M => g[i] < g[j]
  <2>1. CASE i \in DOMAIN q
    <3>1. g[i] \in lo + 1 .. hi /\ q[i] \in M BY <1>1, <1>2, <1>5, <2>1 DEF Climbs
    <3>2. ASSUME NEW j \in DOMAIN r, j > i, r[j] \in M PROVE g[i] < g[j]
      <4>1. CASE j \in DOMAIN q BY <1>1, <1>2, <2>1, <3>1, <3>2, <4>1 DEF Climbs
      <4>2. CASE j \notin DOMAIN q
        <5>1. g[j] = last /\ e \in M BY <1>2, <3>2, <4>2
        <5>2. QED BY <1>0, <3>1, <5>1
      <4>3. QED BY <4>1, <4>2
    <3>3. QED BY <1>3, <3>1, <3>2
  <2>2. CASE i \notin DOMAIN q
    <3>1. i = Len(q) + 1 /\ g[i] = last /\ e \in M BY <1>2, <1>5, <2>2
    <3>2. last \in lo + 1 .. last BY <1>0, <3>1
    <3>3. \A j \in DOMAIN r : ~(j > i) BY <1>1, <3>1
    <3>4. QED BY <3>1, <3>2, <3>3
  <2>3. QED BY <2>1, <2>2
<1>6. Climbs(g, r, M, lo, last) BY <1>4, <1>5 DEF Climbs
<1>7. QED BY <1>6 DEF g, r, last

\* Of a sequence that loses its oldest elements the others keep their numbers.
LEMMA ClimbsSuffix ==
    ASSUME NEW S, NEW q \in Seq(S), NEW k \in 0 .. Len(q), NEW M, NEW lo \in Nat, NEW hi \in Nat,
           NEW f, Climbs(f, q, M, lo, hi)
    PROVE  LET r == SubSeq(q, k + 1, Len(q)) IN
           /\ r \in Seq(S) /\ Len(r) = Len(q) - k
           /\ \E g : Climbs(g, r, M, lo, hi)
<1> DEFINE r == SubSeq(q, k + 1, Len(q))
           g == [i \in DOMAIN r |-> f[i + k]]
<1>1. Len(q) \in Nat /\ k \in Nat /\ DOMAIN q = 1 .. Len(q) OBVIOUS
<1>2. r \in Seq(S) /\ Len(r) = Len(q) - k
  <2>1. \A i \in k + 1 .. Len(q) : q[i] \in S BY <1>1
  <2>2. r \in Seq(S) /\ Len(r) = IF k + 1 <= Len(q) THEN Len(q) - (k + 1) + 1 ELSE 0
    BY <1>1, <2>1, SubSeqProperties
  <2>3. \A m, n \in Nat : m <= n => (IF m + 1 <= n THEN n - (m + 1) + 1 ELSE 0) = n - m
    OBVIOUS
  <2>4. k <= Len(q) BY <1>1
  <2>5. (IF k + 1 <= Len(q) THEN Len(q) - (k + 1) + 1 ELSE 0) = Len(q) - k BY <1>1, <2>3, <2>4
  <2>6. QED BY <2>2, <2>5
<1>3. /\ DOMAIN r = 1 .. Len(q) - k
      /\ \A i \in DOMAIN r : i + k \in DOMAIN q /\ r[i] = q[i + k]
  <2>1. DOMAIN r = 1 .. Len(q) - k BY <1>2
  <2>2. ASSUME NEW i \in DOMAIN r PROVE i + k \in DOMAIN q /\ r[i] = q[i + k]
    BY <1>1, <2>1
  <2>3. QED BY <2>1, <2>2
<1> HIDE DEF r
<1>4. g \in [DOMAIN r -> 0 .. hi] BY <1>3 DEF Climbs
<1>5. ASSUME NEW i \in DOMAIN r, r[i] \in M
      PROVE  /\ g[i] \in lo + 1 .. hi
             /\ \A j \in DOMAIN r : j > i /\ r[j] \in M => g[i] < g[j]
  <2>1. i + k \in DOMAIN q /\ q[i + k] \in M /\ g[i] = f[i + k] BY <1>3, <1>5
  <2>2. ASSUME NEW j \in DOMAIN r, j > i, r[j] \in M PROVE g[i] < g[j]
    <3>1. j + k \in DOMAIN q /\ q[j + k] \in M /\ g[j] = f[j + k] /\ j + k > i + k
      BY <1>1, <1>3, <2>2
    <3>2. QED BY <2>1, <3>1 DEF Climbs
  <2>3. QED BY <2>1, <2>2 DEF Climbs
<1>6. Climbs(g, r, M, lo, hi) BY <1>4, <1>5 DEF Climbs
<1>7. QED BY <1>2, <1>6 DEF r

-----------------------------------------------------------------------------
(* The task's groups. *)

LEMMA HandledTypes ==
    ASSUME TaskInv
    PROVE  /\ Todo \subseteq Subscription /\ actions_id \in ActionId
           /\ open \subseteq Subscription /\ unanswered \subseteq open
           /\ answers \in Seq(Subscription) /\ Range(answers) \subseteq Subscription
           /\ ~peer => open = {}
           /\ Asked \subseteq Todo
           /\ \A a \in ActionId : a = actions_id
<1>1. ActionId = {actions_id} BY StateMachineAssumption
<1>2. Todo \subseteq Subscription BY <1>1 DEF TaskInv, GroupsOK, Todo
<1>3. SessionOK(Session) BY DEF TaskInv
<1>4. Session.open = open /\ Session.unanswered = unanswered BY DEF Session
<1>5. open \subseteq Subscription /\ unanswered \subseteq open /\ (~peer => open = {})
  BY <1>3, <1>4 DEF SessionOK, Sessions
<1>6. answers \in Seq(Subscription) /\ Range(answers) \subseteq Subscription
  BY DEF TaskInv, SocketOK, Range
<1>7. QED BY <1>1, <1>2, <1>5, <1>6 DEF Asked, Todo

\* Nothing of a group is asked anew.
LEMMA QuietStep ==
    ASSUME TaskInv, TaskInv', NEW h \in Nat, HandledInv(h),
           UNCHANGED <<eose_actions, done>>, subscriptions' \subseteq {channel_sub},
           stalled' = stalled \/ (Asked' = {} /\ stalled \subseteq stalled'),
           ~online' => answers' = <<>>,
           open' \subseteq open \cup {channel_sub},
           unanswered' \subseteq unanswered \cup {channel_sub},
           Range(answers') \subseteq Range(answers) \cup unanswered,
           peer' => Todo \cap Range(answers') \subseteq open'
    PROVE  HandledInv(h)' /\ GroupStep
<1>1. Todo' = Todo BY DEF Todo
<1>2. /\ \A r \in Todo : r # channel_sub
      /\ \A n \in 1 .. h : ~OfGroup(channel_sub, n)
  <2>1. \A n \in 1 .. h : ~OfGroup(channel_sub, n) BY NumberIsUnique
  <2>2. QED BY <2>1 DEF HandledInv
<1>3. Asked' \subseteq Asked
  BY <1>1, <1>2 DEF Asked, Todo
<1>4. \A r, q \in Asked : r = q BY DEF HandledInv
<1>5. HandledInv(h)'
  <2>1. \A r \in open' \cup Range(answers') : r = channel_sub \/ \E n \in 1 .. h : OfGroup(r, n)
    BY HandledTypes DEF HandledInv
  <2>2. ASSUME NEW n \in 1 .. h, NEW r \in open', NEW q \in open', OfGroup(r, n), OfGroup(q, n)
        PROVE  r = q
    BY <1>2, <2>2 DEF HandledInv
  <2>3. (\A r, q \in Asked : r = q)' BY <1>3, <1>4
  <2>4. QED BY <1>1, <2>1, <2>2, <2>3 DEF HandledInv
<1>6. GroupStep
  <2>1. CASE Asked' = Asked /\ stalled' = stalled
    BY <1>1, <2>1 DEF GroupStep, Group!vars, Todo
  <2>2. CASE Asked' = {}
    <3>1. actions_id \in stalled' \/ (actions_id \in stalled' <=> actions_id \in stalled)
      OBVIOUS
    <3>2. Group!MayBreak BY <3>1 DEF Group!MayBreak
    <3>3. Group!Stop BY <1>1, <2>2, <3>2 DEF Group!Stop, Todo
    <3>4. QED BY <3>3 DEF GroupStep, Group!Next
  <2>3. Asked' = {} \/ Asked' = Asked BY <1>3, <1>4
  <2>4. QED BY <2>1, <2>2, <2>3
<1>7. QED BY <1>5, <1>6

\* The number of the last group handled may be taken larger.
LEMMA HandledLater ==
    ASSUME NEW h \in Nat, NEW n \in Nat, h <= n, HandledInv(h)
    PROVE  HandledInv(n)
<1>1. \A k \in 1 .. h : k \in 1 .. n OBVIOUS
<1>2. ASSUME NEW k \in 1 .. n, NEW r \in open, NEW q \in open, OfGroup(r, k), OfGroup(q, k)
      PROVE  r = q
  <2>1. PICK m \in 1 .. h : OfGroup(r, m) BY <1>2, NumberIsUnique DEF HandledInv
  <2>2. k = m BY <1>2, <2>1, NumberIsUnique
  <2>3. QED BY <1>2, <2>1, <2>2 DEF HandledInv
<1>3. done + (IF Todo = {} THEN 0 ELSE 1) <= n BY DEF HandledInv
<1>4. QED BY <1>1, <1>2, <1>3 DEF HandledInv

\* What a step leaves alone, with or without the relay.
LEMMA LeavesEach ==
    ASSUME TaskInv, TaskInv', peer' = peer, NEW I, Leaves(I)
    PROVE  /\ \A r \in open' : r \in open \/ r.id \in I
           /\ \A r \in unanswered' : r \in unanswered \/ r.id \in I
           /\ peer => \A r \in open : r \in open' \/ r.id \in I
<1>1. open \subseteq Subscription BY HandledTypes
<1>2. /\ open' \subseteq Subscription /\ unanswered' \subseteq open' /\ (~peer' => open' = {})
  <2>1. SessionOK(Session)' BY DEF TaskInv
  <2>2. (Session.open = open /\ Session.unanswered = unanswered)' BY DEF Session
  <2>3. QED BY <2>1, <2>2 DEF SessionOK, Sessions
<1>3. QED BY <1>1, <1>2 DEF Leaves

\* The channels' subscription is opened again, closed or timed.
LEMMA ChannelStep ==
    ASSUME TaskInv, TaskInv', NEW h \in Nat, HandledInv(h),
           UNCHANGED <<socketVars, eose_actions, stalled, done>>,
           subscriptions' \subseteq {channel_sub},
           NEW I, I \subseteq {channel_sub.id}, Leaves(I)
    PROVE  HandledInv(h)' /\ GroupStep
<1>1. UNCHANGED <<online, peer, answers>> BY DEF socketVars
<1>2. /\ \A r \in open' : r \in open \/ r.id \in I
      /\ \A r \in unanswered' : r \in unanswered \/ r.id \in I
      /\ peer => \A r \in open : r \in open' \/ r.id \in I
  BY <1>1, LeavesEach
<1>3. open' \subseteq Subscription /\ unanswered' \subseteq Subscription /\ open \subseteq Subscription
  <2>1. SessionOK(Session)' BY DEF TaskInv
  <2>2. (Session.open = open /\ Session.unanswered = unanswered)' BY DEF Session
  <2>3. QED BY <2>1, <2>2, HandledTypes DEF SessionOK, Sessions
<1>4. open' \subseteq open \cup {channel_sub} /\ unanswered' \subseteq unanswered \cup {channel_sub}
  BY <1>2, <1>3, IdsTell
<1>5. \A r \in Todo : r # channel_sub
  <2>1. \A n \in 1 .. h : ~OfGroup(channel_sub, n) BY NumberIsUnique
  <2>2. QED BY <2>1 DEF HandledInv
<1>6. peer' => Todo \cap Range(answers') \subseteq open'
  BY <1>1, <1>2, <1>3, <1>5, IdsTell DEF HandledInv
<1>7. ~online' => answers' = <<>> BY <1>1 DEF HandledInv
<1>8. QED BY <1>1, <1>4, <1>6, <1>7, QuietStep

\* A group is started: its first request is the only one that is asked.
LEMMA StartStep ==
    ASSUME TaskInv, TaskInv', NEW h \in Nat, HandledInv(h), UNCHANGED <<socketVars, done>>,
           subscriptions' \subseteq {channel_sub},
           NEW n \in Nat, h < n, NEW R \in SUBSET Subscription, \A r \in R : OfGroup(r, n),
           NEW s \in R, eose_actions' = [eose_actions EXCEPT ![actions_id] = R],
           stalled' = stalled \ {actions_id},
           Leaves({s.id})
    PROVE  HandledInv(n)' /\ GroupStep
<1>1. UNCHANGED <<online, peer, answers>> BY DEF socketVars
<1>2. Todo' = R
  BY HandledTypes DEF Todo, TaskInv, GroupsOK
<1>3. \A r \in open \cup Range(answers) : ~OfGroup(r, n)
  <2> SUFFICES ASSUME NEW r \in open \cup Range(answers), OfGroup(r, n) PROVE FALSE OBVIOUS
  <2>1. r # channel_sub BY NumberIsUnique
  <2>2. PICK m \in 1 .. h : OfGroup(r, m) BY <2>1 DEF HandledInv
  <2>3. m = n BY <2>2, NumberIsUnique
  <2>4. QED BY <2>2, <2>3
<1>4. open' \subseteq open \cup {s}
  <2>1. \A r \in open' : r \in open \/ r.id = s.id BY <1>1, LeavesEach
  <2>2. open' \subseteq Subscription /\ s \in Subscription
    <3>1. SessionOK(Session)' BY DEF TaskInv
    <3>2. (Session.open = open)' BY DEF Session
    <3>3. QED BY <3>1, <3>2 DEF SessionOK, Sessions
  <2>3. QED BY <2>1, <2>2, IdsTell
<1>5. unanswered' \subseteq open'
  <2>1. SessionOK(Session)' BY DEF TaskInv
  <2>2. (Session.open = open /\ Session.unanswered = unanswered)' BY DEF Session
  <2>3. QED BY <2>1, <2>2 DEF SessionOK
<1>6. Asked' \subseteq {s}
  BY <1>1, <1>2, <1>3, <1>4, <1>5 DEF Asked, Todo
<1>7. \A m \in 1 .. h : m \in 1 .. n /\ m # n OBVIOUS
<1>8. HandledInv(n)'
  <2>1. n \in 1 .. n OBVIOUS
  <2>2. \A r \in open' \cup Range(answers') : r = channel_sub \/ \E m \in 1 .. n : OfGroup(r, m)
    BY <1>1, <1>4, <1>7, <2>1 DEF HandledInv
  <2>3. ASSUME NEW m \in 1 .. n, NEW r \in open', NEW q \in open', OfGroup(r, m), OfGroup(q, m)
        PROVE  r = q
    <3>1. CASE m = n BY <1>3, <1>4, <2>3, <3>1
    <3>2. CASE m # n
      <4>1. ~OfGroup(s, m) BY <3>2, NumberIsUnique
      <4>2. m \in 1 .. h
        <5>1. r \in open BY <1>4, <2>3, <4>1
        <5>2. r # channel_sub BY <2>3, NumberIsUnique
        <5>3. PICK k \in 1 .. h : OfGroup(r, k) BY <5>1, <5>2 DEF HandledInv
        <5>4. QED BY <2>3, <5>3, NumberIsUnique
      <4>3. QED BY <1>4, <2>3, <4>1, <4>2 DEF HandledInv
    <3>3. QED BY <3>1, <3>2
  <2>4. R # {} /\ done' + 1 <= n
    BY DEF HandledInv
  <2>5. peer' => Todo' \cap Range(answers') \subseteq open' BY <1>1, <1>2, <1>3
  <2>6. \A r, q \in Asked' : r = q BY <1>6
  <2>7. ~online' => answers' = <<>> BY <1>1 DEF HandledInv
  <2>8. done' \in Nat BY DEF HandledInv
  <2>9. (\A r, q \in Asked : r = q)' BY <2>6
  <2>10. QED BY <1>2, <2>1, <2>2, <2>3, <2>4, <2>5, <2>7, <2>8, <2>9 DEF HandledInv
<1>9. GroupStep
  <2>1. Asked' \in {{r} : r \in R} \cup {{}} BY <1>6
  <2>2. Group!Ask(R) BY <2>1 DEF Group!Ask
  <2>3. (actions_id \in stalled)' = FALSE OBVIOUS
  <2>4. Group!Start(R) BY <1>2, <2>2, <2>3 DEF Group!Start, Todo
  <2>5. QED BY <2>4 DEF GroupStep, Group!Next
<1>10. QED BY <1>8, <1>9

\* The request that was answered is the one that was asked; the group goes on or is done.
LEMMA AnsweredStep ==
    ASSUME TaskInv, TaskInv', NEW h \in Nat, HandledInv(h),
           answers # <<>>, answers' = Tail(answers), UNCHANGED <<online, peer>>,
           subscriptions' \subseteq {channel_sub},
           ActionEose(actions_id, Head(answers).id),
           done' = IF GroupDone THEN done + 1 ELSE done
    PROVE  HandledInv(h)' /\ GroupStep
<1> DEFINE s == Head(answers)
           rest == Remove(Todo, s.id)
<1>0. /\ s \in Subscription /\ s \in Range(answers)
      /\ Range(answers') \subseteq Range(answers)
      /\ Range(answers) \subseteq Subscription /\ Todo \subseteq Subscription
      /\ actions_id \in ActionId /\ open \subseteq Subscription
  BY HandledTypes, RangeOfList
<1>1. /\ Entry(Todo, s.id) # {}
      /\ eose_actions' = [eose_actions EXCEPT ![actions_id] = rest]
      /\ \/ Leaves({s.id})
         \/ \E q \in rest : Leaves({s.id, q.id}) /\ \A r \in open' : r.id # s.id
  BY <1>0, ActionEoseEffect DEF Todo
<1>2. s \in Todo /\ rest = Todo \ {s} BY <1>0, <1>1, IdsTell DEF Entry, Remove
<1>3. Todo' = rest BY <1>1, HandledTypes DEF Todo, TaskInv, GroupsOK
<1> HIDE DEF s, rest
<1>4. Asked = {s} BY <1>0, <1>2 DEF HandledInv, Asked, Todo
<1>5. /\ open' \subseteq Subscription /\ unanswered' \subseteq open' /\ (~peer' => open' = {})
  <2>1. SessionOK(Session)' BY DEF TaskInv
  <2>2. (Session.open = open /\ Session.unanswered = unanswered)' BY DEF Session
  <2>3. QED BY <2>1, <2>2 DEF SessionOK, Sessions
<1>6. \A r \in rest : r \notin Range(answers) /\ r \notin unanswered
  BY <1>2, <1>4 DEF Asked, Todo
<1>7. \E F : /\ F = {} \/ \E q \in rest : F = {q}
             /\ open' \subseteq open \cup F
             /\ unanswered' \cap rest \subseteq F
             /\ F # {} => s \notin open'
  <2>1. CASE Leaves({s.id})
    <3>1. /\ \A r \in open' : r \in open \/ r.id = s.id
          /\ \A r \in unanswered' : r \in unanswered \/ r.id = s.id
      BY <2>1, LeavesEach
    <3>2. open' \subseteq open
      <4>1. peer => s \in open BY <1>0, <1>2 DEF HandledInv
      <4>2. QED BY <1>0, <1>5, <3>1, <4>1, IdsTell
    <3>3. unanswered' \cap rest \subseteq {}
      BY <1>0, <1>2, <1>5, <1>6, <3>1, IdsTell
    <3>4. QED BY <3>2, <3>3
  <2>2. ASSUME NEW q \in rest, Leaves({s.id, q.id}), \A r \in open' : r.id # s.id
        PROVE  /\ open' \subseteq open \cup {q}
               /\ unanswered' \cap rest \subseteq {q}
               /\ s \notin open'
    <3>1. /\ \A r \in open' : r \in open \/ r.id \in {s.id, q.id}
          /\ \A r \in unanswered' : r \in unanswered \/ r.id \in {s.id, q.id}
      BY <2>2, LeavesEach
    <3>2. q \in Subscription BY <1>0, <1>2
    <3>3. open' \subseteq open \cup {q} BY <1>5, <2>2, <3>1, <3>2, IdsTell
    <3>4. unanswered' \cap rest \subseteq {q}
      BY <1>5, <1>6, <2>2, <3>1, <3>2, IdsTell
    <3>5. QED BY <2>2, <3>3, <3>4
  <2>3. CASE \E q \in rest : Leaves({s.id, q.id}) /\ \A r \in open' : r.id # s.id
    <3>1. PICK q \in rest : Leaves({s.id, q.id}) /\ \A r \in open' : r.id # s.id BY <2>3
    <3>2. /\ open' \subseteq open \cup {q} /\ unanswered' \cap rest \subseteq {q} /\ s \notin open'
      BY <2>2, <3>1
    <3>3. QED BY <3>2
  <2>4. QED BY <1>1, <2>1, <2>3 DEF s
<1>8. PICK F : /\ F = {} \/ \E q \in rest : F = {q}
               /\ open' \subseteq open \cup F
               /\ unanswered' \cap rest \subseteq F
               /\ F # {} => s \notin open'
  BY <1>7
<1>9. Asked' \subseteq F
  BY <1>0, <1>3, <1>6, <1>8 DEF Asked, Todo
<1>10. PICK m \in 1 .. h : \A r \in Todo : OfGroup(r, m) BY <1>2 DEF HandledInv
<1>11. done' \in Nat /\ done' + (IF Todo' = {} THEN 0 ELSE 1) <= h
  <2>1. done \in Nat /\ done + 1 <= h BY <1>2 DEF HandledInv
  <2>2. CASE GroupDone
    <3>1. done' = done + 1 /\ Todo' = {} BY <2>2 DEF GroupDone, Todo
    <3>2. QED BY <2>1, <3>1
  <2>3. CASE ~GroupDone BY <2>1, <2>3
  <2>4. QED BY <2>2, <2>3
<1>12. HandledInv(h)'
  <2>1. ASSUME NEW r \in F PROVE OfGroup(r, m) BY <1>2, <1>8, <1>10, <2>1
  <2>2. \A r \in open' \cup Range(answers') : r = channel_sub \/ \E n \in 1 .. h : OfGroup(r, n)
    BY <1>0, <1>8, <1>10, <2>1 DEF HandledInv
  <2>3. Todo' # {} => \E n \in 1 .. h : \A r \in Todo' : OfGroup(r, n)
    BY <1>2, <1>3, <1>10
  <2>4. ASSUME NEW n \in 1 .. h, NEW r \in open', NEW q \in open', OfGroup(r, n), OfGroup(q, n)
        PROVE  r = q
    <3>1. CASE r \in open /\ q \in open BY <2>4, <3>1 DEF HandledInv
    <3>2. CASE ~(r \in open /\ q \in open)
      <4>1. F # {} /\ (r \in F \/ q \in F) BY <1>8, <2>4, <3>2
      <4>2. m = n BY <2>1, <2>4, <4>1, NumberIsUnique
      <4>3. peer BY <1>5, <2>4
      <4>4. s \in open /\ OfGroup(s, m) BY <1>0, <1>2, <1>10, <4>3 DEF HandledInv
      <4>5. \A x \in open' : x \in open /\ OfGroup(x, m) => FALSE
        BY <1>8, <4>1, <4>4 DEF HandledInv
      <4>6. r \in F /\ q \in F BY <1>8, <2>4, <4>2, <4>5
      <4>7. QED BY <1>8, <4>6
    <3>3. QED BY <3>1, <3>2
  <2>5. peer' => Todo' \cap Range(answers') \subseteq open' BY <1>0, <1>3, <1>6
  <2>6. (\A r, q \in Asked : r = q)' BY <1>8, <1>9
  <2>7. ~online' => answers' = <<>> BY <1>0, RangeOfList, HandledTypes DEF HandledInv
  <2>8. QED BY <1>11, <2>2, <2>3, <2>4, <2>5, <2>6, <2>7 DEF HandledInv
<1>13. GroupStep
  <2>1. Asked # {} /\ Todo' = Todo \ Asked BY <1>2, <1>3, <1>4
  <2>2. Asked' \in {{r} : r \in Todo'} \cup {{}} BY <1>3, <1>8, <1>9
  <2>3. Group!Ask(Todo') BY <2>2 DEF Group!Ask
  <2>4. stalled' \in {stalled, stalled \cup {actions_id}} BY <1>0, ActionEoseEffect
  <2>5. Group!MayBreak
    <3>1. actions_id \in stalled' \/ (actions_id \in stalled' <=> actions_id \in stalled)
      BY <2>4
    <3>2. QED BY <3>1 DEF Group!MayBreak
  <2>6. \/ Todo' # {} /\ done' = done
        \/ Todo' = {} /\ done' = done + 1
        \/ Todo' = {} /\ actions_id \in stalled' /\ done' = done
    BY <1>2, <2>4 DEF GroupDone, Todo
  <2>7. Group!Answered BY <2>1, <2>3, <2>5, <2>6 DEF Group!Answered, Todo
  <2>8. QED BY <2>7 DEF GroupStep, Group!Next
<1>14. QED BY <1>12, <1>13

LEMMA EoseHandled ==
    ASSUME TaskInv, NEW h \in Nat, HandledInv(h), TaskEose
    PROVE  TaskInv' /\ HandledInv(h)' /\ GroupStep
<1> DEFINE id == Head(answers).id
<1>1. /\ check_eose /\ answers # <<>> /\ answers' = Tail(answers)
      /\ UNCHANGED <<online, peer>>
      /\ online
      /\ done' = IF GroupDone THEN done + 1 ELSE done
      /\ SubscriptionEose(id) \/ \E a \in ActionId : ActionEose(a, id)
  BY DEF TaskEose, check_eose, Selecting
<1>2. TaskInv' BY <1>1, EoseStep
<1>3. CASE SubscriptionEose(id)
  <2>1. /\ UNCHANGED <<eose_actions, stalled>> /\ subscriptions' \subseteq {channel_sub}
        /\ Leaves({id}) /\ open' \subseteq open /\ unanswered' \subseteq unanswered
        /\ \A a \in ActionId : Entry(eose_actions[a], id) = {}
    BY <1>3, SubscriptionEoseEffect DEF HandledInv, groupVars
  <2>2. done' = done BY <1>1, <2>1 DEF GroupDone
  <2>3. Range(answers') \subseteq Range(answers) /\ Head(answers) \in Subscription
    BY <1>1, HandledTypes, RangeOfList
  <2>4. peer' => Todo \cap Range(answers') \subseteq open'
    <3>1. \A r \in Todo : r.id # id BY <2>1, HandledTypes DEF Entry, Todo
    <3>2. peer => \A r \in open : r \in open' \/ r.id \in {id}
      BY <1>1, <1>2, <2>1, LeavesEach
    <3>3. QED BY <1>1, <2>3, <3>1, <3>2 DEF HandledInv
  <2>5. HandledInv(h)' /\ GroupStep BY <1>1, <1>2, <2>1, <2>2, <2>3, <2>4, QuietStep
  <2>6. QED BY <1>2, <2>5
<1>4. CASE \E a \in ActionId : ActionEose(a, id)
  <2>1. ActionEose(actions_id, id) BY <1>4, HandledTypes
  <2>2. subscriptions' \subseteq {channel_sub}
    BY <2>1, ActionEoseEffect, HandledTypes DEF HandledInv
  <2>3. QED BY <1>1, <1>2, <2>1, <2>2, AnsweredStep
<1>5. QED BY <1>1, <1>3, <1>4

LEMMA TimeoutHandled ==
    ASSUME TaskInv, NEW h \in Nat, HandledInv(h), NEW s \in Subscription, TaskTimeout(s)
    PROVE  TaskInv' /\ HandledInv(h)' /\ GroupStep
<1>1. Timeout(s) /\ UNCHANGED done BY DEF TaskTimeout
<1>2. TaskInv' BY <1>1, TimeoutStep
<1>3. /\ UNCHANGED <<eose_actions, stalled, answers, online, peer>>
      /\ subscriptions' \subseteq subscriptions
      /\ Leaves({r.id : r \in subscriptions} \cap {s.id})
  BY <1>1, TimeoutEffect DEF groupVars
<1>4. {r.id : r \in subscriptions} \cap {s.id} \subseteq {channel_sub.id} BY DEF HandledInv
<1>5. UNCHANGED socketVars /\ subscriptions' \subseteq {channel_sub}
  BY <1>3 DEF socketVars, HandledInv
<1>6. QED BY <1>1, <1>2, <1>3, <1>4, <1>5, ChannelStep

LEMMA ConnectionHandled ==
    ASSUME TaskInv, NEW h \in Nat, HandledInv(h), UNCHANGED done,
           Connect \/ ConnectionLost \/ PeerGone \/ \E r \in Subscription : AnswerEose(r)
    PROVE  TaskInv' /\ HandledInv(h)' /\ GroupStep
<1>1. TaskInv' BY ConnectionStep
<1>2. /\ UNCHANGED <<eose_actions, subscriptions>> /\ subscriptions' \subseteq {channel_sub}
      /\ open' \subseteq open /\ unanswered' \subseteq unanswered
  BY DEF Connect, ConnectionLost, Disconnect, PeerGone, AnswerEose, sessionVars, groupVars, HandledInv
<1>3. CASE Connect
  <2>1. online' /\ answers' = <<>> /\ UNCHANGED stalled BY <1>3 DEF Connect, HandledInv, groupVars
  <2>2. Range(answers') = {} BY <2>1 DEF Range
  <2>3. QED BY <1>1, <1>2, <2>1, <2>2, QuietStep
<1>4. CASE ConnectionLost
  <2>1. answers' = <<>> /\ unanswered' = {} /\ stalled \subseteq stalled'
    BY <1>4 DEF ConnectionLost, Disconnect
  <2>2. Range(answers') = {} /\ Asked' = {} BY <2>1 DEF Range, Asked
  <2>3. QED BY <1>1, <1>2, <2>1, <2>2, QuietStep
<1>5. CASE PeerGone
  <2>1. ~peer' /\ UNCHANGED <<online, answers, stalled>> BY <1>5 DEF PeerGone, groupVars
  <2>2. ~online' => answers' = <<>> BY <2>1 DEF HandledInv
  <2>3. QED BY <1>1, <1>2, <2>1, <2>2, QuietStep
<1>6. ASSUME NEW r \in Subscription, AnswerEose(r) PROVE HandledInv(h)' /\ GroupStep
  <2>1. r \in unanswered /\ answers' = Append(answers, r) /\ UNCHANGED <<online, peer, open, stalled>>
    BY <1>6 DEF AnswerEose, groupVars
  <2>2. Range(answers') = Range(answers) \cup {r}
    BY <2>1, HandledTypes, RangeOfAppend
  <2>3. r \in open /\ peer /\ online
    BY <2>1, HandledTypes DEF TaskInv, SocketOK
  <2>4. peer' => Todo \cap Range(answers') \subseteq open'
    BY <2>1, <2>2, <2>3 DEF HandledInv
  <2>5. QED BY <1>1, <1>2, <2>1, <2>2, <2>3, <2>4, QuietStep
<1>7. QED BY <1>1, <1>3, <1>4, <1>5, <1>6

LEMMA MachineInputOK ==
    ASSUME NEW i \in MachineInput
    PROVE  /\ InputOK(i)
           /\ i = channel_input \/ i \in GroupInput
           /\ channel_input \notin GroupInput
<1>1. channel_input \notin GroupInput BY DEF channel_input, GroupInput
<1>2. CASE i = channel_input
  <2>1. i.kind = "Subscribe" /\ i.subscription = channel_sub BY <1>2 DEF channel_input
  <2>2. InputOK(i) BY <2>1, IdsTell DEF InputOK
  <2>3. QED BY <1>1, <1>2, <2>2
<1>3. CASE i \in GroupInput
  <2>1. /\ i.kind = "EoseActions" /\ i.action_id = actions_id
        /\ i.subscriptions \in Seq(Subscription)
    BY <1>3 DEF GroupInput
  <2>2. Range(i.subscriptions) \subseteq Subscription BY <2>1 DEF Range
  <2>3. Keyed(Range(i.subscriptions)) BY <2>2, IdsTell DEF Keyed
  <2>4. QED BY <1>1, <1>3, <2>1, <2>3, StateMachineAssumption DEF InputOK
<1>4. QED BY <1>1, <1>2, <1>3 DEF MachineInput

\* An input handled while connected moves on to its group, if it has one.
LEMMA InputHandled ==
    ASSUME TaskInv, NEW h \in Nat, HandledInv(h), UNCHANGED <<socketVars, done>>,
           NEW i \in MachineInput, handle_other_inputs_connected(i),
           NEW n \in Nat, h <= n, i \in GroupInput => h < n /\ AsksFor(i, n)
    PROVE  TaskInv' /\ HandledInv(n)' /\ GroupStep
<1>1. InputOK(i) BY MachineInputOK
<1>2. TaskInv' BY <1>1, InputStep
<1>3. HandledInv(n) BY HandledLater
<1>4. CASE i = channel_input
  <2>1. Subscribe(channel_sub)
    BY <1>4 DEF handle_other_inputs_connected, channel_input
  <2>2. /\ UNCHANGED <<eose_actions, stalled>>
        /\ subscriptions' \subseteq subscriptions \cup {channel_sub}
        /\ Leaves({channel_sub.id})
    BY <2>1, SubscribeEffect, IdsTell DEF groupVars
  <2>3. subscriptions' \subseteq {channel_sub} BY <2>2 DEF HandledInv
  <2>4. QED BY <1>2, <1>3, <2>2, <2>3, ChannelStep
<1>5. CASE i \in GroupInput
  <2> DEFINE list == i.subscriptions
  <2>1. EoseActions(actions_id, list) /\ list \in Seq(Subscription)
    BY <1>5 DEF handle_other_inputs_connected, GroupInput
  <2>2. Range(list) \in SUBSET Subscription /\ \A r \in Range(list) : OfGroup(r, n)
    BY <1>5, <2>1 DEF AsksFor, Range
  <2>3. CASE UNCHANGED <<sessionVars, groupVars>>
    <3>1. /\ UNCHANGED <<eose_actions, stalled>>
          /\ subscriptions' \subseteq {channel_sub} /\ Leaves({})
      BY <2>3 DEF sessionVars, groupVars, Leaves, HandledInv
    <3>2. QED BY <1>2, <1>3, <3>1, ChannelStep
  <2>4. CASE /\ subscriptions' \subseteq subscriptions /\ Leaves({})
             /\ UNCHANGED <<eose_actions, stalled>>
    <3>1. subscriptions' \subseteq {channel_sub} BY <2>4 DEF HandledInv
    <3>2. QED BY <1>2, <1>3, <2>4, <3>1, ChannelStep
  <2>5. CASE /\ list # <<>> /\ Head(list) \in Range(list)
             /\ subscriptions' \subseteq subscriptions
             /\ eose_actions' = [eose_actions EXCEPT ![actions_id] = Range(list)]
             /\ stalled' = stalled \ {actions_id}
             /\ Leaves({Head(list).id})
    <3>1. subscriptions' \subseteq {channel_sub} BY <2>5 DEF HandledInv
    <3>2. QED BY <1>2, <1>5, <2>2, <2>5, <3>1, StartStep
  <2>6. QED BY <2>1, <2>3, <2>4, <2>5, EoseActionsEffect, HandledTypes DEF groupVars
<1>6. QED BY <1>4, <1>5, MachineInputOK

\* Nothing of the task changes.
LEMMA UnhandledStep ==
    ASSUME TaskInv, NEW h \in Nat, HandledInv(h),
           UNCHANGED <<socketVars, switchVars, sessionVars, groupVars, done>>
    PROVE  TaskInv' /\ HandledInv(h)' /\ GroupStep
<1>1. TaskInv' BY TaskStutters
<1>2. /\ UNCHANGED <<eose_actions, stalled>>
      /\ subscriptions' \subseteq {channel_sub} /\ Leaves({})
  BY DEF sessionVars, groupVars, Leaves, HandledInv
<1>3. QED BY <1>1, <1>2, ChannelStep

-----------------------------------------------------------------------------
(* The inputs on their way. *)

LEMMA TwoQueues ==
    ASSUME NEW S, NEW q \in Seq(S), NEW r \in Seq(S)
    PROVE  /\ q \o r \in Seq(S)
           /\ <<>> \o r = r
           /\ q # <<>> => q \o r # <<>> /\ Head(q \o r) = Head(q) /\ Tail(q) \o r = Tail(q \o r)
           /\ r # <<>> => Append(q, Head(r)) \o Tail(r) = q \o r
           /\ \A e \in S : q \o Append(r, e) = Append(q \o r, e)
<1>1. q \o r \in Seq(S) /\ <<>> \o r = r OBVIOUS
<1>2. ASSUME q # <<>>
      PROVE  q \o r # <<>> /\ Head(q \o r) = Head(q) /\ Tail(q) \o r = Tail(q \o r)
  <2>1. Len(q) \in Nat \ {0} /\ Len(r) \in Nat /\ Tail(q) \in Seq(S) /\ Len(Tail(q)) = Len(q) - 1
    BY <1>2
  <2>2. /\ Len(q \o r) = Len(q) + Len(r)
        /\ \A i \in 1 .. Len(q) + Len(r) :
               (q \o r)[i] = IF i <= Len(q) THEN q[i] ELSE r[i - Len(q)]
    OBVIOUS
  <2>3. q \o r # <<>> BY <2>1, <2>2
  <2>4. Head(q \o r) = Head(q)
    <3>1. \A t \in Seq(S) : t # <<>> => Head(t) = t[1] OBVIOUS
    <3>2. 1 \in 1 .. Len(q) + Len(r) /\ 1 <= Len(q) BY <2>1
    <3>3. (q \o r)[1] = q[1] BY <2>2, <3>2
    <3>4. QED BY <1>1, <1>2, <2>3, <3>1, <3>3
  <2>5. Tail(q) \o r \in Seq(S) /\ Tail(q \o r) \in Seq(S) BY <1>1, <2>1, <2>3
  <2>6. Len(Tail(q) \o r) = Len(Tail(q \o r)) BY <1>1, <2>1, <2>2, <2>3
  <2>7. ASSUME NEW i \in 1 .. Len(Tail(q) \o r) PROVE (Tail(q) \o r)[i] = Tail(q \o r)[i]
    BY <1>1, <2>1, <2>2, <2>3
  <2>8. Tail(q) \o r = Tail(q \o r) BY <2>5, <2>6, <2>7, SeqEqual
  <2>9. QED BY <2>3, <2>4, <2>8
<1>3. ASSUME r # <<>> PROVE Append(q, Head(r)) \o Tail(r) = q \o r
  <2>1. Head(r) \in S /\ Tail(r) \in Seq(S) /\ r = <<Head(r)>> \o Tail(r)
    <3>1. Head(r) = r[1] /\ Len(r) \in Nat \ {0} BY <1>3
    <3>2. 1 \in 1 .. Len(r) /\ Len(r) \in 1 .. Len(r) BY <3>1
    <3>3. SubSeq(r, 1, Len(r)) = <<r[1]>> \o SubSeq(r, 1 + 1, Len(r))
      BY <3>2, SubSeqRecursiveFirst
    <3>4. SubSeq(r, 1, Len(r)) = r BY SubSeqFull
    <3>5. Tail(r) = SubSeq(r, 2, Len(r)) BY <1>3, TailIsSubSeq
    <3>6. Head(r) \in S /\ Tail(r) \in Seq(S) BY <1>3, HeadTailProperties
    <3>7. QED BY <3>1, <3>3, <3>4, <3>5, <3>6
  <2>2. Append(q, Head(r)) = q \o <<Head(r)>> BY <2>1, AppendIsConcat
  <2>3. <<Head(r)>> \in Seq(S) BY <2>1
  <2>4. (q \o <<Head(r)>>) \o Tail(r) = q \o (<<Head(r)>> \o Tail(r))
    BY <2>1, <2>3, ConcatAssociative
  <2>5. QED BY <2>1, <2>2, <2>4
<1>4. ASSUME NEW e \in S PROVE q \o Append(r, e) = Append(q \o r, e)
  <2>1. <<e>> \in Seq(S) OBVIOUS
  <2>2. Append(r, e) = r \o <<e>> /\ Append(q \o r, e) = (q \o r) \o <<e>>
    BY <1>1, AppendIsConcat
  <2>3. (q \o r) \o <<e>> = q \o (r \o <<e>>) BY <2>1, ConcatAssociative
  <2>4. QED BY <2>2, <2>3
<1>5. QED BY <1>1, <1>2, <1>3, <1>4

\* The first input is handled, and with it its group.
LEMMA FirstInputTaken ==
    ASSUME NEW h \in Nat, h <= groups, WaitingInv(h), Waiting # <<>>, Waiting' = Tail(Waiting),
           input_queue' \in Seq(MachineInput), toRelay' \in Seq(MachineInput), UNCHANGED groups
    PROVE  /\ Head(Waiting) \in MachineInput
           /\ \E n \in Nat :
                  /\ h <= n /\ n <= groups /\ WaitingInv(n)'
                  /\ Head(Waiting) \in GroupInput => h < n /\ AsksFor(Head(Waiting), n)
<1>1. Waiting \in Seq(MachineInput) /\ groups \in Nat
  <2>1. input_queue \in Seq(MachineInput) /\ toRelay \in Seq(MachineInput)
    BY DEF WaitingInv
  <2>2. groups \in Nat BY StateMachineAssumption DEF WaitingInv
  <2>3. QED BY <2>1, <2>2, TwoQueues DEF Waiting
<1>2. PICK f : /\ Climbs(f, Waiting, GroupInput, h, groups)
               /\ \A i \in DOMAIN Waiting :
                      Waiting[i] \in GroupInput => AsksFor(Waiting[i], f[i])
  BY DEF WaitingInv, GroupsWait
<1> DEFINE g == [i \in DOMAIN Tail(Waiting) |-> f[i + 1]]
<1>3. PICK n \in Nat :
        /\ n = IF Head(Waiting) \in GroupInput THEN f[1] ELSE h
        /\ h <= n
        /\ Head(Waiting) \in GroupInput => n \in h + 1 .. groups
        /\ Climbs(g, Tail(Waiting), GroupInput, n, groups)
        /\ \A i \in DOMAIN Tail(Waiting) :
               i + 1 \in DOMAIN Waiting /\ Tail(Waiting)[i] = Waiting[i + 1]
  <2> DEFINE next == IF Head(Waiting) \in GroupInput THEN f[1] ELSE h
  <2>1. /\ next \in Nat /\ h <= next
        /\ Head(Waiting) \in GroupInput => next \in h + 1 .. groups
        /\ Climbs(g, Tail(Waiting), GroupInput, next, groups)
        /\ \A i \in DOMAIN Tail(Waiting) :
               i + 1 \in DOMAIN Waiting /\ Tail(Waiting)[i] = Waiting[i + 1]
    BY <1>1, <1>2, ClimbsTail
  <2>2. QED BY <2>1
<1>4. Head(Waiting) \in GroupInput => AsksFor(Head(Waiting), n)
  <2>1. 1 \in DOMAIN Waiting /\ Head(Waiting) = Waiting[1] BY <1>1
  <2>2. QED BY <1>2, <1>3, <2>1
<1>5. \A i \in DOMAIN Tail(Waiting) : Tail(Waiting)[i] \in GroupInput => AsksFor(Tail(Waiting)[i], g[i])
  BY <1>2, <1>3
<1>6. GroupsWait(Tail(Waiting), n, groups) BY <1>3, <1>5 DEF GroupsWait
<1>7. WaitingInv(n)'
  <2>1. GroupsWait(Waiting', n, groups') BY <1>6
  <2>2. QED BY <2>1 DEF WaitingInv
<1>8. h <= n /\ n <= groups /\ (Head(Waiting) \in GroupInput => h < n)
  <2>1. CASE Head(Waiting) \in GroupInput
    <3>1. n \in h + 1 .. groups BY <1>3, <2>1
    <3>2. QED BY <1>1, <3>1
  <2>2. CASE Head(Waiting) \notin GroupInput BY <1>1, <1>3, <2>2
  <2>3. QED BY <2>1, <2>2
<1>9. Head(Waiting) \in MachineInput BY <1>1
<1>10. QED BY <1>4, <1>7, <1>8, <1>9

\* Another input is sent: the channels' subscription or the next group.
LEMMA InputSent ==
    ASSUME NEW h \in Nat, h <= groups, WaitingInv(h), NEW e \in MachineInput,
           input_queue' = input_queue, toRelay' = Append(toRelay, e), groups' \in 0 .. MaxGroups,
           \/ e = channel_input /\ groups' = groups
           \/ e \in GroupInput /\ groups' = groups + 1 /\ AsksFor(e, groups')
    PROVE  WaitingInv(h)'
<1>1. /\ Waiting \in Seq(MachineInput) /\ groups \in Nat
      /\ Waiting' = Append(Waiting, e)
      /\ input_queue' \in Seq(MachineInput) /\ toRelay' \in Seq(MachineInput)
  BY TwoQueues, StateMachineAssumption DEF WaitingInv, Waiting
<1>2. PICK f : /\ Climbs(f, Waiting, GroupInput, h, groups)
               /\ \A i \in DOMAIN Waiting :
                      Waiting[i] \in GroupInput => AsksFor(Waiting[i], f[i])
  BY DEF WaitingInv, GroupsWait
<1> DEFINE r == Append(Waiting, e)
           g == Extended(f, Waiting, groups')
<1>3. groups' = After(e, GroupInput, groups) BY MachineInputOK DEF After
<1>4. /\ Climbs(g, r, GroupInput, h, groups')
      /\ \A i \in DOMAIN Waiting : i \in DOMAIN r /\ r[i] = Waiting[i] /\ g[i] = f[i]
      /\ \A i \in DOMAIN r \ DOMAIN Waiting : r[i] = e /\ g[i] = groups'
  <2>1. Climbs(g, r, GroupInput, h, groups') BY <1>1, <1>2, <1>3, ClimbsAppend
  <2>2. /\ DOMAIN Waiting = 1 .. Len(Waiting) /\ DOMAIN r = 1 .. Len(Waiting) + 1
        /\ \A i \in DOMAIN Waiting : r[i] = Waiting[i]
        /\ \A i \in DOMAIN r \ DOMAIN Waiting : r[i] = e
    BY <1>1
  <2>3. QED BY <1>1, <2>1, <2>2 DEF Extended
<1> HIDE DEF r, g
<1>5. ASSUME NEW i \in DOMAIN r, r[i] \in GroupInput PROVE AsksFor(r[i], g[i])
  <2>1. CASE i \in DOMAIN Waiting BY <1>2, <1>4, <1>5, <2>1
  <2>2. CASE i \notin DOMAIN Waiting BY <1>4, <1>5, <2>2, MachineInputOK
  <2>3. QED BY <2>1, <2>2
<1>6. GroupsWait(r, h, groups') BY <1>4, <1>5 DEF GroupsWait
<1>7. QED BY <1>1, <1>6 DEF WaitingInv, r

-----------------------------------------------------------------------------
(* The notifications. *)

LEMMA ClimbsWider ==
    ASSUME NEW f, NEW S, NEW q \in Seq(S), NEW M, NEW lo \in Nat, NEW hi \in Nat,
           Climbs(f, q, M, lo, hi), NEW least \in Nat, least <= lo
    PROVE  Climbs(f, q, M, least, hi)
BY DEF Climbs

LEMMA NoticeKinds ==
    /\ ActionsDone \in Notice
    /\ \A c \in Channels : Event(c) \in Notice /\ Event(c) # ActionsDone
    /\ \A s \in Subscription :
           /\ EndOfStoredEvents(s.id) \in Notice /\ EndOfStoredEvents(s.id) # ActionsDone
           /\ TimedOut(s.id) \in Notice /\ TimedOut(s.id) # ActionsDone
    /\ \A n \in Notice : n.event = "Event" => n.channel \in Channels
<1>1. /\ ActionsDone.event = "ActionsDone"
      /\ \A c : Event(c).event = "Event" /\ Event(c).channel = c
      /\ \A i : EndOfStoredEvents(i).event = "EndOfStoredEvents" /\ TimedOut(i).event = "Timeout"
  BY DEF ActionsDone, Event, EndOfStoredEvents, TimedOut
<1>2. /\ ActionsDone \in Notice
      /\ \A c \in Channels : Event(c) \in Notice
      /\ \A s \in Subscription : EndOfStoredEvents(s.id) \in Notice /\ TimedOut(s.id) \in Notice
  BY DEF Notice
<1>3. ASSUME NEW n \in Notice, n.event = "Event" PROVE n.channel \in Channels
  BY <1>1, <1>3 DEF Notice
<1>4. QED BY <1>1, <1>2, <1>3

\* A sequence of notices is extended by one.
LEMMA NoticeAppended ==
    ASSUME NEW q \in Seq(Notice), NEW e \in Notice, NEW counted \in Nat, NEW last \in Nat,
           counted <= last, DoneWait(q, counted, last)
    PROVE  /\ q \o <<e>> \in Seq(Notice)
           /\ DoneWait(q \o <<e>>, counted, IF e = ActionsDone THEN last + 1 ELSE last)
<1>1. q \o <<e>> = Append(q, e) BY AppendIsConcat
<1>2. PICK f : Climbs(f, q, {ActionsDone}, counted, last) BY DEF DoneWait
<1>3. Climbs(Extended(f, q, After(e, {ActionsDone}, last)), Append(q, e), {ActionsDone}, counted,
             After(e, {ActionsDone}, last))
  BY <1>2, ClimbsAppend
<1>4. After(e, {ActionsDone}, last) = IF e = ActionsDone THEN last + 1 ELSE last BY DEF After
<1>5. Append(q, e) \in Seq(Notice) OBVIOUS
<1>6. QED BY <1>1, <1>3, <1>4, <1>5 DEF DoneWait

\* What is lost of a broadcast are its oldest notices.
LEMMA Notified ==
    ASSUME NoticesInv, NEW list, Notify(list), UNCHANGED clientVars,
           notices \o list \in Seq(Notice), done' \in {done, done + 1},
           DoneWait(notices \o list, acc, done')
    PROVE  NoticesInv'
<1> DEFINE all == notices \o list
           lost == IF Len(all) > NoticeCap THEN Len(all) - NoticeCap ELSE 0
<1>1. /\ notices' = SubSeq(all, lost + 1, Len(all)) /\ lagged' = (lagged \/ lost > 0)
  BY DEF Notify
<1>2. NoticeCap \in Nat BY StateMachineAssumption
<1>3. \A m \in Nat : LET k == IF m > NoticeCap THEN m - NoticeCap ELSE 0
                     IN k \in 0 .. m /\ m - k <= NoticeCap
  BY <1>2
<1>4. Len(all) \in Nat OBVIOUS
<1>5. lost \in 0 .. Len(all) /\ Len(all) - lost <= NoticeCap BY <1>3, <1>4
<1>6. acc \in Nat /\ done \in Nat /\ done' \in Nat /\ done <= done' BY StateMachineAssumption DEF NoticesInv
<1> HIDE DEF lost, all
<1>7. PICK f : Climbs(f, all, {ActionsDone}, acc, done') BY DEF DoneWait, all
<1>8. all \in Seq(Notice) BY DEF all
<1>9. /\ notices' \in Seq(Notice) /\ Len(notices') = Len(all) - lost
      /\ \E g : Climbs(g, notices', {ActionsDone}, acc, done')
  BY <1>1, <1>5, <1>6, <1>7, <1>8, ClimbsSuffix
<1>10. Len(notices') <= NoticeCap BY <1>5, <1>9
<1>11. lagged' \in BOOLEAN /\ (lagged => lagged') BY <1>1 DEF NoticesInv
<1>12. UNCHANGED <<running, acc, channel_ids>> BY DEF clientVars
<1>13. DoneWait(notices', acc, done') BY <1>9 DEF DoneWait
<1>14. acc <= done' BY <1>6 DEF NoticesInv
<1>15. running \/ lagged' \/ done' >= Enough
  BY <1>6, <1>11, StateMachineAssumption DEF NoticesInv
<1>16. QED BY <1>6, <1>9, <1>10, <1>11, <1>12, <1>13, <1>14, <1>15 DEF NoticesInv

\* The client takes the first notice; only ActionsDone is counted.
LEMMA NoticeTaken ==
    ASSUME NoticesInv, notices # <<>>, running, notices' = Tail(notices),
           UNCHANGED <<lagged, done>>, channel_ids' \subseteq Channels,
           \/ Head(notices) = ActionsDone /\ acc' = acc + 1 /\ running' = (acc' # Enough)
           \/ Head(notices) # ActionsDone /\ UNCHANGED <<acc, running>>
    PROVE  NoticesInv'
<1>1. /\ acc \in Nat /\ done \in Nat /\ Enough \in Nat /\ acc <= done /\ acc < Enough
      /\ notices \in Seq(Notice)
  BY StateMachineAssumption DEF NoticesInv
<1>2. /\ Tail(notices) \in Seq(Notice) /\ Len(Tail(notices)) = Len(notices) - 1
      /\ Len(notices) \in Nat
  BY <1>1
<1>3. NoticeCap \in Nat BY StateMachineAssumption
<1>4. Len(notices') <= NoticeCap BY <1>2, <1>3 DEF NoticesInv
<1> DEFINE D == {ActionsDone}
<1>5. PICK f : Climbs(f, notices, D, acc, done) BY DEF NoticesInv, DoneWait
<1> HIDE DEF D
<1> DEFINE next == IF Head(notices) \in D THEN f[1] ELSE acc
           g == [i \in DOMAIN Tail(notices) |-> f[i + 1]]
<1>6. /\ next \in Nat /\ acc <= next
      /\ Head(notices) \in D => next \in acc + 1 .. done
      /\ Climbs(g, Tail(notices), D, next, done)
      /\ \A i \in DOMAIN Tail(notices) :
             i + 1 \in DOMAIN notices /\ Tail(notices)[i] = notices[i + 1]
  BY <1>1, <1>5, ClimbsTail
<1> HIDE DEF next, g
<1>7. acc' \in Nat /\ acc' <= next /\ acc' <= done
  <2>1. CASE acc' = acc BY <1>1, <1>6, <2>1
  <2>2. CASE Head(notices) = ActionsDone /\ acc' = acc + 1
    <3>1. next \in acc + 1 .. done BY <1>6, <2>2 DEF D
    <3>2. QED BY <1>1, <2>2, <3>1
  <2>3. QED BY <2>1, <2>2
<1>8. Climbs(g, Tail(notices), D, acc', done)
  BY <1>1, <1>2, <1>6, <1>7, ClimbsWider
<1>9. DoneWait(notices', acc', done') BY <1>8 DEF DoneWait, D
<1>10. /\ acc' \in 0 .. Enough /\ (running' => acc' < Enough) /\ running' \in BOOLEAN
       /\ running' \/ done' >= Enough
  <2>1. CASE acc' = acc /\ running' = running
    BY <1>1, <2>1 DEF NoticesInv
  <2>2. CASE acc' = acc + 1 /\ running' = (acc' # Enough)
    <3>1. acc' \in 0 .. Enough BY <1>1, <2>2
    <3>2. running' = (acc' # Enough) BY <2>2
    <3>3. running' \in BOOLEAN /\ (running' <=> acc' # Enough) BY <3>2
    <3>4. (acc' = Enough => done >= Enough) /\ (acc' # Enough => acc' < Enough)
      BY <1>1, <1>7, <2>2
    <3>5. QED BY <3>1, <3>2, <3>3, <3>4
  <2>3. QED BY <2>1, <2>2
<1>11. QED BY <1>1, <1>2, <1>4, <1>7, <1>9, <1>10 DEF NoticesInv

-----------------------------------------------------------------------------
(* The steps. *)

\* The inputs on their way stay where they are.
LEMMA NothingTaken ==
    ASSUME NEW h, WaitingInv(h), UNCHANGED <<input_queue, toRelay, groups>>
    PROVE  WaitingInv(h)'
BY DEF WaitingInv, Waiting

LEMMA NothingNotified ==
    ASSUME NoticesInv, UNCHANGED <<clientVars, noticeVars>>
    PROVE  NoticesInv'
BY DEF NoticesInv, clientVars, noticeVars

LEMMA TaskInputStep ==
    ASSUME TaskInv, NoticesInv, NEW h \in Nat, h <= groups, HandledInv(h), WaitingInv(h),
           TaskInput
    PROVE  MachineInv' /\ GroupStep
<1>1. /\ toRelay # <<>> /\ toRelay' = Tail(toRelay)
      /\ UNCHANGED <<socketVars, clientVars, noticeVars>>
  BY DEF TaskInput
<1>2. NoticesInv' BY <1>1, NothingNotified
<1>3. UNCHANGED groups /\ UNCHANGED done BY <1>1 DEF clientVars, noticeVars
<1>4. input_queue \in Seq(MachineInput) /\ toRelay \in Seq(MachineInput) BY DEF WaitingInv
<1>5. Head(toRelay) \in MachineInput /\ toRelay' \in Seq(MachineInput) BY <1>1, <1>4
<1>6. groups \in Nat BY StateMachineAssumption DEF WaitingInv
<1>7. CASE /\ Selecting /\ handle_other_inputs_connected(Head(toRelay))
           /\ UNCHANGED input_queue
  <2>1. input_queue = <<>> BY <1>7 DEF Selecting
  <2>2. Waiting = toRelay /\ Waiting' = toRelay' BY <1>4, <1>5, <1>7, <2>1, TwoQueues DEF Waiting
  <2>3. PICK n \in Nat :
          /\ h <= n /\ n <= groups /\ WaitingInv(n)'
          /\ Head(toRelay) \in GroupInput => h < n /\ AsksFor(Head(toRelay), n)
    BY <1>1, <1>3, <1>4, <1>5, <1>7, <2>2, FirstInputTaken
  <2>4. TaskInv' /\ HandledInv(n)' /\ GroupStep
    BY <1>1, <1>3, <1>5, <1>7, <2>3, InputHandled
  <2>5. n \in 0 .. groups' BY <1>3, <1>6, <2>3
  <2>6. QED BY <1>2, <2>3, <2>4, <2>5 DEF MachineInv
<1>8. CASE ~online /\ handle_input_disconnected_other(Head(toRelay))
  <2>1. Head(toRelay).kind \in {"Subscribe", "EoseActions"}
    BY <1>5, MachineInputOK DEF channel_input, GroupInput
  <2>2. /\ input_queue' = Append(input_queue, Head(toRelay))
        /\ UNCHANGED <<sessionVars, groupVars, switchVars>>
    BY <1>8, <2>1 DEF handle_input_disconnected_other
  <2>3. TaskInv' /\ HandledInv(h)' /\ GroupStep BY <1>1, <1>3, <2>2, UnhandledStep
  <2>4. Waiting' = Waiting BY <1>1, <1>4, <2>2, TwoQueues DEF Waiting
  <2>5. input_queue' \in Seq(MachineInput) BY <1>4, <1>5, <2>2
  <2>6. WaitingInv(h)' BY <1>3, <1>5, <2>4, <2>5 DEF WaitingInv
  <2>7. h \in 0 .. groups' BY <1>3, <1>6
  <2>8. QED BY <1>2, <2>3, <2>6, <2>7 DEF MachineInv
<1>9. QED BY <1>7, <1>8 DEF TaskInput

LEMMA TaskQueuedStep ==
    ASSUME TaskInv, NoticesInv, NEW h \in Nat, h <= groups, HandledInv(h), WaitingInv(h),
           TaskQueued
    PROVE  MachineInv' /\ GroupStep
<1>1. /\ input_queue # <<>> /\ input_queue' = Tail(input_queue)
      /\ handle_other_inputs_connected(Head(input_queue))
      /\ UNCHANGED <<socketVars, linkVars, clientVars, noticeVars>>
  BY DEF TaskQueued, HandleQueued
<1>2. NoticesInv' BY <1>1, NothingNotified
<1>3. UNCHANGED <<groups, done, toRelay>> BY <1>1 DEF clientVars, noticeVars, linkVars
<1>4. input_queue \in Seq(MachineInput) /\ toRelay \in Seq(MachineInput) BY DEF WaitingInv
<1>5. Head(input_queue) \in MachineInput /\ input_queue' \in Seq(MachineInput) BY <1>1, <1>4
<1>6. groups \in Nat BY StateMachineAssumption DEF WaitingInv
<1>7. Waiting # <<>> /\ Head(Waiting) = Head(input_queue) /\ Waiting' = Tail(Waiting)
  BY <1>1, <1>3, <1>4, TwoQueues DEF Waiting
<1>8. PICK n \in Nat :
        /\ h <= n /\ n <= groups /\ WaitingInv(n)'
        /\ Head(input_queue) \in GroupInput => h < n /\ AsksFor(Head(input_queue), n)
  BY <1>3, <1>4, <1>5, <1>7, FirstInputTaken
<1>9. TaskInv' /\ HandledInv(n)' /\ GroupStep BY <1>1, <1>3, <1>5, <1>8, InputHandled
<1>10. n \in 0 .. groups' BY <1>3, <1>6, <1>8
<1>11. QED BY <1>2, <1>8, <1>9, <1>10 DEF MachineInv

LEMMA OneAndOne ==
    ASSUME NEW S, NEW a \in S, NEW b \in S
    PROVE  <<a>> \o <<b>> = <<a, b>>
<1>1. <<a>> \in Seq(S) /\ <<b>> \in Seq(S) /\ <<a, b>> \in Seq(S) OBVIOUS
<1>2. Len(<<a>>) = 1 /\ Len(<<b>>) = 1 /\ Len(<<a, b>>) = 2 OBVIOUS
<1>3. /\ <<a>> \o <<b>> \in Seq(S) /\ Len(<<a>> \o <<b>>) = 2
      /\ (<<a>> \o <<b>>)[1] = a /\ (<<a>> \o <<b>>)[2] = b
  <2> DEFINE p == <<a>>
             q == <<b>>
  <2>1. p \in Seq(S) /\ q \in Seq(S) /\ Len(p) = 1 /\ Len(q) = 1 /\ p[1] = a /\ q[1] = b
    BY <1>1, <1>2
  <2> HIDE DEF p, q
  <2>2. /\ p \o q \in Seq(S) /\ Len(p \o q) = 1 + 1
        /\ \A i \in 1 .. 1 + 1 : (p \o q)[i] = IF i <= 1 THEN p[i] ELSE q[i - 1]
    BY <2>1, ConcatProperties
  <2>3. (p \o q)[1] = p[1] /\ (p \o q)[2] = q[1] BY <2>2
  <2>4. QED BY <2>1, <2>2, <2>3 DEF p, q
<1>4. \A i \in 1 .. 2 : i = 1 \/ i = 2 OBVIOUS
<1>5. \A i \in 1 .. 2 : (<<a>> \o <<b>>)[i] = <<a, b>>[i] BY <1>3, <1>4
<1>6. QED BY <1>1, <1>2, <1>3, <1>5, SeqEqual

LEMMA TaskEoseStep ==
    ASSUME TaskInv, NoticesInv, NEW h \in Nat, h <= groups, HandledInv(h), WaitingInv(h),
           TaskEose
    PROVE  MachineInv' /\ GroupStep
<1> DEFINE eose == EndOfStoredEvents(Head(answers).id)
<1>1. TaskInv' /\ HandledInv(h)' /\ GroupStep BY EoseHandled
<1>2. check_eose /\ UNCHANGED <<linkVars, clientVars>> BY DEF TaskEose
<1>3. UNCHANGED <<input_queue, toRelay, groups>> BY <1>2 DEF check_eose, linkVars, clientVars
<1>4. WaitingInv(h)' BY <1>3, NothingTaken
<1>5. h \in 0 .. groups' BY <1>3, StateMachineAssumption DEF WaitingInv
<1>6. eose \in Notice /\ eose # ActionsDone /\ ActionsDone \in Notice
  <2>1. Head(answers) \in Subscription
    BY <1>2, HandledTypes, RangeOfList DEF check_eose
  <2>2. QED BY <2>1, NoticeKinds
<1> HIDE DEF eose
<1>7. /\ notices \in Seq(Notice) /\ acc \in Nat /\ done \in Nat /\ acc <= done
      /\ DoneWait(notices, acc, done)
  BY StateMachineAssumption DEF NoticesInv
<1>8. CASE Notify(<<eose>>) /\ UNCHANGED done
  <2>1. notices \o <<eose>> \in Seq(Notice) /\ DoneWait(notices \o <<eose>>, acc, done)
    BY <1>6, <1>7, NoticeAppended
  <2>2. QED BY <1>1, <1>2, <1>4, <1>5, <1>7, <1>8, <2>1, Notified DEF MachineInv
<1>9. CASE Notify(<<ActionsDone, eose>>) /\ done' = done + 1
  <2>1. /\ notices \o <<ActionsDone>> \in Seq(Notice)
        /\ DoneWait(notices \o <<ActionsDone>>, acc, done + 1)
    BY <1>6, <1>7, NoticeAppended
  <2>2. done + 1 \in Nat /\ acc <= done + 1 BY <1>7
  <2>3. /\ (notices \o <<ActionsDone>>) \o <<eose>> \in Seq(Notice)
        /\ DoneWait((notices \o <<ActionsDone>>) \o <<eose>>, acc, done + 1)
    BY <1>6, <1>7, <2>1, <2>2, NoticeAppended
  <2>4. (notices \o <<ActionsDone>>) \o <<eose>> = notices \o <<ActionsDone, eose>>
    <3>1. <<ActionsDone>> \in Seq(Notice) /\ <<eose>> \in Seq(Notice) BY <1>6
    <3>2. <<ActionsDone>> \o <<eose>> = <<ActionsDone, eose>> BY <1>6, OneAndOne
    <3>3. QED BY <1>7, <3>1, <3>2, ConcatAssociative
  <2>5. QED BY <1>1, <1>2, <1>4, <1>5, <1>7, <1>9, <2>3, <2>4, Notified DEF MachineInv
<1>10. QED BY <1>8, <1>9 DEF TaskEose, eose

\* A notice of the task that is not of a group.
LEMMA OtherNotice ==
    ASSUME NoticesInv, NEW list, Notify(list), UNCHANGED clientVars, UNCHANGED done,
           \/ list = <<>>
           \/ \E e \in Notice : e # ActionsDone /\ list = <<e>>
    PROVE  NoticesInv'
<1>1. /\ notices \in Seq(Notice) /\ acc \in Nat /\ done \in Nat /\ acc <= done
      /\ DoneWait(notices, acc, done)
  BY StateMachineAssumption DEF NoticesInv
<1>2. notices \o list \in Seq(Notice) /\ DoneWait(notices \o list, acc, done)
  <2>1. CASE list = <<>>
    <3>1. notices \o list = notices BY <1>1, <2>1, ConcatEmptySeq
    <3>2. QED BY <1>1, <3>1
  <2>2. ASSUME NEW e \in Notice, e # ActionsDone, list = <<e>>
        PROVE  notices \o list \in Seq(Notice) /\ DoneWait(notices \o list, acc, done)
    BY <1>1, <2>2, NoticeAppended
  <2>3. QED BY <2>1, <2>2
<1>3. QED BY <1>1, <1>2, Notified

LEMMA TaskOtherStep ==
    ASSUME TaskInv, NoticesInv, NEW h \in Nat, h <= groups, HandledInv(h), WaitingInv(h),
           \/ \E s \in Subscription : TaskTimeout(s)
           \/ \E c \in Channels : TaskEvent(c)
           \/ TaskConnect \/ TaskLost
           \/ Environment
    PROVE  MachineInv' /\ GroupStep
<1>1. h \in 0 .. groups BY StateMachineAssumption DEF WaitingInv
<1>2. UNCHANGED clientVars /\ UNCHANGED <<input_queue, toRelay, groups, done>>
  BY DEF TaskTimeout, Timeout, TaskEvent, TaskConnect, Connect, TaskLost, Environment,
         ConnectionLost, Disconnect, PeerGone, AnswerEose, vars, linkVars, clientVars, noticeVars
<1>3. WaitingInv(h)' BY <1>2, NothingTaken
<1>4. TaskInv' /\ HandledInv(h)' /\ GroupStep
  <2>1. CASE \E s \in Subscription : TaskTimeout(s) BY <2>1, TimeoutHandled
  <2>2. CASE \E c \in Channels : TaskEvent(c)
    <3>1. UNCHANGED <<socketVars, switchVars, sessionVars, groupVars>>
      BY <2>2 DEF TaskEvent, vars
    <3>2. QED BY <1>2, <3>1, UnhandledStep
  <2>3. CASE TaskConnect \/ TaskLost \/ Environment
    <3>1. Connect \/ ConnectionLost \/ PeerGone \/ \E r \in Subscription : AnswerEose(r)
      BY <2>3 DEF TaskConnect, TaskLost, Environment
    <3>2. QED BY <1>2, <3>1, ConnectionHandled
  <2>4. QED BY <2>1, <2>2, <2>3
<1>5. NoticesInv'
  <2>1. ASSUME NEW s \in Subscription, TaskTimeout(s) PROVE NoticesInv'
    BY <1>2, <2>1, OtherNotice, NoticeKinds DEF TaskTimeout
  <2>2. ASSUME NEW c \in Channels, TaskEvent(c) PROVE NoticesInv'
    BY <1>2, <2>2, OtherNotice, NoticeKinds DEF TaskEvent
  <2>3. CASE TaskConnect \/ TaskLost \/ Environment
    BY <2>3, NothingNotified DEF TaskConnect, TaskLost, Environment
  <2>4. QED BY <2>1, <2>2, <2>3
<1>6. QED BY <1>1, <1>2, <1>3, <1>4, <1>5 DEF MachineInv

\* The next group has a request for every channel the client knows.
LEMMA GroupSent ==
    ASSUME channel_ids \subseteq Channels, groups \in 0 .. MaxGroups, send_actions
    PROVE  /\ groups' = groups + 1 /\ groups' \in 0 .. MaxGroups
           /\ \E e \in GroupInput : toRelay' = Append(toRelay, e) /\ AsksFor(e, groups')
<1> DEFINE n == Cardinality(channel_ids)
           D == channel_ids
<1>1. n \in Nat
  <2>1. MaxChannels \in Nat BY StateMachineAssumption
  <2>2. IsFiniteSet(1 .. MaxChannels) BY <2>1, FS_Interval
  <2>3. IsFiniteSet(channel_ids) BY <2>2, FS_Subset DEF Channels
  <2>4. QED BY <2>3, FS_CardinalityType
<1> HIDE DEF n, D
<1>2. PICK list \in [1 .. n -> D] :
        /\ groups < MaxGroups /\ groups' = groups + 1
        /\ toRelay' = Append(toRelay,
               [kind |-> "EoseActions", action_id |-> actions_id,
                subscriptions |-> [i \in DOMAIN list |-> RequestFor(groups', list[i])]])
  BY DEF send_actions, n, D
<1> DEFINE subs == [i \in DOMAIN list |-> RequestFor(groups', list[i])]
           e == [kind |-> "EoseActions", action_id |-> actions_id, subscriptions |-> subs]
<1>3. groups' \in 1 .. MaxGroups BY <1>2, StateMachineAssumption
<1>4. \A i \in 1 .. n : list[i] \in Channels BY <1>2 DEF D
<1>5. \A c \in Channels : RequestFor(groups', c) \in Subscription
  BY <1>3, StateMachineAssumption
<1>6. subs \in [1 .. n -> Subscription] BY <1>2, <1>4, <1>5
<1>7. subs \in Seq(Subscription) BY <1>1, <1>6, SeqDef
<1>8. e \in GroupInput BY <1>7 DEF GroupInput
<1>9. AsksFor(e, groups')
  <2>1. e.subscriptions = subs OBVIOUS
  <2>2. \A i \in DOMAIN subs : \E c \in Channels : subs[i] = RequestFor(groups', c)
    BY <1>2, <1>4
  <2>3. QED BY <2>1, <2>2 DEF AsksFor, OfGroup, Range
<1>10. groups' \in 0 .. MaxGroups BY <1>3
<1>11. QED BY <1>2, <1>8, <1>9, <1>10

LEMMA ReceiveNoticeStep ==
    ASSUME TaskInv, NoticesInv, NEW h \in Nat, h <= groups, HandledInv(h), WaitingInv(h),
           ReceiveNotice
    PROVE  MachineInv' /\ GroupStep
<1> DEFINE n == Head(notices)
<1>1. /\ running /\ notices # <<>> /\ notices' = Tail(notices)
      /\ UNCHANGED <<vars, resends, lagged, done>>
  BY DEF ReceiveNotice
<1>2. n \in Notice
  <2>1. notices \in Seq(Notice) BY DEF NoticesInv
  <2>2. QED BY <1>1, <2>1, HeadTailProperties
<1>3. /\ n.event = "Event" => n.channel \in Channels
      /\ ActionsDone.event = "ActionsDone"
  BY <1>2, NoticeKinds DEF ActionsDone
<1>4. /\ \/ n = ActionsDone /\ acc' = acc + 1 /\ running' = (acc' # Enough)
         \/ n # ActionsDone /\ UNCHANGED <<acc, running>>
      /\ channel_ids' \subseteq Channels
      /\ UNCHANGED <<groups, toRelay>> \/ send_actions
  <2>1. CASE n = ActionsDone /\ acc' = acc + 1 /\ running' = (acc' # Enough)
             /\ UNCHANGED <<channel_ids, groups, toRelay>>
    BY <2>1 DEF NoticesInv
  <2>2. CASE n.event = "Event" /\ channel_ids' = channel_ids \cup {n.channel}
             /\ UNCHANGED <<running, acc, groups, toRelay>>
    BY <1>3, <2>2 DEF NoticesInv
  <2>3. CASE n.event \in {"Timeout", "EndOfStoredEvents"} /\ send_actions
             /\ UNCHANGED <<running, acc, channel_ids>>
    BY <1>3, <2>3 DEF NoticesInv
  <2>4. CASE n.event \in {"Timeout", "EndOfStoredEvents"} /\ UNCHANGED <<clientVars, toRelay>>
    BY <1>3, <2>4 DEF NoticesInv, clientVars
  <2>5. QED BY <2>1, <2>2, <2>3, <2>4 DEF ReceiveNotice
<1>5. NoticesInv' BY <1>1, <1>4, NoticeTaken
<1>6. TaskInv' /\ HandledInv(h)' /\ GroupStep
  <2>1. UNCHANGED <<socketVars, switchVars, sessionVars, groupVars, done>> BY <1>1 DEF vars
  <2>2. QED BY <2>1, UnhandledStep
<1>7. UNCHANGED input_queue BY <1>1 DEF vars
<1>8. groups \in 0 .. MaxGroups /\ groups \in Nat BY StateMachineAssumption DEF WaitingInv
<1>9. CASE UNCHANGED <<groups, toRelay>>
  <2>1. WaitingInv(h)' BY <1>7, <1>9, NothingTaken
  <2>2. h \in 0 .. groups' BY <1>8, <1>9
  <2>3. QED BY <1>5, <1>6, <2>1, <2>2 DEF MachineInv
<1>10. CASE send_actions
  <2>1. channel_ids \subseteq Channels BY DEF NoticesInv
  <2>2. groups' = groups + 1 /\ groups' \in 0 .. MaxGroups
    BY <1>8, <1>10, <2>1, GroupSent
  <2>3. PICK e \in GroupInput : toRelay' = Append(toRelay, e) /\ AsksFor(e, groups')
    BY <1>8, <1>10, <2>1, GroupSent
  <2>4. e \in MachineInput BY DEF MachineInput
  <2>5. WaitingInv(h)' BY <1>7, <2>2, <2>3, <2>4, InputSent
  <2>6. h \in 0 .. groups' BY <1>8, <2>2
  <2>7. QED BY <1>5, <1>6, <2>5, <2>6 DEF MachineInv
<1>11. QED BY <1>4, <1>9, <1>10

LEMMA ResendStep ==
    ASSUME TaskInv, NoticesInv, NEW h \in Nat, h <= groups, HandledInv(h), WaitingInv(h),
           ResendChannel
    PROVE  MachineInv' /\ GroupStep
<1>1. /\ toRelay' = Append(toRelay, channel_input)
      /\ UNCHANGED <<vars, clientVars, noticeVars>>
  BY DEF ResendChannel
<1>2. NoticesInv' BY <1>1, NothingNotified
<1>3. UNCHANGED <<input_queue, groups, done>> BY <1>1 DEF vars, clientVars, noticeVars
<1>4. TaskInv' /\ HandledInv(h)' /\ GroupStep
  <2>1. UNCHANGED <<socketVars, switchVars, sessionVars, groupVars>> BY <1>1 DEF vars
  <2>2. QED BY <1>3, <2>1, UnhandledStep
<1>5. groups \in 0 .. MaxGroups /\ h \in 0 .. groups BY StateMachineAssumption DEF WaitingInv
<1>6. channel_input \in MachineInput BY DEF MachineInput
<1>7. WaitingInv(h)' BY <1>1, <1>3, <1>5, <1>6, InputSent
<1>8. QED BY <1>2, <1>3, <1>4, <1>5, <1>7 DEF MachineInv

LEMMA LaggedStep ==
    ASSUME TaskInv, NoticesInv, NEW h \in Nat, h <= groups, HandledInv(h), WaitingInv(h),
           Lagged \/ UNCHANGED allVars
    PROVE  MachineInv' /\ GroupStep
<1>1. UNCHANGED <<vars, toRelay, groups, done, notices, lagged, acc, channel_ids>>
  BY DEF Lagged, allVars, linkVars, clientVars, noticeVars
<1>2. (lagged /\ running' = FALSE) \/ running' = running
  BY DEF Lagged, allVars, clientVars
<1>3. NoticesInv'
  <2>1. /\ notices' = notices /\ lagged' = lagged /\ acc' = acc /\ done' = done
        /\ channel_ids' = channel_ids
    BY <1>1
  <2>2. /\ running' \in BOOLEAN /\ (running' => running)
        /\ running' \/ lagged' \/ done' >= Enough
    <3>1. CASE lagged /\ running' = FALSE BY <2>1, <3>1
    <3>2. CASE running' = running
      <4>1. running \in BOOLEAN /\ (running \/ lagged \/ done >= Enough) BY DEF NoticesInv
      <4>2. QED BY <2>1, <3>2, <4>1
    <3>3. QED BY <1>2, <3>1, <3>2
  <2>3. running' => acc' < Enough BY <2>1, <2>2 DEF NoticesInv
  <2>4. QED BY <2>1, <2>2, <2>3 DEF NoticesInv
<1>4. TaskInv' /\ HandledInv(h)' /\ GroupStep
  <2>1. UNCHANGED <<socketVars, switchVars, sessionVars, groupVars, done>> BY <1>1 DEF vars
  <2>2. QED BY <2>1, UnhandledStep
<1>5. h \in 0 .. groups BY StateMachineAssumption DEF WaitingInv
<1>6. UNCHANGED <<input_queue, toRelay, groups>> BY <1>1 DEF vars
<1>7. WaitingInv(h)' BY <1>6, NothingTaken
<1>8. QED BY <1>3, <1>4, <1>5, <1>6, <1>7 DEF MachineInv

LEMMA MachineStep == MachineInv /\ [MachineNext]_allVars => MachineInv' /\ GroupStep
<1> SUFFICES ASSUME MachineInv, [MachineNext]_allVars PROVE MachineInv' /\ GroupStep OBVIOUS
<1>1. PICK h \in 0 .. groups : HandledInv(h) /\ WaitingInv(h) BY DEF MachineInv
<1>2. TaskInv /\ NoticesInv BY DEF MachineInv
<1>3. h \in Nat /\ h <= groups BY <1>1, StateMachineAssumption DEF WaitingInv
<1>4. CASE TaskInput BY <1>1, <1>2, <1>3, <1>4, TaskInputStep
<1>5. CASE TaskQueued BY <1>1, <1>2, <1>3, <1>5, TaskQueuedStep
<1>6. CASE TaskEose BY <1>1, <1>2, <1>3, <1>6, TaskEoseStep
<1>7. CASE \/ \E s \in Subscription : TaskTimeout(s)
           \/ \E c \in Channels : TaskEvent(c)
           \/ TaskConnect \/ TaskLost
           \/ Environment
  BY <1>1, <1>2, <1>3, <1>7, TaskOtherStep
<1>8. CASE ResendChannel BY <1>1, <1>2, <1>3, <1>8, ResendStep
<1>9. CASE ReceiveNotice BY <1>1, <1>2, <1>3, <1>9, ReceiveNoticeStep
<1>10. CASE Lagged \/ UNCHANGED allVars BY <1>1, <1>2, <1>3, <1>10, LaggedStep
<1>11. QED BY <1>4, <1>5, <1>6, <1>7, <1>8, <1>9, <1>10 DEF MachineNext

LEMMA MachineBegins == MachineInit => MachineInv /\ Group!Init
<1> SUFFICES ASSUME MachineInit PROVE MachineInv /\ Group!Init OBVIOUS
<1>1. TaskInv
  <2>1. Init BY DEF MachineInit
  <2>2. QED BY <2>1, InitType DEF TypeInv
<1>2. /\ subscriptions = {} /\ open = {} /\ answers = <<>> /\ input_queue = <<>>
      /\ eose_actions = [a \in ActionId |-> {}] /\ stalled = {}
      /\ toRelay = <<>> /\ notices = <<>> /\ lagged = FALSE /\ done = 0
      /\ running = TRUE /\ acc = 0 /\ channel_ids = {} /\ groups = 0
  BY DEF MachineInit, Init
<1>3. Todo = {} /\ Asked = {}
  BY <1>2, HandledTypes, <1>1 DEF Todo, Asked
<1>4. Range(answers) = {} BY <1>2 DEF Range
<1>5. HandledInv(0) BY <1>2, <1>3, <1>4 DEF HandledInv
<1>6. ASSUME NEW M PROVE Climbs(<<>>, <<>>, M, 0, 0)
  <2>1. DOMAIN <<>> = {} OBVIOUS
  <2>2. <<>> \in [DOMAIN <<>> -> 0 .. 0] BY <2>1
  <2>3. QED BY <2>1, <2>2 DEF Climbs
<1>7. WaitingInv(0)
  <2>1. Waiting = <<>> BY <1>2 DEF Waiting
  <2>2. DOMAIN <<>> = {} OBVIOUS
  <2>3. GroupsWait(<<>>, 0, 0) BY <1>6, <2>2 DEF GroupsWait
  <2>4. 0 \in 0 .. MaxGroups BY StateMachineAssumption
  <2>5. QED BY <1>2, <2>1, <2>3, <2>4 DEF WaitingInv
<1>8. NoticesInv
  <2>1. DoneWait(<<>>, 0, 0) BY <1>6 DEF DoneWait
  <2>2. 0 \in 0 .. Enough /\ 0 < Enough /\ 0 <= NoticeCap BY StateMachineAssumption
  <2>3. <<>> \in Seq(Notice) /\ Len(<<>>) = 0 OBVIOUS
  <2>4. notices \in Seq(Notice) /\ Len(notices) <= NoticeCap /\ DoneWait(notices, acc, done)
    BY <1>2, <2>1, <2>2, <2>3
  <2>5. /\ running \in BOOLEAN /\ lagged \in BOOLEAN /\ channel_ids \subseteq Channels
        /\ running \/ lagged \/ done >= Enough
    BY <1>2
  <2>6. acc \in 0 .. Enough /\ acc < Enough /\ done \in Nat /\ acc <= done BY <1>2, <2>2
  <2>7. QED BY <2>4, <2>5, <2>6 DEF NoticesInv
<1>9. MachineInv BY <1>1, <1>2, <1>5, <1>7, <1>8 DEF MachineInv
<1>10. Group!Init
  <2>1. (actions_id \in stalled) = FALSE BY <1>2
  <2>2. QED BY <1>2, <1>3, <2>1 DEF Group!Init, Todo
<1>11. QED BY <1>9, <1>10

LEMMA MachineInvariant == MachineSpec => []MachineInv
BY MachineBegins, MachineStep, PTL DEF MachineSpec

-----------------------------------------------------------------------------
(* The theorems. *)

\* Maps keyed by id, bounded histories, a broadcast never beyond its capacity, and
\* a client that has stopped when it has counted enough groups.
THEOREM MachineTyped == MachineSpec => []MachineTypeOK
<1>1. MachineInv => MachineTypeOK
  <2> SUFFICES ASSUME MachineInv PROVE MachineTypeOK OBVIOUS
  <2>1. PICK h \in 0 .. groups : HandledInv(h) /\ WaitingInv(h) BY DEF MachineInv
  <2>2. TaskInv /\ NoticesInv BY DEF MachineInv
  <2>3. Keyed(subscriptions) /\ Keyed(open)
    <3>1. SessionOK(Session) BY <2>2 DEF TaskInv
    <3>2. Session.subscriptions = subscriptions /\ Session.open = open BY DEF Session
    <3>3. QED BY <3>1, <3>2 DEF SessionOK
  <2>4. groups \in 0 .. MaxGroups BY <2>1 DEF WaitingInv
  <2>5. QED BY <2>2, <2>3, <2>4 DEF MachineTypeOK, NoticesInv
<1>2. QED BY <1>1, MachineInvariant, PTL

\* The client counts only groups that were done, each once, and only groups that
\* it started are done: it stops after Enough of them or because it missed a notice.
THEOREM CountsCorrect == MachineSpec => []CountsAreGroups
<1>1. MachineInv => CountsAreGroups
  <2> SUFFICES ASSUME MachineInv PROVE CountsAreGroups OBVIOUS
  <2>1. PICK h \in 0 .. groups : HandledInv(h) /\ WaitingInv(h) BY DEF MachineInv
  <2>2. groups \in Nat BY <2>1, StateMachineAssumption DEF WaitingInv
  <2>3. done \in Nat /\ done <= h BY <2>1 DEF HandledInv
  <2>4. done <= groups BY <2>1, <2>2, <2>3
  <2>5. QED BY <2>4 DEF CountsAreGroups, MachineInv, NoticesInv
<1>2. QED BY <1>1, MachineInvariant, PTL

\* However often groups are started again, timed out or cut off, no more requests
\* are open at the relay, the channels' subscription aside, than groups were started:
\* the numbers of the open requests are all different.
THEOREM OpenRequests == MachineSpec => []OpenRequestsBounded
<1>1. MachineInv => OpenRequestsBounded
  <2> SUFFICES ASSUME MachineInv PROVE OpenRequestsBounded OBVIOUS
  <2> DEFINE S == open \ {channel_sub}
             number == [r \in S |-> CHOOSE n \in 1 .. groups : OfGroup(r, n)]
  <2>1. PICK h \in 0 .. groups : HandledInv(h) /\ WaitingInv(h) BY DEF MachineInv
  <2>2. groups \in Nat BY <2>1, StateMachineAssumption DEF WaitingInv
  <2>3. HandledInv(groups) BY <2>1, <2>2, HandledLater
  <2>4. \A r \in S : \E n \in 1 .. groups : OfGroup(r, n) BY <2>3 DEF HandledInv
  <2>5. \A r \in S : number[r] \in 1 .. groups /\ OfGroup(r, number[r]) BY <2>4
  <2> HIDE DEF S, number
  <2>6. \A r, q \in S : number[r] = number[q] => r = q
    BY <2>3, <2>5 DEF HandledInv, S
  <2>7. number \in [S -> 1 .. groups] BY <2>5 DEF number
  <2>8. number \in Injection(S, 1 .. groups) BY <2>6, <2>7 DEF Injection, IsInjective
  <2>9. IsFiniteSet(1 .. groups) /\ Cardinality(1 .. groups) = groups
    BY <2>2, FS_Interval
  <2>10. Cardinality(S) <= Cardinality(1 .. groups) BY <2>8, <2>9, FS_Injection
  <2>11. QED BY <2>9, <2>10 DEF OpenRequestsBounded, S
<1>2. QED BY <1>1, MachineInvariant, PTL

\* The task and its relay do for the client what EoseGroup promises: the requests of
\* a group are asked one at a time, none leaves it unanswered, and a group is
\* announced as done when the last was answered, unless the connection was lost or a
\* write failed in between.
THEOREM GroupImplements == MachineSpec => GroupKeepsPromise
<1>1. MachineInit => Group!Init BY MachineBegins
<1>2. MachineInv /\ [MachineNext]_allVars => [Group!Next]_(Group!vars)
  BY MachineStep DEF GroupStep
<1>3. QED BY <1>1, <1>2, MachineInvariant, PTL DEF MachineSpec, GroupKeepsPromise, Group!Spec

=============================================================================
