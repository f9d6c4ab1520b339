-------------------------- MODULE RelayPoolStatus --------------------------
(* RelayPool implements StatusBoard, as long as each url is served by one task. *)
EXTENDS RelayPool, FiniteSets

Listed(u) == relays[u] # NoTask

\* The events of u in the channel q, by their positions.
Positions(q, u) == {i \in DOMAIN q : q[i].url = u}

\* The n-th of a set of positions is the one that n of them do not exceed.
Rank(S, i) == Cardinality({j \in S : j <= i})
Nth(S, n) == CHOOSE i \in S : Rank(S, i) = n

\* The events of u still in the channel, as the statuses they will set.
Behind(q, u) ==
    LET S == Positions(q, u)
    IN [n \in 1 .. Cardinality(S) |-> set_status(q[Nth(S, n)].event)]

Board == INSTANCE StatusBoard WITH
    shown <- [u \in Url |-> IF Listed(u) THEN listenerStatus[u] ELSE "Unlisted"],
    actual <- [u \in Url |-> IF Listed(u) THEN state[relays[u]] ELSE "Unlisted"],
    behind <- [u \in Url |-> IF Listed(u) THEN Behind(toPool, u) ELSE <<>>]

\* The status list shows of every relay the states its loop goes through, all of
\* them and in their order, however the events of several relays are interleaved
\* in the one channel and whatever the pool is sending meanwhile.
StatusesInOrder == Board!Spec
=============================================================================
