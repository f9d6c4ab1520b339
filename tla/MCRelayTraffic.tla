--------------------------- MODULE MCRelayTraffic ---------------------------
(* Small instances of RelayTraffic for TLC. *)
EXTENDS RelayTraffic

Timed(id, f) == [id |-> id, filters |-> f, sub_type |-> "EOSE", timeout |-> TRUE]
Endless(id, f) == [id |-> id, filters |-> f, sub_type |-> "Endless", timeout |-> FALSE]

Untimed(id, f) == [id |-> id, filters |-> f, sub_type |-> "EOSE", timeout |-> FALSE]

SubscribeTo(s) == [kind |-> "Subscribe", subscription |-> s]
StartGroup(a, list) == [kind |-> "EoseActions", action_id |-> a, subscriptions |-> list]
StartActions(list) == StartGroup("a", list)
ReadSwitch(on) == [kind |-> "ToggleRead", read |-> on]
WriteSwitch(on) == [kind |-> "ToggleWrite", write |-> on]

\* The group a has ids of its own and lists three subscriptions, not in the order of
\* their ids, so that the late EOSE of an earlier run can make it go on beside the first
\* of its list.  Two subscriptions and the groups b and c share an id.  read off only
\* keeps back steps of this half, and is left to the instance below.
MCSubscription == {Timed(1, "f"), Endless(1, "g"), Untimed(2, "f"), Untimed(3, "f"), Untimed(4, "f")}
MCSubscribe == {SubscribeTo(Timed(1, "f")), SubscribeTo(Endless(1, "g"))}
MCInputs ==
    MCSubscribe \cup
    {StartGroup("a", <<Untimed(4, "f"), Untimed(2, "f"), Untimed(3, "f")>>), StartGroup("a", <<>>),
     StartGroup("b", <<Timed(1, "f")>>), StartGroup("c", <<Timed(1, "f")>>),
     WriteSwitch(TRUE), WriteSwitch(FALSE), [kind |-> "SendEvent"], [kind |-> "FetchInformation"]}

\* One name, no timeouts in its groups, and read off.
MCUntimedSubscription == {Timed(1, "f"), Untimed(2, "f"), Untimed(3, "f")}
MCUntimedInputs ==
    {SubscribeTo(Timed(1, "f")),
     StartActions(<<Untimed(3, "f"), Untimed(2, "f")>>), StartActions(<<Untimed(2, "f")>>),
     WriteSwitch(FALSE), WriteSwitch(TRUE), ReadSwitch(FALSE)}

\* One id whose filters change, and a group of one subscription.
MCResubscribed == {Timed(1, "f"), Timed(1, "g")}
MCResubscribe == {SubscribeTo(s) : s \in MCResubscribed}
MCOneAction == {Timed(1, "f")}
MCStartOneAction == {StartActions(<<Timed(1, "f")>>)}
=============================================================================
