---------------------------- MODULE MCRelayPool ----------------------------
(* Small instances of RelayPool for TLC. *)
EXTENDS RelayPoolStatus, TLC

CONSTANTS t1, t2, u1, u2

\* One task per url, or both tasks for the same url.
MCUrlOf == t1 :> u1 @@ t2 :> u2
MCSharedUrlOf == t1 :> u1 @@ t2 :> u1
MCOneUrlOf == t1 :> u1

AllCommands ==
    {"AddRelay", "RemoveRelay", "ReconnectRelay", "ForwardToOne", "ForwardToAll",
     "AddSubscription", "AddSubscriptionToRelay", "Shutdown", "Abandon"}

\* What changes a relay's state or the list, and what waits for each relay in turn.
TwoRelayCommands ==
    {"AddRelay", "RemoveRelay", "ReconnectRelay", "AddSubscription", "Shutdown"}
LiveCommands == {"AddRelay", "ForwardToAll", "Shutdown", "Abandon"}

SendEvent == [kind |-> "SendEvent"]
Subscribe == [kind |-> "Subscribe", id |-> "s1"]

NoSubscription == {}
OneSubscription == {Subscribe}
MCEvent == {SendEvent}
MCEventAndSubscription == {SendEvent, Subscribe}
MCNoPayload == {}
=============================================================================
