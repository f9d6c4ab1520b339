--------------------------- MODULE MCPoolTraffic ---------------------------
(* Small instances of PoolTraffic for TLC. *)
EXTENDS PoolTraffic, TLC

CONSTANTS t1, u1, u2

MCUrlOf == t1 :> u1

Subscribe(id, f) ==
    [kind |-> "Subscribe", id |-> id, filters |-> f, sub_type |-> "Endless", timeout |-> FALSE]

\* One id whose filters change.
TwoFilters == {Subscribe(1, "f"), Subscribe(1, "g")}
AddAndSubscribe == {"AddRelay", "AddSubscription", "AddSubscriptionToRelay"}
=============================================================================
