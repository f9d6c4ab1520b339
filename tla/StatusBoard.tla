---------------------------- MODULE StatusBoard ----------------------------
(***************************************************************************)
(* What the list of relay_status_list promises: the status shown for a url *)
(* follows the state of its relay, later but in order and without leaving  *)
(* one out, so that a client that polls the list sees a relay go through   *)
(* states a relay can go through.  RelayPool implements it                 *)
(* (RelayPoolStatus).                                                      *)
(***************************************************************************)
EXTENDS Sequences

CONSTANT Url

VARIABLES
    shown,   \* the status in the list, or Unlisted
    actual,  \* the state of the relay the list is about, or Unlisted
    behind   \* the states the relay has entered that are not yet shown

vars == <<shown, actual, behind>>

Status == {"Disconnected", "Connecting", "Connected", "Terminated"}
Unlisted == "Unlisted"

\* The states a relay's loop may go to from each.
Changes ==
    [Disconnected |-> {"Connecting", "Terminated"},
     Connecting |-> {"Connected", "Disconnected", "Terminated"},
     Connected |-> {"Disconnected", "Terminated"},
     Terminated |-> {"Disconnected"}]

Init ==
    /\ shown = [u \in Url |-> Unlisted]
    /\ actual = [u \in Url |-> Unlisted]
    /\ behind = [u \in Url |-> <<>>]

List(u) ==
    /\ shown[u] = Unlisted
    /\ shown' = [shown EXCEPT ![u] = "Disconnected"]
    /\ actual' = [actual EXCEPT ![u] = "Disconnected"]
    /\ UNCHANGED behind

\* The relay enters state s: one more to show.
Change(u, s) ==
    /\ actual[u] # Unlisted
    /\ s \in Changes[actual[u]]
    /\ actual' = [actual EXCEPT ![u] = s]
    /\ behind' = [behind EXCEPT ![u] = Append(@, s)]
    /\ UNCHANGED shown

Show(u) ==
    /\ behind[u] # <<>>
    /\ shown' = [shown EXCEPT ![u] = Head(behind[u])]
    /\ behind' = [behind EXCEPT ![u] = Tail(@)]
    /\ UNCHANGED actual

\* Some relays, or all when the pool stops, leave the list.
Unlist(U) ==
    /\ shown' = [u \in Url |-> IF u \in U THEN Unlisted ELSE shown[u]]
    /\ actual' = [u \in Url |-> IF u \in U THEN Unlisted ELSE actual[u]]
    /\ behind' = [u \in Url |-> IF u \in U THEN <<>> ELSE behind[u]]

Next ==
    \/ \E u \in Url : List(u) \/ Show(u) \/ \E s \in Status : Change(u, s)
    \/ \E U \in SUBSET Url : Unlist(U)

Spec == Init /\ [][Next]_vars
=============================================================================
