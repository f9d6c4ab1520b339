----------------------------- MODULE EoseGroup -----------------------------
(***************************************************************************)
(* What a relay promises of a group of EOSE actions: the requests of the   *)
(* group are asked one at a time, a request leaves the group only when it  *)
(* has been answered, and ActionsDone is announced when the last one has,  *)
(* unless the connection was lost or a write of the group's failed since   *)
(* it was started.  Starting a group replaces the one before, and at any   *)
(* time the relay may stop asking, for good: then it announces nothing.    *)
(***************************************************************************)
EXTENDS Naturals

CONSTANT Requests

VARIABLES
    todo,    \* the requests of the group that have not been answered
    asking,  \* the one that is asked now, if any
    broken,  \* whether its connection was lost, or a CLOSE or request of it failed
    done     \* how often ActionsDone was announced

vars == <<todo, asking, broken, done>>

Init == todo = {} /\ asking = {} /\ broken = FALSE /\ done = 0

\* One of R is asked, or none if the relay cannot.
Ask(R) == asking' \in {{r} : r \in R} \cup {{}}

MayBreak == broken' \/ UNCHANGED broken

Start(R) ==
    /\ R # {}
    /\ todo' = R
    /\ Ask(R)
    /\ broken' = FALSE
    /\ UNCHANGED done

Answered ==
    /\ asking # {}
    /\ todo' = todo \ asking
    /\ Ask(todo')
    /\ MayBreak
    /\ \/ todo' # {} /\ UNCHANGED done
       \/ todo' = {} /\ done' = done + 1
       \/ todo' = {} /\ broken' /\ UNCHANGED done

Stop ==
    /\ asking' = {}
    /\ MayBreak
    /\ UNCHANGED <<todo, done>>

Next ==
    \/ \E R \in SUBSET Requests : Start(R)
    \/ Answered
    \/ Stop

Spec == Init /\ [][Next]_vars
=============================================================================
