--------------------------- MODULE MCStateMachine ---------------------------
(* A small instance of StateMachine for TLC. *)
EXTENDS StateMachine

MCSubscription == {channel_sub} \cup {RequestFor(n, c) : n \in 1 .. MaxGroups, c \in Channels}
NoInputs == {}
=============================================================================
