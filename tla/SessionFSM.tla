----------------------------- MODULE SessionFSM -----------------------------
(***************************************************************************)
(* What a session's state field promises to an observer of Session.State() *)
(* (the server's accessor, the tests): it moves along the transition table *)
(* of protocol/state_machine.go, and along ExtraEdges, the edges a caller   *)
(* takes by assigning the field directly.                                   *)
(***************************************************************************)
EXTENDS Protocol

CONSTANT ExtraEdges

VARIABLE state

Edges == {e \in SessionState \X SessionState :
             CanTransition(e[1], e[2]) \/ e \in ExtraEdges}

Init == state = "idle"

Move(to) ==
    /\ <<state, to>> \in Edges
    /\ state' = to

Next == \E to \in SessionState : Move(to)

Spec == Init /\ [][Next]_state

=============================================================================
