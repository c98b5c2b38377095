----------------------------- MODULE MCFraming ------------------------------
(***************************************************************************)
(* Instances of Framing: bytes of base 3, bodies whose lengths have up to    *)
(* three digits, zero or not.                                                *)
(***************************************************************************)
EXTENDS Framing

(* The five requests of an uplink test, and the responses of a session's     *)
(* loop while its worker announces the end of the sending.                   *)
Requests  == [client |-> <<5, 3, 9, 2, 10>>]
Responses == [loop |-> <<6, 5>>, worker |-> <<7>>]

MCLinks ==
    {[script |-> Requests, whole |-> w, tolerant |-> TRUE] : w \in BOOLEAN}
    \cup {[script |-> Responses, whole |-> FALSE, tolerant |-> FALSE]}

=============================================================================
