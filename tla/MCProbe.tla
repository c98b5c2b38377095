------------------------------ MODULE MCProbe -------------------------------
(***************************************************************************)
(* An instance of Probe: bytes of base 4, so that numbers above 3 need two    *)
(* bytes of the header's fields.                                             *)
(***************************************************************************)
EXTENDS Probe

ThisTest == [SessionID |-> 5, TestID |-> 6, UDPPort |-> 9]

(* A downlink test over IPv6, with an interval of two and a half ms. *)
Downlink == {[direction |-> 1, family |-> 1, size |-> 7, interval |-> 5]}

Own == [Version |-> 1, SessionID |-> 5, TestID |-> 6, Direction |-> 1, Family |-> 1,
        UDPPort |-> 9, PayloadSize |-> 7, Sequence |-> 3, SendUnixNano |-> 1]

(* Another session, another test, the other direction, the other family, no   *)
(* direction, another version of the header, and the start of a header.       *)
Others ==
    {[header |-> [Own EXCEPT !.SessionID = 1], n |-> 55],
     [header |-> [Own EXCEPT !.TestID = 2], n |-> 55],
     [header |-> [Own EXCEPT !.Direction = 0], n |-> 48],
     [header |-> [Own EXCEPT !.Family = 0], n |-> 48],
     [header |-> [Own EXCEPT !.Direction = 2], n |-> 55],
     [header |-> [Own EXCEPT !.Version = 2], n |-> 55],
     [header |-> Own, n |-> 47]}

=============================================================================
