-------------------------- MODULE MCOrchestration ---------------------------
(***************************************************************************)
(* Instances of Orchestration: the tests of a sweep over two sizes in both   *)
(* directions, and RunBoth followed by a test.                              *)
(***************************************************************************)
EXTENDS Orchestration

UpsDowns == <<"uplink", "uplink", "downlink", "downlink">>
BothUp   == <<"both", "uplink">>

(* The command line whose plan is UpsDowns. *)
SweepConfig ==
    [target4 |-> TRUE, target6 |-> FALSE, direction |-> 2,
     ports |-> <<[lo |-> 1, hi |-> 1]>>, addressesOk |-> TRUE,
     min |-> 1, max |-> 2, step |-> 1, count |-> PacketCount, interval |-> 1,
     limit |-> 1000]

=============================================================================
