------------------------------ MODULE MCSweep -------------------------------
(***************************************************************************)
(* Instances of Sweep: command lines with ports out of order, repeated,     *)
(* overlapping, empty or out of range, sizes that do and do not divide the   *)
(* interval, one or two families, one or both directions.                    *)
(***************************************************************************)
EXTENDS Sweep

P(lo, hi) == [lo |-> lo, hi |-> hi]

Config(t6, dir, ports, max, step) ==
    [target4 |-> TRUE, target6 |-> t6, direction |-> dir, ports |-> ports,
     addressesOk |-> TRUE, min |-> 1, max |-> max, step |-> step, count |-> 20, interval |-> 1,
     limit |-> 1000]

MCConfigs ==
    { Config(FALSE, 0, <<P(3, 3), P(1, 2), P(2, 3)>>, 1, 1),
      Config(FALSE, 1, <<P(2, 2), P(2, 2)>>, 4, 1),
      Config(FALSE, 2, <<P(9, 9), P(1, 1)>>, 1, 1),
      Config(FALSE, 2, <<P(1, 1)>>, 6, 3),
      Config(TRUE, 2, <<P(1, 1)>>, 1, 2),
      Config(TRUE, 0, <<P(2, 1)>>, 1, 1),
      Config(TRUE, 0, <<>>, 1, 1),
      Config(TRUE, 0, <<P(1, 1)>>, 0, 1),
      [Config(TRUE, 0, <<P(1, 2)>>, 2, 1) EXCEPT !.limit = 40] }

(* Two tests on either side of the limit, and products of interval and count *)
(* that leave the word.                                                      *)
LongConfigs ==
    { [Config(FALSE, 0, <<P(1, 2)>>, 1, 1) EXCEPT !.interval = i, !.count = n] :
        i \in {1, 10, 30}, n \in {1, 20, 60, 100, 300} }

AllConfigs == MCConfigs \cup LongConfigs

=============================================================================
