------------------------------- MODULE Sweep --------------------------------
(***************************************************************************)
(* The client's sweep: the port list, the validated configuration and the   *)
(* plan of tests (internal/config/config.go), the loop that runs the tests   *)
(* one by one (clientMain), and the report with the critical size of every   *)
(* group (internal/report/report.go).  A test is one step: it yields a       *)
(* result, fails, or finds no server.                                        *)
(*                                                                          *)
(* Families, ports, directions and sizes are the integers the code compares  *)
(* (IPv4 is 0, IPv6 is 1; uplink is 0, downlink 1, both 2).  Durations are    *)
(* integers of two's complement, the greatest of them MaxInt.                *)
(***************************************************************************)
EXTENDS Integers, Sequences, FiniteSets, SequencesExt, Slices

CONSTANTS
    Configs,   \* the command lines: the inputs of NewClientConfig
    Received,  \* the numbers of packets a test may report as received
    MaxPort,   \* 65535
    MaxInt,    \* the greatest time.Duration, 2^63 - 1
    None       \* no value: an error, or a nil pointer

(* A command line as the flags package has parsed it. *)
CommandLine ==
    [target4 : BOOLEAN, target6 : BOOLEAN, addressesOk : BOOLEAN,
     direction : 0 .. 2, ports : Seq([lo : Int, hi : Int]),
     min : Int, max : Int, step : Int, count : Int, interval : Int, limit : Int]

ASSUME SweepAssumption ==
    /\ Configs \subseteq CommandLine
    /\ Received \subseteq Nat /\ MaxInt \in Nat /\ MaxPort \in Nat
    /\ None \notin Seq(Int)

(* Percent of loss that makes a size critical. *)
ThresholdPercent == 5

VARIABLES
    phase,       \* config, run, done, or exit (with an error, no report)
    cfg,         \* the configuration
    plans,       \* the tests, in the order in which they are run
    next,        \* index of the next test
    results,     \* reportResults
    hasFailure,  \* a test has failed
    report       \* ComputeCriticalSizes: a sequence of <<group, size or None>>

loop == <<phase, cfg, plans, next, results, hasFailure>>
vars == <<loop, report>>

-----------------------------------------------------------------------------
(***************************************************************************)
(* Ports.  A specification is a sequence of parts, each a range of ports    *)
(* (a single port is a range of one).                                       *)
(***************************************************************************)
validatePort(p) == p \in 1..MaxPort

parseRange(part) ==
    IF part.lo <= part.hi /\ validatePort(part.lo) /\ validatePort(part.hi)
    THEN [i \in 1..(part.hi - part.lo + 1) |-> part.lo + i - 1]
    ELSE None

(* Mutant of sortAndDedupe: duplicates stay. *)
sortOnly(ports) == Sort(ports, Ascending)

(* After sorting, a port is kept if it differs from the one before it. *)
sortAndDedupe(ports) ==
    LET sorted == Sort(ports, Ascending)
    IN  Selected(sorted, {i \in DOMAIN sorted : i = 1 \/ sorted[i - 1] # sorted[i]})

ParsePorts(spec) ==
    IF spec = <<>> \/ \E i \in DOMAIN spec : parseRange(spec[i]) = None
    THEN None
    ELSE sortAndDedupe(FlattenSeq([i \in DOMAIN spec |-> parseRange(spec[i])]))

(***************************************************************************)
(* The plan.                                                                *)
(***************************************************************************)
(* addressesOk: the targets parse as addresses of their family, and the     *)
(* control port is a port.                                                  *)
Validate(c) ==
    /\ c.target4 \/ c.target6
    /\ c.addressesOk
    /\ c.min <= c.max
    /\ c.step > 0
    /\ c.count > 0 /\ c.interval > 0 /\ c.limit > 0

determineFamilies(c) ==
    (IF c.target4 THEN <<0>> ELSE <<>>) \o (IF c.target6 THEN <<1>> ELSE <<>>)

determineDirections(d) == IF d = 2 THEN <<0, 1>> ELSE <<d>>

(* for size := min; size <= max; size += step.  The int in which the code     *)
(* adds is taken to hold max + step; beyond it, its loop would not end.       *)
generateSizes(min, max, step) ==
    [i \in 1..((max - min) \div step + 1) |-> min + (i - 1) * step]

(* Four nested loops: families, ports (sorted again), directions, sizes. *)
BuildSweepPlan(c, ports) ==
    LET fs == determineFamilies(c)
        ds == determineDirections(c.direction)
        ss == generateSizes(c.min, c.max, c.step)
        sortedPorts == Sort(ports, Ascending)
        ForSizes(f, p, d) ==
            [i \in DOMAIN ss |->
                [family |-> f, port |-> p, direction |-> d, size |-> ss[i]]]
        ForDirections(f, p) ==
            FlattenSeq([i \in DOMAIN ds |-> ForSizes(f, p, ds[i])])
        ForPorts(f) ==
            FlattenSeq([i \in DOMAIN sortedPorts |-> ForDirections(f, sortedPorts[i])])
    IN  FlattenSeq([i \in DOMAIN fs |-> ForPorts(fs[i])])

(***************************************************************************)
(* The duration limit, in two's complement.  Go leaves open what a float    *)
(* out of range converts to: amd64 gives the least integer, arm64 the one   *)
(* nearest to the float.                                                    *)
(***************************************************************************)
MinInt == -MaxInt - 1

Wrap(x) == ((x - MinInt) % (MaxInt - MinInt + 1)) + MinInt

(* float64(x) * 1.1, truncated.  Exact here; the float's product agrees below *)
(* 2^48 ns (three days), and is off by less than a part in 2^50 beyond.       *)
TimesElevenTenths(x) ==
    IF x >= 0 THEN (x * 11) \div 10 ELSE -(((-x) * 11) \div 10)

FloatToInt(x) ==
    IF x \in MinInt .. MaxInt THEN {x}
    ELSE IF x > MaxInt THEN {MinInt, MaxInt} ELSE {MinInt}

(* Mutant of EstimateDuration: one test stands for the whole plan. *)
EstimateOfOneTest(c, n) ==
    FloatToInt(TimesElevenTenths(Wrap(c.interval * c.count)))

EstimateDuration(c, n) ==
    {Wrap(x * n) : x \in FloatToInt(TimesElevenTenths(Wrap(c.interval * c.count)))}

-----------------------------------------------------------------------------
(***************************************************************************)
(* The report.                                                              *)
(***************************************************************************)
(* Mutant of Exceeds: the threshold itself does not count. *)
ExceedsStrictly(r) ==
    r.sent # 0 /\ r.lost * 100 > ThresholdPercent * r.sent

(* LossPercent() >= threshold; a test that sent nothing lost nothing.  Every *)
(* quotient equal to 1/20 is the same float, and 100 times it is exactly 5.   *)
Exceeds(r) ==
    r.sent # 0 /\ r.lost * 100 >= ThresholdPercent * r.sent

GroupKey(r) == <<r.family, r.port, r.direction>>

KeyLess(a, b) ==
    \/ a[1] < b[1]
    \/ a[1] = b[1] /\ a[2] < b[2]
    \/ a[1] = b[1] /\ a[2] = b[2] /\ a[3] < b[3]

SizeLess(r, s) == r.size < s.size

(* groupsMap[k]: the results with key k, in the order in which they came. *)
InGroup(rs, k) == Selected(rs, {i \in DOMAIN rs : GroupKey(rs[i]) = k})

(* The groups, out of the map in any order and sorted by their keys, each    *)
(* sorted by size.                                                           *)
AggregateResults(rs) ==
    LET keys == Sort(SetToSeq({GroupKey(rs[i]) : i \in DOMAIN rs}), KeyLess)
    IN  [i \in DOMAIN keys |->
            [key |-> keys[i], results |-> Sort(InGroup(rs, keys[i]), SizeLess)]]

(* The first size, in the order of the results, that reaches the threshold. *)
FindCriticalSize(rs) ==
    LET hits == {i \in DOMAIN rs : Exceeds(rs[i])}
    IN  IF hits = {} THEN None ELSE rs[Min(hits)].size

ComputeCriticalSizes(groups) ==
    [i \in DOMAIN groups |->
        <<groups[i].key, FindCriticalSize(groups[i].results)>>]

-----------------------------------------------------------------------------
LoopInit ==
    /\ phase = "config"
    /\ cfg \in Configs
    /\ plans = <<>> /\ next = 1
    /\ results = <<>> /\ hasFailure = FALSE

Init == LoopInit /\ report = <<>>

(* NewClientConfig and BuildSweepPlan, up to the check of the duration. *)
ConfigOk == ParsePorts(cfg.ports) # None /\ Validate(cfg)

Plan ==
    /\ phase = "config" /\ ConfigOk
    /\ LET ps == BuildSweepPlan(cfg, ParsePorts(cfg.ports))
       IN \E estimate \in EstimateDuration(cfg, Len(ps)) :
              IF estimate > cfg.limit
              THEN phase' = "exit" /\ UNCHANGED plans
              ELSE phase' = "run" /\ plans' = ps
    /\ UNCHANGED <<cfg, next, results, hasFailure>>

RejectConfig ==
    /\ phase = "config" /\ ~ConfigOk
    /\ phase' = "exit"
    /\ UNCHANGED <<cfg, plans, next, results, hasFailure>>

(* The test ran; the client computes Lost as Sent - Received. *)
TestOk ==
    /\ phase = "run" /\ next <= Len(plans)
    /\ \E received \in Received :
           results' = Append(results,
               [family |-> plans[next].family, port |-> plans[next].port,
                direction |-> plans[next].direction, size |-> plans[next].size,
                sent |-> cfg.count, lost |-> cfg.count - received])
    /\ next' = next + 1
    /\ UNCHANGED <<phase, cfg, plans, hasFailure>>

(* Mutant of TestFails: the failure is not remembered. *)
TestFailsSilently ==
    /\ phase = "run" /\ next <= Len(plans)
    /\ next' = next + 1
    /\ UNCHANGED <<phase, cfg, plans, results, hasFailure>>

(* The test ended with an error: it leaves no result, and the sweep goes on *)
TestFails ==
    /\ phase = "run" /\ next <= Len(plans)
    /\ hasFailure' = TRUE
    /\ next' = next + 1
    /\ UNCHANGED <<phase, cfg, plans, results>>

(* No connection: the client exits at once, without a report. *)
ConnectFails ==
    /\ phase = "run" /\ next <= Len(plans)
    /\ phase' = "exit"
    /\ UNCHANGED <<cfg, plans, next, results, hasFailure>>

(* The loop is over; the exit status is that of hasFailure. *)
LoopEnds ==
    /\ phase = "run" /\ next > Len(plans)
    /\ phase' = "done"
    /\ UNCHANGED <<cfg, plans, next, results, hasFailure>>

(* BuildReport, if there is anything to report. *)
Report ==
    /\ LoopEnds
    /\ report' = IF results = <<>> THEN <<>>
                 ELSE ComputeCriticalSizes(AggregateResults(results))

Terminated == phase \in {"done", "exit"} /\ UNCHANGED vars

LoopStep == Plan \/ RejectConfig \/ TestOk \/ TestFails \/ ConnectFails

Next == (LoopStep /\ UNCHANGED report) \/ Report \/ Terminated

Spec == Init /\ [][Next]_vars

(* The sweep without its report, which is a function of the results. *)
Loop == LoopInit /\ [][LoopStep \/ LoopEnds]_loop

-----------------------------------------------------------------------------
(***************************************************************************)
(* Properties                                                               *)
(***************************************************************************)
PlannedPorts ==
    UNION {cfg.ports[i].lo .. cfg.ports[i].hi : i \in DOMAIN cfg.ports}

(* However the ports were written (out of order, overlapping, repeated), the *)
(* plan runs every family, port, direction and size exactly once, ascending *)
(* in that order, so that no size of a group is measured twice or skipped.  *)
PlanExact ==
    phase = "run" =>
        /\ {plans[i] : i \in DOMAIN plans} =
             [family : (IF cfg.target4 THEN {0} ELSE {})
                       \cup (IF cfg.target6 THEN {1} ELSE {}),
              port : PlannedPorts,
              direction : {d \in {0, 1} : cfg.direction \in {d, 2}},
              size : {s \in cfg.min .. cfg.max : (s - cfg.min) % cfg.step = 0}]
        /\ \A i \in 1 .. Len(plans) - 1 :
             \/ KeyLess(GroupKey(plans[i]), GroupKey(plans[i + 1]))
             \/ /\ GroupKey(plans[i]) = GroupKey(plans[i + 1])
                /\ plans[i].size < plans[i + 1].size

Lossy(k) == {r \in {results[i] : i \in DOMAIN results} :
                GroupKey(r) = k /\ 20 * r.lost >= r.sent}

(* The report has every group that was measured, once, and its critical size *)
(* is the least size that lost one packet in twenty or more; there is none    *)
(* only if no size did (AggregateResults and FindCriticalSize).               *)
CriticalSizeLeast ==
    phase = "done" =>
        /\ {report[i][1] : i \in DOMAIN report} = {GroupKey(results[i]) : i \in DOMAIN results}
        /\ \A i, j \in DOMAIN report : i < j => KeyLess(report[i][1], report[j][1])
        /\ \A i \in DOMAIN report :
             LET sizes == {r.size : r \in Lossy(report[i][1])}
             IN  \/ report[i][2] = None /\ sizes = {}
                 \/ report[i][2] \in sizes /\ \A s \in sizes : report[i][2] <= s

(* A report that misses a planned test - a smaller critical size, say, or a *)
(* whole group - is never passed off as complete: the client ends with the  *)
(* status of a failure.                                                     *)
GapsAreReported ==
    phase = "done" =>
        \/ hasFailure
        \/ \A i \in DOMAIN plans : \E j \in DOMAIN results :
               /\ GroupKey(results[j]) = GroupKey(plans[i])
               /\ results[j].size = plans[i].size

ExactDuration == TimesElevenTenths(cfg.interval * cfg.count) * Len(plans)

(* CheckDurationLimit lets no sweep run that takes longer than the limit,   *)
(* through the truncation of the overhead and the products of the estimate, *)
(* as long as the duration fits into the integer type; beyond that the      *)
(* estimate wraps and anything may run.                                     *)
DurationLimited ==
    phase = "run" => ExactDuration <= cfg.limit \/ ExactDuration > MaxInt

(* "Returns an error if the sweep would take longer than                    *)
(* maxEstimatedDuration": CheckDurationLimit stops every such sweep, however *)
(* long it would take.                                                      *)
LimitEnforced == phase = "run" => ExactDuration <= cfg.limit

=============================================================================
