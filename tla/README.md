# A TLA+ model of udpdiag

udpdiag measures UDP loss and the critical packet size between a client and a
server.  The two talk over a TCP control connection; the server serves one test
session at a time.  This directory holds TLA+ modules of the server, the client,
the probes they exchange and the sweep, TLC configurations that check them on
small instances, and TLAPS proofs of what matters most for every instance.

## Inventory of the system

| Part | State | Operations | Interacts with |
|---|---|---|---|
| Control server, `internal/control/server.go` | listener, closed flag, context, atomic pointer to the active session (the *slot*), wait group | `Start`, accept loop `serve`, `handleConn` per connection, `tryAcquireSession`, `sendBusyResponse`, `releaseSession`, `Close` | runs `Session.Run`; the context it cancels stops sessions |
| Control session, `internal/control/session.go` | state, request fields, UDP receiver, `quitCh`, `receiverDone`, counts, connection | `Run`, `handleMessages` and a handler per message type, `handleCancel`, `handleTimeout`, `cleanupNoStateChange`, two worker goroutines | TCP client; `udp.Sender` / `udp.Receiver` |
| State machine, `internal/protocol/state_machine.go` | the transition table | `Transition`, `IsTerminal`, `IsActive`, `ResetAllowed` | used by the session |
| UDP engine, `internal/udp` | socket, packets recorded | `Send`, `Receive`, `Collect`, `Result` | workers of the session, client |
| Control client, `internal/control/client.go` | connection | `RunUplink`, `RunDownlink`, `RunBoth` | server |
| Messages, probe header, `internal/protocol` | none | encode, decode, validate | both sides |
| Sweep configuration, `internal/config` | parsed flags | ports, sizes, plan, duration limit | command line |
| Report, `internal/report` | results | aggregate, critical size | command line |
| Command line, `cmd/udpdiag` | none | server and client mode, the sweep loop | all of the above |

What is hard here: a session is two goroutines that share the state field, two
channels and a socket under a mutex that is released between a read and its use;
two handlers assign the state without the table; the loop can end on paths that
clean up, and on paths that do not; the slot, the wait group and the listener are
touched by `Start`, the accept loop, the handlers and `Close` at once; client and
server share no state but the connection, and the datagrams of a test overtake,
or are overtaken by, the messages about them.  A session
is correct if its state follows the table, terminal states are final, it ends
when its client does, it leaves no socket behind and reports what it counted; the
server, if there is never more than one session, the slot always comes free, and
nothing is left running after `Close`; the client, if every test of the plan leaves
one result with the true counts or a failure, and it always returns.
`PROJECT.json` lists the hazards line by
line.

## Modules

| Module | Models |
|---|---|
| `Protocol` | session states, directions, families, the transition table and its predicates |
| `SessionFSM` | abstract specification: what an observer of `Session.State()` may see |
| `Session` | one session: the message loop, its worker, a TCP connection, any client |
| `SessionProofs` | theorems of `Session` |
| `ControlServer` | `Start`, accept loop, handlers, slot, BUSY, `Close` |
| `ControlServerProofs` | theorems of `ControlServer` |
| `Slices` | package sort, and the loops that append part of a slice to another |
| `SlicesProofs` | what they return |
| `Sweep` | ports, plan and duration limit, the client's loop over the plan, the report |
| `MCSweep` | the command lines `Sweep` is checked on |
| `SweepProofs` | theorems of `Sweep` |
| `Orchestration` | composition: the client's sweep, `RunUplink`, `RunDownlink`, `RunBoth`, the server's sessions one after another (`Session`), a UDP network; implements `Sweep` |
| `MCOrchestration` | the sweeps it is checked on |
| `OrchestrationProofs` | theorems of `Orchestration` |
| `ControlTiming` | the read and write deadlines of both sides, in discrete time |
| `ControlTimingProofs` | theorems of `ControlTiming` |
| `Framing` | length-prefixed messages as bytes of a TCP stream |
| `MCFraming` | the writers and readers it is checked on |
| `FramingProofs` | theorem of `Framing` |
| `Probe` | the UDP engine: sender, receiver, probe header, statistics |
| `MCProbe` | the test and the foreign datagrams it is checked on |
| `ProbeProofs` | theorems of `Probe` |

**Session.** `pc` is the place of the goroutine in `handleMessages`, `w` that of
the worker.  One action is one handler, cut where the code reads shared state and
uses it later, or waits: `handleTimeout` is `ReadTimeout` (the state is read into
`seen`), `TimeoutAssign` and `cleanupNoStateChange`; `handleCancel` is
`HandleCancelRequest` or the context branch of `LoopTop`, then `CancelAssign` and the
cleanup; `handleSendComplete` waits in `await` and sets the state in `collect`.
The checks of the state in `handlePrepare`, `handleStart` and `handleFetchResult`
are one step with the assignment, since nobody else leaves those states.
After its cleanup `handleCancel` on a cancelled context returns at once; the
model goes once more through `LoopTop`, which finds the terminal state and
returns.  A nil field of the session is `"nil"`; `quitCh = "closed"` is a channel
that was closed and whose field was reset to nil.  A receive that times out or
drops a malformed datagram changes nothing and is no step.  The read that is under
way when the receiver is told to quit is its last, and may still record a datagram.

The connection is a queue of whole messages each way.  The client is arbitrary: it
may send any request at any time, read or not, close or reset.  `Faults` says what
can go wrong besides: expired deadlines (any write may then fail, because the
write deadline is set once per turn of the loop and may have passed long before),
failing UDP sockets, resets, bad length prefixes.

`PromptSpec` is `Spec` without the steps of the loop between a worker's spawn and
its first section.  Go does not guarantee that.  It isolates the properties that
depend on this race alone; the runs that use it say so.

**ControlServer.** A session is named by its connection.  `Session.Run` is the one
abstraction: it may return at any time, and must once the client is gone or the
context cancelled, which is `SessionEnds` of `Session`.  `Start` and any number of
`Close` calls race each other.

**Sweep.** The configuration is a record of the parsed flags, `addressesOk` standing
for the syntax of the targets and the control port.  `Plan` is `BuildSweepPlan` and
`CheckDurationLimit`; then each test is one step, `TestOk` with any plausible count,
`TestFails`, or `ConnectFails`, which exits; `Report` is `BuildReport` and the exit
status (`hasFailure`).  The greatest duration is `MaxInt`, which in the run is
small, since TLC's integers have 32 bits and the code's 64; the overflow is the same.
Two places are not modelled to the last bit: `generateSizes` takes for granted that an
int holds the greatest size plus one step, and `TimesElevenTenths` is exact where the
code multiplies by 1.1 as a float64, which agrees up to three days and differs by less
than a part in 2^50 beyond.

**Orchestration.** The client is `cpc`, one value per call that may block, and the
variables of the sweep.  The server's side of the connection is `Session`, whose
actions are used as they are, through `Srv == INSTANCE Session`: `SessionLoop` and
`SessionWorker` are its steps, `SessionBinds`, `SessionReceives` and `SessionSends`
those that touch the network.  `Accept` is `handleConn` up to `Session.Run`: a new
session if the slot is free, else the BUSY response; one session is in the slot at
a time, so one copy of the session's variables suffices.  What the uplink worker of
an ended session still holds is kept in `leftover`: `bound` (a receiver nobody
stops), `orphan` (the same, but its worker had not run when its session went on),
`closing`.  `hasty` remembers that a loop took a message, or met the end of its
connection, before its worker had run; the results carry it as `late`, and, as ghosts, `own`: how many of the recorded
datagrams were sent by that very run.  `air` counts the datagrams in flight by run.
The refinement mapping of `ImplementsSweep` takes the results to those of `Sweep`
and everything between a dial and the end of its test to stuttering.  It implements
`Loop` of `Sweep`, the sweep without its report, which is a function of the results.

**ControlTiming.** One test over one connection.  `Tick` advances the clock when both
sides wait and nothing is due, so that steps take no time and deadlines are met to
the instant; `dur` is the time the sender needs, and `Settle` (10 ms) and `Grace`
(50 ms) are the client's fixed sleeps: before the start of an uplink test, before
send_complete, before fetch_result, and after an uplink result.  Each turn of the
session's loop sets both deadlines (`NextTurn`), before the read, so the sleeps count
against them.

**Framing.** One direction of a connection.  A byte carries its value and, as a
ghost, the place in the message it came from: 1 and up in the body, 0 and down in
the length.  `WriteLength` and `WriteBody` are the
two calls of `Write`; `ReadLength` and `ReadBody` each issue one `Read`, which
returns any non-empty part of what has arrived, and act on the number of bytes
asked for, like the code.  `link` says who writes what, whether writes arrive whole,
and whether the reader goes on after a body that does not decode (`tolerant`: the
session does, the client does not).  What the session reads comes from one goroutine
of the client; `FramingAssumption` says so, and that text in one of the first two
bytes of a length puts it above the limit (`0x200000` is more than 1 MiB).

**Probe.** `MarshalBinary` and `UnmarshalBinary` place every field at its offset in
digits of base `Base`, so that widths truncate as they do in the code.  A stranger is
any datagram that is too short, has no valid header, or one of another session, test,
direction or family (`Strange`).  Loss is a
datagram that is never read; reordering, that any datagram in flight may be read
next.  The sender fails on an address that does not resolve (`ResolveFails`, before the
first packet, even if there are none to send) or on any write (`WriteFails`).  `received` is what the receiver keeps, `log` (a ghost) who sent it.

## Runs

| Run | Bounds | Checks |
|---|---|---|
| `session` | 2 packets, 1 datagram, 1 message in flight each way, three directions, all faults | `TypeOK`, `ImplementsFSM`, `TerminalIsFinal`, `FetchAfterAnnounce`, `AwaitEnds`, `SessionEnds`, `SilentClientEvicted` |
| `session_prompt` | `PromptSpec`; 2 datagrams; uplink and downlink; deadlines and sockets may fail | `PortFreeAtRelease`, `UplinkResultFinal` |
| `session_late_worker` | uplink, no faults | violated: `ReceiverReclaimed` |
| `server` | 3 connections, 2 callers of `Close` | `TypeOK`, `SlotExclusive`, `CloseIsFinal`, `BusyNamesOther`, `SlotReleased`, `CloseReturns` |
| `sweep` | 24 command lines, up to 4 tests; 0, 19, 20 or 21 packets received; durations up to 2047 | `PlanExact`, `CriticalSizeLeast`, `GapsAreReported`, `DurationLimited` |
| `sweep_end_to_end` | a plan of two uplink and two downlink tests of 1 packet; loss, failing sockets, refused connections | `CountsTrue`, `NoPortLeak`, `SweepEnds`, `ImplementsSweep` |
| `both_order` | a both test and an uplink test of 2 packets; loss, delay beyond a test, one duplicate, refused connections | `FailsOnlyIfTurnedAway` |
| `sweep_busy` | the same plan as `sweep_end_to_end`, no faults | violated: `NeverBusyToItself` |
| `timing` | timeouts 8 and 4, pauses 1 and 2, durations 0 to 9, time up to 40; the server may halt, the client vanish | `ShortTestsSucceed`, `ClientBounded`, `SessionBounded` |
| `timing_write` | downlink, no faults | violated: `NoneDropped` |
| `framing` | five requests of one writer, cut anywhere or whole; three responses of two writers, cut anywhere; base 3, so that lengths have one to three digits | `NothingForged`, `AllDelivered` |
| `probe` | 2 packets, 1 copy of each, 1 foreign datagram out of 7 kinds; base 4 | `ResultTrue`, `SentTrue`, `ReceiveEnds` |

A session has no unbounded counter but the packets, so these are all its
behaviours up to the number of messages in flight: with one message each way a
request is already pending while the loop or the worker is anywhere, and further
ones only wait behind it.  One datagram distinguishes a count from none, two a
final count from an early one.  Two connections are a holder and a rival; the
third can take the slot the holder freed while the rival is still being rejected.

In `sweep`, four tests are enough for a group with several lossy sizes and for
several groups with holes in either; 19 of 20 received is exactly the threshold, 21
a negative loss.  The other end-to-end plan has each pair of neighbours that share a
port (uplink after uplink) or change direction; every longer sweep repeats them, and
one packet is lost or not.  The timeouts and pauses of `timing` keep the order of
30 s, 10 s, 50 ms and 10 ms, durations lie on both sides of either timeout, less the
pauses and not, and 40 is beyond every bound claimed.  Bodies of 2 to 10 bytes in base 3 have lengths with one to
three digits; a piece of one body is read as the length of another in every way.

Fairness: weak fairness of the loop and of the worker (Go runs every runnable
goroutine, and a blocked read or write is released by its deadline where
`deadline` is among the faults), of the accept loop, the handlers and a `Close`
under way.  Nothing is assumed of the client, no receiver is assumed to be stopped
by the failure of its socket (`ReceiveFails`), and a `Session.Run` is fair only
when its client is gone or the context cancelled.

In `Orchestration` the client's and the server's steps are weakly fair, the network
promises nothing; no deadline is needed for `SweepEnds`, and none is assumed.  In
`Framing` writers, TCP and the reader go on; in `Probe` sender and receiver do (each
read has a deadline of 10 ms), datagrams need not arrive.

What the violated properties show (details in `PROJECT.json`, findings):

* a cancel, a disconnect or a send_complete handled before the uplink worker has
  run for the first time leaves its UDP port bound for ever, with a goroutine
  reading it (`session_late_worker`);
* a sweep may be told BUSY by its own previous test (`sweep_busy`);
* SendComplete of a downlink test of ten seconds or more is dropped, since the write
  deadline was set before the wait (`timing_write`).  The Result is written under the
  same deadline, so 50 ms less are too long already.

Four more configurations are no runs of `PROJECT.json`, but reproduce what the passing
runs leave out by a fault, a direction or a clause of the property.  Each ends with
a counterexample (`tlc -config <file> <module>`):

| Configuration, module | Violated | Shows |
|---|---|---|
| `Session_reset.cfg`, `Session` | `ReceiverReclaimed` | however prompt the worker, a connection reset during an uplink test ends the loop without cleanup, and the port stays bound |
| `Session_both.cfg`, `Session` | `ReceiverReclaimed` | in a single session of direction both send_complete does not stop the receiver (the bundled client runs two sessions instead) |
| `Session_table.cfg`, `Session` | `FollowsTable` | a cancel while collecting moves the state along an edge the table has not: `state_machine_test.go:58` lists it among the invalid ones, the program's plan asks for it; `ImplementsFSM` names it as the one extra edge |
| `Sweep_overflow.cfg`, `MCSweep` | `LimitEnforced` | a sweep whose duration overflows is not refused, though `config.go:312` says that one above the limit is; `DurationLimited` says up to where it holds |

What else the models show of the code, and how it is stated where it touches a
property:

* a bad length in an uplink test leaves the port bound like a reset: `session_prompt`
  excludes both, and direction both;
* a BUSY response may name no session (`BusyNamesOther` says what it says if it
  does);
* a datagram that has reached the socket, but is not read when the receiver is told to
  quit, counts as lost; no document of the program says otherwise, and `CountsTrue`
  speaks of what was recorded;
* the server counts every datagram with a valid header, and the ids of all tests
  are 0: a datagram that outlives its test is counted for the next one.
  `sweep_end_to_end` checks `CountsTrue` without such datagrams;
* a length that arrives in two segments breaks the frame: the session ends, or
  requests are lost, but none is made up;
* the timeouts of the states (`PrepareTimeout`, `RunTimeout`, `CollectTimeout`) are
  never used; the read deadline is what ends a session;
* a datagram is 48 bytes longer than the size asked for, a size is truncated to 16
  bits, an interval to milliseconds (`packetSize`, `uint16`, `IntervalMs` of `Probe`).

Every property of a passing run has a mutant: a small change of a mapped
definition, defined just before it and marked *Mutant of*, that breaks it.

## Proofs

Assumptions: `ConstantsAssumption` in `Session` (positive packet count and queue
bound, known faults), `NoSessionAssumption` and `ConnsAssumption` (finitely many
connections, which counting them needs) in `ControlServer`, `TimingAssumption` in
`ControlTiming` (the write timeout is not above the read timeout, `Settle` is below it), `SweepAssumption` in
`Sweep` (the types of a command line), `ProbeAssumption` in `Probe` (the types of a
test; session, test and sequence numbers fit into four bytes; strangers are `Strange`),
`FramingAssumption` in `Framing` (text in the first two bytes of a length exceeds the
limit; bodies are not empty and within the limit; a tolerant reader has one writer),
`OrchestrationAssumption` in `Orchestration` (at least one test, at least one packet).

`SessionProofs`:

* `TypeCorrect`: the types; one step per action, fields and queues apart.
* `StateRefinement` (`Spec => ImplementsFSM`) and `TerminalFinal`.  The types are
  not enough: `handleTimeout` and `handleCancel` assign what an earlier read of the
  state suggested.  `StateInv` says what is still true at the assignment: a session
  about to be cancelled is active; the state `handleTimeout` saw is the current one,
  or was running and is now collecting.
* `AnnounceTruthful` (`FetchAfterAnnounce`).  `AnnounceInv` adds that there is no
  worker before running, that a worker about to announce has sent everything and
  moved the state on, and that a session that moved on never comes back, which
  follows from the refinement step.

`SessionProofs`, for `PromptSpec`, any number of packets and any client:

* `UplinkResult` (`UplinkResultFinal`).  `WorkerInv` ties the worker's place to the
  socket, the channels and the state; `StopInv` says that once the loop has passed
  the wait, the worker has closed its socket and stored its count, or failed to bind;
  `ResultInv` that the count does not change after that.  Without the prompt start
  the statement is false: a send_complete handled before the worker has run finds
  nothing to wait for.
* `PortReleased` (`PortFreeAtRelease`), also assuming `Unbroken`: no reset, no bad
  length, and no test of direction both, each of which leaves the port bound.
  `PortInv`: an open socket belongs to a receiver that the loop can still stop, and
  every way out of the loop goes through the cleanup.

`ControlServerProofs`: `OneSession`, `CloseFinal`, `TypeCorrect`, from one inductive
invariant.  `CloseFinal` needs `WgCounts` (the wait group's counter is the number of
active handlers, plus one for the accept loop), that the accept loop is spawned
once and what it has accepted has no handler yet, and `CloseInv`: a `Close` past its
lock shuts out `Start`, past the listener shuts out `Accept`.  `BusyTruthful`
(`BusyNamesOther`) is inductive on top of `OneSession`.

`ControlTimingProofs`, for all timeouts with write not above read, all pauses,
durations and any bound on time (`TimingAssumption`):

* `ClientReturns` (`ClientBounded`).  `ClientInv` bounds the deadline of each wait by
  the sum of the waits before it; time never passes a deadline that is due.
* `SilentSessionEnds` (`SessionBounded`).  `SessionInv`: the read deadline in force was
  set when the last request was read.
* `ShortTests` (`ShortTestsSucceed`).  The deadlines alone do not exclude that a short
  test fails on a queue that never drains.  `ShortInv` is a case for each phase of a
  test (`Asking`, `Settling`, `StartingUplink`, `StartingDownlink`, `Uplinking`,
  `Downlinking`, `Collecting`), each saying
  what is in both queues, how old the session's deadlines are, and that the server
  is in the state that the next request needs.

`SlicesProofs`.  The prover cannot instantiate an induction rule for predicates, so
induction is done with sets: `Least` (a non-empty set of naturals has a least element)
gives `Induction` (a set with 0 and all successors has all naturals), and that
`RecursionExists` and `RecursionUnique`, what a recursive function over `0 .. N` is.
From these: a sort exists and rearranges (`SortExists`, `Rearranged`, `SortInts`),
`FlattenSeq` appends its parts in order (`Flattened`), and `Selected` keeps just the
chosen elements, in their order (`SelectedElements`, `SelectedAppend`).

`SweepProofs`, for every set of command lines and counts:

* `PlanIsExact` (`PlanExact`).  `PlanBuilt` shows for the four nested loops, from the
  inside out, that what they append is complete and increasing in the order of the
  report; that the ports of a list are sorted and distinct is `SortInts` and
  `SelectedElements`.  `PlanInv` keeps the plan and its configuration together.
* `DurationIsLimited` (`DurationLimited`).  `EstimateExact`: as long as the duration
  fits, neither product wraps.
* `GapsReported` (`GapsAreReported`).  `LoopInv`: every test before `next` has left a
  result or a failure.
* `CriticalSizeIsLeast` (`CriticalSizeLeast`).  `Grouped` and `SortedBySize` say what a
  group is after the sort, `CriticalFound` that the first lossy result is the one of
  the least size, `KeysSorted` that groups are distinct and in order.

`ProbeProofs`, for every base, test, packet count and number of duplicates:

* `SentIsTrue` (`SentTrue`), from `SendInv`.
* `ResultIsTrue` (`ResultTrue`).  `RoundTrip`: a number that fits into `w` bytes is read
  as it was written, by induction on the bytes read.  `HeaderSurvives` is this for each
  field at its offset.  `Recognised` is the invariant of every datagram in flight: the
  receiver takes it for a probe of its test if and only if it is one, under the number
  it was sent with; copies inherit it.  `ReceiveInv` adds that the matched numbers are
  those of the probes read, in order; `SelectedAppend` makes it inductive.

`FramingProofs`, for every base, limit and set of links: `NothingIsForged`
(`NothingForged`).  `Digits`: four digits are enough for a length, the first is 0, and
a length whose last bytes are missing is below the true one; `LengthOfBytes`: one that
begins amid a body, or a byte before it, is out of range.  `StreamInv` says that lengths and bodies are in the stream as a whole
(`Chunks`), except that the first may have lost its beginning, and each once;
`SentInv` and `DeliveredInv` that bodies are in the stream in the order of `sent`,
behind what was delivered.  `Chunks` says where each ends rather than what follows a
byte, so that no induction is needed to look ahead.  `ReaderInv` is a case for each
place of the reader: `AtFrame` (a length comes next, and no body comes before its
length), `AtBody` (the length of `m` was read; a body that comes first is the one of
`m`), `LostBody` (a body is expected amid a length: nothing decodes) and `LostLength`
(a length is expected amid a body or a byte before it: it is out of range, and the
session ends).  For a
tolerant reader the last two alternate; `TolerantInv`, that a body follows its own
length, keeps it from getting past the body.

`OrchestrationProofs`, for every list of tests, packet count and set of faults:

* `PortsReleased` (`NoPortLeak`).  That a receiver which was running has been told to
  stop, or has lost its socket, when its loop ends (`PortInv`) is not inductive: a
  reset, a rejected request or a request out of turn would end the loop elsewhere.
  `AlignInv` says which requests may be on their way to a session in a given state,
  `ClientInv` how far the session is for a client in a given place, and
  `QuietInv` that while a receiver may run the client has nothing to read, so that
  closing its end is no reset.  With these the loop takes only the steps of
  `LoopSteps` (`LoopTakes`): nothing the client sends is turned away, nothing is
  cancelled, and an error of a read is the end of a connection that is over.
* `CountsAreTrue` (`CountsTrue`), assuming `NetFaults \cap {"late", "dup"} = {}`: with
  such datagrams the statement is false, since the server counts them for the run
  that is under way.  `OutInv`: a result on its way has the final count of a worker
  that is done, or the loop ran ahead of the worker.  `CleanInv`: only the run under
  way has datagrams in flight, and together with the recorded ones they are not more
  than were sent.  `AirInv` is the same for a downlink run.
* `SweepImplemented` (`ImplementsSweep`), assuming `TestsArePlanned`: the tests are the
  plan of a valid configuration within its duration limit, as in the run.  `SweepStep`
  has one case for each step that ends a test, the plan, or the sweep; every other
  one changes nothing of the abstract state.  `TestInv` gives each result the place in
  the plan that it is reported for.

* `OnlyTurnedAway` (`FailsOnlyIfTurnedAway`), assuming `Sound`: no socket fails and no
  deadline expires, either of which may fail a test; the network may lose, delay and
  duplicate datagrams, and connections may be refused.  That no write of the server
  fails and that the client finds the response it waits for (`ServiceInv`, with
  `Answers` for each place of the client) holds only while the worker gets its port
  and is where the session's state says (`WorkerFit`), and this only if no worker of
  an earlier session has the port (`NoneClosing`, and no orphan).  `HealthInv` is
  their conjunction under the condition that there is no orphan; it is inductive
  because an orphan stays one (`OrphansStay`, by `Earlier`: no session finds a leftover
  in its own place).

`Inv` is the conjunction of the types, `LinkInv`, `TestInv`, `WorkerInv`, `LoopInv`,
`StopInv` and those parts named above that need no assumption, and `InvHolds` says that
it is invariant; the session's steps and the client's are treated apart (`Steps`,
`Sides`).

Only model-checked: the liveness properties (the prover does not do fairness).

## Not modelled

Left out for good: JSON encoding and flag parsing (library code and wording),
`ListenNetwork` (a test on a string), `sendErrorResponse` (unreachable),
`cancelSession`, `cleanup`, `cleanupLocked`, `getSessionID`, `setSessionID` (never
called by the program), printing and the layout and totals of the report, and the
descriptor that a successful downlink sender leaves to the finalizer.
