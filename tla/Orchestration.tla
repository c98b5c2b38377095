--------------------------- MODULE Orchestration ----------------------------
(***************************************************************************)
(* The bundled client (internal/control/client.go and the sweep loop of     *)
(* clientMain) against the server.  The client runs its tests one after     *)
(* another, each over a connection of its own (a "both" test over two); the  *)
(* server's side of a connection is module Session, its actions taken as     *)
(* they are; between the two is a UDP network.                               *)
(*                                                                          *)
(* All uplink tests use one UDP port of the server, as the sizes of a sweep  *)
(* do.  A connection of the client is a "run"; a worker of an earlier run    *)
(* that is still there when the next session starts is a leftover.           *)
(***************************************************************************)
EXTENDS Integers, Sequences, FiniteSets

CONSTANTS
    Tests,        \* the directions of the tests, in order; "both" is RunBoth
    PacketCount,  \* packets per test
    TcpFamily,    \* family of the target, hence of connection and test
    ChanCap,      \* bound: responses in flight
    MaxDups,      \* bound: datagrams the network duplicates
    Faults,       \* of the server's side: see Session; "refused": no connection
    NetFaults,    \* lose, late (a datagram outlives its run), dup
    Cfg,          \* the configuration whose plan Tests is (see ImplementsSweep)
    None          \* no value

ASSUME OrchestrationAssumption ==
    /\ Tests \in Seq({"uplink", "downlink", "both"}) /\ Tests # <<>>
    /\ PacketCount \in Nat \ {0} /\ ChanCap \in Nat \ {0} /\ MaxDups \in Nat
    /\ TcpFamily \in {"ipv4", "ipv6"}

VARIABLES
    \* the session of the last connection the server accepted
    state, pc, seen, direction, family, sock, receiver, rsock, quitCh,
    receiverDone, w, tx, rx, sentCount, receivedCount, in, out, peer, ctx,
    srun,       \* the run it serves
    sown,       \* how many of its receiver's datagrams are of that run
    hasty,      \* its loop took a message, or the lack of one, before the
                \* uplink worker it spawned had run
    leftover,   \* what is left of the uplink workers of earlier sessions
    \* the client
    cpc,        \* where it is
    test,       \* index of the current test
    run,        \* the current run
    dir,        \* its direction
    link,       \* its connection: none, backlog, session or rejected
    csent,      \* datagrams its sender has written
    crecv,      \* its UDP receiver: none, bound or receiving
    crx,        \* datagrams its receiver has recorded
    matched,    \* the count it took of them
    half,       \* the uplink result of a "both" test under way
    results, hasFailure,
    \* the network
    air,        \* datagrams in flight, by run
    dups        \* datagrams duplicated so far

session == <<state, pc, seen, direction, family, sock, receiver, rsock, quitCh,
             receiverDone, w, tx, rx, sentCount, receivedCount, in, out, peer, ctx>>
server  == <<session, srun, sown, hasty, leftover>>
network == <<air, dups>>
sweep   == <<test, half, results, hasFailure>>
counts  == <<csent, crecv, crx, matched>>
client  == <<cpc, run, dir, link, counts, sweep>>
vars    == <<server, client, network>>

Runs == 1 .. 2 * Len(Tests)

(* A UDP port may also be taken by a leftover, so binding can always fail    *)
(* here; the guards below say when it does.                                  *)
Srv == INSTANCE Session WITH
    Faults <- (Faults \ {"refused"}) \cup {"socket"}, Directions <- {},
    MaxDatagrams <- 2 * Len(Tests) * PacketCount + MaxDups

Msg(t) == [type |-> t]

FirstDir(t) == IF t = "downlink" THEN "downlink" ELSE "uplink"

Init ==
    /\ state = "idle" /\ pc = "done" /\ seen = "idle"
    /\ direction = "uplink" /\ family = "ipv4"
    /\ sock = "closed" /\ receiver = "nil" /\ rsock = "none"
    /\ quitCh = "nil" /\ receiverDone = "nil" /\ w = "none"
    /\ tx = 0 /\ rx = 0 /\ sentCount = 0 /\ receivedCount = 0
    /\ in = <<>> /\ out = <<>> /\ peer = "closed" /\ ctx = "live"
    /\ srun = 0 /\ sown = 0 /\ hasty = FALSE /\ leftover = [r \in Runs |-> "none"]
    /\ cpc = "plan" /\ test = 1 /\ run = 0 /\ dir = FirstDir(Tests[1])
    /\ link = "none" /\ csent = 0 /\ crecv = "none" /\ crx = 0 /\ matched = 0
    /\ half = <<>> /\ results = <<>> /\ hasFailure = FALSE
    /\ air = [r \in Runs |-> 0] /\ dups = 0

-----------------------------------------------------------------------------
(***************************************************************************)
(* The client.                                                              *)
(***************************************************************************)

(* The test failed: no result, the sweep goes on after the connection is    *)
(* closed (and with it, by their defers, the UDP sockets of the test).       *)
Fail ==
    /\ hasFailure' = TRUE
    /\ test' = test + 1
    /\ half' = <<>>
    /\ crecv' = "none"
    /\ cpc' = "close"
    /\ UNCHANGED <<run, dir, link, csent, crx, matched, results>>

(* The run gave result r; a "both" test still needs its second run. *)
Succeed(r) ==
    /\ IF Tests[test] = "both" /\ dir = "uplink"
       THEN half' = <<r>> /\ UNCHANGED <<results, test>>
       ELSE /\ results' = results \o half \o <<r>>
            /\ half' = <<>>
            /\ test' = test + 1
    /\ crecv' = "none"
    /\ cpc' = "close"
    /\ UNCHANGED <<run, dir, link, csent, crx, matched, hasFailure>>

GoOn(next) ==
    /\ cpc' = next
    /\ UNCHANGED <<run, dir, link, counts, sweep>>

(* writeMsg.  A write to a connection the server has closed may still be    *)
(* taken by the kernel.                                                     *)
Write(m, next) ==
    \/ /\ in' = IF sock = "open" THEN Append(in, m) ELSE in
       /\ next
    \/ /\ sock = "closed" \/ "deadline" \in Faults
       /\ Fail
       /\ UNCHANGED in

(* recvResponse, and the check that the response is of type t.  A server that *)
(* closes with requests unread resets the connection, and responses may be    *)
(* lost with it.                                                              *)
Recv(t, next) ==
    \/ /\ out # <<>>
       /\ out' = Tail(out)
       /\ IF Head(out).type = t THEN next ELSE Fail
    \/ /\ \/ sock = "closed" /\ (out = <<>> \/ in # <<>>)
          \/ "deadline" \in Faults
       /\ Fail
       /\ UNCHANGED out

(* What a step of the client leaves alone on the server's side, besides one *)
(* of the two queues.                                                       *)
serverButQueues == <<state, pc, seen, direction, family, sock, receiver, rsock,
                     quitCh, receiverDone, w, tx, rx, sentCount, receivedCount,
                     ctx, srun, sown, hasty, leftover>>

Writes(m, next) == Write(m, next) /\ UNCHANGED <<serverButQueues, out, peer, network>>

Receives(t, next) == Recv(t, next) /\ UNCHANGED <<serverButQueues, in, peer, network>>

Plan ==
    /\ cpc = "plan"
    /\ GoOn("dial")
    /\ UNCHANGED <<server, network>>

(* NewClientConn. *)
Dial ==
    /\ cpc = "dial" /\ link = "none"
    /\ run' = run + 1
    /\ link' = "backlog"
    /\ csent' = 0 /\ crx' = 0 /\ matched' = 0
    /\ cpc' = "hello"
    /\ UNCHANGED <<dir, crecv, sweep, server, network>>

(* The sweep loop exits; RunBoth returns the error of its second connection *)
ConnectFails ==
    /\ cpc = "dial" /\ link = "none" /\ "refused" \in Faults
    /\ IF half = <<>> THEN GoOn("exit") ELSE Fail
    /\ UNCHANGED <<server, network>>

Hello ==
    /\ cpc = "hello" /\ link = "session"
    /\ Writes(Msg("hello"), GoOn("prepare"))

(* The server answers BUSY and closes; whichever write or read notices, the *)
(* test fails.                                                              *)
Rejected ==
    /\ cpc = "hello" /\ link = "rejected"
    /\ Fail
    /\ UNCHANGED <<server, network>>

(* A downlink test opens its receiver before it sends prepare. *)
OpenReceiver ==
    /\ cpc = "prepare" /\ dir = "downlink" /\ crecv = "none"
    /\ \/ /\ crecv' = "bound"
          /\ UNCHANGED <<cpc, run, dir, link, csent, crx, matched, sweep>>
       \/ "socket" \in Faults /\ Fail
    /\ UNCHANGED <<server, network>>

Prepare ==
    /\ cpc = "prepare" /\ (dir = "downlink" => crecv = "bound")
    /\ Writes([type |-> "prepare", direction |-> dir, family |-> TcpFamily],
              GoOn("ready"))

AwaitReady ==
    /\ cpc = "ready"
    /\ Receives("ready", GoOn("start"))

(* A downlink test spawns its receiver's goroutine before it sends start. *)
Start ==
    /\ cpc = "start" /\ (dir = "downlink" => crecv = "receiving")
    /\ Writes(Msg("start"), GoOn(IF dir = "uplink" THEN "send" ELSE "complete"))

SpawnReceiver ==
    /\ cpc = "start" /\ dir = "downlink" /\ crecv = "bound"
    /\ crecv' = "receiving"
    /\ UNCHANGED <<cpc, run, dir, link, csent, crx, matched, sweep, server, network>>

(* Uplink: one turn of Sender.Send; a socket call may fail. *)
SendProbe ==
    /\ cpc = "send" /\ csent < PacketCount
    /\ \/ /\ csent' = csent + 1
          /\ air' = [air EXCEPT ![run] = @ + 1]
          /\ UNCHANGED <<cpc, run, dir, link, crecv, crx, matched, sweep>>
       \/ "socket" \in Faults /\ Fail /\ UNCHANGED air
    /\ UNCHANGED <<server, dups>>

SendComplete ==
    /\ cpc = "send" /\ csent = PacketCount
    /\ Writes(Msg("send_complete"), GoOn("fetch"))

(* Downlink: the server has sent everything ... *)
AwaitSendComplete ==
    /\ cpc = "complete"
    /\ Receives("send_complete", GoOn("count"))

(* ... and, 50 ms later, the client takes its count. *)
CountMatched ==
    /\ cpc = "count"
    /\ matched' = crx
    /\ cpc' = "fetch"
    /\ UNCHANGED <<run, dir, link, csent, crecv, crx, sweep, server, network>>

FetchResult ==
    /\ cpc = "fetch"
    /\ Writes(Msg("fetch_result"), GoOn("result"))

(* The result of the run; an uplink test takes the server's count.  The code *)
(* does not know "own", the datagrams of this run that were recorded, nor    *)
(* "late", that the server's worker started late.                            *)
TestResult(m) ==
    [test |-> test, direction |-> dir, sent |-> m.sent,
     received |-> IF dir = "uplink" THEN m.received ELSE matched,
     own |-> IF dir = "uplink" THEN sown ELSE matched,
     late |-> dir = "uplink" /\ hasty]

AwaitResult ==
    /\ cpc = "result"
    /\ Receives("result", Succeed(TestResult(Head(out))))

(* client.Close, then the next test, or the second run of RunBoth.  A socket *)
(* closed with unread data resets the connection, and requests in flight may *)
(* be lost.  Datagrams on their way to the client's port go astray with it;  *)
(* others may stay in the network.                                           *)
Close ==
    /\ cpc = "close"
    /\ CASE link = "session" /\ out = <<>>  -> peer' = "closed" /\ UNCHANGED in
         [] link = "session" /\ out # <<>> -> peer' = "reset" /\ in' \in {in, <<>>}
         [] OTHER                          -> UNCHANGED <<peer, in>>
    /\ link' = "none"
    /\ dir' = IF half # <<>> THEN "downlink"
              ELSE IF test <= Len(Tests) THEN FirstDir(Tests[test]) ELSE dir
    /\ cpc' = IF test <= Len(Tests) THEN "dial" ELSE "report"
    /\ air' = IF run > 0 /\ (dir = "downlink" \/ "late" \notin NetFaults)
              THEN [air EXCEPT ![run] = 0] ELSE air
    /\ UNCHANGED <<run, counts, sweep, serverButQueues, out, dups>>

(* The end of clientMain: the report, which Sweep describes, and the exit. *)
Finish ==
    /\ cpc = "report"
    /\ GoOn("finished")
    /\ UNCHANGED <<server, network>>

(* The receiver's goroutine of a downlink test. *)
ClientReceive ==
    /\ crecv = "receiving" /\ air[run] > 0
    /\ crx' = crx + 1
    /\ air' = [air EXCEPT ![run] = @ - 1]
    /\ UNCHANGED <<cpc, run, dir, link, csent, crecv, matched, sweep, server, dups>>

(* A turn of its loop in which nothing arrived within 10 ms. *)
ReceiveTimesOut ==
    /\ crecv = "receiving" /\ air[run] = 0
    /\ UNCHANGED vars

ClientStep ==
    \/ Plan \/ Dial \/ ConnectFails \/ Hello \/ Rejected \/ OpenReceiver \/ Prepare
    \/ AwaitReady \/ SpawnReceiver \/ Start \/ SendProbe \/ SendComplete
    \/ AwaitSendComplete \/ CountMatched \/ FetchResult \/ AwaitResult
    \/ Close \/ Finish

-----------------------------------------------------------------------------
(***************************************************************************)
(* The server.                                                              *)
(***************************************************************************)
PortTaken == \E r \in Runs : leftover[r] \in {"bound", "closing", "orphan"}

(* What stays of the current session's uplink worker when its session is    *)
(* over: one that has not run yet, one that nobody will stop (an orphan if   *)
(* it started late), or one that is about to close its socket.               *)
Residue ==
    CASE direction # "downlink" /\ w = "spawned" -> "late"
      [] w = "receiving" /\ rsock = "open" /\ quitCh # "closed" ->
             IF hasty THEN "orphan" ELSE "bound"
      [] \/ w = "receiving" /\ rsock = "open" /\ quitCh = "closed"
         \/ w = "stopping" /\ rsock = "open" -> "closing"
      [] OTHER -> "none"

(* handleConn: the slot is free once the last session is done. *)
Accept ==
    /\ link = "backlog"
    /\ IF pc = "done"
       THEN /\ link' = "session"
            /\ state' = "idle" /\ pc' = "idle" /\ seen' = "idle"
            /\ direction' = "uplink" /\ family' = "ipv4"
            /\ sock' = "open" /\ receiver' = "nil" /\ rsock' = "none"
            /\ quitCh' = "nil" /\ receiverDone' = "nil" /\ w' = "none"
            /\ tx' = 0 /\ rx' = 0 /\ sentCount' = 0 /\ receivedCount' = 0
            /\ in' = <<>> /\ out' = <<>> /\ peer' = "open" /\ ctx' = ctx
            /\ srun' = run /\ sown' = 0 /\ hasty' = FALSE
            /\ leftover' = IF srun = 0 THEN leftover
                           ELSE [leftover EXCEPT ![srun] = Residue]
       ELSE link' = "rejected" /\ UNCHANGED server
    /\ UNCHANGED <<cpc, run, dir, counts, sweep, network>>

SessionLoop ==
    /\ Srv!Loop
    /\ hasty' = (hasty \/ (w = "spawned" /\ direction # "downlink" /\ pc # "top"))
    /\ UNCHANGED <<srun, sown, leftover, client, network>>

(* Binding fails on a port in use. *)
SessionBinds ==
    /\ Srv!BindReceiver
    /\ PortTaken => w' = "bindfailed"
    /\ w' = "bindfailed" => PortTaken \/ "socket" \in Faults
    /\ UNCHANGED <<srun, sown, hasty, leftover, client, network>>

(* An uplink datagram of any run arrives at the port. *)
SessionReceives ==
    /\ Srv!ReceiveDatagram
    /\ \E r \in Runs :
         /\ air[r] > 0 /\ (r = run => dir = "uplink")
         /\ air' = [air EXCEPT ![r] = @ - 1]
         /\ sown' = IF r = srun THEN sown + 1 ELSE sown
    /\ UNCHANGED <<srun, hasty, leftover, client, dups>>

(* A downlink datagram is on its way if its port is still open. *)
SessionSends ==
    /\ Srv!SendPacket
    /\ air' = IF srun = run /\ crecv # "none"
              THEN [air EXCEPT ![run] = @ + 1] ELSE air
    /\ UNCHANGED <<srun, sown, hasty, leftover, client, dups>>

SessionWorker ==
    /\ \/ Srv!BindFailed \/ Srv!ReceiveReturns \/ Srv!CloseUDP
       \/ Srv!CountReceived \/ Srv!SignalDone
       \/ Srv!NewSender /\ (w' = "done" => "socket" \in Faults)
       \/ Srv!SendFails /\ "socket" \in Faults
       \/ Srv!SendReturns \/ Srv!SenderCollects \/ Srv!NotifySendComplete
    /\ UNCHANGED <<srun, sown, hasty, leftover, client, network>>

SocketFails ==
    /\ Srv!ReceiveFails /\ "socket" \in Faults
    /\ UNCHANGED <<srun, sown, hasty, leftover, client, network>>

(* A worker that has outlived its session binds the port, or closes it. *)
LeftoverStep ==
    /\ \E r \in Runs :
         \/ /\ leftover[r] = "late"
            /\ leftover' = [leftover EXCEPT ![r] =
                   IF PortTaken \/ rsock = "open" THEN "none" ELSE "orphan"]
         \/ /\ leftover[r] = "closing"
            /\ leftover' = [leftover EXCEPT ![r] = "none"]
    /\ UNCHANGED <<session, srun, sown, hasty, client, network>>

ServerStep ==
    \/ Accept \/ SessionLoop \/ SessionBinds \/ SessionReceives \/ SessionSends
    \/ SessionWorker \/ LeftoverStep

-----------------------------------------------------------------------------
(***************************************************************************)
(* The network.  An uplink datagram that finds no socket is dropped.        *)
(***************************************************************************)
Drop ==
    /\ \E r \in Runs :
         /\ air[r] > 0
         /\ "lose" \in NetFaults \/ (rsock # "open" /\ (r = run => dir = "uplink"))
         /\ air' = [air EXCEPT ![r] = @ - 1]
    /\ UNCHANGED <<server, client, dups>>

Duplicate ==
    /\ "dup" \in NetFaults /\ dups < MaxDups
    /\ \E r \in Runs : air[r] > 0 /\ air' = [air EXCEPT ![r] = @ + 1]
    /\ dups' = dups + 1
    /\ UNCHANGED <<server, client>>

(* The client's host answers what it gets on a closed socket with a reset. *)
ResetByPeer ==
    /\ peer = "closed" /\ out # <<>> /\ pc # "done"
    /\ peer' = "reset" /\ in' \in {in, <<>>}
    /\ UNCHANGED <<serverButQueues, out, client, network>>

Terminated == cpc \in {"finished", "exit"} /\ UNCHANGED vars

Next == \/ ClientStep \/ ClientReceive \/ ReceiveTimesOut
        \/ ServerStep \/ SocketFails
        \/ Drop \/ Duplicate \/ ResetByPeer \/ Terminated

Fairness == WF_vars(ClientStep) /\ WF_vars(ServerStep)

Spec == Init /\ [][Next]_vars /\ Fairness

-----------------------------------------------------------------------------
(***************************************************************************)
(* Properties                                                               *)
(***************************************************************************)

(* The sweep comes to its end, and no deadline is needed for it: with the   *)
(* server up, no wait of the client for a message is in vain, whichever      *)
(* socket fails, whatever the network loses and however late the server's    *)
(* worker runs.                                                             *)
SweepEnds == <>(cpc \in {"finished", "exit"})

(***************************************************************************)
(* The sweep that is promised: module Sweep, where a test is one step.      *)
(***************************************************************************)
MaxReceived == 2 * Len(Tests) * PacketCount + MaxDups

HighestPort     == 65535
LongestDuration == 524287  \* of a narrower type than time.Duration

SW == INSTANCE Sweep WITH
    Configs <- {Cfg}, Received <- 0 .. MaxReceived, MaxPort <- HighestPort,
    MaxInt <- LongestDuration, phase <- "config", cfg <- Cfg, plans <- <<>>, next <- 1,
    results <- <<>>, hasFailure <- FALSE, report <- <<>>

plan == SW!BuildSweepPlan(Cfg, SW!ParsePorts(Cfg.ports))

(* The line of the report that a result becomes. *)
Row(r) ==
    [family |-> plan[r.test].family, port |-> plan[r.test].port, size |-> plan[r.test].size,
     direction |-> IF r.direction = "uplink" THEN 0 ELSE 1,
     sent |-> r.sent, lost |-> r.sent - r.received]

Reported == [i \in DOMAIN results |-> Row(results[i])]

Phase == CASE cpc = "plan"     -> "config"
           [] cpc = "exit"     -> "exit"
           [] cpc = "finished" -> "done"
           [] OTHER            -> "run"

Plans == IF cpc = "plan" THEN <<>> ELSE plan

Abstract == INSTANCE Sweep WITH
    Configs <- {Cfg}, Received <- 0 .. MaxReceived, MaxPort <- HighestPort,
    MaxInt <- LongestDuration, cfg <- Cfg, phase <- Phase, plans <- Plans,
    next <- test, results <- Reported, report <- <<>>

(* Client, server and network together do what Sweep says of one test after *)
(* another: each test of the plan is run once and in its turn, and leaves     *)
(* one result that reports the packets asked for as sent, or a failure.      *)
ImplementsSweep == Abstract!Loop

(* A result is of the test it is reported for: all packets were sent, and    *)
(* the number received is that of the datagrams of this very run that a      *)
(* receiver recorded (RunUplink takes it from the server, which must have    *)
(* stopped its receiver; RunDownlink from its own).  A server whose worker   *)
(* starts late may report less.                                              *)
CountsTrue ==
    \A i \in DOMAIN results :
        /\ results[i].sent = PacketCount
        /\ results[i].received <= results[i].own
        /\ results[i].received = results[i].own \/ results[i].late
        /\ results[i].own <= results[i].sent

(* However a test of the bundled client ends, no receiver that was running   *)
(* keeps the UDP port from the next test (cleanupNoStateChange on the         *)
(* server's side, Close and its reset on the client's).  A worker that has    *)
(* not run before its session ends may (see ReceiverReclaimed of Session).    *)
NoPortLeak == \A r \in Runs : leftover[r] # "bound"

(* Where no socket fails and no deadline expires, the only way for a test to *)
(* fail is that the server turns it away, with BUSY or a refused connection: *)
(* no request of the client comes too early or too late for the state the    *)
(* session is in (the messages of RunUplink and RunDownlink are answered by  *)
(* a server that checks its state on each).  Only the port kept by a worker  *)
(* that started late may cost a later test.                                  *)
FailsOnlyIfTurnedAway ==
    [][ \/ hasFailure' = hasFailure
        \/ link = "rejected" \/ cpc = "dial"
        \/ \E r \in Runs : leftover[r] = "orphan" ]_vars

(* The plan of the tool asks that the resources of a test case be torn down  *)
(* before the next one is entered: the sweep is never turned away because of *)
(* its own previous test.                                                    *)
NeverBusyToItself == link # "rejected"

=============================================================================
