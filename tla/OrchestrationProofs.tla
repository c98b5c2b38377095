------------------------ MODULE OrchestrationProofs -------------------------
(***************************************************************************)
(* Theorems of module Orchestration: the bundled client, the server's       *)
(* session and the network together, for every list of tests, every number  *)
(* of packets and every set of faults.                                      *)
(***************************************************************************)
EXTENDS Orchestration, TLAPS

(* The tuples the actions' UNCHANGED clauses are written with. *)
USE DEF vars, session, server, network, sweep, counts, client, serverButQueues,
        Srv!request, Srv!udp, Srv!channels, Srv!counts, Srv!worker, Srv!env, Srv!loop

-----------------------------------------------------------------------------
(***************************************************************************)
(* The requests of the client, in the order in which it writes them.        *)
(***************************************************************************)
helloMsg    == [type |-> "hello"]
startMsg    == [type |-> "start"]
completeMsg == [type |-> "send_complete"]
fetchMsg    == [type |-> "fetch_result"]
prepareMsg(d) == [type |-> "prepare", direction |-> d, family |-> TcpFamily]

(* What may be on its way to a session that still reads, by how far the     *)
(* session is.                                                              *)
Opening ==
    {<<>>, <<helloMsg>>, <<prepareMsg("uplink")>>, <<prepareMsg("downlink")>>,
     <<helloMsg, prepareMsg("uplink")>>, <<helloMsg, prepareMsg("downlink")>>}

Starting == {<<startMsg>>, <<startMsg, completeMsg>>, <<startMsg, completeMsg, fetchMsg>>}

Completing == {<<completeMsg>>, <<completeMsg, fetchMsg>>}

Fetching == {<<>>, <<fetchMsg>>}

-----------------------------------------------------------------------------
(***************************************************************************)
(* The inductive invariant.                                                 *)
(***************************************************************************)

(* Where the client has a connection, and where it has none. *)
Served == {"prepare", "ready", "start", "send", "complete", "count", "fetch", "result"}
Apart  == {"plan", "dial", "report", "finished", "exit"}

ResultRecord ==
    [test : Nat, direction : {"uplink", "downlink"}, sent : {PacketCount},
     received : 0 .. MaxReceived, own : Nat, late : BOOLEAN]

TypeInv ==
    /\ Srv!FieldsOK /\ out \in Seq(Srv!Response) /\ ctx = "live"
    /\ hasty \in BOOLEAN /\ sown \in Nat /\ srun \in Nat
    /\ leftover \in [Runs -> {"none", "late", "bound", "closing", "orphan"}]
    /\ test \in Nat /\ run \in Nat /\ dir \in {"uplink", "downlink"}
    /\ csent \in 0 .. PacketCount /\ crx \in Nat
    /\ matched \in 0 .. (PacketCount + dups)
    /\ crecv \in {"none", "bound", "receiving"}
    /\ results \in Seq(ResultRecord)
    /\ air \in [Runs -> Nat] /\ dups \in 0 .. MaxDups

(* The client's place, its connection and the session that serves it. *)
LinkInv ==
    /\ cpc \in Apart \cup Served \cup {"hello", "close"}
    /\ cpc \in Apart => link = "none"
    /\ cpc = "hello" => link \in {"backlog", "session", "rejected"}
    /\ cpc \in Served => link = "session"
    /\ cpc = "close" => link \in {"none", "session", "rejected"}
    /\ link = "session" => srun = run /\ peer = "open"
    /\ link # "none" => run >= 1
    /\ srun <= run
    /\ crecv # "none" => dir = "downlink" /\ cpc \in Served
    /\ cpc = "send" => dir = "uplink"
    /\ cpc \in {"complete", "count"} => dir = "downlink"

(* Its place in the sweep. *)
HalfTyped == \E h \in ResultRecord : half = <<h>>

TestInv ==
    /\ test >= 1 /\ test <= Len(Tests) + 1
    /\ cpc \in {"plan", "dial", "exit", "hello"} \cup Served => test <= Len(Tests)
    /\ cpc \in {"report", "finished"} => test > Len(Tests)
    /\ half # <<>> => test <= Len(Tests) /\ Tests[test] = "both" /\ HalfTyped
    /\ cpc \in {"plan", "dial", "hello"} \cup Served =>
           dir = IF half # <<>> THEN "downlink" ELSE FirstDir(Tests[test])
    /\ run <= 2 * (test - 1) + (IF half # <<>> THEN 1 ELSE 0)
                 + (IF cpc \in {"hello"} \cup Served THEN 1 ELSE 0)

(* The session's worker. *)
Binding     == {"none", "spawned", "bindfailed"}
Uplinking   == {"bindfailed", "receiving", "stopping", "counting", "closing"}
Downlinking == {"sending", "sent", "notify"}
PastRunning == {"collecting", "completed", "failed", "cancelled"}

WorkerInv ==
    /\ direction # "both"
    /\ state \in {"idle", "preparing", "ready"} => w = "none"
    /\ state = "running" => w # "none"
    /\ w = "spawned" /\ direction # "downlink" /\ ~hasty =>
           pc \in {"top", "reading"} /\ sock = "open" /\ state = "running"
    /\ w \in {"none", "spawned"} => receiverDone = "nil" /\ quitCh = "nil"
    /\ w \in Binding => rx = 0 /\ receivedCount = 0
    /\ w \in Downlinking => direction = "downlink"
    /\ w \in Uplinking =>
           receiverDone = "open" /\ quitCh # "nil" /\ direction = "uplink"
    /\ receivedCount <= rx
    /\ w \in {"closing", "done"} /\ direction = "uplink" => receivedCount = rx
    /\ rsock = "open" => w \in {"receiving", "stopping"} /\ receiver = "set"
    /\ w = "notify" => state \in PastRunning

(* Its loop. *)
LoopInv ==
    /\ pc = "idle" => state = "idle"
    /\ state = "idle" => pc \in {"idle", "done"}
    /\ pc \in {"collect", "await"} => state = "running" /\ direction = "uplink"
    /\ pc = "timedout" => seen = state \/ (seen = "running" /\ state = "collecting")
    /\ pc # "cancelling"
    /\ pc = "closeconn" => state = "completed"
    /\ state = "completed" => pc \in {"closeconn", "top", "returned", "done"}

(* Unless the loop ran ahead of the worker, an uplink session that has gone *)
(* on has a worker that is done, or answers nothing any more.               *)
StopInv ==
    direction = "uplink" /\ ~hasty =>
        /\ w = "done" => receiverDone = "closed"
        /\ pc = "collect" => w = "done"
        /\ state \in {"collecting", "completed", "failed"} =>
               w = "done" \/ sock = "closed" \/ pc = "cleanup"

(* A receiver that nobody has told to stop still has its loop, which is on   *)
(* no way out but the one through cleanup.                                  *)
PortInv ==
    w = "receiving" /\ rsock = "open" /\ quitCh # "closed" /\ ~hasty =>
        /\ sock = "open"
        /\ pc = "cleanup" \/ (state = "running" /\ pc \in {"top", "reading", "timedout"})

(* The responses on their way. *)
OutOK(m) ==
    /\ m.type = "result" =>
           /\ state = "completed"
           /\ m.sent = PacketCount /\ m.received \in Nat /\ m.received <= rx
           /\ direction = "uplink" /\ ~hasty => w = "done" /\ m.received = rx
    /\ m.type = "send_complete" => state \in PastRunning

Pending(m) == \E i \in 1 .. Len(out) : out[i] = m

OutInv == \A m : Pending(m) => OutOK(m)

(* A session whose loop will read again. *)
Alive == sock = "open" /\ pc \in {"idle", "top", "reading", "collect", "await"}

(* No request comes too early or too late for the state of the session. *)
AlignInv ==
    Alive =>
        \/ state \in {"idle", "preparing"} /\ in \in Opening
        \/ state = "ready" /\ in \in {<<>>, <<startMsg>>}
        \/ state = "ready" /\ in \in Starting /\ direction = "uplink"
        \/ state = "running" /\ pc \in {"top", "reading"} /\ in = <<>>
        \/ /\ state = "running" /\ pc \in {"top", "reading"}
           /\ in \in Completing /\ direction = "uplink"
        \/ state = "running" /\ pc \in {"collect", "await"} /\ in \in Fetching
        \/ state = "collecting" /\ in \in Fetching

(* While a start request or the receiver it made may still be there, the     *)
(* client has nothing to read, so that closing its end is no reset.          *)
QuietInv ==
    Alive /\ (\/ in \in Starting
              \/ /\ state = "running" /\ direction = "uplink" /\ ~hasty
                 /\ w \in {"spawned", "receiving"} /\ quitCh # "closed")
    => out = <<>> /\ peer # "reset"

(* How far the session is for a client in a given place. *)
Aligned ==
    /\ cpc = "hello" => state \in {"idle", "preparing"} /\ in = <<>> /\ out = <<>>
    /\ cpc = "prepare" =>
           state \in {"idle", "preparing"} /\ in \in {<<>>, <<helloMsg>>} /\ out = <<>>
    /\ cpc = "ready" =>
           \/ /\ state \in {"idle", "preparing"} /\ out = <<>>
              /\ in \in {<<prepareMsg(dir)>>, <<helloMsg, prepareMsg(dir)>>}
           \/ state = "ready" /\ in = <<>> /\ out = <<[type |-> "ready"]>>
    /\ cpc = "start" => state = "ready" /\ in = <<>> /\ out = <<>>
    /\ cpc = "send" =>
           \/ state = "ready" /\ in = <<startMsg>>
           \/ state = "running" /\ pc \in {"top", "reading"} /\ in = <<>>
    /\ cpc = "complete" =>
           \/ state = "ready" /\ in = <<startMsg>>
           \/ state = "running" /\ pc \in {"top", "reading"} /\ in = <<>>
           \/ state = "collecting" /\ in = <<>>
    /\ cpc = "count" => state = "collecting" /\ in = <<>>
    /\ cpc = "fetch" =>
           \/ state = "collecting" /\ in = <<>>
           \/ state = "ready" /\ in = <<startMsg, completeMsg>> /\ dir = "uplink"
           \/ /\ state = "running" /\ pc \in {"top", "reading"}
              /\ in = <<completeMsg>> /\ dir = "uplink"
           \/ /\ state = "running" /\ pc \in {"collect", "await"}
              /\ in = <<>> /\ dir = "uplink"

ClientInv ==
    link = "session" =>
        /\ state \in {"ready", "running", "collecting", "completed"} => direction = dir
        /\ Alive /\ state \in {"idle", "preparing"} =>
               in \in {<<>>, <<helloMsg>>, <<prepareMsg(dir)>>, <<helloMsg, prepareMsg(dir)>>}
        /\ Alive => Aligned

(* The datagrams in flight: none of a run to come, and no more of a downlink *)
(* run than were sent and duplicated.                                       *)
AirInv ==
    /\ \A r \in Runs : r > run => air[r] = 0
    /\ link \in {"backlog", "rejected"} =>
           air[run] = 0 /\ crx = 0 /\ csent = 0 /\ srun < run
    /\ link = "session" /\ dir = "downlink" => crx + air[run] <= tx + dups

Inv == /\ TypeInv /\ LinkInv /\ TestInv /\ WorkerInv /\ LoopInv /\ StopInv /\ PortInv
       /\ OutInv /\ AlignInv /\ QuietInv /\ ClientInv /\ AirInv /\ NoPortLeak

-----------------------------------------------------------------------------
(***************************************************************************)
(* What the loop reads, by the type of the request.                         *)
(***************************************************************************)

(* The queues of the client's requests, taken apart. *)
LEMMA Queues ==
    ASSUME NEW d
    PROVE  /\ Head(<<helloMsg>>) = helloMsg /\ Tail(<<helloMsg>>) = <<>>
           /\ Head(<<prepareMsg(d)>>) = prepareMsg(d) /\ Tail(<<prepareMsg(d)>>) = <<>>
           /\ Head(<<helloMsg, prepareMsg(d)>>) = helloMsg
           /\ Tail(<<helloMsg, prepareMsg(d)>>) = <<prepareMsg(d)>>
           /\ Head(<<startMsg>>) = startMsg /\ Tail(<<startMsg>>) = <<>>
           /\ Head(<<startMsg, completeMsg>>) = startMsg
           /\ Tail(<<startMsg, completeMsg>>) = <<completeMsg>>
           /\ Head(<<startMsg, completeMsg, fetchMsg>>) = startMsg
           /\ Tail(<<startMsg, completeMsg, fetchMsg>>) = <<completeMsg, fetchMsg>>
           /\ Head(<<completeMsg>>) = completeMsg /\ Tail(<<completeMsg>>) = <<>>
           /\ Head(<<completeMsg, fetchMsg>>) = completeMsg
           /\ Tail(<<completeMsg, fetchMsg>>) = <<fetchMsg>>
           /\ Head(<<fetchMsg>>) = fetchMsg /\ Tail(<<fetchMsg>>) = <<>>
OBVIOUS

(* Their types. *)
LEMMA Types ==
    /\ helloMsg.type = "hello" /\ startMsg.type = "start"
    /\ completeMsg.type = "send_complete" /\ fetchMsg.type = "fetch_result"
    /\ \A d : prepareMsg(d).type = "prepare"
BY DEF helloMsg, startMsg, completeMsg, fetchMsg, prepareMsg

(* The states in which a request of each type is read, and what is left. *)
Reads(t) ==
    \/ /\ t = "hello" /\ state = "preparing"
       /\ \/ in = <<helloMsg>> /\ in' = <<>>
          \/ in = <<helloMsg, prepareMsg("uplink")>> /\ in' = <<prepareMsg("uplink")>>
          \/ in = <<helloMsg, prepareMsg("downlink")>> /\ in' = <<prepareMsg("downlink")>>
    \/ /\ t = "prepare" /\ state = "preparing" /\ in' = <<>>
       /\ \E d \in {"uplink", "downlink"} : in = <<prepareMsg(d)>> /\ Head(in) = prepareMsg(d)
    \/ /\ t = "start" /\ state = "ready"
       /\ \/ in = <<startMsg>> /\ in' = <<>>
          \/ /\ direction = "uplink"
             /\ \/ in = <<startMsg, completeMsg>> /\ in' = <<completeMsg>>
                \/ in = <<startMsg, completeMsg, fetchMsg>> /\ in' = <<completeMsg, fetchMsg>>
    \/ /\ t = "send_complete" /\ state = "running" /\ direction = "uplink"
       /\ \/ in = <<completeMsg>> /\ in' = <<>>
          \/ in = <<completeMsg, fetchMsg>> /\ in' = <<fetchMsg>>
    \/ t = "fetch_result" /\ state = "collecting" /\ in = <<fetchMsg>> /\ in' = <<>>

(* A request that is read comes in its turn. *)
LEMMA ReadInTurn ==
    ASSUME LoopInv, AlignInv, NEW t, Srv!Read(t)
    PROVE  Reads(t)
<1>1. /\ pc = "reading" /\ sock = "open" /\ in # <<>>
      /\ Head(in).type = t /\ in' = Tail(in)
  BY DEF Srv!Read
<1>2. Alive /\ state # "idle"
  BY <1>1 DEF Alive, LoopInv
<1> USE Types, Queues
<1>3. CASE state = "preparing"
  BY <1>1, <1>2, <1>3 DEF AlignInv, Opening, Reads
<1>4. CASE state = "ready"
  BY <1>1, <1>2, <1>4 DEF AlignInv, Starting, Reads
<1>5. CASE state = "running"
  BY <1>1, <1>2, <1>5 DEF AlignInv, Completing, Reads
<1>6. CASE state = "collecting"
  BY <1>1, <1>2, <1>6 DEF AlignInv, Fetching, Reads
<1>7. QED
  BY <1>1, <1>2, <1>3, <1>4, <1>5, <1>6 DEF AlignInv

-----------------------------------------------------------------------------
(***************************************************************************)
(* The steps of the session's loop that the bundled client can bring about: *)
(* nothing is rejected, nothing is cancelled, and an error of a read is the *)
(* end of a connection that is closed or reset.                             *)
(***************************************************************************)
ready == [type |-> "ready"]
internalError == [type |-> "internal_error"]

kept == <<seen, direction, family, receiver, rsock, receiverDone, tx, rx, sentCount,
          receivedCount, peer, ctx>>

DoRun ==
    /\ pc = "idle" /\ state = "idle" /\ state' = "preparing" /\ pc' = "top"
    /\ UNCHANGED <<kept, sock, w, quitCh, in, out>>

DoTop ==
    /\ pc = "top"
    /\ pc' = IF state \in {"completed", "failed", "cancelled"} THEN "returned" ELSE "reading"
    /\ UNCHANGED <<kept, state, sock, w, quitCh, in, out>>

Reading(t) == pc = "reading" /\ sock = "open" /\ Reads(t)

DoHello ==
    /\ Reading("hello") /\ pc' = "top"
    /\ UNCHANGED <<kept, state, sock, w, quitCh, out>>

DoPrepare ==
    /\ Reading("prepare") /\ state' = "ready"
    /\ direction' \in {"uplink", "downlink"} /\ in = <<prepareMsg(direction')>>
    /\ family' = TcpFamily
    /\ \/ pc' = "top" /\ Srv!WriteOk(ready)
       \/ pc' = "returned" /\ Srv!WriteFails
    /\ UNCHANGED <<seen, sock, w, quitCh, receiver, rsock, receiverDone, tx, rx,
                   sentCount, receivedCount, peer, ctx>>

DoStart ==
    /\ Reading("start") /\ state' = "running" /\ w' = "spawned" /\ pc' = "top"
    /\ UNCHANGED <<kept, sock, quitCh, out>>

DoStop ==
    /\ Reading("send_complete")
    /\ quitCh' = IF quitCh = "open" THEN "closed" ELSE quitCh
    /\ pc' = IF receiverDone = "nil" THEN "collect" ELSE "await"
    /\ UNCHANGED <<kept, state, sock, w, out>>

DoAwait ==
    /\ pc = "await" /\ receiverDone = "closed" /\ pc' = "collect"
    /\ UNCHANGED <<kept, state, sock, w, quitCh, in, out>>

DoCollect ==
    /\ pc = "collect" /\ state' = "collecting" /\ pc' = "top"
    /\ UNCHANGED <<kept, sock, w, quitCh, in, out>>

DoFetch ==
    /\ Reading("fetch_result") /\ state' = "completed" /\ pc' = "closeconn"
    /\ Srv!Attempt(Srv!Result)
    /\ UNCHANGED <<kept, sock, w, quitCh>>

DoCloseConn ==
    /\ pc = "closeconn" /\ sock' = "closed" /\ pc' = "top"
    /\ UNCHANGED <<kept, state, w, quitCh, in, out>>

DoTimeout ==
    /\ pc = "reading" /\ sock = "open" /\ in = <<>>
    /\ peer = "closed" \/ "deadline" \in Faults
    /\ seen' = state /\ pc' = "timedout"
    /\ UNCHANGED <<state, direction, family, sock, receiver, rsock, quitCh,
                   receiverDone, w, tx, rx, sentCount, receivedCount, in, out, peer, ctx>>

DoAssign ==
    /\ pc = "timedout" /\ pc' = "cleanup" /\ state' \in {state, "failed", "collecting"}
    /\ state # "running" => state' \in {state, "failed"}
    /\ state = "ready" => state' = state
    /\ state = "collecting" => state' \in {"collecting", "failed"}
    /\ state = "running" => state' = "collecting"
    /\ UNCHANGED <<kept, sock, w, quitCh, in, out>>

DoError ==
    /\ pc = "reading" /\ (sock = "closed" \/ (peer = "reset" /\ in = <<>>))
    /\ Srv!Attempt(internalError) /\ pc' = "returned"
    /\ UNCHANGED <<kept, state, sock, w, quitCh, in>>

DoCleanup ==
    /\ pc = "cleanup" /\ pc' = "top" /\ sock' = "closed"
    /\ rsock' = IF receiver = "set" THEN "closed" ELSE rsock
    /\ receiver' = "nil"
    /\ UNCHANGED <<state, seen, direction, family, quitCh, receiverDone, w, tx, rx,
                   sentCount, receivedCount, in, out, peer, ctx>>

DoFinish ==
    /\ pc = "returned" /\ sock' = "closed" /\ pc' = "done"
    /\ UNCHANGED <<kept, state, w, quitCh, in, out>>

LoopSteps ==
    \/ DoRun \/ DoTop \/ DoHello \/ DoPrepare \/ DoStart \/ DoStop \/ DoAwait
    \/ DoCollect \/ DoFetch \/ DoCloseConn \/ DoTimeout \/ DoAssign \/ DoError
    \/ DoCleanup \/ DoFinish

(* The loop takes no other step. *)
LEMMA LoopTakes ==
    ASSUME Inv, Srv!Loop
    PROVE  LoopSteps
<1>i. TypeInv /\ LoopInv /\ AlignInv /\ WorkerInv
  BY DEF Inv
<1>r. \A t : Srv!Read(t) => Reading(t)
  BY <1>i, ReadInTurn DEF Reading, Srv!Read
<1>t. ctx = "live" /\ state \in Srv!SessionState
  BY <1>i DEF TypeInv, Srv!FieldsOK
<1> USE DEF LoopSteps, kept, Srv!Msg
<1>1. CASE Srv!Run
  BY <1>i, <1>1 DEF Srv!Run, DoRun, LoopInv
<1>2. CASE Srv!LoopTop
  BY <1>t, <1>2 DEF Srv!LoopTop, DoTop, Srv!IsTerminal
<1>3. CASE Srv!handleHello
  <2>1. CASE Srv!Read("hello_mismatch")
    BY <1>r, <2>1 DEF Reading, Reads
  <2>2. CASE ~Srv!Read("hello_mismatch")
    BY <1>r, <1>3, <2>2 DEF Srv!handleHello, DoHello
  <2>3. QED
    BY <2>1, <2>2
<1>4. CASE Srv!HandleUndecodable
  BY <1>r, <1>4 DEF Srv!HandleUndecodable, Reading, Reads
<1>5. CASE Srv!HandleBadLength
  BY <1>r, <1>5 DEF Srv!HandleBadLength, Reading, Reads
<1>6. CASE Srv!handlePrepare
  <2>1. Reading("prepare")
    BY <1>r, <1>6 DEF Srv!handlePrepare
  <2>2. state = "preparing"
    BY <2>1 DEF Reading, Reads
  <2>3. PICK d \in {"uplink", "downlink"} : in = <<prepareMsg(d)>> /\ Head(in) = prepareMsg(d)
    BY <2>1 DEF Reading, Reads
  <2>4. Head(in).direction = d /\ Head(in).family = TcpFamily
    BY <2>3 DEF prepareMsg
  <2>5. ~Srv!FamilyRejected(Head(in).family)
    BY <2>4 DEF Srv!FamilyRejected
  <2>6. /\ direction' = d /\ family' = TcpFamily /\ state' = "ready"
        /\ \/ pc' = "top" /\ Srv!WriteOk(ready)
           \/ pc' = "returned" /\ Srv!WriteFails
        /\ UNCHANGED <<seen, sock, Srv!worker, peer, ctx>>
    BY <1>6, <2>2, <2>4, <2>5 DEF Srv!handlePrepare, ready
  <2>7. QED
    BY <2>1, <2>3, <2>6 DEF DoPrepare
<1>7. CASE Srv!handleStart
  <2>1. Reading("start")
    BY <1>r, <1>7 DEF Srv!handleStart
  <2>2. QED
    BY <1>7, <2>1 DEF Srv!handleStart, DoStart, Reading, Reads
<1>8. CASE Srv!handleSendComplete
  <2>1. Reading("send_complete")
    BY <1>r, <1>8 DEF Srv!handleSendComplete
  <2>2. state = "running" /\ direction = "uplink"
    BY <2>1 DEF Reading, Reads
  <2>3. QED
    BY <1>8, <2>1, <2>2 DEF Srv!handleSendComplete, Srv!StopAndWait, DoStop
<1>9. CASE Srv!AwaitReceiver
  BY <1>9 DEF Srv!AwaitReceiver, DoAwait
<1>10. CASE Srv!Collect
  <2>1. state = "running"
    BY <1>i, <1>10 DEF Srv!Collect, LoopInv
  <2>2. Srv!CanTransition(state, "collecting")
    BY <2>1 DEF Srv!CanTransition, Srv!transitions, Srv!SessionState
  <2>3. QED
    BY <1>10, <2>2 DEF Srv!Collect, DoCollect
<1>11. CASE Srv!handleFetchResult
  <2>1. Reading("fetch_result")
    BY <1>r, <1>11 DEF Srv!handleFetchResult
  <2>2. state = "collecting"
    BY <2>1 DEF Reading, Reads
  <2>3. QED
    BY <1>11, <2>1, <2>2 DEF Srv!handleFetchResult, DoFetch
<1>12. CASE Srv!CloseAfterResult
  BY <1>12 DEF Srv!CloseAfterResult, DoCloseConn
<1>13. CASE Srv!HandleCancelRequest
  BY <1>r, <1>13 DEF Srv!HandleCancelRequest, Reading, Reads
<1>14. CASE Srv!CancelAssign
  BY <1>i, <1>14 DEF Srv!CancelAssign, LoopInv
<1>15. CASE Srv!ReadTimeout
  BY <1>15 DEF Srv!ReadTimeout, DoTimeout
<1>16. CASE Srv!TimeoutAssign
  BY <1>i, <1>16 DEF Srv!TimeoutAssign, Srv!AfterTimeout, DoAssign, LoopInv
<1>17. CASE Srv!ReadError
  BY <1>17 DEF Srv!ReadError, Srv!Abort, DoError, internalError
<1>18. CASE Srv!cleanupNoStateChange
  BY <1>18 DEF Srv!cleanupNoStateChange, Srv!CloseReceiver, DoCleanup
<1>19. CASE Srv!Finish
  BY <1>19 DEF Srv!Finish, DoFinish
<1>20. QED
  BY <1>1, <1>2, <1>3, <1>4, <1>5, <1>6, <1>7, <1>8, <1>9, <1>10, <1>11, <1>12,
     <1>13, <1>14, <1>15, <1>16, <1>17, <1>18, <1>19 DEF Srv!Loop

-----------------------------------------------------------------------------
(***************************************************************************)
(* The steps outside of the session's goroutines.                           *)
(***************************************************************************)
Outside ==
    \/ ClientStep \/ ClientReceive \/ ReceiveTimesOut \/ LeftoverStep
    \/ Drop \/ Duplicate \/ ResetByPeer \/ Terminated \/ UNCHANGED vars

fields == <<state, pc, seen, direction, family, sock, receiver, rsock, quitCh,
            receiverDone, w, tx, rx, sentCount, receivedCount, ctx, srun, sown, hasty>>

(* They leave the session's fields alone; of its responses they take one. *)
LEMMA OutsideFrame ==
    ASSUME Outside
    PROVE  UNCHANGED fields /\ (out' = out \/ (out # <<>> /\ out' = Tail(out)))
<1> USE DEF fields
<1>1. CASE Plan \/ Dial \/ ConnectFails \/ Rejected \/ OpenReceiver \/ SpawnReceiver
  BY <1>1 DEF Plan, Dial, ConnectFails, Rejected, OpenReceiver, SpawnReceiver
<1>2. CASE SendProbe \/ CountMatched \/ Finish \/ ClientReceive \/ ReceiveTimesOut
  BY <1>2 DEF SendProbe, CountMatched, Finish, ClientReceive, ReceiveTimesOut
<1>3. CASE Hello \/ Prepare \/ Start \/ SendComplete \/ FetchResult
  BY <1>3 DEF Hello, Prepare, Start, SendComplete, FetchResult, Writes
<1>4. CASE AwaitReady \/ AwaitSendComplete \/ AwaitResult
  BY <1>4 DEF AwaitReady, AwaitSendComplete, AwaitResult, Receives, Recv
<1>5. CASE Close
  BY <1>5 DEF Close
<1>6. CASE LeftoverStep \/ Drop \/ Duplicate \/ ResetByPeer \/ Terminated \/ UNCHANGED vars
  BY <1>6 DEF LeftoverStep, Drop, Duplicate, ResetByPeer, Terminated
<1>7. QED
  BY <1>1, <1>2, <1>3, <1>4, <1>5, <1>6 DEF Outside, ClientStep

(* Every step is one of the session or of the rest. *)
LEMMA Steps ==
    ASSUME [Next]_vars
    PROVE  \/ Outside \/ Accept \/ SessionLoop \/ SessionBinds \/ SessionReceives
           \/ SessionSends \/ SessionWorker \/ SocketFails
BY DEF Next, ServerStep, Outside

-----------------------------------------------------------------------------
(***************************************************************************)
(* The session's part of the invariant: worker, loop, and what the one has  *)
(* done when the other has gone on.                                         *)
(***************************************************************************)


(* The worker's part. *)
LEMMA WorkerStep ==
    ASSUME Inv, [Next]_vars
    PROVE  WorkerInv'
<1>i. TypeInv /\ LoopInv /\ WorkerInv
  BY DEF Inv
<1> USE <1>i DEF WorkerInv, Binding, Uplinking, Downlinking, PastRunning
<1>1. CASE Outside
  BY <1>1, OutsideFrame DEF fields
<1>2. CASE Accept
  BY <1>2 DEF Accept
<1>3. CASE SessionLoop
  <2>0. /\ LoopSteps
        /\ hasty' = (hasty \/ (w = "spawned" /\ direction # "downlink" /\ pc # "top"))
    BY <1>3, LoopTakes DEF SessionLoop
  <2>u. UNCHANGED <<srun, sown, leftover, client, network>>
    BY <1>3 DEF SessionLoop
  <2>1. CASE DoRun
    BY <2>0, <2>u, <2>1 DEF DoRun, kept
  <2>2. CASE DoTop
    BY <2>0, <2>u, <2>2 DEF DoTop, kept, LoopInv
  <2>3. CASE DoHello
    BY <2>0, <2>u, <2>3 DEF DoHello, kept, Reading, Reads
  <2>4. CASE DoPrepare
    BY <2>0, <2>u, <2>4 DEF DoPrepare, kept, Reading, Reads
  <2>5. CASE DoStart
    BY <2>0, <2>u, <2>5 DEF DoStart, kept, Reading, Reads
  <2>6. CASE DoStop
    BY <2>0, <2>u, <2>6 DEF DoStop, kept, Reading, Reads
  <2>7. CASE DoAwait
    BY <2>0, <2>u, <2>7 DEF DoAwait, kept
  <2>8. CASE DoCollect
    BY <2>0, <2>u, <2>8 DEF DoCollect, kept, LoopInv
  <2>9. CASE DoFetch
    BY <2>0, <2>u, <2>9 DEF DoFetch, kept, Reading, Reads
  <2>10. CASE DoCloseConn
    BY <2>0, <2>u, <2>10 DEF DoCloseConn, kept
  <2>11. CASE DoTimeout
    BY <2>0, <2>u, <2>11 DEF DoTimeout, kept
  <2>12. CASE DoAssign
    BY <2>0, <2>u, <2>12 DEF DoAssign, kept, LoopInv
  <2>13. CASE DoError
    BY <2>0, <2>u, <2>13 DEF DoError, kept
  <2>14. CASE DoCleanup
    BY <2>0, <2>u, <2>14 DEF DoCleanup, kept
  <2>15. CASE DoFinish
    BY <2>0, <2>u, <2>15 DEF DoFinish, kept
  <2>16. QED
    BY <2>0, <2>1, <2>2, <2>3, <2>4, <2>5, <2>6, <2>7, <2>8, <2>9, <2>10, <2>11,
       <2>12, <2>13, <2>14, <2>15 DEF LoopSteps
<1>4. CASE SessionBinds
  <2>1. Srv!BindReceiver /\ UNCHANGED hasty
    BY <1>4 DEF SessionBinds
  <2>2. QED
    BY <2>1 DEF Srv!BindReceiver, TypeInv, Srv!FieldsOK, Srv!Direction
<1>5. CASE SessionReceives
  BY <1>5 DEF SessionReceives, Srv!ReceiveDatagram, TypeInv, Srv!FieldsOK
<1>6. CASE SessionSends
  BY <1>6 DEF SessionSends, Srv!SendPacket
<1>7. CASE SessionWorker
  <2>u. UNCHANGED <<srun, sown, hasty, leftover, client, network>>
    BY <1>7 DEF SessionWorker
  <2>1. CASE Srv!BindFailed
    BY <2>u, <2>1 DEF Srv!BindFailed
  <2>2. CASE Srv!ReceiveReturns
    BY <2>u, <2>2 DEF Srv!ReceiveReturns
  <2>3. CASE Srv!CloseUDP
    BY <2>u, <2>3 DEF Srv!CloseUDP
  <2>4. CASE Srv!CountReceived
    BY <2>u, <2>4 DEF Srv!CountReceived, Srv!Received, Srv!Received, TypeInv,
       Srv!FieldsOK
  <2>5. CASE Srv!SignalDone
    BY <2>u, <2>5 DEF Srv!SignalDone
  <2>6. CASE Srv!NewSender
    BY <2>u, <2>6 DEF Srv!NewSender, Srv!SenderFails
  <2>7. CASE Srv!SendFails
    BY <2>u, <2>7 DEF Srv!SendFails, Srv!SenderFails
  <2>8. CASE Srv!SendReturns
    BY <2>u, <2>8 DEF Srv!SendReturns
  <2>9. CASE Srv!SenderCollects
    BY <2>u, <2>9 DEF Srv!SenderCollects, Srv!SenderFails, Srv!CanTransition,
       TypeInv, Srv!FieldsOK
  <2>10. CASE Srv!NotifySendComplete
    BY <2>u, <2>10 DEF Srv!NotifySendComplete
  <2>11. QED
    BY <1>7, <2>1, <2>2, <2>3, <2>4, <2>5, <2>6, <2>7, <2>8, <2>9, <2>10 DEF
       SessionWorker
<1>8. CASE SocketFails
  BY <1>8 DEF SocketFails, Srv!ReceiveFails
<1>9. QED
  BY <1>1, <1>2, <1>3, <1>4, <1>5, <1>6, <1>7, <1>8, Steps

(* The loop's. *)
LEMMA LoopStep ==
    ASSUME Inv, [Next]_vars
    PROVE  LoopInv'
<1>i. TypeInv /\ LoopInv /\ WorkerInv
  BY DEF Inv
<1> USE <1>i DEF LoopInv
<1>1. CASE Outside
  BY <1>1, OutsideFrame DEF fields
<1>2. CASE Accept
  BY <1>2 DEF Accept
<1>3. CASE SessionLoop
  <2>0. /\ LoopSteps
        /\ hasty' = (hasty \/ (w = "spawned" /\ direction # "downlink" /\ pc # "top"))
    BY <1>3, LoopTakes DEF SessionLoop
  <2>u. UNCHANGED <<srun, sown, leftover, client, network>>
    BY <1>3 DEF SessionLoop
  <2>1. CASE DoRun
    BY <2>0, <2>u, <2>1 DEF DoRun, kept
  <2>2. CASE DoTop
    BY <2>0, <2>u, <2>2 DEF DoTop, kept
  <2>3. CASE DoHello
    BY <2>0, <2>u, <2>3 DEF DoHello, kept, Reading, Reads
  <2>4. CASE DoPrepare
    BY <2>0, <2>u, <2>4 DEF DoPrepare, kept, Reading, Reads
  <2>5. CASE DoStart
    BY <2>0, <2>u, <2>5 DEF DoStart, kept, Reading, Reads
  <2>6. CASE DoStop
    BY <2>0, <2>u, <2>6 DEF DoStop, kept, Reading, Reads
  <2>7. CASE DoAwait
    BY <2>0, <2>u, <2>7 DEF DoAwait, kept
  <2>8. CASE DoCollect
    BY <2>0, <2>u, <2>8 DEF DoCollect, kept
  <2>9. CASE DoFetch
    BY <2>0, <2>u, <2>9 DEF DoFetch, kept, Reading, Reads
  <2>10. CASE DoCloseConn
    BY <2>0, <2>u, <2>10 DEF DoCloseConn, kept
  <2>11. CASE DoTimeout
    BY <2>0, <2>u, <2>11 DEF DoTimeout, kept
  <2>12. CASE DoAssign
    BY <2>0, <2>u, <2>12 DEF DoAssign, kept
  <2>13. CASE DoError
    BY <2>0, <2>u, <2>13 DEF DoError, kept
  <2>14. CASE DoCleanup
    BY <2>0, <2>u, <2>14 DEF DoCleanup, kept
  <2>15. CASE DoFinish
    BY <2>0, <2>u, <2>15 DEF DoFinish, kept
  <2>16. QED
    BY <2>0, <2>1, <2>2, <2>3, <2>4, <2>5, <2>6, <2>7, <2>8, <2>9, <2>10, <2>11,
       <2>12, <2>13, <2>14, <2>15 DEF LoopSteps
<1>4. CASE SessionBinds
  BY <1>4 DEF SessionBinds, Srv!BindReceiver
<1>5. CASE SessionReceives
  BY <1>5 DEF SessionReceives, Srv!ReceiveDatagram
<1>6. CASE SessionSends
  BY <1>6 DEF SessionSends, Srv!SendPacket
<1>7. CASE SessionWorker
  <2>u. UNCHANGED <<srun, sown, hasty, leftover, client, network>>
    BY <1>7 DEF SessionWorker
  <2>1. CASE Srv!BindFailed
    BY <2>u, <2>1 DEF Srv!BindFailed
  <2>2. CASE Srv!ReceiveReturns
    BY <2>u, <2>2 DEF Srv!ReceiveReturns
  <2>3. CASE Srv!CloseUDP
    BY <2>u, <2>3 DEF Srv!CloseUDP
  <2>4. CASE Srv!CountReceived
    BY <2>u, <2>4 DEF Srv!CountReceived, Srv!Received
  <2>5. CASE Srv!SignalDone
    BY <2>u, <2>5 DEF Srv!SignalDone
  <2>6. CASE Srv!NewSender
    BY <2>u, <2>6 DEF Srv!NewSender, Srv!SenderFails
  <2>7. CASE Srv!SendFails
    BY <2>u, <2>7 DEF Srv!SendFails, Srv!SenderFails
  <2>8. CASE Srv!SendReturns
    BY <2>u, <2>8 DEF Srv!SendReturns
  <2>9. CASE Srv!SenderCollects
    BY <2>u, <2>9 DEF Srv!SenderCollects, Srv!SenderFails, Srv!CanTransition,
       Srv!transitions, Srv!SessionState, TypeInv, Srv!FieldsOK, WorkerInv,
       Downlinking
  <2>10. CASE Srv!NotifySendComplete
    BY <2>u, <2>10 DEF Srv!NotifySendComplete
  <2>11. QED
    BY <1>7, <2>1, <2>2, <2>3, <2>4, <2>5, <2>6, <2>7, <2>8, <2>9, <2>10 DEF
       SessionWorker
<1>8. CASE SocketFails
  BY <1>8 DEF SocketFails, Srv!ReceiveFails
<1>9. QED
  BY <1>1, <1>2, <1>3, <1>4, <1>5, <1>6, <1>7, <1>8, Steps

(* What an uplink session has behind it when it has gone on. *)
LEMMA StopStep ==
    ASSUME Inv, [Next]_vars
    PROVE  StopInv'
<1>i. TypeInv /\ LoopInv /\ WorkerInv /\ StopInv
  BY DEF Inv
<1> USE <1>i DEF StopInv, WorkerInv, Binding, Uplinking, Downlinking, PastRunning
<1>1. CASE Outside
  BY <1>1, OutsideFrame DEF fields
<1>2. CASE Accept
  BY <1>2 DEF Accept
<1>3. CASE SessionLoop
  <2>0. /\ LoopSteps
        /\ hasty' = (hasty \/ (w = "spawned" /\ direction # "downlink" /\ pc # "top"))
    BY <1>3, LoopTakes DEF SessionLoop
  <2>u. UNCHANGED <<srun, sown, leftover, client, network>>
    BY <1>3 DEF SessionLoop
  <2>1. CASE DoRun
    BY <2>0, <2>u, <2>1 DEF DoRun, kept
  <2>2. CASE DoTop
    BY <2>0, <2>u, <2>2 DEF DoTop, kept
  <2>3. CASE DoHello
    BY <2>0, <2>u, <2>3 DEF DoHello, kept, Reading, Reads
  <2>4. CASE DoPrepare
    BY <2>0, <2>u, <2>4 DEF DoPrepare, kept, Reading, Reads
  <2>5. CASE DoStart
    BY <2>0, <2>u, <2>5 DEF DoStart, kept, Reading, Reads
  <2>6. CASE DoStop
    BY <2>0, <2>u, <2>6 DEF DoStop, kept, Reading, Reads, TypeInv, Srv!FieldsOK,
       Srv!WorkerPCs
  <2>7. CASE DoAwait
    BY <2>0, <2>u, <2>7 DEF DoAwait, kept, TypeInv, Srv!FieldsOK, Srv!WorkerPCs
  <2>8. CASE DoCollect
    BY <2>0, <2>u, <2>8 DEF DoCollect, kept
  <2>9. CASE DoFetch
    BY <2>0, <2>u, <2>9 DEF DoFetch, kept, Reading, Reads
  <2>10. CASE DoCloseConn
    BY <2>0, <2>u, <2>10 DEF DoCloseConn, kept
  <2>11. CASE DoTimeout
    BY <2>0, <2>u, <2>11 DEF DoTimeout, kept
  <2>12. CASE DoAssign
    BY <2>0, <2>u, <2>12 DEF DoAssign, kept
  <2>13. CASE DoError
    BY <2>0, <2>u, <2>13 DEF DoError, kept
  <2>14. CASE DoCleanup
    BY <2>0, <2>u, <2>14 DEF DoCleanup, kept
  <2>15. CASE DoFinish
    BY <2>0, <2>u, <2>15 DEF DoFinish, kept
  <2>16. QED
    BY <2>0, <2>1, <2>2, <2>3, <2>4, <2>5, <2>6, <2>7, <2>8, <2>9, <2>10, <2>11,
       <2>12, <2>13, <2>14, <2>15 DEF LoopSteps
<1>4. CASE SessionBinds
  BY <1>4 DEF SessionBinds, Srv!BindReceiver
<1>5. CASE SessionReceives
  BY <1>5 DEF SessionReceives, Srv!ReceiveDatagram
<1>6. CASE SessionSends
  BY <1>6 DEF SessionSends, Srv!SendPacket
<1>7. CASE SessionWorker
  <2>u. UNCHANGED <<srun, sown, hasty, leftover, client, network>>
    BY <1>7 DEF SessionWorker
  <2>1. CASE Srv!BindFailed
    BY <2>u, <2>1 DEF Srv!BindFailed
  <2>2. CASE Srv!ReceiveReturns
    BY <2>u, <2>2 DEF Srv!ReceiveReturns
  <2>3. CASE Srv!CloseUDP
    BY <2>u, <2>3 DEF Srv!CloseUDP
  <2>4. CASE Srv!CountReceived
    BY <2>u, <2>4 DEF Srv!CountReceived, Srv!Received
  <2>5. CASE Srv!SignalDone
    BY <2>u, <2>5 DEF Srv!SignalDone
  <2>6. CASE Srv!NewSender
    BY <2>u, <2>6 DEF Srv!NewSender, Srv!SenderFails
  <2>7. CASE Srv!SendFails
    BY <2>u, <2>7 DEF Srv!SendFails, Srv!SenderFails
  <2>8. CASE Srv!SendReturns
    BY <2>u, <2>8 DEF Srv!SendReturns
  <2>9. CASE Srv!SenderCollects
    BY <2>u, <2>9 DEF Srv!SenderCollects, Srv!SenderFails
  <2>10. CASE Srv!NotifySendComplete
    BY <2>u, <2>10 DEF Srv!NotifySendComplete
  <2>11. QED
    BY <1>7, <2>1, <2>2, <2>3, <2>4, <2>5, <2>6, <2>7, <2>8, <2>9, <2>10 DEF
       SessionWorker
<1>8. CASE SocketFails
  BY <1>8 DEF SocketFails, Srv!ReceiveFails
<1>9. QED
  BY <1>1, <1>2, <1>3, <1>4, <1>5, <1>6, <1>7, <1>8, Steps

(* Its receiver can still be stopped. *)
LEMMA PortStep ==
    ASSUME Inv, [Next]_vars
    PROVE  PortInv'
<1>i. TypeInv /\ LoopInv /\ WorkerInv /\ StopInv /\ PortInv /\ QuietInv
  BY DEF Inv
<1> USE <1>i DEF PortInv, WorkerInv, Binding, Uplinking, Downlinking, PastRunning
<1>1. CASE Outside
  BY <1>1, OutsideFrame DEF fields
<1>2. CASE Accept
  BY <1>2 DEF Accept
<1>3. CASE SessionLoop
  <2>0. /\ LoopSteps
        /\ hasty' = (hasty \/ (w = "spawned" /\ direction # "downlink" /\ pc # "top"))
    BY <1>3, LoopTakes DEF SessionLoop
  <2>u. UNCHANGED <<srun, sown, leftover, client, network>>
    BY <1>3 DEF SessionLoop
  <2>1. CASE DoRun
    BY <2>0, <2>u, <2>1 DEF DoRun, kept
  <2>2. CASE DoTop
    BY <2>0, <2>u, <2>2 DEF DoTop, kept
  <2>3. CASE DoHello
    BY <2>0, <2>u, <2>3 DEF DoHello, kept, Reading, Reads
  <2>4. CASE DoPrepare
    BY <2>0, <2>u, <2>4 DEF DoPrepare, kept, Reading, Reads
  <2>5. CASE DoStart
    BY <2>0, <2>u, <2>5 DEF DoStart, kept, Reading, Reads
  <2>6. CASE DoStop
    BY <2>0, <2>u, <2>6 DEF DoStop, kept, Reading, Reads, TypeInv, Srv!FieldsOK
  <2>7. CASE DoAwait
    BY <2>0, <2>u, <2>7 DEF DoAwait, kept
  <2>8. CASE DoCollect
    BY <2>0, <2>u, <2>8 DEF DoCollect, kept
  <2>9. CASE DoFetch
    BY <2>0, <2>u, <2>9 DEF DoFetch, kept, Reading, Reads
  <2>10. CASE DoCloseConn
    BY <2>0, <2>u, <2>10 DEF DoCloseConn, kept
  <2>11. CASE DoTimeout
    BY <2>0, <2>u, <2>11 DEF DoTimeout, kept
  <2>12. CASE DoAssign
    BY <2>0, <2>u, <2>12 DEF DoAssign, kept
  <2>13. CASE DoError
    BY <2>0, <2>u, <2>13 DEF DoError, kept, QuietInv, Alive
  <2>14. CASE DoCleanup
    BY <2>0, <2>u, <2>14 DEF DoCleanup, kept
  <2>15. CASE DoFinish
    BY <2>0, <2>u, <2>15 DEF DoFinish, kept
  <2>16. QED
    BY <2>0, <2>1, <2>2, <2>3, <2>4, <2>5, <2>6, <2>7, <2>8, <2>9, <2>10, <2>11,
       <2>12, <2>13, <2>14, <2>15 DEF LoopSteps
<1>4. CASE SessionBinds
  BY <1>4 DEF SessionBinds, Srv!BindReceiver
<1>5. CASE SessionReceives
  BY <1>5 DEF SessionReceives, Srv!ReceiveDatagram
<1>6. CASE SessionSends
  BY <1>6 DEF SessionSends, Srv!SendPacket
<1>7. CASE SessionWorker
  <2>u. UNCHANGED <<srun, sown, hasty, leftover, client, network>>
    BY <1>7 DEF SessionWorker
  <2>1. CASE Srv!BindFailed
    BY <2>u, <2>1 DEF Srv!BindFailed
  <2>2. CASE Srv!ReceiveReturns
    BY <2>u, <2>2 DEF Srv!ReceiveReturns
  <2>3. CASE Srv!CloseUDP
    BY <2>u, <2>3 DEF Srv!CloseUDP
  <2>4. CASE Srv!CountReceived
    BY <2>u, <2>4 DEF Srv!CountReceived, Srv!Received
  <2>5. CASE Srv!SignalDone
    BY <2>u, <2>5 DEF Srv!SignalDone
  <2>6. CASE Srv!NewSender
    BY <2>u, <2>6 DEF Srv!NewSender, Srv!SenderFails
  <2>7. CASE Srv!SendFails
    BY <2>u, <2>7 DEF Srv!SendFails, Srv!SenderFails
  <2>8. CASE Srv!SendReturns
    BY <2>u, <2>8 DEF Srv!SendReturns
  <2>9. CASE Srv!SenderCollects
    BY <2>u, <2>9 DEF Srv!SenderCollects, Srv!SenderFails
  <2>10. CASE Srv!NotifySendComplete
    BY <2>u, <2>10 DEF Srv!NotifySendComplete
  <2>11. QED
    BY <1>7, <2>1, <2>2, <2>3, <2>4, <2>5, <2>6, <2>7, <2>8, <2>9, <2>10 DEF
       SessionWorker
<1>8. CASE SocketFails
  BY <1>8 DEF SocketFails, Srv!ReceiveFails
<1>9. QED
  BY <1>1, <1>2, <1>3, <1>4, <1>5, <1>6, <1>7, <1>8, Steps

-----------------------------------------------------------------------------
(***************************************************************************)
(* The client's side of the connection.                                     *)
(***************************************************************************)

(* It writes a request, or takes a response of the type it waits for. *)
Wrote(c, m, n) ==
    /\ cpc = c /\ cpc' = n /\ out' = out
    /\ in' = IF sock = "open" THEN Append(in, m) ELSE in

Took(c, t, n) ==
    /\ cpc = c /\ cpc' = n /\ in' = in
    /\ out # <<>> /\ Head(out).type = t /\ out' = Tail(out)

(* The steps of a client that keeps its connection. *)
Talks ==
    /\ link = "session" /\ link' = "session" /\ UNCHANGED <<dir, peer>>
    /\ \/ cpc' = "close" /\ in' = in
       \/ cpc' = cpc /\ in' = in /\ out' = out
       \/ cpc = "count" /\ cpc' = "fetch" /\ in' = in /\ out' = out
       \/ Wrote("hello", helloMsg, "prepare")
       \/ Wrote("prepare", prepareMsg(dir), "ready")
       \/ Wrote("start", startMsg, IF dir = "uplink" THEN "send" ELSE "complete")
       \/ Wrote("send", completeMsg, "fetch")
       \/ Wrote("fetch", fetchMsg, "result")
       \/ Took("ready", "ready", "start")
       \/ Took("complete", "send_complete", "count")

(* The steps that find the client without one, or take it from it. *)
Leaves ==
    /\ link' # "session" /\ in' \in {in, <<>>} /\ out' = out
    /\ peer' = "reset" => peer = "reset" \/ out # <<>>

(* There are no others. *)
LEMMA OutsideTakes ==
    ASSUME Inv, Outside
    PROVE  Talks \/ Leaves
<1>i. LinkInv
  BY DEF Inv
<1> USE <1>i
<1>1. CASE Plan \/ Dial \/ ConnectFails \/ Rejected \/ Finish
  <2>1. UNCHANGED <<in, out, peer>>
    BY <1>1 DEF Plan, Dial, ConnectFails, Rejected, Finish
  <2>2. link' # "session"
    BY <1>1 DEF Plan, Dial, ConnectFails, Rejected, Finish, GoOn, Fail, LinkInv, Apart
  <2>3. QED
    BY <2>1, <2>2 DEF Leaves
<1>2. CASE OpenReceiver \/ SpawnReceiver \/ SendProbe \/ CountMatched
  <2>1. link = "session"
    BY <1>2 DEF OpenReceiver, SpawnReceiver, SendProbe, CountMatched, LinkInv, Served
  <2>2. UNCHANGED <<in, out, peer, link, dir>>
    BY <1>2 DEF OpenReceiver, SpawnReceiver, SendProbe, CountMatched, Fail
  <2>3. cpc' \in {cpc, "close"} \/ (cpc = "count" /\ cpc' = "fetch")
    BY <1>2 DEF OpenReceiver, SpawnReceiver, SendProbe, CountMatched, Fail
  <2>4. QED
    BY <2>1, <2>2, <2>3 DEF Talks
<1>3. CASE Hello
  <2>1. link = "session" /\ UNCHANGED <<out, peer, link, dir>>
    BY <1>3 DEF Hello, Writes, Write, Fail, GoOn
  <2>2. Wrote("hello", helloMsg, "prepare") \/ (cpc' = "close" /\ in' = in)
    BY <1>3 DEF Hello, Writes, Write, Fail, GoOn, Wrote, Msg, helloMsg
  <2>3. QED
    BY <2>1, <2>2 DEF Talks
<1>4. CASE Prepare
  <2>1. link = "session" /\ UNCHANGED <<out, peer, link, dir>>
    BY <1>4 DEF Prepare, Writes, Write, Fail, GoOn, LinkInv, Served
  <2>2. Wrote("prepare", prepareMsg(dir), "ready") \/ (cpc' = "close" /\ in' = in)
    BY <1>4 DEF Prepare, Writes, Write, Fail, GoOn, Wrote, prepareMsg
  <2>3. QED
    BY <2>1, <2>2 DEF Talks
<1>5. CASE Start
  <2>1. link = "session" /\ UNCHANGED <<out, peer, link, dir>>
    BY <1>5 DEF Start, Writes, Write, Fail, GoOn, LinkInv, Served
  <2>2. \/ Wrote("start", startMsg, IF dir = "uplink" THEN "send" ELSE "complete")
        \/ cpc' = "close" /\ in' = in
    BY <1>5 DEF Start, Writes, Write, Fail, GoOn, Wrote, Msg, startMsg
  <2>3. QED
    BY <2>1, <2>2 DEF Talks
<1>6. CASE SendComplete
  <2>1. link = "session" /\ UNCHANGED <<out, peer, link, dir>>
    BY <1>6 DEF SendComplete, Writes, Write, Fail, GoOn, LinkInv, Served
  <2>2. Wrote("send", completeMsg, "fetch") \/ (cpc' = "close" /\ in' = in)
    BY <1>6 DEF SendComplete, Writes, Write, Fail, GoOn, Wrote, Msg, completeMsg
  <2>3. QED
    BY <2>1, <2>2 DEF Talks
<1>7. CASE FetchResult
  <2>1. link = "session" /\ UNCHANGED <<out, peer, link, dir>>
    BY <1>7 DEF FetchResult, Writes, Write, Fail, GoOn, LinkInv, Served
  <2>2. Wrote("fetch", fetchMsg, "result") \/ (cpc' = "close" /\ in' = in)
    BY <1>7 DEF FetchResult, Writes, Write, Fail, GoOn, Wrote, Msg, fetchMsg
  <2>3. QED
    BY <2>1, <2>2 DEF Talks
<1>8. CASE AwaitReady
  <2>1. link = "session" /\ UNCHANGED <<in, peer, link, dir>>
    BY <1>8 DEF AwaitReady, Receives, Recv, Fail, GoOn, LinkInv, Served
  <2>2. Took("ready", "ready", "start") \/ cpc' = "close"
    BY <1>8 DEF AwaitReady, Receives, Recv, Fail, GoOn, Took
  <2>3. QED
    BY <2>1, <2>2 DEF Talks
<1>9. CASE AwaitSendComplete
  <2>1. link = "session" /\ UNCHANGED <<in, peer, link, dir>>
    BY <1>9 DEF AwaitSendComplete, Receives, Recv, Fail, GoOn, LinkInv, Served
  <2>2. Took("complete", "send_complete", "count") \/ cpc' = "close"
    BY <1>9 DEF AwaitSendComplete, Receives, Recv, Fail, GoOn, Took
  <2>3. QED
    BY <2>1, <2>2 DEF Talks
<1>10. CASE AwaitResult
  <2>1. link = "session" /\ UNCHANGED <<in, peer, link, dir>> /\ cpc' = "close"
    BY <1>10 DEF AwaitResult, Receives, Recv, Fail, Succeed, LinkInv, Served
  <2>2. QED
    BY <2>1 DEF Talks
<1>11. CASE Close
  <2>1. link' # "session" /\ out' = out /\ in' \in {in, <<>>}
    <3>1. CASE link = "session" /\ out = <<>>
      BY <1>11, <3>1 DEF Close
    <3>2. CASE link = "session" /\ out # <<>>
      BY <1>11, <3>2 DEF Close
    <3>3. CASE link # "session"
      BY <1>11, <3>3 DEF Close
    <3>4. QED
      BY <3>1, <3>2, <3>3
  <2>2. peer' = "reset" => peer = "reset" \/ out # <<>>
    <3>1. CASE link = "session" /\ out = <<>>
      BY <1>11, <3>1 DEF Close
    <3>2. CASE link # "session"
      BY <1>11, <3>2 DEF Close
    <3>3. QED
      BY <3>1, <3>2
  <2>3. QED
    BY <2>1, <2>2 DEF Leaves
<1>12. CASE ResetByPeer
  BY <1>12 DEF ResetByPeer, LinkInv, Leaves
<1>13. CASE \/ ClientReceive \/ ReceiveTimesOut \/ LeftoverStep \/ Drop \/ Duplicate
            \/ Terminated \/ UNCHANGED vars
  <2>1. UNCHANGED <<cpc, link, dir, in, out, peer>>
    BY <1>13 DEF ClientReceive, ReceiveTimesOut, LeftoverStep, Drop, Duplicate, Terminated
  <2>2. QED
    BY <2>1 DEF Talks, Leaves
<1>14. QED
  BY <1>1, <1>2, <1>3, <1>4, <1>5, <1>6, <1>7, <1>8, <1>9, <1>10, <1>11, <1>12,
     <1>13 DEF Outside, ClientStep

(* A second message of a queue. *)
LEMMA AppendSecond ==
    ASSUME NEW a, NEW b
    PROVE  Append(<<a>>, b) = <<a, b>>
<1>0. PICK T : a \in T /\ b \in T
  <2>1. a \in {a, b} /\ b \in {a, b}
    OBVIOUS
  <2>2. QED
    BY <2>1
<1>1. PICK q \in Seq(T) : q = <<a>> /\ Len(q) = 1 /\ q[1] = a
  <2>1. <<a>> \in Seq(T)
    BY <1>0
  <2>2. Len(<<a>>) = 1 /\ <<a>>[1] = a
    OBVIOUS
  <2>3. QED
    BY <2>1, <2>2
<1>2. Append(q, b) \in Seq(T) /\ Len(Append(q, b)) = 2
  BY <1>0, <1>1
<1>3. Append(q, b)[1] = a /\ Append(q, b)[2] = b
  BY <1>0, <1>1
<1>4. \A s \in Seq(T) : Len(s) = 2 => s = <<s[1], s[2]>>
  OBVIOUS
<1>5. QED
  BY <1>1, <1>2, <1>3, <1>4

(* A third one. *)
LEMMA AppendThird ==
    ASSUME NEW a, NEW b, NEW c
    PROVE  Append(<<a, b>>, c) = <<a, b, c>>
<1>0. PICK T : a \in T /\ b \in T /\ c \in T
  <2>1. a \in {a, b, c} /\ b \in {a, b, c} /\ c \in {a, b, c}
    OBVIOUS
  <2>2. QED
    BY <2>1
<1>1. PICK q \in Seq(T) : q = <<a, b>> /\ Len(q) = 2 /\ q[1] = a /\ q[2] = b
  <2>1. <<a, b>> \in Seq(T)
    BY <1>0
  <2>2. Len(<<a, b>>) = 2 /\ <<a, b>>[1] = a /\ <<a, b>>[2] = b
    OBVIOUS
  <2>3. QED
    BY <2>1, <2>2
<1>2. Append(q, c) \in Seq(T) /\ Len(Append(q, c)) = 3
  BY <1>0, <1>1
<1>3. Append(q, c)[1] = a /\ Append(q, c)[2] = b /\ Append(q, c)[3] = c
  BY <1>0, <1>1
<1>4. \A s \in Seq(T) : Len(s) = 3 => s = <<s[1], s[2], s[3]>>
  OBVIOUS
<1>5. QED
  BY <1>1, <1>2, <1>3, <1>4

(* The queues a request is added to. *)
LEMMA Writings ==
    /\ \A d : /\ Append(<<>>, d) = <<d>>
             /\ Append(<<helloMsg>>, d) = <<helloMsg, d>>
    /\ Append(<<startMsg>>, completeMsg) = <<startMsg, completeMsg>>
    /\ Append(<<completeMsg>>, fetchMsg) = <<completeMsg, fetchMsg>>
    /\ Append(<<startMsg, completeMsg>>, fetchMsg) = <<startMsg, completeMsg, fetchMsg>>
BY AppendSecond, AppendThird

(* The queues with a start request are those that begin with it. *)
LEMMA Begins ==
    ASSUME NEW d
    PROVE  /\ <<>> \notin Starting /\ <<helloMsg>> \notin Starting
           /\ <<prepareMsg(d)>> \notin Starting
           /\ <<helloMsg, prepareMsg(d)>> \notin Starting
           /\ <<completeMsg>> \notin Starting /\ <<completeMsg, fetchMsg>> \notin Starting
           /\ <<fetchMsg>> \notin Starting
BY DEF Starting, helloMsg, prepareMsg, startMsg, completeMsg, fetchMsg

-----------------------------------------------------------------------------
(***************************************************************************)
(* The responses.                                                           *)
(***************************************************************************)

(* What the session writes. *)
LEMMA ResponsesTyped ==
    /\ ready \in Srv!Response /\ internalError \in Srv!Response
    /\ Srv!Msg("send_complete") \in Srv!Response
    /\ Srv!Msg("internal_error") = internalError
    /\ TypeInv => Srv!Result \in Srv!Response
<1>1. TypeInv => Srv!Result \in [type : {"result"}, sent : Nat, received : Nat]
  BY OrchestrationAssumption DEF TypeInv, Srv!FieldsOK, Srv!Result
<1>2. QED
  BY <1>1 DEF ready, internalError, Srv!Msg, Srv!Response

(* Writing adds one message at most, and keeps the types. *)
LEMMA WriteAdds ==
    ASSUME TypeInv, NEW n \in Srv!Response, Srv!Attempt(n)
    PROVE  /\ out' \in Seq(Srv!Response)
           /\ \A m : Pending(m)' => Pending(m) \/ m = n
<1>0. out \in Seq(Srv!Response)
  BY DEF TypeInv
<1>1. CASE Srv!WriteFails
  BY <1>0, <1>1 DEF Srv!WriteFails, Pending
<1>2. CASE Srv!WriteOk(n)
  <2>1. out' = Append(out, n) /\ Len(out') = Len(out) + 1 /\ out' \in Seq(Srv!Response)
    BY <1>0, <1>2 DEF Srv!WriteOk
  <2>2. ASSUME NEW m, Pending(m)'
        PROVE  Pending(m) \/ m = n
    <3>1. PICK i \in 1 .. Len(out') : out'[i] = m
      BY <2>2 DEF Pending
    <3>2. CASE i = Len(out) + 1
      BY <1>0, <2>1, <3>1, <3>2
    <3>3. CASE i # Len(out) + 1
      <4>1. i \in 1 .. Len(out) /\ out[i] = out'[i]
        BY <1>0, <2>1, <3>1, <3>3
      <4>2. QED
        BY <3>1, <4>1 DEF Pending
    <3>4. QED
      BY <3>2, <3>3
  <2>3. QED
    BY <2>1, <2>2
<1>3. QED
  BY <1>1, <1>2 DEF Srv!Attempt

(* Reading takes one off. *)
LEMMA TakeRemoves ==
    ASSUME TypeInv, out # <<>>, out' = Tail(out)
    PROVE  /\ out' \in Seq(Srv!Response)
           /\ \A m : Pending(m)' => Pending(m)
<1>0. out \in Seq(Srv!Response)
  BY DEF TypeInv
<1>1. ASSUME NEW m, Pending(m)'
      PROVE  Pending(m)
  <2>1. PICK i \in 1 .. Len(out') : out'[i] = m
    BY <1>1 DEF Pending
  <2>2. i + 1 \in 1 .. Len(out) /\ out[i + 1] = out'[i]
    BY <1>0, <2>1
  <2>3. QED
    BY <2>1, <2>2 DEF Pending
<1>2. QED
  BY <1>0, <1>1


(* Every response stays true of the session that wrote it. *)
LEMMA OutStep ==
    ASSUME Inv, [Next]_vars
    PROVE  OutInv'
<1>i. TypeInv /\ LoopInv /\ WorkerInv /\ StopInv /\ OutInv
  BY DEF Inv
<1> SUFFICES ASSUME NEW m, Pending(m)' PROVE OutOK(m)'
  BY DEF OutInv
<1>p. Pending(m) => OutOK(m)
  BY <1>i DEF OutInv
<1>s. out' = out => Pending(m)
  BY DEF Pending
<1>a. \A n \in Srv!Response : Srv!Attempt(n) => Pending(m) \/ m = n
  BY <1>i, WriteAdds
<1> USE <1>i DEF OutOK, PastRunning
<1>1. CASE Outside
  <2>1. Pending(m)
    BY <1>s, <1>1, OutsideFrame, TakeRemoves
  <2>2. QED
    BY <1>p, <1>1, <2>1, OutsideFrame DEF fields
<1>2. CASE Accept
  <2>1. CASE pc = "done"
    BY <1>2, <2>1 DEF Accept, Pending
  <2>2. CASE pc # "done"
    BY <1>p, <1>s, <1>2, <2>2 DEF Accept
  <2>3. QED
    BY <2>1, <2>2
<1>3. CASE SessionLoop
  <2>0. /\ LoopSteps
        /\ hasty' = (hasty \/ (w = "spawned" /\ direction # "downlink" /\ pc # "top"))
    BY <1>3, LoopTakes DEF SessionLoop
  <2>u. UNCHANGED <<srun, sown, leftover, client, network>>
    BY <1>3 DEF SessionLoop
  <2>1. CASE DoRun
    BY <2>0, <2>u, <2>1, <1>p, <1>s DEF DoRun, kept
  <2>2. CASE DoTop
    BY <2>0, <2>u, <2>2, <1>p, <1>s DEF DoTop, kept
  <2>3. CASE DoHello
    BY <2>0, <2>u, <2>3, <1>p, <1>s DEF DoHello, kept, Reading, Reads
  <2>4. CASE DoPrepare
    <3>a. Pending(m) \/ m = ready
      BY <1>a, <2>4, ResponsesTyped DEF DoPrepare, Srv!Attempt
    <3>b. state = "preparing" /\ state' = "ready" /\ direction \in {"uplink", "downlink", "both"}
      BY <2>4 DEF DoPrepare, Reading, Reads, TypeInv, Srv!FieldsOK, Srv!Direction
    <3>c. QED
      BY <1>p, <3>a, <3>b DEF ready
  <2>5. CASE DoStart
    BY <2>0, <2>u, <2>5, <1>p, <1>s DEF DoStart, kept, Reading, Reads
  <2>6. CASE DoStop
    BY <2>0, <2>u, <2>6, <1>p, <1>s DEF DoStop, kept, Reading, Reads
  <2>7. CASE DoAwait
    BY <2>0, <2>u, <2>7, <1>p, <1>s DEF DoAwait, kept
  <2>8. CASE DoCollect
    BY <2>0, <2>u, <2>8, <1>p, <1>s DEF DoCollect, kept, LoopInv
  <2>9. CASE DoFetch
    <3>a. Pending(m) \/ m = Srv!Result
      BY <1>a, <2>9, ResponsesTyped DEF DoFetch
    <3>b. /\ state = "collecting" /\ state' = "completed" /\ sock = "open" /\ pc = "reading"
          /\ UNCHANGED <<w, rx, direction>>
      BY <2>9 DEF DoFetch, Reading, Reads, kept
    <3>d. CASE Pending(m)
      BY <1>p, <3>b, <3>d
    <3>e. CASE m = Srv!Result
      <4>1. m.type = "result" /\ m.sent = PacketCount /\ m.received = receivedCount
        BY <3>e, OrchestrationAssumption DEF Srv!Result, TypeInv, Srv!FieldsOK
      <4>2. receivedCount \in Nat /\ receivedCount <= rx
        BY OrchestrationAssumption DEF WorkerInv, TypeInv, Srv!FieldsOK
      <4>3. direction = "uplink" /\ ~hasty' => w = "done" /\ receivedCount = rx
        BY <2>0, <3>b DEF StopInv, WorkerInv
      <4>4. QED
        BY <3>b, <4>1, <4>2, <4>3
    <3>f. QED
      BY <3>a, <3>d, <3>e
  <2>10. CASE DoCloseConn
    BY <2>0, <2>u, <2>10, <1>p, <1>s DEF DoCloseConn, kept
  <2>11. CASE DoTimeout
    BY <2>0, <2>u, <2>11, <1>p, <1>s DEF DoTimeout, kept
  <2>12. CASE DoAssign
    BY <2>0, <2>u, <2>12, <1>p, <1>s DEF DoAssign, kept, LoopInv
  <2>13. CASE DoError
    <3>a. Pending(m) \/ m = internalError
      BY <1>a, <2>13, ResponsesTyped DEF DoError
    <3>b. UNCHANGED <<state, w, rx, direction>> /\ (hasty => hasty')
      BY <2>0, <2>13 DEF DoError, kept
    <3>c. m = internalError => m.type = "internal_error"
      BY DEF internalError
    <3>d. QED
      BY <1>p, <3>a, <3>b, <3>c
  <2>14. CASE DoCleanup
    BY <2>0, <2>u, <2>14, <1>p, <1>s DEF DoCleanup, kept
  <2>15. CASE DoFinish
    BY <2>0, <2>u, <2>15, <1>p, <1>s DEF DoFinish, kept
  <2>16. QED
    BY <2>0, <2>1, <2>2, <2>3, <2>4, <2>5, <2>6, <2>7, <2>8, <2>9, <2>10, <2>11,
       <2>12, <2>13, <2>14, <2>15 DEF LoopSteps
<1>4. CASE SessionBinds
  <2>1. Srv!BindReceiver /\ UNCHANGED hasty
    BY <1>4 DEF SessionBinds
  <2>2. QED
    BY <1>p, <1>s, <2>1 DEF Srv!BindReceiver
<1>5. CASE SessionReceives
  BY <1>5, <1>p, <1>s DEF SessionReceives, Srv!ReceiveDatagram, TypeInv,
     Srv!FieldsOK
<1>6. CASE SessionSends
  BY <1>6, <1>p, <1>s DEF SessionSends, Srv!SendPacket
<1>7. CASE SessionWorker
  <2>u. UNCHANGED <<srun, sown, hasty, leftover, client, network>>
    BY <1>7 DEF SessionWorker
  <2>1. CASE Srv!BindFailed
    <3>1. Pending(m) \/ m = internalError
      BY <1>a, <1>s, <2>1, ResponsesTyped DEF Srv!BindFailed
    <3>2. QED
      BY <1>p, <2>u, <2>1, <3>1 DEF Srv!BindFailed, internalError, Srv!Msg, WorkerInv, Downlinking
  <2>2. CASE Srv!ReceiveReturns
    BY <2>u, <2>2, <1>p, <1>s DEF Srv!ReceiveReturns
  <2>3. CASE Srv!CloseUDP
    BY <2>u, <2>3, <1>p, <1>s DEF Srv!CloseUDP
  <2>4. CASE Srv!CountReceived
    BY <2>u, <2>4, <1>p, <1>s DEF Srv!CountReceived, Srv!Received
  <2>5. CASE Srv!SignalDone
    BY <2>u, <2>5, <1>p, <1>s DEF Srv!SignalDone
  <2>6. CASE Srv!NewSender
    <3>1. Pending(m) \/ m = internalError
      BY <1>a, <1>s, <2>6, ResponsesTyped DEF Srv!NewSender, Srv!SenderFails
    <3>2. QED
      BY <1>p, <2>u, <2>6, <3>1 DEF Srv!NewSender, Srv!SenderFails, internalError, Srv!Msg, WorkerInv, Downlinking
  <2>7. CASE Srv!SendFails
    <3>1. Pending(m) \/ m = internalError
      BY <1>a, <1>s, <2>7, ResponsesTyped DEF Srv!SendFails, Srv!SenderFails
    <3>2. QED
      BY <1>p, <2>u, <2>7, <3>1 DEF Srv!SendFails, Srv!SenderFails, internalError, Srv!Msg, WorkerInv, Downlinking
  <2>8. CASE Srv!SendReturns
    BY <2>u, <2>8, <1>p, <1>s DEF Srv!SendReturns
  <2>9. CASE Srv!SenderCollects
    <3>1. Pending(m) \/ m = internalError
      BY <1>a, <1>s, <2>9, ResponsesTyped DEF Srv!SenderCollects, Srv!SenderFails
    <3>2. QED
      BY <1>p, <2>u, <2>9, <3>1 DEF Srv!SenderCollects, Srv!SenderFails, internalError, Srv!Msg, WorkerInv, Downlinking, Srv!CanTransition, Srv!transitions, Srv!SessionState, TypeInv, Srv!FieldsOK
  <2>10. CASE Srv!NotifySendComplete
    <3>1. Pending(m) \/ m = Srv!Msg("send_complete")
      BY <1>a, <1>s, <2>10, ResponsesTyped DEF Srv!NotifySendComplete
    <3>2. QED
      BY <1>p, <2>u, <2>10, <3>1 DEF Srv!NotifySendComplete, internalError, Srv!Msg, WorkerInv, Downlinking
  <2>11. QED
    BY <1>7, <2>1, <2>2, <2>3, <2>4, <2>5, <2>6, <2>7, <2>8, <2>9, <2>10 DEF
       SessionWorker
<1>8. CASE SocketFails
  BY <1>8, <1>p, <1>s DEF SocketFails, Srv!ReceiveFails
<1>9. QED
  BY <1>1, <1>2, <1>3, <1>4, <1>5, <1>6, <1>7, <1>8, Steps

-----------------------------------------------------------------------------
(***************************************************************************)
(* Client and session in step.                                              *)
(***************************************************************************)

(* A start request waits for a session that is ready for it. *)
LEMMA StartWaits ==
    ASSUME AlignInv, Alive, in \in Starting
    PROVE  state = "ready"
<1>1. in # <<>> /\ in \notin Completing /\ in \notin Fetching /\ in \notin Opening
  BY Begins DEF Completing, Fetching, Opening
<1>2. QED
  BY <1>1 DEF AlignInv

(* What the client's writes find and leave. *)
LEMMA WriteFinds ==
    ASSUME ClientInv, Alive, Talks
    PROVE  /\ Wrote("hello", helloMsg, "prepare") =>
                  /\ state \in {"idle", "preparing"} /\ out = <<>>
                  /\ in = <<>> /\ in' = <<helloMsg>>
           /\ Wrote("prepare", prepareMsg(dir), "ready") =>
                  /\ state \in {"idle", "preparing"} /\ out = <<>>
                  /\ in' \in {<<prepareMsg(dir)>>, <<helloMsg, prepareMsg(dir)>>}
           /\ Wrote("start", startMsg, IF dir = "uplink" THEN "send" ELSE "complete") =>
                  /\ state = "ready" /\ out = <<>> /\ in = <<>>
                  /\ in' = <<startMsg>>
           /\ Wrote("send", completeMsg, "fetch") =>
                  \/ state = "ready" /\ in = <<startMsg>> /\ in' = <<startMsg, completeMsg>>
                  \/ /\ state = "running" /\ pc \in {"top", "reading"}
                     /\ in = <<>> /\ in' = <<completeMsg>>
           /\ Wrote("fetch", fetchMsg, "result") =>
                  \/ state = "collecting" /\ in = <<>> /\ in' = <<fetchMsg>>
                  \/ /\ state = "ready" /\ dir = "uplink" /\ in = <<startMsg, completeMsg>>
                     /\ in' = <<startMsg, completeMsg, fetchMsg>>
                  \/ /\ state = "running" /\ pc \in {"top", "reading"} /\ dir = "uplink"
                     /\ in = <<completeMsg>> /\ in' = <<completeMsg, fetchMsg>>
                  \/ /\ state = "running" /\ pc \in {"collect", "await"}
                     /\ in = <<>> /\ in' = <<fetchMsg>>
<1>1. sock = "open" /\ Aligned
  BY DEF ClientInv, Talks, Alive
<1>2. CASE Wrote("hello", helloMsg, "prepare")
  BY <1>1, <1>2, Writings DEF Wrote, Aligned
<1>3. CASE Wrote("prepare", prepareMsg(dir), "ready")
  BY <1>1, <1>3, Writings DEF Wrote, Aligned
<1>4. CASE Wrote("start", startMsg, IF dir = "uplink" THEN "send" ELSE "complete")
  BY <1>1, <1>4, Writings DEF Wrote, Aligned
<1>5. CASE Wrote("send", completeMsg, "fetch")
  BY <1>1, <1>5, Writings DEF Wrote, Aligned
<1>6. CASE Wrote("fetch", fetchMsg, "result")
  BY <1>1, <1>6, Writings DEF Wrote, Aligned
<1>7. QED
  BY <1>2, <1>3, <1>4, <1>5, <1>6 DEF Wrote

(* No step of client, session or network brings a request before its turn. *)
LEMMA AlignStep ==
    ASSUME Inv, [Next]_vars
    PROVE  AlignInv'
<1>i. LinkInv /\ TypeInv /\ LoopInv /\ WorkerInv /\ AlignInv /\ ClientInv
  BY DEF Inv
<1> USE <1>i DEF AlignInv, Alive
<1>1. CASE Outside
  <2>0. UNCHANGED fields
    BY <1>1, OutsideFrame
  <2>k. CASE in' \in {in, <<>>}
    BY <2>0, <2>k DEF fields, Alive, Opening, Starting, Completing, Fetching
  <2>t. CASE Talks
    <3>1. CASE Wrote("hello", helloMsg, "prepare")
      <4>1. CASE Alive
        <5>1. state \in {"ready", "running", "collecting"} => direction = dir
          BY <2>t DEF Talks, ClientInv
        <5>2. dir \in {"uplink", "downlink"} /\ (cpc = "send" => dir = "uplink")
          BY DEF TypeInv, LinkInv
        <5>3. QED
          BY <2>0, <2>t, <3>1, <4>1, <5>1, <5>2, WriteFinds DEF fields, Alive, Opening,
             Starting, Completing, Fetching, Wrote
      <4>2. QED
        BY <2>0, <3>1, <4>1 DEF fields, Alive
    <3>2. CASE Wrote("prepare", prepareMsg(dir), "ready")
      <4>1. CASE Alive
        <5>1. state \in {"ready", "running", "collecting"} => direction = dir
          BY <2>t DEF Talks, ClientInv
        <5>2. dir \in {"uplink", "downlink"} /\ (cpc = "send" => dir = "uplink")
          BY DEF TypeInv, LinkInv
        <5>3. QED
          BY <2>0, <2>t, <3>2, <4>1, <5>1, <5>2, WriteFinds DEF fields, Alive, Opening,
             Starting, Completing, Fetching, Wrote
      <4>2. QED
        BY <2>0, <3>2, <4>1 DEF fields, Alive
    <3>3. CASE Wrote("start", startMsg, IF dir = "uplink" THEN "send" ELSE "complete")
      <4>1. CASE Alive
        <5>1. state \in {"ready", "running", "collecting"} => direction = dir
          BY <2>t DEF Talks, ClientInv
        <5>2. dir \in {"uplink", "downlink"} /\ (cpc = "send" => dir = "uplink")
          BY DEF TypeInv, LinkInv
        <5>3. QED
          BY <2>0, <2>t, <3>3, <4>1, <5>1, <5>2, WriteFinds DEF fields, Alive, Opening,
             Starting, Completing, Fetching, Wrote
      <4>2. QED
        BY <2>0, <3>3, <4>1 DEF fields, Alive
    <3>4. CASE Wrote("send", completeMsg, "fetch")
      <4>1. CASE Alive
        <5>1. state \in {"ready", "running", "collecting"} => direction = dir
          BY <2>t DEF Talks, ClientInv
        <5>2. dir \in {"uplink", "downlink"} /\ (cpc = "send" => dir = "uplink")
          BY DEF TypeInv, LinkInv
        <5>3. QED
          BY <2>0, <2>t, <3>4, <4>1, <5>1, <5>2, WriteFinds DEF fields, Alive, Opening,
             Starting, Completing, Fetching, Wrote
      <4>2. QED
        BY <2>0, <3>4, <4>1 DEF fields, Alive
    <3>5. CASE Wrote("fetch", fetchMsg, "result")
      <4>1. CASE Alive
        <5>1. state \in {"ready", "running", "collecting"} => direction = dir
          BY <2>t DEF Talks, ClientInv
        <5>2. dir \in {"uplink", "downlink"} /\ (cpc = "send" => dir = "uplink")
          BY DEF TypeInv, LinkInv
        <5>3. QED
          BY <2>0, <2>t, <3>5, <4>1, <5>1, <5>2, WriteFinds DEF fields, Alive, Opening,
             Starting, Completing, Fetching, Wrote
      <4>2. QED
        BY <2>0, <3>5, <4>1 DEF fields, Alive
    <3>6. QED
      BY <2>k, <2>t, <3>1, <3>2, <3>3, <3>4, <3>5 DEF Talks, Took
  <2>q. QED
    BY <2>k, <2>t, <1>1, OutsideTakes DEF Leaves
<1>2. CASE Accept
  BY <1>2 DEF Accept, Opening
<1>3. CASE SessionLoop
  <2>0. /\ LoopSteps
        /\ hasty' = (hasty \/ (w = "spawned" /\ direction # "downlink" /\ pc # "top"))
    BY <1>3, LoopTakes DEF SessionLoop
  <2>u. UNCHANGED <<srun, sown, leftover, client, network>>
    BY <1>3 DEF SessionLoop
  <2>1. CASE DoRun
    BY <2>0, <2>u, <2>1 DEF DoRun, kept
  <2>2. CASE DoTop
    BY <2>0, <2>u, <2>2 DEF DoTop, kept, LoopInv
  <2>3. CASE DoHello
    BY <2>0, <2>u, <2>3 DEF DoHello, kept, Reading, Reads, Opening, Starting,
       Completing, Fetching
  <2>4. CASE DoPrepare
    BY <2>0, <2>u, <2>4 DEF DoPrepare, kept, Reading, Reads
  <2>5. CASE DoStart
    BY <2>0, <2>u, <2>5 DEF DoStart, kept, Reading, Reads, Opening, Starting,
       Completing, Fetching
  <2>6. CASE DoStop
    BY <2>0, <2>u, <2>6 DEF DoStop, kept, Reading, Reads, Opening, Starting,
       Completing, Fetching
  <2>7. CASE DoAwait
    BY <2>0, <2>u, <2>7 DEF DoAwait, kept, Opening, Starting, Completing, Fetching
  <2>8. CASE DoCollect
    BY <2>0, <2>u, <2>8 DEF DoCollect, kept, LoopInv, Opening, Starting,
       Completing, Fetching
  <2>9. CASE DoFetch
    BY <2>0, <2>u, <2>9 DEF DoFetch, kept, Reading, Reads
  <2>10. CASE DoCloseConn
    BY <2>0, <2>u, <2>10 DEF DoCloseConn, kept
  <2>11. CASE DoTimeout
    BY <2>0, <2>u, <2>11 DEF DoTimeout, kept
  <2>12. CASE DoAssign
    BY <2>0, <2>u, <2>12 DEF DoAssign, kept
  <2>13. CASE DoError
    BY <2>0, <2>u, <2>13 DEF DoError, kept
  <2>14. CASE DoCleanup
    BY <2>0, <2>u, <2>14 DEF DoCleanup, kept
  <2>15. CASE DoFinish
    BY <2>0, <2>u, <2>15 DEF DoFinish, kept
  <2>16. QED
    BY <2>0, <2>1, <2>2, <2>3, <2>4, <2>5, <2>6, <2>7, <2>8, <2>9, <2>10, <2>11,
       <2>12, <2>13, <2>14, <2>15 DEF LoopSteps
<1>4. CASE SessionBinds
  <2>1. Srv!BindReceiver
    BY <1>4 DEF SessionBinds
  <2>2. QED
    BY <2>1 DEF Srv!BindReceiver
<1>5. CASE SessionReceives
  BY <1>5 DEF SessionReceives, Srv!ReceiveDatagram
<1>6. CASE SessionSends
  BY <1>6 DEF SessionSends, Srv!SendPacket
<1>7. CASE SessionWorker
  <2>u. UNCHANGED <<srun, sown, hasty, leftover, client, network>>
    BY <1>7 DEF SessionWorker
  <2>1. CASE Srv!BindFailed
    BY <2>u, <2>1 DEF Srv!BindFailed
  <2>2. CASE Srv!ReceiveReturns
    BY <2>u, <2>2 DEF Srv!ReceiveReturns
  <2>3. CASE Srv!CloseUDP
    BY <2>u, <2>3 DEF Srv!CloseUDP
  <2>4. CASE Srv!CountReceived
    BY <2>u, <2>4 DEF Srv!CountReceived, Srv!Received
  <2>5. CASE Srv!SignalDone
    BY <2>u, <2>5 DEF Srv!SignalDone
  <2>6. CASE Srv!NewSender
    BY <2>u, <2>6 DEF Srv!NewSender, Srv!SenderFails
  <2>7. CASE Srv!SendFails
    BY <2>u, <2>7 DEF Srv!SendFails, Srv!SenderFails
  <2>8. CASE Srv!SendReturns
    BY <2>u, <2>8 DEF Srv!SendReturns
  <2>9. CASE Srv!SenderCollects
    BY <2>u, <2>9 DEF Srv!SenderCollects, Srv!SenderFails, WorkerInv, Downlinking,
       LoopInv, Opening, Starting, Completing, Fetching, Srv!CanTransition,
       Srv!transitions, Srv!SessionState, TypeInv, Srv!FieldsOK
  <2>10. CASE Srv!NotifySendComplete
    BY <2>u, <2>10 DEF Srv!NotifySendComplete
  <2>11. QED
    BY <1>7, <2>1, <2>2, <2>3, <2>4, <2>5, <2>6, <2>7, <2>8, <2>9, <2>10 DEF
       SessionWorker
<1>8. CASE SocketFails
  BY <1>8 DEF SocketFails, Srv!ReceiveFails
<1>9. QED
  BY <1>1, <1>2, <1>3, <1>4, <1>5, <1>6, <1>7, <1>8, Steps

(* While a receiver may run, the client has nothing to read. *)
LEMMA QuietStep ==
    ASSUME Inv, [Next]_vars
    PROVE  QuietInv'
<1>i. TypeInv /\ LinkInv /\ LoopInv /\ WorkerInv /\ AlignInv /\ ClientInv /\ QuietInv
  BY DEF Inv
<1>n. <<>> \notin Starting
  BY Begins
<1>w. Alive /\ in \in Starting => state = "ready"
  BY <1>i, StartWaits
<1> USE <1>i DEF QuietInv, Alive
<1>1. CASE Outside
  <2>0. UNCHANGED fields
    BY <1>1, OutsideFrame
  <2>1. CASE Leaves
    BY <1>n, <2>0, <2>1 DEF fields, Alive, Leaves
  <2>2. CASE Talks
    <3>1. SUFFICES ASSUME Alive PROVE QuietInv'
      BY <2>0 DEF fields, Alive
    <3>2. in' = in /\ out' = out => QuietInv'
      BY <2>0, <2>2 DEF fields, Alive, Talks
    <3>3. out # <<>> /\ in' = in => QuietInv'
      BY <2>0, <2>2 DEF fields, Alive, Talks
    <3>4. cpc' = "close" => QuietInv'
      BY <2>0, <2>2, <3>1, <3>2, <3>3, <1>1, OutsideFrame DEF Talks, Wrote, Took
    <3>5. peer' # "reset"
      BY <2>2 DEF Talks, LinkInv
    <3>6. CASE Wrote("hello", helloMsg, "prepare")
      BY <1>n, <2>0, <2>2, <3>1, <3>6, WriteFinds, Begins DEF fields
    <3>7. CASE Wrote("prepare", prepareMsg(dir), "ready")
      BY <1>n, <2>0, <2>2, <3>1, <3>7, WriteFinds, Begins DEF fields
    <3>8. CASE Wrote("start", startMsg, IF dir = "uplink" THEN "send" ELSE "complete")
      BY <2>2, <3>1, <3>5, <3>8, WriteFinds DEF Wrote
    <3>9. CASE Wrote("send", completeMsg, "fetch")
      BY <2>0, <2>2, <3>1, <3>5, <3>9, WriteFinds, Begins DEF Wrote, fields, Starting
    <3>10. CASE Wrote("fetch", fetchMsg, "result")
      BY <2>0, <2>2, <3>1, <3>5, <3>10, WriteFinds, Begins DEF Wrote, fields, Starting
    <3>11. QED
      BY <2>2, <3>2, <3>3, <3>4, <3>6, <3>7, <3>8, <3>9, <3>10 DEF Talks, Took
  <2>3. QED
    BY <2>1, <2>2, <1>1, OutsideTakes
<1>2. CASE Accept
  BY <1>2, <1>n DEF Accept
<1>3. CASE SessionLoop
  <2>0. /\ LoopSteps
        /\ hasty' = (hasty \/ (w = "spawned" /\ direction # "downlink" /\ pc # "top"))
    BY <1>3, LoopTakes DEF SessionLoop
  <2>u. UNCHANGED <<srun, sown, leftover, client, network>>
    BY <1>3 DEF SessionLoop
  <2>1. CASE DoRun
    BY <2>0, <2>u, <2>1, <1>w DEF DoRun, kept
  <2>2. CASE DoTop
    BY <2>0, <2>u, <2>2, <1>w DEF DoTop, kept
  <2>3. CASE DoHello
    BY <2>0, <2>u, <2>3, <1>n, Begins DEF DoHello, kept, Reading, Reads
  <2>4. CASE DoPrepare
    BY <2>0, <2>u, <2>4, <1>n DEF DoPrepare, kept, Reading, Reads
  <2>5. CASE DoStart
    BY <2>0, <2>u, <2>5, Begins DEF DoStart, kept, Reading, Reads, Starting
  <2>6. CASE DoStop
    BY <2>0, <2>u, <2>6, Begins DEF DoStop, kept, Reading, Reads, TypeInv,
       Srv!FieldsOK, WorkerInv, Uplinking
  <2>7. CASE DoAwait
    BY <2>0, <2>u, <2>7 DEF DoAwait, kept
  <2>8. CASE DoCollect
    BY <2>0, <2>u, <2>8, <1>w DEF DoCollect, kept, LoopInv
  <2>9. CASE DoFetch
    BY <2>0, <2>u, <2>9 DEF DoFetch, kept, Reading, Reads
  <2>10. CASE DoCloseConn
    BY <2>0, <2>u, <2>10 DEF DoCloseConn, kept
  <2>11. CASE DoTimeout
    BY <2>0, <2>u, <2>11 DEF DoTimeout, kept
  <2>12. CASE DoAssign
    BY <2>0, <2>u, <2>12 DEF DoAssign, kept
  <2>13. CASE DoError
    BY <2>0, <2>u, <2>13 DEF DoError, kept
  <2>14. CASE DoCleanup
    BY <2>0, <2>u, <2>14 DEF DoCleanup, kept
  <2>15. CASE DoFinish
    BY <2>0, <2>u, <2>15 DEF DoFinish, kept
  <2>16. QED
    BY <2>0, <2>1, <2>2, <2>3, <2>4, <2>5, <2>6, <2>7, <2>8, <2>9, <2>10, <2>11,
       <2>12, <2>13, <2>14, <2>15 DEF LoopSteps
<1>4. CASE SessionBinds
  <2>1. Srv!BindReceiver /\ UNCHANGED hasty
    BY <1>4 DEF SessionBinds
  <2>2. QED
    BY <1>w, <2>1 DEF Srv!BindReceiver, WorkerInv
<1>5. CASE SessionReceives
  BY <1>5 DEF SessionReceives, Srv!ReceiveDatagram
<1>6. CASE SessionSends
  BY <1>6 DEF SessionSends, Srv!SendPacket
<1>7. CASE SessionWorker
  <2>u. UNCHANGED <<srun, sown, hasty, leftover, client, network>>
    BY <1>7 DEF SessionWorker
  <2>1. CASE Srv!BindFailed
    BY <2>u, <2>1, <1>w DEF Srv!BindFailed, WorkerInv, Uplinking, Downlinking
  <2>2. CASE Srv!ReceiveReturns
    BY <2>u, <2>2, <1>w DEF Srv!ReceiveReturns, WorkerInv, Uplinking, Downlinking
  <2>3. CASE Srv!CloseUDP
    BY <2>u, <2>3, <1>w DEF Srv!CloseUDP, WorkerInv, Uplinking, Downlinking
  <2>4. CASE Srv!CountReceived
    BY <2>u, <2>4, <1>w DEF Srv!CountReceived, Srv!Received, WorkerInv, Uplinking,
       Downlinking
  <2>5. CASE Srv!SignalDone
    BY <2>u, <2>5, <1>w DEF Srv!SignalDone, WorkerInv, Uplinking, Downlinking
  <2>6. CASE Srv!NewSender
    BY <2>u, <2>6, <1>w DEF Srv!NewSender, Srv!SenderFails, WorkerInv, Uplinking,
       Downlinking
  <2>7. CASE Srv!SendFails
    BY <2>u, <2>7, <1>w DEF Srv!SendFails, Srv!SenderFails, WorkerInv, Uplinking,
       Downlinking
  <2>8. CASE Srv!SendReturns
    BY <2>u, <2>8, <1>w DEF Srv!SendReturns, WorkerInv, Uplinking, Downlinking
  <2>9. CASE Srv!SenderCollects
    BY <2>u, <2>9, <1>w DEF Srv!SenderCollects, Srv!SenderFails, WorkerInv,
       Uplinking, Downlinking, Srv!CanTransition
  <2>10. CASE Srv!NotifySendComplete
    BY <2>u, <2>10, <1>w DEF Srv!NotifySendComplete, WorkerInv, Uplinking,
       Downlinking
  <2>11. QED
    BY <1>7, <2>1, <2>2, <2>3, <2>4, <2>5, <2>6, <2>7, <2>8, <2>9, <2>10 DEF
       SessionWorker
<1>8. CASE SocketFails
  BY <1>8 DEF SocketFails, Srv!ReceiveFails
<1>9. QED
  BY <1>1, <1>2, <1>3, <1>4, <1>5, <1>6, <1>7, <1>8, Steps

(* Queues of one request, and of two. *)
LEMMA OneRequest ==
    ASSUME NEW d, NEW e
    PROVE  /\ Len(<<prepareMsg(d)>>) = 1 /\ <<prepareMsg(d)>> # <<>>
           /\ <<prepareMsg(d)>> # <<helloMsg>>
           /\ <<prepareMsg(d)>> # <<helloMsg, prepareMsg(e)>>
           /\ <<prepareMsg(d)>> = <<prepareMsg(e)>> => d = e
           /\ <<helloMsg>> # <<>>
BY DEF prepareMsg, helloMsg

LEMMA TwoRequests ==
    ASSUME NEW d, NEW e
    PROVE  /\ <<helloMsg, prepareMsg(d)>> # <<>>
           /\ <<helloMsg, prepareMsg(d)>> # <<helloMsg>>
           /\ <<helloMsg, prepareMsg(d)>> # <<prepareMsg(e)>>
           /\ <<helloMsg, prepareMsg(d)>> = <<helloMsg, prepareMsg(e)>> => d = e
BY DEF prepareMsg, helloMsg

LEMMA Disjoint ==
    /\ <<startMsg>> # <<>> /\ <<completeMsg>> # <<>>
    /\ <<startMsg, completeMsg>> # <<startMsg>> /\ <<startMsg, completeMsg>> # <<>>
    /\ <<startMsg, completeMsg, fetchMsg>> # <<startMsg>>
    /\ <<startMsg, completeMsg, fetchMsg>> # <<startMsg, completeMsg>>
    /\ <<startMsg, completeMsg, fetchMsg>> # <<>>
    /\ <<completeMsg, fetchMsg>> # <<>> /\ <<completeMsg, fetchMsg>> # <<completeMsg>>
BY DEF startMsg, completeMsg, fetchMsg

(* The session is as far as the client's place says. *)
LEMMA PlaceStep ==
    ASSUME Inv, [Next]_vars
    PROVE  ClientInv'
<1>i. TypeInv /\ LinkInv /\ LoopInv /\ WorkerInv /\ OutInv /\ AlignInv /\ ClientInv
  BY DEF Inv
<1> USE <1>i DEF ClientInv, Alive
<1>1. CASE Outside
  <2>0. UNCHANGED fields
    BY <1>1, OutsideFrame
  <2>1. CASE Leaves
    BY <2>1 DEF Leaves
  <2>2. CASE Talks
    <3>0. /\ link = "session" /\ dir' = dir /\ Alive' = Alive
          /\ UNCHANGED <<state, direction, pc, sock>>
      BY <2>0, <2>2 DEF fields, Alive, Talks
    <3>1. CASE ~Alive
      BY <3>0, <3>1
    <3>2. CASE Alive
      <4>0. Aligned /\ dir \in {"uplink", "downlink"}
        BY <3>0, <3>2 DEF TypeInv
      <4>1. CASE cpc' = "close" /\ in' = in
        BY <3>0, <3>2, <4>1 DEF Aligned
      <4>2. CASE cpc' = cpc /\ in' = in /\ out' = out
        BY <3>0, <3>2, <4>0, <4>2 DEF Aligned
      <4>3. CASE cpc = "count" /\ cpc' = "fetch" /\ in' = in /\ out' = out
        BY <3>0, <3>2, <4>0, <4>3 DEF Aligned
      <4>4. CASE Wrote("hello", helloMsg, "prepare")
        BY <2>2, <3>0, <3>2, <4>4, WriteFinds DEF Aligned, Wrote
      <4>5. CASE Wrote("prepare", prepareMsg(dir), "ready")
        BY <2>2, <3>0, <3>2, <4>5, WriteFinds DEF Aligned, Wrote
      <4>6. CASE Wrote("start", startMsg, IF dir = "uplink" THEN "send" ELSE "complete")
        BY <2>2, <3>0, <3>2, <4>6, WriteFinds DEF Aligned, Wrote
      <4>7. CASE Wrote("send", completeMsg, "fetch")
        <5>1. dir = "uplink"
          BY <4>7 DEF Wrote, LinkInv
        <5>2. QED
          BY <2>2, <3>0, <3>2, <4>7, <5>1, WriteFinds DEF Aligned, Wrote
      <4>8. CASE Wrote("fetch", fetchMsg, "result")
        BY <2>2, <3>0, <3>2, <4>8, WriteFinds DEF Aligned, Wrote
      <4>9. CASE Took("ready", "ready", "start")
        <5>1. state = "ready" /\ in = <<>> /\ out = <<[type |-> "ready"]>>
          BY <4>0, <4>9 DEF Aligned, Took
        <5>2. cpc' = "start" /\ in' = <<>> /\ out' = <<>>
          BY <4>9, <5>1 DEF Took
        <5>3. QED
          BY <3>0, <5>1, <5>2 DEF Aligned
      <4>10. CASE Took("complete", "send_complete", "count")
        <5>1. Head(out).type = "send_complete" /\ out # <<>> /\ out \in Seq(Srv!Response)
          BY <4>10 DEF Took, TypeInv
        <5>2. Pending(Head(out))
          BY <5>1 DEF Pending
        <5>3. state \in PastRunning
          BY <5>1, <5>2 DEF OutInv, OutOK
        <5>4. state = "collecting" /\ in = <<>>
          BY <4>0, <4>10, <5>3 DEF Aligned, Took, PastRunning
        <5>5. QED
          BY <3>0, <4>10, <5>4 DEF Aligned, Took
      <4>11. QED
        BY <2>2, <4>1, <4>2, <4>3, <4>4, <4>5, <4>6, <4>7, <4>8, <4>9, <4>10 DEF Talks
    <3>3. QED
      BY <3>1, <3>2
  <2>3. QED
    BY <2>1, <2>2, <1>1, OutsideTakes
<1>2. CASE Accept
  BY <1>2 DEF Accept, LinkInv, Apart, Served, Aligned
<1>3. CASE SessionLoop
  <2>0. /\ LoopSteps
        /\ hasty' = (hasty \/ (w = "spawned" /\ direction # "downlink" /\ pc # "top"))
    BY <1>3, LoopTakes DEF SessionLoop
  <2>u. UNCHANGED <<srun, sown, leftover, client, network>>
    BY <1>3 DEF SessionLoop
  <2>1. CASE DoRun
    BY <2>0, <2>u, <2>1 DEF DoRun, kept, Aligned
  <2>2. CASE DoTop
    BY <2>0, <2>u, <2>2 DEF DoTop, kept, Aligned
  <2>3. CASE DoHello
    <3>1. CASE link # "session"
      BY <2>u, <3>1
    <3>2. CASE link = "session"
      <4>1. /\ pc = "reading" /\ sock = "open" /\ state = "preparing"
            /\ UNCHANGED <<state, direction, out, cpc, dir, link>>
        BY <2>u, <2>3 DEF DoHello, kept, Reading, Reads
      <4>2. Alive /\ Aligned
        BY <3>2, <4>1 DEF Alive
      <4>3. \/ in = <<helloMsg>> /\ in' = <<>>
            \/ in = <<helloMsg, prepareMsg(dir)>> /\ in' = <<prepareMsg(dir)>>
        BY <3>2, <4>1, <4>2, <2>3, OneRequest, TwoRequests DEF DoHello, Reading, Reads
      <4>4. QED
        BY <4>1, <4>2, <4>3, TwoRequests, OneRequest DEF Aligned
    <3>3. QED
      BY <3>1, <3>2
  <2>4. CASE DoPrepare
    <3>1. CASE link # "session"
      BY <2>u, <3>1
    <3>2. CASE link = "session"
      <4>1. /\ pc = "reading" /\ sock = "open" /\ state = "preparing" /\ in' = <<>>
            /\ in = <<prepareMsg(direction')>>
        BY <2>4 DEF DoPrepare, Reading, Reads
      <4>2. Alive /\ Aligned /\ in # <<>> /\ in # <<helloMsg>> /\ Len(in) = 1
        BY <3>2, <4>1, OneRequest DEF Alive
      <4>3. in = <<prepareMsg(dir)>>
        BY <3>2, <4>1, <4>2 DEF Alive
      <4>4. direction' = dir
        BY <4>1, <4>3, OneRequest
      <4>5. cpc \in {"ready", "close", "result"} \cup Apart /\ (cpc = "ready" => out = <<>>)
        BY <4>1, <4>2 DEF Aligned, LinkInv, Served
      <4>6. state' = "ready" /\ cpc' = cpc /\ link' = link /\ dir' = dir
        BY <2>u, <2>4 DEF DoPrepare
      <4>7. Alive' => out' = Append(out, ready)
        BY <2>4 DEF DoPrepare, Alive, Srv!WriteOk
      <4>8. Alive' => Aligned'
        BY <4>1, <4>5, <4>6, <4>7, Writings DEF Aligned, ready, Apart
      <4>9. QED
        BY <4>4, <4>6, <4>8
    <3>3. QED
      BY <3>1, <3>2
  <2>5. CASE DoStart
    BY <2>0, <2>u, <2>5, Disjoint DEF DoStart, kept, Reading, Reads, Aligned
  <2>6. CASE DoStop
    BY <2>0, <2>u, <2>6, Disjoint DEF DoStop, kept, Reading, Reads, Aligned
  <2>7. CASE DoAwait
    BY <2>0, <2>u, <2>7 DEF DoAwait, kept, LoopInv, Aligned
  <2>8. CASE DoCollect
    BY <2>0, <2>u, <2>8 DEF DoCollect, kept, LoopInv, Aligned
  <2>9. CASE DoFetch
    BY <2>0, <2>u, <2>9 DEF DoFetch, kept, Reading, Reads, Aligned
  <2>10. CASE DoCloseConn
    BY <2>0, <2>u, <2>10 DEF DoCloseConn, kept, Aligned
  <2>11. CASE DoTimeout
    BY <2>0, <2>u, <2>11 DEF DoTimeout, kept, Aligned
  <2>12. CASE DoAssign
    BY <2>0, <2>u, <2>12 DEF DoAssign, kept, LoopInv, Aligned
  <2>13. CASE DoError
    BY <2>0, <2>u, <2>13 DEF DoError, kept, Aligned
  <2>14. CASE DoCleanup
    BY <2>0, <2>u, <2>14 DEF DoCleanup, kept, Aligned
  <2>15. CASE DoFinish
    BY <2>0, <2>u, <2>15 DEF DoFinish, kept, Aligned
  <2>16. QED
    BY <2>0, <2>1, <2>2, <2>3, <2>4, <2>5, <2>6, <2>7, <2>8, <2>9, <2>10, <2>11,
       <2>12, <2>13, <2>14, <2>15 DEF LoopSteps
<1>4. CASE SessionBinds
  <2>1. Srv!BindReceiver /\ UNCHANGED client
    BY <1>4 DEF SessionBinds
  <2>2. QED
    BY <2>1 DEF Srv!BindReceiver, Aligned
<1>5. CASE SessionReceives
  BY <1>5 DEF SessionReceives, Srv!ReceiveDatagram, Aligned
<1>6. CASE SessionSends
  BY <1>6 DEF SessionSends, Srv!SendPacket, Aligned
<1>7. CASE SessionWorker
  <2>u. UNCHANGED <<srun, sown, hasty, leftover, client, network>>
    BY <1>7 DEF SessionWorker
  <2>1. CASE Srv!BindFailed
    BY <2>u, <2>1 DEF Srv!BindFailed, WorkerInv, Uplinking, Downlinking, Aligned
  <2>2. CASE Srv!ReceiveReturns
    BY <2>u, <2>2 DEF Srv!ReceiveReturns, WorkerInv, Uplinking, Downlinking,
       Aligned
  <2>3. CASE Srv!CloseUDP
    BY <2>u, <2>3 DEF Srv!CloseUDP, WorkerInv, Uplinking, Downlinking, Aligned
  <2>4. CASE Srv!CountReceived
    BY <2>u, <2>4 DEF Srv!CountReceived, Srv!Received, WorkerInv, Uplinking,
       Downlinking, Aligned
  <2>5. CASE Srv!SignalDone
    BY <2>u, <2>5 DEF Srv!SignalDone, WorkerInv, Uplinking, Downlinking, Aligned
  <2>6. CASE Srv!NewSender
    BY <2>u, <2>6 DEF Srv!NewSender, Srv!SenderFails, WorkerInv, Uplinking,
       Downlinking, Aligned
  <2>7. CASE Srv!SendFails
    BY <2>u, <2>7 DEF Srv!SendFails, Srv!SenderFails, WorkerInv, Uplinking,
       Downlinking, Aligned
  <2>8. CASE Srv!SendReturns
    BY <2>u, <2>8 DEF Srv!SendReturns, WorkerInv, Uplinking, Downlinking, Aligned
  <2>9. CASE Srv!SenderCollects
    BY <2>u, <2>9 DEF Srv!SenderCollects, Srv!SenderFails, WorkerInv, Uplinking,
       Downlinking, LinkInv, Srv!CanTransition, Srv!transitions, Srv!SessionState,
       TypeInv, Srv!FieldsOK, Aligned
  <2>10. CASE Srv!NotifySendComplete
    BY <2>u, <2>10 DEF Srv!NotifySendComplete, WorkerInv, Uplinking, Downlinking,
       Aligned
  <2>11. QED
    BY <1>7, <2>1, <2>2, <2>3, <2>4, <2>5, <2>6, <2>7, <2>8, <2>9, <2>10 DEF
       SessionWorker
<1>8. CASE SocketFails
  BY <1>8 DEF SocketFails, Srv!ReceiveFails, Aligned
<1>9. QED
  BY <1>1, <1>2, <1>3, <1>4, <1>5, <1>6, <1>7, <1>8, Steps

-----------------------------------------------------------------------------
(***************************************************************************)
(* The client's place in the sweep, and the datagrams.                      *)
(***************************************************************************)
Continues ==
    /\ GoOn(cpc') /\ UNCHANGED network
    /\ \/ cpc = "plan" /\ cpc' = "dial"
       \/ cpc = "dial" /\ cpc' = "exit" /\ half = <<>>
       \/ cpc = "hello" /\ cpc' = "prepare" /\ link = "session"
       \/ cpc = "prepare" /\ cpc' = "ready"
       \/ cpc = "ready" /\ cpc' = "start"
       \/ cpc = "start" /\ cpc' = "send" /\ dir = "uplink"
       \/ cpc = "start" /\ cpc' = "complete" /\ dir # "uplink"
       \/ cpc = "send" /\ cpc' = "fetch"
       \/ cpc = "complete" /\ cpc' = "count"
       \/ cpc = "fetch" /\ cpc' = "result"
       \/ cpc = "report" /\ cpc' = "finished"

Fails ==
    /\ Fail /\ UNCHANGED network
    /\ \/ cpc = "dial" /\ half # <<>>
       \/ cpc = "hello" /\ link # "backlog"
       \/ cpc \in Served

Succeeds ==
    /\ cpc = "result" /\ out # <<>> /\ Head(out).type = "result"
    /\ Succeed(TestResult(Head(out))) /\ UNCHANGED network

Opens ==
    /\ cpc \in {"prepare", "start"} /\ dir = "downlink" /\ crecv' \in {"bound", "receiving"}
    /\ UNCHANGED <<cpc, run, dir, link, csent, crx, matched, sweep, network>>

Sends ==
    /\ cpc = "send" /\ csent < PacketCount /\ csent' = csent + 1
    /\ air' = [air EXCEPT ![run] = @ + 1]
    /\ UNCHANGED <<cpc, run, dir, link, crecv, crx, matched, sweep, dups>>

Idles == UNCHANGED <<client, network>>

ClientMoves ==
    \/ Continues \/ Fails \/ Succeeds \/ Opens \/ Sends \/ Dial \/ CountMatched
    \/ Close \/ ClientReceive \/ Drop \/ Duplicate \/ Idles

(* A step outside of the session is one of these for client and network. *)
LEMMA ClientTakes ==
    ASSUME Inv, Outside
    PROVE  ClientMoves /\ UNCHANGED fields /\ (link' = "session" => peer' = peer)
<1>i. LinkInv
  BY DEF Inv
<1>f. UNCHANGED fields /\ (link' = "session" => peer' = peer)
  BY OutsideFrame, OutsideTakes DEF Talks, Leaves
<1> SUFFICES ClientMoves
  BY <1>f
<1> USE <1>i DEF ClientMoves
<1>1. CASE Plan \/ Finish
  BY <1>1 DEF Plan, Finish, GoOn, Continues
<1>2. CASE ConnectFails
  BY <1>2 DEF ConnectFails, GoOn, Continues, Fails
<1>3. CASE Hello \/ Rejected
  BY <1>3 DEF Hello, Rejected, Writes, Write, GoOn, Continues, Fails
<1>4. CASE OpenReceiver \/ SpawnReceiver
  BY <1>4 DEF OpenReceiver, SpawnReceiver, Opens, Fails, Served
<1>5. CASE Prepare \/ FetchResult
  BY <1>5 DEF Prepare, FetchResult, Writes, Write, GoOn, Continues, Fails, Served
<1>6. CASE Start
  BY <1>6 DEF Start, Writes, Write, GoOn, Continues, Fails, Served
<1>7. CASE SendComplete
  BY <1>7 DEF SendComplete, Writes, Write, GoOn, Continues, Fails, Served
<1>8. CASE AwaitReady \/ AwaitSendComplete
  BY <1>8 DEF AwaitReady, AwaitSendComplete, Receives, Recv, GoOn, Continues, Fails, Served
<1>9. CASE AwaitResult
  BY <1>9 DEF AwaitResult, Receives, Recv, Succeeds, Fails, Served
<1>10. CASE SendProbe
  BY <1>10 DEF SendProbe, Sends, Fails, Served
<1>11. CASE ReceiveTimesOut \/ LeftoverStep \/ ResetByPeer \/ Terminated \/ UNCHANGED vars
  BY <1>11 DEF ReceiveTimesOut, LeftoverStep, ResetByPeer, Terminated, Idles
<1>12. QED
  BY <1>1, <1>2, <1>3, <1>4, <1>5, <1>6, <1>7, <1>8, <1>9, <1>10, <1>11
     DEF Outside, ClientStep

(* The steps of the session that touch neither client, network nor counts. *)
Within == UNCHANGED <<srun, sown, leftover, client, network, peer, ctx, tx, rx>>

LEMMA SessionFrame ==
    ASSUME Inv, SessionLoop \/ SessionBinds \/ SessionWorker \/ SocketFails
    PROVE  Within
<1> USE DEF Within
<1>1. CASE SessionLoop
  <2>1. LoopSteps /\ UNCHANGED <<srun, sown, leftover, client, network>>
    BY <1>1, LoopTakes DEF SessionLoop
  <2>2. UNCHANGED <<peer, ctx, tx, rx>>
    BY <2>1 DEF LoopSteps, kept, DoRun, DoTop, DoHello, DoPrepare, DoStart, DoStop, DoAwait,
       DoCollect, DoFetch, DoCloseConn, DoTimeout, DoAssign, DoError, DoCleanup, DoFinish
  <2>3. QED
    BY <2>1, <2>2
<1>2. CASE SessionBinds
  <2>1. Srv!BindReceiver /\ UNCHANGED <<srun, sown, leftover, client, network>>
    BY <1>2 DEF SessionBinds
  <2>2. QED
    BY <2>1 DEF Srv!BindReceiver
<1>3. CASE SessionWorker
  BY <1>3 DEF SessionWorker, Srv!BindFailed, Srv!ReceiveReturns, Srv!CloseUDP,
     Srv!CountReceived, Srv!SignalDone, Srv!NewSender, Srv!SendFails, Srv!SenderFails,
     Srv!SendReturns, Srv!SenderCollects, Srv!NotifySendComplete
<1>4. CASE SocketFails
  BY <1>4 DEF SocketFails, Srv!ReceiveFails
<1>5. QED
  BY <1>1, <1>2, <1>3, <1>4

(* The cases of a step, for what concerns client and network. *)
LEMMA Sides ==
    ASSUME Inv, [Next]_vars
    PROVE  \/ ClientMoves /\ UNCHANGED fields /\ (link' = "session" => peer' = peer)
           \/ Accept \/ Within \/ SessionReceives \/ SessionSends
BY Steps, ClientTakes, SessionFrame

(* The client's place, its connection and the session stay in line. *)
LEMMA LinkStep ==
    ASSUME Inv, [Next]_vars
    PROVE  LinkInv'
<1>i. LinkInv /\ TypeInv
  BY DEF Inv
<1>t. run \in Nat /\ srun \in Nat /\ dir \in {"uplink", "downlink"}
  BY <1>i DEF TypeInv
<1> USE <1>i, <1>t DEF LinkInv, Apart, Served
<1>1. CASE ClientMoves /\ UNCHANGED fields /\ (link' = "session" => peer' = peer)
  <2>0. srun' = srun /\ (link' = "session" => peer' = peer)
    BY <1>1 DEF fields
  <2>1. CASE Continues
    BY <2>0, <2>1 DEF Continues, GoOn
  <2>2. CASE Fails
    BY <2>0, <2>2 DEF Fails, Fail
  <2>3. CASE Succeeds
    BY <2>0, <2>3 DEF Succeeds, Succeed
  <2>4. CASE Opens
    BY <2>0, <2>4 DEF Opens
  <2>5. CASE Sends
    BY <2>0, <2>5 DEF Sends
  <2>6. CASE Dial
    BY <2>0, <2>6 DEF Dial
  <2>7. CASE CountMatched
    BY <2>0, <2>7 DEF CountMatched
  <2>8. CASE Close
    <3>1. /\ cpc = "close" /\ link' = "none" /\ cpc' \in {"dial", "report"}
          /\ UNCHANGED <<run, crecv>>
      BY <2>8 DEF Close
    <3>2. QED
      BY <2>0, <3>1
  <2>9. CASE ClientReceive \/ Drop \/ Duplicate \/ Idles
    BY <2>0, <2>9 DEF ClientReceive, Drop, Duplicate, Idles
  <2>10. QED
    BY <1>1, <2>1, <2>2, <2>3, <2>4, <2>5, <2>6, <2>7, <2>8, <2>9 DEF ClientMoves
<1>2. CASE Accept
  BY <1>2 DEF Accept
<1>3. CASE Within
  BY <1>3 DEF Within
<1>4. CASE SessionReceives
  BY <1>4 DEF SessionReceives, Srv!ReceiveDatagram
<1>5. CASE SessionSends
  BY <1>5 DEF SessionSends, Srv!SendPacket
<1>6. QED
  BY <1>1, <1>2, <1>3, <1>4, <1>5, Sides

(* The sweep has no more runs than two for each test. *)
LEMMA RunInRange ==
    ASSUME TypeInv, TestInv, LinkInv
    PROVE  /\ run <= 2 * Len(Tests)
           /\ cpc = "dial" => run + 1 \in Runs
           /\ link # "none" => run \in Runs
<1>1. Len(Tests) \in Nat
  BY OrchestrationAssumption
<1>2. run \in Nat /\ test \in Nat
  BY DEF TypeInv
<1>3. run <= 2 * Len(Tests)
  BY <1>1, <1>2 DEF TestInv
<1>4. cpc = "dial" => run + 1 <= 2 * Len(Tests)
  BY <1>1, <1>2 DEF TestInv, Served
<1>5. link # "none" => run >= 1
  BY DEF LinkInv
<1>6. QED
  BY <1>1, <1>2, <1>3, <1>4, <1>5 DEF Runs

(* A datagram that is counted is one of those that may be received. *)
LEMMA CountsFit ==
    ASSUME NEW k \in Nat, k <= PacketCount + MaxDups
    PROVE  MaxReceived \in Nat /\ k \in 0 .. MaxReceived
<1>1. Len(Tests) \in Nat /\ Len(Tests) >= 1 /\ PacketCount \in Nat /\ MaxDups \in Nat
  BY OrchestrationAssumption
<1>2. \A n, p \in Nat : n >= 1 => 2 * n * p \in Nat /\ 2 * n * p >= p
  <2>1. \A n, p \in Nat : n >= 1 => n * p \in Nat /\ n * p >= p
    OBVIOUS
  <2>2. \A n, p \in Nat : 2 * n * p = n * p + n * p
    OBVIOUS
  <2>3. QED
    BY <2>1, <2>2
<1>3. 2 * Len(Tests) * PacketCount \in Nat /\ 2 * Len(Tests) * PacketCount >= PacketCount
  BY <1>1, <1>2
<1>4. QED
  BY <1>1, <1>3 DEF MaxReceived

(* The result a client takes reports the packets asked for as sent. *)
LEMMA ResultTyped ==
    ASSUME Inv, Succeeds
    PROVE  /\ TestResult(Head(out)) \in ResultRecord
           /\ OutOK(Head(out))
<1> DEFINE m == Head(out)
<1>i. TypeInv /\ OutInv
  BY DEF Inv
<1>1. m.type = "result" /\ out # <<>> /\ out \in Seq(Srv!Response)
  BY <1>i DEF Succeeds, TypeInv
<1>2. Pending(m)
  BY <1>1 DEF Pending
<1>3. OutOK(m)
  BY <1>i, <1>2 DEF OutInv
<1>4. m.sent = PacketCount /\ m.received \in Nat /\ m.received <= rx
  BY <1>1, <1>3 DEF OutOK
<1>5. m.received \in 0 .. MaxReceived
  <2>0. MaxReceived \in Nat
    BY CountsFit, OrchestrationAssumption
  <2>1. rx \in 0 .. MaxReceived
    BY <1>i DEF TypeInv, Srv!FieldsOK, MaxReceived
  <2>2. QED
    BY <1>4, <2>0, <2>1
<1>6. matched \in Nat /\ matched <= PacketCount + MaxDups
  BY <1>i, OrchestrationAssumption DEF TypeInv
<1>7. matched \in 0 .. MaxReceived
  BY <1>6, CountsFit
<1>8. /\ test \in Nat /\ dir \in {"uplink", "downlink"} /\ sown \in Nat
      /\ hasty \in BOOLEAN
  BY <1>i DEF TypeInv
<1>9. TestResult(m) \in ResultRecord
  BY <1>4, <1>5, <1>6, <1>7, <1>8 DEF TestResult, ResultRecord
<1>10. QED
  BY <1>3, <1>9

(* The sweep goes on test by test, and run by run. *)
LEMMA TestStep ==
    ASSUME Inv, [Next]_vars
    PROVE  TestInv'
<1>i. TypeInv /\ LinkInv /\ TestInv
  BY DEF Inv
<1>t. test \in Nat /\ run \in Nat /\ Len(Tests) \in Nat
  BY <1>i, OrchestrationAssumption DEF TypeInv
<1>h. half' = half => HalfTyped' = HalfTyped
  BY DEF HalfTyped
<1> USE <1>i, <1>t, <1>h DEF TestInv, Served
<1>1. CASE UNCHANGED <<cpc, test, half, dir, run>>
  BY <1>1
<1>2. CASE Continues
  BY <1>2 DEF Continues, GoOn
<1>3. CASE Fails
  BY <1>3 DEF Fails, Fail
<1>4. CASE Succeeds
  <2>1. cpc = "result" /\ Succeed(TestResult(Head(out)))
    BY <1>4 DEF Succeeds
  <2>2. CASE Tests[test] = "both" /\ dir = "uplink"
    <3>1. half' = <<TestResult(Head(out))>> /\ test' = test /\ cpc' = "close" /\ run' = run
      BY <2>1, <2>2 DEF Succeed
    <3>2. HalfTyped' /\ half' # <<>>
      BY <1>4, <3>1, ResultTyped DEF HalfTyped
    <3>3. QED
      BY <2>1, <2>2, <3>1, <3>2
  <2>3. CASE ~(Tests[test] = "both" /\ dir = "uplink")
    <3>1. half' = <<>> /\ test' = test + 1 /\ cpc' = "close" /\ run' = run
      BY <2>1, <2>3 DEF Succeed
    <3>2. QED
      BY <2>1, <3>1
  <2>4. QED
    BY <2>2, <2>3
<1>5. CASE Dial
  BY <1>5 DEF Dial
<1>6. CASE CountMatched
  BY <1>6 DEF CountMatched
<1>7. CASE Close
  <2>1. /\ cpc = "close" /\ UNCHANGED <<test, half, run>>
        /\ dir' = IF half # <<>> THEN "downlink"
                  ELSE IF test <= Len(Tests) THEN FirstDir(Tests[test]) ELSE dir
        /\ cpc' = IF test <= Len(Tests) THEN "dial" ELSE "report"
    BY <1>7 DEF Close
  <2>2. QED
    BY <2>1
<1>8. CASE ClientMoves
  BY <1>1, <1>2, <1>3, <1>4, <1>5, <1>6, <1>7, <1>8 DEF ClientMoves, Opens, Sends,
     ClientReceive, Drop, Duplicate, Idles
<1>9. CASE Accept \/ Within \/ SessionReceives \/ SessionSends
  BY <1>1, <1>9 DEF Accept, Within, SessionReceives, SessionSends
<1>10. QED
  BY <1>8, <1>9, Sides

(* The client's end of the connection is open, closed or reset. *)
LEMMA OutsidePeer ==
    ASSUME Inv, Outside
    PROVE  peer' \in {"open", "closed", "reset"}
<1>i. peer \in {"open", "closed", "reset"}
  BY DEF Inv, TypeInv, Srv!FieldsOK
<1>1. CASE Close
  <2>1. CASE link = "session" /\ out = <<>>
    BY <1>1, <2>1 DEF Close
  <2>2. CASE link = "session" /\ out # <<>>
    BY <1>1, <2>2 DEF Close
  <2>3. CASE link # "session"
    BY <1>i, <1>1, <2>3 DEF Close
  <2>4. QED
    BY <2>1, <2>2, <2>3
<1>2. CASE Plan \/ Dial \/ ConnectFails \/ Rejected \/ OpenReceiver \/ SpawnReceiver
  BY <1>i, <1>2 DEF Plan, Dial, ConnectFails, Rejected, OpenReceiver, SpawnReceiver
<1>3. CASE SendProbe \/ CountMatched \/ Finish \/ ClientReceive \/ ReceiveTimesOut
  BY <1>i, <1>3 DEF SendProbe, CountMatched, Finish, ClientReceive, ReceiveTimesOut
<1>4. CASE Hello \/ Prepare \/ Start \/ SendComplete \/ FetchResult
  BY <1>i, <1>4 DEF Hello, Prepare, Start, SendComplete, FetchResult, Writes
<1>5. CASE AwaitReady \/ AwaitSendComplete \/ AwaitResult
  BY <1>i, <1>5 DEF AwaitReady, AwaitSendComplete, AwaitResult, Receives
<1>6. CASE LeftoverStep \/ Drop \/ Duplicate \/ ResetByPeer \/ Terminated \/ UNCHANGED vars
  BY <1>i, <1>6 DEF LeftoverStep, Drop, Duplicate, ResetByPeer, Terminated
<1>7. QED
  BY <1>1, <1>2, <1>3, <1>4, <1>5, <1>6 DEF Outside, ClientStep

(* The session's fields keep their types. *)
LEMMA FieldsStep ==
    ASSUME Inv, [Next]_vars
    PROVE  (Srv!FieldsOK /\ ctx = "live" /\ hasty \in BOOLEAN)'
<1>i. TypeInv
  BY DEF Inv
<1>t. Srv!FieldsOK /\ ctx = "live" /\ hasty \in BOOLEAN
  BY <1>i DEF TypeInv
<1>m. 0 \in 0 .. (2 * Len(Tests) * PacketCount + MaxDups)
  BY CountsFit, OrchestrationAssumption DEF MaxReceived
<1> USE <1>t DEF Srv!FieldsOK, Srv!SessionState, Srv!LoopPCs, Srv!WorkerPCs, Srv!Direction, Srv!Family
<1>1. CASE Outside
  <2>1. UNCHANGED fields
    BY <1>1, OutsideFrame
  <2>2. CASE link' = "session"
    <3>1. peer' = peer
      BY <1>1, <2>2, ClientTakes
    <3>2. QED
      BY <2>1, <3>1 DEF fields
  <2>3. CASE link' # "session"
    <3>1. peer' \in {"open", "closed", "reset"}
      BY <1>1, <2>3, OutsidePeer
    <3>2. QED
      BY <2>1, <3>1 DEF fields
  <2>4. QED
    BY <2>2, <2>3
<1>2. CASE Accept
  <2>1. CASE pc = "done"
    <3>1. /\ state' = "idle" /\ pc' = "idle" /\ seen' = "idle"
          /\ direction' = "uplink" /\ family' = "ipv4"
          /\ sock' = "open" /\ receiver' = "nil" /\ rsock' = "none"
          /\ quitCh' = "nil" /\ receiverDone' = "nil" /\ w' = "none"
          /\ peer' = "open" /\ ctx' = ctx /\ hasty' = FALSE
      BY <1>2, <2>1 DEF Accept
    <3>2. tx' = 0 /\ rx' = 0 /\ sentCount' = 0 /\ receivedCount' = 0
      BY <1>2, <2>1 DEF Accept
    <3>3. 0 \in 0 .. PacketCount
      BY OrchestrationAssumption
    <3>4. QED
      BY <1>m, <3>1, <3>2, <3>3
  <2>2. CASE pc # "done"
    BY <1>2, <2>2 DEF Accept
  <2>3. QED
    BY <2>1, <2>2
<1>3. CASE SessionLoop
  <2>0. /\ LoopSteps
        /\ hasty' = (hasty \/ (w = "spawned" /\ direction # "downlink" /\ pc # "top"))
    BY <1>3, LoopTakes DEF SessionLoop
  <2>u. UNCHANGED <<srun, sown, leftover, client, network>>
    BY <1>3 DEF SessionLoop
  <2>1. CASE DoRun
    BY <2>0, <2>u, <2>1 DEF DoRun, kept
  <2>2. CASE DoTop
    BY <2>0, <2>u, <2>2 DEF DoTop, kept
  <2>3. CASE DoHello
    BY <2>0, <2>u, <2>3 DEF DoHello, kept, Reading, Reads
  <2>4. CASE DoPrepare
    BY <2>0, <2>u, <2>4, OrchestrationAssumption DEF DoPrepare, kept, Reading,
       Reads
  <2>5. CASE DoStart
    BY <2>0, <2>u, <2>5 DEF DoStart, kept, Reading, Reads
  <2>6. CASE DoStop
    BY <2>0, <2>u, <2>6 DEF DoStop, kept, Reading, Reads
  <2>7. CASE DoAwait
    BY <2>0, <2>u, <2>7 DEF DoAwait, kept
  <2>8. CASE DoCollect
    BY <2>0, <2>u, <2>8 DEF DoCollect, kept
  <2>9. CASE DoFetch
    BY <2>0, <2>u, <2>9 DEF DoFetch, kept, Reading, Reads
  <2>10. CASE DoCloseConn
    BY <2>0, <2>u, <2>10 DEF DoCloseConn, kept
  <2>11. CASE DoTimeout
    BY <2>0, <2>u, <2>11 DEF DoTimeout, kept
  <2>12. CASE DoAssign
    BY <2>0, <2>u, <2>12 DEF DoAssign, kept
  <2>13. CASE DoError
    BY <2>0, <2>u, <2>13 DEF DoError, kept
  <2>14. CASE DoCleanup
    BY <2>0, <2>u, <2>14 DEF DoCleanup, kept
  <2>15. CASE DoFinish
    BY <2>0, <2>u, <2>15 DEF DoFinish, kept
  <2>16. QED
    BY <2>0, <2>1, <2>2, <2>3, <2>4, <2>5, <2>6, <2>7, <2>8, <2>9, <2>10, <2>11,
       <2>12, <2>13, <2>14, <2>15 DEF LoopSteps
<1>4. CASE SessionBinds
  <2>1. Srv!BindReceiver /\ UNCHANGED hasty
    BY <1>4 DEF SessionBinds
  <2>2. QED
    BY <2>1 DEF Srv!BindReceiver
<1>5. CASE SessionReceives
  <2>1. Srv!ReceiveDatagram /\ UNCHANGED hasty
    BY <1>5 DEF SessionReceives
  <2>2. MaxReceived \in Nat /\ rx \in 0 .. MaxReceived
    BY CountsFit, OrchestrationAssumption DEF MaxReceived
  <2>3. rx' = rx + 1 /\ rx < MaxReceived
    BY <2>1 DEF Srv!ReceiveDatagram, MaxReceived
  <2>4. rx' \in 0 .. MaxReceived
    BY <2>2, <2>3
  <2>5. QED
    BY <2>1, <2>4 DEF Srv!ReceiveDatagram, MaxReceived
<1>6. CASE SessionSends
  BY <1>6, OrchestrationAssumption DEF SessionSends, Srv!SendPacket
<1>7. CASE SessionWorker
  <2>u. UNCHANGED <<srun, sown, hasty, leftover, client, network>>
    BY <1>7 DEF SessionWorker
  <2>1. CASE Srv!BindFailed
    BY <2>u, <2>1 DEF Srv!BindFailed
  <2>2. CASE Srv!ReceiveReturns
    BY <2>u, <2>2 DEF Srv!ReceiveReturns
  <2>3. CASE Srv!CloseUDP
    BY <2>u, <2>3 DEF Srv!CloseUDP
  <2>4. CASE Srv!CountReceived
    BY <2>u, <2>4 DEF Srv!CountReceived, Srv!Received, Srv!Received
  <2>5. CASE Srv!SignalDone
    BY <2>u, <2>5 DEF Srv!SignalDone
  <2>6. CASE Srv!NewSender
    BY <2>u, <2>6 DEF Srv!NewSender, Srv!SenderFails
  <2>7. CASE Srv!SendFails
    BY <2>u, <2>7 DEF Srv!SendFails, Srv!SenderFails
  <2>8. CASE Srv!SendReturns
    BY <2>u, <2>8, OrchestrationAssumption DEF Srv!SendReturns
  <2>9. CASE Srv!SenderCollects
    BY <2>u, <2>9 DEF Srv!SenderCollects, Srv!SenderFails
  <2>10. CASE Srv!NotifySendComplete
    BY <2>u, <2>10 DEF Srv!NotifySendComplete
  <2>11. QED
    BY <1>7, <2>1, <2>2, <2>3, <2>4, <2>5, <2>6, <2>7, <2>8, <2>9, <2>10 DEF
       SessionWorker
<1>8. CASE SocketFails
  BY <1>8 DEF SocketFails, Srv!ReceiveFails
<1>9. QED
  BY <1>1, <1>2, <1>3, <1>4, <1>5, <1>6, <1>7, <1>8, Steps

(* The responses keep their types. *)
LEMMA ResponsesStep ==
    ASSUME Inv, [Next]_vars
    PROVE  out' \in Seq(Srv!Response)
<1>i. TypeInv /\ out \in Seq(Srv!Response)
  BY DEF Inv, TypeInv
<1>a. \A n \in Srv!Response : Srv!Attempt(n) => out' \in Seq(Srv!Response)
  BY <1>i, WriteAdds
<1>k. out' = out => out' \in Seq(Srv!Response)
  BY <1>i
<1>1. CASE Outside
  BY <1>1, <1>k, <1>i, OutsideFrame, TakeRemoves
<1>2. CASE Accept
  <2>1. out' = <<>> \/ out' = out
    BY <1>2 DEF Accept
  <2>2. <<>> \in Seq(Srv!Response)
    OBVIOUS
  <2>3. QED
    BY <2>1, <2>2, <1>k
<1>3. CASE SessionLoop
  <2>0. LoopSteps
    BY <1>3, LoopTakes DEF SessionLoop
  <2>1. CASE DoPrepare
    BY <2>1, <1>a, ResponsesTyped DEF DoPrepare, Srv!Attempt
  <2>2. CASE DoFetch
    BY <2>2, <1>i, <1>a, ResponsesTyped DEF DoFetch
  <2>3. CASE DoError
    BY <2>3, <1>a, ResponsesTyped DEF DoError
  <2>4. CASE ~(DoPrepare \/ DoFetch \/ DoError)
    BY <2>0, <2>4, <1>k DEF LoopSteps, DoRun, DoTop, DoHello, DoStart, DoStop, DoAwait,
       DoCollect, DoCloseConn, DoTimeout, DoAssign, DoCleanup, DoFinish
  <2>5. QED
    BY <2>1, <2>2, <2>3, <2>4
<1>4. CASE SessionBinds
  <2>1. Srv!BindReceiver
    BY <1>4 DEF SessionBinds
  <2>2. QED
    BY <1>k, <2>1 DEF Srv!BindReceiver
<1>5. CASE SessionReceives \/ SessionSends \/ SocketFails
  BY <1>5, <1>k DEF SessionReceives, Srv!ReceiveDatagram, SessionSends, Srv!SendPacket,
     SocketFails, Srv!ReceiveFails
<1>6. CASE SessionWorker
  BY <1>6, <1>a, <1>k, ResponsesTyped DEF SessionWorker, Srv!BindFailed, Srv!ReceiveReturns,
     Srv!CloseUDP, Srv!CountReceived, Srv!SignalDone, Srv!NewSender, Srv!SendFails,
     Srv!SenderFails, Srv!SendReturns, Srv!SenderCollects, Srv!NotifySendComplete
<1>7. QED
  BY <1>1, <1>2, <1>3, <1>4, <1>5, <1>6, Steps

(* What a session leaves behind is no receiver that somebody should have    *)
(* stopped: at the end of the loop one that was running has been told to,   *)
(* or has lost its socket.                                                  *)
LEMMA NothingLeftBound ==
    ASSUME TypeInv, PortInv, pc = "done"
    PROVE  Residue \in {"none", "late", "closing", "orphan"}
<1>q. quitCh = "closed" \/ quitCh # "closed"
  OBVIOUS
<1>1. CASE direction # "downlink" /\ w = "spawned"
  BY <1>1 DEF Residue
<1>2. CASE w = "receiving" /\ rsock = "open" /\ quitCh # "closed"
  <2>1. hasty
    BY <1>2 DEF PortInv, TypeInv
  <2>2. QED
    BY <1>2, <2>1 DEF Residue
<1>3. CASE w = "receiving" /\ rsock = "open" /\ quitCh = "closed"
  BY <1>3 DEF Residue
<1>4. CASE w = "stopping" /\ rsock = "open"
  BY <1>4 DEF Residue
<1>5. CASE /\ ~(direction # "downlink" /\ w = "spawned")
           /\ ~(w = "receiving" /\ rsock = "open" /\ quitCh # "closed")
           /\ ~(\/ w = "receiving" /\ rsock = "open" /\ quitCh = "closed"
                \/ w = "stopping" /\ rsock = "open")
  BY <1>5 DEF Residue
<1>6. QED
  BY <1>1, <1>2, <1>3, <1>4, <1>5

(* No step leaves a port bound for the next session. *)
LEMMA LeftoverKept ==
    ASSUME Inv, [Next]_vars
    PROVE  /\ leftover' \in [Runs -> {"none", "late", "bound", "closing", "orphan"}]
           /\ NoPortLeak'
<1>i. TypeInv /\ TestInv /\ LinkInv /\ PortInv /\ NoPortLeak
  BY DEF Inv
<1>l. leftover \in [Runs -> {"none", "late", "closing", "orphan"}]
  BY <1>i DEF TypeInv, NoPortLeak
<1> SUFFICES leftover' \in [Runs -> {"none", "late", "closing", "orphan"}]
  BY DEF NoPortLeak
<1>1. CASE leftover' = leftover
  BY <1>1, <1>l
<1>2. CASE LeftoverStep
  <2>1. PICK r \in Runs :
            \/ leftover' = [leftover EXCEPT ![r] =
                   IF PortTaken \/ rsock = "open" THEN "none" ELSE "orphan"]
            \/ leftover' = [leftover EXCEPT ![r] = "none"]
    BY <1>2 DEF LeftoverStep
  <2>2. QED
    BY <1>l, <2>1
<1>3. CASE Accept
  <2>1. CASE pc = "done" /\ srun # 0
    <3>1. srun \in Runs
      <4>1. srun \in Nat /\ run \in Nat /\ srun <= run /\ Len(Tests) \in Nat
        BY <1>i, OrchestrationAssumption DEF TypeInv, LinkInv
      <4>2. run <= 2 * Len(Tests)
        BY <1>i, RunInRange
      <4>3. QED
        BY <2>1, <4>1, <4>2 DEF Runs
    <3>2. leftover' = [leftover EXCEPT ![srun] = Residue]
      BY <1>3, <2>1 DEF Accept
    <3>3. Residue \in {"none", "late", "closing", "orphan"}
      BY <1>i, <2>1, NothingLeftBound
    <3>4. QED
      BY <1>l, <3>1, <3>2, <3>3
  <2>2. CASE ~(pc = "done" /\ srun # 0)
    <3>1. leftover' = leftover
      BY <1>3, <2>2 DEF Accept
    <3>2. QED
      BY <1>1, <3>1
  <2>3. QED
    BY <2>1, <2>2
<1>4. CASE Plan \/ Dial \/ ConnectFails \/ Rejected \/ OpenReceiver \/ SpawnReceiver
  BY <1>1, <1>4 DEF Plan, Dial, ConnectFails, Rejected, OpenReceiver, SpawnReceiver
<1>5. CASE SendProbe \/ CountMatched \/ Finish \/ ClientReceive \/ ReceiveTimesOut \/ Close
  BY <1>1, <1>5 DEF SendProbe, CountMatched, Finish, ClientReceive, ReceiveTimesOut, Close
<1>6. CASE Hello \/ Prepare \/ Start \/ SendComplete \/ FetchResult
  BY <1>1, <1>6 DEF Hello, Prepare, Start, SendComplete, FetchResult, Writes
<1>7. CASE AwaitReady \/ AwaitSendComplete \/ AwaitResult
  BY <1>1, <1>7 DEF AwaitReady, AwaitSendComplete, AwaitResult, Receives
<1>8. CASE Drop \/ Duplicate \/ ResetByPeer \/ Terminated \/ UNCHANGED vars
  BY <1>1, <1>8 DEF Drop, Duplicate, ResetByPeer, Terminated
<1>9. CASE Outside
  BY <1>2, <1>4, <1>5, <1>6, <1>7, <1>8, <1>9 DEF Outside, ClientStep
<1>10. CASE SessionLoop \/ SessionBinds \/ SessionWorker \/ SocketFails
  BY <1>1, <1>10, SessionFrame DEF Within
<1>11. CASE SessionReceives \/ SessionSends
  BY <1>1, <1>11 DEF SessionReceives, SessionSends
<1>12. QED
  BY <1>3, <1>9, <1>10, <1>11, Steps

(* The client's variables and the network's keep their types. *)
ClientTyped ==
    /\ sown \in Nat /\ srun \in Nat
    /\ test \in Nat /\ run \in Nat /\ dir \in {"uplink", "downlink"}
    /\ csent \in 0 .. PacketCount /\ crx \in Nat
    /\ matched \in 0 .. (PacketCount + dups)
    /\ crecv \in {"none", "bound", "receiving"}
    /\ air \in [Runs -> Nat] /\ dups \in 0 .. MaxDups

LEMMA ClientTypesStep ==
    ASSUME Inv, [Next]_vars
    PROVE  ClientTyped'
<1>i. TypeInv /\ LinkInv /\ AirInv /\ TestInv
  BY DEF Inv
<1>t. ClientTyped /\ tx \in 0 .. PacketCount
  BY <1>i DEF TypeInv, ClientTyped, Srv!FieldsOK
<1>p. PacketCount \in Nat /\ MaxDups \in Nat
  BY OrchestrationAssumption
<1>r. link # "none" => run \in Runs
  BY <1>i, RunInRange
<1> USE <1>t, <1>p, <1>r DEF ClientTyped
<1>1. CASE ClientMoves /\ UNCHANGED fields
  <2>0. sown' = sown /\ srun' = srun
    BY <1>1 DEF fields
  <2>1. CASE Continues
    BY <2>0, <2>1 DEF Continues, GoOn
  <2>2. CASE Fails
    BY <2>0, <2>2 DEF Fails, Fail
  <2>3. CASE Succeeds
    BY <2>0, <2>3 DEF Succeeds, Succeed
  <2>4. CASE Opens \/ Idles
    BY <2>0, <2>4 DEF Opens, Idles
  <2>5. CASE Sends
    <3>1. run \in Runs
      BY <1>i, <2>5 DEF Sends, LinkInv, Served
    <3>2. air' \in [Runs -> Nat]
      BY <2>5, <3>1 DEF Sends
    <3>3. QED
      BY <2>0, <2>5, <3>2 DEF Sends
  <2>6. CASE Dial
    BY <2>0, <2>6 DEF Dial
  <2>7. CASE CountMatched
    <3>1. link = "session" /\ dir = "downlink" /\ run \in Runs
      BY <1>i, <2>7 DEF CountMatched, LinkInv, Served
    <3>2. crx + air[run] <= tx + dups /\ air[run] \in Nat
      BY <1>i, <3>1 DEF AirInv
    <3>3. crx \in 0 .. (PacketCount + dups)
      BY <3>2
    <3>4. QED
      BY <2>0, <2>7, <3>3 DEF CountMatched
  <2>8. CASE Close
    <3>1. dir' \in {"uplink", "downlink"}
      BY <2>8 DEF Close, FirstDir
    <3>2. air' = air \/ air' = [air EXCEPT ![run] = 0]
      BY <2>8 DEF Close
    <3>3. air' \in [Runs -> Nat]
      BY <3>2
    <3>4. UNCHANGED <<run, counts, sweep, dups>>
      BY <2>8 DEF Close
    <3>5. QED
      BY <2>0, <3>1, <3>3, <3>4
  <2>9. CASE ClientReceive
    <3>1. run \in Runs
      BY <1>i, <2>9 DEF ClientReceive, LinkInv, Served
    <3>2. air' \in [Runs -> Nat]
      BY <2>9, <3>1 DEF ClientReceive
    <3>3. QED
      BY <2>0, <2>9, <3>2 DEF ClientReceive
  <2>10. CASE Drop
    <3>1. PICK r \in Runs : air[r] > 0 /\ air' = [air EXCEPT ![r] = @ - 1]
      BY <2>10 DEF Drop
    <3>2. air' \in [Runs -> Nat]
      BY <3>1
    <3>3. QED
      BY <2>0, <2>10, <3>2 DEF Drop
  <2>11. CASE Duplicate
    <3>1. PICK r \in Runs : air' = [air EXCEPT ![r] = @ + 1]
      BY <2>11 DEF Duplicate
    <3>2. air' \in [Runs -> Nat]
      BY <3>1
    <3>3. QED
      BY <2>0, <2>11, <3>2 DEF Duplicate
  <2>12. QED
    BY <1>1, <2>1, <2>2, <2>3, <2>4, <2>5, <2>6, <2>7, <2>8, <2>9, <2>10, <2>11
       DEF ClientMoves
<1>2. CASE Accept
  BY <1>2 DEF Accept
<1>3. CASE Within
  BY <1>3 DEF Within
<1>4. CASE SessionReceives
  <2>1. PICK r \in Runs : /\ air[r] > 0 /\ air' = [air EXCEPT ![r] = @ - 1]
                          /\ sown' = IF r = srun THEN sown + 1 ELSE sown
    BY <1>4 DEF SessionReceives
  <2>2. air' \in [Runs -> Nat] /\ sown' \in Nat
    BY <2>1
  <2>3. QED
    BY <1>4, <2>2 DEF SessionReceives
<1>5. CASE SessionSends
  <2>1. air' = air \/ (run \in Runs /\ air' = [air EXCEPT ![run] = @ + 1])
    BY <1>i, <1>5 DEF SessionSends, LinkInv, Served
  <2>2. air' \in [Runs -> Nat]
    BY <2>1
  <2>3. QED
    BY <1>5, <2>2 DEF SessionSends
<1>6. QED
  BY <1>1, <1>2, <1>3, <1>4, <1>5, Sides

(* The results of a sweep are extended by the half of a "both" test and the *)
(* new result, and are of the same set S as these.                          *)
Collected(S) == results \in Seq(S) /\ (half = <<>> \/ \E h \in S : half = <<h>>)

LEMMA Extends ==
    ASSUME NEW S, Collected(S), NEW r \in S, Succeed(r)
    PROVE  Collected(S)'
<1>1. CASE Tests[test] = "both" /\ dir = "uplink"
  <2>1. half' = <<r>> /\ results' = results
    BY <1>1 DEF Succeed
  <2>2. QED
    BY <2>1 DEF Collected
<1>2. CASE ~(Tests[test] = "both" /\ dir = "uplink")
  <2>1. half' = <<>> /\ results' = results \o half \o <<r>>
    BY <1>2 DEF Succeed
  <2>2. results \in Seq(S) /\ half \in Seq(S) /\ <<r>> \in Seq(S)
    <3>1. <<>> \in Seq(S) /\ \A h \in S : <<h>> \in Seq(S)
      OBVIOUS
    <3>2. half \in Seq(S)
      BY <3>1 DEF Collected
    <3>3. QED
      BY <3>1, <3>2 DEF Collected
  <2>3. results \o half \o <<r>> \in Seq(S)
    BY <2>2
  <2>4. QED
    BY <2>1, <2>3 DEF Collected
<1>3. QED
  BY <1>1, <1>2

(* No other step adds to the results; a failure drops the half. *)
LEMMA Results ==
    ASSUME Inv, [Next]_vars
    PROVE  \/ Succeeds
           \/ results' = results /\ half' \in {half, <<>>}
<1>1. CASE ClientMoves
  BY <1>1 DEF ClientMoves, Continues, GoOn, Fails, Fail, Opens, Sends, Dial, CountMatched,
     Close, ClientReceive, Drop, Duplicate, Idles
<1>2. CASE Accept \/ Within \/ SessionReceives \/ SessionSends
  BY <1>2 DEF Accept, Within, SessionReceives, SessionSends
<1>3. QED
  BY <1>1, <1>2, Sides

(* The type invariant is preserved. *)
LEMMA TypeStep ==
    ASSUME Inv, [Next]_vars
    PROVE  TypeInv'
<1>1. Collected(ResultRecord)
  BY DEF Inv, TypeInv, TestInv, HalfTyped, Collected
<1>2. results' \in Seq(ResultRecord)
  <2>1. CASE Succeeds
    <3>1. Collected(ResultRecord)'
      BY <1>1, <2>1, ResultTyped, Extends DEF Succeeds
    <3>2. QED
      BY <3>1 DEF Collected, ResultRecord
  <2>2. QED
    BY <1>1, <2>1, Results DEF Collected
<1>3. QED
  BY <1>2, FieldsStep, ResponsesStep, LeftoverKept, ClientTypesStep DEF TypeInv, ClientTyped

(* Every datagram in flight is of a run that has begun, and a downlink run   *)
(* has no more of them than were sent and duplicated.                        *)
LEMMA AirStep ==
    ASSUME Inv, [Next]_vars
    PROVE  AirInv'
<1>i. TypeInv /\ LinkInv /\ TestInv /\ AirInv
  BY DEF Inv
<1>t. /\ run \in Nat /\ crx \in Nat /\ srun \in Nat /\ tx \in Nat /\ dups \in Nat
      /\ air \in [Runs -> Nat] /\ csent \in Nat
  BY <1>i, OrchestrationAssumption DEF TypeInv, Srv!FieldsOK
<1>r. (link # "none" => run \in Runs) /\ (cpc = "dial" => run + 1 \in Runs)
  BY <1>i, RunInRange
<1>n. \A r \in Runs : r \in Nat
  BY OrchestrationAssumption DEF Runs
<1> USE <1>i, <1>t, <1>r DEF AirInv
<1>1. CASE ClientMoves /\ UNCHANGED fields
  <2>0. srun' = srun /\ tx' = tx
    BY <1>1 DEF fields
  <2>1. CASE Continues
    BY <2>0, <2>1 DEF Continues, GoOn
  <2>2. CASE Fails
    BY <2>0, <2>2 DEF Fails, Fail
  <2>3. CASE Succeeds
    BY <2>0, <2>3 DEF Succeeds, Succeed
  <2>4. CASE Opens \/ Idles
    BY <2>0, <2>4 DEF Opens, Idles
  <2>5. CASE Sends
    <3>1. link = "session" /\ dir = "uplink" /\ run \in Runs
      BY <2>5 DEF Sends, LinkInv, Served
    <3>2. \A r \in Runs : r > run => air'[r] = air[r]
      BY <2>5, <3>1 DEF Sends
    <3>3. UNCHANGED <<run, link, dir>>
      BY <2>5 DEF Sends
    <3>4. QED
      BY <3>1, <3>2, <3>3
  <2>6. CASE Dial
    <3>1. run' = run + 1 /\ link' = "backlog" /\ csent' = 0 /\ crx' = 0 /\ air' = air
      BY <2>6 DEF Dial
    <3>2. air[run + 1] = 0
      BY <2>6 DEF Dial
    <3>3. \A r \in Runs : r > run + 1 => air[r] = 0
      BY <1>n
    <3>4. srun < run + 1
      BY DEF LinkInv
    <3>5. QED
      BY <2>0, <3>1, <3>2, <3>3, <3>4
  <2>7. CASE CountMatched
    BY <2>0, <2>7 DEF CountMatched
  <2>8. CASE Close
    <3>1. link' = "none" /\ run' = run
      BY <2>8 DEF Close
    <3>2. air' = air \/ air' = [air EXCEPT ![run] = 0]
      BY <2>8 DEF Close
    <3>3. \A r \in Runs : r > run => air'[r] = 0
      BY <3>2
    <3>4. QED
      BY <3>1, <3>3
  <2>9. CASE ClientReceive
    <3>1. link = "session" /\ run \in Runs /\ link' = link /\ run' = run
      BY <2>9 DEF ClientReceive, LinkInv, Served
    <3>2. crx' = crx + 1 /\ air[run] > 0 /\ air' = [air EXCEPT ![run] = @ - 1]
      BY <2>9 DEF ClientReceive
    <3>3. \A r \in Runs : r > run => air'[r] = 0
      BY <3>1, <3>2
    <3>4. crx' + air'[run] = crx + air[run]
      BY <3>1, <3>2
    <3>5. UNCHANGED <<dir, dups>>
      BY <2>9 DEF ClientReceive
    <3>6. QED
      BY <2>0, <3>1, <3>3, <3>4, <3>5
  <2>10. CASE Drop
    <3>1. PICK r \in Runs : air[r] > 0 /\ air' = [air EXCEPT ![r] = @ - 1]
      BY <2>10 DEF Drop
    <3>2. \A q \in Runs : air'[q] <= air[q] /\ (air[q] = 0 => air'[q] = 0) /\ air'[q] \in Nat
      BY <3>1
    <3>3. UNCHANGED <<run, link, crx, csent, dir, dups>>
      BY <2>10 DEF Drop
    <3>4. link # "none" => air'[run] <= air[run] /\ air'[run] \in Nat /\ air[run] \in Nat
      BY <3>2
    <3>5. link # "none" /\ air[run] = 0 => air'[run] = 0
      BY <3>2
    <3>6. link = "session" /\ dir = "downlink" => crx + air'[run] <= tx + dups
      BY <3>4
    <3>7. QED
      BY <2>0, <3>2, <3>3, <3>5, <3>6
  <2>11. CASE Duplicate
    <3>1. PICK r \in Runs : air[r] > 0 /\ air' = [air EXCEPT ![r] = @ + 1]
      BY <2>11 DEF Duplicate
    <3>2. \A q \in Runs : /\ air'[q] <= air[q] + 1 /\ (air[q] = 0 => air'[q] = 0)
                          /\ air'[q] \in Nat
      BY <3>1
    <3>3. UNCHANGED <<run, link, crx, csent, dir>> /\ dups' = dups + 1
      BY <2>11 DEF Duplicate
    <3>4. link # "none" => air'[run] <= air[run] + 1 /\ air'[run] \in Nat /\ air[run] \in Nat
      BY <3>2
    <3>5. link # "none" /\ air[run] = 0 => air'[run] = 0
      BY <3>2
    <3>6. link = "session" /\ dir = "downlink" => crx + air'[run] <= tx + dups'
      BY <3>3, <3>4
    <3>7. QED
      BY <2>0, <3>2, <3>3, <3>5, <3>6
  <2>12. QED
    BY <1>1, <2>1, <2>2, <2>3, <2>4, <2>5, <2>6, <2>7, <2>8, <2>9, <2>10, <2>11
       DEF ClientMoves
<1>2. CASE Accept
  <2>1. link = "backlog" /\ UNCHANGED <<run, csent, crx, air, dir, dups>>
    BY <1>2 DEF Accept
  <2>2. CASE pc = "done"
    <3>1. link' = "session" /\ tx' = 0
      BY <1>2, <2>2 DEF Accept
    <3>2. QED
      BY <2>1, <3>1
  <2>3. CASE pc # "done"
    <3>1. link' = "rejected" /\ srun' = srun
      BY <1>2, <2>3 DEF Accept
    <3>2. QED
      BY <2>1, <3>1
  <2>4. QED
    BY <2>2, <2>3
<1>3. CASE Within
  BY <1>3 DEF Within
<1>4. CASE SessionReceives
  <2>1. PICK r \in Runs : /\ air[r] > 0 /\ (r = run => dir = "uplink")
                          /\ air' = [air EXCEPT ![r] = @ - 1]
    BY <1>4 DEF SessionReceives
  <2>2. \A q \in Runs : air'[q] <= air[q] /\ (air[q] = 0 => air'[q] = 0) /\ air'[q] \in Nat
    BY <2>1
  <2>3. UNCHANGED <<run, link, crx, csent, dir, dups, srun, tx>>
    BY <1>4 DEF SessionReceives, Srv!ReceiveDatagram
  <2>4. link # "none" => air'[run] <= air[run] /\ air'[run] \in Nat /\ air[run] \in Nat
    BY <2>2
  <2>5. link # "none" /\ air[run] = 0 => air'[run] = 0
    BY <2>2
  <2>6. link = "session" /\ dir = "downlink" => crx + air'[run] <= tx + dups
    BY <2>4
  <2>7. QED
    BY <2>2, <2>3, <2>5, <2>6
<1>5. CASE SessionSends
  <2>1. UNCHANGED <<run, link, crx, csent, dir, dups, srun>> /\ tx' = tx + 1
    BY <1>5 DEF SessionSends, Srv!SendPacket
  <2>2. CASE srun = run /\ crecv # "none"
    <3>1. link = "session" /\ run \in Runs
      BY <2>2 DEF LinkInv, Served
    <3>2. air' = [air EXCEPT ![run] = @ + 1]
      BY <1>5, <2>2 DEF SessionSends
    <3>3. \A r \in Runs : r > run => air'[r] = 0
      BY <3>1, <3>2
    <3>4. air'[run] = air[run] + 1 /\ air[run] \in Nat
      BY <3>1, <3>2
    <3>5. QED
      BY <2>1, <3>1, <3>3, <3>4
  <2>3. CASE ~(srun = run /\ crecv # "none")
    <3>1. air' = air
      BY <1>5, <2>3 DEF SessionSends
    <3>2. link # "none" => air[run] \in Nat
      OBVIOUS
    <3>3. QED
      BY <2>1, <3>1, <3>2
  <2>4. QED
    BY <2>2, <2>3
<1>6. QED
  BY <1>1, <1>2, <1>3, <1>4, <1>5, Sides

(* The invariant holds of a sweep that begins. *)
LEMMA InvInit ==
    ASSUME Init
    PROVE  Inv
<1> USE OrchestrationAssumption
<1>0. /\ Len(Tests) \in Nat /\ Len(Tests) >= 1
      /\ 0 \in 0 .. (2 * Len(Tests) * PacketCount + MaxDups)
  <2>1. Len(Tests) \in Nat /\ Len(Tests) >= 1
    OBVIOUS
  <2>2. QED
    BY <2>1, CountsFit DEF MaxReceived
<1>1. Srv!FieldsOK
  BY <1>0 DEF Init, Srv!FieldsOK, Srv!SessionState, Srv!LoopPCs, Srv!WorkerPCs,
     Srv!Direction, Srv!Family
<1>2. out \in Seq(Srv!Response) /\ results \in Seq(ResultRecord)
  BY DEF Init
<1>3. TypeInv
  <2>1. air \in [Runs -> Nat]
        /\ leftover \in [Runs -> {"none", "late", "bound", "closing", "orphan"}]
    BY DEF Init
  <2>2. /\ csent \in 0 .. PacketCount /\ matched \in 0 .. (PacketCount + dups)
        /\ dups \in 0 .. MaxDups /\ crx \in Nat
    BY DEF Init
  <2>3. dir \in {"uplink", "downlink"} /\ crecv = "none" /\ hasty \in BOOLEAN /\ ctx = "live"
    BY DEF Init, FirstDir
  <2>4. sown \in Nat /\ srun \in Nat /\ test \in Nat /\ run \in Nat
    BY DEF Init
  <2>5. QED
    BY <1>1, <1>2, <2>1, <2>2, <2>3, <2>4 DEF TypeInv
<1>4. LinkInv
  BY DEF Init, LinkInv, Apart, Served
<1>5. TestInv
  BY <1>0 DEF Init, TestInv, Served
<1>6. WorkerInv /\ LoopInv /\ StopInv /\ PortInv
  BY DEF Init, WorkerInv, LoopInv, StopInv, PortInv, Binding, Uplinking, Downlinking
<1>7. OutInv
  BY DEF Init, OutInv, Pending
<1>8. AlignInv /\ QuietInv /\ ClientInv
  BY DEF Init, AlignInv, QuietInv, ClientInv, Alive
<1>9. AirInv /\ NoPortLeak
  BY DEF Init, AirInv, NoPortLeak, Runs
<1>10. QED
  BY <1>3, <1>4, <1>5, <1>6, <1>7, <1>8, <1>9 DEF Inv

(* It is preserved by every step. *)
LEMMA InvStep ==
    ASSUME Inv, [Next]_vars
    PROVE  Inv'
BY TypeStep, LinkStep, TestStep, WorkerStep, LoopStep, StopStep, PortStep, OutStep,
   AlignStep, QuietStep, PlaceStep, AirStep, LeftoverKept DEF Inv

(* Client, session and network stay within the invariant: the types of all  *)
(* variables, and above all that every request of the client finds the      *)
(* session in the state that it is meant for.                               *)
THEOREM InvHolds == Spec => []Inv
<1>1. Init => Inv
  BY InvInit
<1>2. Inv /\ [Next]_vars => Inv'
  BY InvStep
<1>3. QED
  BY <1>1, <1>2, PTL DEF Spec

(* However a test of the bundled client ends, whatever fails and however    *)
(* long the sweep: no receiver that was running keeps the UDP port from the *)
(* next test.                                                               *)
THEOREM PortsReleased == Spec => []NoPortLeak
<1>1. Inv => NoPortLeak
  BY DEF Inv
<1>2. QED
  BY <1>1, InvHolds, PTL

-----------------------------------------------------------------------------
(***************************************************************************)
(* The counts, on a network that neither duplicates a datagram nor brings   *)
(* one of an earlier run.                                                   *)
(***************************************************************************)
GoodRecord ==
    {r \in ResultRecord : /\ r.received <= r.own
                          /\ r.received = r.own \/ r.late
                          /\ r.own <= r.sent}

(* Only the run under way has datagrams in flight, and the receiver of an   *)
(* uplink run has recorded its own ones only.                               *)
CleanInv ==
    /\ dups = 0 /\ rx = sown
    /\ \A r \in Runs : air[r] > 0 => r = run /\ link = "session"
    /\ link = "session" /\ dir = "uplink" => air[run] + rx <= csent

(* The step of CleanInv. *)
LEMMA CleanStep ==
    ASSUME NetFaults \cap {"late", "dup"} = {}, Inv, CleanInv, [Next]_vars
    PROVE  CleanInv'
<1>i. TypeInv /\ LinkInv /\ TestInv /\ AirInv
  BY DEF Inv
<1>t. /\ run \in Nat /\ srun \in Nat /\ rx \in Nat /\ sown \in Nat /\ csent \in Nat
      /\ air \in [Runs -> Nat]
  BY <1>i, OrchestrationAssumption DEF TypeInv, Srv!FieldsOK
<1>r. link # "none" => run \in Runs
  BY <1>i, RunInRange
<1>f. "late" \notin NetFaults /\ "dup" \notin NetFaults
  OBVIOUS
<1> USE <1>t, <1>r, <1>f DEF CleanInv
<1>1. CASE ClientMoves /\ UNCHANGED fields
  <2>0. rx' = rx /\ sown' = sown
    BY <1>1 DEF fields
  <2>1. CASE Continues
    BY <2>0, <2>1 DEF Continues, GoOn
  <2>2. CASE Fails
    BY <2>0, <2>2 DEF Fails, Fail
  <2>3. CASE Succeeds
    BY <2>0, <2>3 DEF Succeeds, Succeed
  <2>4. CASE Opens \/ Idles \/ CountMatched
    BY <2>0, <2>4 DEF Opens, Idles, CountMatched
  <2>5. CASE Sends
    <3>1. link = "session" /\ dir = "uplink" /\ run \in Runs
      BY <1>i, <2>5 DEF Sends, LinkInv, Served
    <3>2. csent' = csent + 1 /\ UNCHANGED <<run, link, dir, dups>>
      BY <2>5 DEF Sends
    <3>3. /\ air'[run] = air[run] + 1 /\ air[run] \in Nat
          /\ \A r \in Runs : r # run => air'[r] = air[r]
      BY <2>5, <3>1 DEF Sends
    <3>4. QED
      BY <2>0, <3>1, <3>2, <3>3
  <2>6. CASE Dial
    BY <2>0, <2>6 DEF Dial
  <2>7. CASE Close
    <3>1. link' = "none" /\ run' = run /\ dups' = dups
      BY <2>7 DEF Close
    <3>2. \A r \in Runs : r # 0
      BY OrchestrationAssumption DEF Runs
    <3>3. run > 0 => air' = [air EXCEPT ![run] = 0]
      BY <2>7 DEF Close
    <3>4. run = 0 => air' = air
      BY <2>7 DEF Close
    <3>5. \A r \in Runs : air'[r] = 0
      BY <3>2, <3>3, <3>4
    <3>6. QED
      BY <2>0, <3>1, <3>5
  <2>8. CASE ClientReceive
    <3>1. run \in Runs /\ dir = "downlink" /\ link = "session"
      BY <1>i, <2>8 DEF ClientReceive, LinkInv, Served
    <3>2. UNCHANGED <<run, link, dir, dups>>
      BY <2>8 DEF ClientReceive
    <3>3. \A r \in Runs : r # run => air'[r] = air[r]
      BY <2>8, <3>1 DEF ClientReceive
    <3>4. QED
      BY <2>0, <3>1, <3>2, <3>3
  <2>9. CASE Drop
    <3>1. PICK r \in Runs : air[r] > 0 /\ air' = [air EXCEPT ![r] = @ - 1]
      BY <2>9 DEF Drop
    <3>2. UNCHANGED <<run, link, dir, csent, dups>>
      BY <2>9 DEF Drop
    <3>3. \A q \in Runs : air'[q] <= air[q] /\ air'[q] \in Nat
      BY <3>1
    <3>4. \A q \in Runs : air'[q] > 0 => air[q] > 0
      BY <3>3
    <3>5. link = "session" /\ dir = "uplink" => air'[run] + rx <= csent
      BY <3>3
    <3>6. QED
      BY <2>0, <3>2, <3>4, <3>5
  <2>10. CASE Duplicate
    BY <2>10 DEF Duplicate
  <2>11. QED
    BY <1>1, <2>1, <2>2, <2>3, <2>4, <2>5, <2>6, <2>7, <2>8, <2>9, <2>10 DEF ClientMoves
<1>2. CASE Accept
  <2>1. link = "backlog" /\ UNCHANGED <<run, csent, air, dir, dups>>
    BY <1>2 DEF Accept
  <2>2. air[run] = 0 /\ csent = 0 /\ \A r \in Runs : ~(air[r] > 0)
    BY <1>i, <2>1 DEF AirInv
  <2>3. (rx' = 0 /\ sown' = 0) \/ (link' = "rejected" /\ rx' = rx /\ sown' = sown)
    BY <1>2 DEF Accept
  <2>4. QED
    BY <2>1, <2>2, <2>3
<1>3. CASE Within
  BY <1>3 DEF Within
<1>4. CASE SessionReceives
  <2>1. PICK r \in Runs : /\ air[r] > 0 /\ air' = [air EXCEPT ![r] = @ - 1]
                          /\ sown' = IF r = srun THEN sown + 1 ELSE sown
    BY <1>4 DEF SessionReceives
  <2>2. r = run /\ link = "session" /\ srun = run
    BY <1>i, <2>1 DEF LinkInv
  <2>3. rx' = rx + 1 /\ sown' = sown + 1 /\ UNCHANGED <<run, link, csent, dir, dups>>
    BY <1>4, <2>1, <2>2 DEF SessionReceives, Srv!ReceiveDatagram
  <2>4. /\ air'[run] = air[run] - 1 /\ air[run] \in Nat
        /\ \A q \in Runs : q # run => air'[q] = air[q]
    BY <2>1, <2>2
  <2>5. QED
    BY <2>2, <2>3, <2>4
<1>5. CASE SessionSends
  <2>1. UNCHANGED <<run, link, csent, dir, dups, rx, sown>>
    BY <1>5 DEF SessionSends, Srv!SendPacket
  <2>2. CASE srun = run /\ crecv # "none"
    <3>1. link = "session" /\ run \in Runs /\ dir = "downlink"
      BY <1>i, <2>2 DEF LinkInv, Served
    <3>2. air' = [air EXCEPT ![run] = @ + 1]
      BY <1>5, <2>2 DEF SessionSends
    <3>3. \A r \in Runs : r # run => air'[r] = air[r]
      BY <3>1, <3>2
    <3>4. QED
      BY <2>1, <3>1, <3>3
  <2>3. CASE ~(srun = run /\ crecv # "none")
    <3>1. air' = air
      BY <1>5, <2>3 DEF SessionSends
    <3>2. QED
      BY <2>1, <3>1
  <2>4. QED
    BY <2>2, <2>3
<1>6. QED
  BY <1>1, <1>2, <1>3, <1>4, <1>5, Sides

(* The result of a run that succeeds tells what its receiver recorded. *)
LEMMA GoodResult ==
    ASSUME Inv, CleanInv, Succeeds
    PROVE  TestResult(Head(out)) \in GoodRecord
<1> DEFINE m == Head(out)
<1>i. TypeInv /\ LinkInv /\ ClientInv
  BY DEF Inv
<1>1. TestResult(m) \in ResultRecord /\ OutOK(m) /\ m.type = "result"
  BY ResultTyped DEF Succeeds
<1>2. /\ state = "completed" /\ m.sent = PacketCount
      /\ m.received \in Nat /\ m.received <= rx
      /\ direction = "uplink" /\ ~hasty => m.received = rx
  BY <1>1 DEF OutOK
<1>3. link = "session" /\ direction = dir /\ run \in Runs
  <2>1. link = "session"
    BY <1>i DEF Succeeds, LinkInv, Served
  <2>2. run \in Runs
    BY <1>i, <2>1, RunInRange DEF Inv
  <2>3. QED
    BY <1>i, <1>2, <2>1, <2>2 DEF ClientInv
<1>4. CASE dir = "uplink"
  <2>1. air[run] \in Nat /\ rx \in Nat /\ csent \in 0 .. PacketCount
    BY <1>i, <1>3, OrchestrationAssumption DEF TypeInv, Srv!FieldsOK
  <2>2. sown = rx /\ rx <= PacketCount
    BY <1>3, <1>4, <2>1, OrchestrationAssumption DEF CleanInv
  <2>3. /\ TestResult(m).received = m.received /\ TestResult(m).own = sown
        /\ TestResult(m).sent = PacketCount /\ TestResult(m).late = hasty
    BY <1>i, <1>2, <1>4 DEF TestResult, TypeInv
  <2>4. QED
    BY <1>1, <1>2, <1>3, <1>4, <2>2, <2>3 DEF GoodRecord
<1>5. CASE dir # "uplink"
  <2>1. matched \in Nat /\ matched <= PacketCount
    BY <1>i, OrchestrationAssumption DEF TypeInv, CleanInv
  <2>2. /\ TestResult(m).received = matched /\ TestResult(m).own = matched
        /\ TestResult(m).sent = PacketCount
    BY <1>2, <1>5 DEF TestResult
  <2>3. QED
    BY <1>1, <2>1, <2>2 DEF GoodRecord
<1>6. QED
  BY <1>4, <1>5

(* On a network that may lose datagrams but neither duplicates them nor     *)
(* delays them beyond their run, every result tells the truth: all packets  *)
(* were sent, and the number received is that of the datagrams of this very *)
(* run that a receiver recorded, or less where the server's worker started  *)
(* late.                                                                    *)
THEOREM CountsAreTrue ==
    ASSUME NetFaults \cap {"late", "dup"} = {}
    PROVE  Spec => []CountsTrue
<1>1. Init => CleanInv /\ Collected(GoodRecord)
  <2>1. SUFFICES ASSUME Init PROVE CleanInv /\ Collected(GoodRecord)
    OBVIOUS
  <2>2. half = <<>> /\ results = <<>>
    BY <2>1 DEF Init
  <2>3. Collected(GoodRecord)
    BY <2>2 DEF Collected
  <2>4. CleanInv
    BY <2>1 DEF Init, CleanInv
  <2>5. QED
    BY <2>3, <2>4
<1>2. Inv /\ CleanInv /\ [Next]_vars => CleanInv'
  BY CleanStep
<1>3. Inv /\ CleanInv /\ Collected(GoodRecord) /\ [Next]_vars => Collected(GoodRecord)'
  <2>1. SUFFICES ASSUME Inv, CleanInv, Collected(GoodRecord), [Next]_vars
                 PROVE  Collected(GoodRecord)'
    OBVIOUS
  <2>2. CASE Succeeds
    <3>1. Succeed(TestResult(Head(out))) /\ TestResult(Head(out)) \in GoodRecord
      BY <2>1, <2>2, GoodResult DEF Succeeds
    <3>2. QED
      BY <2>1, <3>1, Extends DEF GoodRecord, ResultRecord
  <2>3. CASE results' = results /\ half' \in {half, <<>>}
    BY <2>1, <2>3 DEF Collected, GoodRecord, ResultRecord
  <2>4. QED
    BY <2>1, <2>2, <2>3, Results
<1>4. Collected(GoodRecord) => CountsTrue
  <2>1. SUFFICES ASSUME results \in Seq(GoodRecord), NEW i \in DOMAIN results
                 PROVE  /\ results[i].sent = PacketCount
                        /\ results[i].received <= results[i].own
                        /\ results[i].received = results[i].own \/ results[i].late
                        /\ results[i].own <= results[i].sent
    BY DEF Collected, CountsTrue
  <2>2. results[i] \in GoodRecord
    BY <2>1
  <2>3. QED
    BY <2>2 DEF GoodRecord, ResultRecord
<1>5. QED
  BY <1>1, <1>2, <1>3, <1>4, InvHolds, PTL DEF Spec

-----------------------------------------------------------------------------
(***************************************************************************)
(* The sweep that is promised.                                              *)
(***************************************************************************)

(* The plan of the refinement mapping is the one Sweep's loop makes. *)
LEMMA SamePlan ==
    /\ Abstract!ParsePorts(Cfg.ports) = SW!ParsePorts(Cfg.ports)
    /\ Abstract!BuildSweepPlan(Cfg, Abstract!ParsePorts(Cfg.ports)) = plan
<1>1. \A p : Abstract!sortAndDedupe(p) = SW!sortAndDedupe(p)
  BY DEF Abstract!sortAndDedupe, SW!sortAndDedupe, Abstract!Selected,
     SW!Selected, Abstract!Sort, SW!Sort, Abstract!Ascending, SW!Ascending,
     Abstract!Bijection, SW!Bijection, Abstract!Injection, SW!Injection,
     Abstract!Surjection, SW!Surjection, Abstract!IsInjective, SW!IsInjective
<1>2. \A s : Abstract!FlattenSeq(s) = SW!FlattenSeq(s)
  BY DEF Abstract!FlattenSeq, SW!FlattenSeq
<1>3. \A r : Abstract!parseRange(r) = SW!parseRange(r)
  BY DEF Abstract!parseRange, SW!parseRange, Abstract!validatePort,
     SW!validatePort
<1>4. Abstract!ParsePorts(Cfg.ports) = SW!ParsePorts(Cfg.ports)
  BY <1>1, <1>2, <1>3 DEF Abstract!ParsePorts, SW!ParsePorts
<1>5. ASSUME NEW c, NEW p
      PROVE  Abstract!BuildSweepPlan(c, p) = SW!BuildSweepPlan(c, p)
  <2> DEFINE fs == SW!determineFamilies(c)
             ds == SW!determineDirections(c.direction)
             ss == SW!generateSizes(c.min, c.max, c.step)
             ForSizes(f, q, d) ==
                 [i \in DOMAIN ss |-> [family |-> f, port |-> q, direction |-> d, size |-> ss[i]]]
             ForDirections(f, q) == SW!FlattenSeq([i \in DOMAIN ds |-> ForSizes(f, q, ds[i])])
             ForPorts(f, s) == SW!FlattenSeq([i \in DOMAIN s |-> ForDirections(f, s[i])])
             ForDirectionsA(f, q) ==
                 Abstract!FlattenSeq([i \in DOMAIN ds |-> ForSizes(f, q, ds[i])])
             ForPortsA(f, s) ==
                 Abstract!FlattenSeq([i \in DOMAIN s |-> ForDirectionsA(f, s[i])])
  <2>1. PICK s : s = SW!Sort(p, SW!Ascending) /\ s = Abstract!Sort(p, Abstract!Ascending)
    BY DEF Abstract!Sort, SW!Sort, Abstract!Ascending, SW!Ascending,
       Abstract!Bijection, SW!Bijection, Abstract!Injection, SW!Injection, Abstract!Surjection,
       SW!Surjection, Abstract!IsInjective, SW!IsInjective
  <2>2. SW!BuildSweepPlan(c, p) = SW!FlattenSeq([i \in DOMAIN fs |-> ForPorts(fs[i], s)])
    BY <2>1 DEF SW!BuildSweepPlan, SW!Sort, SW!Ascending, SW!Bijection, SW!Injection,
       SW!Surjection, SW!IsInjective
  <2>3. Abstract!BuildSweepPlan(c, p) =
            Abstract!FlattenSeq([i \in DOMAIN fs |-> ForPortsA(fs[i], s)])
    BY <2>1 DEF Abstract!BuildSweepPlan, Abstract!Sort, Abstract!Ascending, Abstract!Bijection,
       Abstract!Injection, Abstract!Surjection, Abstract!IsInjective,
       Abstract!determineFamilies, Abstract!determineDirections, Abstract!generateSizes,
       SW!determineFamilies, SW!determineDirections, SW!generateSizes
  <2>4. \A f, q : ForDirectionsA(f, q) = ForDirections(f, q)
    BY <1>2
  <2>5. \A f : ForPortsA(f, s) = ForPorts(f, s)
    <3> HIDE DEF ForDirections, ForDirectionsA
    <3>1. \A f : [i \in DOMAIN s |-> ForDirectionsA(f, s[i])]
                 = [i \in DOMAIN s |-> ForDirections(f, s[i])]
      BY <2>4
    <3>2. QED
      BY <1>2, <3>1
  <2>6. QED
    <3> HIDE DEF ForPorts, ForPortsA
    <3>1. [i \in DOMAIN fs |-> ForPortsA(fs[i], s)] = [i \in DOMAIN fs |-> ForPorts(fs[i], s)]
      BY <2>5
    <3>2. QED
      BY <1>2, <2>2, <2>3, <3>1
<1>6. QED
  BY <1>4, <1>5 DEF plan

(* The estimate is the same, too. *)
LEMMA SameEstimate ==
    ASSUME NEW n
    PROVE  Abstract!EstimateDuration(Cfg, n) = SW!EstimateDuration(Cfg, n)
BY DEF Abstract!EstimateDuration, SW!EstimateDuration, Abstract!FloatToInt, SW!FloatToInt,
   Abstract!TimesElevenTenths, SW!TimesElevenTenths, Abstract!Wrap, SW!Wrap,
   Abstract!MinInt, SW!MinInt

(* The tests are those of a plan: the configuration is valid, its sweep is  *)
(* within the duration limit, and every test has the direction and number of *)
(* packets planned.                                                         *)
TestsArePlanned ==
    /\ SW!ParsePorts(Cfg.ports) # None /\ SW!Validate(Cfg)
    /\ \E e \in SW!EstimateDuration(Cfg, Len(plan)) : ~(e > Cfg.limit)
    /\ Cfg.count = PacketCount
    /\ Len(plan) = Len(Tests)
    /\ \A i \in 1 .. Len(Tests) :
           /\ plan[i].direction \in {0, 1}
           /\ Tests[i] = IF plan[i].direction = 0 THEN "uplink" ELSE "downlink"

(* Which phase of the sweep the client is in. *)
LEMMA PhaseIs ==
    /\ cpc = "plan" => Phase = "config"
    /\ cpc = "exit" => Phase = "exit"
    /\ cpc = "finished" => Phase = "done"
    /\ cpc \notin {"plan", "exit", "finished"} => Phase = "run"
<1>1. CASE cpc = "plan"
  BY <1>1 DEF Phase
<1>2. CASE cpc = "exit"
  BY <1>2 DEF Phase
<1>3. CASE cpc = "finished"
  BY <1>3 DEF Phase
<1>4. CASE cpc # "plan" /\ cpc # "exit" /\ cpc # "finished"
  BY <1>4 DEF Phase
<1>5. QED
  BY <1>1, <1>2, <1>3, <1>4

LEMMA PhaseBecomes ==
    /\ cpc' = "plan" => Phase' = "config"
    /\ cpc' = "exit" => Phase' = "exit"
    /\ cpc' = "finished" => Phase' = "done"
    /\ cpc' \notin {"plan", "exit", "finished"} => Phase' = "run"
<1>1. CASE cpc' = "plan"
  BY <1>1 DEF Phase
<1>2. CASE cpc' = "exit"
  BY <1>2 DEF Phase
<1>3. CASE cpc' = "finished"
  BY <1>3 DEF Phase
<1>4. CASE cpc' # "plan" /\ cpc' # "exit" /\ cpc' # "finished"
  BY <1>4 DEF Phase
<1>5. QED
  BY <1>1, <1>2, <1>3, <1>4

(* A new result is a new line at the end of the report. *)
LEMMA RowAdded ==
    ASSUME NEW S, results \in Seq(S), NEW r \in S, results' = Append(results, r)
    PROVE  Reported' = Append(Reported, Row(r))
<1> DEFINE T == {Row(x) : x \in S}
<1>1. Reported \in Seq(T) /\ Len(Reported) = Len(results)
  <2>1. \A i \in 1 .. Len(results) : Row(results[i]) \in T
    OBVIOUS
  <2>2. QED
    BY <2>1 DEF Reported
<1>2. Row(r) \in T
  OBVIOUS
<1> HIDE DEF T
<1>3. /\ Append(Reported, Row(r)) \in Seq(T)
      /\ Len(Append(Reported, Row(r))) = Len(results) + 1
  BY <1>1, <1>2
<1>4. results' \in Seq(S) /\ Len(results') = Len(results) + 1
  OBVIOUS
<1>5. Reported' = [i \in 1 .. Len(results) + 1 |-> Row(results'[i])]
  BY <1>4 DEF Reported, Row
<1>6. \A i \in 1 .. Len(results) + 1 : Append(Reported, Row(r))[i] = Row(results'[i])
  <2>1. TAKE i \in 1 .. Len(results) + 1
  <2>2. CASE i = Len(results) + 1
    <3>1. results'[i] = r
      BY <2>2
    <3>2. Append(Reported, Row(r))[i] = Row(r)
      BY <1>1, <1>2, <2>2
    <3>3. QED
      BY <3>1, <3>2
  <2>3. CASE i # Len(results) + 1
    <3>1. i \in 1 .. Len(results)
      BY <2>3
    <3>2. results'[i] = results[i]
      BY <3>1
    <3>3. Append(Reported, Row(r))[i] = Reported[i]
      BY <1>1, <1>2, <3>1
    <3>4. Reported[i] = Row(results[i])
      BY <3>1 DEF Reported
    <3>5. QED
      BY <3>2, <3>3, <3>4
  <2>4. QED
    BY <2>2, <2>3
<1>7. Append(Reported, Row(r)) = [i \in 1 .. Len(results) + 1 |-> Append(Reported, Row(r))[i]]
  <2>1. \A q \in Seq(T) : q = [i \in 1 .. Len(q) |-> q[i]]
    OBVIOUS
  <2>2. QED
    BY <1>3, <2>1
<1>8. QED
  BY <1>5, <1>6, <1>7

(* Every step of client, server and network is a step of the sweep, or none. *)
LEMMA SweepStep ==
    ASSUME TestsArePlanned, Inv, [Next]_vars
    PROVE  [Abstract!LoopStep \/ Abstract!LoopEnds]_(Abstract!loop)
<1>i. TypeInv /\ TestInv /\ LinkInv
  BY DEF Inv
<1>t. test \in Nat /\ Len(Tests) \in Nat /\ Len(plan) = Len(Tests)
  BY <1>i, OrchestrationAssumption DEF TypeInv, TestsArePlanned
<1>r. results' = results => Reported' = Reported
  BY DEF Reported, Row
<1>s. ASSUME UNCHANGED <<test, results, hasFailure, cpc>>
      PROVE  UNCHANGED Abstract!loop
  <2>1. Phase' = Phase /\ Plans' = Plans /\ Reported' = Reported
    BY <1>s, <1>r, PhaseIs, PhaseBecomes DEF Plans
  <2>2. QED
    BY <1>s, <2>1 DEF Abstract!loop
<1>k. ASSUME UNCHANGED <<test, results, hasFailure>>,
             cpc \notin {"plan", "exit", "finished"}, cpc' \notin {"plan", "exit", "finished"}
      PROVE  UNCHANGED Abstract!loop
  <2>1. Phase' = Phase /\ Plans' = Plans /\ Reported' = Reported
    BY <1>k, <1>r, PhaseIs, PhaseBecomes DEF Plans
  <2>2. QED
    BY <1>k, <2>1 DEF Abstract!loop
<1>1. CASE Continues
  <2>0. UNCHANGED <<test, results, hasFailure>>
    BY <1>1 DEF Continues, GoOn
  <2>1. CASE cpc = "plan" /\ cpc' = "dial"
    <3>1. Phase = "config" /\ Phase' = "run" /\ Plans' = plan /\ Reported' = Reported
      BY <2>0, <2>1, <1>r, PhaseIs, PhaseBecomes DEF Plans
    <3>2. Abstract!ConfigOk
      BY SamePlan DEF TestsArePlanned, Abstract!ConfigOk, Abstract!Validate, SW!Validate
    <3>3. \E e \in Abstract!EstimateDuration(Cfg, Len(plan)) : ~(e > Cfg.limit)
      BY SameEstimate DEF TestsArePlanned
    <3>4. Abstract!Plan
      BY <2>0, <3>1, <3>2, <3>3, SamePlan DEF Abstract!Plan
    <3>5. QED
      BY <3>4 DEF Abstract!LoopStep
  <2>2. CASE cpc = "dial" /\ cpc' = "exit"
    <3>1. Phase = "run" /\ Phase' = "exit" /\ Plans' = Plans /\ Reported' = Reported
      BY <2>0, <2>2, <1>r, PhaseIs, PhaseBecomes DEF Plans
    <3>2. test <= Len(Plans)
      BY <1>i, <1>t, <2>2 DEF TestInv, Plans
    <3>3. Abstract!ConnectFails
      BY <2>0, <3>1, <3>2 DEF Abstract!ConnectFails
    <3>4. QED
      BY <3>3 DEF Abstract!LoopStep
  <2>3. CASE cpc = "report" /\ cpc' = "finished"
    <3>1. Phase = "run" /\ Phase' = "done" /\ Plans' = Plans /\ Reported' = Reported
      BY <2>0, <2>3, <1>r, PhaseIs, PhaseBecomes DEF Plans
    <3>2. test > Len(Plans)
      BY <1>i, <1>t, <2>3 DEF TestInv, Plans
    <3>3. Abstract!LoopEnds
      BY <2>0, <3>1, <3>2 DEF Abstract!LoopEnds
    <3>4. QED
      BY <3>3
  <2>4. QED
    BY <1>1, <1>k, <2>0, <2>1, <2>2, <2>3 DEF Continues
<1>2. CASE Fails
  <2>1. hasFailure' = TRUE /\ test' = test + 1 /\ results' = results /\ cpc' = "close"
    BY <1>2 DEF Fails, Fail
  <2>2. cpc \notin {"plan", "exit", "finished"} /\ test <= Len(Tests)
    BY <1>i, <1>2 DEF Fails, Served, TestInv
  <2>3. /\ Phase = "run" /\ Phase' = "run" /\ Plans' = Plans /\ Reported' = Reported
        /\ test <= Len(Plans)
    BY <1>r, <1>t, <2>1, <2>2, PhaseIs, PhaseBecomes DEF Plans
  <2>4. Abstract!TestFails
    BY <2>1, <2>3 DEF Abstract!TestFails
  <2>5. QED
    BY <2>4 DEF Abstract!LoopStep
<1>3. CASE Succeeds
  <2> DEFINE r == TestResult(Head(out))
  <2>1. cpc = "result" /\ Succeed(r) /\ r \in ResultRecord /\ results \in Seq(ResultRecord)
    BY <1>i, <1>3, ResultTyped DEF Succeeds, TypeInv
  <2>2. /\ test \in 1 .. Len(Tests)
        /\ dir = IF half # <<>> THEN "downlink" ELSE FirstDir(Tests[test])
        /\ half # <<>> => Tests[test] = "both"
    BY <1>i, <1>t, <2>1 DEF TestInv, Served
  <2>3. /\ plan[test].direction \in {0, 1}
        /\ Tests[test] = IF plan[test].direction = 0 THEN "uplink" ELSE "downlink"
    BY <2>2 DEF TestsArePlanned
  <2>4. Tests[test] # "both" /\ half = <<>> /\ dir = Tests[test]
    BY <2>2, <2>3 DEF FirstDir
  <2>5. /\ results' = results \o half \o <<r>> /\ test' = test + 1 /\ cpc' = "close"
        /\ hasFailure' = hasFailure
    BY <2>1, <2>4 DEF Succeed
  <2>6. results' = Append(results, r)
    BY <2>1, <2>4, <2>5
  <2>7. Reported' = Append(Reported, Row(r))
    BY <2>1, <2>6, RowAdded
  <2>8. r.test = test /\ r.direction = dir /\ r.sent = PacketCount
    BY <2>1 DEF TestResult, ResultRecord
  <2>9. PICK received \in 0 .. MaxReceived : r.received = received
    BY <2>1 DEF ResultRecord
  <2>10. Row(r) = [family |-> plan[test].family, port |-> plan[test].port,
                   direction |-> plan[test].direction, size |-> plan[test].size,
                   sent |-> Cfg.count, lost |-> Cfg.count - received]
    BY <2>3, <2>4, <2>8, <2>9 DEF Row, TestsArePlanned
  <2>11. /\ Phase = "run" /\ Phase' = "run" /\ Plans' = Plans /\ Plans = plan
         /\ test <= Len(Plans)
    BY <1>t, <2>1, <2>2, <2>5, PhaseIs, PhaseBecomes DEF Plans
  <2>12. Abstract!TestOk
    <3> HIDE DEF r
    <3>1. QED
      BY <2>5, <2>7, <2>9, <2>10, <2>11 DEF Abstract!TestOk
  <2>13. QED
    BY <2>12 DEF Abstract!LoopStep
<1>4. CASE Dial \/ CountMatched
  <2>1. /\ UNCHANGED <<test, results, hasFailure>>
        /\ cpc \in {"dial", "count"} /\ cpc' \in {"hello", "fetch"}
    BY <1>4 DEF Dial, CountMatched
  <2>2. QED
    BY <1>k, <2>1
<1>5. CASE Close
  <2>1. /\ UNCHANGED <<test, results, hasFailure>>
        /\ cpc = "close" /\ cpc' \in {"dial", "report"}
    BY <1>5 DEF Close
  <2>2. QED
    BY <1>k, <2>1
<1>6. CASE Opens \/ Sends \/ ClientReceive \/ Drop \/ Duplicate \/ Idles
  BY <1>s, <1>6 DEF Opens, Sends, ClientReceive, Drop, Duplicate, Idles
<1>7. CASE Accept \/ Within \/ SessionReceives \/ SessionSends
  BY <1>s, <1>7 DEF Accept, Within, SessionReceives, SessionSends
<1>8. QED
  BY <1>1, <1>2, <1>3, <1>4, <1>5, <1>6, <1>7, Sides DEF ClientMoves

(* Client, server and network together implement the sweep: for every       *)
(* configuration and its plan, whatever fails and whatever the network does, *)
(* each test is run once and in its turn, and leaves one result with the     *)
(* packets asked for as sent, or a failure.                                  *)
THEOREM SweepImplemented ==
    ASSUME TestsArePlanned
    PROVE  Spec => ImplementsSweep
<1>1. Init => Abstract!LoopInit
  <2>1. SUFFICES ASSUME Init PROVE Abstract!LoopInit
    OBVIOUS
  <2>2. cpc = "plan" /\ test = 1 /\ results = <<>> /\ hasFailure = FALSE
    BY <2>1 DEF Init
  <2>3. Phase = "config" /\ Plans = <<>>
    BY <2>2, PhaseIs DEF Plans
  <2>4. Reported = <<>>
    BY <2>2 DEF Reported
  <2>5. QED
    BY <2>2, <2>3, <2>4 DEF Abstract!LoopInit
<1>2. Inv /\ [Next]_vars => [Abstract!LoopStep \/ Abstract!LoopEnds]_(Abstract!loop)
  BY SweepStep
<1>3. QED
  BY <1>1, <1>2, InvHolds, PTL DEF Spec, ImplementsSweep, Abstract!Loop

-----------------------------------------------------------------------------
(***************************************************************************)
(* The failures of the client, where no socket fails and no deadline         *)
(* expires: as long as no worker has started late and kept the port, client  *)
(* and session stay in health.                                               *)
(***************************************************************************)

(* No deadline expires, and no socket call fails. *)
Sound == Faults \cap {"socket", "deadline"} = {}

NoOrphan == \A r \in Runs : leftover[r] # "orphan"

(* A leftover is of an earlier session than the current one, so that a new   *)
(* session finds none in the place of its own.                               *)
Earlier == \A r \in Runs : leftover[r] # "none" => r < srun

(* Nor is a worker about to close the port after its session.                *)
NoneClosing == \A r \in Runs : leftover[r] # "closing"

(* The worker has its port, and is where the session's state says.           *)
Settled == w \in {"spawned", "done"} \/ (w = "receiving" /\ quitCh = "open" /\ rsock = "open")

WorkerFit ==
    /\ w # "bindfailed" /\ (receiverDone = "closed" => w = "done")
    /\ direction = "uplink" /\ (pc = "collect" \/ state \in {"collecting", "completed"}) => Settled
    /\ direction = "downlink" =>
           /\ w \in {"spawned", "sending", "sent"} => state = "running"
           /\ w = "notify" => state = "collecting"

(* The end of a session that went well, or the time before the first.        *)
Over ==
    /\ in = <<>> /\ out = <<>>
    /\ state = "completed" \/ (srun = 0 /\ pc = "done" /\ w = "none")

(* What is on its way while the request for the result is.                   *)
Requested == {<<startMsg, completeMsg, fetchMsg>>, <<completeMsg, fetchMsg>>, <<fetchMsg>>}

(* What a client that is waited on has to read, and what is to come.          *)
Answers ==
    /\ cpc \in {"send", "count", "fetch", "result"} => out = <<>>
    /\ cpc = "complete" => out = IF w = "done" THEN <<completeMsg>> ELSE <<>>
    /\ cpc \in {"count", "fetch", "result"} /\ dir = "downlink" => w = "done"
    /\ cpc = "result" => in \in Requested

(* The result is on its way. *)
Answered ==
    /\ cpc = "result" /\ state = "completed" /\ in = <<>>
    /\ out # <<>> /\ Head(out).type = "result" /\ Tail(out) = <<>>

Serving == link = "session" /\ cpc # "close"

ServiceInv ==
    /\ Serving => (Alive /\ Answers) \/ Answered
    /\ ~Serving => Over

HealthInv == NoOrphan => NoneClosing /\ WorkerFit /\ ServiceInv

(* The server takes up a session: only then, or by a step of its own, does a *)
(* leftover change.                                                         *)
LEMMA LeftoverChanges ==
    ASSUME Inv, [Next]_vars
    PROVE  \/ leftover' = leftover /\ srun' = srun
           \/ LeftoverStep /\ srun' = srun
           \/ Accept /\ link = "backlog" /\ pc = "done" /\ srun = 0 /\ srun' = run
              /\ leftover' = leftover
           \/ Accept /\ link = "backlog" /\ pc = "done" /\ srun \in Runs /\ srun' = run
              /\ leftover' = [leftover EXCEPT ![srun] = Residue]
<1>i. TypeInv /\ TestInv /\ LinkInv
  BY DEF Inv
<1> DEFINE Same == leftover' = leftover /\ srun' = srun
<1>1. CASE LeftoverStep
  BY <1>1 DEF LeftoverStep
<1>2. CASE Accept
  <2>1. CASE pc = "done" /\ srun # 0
    <3>1. srun \in Runs
      <4>1. srun \in Nat /\ run \in Nat /\ srun <= run /\ Len(Tests) \in Nat
        BY <1>i, OrchestrationAssumption DEF TypeInv, LinkInv
      <4>2. run <= 2 * Len(Tests)
        BY <1>i, RunInRange
      <4>3. QED
        BY <2>1, <4>1, <4>2 DEF Runs
    <3>2. link = "backlog" /\ srun' = run /\ leftover' = [leftover EXCEPT ![srun] = Residue]
      BY <1>2, <2>1 DEF Accept
    <3>3. QED
      BY <1>2, <2>1, <3>1, <3>2
  <2>2. CASE pc = "done" /\ srun = 0
    <3>1. link = "backlog" /\ srun' = run /\ leftover' = leftover
      BY <1>2, <2>2 DEF Accept
    <3>2. QED
      BY <1>2, <2>2, <3>1
  <2>3. CASE pc # "done"
    BY <1>2, <2>3 DEF Accept
  <2>4. QED
    BY <2>1, <2>2, <2>3
<1>3. CASE Plan \/ Dial \/ ConnectFails \/ Rejected \/ OpenReceiver \/ SpawnReceiver
  <2>1. Same
    BY <1>3 DEF Plan, Dial, ConnectFails, Rejected, OpenReceiver, SpawnReceiver
  <2>2. QED
    BY <2>1
<1>4. CASE SendProbe \/ CountMatched \/ Finish \/ ClientReceive \/ ReceiveTimesOut \/ Close
  <2>1. Same
    BY <1>4 DEF SendProbe, CountMatched, Finish, ClientReceive, ReceiveTimesOut, Close
  <2>2. QED
    BY <2>1
<1>5. CASE Hello \/ Prepare \/ Start \/ SendComplete \/ FetchResult
  <2>1. Same
    BY <1>5 DEF Hello, Prepare, Start, SendComplete, FetchResult, Writes
  <2>2. QED
    BY <2>1
<1>6. CASE AwaitReady \/ AwaitSendComplete \/ AwaitResult
  <2>1. Same
    BY <1>6 DEF AwaitReady, AwaitSendComplete, AwaitResult, Receives
  <2>2. QED
    BY <2>1
<1>7. CASE Drop \/ Duplicate \/ ResetByPeer \/ Terminated \/ UNCHANGED vars
  <2>1. Same
    BY <1>7 DEF Drop, Duplicate, ResetByPeer, Terminated
  <2>2. QED
    BY <2>1
<1>8. CASE Outside
  BY <1>1, <1>3, <1>4, <1>5, <1>6, <1>7, <1>8 DEF Outside, ClientStep
<1>9. CASE SessionLoop \/ SessionBinds \/ SessionWorker \/ SocketFails
  BY <1>9, SessionFrame DEF Within
<1>10. CASE SessionReceives \/ SessionSends
  BY <1>10 DEF SessionReceives, SessionSends
<1>11. QED
  BY <1>2, <1>8, <1>9, <1>10, Steps

(* A leftover stays one of an earlier session, and an orphan an orphan.      *)
LEMMA OrphansStay ==
    ASSUME Inv, Earlier, [Next]_vars
    PROVE  Earlier' /\ (NoOrphan' => NoOrphan)
<1>t. /\ leftover \in [Runs -> {"none", "late", "bound", "closing", "orphan"}]
      /\ srun \in Nat /\ run \in Nat
  BY DEF Inv, TypeInv
<1>r. Runs \subseteq Int
  BY DEF Runs
<1> USE DEF Earlier, NoOrphan
<1>1. CASE leftover' = leftover /\ srun' = srun
  BY <1>1
<1>2. CASE LeftoverStep /\ srun' = srun
  <2>1. PICK r \in Runs :
            /\ leftover[r] \in {"late", "closing"}
            /\ \E v \in {"none", "orphan"} : leftover' = [leftover EXCEPT ![r] = v]
    BY <1>2 DEF LeftoverStep
  <2>2. \A q \in Runs : q # r => leftover'[q] = leftover[q]
    BY <1>t, <2>1
  <2>3. QED
    BY <1>2, <2>1, <2>2
<1>3. CASE link = "backlog" /\ srun = 0 /\ srun' = run /\ leftover' = leftover
  BY <1>t, <1>r, <1>3 DEF Runs
<1>4. CASE /\ link = "backlog" /\ srun \in Runs /\ srun' = run
           /\ leftover' = [leftover EXCEPT ![srun] = Residue]
  <2>1. srun < run
    BY <1>4 DEF Inv, AirInv
  <2>2. leftover[srun] = "none"
    BY <1>t, <1>4
  <2>3. \A q \in Runs : q # srun => leftover'[q] = leftover[q]
    BY <1>t, <1>4
  <2>4. Earlier'
    BY <1>t, <1>r, <1>4, <2>1, <2>3
  <2>5. NoOrphan' => NoOrphan
    BY <2>2, <2>3
  <2>6. QED
    BY <2>4, <2>5
<1>5. QED
  BY <1>1, <1>2, <1>3, <1>4, LeftoverChanges

(* No write of the session fails that the client waits for. *)
LEMMA WritesSucceed ==
    ASSUME Sound, Inv, Serving, sock = "open", NEW m, Srv!Attempt(m)
    PROVE  Srv!WriteOk(m)
<1>1. peer = "open"
  BY DEF Inv, LinkInv, Serving
<1>2. "deadline" \notin (Faults \ {"refused"}) \cup {"socket"}
  BY DEF Sound
<1>3. ~Srv!WriteFails
  BY <1>1, <1>2 DEF Srv!WriteFails
<1>4. QED
  BY <1>3 DEF Srv!Attempt

(* What a write adds to responses that have all been read. *)
LEMMA FirstResponse ==
    ASSUME NEW m, out = <<>>, Srv!WriteOk(m)
    PROVE  out' = <<m>> /\ out' # <<>> /\ Head(out') = m /\ Tail(out') = <<>>
BY DEF Srv!WriteOk

(* A session that still reads serves the client. *)
LEMMA ReadingServes ==
    ASSUME Inv, ServiceInv, pc \in {"reading", "timedout", "cleanup", "await", "collect"}
    PROVE  Serving /\ Alive /\ Answers /\ peer = "open" /\ pc \notin {"timedout", "cleanup"}
<1>1. LoopInv /\ LinkInv
  BY DEF Inv
<1>2. state # "completed"
  BY <1>1 DEF LoopInv
<1>3. Serving /\ Alive /\ Answers
  BY <1>2 DEF ServiceInv, Over, Answered
<1>4. peer = "open"
  BY <1>1, <1>3 DEF Serving, LinkInv
<1>5. QED
  BY <1>3, <1>4 DEF Alive

(* The steps of the loop that are no error's. *)
HealthyLoops ==
    \/ DoRun \/ DoTop \/ DoHello \/ DoPrepare \/ DoStart \/ DoStop \/ DoAwait
    \/ DoCollect \/ DoFetch \/ DoCloseConn \/ DoFinish

(* The loop of such a session takes no other, and what it writes arrives. *)
LEMMA HealthyLoop ==
    ASSUME Sound, Inv, ServiceInv, LoopSteps
    PROVE  /\ HealthyLoops
           /\ DoPrepare => pc' = "top" /\ Srv!WriteOk(ready)
           /\ DoFetch => Srv!WriteOk(Srv!Result)
<1>1. ~DoTimeout
  BY ReadingServes DEF DoTimeout, Sound
<1>2. ~DoAssign
  BY ReadingServes DEF DoAssign
<1>3. ~DoError
  BY ReadingServes DEF DoError, Alive
<1>4. ~DoCleanup
  BY ReadingServes DEF DoCleanup
<1>5. DoPrepare => pc' = "top" /\ Srv!WriteOk(ready)
  <2>1. SUFFICES ASSUME DoPrepare PROVE pc' = "top" /\ Srv!WriteOk(ready)
    OBVIOUS
  <2>2. Serving /\ sock = "open"
    BY <2>1, ReadingServes DEF DoPrepare, Reading
  <2>3. ~Srv!WriteFails
    <3>1. peer = "open"
      BY <2>2 DEF Inv, LinkInv, Serving
    <3>2. "deadline" \notin (Faults \ {"refused"}) \cup {"socket"}
      BY DEF Sound
    <3>3. QED
      BY <2>2, <3>1, <3>2 DEF Srv!WriteFails
  <2>4. QED
    BY <2>1, <2>3 DEF DoPrepare
<1>6. DoFetch => Srv!WriteOk(Srv!Result)
  <2>1. SUFFICES ASSUME DoFetch PROVE Srv!WriteOk(Srv!Result)
    OBVIOUS
  <2>2. Serving /\ sock = "open" /\ Srv!Attempt(Srv!Result)
    BY <2>1, ReadingServes DEF DoFetch, Reading
  <2>3. QED
    BY <2>2, WritesSucceed
<1>7. QED
  BY <1>1, <1>2, <1>3, <1>4, <1>5, <1>6 DEF LoopSteps, HealthyLoops

(* What a client in the session's service finds to read is what it waits for. *)
LEMMA RightResponse ==
    ASSUME Inv, ServiceInv, Serving
    PROVE  /\ cpc = "ready" /\ out # <<>> => Head(out).type = "ready"
           /\ cpc = "complete" /\ out # <<>> => Head(out).type = "send_complete" /\ Tail(out) = <<>>
           /\ cpc = "result" /\ out # <<>> =>
                  Head(out).type = "result" /\ Tail(out) = <<>> /\ Answered
           /\ sock = "open" \/ (out # <<>> /\ in = <<>> /\ cpc = "result")
<1>1. (Alive /\ Answers) \/ Answered
  BY DEF ServiceInv
<1>2. CASE Answered
  BY <1>2 DEF Answered
<1>3. CASE Alive /\ Answers
  <2>1. Aligned
    BY <1>3 DEF Inv, ClientInv, Serving
  <2>2. out # <<>> /\ cpc = "ready" => out = <<ready>>
    BY <2>1 DEF Aligned, ready
  <2>3. Head(<<ready>>).type = "ready" /\ Head(<<completeMsg>>).type = "send_complete"
        /\ Tail(<<completeMsg>>) = <<>>
    BY DEF ready, completeMsg
  <2>4. cpc = "complete" /\ out # <<>> => out = <<completeMsg>>
    BY <1>3 DEF Answers
  <2>5. cpc = "result" => out = <<>>
    BY <1>3 DEF Answers
  <2>6. QED
    BY <1>3, <2>2, <2>3, <2>4, <2>5 DEF Alive
<1>4. QED
  BY <1>1, <1>2, <1>3

(* How the client leaves the service: with the result. *)
WithResult ==
    /\ cpc = "result" /\ Answered /\ in' = in /\ out' = Tail(out)

(* The client's steps in the session's service: it comes to its end with a   *)
(* result, and fails only where it is turned away.                          *)
LEMMA ClientFares ==
    ASSUME Sound, Inv, ServiceInv, Outside
    PROVE  /\ hasFailure' = hasFailure \/ cpc = "dial" \/ link = "rejected"
           /\ Serving => (link' = "session" /\ cpc' # "close") \/ WithResult
           /\ Serving' => Serving
<1>i. LinkInv
  BY DEF Inv
<1>f. "socket" \notin Faults /\ "deadline" \notin Faults
  BY DEF Sound
<1>o. Serving => sock = "open" \/ (cpc = "result" /\ out # <<>> /\ in = <<>>)
  BY RightResponse
<1> USE <1>i, <1>f DEF Serving
<1>1. CASE Plan \/ Finish
  BY <1>1 DEF Plan, Finish, GoOn, LinkInv, Apart
<1>2. CASE ConnectFails \/ Dial
  BY <1>2 DEF ConnectFails, Dial, GoOn, Fail
<1>3. CASE Hello
  BY <1>o, <1>3 DEF Hello, Writes, Write, GoOn
<1>4. CASE Rejected
  BY <1>4 DEF Rejected, Fail
<1>5. CASE OpenReceiver \/ SpawnReceiver \/ SendProbe \/ CountMatched
  BY <1>5 DEF OpenReceiver, SpawnReceiver, SendProbe, CountMatched, LinkInv, Served
<1>6. CASE Prepare
  BY <1>o, <1>6 DEF Prepare, Writes, Write, GoOn, LinkInv, Served
<1>7. CASE Start
  BY <1>o, <1>7 DEF Start, Writes, Write, GoOn, LinkInv, Served
<1>8. CASE SendComplete \/ FetchResult
  BY <1>o, <1>8 DEF SendComplete, FetchResult, Writes, Write, GoOn, LinkInv, Served
<1>9. CASE AwaitReady
  <2>1. Serving
    BY <1>9 DEF AwaitReady, LinkInv, Served
  <2>2. out # <<>> => Head(out).type = "ready"
    BY <1>9, <2>1, RightResponse DEF AwaitReady
  <2>3. QED
    BY <1>o, <1>9, <2>1, <2>2 DEF AwaitReady, Receives, Recv, GoOn
<1>10. CASE AwaitSendComplete
  <2>1. Serving
    BY <1>10 DEF AwaitSendComplete, LinkInv, Served
  <2>2. out # <<>> => Head(out).type = "send_complete"
    BY <1>10, <2>1, RightResponse DEF AwaitSendComplete
  <2>3. QED
    BY <1>o, <1>10, <2>1, <2>2 DEF AwaitSendComplete, Receives, Recv, GoOn
<1>11. CASE AwaitResult
  <2>1. Serving /\ cpc = "result"
    BY <1>11 DEF AwaitResult, LinkInv, Served
  <2>2. out # <<>> => Head(out).type = "result" /\ Answered
    BY <2>1, RightResponse
  <2>3. out # <<>> /\ out' = Tail(out) /\ in' = in /\ Succeed(TestResult(Head(out)))
    BY <1>o, <1>11, <2>1, <2>2 DEF AwaitResult, Receives, Recv
  <2>4. QED
    BY <2>1, <2>2, <2>3 DEF Succeed, WithResult
<1>12. CASE Close
  <2>1. cpc = "close" /\ hasFailure' = hasFailure /\ link' = "none"
    BY <1>12 DEF Close
  <2>2. QED
    BY <2>1
<1>13. CASE \/ ClientReceive \/ ReceiveTimesOut \/ LeftoverStep \/ Drop \/ Duplicate
            \/ ResetByPeer \/ Terminated \/ UNCHANGED vars
  BY <1>13 DEF ClientReceive, ReceiveTimesOut, LeftoverStep, Drop, Duplicate,
     ResetByPeer, Terminated
<1>14. QED
  BY <1>1, <1>2, <1>3, <1>4, <1>5, <1>6, <1>7, <1>8, <1>9, <1>10, <1>11, <1>12,
     <1>13 DEF Outside, ClientStep

(* The request for the result is answered when the client waits for it. *)
LEMMA FetchIsLast ==
    ASSUME Inv, ServiceInv, DoFetch
    PROVE  /\ Serving /\ cpc = "result" /\ direction = dir /\ out = <<>>
           /\ direction = "downlink" => w = "done"
<1>i. LinkInv /\ ClientInv
  BY DEF Inv
<1>1. pc = "reading" /\ state = "collecting" /\ in = <<fetchMsg>>
  BY DEF DoFetch, Reading, Reads
<1>2. Serving /\ Alive /\ Answers
  BY <1>1, ReadingServes
<1>3. direction = dir /\ Aligned
  BY <1>i, <1>1, <1>2 DEF ClientInv, Serving
<1>4. in # <<>>
  BY <1>1
<1>5. cpc = "result"
  BY <1>i, <1>1, <1>2, <1>3, <1>4 DEF Aligned, LinkInv, Serving, Served, Apart
<1>6. QED
  BY <1>2, <1>3, <1>5 DEF Answers

(* The steps of the worker that are neither a receiver's nor fail. *)
workerKept == <<pc, seen, direction, family, sock, receiver, rsock, quitCh, receiverDone,
                tx, rx, sentCount, receivedCount, in, peer, ctx>>

DoSend ==
    /\ w = "spawned" /\ direction = "downlink" /\ w' = "sending"
    /\ UNCHANGED <<workerKept, state, out>>

DoMove ==
    /\ w = "sent" /\ direction = "downlink" /\ state = "running"
    /\ state' = "collecting" /\ w' = "notify"
    /\ UNCHANGED <<workerKept, out>>

DoNotify ==
    /\ w = "notify" /\ direction = "downlink" /\ state = "collecting"
    /\ Serving /\ cpc = "complete" /\ out = <<>> /\ out' = <<completeMsg>> /\ w' = "done"
    /\ UNCHANGED <<workerKept, state>>

HealthyWorks ==
    \/ Srv!ReceiveReturns \/ Srv!CloseUDP \/ Srv!CountReceived \/ Srv!SignalDone
    \/ Srv!SendReturns \/ DoSend \/ DoMove \/ DoNotify

(* The sender tells a client that waits to be told. *)
LEMMA HealthyNotice ==
    ASSUME Sound, Inv, WorkerFit, ServiceInv, Srv!NotifySendComplete
    PROVE  DoNotify
<1>i. LinkInv /\ ClientInv /\ WorkerInv
  BY DEF Inv
<1>1. w = "notify" /\ direction = "downlink" /\ state = "collecting"
  BY <1>i DEF Srv!NotifySendComplete, WorkerInv, Downlinking, WorkerFit
<1>2. Serving /\ Alive /\ Answers
  BY <1>1 DEF ServiceInv, Over, Answered
<1>3. dir = "downlink" /\ Aligned
  BY <1>i, <1>1, <1>2 DEF ClientInv, Serving
<1>4. cpc = "complete"
  BY <1>i, <1>1, <1>2, <1>3 DEF Aligned, Answers, LinkInv, Serving, Served, Apart
<1>5. out = <<>>
  BY <1>1, <1>2, <1>4 DEF Answers
<1>6. Srv!WriteOk(Srv!Msg("send_complete"))
  BY <1>2, WritesSucceed DEF Srv!NotifySendComplete, Alive
<1>7. out' = <<completeMsg>>
  BY <1>5, <1>6, FirstResponse DEF Srv!Msg, completeMsg
<1>8. QED
  BY <1>1, <1>2, <1>4, <1>5, <1>7 DEF Srv!NotifySendComplete, DoNotify, workerKept

(* The worker takes only such steps. *)
LEMMA HealthyWorker ==
    ASSUME Sound, Inv, WorkerFit, ServiceInv, SessionWorker
    PROVE  HealthyWorks /\ UNCHANGED <<srun, sown, hasty, leftover, client, network>>
<1>i. WorkerInv
  BY DEF Inv
<1>u. UNCHANGED <<srun, sown, hasty, leftover, client, network>>
  BY DEF SessionWorker
<1>f. "socket" \notin Faults
  BY DEF Sound
<1>1. ~Srv!BindFailed
  BY DEF Srv!BindFailed, WorkerFit
<1>2. Srv!NewSender /\ (w' = "done" => "socket" \in Faults) => DoSend
  BY <1>f DEF Srv!NewSender, Srv!SenderFails, DoSend, workerKept
<1>3. Srv!SenderCollects => DoMove
  <2>1. SUFFICES ASSUME Srv!SenderCollects PROVE DoMove
    OBVIOUS
  <2>2. direction = "downlink" /\ state = "running"
    BY <1>i, <2>1 DEF Srv!SenderCollects, WorkerInv, Downlinking, WorkerFit
  <2>3. Srv!CanTransition(state, "collecting")
    BY <2>2 DEF Srv!CanTransition, Srv!transitions, Srv!SessionState
  <2>4. QED
    BY <2>1, <2>2, <2>3 DEF Srv!SenderCollects, DoMove, workerKept
<1>4. QED
  BY <1>u, <1>f, <1>1, <1>2, <1>3, HealthyNotice DEF SessionWorker, HealthyWorks

(* The worker has its port, and is where the session's state says. *)
LEMMA FitStep ==
    ASSUME Sound, Inv, NoOrphan, NoneClosing, WorkerFit, ServiceInv, [Next]_vars
    PROVE  WorkerFit'
<1>i. TypeInv /\ LoopInv /\ WorkerInv /\ NoPortLeak
  BY DEF Inv
<1> USE DEF WorkerFit, Settled
<1>1. CASE Outside
  BY <1>i, <1>1, OutsideFrame DEF fields
<1>2. CASE Accept
  BY <1>i, <1>2 DEF Accept
<1>3. CASE SessionLoop
  <2>0. LoopSteps /\ UNCHANGED <<srun, sown, leftover, client, network>>
    BY <1>3, LoopTakes DEF SessionLoop
  <2>h. HealthyLoops
    BY <2>0, HealthyLoop
  <2>1. CASE DoRun
    BY <1>i, <2>0, <2>1 DEF DoRun, kept, WorkerInv
  <2>2. CASE DoTop
    BY <1>i, <2>0, <2>2 DEF DoTop, kept
  <2>3. CASE DoHello
    BY <1>i, <2>0, <2>3 DEF DoHello, kept, Reading, Reads
  <2>4. CASE DoPrepare
    BY <1>i, <2>0, <2>4 DEF DoPrepare, kept, Reading, Reads, WorkerInv
  <2>5. CASE DoStart
    BY <1>i, <2>0, <2>5 DEF DoStart, kept, Reading, Reads, WorkerInv
  <2>6. CASE DoStop
    BY <1>i, <2>0, <2>6 DEF DoStop, kept, Reading, Reads, WorkerInv, Uplinking,
       Downlinking, TypeInv, Srv!FieldsOK, Srv!WorkerPCs
  <2>7. CASE DoAwait
    BY <1>i, <2>0, <2>7 DEF DoAwait, kept
  <2>8. CASE DoCollect
    BY <1>i, <2>0, <2>8 DEF DoCollect, kept, LoopInv
  <2>9. CASE DoFetch
    BY <1>i, <2>0, <2>9, FetchIsLast DEF DoFetch, kept, Reading, Reads
  <2>10. CASE DoCloseConn
    BY <1>i, <2>0, <2>10 DEF DoCloseConn, kept
  <2>11. CASE DoFinish
    BY <1>i, <2>0, <2>11 DEF DoFinish, kept
  <2>12. QED
    BY <2>h, <2>1, <2>2, <2>3, <2>4, <2>5, <2>6, <2>7, <2>8, <2>9, <2>10, <2>11
       DEF HealthyLoops
<1>4. CASE SessionBinds
  <2>1. Srv!BindReceiver /\ UNCHANGED hasty
    BY <1>4 DEF SessionBinds
  <2>2. ~PortTaken
    BY <1>i DEF PortTaken, NoOrphan, NoneClosing, NoPortLeak
  <2>3. w' # "bindfailed"
    BY <1>4, <2>2 DEF SessionBinds, Sound
  <2>4. QED
    BY <1>i, <2>1, <2>3 DEF Srv!BindReceiver
<1>5. CASE SessionReceives
  BY <1>i, <1>5 DEF SessionReceives, Srv!ReceiveDatagram
<1>6. CASE SessionSends
  BY <1>i, <1>6 DEF SessionSends, Srv!SendPacket
<1>7. CASE SessionWorker
  <2>0. HealthyWorks /\ UNCHANGED <<srun, sown, hasty, leftover, client, network>>
    BY <1>7, HealthyWorker
  <2>1. CASE Srv!ReceiveReturns
    BY <1>i, <2>0, <2>1 DEF Srv!ReceiveReturns
  <2>2. CASE Srv!CloseUDP
    BY <1>i, <2>0, <2>2 DEF Srv!CloseUDP
  <2>3. CASE Srv!CountReceived
    BY <1>i, <2>0, <2>3 DEF Srv!CountReceived, Srv!Received
  <2>4. CASE Srv!SignalDone
    BY <1>i, <2>0, <2>4 DEF Srv!SignalDone, WorkerInv, Uplinking
  <2>5. CASE Srv!SendReturns
    BY <1>i, <2>0, <2>5 DEF Srv!SendReturns
  <2>6. CASE DoSend
    BY <1>i, <2>0, <2>6 DEF DoSend, workerKept
  <2>7. CASE DoMove
    BY <1>i, <2>0, <2>7 DEF DoMove, workerKept
  <2>8. CASE DoNotify
    BY <1>i, <2>0, <2>8 DEF DoNotify, workerKept
  <2>9. QED
    BY <2>0, <2>1, <2>2, <2>3, <2>4, <2>5, <2>6, <2>7, <2>8 DEF HealthyWorks
<1>8. CASE SocketFails
  BY <1>8 DEF SocketFails, Sound
<1>9. QED
  BY <1>1, <1>2, <1>3, <1>4, <1>5, <1>6, <1>7, <1>8, Steps

(* The client's next request, or the response it has read, leaves it served. *)
LEMMA ServiceGoesOn ==
    ASSUME Inv, ServiceInv, Outside, Serving, link' = "session", cpc' # "close"
    PROVE  ServiceInv'
<1>i. LinkInv /\ ClientInv /\ WorkerInv
  BY DEF Inv
<1>0. Talks /\ UNCHANGED fields /\ dir' = dir
  BY OutsideTakes, OutsideFrame DEF Leaves, Talks
<1>s. Serving'
  BY DEF Serving
<1>1. CASE cpc' = cpc /\ in' = in /\ out' = out
  BY <1>0, <1>1, <1>s DEF ServiceInv, Serving, Alive, Answers, Answered, fields
<1>2. CASE ~(cpc' = cpc /\ in' = in /\ out' = out)
  <2>1. cpc # "result"
    BY <1>0, <1>2 DEF Talks, Wrote, Took
  <2>2. Alive /\ Answers /\ Aligned /\ sock = "open"
    BY <1>i, <2>1 DEF ServiceInv, Answered, ClientInv, Serving, Alive
  <2>3. SUFFICES Answers'
    BY <1>0, <1>s, <2>2 DEF ServiceInv, Alive, fields
  <2> USE <1>0, <2>2 DEF Answers, fields
  <2>4. CASE cpc = "count" /\ cpc' = "fetch" /\ in' = in /\ out' = out
    BY <2>4
  <2>5. CASE Wrote("hello", helloMsg, "prepare") \/ Wrote("prepare", prepareMsg(dir), "ready")
    BY <2>5 DEF Wrote
  <2>6. CASE Wrote("start", startMsg, IF dir = "uplink" THEN "send" ELSE "complete")
    <3>1. out' = <<>> /\ w # "done" /\ cpc' \in {"send", "complete"}
      BY <1>i, <2>6 DEF Wrote, Aligned, WorkerInv
    <3>2. QED
      BY <3>1
  <2>7. CASE Wrote("send", completeMsg, "fetch")
    BY <1>i, <2>7 DEF Wrote, LinkInv
  <2>8. CASE Wrote("fetch", fetchMsg, "result")
    <3>1. in' \in Requested
      BY <1>i, <2>8, WriteFinds DEF Requested
    <3>2. QED
      BY <2>8, <3>1 DEF Wrote
  <2>9. CASE Took("ready", "ready", "start")
    BY <2>9 DEF Took
  <2>10. CASE Took("complete", "send_complete", "count")
    <3>1. w = "done" /\ out' = <<>>
      BY <2>10, RightResponse DEF Took
    <3>2. QED
      BY <2>10, <3>1 DEF Took
  <2>11. QED
    BY <1>2, <2>4, <2>5, <2>6, <2>7, <2>8, <2>9, <2>10 DEF Talks
<1>3. QED
  BY <1>1, <1>2

(* The other queues are not among those. *)
LEMMA NotRequested ==
    /\ \A d : <<helloMsg>> \notin Requested /\ <<helloMsg, prepareMsg(d)>> \notin Requested
              /\ <<prepareMsg(d)>> \notin Requested
    /\ <<startMsg>> \notin Requested /\ <<startMsg, completeMsg>> \notin Requested
    /\ <<completeMsg>> \notin Requested /\ <<>> \notin Requested
BY DEF Requested, helloMsg, prepareMsg, startMsg, completeMsg, fetchMsg

(* What the session serves, it serves to the end. *)
LEMMA ServiceStep ==
    ASSUME Sound, Inv, WorkerFit, ServiceInv, [Next]_vars
    PROVE  ServiceInv'
<1>i. TypeInv /\ LinkInv /\ LoopInv /\ WorkerInv /\ ClientInv /\ AlignInv
  BY DEF Inv
<1> USE DEF ServiceInv, Serving, Alive, Answers, Answered, Over
<1>1. CASE Outside
  <2>0. UNCHANGED fields /\ (out' = out \/ (out # <<>> /\ out' = Tail(out)))
    BY <1>1, OutsideFrame
  <2>f. (Serving => (link' = "session" /\ cpc' # "close") \/ WithResult) /\ (Serving' => Serving)
    BY <1>1, ClientFares
  <2>1. CASE ~Serving
    <3>1. in = <<>> /\ out = <<>>
      BY <2>1 DEF ServiceInv, Over
    <3>2. in' = <<>> \/ (Talks /\ in' # in)
      BY <1>1, <3>1, OutsideTakes DEF Talks, Leaves
    <3>3. Talks /\ in' # in => Serving
      BY DEF Talks, Wrote, Took, Serving
    <3>4. in' = <<>> /\ out' = <<>>
      BY <2>0, <2>1, <3>1, <3>2, <3>3
    <3>5. QED
      BY <2>0, <2>1, <2>f, <3>4 DEF ServiceInv, Over, fields
  <2>2. CASE Serving /\ WithResult /\ (cpc' = "close" \/ link' # "session")
    <3>1. in' = <<>> /\ out' = <<>> /\ state' = "completed"
      BY <2>0, <2>2 DEF WithResult, Answered, fields
    <3>2. QED
      BY <2>2, <3>1 DEF ServiceInv, Over, Serving
  <2>3. CASE Serving /\ link' = "session" /\ cpc' # "close"
    BY <1>1, <2>0, <2>3, ServiceGoesOn
  <2>4. QED
    BY <2>f, <2>1, <2>2, <2>3
<1>2. CASE Accept
  <2>1. ~Serving /\ cpc = "hello"
    BY <1>i, <1>2 DEF Accept, LinkInv, Served, Apart
  <2>2. QED
    BY <1>i, <1>2, <2>1 DEF Accept
<1>3. CASE SessionLoop
  <2>0. LoopSteps /\ UNCHANGED <<srun, sown, leftover, client, network>>
    BY <1>3, LoopTakes DEF SessionLoop
  <2>h. HealthyLoops
    BY <2>0, HealthyLoop
  <2>1. CASE DoRun
    BY <1>i, <2>0, <2>1 DEF DoRun, kept
  <2>2. CASE DoTop
    <3>1. Alive => state \notin {"completed", "failed", "cancelled"}
      BY <1>i DEF AlignInv
    <3>2. QED
      BY <2>0, <2>2, <3>1 DEF DoTop, kept
  <2>3. CASE DoHello
    <3>1. Serving /\ Alive /\ Answers
      BY <2>3, ReadingServes DEF DoHello, Reading
    <3>2. cpc # "result"
      BY <2>3, <3>1, NotRequested DEF DoHello, Reading, Reads
    <3>3. QED
      BY <2>0, <2>3, <3>1, <3>2 DEF DoHello, kept
  <2>4. CASE DoPrepare
    <3>1. Serving /\ Alive /\ Answers
      BY <2>4, ReadingServes DEF DoPrepare, Reading
    <3>2. state = "preparing" /\ \E d : in = <<prepareMsg(d)>>
      BY <2>4 DEF DoPrepare, Reading, Reads
    <3>3. cpc # "result"
      BY <3>1, <3>2, NotRequested
    <3>4. Aligned
      BY <1>i, <3>1 DEF ClientInv
    <3>5. cpc \notin {"send", "complete", "count", "fetch", "result"}
      BY <3>2, <3>3, <3>4 DEF Aligned
    <3>6. pc' = "top"
      BY <2>0, <2>4, HealthyLoop
    <3>7. QED
      BY <2>0, <2>4, <3>1, <3>5, <3>6 DEF DoPrepare
  <2>5. CASE DoStart
    <3>1. Serving /\ Alive /\ Answers
      BY <2>5, ReadingServes DEF DoStart, Reading
    <3>2. w = "none"
      BY <1>i, <2>5 DEF WorkerInv, DoStart, Reading, Reads
    <3>3. in \in Requested => in' \in Requested
      BY <2>5, NotRequested DEF DoStart, Reading, Reads, Requested
    <3>4. QED
      BY <2>0, <2>5, <3>1, <3>2, <3>3 DEF DoStart, kept
  <2>6. CASE DoStop
    <3>1. Serving /\ Alive /\ Answers
      BY <2>6, ReadingServes DEF DoStop, Reading
    <3>2. in \in Requested => in' \in Requested
      BY <2>6, NotRequested DEF DoStop, Reading, Reads, Requested
    <3>3. QED
      BY <2>0, <2>6, <3>1, <3>2 DEF DoStop, kept
  <2>7. CASE DoAwait
    BY <1>i, <2>0, <2>7 DEF DoAwait, kept
  <2>8. CASE DoCollect
    <3>1. Serving /\ Alive /\ Answers
      BY <2>8, ReadingServes DEF DoCollect
    <3>2. QED
      BY <2>0, <2>8, <3>1 DEF DoCollect, kept
  <2>9. CASE DoFetch
    <3>1. Serving /\ cpc = "result" /\ out = <<>>
      BY <2>9, FetchIsLast
    <3>2. Srv!WriteOk(Srv!Result)
      BY <2>0, <2>9, HealthyLoop
    <3>3. out' # <<>> /\ Head(out') = Srv!Result /\ Tail(out') = <<>>
      BY <3>1, <3>2, FirstResponse
    <3>4. Srv!Result.type = "result"
      BY DEF Srv!Result
    <3>5. QED
      BY <2>0, <2>9, <3>1, <3>3, <3>4 DEF DoFetch, Reading, Reads
  <2>10. CASE DoCloseConn
    BY <1>i, <2>0, <2>10 DEF DoCloseConn, kept
  <2>11. CASE DoFinish
    BY <1>i, <2>0, <2>11 DEF DoFinish, kept
  <2>12. QED
    BY <2>h, <2>1, <2>2, <2>3, <2>4, <2>5, <2>6, <2>7, <2>8, <2>9, <2>10, <2>11
       DEF HealthyLoops
<1>4. CASE SessionBinds
  <2>1. Srv!BindReceiver /\ UNCHANGED <<srun, client>>
    BY <1>4 DEF SessionBinds
  <2>2. w = "spawned" /\ w' \in {"receiving", "bindfailed"} /\ UNCHANGED <<state, pc, sock, in, out>>
    BY <2>1 DEF Srv!BindReceiver
  <2>3. QED
    BY <2>1, <2>2
<1>5. CASE SessionReceives
  BY <1>i, <1>5 DEF SessionReceives, Srv!ReceiveDatagram
<1>6. CASE SessionSends
  BY <1>i, <1>6 DEF SessionSends, Srv!SendPacket
<1>7. CASE SessionWorker
  <2>0. HealthyWorks /\ UNCHANGED <<srun, sown, hasty, leftover, client, network>>
    BY <1>7, HealthyWorker
  <2>1. CASE Srv!ReceiveReturns
    BY <1>i, <2>0, <2>1 DEF Srv!ReceiveReturns
  <2>2. CASE Srv!CloseUDP
    BY <1>i, <2>0, <2>2 DEF Srv!CloseUDP
  <2>3. CASE Srv!CountReceived
    BY <1>i, <2>0, <2>3 DEF Srv!CountReceived, Srv!Received
  <2>4. CASE Srv!SignalDone
    <3>1. direction = "uplink" /\ w # "done" /\ state \notin {"idle", "preparing", "ready"}
      BY <1>i, <2>4 DEF Srv!SignalDone, WorkerInv, Uplinking
    <3>2. Serving /\ Alive => state \in {"running", "collecting"} /\ direction = dir
      BY <1>i, <3>1 DEF AlignInv, ClientInv
    <3>3. QED
      BY <1>i, <2>0, <2>4, <3>1, <3>2 DEF Srv!SignalDone, LinkInv
  <2>5. CASE Srv!SendReturns
    BY <1>i, <2>0, <2>5 DEF Srv!SendReturns
  <2>6. CASE DoSend
    BY <1>i, <2>0, <2>6 DEF DoSend, workerKept
  <2>7. CASE DoMove
    BY <1>i, <2>0, <2>7 DEF DoMove, workerKept
  <2>8. CASE DoNotify
    BY <1>i, <2>0, <2>8 DEF DoNotify, workerKept
  <2>9. QED
    BY <2>0, <2>1, <2>2, <2>3, <2>4, <2>5, <2>6, <2>7, <2>8 DEF HealthyWorks
<1>8. CASE SocketFails
  BY <1>8 DEF SocketFails, Sound
<1>9. QED
  BY <1>1, <1>2, <1>3, <1>4, <1>5, <1>6, <1>7, <1>8, Steps

(* No worker of a session that went well is about to close its port. *)
LEMMA ClosedInTime ==
    ASSUME Inv, NoneClosing, WorkerFit, ServiceInv, [Next]_vars
    PROVE  NoneClosing'
<1>t. leftover \in [Runs -> {"none", "late", "bound", "closing", "orphan"}]
  BY DEF Inv, TypeInv
<1>i. WorkerInv
  BY DEF Inv
<1> USE DEF NoneClosing
<1>1. CASE leftover' = leftover
  BY <1>1
<1>2. CASE LeftoverStep
  <2>1. PICK r \in Runs : \E v \in {"none", "orphan"} : leftover' = [leftover EXCEPT ![r] = v]
    BY <1>2 DEF LeftoverStep
  <2>2. \A q \in Runs : leftover'[q] \in {leftover[q], "none", "orphan"}
    BY <1>t, <2>1
  <2>3. QED
    BY <2>2
<1>3. CASE /\ link = "backlog" /\ srun \in Runs
           /\ leftover' = [leftover EXCEPT ![srun] = Residue]
  <2>1. Over /\ srun # 0
    BY <1>3 DEF ServiceInv, Serving, Runs
  <2>2. state = "completed"
    BY <2>1 DEF Over
  <2>3. /\ ~(w = "receiving" /\ rsock = "open" /\ quitCh = "closed")
        /\ ~(w = "stopping" /\ rsock = "open")
    BY <1>i, <2>2 DEF WorkerFit, Settled, WorkerInv, Uplinking
  <2>4. Residue # "closing"
    <3>1. CASE direction # "downlink" /\ w = "spawned"
      BY <3>1 DEF Residue
    <3>2. CASE w = "receiving" /\ rsock = "open" /\ quitCh # "closed"
      <4>1. hasty \/ ~hasty
        OBVIOUS
      <4>2. QED
        BY <3>2, <4>1 DEF Residue
    <3>3. CASE ~(direction # "downlink" /\ w = "spawned")
               /\ ~(w = "receiving" /\ rsock = "open" /\ quitCh # "closed")
      BY <2>3, <3>3 DEF Residue
    <3>4. QED
      BY <3>1, <3>2, <3>3
  <2>5. \A q \in Runs : leftover'[q] \in {leftover[q], Residue}
    BY <1>t, <1>3
  <2>6. QED
    BY <2>4, <2>5
<1>4. QED
  BY <1>1, <1>2, <1>3, LeftoverChanges

(* Client and session stay in health. *)
LEMMA HealthStep ==
    ASSUME Sound, Inv, Earlier, HealthInv, [Next]_vars
    PROVE  HealthInv'
<1> SUFFICES ASSUME NoOrphan' PROVE (NoneClosing /\ WorkerFit /\ ServiceInv)'
  BY DEF HealthInv
<1>1. NoOrphan /\ NoneClosing /\ WorkerFit /\ ServiceInv
  BY OrphansStay DEF HealthInv
<1>2. QED
  BY <1>1, ClosedInTime, FitStep, ServiceStep

(* A test fails by a step of the client alone. *)
LEMMA FailureIsTheClients ==
    ASSUME Inv, [Next]_vars, ~Outside
    PROVE  hasFailure' = hasFailure
<1>1. CASE Accept
  BY <1>1 DEF Accept
<1>2. CASE SessionLoop \/ SessionBinds \/ SessionWorker \/ SocketFails
  BY <1>2, SessionFrame DEF Within
<1>3. CASE SessionReceives \/ SessionSends
  BY <1>3 DEF SessionReceives, SessionSends
<1>4. QED
  BY <1>1, <1>2, <1>3, Steps

(* Where no socket fails and no deadline expires, a test fails only if the   *)
(* server turns it away, whatever the network does and however the steps of  *)
(* client, session and worker interleave: no request comes too early or too  *)
(* late, no response is lost or taken for another.  A port that a worker has *)
(* kept by starting late is the one exception.                              *)
THEOREM OnlyTurnedAway ==
    ASSUME Sound
    PROVE  Spec => FailsOnlyIfTurnedAway
<1> DEFINE Fares == \/ hasFailure' = hasFailure
                    \/ link = "rejected" \/ cpc = "dial"
                    \/ \E r \in Runs : leftover[r] = "orphan"
<1>1. Init => Earlier /\ HealthInv
  <2>1. Init => WorkerFit
    BY DEF Init, WorkerFit
  <2>2. Init => ServiceInv
    BY DEF Init, ServiceInv, Serving, Over
  <2>3. Init => Earlier /\ NoneClosing
    BY DEF Init, Earlier, NoneClosing
  <2>4. QED
    BY <2>1, <2>2, <2>3 DEF HealthInv
<1>2. Inv /\ Earlier /\ HealthInv /\ [Next]_vars => Earlier' /\ HealthInv'
  BY OrphansStay, HealthStep
<1>3. Inv /\ HealthInv /\ [Next]_vars => [Fares]_vars
  <2>1. SUFFICES ASSUME Inv, HealthInv, [Next]_vars, NoOrphan PROVE Fares
    BY DEF NoOrphan
  <2>2. CASE Outside
    BY <2>1, <2>2, ClientFares DEF HealthInv
  <2>3. CASE ~Outside
    BY <2>1, <2>3, FailureIsTheClients
  <2>4. QED
    BY <2>2, <2>3
<1>4. Spec => [][Fares]_vars
  BY <1>1, <1>2, <1>3, InvHolds, PTL DEF Spec
<1>5. QED
  BY <1>4 DEF FailsOnlyIfTurnedAway

=============================================================================
