------------------------------ MODULE Session -------------------------------
(***************************************************************************)
(* One control session of the server (internal/control/session.go): the    *)
(* goroutine that handles the messages of one TCP connection (its program   *)
(* counter is pc), and the worker goroutine (w) that "start" spawns to       *)
(* receive or to send the UDP test packets.  The two share the session's    *)
(* fields; a mutex makes single sections of them atomic, and every gap       *)
(* between a read of the state and its later use is a step boundary here.    *)
(*                                                                          *)
(* The TCP connection is two bounded queues of whole messages.  The peer    *)
(* (the client), the cancellation of the server's context and the faults    *)
(* named by the constant Faults are the environment.                        *)
(***************************************************************************)
EXTENDS Naturals, Sequences, Protocol

CONSTANTS
    PacketCount,   \* Prepare.PacketCount, the length of a downlink test
    MaxDatagrams,  \* bound: valid datagrams that reach the UDP receiver
    ChanCap,       \* bound: messages in flight in each direction
    TcpFamily,     \* address family of the client's TCP connection
    Directions,    \* directions the client asks for in Prepare
    Faults         \* what may go wrong, a subset of the next definition

(* deadline: a read or write deadline of the connection expires; socket: a  *)
(* UDP socket call fails; reset: the connection is reset; badframe: a        *)
(* length prefix is out of range.                                            *)
FaultKinds == {"deadline", "socket", "reset", "badframe"}

ASSUME ConstantsAssumption ==
    /\ PacketCount \in Nat \ {0}
    /\ MaxDatagrams \in Nat
    /\ ChanCap \in Nat \ {0}
    /\ TcpFamily \in Family
    /\ Directions \subseteq Direction
    /\ Faults \subseteq FaultKinds

VARIABLES
    state,         \* Session.state
    pc,            \* where the message loop is
    seen,          \* the state handleTimeout read before it took the lock
    direction,     \* Session.direction
    family,        \* Session.family
    sock,          \* the server's end of the TCP connection
    receiver,      \* Session.receiver: nil, or set to the worker's
    rsock,         \* the UDP receiver's socket
    quitCh,        \* Session.quitCh ("closed": closed, and the field nil again)
    receiverDone,  \* Session.receiverDone
    w,             \* where the worker goroutine is
    tx,            \* packets the UDP sender has written
    rx,            \* valid packets the UDP receiver has recorded
    sentCount,     \* Session.sentCount
    receivedCount, \* Session.receivedCount
    in,            \* requests on their way to the server
    out,           \* responses on their way to the client
    peer,          \* the client's end of the connection
    ctx            \* the server's context, live until Server.Close

vars == <<state, pc, seen, direction, family, sock, receiver, rsock, quitCh,
          receiverDone, w, tx, rx, sentCount, receivedCount, in, out, peer,
          ctx>>

request  == <<direction, family>>
udp      == <<receiver, rsock>>
channels == <<quitCh, receiverDone>>
counts   == <<tx, rx, sentCount, receivedCount>>
worker   == <<w, udp, channels, counts>>
env      == <<peer, ctx>>

(***************************************************************************)
(* Messages.  A hello of another protocol version and a request that does   *)
(* not decode or has a type the server does not handle are types of their   *)
(* own.                                                                     *)
(***************************************************************************)
Simple == {"hello", "hello_mismatch", "start", "send_complete",
           "fetch_result", "cancel", "undecodable", "bad_length"}

Request == [type : Simple]
           \cup [type : {"prepare"}, direction : Direction, family : Family]

Response == [type : {"ready", "send_complete", "invalid_request",
                     "internal_error"}]
            \cup [type : {"result"}, sent : Nat, received : Nat]

ClientRequests ==
    [type : IF "badframe" \in Faults THEN Simple ELSE Simple \ {"bad_length"}]
    \cup [type : {"prepare"}, direction : Directions, family : Family]

Msg(t) == [type |-> t]

(***************************************************************************)
(* writeMessage.  The write deadline is set once per turn of the message    *)
(* loop, so where deadlines can expire any write may fail.                  *)
(***************************************************************************)
WriteOk(m) ==
    /\ sock = "open" /\ peer # "reset" /\ Len(out) < ChanCap
    /\ out' = Append(out, m)

WriteFails ==
    /\ sock = "closed" \/ peer # "open" \/ "deadline" \in Faults
    /\ UNCHANGED out

(* The callers that ignore writeMessage's error. *)
Attempt(m) == WriteOk(m) \/ WriteFails

Init ==
    /\ state = "idle" /\ pc = "idle" /\ seen = "idle"
    /\ direction = "uplink" /\ family = "ipv4"
    /\ sock = "open" /\ receiver = "nil" /\ rsock = "none"
    /\ quitCh = "nil" /\ receiverDone = "nil"
    /\ w = "none"
    /\ tx = 0 /\ rx = 0 /\ sentCount = 0 /\ receivedCount = 0
    /\ in = <<>> /\ out = <<>>
    /\ peer = "open" /\ ctx = "live"

-----------------------------------------------------------------------------
(***************************************************************************)
(* The message loop: Run and handleMessages.                                *)
(***************************************************************************)
Run ==
    /\ pc = "idle"
    /\ CanTransition(state, "preparing")
    /\ state' = "preparing"
    /\ pc' = "top"
    /\ UNCHANGED <<seen, request, sock, worker, in, out, env>>

(* One turn of the loop up to the read: a terminal state ends the loop, a   *)
(* cancelled context starts handleCancel, else the loop waits for a message *)
LoopTop ==
    /\ pc = "top"
    /\ pc' = IF IsTerminal(state) THEN "returned"
             ELSE IF ctx = "done" THEN "cancelling" ELSE "reading"
    /\ UNCHANGED <<state, seen, request, sock, worker, in, out, env>>

(* readMessage returned the next request, of type t. *)
Read(t) ==
    /\ pc = "reading"
    /\ sock = "open" /\ in # <<>> /\ Head(in).type = t
    /\ in' = Tail(in)

(* sendInvalidRequest: answered, the session left as it is. *)
Reject ==
    /\ Attempt(Msg("invalid_request"))
    /\ pc' = "top"
    /\ UNCHANGED <<state, seen, request, sock, worker, env>>

(* sendError, after which the loop returns. *)
Abort ==
    /\ Attempt(Msg("internal_error"))
    /\ pc' = "returned"
    /\ UNCHANGED <<state, seen, request, sock, worker, env>>

handleHello ==
    \/ /\ Read("hello")
       /\ pc' = "top"
       /\ UNCHANGED <<state, seen, request, sock, worker, out, env>>
    \/ Read("hello_mismatch") /\ Reject

HandleUndecodable == Read("undecodable") /\ Reject

HandleBadLength == Read("bad_length") /\ Abort

(* The request's fields are stored before the family is checked; an IPv6    *)
(* test needs an IPv6 connection, an IPv4 test is accepted over either.     *)
FamilyRejected(f) == f = "ipv6" /\ TcpFamily # "ipv6"

(* setState cannot fail here: only this goroutine leaves "preparing". *)
handlePrepare ==
    /\ Read("prepare")
    /\ IF state # "preparing"
       THEN Reject
       ELSE /\ direction' = Head(in).direction
            /\ family' = Head(in).family
            /\ IF FamilyRejected(Head(in).family)
               THEN /\ Attempt(Msg("invalid_request"))
                    /\ state' = state /\ pc' = "top"
               ELSE /\ state' = "ready"
                    /\ \/ WriteOk(Msg("ready")) /\ pc' = "top"
                       \/ WriteFails /\ pc' = "returned"
            /\ UNCHANGED <<seen, sock, worker, env>>

(* setState cannot fail here either: there is no worker in "ready". *)
handleStart ==
    /\ Read("start")
    /\ IF state # "ready"
       THEN Reject
       ELSE /\ state' = "running"
            /\ w' = "spawned"
            /\ pc' = "top"
            /\ UNCHANGED <<seen, request, sock, udp, channels, counts, out, env>>

(* Mutant of StopAndWait: the loop closes quitCh and does not wait. *)
StopNoWait ==
    /\ quitCh' = IF direction = "uplink" /\ quitCh = "open"
                 THEN "closed" ELSE quitCh
    /\ pc' = "collect"

(* Running, uplink: stop the receiver and wait for it if it has started.    *)
(* Reading the state and the locked section are one step: in between the    *)
(* worker can only start, which the step before this one covers.            *)
StopAndWait ==
    IF direction = "uplink"
    THEN /\ quitCh' = IF quitCh = "open" THEN "closed" ELSE quitCh
         /\ pc' = IF receiverDone = "nil" THEN "collect" ELSE "await"
    ELSE quitCh' = quitCh /\ pc' = "collect"

handleSendComplete ==
    /\ Read("send_complete")
    /\ CASE state = "collecting" ->
              /\ pc' = "top"
              /\ UNCHANGED <<state, seen, request, sock, worker, out, env>>
         [] state = "running" ->
              /\ StopAndWait
              /\ UNCHANGED <<state, seen, request, sock, w, udp, receiverDone,
                             counts, out, env>>
         [] OTHER -> Reject

(* <-receiverDone *)
AwaitReceiver ==
    /\ pc = "await"
    /\ receiverDone = "closed"
    /\ pc' = "collect"
    /\ UNCHANGED <<state, seen, request, sock, worker, in, out, env>>

(* The setState(collecting) of handleSendComplete. *)
Collect ==
    /\ pc = "collect"
    /\ IF CanTransition(state, "collecting")
       THEN /\ state' = "collecting"
            /\ pc' = "top"
            /\ UNCHANGED <<seen, request, sock, worker, out, env>>
       ELSE Abort
    /\ UNCHANGED in

(* Mutant of Result: what was not counted is reported as not sent. *)
ResultNoFallback == [type |-> "result", sent |-> sentCount, received |-> receivedCount]

(* sendResult reports the requested number where nothing was counted. *)
Result == [type |-> "result",
           sent |-> IF sentCount = 0 THEN PacketCount ELSE sentCount,
           received |-> receivedCount]

handleFetchResult ==
    /\ Read("fetch_result")
    /\ IF state \in {"collecting", "completed", "failed"}
       THEN /\ state' = IF state = "collecting" THEN "completed" ELSE state
            /\ Attempt(Result)
            /\ pc' = "closeconn"
            /\ UNCHANGED <<seen, request, sock, worker, env>>
       ELSE Reject

(* sendResult closes the connection whether the write succeeded or not, and *)
(* the session is in a terminal state by then, so either way the loop ends.  *)
CloseAfterResult ==
    /\ pc = "closeconn"
    /\ sock' = "closed"
    /\ pc' = "top"
    /\ UNCHANGED <<state, seen, request, worker, in, out, env>>

(* A cancel request finds the session active and goes on to the assignment. *)
HandleCancelRequest ==
    /\ Read("cancel")
    /\ pc' = IF IsActive(state) THEN "cancelling" ELSE "top"
    /\ UNCHANGED <<state, seen, request, sock, worker, out, env>>

(* handleCancel's locked section assigns the field without the table. *)
CancelAssign ==
    /\ pc = "cancelling"
    /\ state' = "cancelled"
    /\ pc' = "cleanup"
    /\ UNCHANGED <<seen, request, sock, worker, in, out, env>>

(* readMessage returned EOF or a timeout; handleTimeout reads the state ... *)
ReadTimeout ==
    /\ pc = "reading"
    /\ sock = "open" /\ in = <<>>
    /\ peer = "closed" \/ (peer = "open" /\ "deadline" \in Faults)
    /\ seen' = state
    /\ pc' = "timedout"
    /\ UNCHANGED <<state, request, sock, worker, in, out, env>>

(* Mutant of AfterTimeout: a session that is ready fails, too. *)
AfterTimeoutReadyFails(s) ==
    CASE s \in {"preparing", "ready", "collecting"} -> "failed"
      [] s = "running" -> "collecting"
      [] OTHER         -> state

(* ... and what it assigns is chosen by the state it read, not the current. *)
AfterTimeout(s) ==
    CASE s = "preparing"  -> "failed"
      [] s = "running"    -> "collecting"
      [] s = "collecting" -> "failed"
      [] OTHER            -> state

TimeoutAssign ==
    /\ pc = "timedout"
    /\ state' = AfterTimeout(seen)
    /\ pc' = "cleanup"
    /\ UNCHANGED <<seen, request, sock, worker, in, out, env>>

(* Any other read error: the connection closed under us, or was reset. *)
ReadError ==
    /\ pc = "reading"
    /\ sock = "closed" \/ (peer = "reset" /\ in = <<>>)
    /\ Abort
    /\ UNCHANGED in

(* Mutant of CloseReceiver: the field is dropped, the socket left open. *)
ForgetReceiver ==
    /\ receiver' = "nil"
    /\ UNCHANGED rsock

(* Closing s.receiver, if the field is set, under the lock. *)
CloseReceiver ==
    /\ rsock' = IF receiver = "set" THEN "closed" ELSE rsock
    /\ receiver' = "nil"

(* Mutant of cleanupNoStateChange: the connection is not closed. *)
CleanupKeepsConn ==
    /\ pc = "cleanup"
    /\ CloseReceiver
    /\ pc' = "top"
    /\ UNCHANGED <<state, seen, request, sock, w, channels, counts, in, out, env>>

cleanupNoStateChange ==
    /\ pc = "cleanup"
    /\ sock' = "closed"
    /\ CloseReceiver
    /\ pc' = "top"
    /\ UNCHANGED <<state, seen, request, w, channels, counts, in, out, env>>

(* handleConn after Run: the slot is released and the connection closed. *)
Finish ==
    /\ pc = "returned"
    /\ sock' = "closed"
    /\ pc' = "done"
    /\ UNCHANGED <<state, seen, request, worker, in, out, env>>

Loop ==
    \/ Run \/ LoopTop
    \/ handleHello \/ HandleUndecodable \/ HandleBadLength
    \/ handlePrepare \/ handleStart
    \/ handleSendComplete \/ AwaitReceiver \/ Collect
    \/ handleFetchResult \/ CloseAfterResult
    \/ HandleCancelRequest \/ CancelAssign
    \/ ReadTimeout \/ TimeoutAssign \/ ReadError
    \/ cleanupNoStateChange \/ Finish

-----------------------------------------------------------------------------
(***************************************************************************)
(* The worker of an uplink test (and of direction "both"):                  *)
(* runUplinkReceiver around udp.Receiver.                                   *)
(***************************************************************************)
loop == <<pc, seen, request, sock>>

(* The first locked section: make the channels, bind the UDP port. *)
BindReceiver ==
    /\ w = "spawned" /\ direction # "downlink"
    /\ quitCh' = "open" /\ receiverDone' = "open"
    /\ \/ rsock' = "open" /\ receiver' = "set" /\ w' = "receiving"
       \/ "socket" \in Faults /\ w' = "bindfailed" /\ UNCHANGED udp
    /\ UNCHANGED <<state, loop, counts, in, out, env>>

(* Mutant of BindFailed: receiverDone stays open on the error path. *)
BindFailedNoClose ==
    /\ w = "bindfailed"
    /\ Attempt(Msg("internal_error"))
    /\ w' = "done"
    /\ UNCHANGED <<state, loop, udp, channels, counts, in, env>>

BindFailed ==
    /\ w = "bindfailed"
    /\ Attempt(Msg("internal_error"))
    /\ receiverDone' = "closed"
    /\ w' = "done"
    /\ UNCHANGED <<state, loop, udp, quitCh, counts, in, env>>

(* A turn of Receiver.Receive that records a valid datagram; the read under *)
(* way when the receiver is told to quit is its last.  A turn that times out *)
(* or drops a malformed datagram changes nothing.                           *)
ReceiveDatagram ==
    /\ w = "receiving" /\ rsock = "open"
    /\ rx < MaxDatagrams
    /\ rx' = rx + 1
    /\ w' = IF quitCh = "closed" THEN "stopping" ELSE w
    /\ UNCHANGED <<state, loop, udp, channels, tx, sentCount, receivedCount,
                   in, out, env>>

(* Receive returns: it was told to quit, or its socket has been closed. *)
ReceiveReturns ==
    /\ w = "receiving"
    /\ quitCh = "closed" \/ rsock = "closed"
    /\ w' = "stopping"
    /\ UNCHANGED <<state, loop, udp, channels, counts, in, out, env>>

(* Receive returns: an open socket failed it. *)
ReceiveFails ==
    /\ w = "receiving" /\ rsock = "open"
    /\ "socket" \in Faults
    /\ w' = "stopping"
    /\ UNCHANGED <<state, loop, udp, channels, counts, in, out, env>>

CloseUDP ==
    /\ w = "stopping"
    /\ rsock' = "closed"
    /\ w' = "counting"
    /\ UNCHANGED <<state, loop, receiver, channels, counts, in, out, env>>

(* Receiver.Result().Received counts every packet recorded, whether its     *)
(* header matches the test or not.                                          *)
Received == rx

CountReceived ==
    /\ w = "counting"
    /\ receivedCount' = Received
    /\ receiver' = "nil"
    /\ w' = "closing"
    /\ UNCHANGED <<state, loop, rsock, channels, tx, rx, sentCount, in, out, env>>

SignalDone ==
    /\ w = "closing"
    /\ receiverDone' = "closed"
    /\ w' = "done"
    /\ UNCHANGED <<state, loop, udp, quitCh, counts, in, out, env>>

(***************************************************************************)
(* The worker of a downlink test: runDownlinkSender around udp.Sender.      *)
(***************************************************************************)
SenderFails ==
    /\ Attempt(Msg("internal_error"))
    /\ w' = "done"
    /\ UNCHANGED <<state, loop, udp, channels, counts, in, env>>

NewSender ==
    /\ w = "spawned" /\ direction = "downlink"
    /\ \/ /\ w' = "sending"
          /\ UNCHANGED <<state, loop, udp, channels, counts, in, out, env>>
       \/ "socket" \in Faults /\ SenderFails

(* The target address is the TCP peer's; Send resolves it in the family of  *)
(* the test, which fails when the two differ.                               *)
Resolves == family = TcpFamily

(* Mutant of SendPacket: i <= PacketCount in the loop's condition. *)
SendPacketOneMore ==
    /\ w = "sending" /\ Resolves
    /\ tx <= PacketCount
    /\ tx' = tx + 1
    /\ UNCHANGED <<state, loop, w, udp, channels, rx, sentCount, receivedCount,
                   in, out, env>>

SendPacket ==
    /\ w = "sending" /\ Resolves
    /\ tx < PacketCount
    /\ tx' = tx + 1
    /\ UNCHANGED <<state, loop, w, udp, channels, rx, sentCount, receivedCount,
                   in, out, env>>

SendFails ==
    /\ w = "sending" /\ tx < PacketCount
    /\ ~Resolves \/ "socket" \in Faults
    /\ SenderFails

SendReturns ==
    /\ w = "sending" /\ tx = PacketCount
    /\ sentCount' = PacketCount
    /\ w' = "sent"
    /\ UNCHANGED <<state, loop, udp, channels, tx, rx, receivedCount, in, out, env>>

(* Mutant of SenderCollects: the field assigned without setState's check. *)
SenderAssigns ==
    /\ w = "sent"
    /\ state' = "collecting"
    /\ w' = "notify"
    /\ UNCHANGED <<loop, udp, channels, counts, in, out, env>>

(* Mutant of SenderCollects: SendComplete goes out before the state moves. *)
SenderAnnouncesFirst ==
    /\ w = "sent"
    /\ Attempt(Msg("send_complete"))
    /\ w' = "notify"
    /\ UNCHANGED <<state, loop, udp, channels, counts, in, env>>

(* setState(collecting), then SendComplete, in this order. *)
SenderCollects ==
    /\ w = "sent"
    /\ IF CanTransition(state, "collecting")
       THEN /\ state' = "collecting"
            /\ w' = "notify"
            /\ UNCHANGED <<loop, udp, channels, counts, in, out, env>>
       ELSE SenderFails

(* Mutant of NotifySendComplete: the client is not told. *)
NotifyNobody ==
    /\ w = "notify"
    /\ w' = "done"
    /\ UNCHANGED <<state, loop, udp, channels, counts, in, out, env>>

NotifySendComplete ==
    /\ w = "notify"
    /\ Attempt(Msg("send_complete"))
    /\ w' = "done"
    /\ UNCHANGED <<state, loop, udp, channels, counts, in, env>>

WorkerStep ==
    \/ BindReceiver \/ BindFailed \/ ReceiveDatagram \/ ReceiveReturns
    \/ CloseUDP \/ CountReceived \/ SignalDone
    \/ NewSender \/ SendPacket \/ SendFails \/ SendReturns
    \/ SenderCollects \/ NotifySendComplete

Worker == WorkerStep \/ ReceiveFails

-----------------------------------------------------------------------------
(***************************************************************************)
(* The environment: any client, and the server's shutdown.                  *)
(***************************************************************************)
server == <<state, loop, worker>>

ClientSend ==
    /\ peer = "open" /\ sock = "open" /\ Len(in) < ChanCap
    /\ \E m \in ClientRequests : in' = Append(in, m)
    /\ UNCHANGED <<server, out, env>>

ClientRecv ==
    /\ peer = "open" /\ out # <<>>
    /\ out' = Tail(out)
    /\ UNCHANGED <<server, in, env>>

ClientClose ==
    /\ peer = "open"
    /\ peer' = "closed"
    /\ UNCHANGED <<server, in, out, ctx>>

(* Requests still in flight may be lost with the connection. *)
ClientReset ==
    /\ "reset" \in Faults /\ peer # "reset" /\ pc # "done"
    /\ peer' = "reset"
    /\ in' \in {in, <<>>}
    /\ UNCHANGED <<server, out, ctx>>

(* Server.Close cancels the context every session runs under. *)
Shutdown ==
    /\ ctx = "live"
    /\ ctx' = "done"
    /\ UNCHANGED <<server, in, out, peer>>

Terminated == pc = "done" /\ UNCHANGED vars

Environment == ClientSend \/ ClientRecv \/ ClientClose \/ ClientReset \/ Shutdown

Next == Loop \/ Worker \/ Environment \/ Terminated

(* Go schedules every runnable goroutine.  Nothing is asked of the client,  *)
(* and no receiver is rescued by the failure of its socket.                 *)
Fairness == WF_vars(Loop) /\ WF_vars(WorkerStep)

Spec == Init /\ [][Next]_vars /\ Fairness

(***************************************************************************)
(* The same system when a worker, once spawned, runs its first section      *)
(* before the loop takes another step.  Go's scheduler does not promise it;  *)
(* it separates what depends on that race from what does not.               *)
(***************************************************************************)
PromptNext == Next /\ (w = "spawned" => pc' = pc)

PromptSpec == Init /\ [][PromptNext]_vars /\ Fairness

-----------------------------------------------------------------------------
(***************************************************************************)
(* Properties                                                               *)
(***************************************************************************)

LoopPCs == {"idle", "top", "reading", "collect", "await", "closeconn",
            "timedout", "cancelling", "cleanup", "returned", "done"}

WorkerPCs == {"none", "spawned", "bindfailed", "receiving", "stopping",
              "counting", "closing", "sending", "sent", "notify", "done"}

FieldsOK ==
    /\ state \in SessionState /\ seen \in SessionState
    /\ pc \in LoopPCs /\ w \in WorkerPCs
    /\ direction \in Direction /\ family \in Family
    /\ sock \in {"open", "closed"} /\ rsock \in {"none", "open", "closed"}
    /\ receiver \in {"nil", "set"} /\ ctx \in {"live", "done"}
    /\ quitCh \in {"nil", "open", "closed"}
    /\ receiverDone \in {"nil", "open", "closed"}
    /\ tx \in 0..PacketCount /\ sentCount \in {0, PacketCount}
    /\ rx \in 0..MaxDatagrams /\ receivedCount \in 0..MaxDatagrams
    /\ peer \in {"open", "closed", "reset"}

QueuesOK == in \in Seq(Request) /\ out \in Seq(Response)

(* The fields, channels and program counters keep their types; the sender   *)
(* never writes more than the requested number of packets.                  *)
TypeOK == FieldsOK /\ QueuesOK

FSM == INSTANCE SessionFSM WITH ExtraEdges <- {<<"collecting", "cancelled">>}

(* Whatever loop and worker do to the state field, through setState or by   *)
(* the direct assignments of handleTimeout and handleCancel, and however    *)
(* those race, it moves along the transition table or from collecting to    *)
(* cancelled.                                                               *)
ImplementsFSM == FSM!Spec

Table == INSTANCE SessionFSM WITH ExtraEdges <- {}

(* The state moves along the transition table alone, in which a session     *)
(* that is collecting cannot be cancelled (the test of the table lists this  *)
(* transition as one that must fail).                                        *)
FollowsTable == Table!Spec

(* A completed, failed or cancelled session stays so: no late worker, late  *)
(* message or stale timeout revives it (nothing calls for the table's reset *)
(* to idle).                                                                *)
TerminalIsFinal == [][IsTerminal(state) => state' = state]_vars

(* Once the server has announced SendComplete of a downlink test, a         *)
(* fetch_result cannot be turned away as premature: runDownlinkSender moves *)
(* to collecting before it writes, and no packet is still to be sent.       *)
FetchAfterAnnounce ==
    \A i \in 1..Len(out) : out[i].type = "send_complete" =>
        /\ state \in {"collecting", "completed", "failed", "cancelled"}
        /\ tx = PacketCount

(* handleSendComplete never waits for ever for a receiver it has told to    *)
(* quit, whichever way that receiver ends.                                  *)
AwaitEnds == (pc = "await") ~> (pc # "await")

(* When the client goes away or the server shuts down, the session ends and *)
(* its handler returns (so that the slot is released and Close can return). *)
SessionEnds == (peer # "open" \/ ctx = "done") ~> (pc = "done")

(* A client that stops talking does not hold the session for ever: the read *)
(* deadline ends it in whatever state it is.                                *)
SilentClientEvicted == <>[](in = <<>>) => <>(pc = "done")

(* The UDP port of a finished session is not left bound (releaseSession:    *)
(* "releases the session slot and cleans up resources").                    *)
ReceiverReclaimed == (pc = "done") ~> (rsock # "open")

(* More than that where the connection is not broken: the session's slot is *)
(* released only after the UDP port is free again, whether the test was      *)
(* collected, cancelled or timed out, so that the next session can bind it.  *)
PortFreeAtRelease == pc = "done" => rsock # "open"

(* The Result of an uplink test reports what the receiver really recorded:  *)
(* it is written after the receiver has stopped, with its final count.      *)
UplinkResultFinal ==
    \A i \in 1..Len(out) :
        (out[i].type = "result" /\ direction = "uplink") =>
            /\ w = "done"
            /\ out[i].received = rx

=============================================================================
