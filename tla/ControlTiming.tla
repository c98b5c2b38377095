--------------------------- MODULE ControlTiming ----------------------------
(***************************************************************************)
(* Deadlines of one test over one control connection: those that the         *)
(* session's loop sets before each read (session.go), those of the client's   *)
(* writeMsg and recvResponse (client.go), the client's fixed pauses, and the  *)
(* time a test takes.                                                         *)
(*                                                                          *)
(* Time is discrete.  What is not a wait takes no time: Tick is enabled only  *)
(* when client and server both wait and no deadline is due.  At the instant   *)
(* of a deadline a read may still succeed or time out; a write fails.         *)
(***************************************************************************)
EXTENDS Integers, Sequences

CONSTANTS
    ControlReadTimeout,   \* 30 s
    ControlWriteTimeout,  \* 10 s
    Settle,               \* the client's pause before it starts an uplink test: 10 ms
    Grace,                \* its pause before it sends or counts, and after an uplink
                          \* result: 50 ms
    Durations,            \* (PacketCount - 1) * IntervalMs: how long the sender takes,
                          \* which pauses between packets
    Directions,
    Faults,               \* stall: the server halts; vanish: the client does,
                          \* without closing
    MaxTime               \* bound on time

ASSUME TimingAssumption ==
    /\ ControlReadTimeout \in Nat \ {0}
    /\ ControlWriteTimeout \in Nat \ {0}
    /\ ControlWriteTimeout <= ControlReadTimeout
    /\ Settle \in Nat /\ Settle < ControlReadTimeout
    /\ Grace \in Nat
    /\ MaxTime \in Nat
    /\ Durations \subseteq Nat
    /\ Directions \subseteq {"uplink", "downlink"}

VARIABLES
    now,
    dir, dur,    \* the test
    \* the client
    cpc,         \* hello, one of Waits, Pauses or Closed, or vanished
    cdue,        \* its read deadline, or the end of its pause
    \* the connection
    in, out,
    \* the server
    spc,         \* reading, ended or stalled
    state,       \* Session.state
    rdl, wdl,    \* read and write deadlines of the connection
    wdue,        \* when the downlink sender is through; -1 if there is none
    heard,       \* time of the last request read
    dropped      \* a response could not be written in time

vars == <<now, dir, dur, cpc, cdue, in, out, spc, state, rdl, wdl, wdue, heard,
          dropped>>

client == <<cpc, cdue>>
server == <<spc, state, rdl, wdl, wdue, heard, dropped>>

Waits  == {"ready", "complete", "result"}
Pauses == {"settling", "sending", "counting", "leaving"}
Closed == {"ok", "failed"}

Init ==
    /\ now = 0
    /\ dir \in Directions /\ dur \in Durations
    /\ cpc = "hello" /\ cdue = 0
    /\ in = <<>> /\ out = <<>>
    /\ spc = "reading" /\ state = "preparing"
    /\ rdl = ControlReadTimeout /\ wdl = ControlWriteTimeout
    /\ wdue = -1 /\ heard = 0 /\ dropped = FALSE

-----------------------------------------------------------------------------
(***************************************************************************)
(* The client.                                                              *)
(***************************************************************************)
(* Mutant of Await: no deadline. *)
AwaitForever(where) ==
    /\ cpc' = where
    /\ cdue' = now + MaxTime

(* recvResponse sets a deadline of its own for each response. *)
Await(where) ==
    /\ cpc' = where
    /\ cdue' = now + ControlReadTimeout

(* writeMsg.  The server's kernel takes what a halted server does not read. *)
Write(ms) == in' = IF spc = "ended" THEN in ELSE in \o ms

Hello ==
    /\ cpc = "hello"
    /\ Write(<<"hello", "prepare">>)
    /\ Await("ready")
    /\ UNCHANGED <<now, dir, dur, out, server>>

Receive(t) == out # <<>> /\ Head(out) = t /\ out' = Tail(out)

(* time.Sleep: the client is in "where" for d. *)
Pause(where, d) ==
    /\ cpc' = where
    /\ cdue' = now + d

Rested(where) == cpc = where /\ now >= cdue

(* Ready arrives; RunUplink waits a little before it starts the test. *)
Ready ==
    /\ cpc = "ready" /\ dir = "uplink" /\ Receive("ready")
    /\ Pause("settling", Settle)
    /\ UNCHANGED <<now, dir, dur, in, server>>

(* start, the pause that lets the server's receiver bind, and Sender.Send. *)
StartUplink ==
    /\ Rested("settling")
    /\ Write(<<"start">>)
    /\ Pause("sending", Grace + dur)
    /\ UNCHANGED <<now, dir, dur, out, server>>

StartDownlink ==
    /\ cpc = "ready" /\ dir = "downlink" /\ Receive("ready")
    /\ Write(<<"start">>)
    /\ Await("complete")
    /\ UNCHANGED <<now, dir, dur, server>>

SendComplete ==
    /\ Rested("sending")
    /\ Write(<<"send_complete", "fetch_result">>)
    /\ Await("result")
    /\ UNCHANGED <<now, dir, dur, out, server>>

(* The server has sent everything; stragglers get some time to arrive. *)
Complete ==
    /\ cpc = "complete" /\ Receive("send_complete")
    /\ Pause("counting", Grace)
    /\ UNCHANGED <<now, dir, dur, in, server>>

FetchResult ==
    /\ Rested("counting")
    /\ Write(<<"fetch_result">>)
    /\ Await("result")
    /\ UNCHANGED <<now, dir, dur, out, server>>

(* The result has arrived; RunUplink pauses once more before it returns. *)
Succeed ==
    /\ cpc = "result" /\ Receive("result")
    /\ Pause("leaving", IF dir = "uplink" THEN Grace ELSE 0)
    /\ UNCHANGED <<now, dir, dur, in, server>>

Leave ==
    /\ Rested("leaving")
    /\ cpc' = "ok"
    /\ UNCHANGED <<now, dir, dur, cdue, in, out, server>>

(* recvResponse: the deadline is due or the connection closed. *)
Fail ==
    /\ cpc \in Waits
    /\ \/ now >= cdue
       \/ out = <<>> /\ spc = "ended"
    /\ cpc' = "failed"
    /\ UNCHANGED <<now, dir, dur, cdue, in, out, server>>

Vanish ==
    /\ "vanish" \in Faults /\ cpc \notin Closed \cup {"vanished"}
    /\ cpc' = "vanished"
    /\ UNCHANGED <<now, dir, dur, cdue, in, out, server>>

Client ==
    \/ Hello \/ Ready \/ StartUplink \/ StartDownlink \/ SendComplete \/ Complete
    \/ FetchResult \/ Succeed \/ Leave \/ Fail

-----------------------------------------------------------------------------
(***************************************************************************)
(* The server.  The client's requests come in the order in which the session *)
(* accepts them, so their rejection is left to modules Session and            *)
(* Orchestration: a request that is not accepted would be a deadlock here.    *)
(***************************************************************************)
(* writeMessage, under the deadline set before the read. *)
InTime == now < wdl

Reply(m) ==
    /\ out' = IF InTime THEN Append(out, m) ELSE out
    /\ dropped' = (dropped \/ ~InTime)

(* Mutant of NextTurn: the write deadline is that of handleConn. *)
NextTurnReadOnly ==
    /\ spc' = "reading"
    /\ rdl' = now + ControlReadTimeout
    /\ wdl' = wdl

(* Mutant of NextTurn: no deadline for the read. *)
NextTurnNoRead ==
    /\ spc' = "reading"
    /\ rdl' = now + MaxTime
    /\ wdl' = now + ControlWriteTimeout

(* The loop goes round: both deadlines are set anew. *)
NextTurn ==
    /\ spc' = "reading"
    /\ rdl' = now + ControlReadTimeout
    /\ wdl' = now + ControlWriteTimeout

Return == spc' = "ended" /\ UNCHANGED <<rdl, wdl>>

ReadRequest(m) ==
    /\ spc = "reading" /\ in # <<>> /\ Head(in) = m
    /\ in' = Tail(in)
    /\ heard' = now
    /\ UNCHANGED <<now, dir, dur, client>>

HandleHello ==
    /\ ReadRequest("hello")
    /\ NextTurn
    /\ UNCHANGED <<state, wdue, dropped, out>>

HandlePrepare ==
    /\ ReadRequest("prepare") /\ state = "preparing"
    /\ state' = "ready"
    /\ Reply("ready")
    /\ IF InTime THEN NextTurn ELSE Return
    /\ UNCHANGED wdue

(* The receiver of an uplink test waits to be stopped; the sender of a      *)
(* downlink test takes its time.                                            *)
HandleStart ==
    /\ ReadRequest("start") /\ state = "ready"
    /\ state' = "running"
    /\ wdue' = IF dir = "downlink" THEN now + dur ELSE wdue
    /\ NextTurn
    /\ UNCHANGED <<dropped, out>>

HandleSendComplete ==
    /\ ReadRequest("send_complete") /\ state = "running"
    /\ state' = "collecting"
    /\ NextTurn
    /\ UNCHANGED <<wdue, dropped, out>>

HandleFetchResult ==
    /\ ReadRequest("fetch_result") /\ state = "collecting"
    /\ state' = "completed"
    /\ Reply("result")
    /\ Return
    /\ UNCHANGED wdue

(* The downlink sender is through.  It writes under the deadline the loop    *)
(* set when it went back to reading, and ignores the error.                  *)
SenderDone ==
    /\ wdue >= 0 /\ now >= wdue /\ spc # "stalled"
    /\ wdue' = -1
    /\ IF state = "running"
       THEN state' = "collecting" /\ Reply("send_complete")
       ELSE UNCHANGED <<state, out, dropped>>
    /\ UNCHANGED <<now, dir, dur, client, in, spc, rdl, wdl, heard>>

AfterTimeout ==
    CASE state \in {"preparing", "collecting"} -> "failed"
      [] state = "running"                     -> "collecting"
      [] OTHER                                 -> state

(* The read deadline is due, or the client has closed: handleTimeout closes *)
(* the connection, and the loop ends with this turn or the next.            *)
ReadTimeout ==
    /\ spc = "reading" /\ in = <<>>
    /\ now >= rdl \/ cpc \in Closed
    /\ state' = AfterTimeout
    /\ Return
    /\ UNCHANGED <<now, dir, dur, client, in, out, wdue, heard, dropped>>

Stall ==
    /\ "stall" \in Faults /\ spc = "reading"
    /\ spc' = "stalled"
    /\ UNCHANGED <<now, dir, dur, client, in, out, state, rdl, wdl, wdue, heard,
                   dropped>>

Server ==
    \/ HandleHello \/ HandlePrepare \/ HandleStart \/ HandleSendComplete
    \/ HandleFetchResult \/ SenderDone \/ ReadTimeout

-----------------------------------------------------------------------------
ClientIdle ==
    \/ cpc \in Closed \cup {"vanished"}
    \/ cpc \in Pauses /\ now < cdue
    \/ cpc \in Waits /\ now < cdue /\ out = <<>> /\ spc # "ended"

ServerIdle ==
    \/ spc = "stalled"
    \/ /\ wdue < 0 \/ now < wdue
       /\ \/ spc = "ended"
          \/ spc = "reading" /\ in = <<>> /\ now < rdl /\ cpc \notin Closed

Over == cpc \in Closed \cup {"vanished"} /\ spc \in {"ended", "stalled"}

Tick ==
    /\ ~Over /\ ClientIdle /\ ServerIdle
    /\ now < MaxTime
    /\ now' = now + 1
    /\ UNCHANGED <<dir, dur, client, in, out, server>>

Terminated == (Over \/ now = MaxTime) /\ UNCHANGED vars

Next == Client \/ Vanish \/ Server \/ Stall \/ Tick \/ Terminated

Spec == Init /\ [][Next]_vars

-----------------------------------------------------------------------------
(***************************************************************************)
(* Properties                                                               *)
(***************************************************************************)

(* How long a test may take: the loop must hear of the end of an uplink      *)
(* test before its read deadline, and answer the fetch_result of a downlink  *)
(* test before the write deadline it set when it read start.                 *)
Limit == IF dir = "uplink" THEN ControlReadTimeout ELSE ControlWriteTimeout

(* While the server is alive, a test that with the client's pause is shorter *)
(* than its limit is never cut off by one of the deadlines, wherever in it   *)
(* they were set.                                                            *)
ShortTestsSucceed ==
    cpc = "failed" /\ spc # "stalled" => dur + Grace >= Limit

(* Whenever the server halts, the client comes back within its deadlines and *)
(* pauses: three responses in a downlink test, two and the sending in an      *)
(* uplink one.                                                               *)
ClientBounded ==
    cpc \notin Closed \cup {"vanished"} =>
        now <= IF dir = "uplink" THEN 2 * ControlReadTimeout + Settle + 2 * Grace + dur
                                 ELSE 3 * ControlReadTimeout + Grace

(* A client that vanishes, at whatever point, holds the session no longer    *)
(* than the read deadline after its last request.                            *)
SessionBounded ==
    spc = "reading" => now <= heard + ControlReadTimeout

(* "ControlWriteTimeout is the timeout for writing a response to client": a  *)
(* response written without delay is not lost to it.                         *)
NoneDropped == ~dropped

=============================================================================
