--------------------------- MODULE ControlServer ----------------------------
(***************************************************************************)
(* The TCP control server (internal/control/server.go): Start and the       *)
(* accept loop, one handler goroutine per connection, the slot that holds    *)
(* at most one active session (an atomic pointer), and Close, which waits   *)
(* for every goroutine of the wait group.  A session is named by the         *)
(* connection it serves.  Session.Run is abstract here: it returns at some   *)
(* point, and does return once its client is gone or the context cancelled   *)
(* (SessionEnds, checked of module Session).                                 *)
(***************************************************************************)
EXTENDS Integers, FiniteSets

CONSTANTS
    Conns,      \* the connections clients make
    Closers,    \* the callers of Close
    NoSession   \* the nil session pointer

ASSUME NoSessionAssumption == NoSession \notin Conns

ASSUME ConnsAssumption == IsFiniteSet(Conns)

VARIABLES
    listener,   \* Server.listener: nil, open or closed
    closed,     \* Server.closed
    ctx,        \* Server.ctx, live until Close cancels it
    slot,       \* Server.session
    wg,         \* the counter of Server.wg
    start,      \* where the caller of Start is
    serve,      \* where the accept loop is
    accepted,   \* the connection Accept returned, until its handler runs
    h,          \* where the handler of each connection is
    busy,       \* the session each rejected connection is told about
    gone,       \* the connections whose client has gone away
    closer      \* where each caller of Close is

vars == <<listener, closed, ctx, slot, wg, start, serve, accepted, h, busy,
          gone, closer>>

Init ==
    /\ listener = "nil" /\ closed = FALSE /\ ctx = "live"
    /\ slot = NoSession /\ wg = 0
    /\ start = "called" /\ serve = "none" /\ accepted = NoSession
    /\ h = [c \in Conns |-> "none"]
    /\ busy = [c \in Conns |-> NoSession]
    /\ gone = {}
    /\ closer = [k \in Closers |-> "idle"]

-----------------------------------------------------------------------------
(* Start's locked section; Listen may fail. *)
StartListen ==
    /\ start = "called"
    /\ IF closed
       THEN start' = "failed" /\ UNCHANGED listener
       ELSE \/ start' = "listening" /\ listener' = "open"
            \/ start' = "failed" /\ UNCHANGED listener
    /\ UNCHANGED <<closed, ctx, slot, wg, serve, accepted, h, busy, gone, closer>>

(* ... and, out of the lock, the spawn of the accept loop. *)
StartServe ==
    /\ start = "listening"
    /\ start' = "returned"
    /\ wg' = wg + 1
    /\ serve' = "accept"
    /\ UNCHANGED <<listener, closed, ctx, slot, accepted, h, busy, gone, closer>>

(* A client connects; the kernel queues it. *)
Connect(c) ==
    /\ listener = "open" /\ h[c] = "none"
    /\ h' = [h EXCEPT ![c] = "backlog"]
    /\ UNCHANGED <<listener, closed, ctx, slot, wg, start, serve, accepted,
                   busy, gone, closer>>

ClientGone(c) ==
    /\ h[c] # "none" /\ c \notin gone
    /\ gone' = gone \cup {c}
    /\ UNCHANGED <<listener, closed, ctx, slot, wg, start, serve, accepted, h,
                   busy, closer>>

Accept(c) ==
    /\ serve = "accept" /\ listener = "open" /\ h[c] = "backlog"
    /\ accepted' = c
    /\ serve' = "spawn"
    /\ UNCHANGED <<listener, closed, ctx, slot, wg, start, h, busy, gone, closer>>

(* Mutant of Spawn: the handler is not added to the wait group. *)
SpawnUncounted ==
    /\ serve = "spawn"
    /\ h' = [h EXCEPT ![accepted] = "acquire"]
    /\ accepted' = NoSession
    /\ serve' = "accept"
    /\ UNCHANGED <<listener, closed, ctx, slot, wg, start, busy, gone, closer>>

Spawn ==
    /\ serve = "spawn"
    /\ wg' = wg + 1
    /\ h' = [h EXCEPT ![accepted] = "acquire"]
    /\ accepted' = NoSession
    /\ serve' = "accept"
    /\ UNCHANGED <<listener, closed, ctx, slot, start, busy, gone, closer>>

(* Accept fails for good on a closed listener; the loop ends if the context *)
(* is cancelled, and else it tries again, as after any other error.         *)
AcceptFails ==
    /\ serve = "accept" /\ listener = "closed" /\ ctx = "done"
    /\ serve' = "done"
    /\ wg' = wg - 1
    /\ UNCHANGED <<listener, closed, ctx, slot, start, accepted, h, busy, gone,
                   closer>>

-----------------------------------------------------------------------------
(* handleConn: tryAcquireSession's compare-and-swap of nil. *)
TryAcquire(c) ==
    /\ h[c] = "acquire"
    /\ \/ slot = NoSession /\ slot' = c /\ h' = [h EXCEPT ![c] = "running"]
       \/ slot # NoSession /\ UNCHANGED slot /\ h' = [h EXCEPT ![c] = "load"]
    /\ UNCHANGED <<listener, closed, ctx, wg, start, serve, accepted, busy, gone,
                   closer>>

(* The Load that follows a failed compare-and-swap. *)
(* Mutant of LoadCurrent: the session just made is returned. *)
LoadOwn(c) ==
    /\ h[c] = "load"
    /\ busy' = [busy EXCEPT ![c] = c]
    /\ h' = [h EXCEPT ![c] = "sendbusy"]
    /\ UNCHANGED <<listener, closed, ctx, slot, wg, start, serve, accepted, gone,
                   closer>>

LoadCurrent(c) ==
    /\ h[c] = "load"
    /\ busy' = [busy EXCEPT ![c] = slot]
    /\ h' = [h EXCEPT ![c] = "sendbusy"]
    /\ UNCHANGED <<listener, closed, ctx, slot, wg, start, serve, accepted, gone,
                   closer>>

(* Mutant of sendBusyResponse: this path calls wg.Done, too. *)
BusyDoneTwice(c) ==
    /\ h[c] = "sendbusy"
    /\ h' = [h EXCEPT ![c] = "close"]
    /\ wg' = wg - 1
    /\ UNCHANGED <<listener, closed, ctx, slot, start, serve, accepted, busy,
                   gone, closer>>

sendBusyResponse(c) ==
    /\ h[c] = "sendbusy"
    /\ h' = [h EXCEPT ![c] = "close"]
    /\ UNCHANGED <<listener, closed, ctx, slot, wg, start, serve, accepted, busy,
                   gone, closer>>

(* Session.Run returns: the test is over, or its connection failed. *)
RunReturns(c) ==
    /\ h[c] = "running"
    /\ h' = [h EXCEPT ![c] = "release"]
    /\ UNCHANGED <<listener, closed, ctx, slot, wg, start, serve, accepted, busy,
                   gone, closer>>

(* Mutant of releaseSession: the slot stays taken. *)
NeverReleased(c) ==
    /\ h[c] = "release"
    /\ h' = [h EXCEPT ![c] = "close"]
    /\ UNCHANGED <<listener, closed, ctx, slot, wg, start, serve, accepted, busy,
                   gone, closer>>

releaseSession(c) ==
    /\ h[c] = "release"
    /\ slot' = IF slot = c THEN NoSession ELSE slot
    /\ h' = [h EXCEPT ![c] = "close"]
    /\ UNCHANGED <<listener, closed, ctx, wg, start, serve, accepted, busy, gone,
                   closer>>

(* Mutant of CloseConn: every handler clears the slot as it leaves. *)
CloseConnClearsSlot(c) ==
    /\ h[c] = "close"
    /\ h' = [h EXCEPT ![c] = "done"]
    /\ wg' = wg - 1
    /\ slot' = NoSession
    /\ UNCHANGED <<listener, closed, ctx, start, serve, accepted, busy, gone,
                   closer>>

(* conn.Close and the deferred wg.Done. *)
CloseConn(c) ==
    /\ h[c] = "close"
    /\ h' = [h EXCEPT ![c] = "done"]
    /\ wg' = wg - 1
    /\ UNCHANGED <<listener, closed, ctx, slot, start, serve, accepted, busy, gone,
                   closer>>

-----------------------------------------------------------------------------
(* Close's locked section; only the first caller goes on. *)
CloseLock(k) ==
    /\ closer[k] = "idle"
    /\ closer' = [closer EXCEPT ![k] = IF closed THEN "noop" ELSE "cancel"]
    /\ closed' = TRUE
    /\ UNCHANGED <<listener, ctx, slot, wg, start, serve, accepted, h, busy, gone>>

(* Mutant of CloseCancel: the context is not cancelled. *)
CloseSkipsCancel(k) ==
    /\ closer[k] = "cancel"
    /\ closer' = [closer EXCEPT ![k] = "unlisten"]
    /\ UNCHANGED <<listener, closed, ctx, slot, wg, start, serve, accepted, h,
                   busy, gone>>

CloseCancel(k) ==
    /\ closer[k] = "cancel"
    /\ ctx' = "done"
    /\ closer' = [closer EXCEPT ![k] = "unlisten"]
    /\ UNCHANGED <<listener, closed, slot, wg, start, serve, accepted, h, busy, gone>>

CloseListener(k) ==
    /\ closer[k] = "unlisten"
    /\ listener' = IF listener = "nil" THEN "nil" ELSE "closed"
    /\ closer' = [closer EXCEPT ![k] = "wait"]
    /\ UNCHANGED <<closed, ctx, slot, wg, start, serve, accepted, h, busy, gone>>

CloseWait(k) ==
    /\ closer[k] = "wait"
    /\ wg = 0
    /\ closer' = [closer EXCEPT ![k] = "returned"]
    /\ UNCHANGED <<listener, closed, ctx, slot, wg, start, serve, accepted, h,
                   busy, gone>>

-----------------------------------------------------------------------------
Terminated ==
    /\ \A k \in Closers : closer[k] \in {"noop", "returned"}
    /\ UNCHANGED vars

Server == StartServe \/ Spawn \/ AcceptFails \/ \E c \in Conns : Accept(c)

Handler(c) ==
    \/ TryAcquire(c) \/ LoadCurrent(c) \/ sendBusyResponse(c)
    \/ releaseSession(c) \/ CloseConn(c)

Close(k) ==
    CloseLock(k) \/ CloseCancel(k) \/ CloseListener(k) \/ CloseWait(k)

Next ==
    \/ StartListen \/ Server
    \/ \E c \in Conns :
           Connect(c) \/ ClientGone(c) \/ Handler(c) \/ RunReturns(c)
    \/ \E k \in Closers : Close(k)
    \/ Terminated

(* Session.Run is known to return in these circumstances only. *)
RunEnds(c) == (c \in gone \/ ctx = "done") /\ RunReturns(c)

(* Close is called by whoever likes; once called, it runs. *)
CloseStep(k) == CloseCancel(k) \/ CloseListener(k) \/ CloseWait(k)

Fairness ==
    /\ WF_vars(Server)
    /\ \A c \in Conns : WF_vars(Handler(c)) /\ WF_vars(RunEnds(c))
    /\ \A k \in Closers : WF_vars(CloseStep(k))

Spec == Init /\ [][Next]_vars /\ Fairness

-----------------------------------------------------------------------------
(***************************************************************************)
(* Properties                                                               *)
(***************************************************************************)
HandlerPCs == {"none", "backlog", "acquire", "load", "sendbusy", "running",
               "release", "close", "done"}

(* The server's fields and the program counters keep their types; the       *)
(* counter of the wait group never goes below zero, where Done panics.      *)
TypeOK ==
    /\ listener \in {"nil", "open", "closed"}
    /\ closed \in BOOLEAN /\ ctx \in {"live", "done"}
    /\ slot \in Conns \cup {NoSession}
    /\ wg \in Nat
    /\ start \in {"called", "listening", "returned", "failed"}
    /\ serve \in {"none", "accept", "spawn", "done"}
    /\ accepted \in Conns \cup {NoSession}
    /\ h \in [Conns -> HandlerPCs]
    /\ busy \in [Conns -> Conns \cup {NoSession}]
    /\ gone \subseteq Conns
    /\ closer \in [Closers -> {"idle", "noop", "cancel", "unlisten", "wait",
                               "returned"}]

InSession(c) == h[c] \in {"running", "release"}

(* At most one connection runs a session, whatever connects, leaves or is   *)
(* turned away: the slot holds exactly the session that is running.         *)
SlotExclusive == \A c \in Conns : InSession(c) <=> slot = c

(* When the Close that shut the server down has returned, no handler and no *)
(* session is active, and none will start: wg.Wait missed no goroutine, not *)
(* even one being accepted, or a Start that was still under way.            *)
CloseIsFinal ==
    (\E k \in Closers : closer[k] = "returned") =>
        \A c \in Conns : h[c] \in {"none", "backlog", "done"}

(* A BUSY response that names a session names the one that was in the way: *)
(* not the rejected connection's own, and one that did hold the slot, though *)
(* it may have ended since (there may be none left to name: the slot is      *)
(* loaded after the compare-and-swap has failed).                            *)
BusyNamesOther ==
    \A c \in Conns : busy[c] # NoSession =>
        busy[c] # c /\ h[busy[c]] \in {"running", "release", "close", "done"}

(* A client that goes away, in whatever order with the other connections,   *)
(* does not keep the server's only slot.                                    *)
SlotReleased == \A c \in Conns : (c \in gone) ~> (slot # c)

(* Close returns, with sessions, rejections or an accept in progress. *)
CloseReturns == \A k \in Closers :
    (closer[k] = "cancel") ~> (closer[k] = "returned")

=============================================================================
