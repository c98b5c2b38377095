------------------------ MODULE ControlServerProofs -------------------------
(***************************************************************************)
(* Theorems of module ControlServer, for any finite set of connections and  *)
(* any set of callers of Close: at most one session at a time, nothing      *)
(* active once Close has returned, and a BUSY response that names a holder  *)
(* of the slot.  The second rests on what the wait group counts: the        *)
(* handlers under way and the accept loop, each exactly once.               *)
(***************************************************************************)
EXTENDS ControlServer, FiniteSetTheorems, TLAPS

(* The handlers that have been spawned and are not done. *)
Active == {c \in Conns : h[c] \in {"acquire", "load", "sendbusy", "running",
                                   "release", "close"}}

Serving == IF serve \in {"accept", "spawn"} THEN 1 ELSE 0

WgCounts == wg = Cardinality(Active) + Serving

(* The accept loop is spawned once; what it has accepted has no handler. *)
ServeInv ==
    /\ start # "returned" => serve = "none"
    /\ serve = "spawn" => accepted \in Conns /\ h[accepted] = "backlog"

(* A Close past its lock has closed the server to Start; past the listener, *)
(* to Accept; and past wg.Wait it leaves nothing behind.                    *)
CloseInv ==
    \A k \in Closers :
        /\ closer[k] # "idle" => closed
        /\ closer[k] \in {"wait", "returned"} => listener # "open"
        /\ closer[k] = "returned" => Active = {} /\ serve # "spawn"

IndInv == TypeOK /\ SlotExclusive /\ WgCounts /\ ServeInv /\ CloseInv

-----------------------------------------------------------------------------
(* The set of active handlers is finite, so it can be counted. *)
LEMMA ActiveFinite == IsFiniteSet(Active) /\ Cardinality(Active) \in Nat
<1>1. Active \in SUBSET Conns
  BY DEF Active
<1>2. QED
  BY <1>1, ConnsAssumption, FS_Subset, FS_CardinalityType

(* Spawning a handler, and a handler's end, change the count by one. *)
LEMMA ActiveGrows ==
    ASSUME NEW c \in Conns, c \notin Active, Active' = Active \cup {c}
    PROVE  Cardinality(Active') = Cardinality(Active) + 1
BY ActiveFinite, FS_AddElement

(* See ActiveGrows. *)
LEMMA ActiveShrinks ==
    ASSUME NEW c \in Active, Active' = Active \ {c}
    PROVE  Cardinality(Active') = Cardinality(Active) - 1
BY ActiveFinite, FS_RemoveElement

(* A handler's step from one active place to another leaves the set alone. *)
LEMMA ActiveStays ==
    ASSUME TypeOK, NEW c \in Active,
           NEW p \in {"acquire", "load", "sendbusy", "running", "release", "close"},
           h' = [h EXCEPT ![c] = p]
    PROVE  Active' = Active
BY DEF Active, TypeOK

-----------------------------------------------------------------------------
(* The types, but for the wait group's counter: that it does not go below   *)
(* zero follows from what it counts.                                        *)
TypesStep == TypeOK' \/ wg' \notin Nat

(* Every step keeps the types. *)
LEMMA TypeStep == IndInv /\ [Next]_vars => TypesStep
<1> SUFFICES ASSUME IndInv, [Next]_vars PROVE TypesStep
  OBVIOUS
<1> USE DEF TypesStep, IndInv, TypeOK, HandlerPCs
<1>1. CASE StartListen
  BY <1>1 DEF StartListen
<1>2. CASE StartServe
  BY <1>2 DEF StartServe
<1>3. ASSUME NEW c \in Conns, Connect(c) PROVE TypesStep
  BY <1>3 DEF Connect
<1>4. ASSUME NEW c \in Conns, ClientGone(c) PROVE TypesStep
  BY <1>4 DEF ClientGone
<1>5. ASSUME NEW c \in Conns, Accept(c) PROVE TypesStep
  BY <1>5 DEF Accept
<1>6. CASE Spawn
  BY <1>6 DEF Spawn
<1>7. CASE AcceptFails
  BY <1>7 DEF AcceptFails
<1>8. ASSUME NEW c \in Conns, TryAcquire(c) PROVE TypesStep
  BY <1>8 DEF TryAcquire
<1>9. ASSUME NEW c \in Conns, LoadCurrent(c) PROVE TypesStep
  BY <1>9 DEF LoadCurrent
<1>10. ASSUME NEW c \in Conns, sendBusyResponse(c) PROVE TypesStep
  BY <1>10 DEF sendBusyResponse
<1>11. ASSUME NEW c \in Conns, RunReturns(c) PROVE TypesStep
  BY <1>11 DEF RunReturns
<1>12. ASSUME NEW c \in Conns, releaseSession(c) PROVE TypesStep
  BY <1>12 DEF releaseSession
<1>13. ASSUME NEW c \in Conns, CloseConn(c) PROVE TypesStep
  BY <1>13 DEF CloseConn
<1>14. ASSUME NEW k \in Closers, CloseLock(k) PROVE TypesStep
  BY <1>14 DEF CloseLock
<1>15. ASSUME NEW k \in Closers, CloseCancel(k) PROVE TypesStep
  BY <1>15 DEF CloseCancel
<1>16. ASSUME NEW k \in Closers, CloseListener(k) PROVE TypesStep
  BY <1>16 DEF CloseListener
<1>17. ASSUME NEW k \in Closers, CloseWait(k) PROVE TypesStep
  BY <1>17 DEF CloseWait
<1>18. CASE Terminated \/ UNCHANGED vars
  BY <1>18 DEF Terminated, vars
<1>19. QED
  BY <1>1, <1>2, <1>3, <1>4, <1>5, <1>6, <1>7, <1>8, <1>9, <1>10, <1>11, <1>12,
     <1>13, <1>14, <1>15, <1>16, <1>17, <1>18 DEF Next, Server, Handler, Close

(* The slot holds the session that runs: only a compare-and-swap takes it.  *)
LEMMA SlotStep == IndInv /\ [Next]_vars => SlotExclusive'
<1> SUFFICES ASSUME IndInv, [Next]_vars PROVE SlotExclusive'
  OBVIOUS
<1> USE NoSessionAssumption DEF IndInv, TypeOK, SlotExclusive, InSession
<1>1. CASE StartListen
  BY <1>1 DEF StartListen
<1>2. CASE StartServe
  BY <1>2 DEF StartServe
<1>3. ASSUME NEW c \in Conns, Connect(c) PROVE SlotExclusive'
  BY <1>3 DEF Connect
<1>4. ASSUME NEW c \in Conns, ClientGone(c) PROVE SlotExclusive'
  BY <1>4 DEF ClientGone
<1>5. ASSUME NEW c \in Conns, Accept(c) PROVE SlotExclusive'
  BY <1>5 DEF Accept
<1>6. CASE Spawn
  BY <1>6 DEF Spawn, ServeInv
<1>7. CASE AcceptFails
  BY <1>7 DEF AcceptFails
<1>8. ASSUME NEW c \in Conns, TryAcquire(c) PROVE SlotExclusive'
  BY <1>8 DEF TryAcquire
<1>9. ASSUME NEW c \in Conns, LoadCurrent(c) PROVE SlotExclusive'
  BY <1>9 DEF LoadCurrent
<1>10. ASSUME NEW c \in Conns, sendBusyResponse(c) PROVE SlotExclusive'
  BY <1>10 DEF sendBusyResponse
<1>11. ASSUME NEW c \in Conns, RunReturns(c) PROVE SlotExclusive'
  BY <1>11 DEF RunReturns
<1>12. ASSUME NEW c \in Conns, releaseSession(c) PROVE SlotExclusive'
  BY <1>12 DEF releaseSession
<1>13. ASSUME NEW c \in Conns, CloseConn(c) PROVE SlotExclusive'
  BY <1>13 DEF CloseConn
<1>14. ASSUME NEW k \in Closers, CloseLock(k) PROVE SlotExclusive'
  BY <1>14 DEF CloseLock
<1>15. ASSUME NEW k \in Closers, CloseCancel(k) PROVE SlotExclusive'
  BY <1>15 DEF CloseCancel
<1>16. ASSUME NEW k \in Closers, CloseListener(k) PROVE SlotExclusive'
  BY <1>16 DEF CloseListener
<1>17. ASSUME NEW k \in Closers, CloseWait(k) PROVE SlotExclusive'
  BY <1>17 DEF CloseWait
<1>18. CASE Terminated \/ UNCHANGED vars
  BY <1>18 DEF Terminated, vars
<1>19. QED
  BY <1>1, <1>2, <1>3, <1>4, <1>5, <1>6, <1>7, <1>8, <1>9, <1>10, <1>11, <1>12,
     <1>13, <1>14, <1>15, <1>16, <1>17, <1>18 DEF Next, Server, Handler, Close

(* The accept loop is spawned once, and spawns what it accepted. *)
LEMMA ServeStep == IndInv /\ [Next]_vars => ServeInv'
<1> SUFFICES ASSUME IndInv, [Next]_vars PROVE ServeInv'
  OBVIOUS
<1> USE DEF IndInv, TypeOK, ServeInv
<1>1. CASE StartListen
  BY <1>1 DEF StartListen
<1>2. CASE StartServe
  BY <1>2 DEF StartServe
<1>3. ASSUME NEW c \in Conns, Connect(c) PROVE ServeInv'
  BY <1>3 DEF Connect
<1>4. ASSUME NEW c \in Conns, ClientGone(c) PROVE ServeInv'
  BY <1>4 DEF ClientGone
<1>5. ASSUME NEW c \in Conns, Accept(c) PROVE ServeInv'
  BY <1>5 DEF Accept
<1>6. CASE Spawn
  BY <1>6 DEF Spawn
<1>7. CASE AcceptFails
  BY <1>7 DEF AcceptFails
<1>8. ASSUME NEW c \in Conns, TryAcquire(c) PROVE ServeInv'
  BY <1>8 DEF TryAcquire
<1>9. ASSUME NEW c \in Conns, LoadCurrent(c) PROVE ServeInv'
  BY <1>9 DEF LoadCurrent
<1>10. ASSUME NEW c \in Conns, sendBusyResponse(c) PROVE ServeInv'
  BY <1>10 DEF sendBusyResponse
<1>11. ASSUME NEW c \in Conns, RunReturns(c) PROVE ServeInv'
  BY <1>11 DEF RunReturns
<1>12. ASSUME NEW c \in Conns, releaseSession(c) PROVE ServeInv'
  BY <1>12 DEF releaseSession
<1>13. ASSUME NEW c \in Conns, CloseConn(c) PROVE ServeInv'
  BY <1>13 DEF CloseConn
<1>14. ASSUME NEW k \in Closers, CloseLock(k) PROVE ServeInv'
  BY <1>14 DEF CloseLock
<1>15. ASSUME NEW k \in Closers, CloseCancel(k) PROVE ServeInv'
  BY <1>15 DEF CloseCancel
<1>16. ASSUME NEW k \in Closers, CloseListener(k) PROVE ServeInv'
  BY <1>16 DEF CloseListener
<1>17. ASSUME NEW k \in Closers, CloseWait(k) PROVE ServeInv'
  BY <1>17 DEF CloseWait
<1>18. CASE Terminated \/ UNCHANGED vars
  BY <1>18 DEF Terminated, vars
<1>19. QED
  BY <1>1, <1>2, <1>3, <1>4, <1>5, <1>6, <1>7, <1>8, <1>9, <1>10, <1>11, <1>12,
     <1>13, <1>14, <1>15, <1>16, <1>17, <1>18 DEF Next, Server, Handler, Close

(* Which handlers are active changes when one is spawned and when one ends. *)
LEMMA ActiveStep ==
    ASSUME IndInv, [Next]_vars, ~Spawn, \A c \in Conns : ~CloseConn(c)
    PROVE  Active' = Active
<1> USE DEF IndInv, TypeOK
<1>1. CASE StartListen
  BY <1>1 DEF StartListen, Active
<1>2. CASE StartServe
  BY <1>2 DEF StartServe, Active
<1>3. ASSUME NEW c \in Conns, Connect(c) PROVE Active' = Active
  BY <1>3 DEF Connect, Active
<1>4. ASSUME NEW c \in Conns, ClientGone(c) PROVE Active' = Active
  BY <1>4 DEF ClientGone, Active
<1>5. ASSUME NEW c \in Conns, Accept(c) PROVE Active' = Active
  BY <1>5 DEF Accept, Active
<1>6. CASE Spawn
  BY <1>6
<1>7. CASE AcceptFails
  BY <1>7 DEF AcceptFails, Active
<1>8. ASSUME NEW c \in Conns, TryAcquire(c) PROVE Active' = Active
  <2>1. c \in Active
    BY <1>8 DEF TryAcquire, Active
  <2>2. QED
    BY <1>8, <2>1, ActiveStays DEF TryAcquire
<1>9. ASSUME NEW c \in Conns, LoadCurrent(c) PROVE Active' = Active
  <2>1. c \in Active
    BY <1>9 DEF LoadCurrent, Active
  <2>2. QED
    BY <1>9, <2>1, ActiveStays DEF LoadCurrent
<1>10. ASSUME NEW c \in Conns, sendBusyResponse(c) PROVE Active' = Active
  <2>1. c \in Active
    BY <1>10 DEF sendBusyResponse, Active
  <2>2. QED
    BY <1>10, <2>1, ActiveStays DEF sendBusyResponse
<1>11. ASSUME NEW c \in Conns, RunReturns(c) PROVE Active' = Active
  <2>1. c \in Active
    BY <1>11 DEF RunReturns, Active
  <2>2. QED
    BY <1>11, <2>1, ActiveStays DEF RunReturns
<1>12. ASSUME NEW c \in Conns, releaseSession(c) PROVE Active' = Active
  <2>1. c \in Active
    BY <1>12 DEF releaseSession, Active
  <2>2. QED
    BY <1>12, <2>1, ActiveStays DEF releaseSession
<1>13. ASSUME NEW c \in Conns, CloseConn(c) PROVE Active' = Active
  BY <1>13
<1>14. ASSUME NEW k \in Closers, CloseLock(k) PROVE Active' = Active
  BY <1>14 DEF CloseLock, Active
<1>15. ASSUME NEW k \in Closers, CloseCancel(k) PROVE Active' = Active
  BY <1>15 DEF CloseCancel, Active
<1>16. ASSUME NEW k \in Closers, CloseListener(k) PROVE Active' = Active
  BY <1>16 DEF CloseListener, Active
<1>17. ASSUME NEW k \in Closers, CloseWait(k) PROVE Active' = Active
  BY <1>17 DEF CloseWait, Active
<1>18. CASE Terminated \/ UNCHANGED vars
  BY <1>18 DEF Terminated, vars, Active
<1>19. QED
  BY <1>1, <1>2, <1>3, <1>4, <1>5, <1>6, <1>7, <1>8, <1>9, <1>10, <1>11, <1>12,
     <1>13, <1>14, <1>15, <1>16, <1>17, <1>18 DEF Next, Server, Handler, Close

(* The wait group counts the accept loop and the active handlers. *)
LEMMA WgStep == IndInv /\ [Next]_vars => WgCounts'
<1> SUFFICES ASSUME IndInv, [Next]_vars PROVE WgCounts'
  OBVIOUS
<1>a. ~Spawn /\ (\A c \in Conns : ~CloseConn(c)) => Active' = Active
  BY ActiveStep
<1> USE <1>a, ActiveFinite DEF IndInv, TypeOK, WgCounts, Serving, Spawn, CloseConn
<1>1. CASE StartListen
  BY <1>1 DEF StartListen
<1>2. CASE StartServe
  <2>1. Active' = Active
    BY <1>2 DEF StartServe, Active
  <2>2. QED
    BY <1>2, <2>1 DEF StartServe, ServeInv
<1>3. ASSUME NEW c \in Conns, Connect(c) PROVE WgCounts'
  BY <1>3 DEF Connect
<1>4. ASSUME NEW c \in Conns, ClientGone(c) PROVE WgCounts'
  BY <1>4 DEF ClientGone
<1>5. ASSUME NEW c \in Conns, Accept(c) PROVE WgCounts'
  BY <1>5 DEF Accept
<1>6. CASE Spawn
  <2>1. accepted \in Conns /\ accepted \notin Active
    BY <1>6 DEF Spawn, ServeInv, Active
  <2>2. Active' = Active \cup {accepted}
    BY <1>6, <2>1 DEF Spawn, Active
  <2>3. Cardinality(Active') = Cardinality(Active) + 1
    BY <2>1, <2>2, ActiveGrows
  <2>4. QED
    BY <1>6, <2>3 DEF Spawn
<1>7. CASE AcceptFails
  <2>1. Active' = Active
    BY <1>7 DEF AcceptFails, Active
  <2>2. QED
    BY <1>7, <2>1 DEF AcceptFails
<1>8. ASSUME NEW c \in Conns, TryAcquire(c) PROVE WgCounts'
  BY <1>8 DEF TryAcquire
<1>9. ASSUME NEW c \in Conns, LoadCurrent(c) PROVE WgCounts'
  BY <1>9 DEF LoadCurrent
<1>10. ASSUME NEW c \in Conns, sendBusyResponse(c) PROVE WgCounts'
  BY <1>10 DEF sendBusyResponse
<1>11. ASSUME NEW c \in Conns, RunReturns(c) PROVE WgCounts'
  BY <1>11 DEF RunReturns
<1>12. ASSUME NEW c \in Conns, releaseSession(c) PROVE WgCounts'
  BY <1>12 DEF releaseSession
<1>13. ASSUME NEW c \in Conns, CloseConn(c) PROVE WgCounts'
  <2>1. c \in Active /\ Active' = Active \ {c}
    BY <1>13 DEF CloseConn, Active
  <2>2. Cardinality(Active') = Cardinality(Active) - 1
    BY <2>1, ActiveShrinks
  <2>3. QED
    BY <1>13, <2>2 DEF CloseConn
<1>14. ASSUME NEW k \in Closers, CloseLock(k) PROVE WgCounts'
  BY <1>14 DEF CloseLock
<1>15. ASSUME NEW k \in Closers, CloseCancel(k) PROVE WgCounts'
  BY <1>15 DEF CloseCancel
<1>16. ASSUME NEW k \in Closers, CloseListener(k) PROVE WgCounts'
  BY <1>16 DEF CloseListener
<1>17. ASSUME NEW k \in Closers, CloseWait(k) PROVE WgCounts'
  BY <1>17 DEF CloseWait
<1>18. CASE Terminated \/ UNCHANGED vars
  BY <1>18 DEF Terminated, vars, Active
<1>19. QED
  BY <1>1, <1>2, <1>3, <1>4, <1>5, <1>6, <1>7, <1>8, <1>9, <1>10, <1>11, <1>12,
     <1>13, <1>14, <1>15, <1>16, <1>17, <1>18 DEF Next, Server, Handler, Close

(* Nothing starts after Close has waited, and nothing is left. *)
LEMMA CloseStepInv == IndInv /\ [Next]_vars => CloseInv'
<1> SUFFICES ASSUME IndInv, [Next]_vars PROVE CloseInv'
  OBVIOUS
<1>a. ~Spawn /\ (\A c \in Conns : ~CloseConn(c)) => Active' = Active
  BY ActiveStep
<1> USE <1>a DEF IndInv, TypeOK, CloseInv, Spawn, CloseConn
<1>1. CASE StartListen
  BY <1>1 DEF StartListen
<1>2. CASE StartServe
  BY <1>2 DEF StartServe
<1>3. ASSUME NEW c \in Conns, Connect(c) PROVE CloseInv'
  BY <1>3 DEF Connect
<1>4. ASSUME NEW c \in Conns, ClientGone(c) PROVE CloseInv'
  BY <1>4 DEF ClientGone
<1>5. ASSUME NEW c \in Conns, Accept(c) PROVE CloseInv'
  BY <1>5 DEF Accept
<1>6. CASE Spawn
  BY <1>6 DEF Spawn
<1>7. CASE AcceptFails
  BY <1>7 DEF AcceptFails
<1>8. ASSUME NEW c \in Conns, TryAcquire(c) PROVE CloseInv'
  BY <1>8 DEF TryAcquire
<1>9. ASSUME NEW c \in Conns, LoadCurrent(c) PROVE CloseInv'
  BY <1>9 DEF LoadCurrent
<1>10. ASSUME NEW c \in Conns, sendBusyResponse(c) PROVE CloseInv'
  BY <1>10 DEF sendBusyResponse
<1>11. ASSUME NEW c \in Conns, RunReturns(c) PROVE CloseInv'
  BY <1>11 DEF RunReturns
<1>12. ASSUME NEW c \in Conns, releaseSession(c) PROVE CloseInv'
  BY <1>12 DEF releaseSession
<1>13. ASSUME NEW c \in Conns, CloseConn(c) PROVE CloseInv'
  <2>1. c \in Active /\ Active' = Active \ {c}
    BY <1>13 DEF CloseConn, Active
  <2>2. QED
    BY <1>13, <2>1 DEF CloseConn
<1>14. ASSUME NEW k \in Closers, CloseLock(k) PROVE CloseInv'
  BY <1>14 DEF CloseLock
<1>15. ASSUME NEW k \in Closers, CloseCancel(k) PROVE CloseInv'
  BY <1>15 DEF CloseCancel
<1>16. ASSUME NEW k \in Closers, CloseListener(k) PROVE CloseInv'
  BY <1>16 DEF CloseListener
<1>17. ASSUME NEW k \in Closers, CloseWait(k) PROVE CloseInv'
  <2>1. Cardinality(Active) = 0 /\ serve # "spawn"
    BY <1>17, ActiveFinite DEF CloseWait, WgCounts, Serving
  <2>2. Active = {}
    BY <2>1, ActiveFinite, FS_EmptySet
  <2>3. Active' = Active
    BY <1>17 DEF CloseWait, Active
  <2>4. QED
    BY <1>17, <2>1, <2>2, <2>3 DEF CloseWait
<1>18. CASE Terminated \/ UNCHANGED vars
  BY <1>18 DEF Terminated, vars, Active
<1>19. QED
  BY <1>1, <1>2, <1>3, <1>4, <1>5, <1>6, <1>7, <1>8, <1>9, <1>10, <1>11, <1>12,
     <1>13, <1>14, <1>15, <1>16, <1>17, <1>18 DEF Next, Server, Handler, Close

-----------------------------------------------------------------------------
(* The invariant is inductive: Close depends on the wait group, and that on *)
(* every handler being spawned and ending once.                             *)
THEOREM Inductive == Spec => []IndInv
<1>1. Init => IndInv
  <2> SUFFICES ASSUME Init PROVE IndInv
    OBVIOUS
  <2>1. TypeOK
    BY DEF Init, TypeOK, HandlerPCs
  <2>2. Active = {}
    BY DEF Init, Active
  <2>3. WgCounts
    BY <2>2, FS_EmptySet DEF Init, WgCounts, Serving
  <2>4. SlotExclusive /\ ServeInv /\ CloseInv
    BY NoSessionAssumption DEF Init, SlotExclusive, InSession, ServeInv, CloseInv
  <2>5. QED
    BY <2>1, <2>3, <2>4 DEF IndInv
<1>2. IndInv /\ [Next]_vars => IndInv'
  <2> SUFFICES ASSUME IndInv, [Next]_vars PROVE IndInv'
    OBVIOUS
  <2>1. WgCounts'
    BY WgStep
  <2>2. Cardinality(Active') \in Nat
    <3>1. Active' \in SUBSET Conns
      BY DEF Active
    <3>2. QED
      BY <3>1, ConnsAssumption, FS_Subset, FS_CardinalityType
  <2>3. wg' \in Nat
    BY <2>1, <2>2 DEF WgCounts, Serving
  <2>4. TypeOK'
    BY <2>3, TypeStep DEF TypesStep
  <2>5. QED
    BY <2>1, <2>4, SlotStep, ServeStep, CloseStepInv DEF IndInv
<1>3. QED
  BY <1>1, <1>2, PTL DEF Spec

(* The server's fields are typed, and wg.Done never panics. *)
THEOREM TypeCorrect == Spec => []TypeOK
<1>1. IndInv => TypeOK
  BY DEF IndInv
<1>2. QED
  BY <1>1, Inductive, PTL

(* At most one connection runs a session: the one the slot holds. *)
THEOREM OneSession == Spec => []SlotExclusive
<1>1. IndInv => SlotExclusive
  BY DEF IndInv
<1>2. QED
  BY <1>1, Inductive, PTL

(* When Close has returned, no handler and no session is active. *)
THEOREM CloseFinal == Spec => []CloseIsFinal
<1>1. IndInv => CloseIsFinal
  BY DEF IndInv, TypeOK, HandlerPCs, CloseInv, Active, CloseIsFinal
<1>2. QED
  BY <1>1, Inductive, PTL

-----------------------------------------------------------------------------
(* No step makes a recorded BUSY name the wrong session: the slot it is      *)
(* loaded from holds a running one, and handlers only go forward.            *)
LEMMA BusyStep ==
    IndInv /\ BusyNamesOther /\ [Next]_vars => BusyNamesOther'
<1> SUFFICES ASSUME IndInv, BusyNamesOther, [Next]_vars PROVE BusyNamesOther'
  OBVIOUS
<1> USE NoSessionAssumption DEF IndInv, TypeOK, BusyNamesOther
<1>1. CASE StartListen
  BY <1>1 DEF StartListen
<1>2. CASE StartServe
  BY <1>2 DEF StartServe
<1>3. ASSUME NEW c \in Conns, Connect(c) PROVE BusyNamesOther'
  BY <1>3 DEF Connect
<1>4. ASSUME NEW c \in Conns, ClientGone(c) PROVE BusyNamesOther'
  BY <1>4 DEF ClientGone
<1>5. ASSUME NEW c \in Conns, Accept(c) PROVE BusyNamesOther'
  BY <1>5 DEF Accept
<1>6. CASE Spawn
  BY <1>6 DEF Spawn, ServeInv
<1>7. CASE AcceptFails
  BY <1>7 DEF AcceptFails
<1>8. ASSUME NEW c \in Conns, TryAcquire(c) PROVE BusyNamesOther'
  BY <1>8 DEF TryAcquire
<1>9. ASSUME NEW c \in Conns, LoadCurrent(c) PROVE BusyNamesOther'
  BY <1>9 DEF LoadCurrent, SlotExclusive, InSession
<1>10. ASSUME NEW c \in Conns, sendBusyResponse(c) PROVE BusyNamesOther'
  BY <1>10 DEF sendBusyResponse
<1>11. ASSUME NEW c \in Conns, RunReturns(c) PROVE BusyNamesOther'
  BY <1>11 DEF RunReturns
<1>12. ASSUME NEW c \in Conns, releaseSession(c) PROVE BusyNamesOther'
  BY <1>12 DEF releaseSession
<1>13. ASSUME NEW c \in Conns, CloseConn(c) PROVE BusyNamesOther'
  BY <1>13 DEF CloseConn
<1>14. ASSUME NEW k \in Closers, CloseLock(k) PROVE BusyNamesOther'
  BY <1>14 DEF CloseLock
<1>15. ASSUME NEW k \in Closers, CloseCancel(k) PROVE BusyNamesOther'
  BY <1>15 DEF CloseCancel
<1>16. ASSUME NEW k \in Closers, CloseListener(k) PROVE BusyNamesOther'
  BY <1>16 DEF CloseListener
<1>17. ASSUME NEW k \in Closers, CloseWait(k) PROVE BusyNamesOther'
  BY <1>17 DEF CloseWait
<1>18. CASE Terminated \/ UNCHANGED vars
  BY <1>18 DEF Terminated, vars
<1>19. QED
  BY <1>1, <1>2, <1>3, <1>4, <1>5, <1>6, <1>7, <1>8, <1>9, <1>10, <1>11, <1>12,
     <1>13, <1>14, <1>15, <1>16, <1>17, <1>18 DEF Next, Server, Handler, Close

(* A BUSY response never names the rejected connection's own session, nor   *)
(* one that has not held the slot.                                          *)
THEOREM BusyTruthful == Spec => []BusyNamesOther
<1>1. Init => BusyNamesOther
  BY DEF Init, BusyNamesOther
<1>2. QED
  BY <1>1, Inductive, BusyStep, PTL DEF Spec

=============================================================================
