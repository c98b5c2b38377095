--------------------------- MODULE SessionProofs ----------------------------
(***************************************************************************)
(* Theorems of module Session, for every number of packets, every bound,   *)
(* every set of faults and both TCP families: its types, the implementation*)
(* of the transition table by everything that writes the state field, the  *)
(* finality of terminal states, that SendComplete is announced only when   *)
(* the result can be fetched, and, for a worker that starts promptly, what *)
(* its Result says and when its UDP port is free.                          *)
(***************************************************************************)
EXTENDS Session, TLAPS

(* The tuples the actions' UNCHANGED clauses are written with. *)
USE DEF vars, request, udp, channels, counts, worker, env, loop, server

-----------------------------------------------------------------------------
(* The messages: whatever is written is a Response, whatever is read a     *)
(* Request, and a prepare request carries its direction and family.        *)
LEMMA WriteTyped ==
    ASSUME out \in Seq(Response), NEW m \in Response, Attempt(m)
    PROVE  out' \in Seq(Response)
BY DEF Attempt, WriteOk, WriteFails

(* The messages the session writes are responses. *)
LEMMA ResponsesTyped ==
    /\ Msg("ready") \in Response /\ Msg("send_complete") \in Response
    /\ Msg("invalid_request") \in Response /\ Msg("internal_error") \in Response
    /\ FieldsOK => Result \in Response
<1>1. FieldsOK => Result \in [type : {"result"}, sent : Nat, received : Nat]
  BY ConstantsAssumption DEF FieldsOK, Result
<1>2. QED
  BY <1>1 DEF Msg, Response

(* readMessage takes a request off the queue. *)
LEMMA ReadTyped ==
    ASSUME in \in Seq(Request), NEW t, Read(t)
    PROVE  /\ in' \in Seq(Request)
           /\ Head(in) \in Request
           /\ Head(in).type = t
BY DEF Read

(* The fields handlePrepare stores. *)
LEMMA PrepareTyped ==
    ASSUME NEW m \in Request, m.type = "prepare"
    PROVE  m.direction \in Direction /\ m.family \in Family
BY DEF Request, Simple

(* What the client sends is a request. *)
LEMMA ClientRequestsTyped == ClientRequests \subseteq Request
BY ConstantsAssumption DEF ClientRequests, Request

(* Every step keeps the types of the fields. *)
LEMMA FieldsStep == TypeOK /\ [Next]_vars => FieldsOK'
<1> SUFFICES ASSUME TypeOK, [Next]_vars PROVE FieldsOK'
  OBVIOUS
<1> USE ConstantsAssumption DEF TypeOK, FieldsOK, SessionState, Direction,
        Family, LoopPCs, WorkerPCs
<1>1. CASE Run
  BY <1>1 DEF Run
<1>2. CASE LoopTop
  BY <1>2 DEF LoopTop
<1>3. CASE handleHello
  BY <1>3 DEF handleHello, Reject
<1>4. CASE HandleUndecodable
  BY <1>4 DEF HandleUndecodable, Reject
<1>5. CASE HandleBadLength
  BY <1>5 DEF HandleBadLength, Abort
<1>6. CASE handlePrepare
  <2>1. Head(in).direction \in Direction /\ Head(in).family \in Family
    BY <1>6, ReadTyped, PrepareTyped DEF handlePrepare, QueuesOK
  <2>2. QED
    BY <1>6, <2>1 DEF handlePrepare, Reject
<1>7. CASE handleStart
  BY <1>7 DEF handleStart, Reject
<1>8. CASE handleSendComplete
  BY <1>8 DEF handleSendComplete, Reject, StopAndWait
<1>9. CASE AwaitReceiver
  BY <1>9 DEF AwaitReceiver
<1>10. CASE Collect
  BY <1>10 DEF Collect, Abort
<1>11. CASE handleFetchResult
  BY <1>11 DEF handleFetchResult, Reject
<1>12. CASE CloseAfterResult
  BY <1>12 DEF CloseAfterResult
<1>13. CASE HandleCancelRequest
  BY <1>13 DEF HandleCancelRequest
<1>14. CASE CancelAssign
  BY <1>14 DEF CancelAssign
<1>15. CASE ReadTimeout
  BY <1>15 DEF ReadTimeout
<1>16. CASE TimeoutAssign
  BY <1>16 DEF TimeoutAssign, AfterTimeout
<1>17. CASE ReadError
  BY <1>17 DEF ReadError, Abort
<1>18. CASE cleanupNoStateChange
  BY <1>18 DEF cleanupNoStateChange, CloseReceiver
<1>19. CASE Finish
  BY <1>19 DEF Finish
<1>20. CASE BindReceiver
  BY <1>20 DEF BindReceiver
<1>21. CASE BindFailed
  BY <1>21 DEF BindFailed
<1>22. CASE ReceiveDatagram
  BY <1>22 DEF ReceiveDatagram
<1>23. CASE ReceiveReturns
  BY <1>23 DEF ReceiveReturns
<1>24. CASE ReceiveFails
  BY <1>24 DEF ReceiveFails
<1>25. CASE CloseUDP
  BY <1>25 DEF CloseUDP
<1>26. CASE CountReceived
  BY <1>26 DEF CountReceived, Received
<1>27. CASE SignalDone
  BY <1>27 DEF SignalDone
<1>28. CASE NewSender
  BY <1>28 DEF NewSender, SenderFails
<1>29. CASE SendPacket
  BY <1>29 DEF SendPacket
<1>30. CASE SendFails
  BY <1>30 DEF SendFails, SenderFails
<1>31. CASE SendReturns
  BY <1>31 DEF SendReturns
<1>32. CASE SenderCollects
  BY <1>32 DEF SenderCollects, SenderFails
<1>33. CASE NotifySendComplete
  BY <1>33 DEF NotifySendComplete
<1>34. CASE ClientSend
  BY <1>34 DEF ClientSend
<1>35. CASE ClientRecv
  BY <1>35 DEF ClientRecv
<1>36. CASE ClientClose
  BY <1>36 DEF ClientClose
<1>37. CASE ClientReset
  BY <1>37 DEF ClientReset
<1>38. CASE Shutdown
  BY <1>38 DEF Shutdown
<1>39. CASE Terminated
  BY <1>39 DEF Terminated
<1>40. CASE UNCHANGED vars
  BY <1>40
<1>41. QED
  BY <1>1, <1>2, <1>3, <1>4, <1>5, <1>6, <1>7, <1>8, <1>9, <1>10, <1>11,
     <1>12, <1>13, <1>14, <1>15, <1>16, <1>17, <1>18, <1>19, <1>20, <1>21,
     <1>22, <1>23, <1>24, <1>25, <1>26, <1>27, <1>28, <1>29, <1>30, <1>31,
     <1>32, <1>33, <1>34, <1>35, <1>36, <1>37, <1>38, <1>39, <1>40 DEF Next,
     Loop, Worker, WorkerStep, Environment

(* Every step keeps the types of the message queues. *)
LEMMA QueuesStep == TypeOK /\ [Next]_vars => QueuesOK'
<1> SUFFICES ASSUME TypeOK, [Next]_vars PROVE QueuesOK'
  OBVIOUS
<1> USE WriteTyped, ResponsesTyped DEF TypeOK, QueuesOK
<1>1. CASE Run
  BY <1>1 DEF Run
<1>2. CASE LoopTop
  BY <1>2 DEF LoopTop
<1>3. CASE handleHello
  BY <1>3, ReadTyped DEF handleHello, Reject
<1>4. CASE HandleUndecodable
  BY <1>4, ReadTyped DEF HandleUndecodable, Reject
<1>5. CASE HandleBadLength
  BY <1>5, ReadTyped DEF HandleBadLength, Abort
<1>6. CASE handlePrepare
  BY <1>6, ReadTyped DEF handlePrepare, Reject, Attempt
<1>7. CASE handleStart
  BY <1>7, ReadTyped DEF handleStart, Reject
<1>8. CASE handleSendComplete
  BY <1>8, ReadTyped DEF handleSendComplete, Reject, StopAndWait
<1>9. CASE AwaitReceiver
  BY <1>9 DEF AwaitReceiver
<1>10. CASE Collect
  BY <1>10 DEF Collect, Abort
<1>11. CASE handleFetchResult
  BY <1>11, ReadTyped DEF handleFetchResult, Reject
<1>12. CASE CloseAfterResult
  BY <1>12 DEF CloseAfterResult
<1>13. CASE HandleCancelRequest
  BY <1>13, ReadTyped DEF HandleCancelRequest
<1>14. CASE CancelAssign
  BY <1>14 DEF CancelAssign
<1>15. CASE ReadTimeout
  BY <1>15 DEF ReadTimeout
<1>16. CASE TimeoutAssign
  BY <1>16 DEF TimeoutAssign, AfterTimeout
<1>17. CASE ReadError
  BY <1>17 DEF ReadError, Abort
<1>18. CASE cleanupNoStateChange
  BY <1>18 DEF cleanupNoStateChange, CloseReceiver
<1>19. CASE Finish
  BY <1>19 DEF Finish
<1>20. CASE BindReceiver
  BY <1>20 DEF BindReceiver
<1>21. CASE BindFailed
  BY <1>21 DEF BindFailed
<1>22. CASE ReceiveDatagram
  BY <1>22 DEF ReceiveDatagram
<1>23. CASE ReceiveReturns
  BY <1>23 DEF ReceiveReturns
<1>24. CASE ReceiveFails
  BY <1>24 DEF ReceiveFails
<1>25. CASE CloseUDP
  BY <1>25 DEF CloseUDP
<1>26. CASE CountReceived
  BY <1>26 DEF CountReceived, Received
<1>27. CASE SignalDone
  BY <1>27 DEF SignalDone
<1>28. CASE NewSender
  BY <1>28 DEF NewSender, SenderFails
<1>29. CASE SendPacket
  BY <1>29 DEF SendPacket
<1>30. CASE SendFails
  BY <1>30 DEF SendFails, SenderFails
<1>31. CASE SendReturns
  BY <1>31 DEF SendReturns
<1>32. CASE SenderCollects
  BY <1>32 DEF SenderCollects, SenderFails
<1>33. CASE NotifySendComplete
  BY <1>33 DEF NotifySendComplete
<1>34. CASE ClientSend
  BY <1>34, ClientRequestsTyped DEF ClientSend
<1>35. CASE ClientRecv
  BY <1>35 DEF ClientRecv
<1>36. CASE ClientClose
  BY <1>36 DEF ClientClose
<1>37. CASE ClientReset
  <2>1. <<>> \in Seq(Request)
    OBVIOUS
  <2>2. QED
    BY <1>37, <2>1 DEF ClientReset
<1>38. CASE Shutdown
  BY <1>38 DEF Shutdown
<1>39. CASE Terminated
  BY <1>39 DEF Terminated
<1>40. CASE UNCHANGED vars
  BY <1>40
<1>41. QED
  BY <1>1, <1>2, <1>3, <1>4, <1>5, <1>6, <1>7, <1>8, <1>9, <1>10, <1>11,
     <1>12, <1>13, <1>14, <1>15, <1>16, <1>17, <1>18, <1>19, <1>20, <1>21,
     <1>22, <1>23, <1>24, <1>25, <1>26, <1>27, <1>28, <1>29, <1>30, <1>31,
     <1>32, <1>33, <1>34, <1>35, <1>36, <1>37, <1>38, <1>39, <1>40 DEF Next,
     Loop, Worker, WorkerStep, Environment

(* Every field, channel, queue and program counter of the session has its  *)
(* type in every reachable state.                                          *)
THEOREM TypeCorrect == Spec => []TypeOK
<1>1. Init => TypeOK
  BY ConstantsAssumption DEF Init, TypeOK, FieldsOK, QueuesOK, SessionState,
     Direction, Family, LoopPCs, WorkerPCs
<1>2. TypeOK /\ [Next]_vars => TypeOK'
  BY FieldsStep, QueuesStep DEF TypeOK
<1>3. QED
  BY <1>1, <1>2, PTL DEF Spec

-----------------------------------------------------------------------------
(***************************************************************************)
(* The state field.  The direct assignments of handleCancel and            *)
(* handleTimeout skip the transition table; what keeps them on it is what  *)
(* the loop knows of the state although the worker may have moved it since *)
(* it was read: an active state stays active, and a state read by          *)
(* handleTimeout is still the current one or was running and is now        *)
(* collecting.                                                             *)
(***************************************************************************)
StateInv ==
    /\ pc # "idle" => state # "idle"
    /\ pc = "cancelling" => IsActive(state)
    /\ pc = "timedout" =>
          state = seen \/ (seen = "running" /\ state = "collecting")

(* The state stays, or leaves a state that is not terminal by an edge. *)
StateMoves ==
    \/ state' = state
    \/ ~IsTerminal(state) /\ FSM!Move(state')

(* Every step moves the state field along an edge, out of active states. *)
LEMMA StateStep == TypeOK /\ StateInv /\ [Next]_vars => StateMoves
<1> SUFFICES ASSUME TypeOK, StateInv, [Next]_vars PROVE StateMoves
  OBVIOUS
<1> USE DEF TypeOK, FieldsOK, StateMoves
<1>1. CASE Run
  BY <1>1 DEF Run, CanTransition, transitions, IsTerminal, FSM!Move,
     FSM!Edges, FSM!CanTransition, FSM!transitions, FSM!SessionState,
     SessionState
<1>2. CASE LoopTop
  BY <1>2 DEF LoopTop
<1>3. CASE handleHello
  BY <1>3 DEF handleHello, Reject
<1>4. CASE HandleUndecodable
  BY <1>4 DEF HandleUndecodable, Reject
<1>5. CASE HandleBadLength
  BY <1>5 DEF HandleBadLength, Abort
<1>6. CASE handlePrepare
  BY <1>6 DEF handlePrepare, Reject, IsTerminal, FSM!Move, FSM!Edges,
     FSM!CanTransition, FSM!transitions, FSM!SessionState, SessionState
<1>7. CASE handleStart
  BY <1>7 DEF handleStart, Reject, IsTerminal, FSM!Move, FSM!Edges,
     FSM!CanTransition, FSM!transitions, FSM!SessionState, SessionState
<1>8. CASE handleSendComplete
  BY <1>8 DEF handleSendComplete, Reject, StopAndWait
<1>9. CASE AwaitReceiver
  BY <1>9 DEF AwaitReceiver
<1>10. CASE Collect
  BY <1>10 DEF Collect, Abort, CanTransition, transitions, IsTerminal,
     FSM!Move, FSM!Edges, FSM!CanTransition, FSM!transitions,
     FSM!SessionState, SessionState
<1>11. CASE handleFetchResult
  BY <1>11 DEF handleFetchResult, Reject, IsTerminal, FSM!Move, FSM!Edges,
     FSM!CanTransition, FSM!transitions, FSM!SessionState, SessionState
<1>12. CASE CloseAfterResult
  BY <1>12 DEF CloseAfterResult
<1>13. CASE HandleCancelRequest
  BY <1>13 DEF HandleCancelRequest
<1>14. CASE CancelAssign
  BY <1>14 DEF CancelAssign, StateInv, IsTerminal, IsActive, FSM!Move,
     FSM!Edges, FSM!CanTransition, FSM!transitions, FSM!SessionState,
     SessionState
<1>15. CASE ReadTimeout
  BY <1>15 DEF ReadTimeout
<1>16. CASE TimeoutAssign
  BY <1>16 DEF TimeoutAssign, AfterTimeout, StateInv, IsTerminal, IsActive,
     FSM!Move, FSM!Edges, FSM!CanTransition, FSM!transitions,
     FSM!SessionState, SessionState
<1>17. CASE ReadError
  BY <1>17 DEF ReadError, Abort
<1>18. CASE cleanupNoStateChange
  BY <1>18 DEF cleanupNoStateChange, CloseReceiver
<1>19. CASE Finish
  BY <1>19 DEF Finish
<1>20. CASE BindReceiver
  BY <1>20 DEF BindReceiver
<1>21. CASE BindFailed
  BY <1>21 DEF BindFailed
<1>22. CASE ReceiveDatagram
  BY <1>22 DEF ReceiveDatagram
<1>23. CASE ReceiveReturns
  BY <1>23 DEF ReceiveReturns
<1>24. CASE ReceiveFails
  BY <1>24 DEF ReceiveFails
<1>25. CASE CloseUDP
  BY <1>25 DEF CloseUDP
<1>26. CASE CountReceived
  BY <1>26 DEF CountReceived, Received
<1>27. CASE SignalDone
  BY <1>27 DEF SignalDone
<1>28. CASE NewSender
  BY <1>28 DEF NewSender, SenderFails
<1>29. CASE SendPacket
  BY <1>29 DEF SendPacket
<1>30. CASE SendFails
  BY <1>30 DEF SendFails, SenderFails
<1>31. CASE SendReturns
  BY <1>31 DEF SendReturns
<1>32. CASE SenderCollects
  BY <1>32 DEF SenderCollects, SenderFails, CanTransition, transitions,
     IsTerminal, FSM!Move, FSM!Edges, FSM!CanTransition, FSM!transitions,
     FSM!SessionState, SessionState
<1>33. CASE NotifySendComplete
  BY <1>33 DEF NotifySendComplete
<1>34. CASE ClientSend
  BY <1>34 DEF ClientSend
<1>35. CASE ClientRecv
  BY <1>35 DEF ClientRecv
<1>36. CASE ClientClose
  BY <1>36 DEF ClientClose
<1>37. CASE ClientReset
  BY <1>37 DEF ClientReset
<1>38. CASE Shutdown
  BY <1>38 DEF Shutdown
<1>39. CASE Terminated
  BY <1>39 DEF Terminated
<1>40. CASE UNCHANGED vars
  BY <1>40
<1>41. QED
  BY <1>1, <1>2, <1>3, <1>4, <1>5, <1>6, <1>7, <1>8, <1>9, <1>10, <1>11,
     <1>12, <1>13, <1>14, <1>15, <1>16, <1>17, <1>18, <1>19, <1>20, <1>21,
     <1>22, <1>23, <1>24, <1>25, <1>26, <1>27, <1>28, <1>29, <1>30, <1>31,
     <1>32, <1>33, <1>34, <1>35, <1>36, <1>37, <1>38, <1>39, <1>40 DEF Next,
     Loop, Worker, WorkerStep, Environment

(* Every step keeps what the loop knows of the state. *)
LEMMA StateInvStep == TypeOK /\ StateInv /\ [Next]_vars => StateInv'
<1> SUFFICES ASSUME TypeOK, StateInv, [Next]_vars PROVE StateInv'
  OBVIOUS
<1> USE DEF TypeOK, FieldsOK, StateInv, IsActive, IsTerminal, SessionState
<1>1. CASE Run
  BY <1>1 DEF Run
<1>2. CASE LoopTop
  BY <1>2 DEF LoopTop
<1>3. CASE handleHello
  BY <1>3 DEF handleHello, Reject, Read
<1>4. CASE HandleUndecodable
  BY <1>4 DEF HandleUndecodable, Reject, Read
<1>5. CASE HandleBadLength
  BY <1>5 DEF HandleBadLength, Abort, Read
<1>6. CASE handlePrepare
  BY <1>6 DEF handlePrepare, Reject, Read
<1>7. CASE handleStart
  BY <1>7 DEF handleStart, Reject, Read
<1>8. CASE handleSendComplete
  BY <1>8 DEF handleSendComplete, Reject, StopAndWait, Read
<1>9. CASE AwaitReceiver
  BY <1>9 DEF AwaitReceiver
<1>10. CASE Collect
  BY <1>10 DEF Collect, Abort
<1>11. CASE handleFetchResult
  BY <1>11 DEF handleFetchResult, Reject, Read
<1>12. CASE CloseAfterResult
  BY <1>12 DEF CloseAfterResult
<1>13. CASE HandleCancelRequest
  BY <1>13 DEF HandleCancelRequest, Read
<1>14. CASE CancelAssign
  BY <1>14 DEF CancelAssign
<1>15. CASE ReadTimeout
  BY <1>15 DEF ReadTimeout
<1>16. CASE TimeoutAssign
  BY <1>16 DEF TimeoutAssign, AfterTimeout
<1>17. CASE ReadError
  BY <1>17 DEF ReadError, Abort
<1>18. CASE cleanupNoStateChange
  BY <1>18 DEF cleanupNoStateChange, CloseReceiver
<1>19. CASE Finish
  BY <1>19 DEF Finish
<1>20. CASE BindReceiver
  BY <1>20 DEF BindReceiver
<1>21. CASE BindFailed
  BY <1>21 DEF BindFailed
<1>22. CASE ReceiveDatagram
  BY <1>22 DEF ReceiveDatagram
<1>23. CASE ReceiveReturns
  BY <1>23 DEF ReceiveReturns
<1>24. CASE ReceiveFails
  BY <1>24 DEF ReceiveFails
<1>25. CASE CloseUDP
  BY <1>25 DEF CloseUDP
<1>26. CASE CountReceived
  BY <1>26 DEF CountReceived, Received
<1>27. CASE SignalDone
  BY <1>27 DEF SignalDone
<1>28. CASE NewSender
  BY <1>28 DEF NewSender, SenderFails
<1>29. CASE SendPacket
  BY <1>29 DEF SendPacket
<1>30. CASE SendFails
  BY <1>30 DEF SendFails, SenderFails
<1>31. CASE SendReturns
  BY <1>31 DEF SendReturns
<1>32. CASE SenderCollects
  BY <1>32 DEF SenderCollects, SenderFails, CanTransition, transitions
<1>33. CASE NotifySendComplete
  BY <1>33 DEF NotifySendComplete
<1>34. CASE ClientSend
  BY <1>34 DEF ClientSend
<1>35. CASE ClientRecv
  BY <1>35 DEF ClientRecv
<1>36. CASE ClientClose
  BY <1>36 DEF ClientClose
<1>37. CASE ClientReset
  BY <1>37 DEF ClientReset
<1>38. CASE Shutdown
  BY <1>38 DEF Shutdown
<1>39. CASE Terminated
  BY <1>39 DEF Terminated
<1>40. CASE UNCHANGED vars
  BY <1>40
<1>41. QED
  BY <1>1, <1>2, <1>3, <1>4, <1>5, <1>6, <1>7, <1>8, <1>9, <1>10, <1>11,
     <1>12, <1>13, <1>14, <1>15, <1>16, <1>17, <1>18, <1>19, <1>20, <1>21,
     <1>22, <1>23, <1>24, <1>25, <1>26, <1>27, <1>28, <1>29, <1>30, <1>31,
     <1>32, <1>33, <1>34, <1>35, <1>36, <1>37, <1>38, <1>39, <1>40 DEF Next,
     Loop, Worker, WorkerStep, Environment

(* The inductive invariant behind the two theorems that follow.            *)
THEOREM StateInvariant == Spec => [](TypeOK /\ StateInv)
<1>1. Init => StateInv
  BY DEF Init, StateInv
<1>2. QED
  BY <1>1, TypeCorrect, StateInvStep, PTL DEF Spec

(* Everything that writes the session's state field - setState and the     *)
(* direct assignments of handleTimeout and handleCancel, by the loop and by*)
(* the worker - follows the transition table or moves from collecting to   *)
(* cancelled.                                                              *)
THEOREM StateRefinement == Spec => ImplementsFSM
<1>1. Init => FSM!Init
  BY DEF Init, FSM!Init
<1>2. TypeOK /\ StateInv /\ [Next]_vars => [FSM!Next]_state
  <2> SUFFICES ASSUME TypeOK, StateInv, [Next]_vars PROVE [FSM!Next]_state
    OBVIOUS
  <2>1. state' \in FSM!SessionState
    BY FieldsStep DEF FieldsOK, SessionState, FSM!SessionState
  <2>2. QED
    BY <2>1, StateStep DEF StateMoves, FSM!Next
<1>3. QED
  BY <1>1, <1>2, StateInvariant, PTL DEF Spec, ImplementsFSM, FSM!Spec

(* A completed, failed or cancelled session never changes state again.     *)
THEOREM TerminalFinal == Spec => TerminalIsFinal
<1>1. TypeOK /\ StateInv /\ [Next]_vars => [IsTerminal(state) => state' = state]_vars
  BY StateStep DEF StateMoves
<1>2. QED
  BY <1>1, StateInvariant, PTL DEF Spec, TerminalIsFinal

-----------------------------------------------------------------------------
(***************************************************************************)
(* The announcement of a downlink test.  SendComplete is in the queue only *)
(* if the worker put it there, and the worker does so after it has moved   *)
(* the session on; a session that has moved on does not come back, and the *)
(* worker that could send more packets is over.                            *)
(***************************************************************************)
Announced == \E i \in 1..Len(out) : out[i].type = "send_complete"

Over(s) == s \in {"collecting", "completed", "failed", "cancelled"}

AnnounceInv ==
    /\ state \in {"idle", "preparing", "ready"} => w = "none"
    /\ w \in {"sent", "notify"} => tx = PacketCount
    /\ w = "notify" => Over(state)
    /\ Announced => w = "done" /\ Over(state) /\ tx = PacketCount

(* Writing another message announces nothing. *)
LEMMA WriteAnnouncesNothing ==
    ASSUME out \in Seq(Response), NEW m \in Response, m.type # "send_complete",
           Attempt(m), Announced'
    PROVE  Announced
<1>1. CASE WriteFails
  BY <1>1 DEF WriteFails, Announced
<1>2. CASE WriteOk(m)
  <2>1. PICK i \in 1..Len(out') : out'[i].type = "send_complete"
    BY DEF Announced
  <2>2. out' = Append(out, m) /\ Len(out') = Len(out) + 1
    BY <1>2 DEF WriteOk
  <2>3. i # Len(out) + 1
    BY <2>1, <2>2
  <2>4. i \in 1..Len(out) /\ out[i] = out'[i]
    BY <2>1, <2>2, <2>3
  <2>5. QED
    BY <2>1, <2>4 DEF Announced
<1>3. QED
  BY <1>1, <1>2 DEF Attempt

(* The client taking a message off the queue announces nothing. *)
LEMMA RecvAnnouncesNothing ==
    ASSUME out \in Seq(Response), out # <<>>, out' = Tail(out), Announced'
    PROVE  Announced
<1>1. PICK i \in 1..Len(out') : out'[i].type = "send_complete"
  BY DEF Announced
<1>2. i + 1 \in 1..Len(out) /\ out[i + 1] = out'[i]
  BY <1>1
<1>3. QED
  BY <1>1, <1>2 DEF Announced

(* The types of the messages other than SendComplete. *)
LEMMA OtherTypes ==
    /\ Msg("ready").type # "send_complete"
    /\ Msg("invalid_request").type # "send_complete"
    /\ Msg("internal_error").type # "send_complete"
    /\ Result.type # "send_complete"
BY DEF Msg, Result

(* Only NotifySendComplete announces. *)
LEMMA AnnounceStep ==
    ASSUME TypeOK, [Next]_vars, Announced', ~NotifySendComplete
    PROVE  Announced
<1>0. out \in Seq(Response) /\ Result \in Response
  BY ResponsesTyped DEF TypeOK, QueuesOK
<1>s. out' = out => Announced
  BY DEF Announced
<1> USE WriteAnnouncesNothing, ResponsesTyped, OtherTypes, <1>0, <1>s
<1>1. CASE Run
  BY <1>1 DEF Run
<1>2. CASE LoopTop
  BY <1>2 DEF LoopTop
<1>3. CASE handleHello
  BY <1>3 DEF handleHello, Reject
<1>4. CASE HandleUndecodable
  BY <1>4 DEF HandleUndecodable, Reject
<1>5. CASE HandleBadLength
  BY <1>5 DEF HandleBadLength, Abort
<1>6. CASE handlePrepare
  BY <1>6 DEF handlePrepare, Reject, Attempt
<1>7. CASE handleStart
  BY <1>7 DEF handleStart, Reject
<1>8. CASE handleSendComplete
  BY <1>8 DEF handleSendComplete, Reject, StopAndWait
<1>9. CASE AwaitReceiver
  BY <1>9 DEF AwaitReceiver
<1>10. CASE Collect
  BY <1>10 DEF Collect, Abort
<1>11. CASE handleFetchResult
  BY <1>11 DEF handleFetchResult, Reject
<1>12. CASE CloseAfterResult
  BY <1>12 DEF CloseAfterResult
<1>13. CASE HandleCancelRequest
  BY <1>13 DEF HandleCancelRequest
<1>14. CASE CancelAssign
  BY <1>14 DEF CancelAssign
<1>15. CASE ReadTimeout
  BY <1>15 DEF ReadTimeout
<1>16. CASE TimeoutAssign
  BY <1>16 DEF TimeoutAssign, AfterTimeout
<1>17. CASE ReadError
  BY <1>17 DEF ReadError, Abort
<1>18. CASE cleanupNoStateChange
  BY <1>18 DEF cleanupNoStateChange, CloseReceiver
<1>19. CASE Finish
  BY <1>19 DEF Finish
<1>20. CASE BindReceiver
  BY <1>20 DEF BindReceiver
<1>21. CASE BindFailed
  BY <1>21 DEF BindFailed
<1>22. CASE ReceiveDatagram
  BY <1>22 DEF ReceiveDatagram
<1>23. CASE ReceiveReturns
  BY <1>23 DEF ReceiveReturns
<1>24. CASE ReceiveFails
  BY <1>24 DEF ReceiveFails
<1>25. CASE CloseUDP
  BY <1>25 DEF CloseUDP
<1>26. CASE CountReceived
  BY <1>26 DEF CountReceived, Received
<1>27. CASE SignalDone
  BY <1>27 DEF SignalDone
<1>28. CASE NewSender
  BY <1>28 DEF NewSender, SenderFails
<1>29. CASE SendPacket
  BY <1>29 DEF SendPacket
<1>30. CASE SendFails
  BY <1>30 DEF SendFails, SenderFails
<1>31. CASE SendReturns
  BY <1>31 DEF SendReturns
<1>32. CASE SenderCollects
  BY <1>32 DEF SenderCollects, SenderFails
<1>33. CASE NotifySendComplete
  BY <1>33
<1>34. CASE ClientSend
  BY <1>34 DEF ClientSend
<1>35. CASE ClientRecv
  BY <1>35, RecvAnnouncesNothing DEF ClientRecv
<1>36. CASE ClientClose
  BY <1>36 DEF ClientClose
<1>37. CASE ClientReset
  BY <1>37 DEF ClientReset
<1>38. CASE Shutdown
  BY <1>38 DEF Shutdown
<1>39. CASE Terminated
  BY <1>39 DEF Terminated
<1>40. CASE UNCHANGED vars
  BY <1>40
<1>41. QED
  BY <1>1, <1>2, <1>3, <1>4, <1>5, <1>6, <1>7, <1>8, <1>9, <1>10, <1>11,
     <1>12, <1>13, <1>14, <1>15, <1>16, <1>17, <1>18, <1>19, <1>20, <1>21,
     <1>22, <1>23, <1>24, <1>25, <1>26, <1>27, <1>28, <1>29, <1>30, <1>31,
     <1>32, <1>33, <1>34, <1>35, <1>36, <1>37, <1>38, <1>39, <1>40 DEF Next,
     Loop, Worker, WorkerStep, Environment

(* A session that is over stays so. *)
LEMMA OverStays ==
    ASSUME TypeOK, StateInv, [Next]_vars, Over(state)
    PROVE  Over(state')
BY StateStep DEF StateMoves, Over, IsTerminal, FSM!Move, FSM!Edges,
   FSM!CanTransition, FSM!transitions, FSM!SessionState, TypeOK, FieldsOK,
   SessionState

(* Every step keeps the announcement's invariant. *)
LEMMA AnnounceInvStep ==
    TypeOK /\ StateInv /\ AnnounceInv /\ [Next]_vars => AnnounceInv'
<1> SUFFICES ASSUME TypeOK, StateInv, AnnounceInv, [Next]_vars PROVE AnnounceInv'
  OBVIOUS
<1>a. Announced' => Announced \/ NotifySendComplete
  BY AnnounceStep
<1>b. Over(state) => Over(state')
  BY OverStays
<1> USE <1>a, <1>b DEF AnnounceInv, Over, NotifySendComplete
<1>1. CASE Run
  BY <1>1 DEF Run, CanTransition, transitions, FieldsOK, TypeOK, SessionState
<1>2. CASE LoopTop
  BY <1>2 DEF LoopTop
<1>3. CASE handleHello
  BY <1>3 DEF handleHello, Reject, Read
<1>4. CASE HandleUndecodable
  BY <1>4 DEF HandleUndecodable, Reject, Read
<1>5. CASE HandleBadLength
  BY <1>5 DEF HandleBadLength, Abort, Read
<1>6. CASE handlePrepare
  BY <1>6 DEF handlePrepare, Reject, Read
<1>7. CASE handleStart
  BY <1>7 DEF handleStart, Reject, Read
<1>8. CASE handleSendComplete
  BY <1>8 DEF handleSendComplete, Reject, StopAndWait, Read
<1>9. CASE AwaitReceiver
  BY <1>9 DEF AwaitReceiver
<1>10. CASE Collect
  BY <1>10 DEF Collect, Abort, CanTransition, transitions, FieldsOK, TypeOK,
     SessionState
<1>11. CASE handleFetchResult
  BY <1>11 DEF handleFetchResult, Reject, Read
<1>12. CASE CloseAfterResult
  BY <1>12 DEF CloseAfterResult
<1>13. CASE HandleCancelRequest
  BY <1>13 DEF HandleCancelRequest, Read
<1>14. CASE CancelAssign
  BY <1>14 DEF CancelAssign, StateInv, IsActive, IsTerminal, FieldsOK, TypeOK,
     SessionState
<1>15. CASE ReadTimeout
  BY <1>15 DEF ReadTimeout
<1>16. CASE TimeoutAssign
  BY <1>16 DEF TimeoutAssign, AfterTimeout, StateInv, IsActive, IsTerminal,
     FieldsOK, TypeOK, SessionState
<1>17. CASE ReadError
  BY <1>17 DEF ReadError, Abort
<1>18. CASE cleanupNoStateChange
  BY <1>18 DEF cleanupNoStateChange, CloseReceiver
<1>19. CASE Finish
  BY <1>19 DEF Finish
<1>20. CASE BindReceiver
  BY <1>20 DEF BindReceiver
<1>21. CASE BindFailed
  BY <1>21 DEF BindFailed
<1>22. CASE ReceiveDatagram
  BY <1>22 DEF ReceiveDatagram
<1>23. CASE ReceiveReturns
  BY <1>23 DEF ReceiveReturns
<1>24. CASE ReceiveFails
  BY <1>24 DEF ReceiveFails
<1>25. CASE CloseUDP
  BY <1>25 DEF CloseUDP
<1>26. CASE CountReceived
  BY <1>26 DEF CountReceived, Received
<1>27. CASE SignalDone
  BY <1>27 DEF SignalDone
<1>28. CASE NewSender
  BY <1>28 DEF NewSender, SenderFails
<1>29. CASE SendPacket
  BY <1>29 DEF SendPacket
<1>30. CASE SendFails
  BY <1>30 DEF SendFails, SenderFails
<1>31. CASE SendReturns
  BY <1>31 DEF SendReturns
<1>32. CASE SenderCollects
  BY <1>32 DEF SenderCollects, SenderFails, CanTransition, transitions,
     FieldsOK, TypeOK, SessionState
<1>33. CASE NotifySendComplete
  BY <1>33 DEF NotifySendComplete
<1>34. CASE ClientSend
  BY <1>34 DEF ClientSend
<1>35. CASE ClientRecv
  BY <1>35 DEF ClientRecv
<1>36. CASE ClientClose
  BY <1>36 DEF ClientClose
<1>37. CASE ClientReset
  BY <1>37 DEF ClientReset
<1>38. CASE Shutdown
  BY <1>38 DEF Shutdown
<1>39. CASE Terminated
  BY <1>39 DEF Terminated
<1>40. CASE UNCHANGED vars
  BY <1>40
<1>41. QED
  BY <1>1, <1>2, <1>3, <1>4, <1>5, <1>6, <1>7, <1>8, <1>9, <1>10, <1>11,
     <1>12, <1>13, <1>14, <1>15, <1>16, <1>17, <1>18, <1>19, <1>20, <1>21,
     <1>22, <1>23, <1>24, <1>25, <1>26, <1>27, <1>28, <1>29, <1>30, <1>31,
     <1>32, <1>33, <1>34, <1>35, <1>36, <1>37, <1>38, <1>39, <1>40 DEF Next,
     Loop, Worker, WorkerStep, Environment

(* Once SendComplete has been announced, all packets have been sent and the*)
(* state allows (or is past) fetch_result, for any number of packets.      *)
THEOREM AnnounceTruthful == Spec => []FetchAfterAnnounce
<1>1. Init => AnnounceInv
  BY DEF Init, AnnounceInv, Announced, Over
<1>2. AnnounceInv => FetchAfterAnnounce
  BY DEF AnnounceInv, Announced, Over, FetchAfterAnnounce
<1>3. QED
  BY <1>1, <1>2, StateInvariant, AnnounceInvStep, PTL DEF Spec

-----------------------------------------------------------------------------
(***************************************************************************)
(* The uplink worker when a spawned worker runs its first section before    *)
(* the loop goes on (PromptSpec): the Result of an uplink test carries the  *)
(* final count of a receiver that has stopped, and, where the connection is *)
(* neither reset nor misframed and no session asks for both directions, no  *)
(* receiver is left behind running.                                         *)
(***************************************************************************)

(***************************************************************************)
(* What is true of the uplink worker on the way to its Result.  The loop    *)
(* fetches behind "collecting", and an uplink session collects only after   *)
(* the worker is done, or on the way out of the connection (a timeout).      *)
(***************************************************************************)
Binding == {"none", "spawned", "bindfailed"}

Uplinking == {"bindfailed", "receiving", "stopping", "counting", "closing"}

Downlinking == {"sending", "sent", "notify"}

WorkerInv ==
    /\ state \in {"idle", "preparing", "ready"} => w = "none"
    /\ state = "running" => w # "none"
    /\ w = "spawned" => pc = "top"
    /\ w \in {"none", "spawned"} => receiverDone = "nil"
    /\ w \in Binding => rx = 0 /\ receivedCount = 0
    /\ w \in Downlinking => direction = "downlink"
    /\ w \in Uplinking => receiverDone = "open"
    /\ w \in {"closing", "done"} /\ direction = "uplink" => receivedCount = rx

(* Where an uplink session has gone on, its worker is done, or nothing can  *)
(* be written to the client any more.                                       *)
StopInv ==
    direction = "uplink" =>
        /\ w = "done" => receiverDone = "closed"
        /\ pc = "collect" => w = "done"
        /\ state \in {"collecting", "completed", "failed"} =>
               w = "done" \/ sock = "closed" \/ pc = "cleanup"

(* The worker's part is kept by every step that respects the prompt start.  *)
LEMMA WorkerStepInv ==
    TypeOK /\ StateInv /\ WorkerInv /\ [PromptNext]_vars => WorkerInv'
<1> SUFFICES ASSUME TypeOK, StateInv, WorkerInv, [PromptNext]_vars PROVE WorkerInv'
  OBVIOUS
<1>p. [Next]_vars /\ (w = "spawned" => pc' = pc)
  BY DEF PromptNext
<1> USE <1>p DEF WorkerInv, Binding, Uplinking, Downlinking
<1>1. CASE Run
  BY <1>1 DEF Run, CanTransition, transitions, FieldsOK, TypeOK, SessionState
<1>2. CASE LoopTop
  BY <1>2 DEF LoopTop
<1>3. CASE handleHello
  BY <1>3 DEF handleHello, Reject, Read
<1>4. CASE HandleUndecodable
  BY <1>4 DEF HandleUndecodable, Reject, Read
<1>5. CASE HandleBadLength
  BY <1>5 DEF HandleBadLength, Abort, Read
<1>6. CASE handlePrepare
  BY <1>6 DEF handlePrepare, Reject, Read
<1>7. CASE handleStart
  BY <1>7 DEF handleStart, Reject, Read
<1>8. CASE handleSendComplete
  BY <1>8 DEF handleSendComplete, Reject, StopAndWait, Read
<1>9. CASE AwaitReceiver
  BY <1>9 DEF AwaitReceiver
<1>10. CASE Collect
  BY <1>10 DEF Collect, Abort, CanTransition, transitions, FieldsOK, TypeOK,
     SessionState
<1>11. CASE handleFetchResult
  BY <1>11 DEF handleFetchResult, Reject, Read
<1>12. CASE CloseAfterResult
  BY <1>12 DEF CloseAfterResult
<1>13. CASE HandleCancelRequest
  BY <1>13 DEF HandleCancelRequest, Read
<1>14. CASE CancelAssign
  BY <1>14 DEF CancelAssign, StateInv, IsActive, IsTerminal, FieldsOK, TypeOK,
     SessionState
<1>15. CASE ReadTimeout
  BY <1>15 DEF ReadTimeout
<1>16. CASE TimeoutAssign
  BY <1>16 DEF TimeoutAssign, AfterTimeout, StateInv, IsActive, IsTerminal,
     FieldsOK, TypeOK, SessionState
<1>17. CASE ReadError
  BY <1>17 DEF ReadError, Abort
<1>18. CASE cleanupNoStateChange
  BY <1>18 DEF cleanupNoStateChange, CloseReceiver
<1>19. CASE Finish
  BY <1>19 DEF Finish
<1>20. CASE BindReceiver
  BY <1>20 DEF BindReceiver
<1>21. CASE BindFailed
  BY <1>21 DEF BindFailed
<1>22. CASE ReceiveDatagram
  BY <1>22 DEF ReceiveDatagram, FieldsOK, TypeOK, SessionState
<1>23. CASE ReceiveReturns
  BY <1>23 DEF ReceiveReturns
<1>24. CASE ReceiveFails
  BY <1>24 DEF ReceiveFails
<1>25. CASE CloseUDP
  BY <1>25 DEF CloseUDP
<1>26. CASE CountReceived
  BY <1>26 DEF CountReceived, Received
<1>27. CASE SignalDone
  BY <1>27 DEF SignalDone
<1>28. CASE NewSender
  BY <1>28 DEF NewSender, SenderFails
<1>29. CASE SendPacket
  BY <1>29 DEF SendPacket
<1>30. CASE SendFails
  BY <1>30 DEF SendFails, SenderFails
<1>31. CASE SendReturns
  BY <1>31 DEF SendReturns
<1>32. CASE SenderCollects
  BY <1>32 DEF SenderCollects, SenderFails, CanTransition, transitions,
     FieldsOK, TypeOK, SessionState
<1>33. CASE NotifySendComplete
  BY <1>33 DEF NotifySendComplete
<1>34. CASE ClientSend
  BY <1>34 DEF ClientSend
<1>35. CASE ClientRecv
  BY <1>35 DEF ClientRecv
<1>36. CASE ClientClose
  BY <1>36 DEF ClientClose
<1>37. CASE ClientReset
  BY <1>37 DEF ClientReset
<1>38. CASE Shutdown
  BY <1>38 DEF Shutdown
<1>39. CASE Terminated
  BY <1>39 DEF Terminated
<1>40. CASE UNCHANGED vars
  BY <1>40
<1>41. QED
  BY <1>1, <1>2, <1>3, <1>4, <1>5, <1>6, <1>7, <1>8, <1>9, <1>10, <1>11,
     <1>12, <1>13, <1>14, <1>15, <1>16, <1>17, <1>18, <1>19, <1>20, <1>21,
     <1>22, <1>23, <1>24, <1>25, <1>26, <1>27, <1>28, <1>29, <1>30, <1>31,
     <1>32, <1>33, <1>34, <1>35, <1>36, <1>37, <1>38, <1>39, <1>40 DEF Next,
     Loop, Worker, WorkerStep, Environment

(* So is what the loop waits for. *)
LEMMA StopStepInv ==
    TypeOK /\ StateInv /\ WorkerInv /\ StopInv /\ [PromptNext]_vars => StopInv'
<1> SUFFICES ASSUME TypeOK, StateInv, WorkerInv, StopInv, [PromptNext]_vars
             PROVE  StopInv'
  OBVIOUS
<1>p. [Next]_vars /\ (w = "spawned" => pc' = pc)
  BY DEF PromptNext
<1> USE <1>p DEF StopInv, WorkerInv, Binding, Uplinking, Downlinking
<1>1. CASE Run
  BY <1>1 DEF Run, CanTransition, transitions, FieldsOK, TypeOK, SessionState
<1>2. CASE LoopTop
  BY <1>2 DEF LoopTop
<1>3. CASE handleHello
  BY <1>3 DEF handleHello, Reject, Read
<1>4. CASE HandleUndecodable
  BY <1>4 DEF HandleUndecodable, Reject, Read
<1>5. CASE HandleBadLength
  BY <1>5 DEF HandleBadLength, Abort, Read
<1>6. CASE handlePrepare
  BY <1>6 DEF handlePrepare, Reject, Read, FieldsOK, TypeOK, SessionState
<1>7. CASE handleStart
  BY <1>7 DEF handleStart, Reject, Read, FieldsOK, TypeOK, SessionState
<1>8. CASE handleSendComplete
  BY <1>8 DEF handleSendComplete, Reject, StopAndWait, Read, FieldsOK, TypeOK,
     SessionState, WorkerPCs
<1>9. CASE AwaitReceiver
  BY <1>9 DEF AwaitReceiver, FieldsOK, TypeOK, SessionState, WorkerPCs
<1>10. CASE Collect
  BY <1>10 DEF Collect, Abort, CanTransition, transitions, FieldsOK, TypeOK,
     SessionState
<1>11. CASE handleFetchResult
  BY <1>11 DEF handleFetchResult, Reject, Read
<1>12. CASE CloseAfterResult
  BY <1>12 DEF CloseAfterResult
<1>13. CASE HandleCancelRequest
  BY <1>13 DEF HandleCancelRequest, Read
<1>14. CASE CancelAssign
  BY <1>14 DEF CancelAssign, StateInv, IsActive, IsTerminal, FieldsOK, TypeOK,
     SessionState
<1>15. CASE ReadTimeout
  BY <1>15 DEF ReadTimeout
<1>16. CASE TimeoutAssign
  BY <1>16 DEF TimeoutAssign, AfterTimeout, StateInv, IsActive, IsTerminal,
     FieldsOK, TypeOK, SessionState
<1>17. CASE ReadError
  BY <1>17 DEF ReadError, Abort
<1>18. CASE cleanupNoStateChange
  BY <1>18 DEF cleanupNoStateChange, CloseReceiver
<1>19. CASE Finish
  BY <1>19 DEF Finish
<1>20. CASE BindReceiver
  BY <1>20 DEF BindReceiver
<1>21. CASE BindFailed
  BY <1>21 DEF BindFailed
<1>22. CASE ReceiveDatagram
  BY <1>22 DEF ReceiveDatagram
<1>23. CASE ReceiveReturns
  BY <1>23 DEF ReceiveReturns
<1>24. CASE ReceiveFails
  BY <1>24 DEF ReceiveFails
<1>25. CASE CloseUDP
  BY <1>25 DEF CloseUDP
<1>26. CASE CountReceived
  BY <1>26 DEF CountReceived, Received
<1>27. CASE SignalDone
  BY <1>27 DEF SignalDone
<1>28. CASE NewSender
  BY <1>28 DEF NewSender, SenderFails
<1>29. CASE SendPacket
  BY <1>29 DEF SendPacket
<1>30. CASE SendFails
  BY <1>30 DEF SendFails, SenderFails
<1>31. CASE SendReturns
  BY <1>31 DEF SendReturns
<1>32. CASE SenderCollects
  BY <1>32 DEF SenderCollects, SenderFails, CanTransition, transitions,
     FieldsOK, TypeOK, SessionState
<1>33. CASE NotifySendComplete
  BY <1>33 DEF NotifySendComplete
<1>34. CASE ClientSend
  BY <1>34 DEF ClientSend
<1>35. CASE ClientRecv
  BY <1>35 DEF ClientRecv
<1>36. CASE ClientClose
  BY <1>36 DEF ClientClose
<1>37. CASE ClientReset
  BY <1>37 DEF ClientReset
<1>38. CASE Shutdown
  BY <1>38 DEF Shutdown
<1>39. CASE Terminated
  BY <1>39 DEF Terminated
<1>40. CASE UNCHANGED vars
  BY <1>40
<1>41. QED
  BY <1>1, <1>2, <1>3, <1>4, <1>5, <1>6, <1>7, <1>8, <1>9, <1>10, <1>11,
     <1>12, <1>13, <1>14, <1>15, <1>16, <1>17, <1>18, <1>19, <1>20, <1>21,
     <1>22, <1>23, <1>24, <1>25, <1>26, <1>27, <1>28, <1>29, <1>30, <1>31,
     <1>32, <1>33, <1>34, <1>35, <1>36, <1>37, <1>38, <1>39, <1>40 DEF Next,
     Loop, Worker, WorkerStep, Environment

-----------------------------------------------------------------------------
(***************************************************************************)
(* Results on their way to the client: the session is over by then, and     *)
(* what they say of an uplink test is still what its receiver recorded.     *)
(***************************************************************************)
Pending(m) == \E i \in 1..Len(out) : out[i] = m

ResultInv ==
    \A i \in 1..Len(out) : out[i].type = "result" =>
        /\ Over(state)
        /\ direction = "uplink" => w = "done" /\ out[i].received = rx

(* Writing another message makes no result. *)
LEMMA WriteMakesNoResult ==
    ASSUME out \in Seq(Response), NEW n \in Response, n.type # "result", Attempt(n),
           NEW m, m.type = "result", Pending(m)'
    PROVE  Pending(m)
<1>1. CASE WriteFails
  BY <1>1 DEF WriteFails, Pending
<1>2. CASE WriteOk(n)
  <2>1. PICK i \in 1..Len(out') : out'[i] = m
    BY DEF Pending
  <2>2. out' = Append(out, n) /\ Len(out') = Len(out) + 1
    BY <1>2 DEF WriteOk
  <2>3. i # Len(out) + 1
    BY <2>1, <2>2
  <2>4. i \in 1..Len(out) /\ out[i] = out'[i]
    BY <2>1, <2>2, <2>3
  <2>5. QED
    BY <2>1, <2>4 DEF Pending
<1>3. QED
  BY <1>1, <1>2 DEF Attempt

(* Writing the result adds that one at most. *)
LEMMA WriteResult ==
    ASSUME out \in Seq(Response), NEW n \in Response, Attempt(n), NEW m, Pending(m)'
    PROVE  Pending(m) \/ (m = n /\ sock = "open")
<1>1. CASE WriteFails
  BY <1>1 DEF WriteFails, Pending
<1>2. CASE WriteOk(n)
  <2>1. PICK i \in 1..Len(out') : out'[i] = m
    BY DEF Pending
  <2>2. out' = Append(out, n) /\ Len(out') = Len(out) + 1
    BY <1>2 DEF WriteOk
  <2>3. CASE i = Len(out) + 1
    BY <1>2, <2>1, <2>2, <2>3 DEF WriteOk
  <2>4. CASE i # Len(out) + 1
    <3>1. i \in 1..Len(out) /\ out[i] = out'[i]
      BY <2>1, <2>2, <2>4
    <3>2. QED
      BY <2>1, <3>1 DEF Pending
  <2>5. QED
    BY <2>3, <2>4
<1>3. QED
  BY <1>1, <1>2 DEF Attempt

(* The client takes messages off the queue. *)
LEMMA RecvMakesNoResult ==
    ASSUME out \in Seq(Response), out # <<>>, out' = Tail(out), NEW m, Pending(m)'
    PROVE  Pending(m)
<1>1. PICK i \in 1..Len(out') : out'[i] = m
  BY DEF Pending
<1>2. i + 1 \in 1..Len(out) /\ out[i + 1] = out'[i]
  BY <1>1
<1>3. QED
  BY <1>1, <1>2 DEF Pending

(* The types of the messages other than Result. *)
LEMMA NotResults ==
    /\ Msg("ready").type # "result" /\ Msg("send_complete").type # "result"
    /\ Msg("invalid_request").type # "result"
    /\ Msg("internal_error").type # "result"
BY DEF Msg

(* Only handleFetchResult makes a result. *)
LEMMA ResultStep ==
    ASSUME TypeOK, [Next]_vars, ~handleFetchResult,
           NEW m, m.type = "result", Pending(m)'
    PROVE  Pending(m)
<1>0. out \in Seq(Response)
  BY DEF TypeOK, QueuesOK
<1>s. out' = out => Pending(m)
  BY DEF Pending
<1> USE WriteMakesNoResult, ResponsesTyped, NotResults, <1>0, <1>s
<1>1. CASE Run
  BY <1>1 DEF Run
<1>2. CASE LoopTop
  BY <1>2 DEF LoopTop
<1>3. CASE handleHello
  BY <1>3 DEF handleHello, Reject, Read
<1>4. CASE HandleUndecodable
  BY <1>4 DEF HandleUndecodable, Reject, Read
<1>5. CASE HandleBadLength
  BY <1>5 DEF HandleBadLength, Abort, Read
<1>6. CASE handlePrepare
  BY <1>6 DEF handlePrepare, Reject, Read, Attempt
<1>7. CASE handleStart
  BY <1>7 DEF handleStart, Reject, Read
<1>8. CASE handleSendComplete
  BY <1>8 DEF handleSendComplete, Reject, StopAndWait, Read
<1>9. CASE AwaitReceiver
  BY <1>9 DEF AwaitReceiver
<1>10. CASE Collect
  BY <1>10 DEF Collect, Abort
<1>11. CASE handleFetchResult
  BY <1>11
<1>12. CASE CloseAfterResult
  BY <1>12 DEF CloseAfterResult
<1>13. CASE HandleCancelRequest
  BY <1>13 DEF HandleCancelRequest, Read
<1>14. CASE CancelAssign
  BY <1>14 DEF CancelAssign
<1>15. CASE ReadTimeout
  BY <1>15 DEF ReadTimeout
<1>16. CASE TimeoutAssign
  BY <1>16 DEF TimeoutAssign, AfterTimeout
<1>17. CASE ReadError
  BY <1>17 DEF ReadError, Abort
<1>18. CASE cleanupNoStateChange
  BY <1>18 DEF cleanupNoStateChange, CloseReceiver
<1>19. CASE Finish
  BY <1>19 DEF Finish
<1>20. CASE BindReceiver
  BY <1>20 DEF BindReceiver
<1>21. CASE BindFailed
  BY <1>21 DEF BindFailed
<1>22. CASE ReceiveDatagram
  BY <1>22 DEF ReceiveDatagram
<1>23. CASE ReceiveReturns
  BY <1>23 DEF ReceiveReturns
<1>24. CASE ReceiveFails
  BY <1>24 DEF ReceiveFails
<1>25. CASE CloseUDP
  BY <1>25 DEF CloseUDP
<1>26. CASE CountReceived
  BY <1>26 DEF CountReceived, Received
<1>27. CASE SignalDone
  BY <1>27 DEF SignalDone
<1>28. CASE NewSender
  BY <1>28 DEF NewSender, SenderFails
<1>29. CASE SendPacket
  BY <1>29 DEF SendPacket
<1>30. CASE SendFails
  BY <1>30 DEF SendFails, SenderFails
<1>31. CASE SendReturns
  BY <1>31 DEF SendReturns
<1>32. CASE SenderCollects
  BY <1>32 DEF SenderCollects, SenderFails
<1>33. CASE NotifySendComplete
  BY <1>33 DEF NotifySendComplete
<1>34. CASE ClientSend
  BY <1>34 DEF ClientSend
<1>35. CASE ClientRecv
  BY <1>35, RecvMakesNoResult DEF ClientRecv
<1>36. CASE ClientClose
  BY <1>36 DEF ClientClose
<1>37. CASE ClientReset
  BY <1>37 DEF ClientReset
<1>38. CASE Shutdown
  BY <1>38 DEF Shutdown
<1>39. CASE Terminated
  BY <1>39 DEF Terminated
<1>40. CASE UNCHANGED vars
  BY <1>40
<1>41. QED
  BY <1>1, <1>2, <1>3, <1>4, <1>5, <1>6, <1>7, <1>8, <1>9, <1>10, <1>11,
     <1>12, <1>13, <1>14, <1>15, <1>16, <1>17, <1>18, <1>19, <1>20, <1>21,
     <1>22, <1>23, <1>24, <1>25, <1>26, <1>27, <1>28, <1>29, <1>30, <1>31,
     <1>32, <1>33, <1>34, <1>35, <1>36, <1>37, <1>38, <1>39, <1>40 DEF Next,
     Loop, Worker, WorkerStep, Environment

(* A session that is over keeps its direction, and a worker that is done    *)
(* records nothing more.                                                    *)
LEMMA Settled ==
    ASSUME TypeOK, StateInv, [Next]_vars, Over(state)
    PROVE  /\ direction' = direction
           /\ w = "done" => w' = "done" /\ rx' = rx
<1> USE DEF Over
<1>1. CASE Run
  BY <1>1 DEF Run
<1>2. CASE LoopTop
  BY <1>2 DEF LoopTop
<1>3. CASE handleHello
  BY <1>3 DEF handleHello, Reject, Read
<1>4. CASE HandleUndecodable
  BY <1>4 DEF HandleUndecodable, Reject, Read
<1>5. CASE HandleBadLength
  BY <1>5 DEF HandleBadLength, Abort, Read
<1>6. CASE handlePrepare
  BY <1>6 DEF handlePrepare, Reject, Read
<1>7. CASE handleStart
  BY <1>7 DEF handleStart, Reject, Read
<1>8. CASE handleSendComplete
  BY <1>8 DEF handleSendComplete, Reject, StopAndWait, Read
<1>9. CASE AwaitReceiver
  BY <1>9 DEF AwaitReceiver
<1>10. CASE Collect
  BY <1>10 DEF Collect, Abort
<1>11. CASE handleFetchResult
  BY <1>11 DEF handleFetchResult, Reject, Read
<1>12. CASE CloseAfterResult
  BY <1>12 DEF CloseAfterResult
<1>13. CASE HandleCancelRequest
  BY <1>13 DEF HandleCancelRequest, Read
<1>14. CASE CancelAssign
  BY <1>14 DEF CancelAssign
<1>15. CASE ReadTimeout
  BY <1>15 DEF ReadTimeout
<1>16. CASE TimeoutAssign
  BY <1>16 DEF TimeoutAssign, AfterTimeout
<1>17. CASE ReadError
  BY <1>17 DEF ReadError, Abort
<1>18. CASE cleanupNoStateChange
  BY <1>18 DEF cleanupNoStateChange, CloseReceiver
<1>19. CASE Finish
  BY <1>19 DEF Finish
<1>20. CASE BindReceiver
  BY <1>20 DEF BindReceiver
<1>21. CASE BindFailed
  BY <1>21 DEF BindFailed
<1>22. CASE ReceiveDatagram
  BY <1>22 DEF ReceiveDatagram
<1>23. CASE ReceiveReturns
  BY <1>23 DEF ReceiveReturns
<1>24. CASE ReceiveFails
  BY <1>24 DEF ReceiveFails
<1>25. CASE CloseUDP
  BY <1>25 DEF CloseUDP
<1>26. CASE CountReceived
  BY <1>26 DEF CountReceived, Received
<1>27. CASE SignalDone
  BY <1>27 DEF SignalDone
<1>28. CASE NewSender
  BY <1>28 DEF NewSender, SenderFails
<1>29. CASE SendPacket
  BY <1>29 DEF SendPacket
<1>30. CASE SendFails
  BY <1>30 DEF SendFails, SenderFails
<1>31. CASE SendReturns
  BY <1>31 DEF SendReturns
<1>32. CASE SenderCollects
  BY <1>32 DEF SenderCollects, SenderFails
<1>33. CASE NotifySendComplete
  BY <1>33 DEF NotifySendComplete
<1>34. CASE ClientSend
  BY <1>34 DEF ClientSend
<1>35. CASE ClientRecv
  BY <1>35 DEF ClientRecv
<1>36. CASE ClientClose
  BY <1>36 DEF ClientClose
<1>37. CASE ClientReset
  BY <1>37 DEF ClientReset
<1>38. CASE Shutdown
  BY <1>38 DEF Shutdown
<1>39. CASE Terminated
  BY <1>39 DEF Terminated
<1>40. CASE UNCHANGED vars
  BY <1>40
<1>41. QED
  BY <1>1, <1>2, <1>3, <1>4, <1>5, <1>6, <1>7, <1>8, <1>9, <1>10, <1>11,
     <1>12, <1>13, <1>14, <1>15, <1>16, <1>17, <1>18, <1>19, <1>20, <1>21,
     <1>22, <1>23, <1>24, <1>25, <1>26, <1>27, <1>28, <1>29, <1>30, <1>31,
     <1>32, <1>33, <1>34, <1>35, <1>36, <1>37, <1>38, <1>39, <1>40 DEF Next,
     Loop, Worker, WorkerStep, Environment

(* Results stay true on every step. *)
LEMMA ResultInvStep ==
    ASSUME TypeOK, StateInv, WorkerInv, StopInv, ResultInv, [PromptNext]_vars
    PROVE  ResultInv'
<1>p. [Next]_vars
  BY DEF PromptNext
<1> SUFFICES ASSUME NEW m, Pending(m)', m.type = "result"
             PROVE  /\ Over(state')
                    /\ direction' = "uplink" => w' = "done" /\ m.received = rx'
  BY DEF ResultInv, Pending, Over
<1>1. CASE Pending(m)
  <2>1. Over(state) /\ (direction = "uplink" => w = "done" /\ m.received = rx)
    BY <1>1 DEF ResultInv, Pending
  <2>2. Over(state')
    BY <1>p, <2>1, OverStays
  <2>3. QED
    BY <1>p, <2>1, <2>2, Settled
<1>2. CASE ~Pending(m)
  <2>1. handleFetchResult
    BY <1>p, <1>2, ResultStep
  <2>2. ~Reject
    <3>1. SUFFICES ASSUME Reject PROVE FALSE
      OBVIOUS
    <3>2. out \in Seq(Response)
      BY DEF TypeOK, QueuesOK
    <3>3. QED
      BY <1>2, <3>1, <3>2, WriteMakesNoResult, ResponsesTyped, NotResults DEF Reject
  <2>3. /\ state \in {"collecting", "completed", "failed"}
        /\ pc = "reading" /\ sock = "open" /\ Attempt(Result)
        /\ state' \in {"completed", "failed"}
        /\ w' = w /\ rx' = rx /\ direction' = direction
    BY <2>1, <2>2 DEF handleFetchResult, Read
  <2>4. m = Result
    BY <1>2, <2>3, WriteResult, ResponsesTyped DEF TypeOK, QueuesOK
  <2>5. m.received = receivedCount
    BY <2>4 DEF Result
  <2>6. direction = "uplink" => w = "done"
    BY <2>3 DEF StopInv
  <2>7. QED
    BY <2>3, <2>5, <2>6 DEF Over, WorkerInv
<1>3. QED
  BY <1>1, <1>2

(* The Result of an uplink test is written after the receiver has stopped   *)
(* and carries its final count, however its socket, the deadlines and the   *)
(* connection fail, if the worker starts before the next message is handled.*)
THEOREM UplinkResult == PromptSpec => []UplinkResultFinal
<1> DEFINE Inv == TypeOK /\ StateInv /\ WorkerInv /\ StopInv /\ ResultInv
<1>1. Init => Inv
  <2>1. Init => TypeOK
    BY ConstantsAssumption DEF Init, TypeOK, FieldsOK, QueuesOK, SessionState,
       Direction, Family, LoopPCs, WorkerPCs
  <2>2. Init => StateInv /\ WorkerInv /\ StopInv /\ ResultInv
    BY DEF Init, StateInv, IsActive, WorkerInv, Binding, Uplinking, Downlinking,
       StopInv, ResultInv, Pending
  <2>3. QED
    BY <2>1, <2>2
<1>2. Inv /\ [PromptNext]_vars => Inv'
  <2> SUFFICES ASSUME Inv, [PromptNext]_vars PROVE Inv'
    OBVIOUS
  <2>1. [Next]_vars
    BY DEF PromptNext
  <2>2. TypeOK' /\ StateInv'
    BY <2>1, FieldsStep, QueuesStep, StateInvStep DEF TypeOK
  <2>3. QED
    BY <2>2, WorkerStepInv, StopStepInv, ResultInvStep
<1>3. Inv => UplinkResultFinal
  BY DEF ResultInv, Pending, UplinkResultFinal
<1>4. QED
  BY <1>1, <1>2, <1>3, PTL DEF PromptSpec

-----------------------------------------------------------------------------
(***************************************************************************)
(* The UDP port.  A session of one direction, over a connection that is     *)
(* neither reset nor misframed, gives its port back before its slot: the    *)
(* loop leaves by handleCancel or handleTimeout, which close the receiver,  *)
(* or after a test whose worker has closed it.                              *)
(***************************************************************************)
Unbroken ==
    /\ Faults \cap {"reset", "badframe"} = {}
    /\ "both" \notin Directions

QuietInv ==
    /\ in \in Seq(ClientRequests)
    /\ peer # "reset"
    /\ direction # "both"

PortInv ==
    /\ rsock = "open" =>
          w \in {"receiving", "stopping"} /\ receiver = "set" /\ direction = "uplink"
    /\ pc \in {"closeconn", "returned", "done"} => rsock # "open"
    /\ sock = "closed" \/ (IsTerminal(state) /\ pc # "cleanup") =>
          rsock # "open" /\ w # "spawned"

(* What is read of such a connection is a request of the client's. *)
LEMMA ReadQuiet ==
    ASSUME in \in Seq(ClientRequests), NEW t, Read(t)
    PROVE  /\ in' \in Seq(ClientRequests)
           /\ Head(in) \in ClientRequests
           /\ Head(in).type = t
BY DEF Read

(* A bad length prefix is not among them, nor a session of both directions. *)
LEMMA QuietRequests ==
    ASSUME Unbroken, NEW m \in ClientRequests
    PROVE  /\ m.type # "bad_length"
           /\ m.type = "prepare" => m.direction # "both"
BY DEF Unbroken, ClientRequests, Simple

(* An unbroken connection stays so. *)
LEMMA QuietStep ==
    ASSUME Unbroken, TypeOK, QuietInv, [Next]_vars
    PROVE  QuietInv'
<1> USE DEF QuietInv
<1>f. "reset" \notin Faults
  BY DEF Unbroken
<1>r. \A t : Read(t) => in' \in Seq(ClientRequests)
  BY ReadQuiet
<1>1. CASE Run
  BY <1>1 DEF Run
<1>2. CASE LoopTop
  BY <1>2 DEF LoopTop
<1>3. CASE handleHello
  BY <1>3, <1>r DEF handleHello, Reject
<1>4. CASE HandleUndecodable
  BY <1>4, <1>r DEF HandleUndecodable, Reject
<1>5. CASE HandleBadLength
  BY <1>5, <1>r DEF HandleBadLength, Abort
<1>6. CASE handlePrepare
  <2>1. in' \in Seq(ClientRequests) /\ Head(in).direction # "both"
    BY <1>6, ReadQuiet, QuietRequests DEF handlePrepare
  <2>2. QED
    BY <1>6, <2>1 DEF handlePrepare, Reject
<1>7. CASE handleStart
  BY <1>7, <1>r DEF handleStart, Reject
<1>8. CASE handleSendComplete
  BY <1>8, <1>r DEF handleSendComplete, Reject, StopAndWait
<1>9. CASE AwaitReceiver
  BY <1>9 DEF AwaitReceiver
<1>10. CASE Collect
  BY <1>10 DEF Collect, Abort
<1>11. CASE handleFetchResult
  BY <1>11, <1>r DEF handleFetchResult, Reject
<1>12. CASE CloseAfterResult
  BY <1>12 DEF CloseAfterResult
<1>13. CASE HandleCancelRequest
  BY <1>13, <1>r DEF HandleCancelRequest
<1>14. CASE CancelAssign
  BY <1>14 DEF CancelAssign
<1>15. CASE ReadTimeout
  BY <1>15 DEF ReadTimeout
<1>16. CASE TimeoutAssign
  BY <1>16 DEF TimeoutAssign, AfterTimeout
<1>17. CASE ReadError
  BY <1>17 DEF ReadError, Abort
<1>18. CASE cleanupNoStateChange
  BY <1>18 DEF cleanupNoStateChange, CloseReceiver
<1>19. CASE Finish
  BY <1>19 DEF Finish
<1>20. CASE BindReceiver
  BY <1>20 DEF BindReceiver
<1>21. CASE BindFailed
  BY <1>21 DEF BindFailed
<1>22. CASE ReceiveDatagram
  BY <1>22 DEF ReceiveDatagram
<1>23. CASE ReceiveReturns
  BY <1>23 DEF ReceiveReturns
<1>24. CASE ReceiveFails
  BY <1>24 DEF ReceiveFails
<1>25. CASE CloseUDP
  BY <1>25 DEF CloseUDP
<1>26. CASE CountReceived
  BY <1>26 DEF CountReceived, Received
<1>27. CASE SignalDone
  BY <1>27 DEF SignalDone
<1>28. CASE NewSender
  BY <1>28 DEF NewSender, SenderFails
<1>29. CASE SendPacket
  BY <1>29 DEF SendPacket
<1>30. CASE SendFails
  BY <1>30 DEF SendFails, SenderFails
<1>31. CASE SendReturns
  BY <1>31 DEF SendReturns
<1>32. CASE SenderCollects
  BY <1>32 DEF SenderCollects, SenderFails
<1>33. CASE NotifySendComplete
  BY <1>33 DEF NotifySendComplete
<1>34. CASE ClientSend
  BY <1>34 DEF ClientSend
<1>35. CASE ClientRecv
  BY <1>35 DEF ClientRecv
<1>36. CASE ClientClose
  BY <1>36 DEF ClientClose
<1>37. CASE ClientReset
  BY <1>37, <1>f DEF ClientReset
<1>38. CASE Shutdown
  BY <1>38 DEF Shutdown
<1>39. CASE Terminated
  BY <1>39 DEF Terminated
<1>40. CASE UNCHANGED vars
  BY <1>40
<1>41. QED
  BY <1>1, <1>2, <1>3, <1>4, <1>5, <1>6, <1>7, <1>8, <1>9, <1>10, <1>11,
     <1>12, <1>13, <1>14, <1>15, <1>16, <1>17, <1>18, <1>19, <1>20, <1>21,
     <1>22, <1>23, <1>24, <1>25, <1>26, <1>27, <1>28, <1>29, <1>30, <1>31,
     <1>32, <1>33, <1>34, <1>35, <1>36, <1>37, <1>38, <1>39, <1>40 DEF Next,
     Loop, Worker, WorkerStep, Environment

(* The port's part is kept by every step of a session with such a client    *)
(* that respects the prompt start.                                          *)
LEMMA PortStep ==
    ASSUME Unbroken, TypeOK, StateInv, WorkerInv, StopInv, QuietInv, PortInv,
           [PromptNext]_vars
    PROVE  PortInv'
<1>p. [Next]_vars /\ (w = "spawned" => pc' = pc)
  BY DEF PromptNext
<1>t. /\ w = "spawned" => pc = "top"
      /\ direction # "both" /\ peer # "reset"
      /\ state \in {"idle", "preparing", "ready"} => w = "none"
  BY DEF WorkerInv, QuietInv
<1> USE <1>p, <1>t DEF PortInv, IsTerminal, TypeOK, FieldsOK
<1>1. CASE Run
  BY <1>1 DEF Run
<1>2. CASE LoopTop
  BY <1>2 DEF LoopTop
<1>3. CASE handleHello
  BY <1>3 DEF handleHello, Reject, Read
<1>4. CASE HandleUndecodable
  BY <1>4 DEF HandleUndecodable, Reject, Read
<1>5. CASE HandleBadLength
  BY <1>5, ReadQuiet, QuietRequests DEF HandleBadLength, QuietInv
<1>6. CASE handlePrepare
  BY <1>6 DEF handlePrepare, Reject, Read
<1>7. CASE handleStart
  BY <1>7 DEF handleStart, Reject, Read
<1>8. CASE handleSendComplete
  BY <1>8 DEF handleSendComplete, Reject, StopAndWait, Read
<1>9. CASE AwaitReceiver
  BY <1>9 DEF AwaitReceiver
<1>10. CASE Collect
  BY <1>10 DEF Collect, Abort, StopInv
<1>11. CASE handleFetchResult
  BY <1>11 DEF handleFetchResult, Reject, Read, StopInv
<1>12. CASE CloseAfterResult
  BY <1>12 DEF CloseAfterResult
<1>13. CASE HandleCancelRequest
  BY <1>13 DEF HandleCancelRequest, Read
<1>14. CASE CancelAssign
  BY <1>14 DEF CancelAssign
<1>15. CASE ReadTimeout
  BY <1>15 DEF ReadTimeout
<1>16. CASE TimeoutAssign
  BY <1>16 DEF TimeoutAssign, AfterTimeout, StateInv
<1>17. CASE ReadError
  BY <1>17 DEF ReadError, Abort
<1>18. CASE cleanupNoStateChange
  BY <1>18 DEF cleanupNoStateChange, CloseReceiver
<1>19. CASE Finish
  BY <1>19 DEF Finish
<1>20. CASE BindReceiver
  BY <1>20 DEF BindReceiver, Direction
<1>21. CASE BindFailed
  BY <1>21 DEF BindFailed
<1>22. CASE ReceiveDatagram
  BY <1>22 DEF ReceiveDatagram
<1>23. CASE ReceiveReturns
  BY <1>23 DEF ReceiveReturns
<1>24. CASE ReceiveFails
  BY <1>24 DEF ReceiveFails
<1>25. CASE CloseUDP
  BY <1>25 DEF CloseUDP
<1>26. CASE CountReceived
  BY <1>26 DEF CountReceived, Received
<1>27. CASE SignalDone
  BY <1>27 DEF SignalDone
<1>28. CASE NewSender
  BY <1>28 DEF NewSender, SenderFails
<1>29. CASE SendPacket
  BY <1>29 DEF SendPacket
<1>30. CASE SendFails
  BY <1>30 DEF SendFails, SenderFails
<1>31. CASE SendReturns
  BY <1>31 DEF SendReturns
<1>32. CASE SenderCollects
  BY <1>32 DEF SenderCollects, SenderFails, WorkerInv, Downlinking
<1>33. CASE NotifySendComplete
  BY <1>33 DEF NotifySendComplete
<1>34. CASE ClientSend
  BY <1>34 DEF ClientSend
<1>35. CASE ClientRecv
  BY <1>35 DEF ClientRecv
<1>36. CASE ClientClose
  BY <1>36 DEF ClientClose
<1>37. CASE ClientReset
  BY <1>37 DEF ClientReset
<1>38. CASE Shutdown
  BY <1>38 DEF Shutdown
<1>39. CASE Terminated
  BY <1>39 DEF Terminated
<1>40. CASE UNCHANGED vars
  BY <1>40
<1>41. QED
  BY <1>1, <1>2, <1>3, <1>4, <1>5, <1>6, <1>7, <1>8, <1>9, <1>10, <1>11,
     <1>12, <1>13, <1>14, <1>15, <1>16, <1>17, <1>18, <1>19, <1>20, <1>21,
     <1>22, <1>23, <1>24, <1>25, <1>26, <1>27, <1>28, <1>29, <1>30, <1>31,
     <1>32, <1>33, <1>34, <1>35, <1>36, <1>37, <1>38, <1>39, <1>40 DEF Next,
     Loop, Worker, WorkerStep, Environment

(* The port of a session is free before its slot is released, if the worker *)
(* starts before the next message is handled.  Of the three hypotheses none *)
(* can be dropped: a reset connection and a bad length prefix end the loop   *)
(* without cleanup, and a session of both directions is never told to stop. *)
THEOREM PortReleased ==
    ASSUME Unbroken
    PROVE  PromptSpec => []PortFreeAtRelease
<1> DEFINE Inv == TypeOK /\ StateInv /\ WorkerInv /\ StopInv /\ QuietInv /\ PortInv
<1>1. Init => Inv
  <2>1. Init => TypeOK
    BY ConstantsAssumption DEF Init, TypeOK, FieldsOK, QueuesOK, SessionState,
       Direction, Family, LoopPCs, WorkerPCs
  <2>2. Init => StateInv /\ WorkerInv /\ StopInv
    BY DEF Init, StateInv, IsActive, WorkerInv, Binding, Uplinking, Downlinking,
       StopInv
  <2>3. Init => QuietInv /\ PortInv
    BY DEF Init, QuietInv, PortInv, IsTerminal
  <2>4. QED
    BY <2>1, <2>2, <2>3
<1>2. Inv /\ [PromptNext]_vars => Inv'
  <2> SUFFICES ASSUME Inv, [PromptNext]_vars PROVE Inv'
    OBVIOUS
  <2>1. [Next]_vars
    BY DEF PromptNext
  <2>2. TypeOK' /\ StateInv'
    BY <2>1, FieldsStep, QueuesStep, StateInvStep DEF TypeOK
  <2>3. QED
    BY <2>1, <2>2, WorkerStepInv, StopStepInv, QuietStep, PortStep
<1>3. Inv => PortFreeAtRelease
  BY DEF PortInv, PortFreeAtRelease
<1>4. QED
  BY <1>1, <1>2, <1>3, PTL DEF PromptSpec

=============================================================================
