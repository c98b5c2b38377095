------------------------ MODULE ControlTimingProofs -------------------------
(***************************************************************************)
(* The bounds of module ControlTiming for all timeouts and durations.       *)
(***************************************************************************)
EXTENDS ControlTiming, SequenceTheorems, TLAPS

R == ControlReadTimeout
W == ControlWriteTimeout
G == Grace

-----------------------------------------------------------------------------
(***************************************************************************)
(* The client's waits, one after the other: each is entered within the sum  *)
(* of those before it, and time does not pass its end.                      *)
(***************************************************************************)
LatestEnd == IF dir = "uplink" THEN 2 * R + Settle + G + dur ELSE 3 * R + G

Clock == now \in Nat /\ dur \in Nat /\ dir \in {"uplink", "downlink"}

ClientPCs == Waits \cup Pauses \cup Closed \cup {"hello", "vanished"}

ClientInv ==
    /\ cpc \in ClientPCs /\ cdue \in Nat
    /\ cpc = "hello" => now = 0
    /\ cpc = "ready" => now <= cdue /\ cdue <= R
    /\ cpc = "settling" => dir = "uplink" /\ now <= cdue /\ cdue <= R + Settle
    /\ cpc = "sending" => dir = "uplink" /\ now <= cdue /\ cdue <= R + Settle + G + dur
    /\ cpc = "complete" => dir = "downlink" /\ now <= cdue /\ cdue <= 2 * R
    /\ cpc = "counting" => dir = "downlink" /\ now <= cdue /\ cdue <= 2 * R + G
    /\ cpc = "result" => now <= cdue /\ cdue <= LatestEnd
    /\ cpc = "leaving" =>
           now <= cdue /\ cdue <= LatestEnd + (IF dir = "uplink" THEN G ELSE 0)

(* Time does not run backwards and the test stays the same one. *)
LEMMA ClockInvariant == Spec => []Clock
<1>1. Init => Clock
  BY TimingAssumption DEF Init, Clock
<1>2. Clock /\ [Next]_vars => Clock'
  <2> SUFFICES ASSUME Clock, [Next]_vars PROVE Clock'
    OBVIOUS
  <2>1. CASE Client
    BY <2>1 DEF Clock, Client, Hello, Ready, StartUplink, StartDownlink, SendComplete,
       Complete, FetchResult, Succeed, Leave, Fail
  <2>2. CASE Server
    BY <2>2 DEF Clock, Server, HandleHello, HandlePrepare, HandleStart,
       HandleSendComplete, HandleFetchResult, ReadRequest, SenderDone, ReadTimeout
  <2>3. CASE Tick
    BY <2>3 DEF Clock, Tick
  <2>4. CASE Vanish \/ Stall
    BY <2>4 DEF Clock, Vanish, Stall
  <2>5. CASE Terminated \/ UNCHANGED vars
    BY <2>5 DEF Clock, Terminated, vars
  <2> QED BY <2>1, <2>2, <2>3, <2>4, <2>5 DEF Next
<1> QED BY <1>1, <1>2, PTL DEF Spec

(* Each step of the client, of the server and of time keeps the waits. *)
LEMMA ClientStep ==
    ASSUME Clock, ClientInv, [Next]_vars
    PROVE  ClientInv'
<1> USE TimingAssumption DEF R, W, G, Clock, LatestEnd, ClientPCs, Waits, Pauses, Closed
<1>1. CASE Hello
  BY <1>1 DEF ClientInv, Hello, Await
<1>2. CASE Ready \/ StartUplink \/ StartDownlink
  BY <1>2 DEF ClientInv, Ready, StartUplink, StartDownlink, Await, Pause, Rested
<1>3. CASE SendComplete \/ Complete
  BY <1>3 DEF ClientInv, SendComplete, Complete, Await, Pause, Rested
<1>4. CASE FetchResult
  BY <1>4 DEF ClientInv, FetchResult, Await, Rested
<1>5. CASE Succeed \/ Leave \/ Fail \/ Vanish
  BY <1>5 DEF ClientInv, Succeed, Leave, Fail, Vanish, Pause, Rested
<1>6. CASE Server
  BY <1>6 DEF ClientInv, client, Server, HandleHello, HandlePrepare, HandleStart,
     HandleSendComplete, HandleFetchResult, ReadRequest, SenderDone, ReadTimeout
<1>7. CASE Stall
  BY <1>7 DEF ClientInv, client, Stall
<1>8. CASE Tick
  BY <1>8 DEF ClientInv, client, Tick, ClientIdle
<1>9. CASE Terminated \/ UNCHANGED vars
  BY <1>9 DEF ClientInv, Terminated, vars
<1> QED BY <1>1, <1>2, <1>3, <1>4, <1>5, <1>6, <1>7, <1>8, <1>9 DEF Next, Client

(* Whatever the server does or does not do (it may halt at any step), a      *)
(* client of client.go has its answer or its error within the sum of its     *)
(* read deadlines and its sending.                                           *)
THEOREM ClientReturns == Spec => []ClientBounded
<1>1. Init => ClientInv
  BY TimingAssumption DEF Init, ClientInv, ClientPCs, R
<1>2. Clock /\ ClientInv /\ [Next]_vars => ClientInv'
  BY ClientStep
<1>3. Clock /\ ClientInv => ClientBounded
  BY TimingAssumption DEF Clock, ClientInv, ClientBounded, ClientPCs, Waits, Pauses,
     Closed, LatestEnd, R, G
<1> QED BY <1>1, <1>2, <1>3, ClockInvariant, PTL DEF Spec

-----------------------------------------------------------------------------
(* The read deadline is always the one set after the last request. *)
SessionInv ==
    /\ heard \in Nat
    /\ spc = "reading" => rdl = heard + R /\ now <= rdl

(* Each step keeps the read deadline at one timeout after the last request. *)
LEMMA SessionStep ==
    ASSUME Clock, SessionInv, [Next]_vars
    PROVE  SessionInv'
<1> USE TimingAssumption DEF R, Clock, SessionInv
<1>1. CASE Client
  BY <1>1 DEF server, Client, Hello, Ready, StartUplink, StartDownlink, SendComplete,
       Complete, FetchResult, Succeed, Leave, Fail
<1>2. CASE HandleHello \/ HandleStart \/ HandleSendComplete
  BY <1>2 DEF HandleHello, HandleStart, HandleSendComplete, ReadRequest, NextTurn
<1>3. CASE HandlePrepare \/ HandleFetchResult
  BY <1>3 DEF HandlePrepare, HandleFetchResult, ReadRequest, NextTurn, Return
<1>4. CASE SenderDone \/ ReadTimeout \/ Stall
  BY <1>4 DEF SenderDone, ReadTimeout, Return, Stall
<1>5. CASE Vanish
  BY <1>5 DEF server, Vanish
<1>6. CASE Tick
  BY <1>6 DEF server, Tick, ServerIdle
<1>7. CASE Terminated \/ UNCHANGED vars
  BY <1>7 DEF Terminated, vars
<1> QED BY <1>1, <1>2, <1>3, <1>4, <1>5, <1>6, <1>7 DEF Next, Server

(* However its client falls silent, a session ends at the latest one read    *)
(* timeout after the last request (the loop of handleMessages).              *)
THEOREM SilentSessionEnds == Spec => []SessionBounded
<1>1. Init => SessionInv
  BY TimingAssumption DEF Init, SessionInv, R
<1>2. Clock /\ SessionInv /\ [Next]_vars => SessionInv'
  BY SessionStep
<1>3. Clock /\ SessionInv => SessionBounded
  BY TimingAssumption DEF Clock, SessionInv, SessionBounded, R
<1> QED BY <1>1, <1>2, <1>3, ClockInvariant, PTL DEF Spec

-----------------------------------------------------------------------------
(***************************************************************************)
(* The course of a short test, phase by phase.  An uplink test starts at     *)
(* Settle and is over at UplinkEnd, a downlink test starts at 0 and is over   *)
(* Grace after its sender is through; a phase says what is in the connection  *)
(* and which deadlines are in force.                                         *)
(***************************************************************************)
(* What the queues hold in the phases. *)
AllQ      == <<"start", "send_complete", "fetch_result">>
HelloQ    == <<"hello", "prepare">>
CompleteQ == <<"send_complete", "fetch_result">>
PrepareQ  == <<"prepare">>
StartQ    == <<"start">>
FetchQ    == <<"fetch_result">>
SentQ     == <<"send_complete">>
ReadyQ    == <<"ready">>
ResultQ   == <<"result">>

Live == spc = "reading" /\ now < rdl /\ now < wdl

Asking ==
    /\ now = 0 /\ Live /\ wdue = -1 /\ rdl = R /\ wdl = W
    /\ \/ cpc = "hello" /\ in = <<>> /\ out = <<>> /\ state = "preparing"
       \/ /\ cpc = "ready" /\ cdue = R
          /\ \/ /\ in = HelloQ \/ in = PrepareQ
                /\ out = <<>> /\ state = "preparing"
             \/ in = <<>> /\ out = ReadyQ /\ state = "ready"

Settling ==
    /\ dir = "uplink" /\ cpc = "settling" /\ cdue = Settle /\ now <= Settle
    /\ spc = "reading" /\ wdue = -1 /\ rdl = R
    /\ in = <<>> /\ out = <<>> /\ state = "ready"

UplinkEnd == Settle + G + dur

StartingUplink ==
    /\ dir = "uplink" /\ now = Settle
    /\ spc = "reading" /\ wdue = -1 /\ rdl = R
    /\ out = <<>> /\ state = "ready"
    /\ \/ cpc = "sending" /\ cdue = UplinkEnd /\ in = StartQ
       \/ cpc = "result" /\ cdue = now + R /\ in = AllQ

StartingDownlink ==
    /\ dir = "downlink" /\ now = 0 /\ Live /\ wdue = -1 /\ rdl = R /\ wdl = W
    /\ out = <<>> /\ state = "ready"
    /\ cpc = "complete" /\ cdue = R /\ in = StartQ

Starting == Settling \/ StartingUplink \/ StartingDownlink

Uplinking ==
    /\ dir = "uplink" /\ spc = "reading" /\ now <= UplinkEnd /\ rdl = Settle + R
    /\ wdue = -1 /\ out = <<>> /\ state = "running"
    /\ \/ cpc = "sending" /\ cdue = UplinkEnd /\ in = <<>>
       \/ /\ cpc = "result" /\ cdue = now + R
          /\ in = CompleteQ

Downlinking ==
    /\ dir = "downlink" /\ spc = "reading" /\ rdl = R /\ wdl = W /\ in = <<>>
    /\ \/ /\ cpc = "complete" /\ cdue = R /\ now <= dur
          /\ \/ state = "running" /\ wdue = dur /\ out = <<>>
             \/ state = "collecting" /\ wdue = -1 /\ out = SentQ
       \/ /\ cpc = "counting" /\ now <= cdue /\ cdue \in Nat /\ cdue <= dur + G
          /\ state = "collecting" /\ wdue = -1 /\ out = <<>>

Collecting ==
    /\ cpc = "result" /\ cdue = now + R /\ wdue = -1
    /\ \/ /\ Live /\ in = FetchQ /\ out = <<>> /\ state = "collecting"
       \/ spc = "ended" /\ in = <<>> /\ out = ResultQ /\ state = "completed"

ShortInv ==
    dur + G < Limit =>
        \/ cpc \in {"vanished", "leaving", "ok"} \/ spc = "stalled"
        \/ Asking \/ Starting \/ Uplinking \/ Downlinking \/ Collecting

(* Reading and writing these queues. *)
LEMMA Queues ==
    /\ Head(HelloQ) = "hello" /\ Tail(HelloQ) = PrepareQ
    /\ Head(PrepareQ) = "prepare" /\ Tail(PrepareQ) = <<>>
    /\ Head(StartQ) = "start" /\ Tail(StartQ) = <<>>
    /\ Head(AllQ) = "start" /\ Tail(AllQ) = CompleteQ
    /\ Head(CompleteQ) = "send_complete" /\ Tail(CompleteQ) = FetchQ
    /\ Head(FetchQ) = "fetch_result" /\ Tail(FetchQ) = <<>>
    /\ Head(SentQ) = "send_complete" /\ Tail(SentQ) = <<>>
    /\ Head(ReadyQ) = "ready" /\ Tail(ReadyQ) = <<>>
    /\ Head(ResultQ) = "result"
    /\ Append(<<>>, "ready") = ReadyQ /\ Append(<<>>, "result") = ResultQ
    /\ Append(<<>>, "send_complete") = SentQ
    /\ <<>> \o <<"hello", "prepare">> = HelloQ
    /\ <<>> \o <<"start">> = StartQ
    /\ <<>> \o <<"fetch_result">> = FetchQ
    /\ <<>> \o <<"send_complete", "fetch_result">> = CompleteQ
    /\ StartQ \o <<"send_complete", "fetch_result">> = AllQ
    /\ HelloQ # <<>> /\ PrepareQ # <<>> /\ StartQ # <<>> /\ AllQ # <<>>
    /\ CompleteQ # <<>> /\ FetchQ # <<>>
    /\ SentQ # <<>> /\ ReadyQ # <<>> /\ ResultQ # <<>>
<1>1. Head(HelloQ) = "hello" /\ Tail(HelloQ) = PrepareQ
  BY DEF HelloQ, PrepareQ
<1>2. Head(PrepareQ) = "prepare" /\ Tail(PrepareQ) = <<>>
  BY DEF PrepareQ
<1>3. Head(StartQ) = "start" /\ Tail(StartQ) = <<>>
  BY DEF StartQ
<1>4. Head(AllQ) = "start" /\ Tail(AllQ) = CompleteQ
  BY DEF AllQ, CompleteQ
<1>5. Head(CompleteQ) = "send_complete" /\ Tail(CompleteQ) = FetchQ
  BY DEF CompleteQ, FetchQ
<1>6. Head(FetchQ) = "fetch_result" /\ Tail(FetchQ) = <<>>
  BY DEF FetchQ
<1>7. Head(SentQ) = "send_complete" /\ Tail(SentQ) = <<>>
  BY DEF SentQ
<1>8. Head(ReadyQ) = "ready" /\ Tail(ReadyQ) = <<>>
  BY DEF ReadyQ
<1>9. Head(ResultQ) = "result"
  BY DEF ResultQ
<1>10. Append(<<>>, "ready") = ReadyQ /\ Append(<<>>, "result") = ResultQ
  BY DEF ReadyQ, ResultQ
<1>11. Append(<<>>, "send_complete") = SentQ
  BY DEF SentQ
<1>12. <<>> \o <<"hello", "prepare">> = HelloQ
  BY DEF HelloQ
<1>13. <<>> \o <<"start">> = StartQ
  BY DEF StartQ
<1>14. <<>> \o <<"fetch_result">> = FetchQ
  BY DEF FetchQ
<1>15. <<>> \o <<"send_complete", "fetch_result">> = CompleteQ
  BY DEF CompleteQ
<1>16. StartQ \o <<"send_complete", "fetch_result">> = AllQ
  <2> DEFINE s == <<"start">> \o <<"send_complete", "fetch_result">>
             t == <<"start", "send_complete", "fetch_result">>
             S == {"start", "send_complete", "fetch_result"}
  <2>1. s \in Seq(S) /\ t \in Seq(S)
    <3>1. <<"start">> \in Seq(S)
      OBVIOUS
    <3>2. <<"send_complete", "fetch_result">> \in Seq(S)
      OBVIOUS
    <3>3. t \in Seq(S)
      OBVIOUS
    <3> QED BY <3>1, <3>2, <3>3, ConcatProperties
  <2>2. Len(s) = 3 /\ s[1] = "start" /\ s[2] = "send_complete" /\ s[3] = "fetch_result"
    OBVIOUS
  <2>3. Len(t) = 3 /\ t[1] = "start" /\ t[2] = "send_complete" /\ t[3] = "fetch_result"
    OBVIOUS
  <2>4. s = t
    <3> HIDE DEF s, t
    <3>1. \A j \in 1 .. Len(s) : s[j] = t[j]
      BY <2>2, <2>3
    <3> QED BY <2>1, <2>2, <2>3, <3>1, SeqEqual
  <2> QED BY <2>4 DEF StartQ, AllQ
<1>17. HelloQ # <<>> /\ PrepareQ # <<>> /\ StartQ # <<>> /\ AllQ # <<>>
  BY DEF AllQ, HelloQ, PrepareQ, StartQ
<1>18. CompleteQ # <<>> /\ FetchQ # <<>>
  BY DEF CompleteQ, FetchQ
<1>19. SentQ # <<>> /\ ReadyQ # <<>> /\ ResultQ # <<>>
  BY DEF SentQ, ReadyQ, ResultQ
<1> QED BY <1>1, <1>2, <1>3, <1>4, <1>5, <1>6, <1>7, <1>8, <1>9, <1>10, <1>11, <1>12, <1>13, <1>14, <1>15, <1>16, <1>17, <1>18, <1>19

(* Each step keeps client, queues and server in one of the phases above. *)
LEMMA ShortStep ==
    ASSUME Clock, ShortInv, [Next]_vars
    PROVE  ShortInv'
<1> SUFFICES ASSUME dur + G < Limit, dur' = dur, dir' = dir
             PROVE  ShortInv'
  <2>1. dur' = dur /\ dir' = dir
    BY DEF Next, vars, Client, Server, Hello, Ready, StartUplink, StartDownlink,
       SendComplete, Complete, FetchResult, Succeed, Leave, Fail, Vanish, HandleHello, HandlePrepare, HandleStart,
       HandleSendComplete, HandleFetchResult, ReadRequest, SenderDone, ReadTimeout,
       Stall, Tick, Terminated
  <2> QED BY <2>1 DEF ShortInv, Limit
<1> USE TimingAssumption, Queues DEF Clock, R, W, G, Limit, UplinkEnd
<1>0. CASE cpc \in {"vanished", "leaving", "ok"}
  BY <1>0 DEF ShortInv, Next, vars, Client, Server, Hello, Ready, StartUplink,
     StartDownlink, SendComplete, Complete, FetchResult, Succeed, Leave, Fail, Pause, Rested, Vanish, HandleHello, HandlePrepare,
     HandleStart, HandleSendComplete, HandleFetchResult, ReadRequest, SenderDone,
     ReadTimeout, Stall, Tick, Terminated, client, Waits, Closed
<1>1. CASE Asking
  <2> USE <1>1 DEF ShortInv, Live, Asking, Starting, Settling, StartingDownlink
  <2>1. CASE Client
    <3>1. CASE Hello
      BY <3>1 DEF Hello, Await, Write, server
    <3>2. CASE Ready
      BY <3>2 DEF Ready, Receive, Pause, server
    <3>3. CASE StartUplink
      BY <3>3 DEF StartUplink, Rested, Write, Pause, server
    <3>4. CASE StartDownlink
      BY <3>4 DEF StartDownlink, Receive, Await, Write, server
    <3>5. CASE SendComplete
      BY <3>5 DEF SendComplete, Rested, Await, Write, server
    <3>6. CASE Complete
      BY <3>6 DEF Complete, Receive, Pause, server
    <3>7. CASE FetchResult
      BY <3>7 DEF FetchResult, Rested, Await, Write, server
    <3>8. CASE Succeed
      BY <3>8 DEF Succeed, Receive, Pause
    <3>9. CASE Leave
      BY <3>9 DEF Leave, Rested
    <3>10. CASE Fail
      BY <3>10 DEF Fail, Waits
    <3> QED BY <2>1, <3>1, <3>2, <3>3, <3>4, <3>5,
               <3>6, <3>7, <3>8, <3>9, <3>10 DEF Client
  <2>2. CASE HandleHello \/ HandlePrepare \/ HandleStart
    <3>1. CASE HandleHello
      BY <3>1 DEF HandleHello, ReadRequest, NextTurn, client
    <3>2. CASE HandlePrepare
      BY <3>2 DEF HandlePrepare, ReadRequest, Reply, InTime, NextTurn, client
    <3>3. CASE HandleStart
      BY <3>3 DEF HandleStart, ReadRequest, NextTurn, client
    <3> QED BY <2>2, <3>1, <3>2, <3>3
  <2>3. CASE HandleSendComplete \/ HandleFetchResult
    BY <2>3 DEF HandleSendComplete, HandleFetchResult, ReadRequest, Reply, InTime,
       NextTurn, Return, client
  <2>4. CASE SenderDone \/ ReadTimeout
    BY <2>4 DEF SenderDone, ReadTimeout, Return, Reply, InTime, Closed, client
  <2>5. CASE Tick
    BY <2>5 DEF Tick, ClientIdle, ServerIdle, Closed, Waits, Pauses, client, server
  <2>6. CASE Vanish \/ Stall
    BY <2>6 DEF Vanish, Stall
  <2>7. CASE Terminated \/ UNCHANGED vars
    BY <2>7 DEF Terminated, vars
  <2> QED BY <2>1, <2>2, <2>3, <2>4, <2>5, <2>6, <2>7 DEF Next, Server
<1>2. CASE Settling
  <2> USE <1>2 DEF ShortInv, Live, Starting, Settling, StartingUplink
  <2>1. CASE Client
    <3>1. CASE Hello
      BY <3>1 DEF Hello, Await, Write, server
    <3>2. CASE Ready
      BY <3>2 DEF Ready, Receive, Pause, server
    <3>3. CASE StartUplink
      BY <3>3 DEF StartUplink, Rested, Write, Pause, server
    <3>4. CASE StartDownlink
      BY <3>4 DEF StartDownlink, Receive, Await, Write, server
    <3>5. CASE SendComplete
      BY <3>5 DEF SendComplete, Rested, Await, Write, server
    <3>6. CASE Complete
      BY <3>6 DEF Complete, Receive, Pause, server
    <3>7. CASE FetchResult
      BY <3>7 DEF FetchResult, Rested, Await, Write, server
    <3>8. CASE Succeed
      BY <3>8 DEF Succeed, Receive, Pause
    <3>9. CASE Leave
      BY <3>9 DEF Leave, Rested
    <3>10. CASE Fail
      BY <3>10 DEF Fail, Waits
    <3> QED BY <2>1, <3>1, <3>2, <3>3, <3>4, <3>5,
               <3>6, <3>7, <3>8, <3>9, <3>10 DEF Client
  <2>2. CASE HandleHello \/ HandlePrepare \/ HandleStart
    BY <2>2 DEF HandleHello, HandlePrepare, HandleStart, ReadRequest, Reply, InTime,
       NextTurn, Return, client
  <2>3. CASE HandleSendComplete \/ HandleFetchResult
    BY <2>3 DEF HandleSendComplete, HandleFetchResult, ReadRequest, Reply, InTime,
       NextTurn, Return, client
  <2>4. CASE SenderDone \/ ReadTimeout
    BY <2>4 DEF SenderDone, ReadTimeout, Return, Reply, InTime, Closed, client
  <2>5. CASE Tick
    BY <2>5 DEF Tick, ClientIdle, ServerIdle, Closed, Waits, Pauses, client, server
  <2>6. CASE Vanish \/ Stall
    BY <2>6 DEF Vanish, Stall
  <2>7. CASE Terminated \/ UNCHANGED vars
    BY <2>7 DEF Terminated, vars
  <2> QED BY <2>1, <2>2, <2>3, <2>4, <2>5, <2>6, <2>7 DEF Next, Server
<1>3. CASE StartingUplink
  <2> USE <1>3 DEF ShortInv, Live, Starting, StartingUplink, Uplinking
  <2>1. CASE Client
    <3>1. CASE Hello
      BY <3>1 DEF Hello, Await, Write, server
    <3>2. CASE Ready
      BY <3>2 DEF Ready, Receive, Pause, server
    <3>3. CASE StartUplink
      BY <3>3 DEF StartUplink, Rested, Write, Pause, server
    <3>4. CASE StartDownlink
      BY <3>4 DEF StartDownlink, Receive, Await, Write, server
    <3>5. CASE SendComplete
      BY <3>5 DEF SendComplete, Rested, Await, Write, server
    <3>6. CASE Complete
      BY <3>6 DEF Complete, Receive, Pause, server
    <3>7. CASE FetchResult
      BY <3>7 DEF FetchResult, Rested, Await, Write, server
    <3>8. CASE Succeed
      BY <3>8 DEF Succeed, Receive, Pause
    <3>9. CASE Leave
      BY <3>9 DEF Leave, Rested
    <3>10. CASE Fail
      BY <3>10 DEF Fail, Waits
    <3> QED BY <2>1, <3>1, <3>2, <3>3, <3>4, <3>5,
               <3>6, <3>7, <3>8, <3>9, <3>10 DEF Client
  <2>2. CASE HandleHello \/ HandlePrepare \/ HandleStart
    <3>1. CASE HandleHello
      BY <3>1 DEF HandleHello, ReadRequest, NextTurn, client
    <3>2. CASE HandlePrepare
      BY <3>2 DEF HandlePrepare, ReadRequest, Reply, InTime, NextTurn, client
    <3>3. CASE HandleStart
      <4>1. /\ state' = "running" /\ out' = out /\ now' = now /\ cpc' = cpc
            /\ cdue' = cdue /\ in' = Tail(in) /\ spc' = "reading"
            /\ rdl' = Settle + R /\ wdue' = wdue
        BY <3>3 DEF HandleStart, ReadRequest, NextTurn, client
      <4>2. CASE in = AllQ
        BY <4>1, <4>2
      <4>3. CASE in = StartQ
        BY <4>1, <4>3
      <4> QED BY <4>2, <4>3
    <3> QED BY <2>2, <3>1, <3>2, <3>3
  <2>3. CASE HandleSendComplete \/ HandleFetchResult
    BY <2>3 DEF HandleSendComplete, HandleFetchResult, ReadRequest, Reply, InTime,
       NextTurn, Return, client
  <2>4. CASE SenderDone \/ ReadTimeout
    BY <2>4 DEF SenderDone, ReadTimeout, Return, Reply, InTime, Closed, client
  <2>5. CASE Tick
    BY <2>5 DEF Tick, ClientIdle, ServerIdle, Closed, Waits, Pauses, client, server
  <2>6. CASE Vanish \/ Stall
    BY <2>6 DEF Vanish, Stall
  <2>7. CASE Terminated \/ UNCHANGED vars
    BY <2>7 DEF Terminated, vars
  <2> QED BY <2>1, <2>2, <2>3, <2>4, <2>5, <2>6, <2>7 DEF Next, Server
<1>4. CASE StartingDownlink
  <2> USE <1>4 DEF ShortInv, Live, Starting, StartingDownlink, Downlinking
  <2>1. CASE Client
    <3>1. CASE Hello
      BY <3>1 DEF Hello, Await, Write, server
    <3>2. CASE Ready
      BY <3>2 DEF Ready, Receive, Pause, server
    <3>3. CASE StartUplink
      BY <3>3 DEF StartUplink, Rested, Write, Pause, server
    <3>4. CASE StartDownlink
      BY <3>4 DEF StartDownlink, Receive, Await, Write, server
    <3>5. CASE SendComplete
      BY <3>5 DEF SendComplete, Rested, Await, Write, server
    <3>6. CASE Complete
      BY <3>6 DEF Complete, Receive, Pause, server
    <3>7. CASE FetchResult
      BY <3>7 DEF FetchResult, Rested, Await, Write, server
    <3>8. CASE Succeed
      BY <3>8 DEF Succeed, Receive, Pause
    <3>9. CASE Leave
      BY <3>9 DEF Leave, Rested
    <3>10. CASE Fail
      BY <3>10 DEF Fail, Waits
    <3> QED BY <2>1, <3>1, <3>2, <3>3, <3>4, <3>5,
               <3>6, <3>7, <3>8, <3>9, <3>10 DEF Client
  <2>2. CASE HandleHello \/ HandlePrepare \/ HandleStart
    <3>1. CASE HandleHello
      BY <3>1 DEF HandleHello, ReadRequest, NextTurn, client
    <3>2. CASE HandlePrepare
      BY <3>2 DEF HandlePrepare, ReadRequest, Reply, InTime, NextTurn, client
    <3>3. CASE HandleStart
      BY <3>3 DEF HandleStart, ReadRequest, NextTurn, client
    <3> QED BY <2>2, <3>1, <3>2, <3>3
  <2>3. CASE HandleSendComplete \/ HandleFetchResult
    BY <2>3 DEF HandleSendComplete, HandleFetchResult, ReadRequest, Reply, InTime,
       NextTurn, Return, client
  <2>4. CASE SenderDone \/ ReadTimeout
    BY <2>4 DEF SenderDone, ReadTimeout, Return, Reply, InTime, Closed, client
  <2>5. CASE Tick
    BY <2>5 DEF Tick, ClientIdle, ServerIdle, Closed, Waits, Pauses, client, server
  <2>6. CASE Vanish \/ Stall
    BY <2>6 DEF Vanish, Stall
  <2>7. CASE Terminated \/ UNCHANGED vars
    BY <2>7 DEF Terminated, vars
  <2> QED BY <2>1, <2>2, <2>3, <2>4, <2>5, <2>6, <2>7 DEF Next, Server
<1>5. CASE Uplinking
  <2> USE <1>5 DEF ShortInv, Live, Uplinking, Collecting
  <2>1. CASE Client
    <3>1. CASE Hello
      BY <3>1 DEF Hello, Await, Write, server
    <3>2. CASE Ready
      BY <3>2 DEF Ready, Receive, Pause, server
    <3>3. CASE StartUplink
      BY <3>3 DEF StartUplink, Rested, Write, Pause, server
    <3>4. CASE StartDownlink
      BY <3>4 DEF StartDownlink, Receive, Await, Write, server
    <3>5. CASE SendComplete
      BY <3>5 DEF SendComplete, Rested, Await, Write, server
    <3>6. CASE Complete
      BY <3>6 DEF Complete, Receive, Pause, server
    <3>7. CASE FetchResult
      BY <3>7 DEF FetchResult, Rested, Await, Write, server
    <3>8. CASE Succeed
      BY <3>8 DEF Succeed, Receive, Pause
    <3>9. CASE Leave
      BY <3>9 DEF Leave, Rested
    <3>10. CASE Fail
      BY <3>10 DEF Fail, Waits
    <3> QED BY <2>1, <3>1, <3>2, <3>3, <3>4, <3>5,
               <3>6, <3>7, <3>8, <3>9, <3>10 DEF Client
  <2>2. CASE HandleHello \/ HandlePrepare \/ HandleStart
    BY <2>2 DEF HandleHello, HandlePrepare, HandleStart, ReadRequest, Reply, InTime,
       NextTurn, Return, client
  <2>3. CASE HandleSendComplete \/ HandleFetchResult
    <3>1. CASE HandleSendComplete
      BY <3>1 DEF HandleSendComplete, ReadRequest, NextTurn, client
    <3>2. CASE HandleFetchResult
      BY <3>2 DEF HandleFetchResult, ReadRequest
    <3> QED BY <2>3, <3>1, <3>2
  <2>4. CASE SenderDone \/ ReadTimeout
    BY <2>4 DEF SenderDone, ReadTimeout, Return, Reply, InTime, Closed, client
  <2>5. CASE Tick
    BY <2>5 DEF Tick, ClientIdle, ServerIdle, Closed, Waits, Pauses, client, server
  <2>6. CASE Vanish \/ Stall
    BY <2>6 DEF Vanish, Stall
  <2>7. CASE Terminated \/ UNCHANGED vars
    BY <2>7 DEF Terminated, vars
  <2> QED BY <2>1, <2>2, <2>3, <2>4, <2>5, <2>6, <2>7 DEF Next, Server
<1>6. CASE Downlinking
  <2> USE <1>6 DEF ShortInv, Live, Downlinking, Collecting
  <2>1. CASE Client
    <3>1. CASE Hello
      BY <3>1 DEF Hello, Await, Write, server
    <3>2. CASE Ready
      BY <3>2 DEF Ready, Receive, Pause, server
    <3>3. CASE StartUplink
      BY <3>3 DEF StartUplink, Rested, Write, Pause, server
    <3>4. CASE StartDownlink
      BY <3>4 DEF StartDownlink, Receive, Await, Write, server
    <3>5. CASE SendComplete
      BY <3>5 DEF SendComplete, Rested, Await, Write, server
    <3>6. CASE Complete
      BY <3>6 DEF Complete, Receive, Pause, server
    <3>7. CASE FetchResult
      BY <3>7 DEF FetchResult, Rested, Await, Write, server
    <3>8. CASE Succeed
      BY <3>8 DEF Succeed, Receive, Pause
    <3>9. CASE Leave
      BY <3>9 DEF Leave, Rested
    <3>10. CASE Fail
      BY <3>10 DEF Fail, Waits
    <3> QED BY <2>1, <3>1, <3>2, <3>3, <3>4, <3>5,
               <3>6, <3>7, <3>8, <3>9, <3>10 DEF Client
  <2>2. CASE HandleHello \/ HandlePrepare \/ HandleStart
    BY <2>2 DEF HandleHello, HandlePrepare, HandleStart, ReadRequest, Reply, InTime,
       NextTurn, Return, client
  <2>3. CASE HandleSendComplete \/ HandleFetchResult
    BY <2>3 DEF HandleSendComplete, HandleFetchResult, ReadRequest, Reply, InTime,
       NextTurn, Return, client
  <2>4. CASE SenderDone \/ ReadTimeout
    <3>1. CASE SenderDone
      BY <3>1 DEF SenderDone, Reply, InTime, client
    <3>2. CASE ReadTimeout
      BY <3>2 DEF ReadTimeout, Closed
    <3> QED BY <2>4, <3>1, <3>2
  <2>5. CASE Tick
    BY <2>5 DEF Tick, ClientIdle, ServerIdle, Closed, Waits, Pauses, client, server
  <2>6. CASE Vanish \/ Stall
    BY <2>6 DEF Vanish, Stall
  <2>7. CASE Terminated \/ UNCHANGED vars
    BY <2>7 DEF Terminated, vars
  <2> QED BY <2>1, <2>2, <2>3, <2>4, <2>5, <2>6, <2>7 DEF Next, Server
<1>7. CASE Collecting
  <2> USE <1>7 DEF ShortInv, Live, Collecting
  <2>1. CASE Client
    <3>1. CASE Hello
      BY <3>1 DEF Hello, Await, Write, server
    <3>2. CASE Ready
      BY <3>2 DEF Ready, Receive, Pause, server
    <3>3. CASE StartUplink
      BY <3>3 DEF StartUplink, Rested, Write, Pause, server
    <3>4. CASE StartDownlink
      BY <3>4 DEF StartDownlink, Receive, Await, Write, server
    <3>5. CASE SendComplete
      BY <3>5 DEF SendComplete, Rested, Await, Write, server
    <3>6. CASE Complete
      BY <3>6 DEF Complete, Receive, Pause, server
    <3>7. CASE FetchResult
      BY <3>7 DEF FetchResult, Rested, Await, Write, server
    <3>8. CASE Succeed
      BY <3>8 DEF Succeed, Receive, Pause
    <3>9. CASE Leave
      BY <3>9 DEF Leave, Rested
    <3>10. CASE Fail
      BY <3>10 DEF Fail, Waits
    <3> QED BY <2>1, <3>1, <3>2, <3>3, <3>4, <3>5,
               <3>6, <3>7, <3>8, <3>9, <3>10 DEF Client
  <2>2. CASE HandleHello \/ HandlePrepare \/ HandleStart
    BY <2>2 DEF HandleHello, HandlePrepare, HandleStart, ReadRequest, Reply, InTime,
       NextTurn, Return, client
  <2>3. CASE HandleSendComplete \/ HandleFetchResult
    BY <2>3 DEF HandleSendComplete, HandleFetchResult, ReadRequest, Reply, InTime,
       NextTurn, Return, client
  <2>4. CASE SenderDone \/ ReadTimeout
    BY <2>4 DEF SenderDone, ReadTimeout, Return, Reply, InTime, Closed, client
  <2>5. CASE Tick
    BY <2>5 DEF Tick, ClientIdle, ServerIdle, Closed, Waits, Pauses, client, server
  <2>6. CASE Vanish \/ Stall
    BY <2>6 DEF Vanish, Stall
  <2>7. CASE Terminated \/ UNCHANGED vars
    BY <2>7 DEF Terminated, vars
  <2> QED BY <2>1, <2>2, <2>3, <2>4, <2>5, <2>6, <2>7 DEF Next, Server
<1>8. CASE spc = "stalled"
  BY <1>8 DEF ShortInv, Next, vars, Client, Server, Hello, Ready, StartUplink,
     StartDownlink, SendComplete, Complete, FetchResult, Succeed, Leave, Fail, Pause, Rested, Vanish, HandleHello, HandlePrepare,
     HandleStart, HandleSendComplete, HandleFetchResult, ReadRequest, SenderDone,
     ReadTimeout, Stall, Tick, Terminated, server
<1> QED BY <1>0, <1>1, <1>2, <1>3, <1>4, <1>5, <1>6, <1>7, <1>8 DEF ShortInv, Starting

(* Unless the server halts (a client that disappears has no result to lose),  *)
(* no deadline, on either side and wherever set, cuts off an uplink test      *)
(* that with the client's pause is shorter than the read timeout, or a        *)
(* downlink test that with it is shorter than the write timeout.              *)
THEOREM ShortTests == Spec => []ShortTestsSucceed
<1>1. Init => ShortInv
  BY TimingAssumption DEF Init, ShortInv, Asking, Live, R, W
<1>2. Clock /\ ShortInv /\ [Next]_vars => ShortInv'
  BY ShortStep
<1>3. Clock /\ ShortInv => ShortTestsSucceed
  BY TimingAssumption DEF Clock, ShortInv, ShortTestsSucceed, Limit, Asking, Starting,
     Settling, StartingUplink, StartingDownlink, Uplinking, Downlinking, Collecting, R, W, G
<1> QED BY <1>1, <1>2, <1>3, ClockInvariant, PTL DEF Spec

=============================================================================
