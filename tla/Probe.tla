------------------------------- MODULE Probe --------------------------------
(***************************************************************************)
(* The UDP probe engine: a Sender (internal/udp/sender.go) that writes the   *)
(* probes of one test, a Receiver (internal/udp/receiver.go) that reads what  *)
(* reaches its socket and counts what matches, and the header by which a      *)
(* probe is recognised (internal/protocol/probe_header.go).  The network may  *)
(* lose, duplicate and reorder datagrams, and the socket is open to others.   *)
(*                                                                          *)
(* A byte is a digit of base Base (256 in the code), so the widths of the     *)
(* header's fields are kept: uint16 has two digits, uint32 four.             *)
(***************************************************************************)
EXTENDS Integers, Sequences, FiniteSetsExt, SequencesExt, Slices

CONSTANTS
    Plans,        \* the tests: direction, family, size and interval asked for
    Test,         \* SessionID, TestID and UDPPort of sender and receiver
    PacketCount,
    Base,         \* 256
    TicksPerMs,   \* ticks of the clock in a millisecond
    MaxDatagram,  \* the largest datagram WriteTo accepts (65507)
    Collecting,   \* the receiver runs Collect, with a window, not Receive
    Strangers,    \* datagrams of others: a header and a length
    MaxStrangers, \* how many of them reach the socket, at most
    Copies        \* how often the network duplicates a probe or a duplicate of it

ProbeHeaderVersion == 1
ProbeHeaderSize    == 48

VARIABLES
    plan,      \* the test that is run
    spc,       \* the sender: loop, sleep, done or failed
    i,         \* its loop counter
    clock,     \* time since its start, in ticks
    written,   \* the sequence numbers written, in order
    flight,    \* the datagrams in the network and in the socket's queue
    strange,   \* how many strangers there were
    rpc,       \* the receiver: check, read, returned or error
    quit,      \* quitCh is closed
    window,    \* the window of Collect is over
    open,      \* the receiver's socket is open
    received,  \* Receiver.received
    log        \* what was read from the socket: where it came from

sender   == <<spc, i, clock, written>>
receiver == <<rpc, received, log>>
owner    == <<quit, window, open>>
vars     == <<plan, sender, flight, strange, receiver, owner>>

-----------------------------------------------------------------------------
(***************************************************************************)
(* The header.                                                              *)
(***************************************************************************)

(* Big endian: v >> 8 * k, the byte it begins with, and the number that the *)
(* w bytes from offset o stand for.  No field has more than eight bytes.    *)
ShiftRight(v, k) ==
    LET s[n \in 0 .. 8] == IF n = 0 THEN v ELSE s[n - 1] \div Base IN s[k]

Byte(v, k) == ShiftRight(v, k) % Base

Uint(data, o, w) ==
    LET u[n \in 0 .. w] == IF n = 0 THEN 0 ELSE u[n - 1] * Base + data[o + n - 1]
    IN  u[w]

MarshalBinary(h) ==
    [b \in 0 .. ProbeHeaderSize - 1 |->
        CASE b = 0          -> Byte(h.Version, 0)
          [] b \in 4 .. 7   -> Byte(h.SessionID, 7 - b)
          [] b \in 8 .. 11  -> Byte(h.TestID, 11 - b)
          [] b = 12         -> Byte(h.Direction, 0)
          [] b = 13         -> Byte(h.Family, 0)
          [] b \in 14 .. 15 -> Byte(h.UDPPort, 15 - b)
          [] b \in 16 .. 17 -> Byte(h.PayloadSize, 17 - b)
          [] b \in 18 .. 21 -> Byte(h.Sequence, 21 - b)
          [] b \in 22 .. 29 -> Byte(h.SendUnixNano, 29 - b)
          [] OTHER          -> 0]

UnmarshalBinary(data) ==
    [Version     |-> Uint(data, 0, 1),  SessionID    |-> Uint(data, 4, 4),
     TestID      |-> Uint(data, 8, 4),  Direction    |-> Uint(data, 12, 1),
     Family      |-> Uint(data, 13, 1), UDPPort      |-> Uint(data, 14, 2),
     PayloadSize |-> Uint(data, 16, 2), Sequence     |-> Uint(data, 18, 4),
     SendUnixNano |-> Uint(data, 22, 8)]

Validate(h) ==
    /\ h.Version = ProbeHeaderVersion
    /\ h.Direction \in {0, 1}
    /\ h.Family \in {0, 1}

uint16(n) == n % (Base * Base)

SetFromParams(seq) ==
    [Version |-> ProbeHeaderVersion, SessionID |-> Test.SessionID,
     TestID |-> Test.TestID, Direction |-> plan.direction, Family |-> plan.family,
     UDPPort |-> Test.UDPPort, PayloadSize |-> uint16(plan.size),
     Sequence |-> seq, SendUnixNano |-> clock]

matchesExpected(h) ==
    /\ h.SessionID = Test.SessionID
    /\ h.TestID = Test.TestID
    /\ h.Direction = plan.direction
    /\ h.Family = plan.family

(***************************************************************************)
(* What the constants stand for.                                            *)
(***************************************************************************)
Header ==
    [Version : Nat, SessionID : Nat, TestID : Nat, Direction : Nat, Family : Nat,
     UDPPort : Nat, PayloadSize : Nat, Sequence : Nat, SendUnixNano : Nat]

(* v fits into w bytes. *)
Fits(v, w) == v \in Nat /\ ShiftRight(v, w) = 0

(* A datagram is a stranger if it is no probe of a test that is run here:   *)
(* too short, no header, or another session, test, direction or family.     *)
Strange(s) ==
    /\ s.n \in Nat /\ s.header \in Header
    /\ Fits(s.header.Version, 1) /\ Fits(s.header.Direction, 1) /\ Fits(s.header.Family, 1)
    /\ Fits(s.header.SessionID, 4) /\ Fits(s.header.TestID, 4)
    /\ \/ s.n < ProbeHeaderSize
       \/ ~Validate(s.header)
       \/ s.header.SessionID # Test.SessionID
       \/ s.header.TestID # Test.TestID
       \/ \A p \in Plans : s.header.Direction # p.direction \/ s.header.Family # p.family

ASSUME ProbeAssumption ==
    /\ PacketCount \in Nat /\ Base \in Nat \ {0, 1} /\ TicksPerMs \in Nat \ {0}
    /\ MaxDatagram \in Nat /\ MaxStrangers \in Nat /\ Copies \in Nat
    /\ Plans \subseteq [direction : {0, 1}, family : {0, 1}, size : Nat, interval : Nat]
    /\ Test \in [SessionID : Nat, TestID : Nat, UDPPort : Nat]
    /\ Fits(Test.SessionID, 4) /\ Fits(Test.TestID, 4)
    /\ \A n \in 0 .. PacketCount : Fits(n, 4)
    /\ \A s \in Strangers : Strange(s)

-----------------------------------------------------------------------------
Init ==
    /\ plan \in Plans
    /\ spc = "loop" /\ i = 0 /\ clock = 0 /\ written = <<>>
    /\ flight = {} /\ strange = 0
    /\ rpc = "check" /\ received = <<>> /\ log = <<>>
    /\ quit = FALSE /\ window = FALSE /\ open = TRUE

(***************************************************************************)
(* The sender.                                                              *)
(***************************************************************************)
packetSize == ProbeHeaderSize + uint16(plan.size)

IntervalMs == plan.interval \div TicksPerMs

Datagram(from, h, n) == [from |-> from, bytes |-> MarshalBinary(h), n |-> n]

(* One turn of Send's loop: the header is made anew and the packet written. *)
WriteTo ==
    /\ spc = "loop" /\ i < PacketCount
    /\ packetSize <= MaxDatagram
    /\ flight' = flight \cup {Datagram(<<"probe", i, 1>>, SetFromParams(i), packetSize)}
    /\ written' = Append(written, i)
    /\ i' = i + 1
    /\ spc' = IF i < PacketCount - 1 THEN "sleep" ELSE "loop"
    /\ UNCHANGED <<plan, clock, strange, receiver, owner>>

(* Mutant of WriteFails: the loop goes on with the next packet. *)
WriteFailsIgnored ==
    /\ spc = "loop" /\ i < PacketCount
    /\ i' = i + 1
    /\ UNCHANGED <<plan, spc, clock, written, flight, strange, receiver, owner>>

(* Before the first packet: the target's address does not resolve, the       *)
(* socket is closed and Send fails.                                          *)
ResolveFails ==
    /\ spc = "loop" /\ i = 0
    /\ spc' = "failed"
    /\ UNCHANGED <<plan, i, clock, written, flight, strange, receiver, owner>>

(* WriteTo returns an error: the socket is closed and Send fails. *)
WriteFails ==
    /\ spc = "loop" /\ i < PacketCount
    /\ spc' = "failed"
    /\ UNCHANGED <<plan, i, clock, written, flight, strange, receiver, owner>>

Sleep ==
    /\ spc = "sleep"
    /\ clock' = clock + IntervalMs * TicksPerMs
    /\ spc' = "loop"
    /\ UNCHANGED <<plan, i, written, flight, strange, receiver, owner>>

SendReturns ==
    /\ spc = "loop" /\ i = PacketCount
    /\ spc' = "done"
    /\ UNCHANGED <<plan, i, clock, written, flight, strange, receiver, owner>>

SenderResult ==
    [Sent |-> PacketCount, SequenceStart |-> 0,
     SequenceEnd |-> IF i = 0 THEN 0 ELSE i - 1]

(***************************************************************************)
(* The network, and what the receiver's owner does.  A datagram is lost by   *)
(* never being read.                                                        *)
(***************************************************************************)
(* A probe becomes two, which may be duplicated again. *)
Copy(d, k) == [d EXCEPT !.from = <<d.from[1], d.from[2], k>>]

Duplicate ==
    /\ \E d \in flight :
         /\ d.from[1] = "probe" /\ d.from[3] < 2 ^ Copies
         /\ flight' = (flight \ {d}) \cup
                {Copy(d, 2 * d.from[3]), Copy(d, 2 * d.from[3] + 1)}
    /\ UNCHANGED <<plan, sender, strange, receiver, owner>>

StrangerSends ==
    /\ strange < MaxStrangers
    /\ strange' = strange + 1
    /\ \E s \in Strangers :
         flight' = flight \cup {Datagram(<<"stranger", strange, 1>>, s.header, s.n)}
    /\ UNCHANGED <<plan, sender, receiver, owner>>

(* quitCh is closed. *)
Quit ==
    /\ ~quit /\ quit' = TRUE
    /\ UNCHANGED <<plan, sender, flight, strange, receiver, window, open>>

(* The timer of ReceiveWindow fires. *)
WindowEnds ==
    /\ Collecting /\ ~window /\ window' = TRUE
    /\ UNCHANGED <<plan, sender, flight, strange, receiver, quit, open>>

(* Receiver.Close, which a session's end or the client's return may call    *)
(* while Receive runs.                                                      *)
Close ==
    /\ open /\ open' = FALSE
    /\ UNCHANGED <<plan, sender, flight, strange, receiver, quit, window>>

(***************************************************************************)
(* The receiver: Receive and Collect.                                       *)
(***************************************************************************)

(* The select at the head of the loop. *)
Check ==
    /\ rpc = "check"
    /\ rpc' = IF quit \/ window THEN "returned" ELSE "read"
    /\ UNCHANGED <<plan, sender, flight, strange, received, log, owner>>

(* A datagram that is too short or has no valid header is passed over. *)
ReadFrom ==
    /\ rpc = "read" /\ open
    /\ \E d \in flight :
         LET h == UnmarshalBinary(d.bytes)
         IN  /\ flight' = flight \ {d}
             /\ log' = Append(log, d.from)
             /\ received' =
                  IF d.n >= ProbeHeaderSize /\ Validate(h)
                  THEN Append(received, [seq |-> h.Sequence, header |-> h,
                                         matched |-> matchesExpected(h)])
                  ELSE received
    /\ rpc' = "check"
    /\ UNCHANGED <<plan, sender, strange, owner>>

(* Mutant of ReadTimesOut: the read is tried again at once. *)
ReadTimesOutRetries ==
    /\ rpc = "read" /\ open
    /\ UNCHANGED vars

(* The deadline of 10 ms. *)
ReadTimesOut ==
    /\ rpc = "read" /\ open
    /\ rpc' = "check"
    /\ UNCHANGED <<plan, sender, flight, strange, received, log, owner>>

ReadFails ==
    /\ rpc = "read" /\ ~open
    /\ rpc' = "error"
    /\ UNCHANGED <<plan, sender, flight, strange, received, log, owner>>

(* The loop over the sequence numbers, for the least and for the greatest. *)
minSeq(seqs) ==
    LET m[k \in 1 .. Len(seqs)] ==
            IF k = 1 THEN seqs[1] ELSE IF seqs[k] < m[k - 1] THEN seqs[k] ELSE m[k - 1]
    IN  m[Len(seqs)]

maxSeq(seqs) ==
    LET m[k \in 1 .. Len(seqs)] ==
            IF k = 1 THEN seqs[1] ELSE IF seqs[k] > m[k - 1] THEN seqs[k] ELSE m[k - 1]
    IN  m[Len(seqs)]

(* Mutant of matchedSeqs: the numbers of all packets, matched or not. *)
allSeqs == [k \in DOMAIN received |-> received[k].seq]

matchedSeqs ==
    Selected([k \in DOMAIN received |-> received[k].seq],
             {k \in DOMAIN received : received[k].matched})

(* Receiver.Result, which may be asked for at any time. *)
Result ==
    LET seqs == matchedSeqs
        none == seqs = <<>>
    IN  [Received    |-> Len(received),
         Matched     |-> Len(seqs),
         FirstSeq    |-> IF none THEN 0 ELSE seqs[1],
         LastSeq     |-> IF none THEN 0 ELSE seqs[Len(seqs)],
         SequenceMin |-> IF none THEN 0 ELSE minSeq(seqs),
         SequenceMax |-> IF none THEN 0 ELSE maxSeq(seqs)]

-----------------------------------------------------------------------------
Sender   == ResolveFails \/ WriteTo \/ WriteFails \/ Sleep \/ SendReturns
Receiver == Check \/ ReadFrom \/ ReadTimesOut \/ ReadFails
Network  == Duplicate \/ StrangerSends
Owner    == Quit \/ WindowEnds \/ Close

(* Both have returned. *)
Terminated ==
    /\ spc \in {"done", "failed"} /\ rpc \in {"returned", "error"}
    /\ UNCHANGED vars

Next == Sender \/ Receiver \/ Network \/ Owner \/ Terminated

(* Goroutines that can run do; neither the network nor the owner need act.   *)
Spec == Init /\ [][Next]_vars /\ WF_vars(Sender) /\ WF_vars(Receiver)

-----------------------------------------------------------------------------
(***************************************************************************)
(* Properties                                                               *)
(***************************************************************************)

(* The sequence numbers of the probes read from the socket, as sent. *)
ProbesRead ==
    Selected([k \in DOMAIN log |-> log[k][2]], {k \in DOMAIN log : log[k][1] = "probe"})

(* Whenever Result is asked for, and whatever the network and other senders  *)
(* have done to the socket, Matched counts exactly the probes of this test    *)
(* that were read, and the sequence numbers it reports are those of the       *)
(* first, the last, the least and the greatest of them.                      *)
ResultTrue ==
    LET r == Result
        s == ProbesRead
    IN  /\ r.Matched = Len(s)
        /\ Len(s) > 0 => /\ r.FirstSeq = s[1] /\ r.LastSeq = s[Len(s)]
                         /\ r.SequenceMin = Min(Range(s))
                         /\ r.SequenceMax = Max(Range(s))

(* When Send returns a result, it has written as many packets as it says,     *)
(* numbered from SequenceStart to SequenceEnd without a gap.                  *)
SentTrue ==
    spc = "done" =>
        LET r == SenderResult
        IN  /\ Len(written) = r.Sent
            /\ \A k \in DOMAIN written : written[k] = r.SequenceStart + k - 1
            /\ written # <<>> => Last(written) = r.SequenceEnd

(* A receiver whose quit channel is closed, or whose window is over, returns, *)
(* though nothing more is sent to its socket, and though much is.             *)
ReceiveEnds == (quit \/ window) ~> (rpc \in {"returned", "error"})

=============================================================================
