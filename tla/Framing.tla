------------------------------ MODULE Framing -------------------------------
(***************************************************************************)
(* The framing of control messages on one direction of a TCP connection: a  *)
(* big-endian length of four bytes, then a JSON body (readMessage and        *)
(* writeMessage of session.go, readMsg and writeMsg of client.go).  Length   *)
(* and body are written by two calls of Write, by one goroutine or by two    *)
(* (the session's loop and its downlink worker), and each is read by ONE     *)
(* call of Read, which returns what has arrived.                             *)
(*                                                                          *)
(* Bytes are digits of base Base, so that a short body already has a length  *)
(* of two digits.  A byte of a body is text: TextByte stands for the least    *)
(* such value, which in one of the first two bytes of a length makes it too    *)
(* large.                                                                      *)
(***************************************************************************)
EXTENDS Integers, Sequences, SequencesExt, FiniteSetsExt

CONSTANTS
    Links,      \* who may talk to whom, see below
    Base,       \* 256
    MaxLength,  \* 1024 * 1024
    TextByte    \* 32, the space

(***************************************************************************)
(* A link says which goroutines write (the domain of its script) and, of     *)
(* each, the lengths of the bodies it writes, in order; whether a write       *)
(* arrives as a whole, never in part; and whether the reader is tolerant,     *)
(* that is goes on after a body that does not decode: the session does, the   *)
(* client fails its test.  What the session reads has one writer.            *)
(***************************************************************************)

PrefixLength == 4

ASSUME FramingAssumption ==
    /\ Base \in Nat /\ MaxLength \in Nat /\ TextByte \in 0 .. Base - 1
    /\ TextByte * Base * Base > MaxLength
    /\ \A l \in Links :
         /\ \A w \in DOMAIN l.script : l.script[w] \in Seq(1 .. MaxLength)
         /\ l.tolerant => \E w \in DOMAIN l.script : DOMAIN l.script = {w}

VARIABLES
    link,       \* the link
    stream,     \* the bytes written and not yet read
    arrived,    \* how many of them have arrived at the reader
    cuts,       \* where a write ended, as places in stream
    next,       \* writer -> index of its current message
    half,       \* writer -> whether the length has been written, not the body
    rpc,        \* the reader: length, body or broken
    want,       \* the length it has read
    sent,       \* the messages in the order in which their bodies were written
    delivered   \* the messages that were read and decoded

vars == <<link, stream, arrived, cuts, next, half, rpc, want, sent, delivered>>

Script  == link.script
Writers == DOMAIN Script

(* byte(n >> 24), byte(n >> 16), byte(n >> 8), byte(n) *)
Shift(n) == n \div Base

Digit(n, k) ==
    CASE k = 1 -> Shift(Shift(Shift(n))) % Base
      [] k = 2 -> Shift(Shift(n)) % Base
      [] k = 3 -> Shift(n) % Base
      [] k = 4 -> n % Base

(* Each byte knows its message and its place: 1 and up in the body, 0 and    *)
(* down in the length.                                                       *)

(* Mutant of Prefix: the least significant byte first. *)
PrefixLittle(m, n) ==
    [k \in 1 .. PrefixLength |->
        [v |-> Digit(n, PrefixLength + 1 - k), of |-> <<m, k - PrefixLength>>]]

Prefix(m, n) ==
    [k \in 1 .. PrefixLength |-> [v |-> Digit(n, k), of |-> <<m, k - PrefixLength>>]]

Body(m, n) == [k \in 1 .. n |-> [v |-> TextByte, of |-> <<m, k>>]]

(* Bytes that were not read are zero. *)
Length(bytes) ==
    LET at(k) == IF k <= Len(bytes) THEN bytes[k].v ELSE 0
    IN  ((at(1) * Base + at(2)) * Base + at(3)) * Base + at(4)

(* json.Unmarshal: the text of a message, complete and with nothing else. *)
Decodes(bytes, n) ==
    /\ Len(bytes) = n
    /\ \E w \in Writers : \E k \in DOMAIN Script[w] :
           bytes = Body(<<w, k>>, Script[w][k])

-----------------------------------------------------------------------------
Init ==
    /\ link \in Links
    /\ stream = <<>> /\ arrived = 0 /\ cuts = {}
    /\ next = [w \in Writers |-> 1] /\ half = [w \in Writers |-> FALSE]
    /\ rpc = "length" /\ want = 0
    /\ sent = <<>> /\ delivered = <<>>

Write(bytes) ==
    /\ stream' = stream \o bytes
    /\ cuts' = cuts \cup {Len(stream) + Len(bytes)}

WriteLength(w) ==
    /\ next[w] <= Len(Script[w]) /\ ~half[w]
    /\ Write(Prefix(<<w, next[w]>>, Script[w][next[w]]))
    /\ half' = [half EXCEPT ![w] = TRUE]
    /\ UNCHANGED <<link, arrived, next, rpc, want, sent, delivered>>

WriteBody(w) ==
    /\ half[w]
    /\ Write(Body(<<w, next[w]>>, Script[w][next[w]]))
    /\ half' = [half EXCEPT ![w] = FALSE]
    /\ next' = [next EXCEPT ![w] = @ + 1]
    /\ sent' = Append(sent, <<w, next[w]>>)
    /\ UNCHANGED <<link, arrived, rpc, want, delivered>>

(* TCP delivers the stream in order, in pieces of any size. *)
Arrive ==
    /\ \E n \in arrived + 1 .. Len(stream) :
         /\ link.whole => n \in cuts
         /\ arrived' = n
    /\ UNCHANGED <<link, stream, cuts, next, half, rpc, want, sent, delivered>>

(* conn.Read into a buffer of n bytes returns got. *)
Read(n, got) ==
    /\ arrived > 0
    /\ got = SubSeq(stream, 1, Min({n, arrived}))
    /\ stream' = SubSeq(stream, Len(got) + 1, Len(stream))
    /\ arrived' = arrived - Len(got)
    /\ cuts' = {c - Len(got) : c \in {d \in cuts : d > Len(got)}}

Readable == {SubSeq(stream, 1, k) : k \in 1 .. arrived}

(* Mutant of ReadLength: a length out of range is skipped. *)
ReadLengthSkips ==
    /\ rpc = "length"
    /\ \E got \in Readable :
         /\ Read(PrefixLength, got)
         /\ want' = Length(got)
         /\ rpc' = IF Length(got) \in 1 .. MaxLength THEN "body" ELSE "length"
    /\ UNCHANGED <<link, next, half, sent, delivered>>

(* The count that Read returns is not looked at. *)
ReadLength ==
    /\ rpc = "length"
    /\ \E got \in Readable :
         /\ Read(PrefixLength, got)
         /\ want' = Length(got)
         /\ rpc' = IF Length(got) \in 1 .. MaxLength THEN "body" ELSE "broken"
    /\ UNCHANGED <<link, next, half, sent, delivered>>

ReadBody ==
    /\ rpc = "body"
    /\ \E got \in Readable :
         /\ Read(want, got)
         /\ IF Decodes(got, want)
            THEN /\ delivered' = Append(delivered, got[1].of[1])
                 /\ rpc' = "length"
            ELSE /\ rpc' = IF link.tolerant THEN "length" ELSE "broken"
                 /\ UNCHANGED delivered
    /\ UNCHANGED <<link, want, next, half, sent>>

(* Everything is written and read, or the reader has given up. *)
Terminated ==
    /\ \A w \in Writers : next[w] > Len(Script[w])
    /\ rpc = "broken" \/ stream = <<>>
    /\ UNCHANGED vars

Writer == \E w \in Writers : WriteLength(w) \/ WriteBody(w)
Reader == ReadLength \/ ReadBody

Next == Writer \/ Arrive \/ Reader \/ Terminated

Spec == Init /\ [][Next]_vars /\ WF_vars(Writer) /\ WF_vars(Arrive) /\ WF_vars(Reader)

-----------------------------------------------------------------------------
(***************************************************************************)
(* Properties                                                               *)
(***************************************************************************)

(* However the stream is cut into pieces and however the goroutines of the  *)
(* server interleave, what is decoded is what was written, in that order and *)
(* without a gap: a reader that has lost the frame never finds another.      *)
NothingForged == IsPrefix(delivered, sent)

(* Where every write arrives as a whole and one goroutine writes, all        *)
(* messages are read.                                                        *)
AllDelivered ==
    (link.whole /\ Cardinality(Writers) = 1) ~>
        (\A w \in Writers : Len(delivered) = Len(Script[w]))

=============================================================================
