------------------------------ MODULE FixParser ------------------------------
(***************************************************************************)
(* FixParser: the bytes of the connection, cut anywhere by recv, and the   *)
(* messages found in them by BeginString, BodyLength and the place of the  *)
(* checksum; and FixMessage::build_from_fields, whose messages it reads.   *)
(*   src/src/fix_parser.cpp, src/src/fix_message.cpp                       *)
(*                                                                         *)
(* A symbol is a piece of text the parser treats as one: a natural number  *)
(* is a number in decimal, the names below stand for the rest. Lengths     *)
(* count symbols. "8=FIX" is two symbols, so that a receive can cut it.    *)
(***************************************************************************)
EXTENDS Integers, SequencesExt

CONSTANTS
  Streams,     \* what the counterparty may send: sequences of items
  MaxBodyLen,  \* max_body_len
  Keep         \* bytes kept of a buffer without BeginString (8 in the code)

Soh   == -1    \* the separator
Eight == -2    \* "8=", also as the end of "48=" or inside a text
Fix   == -3    \* "FIX" and the rest of the BeginString
Nine  == -4    \* "9=", also as the end of "49="
Ten   == -5    \* "10="
Sum   == -6    \* the three digits of a checksum
Text  == -7    \* anything else
Symbols == Text..-1 \cup Nat

-----------------------------------------------------------------------------
(* FixMessage                                                              *)

\* 8, 9, the body, 10: the end of build_message and build_from_fields.
Frame(length, body) ==
  <<Eight, Fix, Soh, Nine, length, Soh>> \o body \o <<Ten, Sum, Soh>>

\* build_from_fields. A field is its text without the separator; 8, 9 and 10 are
\* always rebuilt.
Build(fields) ==
  LET body == FlattenSeq([i \in DOMAIN fields |->
                IF fields[i][1] \in {Eight, Nine, Ten} THEN <<>> ELSE Append(fields[i], Soh)])
  IN Frame(Len(body), body)

\* What is built, if its body is not too long for the parser.
IsFrame(bytes) ==
  LET length == Len(bytes) - 9 IN
  length \in 0..MaxBodyLen /\ bytes = Frame(length, SubSeq(bytes, 7, length + 6))

\* No BeginString, and no end of one.
IsNoise(bytes) ==
  \A i \in DOMAIN bytes : bytes[i] = Fix => i > 1 /\ bytes[i - 1] # Eight

\* Two symbols make "8=FIX", and a receive may come between them: one at least
\* must be kept.
ASSUME ParserAssumption ==
  /\ MaxBodyLen \in Nat /\ Keep \in Nat \ {0}
  /\ \A items \in Streams :
       /\ items \in Seq([kind : {"good", "noise", "bad"}, bytes : Seq(Symbols)])
       /\ \A i \in DOMAIN items :
            /\ items[i].kind = "good" => IsFrame(items[i].bytes)
            /\ items[i].kind = "noise" => IsNoise(items[i].bytes)

-----------------------------------------------------------------------------
VARIABLES
  items,       \* what the counterparty sends in this behaviour
  whole,       \* every receive ends where an item ends
  taken,       \* bytes received so far
  buffer,
  at,          \* "recv", or "drain": the caller reads messages until there is none
  delivered    \* history: the messages read

vars == <<items, whole, taken, buffer, at, delivered>>

Bytes(k) == FlattenSeq([i \in 1..k |-> items[i].bytes])
Stream == Bytes(Len(items))

\* Where `text` occurs in s.
Places(s, text) ==
  {i \in 1..(Len(s) - Len(text) + 1) : SubSeq(s, i, i + Len(text) - 1) = text}

BeginString == <<Eight, Fix>>

From(s, i) == SubSeq(s, i, Len(s))

\* "9=" at the start of a field, wherever it is.
LengthFields(s) == {i \in Places(s, <<Nine>>) : i = 1 \/ s[i - 1] = Soh}

\* parse_body_length: the first of them and its value up to the separator; the set is
\* empty if there is none or if the value is empty, no number, or too large.
BodyLength(s) ==
  LET first == Min(LengthFields(s))
  IN IF /\ LengthFields(s) # {} /\ first + 2 <= Len(s)
        /\ s[first + 1] \in 0..MaxBodyLen /\ s[first + 2] = Soh
     THEN {[length |-> s[first + 1], end |-> first + 2]}
     ELSE {}

\* append_bytes of what one recv returned.
AppendBytes(n) ==
  /\ at = "recv" /\ taken + n <= Len(Stream)
  /\ whole => \E k \in DOMAIN items : taken + n = Len(Bytes(k))
  /\ taken' = taken + n
  /\ buffer' = buffer \o SubSeq(Stream, taken + 1, taken + n)
  /\ at' = "drain"
  /\ UNCHANGED <<items, whole, delivered>>

NoMessage(rest) == buffer' = rest /\ at' = "recv" /\ UNCHANGED delivered

\* Mutant: a buffer without BeginString is dropped.
KeptTailNone(s) == <<>>

\* The end of a buffer without BeginString may be the beginning of one.
KeptTail(s) == IF Len(s) > Keep THEN From(s, Len(s) - Keep + 1) ELSE s

TrailerReceived(s, checksum) == Len(s) >= checksum + 2

\* Mutant: a rejected message takes the rest of the buffer with it.
AfterRejectedNothing(s) == <<>>

\* The buffer after a message whose checksum is not where BodyLength says.
AfterRejected(s) ==
  LET next == {i \in Places(s, BeginString) : i > 1} IN
  IF next = {} THEN <<>> ELSE From(s, Min(next))

\* Mutant: the bytes of the message stay in the buffer.
AfterMessageAll(s, end) == From(s, end)

AfterMessage(s, end) == From(s, end + 1)

\* read_next_message on a buffer that begins with "8=FIX".
ReadMessage(s) ==
  \/ BodyLength(s) = {} /\ NoMessage(s)
  \/ \E field \in BodyLength(s) :
       LET checksum == field.end + 1 + field.length
           ends     == {i \in Places(s, <<Soh>>) : i > checksum}
       IN
       \/ ~TrailerReceived(s, checksum) /\ NoMessage(s)
       \/ /\ TrailerReceived(s, checksum)
          /\ s[checksum] # Ten
          /\ NoMessage(AfterRejected(s))
       \/ /\ TrailerReceived(s, checksum)
          /\ s[checksum] = Ten /\ ends = {}
          /\ NoMessage(s)
       \/ /\ TrailerReceived(s, checksum)
          /\ s[checksum] = Ten /\ ends # {}
          /\ delivered' = Append(delivered, SubSeq(s, 1, Min(ends)))
          /\ buffer' = AfterMessage(s, Min(ends))
          /\ UNCHANGED at

\* read_next_message.
ReadNext ==
  /\ at = "drain"
  /\ LET begins == Places(buffer, BeginString) IN
     IF begins = {} THEN NoMessage(KeptTail(buffer))
                    ELSE ReadMessage(From(buffer, Min(begins)))
  /\ UNCHANGED <<items, whole, taken>>

Init ==
  /\ items \in Streams
  /\ whole \in BOOLEAN
  /\ taken = 0
  /\ buffer = <<>>
  /\ at = "recv"
  /\ delivered = <<>>

Next == (\E n \in 1..(Len(Stream) - taken) : AppendBytes(n)) \/ ReadNext

Spec == Init /\ [][Next]_vars

-----------------------------------------------------------------------------
(* Properties                                                              *)

\* The buffer is an end of what has been received, and the messages read are no
\* more than what was received before it.
TypeOK ==
  /\ taken \in 0..Len(Stream)
  /\ at \in {"recv", "drain"}
  /\ buffer = SubSeq(Stream, taken - Len(buffer) + 1, taken)
  /\ Len(buffer) + Len(FlattenSeq(delivered)) <= taken

Clean(k) == \A i \in 1..k : items[i].kind \in {"good", "noise"}

\* The messages among the first k items, and their number.
GoodUpTo(k) == {i \in 1..k : items[i].kind = "good"}
Count(k) == Cardinality(GoodUpTo(k))

Delivered(i) == Count(i) <= Len(delivered) /\ delivered[Count(i)] = items[i].bytes

\* However the stream is cut, the messages before the first malformed one are
\* delivered as built, in order, each as soon as its last byte is in the buffer and
\* the parser has been read until it has none; of a stream without a malformed one
\* nothing else is delivered, and between two receives the buffer holds Keep bytes at
\* most or the beginning of one message, however much has come (fix_parser.cpp:78-135).
BuiltIsDelivered ==
  \A k \in 0..Len(items) : Clean(k) =>
    /\ at = "recv" /\ Len(Bytes(k)) <= taken => \A i \in GoodUpTo(k) : Delivered(i)
    /\ k = Len(items) =>
         /\ at = "recv" /\ Len(buffer) > Keep =>
              1 \in Places(buffer, BeginString) /\ Len(buffer) < MaxBodyLen + 9
         /\ Len(delivered) <= Count(k)
         /\ \A i \in GoodUpTo(k) : Count(i) <= Len(delivered) => Delivered(i)

Within(part, s) == Places(s, part) # {}

\* A malformed message in whose own bytes the parser finds all it looks for: behind each
\* "8=FIX" a "9=" with a value, which does not lead behind the message, and behind each
\* "10=" a separator; and it does not begin in the middle of "8=FIX".
EndsItself(bytes) ==
  /\ 1 \in DOMAIN bytes => bytes[1] # Fix
  /\ \A t \in DOMAIN bytes : bytes[t] = Ten => \E e \in DOMAIN bytes : e > t /\ bytes[e] = Soh
  /\ \A b \in Places(bytes, BeginString) :
       LET s == From(bytes, b) IN
       /\ LengthFields(s) # {} /\ Min(LengthFields(s)) + 2 <= Len(s)
       /\ \A field \in BodyLength(s) : field.end + 1 + field.length <= Len(s)

\* If no receive cuts a message, a good message is delivered as it was built or is still
\* in the buffer, whatever malformed messages are in front of it, as long as each of
\* them ends itself (fix_parser.cpp:114-121). One that does not takes the message behind
\* it along: both are delivered as one (fix_parser.cpp:126-134).
GoodMessageKept ==
  whole => \A i \in DOMAIN items :
    /\ items[i].kind = "good" /\ Len(Bytes(i)) <= taken
    /\ \A b \in 1..(i - 1) : items[b].kind = "bad" => EndsItself(items[b].bytes)
    => Within(items[i].bytes, buffer) \/ \E j \in DOMAIN delivered : delivered[j] = items[i].bytes

\* fix_parser.h:16-19: read_next_message returns False if the buffer does not have a
\* full message yet. So the caller never waits for bytes while there is a full
\* message in the buffer.
FalseOnlyIfIncomplete ==
  at = "recv" => \A i \in DOMAIN items : items[i].kind = "good" => ~Within(items[i].bytes, buffer)
=============================================================================
