----------------------------- MODULE MCFixParser -----------------------------
(***************************************************************************)
(* Streams of two or three items, one of each kind the parser tells apart. *)
(***************************************************************************)
EXTENDS FixParser

Good(fields) == [kind |-> "good", bytes |-> Build(fields)]

\* A plain field; "49=" and "48=FIX" in the body, and the tags that are rebuilt;
\* "110=" in the body.
GoodItems ==
  { Good(<< <<Text>> >>),
    Good(<< <<Eight, Fix>>, <<Text, Nine, Text>>, <<Nine, 3>>, <<Ten, Sum>> >>),
    Good(<< <<Text, Eight, Fix>> >>),
    Good(<< <<Text, Ten>> >>) }

\* What is no message: text, a single "8=" and more than the parser keeps.
Noise == { [kind |-> "noise", bytes |-> b] : b \in { <<Eight>>, <<Soh, Text, Text>> } }

Body == <<Text, Soh>>

\* A BodyLength that is no number, empty, too short, so long that it leads to the
\* trailer of the message behind, too large, or missing; a trailer without separator; a
\* message that the noise in front of it begins.
BadItems ==
  { [kind |-> "bad", bytes |-> b] :
      b \in { Frame(Text, Body), <<Eight, Fix, Soh, Nine, Soh>> \o Body \o <<Ten, Sum, Soh>>,
              Frame(0, Body), Frame(3, Body), Frame(MaxBodyLen, Body), Frame(MaxBodyLen + 1, Body),
              <<Eight, Fix, Soh>> \o Body \o <<Ten, Sum, Soh>>, Tail(Frame(MaxBodyLen, Body)) } }
  \cup { [kind |-> "bad", bytes |-> <<Eight, Fix, Soh, Nine, 2, Soh>> \o Body \o <<Ten, Sum>>] }

MCStreams ==
  LET AnyItem == GoodItems \cup Noise \cup BadItems IN
  {<<a, b>> : a \in AnyItem, b \in GoodItems} \cup {<<a, b, c>> : a \in GoodItems, b \in AnyItem, c \in GoodItems}
    \cup {<<a, b, c>> : a \in BadItems \cup Noise, b \in GoodItems, c \in BadItems}
    \cup {<<a, b, c>> : a \in Noise, b \in BadItems, c \in GoodItems}

\* Good messages behind one whose BodyLength is no number.
StalledStreams ==
  { << [kind |-> "bad", bytes |-> Frame(Text, Body)], a, b >> : a, b \in GoodItems }
=============================================================================
