----------------------------- MODULE OutboundLog -----------------------------
(***************************************************************************)
(* What the counterparty may rely on about the numbers the client sends:   *)
(* an append-only log in which only the last entry may be sent again, and  *)
(* which begins afresh when the numbering does (a reset, a new day, a      *)
(* token file written by hand or lost).                                    *)
(***************************************************************************)
EXTENDS Naturals

CONSTANTS Body, NoMessage, MaxSeq

VARIABLES
  log,    \* the message last transmitted under each number
  next    \* one more than the last number transmitted

Nothing == [n \in 1..MaxSeq |-> NoMessage]

Append(b) ==
  /\ next <= MaxSeq
  /\ log' = [log EXCEPT ![next] = b]
  /\ next' = next + 1

\* The client died before it saved that it had used the number.
Repeat(b) ==
  /\ next > 1 /\ log[next - 1] # NoMessage
  /\ log' = [log EXCEPT ![next - 1] = b]
  /\ UNCHANGED next

BeginAgain(n) ==
  /\ log' = Nothing
  /\ next' = n

Init == log = Nothing /\ next \in 1..(MaxSeq + 1)

Next ==
  \/ \E b \in Body : Append(b) \/ Repeat(b)
  \/ \E n \in 1..(MaxSeq + 1) : BeginAgain(n)

Spec == Init /\ [][Next]_<<log, next>>

=============================================================================
