----------------------------- MODULE FixMessages -----------------------------
(***************************************************************************)
(* The vocabulary of the FIX session: what the client reads from a message *)
(* it receives, and what it keeps of one it sends.                         *)
(*                                                                         *)
(* An inbound message is a record of the tags the session looks at. A tag  *)
(* that is absent, or is not a number, has the value Absent; a type that   *)
(* is absent is NoType. Texts, prices and identifiers are left out: no     *)
(* decision of the session depends on them.                                *)
(***************************************************************************)
EXTENDS Integers

CONSTANT SeqLimit   \* largest number get_int_tag accepts: 2000000000

ASSUME SeqLimitAssumption == SeqLimit \in Nat \ {0}

Absent == -1
NoType == "none"

\* get_int_tag: 0 and values past the limit count as missing.
IsSeq(v) == v \in 1..SeqLimit

AdminTypes == {"0", "1", "2", "3", "4", "5", "A"}
is_admin_message(type) == type \in AdminTypes

\* A message as the session sees it: 35, 34, 43=Y, 7, 16 and 36.
Message(type, seq, dup, begin, end, new) ==
  [type |-> type, seq |-> seq, dup |-> dup, begin |-> begin, end |-> end, new |-> new]

Plain(type, seq)           == Message(type, seq, FALSE, Absent, Absent, Absent)
PossDup(type, seq)         == Message(type, seq, TRUE, Absent, Absent, Absent)
Request(seq, begin, end)   == Message("2", seq, FALSE, begin, end, Absent)
SequenceReset(seq, dup, n) == Message("4", seq, dup, Absent, Absent, n)

\* build_sequence_reset(seq, ..., new, gap_fill = true), sent for a number whose
\* message is not resent: no PossDupFlag.
GapFill(seq, new) == SequenceReset(seq, FALSE, new)

=============================================================================
