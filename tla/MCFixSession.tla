---------------------------- MODULE MCFixSession -----------------------------
(***************************************************************************)
(* Small sets of messages and starting points for TLC.                     *)
(***************************************************************************)
EXTENDS FixSession

\* One message of each kind the session tells apart, at the numbers where the
\* decisions fall: below, at and above the expected one (1 or 2 at the start),
\* at the limit of get_int_tag and past it, and missing.
MCInbound ==
       {Plain("A", 1), Plain("A", 3), PossDup("A", 1)}
  \cup {Plain("8", n) : n \in 1..4} \cup {PossDup("8", 1), Plain("8", Absent)}
  \cup {Plain("1", 2), Plain("0", 3)}
  \cup {Plain("5", n) : n \in 2..3}
  \cup {Plain(NoType, 2)}
  \cup {Request(2, 1, 2), Request(2, 2, 9), Request(3, 4, 4), Request(2, 2, 0), Request(2, Absent, 1)}
  \cup {SequenceReset(2, FALSE, 4), SequenceReset(1, TRUE, 3), SequenceReset(2, FALSE, 1)}
  \cup {Plain("8", SeqLimit + 1)}

\* A fresh session, and one that resumes with a store: the Logon of the last
\* session, an order, and a number that was never kept.
MCStarts ==
  { [out |-> 1, in |-> 1, sent |-> [n \in 1..MaxSeq |-> NoType]],
    [out |-> 3, in |-> 2, sent |-> [n \in 1..MaxSeq |->
       CASE n = 1 -> "A" [] n = 2 -> "D" [] OTHER -> NoType]] }

=============================================================================
