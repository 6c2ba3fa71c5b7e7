---------------------------- MODULE MCRegression ----------------------------
(***************************************************************************)
(* Short regressions: two scenarios in one file and in two, reads without  *)
(* names, nested and unfinished scenarios, steps outside of one, no file.  *)
(***************************************************************************)
EXTENDS RegressionRunner

Do(op) == [op |-> op, clr |-> Blank]
On(op, value) == [op |-> op, clr |-> value]

Named == <<Do("BGN"), On("SND", 1), On("TST", 1), Do("END")>>
Loose == <<Do("BGN"), On("SND", 2), On("TST", None), On("TST", Ignore), Do("END")>>
Untidy == <<Do("END"), Do("BGN"), On("SND", Blank), Do("BAD"), Do("BGN"), Do("RCV"), On("TST", 1), Do("END"), Do("TST")>>
Cut == <<Do("BGN"), On("SND", 1), Do("BAD")>>

MCRegressions ==
  { <<>>, <<Named, Named>>, <<Named \o Named>>, <<Loose \o Named>>, <<Untidy>>,
    <<Untidy, Named>>, <<Cut, Untidy>> }

MCDeadline == [c \in Reading |-> IF c = "TST" THEN 2 ELSE 1]
=============================================================================
