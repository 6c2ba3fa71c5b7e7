-------------------------- MODULE RegressionRunner --------------------------
(***************************************************************************)
(* The regression runner: the commands of its files, the reads they wait   *)
(* in, the ClOrdIDs it makes up for each scenario, and the verdicts, with  *)
(* a counterparty that answers when it likes.                              *)
(*   src/src/fix_regression.cpp  run_fix_regression, run_file              *)
(*   src/src/application.cpp     read_next_business_message                *)
(* Only what ends a read is a message here: a business message, or one     *)
(* that requests the end of the session. What the session does with them   *)
(* is in FixSession.                                                       *)
(***************************************************************************)
EXTENDS Integers, Sequences, FiniteSets

CONSTANTS
  Regressions,   \* the runs: sequences of files, a file is a sequence of commands;
                 \* a directory may hold none
  MaxClr,        \* max_clr
  DrainReads,    \* drain_max_reads
  Deadline,      \* receive timeouts that fit into a read, by command
  MaxMessages,   \* bound: messages of the counterparty
  Blank, Ignore, None  \* no value, "IGNORE", "NONE" as the ClOrdID of a step

Reading == {"BGN", "RCV", "TST"}
Commands == Reading \cup {"END", "SND", "BAD"}     \* BAD: a SND without tag 35
Values == Nat \cup {Blank, Ignore, None}           \* a number n: clrN

ASSUME RunnerAssumption ==
  /\ MaxClr \in Nat /\ DrainReads \in Nat \ {0} /\ MaxMessages \in Nat
  /\ {Blank, Ignore, None} \cap Nat = {}
  /\ Deadline \in [Reading -> Nat \ {0}] /\ Deadline["BGN"] = 1
  /\ Regressions \subseteq Seq(Seq([op : Commands, clr : Values]))

VARIABLES
  regression, file, line,  \* the files, the current one, its next command
  at,             \* line; check, parse or recv inside a read; ended
  left,           \* receive timeouts before the deadline of the read
  reads,          \* reads left of the drain before a BGN
  net, rx,        \* messages under way, and complete ones in the parser
  uniq,           \* build_clr_id's counter; it also names the scenario begun last
  in_scenario, scenario_ok, scenarios_sent,
  total_run, total_passed, failed_names,
  result,         \* what run_fix_regression returned
  orders,         \* history: orders sent, [of: scenario, clr: ClOrdID]
  sent,           \* history: messages of the counterparty
  stale,          \* history: of rx, received before the drain of the last BGN
  bad, ended,     \* history: scenarios with a failed step, scenarios that reached END
  stray           \* history: scenarios in which a named TST took another one's answer

reading  == <<left, reads, rx>>
totals   == <<total_run, total_passed, failed_names>>
scenario == <<uniq, in_scenario, scenario_ok, scenarios_sent>>
verdicts == <<totals, result, bad, ended, stray>>
vars     == <<regression, file, line, at, reading, net, scenario, verdicts, orders, sent, stale>>

Absent == <<0, 0>>
Command == regression[file][line]
Lines == IF file \in DOMAIN regression THEN Len(regression[file]) ELSE 0
Running == at = "line" /\ line <= Lines

\* Mutant: the counter is not part of the identifier.
ClrSame(n) == <<0, n>>

\* clr_values[n] of the scenario; beyond max_clr the text stays as it is written.
Clr(n) == IF n \in 1..MaxClr THEN <<uniq, n>> ELSE <<0, n>>

\* Tag 11 of a SND step with this value.
Sent(value) == IF value \in Nat THEN Clr(value) ELSE Absent

\* Does tag 11 of a message satisfy the value of a TST step?
Match(value, actual) ==
  \/ value \in {Blank, Ignore}
  \/ value = None /\ actual = Absent
  \/ value \in Nat /\ actual = Clr(value)

-----------------------------------------------------------------------------
(* The counterparty and the connection                                     *)

\* It answers any order it has got, any number of times, or speaks unasked.
Answer ==
  /\ sent < MaxMessages
  /\ sent' = sent + 1
  /\ \E order \in orders \cup {[of |-> 0, clr |-> Absent]} : net' = Append(net, order)
  /\ UNCHANGED <<regression, file, line, at, reading, scenario, verdicts, orders, stale>>

-----------------------------------------------------------------------------
(* read_next_business_message                                              *)

StartRead(count) ==
  /\ at' = "check"
  /\ left' = Deadline[Command.op]
  /\ reads' = count

\* recv times out: 200 ms of the read are gone.
ReceiveTimeout ==
  /\ at = "recv"
  /\ left' = left - 1
  /\ at' = "check"
  /\ UNCHANGED <<regression, file, line, reads, rx, net, scenario, verdicts, orders, sent, stale>>

\* Mutant: bytes that arrive restart the deadline.
LeftRestarted(spent) == Deadline[Command.op]

Left(spent) == left - spent

\* Bytes arrive with n messages, or with parts and session messages only; the wait for
\* them took nothing or the most of a timeout.
Receive(spent) ==
  /\ at = "recv"
  /\ \E n \in 0..Len(net) : /\ rx' = rx \o SubSeq(net, 1, n)
                            /\ net' = SubSeq(net, n + 1, Len(net))
  /\ left' = Left(spent)
  /\ at' = "check"
  /\ UNCHANGED <<regression, file, line, reads, scenario, verdicts, orders, sent, stale>>

\* Mutant: a read that is over looks into the parser once more.
CheckDeadlineAfter ==
  /\ at = "check"
  /\ at' = "parse"
  /\ UNCHANGED <<regression, file, line, reading, net, scenario, verdicts, orders, sent, stale>>

\* Within the deadline the parser is asked first, then the connection.
CheckDeadline ==
  /\ at = "check" /\ left > 0
  /\ at' = "parse"
  /\ UNCHANGED <<regression, file, line, reading, net, scenario, verdicts, orders, sent, stale>>

ParserEmpty ==
  /\ at = "parse" /\ rx = <<>>
  /\ at' = "recv"
  /\ UNCHANGED <<regression, file, line, reading, net, scenario, verdicts, orders, sent, stale>>

TimedOut == at = "check" /\ left = 0
Found == at = "parse" /\ rx # <<>>

\* The read is over, with a message or without.
ReadOver ==
  \/ TimedOut /\ UNCHANGED <<rx, stale>>
  \/ /\ Found
     /\ rx' = Tail(rx)
     /\ stale' = IF stale > 0 THEN stale - 1 ELSE 0

NextLine == line' = line + 1 /\ at' = "line"

-----------------------------------------------------------------------------
(* The commands of run_file                                                *)

BeginScenario ==
  /\ uniq' = uniq + 1
  /\ in_scenario' = TRUE
  /\ scenario_ok' = TRUE
  /\ UNCHANGED scenarios_sent

\* Before the first SND there is nothing to drain.
BeginUndrained ==
  /\ Running /\ Command.op = "BGN" /\ ~scenarios_sent
  /\ BeginScenario
  /\ NextLine
  /\ UNCHANGED <<regression, file, reading, net, verdicts, orders, sent, stale>>

Drain ==
  /\ Running /\ Command.op = "BGN" /\ scenarios_sent
  /\ StartRead(DrainReads)
  /\ stale' = Len(rx)
  /\ UNCHANGED <<regression, file, line, rx, net, scenario, verdicts, orders, sent>>

\* Mutant: one message is drained.
DrainMoreOnce == FALSE

\* The drain goes on after each message it found.
DrainMore == Found /\ reads > 1

DrainRead ==
  /\ at \in {"check", "parse"} /\ Command.op = "BGN"
  /\ ReadOver
  /\ IF DrainMore
     THEN StartRead(reads - 1) /\ UNCHANGED <<line, scenario>>
     ELSE BeginScenario /\ NextLine /\ UNCHANGED <<left, reads>>
  /\ UNCHANGED <<regression, file, net, verdicts, orders, sent>>

\* A scenario_ok that is false stays so until the next BGN.
Fail == scenario_ok' = FALSE /\ bad' = bad \cup {uniq}

Verdict(ok) == IF ok THEN UNCHANGED <<scenario_ok, bad>> ELSE Fail

EndScenario ==
  /\ Running /\ Command.op = "END" /\ in_scenario
  /\ total_run' = total_run + 1
  /\ IF scenario_ok
     THEN total_passed' = total_passed + 1 /\ UNCHANGED failed_names
     ELSE failed_names' = Append(failed_names, uniq) /\ UNCHANGED total_passed
  /\ in_scenario' = FALSE
  /\ ended' = ended \cup {uniq}
  /\ NextLine
  /\ UNCHANGED <<regression, file, reading, net, uniq, scenario_ok, scenarios_sent,
                 result, bad, stray, orders, sent, stale>>

\* Every command but BGN is skipped outside of a scenario.
Skip ==
  /\ Running /\ Command.op # "BGN" /\ ~in_scenario
  /\ NextLine
  /\ UNCHANGED <<regression, file, reading, net, scenario, verdicts, orders, sent, stale>>

Send ==
  /\ Running /\ Command.op = "SND" /\ in_scenario
  /\ orders' = orders \cup {[of |-> uniq, clr |-> Sent(Command.clr)]}
  /\ scenarios_sent' = TRUE
  /\ NextLine
  /\ UNCHANGED <<regression, file, reading, net, uniq, in_scenario, scenario_ok,
                 verdicts, sent, stale>>

\* No tag 35, or build_from_fields fails: nothing is sent.
SendRefused ==
  /\ Running /\ Command.op = "BAD" /\ in_scenario
  /\ Fail
  /\ NextLine
  /\ UNCHANGED <<regression, file, reading, net, uniq, in_scenario, scenarios_sent,
                 totals, result, ended, stray, orders, sent, stale>>

Wait ==
  /\ Running /\ Command.op \in {"RCV", "TST"} /\ in_scenario
  /\ StartRead(0)
  /\ UNCHANGED <<regression, file, line, rx, net, scenario, verdicts, orders, sent, stale>>

\* RCV takes whatever comes, or nothing.
Discard ==
  /\ at \in {"check", "parse"} /\ Command.op = "RCV"
  /\ ReadOver
  /\ NextLine
  /\ UNCHANGED <<regression, file, left, reads, net, scenario, verdicts, orders, sent>>

\* TST compares tag 11 and the other fields, of which only the outcome is modelled.
Test ==
  /\ at \in {"check", "parse"} /\ Command.op = "TST"
  /\ ReadOver
  /\ \E others \in BOOLEAN :
       LET ok == Found /\ others /\ Match(Command.clr, Head(rx).clr) IN
       /\ Verdict(ok)
       /\ stray' = IF ok /\ Command.clr \in 1..MaxClr /\ Head(rx).of # uniq
                   THEN stray \cup {uniq} ELSE stray
  /\ NextLine
  /\ UNCHANGED <<regression, file, left, reads, net, uniq, in_scenario, scenarios_sent,
                 totals, result, ended, orders, sent>>

-----------------------------------------------------------------------------
(* run_fix_regression                                                      *)

\* Mutant: a scenario goes on in the next file.
ForgetNothing == UNCHANGED <<in_scenario, scenario_ok>>

ForgetScenario == in_scenario' = FALSE /\ scenario_ok' = TRUE

\* The end of a file: a scenario still open is forgotten with it.
NextFile ==
  /\ at = "line" /\ line > Lines /\ file <= Len(regression)
  /\ file' = file + 1 /\ line' = 1
  /\ ForgetScenario
  /\ UNCHANGED <<regression, at, reading, net, uniq, scenarios_sent, verdicts, orders, sent, stale>>

Return(ok) ==
  /\ at' = "ended"
  /\ result' = IF ok /\ failed_names = <<>> THEN "passed" ELSE "failed"
  /\ UNCHANGED <<regression, file, line, reading, net, scenario, totals, bad, ended, stray,
                 orders, sent, stale>>

\* Also of an empty directory.
AllFilesDone ==
  /\ at = "line" /\ file > Len(regression)
  /\ Return(TRUE)

\* A file that cannot be opened, a message that cannot be sent, a connection that is
\* lost while a command reads or a message is handled.
Broken ==
  /\ \/ at = "line" /\ line = 1 /\ file <= Len(regression)
     \/ Running /\ Command.op = "SND" /\ in_scenario
     \/ at \in {"parse", "recv"}
  /\ Return(FALSE)

Init ==
  /\ regression \in Regressions
  /\ file = 1 /\ line = 1 /\ at = "line"
  /\ left = 0 /\ reads = 0
  /\ net = <<>> /\ rx = <<>>
  /\ uniq = 0
  /\ in_scenario = FALSE /\ scenario_ok = TRUE /\ scenarios_sent = FALSE
  /\ total_run = 0 /\ total_passed = 0 /\ failed_names = <<>>
  /\ result = "none"
  /\ orders = {} /\ sent = 0 /\ stale = 0
  /\ bad = {} /\ ended = {} /\ stray = {}

Step ==
  \/ BeginUndrained \/ Drain \/ DrainRead
  \/ EndScenario \/ Skip \/ Send \/ SendRefused
  \/ Wait \/ Discard \/ Test
  \/ NextFile \/ AllFilesDone
  \/ CheckDeadline \/ ParserEmpty

\* A receive that takes time.
Pause == ReceiveTimeout \/ Receive(1)

Next == Step \/ Pause \/ Receive(0) \/ Answer \/ Broken

\* The thread runs, and receives take time infinitely often when there are
\* infinitely many of them: the clock does not stop while messages come in.
Spec == Init /\ [][Next]_vars /\ WF_vars(Step) /\ SF_vars(Pause)

-----------------------------------------------------------------------------
(* Properties                                                              *)

\* The state is in bounds; a read has a reading command.
TypeOK ==
  /\ file \in 1..Len(regression) + 1 /\ line \in 1..Lines + 1
  /\ at \in {"line", "check", "parse", "recv", "ended"}
  /\ at \in {"check", "parse", "recv"} => line <= Lines /\ Command.op \in Reading
  /\ at \in {"parse", "recv"} => left > 0
  /\ reads \in 0..DrainReads
  /\ sent \in 0..MaxMessages /\ Len(net) + Len(rx) <= sent
  /\ stale \in 0..Len(rx)

\* A scenario that passed did not do so on another one's answer, where it names its own
\* orders: every TST whose tag 11 is a clrN took the answer to an order of this scenario,
\* however late the answers to earlier ones came in, and whatever is left of them in the
\* parser. A TST that names none (no value, IGNORE, NONE) takes any answer, and nothing
\* is said of it (fix_regression.cpp:145, :440, :467-505).
PassedOnOwnAnswers == ended \cap stray \subseteq {failed_names[i] : i \in DOMAIN failed_names}

\* Is a scenario of file f open in front of its line l, as the text has it: a BGN, and
\* no END since?
OpenBefore(f, l) ==
  \E b \in 1..l - 1 :
    /\ regression[f][b].op = "BGN"
    /\ \A k \in b + 1..l - 1 : regression[f][k].op # "END"

\* The ENDs the run has passed that close a scenario.
Closed ==
  UNION { {f} \X {l \in DOMAIN regression[f] : /\ f < file \/ (f = file /\ l < line)
                                              /\ regression[f][l].op = "END"
                                              /\ OpenBefore(f, l)} :
          f \in DOMAIN regression }

\* The verdicts: as many scenarios are counted as the files close by an END in what has
\* been run, so that one without an END, or that a BGN or the end of its file cuts off,
\* counts for nothing whatever became of its steps; each is named as failed exactly if a
\* step of it failed, and a run that passes had none
\* (fix_regression.cpp:298-326, :576-608).
VerdictsCounted ==
  /\ total_run = Cardinality(Closed)
  /\ {failed_names[i] : i \in DOMAIN failed_names} = ended \cap bad
  /\ total_run = total_passed + Len(failed_names)
  /\ ended \subseteq 1..uniq
  /\ in_scenario => (scenario_ok <=> uniq \notin bad)
  /\ result = "passed" => ended \cap bad = {}

\* After the first SND, a scenario begins with no message of before its BGN in the
\* parser: what is left there came in the last receive of the drain. The drain takes
\* DrainReads messages at most, so this is so as long as there are no more of them
\* (fix_regression.cpp:274-296).
DrainedBeforeBegin ==
  sent <= DrainReads /\ at = "line" /\ line > 1 /\ regression[file][line - 1].op = "BGN" =>
    stale = 0

\* The regression ends, however much the counterparty sends
\* (application.cpp:727, the deadline of every read).
ScriptEnds == <>(at = "ended")
=============================================================================
