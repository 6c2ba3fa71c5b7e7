----------------------- MODULE RegressionRunnerProofs -----------------------
(***************************************************************************)
(* Theorems about RegressionRunner, for all files and all counterparties.  *)
(*                                                                         *)
(* PlaceInv says where the runner can be, QueueInv what is under way to    *)
(* it, VerdictInv which verdicts it has given. The three are inductive one *)
(* after the other: the second needs the first, the third both. CountInv   *)
(* compares the count with the text of the files. At the end, the rank of  *)
(* a regression: what becomes smaller with every step.                     *)
(***************************************************************************)
EXTENDS RegressionRunner, SequenceTheorems, FiniteSetTheorems, TLAPS

Inside == at \in {"check", "parse", "recv"}

\* The runner is at a command of a file; a read that is not a drain is inside of a
\* scenario.
PlaceInv ==
  /\ regression \in Regressions
  /\ file \in 1..Len(regression) + 1
  /\ line \in 1..Lines + 1
  /\ at \in {"line", "check", "parse", "recv", "ended"}
  /\ Inside => /\ line <= Lines /\ Command.op \in Reading
               /\ Command.op # "BGN" => in_scenario
               /\ Command.op = "BGN" => left <= 1 /\ reads >= 1
  /\ at \in {"parse", "recv"} => left > 0
  /\ left \in Nat
  /\ reads \in 0..DrainReads
  /\ in_scenario \in BOOLEAN /\ scenarios_sent \in BOOLEAN

\* A ClOrdID that was made up names the scenario of its order.
Order == {o \in [of : Nat, clr : Nat \X Nat] : o.clr[1] # 0 => o.clr[1] = o.of}

\* Of what was in the parser before a BGN, a drain leaves as much as it has reads
\* left, and nothing once it waits in recv.
QueueInv ==
  /\ uniq \in Nat
  /\ net \in Seq(Order) /\ rx \in Seq(Order) /\ orders \subseteq Order
  /\ sent \in 0..MaxMessages /\ Len(net) + Len(rx) <= sent
  /\ stale \in 0..Len(rx)
  /\ ~scenarios_sent => stale = 0
  /\ Inside /\ Command.op = "BGN" =>
       /\ at = "recv" \/ left = 0 => stale = 0
       /\ sent <= DrainReads => stale <= reads
  /\ DrainedBeforeBegin

\* The part of VerdictsCounted that is about the verdicts themselves.
Verdicts ==
  /\ {failed_names[i] : i \in DOMAIN failed_names} = ended \cap bad
  /\ total_run = total_passed + Len(failed_names)
  /\ ended \subseteq 1..uniq
  /\ in_scenario => (scenario_ok <=> uniq \notin bad)
  /\ result = "passed" => ended \cap bad = {}

\* The scenario in progress has not been counted, and scenario_ok is its verdict.
VerdictInv ==
  /\ scenario_ok \in BOOLEAN
  /\ total_run \in Nat /\ total_passed \in Nat /\ failed_names \in Seq(Nat)
  /\ bad \subseteq 1..uniq /\ ended \subseteq 1..uniq
  /\ in_scenario => uniq > 0 /\ uniq \notin ended
  /\ result # "none" => at = "ended"
  /\ stray = {}
  /\ Verdicts

-----------------------------------------------------------------------------
(* Constants, commands and queues                                          *)

LEMMA RunnerConstants ==
  /\ MaxClr \in Nat /\ DrainReads \in Nat /\ DrainReads > 0 /\ MaxMessages \in Nat
  /\ Blank \notin Nat /\ Ignore \notin Nat /\ None \notin Nat
  /\ \A op \in Reading : Deadline[op] \in Nat /\ Deadline[op] > 0
  /\ Deadline["BGN"] = 1
  BY RunnerAssumption

\* The lines of the current file are commands.
LEMMA LinesType ==
  ASSUME regression \in Regressions, file \in 1..Len(regression) + 1
  PROVE  /\ Len(regression) \in Nat /\ Lines \in Nat
         /\ \A k \in 1..Lines : regression[file][k] \in [op : Commands, clr : Values]
<1>1. regression \in Seq(Seq([op : Commands, clr : Values]))
  BY RunnerAssumption
<1>2. CASE file \in DOMAIN regression
  <2>1. regression[file] \in Seq([op : Commands, clr : Values])
    BY <1>1, <1>2, ElementOfSeq, LenProperties
  <2> QED
    BY <1>1, <1>2, <2>1, ElementOfSeq, LenProperties DEF Lines
<1>3. CASE file \notin DOMAIN regression
  BY <1>1, <1>3, LenProperties DEF Lines
<1> QED
  BY <1>2, <1>3

\* While the runner stays at its command, the command stays what it is.
LEMMA SameCommand ==
  ASSUME UNCHANGED <<regression, file, line>>
  PROVE  Command' = Command /\ Lines' = Lines
  BY DEF Command, Lines

-----------------------------------------------------------------------------
(* PlaceInv                                                                *)

\* Every step to the next line.
LEMMA NextLinePlace ==
  ASSUME PlaceInv, NextLine, line <= Lines, UNCHANGED <<regression, file>>,
         left' \in Nat, reads' \in 0..DrainReads,
         in_scenario' \in BOOLEAN, scenarios_sent' \in BOOLEAN
  PROVE  PlaceInv'
<1>1. Lines' = Lines /\ Lines \in Nat
  BY LinesType DEF PlaceInv, Lines
<1>2. line' \in 1..Lines + 1 /\ at' = "line"
  BY <1>1 DEF PlaceInv, NextLine
<1> QED
  BY <1>1, <1>2 DEF PlaceInv, Inside

\* Every step that stays inside a read.
LEMMA InsidePlace ==
  ASSUME PlaceInv, Inside, Inside', UNCHANGED <<regression, file, line, reads, in_scenario, scenarios_sent>>,
         left' \in Nat, left' <= left, at' \in {"parse", "recv"} => left' > 0
  PROVE  PlaceInv'
  BY SameCommand, LinesType DEF PlaceInv, Inside

\* Every step that begins a read.
LEMMA StartPlace ==
  ASSUME PlaceInv, NEW count \in 0..DrainReads, StartRead(count), line <= Lines,
         Command.op \in Reading, Command.op # "BGN" => in_scenario,
         Command.op = "BGN" => count >= 1,
         UNCHANGED <<regression, file, line, in_scenario, scenarios_sent>>
  PROVE  PlaceInv'
<1>1. left' = Deadline[Command.op] /\ reads' = count /\ at' = "check"
  BY DEF StartRead
<1>2. left' \in Nat /\ (Command.op = "BGN" => left' = 1)
  BY <1>1, RunnerConstants
<1> QED
  BY <1>1, <1>2, SameCommand DEF PlaceInv, Inside

\* A read is over only inside of it.
LEMMA OverInside ==
  ASSUME PlaceInv, at \in {"check", "parse"}
  PROVE  Inside /\ line <= Lines
  BY DEF PlaceInv, Inside

LEMMA PlaceStep == PlaceInv /\ [Next]_vars => PlaceInv'
<1> SUFFICES ASSUME PlaceInv, [Next]_vars PROVE PlaceInv'
  OBVIOUS
<1> USE RunnerConstants
<1>0. Running => line <= Lines
  BY DEF Running, Lines
<1>1. CASE UNCHANGED vars
  BY <1>1, SameCommand DEF vars, reading, scenario, PlaceInv, Inside
<1>2. CASE BeginUndrained
  BY <1>0, <1>2, NextLinePlace DEF BeginUndrained, BeginScenario, PlaceInv, reading
<1>3. CASE Drain
  <2>1. DrainReads \in 0..DrainReads /\ DrainReads >= 1
    OBVIOUS
  <2> QED
    BY <1>0, <1>3, <2>1, StartPlace DEF Drain, scenario, Reading
<1>4. CASE DrainRead
  <2>1. Inside /\ line <= Lines /\ Command.op = "BGN" /\ UNCHANGED <<regression, file>>
    BY <1>4, OverInside DEF DrainRead
  <2>2. CASE DrainMore
    <3>1. reads - 1 \in 0..DrainReads /\ reads - 1 >= 1
      BY <2>2 DEF DrainMore, PlaceInv
    <3>2. StartRead(reads - 1) /\ UNCHANGED <<line, in_scenario, scenarios_sent>>
      BY <1>4, <2>2 DEF DrainRead, scenario
    <3> QED
      BY <2>1, <3>1, <3>2, StartPlace DEF Reading
  <2>3. CASE ~DrainMore
    BY <1>4, <2>1, <2>3, NextLinePlace DEF DrainRead, BeginScenario, PlaceInv
  <2> QED
    BY <2>2, <2>3
<1>5. CASE EndScenario
  BY <1>0, <1>5, NextLinePlace DEF EndScenario, PlaceInv, reading
<1>6. CASE Skip
  BY <1>0, <1>6, NextLinePlace DEF Skip, PlaceInv, reading, scenario
<1>7. CASE Send
  BY <1>0, <1>7, NextLinePlace DEF Send, PlaceInv, reading
<1>8. CASE SendRefused
  BY <1>0, <1>8, NextLinePlace DEF SendRefused, PlaceInv, reading
<1>9. CASE Wait
  <2>1. 0 \in 0..DrainReads
    OBVIOUS
  <2> QED
    BY <1>0, <1>9, <2>1, StartPlace DEF Wait, scenario, Reading
<1>10. CASE Discard
  BY <1>10, OverInside, NextLinePlace DEF Discard, PlaceInv, scenario
<1>11. CASE Test
  BY <1>11, OverInside, NextLinePlace DEF Test, PlaceInv
<1>12. CASE NextFile
  <2>1. /\ file' \in 1..Len(regression) + 1 /\ regression' = regression /\ regression' \in Regressions
        /\ line' = 1 /\ at' = "line"
        /\ UNCHANGED <<left, reads, scenarios_sent>> /\ in_scenario' = FALSE
    BY <1>12, LinesType DEF NextFile, ForgetScenario, PlaceInv, reading
  <2>2. Lines' \in Nat
    <3>1. regression' \in Seq(Seq([op : Commands, clr : Values]))
      BY <2>1, RunnerAssumption
    <3>2. CASE file' \in DOMAIN regression'
      <4>1. regression'[file'] \in Seq([op : Commands, clr : Values])
        BY <3>1, <3>2, ElementOfSeq, LenProperties
      <4> QED
        BY <3>2, <4>1, LenProperties DEF Lines
    <3>3. CASE file' \notin DOMAIN regression'
      BY <3>3 DEF Lines
    <3> QED
      BY <3>2, <3>3
  <2>3. line' \in 1..Lines' + 1 /\ file' \in 1..Len(regression') + 1
    <3>1. \A n \in Nat : 1 \in 1..n + 1
      OBVIOUS
    <3>2. file' \in 1..Len(regression') + 1
      BY <2>1, Zenon
    <3> QED
      BY <2>1, <2>2, <3>1, <3>2, Zenon
  <2>4. ~Inside' /\ in_scenario' \in BOOLEAN /\ scenarios_sent' \in BOOLEAN
    BY <2>1 DEF Inside, PlaceInv
  <2>5. left' \in Nat /\ reads' \in 0..DrainReads
    BY <2>1 DEF PlaceInv
  <2> QED
    BY <2>1, <2>3, <2>4, <2>5 DEF PlaceInv
<1>13. ASSUME NEW ok \in BOOLEAN, Return(ok) PROVE PlaceInv'
  BY <1>13, SameCommand DEF Return, PlaceInv, Inside, reading, scenario
<1>14. CASE CheckDeadline \/ ParserEmpty
  BY <1>14, InsidePlace DEF CheckDeadline, ParserEmpty, PlaceInv, Inside, reading, scenario
<1>15. CASE ReceiveTimeout \/ Receive(0) \/ Receive(1)
  BY <1>15, InsidePlace DEF ReceiveTimeout, Receive, Left, PlaceInv, Inside, scenario
<1>16. CASE Answer
  BY <1>16, SameCommand DEF Answer, PlaceInv, Inside, reading, scenario
<1> QED
  BY <1>1, <1>2, <1>3, <1>4, <1>5, <1>6, <1>7, <1>8, <1>9, <1>10, <1>11, <1>12, <1>13, <1>14,
     <1>15, <1>16 DEF Next, Step, Pause, AllFilesDone, Broken

-----------------------------------------------------------------------------
(* QueueInv                                                                *)

\* An order carries the identifier of its scenario, a text of its file, or none.
LEMMA OrdersNameScenarios ==
  ASSUME uniq \in Nat, NEW value \in Values
  PROVE  /\ [of |-> uniq, clr |-> Sent(value)] \in Order
         /\ [of |-> 0, clr |-> Absent] \in Order
<1>1. /\ Sent(value) \in Nat \X Nat
      /\ Sent(value)[1] # 0 => Sent(value)[1] = uniq
  <2>1. CASE value \in Nat /\ value \in 1..MaxClr
    BY <2>1, RunnerConstants DEF Sent, Clr
  <2>2. CASE value \in Nat /\ value \notin 1..MaxClr
    BY <2>2, RunnerConstants DEF Sent, Clr
  <2>3. CASE value \notin Nat
    BY <2>3, RunnerConstants DEF Sent, Absent
  <2> QED
    BY <2>1, <2>2, <2>3
<1> QED
  BY <1>1 DEF Order, Absent

\* A read that is over took the first message, if there was one in time.
LEMMA ReadOverQueue ==
  ASSUME QueueInv, ReadOver
  PROVE  /\ rx' \in Seq(Order) /\ Len(rx') \in Nat /\ Len(rx') <= Len(rx)
         /\ stale' \in 0..Len(rx') /\ stale' <= stale
         /\ Found /\ ~TimedOut => stale' = 0 \/ stale' = stale - 1
<1>1. rx \in Seq(Order) /\ Len(rx) \in Nat /\ stale \in 0..Len(rx)
  BY LenProperties DEF QueueInv
<1>2. CASE TimedOut /\ UNCHANGED <<rx, stale>>
  BY <1>1, <1>2
<1>3. CASE Found /\ rx' = Tail(rx) /\ stale' = IF stale > 0 THEN stale - 1 ELSE 0
  <2>1. rx # <<>>
    BY <1>3 DEF Found
  <2>2. rx' \in Seq(Order) /\ Len(rx') = Len(rx) - 1 /\ Len(rx') \in Nat
    BY <1>1, <1>3, <2>1, HeadTailProperties, LenProperties
  <2> QED
    BY <1>1, <1>3, <2>2
<1> QED
  BY <1>2, <1>3 DEF ReadOver

\* Every step to the next line that is not the end of a drain.
LEMMA NextLineQueue ==
  ASSUME PlaceInv, QueueInv, NextLine, line <= Lines, Command.op # "BGN",
         UNCHANGED <<regression, file, uniq, net, sent>>,
         scenarios_sent => scenarios_sent', orders' \subseteq Order,
         UNCHANGED <<rx, stale>> \/ ReadOver
  PROVE  QueueInv'
<1>1. /\ rx' \in Seq(Order) /\ Len(rx') \in Nat /\ Len(rx') <= Len(rx) /\ Len(rx) \in Nat
      /\ stale' \in 0..Len(rx') /\ stale' <= stale /\ stale \in Nat
  BY ReadOverQueue, LenProperties DEF QueueInv
<1>2. at' = "line" /\ line' - 1 = line /\ ~Inside'
  BY DEF NextLine, PlaceInv, Inside
<1>3. DrainedBeforeBegin'
  BY <1>2 DEF DrainedBeforeBegin, Command
<1>4. Len(net) + Len(rx') <= sent /\ Len(net) \in Nat
  BY <1>1, LenProperties, RunnerConstants DEF QueueInv
<1>5. ~scenarios_sent' => stale' = 0
  BY <1>1 DEF QueueInv
<1> QED
  BY <1>1, <1>2, <1>3, <1>4, <1>5 DEF QueueInv

\* Every step inside a read, but for what is received.
LEMMA InsideQueue ==
  ASSUME PlaceInv, PlaceInv', QueueInv, Inside, Inside',
         UNCHANGED <<regression, file, line, reads, net, rx, scenarios_sent, uniq, orders, sent, stale>>,
         at' = "recv" \/ left' = 0 => at = "recv" \/ left = 0 \/ rx = <<>>
  PROVE  QueueInv'
<1>1. Command' = Command
  BY SameCommand
<1>2. rx = <<>> => stale = 0
  BY EmptySeq DEF QueueInv
<1>3. DrainedBeforeBegin'
  BY DEF DrainedBeforeBegin, Inside
<1> QED
  BY <1>1, <1>2, <1>3 DEF QueueInv

LEMMA DrainQueue ==
  ASSUME PlaceInv, PlaceInv', QueueInv, Drain \/ DrainRead \/ BeginUndrained
  PROVE  QueueInv'
<1> USE RunnerConstants
<1>0. Len(rx) \in Nat /\ Len(net) \in Nat /\ sent \in Nat /\ stale \in Nat /\ uniq + 1 \in Nat
  BY LenProperties DEF QueueInv
<1>1. CASE BeginUndrained
  <2>1. /\ at' = "line" /\ stale' = stale /\ stale = 0 /\ uniq' = uniq + 1
        /\ UNCHANGED <<net, rx, orders, sent, scenarios_sent>>
    BY <1>1 DEF BeginUndrained, BeginScenario, NextLine, QueueInv, reading
  <2> QED
    BY <1>0, <2>1 DEF QueueInv, Inside, DrainedBeforeBegin
<1>2. CASE Drain
  <2>1. /\ at' = "check" /\ left' = 1 /\ reads' = DrainReads /\ stale' = Len(rx)
        /\ scenarios_sent /\ scenarios_sent'
        /\ UNCHANGED <<net, rx, orders, sent, uniq>>
    BY <1>2 DEF Drain, StartRead, scenario
  <2>2. sent <= DrainReads => stale' <= reads'
    BY <1>0, <2>1 DEF QueueInv
  <2> QED
    BY <1>0, <2>1, <2>2 DEF QueueInv, DrainedBeforeBegin
<1>3. CASE DrainRead
  <2>1. /\ Inside /\ line <= Lines /\ Command.op = "BGN" /\ reads \in Nat /\ reads >= 1
        /\ ReadOver /\ UNCHANGED <<regression, file, net, orders, sent, scenarios_sent>>
    BY <1>3, OverInside DEF DrainRead, PlaceInv, BeginScenario, scenario
  <2>2. /\ rx' \in Seq(Order) /\ Len(rx') \in Nat /\ Len(rx') <= Len(rx)
        /\ stale' \in 0..Len(rx') /\ stale' <= stale
        /\ Found => stale' = 0 \/ stale' = stale - 1
    BY <2>1, ReadOverQueue DEF Found, TimedOut
  <2>3. Len(net) + Len(rx') <= sent
    BY <1>0, <2>2 DEF QueueInv
  <2>4. sent <= DrainReads => stale <= reads
    BY <2>1 DEF QueueInv
  <2>5. TimedOut => stale' = 0
    BY <1>0, <2>1, <2>2 DEF TimedOut, QueueInv
  <2>6. CASE DrainMore
    <3>1. /\ at' = "check" /\ left' = 1 /\ reads' = reads - 1 /\ UNCHANGED uniq
      BY <1>3, <2>1, <2>6 DEF DrainRead, StartRead, scenario
    <3>2. sent <= DrainReads => stale' <= reads'
      BY <1>0, <2>1, <2>2, <2>4, <2>6, <3>1 DEF DrainMore
    <3>3. ~scenarios_sent => stale' = 0
      BY <1>0, <2>2 DEF QueueInv
    <3> QED
      BY <1>0, <2>1, <2>2, <2>3, <3>1, <3>2, <3>3 DEF QueueInv, DrainedBeforeBegin
  <2>7. CASE ~DrainMore
    <3>1. at' = "line" /\ uniq' = uniq + 1
      BY <1>3, <2>7 DEF DrainRead, NextLine, BeginScenario
    <3>2. sent <= DrainReads => stale' = 0
      <4>1. CASE TimedOut
        BY <2>5, <4>1
      <4>2. CASE Found
        <5>1. reads = 1
          BY <2>1, <2>7, <4>2 DEF DrainMore
        <5> QED
          BY <1>0, <2>2, <2>4, <4>2, <5>1
      <4> QED
        BY <2>1, <4>1, <4>2 DEF ReadOver
    <3>3. ~scenarios_sent => stale' = 0
      BY <1>0, <2>2 DEF QueueInv
    <3> QED
      BY <1>0, <2>1, <2>2, <2>3, <3>1, <3>2, <3>3 DEF QueueInv, DrainedBeforeBegin, Inside
  <2> QED
    BY <2>6, <2>7
<1> QED
  BY <1>1, <1>2, <1>3

LEMMA ReceiveQueue ==
  ASSUME PlaceInv, PlaceInv', QueueInv, NEW spent \in {0, 1}, Receive(spent)
  PROVE  QueueInv'
<1>1. PICK n \in 0..Len(net) : /\ rx' = rx \o SubSeq(net, 1, n)
                               /\ net' = SubSeq(net, n + 1, Len(net))
  BY DEF Receive
<1>2. Len(net) \in Nat /\ Len(rx) \in Nat /\ net \in Seq(Order) /\ rx \in Seq(Order)
      /\ \A i \in 1..Len(net) : net[i] \in Order
  BY LenProperties, ElementOfSeq DEF QueueInv
<1>3. SubSeq(net, 1, n) \in Seq(Order) /\ Len(SubSeq(net, 1, n)) = n
  <2>1. 1 \in Int /\ n \in Int /\ \A i \in 1..n : net[i] \in Order
    BY <1>2
  <2> QED
    BY <1>2, <2>1, SubSeqProperties
<1>4. net' \in Seq(Order) /\ Len(net') = Len(net) - n
  <2>1. n + 1 \in Int /\ Len(net) \in Int /\ \A i \in n + 1..Len(net) : net[i] \in Order
    BY <1>2
  <2>2. SubSeq(net, n + 1, Len(net)) \in Seq(Order)
        /\ Len(SubSeq(net, n + 1, Len(net))) = IF n + 1 <= Len(net) THEN Len(net) - (n + 1) + 1 ELSE 0
    BY <2>1, SubSeqProperties
  <2> QED
    BY <1>1, <1>2, <2>2
<1>5. rx' \in Seq(Order) /\ Len(rx') = Len(rx) + n
  BY <1>1, <1>2, <1>3, ConcatProperties
<1>6. /\ at = "recv" /\ at' = "check" /\ Inside /\ Inside' /\ Command' = Command
      /\ UNCHANGED <<uniq, scenarios_sent, sent, orders, stale, reads>>
  BY SameCommand DEF Receive, Inside, scenario
<1>7. Len(net') + Len(rx') <= sent
  BY <1>2, <1>4, <1>5, RunnerConstants DEF QueueInv
<1>8. stale' \in 0..Len(rx')
  BY <1>2, <1>5, <1>6 DEF QueueInv
<1> QED
  BY <1>4, <1>5, <1>6, <1>7, <1>8 DEF QueueInv, DrainedBeforeBegin

LEMMA AnswerQueue ==
  ASSUME PlaceInv, PlaceInv', QueueInv, Answer
  PROVE  QueueInv'
<1>1. PICK order \in orders \cup {[of |-> 0, clr |-> Absent]} : net' = Append(net, order)
  BY DEF Answer
<1>2. order \in Order
  <2>1. [of |-> 0, clr |-> Absent] \in Order
    BY DEF Order, Absent
  <2> QED
    BY <2>1 DEF QueueInv
<1>3. net' \in Seq(Order) /\ Len(net') = Len(net) + 1 /\ Len(net) \in Nat /\ Len(rx) \in Nat
  BY <1>1, <1>2, AppendProperties, LenProperties DEF QueueInv
<1>4. /\ sent' = sent + 1 /\ sent < MaxMessages
      /\ UNCHANGED <<regression, file, line, at, left, reads, rx, uniq, scenarios_sent, orders, stale>>
  BY DEF Answer, reading, scenario
<1>5. sent' \in 0..MaxMessages /\ (sent' <= DrainReads => sent <= DrainReads)
      /\ Len(net') + Len(rx) <= sent'
  BY <1>3, <1>4, RunnerConstants DEF QueueInv
<1>6. Command' = Command /\ (Inside' <=> Inside)
  BY <1>4, SameCommand DEF Inside
<1>7. DrainedBeforeBegin'
  BY <1>4, <1>5 DEF QueueInv, DrainedBeforeBegin
<1> QED
  BY <1>3, <1>4, <1>5, <1>6, <1>7 DEF QueueInv

LEMMA QueueStep == PlaceInv /\ PlaceInv' /\ QueueInv /\ [Next]_vars => QueueInv'
<1> SUFFICES ASSUME PlaceInv, PlaceInv', QueueInv, [Next]_vars PROVE QueueInv'
  OBVIOUS
<1>0. /\ Running => line <= Lines
      /\ at \in {"check", "parse"} => line <= Lines
  BY OverInside DEF Running, Lines
<1>1. CASE UNCHANGED vars
  <2>1. Command' = Command /\ (Inside' <=> Inside)
    BY <1>1, SameCommand DEF vars, Inside
  <2> QED
    BY <1>1, <2>1 DEF vars, reading, scenario, QueueInv, DrainedBeforeBegin
<1>2. CASE BeginUndrained \/ Drain \/ DrainRead
  BY <1>2, DrainQueue
<1>3. CASE EndScenario \/ Skip \/ SendRefused
  BY <1>0, <1>3, NextLineQueue DEF EndScenario, Skip, SendRefused, reading, scenario, QueueInv
<1>4. CASE Send
  <2>1. [of |-> uniq, clr |-> Sent(Command.clr)] \in Order
    <3>1. line \in 1..Lines
      BY <1>0, <1>4, LinesType DEF Send, PlaceInv
    <3>2. Command.clr \in Values
      BY <3>1, LinesType DEF PlaceInv, Command
    <3> QED
      BY <3>2, OrdersNameScenarios DEF QueueInv
  <2>2. orders' \subseteq Order
    BY <1>4, <2>1 DEF Send, QueueInv
  <2> QED
    BY <1>0, <1>4, <2>2, NextLineQueue DEF Send, reading
<1>5. CASE Wait
  <2>1. /\ Command.op # "BGN" /\ Command' = Command /\ at' = "check"
        /\ UNCHANGED <<net, rx, uniq, scenarios_sent, orders, sent, stale>>
    BY <1>5, SameCommand DEF Wait, StartRead, scenario
  <2> QED
    BY <2>1 DEF QueueInv, DrainedBeforeBegin
<1>6. CASE Discard
  BY <1>0, <1>6, NextLineQueue DEF Discard, scenario, QueueInv
<1>7. CASE Test
  BY <1>0, <1>7, NextLineQueue DEF Test, QueueInv
<1>8. CASE NextFile
  <2>1. /\ at' = "line" /\ line' = 1
        /\ UNCHANGED <<net, rx, uniq, scenarios_sent, orders, sent, stale>>
    BY <1>8 DEF NextFile, reading
  <2> QED
    BY <2>1 DEF QueueInv, DrainedBeforeBegin, Inside
<1>9. ASSUME NEW ok \in BOOLEAN, Return(ok) PROVE QueueInv'
  BY <1>9 DEF Return, QueueInv, DrainedBeforeBegin, Inside, reading, scenario
<1>10. CASE CheckDeadline \/ ParserEmpty
  BY <1>10, InsideQueue DEF CheckDeadline, ParserEmpty, Inside, reading, scenario
<1>11. CASE ReceiveTimeout
  BY <1>11, InsideQueue DEF ReceiveTimeout, Inside, scenario
<1>12. CASE Receive(0) \/ Receive(1)
  BY <1>12, ReceiveQueue
<1>13. CASE Answer
  BY <1>13, AnswerQueue
<1> QED
  BY <1>1, <1>2, <1>3, <1>4, <1>5, <1>6, <1>7, <1>8, <1>9, <1>10, <1>11, <1>12, <1>13
     DEF Next, Step, Pause, AllFilesDone, Broken

-----------------------------------------------------------------------------
(* VerdictInv                                                              *)

\* Every step that counts nothing.
LEMMA NothingCounted ==
  ASSUME VerdictInv, at # "ended", UNCHANGED <<uniq, scenario_ok, verdicts>>,
         UNCHANGED in_scenario
  PROVE  VerdictInv'
  BY DEF VerdictInv, Verdicts, verdicts, totals

\* BGN: the new scenario has no verdict yet.
LEMMA BeginVerdict ==
  ASSUME QueueInv, VerdictInv, at # "ended", BeginScenario, UNCHANGED verdicts
  PROVE  VerdictInv'
<1>1. /\ uniq' = uniq + 1 /\ uniq \in Nat /\ uniq' > 0 /\ in_scenario' /\ scenario_ok' = TRUE
      /\ bad \subseteq 1..uniq /\ ended \subseteq 1..uniq
  BY DEF BeginScenario, QueueInv, VerdictInv
<1>2. uniq' \notin bad /\ uniq' \notin ended /\ bad \subseteq 1..uniq' /\ ended \subseteq 1..uniq'
  BY <1>1
<1>3. /\ UNCHANGED <<total_run, total_passed, failed_names, result, bad, ended, stray>>
  BY DEF verdicts, totals
<1> QED
  BY <1>1, <1>2, <1>3 DEF VerdictInv, Verdicts

\* A step of a scenario: its verdict falls, or stays.
LEMMA StepVerdict ==
  ASSUME QueueInv, VerdictInv, at # "ended", in_scenario, in_scenario',
         UNCHANGED <<uniq, totals, result, ended, stray>>,
         Fail \/ UNCHANGED <<scenario_ok, bad>>
  PROVE  VerdictInv'
<1>1. UNCHANGED <<total_run, total_passed, failed_names>>
  BY DEF totals
<1>2. CASE UNCHANGED <<scenario_ok, bad>>
  BY <1>1, <1>2 DEF VerdictInv, Verdicts
<1>3. CASE Fail
  <2>1. uniq \in Nat /\ uniq > 0 /\ uniq \notin ended /\ uniq \in 1..uniq
    BY DEF QueueInv, VerdictInv
  <2>2. scenario_ok' = FALSE /\ bad' = bad \cup {uniq}
    BY <1>3 DEF Fail
  <2>3. ended \cap bad' = ended \cap bad
    BY <2>1, <2>2
  <2> QED
    BY <1>1, <2>1, <2>2, <2>3 DEF VerdictInv, Verdicts
<1> QED
  BY <1>2, <1>3

\* What a TST accepts under a name it has made up is of its own scenario.
LEMMA TestVerdict ==
  ASSUME PlaceInv, QueueInv, VerdictInv, Test
  PROVE  VerdictInv'
<1>1. /\ at \in {"check", "parse"} /\ Command.op = "TST" /\ in_scenario /\ in_scenario'
      /\ UNCHANGED <<uniq, totals, result, ended>>
  BY DEF Test, PlaceInv, Inside
<1>2. PICK others \in BOOLEAN :
        LET ok == Found /\ others /\ Match(Command.clr, Head(rx).clr) IN
        /\ Verdict(ok)
        /\ stray' = IF ok /\ Command.clr \in 1..MaxClr /\ Head(rx).of # uniq
                    THEN stray \cup {uniq} ELSE stray
  BY DEF Test
<1> DEFINE ok == Found /\ others /\ Match(Command.clr, Head(rx).clr)
<1>3. ok /\ Command.clr \in 1..MaxClr => Head(rx).of = uniq
  <2> SUFFICES ASSUME ok, Command.clr \in 1..MaxClr PROVE Head(rx).of = uniq
    OBVIOUS
  <2>1. Head(rx) \in Order
    BY HeadTailProperties DEF Found, QueueInv
  <2>2. Command.clr \in Nat /\ Command.clr \notin {Blank, Ignore, None}
    BY RunnerConstants
  <2>3. Head(rx).clr = <<uniq, Command.clr>>
    BY <2>2 DEF Match, Clr
  <2>4. uniq # 0
    BY <1>1 DEF VerdictInv, QueueInv
  <2> QED
    BY <2>1, <2>3, <2>4 DEF Order
<1>4. stray' = stray
  BY <1>2, <1>3
<1>5. Fail \/ UNCHANGED <<scenario_ok, bad>>
  BY <1>2 DEF Verdict
<1> QED
  BY <1>1, <1>4, <1>5, StepVerdict

LEMMA EndVerdict ==
  ASSUME PlaceInv, QueueInv, VerdictInv, EndScenario
  PROVE  VerdictInv'
<1>1. /\ in_scenario /\ in_scenario' = FALSE /\ at = "line" /\ at' = "line"
      /\ total_run' = total_run + 1 /\ ended' = ended \cup {uniq}
      /\ UNCHANGED <<uniq, scenario_ok, result, bad, stray>>
  BY DEF EndScenario, Running, NextLine
<1>2. uniq \in Nat /\ uniq > 0 /\ uniq \in 1..uniq /\ result = "none"
  BY <1>1 DEF QueueInv, VerdictInv
<1>3. CASE scenario_ok
  <2>1. total_passed' = total_passed + 1 /\ UNCHANGED failed_names
    BY <1>3 DEF EndScenario
  <2>2. uniq \notin bad
    BY <1>1, <1>3 DEF VerdictInv, Verdicts
  <2>3. ended' \cap bad = ended \cap bad /\ ended' \subseteq 1..uniq
    BY <1>1, <1>2, <2>2 DEF VerdictInv
  <2>4. Len(failed_names) \in Nat
    BY LenProperties DEF VerdictInv
  <2>5. total_run' = total_passed' + Len(failed_names)
    BY <1>1, <2>1, <2>4 DEF VerdictInv, Verdicts
  <2> QED
    BY <1>1, <1>2, <2>1, <2>3, <2>5 DEF VerdictInv, Verdicts
<1>4. CASE ~scenario_ok
  <2>1. failed_names' = Append(failed_names, uniq) /\ UNCHANGED total_passed
    BY <1>4 DEF EndScenario
  <2>2. uniq \in bad
    BY <1>1, <1>4 DEF VerdictInv, Verdicts
  <2>3. /\ failed_names' \in Seq(Nat) /\ Len(failed_names') = Len(failed_names) + 1
        /\ Len(failed_names) \in Nat
        /\ \A i \in 1..Len(failed_names) : failed_names'[i] = failed_names[i]
        /\ failed_names'[Len(failed_names) + 1] = uniq
    BY <1>2, <2>1, AppendProperties, LenProperties DEF VerdictInv
  <2>4. DOMAIN failed_names = 1..Len(failed_names) /\ DOMAIN failed_names' = 1..Len(failed_names) + 1
    BY <2>3, LenProperties DEF VerdictInv
  <2>5. {failed_names'[i] : i \in DOMAIN failed_names'}
          = {failed_names[i] : i \in DOMAIN failed_names} \cup {uniq}
    <3>1. DOMAIN failed_names' = DOMAIN failed_names \cup {Len(failed_names) + 1}
      BY <2>3, <2>4
    <3> QED
      BY <2>3, <2>4, <3>1
  <2>6. ended' \cap bad = (ended \cap bad) \cup {uniq} /\ ended' \subseteq 1..uniq
    BY <1>1, <1>2, <2>2 DEF VerdictInv
  <2>7. total_run' = total_passed' + Len(failed_names')
    BY <1>1, <2>1, <2>3 DEF VerdictInv, Verdicts
  <2>8. {failed_names'[i] : i \in DOMAIN failed_names'} = ended' \cap bad
    BY <2>5, <2>6 DEF VerdictInv, Verdicts
  <2> QED
    BY <1>1, <1>2, <2>1, <2>3, <2>6, <2>7, <2>8 DEF VerdictInv, Verdicts
<1> QED
  BY <1>3, <1>4

LEMMA VerdictStep == PlaceInv /\ QueueInv /\ VerdictInv /\ [Next]_vars => VerdictInv'
<1> SUFFICES ASSUME PlaceInv, QueueInv, VerdictInv, [Next]_vars PROVE VerdictInv'
  OBVIOUS
<1>1. CASE UNCHANGED vars
  BY <1>1 DEF vars, scenario, verdicts, totals, VerdictInv, Verdicts
<1>2. CASE BeginUndrained
  BY <1>2, BeginVerdict DEF BeginUndrained, Running
<1>3. CASE DrainRead
  <2>1. CASE DrainMore
    BY <1>3, <2>1, NothingCounted DEF DrainRead, scenario
  <2>2. CASE ~DrainMore
    BY <1>3, <2>2, BeginVerdict DEF DrainRead
  <2> QED
    BY <2>1, <2>2
<1>4. CASE EndScenario
  BY <1>4, EndVerdict
<1>5. CASE SendRefused
  BY <1>5, StepVerdict DEF SendRefused, Running
<1>6. CASE Test
  BY <1>6, TestVerdict
<1>7. CASE Drain \/ Skip \/ Send \/ Wait \/ Discard \/ CheckDeadline \/ ParserEmpty
           \/ ReceiveTimeout \/ Receive(0) \/ Receive(1)
  BY <1>7, NothingCounted DEF Drain, Skip, Send, Wait, Discard, CheckDeadline, ParserEmpty,
     ReceiveTimeout, Receive, Running, scenario
<1>8. CASE NextFile
  <2>1. /\ at = "line" /\ in_scenario' = FALSE /\ scenario_ok' = TRUE
        /\ UNCHANGED <<uniq, total_run, total_passed, failed_names, result, bad, ended, stray>>
    BY <1>8 DEF NextFile, ForgetScenario, verdicts, totals
  <2> QED
    BY <2>1 DEF VerdictInv, Verdicts
<1>9. ASSUME NEW ok \in BOOLEAN, Return(ok) PROVE VerdictInv'
  <2>1. /\ at' = "ended"
        /\ result' = IF ok /\ failed_names = <<>> THEN "passed" ELSE "failed"
        /\ UNCHANGED <<scenario, totals, bad, ended, stray>>
    BY <1>9 DEF Return
  <2>2. failed_names = <<>> => {failed_names[i] : i \in DOMAIN failed_names} = {}
    OBVIOUS
  <2>3. result' = "passed" => ended \cap bad = {}
    BY <2>1, <2>2 DEF VerdictInv, Verdicts
  <2> QED
    BY <2>1, <2>3 DEF VerdictInv, Verdicts, scenario, totals
<1>10. CASE Answer
  BY <1>10 DEF Answer, VerdictInv, Verdicts, scenario, verdicts, totals
<1> QED
  BY <1>1, <1>2, <1>3, <1>4, <1>5, <1>6, <1>7, <1>8, <1>9, <1>10
     DEF Next, Step, Pause, AllFilesDone, Broken

-----------------------------------------------------------------------------
(* CountInv                                                                *)

\* in_scenario is what the text of the file says, and the count that of its ENDs.
CountInv ==
  /\ file \in DOMAIN regression => (in_scenario <=> OpenBefore(file, line))
  /\ IsFiniteSet(Closed) /\ total_run = Cardinality(Closed)

\* The files and their lines as domains.
LEMMA FileType ==
  ASSUME PlaceInv
  PROVE  /\ Len(regression) \in Nat /\ DOMAIN regression = 1..Len(regression)
         /\ \A f \in DOMAIN regression : /\ Len(regression[f]) \in Nat
                                       /\ DOMAIN regression[f] = 1..Len(regression[f])
<1>1. regression \in Seq(Seq([op : Commands, clr : Values]))
  BY RunnerAssumption DEF PlaceInv
<1>2. DOMAIN regression = 1..Len(regression) /\ Len(regression) \in Nat
  BY <1>1, LenProperties
<1>3. \A f \in DOMAIN regression : regression[f] \in Seq([op : Commands, clr : Values])
  BY <1>1, <1>2, ElementOfSeq
<1> QED
  BY <1>2, <1>3, LenProperties

\* One line further, a BGN has opened a scenario and an END has closed it.
LEMMA OpenNext ==
  ASSUME NEW f, NEW l \in Nat, l >= 1
  PROVE  OpenBefore(f, l + 1) <=>
           \/ regression[f][l].op = "BGN"
           \/ OpenBefore(f, l) /\ regression[f][l].op # "END"
<1>1. 1..(l + 1) - 1 = 1..l /\ l \in 1..l /\ l + 1..(l + 1) - 1 = {}
  OBVIOUS
<1>2. ASSUME regression[f][l].op = "BGN" PROVE OpenBefore(f, l + 1)
  BY <1>1, <1>2 DEF OpenBefore
<1>3. ASSUME OpenBefore(f, l), regression[f][l].op # "END" PROVE OpenBefore(f, l + 1)
  <2>1. PICK b \in 1..l - 1 : /\ regression[f][b].op = "BGN"
                              /\ \A k \in b + 1..l - 1 : regression[f][k].op # "END"
    BY <1>3 DEF OpenBefore
  <2>2. b \in 1..(l + 1) - 1 /\ \A k \in b + 1..(l + 1) - 1 : k = l \/ k \in b + 1..l - 1
    BY <1>1
  <2> QED
    BY <1>3, <2>1, <2>2 DEF OpenBefore
<1>4. ASSUME OpenBefore(f, l + 1), regression[f][l].op # "BGN"
      PROVE  OpenBefore(f, l) /\ regression[f][l].op # "END"
  <2>1. PICK b \in 1..(l + 1) - 1 :
               /\ regression[f][b].op = "BGN"
               /\ \A k \in b + 1..(l + 1) - 1 : regression[f][k].op # "END"
    BY <1>4 DEF OpenBefore
  <2>2. b \in 1..l - 1 /\ l \in b + 1..(l + 1) - 1
    BY <1>1, <1>4, <2>1
  <2>3. \A k \in b + 1..l - 1 : k \in b + 1..(l + 1) - 1
    BY <2>2
  <2> QED
    BY <2>1, <2>2, <2>3 DEF OpenBefore
<1> QED
  BY <1>2, <1>3, <1>4

\* A step to the next line counts exactly the END that closes a scenario.
LEMMA CountLine ==
  ASSUME PlaceInv, CountInv, NextLine, line <= Lines, UNCHANGED <<regression, file>>,
         in_scenario \in BOOLEAN, in_scenario' \in BOOLEAN,
         in_scenario' <=> (Command.op = "BGN" \/ (in_scenario /\ Command.op # "END")),
         total_run' = IF in_scenario /\ Command.op = "END" THEN total_run + 1 ELSE total_run
  PROVE  CountInv'
<1>1. /\ file \in DOMAIN regression /\ line \in DOMAIN regression[file]
      /\ line \in Nat /\ line >= 1 /\ line' = line + 1 /\ file \in Nat
  BY FileType DEF PlaceInv, Lines, NextLine
<1>2. OpenBefore(file, line)' <=> OpenBefore(file, line + 1)
  BY <1>1 DEF OpenBefore
<1>3. in_scenario' <=> OpenBefore(file, line)'
  BY <1>1, <1>2, OpenNext DEF CountInv, Command
<1>4. \A f \in DOMAIN regression : \A l \in DOMAIN regression[f] :
        /\ f \in Nat /\ l \in Nat
        /\ (f < file' \/ (f = file' /\ l < line')) <=>
             (f < file \/ (f = file /\ l < line)) \/ (f = file /\ l = line)
  BY <1>1, FileType
<1>5. Closed' = Closed \cup (IF Command.op = "END" /\ OpenBefore(file, line) THEN {<<file, line>>} ELSE {})
  <2>1. \A f, l : OpenBefore(f, l)' <=> OpenBefore(f, l)
    BY DEF OpenBefore
  <2>2. \A f, l : <<f, l>> \in Closed <=>
          /\ f \in DOMAIN regression /\ l \in DOMAIN regression[f]
          /\ f < file \/ (f = file /\ l < line)
          /\ regression[f][l].op = "END" /\ OpenBefore(f, l)
    BY DEF Closed
  <2>3. \A f, l : <<f, l>> \in Closed' <=>
          /\ f \in DOMAIN regression /\ l \in DOMAIN regression[f]
          /\ f < file' \/ (f = file' /\ l < line')
          /\ regression[f][l].op = "END" /\ OpenBefore(f, l)
    BY <2>1 DEF Closed
  <2>4. \A p \in Closed \cup Closed' : \E f, l : p = <<f, l>>
    BY DEF Closed
  <2>5. \A f, l : <<f, l>> \in Closed' <=>
          \/ <<f, l>> \in Closed
          \/ f = file /\ l = line /\ Command.op = "END" /\ OpenBefore(file, line)
    BY <1>1, <1>4, <2>2, <2>3 DEF Command
  <2> QED
    BY <2>4, <2>5
<1>6. <<file, line>> \notin Closed
  BY <1>1 DEF Closed
<1>7. IsFiniteSet(Closed') /\ Cardinality(Closed') = total_run'
  <2>1. CASE Command.op = "END" /\ OpenBefore(file, line)
    <3>1. in_scenario /\ Closed' = Closed \cup {<<file, line>>}
      BY <1>1, <1>5, <2>1 DEF CountInv
    <3> QED
      BY <1>6, <2>1, <3>1, FS_AddElement DEF CountInv
  <2>2. CASE ~(Command.op = "END" /\ OpenBefore(file, line))
    <3>1. ~(in_scenario /\ Command.op = "END") /\ Closed' = Closed
      BY <1>1, <1>5, <2>2 DEF CountInv
    <3> QED
      BY <3>1 DEF CountInv
  <2> QED
    BY <2>1, <2>2
<1> QED
  BY <1>3, <1>7 DEF CountInv

\* A step that stays at its line counts nothing.
LEMMA CountSame ==
  ASSUME CountInv, UNCHANGED <<regression, file, line, in_scenario, total_run>>
  PROVE  CountInv'
<1>1. \A f, l : OpenBefore(f, l)' <=> OpenBefore(f, l)
  BY DEF OpenBefore
<1>2. Closed' = Closed
  BY <1>1 DEF Closed
<1>3. OpenBefore(file, line)' <=> OpenBefore(file, line)
  BY DEF OpenBefore
<1> QED
  BY <1>2, <1>3 DEF CountInv

\* The end of a file: all of its lines have been run, and no scenario is open in the next.
LEMMA CountFile ==
  ASSUME PlaceInv, CountInv, NextFile
  PROVE  CountInv'
<1>1. /\ file' = file + 1 /\ line' = 1 /\ in_scenario' = FALSE /\ line > Lines
      /\ UNCHANGED <<regression, total_run>> /\ file \in DOMAIN regression /\ file \in Nat
      /\ Lines = Len(regression[file])
  BY FileType DEF NextFile, ForgetScenario, PlaceInv, Lines, verdicts, totals
<1>2. ~OpenBefore(file, line)'
  BY <1>1 DEF OpenBefore
<1>3. \A f, l : OpenBefore(f, l)' <=> OpenBefore(f, l)
  BY <1>1 DEF OpenBefore
<1>4. \A f \in DOMAIN regression : \A l \in DOMAIN regression[f] :
        (f < file' \/ (f = file' /\ l < line')) <=> (f < file \/ (f = file /\ l < line))
  <2> SUFFICES ASSUME NEW f \in DOMAIN regression, NEW l \in DOMAIN regression[f]
               PROVE  (f < file' \/ (f = file' /\ l < line')) <=> (f < file \/ (f = file /\ l < line))
    OBVIOUS
  <2>1. f \in Nat /\ l \in Nat /\ l >= 1 /\ (f = file => l <= Lines) /\ line \in Nat /\ Lines \in Nat
    BY <1>1, FileType DEF PlaceInv
  <2> QED
    BY <1>1, <2>1
<1>5. Closed' = Closed
  BY <1>1, <1>3, <1>4 DEF Closed
<1> QED
  BY <1>1, <1>2, <1>5 DEF CountInv

LEMMA CountStep == PlaceInv /\ CountInv /\ [Next]_vars => CountInv'
<1> SUFFICES ASSUME PlaceInv, CountInv, [Next]_vars PROVE CountInv'
  OBVIOUS
<1>0. in_scenario \in BOOLEAN /\ (Running => line <= Lines)
  BY DEF PlaceInv, Running
<1>1. CASE UNCHANGED vars
  BY <1>1, CountSame DEF vars, scenario, verdicts, totals
<1>2. CASE BeginUndrained
  BY <1>0, <1>2, CountLine DEF BeginUndrained, BeginScenario, verdicts, totals
<1>3. CASE DrainRead
  <2>1. CASE DrainMore
    BY <1>3, <2>1, CountSame DEF DrainRead, StartRead, scenario, verdicts, totals
  <2>2. CASE ~DrainMore
    BY <1>0, <1>3, <2>2, OverInside, CountLine DEF DrainRead, BeginScenario, verdicts, totals
  <2> QED
    BY <2>1, <2>2
<1>4. CASE EndScenario
  BY <1>0, <1>4, CountLine DEF EndScenario
<1>5. CASE Skip
  BY <1>0, <1>5, CountLine DEF Skip, scenario, verdicts, totals
<1>6. CASE Send \/ SendRefused
  BY <1>0, <1>6, CountLine DEF Send, SendRefused, verdicts, totals
<1>7. CASE Discard \/ Test
  <2>1. Inside /\ line <= Lines /\ Command.op \in {"RCV", "TST"} /\ NextLine
        /\ UNCHANGED <<regression, file, in_scenario, total_run>>
    BY <1>7, OverInside DEF Discard, Test, scenario, verdicts, totals
  <2>2. in_scenario
    BY <2>1 DEF PlaceInv
  <2> QED
    BY <1>0, <2>1, <2>2, CountLine
<1>8. CASE NextFile
  BY <1>8, CountFile
<1>9. CASE Drain \/ Wait \/ CheckDeadline \/ ParserEmpty \/ ReceiveTimeout
           \/ Receive(0) \/ Receive(1) \/ Answer
  BY <1>9, CountSame DEF Drain, Wait, CheckDeadline, ParserEmpty, ReceiveTimeout, Receive, Answer,
     StartRead, scenario, verdicts, totals
<1>10. ASSUME NEW ok \in BOOLEAN, Return(ok) PROVE CountInv'
  BY <1>10, CountSame DEF Return, scenario, totals
<1> QED
  BY <1>1, <1>2, <1>3, <1>4, <1>5, <1>6, <1>7, <1>8, <1>9, <1>10
     DEF Next, Step, Pause, AllFilesDone, Broken

-----------------------------------------------------------------------------
(* The theorems                                                            *)

IInv == PlaceInv /\ QueueInv /\ VerdictInv /\ CountInv

LEMMA InitInv == Init => IInv
<1> SUFFICES ASSUME Init PROVE IInv
  OBVIOUS
<1> USE RunnerConstants
<1>1. regression \in Seq(Seq([op : Commands, clr : Values]))
  BY RunnerAssumption DEF Init
<1>2. 1 \in 1..Len(regression) + 1
  BY <1>1, LenProperties
<1>3. Lines \in Nat
  BY <1>1, <1>2, LinesType DEF Init
<1>4. line \in 1..Lines + 1
  <2>1. \A n \in Nat : 1 \in 1..n + 1
    OBVIOUS
  <2> QED
    BY <1>3, <2>1 DEF Init
<1>5. PlaceInv
  <2>1. /\ regression \in Regressions /\ file = 1 /\ at = "line" /\ left = 0 /\ reads = 0
        /\ in_scenario = FALSE /\ scenarios_sent = FALSE
    BY DEF Init
  <2>2. file \in 1..Len(regression) + 1 /\ reads \in 0..DrainReads /\ ~Inside
    BY <1>2, <2>1 DEF Inside
  <2> QED
    BY <1>4, <2>1, <2>2 DEF PlaceInv
<1>6. <<>> \in Seq(Order) /\ Len(<<>>) = 0 /\ <<>> \in Seq(Nat)
  BY EmptySeq
<1>7. QueueInv
  <2>1. net \in Seq(Order) /\ rx \in Seq(Order) /\ Len(net) = 0 /\ Len(rx) = 0
    BY <1>6 DEF Init
  <2>2. 0 \in 0..MaxMessages /\ uniq \in Nat /\ orders \subseteq Order /\ ~Inside
    BY DEF Init, Inside
  <2>3. sent = 0 /\ stale = 0
    BY DEF Init
  <2> QED
    BY <2>1, <2>2, <2>3 DEF QueueInv, DrainedBeforeBegin
<1>8. {failed_names[i] : i \in DOMAIN failed_names} = {}
  BY DEF Init
<1>9. VerdictInv
  BY <1>6, <1>8 DEF Init, VerdictInv, Verdicts
<1>10. CountInv
  <2>1. file = 1 /\ line = 1 /\ in_scenario = FALSE /\ total_run = 0
    BY DEF Init
  <2>2. Closed = {}
    <3>1. \A f \in DOMAIN regression : \A l \in DOMAIN regression[f] :
            ~(f < file \/ (f = file /\ l < line))
      BY <1>5, <2>1, FileType
    <3> QED
      BY <3>1 DEF Closed
  <2>3. ~OpenBefore(file, line)
    BY <2>1 DEF OpenBefore
  <2> QED
    BY <2>1, <2>2, <2>3, FS_EmptySet DEF CountInv
<1> QED
  BY <1>5, <1>7, <1>9, <1>10 DEF IInv

LEMMA Invariance == Spec => []IInv
<1>1. IInv /\ [Next]_vars => IInv'
  BY PlaceStep, QueueStep, VerdictStep, CountStep DEF IInv
<1> QED
  BY <1>1, InitInv, PTL DEF Spec

\* The runner is always at a command of a file of its run, and the messages it may
\* still see are no more than were sent.
THEOREM RunnerTypeCorrect == Spec => []TypeOK
<1>1. IInv => TypeOK
  <2> SUFFICES ASSUME IInv PROVE TypeOK
    OBVIOUS
  <2> QED
    BY DEF IInv, PlaceInv, QueueInv, TypeOK, Inside
<1> QED
  BY <1>1, Invariance, PTL

\* No scenario passes by a TST that names one of its ClOrdIDs and took the answer to an
\* order of another scenario.
THEOREM ScenariosPassOnOwnAnswers == Spec => []PassedOnOwnAnswers
<1>1. IInv => PassedOnOwnAnswers
  BY DEF IInv, VerdictInv, PassedOnOwnAnswers
<1> QED
  BY <1>1, Invariance, PTL

\* As many scenarios are counted as the text closes by an END, each by the verdict of its
\* worst step.
THEOREM VerdictsAreCounted == Spec => []VerdictsCounted
<1>1. IInv => VerdictsCounted
  BY DEF IInv, VerdictInv, Verdicts, CountInv, VerdictsCounted
<1> QED
  BY <1>1, Invariance, PTL

\* A drain of enough reads leaves nothing of what was in the parser before.
THEOREM ScenariosBeginDrained == Spec => []DrainedBeforeBegin
<1>1. IInv => DrainedBeforeBegin
  BY DEF IInv, QueueInv
<1> QED
  BY <1>1, Invariance, PTL

-----------------------------------------------------------------------------
(* Why the run ends                                                        *)

\* What is left of the run, the most significant first: files, lines, the read at the
\* command, reads of its drain, receive timeouts before the deadline.
Rank == <<Len(regression) + 1 - file, Lines + 1 - line, IF Inside THEN 0 ELSE 1, reads, left>>

\* The lexicographic order.
Nearer(r, s) == \E i \in 1..5 : r[i] < s[i] /\ \A j \in 1..(i - 1) : r[j] = s[j]

\* A step that leaves the rank alone: between the receives of a read, or the
\* counterparty's, or a receive that takes no time.
Waiting == CheckDeadline \/ ParserEmpty \/ Receive(0) \/ Answer

Advance == at' = "ended" \/ Nearer(Rank', Rank) \/ (Rank' = Rank /\ Waiting)

LEMMA NearerIs ==
  ASSUME NEW r, NEW s,
         \/ r[1] < s[1]
         \/ r[1] = s[1] /\ r[2] < s[2]
         \/ r[1] = s[1] /\ r[2] = s[2] /\ r[3] < s[3]
         \/ r[1] = s[1] /\ r[2] = s[2] /\ r[3] = s[3] /\ r[4] < s[4]
         \/ r[1] = s[1] /\ r[2] = s[2] /\ r[3] = s[3] /\ r[4] = s[4] /\ r[5] < s[5]
  PROVE  Nearer(r, s)
<1>1. PICK i \in 1..5 : r[i] < s[i] /\ \A j \in 1..5 : j < i => r[j] = s[j]
  <2>1. \A j \in 1..5 : j = 1 \/ j = 2 \/ j = 3 \/ j = 4 \/ j = 5
    OBVIOUS
  <2>2. CASE r[1] < s[1]
    BY <2>1, <2>2
  <2>3. CASE r[1] = s[1] /\ r[2] < s[2]
    BY <2>1, <2>3
  <2>4. CASE r[1] = s[1] /\ r[2] = s[2] /\ r[3] < s[3]
    BY <2>1, <2>4
  <2>5. CASE r[1] = s[1] /\ r[2] = s[2] /\ r[3] = s[3] /\ r[4] < s[4]
    BY <2>1, <2>5
  <2>6. CASE r[1] = s[1] /\ r[2] = s[2] /\ r[3] = s[3] /\ r[4] = s[4] /\ r[5] < s[5]
    BY <2>1, <2>6
  <2> QED
    BY <2>2, <2>3, <2>4, <2>5, <2>6
<1>2. \A j \in 1..(i - 1) : j \in 1..5 /\ j < i
  OBVIOUS
<1> QED
  BY <1>1, <1>2 DEF Nearer

\* The rank consists of natural numbers, so that it cannot become smaller for ever.
LEMMA RankType ==
  ASSUME PlaceInv
  PROVE  /\ Len(regression) + 1 - file \in Nat /\ Lines + 1 - line \in Nat
         /\ (IF Inside THEN 0 ELSE 1) \in Nat /\ reads \in Nat /\ left \in Nat
<1>1. Len(regression) \in Nat /\ Lines \in Nat /\ DrainReads \in Nat
  BY LinesType, RunnerConstants DEF PlaceInv
<1> QED
  BY <1>1 DEF PlaceInv

\* What a step does to the rank, part by part.
LEMMA NearerStep ==
  ASSUME PlaceInv, regression' = regression,
         \/ file' = file + 1
         \/ file' = file /\ line' = line + 1
         \/ UNCHANGED <<file, line>> /\ ~Inside /\ Inside'
         \/ UNCHANGED <<file, line>> /\ Inside /\ Inside' /\ reads' < reads
         \/ UNCHANGED <<file, line, reads>> /\ Inside /\ Inside' /\ left' < left
  PROVE  Advance
<1> DEFINE a == Len(regression) + 1 - file
           b == Lines + 1 - line
           c == IF Inside THEN 0 ELSE 1
<1>1. reads \in Nat /\ left \in Nat
  BY RankType
<1>2. file \in Nat /\ line \in Nat /\ Len(regression) \in Nat /\ Lines \in Nat
  BY LinesType DEF PlaceInv
<1>3. \/ a' < a
      \/ a' = a /\ b' < b
      \/ a' = a /\ b' = b /\ c' < c
      \/ a' = a /\ b' = b /\ c' = c /\ reads' < reads
      \/ a' = a /\ b' = b /\ c' = c /\ reads' = reads /\ left' < left
  <2>1. file' = file => Lines' = Lines
    BY DEF Lines
  <2>2. CASE file' = file + 1
    BY <1>2, <2>2
  <2>3. CASE file' = file /\ line' = line + 1
    BY <1>2, <2>1, <2>3
  <2>4. CASE UNCHANGED <<file, line>> /\ ~Inside /\ Inside'
    <3>1. c' < c
      BY <2>4
    <3>2. a' = a /\ b' = b
      BY <2>1, <2>4
    <3> QED
      BY <3>1, <3>2
  <2>5. CASE UNCHANGED <<file, line>> /\ Inside /\ Inside'
    <3>1. a' = a /\ b' = b /\ c' = c
      BY <2>1, <2>5
    <3>2. reads' < reads \/ (reads' = reads /\ left' < left)
      BY <1>2, <2>5
    <3> QED
      BY <3>1, <3>2
  <2> QED
    BY <2>2, <2>3, <2>4, <2>5
<1>4. PICK r : r = Rank'
  OBVIOUS
<1>5. PICK s : s = Rank
  OBVIOUS
<1>6. r[1] = a' /\ r[2] = b' /\ r[3] = c' /\ r[4] = reads' /\ r[5] = left'
  BY <1>4 DEF Rank
<1>7. s[1] = a /\ s[2] = b /\ s[3] = c /\ s[4] = reads /\ s[5] = left
  BY <1>5 DEF Rank
<1> HIDE DEF a, b, c
<1>8. \/ r[1] < s[1]
      \/ r[1] = s[1] /\ r[2] < s[2]
      \/ r[1] = s[1] /\ r[2] = s[2] /\ r[3] < s[3]
      \/ r[1] = s[1] /\ r[2] = s[2] /\ r[3] = s[3] /\ r[4] < s[4]
      \/ r[1] = s[1] /\ r[2] = s[2] /\ r[3] = s[3] /\ r[4] = s[4] /\ r[5] < s[5]
  BY <1>3, <1>6, <1>7
<1>9. Nearer(r, s)
  BY <1>8, NearerIs
<1> QED
  BY <1>4, <1>5, <1>9 DEF Advance

LEMMA SameRank ==
  ASSUME Waiting, UNCHANGED <<regression, file, line, reads, left>>, Inside' = Inside
  PROVE  Advance
BY DEF Advance, Rank, Lines

LEMMA AdvanceStep ==
  ASSUME PlaceInv, Next
  PROVE  Advance
<1>1. CASE BeginUndrained \/ EndScenario \/ Skip \/ Send \/ SendRefused \/ Discard \/ Test
  BY <1>1, NearerStep DEF BeginUndrained, EndScenario, Skip, Send, SendRefused, Discard, Test, NextLine
<1>2. CASE Drain \/ Wait
  <2>1. UNCHANGED <<regression, file, line>> /\ ~Inside /\ Inside'
    BY <1>2 DEF Drain, Wait, Running, StartRead, Inside
  <2> QED
    BY <2>1, NearerStep
<1>3. CASE DrainRead
  <2>1. CASE DrainMore
    <3>1. UNCHANGED <<regression, file, line>> /\ Inside /\ Inside' /\ reads' = reads - 1
      BY <1>3, <2>1 DEF DrainRead, StartRead, Inside
    <3>2. reads \in Nat
      BY RankType
    <3>3. reads' < reads
      BY <3>1, <3>2
    <3> QED
      BY <3>1, <3>3, NearerStep
  <2>2. CASE ~DrainMore
    BY <1>3, <2>2, NearerStep DEF DrainRead, NextLine
  <2> QED
    BY <2>1, <2>2
<1>4. CASE NextFile
  BY <1>4, NearerStep DEF NextFile
<1>5. CASE AllFilesDone \/ Broken
  BY <1>5 DEF AllFilesDone, Broken, Return, Advance
<1>6. CASE Pause
  <2>1. UNCHANGED <<regression, file, line, reads>> /\ Inside /\ Inside' /\ left' = left - 1
    BY <1>6 DEF Pause, ReceiveTimeout, Receive, Left, Inside
  <2>2. left \in Nat
    BY RankType
  <2>3. left' < left
    BY <2>1, <2>2
  <2> QED
    BY <2>1, <2>3, NearerStep
<1>7. CASE CheckDeadline \/ ParserEmpty
  BY <1>7, SameRank DEF CheckDeadline, ParserEmpty, reading, Inside, Waiting
<1>8. CASE Receive(0)
  <2>1. left' = left
    BY <1>8, RankType DEF Receive, Left
  <2> QED
    BY <1>8, <2>1, SameRank DEF Receive, Inside, Waiting
<1>9. CASE Answer
  BY <1>9, SameRank DEF Answer, reading, Inside, Waiting
<1> QED
  BY <1>1, <1>2, <1>3, <1>4, <1>5, <1>6, <1>7, <1>8, <1>9 DEF Next, Step

\* The safety half of the argument that a regression ends (fix_regression.cpp:236-460,
\* application.cpp:727): the rank is made of natural numbers, and every step ends the
\* run, makes the rank smaller, or is one of those that wait. Of these the client's own
\* go from "check" to "parse", "recv" and back by Receive(0): a run that does not end
\* receives without end, and without time passing.
THEOREM RunAdvances ==
  Spec => [](\A i \in 1..5 : Rank[i] \in Nat) /\ [][Advance]_vars
<1>1. IInv => \A i \in 1..5 : Rank[i] \in Nat
  <2> SUFFICES ASSUME IInv, NEW i \in 1..5 PROVE Rank[i] \in Nat
    OBVIOUS
  <2>1. PlaceInv
    BY DEF IInv
  <2>2. i = 1 \/ i = 2 \/ i = 3 \/ i = 4 \/ i = 5
    OBVIOUS
  <2> QED
    BY <2>1, <2>2, RankType DEF Rank
<1>2. IInv /\ [Next]_vars => [Advance]_vars
  BY AdvanceStep DEF IInv
<1> QED
  BY <1>1, <1>2, Invariance, PTL DEF Spec
=============================================================================
