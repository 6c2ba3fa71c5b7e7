# Verification of fixclient

TLA+ models of the FIX client in this repository, TLC configurations that check
them on small instances, and TLAPS proofs about them for every value of their
constants. Paths below are relative to the repository root (`src/` holds the
C++ files, `include/` the headers).

## 1. The system

`fixclient` opens one FIX 4.x session as initiator, sends the lines of a
scenario file (live mode) or plays a regression script (`-m test`, test mode), keeps
the session alive, and logs out. It is one process with one thread and one
blocking socket (`SO_RCVTIMEO` 200 ms). Nothing runs beside it except the
counterparty, the operator who edits files between runs, and whatever kills the
process; these are the sources of interleaving here.

| Component | State it keeps | Operations | Interacts with |
|---|---|---|---|
| Sequence state (`token_handler.cpp`, `application.cpp` 91-244, 412-471) | `outbound_seq`, `inbound_seq`; the `.token` file; `sent_messages`; the `.resend` file | `read_sequence_token`, `save_sequence_token`, `load_resend_store`, `append_resend_store_message`, `store_sent_message`, `validate_inbound_sequence` | called by every send and every receive |
| Session (`application.cpp` 352-579, 772-1113) | `logon_accepted`, `scenarios_sent`, `logout_initiated`, `stop_requested`, the point in the current loop | Logon loop, `process_inbound_message` (SequenceReset, ResendRequest, Logon, TestRequest, Logout), main loop | reads the parser, writes the socket, moves the sequence state |
| Timers (`application.cpp` 975-1063) | `last_send_ms`, `last_recv_ms`, `test_request_sent_ms`, `scenario_sent_ms`, `last_scenario_response_ms`, `logout_start_ms` | Logout after 5 s without an answer or 300 ms of quiet, 2 s of waiting for the Logout, TestRequest, Heartbeat | decide what the main loop sends |
| Scenario runner (`application.cpp` 582-698, `fix_template.cpp`) | the position in the files, generated identifiers | one send per line | `send_current_message` |
| Regression runner (`fix_regression.cpp`) | the scenario in progress, verdict and counts, `clr` identifiers | BGN, SND, RCV, TST, END | its own store of sent messages, `read_next_business_message` |
| Stream parser (`fix_parser.cpp`) | the byte buffer | `append_bytes`, `read_next_message` | feeds the session |
| Message builder (`fix_message.cpp`) | session identifiers | `build_*`, `build_from_fields` | used by every send |
| Configuration (`config_parser.cpp`), socket (`socket.cpp`), utilities (`utils.cpp`), command line (`main.cpp`) | sessions, a descriptor, nothing, nothing | `load`, `connect`/`send_bytes`/`receive_bytes`, `find_tag_value` | |

What makes each component correct, and what is hard about it:

* **Sequence state.** A number is used for one message; a restart repeats one
  at most; what is resent is what was sent; no inbound number is lost sight of
  and none is acted on twice. Hard: a send is a socket write, an append, a
  truncation and a rewrite, and the process may die between any two; files of
  the day outlive resets and hand edits; failures of the files are ignored.
* **Session.** Every inbound number is taken, asked for or waived; a
  ResendRequest gets a reply the counterparty can use; fatal errors and Logouts
  end the session; two Logouts that cross do not multiply. Hard: the dispatcher
  is shared by three loops which do not treat its results alike.
* **Timers.** The session ends; a Heartbeat is sent in time and not out of
  turn. Hard: `now_ms` is read once per pass and used after the clock moved.
* **Scenario runner, templates, configuration.** Every message carries the names
  the configuration file gives the session and its own number; an identifier
  belongs to one order. Hard: what a key means depends on the order of the
  lines, an identifier is kept across the lines of one file and no further, and
  its parts are taken modulo something.
* **Regression runner.** A verdict belongs to the answers to the scenario's own
  orders, every verdict is counted, and the run ends. Hard: an answer may be
  later than the read that waits for it, and reads look at their deadline
  between receives only.
* **Parser.** Every complete message is delivered, once, in order, however the
  bytes were cut. Hard: the buffer is cut where nothing was found, and a
  malformed message decides where the next one is looked for.

The individual hazards, at their lines, are in `PROJECT.json` under `hazards`.

## 2. The modules

| Module | Models | Size of the step |
|---|---|---|
| `SequenceStore` | the numbers, the resend store, the two files, start-up and crashes | one write to one file |
| `OutboundLog` | what the counterparty may rely on about the numbers it sees (abstract) | one message |
| `SequenceStoreProofs` | type correctness, store fidelity, inbound bookkeeping | |
| `SequenceStoreRestartProofs` | what a restart repeats; the refinement of `OutboundLog` | |
| `FixMessages` | the tags the session looks at, `get_int_tag`, `is_admin_message`, gap fills | |
| `FixSession` | one session, from connect to close, in either mode | one handler, one message, one loop decision |
| `MCFixSession` | the inbound messages and starting points TLC uses | |
| `FixSessionProofs` | the session's invariants | |
| `SessionTimers` | the clocks of the logon loop, the reads and the main loop, in both modes | a unit of time in `recv`, a decision of a loop |
| `SessionTimersProofs` | the deadlines of the timers | |
| `SessionLoops` | which loop does what next, and what ends the session where (abstract); `FixSession` and `SessionTimers` implement it | one message, one receive, one decision of a pass |
| `FixParser`, `MCFixParser` | the stream parser against the builder | one receive, one `read_next_message` |
| `FixParserProofs` | what is read of the stream, and what is kept of it | |
| `RegressionRunner`, `MCRegression` | the regression runner and its reads, against late answers | one command, one read, one receive |
| `RegressionRunnerProofs` | verdicts, totals and drains | |
| `ConfigFile` | the configuration parser, and what a file says as a whole | one line |
| `FixTemplate` | `fix_template_apply` and the generated identifiers | (operators) |
| `LiveScenario`, `MCLiveScenario` | a live run from the configuration file to the last line sent; composes the two above | one line of either file |
| `ConfigFileProofs`, `LiveScenarioProofs` | the configuration as written, the messages sent | |

`FixSession`, `SessionTimers` and `RegressionRunner` look at the same loops from
three sides: what is done with a message, when the loop acts by itself, and what
a script makes of the messages. Each leaves open what another decides. That the
first two are models of the same loops is checked and proved: both implement
`SessionLoops`.

### SequenceStore

`out`, `in`, `sent` are `sequence_state` and `sent_messages`; `token` and
`resend` are the files; `pc` is the point in the code and `after` the point
`save_sequence_token` returns to. A send is `Transmit` (the socket write, by
`SendLogon`, `SendAdmin`, `SendScenarioLine`, `SendStep`, `DetectGap`), then
`StoreMessage` (`store_sent_message` and `outbound_seq++`), then
`TruncateToken` (`fopen(path, "w")`) and `WriteToken` (`fprintf`, `fclose`).
`Stop` may come between any two of these and leaves the disk as it is. `Start`
is `read_sequence_token` with its four cases (reset, no file, old format,
unreadable), `LoadStore` is `load_resend_store`, whose last line for a number
wins. `EditToken` is the README's way to test numbers (the operator's doing, not
the program's), `NewDay` the change of both file names at midnight UTC. What
`HandleMessage` sends in reply to a ResendRequest goes out under old numbers; it
is neither stored nor counted, and not part of `wire`.

`wire`, `first`, `high`, `ever`, `settled` and `handled` are history: what was
transmitted and received since the numbering began. The numbering begins again
(`Renumber`) when the start-up has rewritten the token or the operator has.

What a run may see beside the plain live mode is the constant `Deviations`:
the test mode, scenario lines without tag 34, an append that fails
(`appendFails`), a token file that cannot be opened (`OpenFails`) or written
(`WriteFails`, whose failure the code does not notice).

### FixSession

`phase` is the loop the process is in and `at` the point in it: `top` before the
loop's decisions, `recv` at `receive_bytes`, `drain` at `read_next_message`,
`handle` after the sequence check, `resend` in the loop of
`handle_resend_request`, `command` between two lines or script steps, `beat`
between the TestRequest and the Heartbeat test. The five outcomes of
`validate_inbound_sequence` are the actions `NoSeqNum`, `SeqGap`, `SeqPossDup`,
`SeqTooLow` and `SeqInOrder`; each handler of `process_inbound_message` is an
action; `StopRequested` and `NextMessage` say where the loop that called goes
on, which is where the three loops differ. `rx` counts the complete messages in
the parser, so that the Logon loop, which breaks on the Logon, leaves the rest
for later as the code does.

When a timer expires is open (any pass may find it expired); the order in which
one pass looks at the timers is the code's. A receive or a send that fails is
`ConnectionLost`, at any point. `got`, `asked`, `skipped`, `seen`, `logouts`,
`firstIn` are history; `peer` is what a counterparty that reads the reply to
its ResendRequest expects next.

### SessionTimers

Time stamps are modelled by their ages (`age`), capped where no comparison can
tell any more; `lag` is how old the `now_ms` of the current pass has become, so
that `Elapsed` is the unsigned `now_ms - stamp >= limit` with its wrap-around.
Time passes in two places, as in a process with one blocking thread: in `recv`
(`Tick`; `ReceiveTimeout` after `RecvTimeout`) and in a send, which may block
for up to `SendTime`. `LogonWait`, `StartRead`/`ReadOn` and the chain
`ConsiderLogout`, `AwaitLogout`, `ProbePeer`, `Heartbeat` are the decisions of
the logon loop, of a regression's reads and of one pass of the main loop, in
the code's order. Which messages come, and what they are, is open; what a message
draws from the client (`AnswerTime`) takes time and renews `last_send_ms`, also the
ResendRequest behind a Logon answer that opens a gap. The clocks
of a regression's script run as in the code: its receives leave `last_recv_ms`
alone.

### SessionLoops

What `FixSession` and `SessionTimers` have in common, without messages, numbers
and clocks: the loops and their points, the parser's messages by their number,
and the three flags of `run`. It promises the order of the phases, when each
loop receives and when it empties the parser (a read of the script does so
first, the other two after a receive; the logon loop leaves off at the Logon),
that a request to stop is lost on the script only, and that a pass of the main
loop decides one thing: the client's Logout, a TestRequest, or an end of the
session. `rest` is what is left of the pass then.

`FixSession` maps to it with the message it works on counted among the parser's
(`LoopRx`), so that the sequence check is a stutter and the end of the handler
is the step. `SessionTimers` maps the tests of a pass to `top` until one has been
decided, and behind a TestRequest or a Logout of the same pass to `rest`;
`JustInitiated` finds the latter by the time stamps: `logout_start_ms` is
`now_ms`. Time passing is a stutter.

### FixParser

The stream is a sequence of symbols; "8=FIX" is two of them, so that a receive
can end inside of it, and a number is a symbol of its own. `Build` is
`build_from_fields` with its computed length. `AppendBytes` takes any number of
symbols of the stream, `ReadNext` is one call of `read_next_message`, whose
outcomes are `NoMessage` (with the tail that is kept), `ReadMessage` (returned
or thrown away) and what follows in the buffer. `Places` finds a tag wherever
its text stands, as the code's `find` does, also inside other text. An item of
the stream is `good` (a message as `build_from_fields` makes it, with a body the
parser accepts: `IsFrame`), `noise` (no BeginString in it, and no end of one at
its front: `IsNoise`) or `bad` (anything).

### RegressionRunner

`regression` holds the files with their commands, `net` and `rx` the answers
under way and in the parser, each an order it answers. `Answer` may repeat an
answer, send one late or for no order at all. `Drain`/`DrainRead` are the reads
before a BGN, `Discard` RCV, `Test` TST; `CheckDeadline`, `ParserEmpty`,
`Receive` and `ReceiveTimeout` are the read loop. Of the fields a TST compares,
tag 11 with its `clrN` is modelled in full, the others by the outcome.
`stray` remembers a scenario whose TST, naming a `clrN`, accepted another
scenario's answer. `Closed` are the ENDs passed that close a scenario as the text
of the files has it; the verdicts are counted against it. A run may have no file.

### ConfigFile, FixTemplate, LiveScenario

`ReadLine` is one turn of `ConfigParser::load` with its section names, defaults
and conversions. `Written` says what the file as a whole means, without reading
it line by line. `LiveScenario` loads the file, takes the session
(`GetSession`), sends the Logon (`SendLogon`), answers what comes until the Logon
is answered (`SendAnswer`: a ResendRequest for a gap, a Heartbeat; each takes a
number) and then sends the lines of the files, each through `fix_template_apply`
and `build_from_fields`. A text is a model value; an
identifier is its prefix and its three numbers, each of fixed width in the text,
so that two texts are equal exactly if the tuples are. `sent` is the history of
messages: their fields after the template, and the line they came from.

## 3. What the runs check

| Run | Checks | Instance | Shows |
|---|---|---|---|
| `store_live` | `TypeOK`, `ResendsWhatWasSent`, `EveryMessagePersisted`, `TokenLagsAtMostOne`, `NeverHandledTwice`, `ImplementsOutboundLog` | 3 numbers, 3 bodies, no deviation | a crash between any two writes, a reset over an old `.resend` file, hand edits and new days leave files, memory and wire consistent |
| `store_degraded` | `NothingForged`, `NoInboundForgotten` | 2 numbers, every deviation | what survives when files fail and both modes mix |
| `store_test_mode` | `ResendFileComplete`, violated | 3 numbers, test mode | a `SND` step is not in the `.resend` file |
| `session_live` | `TypeOK`, `InboundAccounted`, `TooLowDisconnects`, `LogoutEndsSession`, `AtMostOneLogout`, `ResendClosesGap` | 4 outbound numbers, 2 waiting messages, 23 inbound messages, 2 starts | the live session against a counterparty that sends anything in any order |
| `session_test` | `InboundAccounted`, `ImplementsLoops` | the same, test mode | the same with a script that reads and sends in any order; the session has the loops of `SessionLoops` |
| `session_test_too_low` | `TooLowDisconnects`, violated | test mode | a fatal sequence error does not end a regression |
| `session_end_zero` | `OpenEndedRequestServed`, violated | live mode | `16=0` ends the session although the handler has a case for it |
| `session_timers` | `TypeOK`, `SilenceBounded`, `AnsweringPeerKept`, `LogoutOnTime`, `NoMessageLeftBehind`, `HeartbeatInTurn`; `ImplementsLoops`, `LogonEnds`, `ScenarioEnds`, `DeadPeerEnds`, `LogoutEnds` | `recv` 1, a send 0..1, limits 2..4, ages to 12, 2 lines, 2 waiting messages, both modes | the timers fire in time and only then, every wait ends, and the timed loops are those of `SessionLoops` |
| `parser` | `TypeOK`, `BuiltIsDelivered`, `GoodMessageKept` | streams of 2 and 3 items out of 15 | well-formed messages survive any cut, and the buffer holds one of them at most; a malformed one that ends itself costs no other if receives end with messages |
| `parser_stalled` | `FalseOnlyIfIncomplete`, violated | a message with a BodyLength that is no number, and two good ones | nothing is read any more |
| `regression` | `TypeOK`, `PassedOnOwnAnswers`, `VerdictsCounted`, `DrainedBeforeBegin`, `ScriptEnds` | 7 regressions, 4 messages, 3 drain reads, TST of 2 receives | no named TST passes on another scenario's answer, the totals are those of the text, an end |
| `live_scenario` | `TypeOK`, `LoadedAsWritten`, `SentAsConfigured`, `OriginalOfFile`, `ClOrdIdOfOneOrder` | every configuration of up to 4 lines of 7, and 3 more; 3 scenarios of two files; 1 message before the Logon is answered; time modulo 2, numbers modulo 4, counters modulo 2 | what is sent is what the two files say |

Each property of a passing run has a mutant of the code in `PROJECT.json` that
violates it. The mutants stand in the modules before the definition they
replace, marked `Mutant:`.

**Bounds.** `MaxSeq` bounds the numbers. Three are enough for the store: one
below, one in flight, one to come, with a gap between; every interleaving of a
crash with the writes of one send, and with those of the send after the
restart, fits. In `FixSession` four outbound numbers let a session that resumes
at 3 log on, ask for a resend and log out, and let a reply span a kept business
message, an administrative one and one that was not kept. `RxBound` 2 is what
makes "the loop stops with a message still waiting" happen. The inbound
messages of `MCInbound` are one of each kind the code tells apart, at the
numbers where its decisions fall, including missing tags, 0, and a number past
`get_int_tag`'s limit. A step that would use a number past `MaxSeq` is not
taken; nothing is checked about 2000000000 sends.

In `SessionTimers` the unit is the receive timeout. What matters is the order of
the limits and that each is longer than a receive: a receive fits into each
several times, a send can move a clock past a limit, and `Cap` is past every
limit with its slack (`TimersAssumption`), so an age at the cap is only "long
ago". In `FixParser` three items are one in front of, one behind and the
malformed one; `MaxBodyLen` 13 is long enough for a wrong BodyLength to land on
the trailer of the message behind, and on the "10=" at the end of a tag in its
body; `Keep` 2 leaves less than the code's 8 bytes, and still enough for the
symbols of "8=FIX". Of the 7 regressions, one has no file, three have two files, one of
them with a scenario its file cuts off; one has two scenarios in a file, one reads without
names, one nested and unfinished scenarios; with 4 messages against 3 reads of the drain its limit is reached,
and late answers of the first scenario can outlast it. In `LiveScenario` four
lines reach every order of a default, a section and two of its keys; numbers
modulo 4 with up to six messages wrap, which is why `ClOrdIdOfOneOrder` and
`OriginalOfFile` speak of `Close` numbers; counters modulo 2 wrap in a line of
three orders, and one message in the logon loop moves every number behind it.

**Deadlock** is checked in the runs of `SequenceStore` and `FixSession`: the
store can always stop or start, and a closed session stutters (`Exited`). The
others really stop: a session that has ended, a stream that is used up, a
regression that has returned, a scenario that is through. There `CHECK_DEADLOCK`
is `FALSE`.

**Fairness.** `SessionTimers` has `WF_vars(Thread)`: the only thread of the
process runs on whenever it is not blocked in `recv`. `SF_vars(Tick)`: the clock
does not stop. Weak fairness would not say that, because a `recv` that returns
at once makes time not pass, and again the next time; strong fairness says that
of infinitely many receives infinitely many take time. `RegressionRunner` says
the same with `WF_vars(Step)` and `SF_vars(Pause)`. Nothing is assumed of the
counterparty: `Receive`, `PeerGone`, `Answer` and `Broken` have no fairness. Two
properties have a hypothesis on it instead, as part of the formula:
`ScenarioEnds` if business messages stop, `DeadPeerEnds` if bytes stop.
`SequenceStore`, `FixSession`, `FixParser` and `LiveScenario` state safety only.

## 4. What is proved

| Theorem | States | Under |
|---|---|---|
| `TypeCorrect` | `TypeOK` of `SequenceStore` | - |
| `LiveModeResendsWhatWasSent` | `ResendsWhatWasSent` | `PlainMode` |
| `LiveModePersistsEveryMessage` | `EveryMessagePersisted` | `PlainMode` |
| `NothingIsForged` | `NothingForged` | - |
| `NoInboundIsForgotten` | `NoInboundForgotten` | - |
| `RestartRepeatsAtMostOne` | `TokenLagsAtMostOne` | `SavedMode` |
| `StoreImplementsLog` | `ImplementsOutboundLog` | `SavedMode` |
| `NothingIsHandledTwice` | `NeverHandledTwice` | saves succeed |
| `SessionTypeCorrect` | `TypeOK` of `FixSession` | - |
| `EveryInboundNumberAccounted` | `InboundAccounted` | - |
| `EveryReplyClosesTheGap` | `ResendClosesGap` | - |
| `SessionImplementsLoops` | `ImplementsLoops` of `FixSession` | - |
| `LiveModeTooLowDisconnects`, `LiveModeLogoutEndsSession`, `LiveModeAtMostOneLogout` | the invariants of the same name | `~TestMode` |
| `TimersTypeCorrect`, `ClientIsNeverSilent`, `AnsweringPeerIsKept`, `LogoutIsOnTime`, `NoMessageIsLeftBehind`, `HeartbeatsInTurn` | `TypeOK`, `SilenceBounded`, `AnsweringPeerKept`, `LogoutOnTime`, `NoMessageLeftBehind`, `HeartbeatInTurn` of `SessionTimers` | - |
| `TimersImplementLoops` | `ImplementsLoops` of `SessionTimers` | - |
| `RunnerTypeCorrect`, `ScenariosPassOnOwnAnswers`, `VerdictsAreCounted`, `ScenariosBeginDrained` | `TypeOK`, `PassedOnOwnAnswers`, `VerdictsCounted`, `DrainedBeforeBegin` of `RegressionRunner` | - |
| `LiveTypeCorrect`, `ConfigurationIsAsWritten`, `MessagesSentAsConfigured`, `OriginalNamesOneOrder`, `ClOrdIdsOfOneOrder` | `TypeOK`, `LoadedAsWritten`, `SentAsConfigured`, `OriginalOfFile`, `ClOrdIdOfOneOrder` of `LiveScenario` | - |
| `TypeCorrect`, `BuiltAreDelivered`, `GoodMessagesAreKept` (of `FixParserProofs`) | `TypeOK`, `BuiltIsDelivered`, `GoodMessageKept` of `FixParser` | - |
| `WaitsAreBounded` | `WaitsBounded`: in `recv`, no deadline of `SessionTimers` has passed by more than the receive and the sends since | - |
| `RunAdvances` | every step of `RegressionRunner` makes its `Rank` smaller, ends the run, or waits | - |
| `BuiltIsFrame` | what `Build` makes of any fields is a message (`IsFrame`) | the body is not too long |

The assumptions on constants (`ConstantsAssumption`, `SessionAssumption`,
`SeqLimitAssumption`,
`RunnerAssumption`, `ConfigAssumption`, `TemplateAssumption`, `LiveAssumption`)
only say what kind of value each is; `TimersAssumption` also that the cap lies
past the limits and past the two intervals of a main loop that hears nothing, and `RunnerAssumption` that the drain waits for one receive
(`Deadline["BGN"] = 1`: 5 ms against a receive timeout of 200 ms);
`ParserAssumption` says what the kinds of items are, which for good ones
`BuiltIsFrame` proves of whatever the builder makes. The conditions of the
third column are the ones the code needs, and TLC finds the property violated
without them: `PlainMode` (lines carry tag 34, the `.resend` file can be
appended to, not the test mode; token saves may fail), `SavedMode` (lines carry
tag 34, saves succeed, not the test mode; appends may fail), `~TestMode`.

The arguments, by their inductive invariants:

* `TypeInv` adds to `TypeOK` what the point in the code says of the message in
  flight: it has a body and a number left, a gap being asked for is a number, a
  message being handled has been counted, and a file between truncation and
  rewriting is unreadable.
* `StoreInv`: the `.resend` file is faithful to the wire up to `outbound_seq`
  *and* up to the number in the token file. The second is what a crash needs:
  it holds at every write because the token is written last, and it is not a
  consequence of the first after a crash.
* `LagInv` relates the wire, the token and `outbound_seq` at each point of a
  send; with `wire[token.out] # NoMessage` when the token lags, a restarted
  Logon is the log's `Repeat` and every other send its `Append`. The abstract
  state is read off directly (`log <- wire`, `next <- high`).
* `InboundInv`: the numbers below `inbound_seq` are settled, and from the moment
  the ResendRequest is on the wire so are those below the gap.
* `HandledInv`: what was handled is below the saved number, and strictly below a
  message that is counted and not yet handled.
* `ForgedInv`: the message in flight was transmitted under its number.
* In `FixSessionProofs`, `AccountInv` needs `firstIn <= in` beside the property:
  it is the three sets' union being an interval that makes them disjoint from
  what the next step adds. `ResendInv` says that in the loop of
  `handle_resend_request` the counterparty waits for exactly the next number
  (`Absorb` of each reply moves it by one), so at the end it waits for the one
  after the last. `PhaseInv` ties `at` to a closed session, which is also all that
  the refinement of `SessionLoops` needs beside the types; `EndInv` says that an
  open session has seen no reason to end and has sent a Logout exactly if
  `logout_initiated`.

* In `SessionTimersProofs` a timer is looked at once per pass, so `TimerInv` says
  at each point of the pass which timers have been found not expired, and how
  much time can have passed since: nothing at `peer`, one send at `heartbeat`,
  two sends and the time in `recv` below. The bounds of `LogoutOnTime` and of
  `SilenceBounded` in the main loop are its instance at `recv`. `StampInv` compares
  stamps with one another: the Logon is as old as the logon loop, the Logout as
  `logout_start_ms`, and the stamp a Logout was decided on keeps its distance to it,
  for nothing renews it any more; that is why the Logout is never early.
  `LeftInv` follows a main loop that has heard nothing yet through its first
  interval, its TestRequest and the second, which bounds how long a message that
  the logon or a script left can lie in the parser. `PassInv` says where `lag` can be
  positive, which makes `HeartbeatInTurn` the only effect of the wrap-around;
  `PendingInv` that nothing arrived since a TestRequest that is pending. In the
  refinement of `SessionLoops` what has to be shown is that the tests of a pass
  exclude each other: behind a Logout of the pass the wait for its answer is not
  over, because its age is that of `now_ms` (`JustInitiated`, and `lag` is 0
  before), and `ProbePeer` is reached without one (`PassInv`).
* In `RegressionRunnerProofs`, `PlaceInv` says where the runner can be and that a
  read other than a drain is inside a scenario; `QueueInv` that a ClOrdID that was
  made up names the scenario it was made for (`Order`), and that a drain leaves
  of the old messages no more than it has reads left, and none once it waits;
  `VerdictInv` that the scenario in progress is not counted yet and its failures
  are those since its BGN; `CountInv` that a scenario is in progress exactly where
  the text of the file has an open BGN, so that each END counted is one of `Closed`.
* In `ConfigFileProofs`, `ConfigInv` says that after some lines the defaults and
  each section are what *those lines* say as a whole (`Says`). `ReadLineInv`
  moves it by a line: an assignment is the last of its key, and the first line
  of a section fixes which defaults count (`Above`). `WhatIsWritten` reads it off
  at the end of the file.
* In `LiveScenarioProofs`, `RunInv` says that from the Logon on the configuration
  is the session's of a file that was read to its end; `MessageInv` that each
  message has the header (`LineMessage`: the first field of a tag is overwritten
  and `build_from_fields` keeps the order; `BuiltMessage`: `build_message` writes it)
  and, but for `${ORG_CLRID}`, identifiers of its own number, which differ as their
  counters do (`OwnIds`, `CountersDiffer`); `OrgInv` that a file's `${ORG_CLRID}` was made
  for one of its messages. Two identifiers that agree are then of numbers that
  agree modulo `SeqMod`, and `CloseRemainders` makes them one.

* In `FixParserProofs`, `TypeInv` says that the buffer is an interval of the
  stream that ends at `taken`; each outcome of `read_next_message` is then
  stated in places of the stream, whatever was cut off in front. `DeliveryInv`
  names the item the parser has come to: the items in front of it are read
  (`ReadUpTo`), the buffer begins no later than where they end, and what is left
  of them holds no BeginString, so the next one found is the next good item's.
  From a malformed item on only what was read before is known
  (`ReadToMalformed`). `Short` is what the buffer can hold between two receives
  meanwhile. `KeptInv` says of a good item that has been received, with malformed
  ones in front of it that end themselves, that the buffer begins no later than it,
  or behind it, and then it was delivered: a message that is read or thrown away and
  begins in a malformed one ends in that one too, for what the parser looks for is
  in its own bytes (`ReadsWithin`, `LengthOfPart`).

The parser's operators search and join sequences of any length. What they
compute is proved from the least place where it would be wrong (`MinOf`,
`JoinsAgree`), for the induction theorems of the library cannot be instantiated.

Only model-checked: the temporal properties (`LogonEnds`, `ScenarioEnds`,
`DeadPeerEnds`, `LogoutEnds`, `ScriptEnds`), for liveness under fairness is out of
the prover's reach. What they need of safety is proved: `WaitsAreBounded`
(`DeadlineInv` follows a deadline from where it is looked at to the next `recv`)
says that no wait outlasts its deadline if the clock goes on, `LogoutOnTime` says
so of the Logout and its answer, and `RunAdvances` that a regression that does
not end would receive without end and without time passing, which `SF_vars(Pause)`
excludes. Every other property of a passing run is proved. The
violated properties are refuted by their runs.

## 5. What was found

1. **Test mode does not write the `.resend` file** (`src/fix_regression.cpp`
   115-129, 405; `store_test_mode`). The README says every sent message is
   written. A restart after a regression answers a ResendRequest for its
   orders with gap fills.
2. **A sequence number that is too low does not disconnect during a
   regression** (`src/fix_regression.cpp` 281, 332, 440; `session_test_too_low`).
   The flag goes to a local variable nobody reads, against the README. The
   message is even handed to the next `TST`.
3. **`EndSeqNo` 0 is refused** (`src/application.cpp` 73, 366, 371;
   `session_end_zero`). `get_int_tag` rejects 0, so the case
   `end_seq_no == 0` cannot hold, and the FIX convention for "everything up to
   now" closes the session.

4. **A message whose BodyLength is no number stops the parser**
   (`src/fix_parser.cpp` 99; `parser_stalled`). `fix_parser.h` says that
   `read_next_message` returns false if there is no full message yet; it also
   returns false, forever, with full messages behind the malformed one.

Behaviour worth knowing that no document contradicts:

* A crash between `fopen` and `fprintf` leaves an empty token and the next start
  begins at 1:1. An inbound message that is counted and saved but not yet
  handled at a crash is lost (that is why `NeverHandledTwice` holds).
* Messages that came with the Logon answer, or behind the one a script's last read
  took, wait in the parser until more bytes arrive, or until the session is given
  up for silence (`received` and the bound in `NoMessageLeftBehind`).
* A regression script sends no Heartbeat, however long it reads: `SilenceBounded`
  holds in the logon loop, in the main loop and while the Logout is awaited, and
  for the first send behind a script, not in the script's reads.
* A TestRequest that takes a millisecond to send is followed by a Heartbeat at
  once: `now_ms - last_send_ms` wraps (`HeartbeatInTurn`).
* A regression does not move `last_recv_ms`, so the main loop after a long script
  begins with a TestRequest; that never ends an answering session
  (`AnsweringPeerKept`).
* Where no "8=FIX" is found the parser keeps the last bytes, but behind a message
  it threw away it keeps nothing, also not the beginning of the next one
  (`whole` in `GoodMessageKept`). A malformed message takes the next one with it,
  and both are read as one, if it has no separator behind its checksum, or if its
  BodyLength leads to the trailer of the next one or to a "10=" in its body, as in
  "110=", or if it has no BodyLength of its own. Those are the conditions of
  `EndsItself`, and TLC finds `GoodMessageKept` violated without any one of them.
* A line that generates a ClOrdID and refers to `${ORG_CLRID}` for the first time
  in its file gives both the same value: they share the counter. So do two
  of more than 100 ClOrdIDs in one line. Both are exceptions of `ClOrdIdOfOneOrder`,
  which covers the fields of one message as well as those of two.
* A line is sent with the header fields it has: one without tag 34, 49, 56 or 52
  goes out without it (`Carries` in `SentAsConfigured`).
* The drain takes a fixed number of messages and leaves what its last receive
  brings, so a scenario can begin with an old answer in the parser; a `clrN`
  names its scenario and is not taken in by it (`PassedOnOwnAnswers`), an
  unnamed TST is.
* A BGN inside a scenario, and the end of a file, forget the open scenario with
  its failures: a regression without END passes, and so does an empty directory
  (`VerdictsCounted` counts the scenarios that the text closes).

## 6. Plan

Done, in this order: `SequenceStore`, `OutboundLog`, `FixMessages`,
`FixSession` and their proofs; `SessionTimers`; `FixParser`;
`RegressionRunner`; `ConfigFile`, `FixTemplate` and `LiveScenario`; the proofs
of the last, and those of the parser; `SessionLoops` and the two refinements.

Left:

1. The regression runner as an implementation of the script phase of
   `SessionLoops`, by the reads of its commands.
2. A partial line in the `.resend` file after a crash.

## 7. What is not modelled

* Text: field order, timestamps, logging, hex encoding, colours. No decision of
  the modelled code depends on them; `find_tag_value` is presence or absence.
* A line of the `.resend` file that is cut in the middle by a crash. The loader
  skips a line that does not decode, but one that was cut at an even number of
  digits decodes to a shorter message; the model appends whole lines.
* `SIGPIPE`, kill and power loss are one event, `Stop` or `ConnectionLost`. The
  files are what the last completed write left; the operating system's write
  cache is outside (the code never calls `fsync`).
* `read_token` and `save_token` of `token_handler.cpp`, `fix_template_load` and its
  helpers, and `FixParser::reset`, which nothing calls.
* The value of the checksum: the builder computes one and nothing in the client
  reads it; `FixParser` has its place.
* The loop of `send_bytes` over partial sends is one send that takes time and may
  fail.
* The bodies of what the session answers before the Logon is answered
  (`SendAnswer`): their header and number are modelled.
* Gap fills are tags in `FixMessages`; that they and resent messages carry
  `43=Y` or not, and in which order their fields stand, is layout.
* The splitting of a scenario line into fields, of a configuration line into key
  and value, and of a regression line into its command and its fields. Their
  results are what the models start from; lines that leave no trace are left
  out.
* The command line keeps no state.
