--------------------------- MODULE SessionTimers ----------------------------
(***************************************************************************)
(* The clocks of Application::run: how long each loop waits, and what it   *)
(* decides from the time stamps it keeps.                                  *)
(*                                                                         *)
(* A time stamp is modelled by its age. Time passes only where the thread  *)
(* blocks: in recv, which returns after RecvTimeout at the latest, and in  *)
(* a send, for at most SendTime. A pass of the main loop reads the clock   *)
(* once, at its top: `lag` is how old that reading has become.             *)
(*   src/src/application.cpp     run, read_next_business_message           *)
(*   src/src/fix_regression.cpp  run_file (its reads and its sends)        *)
(* Numbers, stores and the contents of messages are in FixSession.         *)
(***************************************************************************)
EXTENDS Naturals

CONSTANTS
  RecvTimeout,   \* receive_timeout_millis
  LogonTimeout,  \* logon_timeout_seconds
  ReadTimeout,   \* timeout_test_ms, timeout_discard_ms
  FirstResponse, \* scenario_first_response_timeout_ms
  Quiet,         \* scenario_quiet_ms
  LogoutWait,    \* 2000ULL
  Interval,      \* heartbeat_interval_ms
  SendTime,      \* bound: the longest a send blocks
  Cap,           \* bound: older than this is as old as this
  MaxLines,      \* bound: scenario lines, or commands of the script
  RxBound        \* bound: complete messages waiting in the parser

Limits == {LogonTimeout, ReadTimeout, FirstResponse, Quiet, LogoutWait, Interval}

\* Every limit is a positive time (run refuses a heartbeat_interval <= 0), and
\* an age below Cap is exact wherever a limit is compared with it.
ASSUME TimersAssumption ==
  /\ RecvTimeout \in Nat \ {0} /\ SendTime \in Nat /\ Cap \in Nat
  /\ MaxLines \in Nat /\ RxBound \in Nat \ {0}
  /\ \A d \in Limits : d \in Nat \ {0} /\ d + RecvTimeout + 2 * SendTime < Cap
  /\ 2 * (Interval + RecvTimeout) + 3 * SendTime < Cap

VARIABLES
  test_mode,                 \* args.is_test_mode
  phase, at,                 \* as in FixSession: the loop, the point inside it
  rx,                        \* complete messages in the parser's buffer
  age,                       \* age of each time stamp
  lag,                       \* age of now_ms inside a pass of the main loop
  wait,                      \* time spent in the current recv
  lines,                     \* scenario lines or commands left
  scenarios_sent, scenario_response_started, logout_initiated,
  test_pending,              \* test_request_sent_ms # 0
  received                   \* history: a receive of the main loop brought bytes

\* begun: logon_start_ms, then start_ms of a read, then scenario_sent_ms: each is
\* looked at in its own phase only.
Stamps == {"send", "recv", "test", "begun", "resp", "logout"}

clock == <<age, lag, wait>>
flags == <<scenarios_sent, scenario_response_started, logout_initiated, test_pending>>
vars  == <<test_mode, phase, at, rx, clock, lines, flags, received>>

Capped(t) == IF t > Cap THEN Cap ELSE t

\* d passes, then the clock is read into the stamps of S.
Pass(d, S) == [s \in Stamps |-> IF s \in S THEN 0 ELSE Capped(age[s] + d)]

\* now_ms - stamp >= limit, in uint64_t: a stamp younger than now_ms wraps.
Elapsed(s, limit) == age[s] < lag \/ age[s] - lag >= limit

Close(why) == phase' = "closed" /\ at' = why

\* send_current_message: d passes in send_bytes, then last_send_ms is read.
SendCurrent(d) == age' = Pass(d, {"send"})

\* A send fails: every caller ends the session.
SendFails == Close("broken") /\ UNCHANGED <<clock, flags>>

-----------------------------------------------------------------------------
(* recv, in all loops                                                      *)

Blocked == at = "recv" /\ phase # "closed"

\* Time passes in recv.
Tick ==
  /\ Blocked /\ wait < RecvTimeout
  /\ wait' = wait + 1
  /\ age' = Pass(1, {})
  /\ UNCHANGED <<test_mode, phase, at, rx, lag, lines, flags, received>>

\* Where a loop looks next when recv has returned.
Top == IF phase = "main" THEN "first" ELSE "top"

\* Mutant: bytes do not clear a pending TestRequest.
StillPendingAlways == test_pending

\* test_request_sent_ms = 0, except in the reads of a regression script.
StillPending == phase = "script" /\ test_pending

\* Bytes arrive: any number of messages is complete with them, or none. The read
\* of a regression script leaves last_recv_ms and test_request_sent_ms alone and
\* looks at its own deadline first.
Receive ==
  /\ Blocked
  /\ \E n \in 0..(RxBound - rx) : rx' = rx + n
  /\ age' = IF phase = "script" THEN age ELSE Pass(0, {"recv"})
  /\ test_pending' = StillPending
  /\ at' = IF phase = "script" THEN "top" ELSE "drain"
  /\ wait' = 0
  /\ received' = (received \/ phase = "main")
  /\ UNCHANGED <<test_mode, phase, lag, lines, scenarios_sent,
                 scenario_response_started, logout_initiated>>

ReceiveTimeout ==
  /\ Blocked /\ wait = RecvTimeout
  /\ at' = Top
  /\ wait' = 0
  /\ UNCHANGED <<test_mode, phase, rx, age, lag, lines, flags, received>>

\* recv returns 0 or an error.
PeerGone ==
  /\ Blocked
  /\ Close("broken")
  /\ UNCHANGED <<test_mode, rx, clock, lines, flags, received>>

-----------------------------------------------------------------------------
(* process_inbound_message, for the time it takes and the stamps it moves  *)

\* Mutant: a message is taken from the parser before it is complete.
DrainingTooFar == at = "drain" /\ phase # "closed"

Draining == at = "drain" /\ phase # "closed" /\ rx > 0

Take == rx' = rx - 1 /\ UNCHANGED <<test_mode, wait, lag, lines, received>>

\* A read ends with its business message; the other loops look for the next one.
AfterMessage(business) ==
  at' = IF phase = "script" /\ business THEN "command" ELSE "drain"

\* A message that is handled. `answered`: it draws one or more messages from the
\* client (a Heartbeat, a ResendRequest for a gap, what was requested again).
HandleMessage(business, answered, d) ==
  LET response == business /\ scenarios_sent /\ ~logout_initiated
      stamps   == (IF answered THEN {"send"} ELSE {}) \cup (IF response THEN {"resp"} ELSE {})
  IN
  /\ Draining
  /\ d > 0 => answered
  /\ Take
  /\ age' = Pass(d, stamps)
  /\ scenario_response_started' = (scenario_response_started \/ response)
  /\ AfterMessage(business)
  /\ UNCHANGED <<phase, scenarios_sent, logout_initiated, test_pending>>

\* What a message draws from the client moves last_send_ms, and takes time.
AnswerTime ==
  \E answered \in BOOLEAN, d \in 0..SendTime :
    /\ d > 0 => answered
    /\ age' = Pass(d, IF answered THEN {"send"} ELSE {})

\* The Logon answer, with a ResendRequest if its number opens a gap. The logon loop
\* leaves at once: what is behind it stays in the parser.
LogonAccepted ==
  /\ phase = "logon" /\ Draining
  /\ Take
  /\ AnswerTime
  /\ phase' = "script" /\ at' = "command"
  /\ UNCHANGED flags

\* A Logout, or a number that is too low or missing, requests the end: the script's
\* reads return the message, the other loops close the connection.
StopRequested ==
  /\ Draining
  /\ Take
  /\ AnswerTime
  /\ IF phase = "script" THEN at' = "command" /\ UNCHANGED phase ELSE Close("stopped")
  /\ UNCHANGED flags

\* A reply cannot be sent.
MessageFails ==
  /\ Draining
  /\ Take
  /\ Close("broken")
  /\ UNCHANGED <<age, flags>>

\* Mutant: the main loop, like the logon loop, stops after one message.
DrainedEarly == phase = "main" \/ rx = 0

Drained == rx = 0

\* No complete message is left.
BufferEmpty ==
  /\ at = "drain" /\ phase # "closed" /\ Drained
  /\ at' = IF phase = "script" THEN "recv" ELSE Top
  /\ UNCHANGED <<test_mode, phase, rx, clock, lines, flags, received>>

Process ==
  \/ \E business, answered \in BOOLEAN, d \in 0..SendTime : HandleMessage(business, answered, d)
  \/ LogonAccepted
  \/ StopRequested
  \/ MessageFails
  \/ BufferEmpty

-----------------------------------------------------------------------------
(* The logon loop                                                          *)

\* Mutant: the deadline is a silence.
LogonOverWhenSilent == age["recv"] >= LogonTimeout

LogonOver == age["begun"] >= LogonTimeout

\* The deadline is looked at between two receives only.
LogonWait ==
  /\ phase = "logon" /\ at = "top"
  /\ IF LogonOver
     THEN Close("no_logon")
     ELSE at' = "recv" /\ UNCHANGED phase
  /\ UNCHANGED <<test_mode, rx, clock, lines, flags, received>>

-----------------------------------------------------------------------------
(* run_scenarios, run_file                                                 *)

Command == phase = "script" /\ at = "command" /\ lines > 0

\* A scenario line or a SND step.
ScriptSend(d) ==
  /\ Command
  /\ lines' = lines - 1
  /\ SendCurrent(d)
  /\ scenarios_sent' = TRUE
  /\ UNCHANGED <<test_mode, phase, at, rx, lag, wait, scenario_response_started,
                 logout_initiated, test_pending, received>>

\* A RCV or TST step, or the reads before a BGN.
StartRead ==
  /\ Command /\ test_mode
  /\ lines' = lines - 1
  /\ at' = "top"
  /\ age' = Pass(0, {"begun"})
  /\ UNCHANGED <<test_mode, phase, rx, lag, wait, flags, received>>

\* The read looks at its deadline, then at the parser.
ReadOn ==
  /\ phase = "script" /\ at = "top"
  /\ at' = IF age["begun"] >= ReadTimeout THEN "command" ELSE "drain"
  /\ UNCHANGED <<test_mode, phase, rx, clock, lines, flags, received>>

ScriptFails ==
  /\ Command
  /\ Close("broken")
  /\ UNCHANGED <<test_mode, rx, clock, lines, flags, received>>

\* scenario_sent_ms, and the main loop.
ScriptDone ==
  /\ phase = "script" /\ at = "command" /\ lines = 0
  /\ phase' = "main" /\ at' = "first"
  /\ age' = Pass(0, {"begun"})
  /\ UNCHANGED <<test_mode, rx, lag, wait, lines, flags, received>>

Script == (\E d \in 0..SendTime : ScriptSend(d)) \/ StartRead \/ ReadOn \/ ScriptFails \/ ScriptDone

-----------------------------------------------------------------------------
(* A pass of the main loop, down to its recv                               *)

Main(point) == phase = "main" /\ at = point

\* The client's own Logout; logout_start_ms is the clock of the pass.
InitiateLogout(d) ==
  /\ age' = [Pass(d, {"send"}) EXCEPT !["logout"] = Capped(lag + d)]
  /\ lag' = lag + d
  /\ logout_initiated' = TRUE
  /\ UNCHANGED <<phase, wait, scenarios_sent, scenario_response_started, test_pending>>

Answered == scenario_response_started

\* Mutant: without any answer the client waits on.
LogoutDueAnswered ==
  /\ ~logout_initiated /\ scenarios_sent
  /\ at = "quiet" /\ Answered /\ Elapsed("resp", Quiet)

\* Mutant: any message of the session keeps it open.
LogoutDueWhenSilent ==
  /\ ~logout_initiated /\ scenarios_sent
  /\ \/ at = "first" /\ ~Answered /\ Elapsed("begun", FirstResponse)
     \/ at = "quiet" /\ Answered /\ Elapsed("recv", Quiet)

LogoutDue ==
  /\ ~logout_initiated /\ scenarios_sent
  /\ \/ at = "first" /\ ~Answered /\ Elapsed("begun", FirstResponse)
     \/ at = "quiet" /\ Answered /\ Elapsed("resp", Quiet)

\* No answer at all within FirstResponse, then no further one for Quiet.
ConsiderLogout ==
  /\ Main("first") \/ Main("quiet")
  /\ IF LogoutDue
     THEN \/ /\ \E d \in 0..SendTime : InitiateLogout(d)
             /\ at' = IF at = "first" THEN "quiet" ELSE "wait"
          \/ SendFails
     ELSE /\ at' = IF at = "first" THEN "quiet" ELSE "wait"
          /\ UNCHANGED <<phase, clock, flags>>
  /\ UNCHANGED <<test_mode, rx, lines, received>>

\* Mutant: whatever arrives prolongs the wait for the Logout answer.
LogoutWaitOverWhenSilent == Elapsed("recv", LogoutWait)

LogoutWaitOver == Elapsed("logout", LogoutWait)

\* After its own Logout the client only waits.
AwaitLogout ==
  /\ Main("wait")
  /\ IF ~logout_initiated
     THEN at' = "peer" /\ UNCHANGED <<phase, lag>>
     ELSE /\ IF LogoutWaitOver
             THEN Close("logout_wait")
             ELSE at' = "recv" /\ UNCHANGED phase
          /\ lag' = 0
  /\ UNCHANGED <<test_mode, rx, age, wait, lines, flags, received>>

\* Mutant: the answer to a TestRequest is awaited without end.
AnswerNeverOverdue == FALSE

AnswerOverdue == Elapsed("test", Interval)

\* One TestRequest after Interval without bytes, the end of the session after
\* another Interval.
ProbePeer ==
  /\ Main("peer")
  /\ \/ /\ test_pending /\ AnswerOverdue
        /\ Close("dead_peer")
        /\ UNCHANGED <<age, lag, test_pending>>
     \/ /\ ~test_pending /\ Elapsed("recv", Interval)
        /\ \/ /\ \E d \in 0..SendTime : /\ age' = Pass(d, {"send", "test"})
                                        /\ lag' = lag + d
              /\ test_pending' = TRUE
              /\ at' = "heartbeat"
              /\ UNCHANGED phase
           \/ Close("broken") /\ UNCHANGED <<age, lag, test_pending>>
     \/ /\ IF test_pending THEN ~AnswerOverdue ELSE ~Elapsed("recv", Interval)
        /\ at' = "heartbeat"
        /\ UNCHANGED <<phase, age, lag, test_pending>>
  /\ UNCHANGED <<test_mode, rx, wait, lines, scenarios_sent,
                 scenario_response_started, logout_initiated, received>>

\* Mutant: Heartbeats follow the silence of the counterparty.
HeartbeatDueWhenPeerSilent == Elapsed("recv", Interval)

\* Mutant: a Heartbeat is sent a receive early.
HeartbeatDueEarly == Elapsed("send", Interval - RecvTimeout)

HeartbeatDue == Elapsed("send", Interval)

\* A Heartbeat after Interval without a send.
Heartbeat ==
  /\ Main("heartbeat")
  /\ IF HeartbeatDue
     THEN \/ (\E d \in 0..SendTime : SendCurrent(d)) /\ at' = "recv" /\ UNCHANGED phase
          \/ Close("broken") /\ UNCHANGED age
     ELSE at' = "recv" /\ UNCHANGED <<phase, age>>
  /\ lag' = 0
  /\ UNCHANGED <<test_mode, rx, wait, lines, flags, received>>

Decide == ConsiderLogout \/ AwaitLogout \/ ProbePeer \/ Heartbeat

-----------------------------------------------------------------------------
\* The Logon has been sent.
Init ==
  /\ test_mode \in BOOLEAN
  /\ phase = "logon" /\ at = "top"
  /\ rx = 0
  /\ age = [s \in Stamps |-> 0]
  /\ lag = 0 /\ wait = 0
  /\ lines \in 0..MaxLines
  /\ scenarios_sent = FALSE /\ scenario_response_started = FALSE
  /\ logout_initiated = FALSE /\ test_pending = FALSE
  /\ received = FALSE

\* What the client's thread does without the counterparty.
Thread == ReceiveTimeout \/ Process \/ LogonWait \/ Script \/ Decide

Next == Tick \/ Receive \/ PeerGone \/ Thread

\* The thread runs, and the clock does not stop however fast messages come in:
\* recv takes time infinitely often when it is entered infinitely often.
Spec == Init /\ [][Next]_vars /\ WF_vars(Thread) /\ SF_vars(Tick)

-----------------------------------------------------------------------------
(* Properties                                                              *)

Points ==
  [logon  |-> {"top", "recv", "drain"},
   script |-> {"command", "top", "recv", "drain"},
   main   |-> {"first", "quiet", "wait", "peer", "heartbeat", "recv", "drain"},
   closed |-> {"broken", "stopped", "no_logon", "logout_wait", "dead_peer"}]

\* The state is in bounds, and each loop is at a point of its own.
TypeOK ==
  /\ test_mode \in BOOLEAN
  /\ phase \in DOMAIN Points /\ at \in Points[phase]
  /\ rx \in 0..RxBound
  /\ age \in [Stamps -> 0..Cap]
  /\ lag \in 0..SendTime
  /\ wait \in 0..RecvTimeout
  /\ lines \in 0..MaxLines
  /\ scenarios_sent \in BOOLEAN /\ scenario_response_started \in BOOLEAN
  /\ logout_initiated \in BOOLEAN /\ test_pending \in BOOLEAN
  /\ received \in BOOLEAN

Waiting == phase = "main" /\ at = "recv"

\* The longest silence a loop allows the client.
LongestSilence ==
  IF phase = "logon" THEN LogonTimeout
  ELSE IF logout_initiated THEN LogoutWait + SendTime
  ELSE Interval

\* Wherever the client blocks, but in the reads of a regression script, its last
\* message went out within one receive of the loop's own limit: the logon timeout
\* behind its Logon, the heartbeat interval in the main loop, also while a
\* TestRequest of its own is pending and however long a script was silent before,
\* and the wait for the answer behind its Logout (application.cpp:876, :1050, :1018).
\* A script sends no Heartbeat, so nothing of this holds in its reads
\* (fix_regression.cpp:440).
SilenceBounded ==
  Blocked /\ phase # "script" => age["send"] < LongestSilence + RecvTimeout

\* The client gives up on a counterparty only if nothing has arrived for a whole
\* interval after its TestRequest (application.cpp:1024), however late the
\* regression script let last_recv_ms become.
AnsweringPeerKept ==
  phase = "closed" /\ at = "dead_peer" =>
    test_pending /\ age["test"] >= Interval /\ age["recv"] >= age["test"]

\* The client's Logout is in time. Once the scenario has been answered and the answers
\* have paused, or no answer came at all, it is late by one receive and two sends at
\* most, and so is the end of its wait for the answer. And it is never early: when it
\* went out something had been sent, and the answers had paused for Quiet, or none had
\* come for FirstResponse (application.cpp:978-1021).
LogoutOnTime ==
  /\ Waiting =>
       LET slack == RecvTimeout + 2 * SendTime IN
       /\ logout_initiated => age["logout"] < LogoutWait + slack
       /\ scenarios_sent /\ ~logout_initiated =>
            IF scenario_response_started THEN age["resp"] < Quiet + slack
                                         ELSE age["begun"] < FirstResponse + slack
  /\ logout_initiated =>
       /\ scenarios_sent
       /\ IF scenario_response_started THEN age["resp"] >= Capped(age["logout"] + Quiet)
                                       ELSE age["begun"] >= Capped(age["logout"] + FirstResponse)

\* The main loop blocks with a complete message in the parser only if the message came
\* with the Logon answer, or was left by the last read of a script, and nothing has
\* arrived since. It does not wait there for ever: the main loop has then run for less
\* than the two intervals after which a silent counterparty is given up, or the wait
\* behind the client's Logout is running (application.cpp:930, :1023 and :1085).
NoMessageLeftBehind ==
  Waiting /\ rx > 0 =>
    /\ ~received
    /\ IF logout_initiated
       THEN age["logout"] < LogoutWait + SendTime + RecvTimeout
       ELSE age["begun"] < 2 * (Interval + RecvTimeout) + 3 * SendTime

\* A Heartbeat is due after an interval without a send, and in one other case: right
\* behind a TestRequest of the same pass, whose last_send_ms is past now_ms, so that
\* the difference of the two wraps (application.cpp:1050).
HeartbeatInTurn ==
  Main("heartbeat") /\ HeartbeatDue =>
    \/ age["send"] >= Interval
    \/ test_pending /\ age["test"] = 0 /\ age["send"] = 0 /\ lag > 0

\* A counterparty that never logs the client on cannot keep it in the logon loop,
\* however much it sends (application.cpp:876).
LogonEnds == phase = "logon" ~> phase # "logon"

Business == Draining /\ \E answered \in BOOLEAN, d \in 0..SendTime : HandleMessage(TRUE, answered, d)

\* If business messages stop, a session that sent something ends by itself, also
\* against a counterparty that goes on with session messages and never answers a
\* Logout (application.cpp:978-1021).
ScenarioEnds ==
  <>[][~Business]_vars => (phase = "main" /\ scenarios_sent ~> phase = "closed")

\* If bytes stop coming the client ends, in every phase (application.cpp:1023).
DeadPeerEnds == <>[][~Receive]_vars => <>(phase = "closed")

\* After its own Logout the client ends, whatever is sent to it.
LogoutEnds == logout_initiated ~> phase = "closed"

-----------------------------------------------------------------------------
(* The shape of the session                                                *)

\* The client's Logout went out in this pass: logout_start_ms is now_ms.
JustInitiated == at \in {"quiet", "wait"} /\ logout_initiated /\ age["logout"] = lag

LoopAt ==
  IF at = "heartbeat" \/ JustInitiated THEN "rest"
  ELSE IF at \in {"first", "quiet", "wait", "peer"} THEN "top"
  ELSE at

LoopRx == IF phase = "closed" THEN 0 ELSE rx

Loops == INSTANCE SessionLoops WITH at <- LoopAt, rx <- LoopRx

\* Whatever the clocks say, the loops follow one another, receive, take messages
\* and end the session as SessionLoops says (application.cpp:874-1098): no pass of
\* the main loop decides two things.
ImplementsLoops == Loops!Spec

=============================================================================
