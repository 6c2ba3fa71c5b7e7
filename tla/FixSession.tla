----------------------------- MODULE FixSession ------------------------------
(***************************************************************************)
(* One session of the client, from the Logon to the end of the process:    *)
(* the logon loop, the scenario lines or the regression script, and the    *)
(* main loop of Application::run, over one inbound dispatcher.             *)
(*                                                                         *)
(* The client is one thread: a step is one message taken from the parser,  *)
(* one handler, one message written, or one decision of a loop. `at` is    *)
(* the point inside the loop of the current phase. What the counterparty   *)
(* sends and when a timer expires are open; the order in which the loops   *)
(* look at them is the code's.                                             *)
(*   src/src/application.cpp     process_inbound_message and what it calls,*)
(*                               read_next_business_message, run           *)
(*   src/src/fix_regression.cpp  run_file                                  *)
(***************************************************************************)
EXTENDS FixMessages

CONSTANTS
  TestMode,    \* started with -m test
  Inbound,     \* the messages the counterparty may send
  LineTypes,   \* the message types of scenario lines and SND steps
  Starts,      \* numbers and store a session may start from
  MaxSeq,      \* bound: the client stops sending new numbers here
  RxBound      \* bound: complete messages waiting in the parser

\* What sent_messages can hold under a number: a scenario line, one of the
\* client's own messages, nothing.
Kept == LineTypes \cup {"0", "1", "2", "5", "A"} \cup {NoType}

ASSUME SessionAssumption ==
  /\ TestMode \in BOOLEAN
  /\ MaxSeq \in Nat \ {0} /\ RxBound \in Nat \ {0}
  /\ \A m \in Inbound : /\ m.seq \in Int /\ m.begin \in Int
                        /\ m.end \in Int /\ m.new \in Int
                        /\ m.dup \in BOOLEAN
  /\ \A s \in Starts : /\ s.out \in 1..MaxSeq /\ s.in \in 1..SeqLimit
                       /\ s.sent \in [1..MaxSeq -> Kept]

VARIABLES
  phase,              \* connect, logon, script (scenarios or regression), main, closed
  at,                 \* point in the phase's loop; when closed, why
  rx,                 \* complete messages in the parser's buffer
  cur,                \* the message process_inbound_message is working on
  rs,                 \* loop of handle_resend_request: next number, last number
  out, in,            \* sequence_state
  sent,               \* sent_messages: the type kept under each number
  scenarios_sent,
  logout_initiated,
  test_pending,       \* test_request_sent_ms # 0
  firstIn,            \* history: `in` when the session began
  got, asked, skipped,\* history: inbound numbers taken, requested, waived
  seen,               \* history: reasons to end the session that came in
  logouts,            \* history: Logouts sent (2 stands for more)
  peer                \* history: next number expected by a counterparty being answered, or 0

numbers == <<out, sent>>
inbound == <<in, got, asked, skipped, seen>>
flags   == <<scenarios_sent, logout_initiated, test_pending>>
vars    == <<phase, at, rx, cur, rs, numbers, inbound, flags, firstIn, logouts, peer>>

Idle == Plain(NoType, Absent)
NoLoop == [next |-> 0, to |-> 0]

\* socket.close() and return.
Close(why) == phase' = "closed" /\ at' = why

\* send_current_message: the message is kept under the number it carries.
SendCurrent(type, seq) ==
  /\ out <= MaxSeq
  /\ sent' = IF seq \in 1..MaxSeq THEN [sent EXCEPT ![seq] = type] ELSE sent
  /\ out' = out + 1

-----------------------------------------------------------------------------
(* validate_inbound_sequence                                               *)

\* One message leaves the parser's buffer for process_inbound_message.
Take(m) ==
  /\ at = "drain" /\ rx > 0
  /\ rx' = rx - 1
  /\ cur' = m
  /\ peer' = 0
  /\ UNCHANGED <<rs, flags, firstIn, logouts>>

\* Mutant: the logon loop does not look at stop_requested either.
StopRequestedAfterLogon ==
  IF phase = "logon" THEN at' = "drain" /\ UNCHANGED phase
  ELSE IF phase = "script" THEN at' = "command" /\ UNCHANGED phase
  ELSE Close("stopped")

\* Every caller closes the connection on stop_requested, except the ones of the
\* regression script: read_next_business_message hands the flag to a local
\* variable of run_file that nobody reads.
StopRequested ==
  IF phase = "script" THEN at' = "command" /\ UNCHANGED phase
                      ELSE Close("stopped")

NoSeqNum(m) ==
  /\ ~IsSeq(m.seq)
  /\ Take(m)
  /\ StopRequested
  /\ UNCHANGED <<numbers, inbound>>

\* Mutant: the message that opened the gap is expected again.
SeqGapKeepsExpecting(m) ==
  /\ IsSeq(m.seq) /\ m.seq > in
  /\ Take(m)
  /\ SendCurrent("2", out)
  /\ asked' = asked \cup in..(m.seq - 1)
  /\ got' = got \cup {m.seq}
  /\ in' = m.seq
  /\ at' = "handle"
  /\ UNCHANGED <<phase, skipped, seen>>

SeqGap(m) ==
  /\ IsSeq(m.seq) /\ m.seq > in
  /\ Take(m)
  /\ SendCurrent("2", out)
  /\ asked' = asked \cup in..(m.seq - 1)
  /\ got' = got \cup {m.seq}
  /\ in' = m.seq + 1
  /\ at' = "handle"
  /\ UNCHANGED <<phase, skipped, seen>>

SeqPossDup(m) ==
  /\ IsSeq(m.seq) /\ m.seq < in /\ m.dup
  /\ Take(m)
  /\ at' = "handle"
  /\ UNCHANGED <<phase, numbers, inbound>>

SeqTooLow(m) ==
  /\ IsSeq(m.seq) /\ m.seq < in /\ ~m.dup
  /\ Take(m)
  /\ seen' = seen \cup {"tooLow"}
  /\ StopRequested
  /\ UNCHANGED <<numbers, in, got, asked, skipped>>

SeqInOrder(m) ==
  /\ m.seq = in /\ IsSeq(m.seq)
  /\ Take(m)
  /\ got' = got \cup {in}
  /\ in' = in + 1
  /\ at' = "handle"
  /\ UNCHANGED <<phase, numbers, asked, skipped, seen>>

-----------------------------------------------------------------------------
(* process_inbound_message, after the sequence check                       *)

\* Where the loop goes on when a message is done: the script gets a business
\* message back, every other one is followed by the next in the buffer.
NextMessage ==
  /\ UNCHANGED phase
  /\ at' = IF phase = "script" /\ cur.type # NoType /\ ~is_admin_message(cur.type)
             THEN "command" ELSE "drain"

Handle(type) == at = "handle" /\ cur.type = type

\* Mutant: a SequenceReset may also lower the expected number.
HandleSequenceResetBothWays ==
  /\ Handle("4")
  /\ IF IsSeq(cur.new)
       THEN /\ in' = cur.new
            /\ skipped' = skipped \cup in..(cur.new - 1)
       ELSE UNCHANGED <<in, skipped>>
  /\ NextMessage
  /\ UNCHANGED <<rx, cur, rs, numbers, got, asked, seen, flags, firstIn, logouts, peer>>

HandleSequenceReset ==
  /\ Handle("4")
  /\ IF IsSeq(cur.new) /\ cur.new > in
       THEN /\ in' = cur.new
            /\ skipped' = skipped \cup in..(cur.new - 1)
       ELSE UNCHANGED <<in, skipped>>
  /\ NextMessage
  /\ UNCHANGED <<rx, cur, rs, numbers, got, asked, seen, flags, firstIn, logouts, peer>>

\* The first Logon ends the logon loop at once; later ones mean nothing.
HandleLogon ==
  /\ Handle("A")
  /\ IF phase = "logon" THEN phase' = "script" /\ at' = "command"
                        ELSE NextMessage
  /\ UNCHANGED <<rx, cur, rs, numbers, inbound, flags, firstIn, logouts, peer>>

HandleTestRequest ==
  /\ Handle("1")
  /\ SendCurrent("0", out)
  /\ NextMessage
  /\ UNCHANGED <<rx, cur, rs, inbound, flags, firstIn, logouts, peer>>

\* Mutant: the counterparty's answer to the client's Logout is answered too.
HandleLogoutAlwaysAnswered ==
  /\ Handle("5")
  /\ SendCurrent("5", out)
  /\ logouts' = IF logouts = 0 THEN 1 ELSE 2
  /\ seen' = seen \cup {"logout"}
  /\ StopRequested
  /\ UNCHANGED <<rx, cur, rs, in, got, asked, skipped, flags, firstIn, peer>>

\* Mutant: the answer to the client's own Logout does not stop the session.
HandleLogoutAnswerIgnored ==
  /\ Handle("5")
  /\ seen' = seen \cup {"logout"}
  /\ IF logout_initiated
       THEN NextMessage /\ UNCHANGED <<numbers, logouts>>
       ELSE /\ SendCurrent("5", out)
            /\ logouts' = IF logouts = 0 THEN 1 ELSE 2
            /\ StopRequested
  /\ UNCHANGED <<rx, cur, rs, in, got, asked, skipped, flags, firstIn, peer>>

\* A Logout is answered unless it is itself the answer; a send that fails here
\* is ignored (ConnectionLost covers its effect).
HandleLogout ==
  /\ Handle("5")
  /\ IF logout_initiated
       THEN UNCHANGED <<numbers, logouts>>
       ELSE /\ SendCurrent("5", out)
            /\ logouts' = IF logouts = 0 THEN 1 ELSE 2
  /\ seen' = seen \cup {"logout"}
  /\ StopRequested
  /\ UNCHANGED <<rx, cur, rs, in, got, asked, skipped, flags, firstIn, peer>>

HandleOther ==
  /\ at = "handle" /\ cur.type \notin {"1", "2", "4", "5", "A"}
  /\ NextMessage
  /\ UNCHANGED <<rx, cur, rs, numbers, inbound, flags, firstIn, logouts, peer>>

-----------------------------------------------------------------------------
(* handle_resend_request                                                   *)

\* Mutant: the end is not limited to what was sent.
EndOfResendUnlimited(m) == IF m.end = 0 THEN out - 1 ELSE m.end

EndOfResend(m) == IF m.end = 0 \/ m.end >= out THEN out - 1 ELSE m.end

\* The handler fails, and with it every loop above it.
RefuseResend ==
  /\ Handle("2")
  /\ ~IsSeq(cur.begin) \/ ~IsSeq(cur.end)
  /\ Close("refused")
  /\ UNCHANGED <<rx, cur, rs, numbers, inbound, flags, firstIn, logouts, peer>>

NothingToResend ==
  /\ Handle("2")
  /\ IsSeq(cur.begin) /\ IsSeq(cur.end) /\ EndOfResend(cur) < cur.begin
  /\ NextMessage
  /\ UNCHANGED <<rx, cur, rs, numbers, inbound, flags, firstIn, logouts, peer>>

BeginResend ==
  /\ Handle("2")
  /\ IsSeq(cur.begin) /\ IsSeq(cur.end) /\ cur.begin <= EndOfResend(cur)
  /\ rs' = [next |-> cur.begin, to |-> EndOfResend(cur)]
  /\ peer' = cur.begin
  /\ at' = "resend"
  /\ UNCHANGED <<phase, rx, cur, numbers, inbound, flags, firstIn, logouts>>

\* Mutant: a gap fill announces the number it fills.
ReplyFillsNothing(n) ==
  IF sent[n] = NoType \/ is_admin_message(sent[n]) THEN GapFill(n, n) ELSE PossDup(sent[n], n)

\* What goes out for number n: the message with PossDupFlag, or a gap fill.
Reply(n) ==
  IF sent[n] = NoType \/ is_admin_message(sent[n]) THEN GapFill(n, n + 1)
                                                   ELSE PossDup(sent[n], n)

\* A counterparty that waits for number p and gets m waits for the result.
Absorb(p, m) == IF m.seq # p THEN p ELSE IF m.type = "4" THEN m.new ELSE p + 1

ResendOne ==
  /\ at = "resend"
  /\ peer' = Absorb(peer, Reply(rs.next))
  /\ IF rs.next < rs.to
       THEN rs' = [rs EXCEPT !.next = @ + 1] /\ UNCHANGED <<phase, at>>
       ELSE rs' = NoLoop /\ NextMessage
  /\ UNCHANGED <<rx, cur, numbers, inbound, flags, firstIn, logouts>>

-----------------------------------------------------------------------------
(* Receiving bytes                                                         *)

\* receive_bytes and append_bytes: k messages become complete. The logon loop
\* and the main loop note that the counterparty is alive; the script's does not.
Receive(k) ==
  /\ at = "recv" /\ rx + k <= RxBound
  /\ rx' = rx + k
  /\ at' = IF phase = "script" THEN "top" ELSE "drain"
  /\ test_pending' = (test_pending /\ phase = "script")
  /\ UNCHANGED <<phase, cur, rs, numbers, inbound, scenarios_sent, logout_initiated,
                 firstIn, logouts, peer>>

\* SO_RCVTIMEO expired.
ReceiveTimeout ==
  /\ at = "recv"
  /\ at' = "top"
  /\ UNCHANGED <<phase, rx, cur, rs, numbers, inbound, flags, firstIn, logouts, peer>>

\* read_next_message finds nothing more.
BufferEmpty ==
  /\ at = "drain" /\ rx = 0
  /\ at' = IF phase = "script" THEN "recv" ELSE "top"
  /\ UNCHANGED <<phase, rx, cur, rs, numbers, inbound, flags, firstIn, logouts, peer>>

-----------------------------------------------------------------------------
(* Logon, scenarios, regression                                            *)

Connect ==
  /\ phase = "connect"
  /\ SendCurrent("A", out)
  /\ phase' = "logon" /\ at' = "top"
  /\ UNCHANGED <<rx, cur, rs, inbound, flags, firstIn, logouts, peer>>

LogonWait ==
  /\ phase = "logon" /\ at = "top"
  /\ at' = "recv"
  /\ UNCHANGED <<phase, rx, cur, rs, numbers, inbound, flags, firstIn, logouts, peer>>

LogonTimeout ==
  /\ phase = "logon" /\ at = "top"
  /\ Close("logonTimeout")
  /\ UNCHANGED <<rx, cur, rs, numbers, inbound, flags, firstIn, logouts, peer>>

\* run_scenarios: a line of the live mode has tag 34 set to outbound_seq, or has
\* no tag 34 and is not kept.
SendLine(type, seq) ==
  /\ phase = "script" /\ at = "command" /\ ~TestMode
  /\ seq \in {out, Absent}
  /\ SendCurrent(type, seq)
  /\ scenarios_sent' = TRUE
  /\ UNCHANGED <<phase, at, rx, cur, rs, inbound, logout_initiated, test_pending,
                 firstIn, logouts, peer>>

\* SND: a blank 34 takes outbound_seq, a number that is written down stays.
SendStep(type, seq) ==
  /\ phase = "script" /\ at = "command" /\ TestMode
  /\ SendCurrent(type, seq)
  /\ scenarios_sent' = TRUE
  /\ UNCHANGED <<phase, at, rx, cur, rs, inbound, logout_initiated, test_pending,
                 firstIn, logouts, peer>>

\* RCV, TST, and BGN after something was sent: read_next_business_message.
StartRead ==
  /\ phase = "script" /\ at = "command" /\ TestMode
  /\ at' = "top"
  /\ UNCHANGED <<phase, rx, cur, rs, numbers, inbound, flags, firstIn, logouts, peer>>

\* Its loop looks at the clock only before it empties the buffer.
ReadOn ==
  /\ phase = "script" /\ at = "top"
  /\ at' \in {"drain", "command"}
  /\ UNCHANGED <<phase, rx, cur, rs, numbers, inbound, flags, firstIn, logouts, peer>>

ScriptDone ==
  /\ phase = "script" /\ at = "command"
  /\ phase' = "main" /\ at' = "top"
  /\ UNCHANGED <<rx, cur, rs, numbers, inbound, flags, firstIn, logouts, peer>>

\* A regression with a failed scenario closes the connection without a Logout.
ScriptFailed ==
  /\ phase = "script" /\ at = "command" /\ TestMode
  /\ Close("failed")
  /\ UNCHANGED <<rx, cur, rs, numbers, inbound, flags, firstIn, logouts, peer>>

-----------------------------------------------------------------------------
(* The main loop, from its top: Logout, TestRequest, Heartbeat, receive    *)

MainTop == phase = "main" /\ at = "top"

\* Mutant: logout_start_ms is not set, so that the pass which sends the Logout goes on
\* to find the wait for its answer over.
InitiateLogoutNoStart ==
  /\ MainTop /\ scenarios_sent /\ ~logout_initiated
  /\ SendCurrent("5", out)
  /\ logout_initiated' = TRUE
  /\ logouts' = IF logouts = 0 THEN 1 ELSE 2
  /\ UNCHANGED <<phase, at, rx, cur, rs, inbound, scenarios_sent, test_pending, firstIn, peer>>

\* No answer for 5 s, or answers and then 300 ms of silence. logout_start_ms is
\* now_ms, so the rest of this pass only receives.
InitiateLogout ==
  /\ MainTop /\ scenarios_sent /\ ~logout_initiated
  /\ SendCurrent("5", out)
  /\ logout_initiated' = TRUE
  /\ logouts' = IF logouts = 0 THEN 1 ELSE 2
  /\ at' = "recv"
  /\ UNCHANGED <<phase, rx, cur, rs, inbound, scenarios_sent, test_pending, firstIn, peer>>

LogoutWaitOver ==
  /\ MainTop /\ logout_initiated
  /\ Close("logoutTimeout")
  /\ UNCHANGED <<rx, cur, rs, numbers, inbound, flags, firstIn, logouts, peer>>

TestRequestTimeout ==
  /\ MainTop /\ ~logout_initiated /\ test_pending
  /\ Close("testRequestTimeout")
  /\ UNCHANGED <<rx, cur, rs, numbers, inbound, flags, firstIn, logouts, peer>>

SendTestRequest ==
  /\ MainTop /\ ~logout_initiated /\ ~test_pending
  /\ SendCurrent("1", out)
  /\ test_pending' = TRUE
  /\ at' = "beat"
  /\ UNCHANGED <<phase, rx, cur, rs, inbound, scenarios_sent, logout_initiated,
                 firstIn, logouts, peer>>

SendHeartbeat ==
  /\ phase = "main" /\ ~logout_initiated /\ at \in {"top", "beat"}
  /\ SendCurrent("0", out)
  /\ at' = "recv"
  /\ UNCHANGED <<phase, rx, cur, rs, inbound, flags, firstIn, logouts, peer>>

NothingDue ==
  /\ phase = "main" /\ at \in {"top", "beat"}
  /\ at' = "recv"
  /\ UNCHANGED <<phase, rx, cur, rs, numbers, inbound, flags, firstIn, logouts, peer>>

-----------------------------------------------------------------------------
\* The counterparty closes, a call on the socket fails, or the process is killed.
ConnectionLost ==
  /\ phase # "closed"
  /\ Close("lost")
  /\ UNCHANGED <<rx, cur, rs, numbers, inbound, flags, firstIn, logouts, peer>>

\* The process has ended; nothing follows.
Exited == phase = "closed" /\ UNCHANGED vars

Init ==
  /\ phase = "connect" /\ at = "top"
  /\ rx = 0 /\ cur = Idle /\ rs = NoLoop
  /\ \E s \in Starts : out = s.out /\ in = s.in /\ sent = s.sent
  /\ scenarios_sent = FALSE /\ logout_initiated = FALSE /\ test_pending = FALSE
  /\ firstIn = in
  /\ got = {} /\ asked = {} /\ skipped = {} /\ seen = {}
  /\ logouts = 0 /\ peer = 0

Validate == \E m \in Inbound :
  NoSeqNum(m) \/ SeqGap(m) \/ SeqPossDup(m) \/ SeqTooLow(m) \/ SeqInOrder(m)

Dispatch ==
  \/ HandleSequenceReset \/ HandleLogon \/ HandleTestRequest \/ HandleLogout
  \/ HandleOther \/ RefuseResend \/ NothingToResend \/ BeginResend \/ ResendOne

Script ==
  \/ \E t \in LineTypes, n \in (1..MaxSeq) \cup {Absent} : SendLine(t, n) \/ SendStep(t, n)
  \/ StartRead \/ ReadOn \/ ScriptDone \/ ScriptFailed

MainLoop ==
  \/ InitiateLogout \/ LogoutWaitOver \/ TestRequestTimeout
  \/ SendTestRequest \/ SendHeartbeat \/ NothingDue

Next ==
  \/ Connect \/ LogonWait \/ LogonTimeout
  \/ Validate \/ Dispatch
  \/ \E k \in 0..RxBound : Receive(k)
  \/ ReceiveTimeout \/ BufferEmpty
  \/ Script \/ MainLoop
  \/ ConnectionLost \/ Exited

Spec == Init /\ [][Next]_vars

-----------------------------------------------------------------------------
(* Properties                                                              *)

\* Every variable stays in its set.
TypeOK ==
  /\ phase \in {"connect", "logon", "script", "main", "closed"}
  /\ at \in {"top", "recv", "drain", "handle", "resend", "command", "beat"}
         \cup {"stopped", "refused", "failed", "lost", "logonTimeout",
               "logoutTimeout", "testRequestTimeout"}
  /\ rx \in 0..RxBound
  /\ cur \in Inbound \cup {Idle}
  /\ rs \in [next : Nat, to : 0..MaxSeq]
  /\ out \in 1..(MaxSeq + 1)
  /\ in \in 1..(SeqLimit + 1)
  /\ sent \in [1..MaxSeq -> Kept]
  /\ {scenarios_sent, logout_initiated, test_pending} \subseteq BOOLEAN
  /\ firstIn \in 1..SeqLimit
  /\ got \cup asked \cup skipped \subseteq 1..SeqLimit
  /\ seen \subseteq {"tooLow", "logout"}
  /\ logouts \in 0..2
  /\ peer \in Nat

\* Each inbound number below the expected one was accounted for exactly once in
\* the session: taken, asked for with a ResendRequest, or waived by a
\* SequenceReset. In particular nothing is asked for twice, and nothing that
\* was taken is asked for.
InboundAccounted ==
  /\ firstIn..(in - 1) = got \cup asked \cup skipped
  /\ got \cap asked = {} /\ got \cap skipped = {} /\ asked \cap skipped = {}

\* README: when the counterparty sends a lower sequence number (and does not mark
\* it a possible duplicate), the client detects the error and disconnects.
TooLowDisconnects == "tooLow" \in seen => phase = "closed"

\* process_inbound_message: "Logout (35=5) -> reply Logout and stop".
LogoutEndsSession == "logout" \in seen => phase = "closed"

\* The two Logouts that may cross, the one the client sends when the scenarios
\* are over and its answer to the counterparty's, never both go out.
AtMostOneLogout == logouts <= 1

\* A counterparty that asked for begin..end waits, after the reply, for the
\* number after the last one it asked for that the client has sent.
ResendClosesGap ==
  [][(at = "resend" /\ at' # "resend" /\ phase' # "closed")
       => peer' = IF cur.end >= out THEN out ELSE cur.end + 1]_vars

\* handle_resend_request means EndSeqNo 0, "up to the last one" (it tests for
\* it before it sets the end to outbound_seq - 1): such a request is served.
OpenEndedRequestServed == at = "refused" => cur.end # 0

-----------------------------------------------------------------------------
(* The shape of the session                                                *)

\* A message being worked on is still one of the parser's to SessionLoops, and what
\* is left in the parser of a closed session does not matter.
LoopRx ==
  CASE phase = "closed"          -> 0
    [] at \in {"handle", "resend"} -> rx + 1
    [] OTHER                     -> rx

LoopPhase == IF phase = "connect" THEN "logon" ELSE phase

LoopAt ==
  CASE at \in {"handle", "resend"}           -> "drain"
    [] at = "beat"                           -> "rest"
    [] at \in {"refused", "failed", "lost"} -> "broken"
    [] at = "logonTimeout"                   -> "no_logon"
    [] at = "logoutTimeout"                  -> "logout_wait"
    [] at = "testRequestTimeout"             -> "dead_peer"
    [] OTHER                                 -> at

Loops == INSTANCE SessionLoops WITH
  test_mode <- TestMode, phase <- LoopPhase, at <- LoopAt, rx <- LoopRx

\* Whatever the messages are, the loops follow one another, receive, take messages
\* and end the session as SessionLoops says (application.cpp:874-1098).
ImplementsLoops == Loops!Spec

=============================================================================
