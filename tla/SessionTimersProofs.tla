------------------------ MODULE SessionTimersProofs -------------------------
(***************************************************************************)
(* Theorems about SessionTimers, for every value of the timeouts.          *)
(*                                                                         *)
(* A timer is looked at once per pass of the main loop, so the invariants  *)
(* say at each point of a pass which timers were found not to have expired *)
(* and how much time may have passed since: none up to "peer", a send at   *)
(* "heartbeat", two sends and the time in recv below that. DeadlineInv     *)
(* does the same for the waits of the other loops.                         *)
(***************************************************************************)
EXTENDS SessionTimers, TLAPS

\* recv is entered with its time unspent, and now_ms is old only between a send of
\* the pass and the end of the pass: behind the client's Logout, or behind a
\* TestRequest that was answered by nothing yet.
PassInv ==
  /\ wait # 0 => at = "recv" \/ phase = "closed"
  /\ lag # 0 /\ phase # "closed" =>
       /\ phase = "main" /\ at \in {"quiet", "wait", "heartbeat"}
       /\ at \in {"quiet", "wait"} => logout_initiated
       /\ at = "heartbeat" => test_pending /\ age["send"] = 0 /\ age["test"] = 0
  /\ phase = "main" /\ at \in {"peer", "heartbeat"} => ~logout_initiated

\* Nothing has arrived since a TestRequest that is pending; what closes the session
\* as a dead peer is an answer overdue by then.
PendingInv ==
  /\ test_pending => phase \in {"main", "closed"} /\ age["recv"] >= age["test"]
  /\ phase = "closed" /\ at = "dead_peer" => test_pending /\ age["test"] >= Interval

\* How old the stamp that decides on the Logout can be, slack included.
Undecided(slack) ==
  scenarios_sent /\ ~logout_initiated =>
    IF scenario_response_started THEN age["resp"] < Quiet + slack
                                 ELSE age["begun"] < FirstResponse + slack

\* At each point of a pass, the timers above it have not expired.
TimerInv ==
  phase = "main" =>
    /\ at = "quiet" /\ ~scenario_response_started => Undecided(0)
    /\ at \in {"wait", "peer"} => Undecided(0)
    /\ at = "heartbeat" => Undecided(SendTime)
    /\ at = "recv" => /\ Undecided(2 * SendTime + wait)
                      /\ logout_initiated => age["logout"] < LogoutWait + SendTime + wait
                      /\ ~logout_initiated => age["send"] < Interval + wait

\* From the first bytes of the main loop on, a pass begins with an empty parser.
DrainInv ==
  received => \/ phase = "closed"
              \/ phase = "main" /\ (at = "drain" \/ rx = 0)

IInv == TypeOK /\ PassInv /\ PendingInv /\ TimerInv /\ DrainInv

-----------------------------------------------------------------------------
(* Constants, points and stamps                                            *)

\* What the assumption says of each limit.
LEMMA Limited ==
  /\ RecvTimeout \in Nat /\ RecvTimeout > 0 /\ SendTime \in Nat /\ Cap \in Nat
  /\ MaxLines \in Nat /\ RxBound \in Nat
  /\ FirstResponse \in Nat /\ FirstResponse > 0 /\ FirstResponse + RecvTimeout + 2 * SendTime < Cap
  /\ Quiet \in Nat /\ Quiet > 0 /\ Quiet + RecvTimeout + 2 * SendTime < Cap
  /\ LogoutWait \in Nat /\ LogoutWait > 0 /\ LogoutWait + RecvTimeout + 2 * SendTime < Cap
  /\ Interval \in Nat /\ Interval > 0 /\ Interval + RecvTimeout + 2 * SendTime < Cap
<1>1. FirstResponse \in Limits /\ Quiet \in Limits /\ LogoutWait \in Limits /\ Interval \in Limits
  BY DEF Limits
<1> QED
  BY <1>1, TimersAssumption

\* The points of each loop.
LEMMA PointsOfLoops ==
  /\ DOMAIN Points = {"logon", "script", "main", "closed"}
  /\ Points["logon"] = {"top", "recv", "drain"}
  /\ Points["script"] = {"command", "top", "recv", "drain"}
  /\ Points["main"] = {"first", "quiet", "wait", "peer", "heartbeat", "recv", "drain"}
  /\ Points["closed"] = {"broken", "stopped", "no_logon", "logout_wait", "dead_peer"}
  BY DEF Points

\* An age grows by what passes, to Cap at most, unless its stamp is renewed.
LEMMA PassAges ==
  ASSUME TypeOK, NEW d \in Nat, NEW S
  PROVE  /\ Pass(d, S) \in [Stamps -> 0..Cap]
         /\ \A s \in Stamps :
              /\ Pass(d, S)[s] \in Nat /\ age[s] \in Nat
              /\ s \in S => Pass(d, S)[s] = 0
              /\ s \notin S => /\ Pass(d, S)[s] >= age[s]
                               /\ Pass(d, S)[s] <= age[s] + d
              /\ s \notin S => Pass(d, S)[s] = IF age[s] + d > Cap THEN Cap ELSE age[s] + d
<1>1. \A s \in Stamps : age[s] \in 0..Cap
  BY DEF TypeOK
<1>2. \A s \in Stamps : Capped(age[s] + d) \in 0..Cap /\ Capped(age[s] + d) >= age[s]
                        /\ Capped(age[s] + d) <= age[s] + d
  BY <1>1, Limited DEF Capped
<1>3. \A s \in Stamps : Pass(d, S)[s] = IF s \in S THEN 0 ELSE Capped(age[s] + d)
  BY DEF Pass
<1>4. Pass(d, S) \in [Stamps -> 0..Cap]
  BY <1>2, Limited DEF Pass
<1> QED
  BY <1>1, <1>2, <1>3, <1>4 DEF Capped

LEMMA StampNames ==
  /\ "send" \in Stamps /\ "recv" \in Stamps /\ "test" \in Stamps
  /\ "begun" \in Stamps /\ "resp" \in Stamps /\ "logout" \in Stamps
  BY DEF Stamps

\* The ages in their types, one by one.
LEMMA AgeTypes ==
  ASSUME TypeOK
  PROVE  /\ age["send"] \in 0..Cap /\ age["recv"] \in 0..Cap /\ age["test"] \in 0..Cap
         /\ age["begun"] \in 0..Cap /\ age["resp"] \in 0..Cap /\ age["logout"] \in 0..Cap
  BY StampNames DEF TypeOK

-----------------------------------------------------------------------------
(* Type correctness                                                        *)

LEMMA InitInv == Init => IInv
<1> SUFFICES ASSUME Init PROVE IInv
  OBVIOUS
<1>1. TypeOK
  <2>1. age \in [Stamps -> 0..Cap]
    BY Limited DEF Init
  <2>2. phase \in DOMAIN Points /\ at \in Points[phase]
    BY PointsOfLoops DEF Init
  <2> QED
    <3>1. rx \in 0..RxBound /\ lag \in 0..SendTime /\ wait \in 0..RecvTimeout
      BY Limited DEF Init
    <3>2. /\ scenarios_sent \in BOOLEAN /\ scenario_response_started \in BOOLEAN
          /\ logout_initiated \in BOOLEAN /\ test_pending \in BOOLEAN /\ received \in BOOLEAN
          /\ test_mode \in BOOLEAN /\ lines \in 0..MaxLines
      BY DEF Init
    <3> QED
      BY <2>1, <2>2, <3>1, <3>2, Zenon DEF TypeOK
<1>2. PassInv /\ PendingInv /\ TimerInv /\ DrainInv
  BY DEF Init, PassInv, PendingInv, TimerInv, DrainInv
<1> QED
  BY <1>1, <1>2 DEF IInv

LEMMA ReceiveType ==
  ASSUME TypeOK, Tick \/ Receive \/ ReceiveTimeout \/ PeerGone
  PROVE  TypeOK'
<1> USE Limited, PointsOfLoops
<1>1. CASE Tick
  <2>1. age' \in [Stamps -> 0..Cap]
    BY <1>1, PassAges DEF Tick
  <2>2. wait' \in 0..RecvTimeout
    BY <1>1 DEF Tick, TypeOK
  <2> QED
    BY <1>1, <2>1, <2>2 DEF Tick, TypeOK, flags
<1>2. CASE Receive
  <2>1. age' \in [Stamps -> 0..Cap]
    BY <1>2, PassAges DEF Receive, TypeOK
  <2>2. rx' \in 0..RxBound
    BY <1>2 DEF Receive, TypeOK
  <2>3. phase' = phase /\ at' \in Points[phase]
    <3>1. phase' = phase /\ phase \in {"logon", "script", "main"}
          /\ at' = (IF phase = "script" THEN "top" ELSE "drain")
      BY <1>2 DEF Receive, Blocked, TypeOK
    <3> QED
      BY <3>1
  <2>4. test_pending' \in BOOLEAN /\ received' \in BOOLEAN
    BY <1>2 DEF Receive, StillPending, TypeOK
  <2> QED
    BY <1>2, <2>1, <2>2, <2>3, <2>4 DEF Receive, TypeOK
<1>3. CASE ReceiveTimeout
  <2>1. phase' = phase /\ at' \in Points[phase]
    <3>1. phase' = phase /\ phase \in {"logon", "script", "main"}
          /\ at' = (IF phase = "main" THEN "first" ELSE "top")
      BY <1>3 DEF ReceiveTimeout, Blocked, TypeOK, Top
    <3> QED
      BY <3>1
  <2> QED
    BY <1>3, <2>1 DEF ReceiveTimeout, TypeOK, flags
<1>4. CASE PeerGone
  BY <1>4 DEF PeerGone, Close, TypeOK, flags, clock
<1> QED
  BY <1>1, <1>2, <1>3, <1>4

LEMMA ProcessType ==
  ASSUME TypeOK, Process
  PROVE  TypeOK'
<1> USE Limited, PointsOfLoops
<1>0. rx > 0 => rx - 1 \in 0..RxBound
  BY DEF TypeOK
<1>1. ASSUME NEW business \in BOOLEAN, NEW answered \in BOOLEAN, NEW d \in 0..SendTime,
             HandleMessage(business, answered, d)
      PROVE  TypeOK'
  <2>0. d \in Nat
    BY <1>1
  <2>1. age' \in [Stamps -> 0..Cap]
    BY <1>1, <2>0, PassAges DEF HandleMessage
  <2>2. rx' \in 0..RxBound
    BY <1>0, <1>1 DEF HandleMessage, Take, Draining
  <2>3. phase' = phase /\ at' \in Points[phase]
    <3>1. phase' = phase /\ phase \in {"logon", "script", "main"}
          /\ at' = (IF phase = "script" /\ business THEN "command" ELSE "drain")
      BY <1>1 DEF HandleMessage, AfterMessage, Draining, TypeOK
    <3> QED
      BY <3>1
  <2>4. scenario_response_started' \in BOOLEAN
    BY <1>1 DEF HandleMessage, TypeOK
  <2> QED
    BY <1>1, <2>1, <2>2, <2>3, <2>4 DEF HandleMessage, Take, TypeOK
<1>2. CASE LogonAccepted
  <2>1. rx' \in 0..RxBound
    BY <1>0, <1>2 DEF LogonAccepted, Take, Draining
  <2>2. age' \in [Stamps -> 0..Cap]
    BY <1>2, PassAges DEF LogonAccepted, AnswerTime
  <2> QED
    BY <1>2, <2>1, <2>2 DEF LogonAccepted, Take, TypeOK, flags
<1>3. CASE StopRequested
  <2>1. rx' \in 0..RxBound
    BY <1>0, <1>3 DEF StopRequested, Take, Draining
  <2>2. age' \in [Stamps -> 0..Cap]
    BY <1>3, PassAges DEF StopRequested, AnswerTime
  <2>3. phase' \in DOMAIN Points /\ at' \in Points[phase']
    BY <1>3 DEF StopRequested, Close, TypeOK
  <2> QED
    BY <1>3, <2>1, <2>2, <2>3 DEF StopRequested, Take, TypeOK, flags
<1>4. CASE MessageFails
  <2>1. rx' \in 0..RxBound
    BY <1>0, <1>4 DEF MessageFails, Take, Draining
  <2> QED
    BY <1>4, <2>1 DEF MessageFails, Take, Close, TypeOK, flags
<1>5. CASE BufferEmpty
  <2>1. phase' = phase /\ at' \in Points[phase]
    BY <1>5 DEF BufferEmpty, TypeOK, Top
  <2> QED
    BY <1>5, <2>1 DEF BufferEmpty, TypeOK, flags, clock
<1> QED
  BY <1>1, <1>2, <1>3, <1>4, <1>5 DEF Process

LEMMA ScriptType ==
  ASSUME TypeOK, LogonWait \/ Script
  PROVE  TypeOK'
<1> USE Limited, PointsOfLoops
<1>1. CASE LogonWait
  BY <1>1 DEF LogonWait, Close, TypeOK, flags, clock
<1>0. lines > 0 => lines - 1 \in 0..MaxLines
  BY DEF TypeOK
<1>2. ASSUME NEW d \in 0..SendTime, ScriptSend(d) PROVE TypeOK'
  <2>1. age' \in [Stamps -> 0..Cap] /\ lines' \in 0..MaxLines
    BY <1>0, <1>2, PassAges DEF ScriptSend, SendCurrent, Command
  <2> QED
    BY <1>2, <2>1 DEF ScriptSend, TypeOK
<1>3. CASE StartRead
  <2>1. age' \in [Stamps -> 0..Cap] /\ lines' \in 0..MaxLines
    BY <1>0, <1>3, PassAges DEF StartRead, Command
  <2> QED
    BY <1>3, <2>1 DEF StartRead, Command, TypeOK, flags
<1>4. CASE ReadOn
  BY <1>4 DEF ReadOn, TypeOK, flags, clock
<1>5. CASE ScriptFails
  BY <1>5 DEF ScriptFails, Close, TypeOK, flags, clock
<1>6. CASE ScriptDone
  <2>1. age' \in [Stamps -> 0..Cap]
    BY <1>6, PassAges DEF ScriptDone
  <2> QED
    BY <1>6, <2>1 DEF ScriptDone, TypeOK, flags
<1> QED
  BY <1>1, <1>2, <1>3, <1>4, <1>5, <1>6 DEF Script

\* lag grows by a send only where it was 0, which needs the point of the pass.
LEMMA DecideType ==
  ASSUME TypeOK, PassInv, Decide
  PROVE  TypeOK'
<1> USE Limited, PointsOfLoops
<1>0. ASSUME NEW d \in 0..SendTime, NEW S
      PROVE  Pass(d, S) \in [Stamps -> 0..Cap]
  <2>1. d \in Nat
    OBVIOUS
  <2> QED
    BY <2>1, PassAges
<1>1. CASE ConsiderLogout
  <2>1. ASSUME NEW d \in 0..SendTime, InitiateLogout(d), LogoutDue,
               phase = "main", at \in {"first", "quiet"}
        PROVE  /\ age' \in [Stamps -> 0..Cap] /\ lag' \in 0..SendTime
               /\ UNCHANGED <<wait, phase>> /\ logout_initiated' \in BOOLEAN
               /\ UNCHANGED <<scenarios_sent, scenario_response_started, test_pending>>
    <3>1. lag = 0
      BY <2>1 DEF PassInv, LogoutDue
    <3>2. Capped(lag + d) \in 0..Cap
      BY <3>1 DEF Capped
    <3>3. age' = [Pass(d, {"send"}) EXCEPT !["logout"] = Capped(lag + d)]
      BY <2>1 DEF InitiateLogout
    <3>4. age' \in [Stamps -> 0..Cap]
      BY <1>0, <3>2, <3>3
    <3> QED
      BY <2>1, <3>1, <3>4 DEF InitiateLogout
  <2>2. /\ phase = "main"
        /\ at \in {"first", "quiet"}
        /\ UNCHANGED <<test_mode, rx, lines, received>>
    BY <1>1 DEF ConsiderLogout, Main
  <2>3. CASE LogoutDue /\ \E d \in 0..SendTime : InitiateLogout(d) /\ at' \in {"quiet", "wait"}
    BY <2>1, <2>2, <2>3 DEF TypeOK
  <2>4. CASE SendFails
    BY <2>2, <2>4 DEF SendFails, Close, TypeOK, clock, flags
  <2>5. CASE at' \in {"quiet", "wait"} /\ UNCHANGED <<phase, clock, flags>>
    BY <2>2, <2>5 DEF TypeOK, clock, flags
  <2> QED
    BY <1>1, <2>3, <2>4, <2>5 DEF ConsiderLogout
<1>2. CASE AwaitLogout
  BY <1>2 DEF AwaitLogout, Main, Close, TypeOK, flags
<1>3. CASE ProbePeer
  <2>1. /\ phase = "main" /\ at = "peer" /\ lag = 0
        /\ UNCHANGED <<test_mode, rx, wait, lines, scenarios_sent,
                       scenario_response_started, logout_initiated, received>>
    BY <1>3 DEF ProbePeer, Main, PassInv
  <2>2. CASE /\ \E d \in 0..SendTime : age' = Pass(d, {"send", "test"}) /\ lag' = lag + d
             /\ test_pending' = TRUE /\ at' = "heartbeat" /\ UNCHANGED phase
    BY <1>0, <2>1, <2>2 DEF TypeOK
  <2>3. CASE /\ phase' = "closed" /\ at' \in {"broken", "dead_peer"}
             /\ UNCHANGED <<age, lag, test_pending>>
    BY <2>1, <2>3 DEF TypeOK
  <2>4. CASE at' = "heartbeat" /\ UNCHANGED <<phase, age, lag, test_pending>>
    BY <2>1, <2>4 DEF TypeOK
  <2> QED
    BY <1>3, <2>2, <2>3, <2>4 DEF ProbePeer, Close
<1>4. CASE Heartbeat
  <2>1. age' \in [Stamps -> 0..Cap]
    BY <1>0, <1>4 DEF Heartbeat, SendCurrent, TypeOK
  <2>2. phase' \in DOMAIN Points /\ at' \in Points[phase']
    BY <1>4 DEF Heartbeat, Main, Close
  <2> QED
    BY <1>4, <2>1, <2>2 DEF Heartbeat, TypeOK, flags
<1> QED
  BY <1>1, <1>2, <1>3, <1>4 DEF Decide

LEMMA NextType ==
  ASSUME TypeOK, PassInv, [Next]_vars
  PROVE  TypeOK'
<1>1. CASE UNCHANGED vars
  BY <1>1 DEF vars, clock, flags, TypeOK
<1>2. CASE Next
  BY <1>2, ReceiveType, ProcessType, ScriptType, DecideType DEF Next, Thread
<1> QED
  BY <1>1, <1>2

-----------------------------------------------------------------------------
(* The parts of the invariant, action by action                            *)

Rest == PassInv /\ PendingInv /\ TimerInv /\ DrainInv

\* A closed session keeps what it was closed with.
LEMMA ClosedInv ==
  ASSUME IInv, TypeOK', phase' = "closed", at' # "dead_peer", PendingInv'
  PROVE  Rest'
  BY DEF Rest, PassInv, TimerInv, DrainInv

\* What a closing step has to show.
LEMMA ClosesInv ==
  ASSUME IInv, TypeOK', phase' = "closed", at' # "dead_peer",
         \/ UNCHANGED <<age, test_pending>>
         \/ \E d \in Nat, S \in SUBSET Stamps : age' = Pass(d, S) /\ "recv" \notin S /\ UNCHANGED test_pending
  PROVE  Rest'
<1>1. PendingInv'
  <2>1. CASE UNCHANGED <<age, test_pending>>
    BY <2>1 DEF IInv, PendingInv
  <2>2. ASSUME NEW d \in Nat, NEW S \in SUBSET Stamps, age' = Pass(d, S), "recv" \notin S, UNCHANGED test_pending
        PROVE  PendingInv'
    <3>1. /\ age["recv"] \in 0..Cap /\ age["test"] \in 0..Cap
          /\ age'["recv"] = (IF age["recv"] + d > Cap THEN Cap ELSE age["recv"] + d)
          /\ age'["test"] = 0 \/ age'["test"] = (IF age["test"] + d > Cap THEN Cap ELSE age["test"] + d)
      BY <2>2, PassAges, AgeTypes, StampNames DEF IInv
    <3>2. age["recv"] >= age["test"] => age'["recv"] >= age'["test"]
      BY <3>1, Limited
    <3> QED
      BY <2>2, <3>2 DEF IInv, PendingInv
  <2> QED
    BY <2>1, <2>2
<1> QED
  BY <1>1, ClosedInv

LEMMA TickInv == ASSUME IInv, TypeOK', Tick PROVE Rest'
<1>1. /\ at = "recv" /\ phase # "closed" /\ wait' = wait + 1 /\ wait \in Nat
      /\ UNCHANGED <<test_mode, phase, at, rx, lag, lines, flags, received>>
  BY Limited DEF Tick, Blocked, IInv, TypeOK
<1>2. \A s \in Stamps : /\ age[s] \in Nat
                        /\ age'[s] = IF age[s] + 1 > Cap THEN Cap ELSE age[s] + 1
  BY PassAges DEF Tick, IInv
<1>3. PassInv'
  BY <1>1 DEF PassInv, IInv, flags
<1>4. PendingInv'
  BY <1>1, <1>2, StampNames, Limited DEF PendingInv, IInv, flags
<1>5. TimerInv'
  BY <1>1, <1>2, StampNames, Limited DEF TimerInv, Undecided, IInv, TypeOK, flags
<1>6. DrainInv'
  BY <1>1 DEF DrainInv, IInv
<1> QED
  BY <1>3, <1>4, <1>5, <1>6 DEF Rest

LEMMA ReceiveInv ==
  ASSUME IInv, TypeOK', Receive \/ ReceiveTimeout \/ PeerGone
  PROVE  Rest'
<1>1. CASE Receive
  <2>1. /\ at = "recv" /\ phase # "closed" /\ wait' = 0
        /\ at' = (IF phase = "script" THEN "top" ELSE "drain")
        /\ test_pending' = (phase = "script" /\ test_pending)
        /\ received' = (received \/ phase = "main")
        /\ UNCHANGED <<phase, lag>>
    BY <1>1 DEF Receive, Blocked, StillPending
  <2>2. PassInv'
    BY <2>1 DEF PassInv, IInv
  <2>3. PendingInv'
    BY <2>1 DEF PendingInv, IInv
  <2>4. TimerInv'
    BY <2>1 DEF TimerInv
  <2>5. DrainInv'
    BY <2>1 DEF DrainInv, IInv
  <2> QED
    BY <2>2, <2>3, <2>4, <2>5 DEF Rest
<1>2. CASE ReceiveTimeout
  <2>1. /\ at = "recv" /\ phase # "closed" /\ wait' = 0
        /\ at' = (IF phase = "main" THEN "first" ELSE "top")
        /\ UNCHANGED <<phase, rx, age, lag, flags, received>>
    BY <1>2 DEF ReceiveTimeout, Blocked, Top
  <2>2. PassInv' /\ PendingInv' /\ TimerInv' /\ DrainInv'
    BY <2>1 DEF PassInv, PendingInv, TimerInv, DrainInv, IInv, flags
  <2> QED
    BY <2>2 DEF Rest
<1>3. CASE PeerGone
  BY <1>3, ClosesInv DEF PeerGone, Close, flags, clock
<1> QED
  BY <1>1, <1>2, <1>3

\* What a step inside a loop other than the main loop has to show.
LEMMA OtherLoopInv ==
  ASSUME IInv, TypeOK', phase \in {"logon", "script"}, phase' \in {"logon", "script"},
         at # "recv",
         UNCHANGED <<lag, wait, test_pending, received>>
  PROVE  Rest'
<1>1. ~test_pending /\ ~received /\ lag = 0 /\ wait = 0
  BY DEF IInv, PendingInv, DrainInv, PassInv
<1>2. PassInv' /\ PendingInv' /\ TimerInv' /\ DrainInv'
  BY <1>1 DEF PassInv, PendingInv, TimerInv, DrainInv
<1> QED
  BY <1>2 DEF Rest

\* A message is processed at "drain", where no timer has been looked at yet.
LEMMA DrainStep ==
  ASSUME IInv, TypeOK', at = "drain", phase # "closed",
         UNCHANGED <<phase, lag, wait, received, test_pending>>,
         phase = "main" => (at' = "drain" \/ (at' = "first" /\ rx' = 0)),
         \/ UNCHANGED age
         \/ \E d \in Nat, S \in SUBSET Stamps : age' = Pass(d, S) /\ "recv" \notin S
  PROVE  Rest'
<1>1. PendingInv'
  <2>1. CASE UNCHANGED age
    BY <2>1 DEF IInv, PendingInv
  <2>2. ASSUME NEW d \in Nat, NEW S \in SUBSET Stamps, age' = Pass(d, S), "recv" \notin S
        PROVE  PendingInv'
    <3>1. /\ age["recv"] \in 0..Cap /\ age["test"] \in 0..Cap
          /\ age'["recv"] = (IF age["recv"] + d > Cap THEN Cap ELSE age["recv"] + d)
          /\ age'["test"] = 0 \/ age'["test"] = (IF age["test"] + d > Cap THEN Cap ELSE age["test"] + d)
      BY <2>2, PassAges, AgeTypes, StampNames DEF IInv
    <3>2. age["recv"] >= age["test"] => age'["recv"] >= age'["test"]
      BY <3>1, Limited
    <3> QED
      BY <2>2, <3>2 DEF IInv, PendingInv
  <2> QED
    BY <2>1, <2>2
<1>2. PassInv'
  BY DEF IInv, PassInv
<1>3. TimerInv' /\ DrainInv'
  BY DEF IInv, TimerInv, DrainInv
<1> QED
  BY <1>1, <1>2, <1>3 DEF Rest

LEMMA ProcessInv ==
  ASSUME IInv, TypeOK', Process
  PROVE  Rest'
<1>1. ASSUME NEW business \in BOOLEAN, NEW answered \in BOOLEAN, NEW d \in 0..SendTime,
             HandleMessage(business, answered, d)
      PROVE  Rest'
  <2> DEFINE S == (IF answered THEN {"send"} ELSE {})
                  \cup (IF business /\ scenarios_sent /\ ~logout_initiated THEN {"resp"} ELSE {})
  <2>1. d \in Nat /\ S \in SUBSET Stamps /\ "recv" \notin S
    <3>1. S \subseteq {"send", "resp"}
      OBVIOUS
    <3> HIDE DEF S
    <3> QED
      BY <3>1, Limited, StampNames
  <2>2. age' = Pass(d, S)
    BY <1>1 DEF HandleMessage
  <2>3. /\ at = "drain" /\ phase # "closed"
        /\ UNCHANGED <<phase, lag, wait, received, test_pending>>
        /\ phase = "main" => at' = "drain"
    BY <1>1 DEF HandleMessage, Draining, Take, AfterMessage
  <2> HIDE DEF S
  <2> QED
    BY <2>1, <2>2, <2>3, DrainStep
<1>2. CASE LogonAccepted
  <2>1. /\ phase = "logon" /\ phase' = "script" /\ at = "drain" /\ at' = "command"
        /\ UNCHANGED <<lag, wait, test_pending, received>>
    BY <1>2 DEF LogonAccepted, Draining, Take, flags
  <2> QED
    BY <2>1, OtherLoopInv
<1>3. CASE StopRequested
  <2>1. PICK answered \in BOOLEAN, d \in 0..SendTime : age' = Pass(d, IF answered THEN {"send"} ELSE {})
    BY <1>3 DEF StopRequested, AnswerTime
  <2> DEFINE S == IF answered THEN {"send"} ELSE {}
  <2>2. d \in Nat /\ S \in SUBSET Stamps /\ "recv" \notin S /\ age' = Pass(d, S)
    BY <2>1, Limited, StampNames
  <2>3. at = "drain" /\ phase # "closed" /\ UNCHANGED <<lag, wait, received, flags>>
    BY <1>3 DEF StopRequested, Draining, Take
  <2>4. CASE phase = "script"
    <3>1. phase' = phase
      BY <1>3, <2>4 DEF StopRequested
    <3> HIDE DEF S
    <3> QED
      BY <2>2, <2>3, <2>4, <3>1, DrainStep DEF flags
  <2>5. CASE phase # "script"
    <3>1. phase' = "closed" /\ at' = "stopped"
      BY <1>3, <2>5 DEF StopRequested, Close
    <3> HIDE DEF S
    <3> QED
      BY <2>2, <2>3, <3>1, ClosesInv DEF flags
  <2> QED
    BY <2>4, <2>5
<1>4. CASE MessageFails
  <2>1. phase' = "closed" /\ at' = "broken" /\ UNCHANGED <<age, test_pending>>
    BY <1>4 DEF MessageFails, Close, flags
  <2> QED
    BY <2>1, ClosesInv
<1>5. CASE BufferEmpty
  <2>1. /\ at = "drain" /\ phase # "closed" /\ rx = 0 /\ rx' = 0
        /\ at' = (IF phase = "script" THEN "recv" ELSE IF phase = "main" THEN "first" ELSE "top")
        /\ UNCHANGED <<phase, age, lag, wait, received, test_pending>>
    BY <1>5 DEF BufferEmpty, Drained, Top, flags, clock
  <2> QED
    BY <2>1, DrainStep
<1> QED
  BY <1>1, <1>2, <1>3, <1>4, <1>5 DEF Process

LEMMA ScriptInv ==
  ASSUME IInv, TypeOK', LogonWait \/ Script
  PROVE  Rest'
<1>1. CASE LogonWait
  <2>1. CASE LogonOver
    <3>1. phase' = "closed" /\ at' = "no_logon" /\ UNCHANGED <<age, test_pending>>
      BY <1>1, <2>1 DEF LogonWait, Close, clock, flags
    <3> QED
      BY <3>1, ClosesInv
  <2>2. CASE ~LogonOver
    <3>1. /\ phase = "logon" /\ phase' = "logon" /\ at = "top"
          /\ UNCHANGED <<lag, wait, test_pending, received>>
      BY <1>1, <2>2 DEF LogonWait, clock, flags
    <3> QED
      BY <3>1, OtherLoopInv
  <2> QED
    BY <2>1, <2>2
<1>2. CASE (\E d \in 0..SendTime : ScriptSend(d)) \/ StartRead \/ ReadOn
  <2>1. /\ phase = "script" /\ phase' = "script" /\ at # "recv"
        /\ UNCHANGED <<lag, wait, test_pending, received>>
    BY <1>2 DEF ScriptSend, StartRead, ReadOn, Command, clock, flags
  <2> QED
    BY <2>1, OtherLoopInv
<1>3. CASE ScriptFails
  <2>1. phase' = "closed" /\ at' = "broken" /\ UNCHANGED <<age, test_pending>>
    BY <1>3 DEF ScriptFails, Close, clock, flags
  <2> QED
    BY <2>1, ClosesInv
<1>4. CASE ScriptDone
  <2>1. /\ phase = "script" /\ phase' = "main" /\ at = "command" /\ at' = "first"
        /\ UNCHANGED <<lag, wait, test_pending, received>>
    BY <1>4 DEF ScriptDone, flags
  <2>2. PassInv' /\ PendingInv' /\ TimerInv' /\ DrainInv'
    BY <2>1 DEF IInv, PassInv, PendingInv, TimerInv, DrainInv
  <2> QED
    BY <2>2 DEF Rest
<1> QED
  BY <1>1, <1>2, <1>3, <1>4 DEF Script

\* The two tests for the Logout: without one, the timer of this point has not
\* expired by now_ms, which is as old as the pass has sent.
LEMMA ConsiderInv ==
  ASSUME IInv, TypeOK', ConsiderLogout
  PROVE  Rest'
<1>1. /\ phase = "main" /\ at \in {"first", "quiet"} /\ wait = 0
      /\ lag # 0 => logout_initiated
      /\ UNCHANGED <<test_mode, rx, lines, received>>
  BY DEF ConsiderLogout, Main, IInv, PassInv
<1>2. ASSUME NEW d \in 0..SendTime, InitiateLogout(d), LogoutDue,
             at' = IF at = "first" THEN "quiet" ELSE "wait"
      PROVE  Rest'
  <2>1. lag = 0 /\ ~logout_initiated
    BY <1>1, <1>2 DEF LogoutDue, IInv, PassInv
  <2>2. /\ phase' = "main" /\ logout_initiated' /\ wait' = 0
        /\ UNCHANGED <<scenarios_sent, scenario_response_started, test_pending>>
    BY <1>1, <1>2 DEF InitiateLogout
  <2>3. age'["recv"] = Pass(d, {"send"})["recv"] /\ age'["test"] = Pass(d, {"send"})["test"]
    <3>1. Pass(d, {"send"}) \in [Stamps -> 0..Cap]
      BY PassAges, Limited DEF IInv
    <3> QED
      BY <1>2, <3>1, StampNames DEF InitiateLogout
  <2>4. test_pending => age'["recv"] >= age'["test"]
    <3>1. /\ age["recv"] \in 0..Cap /\ age["test"] \in 0..Cap /\ d \in Nat
          /\ age'["recv"] = (IF age["recv"] + d > Cap THEN Cap ELSE age["recv"] + d)
          /\ age'["test"] = (IF age["test"] + d > Cap THEN Cap ELSE age["test"] + d)
      BY <2>3, PassAges, AgeTypes, StampNames, Limited DEF IInv
    <3> QED
      BY <3>1, Limited DEF IInv, PendingInv
  <2>5. PassInv' /\ PendingInv'
    BY <1>1, <1>2, <2>2, <2>4 DEF IInv, PassInv, PendingInv
  <2>6. TimerInv' /\ DrainInv'
    BY <1>1, <1>2, <2>2 DEF IInv, TimerInv, DrainInv, Undecided
  <2> QED
    BY <2>5, <2>6 DEF Rest
<1>3. CASE SendFails
  <2>1. phase' = "closed" /\ at' = "broken" /\ UNCHANGED <<age, test_pending>>
    BY <1>3 DEF SendFails, Close, clock, flags
  <2> QED
    BY <2>1, ClosesInv
<1>4. CASE /\ ~LogoutDue /\ at' = (IF at = "first" THEN "quiet" ELSE "wait")
           /\ UNCHANGED <<phase, clock, flags>>
  <2>1. PassInv' /\ PendingInv' /\ DrainInv'
    BY <1>1, <1>4 DEF IInv, PassInv, PendingInv, DrainInv, clock, flags
  <2>2. TimerInv'
    <3>1. CASE logout_initiated
      BY <1>1, <1>4, <3>1 DEF TimerInv, Undecided, clock, flags
    <3>2. CASE ~logout_initiated /\ at = "first"
      <4>1. lag = 0 /\ age["begun"] \in Nat
        BY <1>1, <3>2, AgeTypes, Limited DEF IInv
      <4>2. scenarios_sent /\ ~scenario_response_started => age["begun"] < FirstResponse
        BY <1>4, <3>2, <4>1, Limited DEF LogoutDue, Elapsed, Answered
      <4> QED
        BY <1>1, <1>4, <3>2, <4>1, <4>2, Limited DEF TimerInv, Undecided, clock, flags
    <3>3. CASE ~logout_initiated /\ at = "quiet"
      <4>1. lag = 0 /\ age["resp"] \in Nat
        BY <1>1, <3>3, AgeTypes, Limited DEF IInv
      <4>2. scenarios_sent /\ scenario_response_started => age["resp"] < Quiet
        BY <1>4, <3>3, <4>1, Limited DEF LogoutDue, Elapsed, Answered
      <4> QED
        BY <1>1, <1>4, <3>3, <4>1, <4>2, Limited DEF TimerInv, Undecided, IInv, clock, flags
    <3> QED
      BY <1>1, <3>1, <3>2, <3>3
  <2> QED
    BY <2>1, <2>2 DEF Rest
<1> QED
  BY <1>2, <1>3, <1>4 DEF ConsiderLogout

LEMMA AwaitInv ==
  ASSUME IInv, TypeOK', AwaitLogout
  PROVE  Rest'
<1>1. /\ phase = "main" /\ at = "wait" /\ wait = 0 /\ age["logout"] \in Nat /\ lag \in 0..SendTime
      /\ UNCHANGED <<test_mode, rx, age, wait, lines, flags, received>>
  BY AgeTypes, Limited DEF AwaitLogout, Main, IInv, PassInv, TypeOK
<1>2. CASE ~logout_initiated
  <2>1. phase' = "main" /\ at' = "peer" /\ lag' = lag /\ lag = 0
    BY <1>1, <1>2 DEF AwaitLogout, IInv, PassInv
  <2>2. PassInv' /\ PendingInv' /\ TimerInv' /\ DrainInv'
    BY <1>1, <1>2, <2>1 DEF IInv, PassInv, PendingInv, TimerInv, DrainInv, Undecided, flags
  <2> QED
    BY <2>2 DEF Rest
<1>3. CASE logout_initiated /\ LogoutWaitOver
  <2>1. phase' = "closed" /\ at' = "logout_wait" /\ UNCHANGED <<age, test_pending>>
    BY <1>1, <1>3 DEF AwaitLogout, Close, flags
  <2> QED
    BY <2>1, ClosesInv
<1>4. CASE logout_initiated /\ ~LogoutWaitOver
  <2>1. phase' = "main" /\ at' = "recv" /\ lag' = 0
    BY <1>1, <1>4 DEF AwaitLogout
  <2>2. age["logout"] < LogoutWait + SendTime
    BY <1>1, <1>4, Limited DEF LogoutWaitOver, Elapsed
  <2>3. PassInv' /\ PendingInv' /\ DrainInv'
    BY <1>1, <2>1 DEF IInv, PassInv, PendingInv, DrainInv, flags
  <2>4. TimerInv'
    BY <1>1, <1>4, <2>1, <2>2, Limited DEF TimerInv, Undecided, flags
  <2> QED
    BY <2>3, <2>4 DEF Rest
<1> QED
  BY <1>2, <1>3, <1>4

\* The stamps of the scenario after a send of d, if they are not renewed by it.
LEMMA UndecidedAfter ==
  ASSUME TypeOK, NEW d \in 0..SendTime, NEW S \in SUBSET {"send", "test"}, NEW slack \in Nat,
         Undecided(slack), age' = Pass(d, S),
         UNCHANGED <<scenarios_sent, logout_initiated, scenario_response_started>>
  PROVE  Undecided(slack + SendTime)'
<1>1. /\ d \in Nat /\ age["resp"] \in Nat /\ age["begun"] \in Nat
      /\ age'["resp"] \in Nat /\ age'["resp"] <= age["resp"] + d
      /\ age'["begun"] \in Nat /\ age'["begun"] <= age["begun"] + d
  <2>1. d \in Nat /\ "resp" \notin S /\ "begun" \notin S
    BY Limited
  <2> QED
    BY <2>1, PassAges, StampNames
<1> QED
  BY <1>1, Limited DEF Undecided

LEMMA ProbeInv ==
  ASSUME IInv, TypeOK', ProbePeer
  PROVE  Rest'
<1>1. /\ phase = "main" /\ at = "peer" /\ wait = 0 /\ lag = 0 /\ ~logout_initiated
      /\ UNCHANGED <<test_mode, rx, wait, lines, scenarios_sent,
                     scenario_response_started, logout_initiated, received>>
  BY DEF ProbePeer, Main, IInv, PassInv
<1>0. Undecided(0)
  BY <1>1 DEF IInv, TimerInv
<1>2. CASE test_pending /\ AnswerOverdue /\ Close("dead_peer") /\ UNCHANGED <<age, lag, test_pending>>
  <2>1. age["test"] >= Interval
    BY <1>1, <1>2, AgeTypes, Limited DEF AnswerOverdue, Elapsed, IInv
  <2>2. PassInv' /\ PendingInv' /\ TimerInv' /\ DrainInv'
    BY <1>1, <1>2, <2>1 DEF Close, IInv, PassInv, PendingInv, TimerInv, DrainInv
  <2> QED
    BY <2>2 DEF Rest
<1>3. ASSUME NEW d \in 0..SendTime, age' = Pass(d, {"send", "test"}), lag' = lag + d,
             test_pending', at' = "heartbeat", UNCHANGED phase
      PROVE  Rest'
  <2>1. age'["send"] = 0 /\ age'["test"] = 0 /\ age'["recv"] \in Nat
    <3>1. d \in Nat /\ "recv" \notin {"send", "test"}
      BY Limited
    <3> QED
      BY <1>3, <3>1, PassAges, StampNames DEF IInv
  <2>2. PassInv' /\ PendingInv' /\ DrainInv'
    BY <1>1, <1>3, <2>1 DEF IInv, PassInv, PendingInv, DrainInv
  <2>3. Undecided(SendTime)'
    <3>1. {"send", "test"} \in SUBSET {"send", "test"} /\ 0 \in Nat /\ 0 + SendTime = SendTime
      BY Limited
    <3>2. Undecided(0 + SendTime)'
      BY <1>0, <1>1, <1>3, <3>1, UndecidedAfter DEF IInv
    <3> QED
      BY <3>1, <3>2
  <2>4. TimerInv'
    BY <1>1, <1>3, <2>3 DEF TimerInv, Undecided
  <2> QED
    BY <2>2, <2>4 DEF Rest
<1>4. CASE Close("broken") /\ UNCHANGED <<age, lag, test_pending>>
  <2>1. phase' = "closed" /\ at' = "broken"
    BY <1>4 DEF Close
  <2> QED
    BY <1>4, <2>1, ClosesInv
<1>5. CASE at' = "heartbeat" /\ UNCHANGED <<phase, age, lag, test_pending>>
  <2>1. PassInv' /\ PendingInv' /\ DrainInv'
    BY <1>1, <1>5 DEF IInv, PassInv, PendingInv, DrainInv
  <2>2. TimerInv'
    BY <1>0, <1>1, <1>5, AgeTypes, Limited DEF TimerInv, Undecided, IInv
  <2> QED
    BY <2>1, <2>2 DEF Rest
<1> QED
  BY <1>2, <1>3, <1>4, <1>5 DEF ProbePeer

\* No Heartbeat: last_send_ms is younger than Interval, and now_ms is not old, or it
\* would be older than the TestRequest of this pass.
LEMMA HeartbeatInv ==
  ASSUME IInv, TypeOK', Heartbeat
  PROVE  Rest'
<1>1. /\ phase = "main" /\ at = "heartbeat" /\ wait = 0 /\ lag' = 0 /\ ~logout_initiated
      /\ UNCHANGED <<test_mode, rx, wait, lines, flags, received>>
  BY DEF Heartbeat, Main, IInv, PassInv
<1>0. Undecided(SendTime)
  BY <1>1 DEF IInv, TimerInv
<1>2. ASSUME NEW d \in 0..SendTime, SendCurrent(d), at' = "recv", UNCHANGED phase
      PROVE  Rest'
  <2>1. age' = Pass(d, {"send"}) /\ d \in Nat
    BY <1>2, Limited DEF SendCurrent
  <2>2. /\ age["recv"] \in 0..Cap /\ age["test"] \in 0..Cap /\ age'["send"] = 0
        /\ age'["recv"] = (IF age["recv"] + d > Cap THEN Cap ELSE age["recv"] + d)
        /\ age'["test"] = (IF age["test"] + d > Cap THEN Cap ELSE age["test"] + d)
    BY <2>1, PassAges, AgeTypes, StampNames DEF IInv
  <2>3. age["recv"] >= age["test"] => age'["recv"] >= age'["test"]
    BY <2>1, <2>2, Limited
  <2>4. PassInv' /\ PendingInv' /\ DrainInv'
    BY <1>1, <1>2, <2>3 DEF IInv, PassInv, PendingInv, DrainInv, flags
  <2>5. Undecided(2 * SendTime)'
    <3>1. {"send"} \in SUBSET {"send", "test"} /\ SendTime + SendTime = 2 * SendTime
      BY Limited
    <3>2. UNCHANGED <<scenarios_sent, logout_initiated, scenario_response_started>>
      BY <1>1 DEF flags
    <3>3. Undecided(SendTime + SendTime)'
      BY <1>0, <2>1, <3>1, <3>2, UndecidedAfter, Limited DEF IInv
    <3> QED
      BY <3>1, <3>3
  <2>6. TimerInv'
    BY <1>1, <1>2, <2>2, <2>5, Limited DEF TimerInv, Undecided, flags
  <2> QED
    BY <2>4, <2>6 DEF Rest
<1>3. CASE Close("broken") /\ UNCHANGED age
  <2>1. phase' = "closed" /\ at' = "broken" /\ UNCHANGED test_pending
    BY <1>1, <1>3 DEF Close, flags
  <2> QED
    BY <1>3, <2>1, ClosesInv
<1>4. CASE ~HeartbeatDue /\ at' = "recv" /\ UNCHANGED <<phase, age>>
  <2>1. age["send"] \in Nat /\ lag \in Nat /\ ~(age["send"] < lag) /\ age["send"] - lag < Interval
    BY <1>4, AgeTypes, Limited DEF HeartbeatDue, Elapsed, IInv, TypeOK
  <2>2. lag = 0
    BY <1>1, <2>1 DEF IInv, PassInv
  <2>3. PassInv' /\ PendingInv' /\ DrainInv'
    BY <1>1, <1>4 DEF IInv, PassInv, PendingInv, DrainInv, flags
  <2>4. TimerInv'
    BY <1>0, <1>1, <1>4, <2>1, <2>2, AgeTypes, Limited DEF TimerInv, Undecided, IInv, flags
  <2> QED
    BY <2>3, <2>4 DEF Rest
<1> QED
  BY <1>2, <1>3, <1>4 DEF Heartbeat

-----------------------------------------------------------------------------
(* The invariant and the theorems                                          *)

LEMMA NextInv == IInv /\ [Next]_vars => IInv'
<1> SUFFICES ASSUME IInv, [Next]_vars PROVE IInv'
  OBVIOUS
<1>1. TypeOK'
  BY NextType DEF IInv
<1>2. CASE UNCHANGED vars
  BY <1>1, <1>2 DEF vars, clock, flags, IInv, PassInv, PendingInv, TimerInv, DrainInv, Undecided
<1>3. CASE Next
  BY <1>1, <1>3, TickInv, ReceiveInv, ProcessInv, ScriptInv, ConsiderInv, AwaitInv, ProbeInv,
     HeartbeatInv DEF Next, Thread, Decide, IInv, Rest
<1> QED
  BY <1>2, <1>3

LEMMA Invariance == Spec => []IInv
<1> QED
  BY InitInv, NextInv, PTL DEF Spec

\* Every variable keeps its type, and every loop its points.
THEOREM TimersTypeCorrect == Spec => []TypeOK
<1>1. IInv => TypeOK
  BY DEF IInv
<1> QED
  BY <1>1, Invariance, PTL

\* No counterparty that answers within the interval is given up.
THEOREM AnsweringPeerIsKept == Spec => []AnsweringPeerKept
<1>1. IInv => AnsweringPeerKept
  BY DEF IInv, PendingInv, AnsweringPeerKept
<1> QED
  BY <1>1, Invariance, PTL

\* A Heartbeat is due after an interval without a send, or behind a TestRequest of
\* the same pass.
THEOREM HeartbeatsInTurn == Spec => []HeartbeatInTurn
<1>1. IInv => HeartbeatInTurn
  <2> SUFFICES ASSUME IInv, Main("heartbeat"), HeartbeatDue, ~(age["send"] >= Interval)
               PROVE  test_pending /\ age["test"] = 0 /\ age["send"] = 0 /\ lag > 0
    BY DEF HeartbeatInTurn
  <2>1. age["send"] \in Nat /\ lag \in Nat /\ age["send"] < Interval
    BY AgeTypes, Limited DEF IInv, TypeOK
  <2>2. lag # 0
    BY <2>1, Limited DEF HeartbeatDue, Elapsed
  <2> QED
    BY <2>1, <2>2 DEF IInv, PassInv, Main
<1> QED
  BY <1>1, Invariance, PTL

-----------------------------------------------------------------------------
(* How long the client waits                                               *)

\* The stamp that says when the counterparty is given up.
Heard == IF test_pending THEN "test" ELSE "recv"

\* The deadlines of the logon loop, of a read, and of the counterparty's silence, at
\* the points where they have been looked at: what has passed since is the messages
\* handled, a Heartbeat, and the time in recv.
DeadlineInv ==
  /\ phase = "logon" /\ at = "recv" => age["begun"] < LogonTimeout + wait
  /\ phase = "script" =>
       /\ at = "drain" => age["begun"] < ReadTimeout + SendTime * (RxBound - rx)
       /\ at = "recv" => age["begun"] < ReadTimeout + SendTime * RxBound + wait
  /\ phase = "main" /\ ~logout_initiated =>
       /\ at = "heartbeat" => age[Heard] < Interval
       /\ at = "recv" => age[Heard] < Interval + SendTime + wait

LEMMA WaitLimits ==
  /\ LogonTimeout \in Nat /\ LogonTimeout + RecvTimeout + 2 * SendTime < Cap
  /\ ReadTimeout \in Nat /\ ReadTimeout + RecvTimeout + 2 * SendTime < Cap
<1>1. LogonTimeout \in Limits /\ ReadTimeout \in Limits
  BY DEF Limits
<1> QED
  BY <1>1, TimersAssumption

\* One message more is handled.
LEMMA OneMessage ==
  ASSUME NEW m \in Nat, NEW d \in 0..SendTime, NEW a \in Nat,
         NEW r \in Nat, a < r + SendTime * m
  PROVE  a + d < r + SendTime * (m + 1)
<1>1. SendTime \in Nat /\ SendTime * (m + 1) = SendTime * m + SendTime /\ SendTime * m \in Nat
  BY Limited
<1> QED
  BY <1>1

LEMMA TickDeadline ==
  ASSUME IInv, DeadlineInv, Tick
  PROVE  DeadlineInv'
<1>1. /\ at = "recv" /\ wait' = wait + 1 /\ wait \in Nat
      /\ UNCHANGED <<phase, at, rx, flags>>
  BY Limited DEF Tick, Blocked, IInv, TypeOK
<1>2. \A s \in Stamps : age[s] \in Nat /\ age'[s] \in Nat /\ age'[s] <= age[s] + 1
  BY PassAges DEF Tick, IInv
<1>3. \A s \in Stamps : \A l \in Nat : age[s] < l + wait => age'[s] < l + wait'
  BY <1>1, <1>2
<1>4. Heard' = Heard /\ Heard \in Stamps /\ "begun" \in Stamps
  BY <1>1, StampNames DEF Heard, flags
<1>5. /\ LogonTimeout \in Nat /\ ReadTimeout + SendTime * RxBound \in Nat /\ Interval + SendTime \in Nat
  BY Limited, WaitLimits
<1> QED
  BY <1>1, <1>3, <1>4, <1>5 DEF DeadlineInv, flags

LEMMA ProcessDeadline ==
  ASSUME IInv, DeadlineInv, Process
  PROVE  DeadlineInv'
<1>1. ASSUME NEW business \in BOOLEAN, NEW answered \in BOOLEAN, NEW d \in 0..SendTime,
             HandleMessage(business, answered, d)
      PROVE  DeadlineInv'
  <2>1. at = "drain" /\ rx \in 1..RxBound /\ rx' = rx - 1 /\ phase' = phase
        /\ at' = (IF phase = "script" /\ business THEN "command" ELSE "drain")
    BY <1>1, Limited DEF HandleMessage, Draining, Take, AfterMessage, IInv, TypeOK
  <2>2. CASE phase = "script" /\ ~business
    <3>1. age["begun"] \in Nat /\ age'["begun"] \in Nat /\ age'["begun"] <= age["begun"] + d
      <4>1. d \in Nat
        BY Limited
      <4>2. PICK S : age' = Pass(d, S) /\ "begun" \notin S
        BY <1>1 DEF HandleMessage
      <4> QED
        BY <4>1, <4>2, PassAges, StampNames DEF IInv
    <3>2. PICK m : m = RxBound - rx
      OBVIOUS
    <3>3. m \in Nat /\ RxBound - rx' = m + 1
      BY <2>1, <3>2, Limited
    <3>4. age["begun"] < ReadTimeout + SendTime * m
      BY <2>1, <2>2, <3>2 DEF DeadlineInv
    <3>5. age["begun"] + d < ReadTimeout + SendTime * (m + 1)
      BY <3>1, <3>3, <3>4, OneMessage, WaitLimits
    <3>6. PICK u : u = ReadTimeout + SendTime * (m + 1)
      OBVIOUS
    <3>7. u \in Nat
      BY <3>3, <3>6, Limited, WaitLimits
    <3>8. d \in Nat
      BY Limited
    <3>9. age'["begun"] < u
      BY <3>1, <3>5, <3>6, <3>7, <3>8
    <3> QED
      BY <2>1, <2>2, <3>3, <3>6, <3>9 DEF DeadlineInv
  <2> QED
    BY <2>1, <2>2 DEF DeadlineInv
<1>2. CASE LogonAccepted
  BY <1>2 DEF LogonAccepted, DeadlineInv
<1>3. CASE StopRequested \/ MessageFails
  BY <1>3 DEF StopRequested, MessageFails, Close, DeadlineInv
<1>4. CASE BufferEmpty
  <2>1. at = "drain" /\ rx = 0 /\ phase' = phase /\ UNCHANGED clock
        /\ at' = (IF phase = "script" THEN "recv" ELSE IF phase = "main" THEN "first" ELSE "top")
    BY <1>4 DEF BufferEmpty, Drained, Top
  <2>2. CASE phase = "script"
    <3>1. wait = 0 /\ wait' = wait /\ age' = age
      BY <2>1, <2>2 DEF IInv, PassInv, clock
    <3>2. age["begun"] < ReadTimeout + SendTime * RxBound
      BY <2>1, <2>2, Limited DEF DeadlineInv
    <3>3. ReadTimeout + SendTime * RxBound + 0 = ReadTimeout + SendTime * RxBound
      BY Limited, WaitLimits
    <3> QED
      BY <2>1, <2>2, <3>1, <3>2, <3>3 DEF DeadlineInv
  <2> QED
    BY <2>1, <2>2 DEF DeadlineInv
<1> QED
  BY <1>1, <1>2, <1>3, <1>4 DEF Process

LEMMA DecideDeadline ==
  ASSUME IInv, DeadlineInv, Decide
  PROVE  DeadlineInv'
<1>1. CASE ConsiderLogout \/ AwaitLogout
  <2>1. \/ phase' = "main" /\ at' \in {"quiet", "wait", "peer"}
        \/ phase' = "main" /\ at' = "recv" /\ logout_initiated'
        \/ phase' = "closed"
    BY <1>1 DEF ConsiderLogout, AwaitLogout, InitiateLogout, Main, Close, SendFails, flags
  <2> QED
    BY <2>1 DEF DeadlineInv
<1>2. CASE ProbePeer
  <2>1. phase = "main" /\ at = "peer" /\ lag = 0
    BY <1>2 DEF ProbePeer, Main, IInv, PassInv
  <2>2. CASE phase' = "closed"
    BY <2>2 DEF DeadlineInv
  <2>3. ASSUME NEW d \in 0..SendTime, age' = Pass(d, {"send", "test"}), test_pending',
               at' = "heartbeat", phase' = phase
        PROVE  DeadlineInv'
    <3>1. age'["test"] = 0
      <4>1. d \in Nat
        BY Limited
      <4> QED
        BY <2>3, <4>1, PassAges, StampNames DEF IInv
    <3> QED
      BY <2>1, <2>3, <3>1, Limited DEF DeadlineInv, Heard
  <2>4. CASE /\ IF test_pending THEN ~AnswerOverdue ELSE ~Elapsed("recv", Interval)
             /\ at' = "heartbeat" /\ UNCHANGED <<phase, age, lag, test_pending>>
    <3>1. age["test"] \in Nat /\ age["recv"] \in Nat
      BY AgeTypes, Limited DEF IInv
    <3>2. age[Heard] < Interval
      BY <2>1, <2>4, <3>1, Limited DEF AnswerOverdue, Elapsed, Heard
    <3>3. Heard' = Heard
      BY <2>4 DEF Heard
    <3> QED
      BY <2>1, <2>4, <3>2, <3>3 DEF DeadlineInv
  <2> QED
    BY <1>2, <2>2, <2>3, <2>4 DEF ProbePeer, Close
<1>3. CASE Heartbeat
  <2>1. /\ phase = "main" /\ at = "heartbeat" /\ wait = 0 /\ wait' = 0
        /\ ~logout_initiated /\ UNCHANGED flags
    BY <1>3 DEF Heartbeat, Main, IInv, PassInv
  <2>2. age[Heard] < Interval /\ Heard' = Heard /\ Heard \in Stamps /\ Heard # "send"
    BY <2>1, StampNames DEF DeadlineInv, Heard, flags
  <2>3. age[Heard] \in Nat
    BY <2>2, Limited DEF IInv, TypeOK
  <2>4. CASE phase' = "closed"
    BY <2>4 DEF DeadlineInv
  <2>5. ASSUME NEW d \in 0..SendTime, SendCurrent(d), at' = "recv", phase' = phase
        PROVE  DeadlineInv'
    <3>1. d \in Nat /\ d <= SendTime /\ age' = Pass(d, {"send"})
      BY <2>5, Limited DEF SendCurrent
    <3>2. age'[Heard] \in Nat /\ age'[Heard] <= age[Heard] + d
      BY <2>2, <3>1, PassAges DEF IInv
    <3>3. age'[Heard] < Interval + SendTime + 0
      BY <2>2, <2>3, <3>1, <3>2, Limited
    <3> QED
      BY <2>1, <2>2, <2>5, <3>3 DEF DeadlineInv
  <2>6. CASE at' = "recv" /\ UNCHANGED <<phase, age>>
    <3>1. age[Heard] < Interval + SendTime + 0
      BY <2>2, <2>3, Limited
    <3> QED
      BY <2>1, <2>2, <2>6, <3>1 DEF DeadlineInv
  <2> QED
    BY <1>3, <2>4, <2>5, <2>6 DEF Heartbeat, Close
<1> QED
  BY <1>1, <1>2, <1>3 DEF Decide

LEMMA DeadlineStep == IInv /\ DeadlineInv /\ [Next]_vars => DeadlineInv'
<1> SUFFICES ASSUME IInv, DeadlineInv, [Next]_vars PROVE DeadlineInv'
  OBVIOUS
<1>1. CASE UNCHANGED vars
  BY <1>1 DEF vars, clock, flags, DeadlineInv, Heard
<1>2. CASE Receive
  <2>1. phase' = phase /\ at' = (IF phase = "script" THEN "top" ELSE "drain")
    BY <1>2 DEF Receive
  <2> QED
    BY <2>1 DEF DeadlineInv
<1>3. CASE ReceiveTimeout \/ PeerGone
  BY <1>3 DEF ReceiveTimeout, PeerGone, Close, Top, DeadlineInv
<1>4. CASE LogonWait
  <2>1. /\ phase = "logon" /\ at = "top" /\ wait' = wait /\ age' = age
        /\ \/ phase' = "closed"
           \/ phase' = phase /\ at' = "recv" /\ ~LogonOver
    BY <1>4 DEF LogonWait, Close, clock
  <2>2. wait = 0 /\ age["begun"] \in Nat
    BY <2>1, AgeTypes, Limited DEF IInv, PassInv
  <2>3. ~LogonOver => age["begun"] < LogonTimeout + 0
    BY <2>2, WaitLimits DEF LogonOver
  <2> QED
    BY <2>1, <2>2, <2>3 DEF DeadlineInv
<1>5. CASE Script
  <2>1. \/ phase' = "script" /\ at' \in {"command", "top"}
        \/ phase' = "main" /\ at' = "first"
        \/ phase' = "closed"
        \/ ReadOn
    BY <1>5 DEF Script, ScriptSend, StartRead, ScriptFails, ScriptDone, Command, Close
  <2>2. CASE ReadOn
    <3>1. /\ phase' = "script" /\ age' = age /\ rx' = rx
          /\ at' = IF age["begun"] >= ReadTimeout THEN "command" ELSE "drain"
      BY <2>2 DEF ReadOn, clock
    <3>2. age["begun"] \in Nat /\ RxBound - rx \in Nat
      BY AgeTypes, Limited DEF IInv, TypeOK
    <3>3. SendTime * (RxBound - rx) \in Nat
      BY <3>2, Limited
    <3>4. age["begun"] < ReadTimeout => age["begun"] < ReadTimeout + SendTime * (RxBound - rx)
      BY <3>2, <3>3, WaitLimits
    <3> QED
      BY <3>1, <3>2, <3>4, WaitLimits DEF DeadlineInv
  <2> QED
    BY <2>1, <2>2 DEF DeadlineInv
<1> QED
  BY <1>1, <1>2, <1>3, <1>4, <1>5, TickDeadline, ProcessDeadline, DecideDeadline DEF Next, Thread

\* Wherever the client blocks, its deadline has not passed, or by no more than the
\* receive it is in and the sends since it was looked at: the logon loop
\* (application.cpp:876), the reads of a script (application.cpp:727), and the main
\* loop, in which the counterparty was heard, or asked by a TestRequest, within the
\* heartbeat interval (application.cpp:1023).
WaitsBounded ==
  at = "recv" =>
    /\ phase = "logon" => age["begun"] < LogonTimeout + RecvTimeout
    /\ phase = "script" => age["begun"] < ReadTimeout + SendTime * RxBound + RecvTimeout
    /\ phase = "main" /\ ~logout_initiated => age[Heard] < Interval + SendTime + RecvTimeout

\* The safety half of LogonEnds and DeadPeerEnds: if the clock goes on, every wait of
\* the client comes to its end.
THEOREM WaitsAreBounded == Spec => []WaitsBounded
<1>1. Init => DeadlineInv
  BY DEF Init, DeadlineInv
<1>2. IInv /\ DeadlineInv => WaitsBounded
  <2> SUFFICES ASSUME IInv, DeadlineInv, at = "recv" PROVE WaitsBounded
    BY DEF WaitsBounded
  <2>1. wait \in Nat /\ wait <= RecvTimeout /\ RecvTimeout \in Nat
    BY Limited DEF IInv, TypeOK
  <2>2. \A a, l \in Nat : a < l + wait => a < l + RecvTimeout
    BY <2>1
  <2>3. \A s \in Stamps : age[s] \in Nat
    BY Limited DEF IInv, TypeOK
  <2>4. "begun" \in Stamps /\ Heard \in Stamps
    BY StampNames DEF Heard
  <2>5. LogonTimeout \in Nat /\ ReadTimeout + SendTime * RxBound \in Nat /\ Interval + SendTime \in Nat
    BY Limited, WaitLimits
  <2> QED
    BY <2>2, <2>3, <2>4, <2>5 DEF DeadlineInv, WaitsBounded
<1> QED
  BY <1>1, <1>2, DeadlineStep, Invariance, PTL DEF Spec

-----------------------------------------------------------------------------
(* What the client's stamps say of one another                             *)

\* The client's Logon is as old as the logon loop, its Logout as logout_start_ms, or
\* something was sent since. When the Logout went out, the stamp that decided on it
\* had reached its limit, and nothing has renewed that stamp since.
StampInv ==
  /\ phase = "logon" => age["send"] <= age["begun"]
  /\ logout_initiated =>
       /\ scenarios_sent /\ phase \in {"main", "closed"}
       /\ age["send"] <= age["logout"]
       /\ IF scenario_response_started THEN age["resp"] >= Capped(age["logout"] + Quiet)
                                       ELSE age["begun"] >= Capped(age["logout"] + FirstResponse)

LEMMA PassNothing ==
  ASSUME TypeOK
  PROVE  age = Pass(0, {})
<1>1. \A s \in Stamps : age[s] \in 0..Cap
  BY DEF TypeOK
<1>2. \A s \in Stamps : Capped(age[s] + 0) = age[s]
  BY <1>1, Limited DEF Capped
<1>3. Pass(0, {}) = [s \in Stamps |-> age[s]]
  BY <1>2 DEF Pass
<1> QED
  BY <1>3 DEF TypeOK

\* Two stamps that are not renewed keep the distance they had, up to Cap.
LEMMA PassOrder ==
  ASSUME TypeOK, NEW d \in Nat, NEW S, age' = Pass(d, S),
         NEW s \in Stamps, NEW t \in Stamps, s \notin S, t \notin S, NEW k \in Nat
  PROVE  /\ age[s] >= Capped(age[t] + k) => age'[s] >= Capped(age'[t] + k)
         /\ age[s] <= age[t] + k => age'[s] <= age'[t] + k
<1>1. /\ age[s] \in 0..Cap /\ age[t] \in 0..Cap
      /\ age'[s] = (IF age[s] + d > Cap THEN Cap ELSE age[s] + d)
      /\ age'[t] = (IF age[t] + d > Cap THEN Cap ELSE age[t] + d)
  BY PassAges DEF TypeOK
<1> QED
  BY <1>1, Limited DEF Capped

\* Stamps are renewed, but not those the Logout was decided by once it is out.
LEMMA StampStep ==
  ASSUME IInv, StampInv, NEW d \in Nat, NEW S \in SUBSET (Stamps \ {"logout"}),
         age' = Pass(d, S), UNCHANGED logout_initiated,
         logout_initiated =>
           /\ "resp" \notin S /\ "begun" \notin S
           /\ phase' \in {"main", "closed"}
           /\ UNCHANGED <<scenarios_sent, scenario_response_started>>,
         phase' = "logon" => phase = "logon" /\ "begun" \notin S
  PROVE  StampInv'
<1>0. TypeOK
  BY DEF IInv
<1>1. ASSUME NEW t \in Stamps, t \notin S, age["send"] <= age[t]
      PROVE  age'["send"] <= age'[t]
  <2>1. age'[t] \in Nat /\ age["send"] \in Nat /\ age[t] \in Nat /\ age'["send"] \in Nat
    BY <1>0, <1>1, PassAges, StampNames
  <2>2. CASE "send" \in S
    <3>1. age'["send"] = 0
      BY <1>0, <2>2, PassAges, StampNames
    <3> QED
      BY <2>1, <3>1
  <2>3. CASE "send" \notin S
    <3>1. age["send"] <= age[t] + 0
      BY <1>1, <2>1
    <3>2. age'["send"] <= age'[t] + 0
      BY <1>0, <1>1, <2>3, <3>1, PassOrder, StampNames
    <3> QED
      BY <2>1, <3>2
  <2> QED
    BY <2>2, <2>3
<1>2. phase' = "logon" => age'["send"] <= age'["begun"]
  BY <1>1, StampNames DEF StampInv
<1>3. ASSUME logout_initiated
      PROVE  /\ age'["send"] <= age'["logout"]
             /\ IF scenario_response_started THEN age'["resp"] >= Capped(age'["logout"] + Quiet)
                                             ELSE age'["begun"] >= Capped(age'["logout"] + FirstResponse)
  <2>1. "logout" \notin S
    OBVIOUS
  <2>2. age'["send"] <= age'["logout"]
    BY <1>1, <1>3, <2>1, StampNames DEF StampInv
  <2>3. CASE scenario_response_started
    BY <1>0, <1>3, <2>1, <2>2, <2>3, PassOrder, StampNames, Limited DEF StampInv
  <2>4. CASE ~scenario_response_started
    BY <1>0, <1>3, <2>1, <2>2, <2>4, PassOrder, StampNames, Limited DEF StampInv
  <2> QED
    BY <2>3, <2>4
<1>4. logout_initiated' =>
        /\ scenarios_sent' /\ phase' \in {"main", "closed"}
        /\ age'["send"] <= age'["logout"]
        /\ IF scenario_response_started' THEN age'["resp"] >= Capped(age'["logout"] + Quiet)
                                         ELSE age'["begun"] >= Capped(age'["logout"] + FirstResponse)
  <2> SUFFICES ASSUME logout_initiated
               PROVE  /\ scenarios_sent' /\ phase' \in {"main", "closed"}
                      /\ age'["send"] <= age'["logout"]
                      /\ IF scenario_response_started'
                         THEN age'["resp"] >= Capped(age'["logout"] + Quiet)
                         ELSE age'["begun"] >= Capped(age'["logout"] + FirstResponse)
    OBVIOUS
  <2>1. scenarios_sent' = scenarios_sent /\ scenario_response_started' = scenario_response_started
    OBVIOUS
  <2>2. scenarios_sent
    BY DEF StampInv
  <2> QED
    BY <1>3, <2>1, <2>2
<1>5. Capped(age'["logout"] + Quiet) = Capped(age["logout"] + Quiet)'
      /\ Capped(age'["logout"] + FirstResponse) = Capped(age["logout"] + FirstResponse)'
  BY DEF Capped
<1> QED
  BY <1>2, <1>4, <1>5 DEF StampInv

\* The client's Logout goes out when its stamp has reached its limit by a clock that
\* was read at the top of the pass.
LEMMA InitiateStamps ==
  ASSUME IInv, ConsiderLogout, LogoutDue, NEW d \in 0..SendTime, InitiateLogout(d)
  PROVE  StampInv'
<1>1. /\ phase = "main" /\ at \in {"first", "quiet"} /\ lag = 0
      /\ phase' = phase /\ logout_initiated' = TRUE /\ scenarios_sent
      /\ UNCHANGED <<scenarios_sent, scenario_response_started>>
  BY DEF ConsiderLogout, Main, LogoutDue, InitiateLogout, IInv, PassInv
<1>2. Pass(d, {"send"}) \in [Stamps -> 0..Cap] /\ d \in Nat
  BY PassAges, Limited DEF IInv
<1>3. age' = [Pass(d, {"send"}) EXCEPT !["logout"] = Capped(lag + d)]
  BY DEF InitiateLogout
<1>4. /\ age'["logout"] = d
      /\ age'["send"] = 0
      /\ age'["resp"] = Capped(age["resp"] + d)
      /\ age'["begun"] = Capped(age["begun"] + d)
  <2>1. Capped(0 + d) = d
    BY <1>2, Limited DEF Capped
  <2>2. age'["logout"] = Capped(lag + d)
    BY <1>2, <1>3, StampNames
  <2>3. \A s \in Stamps \ {"logout"} : age'[s] = Pass(d, {"send"})[s]
    BY <1>2, <1>3
  <2> QED
    BY <1>1, <2>1, <2>2, <2>3, StampNames DEF Pass
<1>5. IF scenario_response_started THEN age["resp"] >= Quiet ELSE age["begun"] >= FirstResponse
  BY <1>1, AgeTypes, Limited DEF LogoutDue, Elapsed, Answered, IInv
<1>6. IF scenario_response_started THEN age'["resp"] >= Capped(age'["logout"] + Quiet)
                                   ELSE age'["begun"] >= Capped(age'["logout"] + FirstResponse)
  BY <1>2, <1>4, <1>5, AgeTypes, Limited DEF Capped, IInv
<1>7. Capped(age'["logout"] + Quiet) = Capped(age["logout"] + Quiet)'
      /\ Capped(age'["logout"] + FirstResponse) = Capped(age["logout"] + FirstResponse)'
  BY DEF Capped
<1> QED
  BY <1>1, <1>2, <1>4, <1>6, <1>7 DEF StampInv

LEMMA StampNext == IInv /\ StampInv /\ [Next]_vars => StampInv'
<1> SUFFICES ASSUME IInv, StampInv, [Next]_vars PROVE StampInv'
  OBVIOUS
<1>0. TypeOK
  BY DEF IInv
<1>1. ASSUME UNCHANGED <<age, flags>>, phase' \in {phase, "closed"}
      PROVE  StampInv'
  <2>1. age' = Pass(0, {})
    BY <1>0, <1>1, PassNothing
  <2> QED
    BY <1>1, <2>1, StampStep DEF flags, StampInv
<1>2. CASE Tick
  <2>1. age' = Pass(1, {}) /\ UNCHANGED <<phase, flags>>
    BY <1>2 DEF Tick
  <2> QED
    BY <2>1, StampStep DEF flags, StampInv
<1>3. CASE Receive
  <2>1. UNCHANGED <<phase, scenarios_sent, scenario_response_started, logout_initiated>>
    BY <1>3 DEF Receive
  <2>2. CASE age' = age
    <3>1. age' = Pass(0, {})
      BY <1>0, <2>2, PassNothing
    <3> QED
      BY <2>1, <3>1, StampStep DEF StampInv
  <2>3. CASE age' = Pass(0, {"recv"})
    <3>1. {"recv"} \in SUBSET (Stamps \ {"logout"})
      BY StampNames
    <3> QED
      BY <2>1, <2>3, <3>1, StampStep DEF StampInv
  <2> QED
    BY <1>3, <2>2, <2>3 DEF Receive
<1>4. CASE ReceiveTimeout \/ PeerGone
  BY <1>1, <1>4 DEF ReceiveTimeout, PeerGone, Close, clock
<1>5. ASSUME NEW business \in BOOLEAN, NEW answered \in BOOLEAN, NEW d \in 0..SendTime,
             HandleMessage(business, answered, d)
      PROVE  StampInv'
  <2> DEFINE S == (IF answered THEN {"send"} ELSE {})
                  \cup (IF business /\ scenarios_sent /\ ~logout_initiated THEN {"resp"} ELSE {})
  <2>1. d \in Nat /\ S \in SUBSET (Stamps \ {"logout"}) /\ "begun" \notin S
        /\ (logout_initiated => "resp" \notin S)
    BY Limited, StampNames
  <2>2. /\ age' = Pass(d, S)
        /\ UNCHANGED <<phase, scenarios_sent, logout_initiated>>
        /\ logout_initiated => scenario_response_started' = scenario_response_started
    BY <1>5, <1>0 DEF HandleMessage, TypeOK
  <2> HIDE DEF S
  <2> QED
    BY <2>1, <2>2, StampStep DEF StampInv
<1>6. CASE LogonAccepted \/ StopRequested
  <2>1. PICK answered \in BOOLEAN, d \in 0..SendTime : age' = Pass(d, IF answered THEN {"send"} ELSE {})
    BY <1>6 DEF LogonAccepted, StopRequested, AnswerTime
  <2>2. /\ UNCHANGED flags
        /\ phase' \in {phase, "closed"} \/ (phase = "logon" /\ phase' = "script")
    BY <1>6 DEF LogonAccepted, StopRequested, Close
  <2>3. PICK S \in SUBSET {"send"} : age' = Pass(d, S)
    BY <2>1
  <2>4. d \in Nat /\ S \in SUBSET (Stamps \ {"logout"}) /\ "begun" \notin S /\ "resp" \notin S
    BY Limited, StampNames
  <2> QED
    BY <2>2, <2>3, <2>4, StampStep DEF StampInv, flags
<1>7. CASE MessageFails \/ BufferEmpty \/ LogonWait
  <2>1. UNCHANGED <<age, flags>> /\ phase' \in {phase, "closed"}
    BY <1>7 DEF MessageFails, BufferEmpty, LogonWait, Close, clock
  <2> QED
    BY <1>1, <2>1
<1>8. CASE Script
  <2>0. phase = "script" /\ ~logout_initiated /\ phase' \in {"script", "main", "closed"}
        /\ ~logout_initiated'
    <3>1. phase = "script" /\ logout_initiated' = logout_initiated
          /\ phase' \in {"script", "main", "closed"}
      BY <1>8 DEF Script, ScriptSend, StartRead, ReadOn, ScriptFails, ScriptDone, Command, Close, flags
    <3> QED
      BY <3>1 DEF StampInv
  <2> QED
    BY <2>0 DEF StampInv
<1>9. CASE ConsiderLogout
  <2>1. phase = "main"
    BY <1>9 DEF ConsiderLogout, Main
  <2>2. CASE SendFails
    BY <1>1, <2>2 DEF SendFails, Close, clock
  <2>3. CASE ~LogoutDue
    <3>1. UNCHANGED <<age, flags>> /\ phase' = phase
      BY <1>9, <2>3 DEF ConsiderLogout, clock
    <3> QED
      BY <1>1, <3>1
  <2>4. CASE LogoutDue /\ \E d \in 0..SendTime : InitiateLogout(d)
    BY <1>9, <2>4, InitiateStamps
  <2> QED
    BY <1>9, <2>2, <2>3, <2>4 DEF ConsiderLogout
<1>10. CASE AwaitLogout
  BY <1>1, <1>10 DEF AwaitLogout, Close
<1>11. CASE ProbePeer
  <2>1. /\ phase = "main" /\ phase' \in {"main", "closed"}
        /\ UNCHANGED <<scenarios_sent, scenario_response_started, logout_initiated>>
        /\ age' = age \/ \E d \in 0..SendTime : age' = Pass(d, {"send", "test"})
    BY <1>11 DEF ProbePeer, Main, Close
  <2>2. CASE age' = age
    <3>1. age' = Pass(0, {})
      BY <1>0, <2>2, PassNothing
    <3> QED
      BY <2>1, <3>1, StampStep
  <2>3. ASSUME NEW d \in 0..SendTime, age' = Pass(d, {"send", "test"}) PROVE StampInv'
    <3>1. d \in Nat /\ {"send", "test"} \in SUBSET (Stamps \ {"logout"})
      BY Limited, StampNames
    <3> QED
      BY <2>1, <2>3, <3>1, StampStep
  <2> QED
    BY <2>1, <2>2, <2>3
<1>12. CASE Heartbeat
  <2>1. /\ phase = "main" /\ phase' \in {"main", "closed"} /\ UNCHANGED flags
        /\ age' = age \/ \E d \in 0..SendTime : age' = Pass(d, {"send"})
    BY <1>12 DEF Heartbeat, Main, Close, SendCurrent
  <2>2. CASE age' = age
    BY <1>1, <2>1, <2>2
  <2>3. ASSUME NEW d \in 0..SendTime, age' = Pass(d, {"send"}) PROVE StampInv'
    <3>1. d \in Nat /\ {"send"} \in SUBSET (Stamps \ {"logout"})
      BY Limited, StampNames
    <3> QED
      BY <2>1, <2>3, <3>1, StampStep DEF flags
  <2> QED
    BY <2>1, <2>2, <2>3
<1>13. CASE UNCHANGED vars
  BY <1>1, <1>13 DEF vars, clock
<1> QED
  BY <1>2, <1>3, <1>4, <1>5, <1>6, <1>7, <1>8, <1>9, <1>10, <1>11, <1>12, <1>13
     DEF Next, Thread, Process, Decide

-----------------------------------------------------------------------------
(* What was left in the parser                                             *)

\* Until the first bytes of the main loop nothing is taken from the parser, and its
\* stamps tell how long the loop has run: no longer than the silence, which is
\* ended by a TestRequest and by the end of the session behind it.
LeftInv ==
  phase = "main" /\ ~received =>
    /\ at # "drain"
    /\ age["begun"] <= age["recv"]
    /\ test_pending => age["begun"] <= age["test"] + (Interval + RecvTimeout + 2 * SendTime)
    /\ ~test_pending /\ ~logout_initiated /\ at \in {"first", "quiet", "wait", "peer"} =>
         age["begun"] < Interval + RecvTimeout + SendTime

\* A step of the main loop that moves neither of these stamps, or all of them.
LEMMA LeftStep ==
  ASSUME TypeOK, LeftInv, phase = "main", phase' = "main", UNCHANGED <<received, test_pending>>,
         at' # "drain", NEW d \in Nat, NEW S, S \cap {"begun", "recv", "test"} = {},
         \A s \in {"begun", "recv", "test"} : age'[s] = Pass(d, S)[s],
         ~received /\ ~test_pending /\ ~logout_initiated' /\ at' \in {"first", "quiet", "wait", "peer"} =>
           age'["begun"] < Interval + RecvTimeout + SendTime
  PROVE  LeftInv'
<1>1. /\ age["begun"] \in 0..Cap /\ age["recv"] \in 0..Cap /\ age["test"] \in 0..Cap
      /\ age'["begun"] = (IF age["begun"] + d > Cap THEN Cap ELSE age["begun"] + d)
      /\ age'["recv"] = (IF age["recv"] + d > Cap THEN Cap ELSE age["recv"] + d)
      /\ age'["test"] = (IF age["test"] + d > Cap THEN Cap ELSE age["test"] + d)
  BY PassAges, StampNames, AgeTypes
<1>2. age["begun"] <= age["recv"] => age'["begun"] <= age'["recv"]
  BY <1>1, Limited
<1>3. \A k \in Nat : age["begun"] <= age["test"] + k => age'["begun"] <= age'["test"] + k
  BY <1>1, Limited
<1>4. Interval + RecvTimeout + 2 * SendTime \in Nat
  BY Limited
<1> QED
  BY <1>2, <1>3, <1>4 DEF LeftInv

LEMMA LeftNext == IInv /\ DeadlineInv /\ LeftInv /\ [Next]_vars => LeftInv'
<1> SUFFICES ASSUME IInv, DeadlineInv, LeftInv, [Next]_vars, phase' = "main", ~received'
             PROVE  LeftInv'
  BY DEF LeftInv
<1>0. TypeOK
  BY DEF IInv
<1>a. \A s \in {"begun", "recv", "test"} : age[s] = Pass(0, {})[s]
  BY <1>0, PassNothing
<1>1. CASE Tick
  <2>1. /\ phase = "main" /\ at = "recv" /\ at' = at /\ age' = Pass(1, {})
        /\ UNCHANGED <<received, test_pending>>
    BY <1>1 DEF Tick, Blocked, flags
  <2> QED
    BY <1>0, <2>1, LeftStep
<1>2. CASE Receive
  BY <1>2, <1>0 DEF Receive, TypeOK
<1>3. CASE ReceiveTimeout
  <2>1. /\ phase = "main" /\ at = "recv" /\ at' = "first" /\ age' = age
        /\ UNCHANGED <<received, flags>>
    BY <1>3 DEF ReceiveTimeout, Blocked, Top
  <2>2. ~test_pending /\ ~logout_initiated => age["recv"] < Interval + SendTime + wait
    BY <2>1 DEF DeadlineInv, Heard
  <2>3. wait \in Nat /\ wait <= RecvTimeout
    BY Limited DEF IInv, TypeOK
  <2>4. ~received => age["begun"] <= age["recv"]
    BY <2>1 DEF LeftInv
  <2>5. ~received /\ ~test_pending /\ ~logout_initiated =>
          age'["begun"] < Interval + RecvTimeout + SendTime
    BY <1>0, <2>1, <2>2, <2>3, <2>4, AgeTypes, Limited
  <2> QED
    BY <1>0, <1>a, <2>1, <2>5, LeftStep DEF flags
<1>4. CASE PeerGone \/ LogonWait
  BY <1>4 DEF PeerGone, LogonWait, Close
<1>5. CASE Process
  <2>1. at = "drain" /\ phase = "main" /\ received' = received
    BY <1>5 DEF Process, HandleMessage, LogonAccepted, StopRequested, MessageFails, BufferEmpty,
                Draining, Take, Close
  <2> QED
    BY <2>1 DEF LeftInv
<1>6. CASE Script
  <2>1. ScriptDone
    BY <1>6 DEF Script, ScriptSend, StartRead, ReadOn, ScriptFails, Command, Close
  <2>2. ~test_pending' /\ at' = "first" /\ age' = Pass(0, {"begun"})
    BY <2>1 DEF ScriptDone, IInv, PendingInv, flags
  <2>3. age'["begun"] = 0 /\ age'["recv"] \in Nat /\ age'["recv"] >= 0
    BY <1>0, <2>2, PassAges, StampNames
  <2> QED
    BY <2>2, <2>3, Limited DEF LeftInv
<1>7. CASE ConsiderLogout
  <2>1. phase = "main" /\ at \in {"first", "quiet"} /\ UNCHANGED received
    BY <1>7 DEF ConsiderLogout, Main
  <2>2. CASE LogoutDue
    <3>1. PICK d \in 0..SendTime : InitiateLogout(d) /\ at' \in {"quiet", "wait"}
      BY <1>7, <2>2 DEF ConsiderLogout, SendFails, Close
    <3>2. Pass(d, {"send"}) \in [Stamps -> 0..Cap] /\ d \in Nat
      BY <1>0, PassAges, Limited
    <3>3. \A s \in {"begun", "recv", "test"} : age'[s] = Pass(d, {"send"})[s]
      BY <3>1, <3>2, StampNames DEF InitiateLogout
    <3>4. logout_initiated' /\ UNCHANGED test_pending
      BY <3>1 DEF InitiateLogout
    <3> QED
      BY <1>0, <2>1, <3>1, <3>2, <3>3, <3>4, LeftStep
  <2>3. CASE ~LogoutDue
    <3>1. at' \in {"quiet", "wait"} /\ UNCHANGED <<age, flags>>
      BY <1>7, <2>3 DEF ConsiderLogout, clock
    <3> QED
      BY <1>0, <1>a, <2>1, <3>1, LeftStep DEF flags, LeftInv
  <2> QED
    BY <2>2, <2>3
<1>8. CASE AwaitLogout
  <2>1. phase = "main" /\ at = "wait" /\ at' \in {"peer", "recv"} /\ UNCHANGED <<age, flags, received>>
    BY <1>8 DEF AwaitLogout, Main, Close
  <2> QED
    BY <1>0, <1>a, <2>1, LeftStep DEF flags, LeftInv
<1>9. CASE ProbePeer
  <2>1. phase = "main" /\ at = "peer" /\ ~logout_initiated /\ UNCHANGED <<received, logout_initiated>>
    BY <1>9 DEF ProbePeer, Main, IInv, PassInv
  <2>2. ASSUME NEW d \in 0..SendTime, age' = Pass(d, {"send", "test"}), ~test_pending,
               test_pending' = TRUE, at' = "heartbeat"
        PROVE  LeftInv'
    <3>1. d \in Nat /\ d <= SendTime /\ "begun" \notin {"send", "test"} /\ "recv" \notin {"send", "test"}
      BY Limited
    <3>2. /\ age["begun"] \in 0..Cap /\ age["recv"] \in 0..Cap /\ age'["test"] = 0
          /\ age'["begun"] = (IF age["begun"] + d > Cap THEN Cap ELSE age["begun"] + d)
          /\ age'["recv"] = (IF age["recv"] + d > Cap THEN Cap ELSE age["recv"] + d)
      BY <1>0, <2>2, <3>1, PassAges, StampNames, AgeTypes
    <3>3. age["begun"] <= age["recv"] /\ age["begun"] < Interval + RecvTimeout + SendTime
      BY <2>1, <2>2 DEF LeftInv
    <3>4. age'["begun"] <= age'["recv"]
      BY <3>1, <3>2, <3>3, Limited
    <3>5. age'["begun"] <= age'["test"] + (Interval + RecvTimeout + 2 * SendTime)
      BY <3>1, <3>2, <3>3, Limited
    <3> QED
      BY <2>2, <3>4, <3>5 DEF LeftInv
  <2>3. CASE at' = "heartbeat" /\ UNCHANGED <<age, test_pending>>
    BY <1>0, <1>a, <2>1, <2>3, LeftStep
  <2> QED
    BY <1>9, <2>2, <2>3 DEF ProbePeer, Close
<1>10. CASE Heartbeat
  <2>1. /\ phase = "main" /\ at' = "recv" /\ UNCHANGED <<received, flags>>
        /\ age' = age \/ \E d \in 0..SendTime : age' = Pass(d, {"send"})
    BY <1>10 DEF Heartbeat, Main, Close, SendCurrent
  <2>2. CASE age' = age
    BY <1>0, <1>a, <2>1, <2>2, LeftStep DEF flags
  <2>3. ASSUME NEW d \in 0..SendTime, age' = Pass(d, {"send"}) PROVE LeftInv'
    <3>1. d \in Nat
      BY Limited
    <3> QED
      BY <1>0, <2>1, <2>3, <3>1, LeftStep DEF flags
  <2> QED
    BY <2>1, <2>2, <2>3
<1>11. CASE UNCHANGED vars
  BY <1>11 DEF vars, clock, flags, LeftInv
<1> QED
  BY <1>1, <1>2, <1>3, <1>4, <1>5, <1>6, <1>7, <1>8, <1>9, <1>10, <1>11
     DEF Next, Thread, Decide

LEMMA WaitInvariance == Spec => [](IInv /\ DeadlineInv /\ StampInv /\ LeftInv)
<1>1. Init => IInv /\ DeadlineInv /\ LeftInv
  BY InitInv DEF Init, DeadlineInv, LeftInv
<1>2. Init => StampInv
  <2> SUFFICES ASSUME Init PROVE StampInv
    OBVIOUS
  <2>1. age["send"] = 0 /\ age["begun"] = 0 /\ ~logout_initiated
    BY StampNames DEF Init
  <2> QED
    BY <2>1 DEF StampInv
<1> QED
  BY <1>1, <1>2, NextInv, DeadlineStep, StampNext, LeftNext, PTL DEF Spec

\* Outside of the reads of a regression script, the client never blocks longer after
\* its last message than the limit of its loop and one receive allow.
THEOREM ClientIsNeverSilent == Spec => []SilenceBounded
<1>1. IInv /\ DeadlineInv /\ StampInv => SilenceBounded
  <2> SUFFICES ASSUME IInv, DeadlineInv, StampInv, Blocked, phase # "script"
               PROVE  age["send"] < LongestSilence + RecvTimeout
    BY DEF SilenceBounded
  <2>1. wait \in Nat /\ wait <= RecvTimeout /\ at = "recv" /\ phase \in {"logon", "main"}
    BY Limited DEF IInv, TypeOK, Blocked, Points
  <2>2. CASE phase = "logon"
    <3>1. age["send"] <= age["begun"] /\ age["begun"] < LogonTimeout + wait
      BY <2>1, <2>2 DEF StampInv, DeadlineInv
    <3> QED
      BY <2>1, <2>2, <3>1, AgeTypes, Limited, WaitLimits DEF IInv, LongestSilence
  <2>3. CASE phase = "main" /\ logout_initiated
    <3>1. age["send"] <= age["logout"] /\ age["logout"] < LogoutWait + SendTime + wait
      BY <2>1, <2>3 DEF StampInv, IInv, TimerInv
    <3> QED
      BY <2>1, <2>3, <3>1, AgeTypes, Limited DEF IInv, LongestSilence
  <2>4. CASE phase = "main" /\ ~logout_initiated
    <3>1. age["send"] < Interval + wait
      BY <2>1, <2>4 DEF IInv, TimerInv
    <3> QED
      BY <2>1, <2>4, <3>1, AgeTypes, Limited DEF IInv, LongestSilence
  <2> QED
    BY <2>1, <2>2, <2>3, <2>4
<1> QED
  BY <1>1, WaitInvariance, PTL

\* The Logout, and the end of the wait for its answer, are late by one receive and
\* two sends at most. The Logout is never early: it followed something that was sent,
\* and a pause of Quiet behind the last answer, or FirstResponse without any.
THEOREM LogoutIsOnTime == Spec => []LogoutOnTime
<1>1. IInv /\ StampInv => LogoutOnTime
  <2> SUFFICES ASSUME IInv, StampInv PROVE LogoutOnTime
    OBVIOUS
  <2> DEFINE slack == RecvTimeout + 2 * SendTime
  <2>1. ASSUME Waiting
        PROVE  /\ logout_initiated => age["logout"] < LogoutWait + slack
               /\ scenarios_sent /\ ~logout_initiated =>
                    IF scenario_response_started THEN age["resp"] < Quiet + slack
                                                 ELSE age["begun"] < FirstResponse + slack
    <3>1. wait \in Nat /\ wait <= RecvTimeout
      BY Limited DEF IInv, TypeOK
    <3>2. Undecided(2 * SendTime + wait)
      BY <2>1 DEF IInv, TimerInv, Waiting
    <3>3. logout_initiated => age["logout"] < LogoutWait + SendTime + wait
      BY <2>1 DEF IInv, TimerInv, Waiting
    <3>4. logout_initiated => age["logout"] < LogoutWait + slack
      BY <3>1, <3>3, AgeTypes, Limited DEF IInv
    <3>5. scenarios_sent /\ ~logout_initiated =>
            IF scenario_response_started THEN age["resp"] < Quiet + slack
                                         ELSE age["begun"] < FirstResponse + slack
      BY <3>1, <3>2, AgeTypes, Limited DEF IInv, Undecided
    <3> QED
      BY <3>4, <3>5
  <2> QED
    BY <2>1 DEF LogoutOnTime, StampInv
<1> QED
  BY <1>1, WaitInvariance, PTL

\* What the main loop blocks upon was left before its first bytes, and waits no longer
\* than a silent counterparty is borne, or than the wait behind the Logout.
THEOREM NoMessageIsLeftBehind == Spec => []NoMessageLeftBehind
<1>1. IInv /\ DeadlineInv /\ LeftInv => NoMessageLeftBehind
  <2> SUFFICES ASSUME IInv, DeadlineInv, LeftInv, Waiting, rx > 0
               PROVE  /\ ~received
                      /\ logout_initiated => age["logout"] < LogoutWait + SendTime + RecvTimeout
                      /\ ~logout_initiated => age["begun"] < 2 * (Interval + RecvTimeout) + 3 * SendTime
    BY DEF NoMessageLeftBehind
  <2>1. phase = "main" /\ at = "recv" /\ wait \in Nat /\ wait <= RecvTimeout
    BY Limited DEF IInv, TypeOK, Waiting
  <2>2. ~received
    <3>1. rx # 0
      BY DEF IInv, TypeOK
    <3> QED
      BY <2>1, <3>1 DEF IInv, DrainInv
  <2>3. logout_initiated => age["logout"] < LogoutWait + SendTime + RecvTimeout
    BY <2>1, AgeTypes, Limited DEF IInv, TimerInv
  <2>4. ASSUME ~logout_initiated PROVE age["begun"] < 2 * (Interval + RecvTimeout) + 3 * SendTime
    <3>1. CASE test_pending
      <4>1. /\ age["begun"] <= age["test"] + (Interval + RecvTimeout + 2 * SendTime)
            /\ age["test"] < Interval + SendTime + wait
        BY <2>1, <2>2, <2>4, <3>1 DEF LeftInv, DeadlineInv, Heard
      <4> QED
        BY <2>1, <4>1, AgeTypes, Limited DEF IInv
    <3>2. CASE ~test_pending
      <4>1. age["begun"] <= age["recv"] /\ age["recv"] < Interval + SendTime + wait
        BY <2>1, <2>2, <2>4, <3>2 DEF LeftInv, DeadlineInv, Heard
      <4> QED
        BY <2>1, <4>1, AgeTypes, Limited DEF IInv
    <3> QED
      BY <3>1, <3>2
  <2> QED
    BY <2>2, <2>3, <2>4
<1> QED
  BY <1>1, WaitInvariance, PTL

-----------------------------------------------------------------------------
(* The shape of the session                                                *)

\* What SessionLoops sees of a session at a point outside a pass.
LEMMA LoopView ==
  ASSUME phase # "closed", at \in {"top", "recv", "drain", "command"}
  PROVE  LoopAt = at /\ LoopRx = rx
  BY DEF LoopAt, JustInitiated, LoopRx

LEMMA LoopViewNext ==
  ASSUME phase' # "closed", at' \in {"top", "first", "recv", "drain", "command"}
  PROVE  LoopAt' = (IF at' = "first" THEN "top" ELSE at') /\ LoopRx' = rx'
  BY DEF LoopAt, JustInitiated, LoopRx

\* How a session closes: under the reason SessionLoops knows.
LEMMA LoopCloses ==
  ASSUME NEW why \in Points["closed"], Close(why)
  PROVE  Loops!Close(why)
<1>1. why \notin {"first", "quiet", "wait", "peer", "heartbeat"}
  BY PointsOfLoops
<1>2. LoopAt' = why /\ LoopRx' = 0
  BY <1>1 DEF Close, LoopAt, JustInitiated, LoopRx
<1> QED
  BY <1>2 DEF Close, Loops!Close

LEMMA LoopBreaks ==
  ASSUME phase # "closed", Close("broken"), UNCHANGED <<test_mode, flags>>
  PROVE  Loops!Break
  BY LoopCloses, PointsOfLoops DEF Loops!Break, Loops!flags, flags

\* Time passes: no loop sees it.
LEMMA TickLoops ==
  ASSUME Tick
  PROVE  UNCHANGED Loops!vars
  BY DEF Tick, Blocked, LoopAt, JustInitiated, LoopRx, Loops!vars, Loops!flags, flags

LEMMA ReceiveLoops ==
  ASSUME TypeOK, Receive \/ ReceiveTimeout \/ PeerGone
  PROVE  Loops!Receive \/ Loops!ReceiveTimeout \/ Loops!Break
<1>1. phase # "closed" /\ at = "recv" /\ LoopAt = "recv" /\ LoopRx = rx
  BY LoopView DEF Receive, ReceiveTimeout, PeerGone, Blocked
<1>2. CASE Receive
  <2>1. rx \in Nat /\ RxBound \in Nat
    BY Limited DEF TypeOK
  <2>2. /\ phase' = phase /\ UNCHANGED <<test_mode, scenarios_sent, logout_initiated>>
        /\ rx' \in rx..RxBound
        /\ at' = IF phase = "script" THEN "top" ELSE "drain"
        /\ test_pending' = (phase = "script" /\ test_pending)
    BY <1>2, <2>1 DEF Receive, StillPending
  <2>3. LoopAt' = at' /\ LoopRx' = rx'
    BY <1>1, <2>2, LoopViewNext
  <2> QED
    BY <1>1, <2>2, <2>3 DEF Loops!Receive
<1>3. CASE ReceiveTimeout
  BY <1>1, <1>3, LoopViewNext
     DEF ReceiveTimeout, Top, Loops!ReceiveTimeout, Loops!flags, flags
<1>4. CASE PeerGone
  BY <1>1, <1>4, LoopBreaks DEF PeerGone
<1> QED
  BY <1>2, <1>3, <1>4

LEMMA ProcessLoops ==
  ASSUME TypeOK, Process
  PROVE  Loops!Message \/ Loops!BufferEmpty \/ Loops!Break
<1>1. phase # "closed" /\ at = "drain" /\ LoopAt = "drain" /\ LoopRx = rx /\ rx \in Nat
  <2>1. phase # "closed" /\ at = "drain"
    BY DEF Process, HandleMessage, LogonAccepted, StopRequested, MessageFails, BufferEmpty, Draining
  <2> QED
    BY <2>1, LoopView DEF TypeOK
<1>2. ASSUME NEW business \in BOOLEAN, NEW answered \in BOOLEAN, NEW d \in 0..SendTime,
             HandleMessage(business, answered, d)
      PROVE  Loops!Message
  <2>0. AfterMessage(business) /\ Draining /\ Take
    BY <1>2 DEF HandleMessage
  <2>1. /\ rx > 0 /\ rx' = rx - 1 /\ phase' = phase
        /\ at' = "drain" \/ (phase = "script" /\ at' = "command")
        /\ UNCHANGED <<test_mode, scenarios_sent, logout_initiated, test_pending>>
    <3>1. at' = "drain" \/ (phase = "script" /\ at' = "command")
      BY <2>0 DEF AfterMessage
    <3>2. rx > 0 /\ rx' = rx - 1 /\ UNCHANGED test_mode
      BY <2>0 DEF Draining, Take
    <3>3. UNCHANGED <<phase, scenarios_sent, logout_initiated, test_pending>>
      BY <1>2 DEF HandleMessage
    <3> QED
      BY <3>1, <3>2, <3>3
  <2>2. LoopAt' = at' /\ LoopRx' = rx'
    BY <1>1, <2>1, LoopViewNext
  <2> QED
    BY <1>1, <2>1, <2>2 DEF Loops!Message, Loops!flags
<1>3. CASE LogonAccepted
  <2>1. /\ rx > 0 /\ rx' = rx - 1 /\ phase = "logon" /\ phase' = "script" /\ at' = "command"
        /\ UNCHANGED <<test_mode, flags>>
    BY <1>3 DEF LogonAccepted, Draining, Take
  <2>2. LoopAt' = at' /\ LoopRx' = rx'
    BY <2>1, LoopViewNext
  <2> QED
    BY <1>1, <2>1, <2>2 DEF Loops!Message, Loops!flags, flags
<1>4. CASE StopRequested
  <2>1. /\ rx > 0 /\ rx' = rx - 1 /\ UNCHANGED <<test_mode, flags>>
        /\ IF phase = "script" THEN at' = "command" /\ UNCHANGED phase ELSE Close("stopped")
    BY <1>4 DEF StopRequested, Draining, Take
  <2>2. CASE phase = "script"
    BY <1>1, <2>1, <2>2, LoopViewNext DEF Loops!Message, Loops!flags, flags
  <2>3. CASE phase # "script"
    <3>1. Loops!Close("stopped")
      BY <2>1, <2>3, LoopCloses, PointsOfLoops
    <3> QED
      BY <1>1, <2>1, <2>3, <3>1 DEF Loops!Message, Loops!flags, flags
  <2> QED
    BY <2>2, <2>3
<1>5. CASE MessageFails
  BY <1>1, <1>5, LoopBreaks DEF MessageFails, Take
<1>6. CASE BufferEmpty
  BY <1>1, <1>6, LoopViewNext
     DEF BufferEmpty, Drained, Top, Loops!BufferEmpty, Loops!flags, flags
<1> QED
  BY <1>2, <1>3, <1>4, <1>5, <1>6 DEF Process

LEMMA ScriptLoops ==
  ASSUME TypeOK, LogonWait \/ Script
  PROVE  Loops!Logon \/ Loops!Script \/ Loops!Break
<1>1. CASE LogonWait
  <2>1. phase = "logon" /\ at = "top" /\ LoopAt = "top" /\ LoopRx = rx
    BY <1>1, LoopView DEF LogonWait
  <2>2. CASE LogonOver
    BY <1>1, <2>1, <2>2, LoopCloses, PointsOfLoops
       DEF LogonWait, Loops!Logon, Loops!At, Loops!flags, flags
  <2>3. CASE ~LogonOver
    BY <1>1, <2>1, <2>3, LoopViewNext
       DEF LogonWait, Loops!Logon, Loops!At, Loops!flags, flags
  <2> QED
    BY <2>2, <2>3
<1>2. CASE Script
  <2>1. /\ phase = "script" /\ at \in {"command", "top"}
        /\ LoopAt = at /\ LoopRx = rx
    <3>1. phase = "script" /\ at \in {"command", "top"}
      BY <1>2 DEF Script, ScriptSend, StartRead, ReadOn, ScriptFails, ScriptDone, Command
    <3> QED
      BY <3>1, LoopView
  <2>2. ASSUME NEW d \in 0..SendTime, ScriptSend(d) PROVE Loops!Script
    <3>1. /\ at = "command" /\ scenarios_sent' = TRUE
          /\ UNCHANGED <<test_mode, phase, at, rx, logout_initiated, test_pending>>
      BY <2>2 DEF ScriptSend, Command
    <3> QED
      BY <2>1, <3>1, LoopViewNext DEF Loops!Script
  <2>3. CASE StartRead
    BY <2>1, <2>3, LoopViewNext DEF StartRead, Command, Loops!Script, flags
  <2>4. CASE ReadOn
    BY <2>1, <2>4, LoopViewNext DEF ReadOn, Loops!Script, flags
  <2>5. CASE ScriptFails
    BY <2>1, <2>5, LoopBreaks DEF ScriptFails
  <2>6. CASE ScriptDone
    BY <2>1, <2>6, LoopViewNext DEF ScriptDone, Loops!Script, flags
  <2> QED
    BY <1>2, <2>2, <2>3, <2>4, <2>5, <2>6 DEF Script
<1> QED
  BY <1>1, <1>2

\* The client's Logout takes the pass to its rest. Where it is not due, the pass goes
\* on: to SessionLoops nothing happens, or the rest of the pass begins with an age of
\* the Logout that is 0 by chance.
LEMMA ConsiderLoops ==
  ASSUME IInv, ConsiderLogout
  PROVE  Loops!Decide \/ Loops!Break \/ UNCHANGED Loops!vars
<1>1. /\ phase = "main" /\ at \in {"first", "quiet"} /\ LoopRx = rx
      /\ UNCHANGED <<test_mode, rx>>
      /\ lag \in 0..SendTime
  BY DEF ConsiderLogout, Main, LoopRx, IInv, TypeOK
<1>2. CASE ~LogoutDue
  <2>1. /\ at' \in {"quiet", "wait"} /\ phase' = phase /\ UNCHANGED <<clock, flags>>
        /\ LoopRx' = rx
    BY <1>1, <1>2 DEF ConsiderLogout, LoopRx
  <2>2. LoopAt \in {"top", "rest"} /\ LoopAt' \in {"top", "rest"}
    BY <1>1, <2>1 DEF LoopAt
  <2>3. LoopAt = "rest" => LoopAt' = "rest"
    BY <1>1, <2>1 DEF LoopAt, JustInitiated, clock, flags
  <2> QED
    BY <1>1, <2>1, <2>2, <2>3 DEF Loops!Decide, Loops!At, Loops!vars, Loops!flags, flags
<1>3. CASE LogoutDue
  <2>1. ~logout_initiated /\ scenarios_sent /\ LoopAt = "top"
    BY <1>1, <1>3 DEF LogoutDue, LoopAt, JustInitiated
  <2>2. ASSUME NEW d \in 0..SendTime, InitiateLogout(d),
               at' = IF at = "first" THEN "quiet" ELSE "wait"
        PROVE  Loops!Decide
    <3>1. lag = 0
      BY <1>1, <2>1 DEF IInv, PassInv
    <3>2. age'["logout"] = Capped(d) /\ lag' = d
      <4>1. Pass(d, {"send"}) \in [Stamps -> 0..Cap] /\ d \in Nat
        BY PassAges DEF IInv
      <4>2. age'["logout"] = Capped(lag + d) /\ lag' = lag + d
        BY <2>2, <4>1, StampNames DEF InitiateLogout
      <4> QED
        BY <3>1, <4>1, <4>2
    <3>3. Capped(d) = d
      BY Limited DEF Capped
    <3>4. /\ at' \in {"quiet", "wait"} /\ logout_initiated' = TRUE /\ phase' = phase
          /\ UNCHANGED <<scenarios_sent, test_pending>>
      BY <1>1, <2>2 DEF InitiateLogout
    <3>5. LoopAt' = "rest" /\ LoopRx' = rx
      BY <1>1, <3>2, <3>3, <3>4 DEF LoopAt, JustInitiated, LoopRx
    <3> QED
      BY <1>1, <2>1, <3>4, <3>5 DEF Loops!Decide, Loops!At
  <2>3. CASE SendFails
    BY <1>1, <2>3, LoopBreaks DEF SendFails
  <2> QED
    BY <1>3, <2>2, <2>3 DEF ConsiderLogout
<1> QED
  BY <1>2, <1>3

LEMMA AwaitLoops ==
  ASSUME IInv, AwaitLogout
  PROVE  Loops!Decide \/ Loops!Wait \/ UNCHANGED Loops!vars
<1>1. phase = "main" /\ at = "wait" /\ LoopRx = rx /\ LoopAt \in {"top", "rest"}
  BY DEF AwaitLogout, Main, LoopRx, LoopAt
<1>2. UNCHANGED <<test_mode, rx, flags>>
  BY DEF AwaitLogout
<1>3. CASE ~logout_initiated
  BY <1>1, <1>2, <1>3
     DEF AwaitLogout, LoopAt, JustInitiated, LoopRx, Loops!vars, Loops!flags, flags
<1>4. CASE logout_initiated /\ LogoutWaitOver
  <2>1. Elapsed("logout", LogoutWait) /\ Close("logout_wait")
    BY <1>4 DEF AwaitLogout, LogoutWaitOver
  <2>2. age["logout"] # lag
    <3>1. age["logout"] \in Nat /\ lag \in Nat /\ LogoutWait \in Nat /\ LogoutWait > 0
      BY AgeTypes, Limited DEF IInv, TypeOK
    <3> QED
      BY <2>1, <3>1 DEF Elapsed
  <2>3. LoopAt = "top" /\ Loops!Close("logout_wait")
    BY <1>1, <2>1, <2>2, LoopCloses, PointsOfLoops DEF LoopAt, JustInitiated
  <2> QED
    BY <1>1, <1>2, <1>4, <2>3 DEF Loops!Decide, Loops!At, flags
<1>5. CASE logout_initiated /\ ~LogoutWaitOver
  <2>1. at' = "recv" /\ phase' = phase
    BY <1>5 DEF AwaitLogout
  <2> QED
    BY <1>1, <1>2, <2>1, LoopViewNext DEF Loops!Wait, Loops!flags, flags
<1> QED
  BY <1>3, <1>4, <1>5

LEMMA ProbeLoops ==
  ASSUME IInv, ProbePeer
  PROVE  Loops!Decide \/ Loops!Break
<1>1. /\ phase = "main" /\ at = "peer" /\ LoopRx = rx /\ LoopAt = "top" /\ ~logout_initiated
      /\ UNCHANGED <<test_mode, rx, scenarios_sent, scenario_response_started, logout_initiated>>
  BY DEF ProbePeer, Main, LoopRx, LoopAt, JustInitiated, IInv, PassInv
<1>2. CASE test_pending /\ Close("dead_peer") /\ UNCHANGED test_pending
  BY <1>1, <1>2, LoopCloses, PointsOfLoops DEF Loops!Decide, Loops!At
<1>3. CASE /\ ~test_pending /\ test_pending' = TRUE
           /\ at' = "heartbeat" /\ UNCHANGED phase
  BY <1>1, <1>3 DEF LoopAt, LoopRx, Loops!Decide, Loops!At
<1>4. CASE Close("broken") /\ UNCHANGED test_pending
  BY <1>1, <1>4, LoopBreaks DEF flags
<1>5. CASE at' = "heartbeat" /\ UNCHANGED <<phase, test_pending>>
  BY <1>1, <1>5 DEF LoopAt, LoopRx, Loops!Decide, Loops!At
<1> QED
  BY <1>2, <1>3, <1>4, <1>5 DEF ProbePeer

LEMMA HeartbeatLoops ==
  ASSUME Heartbeat
  PROVE  Loops!Wait \/ Loops!Break
<1>1. /\ phase = "main" /\ LoopRx = rx /\ LoopAt = "rest"
      /\ UNCHANGED <<test_mode, rx, flags>>
  BY DEF Heartbeat, Main, LoopRx, LoopAt
<1>2. CASE at' = "recv" /\ UNCHANGED phase
  BY <1>1, <1>2, LoopViewNext DEF Loops!Wait, Loops!flags, flags
<1>3. CASE Close("broken")
  BY <1>1, <1>3, LoopBreaks
<1> QED
  BY <1>2, <1>3 DEF Heartbeat

\* Whatever the timeouts and however long a send takes, the timed session has the
\* shape of SessionLoops: no pass of the main loop decides two things, and nothing
\* ends the session behind the decision but a failure.
THEOREM TimersImplementLoops == Spec => ImplementsLoops
<1>1. Init => Loops!Init
  BY DEF Init, LoopAt, JustInitiated, LoopRx, Loops!Init
<1>2. IInv /\ [Next]_vars => [Loops!Next]_(Loops!vars)
  <2> SUFFICES ASSUME IInv, [Next]_vars PROVE Loops!Next \/ UNCHANGED Loops!vars
    OBVIOUS
  <2>0. TypeOK
    BY DEF IInv
  <2>1. CASE Tick
    BY <2>1, TickLoops
  <2>2. CASE Receive \/ ReceiveTimeout \/ PeerGone
    BY <2>0, <2>2, ReceiveLoops DEF Loops!Next
  <2>3. CASE Process
    BY <2>0, <2>3, ProcessLoops DEF Loops!Next
  <2>4. CASE LogonWait \/ Script
    BY <2>0, <2>4, ScriptLoops DEF Loops!Next
  <2>5. CASE Decide
    BY <2>5, ConsiderLoops, AwaitLoops, ProbeLoops, HeartbeatLoops DEF Decide, Loops!Next
  <2>6. CASE UNCHANGED vars
    BY <2>6 DEF vars, clock, flags, LoopAt, JustInitiated, LoopRx, Loops!vars, Loops!flags
  <2> QED
    BY <2>1, <2>2, <2>3, <2>4, <2>5, <2>6 DEF Next, Thread
<1> QED
  BY <1>1, <1>2, Invariance, PTL DEF Spec, ImplementsLoops, Loops!Spec

=============================================================================
