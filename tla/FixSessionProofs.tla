--------------------------- MODULE FixSessionProofs --------------------------
(***************************************************************************)
(* Theorems about FixSession, for every set of inbound messages, every set *)
(* of scenario lines and every starting point.                             *)
(***************************************************************************)
EXTENDS FixSession, TLAPS

\* What a message written under any number does to the outbound side.
LEMMA SendType ==
  ASSUME NEW type \in Kept, NEW seq, TypeOK, SendCurrent(type, seq)
  PROVE  out' \in 1..(MaxSeq + 1) /\ sent' \in [1..MaxSeq -> Kept]
  BY SessionAssumption DEF SendCurrent, TypeOK

LEMMA OwnTypes == {"0", "1", "2", "5", "A"} \subseteq Kept
  BY DEF Kept

LEMMA TakeType ==
  ASSUME NEW m \in Inbound, TypeOK, Take(m)
  PROVE  /\ rx' \in 0..RxBound /\ cur' \in Inbound /\ peer' \in Nat
         /\ UNCHANGED <<rs, scenarios_sent, logout_initiated, test_pending, firstIn, logouts>>
  BY SessionAssumption DEF Take, TypeOK, flags

\* What a counterparty that waits for p makes of the reply for number n.
LEMMA AbsorbReply ==
  ASSUME NEW n \in Nat, NEW p \in Nat
  PROVE  Absorb(p, Reply(n)) = IF n = p THEN n + 1 ELSE p
<1>1. CASE sent[n] = NoType \/ is_admin_message(sent[n])
  BY <1>1 DEF Absorb, Reply, GapFill, SequenceReset, Message
<1>2. CASE ~(sent[n] = NoType \/ is_admin_message(sent[n]))
  <2>1. Reply(n) = PossDup(sent[n], n) /\ sent[n] # "4"
    BY <1>2 DEF Reply, is_admin_message, AdminTypes
  <2> QED
    BY <2>1 DEF Absorb, PossDup, Message
<1> QED
  BY <1>1, <1>2

\* The last number of a reply has been sent.
LEMMA EndOfResendBound ==
  ASSUME TypeOK, IsSeq(cur.end)
  PROVE  EndOfResend(cur) \in 0..MaxSeq /\ EndOfResend(cur) < out
  BY SessionAssumption DEF EndOfResend, IsSeq, TypeOK

LEMMA InitType == Init => TypeOK
<1> SUFFICES ASSUME Init PROVE TypeOK
  OBVIOUS
<1>1. out \in 1..MaxSeq /\ in \in 1..SeqLimit /\ sent \in [1..MaxSeq -> Kept]
  BY SessionAssumption DEF Init
<1>2. rs \in [next : Nat, to : 0..MaxSeq]
  BY SessionAssumption DEF Init, NoLoop
<1>3. in \in 1..(SeqLimit + 1) /\ out \in 1..(MaxSeq + 1) /\ firstIn \in 1..SeqLimit
  BY SessionAssumption, SeqLimitAssumption, <1>1 DEF Init
<1>4. rx \in 0..RxBound /\ cur \in Inbound \cup {Idle}
  BY SessionAssumption DEF Init
<1>5. /\ phase \in {"connect", "logon", "script", "main", "closed"} /\ at = "top"
      /\ got \cup asked \cup skipped \subseteq 1..SeqLimit
      /\ seen \subseteq {"tooLow", "logout"} /\ logouts \in 0..2 /\ peer \in Nat
  BY DEF Init
<1>6. {scenarios_sent, logout_initiated, test_pending} \subseteq BOOLEAN
  BY DEF Init
<1> QED
  BY <1>1, <1>2, <1>3, <1>4, <1>5, <1>6 DEF TypeOK

\* Every step keeps every variable in its set.
LEMMA NextType ==
  ASSUME TypeOK, [Next]_vars
  PROVE  TypeOK'
<1> USE SessionAssumption, SeqLimitAssumption DEF flags, inbound, numbers
<1>1. CASE Connect
  BY <1>1, SendType, OwnTypes DEF Connect, TypeOK
<1>2. CASE LogonWait
  BY <1>2 DEF LogonWait, TypeOK
<1>3. CASE LogonTimeout
  BY <1>3 DEF LogonTimeout, Close, TypeOK
<1>4. CASE Validate
  <2> PICK m \in Inbound :
        NoSeqNum(m) \/ SeqGap(m) \/ SeqPossDup(m) \/ SeqTooLow(m) \/ SeqInOrder(m)
    BY <1>4 DEF Validate
  <2>1. CASE NoSeqNum(m)
    BY <2>1, TakeType DEF NoSeqNum, StopRequested, Close, TypeOK
  <2>2. CASE SeqGap(m)
    <3>1. m.seq \in 1..SeqLimit /\ in \in 1..(SeqLimit + 1) /\ out \in Int
      BY <2>2 DEF SeqGap, IsSeq, TypeOK
    <3>2. out' \in 1..(MaxSeq + 1) /\ sent' \in [1..MaxSeq -> Kept]
      BY <2>2, <3>1, SendType, OwnTypes DEF SeqGap
    <3>3. in' \in 1..(SeqLimit + 1) /\ got' \cup asked' \subseteq 1..SeqLimit
      BY <2>2, <3>1 DEF SeqGap, TypeOK
    <3> QED
      BY <2>2, <3>2, <3>3, TakeType DEF SeqGap, TypeOK
  <2>3. CASE SeqPossDup(m)
    BY <2>3, TakeType DEF SeqPossDup, TypeOK
  <2>4. CASE SeqTooLow(m)
    BY <2>4, TakeType DEF SeqTooLow, StopRequested, Close, TypeOK
  <2>5. CASE SeqInOrder(m)
    <3>1. in \in 1..SeqLimit
      BY <2>5 DEF SeqInOrder, IsSeq
    <3>2. in' \in 1..(SeqLimit + 1) /\ got' \subseteq 1..SeqLimit
      BY <2>5, <3>1 DEF SeqInOrder, TypeOK
    <3> QED
      BY <2>5, <3>2, TakeType DEF SeqInOrder, TypeOK
  <2> QED
    BY <2>1, <2>2, <2>3, <2>4, <2>5
<1>5. CASE Dispatch
  <2> USE DEF NextMessage, Handle
  <2>1. CASE HandleSequenceReset
    <3>1. in' \in 1..(SeqLimit + 1) /\ skipped' \subseteq 1..SeqLimit
      BY <2>1 DEF HandleSequenceReset, IsSeq, TypeOK
    <3> QED
      BY <2>1, <3>1 DEF HandleSequenceReset, TypeOK
  <2>2. CASE HandleLogon
    BY <2>2 DEF HandleLogon, TypeOK
  <2>3. CASE HandleTestRequest
    <3>1. out' \in 1..(MaxSeq + 1) /\ sent' \in [1..MaxSeq -> Kept]
      BY <2>3, SendType, OwnTypes DEF HandleTestRequest, TypeOK
    <3> QED
      BY <2>3, <3>1 DEF HandleTestRequest, TypeOK
  <2>4. CASE HandleLogout
    <3>1. out' \in 1..(MaxSeq + 1) /\ sent' \in [1..MaxSeq -> Kept]
      BY <2>4, SendType, OwnTypes DEF HandleLogout, TypeOK
    <3>2. logouts' \in 0..2
      BY <2>4 DEF HandleLogout, TypeOK
    <3> QED
      BY <2>4, <3>1, <3>2 DEF HandleLogout, StopRequested, Close, TypeOK
  <2>5. CASE HandleOther
    BY <2>5 DEF HandleOther, TypeOK
  <2>6. CASE RefuseResend
    BY <2>6 DEF RefuseResend, Close, TypeOK
  <2>7. CASE NothingToResend
    BY <2>7 DEF NothingToResend, TypeOK
  <2>8. CASE BeginResend
    <3>1. rs' \in [next : Nat, to : 0..MaxSeq] /\ peer' \in Nat
      BY <2>8, EndOfResendBound DEF BeginResend, IsSeq
    <3> QED
      BY <2>8, <3>1 DEF BeginResend, TypeOK
  <2>9. CASE ResendOne
    <3>0. rs \in [next : Nat, to : 0..MaxSeq] /\ NoLoop \in [next : Nat, to : 0..MaxSeq]
      BY DEF TypeOK, NoLoop
    <3>1. rs' \in [next : Nat, to : 0..MaxSeq]
      BY <2>9, <3>0 DEF ResendOne
    <3>2. peer' \in Nat
      <4>1. rs.next \in Nat /\ peer \in Nat
        BY <3>0 DEF TypeOK
      <4>2. Absorb(peer, Reply(rs.next)) \in Nat
        BY <4>1, AbsorbReply
      <4> QED
        BY <2>9, <4>2 DEF ResendOne
    <3> QED
      BY <2>9, <3>1, <3>2 DEF ResendOne, TypeOK
  <2> QED
    BY <1>5, <2>1, <2>2, <2>3, <2>4, <2>5, <2>6, <2>7, <2>8, <2>9 DEF Dispatch
<1>6. ASSUME NEW k \in 0..RxBound, Receive(k) PROVE TypeOK'
  BY <1>6 DEF Receive, TypeOK
<1>7. CASE ReceiveTimeout
  BY <1>7 DEF ReceiveTimeout, TypeOK
<1>8. CASE BufferEmpty
  BY <1>8 DEF BufferEmpty, TypeOK
<1>9. CASE Script
  <2>1. ASSUME NEW t \in LineTypes, NEW n \in (1..MaxSeq) \cup {Absent},
               SendLine(t, n) \/ SendStep(t, n)
        PROVE  TypeOK'
    <3>1. t \in Kept
      BY DEF Kept
    <3>2. out' \in 1..(MaxSeq + 1) /\ sent' \in [1..MaxSeq -> Kept]
      BY <2>1, <3>1, SendType, OwnTypes DEF SendLine, SendStep
    <3> QED
      BY <2>1, <3>2 DEF SendLine, SendStep, TypeOK
  <2>2. CASE StartRead
    BY <2>2 DEF StartRead, TypeOK
  <2>3. CASE ReadOn
    BY <2>3 DEF ReadOn, TypeOK
  <2>4. CASE ScriptDone
    BY <2>4 DEF ScriptDone, TypeOK
  <2>5. CASE ScriptFailed
    BY <2>5 DEF ScriptFailed, Close, TypeOK
  <2> QED
    BY <1>9, <2>1, <2>2, <2>3, <2>4, <2>5 DEF Script
<1>10. CASE MainLoop
  <2> USE DEF MainTop
  <2>0. out \in Int
    BY DEF TypeOK
  <2>1. CASE InitiateLogout
    <3>1. out' \in 1..(MaxSeq + 1) /\ sent' \in [1..MaxSeq -> Kept]
      BY <2>0, <2>1, SendType, OwnTypes DEF InitiateLogout
    <3> QED
      BY <2>1, <3>1 DEF InitiateLogout, TypeOK
  <2>2. CASE LogoutWaitOver
    BY <2>2 DEF LogoutWaitOver, Close, TypeOK
  <2>3. CASE TestRequestTimeout
    BY <2>3 DEF TestRequestTimeout, Close, TypeOK
  <2>4. CASE SendTestRequest
    <3>1. out' \in 1..(MaxSeq + 1) /\ sent' \in [1..MaxSeq -> Kept]
      BY <2>0, <2>4, SendType, OwnTypes DEF SendTestRequest
    <3> QED
      BY <2>4, <3>1 DEF SendTestRequest, TypeOK
  <2>5. CASE SendHeartbeat
    <3>1. out' \in 1..(MaxSeq + 1) /\ sent' \in [1..MaxSeq -> Kept]
      BY <2>0, <2>5, SendType, OwnTypes DEF SendHeartbeat
    <3> QED
      BY <2>5, <3>1 DEF SendHeartbeat, TypeOK
  <2>6. CASE NothingDue
    BY <2>6 DEF NothingDue, TypeOK
  <2> QED
    BY <1>10, <2>1, <2>2, <2>3, <2>4, <2>5, <2>6 DEF MainLoop
<1>11. CASE ConnectionLost
  BY <1>11 DEF ConnectionLost, Close, TypeOK
<1>12. CASE UNCHANGED vars
  BY <1>12 DEF vars, TypeOK
<1> QED
  BY <1>1, <1>2, <1>3, <1>4, <1>5, <1>6, <1>7, <1>8, <1>9, <1>10, <1>11, <1>12
     DEF Next, Exited

\* Type correctness of the session.
THEOREM SessionTypeCorrect == Spec => []TypeOK
  BY InitType, NextType, PTL DEF Spec

-----------------------------------------------------------------------------
(* Inbound numbers                                                         *)

AccountInv == InboundAccounted /\ firstIn <= in

\* Steps that neither take a message in nor waive numbers.
LEMMA QuietStep ==
  ASSUME [Next]_vars, ~Validate, ~HandleSequenceReset
  PROVE  UNCHANGED <<in, got, asked, skipped, firstIn>>
<1> USE DEF inbound
<1>1. CASE Dispatch
  BY <1>1 DEF Dispatch, HandleLogon, HandleTestRequest, HandleLogout, HandleOther, RefuseResend,
              NothingToResend, BeginResend, ResendOne
<1>2. CASE Script
  BY <1>2 DEF Script, SendLine, SendStep, StartRead, ReadOn, ScriptDone, ScriptFailed
<1>3. CASE MainLoop
  BY <1>3 DEF MainLoop, InitiateLogout, LogoutWaitOver, TestRequestTimeout, SendTestRequest,
              SendHeartbeat, NothingDue
<1>4. CASE Connect \/ LogonWait \/ LogonTimeout \/ ReceiveTimeout \/ BufferEmpty \/ ConnectionLost
  BY <1>4 DEF Connect, LogonWait, LogonTimeout, ReceiveTimeout, BufferEmpty, ConnectionLost
<1>5. ASSUME NEW k \in 0..RxBound, Receive(k) PROVE UNCHANGED <<in, got, asked, skipped, firstIn>>
  BY <1>5 DEF Receive
<1>6. CASE UNCHANGED vars
  BY <1>6 DEF vars
<1> QED
  BY <1>1, <1>2, <1>3, <1>4, <1>5, <1>6 DEF Next, Exited

\* An interval of numbers goes to one of the three sets, and the expected number
\* moves past it.
LEMMA NextAccount ==
  ASSUME TypeOK, AccountInv, [Next]_vars
  PROVE  AccountInv'
<1> USE DEF AccountInv, InboundAccounted
<1>0. in \in Int /\ firstIn \in Int
  BY SeqLimitAssumption DEF TypeOK
<1>1. ASSUME NEW m \in Inbound, SeqGap(m) PROVE AccountInv'
  <2>1. /\ m.seq \in Int /\ m.seq > in /\ in' = m.seq + 1
        /\ asked' = asked \cup in..(m.seq - 1) /\ got' = got \cup {m.seq}
        /\ UNCHANGED <<skipped, firstIn>>
    BY <1>1 DEF SeqGap, Take, IsSeq
  <2> QED
    BY <1>0, <2>1
<1>2. ASSUME NEW m \in Inbound, SeqInOrder(m) PROVE AccountInv'
  <2>1. in' = in + 1 /\ got' = got \cup {in} /\ UNCHANGED <<asked, skipped, firstIn>>
    BY <1>2 DEF SeqInOrder, Take
  <2> QED
    BY <1>0, <2>1
<1>3. ASSUME NEW m \in Inbound, NoSeqNum(m) \/ SeqPossDup(m) \/ SeqTooLow(m) PROVE AccountInv'
  BY <1>3 DEF NoSeqNum, SeqPossDup, SeqTooLow, Take, inbound
<1>4. CASE HandleSequenceReset
  <2>1. CASE IsSeq(cur.new) /\ cur.new > in
    <3>1. /\ cur.new \in Int /\ cur.new > in /\ in' = cur.new
          /\ skipped' = skipped \cup in..(cur.new - 1)
          /\ UNCHANGED <<got, asked, firstIn>>
      BY <1>4, <2>1 DEF HandleSequenceReset, IsSeq
    <3> QED
      BY <1>0, <3>1
  <2>2. CASE ~(IsSeq(cur.new) /\ cur.new > in)
    BY <1>4, <2>2 DEF HandleSequenceReset
  <2> QED
    BY <2>1, <2>2
<1>5. CASE ~Validate /\ ~HandleSequenceReset
  BY <1>5, QuietStep
<1> QED
  BY <1>1, <1>2, <1>3, <1>4, <1>5 DEF Validate

\* Whatever the counterparty sends and in whatever order, in both modes, every
\* inbound number the client moves past was taken, asked for or waived, once.
THEOREM EveryInboundNumberAccounted == Spec => []InboundAccounted
<1>1. Init => AccountInv
  BY SeqLimitAssumption, SessionAssumption DEF Init, AccountInv, InboundAccounted
<1>2. AccountInv => InboundAccounted
  BY DEF AccountInv
<1> QED
  BY <1>1, <1>2, NextAccount, SessionTypeCorrect, PTL DEF Spec

-----------------------------------------------------------------------------
(* The end of the session                                                  *)

\* Where the loops can be: nothing runs after the close, nothing before the
\* connection.
PhaseInv ==
  /\ phase = "connect" => at = "top"
  /\ phase = "closed" => at \notin {"top", "recv", "drain", "handle", "resend", "command", "beat"}

LEMMA NextPhase ==
  ASSUME PhaseInv, [Next]_vars
  PROVE  PhaseInv'
<1> USE DEF PhaseInv
<1>1. CASE Validate
  BY <1>1 DEF Validate, NoSeqNum, SeqGap, SeqPossDup, SeqTooLow, SeqInOrder, Take,
              StopRequested, Close
<1>2. CASE Dispatch
  BY <1>2 DEF Dispatch, HandleSequenceReset, HandleLogon, HandleTestRequest, HandleLogout,
              HandleOther, RefuseResend, NothingToResend, BeginResend, ResendOne, Handle,
              NextMessage, StopRequested, Close
<1>3. CASE Script
  BY <1>3 DEF Script, SendLine, SendStep, StartRead, ReadOn, ScriptDone, ScriptFailed, Close
<1>4. CASE MainLoop
  BY <1>4 DEF MainLoop, MainTop, InitiateLogout, LogoutWaitOver, TestRequestTimeout,
              SendTestRequest, SendHeartbeat, NothingDue, Close
<1>5. CASE Connect \/ LogonWait \/ LogonTimeout \/ ReceiveTimeout \/ BufferEmpty \/ ConnectionLost
  BY <1>5 DEF Connect, LogonWait, LogonTimeout, ReceiveTimeout, BufferEmpty, ConnectionLost, Close
<1>6. ASSUME NEW k \in 0..RxBound, Receive(k) PROVE PhaseInv'
  BY <1>6 DEF Receive
<1>7. CASE UNCHANGED vars
  BY <1>7 DEF vars
<1> QED
  BY <1>1, <1>2, <1>3, <1>4, <1>5, <1>6, <1>7 DEF Next, Exited

\* In the live mode nothing is read while the scenario lines are being sent, so
\* stop_requested always meets a loop that looks at it.
EndInv ==
  /\ phase = "script" => at = "command"
  /\ phase # "closed" => seen = {} /\ logouts = IF logout_initiated THEN 1 ELSE 0
  /\ logouts \in {0, 1}

LEMMA NextEnd ==
  ASSUME ~TestMode, TypeOK, PhaseInv, EndInv, [Next]_vars
  PROVE  EndInv'
<1> USE DEF EndInv, PhaseInv, flags, inbound
<1>1. ASSUME NEW m \in Inbound,
             NoSeqNum(m) \/ SeqGap(m) \/ SeqPossDup(m) \/ SeqTooLow(m) \/ SeqInOrder(m)
      PROVE  EndInv'
  <2>1. at = "drain" /\ phase # "script" /\ UNCHANGED <<logouts, logout_initiated>>
    BY <1>1 DEF NoSeqNum, SeqGap, SeqPossDup, SeqTooLow, SeqInOrder, Take
  <2>2. CASE NoSeqNum(m) \/ SeqTooLow(m)
    BY <2>1, <2>2 DEF NoSeqNum, SeqTooLow, StopRequested, Close
  <2>3. CASE SeqGap(m) \/ SeqPossDup(m) \/ SeqInOrder(m)
    BY <2>1, <2>3 DEF SeqGap, SeqPossDup, SeqInOrder
  <2> QED
    BY <1>1, <2>2, <2>3
<1>2. CASE Dispatch
  <2>1. CASE HandleLogout
    <3>1. /\ phase # "script" /\ phase # "closed" /\ phase' = "closed"
          /\ logouts' = IF logout_initiated THEN logouts ELSE IF logouts = 0 THEN 1 ELSE 2
      BY <2>1 DEF HandleLogout, Handle, StopRequested, Close
    <3> QED
      BY <3>1
  <2>2. CASE HandleLogon
    BY <2>2 DEF HandleLogon, Handle, NextMessage
  <2>3. CASE \/ HandleSequenceReset \/ HandleTestRequest \/ HandleOther \/ RefuseResend
             \/ NothingToResend \/ BeginResend \/ ResendOne
    <3>1. /\ phase # "script" /\ UNCHANGED <<seen, logouts, logout_initiated>>
          /\ phase' = phase \/ phase' = "closed"
          /\ phase # "closed"
      BY <2>3 DEF HandleSequenceReset, HandleTestRequest, HandleOther, RefuseResend,
                  NothingToResend, BeginResend, ResendOne, Handle, NextMessage, Close
    <3> QED
      BY <3>1
  <2> QED
    BY <1>2, <2>1, <2>2, <2>3 DEF Dispatch
<1>3. CASE Script
  BY <1>3 DEF Script, SendLine, SendStep, StartRead, ReadOn, ScriptDone, ScriptFailed, Close
<1>4. CASE MainLoop
  BY <1>4 DEF MainLoop, MainTop, InitiateLogout, LogoutWaitOver, TestRequestTimeout,
              SendTestRequest, SendHeartbeat, NothingDue, Close
<1>5. CASE Connect \/ LogonWait \/ LogonTimeout \/ ReceiveTimeout \/ BufferEmpty \/ ConnectionLost
  BY <1>5 DEF Connect, LogonWait, LogonTimeout, ReceiveTimeout, BufferEmpty, ConnectionLost, Close
<1>6. ASSUME NEW k \in 0..RxBound, Receive(k) PROVE EndInv'
  BY <1>6 DEF Receive
<1>7. CASE UNCHANGED vars
  BY <1>7 DEF vars
<1> QED
  BY <1>1, <1>2, <1>3, <1>4, <1>5, <1>6, <1>7 DEF Next, Exited, Validate

LEMMA EndInvariance ==
  ASSUME ~TestMode
  PROVE  Spec => []EndInv
<1>1. Init => PhaseInv /\ EndInv
  BY DEF Init, PhaseInv, EndInv
<1>2. TypeOK /\ PhaseInv /\ EndInv /\ [Next]_vars => PhaseInv' /\ EndInv'
  BY NextPhase, NextEnd
<1> QED
  BY <1>1, <1>2, SessionTypeCorrect, PTL DEF Spec

\* In the live mode a sequence number that is too low always ends the session.
THEOREM LiveModeTooLowDisconnects ==
  ASSUME ~TestMode
  PROVE  Spec => []TooLowDisconnects
<1>1. EndInv => TooLowDisconnects
  BY DEF EndInv, TooLowDisconnects
<1> QED
  BY <1>1, EndInvariance, PTL

\* In the live mode the counterparty's Logout always ends the session.
THEOREM LiveModeLogoutEndsSession ==
  ASSUME ~TestMode
  PROVE  Spec => []LogoutEndsSession
<1>1. EndInv => LogoutEndsSession
  BY DEF EndInv, LogoutEndsSession
<1> QED
  BY <1>1, EndInvariance, PTL

\* In the live mode crossing Logouts never make the client send two.
THEOREM LiveModeAtMostOneLogout ==
  ASSUME ~TestMode
  PROVE  Spec => []AtMostOneLogout
<1>1. EndInv => AtMostOneLogout
  BY DEF EndInv, AtMostOneLogout
<1> QED
  BY <1>1, EndInvariance, PTL

-----------------------------------------------------------------------------
(* Answering a ResendRequest                                               *)

\* Between two replies the counterparty waits for the number the loop is at.
ResendInv ==
  at = "resend" => /\ rs.next <= rs.to
                   /\ rs.to = EndOfResend(cur)
                   /\ IsSeq(cur.end)
                   /\ peer = rs.next

\* While the loop runs nothing else moves, and its last step leaves the
\* counterparty waiting for the number after the last.
LEMMA ResendStep ==
  ASSUME TypeOK, ResendInv, ResendOne
  PROVE  /\ ResendInv'
         /\ at' # "resend" => peer' = EndOfResend(cur) + 1
<1>1. /\ at = "resend" /\ rs \in [next : Nat, to : 0..MaxSeq] /\ peer = rs.next
      /\ rs.next <= rs.to /\ rs.to = EndOfResend(cur) /\ IsSeq(cur.end)
  BY DEF ResendOne, ResendInv, TypeOK
<1>2. peer' = rs.next + 1
  <2>1. Absorb(peer, Reply(rs.next)) = rs.next + 1
    BY <1>1, AbsorbReply
  <2> QED
    BY <2>1 DEF ResendOne
<1>3. EndOfResend(cur)' = EndOfResend(cur) /\ cur' = cur
  BY DEF ResendOne, EndOfResend, numbers
<1>4. rs.next \in Int /\ rs.to \in Int
  BY <1>1, SessionAssumption
<1>5. CASE rs.next < rs.to
  <2>1. rs'.next = rs.next + 1 /\ rs'.to = rs.to /\ at' = "resend"
    BY <1>1, <1>5 DEF ResendOne
  <2> QED
    BY <1>1, <1>2, <1>3, <1>4, <1>5, <2>1 DEF ResendInv
<1>6. CASE ~(rs.next < rs.to)
  <2>1. at' \in {"command", "drain"}
    BY <1>6 DEF ResendOne, NextMessage
  <2>2. rs.next = rs.to
    BY <1>1, <1>4, <1>6
  <2> QED
    BY <1>1, <1>2, <2>1, <2>2 DEF ResendInv
<1> QED
  BY <1>5, <1>6

LEMMA NextResend ==
  ASSUME TypeOK, PhaseInv, ResendInv, [Next]_vars
  PROVE  ResendInv' /\ (at = "resend" /\ at' # "resend" /\ phase' # "closed"
                          => peer' = EndOfResend(cur) + 1)
<1>1. CASE ResendOne
  BY <1>1, ResendStep
<1>2. CASE BeginResend
  <2>1. /\ at = "handle" /\ rs' = [next |-> cur.begin, to |-> EndOfResend(cur)]
        /\ peer' = cur.begin /\ cur.begin <= EndOfResend(cur) /\ IsSeq(cur.end)
        /\ cur' = cur /\ EndOfResend(cur)' = EndOfResend(cur)
    BY <1>2 DEF BeginResend, Handle, EndOfResend, numbers
  <2> QED
    BY <2>1 DEF ResendInv
<1>3. CASE UNCHANGED vars
  <2>1. EndOfResend(cur)' = EndOfResend(cur) /\ UNCHANGED <<at, cur, rs, peer>>
    BY <1>3 DEF vars, EndOfResend, numbers
  <2> QED
    BY <2>1 DEF ResendInv
<1>4. ASSUME ~ResendOne, ~BeginResend, Next, ~(UNCHANGED vars)
      PROVE  at' # "resend" /\ (at = "resend" => phase' = "closed")
  <2>1. CASE Validate
    BY <2>1 DEF Validate, NoSeqNum, SeqGap, SeqPossDup, SeqTooLow, SeqInOrder, Take,
                StopRequested, Close
  <2>2. CASE Dispatch
    BY <1>4, <2>2 DEF Dispatch, HandleSequenceReset, HandleLogon, HandleTestRequest,
                HandleLogout, HandleOther, RefuseResend, NothingToResend, Handle,
                NextMessage, StopRequested, Close
  <2>3. CASE Script
    BY <2>3 DEF Script, SendLine, SendStep, StartRead, ReadOn, ScriptDone, ScriptFailed, Close
  <2>4. CASE MainLoop
    BY <2>4 DEF MainLoop, MainTop, InitiateLogout, LogoutWaitOver, TestRequestTimeout,
                SendTestRequest, SendHeartbeat, NothingDue, Close
  <2>5. CASE Connect \/ LogonWait \/ LogonTimeout \/ ReceiveTimeout \/ BufferEmpty \/ ConnectionLost
    BY <2>5 DEF Connect, LogonWait, LogonTimeout, ReceiveTimeout, BufferEmpty, ConnectionLost,
                Close, PhaseInv
  <2>6. ASSUME NEW k \in 0..RxBound, Receive(k)
        PROVE  at' # "resend" /\ (at = "resend" => phase' = "closed")
    BY <2>6 DEF Receive
  <2> QED
    BY <1>4, <2>1, <2>2, <2>3, <2>4, <2>5, <2>6 DEF Next, Exited
<1> QED
  BY <1>1, <1>2, <1>3, <1>4 DEF ResendInv

\* Whatever was kept and whatever range was asked for, the reply to a
\* ResendRequest leaves the counterparty waiting for the number after the last
\* one it asked for that the client has sent: no number of the range is left
\* out, repeated or filled past its end.
THEOREM EveryReplyClosesTheGap == Spec => ResendClosesGap
<1>1. Init => PhaseInv /\ ResendInv
  BY DEF Init, PhaseInv, ResendInv
<1>2. TypeOK /\ PhaseInv /\ ResendInv /\ [Next]_vars => PhaseInv' /\ ResendInv'
  BY NextPhase, NextResend
<1>3. TypeOK /\ PhaseInv /\ ResendInv /\ [Next]_vars
        => [(at = "resend" /\ at' # "resend" /\ phase' # "closed")
              => peer' = IF cur.end >= out THEN out ELSE cur.end + 1]_vars
  <2> SUFFICES ASSUME TypeOK, PhaseInv, ResendInv, [Next]_vars,
                      at = "resend", at' # "resend", phase' # "closed"
               PROVE  peer' = IF cur.end >= out THEN out ELSE cur.end + 1
    OBVIOUS
  <2>1. peer' = EndOfResend(cur) + 1
    BY NextResend
  <2>2. cur.end \in Int /\ cur.end # 0 /\ out \in Int
    BY DEF ResendInv, IsSeq, TypeOK
  <2> QED
    BY <2>1, <2>2 DEF EndOfResend
<1> QED
  BY <1>1, <1>2, <1>3, SessionTypeCorrect, PTL DEF Spec, ResendClosesGap

-----------------------------------------------------------------------------
(* The shape of the session                                                *)

\* A message that is worked on becomes one that is done with: the parser has one
\* less, and the loop goes on, back to the script or out.
LEMMA HandledStep ==
  ASSUME TypeOK, PhaseInv, at \in {"handle", "resend"},
         UNCHANGED <<rx, flags>>,
         \/ NextMessage
         \/ StopRequested
         \/ phase = "logon" /\ phase' = "script" /\ at' = "command"
  PROVE  Loops!Message
<1>1. phase \notin {"connect", "closed"} /\ rx \in Nat
  BY DEF PhaseInv, TypeOK
<1>2. LoopPhase = phase /\ LoopAt = "drain" /\ LoopRx = rx + 1 /\ LoopRx > 0
  BY <1>1 DEF LoopPhase, LoopAt, LoopRx
<1>3. CASE NextMessage
  <2>1. phase' = phase /\ at' \in {"drain", "command"} /\ (at' = "command" => phase = "script")
    BY <1>3 DEF NextMessage
  <2>2. LoopPhase' = LoopPhase /\ LoopAt' = at' /\ LoopRx' = rx
    BY <1>1, <2>1 DEF LoopPhase, LoopAt, LoopRx
  <2> QED
    BY <1>1, <1>2, <2>1, <2>2 DEF Loops!Message, Loops!flags, flags
<1>4. CASE StopRequested
  <2>1. CASE phase = "script"
    BY <1>1, <1>2, <1>4, <2>1
       DEF StopRequested, LoopPhase, LoopAt, LoopRx, Loops!Message, Loops!flags, flags
  <2>2. CASE phase # "script"
    BY <1>1, <1>2, <1>4, <2>2
       DEF StopRequested, Close, LoopPhase, LoopAt, LoopRx,
           Loops!Message, Loops!Close, Loops!flags, flags
  <2> QED
    BY <2>1, <2>2
<1>5. CASE phase = "logon" /\ phase' = "script" /\ at' = "command"
  BY <1>1, <1>2, <1>5 DEF LoopPhase, LoopAt, LoopRx, Loops!Message, Loops!flags, flags
<1> QED
  BY <1>3, <1>4, <1>5

\* A message is taken: it stays one of the parser's until it is done with, or is
\* done with at once.
LEMMA ValidateStep ==
  ASSUME TypeOK, PhaseInv, Validate
  PROVE  Loops!Message \/ UNCHANGED Loops!vars
<1> PICK m \in Inbound :
      NoSeqNum(m) \/ SeqGap(m) \/ SeqPossDup(m) \/ SeqTooLow(m) \/ SeqInOrder(m)
  BY DEF Validate
<1>1. /\ at = "drain" /\ rx > 0 /\ rx' = rx - 1 /\ UNCHANGED flags
      /\ \/ at' = "handle" /\ UNCHANGED phase
         \/ StopRequested
  BY DEF NoSeqNum, SeqGap, SeqPossDup, SeqTooLow, SeqInOrder, Take
<1>2. phase \notin {"connect", "closed"} /\ rx \in Nat
  BY <1>1 DEF PhaseInv, TypeOK
<1>3. LoopPhase = phase /\ LoopAt = "drain" /\ LoopRx = rx
  BY <1>1, <1>2 DEF LoopPhase, LoopAt, LoopRx
<1>4. CASE at' = "handle" /\ UNCHANGED phase
  BY <1>1, <1>2, <1>3, <1>4 DEF LoopPhase, LoopAt, LoopRx, Loops!vars, Loops!flags, flags
<1>5. CASE StopRequested /\ phase = "script"
  BY <1>1, <1>2, <1>3, <1>5
     DEF StopRequested, LoopPhase, LoopAt, LoopRx, Loops!Message, Loops!flags, flags
<1>6. CASE StopRequested /\ phase # "script"
  BY <1>1, <1>2, <1>3, <1>6
     DEF StopRequested, Close, LoopPhase, LoopAt, LoopRx,
         Loops!Message, Loops!Close, Loops!flags, flags
<1> QED
  BY <1>1, <1>4, <1>5, <1>6

\* What closes the session otherwise, by the name it has in SessionLoops.
LEMMA BreakStep ==
  ASSUME phase # "closed", UNCHANGED flags,
         Close("refused") \/ Close("failed") \/ Close("lost")
  PROVE  Loops!Break
<1>1. LoopPhase # "closed"
  BY DEF LoopPhase
<1>2. LoopPhase' = "closed" /\ LoopAt' = "broken" /\ LoopRx' = 0
  BY DEF Close, LoopPhase, LoopAt, LoopRx
<1> QED
  BY <1>1, <1>2 DEF Loops!Break, Loops!Close, Loops!flags, flags

LEMMA DispatchStep ==
  ASSUME TypeOK, PhaseInv, Dispatch
  PROVE  Loops!Message \/ Loops!Break \/ UNCHANGED Loops!vars
<1>1. at \in {"handle", "resend"} /\ phase \notin {"connect", "closed"}
  BY DEF Dispatch, HandleSequenceReset, HandleLogon, HandleTestRequest, HandleLogout,
         HandleOther, RefuseResend, NothingToResend, BeginResend, ResendOne, Handle, PhaseInv
<1>2. CASE HandleSequenceReset \/ HandleOther \/ NothingToResend
  BY <1>1, <1>2, HandledStep DEF HandleSequenceReset, HandleOther, NothingToResend
<1>3. CASE HandleTestRequest \/ HandleLogout
  BY <1>1, <1>3, HandledStep DEF HandleTestRequest, HandleLogout
<1>4. CASE HandleLogon
  BY <1>1, <1>4, HandledStep DEF HandleLogon
<1>5. CASE RefuseResend
  BY <1>1, <1>5, BreakStep DEF RefuseResend
<1>6. CASE BeginResend
  BY <1>1, <1>6
     DEF BeginResend, Handle, LoopPhase, LoopAt, LoopRx, Loops!vars, Loops!flags, flags
<1>7. CASE ResendOne
  <2>1. CASE rs.next < rs.to
    BY <1>1, <1>7, <2>1
       DEF ResendOne, LoopPhase, LoopAt, LoopRx, Loops!vars, Loops!flags, flags
  <2>2. CASE ~(rs.next < rs.to)
    BY <1>1, <1>7, <2>2, HandledStep DEF ResendOne
  <2> QED
    BY <2>1, <2>2
<1> QED
  BY <1>2, <1>3, <1>4, <1>5, <1>6, <1>7 DEF Dispatch

\* recv, in the loops that have one.
LEMMA ReceiveStep ==
  ASSUME TypeOK, PhaseInv,
         (\E k \in 0..RxBound : Receive(k)) \/ ReceiveTimeout \/ BufferEmpty
  PROVE  Loops!Receive \/ Loops!ReceiveTimeout \/ Loops!BufferEmpty
<1>1. at \in {"recv", "drain"}
  BY DEF Receive, ReceiveTimeout, BufferEmpty
<1>2. phase \notin {"connect", "closed"} /\ rx \in Nat /\ RxBound \in Nat
  BY <1>1, SessionAssumption DEF PhaseInv, TypeOK
<1>3. LoopPhase = phase /\ LoopAt = at /\ LoopRx = rx
  BY <1>1, <1>2 DEF LoopPhase, LoopAt, LoopRx
<1>4. ASSUME NEW k \in 0..RxBound, Receive(k) PROVE Loops!Receive
  <2>1. /\ at = "recv" /\ phase' = phase /\ rx' = rx + k /\ rx + k <= RxBound
        /\ at' = IF phase = "script" THEN "top" ELSE "drain"
        /\ test_pending' = (phase = "script" /\ test_pending)
        /\ UNCHANGED <<scenarios_sent, logout_initiated>>
    BY <1>4 DEF Receive
  <2>2. LoopPhase' = phase /\ LoopAt' = at' /\ LoopRx' = rx + k
    BY <1>2, <2>1 DEF LoopPhase, LoopAt, LoopRx
  <2>3. LoopRx' \in LoopRx..RxBound
    BY <1>2, <1>3, <2>1, <2>2
  <2> QED
    BY <1>2, <1>3, <2>1, <2>2, <2>3 DEF Loops!Receive
<1>5. CASE ReceiveTimeout
  BY <1>2, <1>3, <1>5
     DEF ReceiveTimeout, LoopPhase, LoopAt, LoopRx, Loops!ReceiveTimeout, Loops!flags, flags
<1>6. CASE BufferEmpty
  BY <1>2, <1>3, <1>6
     DEF BufferEmpty, LoopPhase, LoopAt, LoopRx, Loops!BufferEmpty, Loops!flags, flags
<1> QED
  BY <1>4, <1>5, <1>6

\* The script and the main loop: a step of one is a step of the other.
LEMMA ScriptStep ==
  ASSUME TypeOK, PhaseInv, Script
  PROVE  Loops!Script \/ Loops!Break
<1>1. phase = "script" /\ at \in {"command", "top"}
  BY DEF Script, SendLine, SendStep, StartRead, ReadOn, ScriptDone, ScriptFailed
<1>2. LoopPhase = phase /\ LoopAt = at /\ LoopRx = rx
  BY <1>1 DEF LoopPhase, LoopAt, LoopRx
<1>3. ASSUME NEW t \in LineTypes, NEW n \in (1..MaxSeq) \cup {Absent}, SendLine(t, n) \/ SendStep(t, n)
      PROVE  Loops!Script
  <2>1. /\ at = "command" /\ scenarios_sent' = TRUE
        /\ UNCHANGED <<phase, at, rx, logout_initiated, test_pending>>
    BY <1>3 DEF SendLine, SendStep
  <2> QED
    BY <1>1, <1>2, <2>1 DEF LoopPhase, LoopAt, LoopRx, Loops!Script
<1>4. CASE StartRead
  BY <1>1, <1>2, <1>4 DEF StartRead, LoopPhase, LoopAt, LoopRx, Loops!Script, flags
<1>5. CASE ReadOn
  BY <1>1, <1>2, <1>5 DEF ReadOn, LoopPhase, LoopAt, LoopRx, Loops!Script, flags
<1>6. CASE ScriptDone
  BY <1>1, <1>2, <1>6 DEF ScriptDone, LoopPhase, LoopAt, LoopRx, Loops!Script, flags
<1>7. CASE ScriptFailed
  BY <1>1, <1>7, BreakStep DEF ScriptFailed
<1> QED
  BY <1>3, <1>4, <1>5, <1>6, <1>7 DEF Script

LEMMA MainLoopStep ==
  ASSUME TypeOK, PhaseInv, MainLoop
  PROVE  Loops!Decide \/ Loops!Wait
<1>1. phase = "main" /\ at \in {"top", "beat"}
  BY DEF MainLoop, MainTop, InitiateLogout, LogoutWaitOver, TestRequestTimeout,
         SendTestRequest, SendHeartbeat, NothingDue
<1>2. /\ LoopPhase = "main" /\ LoopRx = rx
      /\ LoopAt = IF at = "top" THEN "top" ELSE "rest"
  BY <1>1 DEF LoopPhase, LoopAt, LoopRx
<1>3. CASE InitiateLogout
  BY <1>1, <1>2, <1>3 DEF InitiateLogout, MainTop, LoopPhase, LoopAt, LoopRx, Loops!At, Loops!Decide
<1>4. CASE LogoutWaitOver \/ TestRequestTimeout
  BY <1>1, <1>2, <1>4 DEF LogoutWaitOver, TestRequestTimeout, MainTop, Close, LoopPhase, LoopAt,
                          LoopRx, Loops!At, Loops!Close, Loops!Decide, flags
<1>5. CASE SendTestRequest
  BY <1>1, <1>2, <1>5 DEF SendTestRequest, MainTop, LoopPhase, LoopAt, LoopRx, Loops!At, Loops!Decide
<1>6. CASE SendHeartbeat \/ NothingDue
  BY <1>1, <1>2, <1>6
     DEF SendHeartbeat, NothingDue, LoopPhase, LoopAt, LoopRx, Loops!Wait, Loops!flags, flags
<1> QED
  BY <1>3, <1>4, <1>5, <1>6 DEF MainLoop

LEMMA LogonStep ==
  ASSUME TypeOK, PhaseInv, Connect \/ LogonWait \/ LogonTimeout
  PROVE  Loops!Logon \/ UNCHANGED Loops!vars
<1>1. CASE Connect
  BY <1>1 DEF Connect, PhaseInv, LoopPhase, LoopAt, LoopRx, Loops!vars, Loops!flags, flags
<1>2. CASE LogonWait \/ LogonTimeout
  BY <1>2 DEF LogonWait, LogonTimeout, Close, LoopPhase, LoopAt, LoopRx,
              Loops!At, Loops!Close, Loops!Logon, Loops!flags, flags
<1> QED
  BY <1>1, <1>2

\* Whatever messages come in, whatever they carry and whatever the client sends, the
\* session has the shape of SessionLoops.
THEOREM SessionImplementsLoops == Spec => ImplementsLoops
<1>1. Init => Loops!Init /\ PhaseInv
  BY SessionAssumption DEF Init, PhaseInv, LoopPhase, LoopAt, LoopRx, Loops!Init
<1>2. TypeOK /\ PhaseInv /\ [Next]_vars => PhaseInv'
  BY NextPhase
<1>3. TypeOK /\ PhaseInv /\ [Next]_vars => [Loops!Next]_(Loops!vars)
  <2> SUFFICES ASSUME TypeOK, PhaseInv, [Next]_vars PROVE Loops!Next \/ UNCHANGED Loops!vars
    OBVIOUS
  <2>1. CASE Validate \/ Dispatch
    BY <2>1, ValidateStep, DispatchStep DEF Loops!Next
  <2>2. CASE (\E k \in 0..RxBound : Receive(k)) \/ ReceiveTimeout \/ BufferEmpty
    BY <2>2, ReceiveStep DEF Loops!Next
  <2>3. CASE Script \/ MainLoop
    BY <2>3, ScriptStep, MainLoopStep DEF Loops!Next
  <2>4. CASE Connect \/ LogonWait \/ LogonTimeout
    BY <2>4, LogonStep DEF Loops!Next
  <2>5. CASE ConnectionLost
    BY <2>5, BreakStep DEF ConnectionLost, Loops!Next
  <2>6. CASE UNCHANGED vars
    BY <2>6 DEF vars, LoopPhase, LoopAt, LoopRx, Loops!vars, Loops!flags, flags
  <2> QED
    BY <2>1, <2>2, <2>3, <2>4, <2>5, <2>6 DEF Next, Exited
<1> QED
  BY <1>1, <1>2, <1>3, SessionTypeCorrect, PTL DEF Spec, ImplementsLoops, Loops!Spec

=============================================================================
