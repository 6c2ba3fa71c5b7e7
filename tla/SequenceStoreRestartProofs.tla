--------------------- MODULE SequenceStoreRestartProofs ----------------------
(***************************************************************************)
(* What a restart repeats, proved for every MaxSeq and every set of        *)
(* bodies: one outbound number at most, and no inbound message. From the   *)
(* first follows that the store implements OutboundLog.                    *)
(***************************************************************************)
EXTENDS SequenceStoreProofs

\* Every line carries its number and every save succeeds: what `high` counts
\* can be told from the token file.
SavedMode == Deviations \subseteq {"appendFails"}

USE DEF Number, NextNumber, Store, Body

-----------------------------------------------------------------------------
(* Outbound: the token file lags one number behind at most                 *)

LagInv ==
  /\ regression = FALSE
  /\ TokenLagsAtMostOne
  /\ token.kind = "pair" /\ high = token.out + 1 => wire[token.out] # NoMessage
  /\ pc \in {"load", "logon"} => /\ token.kind = "pair" /\ token.out = out
  /\ pc = "sent" => /\ high = out + 1 /\ wire[out] # NoMessage
                    /\ token.kind = "pair" => token.out = out
  /\ pc \in {"ready", "accept", "handle"} => /\ high = out
                                             /\ token.kind = "pair" => token.out = out
  /\ pc \in {"save", "truncated"} /\ after # "load" => high = out

\* A message sent under outbound_seq is new, or repeats the one that the
\* process before this one transmitted without saving it.
LEMMA TransmitLag ==
  ASSUME NEW b \in Body, NEW f \in BOOLEAN, NEW next \in {"ready", "accept"},
         TypeInv, LagInv, pc \in {"logon", "ready"}, Transmit(b, out, f, next)
  PROVE  LagInv' /\ (Log!Append(b) \/ Log!Repeat(b))
<1>1. /\ out \in Number /\ high \in NextNumber /\ wire \in Store /\ b # NoMessage
      /\ token \in Token
  BY ConstantsAssumption DEF Transmit, TypeInv, TypeOK
<1>2. /\ wire' = [wire EXCEPT ![out] = b]
      /\ high' = IF out >= high THEN out + 1 ELSE high
      /\ pc' = "sent" /\ UNCHANGED <<out, token, regression>>
  BY <1>1, ConstantsAssumption DEF Transmit, disk
<1>3. /\ token.kind = "pair" => token.out = out
      /\ high = out \/ high = out + 1
      /\ high = out + 1 => wire[out] # NoMessage
      /\ regression = FALSE
  BY <1>1 DEF LagInv, TokenLagsAtMostOne, Token
<1>4. high' = out + 1 /\ wire'[out] = b
  BY <1>1, <1>2, <1>3, ConstantsAssumption
<1>5. LagInv'
  BY <1>1, <1>2, <1>3, <1>4 DEF LagInv, TokenLagsAtMostOne
<1>6. CASE high = out
  BY <1>1, <1>2, <1>4, <1>5, <1>6, ConstantsAssumption DEF Log!Append
<1>7. CASE high = out + 1
  BY <1>1, <1>2, <1>3, <1>4, <1>5, <1>7, ConstantsAssumption DEF Log!Repeat
<1> QED
  BY <1>3, <1>6, <1>7

\* A step that touches neither the wire nor the token file.
LEMMA QuietLag ==
  ASSUME LagInv, UNCHANGED <<token, wire, high>>, regression' = FALSE,
         \/ pc' = "down"
         \/ pc' \in {"save", "truncated"} /\ after' = "load"
         \/ pc' \in {"save", "truncated"} /\ high = out'
         \/ pc' \in {"ready", "accept", "handle"} /\ high = out'
                                    /\ (token.kind = "pair" => token.out = out')
         \/ pc' \in {"load", "logon"} /\ token.kind = "pair" /\ token.out = out'
  PROVE  LagInv'
  BY DEF LagInv, TokenLagsAtMostOne

LEMMA InitLag == Init => LagInv /\ Log!Init
<1> SUFFICES ASSUME Init PROVE LagInv /\ Log!Init
  OBVIOUS
<1>1. token.kind # "pair" /\ pc = "down"
  BY DEF Init, Absent
<1>2. TypeInv
  BY InitTypeInv
<1> QED
  BY <1>1, <1>2, ConstantsAssumption
  DEF Init, LagInv, TokenLagsAtMostOne, Log!Init, Log!Nothing, Nothing, TypeInv, TypeOK

\* The abstract log begins again when the numbering does.
LEMMA RenumberLog ==
  ASSUME NEW o \in NextNumber, NEW i \in NextNumber, Renumber(o, i)
  PROVE  Log!BeginAgain(o)
  BY DEF Renumber, Nothing, Log!BeginAgain, Log!Nothing

\* Every step keeps LagInv, and is a step of the log or leaves it alone.
LEMMA NextLag ==
  ASSUME SavedMode, TypeInv, LagInv, [Next]_vars
  PROVE  LagInv' /\ [Log!Next]_<<wire, high>>
<1> USE ConstantsAssumption
<1>0. /\ out \in NextNumber /\ high \in NextNumber /\ token \in Token
      /\ pc \in {"down", "save", "truncated", "load", "logon", "ready", "sent",
                 "accept", "handle"}
      /\ after \in {"load", "ready", "accept", "handle"}
  BY DEF TypeInv, TypeOK
<1>1. CASE SendLogon
  BY <1>1, TransmitLag DEF SendLogon, Log!Next
<1>2. ASSUME NEW b \in Admin, SendAdmin(b) PROVE LagInv' /\ [Log!Next]_<<wire, high>>
  BY <1>2, TransmitLag DEF SendAdmin, Log!Next
<1>3. ASSUME NEW b \in Body, NEW s \in Number \cup {0}, SendScenarioLine(b, s)
      PROVE  LagInv' /\ [Log!Next]_<<wire, high>>
  BY <1>3, TransmitLag DEF SendScenarioLine, SavedMode, Log!Next
<1>4. ASSUME NEW b \in Body, NEW s \in Number \cup {0}, SendStep(b, s)
      PROVE  LagInv' /\ [Log!Next]_<<wire, high>>
  BY <1>4 DEF SendStep, LagInv
<1>5. CASE StoreMessage
  BY <1>0, <1>5, QuietLag DEF StoreMessage, history, LagInv
<1>6. CASE TruncateToken
  BY <1>6 DEF TruncateToken, Unreadable, history, LagInv, TokenLagsAtMostOne
<1>7. CASE WriteToken
  <2>1. pc' = after /\ token' = Pair(out, in) /\ UNCHANGED <<after, out, regression>> /\ pc = "truncated"
    BY <1>7 DEF WriteToken
  <2>2. CASE after = "load"
    <3>1. Renumber(out, in) /\ in \in NextNumber
      BY <1>7, <2>2 DEF WriteToken, BeginNumbering, TypeInv, TypeOK
    <3>2. high' = out
      BY <3>1 DEF Renumber
    <3>3. LagInv'
      BY <1>0, <2>1, <2>2, <3>2 DEF Pair, LagInv, TokenLagsAtMostOne
    <3> QED
      BY <1>0, <3>1, <3>3, RenumberLog DEF Log!Next
  <2>3. CASE after # "load"
    <3>1. UNCHANGED <<wire, high>> /\ high = out
      BY <1>7, <2>3 DEF WriteToken, BeginNumbering, history, LagInv
    <3> QED
      BY <1>0, <2>1, <2>3, <3>1 DEF Pair, LagInv, TokenLagsAtMostOne
  <2> QED
    BY <2>2, <2>3
<1>8. CASE OpenFails \/ WriteFails
  BY <1>8 DEF OpenFails, WriteFails, SavedMode
<1>9. CASE ReceiveExpected
  BY <1>9, QuietLag DEF ReceiveExpected, disk, LagInv
<1>10. ASSUME NEW n \in Number, DetectGap(n) PROVE LagInv' /\ [Log!Next]_<<wire, high>>
  BY <1>10, TransmitLag DEF DetectGap, Log!Next
<1>11. CASE AcceptGap
  BY <1>11, QuietLag DEF AcceptGap, disk, LagInv
<1>12. CASE HandleMessage
  BY <1>12, QuietLag DEF HandleMessage, disk, LagInv
<1>13. ASSUME NEW n \in NextNumber, HandleSequenceReset(n)
       PROVE  LagInv' /\ [Log!Next]_<<wire, high>>
  BY <1>13, QuietLag DEF HandleSequenceReset, disk, LagInv
<1>14. ASSUME NEW r \in BOOLEAN, NEW t \in BOOLEAN, Start(r, t)
       PROVE  LagInv' /\ [Log!Next]_<<wire, high>>
  <2>1. UNCHANGED <<token, wire, high>>
    BY <1>14 DEF Start, disk, history
  <2>2. \/ pc' = "save" /\ after' = "load"
        \/ pc' = "load" /\ token.kind = "pair" /\ token.out = out'
    BY <1>14 DEF Start
  <2>3. regression' = FALSE
    BY <1>14 DEF Start, SavedMode
  <2> QED
    BY <2>1, <2>2, <2>3, QuietLag
<1>15. CASE LoadStore
  BY <1>15, QuietLag DEF LoadStore, disk, history, LagInv
<1>16. CASE Stop
  BY <1>16, QuietLag DEF Stop, Ended, disk, history
<1>17. ASSUME NEW o \in NextNumber, NEW i \in NextNumber, EditToken(o, i)
       PROVE  LagInv' /\ [Log!Next]_<<wire, high>>
  <2>1. LagInv'
    BY <1>17 DEF EditToken, Renumber, Pair, process, LagInv, TokenLagsAtMostOne
  <2> QED
    BY <1>17, <2>1, RenumberLog DEF EditToken, Log!Next
<1>18. CASE NewDay
  <2>1. LagInv'
    BY <1>18 DEF NewDay, Absent, process, LagInv, TokenLagsAtMostOne
  <2> QED
    BY <1>18, <2>1, RenumberLog DEF NewDay, Log!Next
<1>19. CASE UNCHANGED vars
  BY <1>19 DEF vars, process, disk, history, LagInv, TokenLagsAtMostOne
<1> QED
  BY <1>1, <1>2, <1>3, <1>4, <1>5, <1>6, <1>7, <1>8, <1>9, <1>10, <1>11, <1>12,
     <1>13, <1>14, <1>15, <1>16, <1>17, <1>18, <1>19 DEF Next

\* Wherever the process dies, a restart uses the last outbound number again at
\* most: it repeats one and skips none.
THEOREM RestartRepeatsAtMostOne ==
  ASSUME SavedMode
  PROVE  Spec => []TokenLagsAtMostOne
<1>1. LagInv => TokenLagsAtMostOne
  BY DEF LagInv
<1>2. TypeInv /\ LagInv /\ [Next]_vars => LagInv'
  BY NextLag
<1> QED
  BY <1>1, <1>2, InitLag, TypeInvariance, PTL DEF Spec

\* The client, its files, its crashes and its restarts implement the abstract
\* outbound log.
THEOREM StoreImplementsLog ==
  ASSUME SavedMode
  PROVE  Spec => ImplementsOutboundLog
<1>1. TypeInv /\ LagInv /\ [Next]_vars => LagInv' /\ [Log!Next]_<<wire, high>>
  BY NextLag
<1> QED
  BY <1>1, InitLag, TypeInvariance, PTL DEF Spec, ImplementsOutboundLog, Log!Spec

-----------------------------------------------------------------------------
(* Inbound: no message is acted on twice                                   *)

\* What was handled is below the saved inbound number, and below the number of
\* a message that has been counted and not yet handled.
HandledBelow(n) == \A k \in handled : k < n

HandledInv ==
  /\ token.kind = "pair" => HandledBelow(token.in)
  /\ Numbered => HandledBelow(in)
  /\ pc = "handle" /\ token.kind = "pair" => token.in = in
  /\ (pc = "handle" \/ (pc \in {"save", "truncated"} /\ after = "handle"))
        => HandledBelow(in - 1)
  /\ pc = "sent" => after # "handle"
  /\ (Numbered /\ after = "accept") \/ pc = "accept" => gap >= in /\ after = "accept"

\* A send takes no part in this.
LEMMA TransmitHandled ==
  ASSUME NEW b, NEW s, NEW f, TypeInv, HandledInv, pc \in {"logon", "ready"},
         Transmit(b, s, f, "ready")
  PROVE  HandledInv'
  BY DEF Transmit, disk, HandledInv, HandledBelow, Numbered

LEMMA InitHandled == Init => HandledInv
  BY DEF Init, HandledInv, HandledBelow, Numbered

LEMMA NextHandled ==
  ASSUME "saveFails" \notin Deviations, TypeInv, HandledInv, [Next]_vars
  PROVE  HandledInv'
<1> USE ConstantsAssumption
<1>0. /\ in \in NextNumber /\ gap \in Number \cup {0} /\ token.in \in NextNumber
      /\ handled \subseteq Number /\ after \in {"load", "ready", "accept", "handle"}
  BY DEF TypeInv, TypeOK, Token
<1>1. CASE SendLogon
  BY <1>1, TransmitHandled DEF SendLogon
<1>2. ASSUME NEW b \in Admin, SendAdmin(b) PROVE HandledInv'
  BY <1>2, TransmitHandled DEF SendAdmin
<1>3. ASSUME NEW b \in Body, NEW s \in Number \cup {0}, SendScenarioLine(b, s) PROVE HandledInv'
  BY <1>3, TransmitHandled DEF SendScenarioLine
<1>4. ASSUME NEW b \in Body, NEW s \in Number \cup {0}, SendStep(b, s) PROVE HandledInv'
  BY <1>4, TransmitHandled DEF SendStep
<1>5. CASE StoreMessage
  BY <1>5 DEF StoreMessage, history, HandledInv, HandledBelow, Numbered
<1>6. CASE TruncateToken
  BY <1>6 DEF TruncateToken, Unreadable, history, HandledInv, HandledBelow, Numbered
<1>7. CASE WriteToken
  <2>1. CASE after = "load"
    BY <1>0, <1>7, <2>1
    DEF WriteToken, BeginNumbering, Renumber, Pair, HandledInv, HandledBelow, Numbered
  <2>2. CASE after # "load"
    BY <1>0, <1>7, <2>2
    DEF WriteToken, BeginNumbering, history, Pair, HandledInv, HandledBelow, Numbered
  <2> QED
    BY <2>1, <2>2
<1>8. CASE OpenFails \/ WriteFails
  BY <1>8 DEF OpenFails, WriteFails
<1>9. CASE ReceiveExpected
  BY <1>0, <1>9 DEF ReceiveExpected, disk, HandledInv, HandledBelow, Numbered
<1>10. ASSUME NEW n \in Number, DetectGap(n) PROVE HandledInv'
  BY <1>0, <1>10 DEF DetectGap, Transmit, disk, HandledInv, HandledBelow, Numbered
<1>11. CASE AcceptGap
  <2>1. /\ HandledBelow(in) /\ gap >= in /\ in' = gap + 1
        /\ token.kind = "pair" => HandledBelow(token.in)
        /\ UNCHANGED <<handled, token>> /\ pc' = "save" /\ after' = "handle"
    BY <1>11 DEF AcceptGap, disk, HandledInv, Numbered
  <2>2. HandledBelow(in - 1)' /\ HandledBelow(in)'
    BY <1>0, <2>1 DEF HandledBelow
  <2> QED
    BY <2>1, <2>2 DEF HandledInv, HandledBelow
<1>12. CASE HandleMessage
  BY <1>0, <1>12 DEF HandleMessage, disk, HandledInv, HandledBelow, Numbered
<1>13. ASSUME NEW n \in NextNumber, HandleSequenceReset(n) PROVE HandledInv'
  <2>1. /\ HandledBelow(in) /\ in < n /\ in' = n /\ UNCHANGED token
        /\ token.kind = "pair" => HandledBelow(token.in)
        /\ pc = "handle" /\ token.kind = "pair" => token.in = in
        /\ handled' = IF pc = "handle" THEN handled \cup {in - 1} ELSE handled
        /\ pc' = "save" /\ after' = "ready"
    BY <1>13 DEF HandleSequenceReset, disk, HandledInv, Numbered
  <2>2. HandledBelow(in)' /\ (token'.kind = "pair" => HandledBelow(token.in)')
    BY <1>0, <2>1 DEF HandledBelow
  <2> QED
    BY <2>1, <2>2 DEF HandledInv
<1>14. ASSUME NEW r \in BOOLEAN, NEW t \in BOOLEAN, Start(r, t) PROVE HandledInv'
  BY <1>14 DEF Start, disk, history, HandledInv, HandledBelow, Numbered
<1>15. CASE LoadStore
  BY <1>15 DEF LoadStore, disk, history, HandledInv, HandledBelow, Numbered
<1>16. CASE Stop
  BY <1>16 DEF Stop, Ended, disk, history, HandledInv, HandledBelow, Numbered
<1>17. ASSUME NEW o \in NextNumber, NEW i \in NextNumber, EditToken(o, i) PROVE HandledInv'
  BY <1>17 DEF EditToken, Renumber, process, HandledInv, HandledBelow, Numbered
<1>18. CASE NewDay
  BY <1>18 DEF NewDay, Renumber, process, HandledInv, HandledBelow, Numbered
<1>19. CASE UNCHANGED vars
  BY <1>19 DEF vars, process, disk, history, HandledInv, HandledBelow, Numbered
<1> QED
  BY <1>1, <1>2, <1>3, <1>4, <1>5, <1>6, <1>7, <1>8, <1>9, <1>10, <1>11, <1>12,
     <1>13, <1>14, <1>15, <1>16, <1>17, <1>18, <1>19 DEF Next

\* As long as saves succeed, a message that was acted on is never taken for a new
\* one, whatever the process was doing when it died.
THEOREM NothingIsHandledTwice ==
  ASSUME "saveFails" \notin Deviations
  PROVE  Spec => []NeverHandledTwice
<1>1. TypeInv /\ HandledInv => NeverHandledTwice
  <2> SUFFICES ASSUME HandledInv, pc = "handle", in - 1 \in handled, TypeInv PROVE FALSE
    BY DEF NeverHandledTwice
  <2>1. in - 1 < in - 1
    BY DEF HandledInv, HandledBelow
  <2>2. in \in Nat
    BY ConstantsAssumption DEF TypeInv, TypeOK
  <2> QED
    BY <2>1, <2>2
<1>2. TypeInv /\ HandledInv /\ [Next]_vars => HandledInv'
  BY NextHandled
<1> QED
  BY <1>1, <1>2, InitHandled, TypeInvariance, PTL DEF Spec

=============================================================================
