------------------------- MODULE SequenceStoreProofs -------------------------
(***************************************************************************)
(* Theorems about SequenceStore, for every MaxSeq and every set of bodies. *)
(*                                                                         *)
(* TypeInv is TypeOK strengthened with what the program counter says of    *)
(* the other variables. StoreInv adds why a restart is safe: in every      *)
(* state, the .resend file is faithful up to the number a restart would    *)
(* read from the token file, because that number is written last.          *)
(***************************************************************************)
EXTENDS SequenceStore, TLAPS

\* What the point in the code says of the message in flight and of the gap.
ControlInv ==
  /\ after = "load" => pc \in {"save", "truncated", "load"}
  /\ pc = "load" => after = "load"
  /\ pc = "truncated" => token.kind # "pair"
  /\ pc = "sent" => /\ cur.body \in Body
                    /\ out <= MaxSeq
  /\ (after = "accept" \/ pc = "accept") /\ pc # "down" => gap \in Number
  /\ (after = "handle" \/ pc = "handle") /\ pc # "down" => in > 1

TypeInv == TypeOK /\ ControlInv

USE DEF Number, NextNumber, Store, Body

LEMMA NothingType == Nothing \in Store
  BY DEF Nothing

LEMMA NoCurType ==
  NoCur \in [seq : Number \cup {0}, body : Body \cup {NoMessage}, file : BOOLEAN]
  BY DEF NoCur

\* Halting is the same in every state.
LEMMA EndedType ==
  ASSUME Ended, TypeInv, UNCHANGED <<disk, history>>
  PROVE  TypeInv'
<1> USE ConstantsAssumption, NothingType, NoCurType
<1>1. /\ pc' = "down" /\ after' = "ready" /\ out' = 1 /\ in' = 1
      /\ sent' \in Store /\ gap' = 0 /\ regression' = FALSE
      /\ cur' \in [seq : Number \cup {0}, body : Body \cup {NoMessage}, file : BOOLEAN]
  BY DEF Ended
<1>2. /\ token' \in Token /\ resend' \in Store /\ wire' \in Store
      /\ first' \in [out : NextNumber, in : NextNumber] /\ high' \in NextNumber
      /\ ever' \subseteq Number \X Body
      /\ settled' \subseteq Number /\ handled' \subseteq Number
  BY DEF disk, history, TypeInv, TypeOK
<1>3. TypeOK'
  <2>1. 1 \in NextNumber /\ 0 \in Number \cup {0}
    OBVIOUS
  <2>2. out' \in NextNumber /\ in' \in NextNumber /\ gap' \in Number \cup {0}
    BY <1>1, <2>1
  <2>3. regression' \in BOOLEAN
    BY <1>1
  <2> QED
    BY <1>1, <1>2, <2>2, <2>3 DEF TypeOK
<1>4. ControlInv'
  BY <1>1 DEF ControlInv
<1> QED
  BY <1>3, <1>4 DEF TypeInv

\* A message written to the socket leaves the variables in their sets.
LEMMA TransmitType ==
  ASSUME NEW b \in Body, NEW s \in Number \cup {0}, NEW f \in BOOLEAN,
         NEW next \in {"ready", "accept"},
         TypeInv, Transmit(b, s, f, next)
  PROVE  /\ wire' \in Store /\ high' \in NextNumber /\ ever' \subseteq Number \X Body
         /\ cur' \in [seq : Number \cup {0}, body : Body \cup {NoMessage}, file : BOOLEAN]
         /\ cur'.body \in Body
  BY ConstantsAssumption DEF Transmit, TypeInv, TypeOK

LEMMA InitTypeInv == Init => TypeInv
<1> SUFFICES ASSUME Init PROVE TypeInv
  OBVIOUS
<1> USE ConstantsAssumption
<1>1. token \in Token
  BY DEF Init, Token, Absent
<1>2. token.out \in NextNumber
  BY <1>1 DEF Token
<1>3. sent \in Store /\ resend \in Store /\ wire \in Store
  BY NothingType DEF Init
<1>4. cur \in [seq : Number \cup {0}, body : Body \cup {NoMessage}, file : BOOLEAN]
  BY NoCurType DEF Init
<1>5. first \in [out : NextNumber, in : NextNumber] /\ high \in NextNumber
  BY <1>2 DEF Init
<1> QED
  BY <1>1, <1>3, <1>4, <1>5 DEF Init, TypeInv, TypeOK, ControlInv

\* Every step keeps TypeInv.
LEMMA NextTypeInv == TypeInv /\ [Next]_vars => TypeInv'
<1> SUFFICES ASSUME TypeInv, [Next]_vars PROVE TypeInv'
  OBVIOUS
<1> USE ConstantsAssumption, NothingType DEF TypeInv, TypeOK, ControlInv
<1>1. CASE SendLogon
  BY <1>1, TransmitType DEF SendLogon, Transmit, disk
<1>2. ASSUME NEW b \in Admin, SendAdmin(b) PROVE TypeInv'
  BY <1>2, TransmitType DEF SendAdmin, Transmit, disk
<1>3. ASSUME NEW b \in Body, NEW s \in Number \cup {0}, SendScenarioLine(b, s) PROVE TypeInv'
  BY <1>3, TransmitType DEF SendScenarioLine, Transmit, disk
<1>4. ASSUME NEW b \in Body, NEW s \in Number \cup {0}, SendStep(b, s) PROVE TypeInv'
  BY <1>4, TransmitType DEF SendStep, Transmit, disk
<1>5. CASE StoreMessage
  <2>1. resend' \in Store
    BY <1>5 DEF StoreMessage, AppendResult
  <2>2. sent' \in Store
    BY <1>5 DEF StoreMessage
  <2>3. cur' \in [seq : Number \cup {0}, body : Body \cup {NoMessage}, file : BOOLEAN]
    BY <1>5, NoCurType DEF StoreMessage
  <2> QED
    BY <1>5, <2>1, <2>2, <2>3 DEF StoreMessage, history
<1>6. CASE TruncateToken
  BY <1>6 DEF TruncateToken, Unreadable, Token, history
<1>7. CASE WriteToken
  <2>1. token' \in Token
    BY <1>7 DEF WriteToken, BeginNumbering, Pair, Token
  <2>2. /\ wire' \in Store /\ first' \in [out : NextNumber, in : NextNumber]
        /\ high' \in NextNumber /\ ever' \subseteq Number \X Body
        /\ settled' \subseteq Number /\ handled' \subseteq Number
    <3>1. CASE after = "load"
      BY <1>7, <3>1 DEF WriteToken, BeginNumbering, Renumber
    <3>2. CASE after # "load"
      BY <1>7, <3>2 DEF WriteToken, BeginNumbering, history
    <3> QED
      BY <3>1, <3>2
  <2>3. pc' = after /\ UNCHANGED <<after, out, in, sent, cur, gap, regression, resend>>
    BY <1>7 DEF WriteToken
  <2>4. TypeOK'
    BY <2>1, <2>2, <2>3
  <2>5. ControlInv'
    BY <1>7, <2>3 DEF WriteToken
  <2> QED
    BY <2>4, <2>5
<1>8. CASE OpenFails
  <2>1. CASE after = "load"
    BY <1>8, <2>1, EndedType DEF OpenFails
  <2>2. CASE after # "load"
    BY <1>8, <2>2 DEF OpenFails, disk, history
  <2> QED
    BY <2>1, <2>2
<1>9. CASE WriteFails
  <2>1. /\ wire' \in Store /\ first' \in [out : NextNumber, in : NextNumber]
        /\ high' \in NextNumber /\ ever' \subseteq Number \X Body
        /\ settled' \subseteq Number /\ handled' \subseteq Number
    <3>1. CASE after = "load"
      BY <1>9, <3>1 DEF WriteFails, BeginNumbering, Renumber
    <3>2. CASE after # "load"
      BY <1>9, <3>2 DEF WriteFails, BeginNumbering, history
    <3> QED
      BY <3>1, <3>2
  <2>2. pc' = after /\ UNCHANGED <<after, out, in, sent, cur, gap, regression, token, resend>>
    BY <1>9 DEF WriteFails, disk
  <2>3. TypeOK'
    BY <2>1, <2>2
  <2>4. ControlInv'
    BY <1>9, <2>2 DEF WriteFails
  <2> QED
    BY <2>3, <2>4
<1>10. CASE ReceiveExpected
  BY <1>10 DEF ReceiveExpected, disk
<1>11. ASSUME NEW n \in Number, DetectGap(n) PROVE TypeInv'
  BY <1>11, TransmitType DEF DetectGap, Transmit, disk
<1>12. CASE AcceptGap
  BY <1>12 DEF AcceptGap, disk
<1>13. CASE HandleMessage
  BY <1>13 DEF HandleMessage, disk
<1>14. ASSUME NEW n \in NextNumber, HandleSequenceReset(n) PROVE TypeInv'
  BY <1>14 DEF HandleSequenceReset, disk
<1>15. ASSUME NEW r \in BOOLEAN, NEW t \in BOOLEAN, Start(r, t) PROVE TypeInv'
  BY <1>15 DEF Start, Token, disk, history
<1>16. CASE LoadStore
  BY <1>16 DEF LoadStore, disk, history
<1>17. CASE Stop
  BY <1>17, EndedType DEF Stop
<1>18. ASSUME NEW o \in NextNumber, NEW i \in NextNumber, EditToken(o, i) PROVE TypeInv'
  BY <1>18 DEF EditToken, Renumber, Pair, Token, process
<1>19. CASE NewDay
  BY <1>19 DEF NewDay, Renumber, Absent, Token, process
<1>20. CASE UNCHANGED vars
  BY <1>20 DEF vars, process, disk, history
<1> QED
  BY <1>1, <1>2, <1>3, <1>4, <1>5, <1>6, <1>7, <1>8, <1>10, <1>11, <1>12, <1>13,
     <1>14, <1>15, <1>16, <1>17, <1>18, <1>19, <1>20, <1>9 DEF Next

THEOREM TypeInvariance == Spec => []TypeInv
  BY InitTypeInv, NextTypeInv, PTL DEF Spec

\* Type correctness of the client's numbers, stores and files: no sequence of
\* sends, receipts, crashes and restarts takes a variable out of its set.
THEOREM TypeCorrect == Spec => []TypeOK
  BY TypeInvariance, PTL DEF TypeInv

-----------------------------------------------------------------------------
(* What a restart resends                                                  *)

StoreInv ==
  /\ regression = FALSE
  /\ pc = "sent" => cur.seq = out /\ cur.file = TRUE /\ wire[out] = cur.body
  /\ token.kind = "pair" => Faithful(resend, token.out)
  /\ Numbered => /\ Faithful(resend, out)
                 /\ token.kind = "pair" => token.out <= out
  /\ Loaded => Faithful(sent, out)

\* The live mode with every scenario line numbered and a .resend file that can
\* be written; the token file may fail.
PlainMode == Deviations \subseteq {"saveFails"}

\* A message under outbound_seq touches no number below it.
LEMMA TransmitStore ==
  ASSUME NEW b \in Body, NEW next \in {"ready", "accept"},
         TypeInv, StoreInv, pc \in {"logon", "ready"},
         Transmit(b, out, TRUE, next)
  PROVE  StoreInv'
<1>1. /\ out \in Number /\ wire' = [wire EXCEPT ![out] = b]
      /\ cur' = [seq |-> out, body |-> b, file |-> TRUE] /\ pc' = "sent"
      /\ UNCHANGED <<out, sent, regression, token, resend, first>>
  BY ConstantsAssumption DEF Transmit, disk, TypeInv, TypeOK
<1>2. Faithful(resend, out) /\ Faithful(sent, out) /\ (token.kind = "pair" => token.out <= out)
  BY DEF StoreInv, Numbered, Loaded
<1>3. first.out \in Nat /\ wire \in Store /\ token.out \in Nat
  BY ConstantsAssumption DEF TypeInv, TypeOK, Token
<1>4. \A k \in first.out..(out - 1) : wire'[k] = wire[k]
  BY <1>1, <1>3
<1>5. Faithful(resend, out)' /\ Faithful(sent, out)'
  BY <1>1, <1>2, <1>4 DEF Faithful
<1>6. token'.kind = "pair" => Faithful(resend, token.out)'
  BY <1>1, <1>2, <1>3, <1>5 DEF Faithful
<1>7. wire'[out'] = cur'.body
  BY <1>1, <1>3
<1> QED
  BY <1>1, <1>2, <1>5, <1>6, <1>7 DEF StoreInv

\* Beginning again leaves no number to be faithful about.
LEMMA RenumberFaithful ==
  ASSUME NEW f, NEW o \in NextNumber, NEW i \in NextNumber, Renumber(o, i)
  PROVE  \A k \in first'.out..(o - 1) : f[k] # NoMessage /\ f[k] = wire'[k]
  BY ConstantsAssumption DEF Renumber

LEMMA InitStoreInv == Init => StoreInv
  BY DEF Init, StoreInv, Numbered, Loaded, Absent

LEMMA NextStoreInv ==
  ASSUME PlainMode, TypeInv, StoreInv, [Next]_vars
  PROVE  StoreInv'
<1> USE ConstantsAssumption
<1>1. CASE SendLogon
  BY <1>1, TransmitStore DEF SendLogon
<1>2. ASSUME NEW b \in Admin, SendAdmin(b) PROVE StoreInv'
  BY <1>2, TransmitStore DEF SendAdmin
<1>3. ASSUME NEW b \in Body, NEW s \in Number \cup {0}, SendScenarioLine(b, s) PROVE StoreInv'
  BY <1>3, TransmitStore DEF SendScenarioLine, PlainMode
<1>4. ASSUME NEW b \in Body, NEW s \in Number \cup {0}, SendStep(b, s) PROVE StoreInv'
  BY <1>4 DEF SendStep, StoreInv
<1>5. CASE StoreMessage
  <2>1. /\ cur.seq = out /\ cur.file = TRUE /\ wire[out] = cur.body
        /\ out \in Number /\ cur.body # NoMessage
        /\ Faithful(resend, out) /\ Faithful(sent, out)
        /\ token.kind = "pair" => token.out <= out
    BY <1>5 DEF StoreMessage, StoreInv, Numbered, Loaded, TypeInv, TypeOK, ControlInv
  <2>2. /\ sent' = [sent EXCEPT ![out] = cur.body]
        /\ resend' = [resend EXCEPT ![out] = cur.body]
        /\ out' = out + 1 /\ pc' = "save"
        /\ UNCHANGED <<regression, token, wire, first>>
    BY <1>5, <2>1 DEF StoreMessage, AppendResult, PlainMode, history
  <2>3. sent \in Store /\ resend \in Store /\ first.out \in Nat /\ token.out \in Nat
    BY DEF TypeInv, TypeOK, Token
  <2>4. \A k \in first.out..out : sent'[k] # NoMessage /\ sent'[k] = wire[k]
    BY <2>1, <2>2, <2>3 DEF Faithful
  <2>5. \A k \in first.out..out : resend'[k] # NoMessage /\ resend'[k] = wire[k]
    BY <2>1, <2>2, <2>3 DEF Faithful
  <2>6. Faithful(sent, out)' /\ Faithful(resend, out)'
    BY <2>1, <2>2, <2>4, <2>5 DEF Faithful
  <2>7. token'.kind = "pair" => Faithful(resend, token.out)' /\ token'.out <= out'
    BY <2>1, <2>2, <2>3, <2>5 DEF Faithful
  <2> QED
    BY <1>5, <2>1, <2>2, <2>6, <2>7 DEF StoreInv
<1>6. CASE TruncateToken
  BY <1>6 DEF TruncateToken, Unreadable, history, StoreInv, Numbered, Loaded, Faithful
<1>7. CASE WriteToken
  <2>1. /\ token' = Pair(out, in) /\ pc' = after /\ pc = "truncated"
        /\ UNCHANGED <<after, out, sent, regression, resend>>
    BY <1>7 DEF WriteToken
  <2>2. /\ out \in NextNumber /\ in \in NextNumber
        /\ after \in {"load", "ready", "accept", "handle"}
        /\ after # "load" => Numbered /\ Loaded
    <3>1. out \in NextNumber /\ in \in NextNumber /\ after \in {"load", "ready", "accept", "handle"}
      BY DEF TypeInv, TypeOK
    <3>2. after # "load" => Numbered /\ Loaded
      BY <2>1 DEF Numbered, Loaded
    <3> QED
      BY <3>1, <3>2
  <2>3. CASE after = "load"
    <3>1. Faithful(resend, out)'
      BY <1>7, <2>1, <2>2, <2>3, RenumberFaithful DEF WriteToken, BeginNumbering, Faithful
    <3> QED
      BY <2>1, <2>2, <2>3, <3>1 DEF StoreInv, Numbered, Loaded, Pair, Faithful
  <2>4. CASE after # "load"
    <3>1. wire' = wire /\ first' = first
      BY <1>7, <2>4 DEF WriteToken, BeginNumbering, history
    <3>2. Faithful(resend, out)' /\ Faithful(sent, out)'
      BY <2>1, <2>2, <2>4, <3>1 DEF StoreInv, Faithful
    <3> QED
      BY <2>1, <2>2, <2>4, <3>1, <3>2 DEF StoreInv, Numbered, Loaded, Pair, Faithful
  <2> QED
    BY <2>3, <2>4
<1>8. CASE OpenFails
  <2>1. CASE after = "load"
    BY <1>8, <2>1 DEF OpenFails, Ended, disk, history, StoreInv, Numbered, Loaded, Faithful
  <2>2. CASE after # "load"
    BY <1>8, <2>2 DEF OpenFails, disk, history, StoreInv, Numbered, Loaded, Faithful,
                      TypeInv, TypeOK
  <2> QED
    BY <2>1, <2>2
<1>9. CASE WriteFails
  <2>1. /\ pc' = after /\ pc = "truncated" /\ token.kind = token'.kind
        /\ UNCHANGED <<after, out, sent, regression, resend, token>>
        /\ after \in {"load", "ready", "accept", "handle"}
    BY <1>9 DEF WriteFails, disk, TypeInv, TypeOK
  <2>2. CASE after = "load"
    <3>1. Faithful(resend, out)' /\ first'.out = out
      BY <1>9, <2>1, <2>2, RenumberFaithful
      DEF WriteFails, BeginNumbering, Renumber, Faithful, TypeInv, TypeOK
    <3>2. token.kind # "pair"
      BY <1>9, <2>2 DEF WriteFails, TypeInv, ControlInv
    <3> QED
      BY <2>1, <2>2, <3>1, <3>2 DEF StoreInv, Numbered, Loaded, Faithful
  <2>3. CASE after # "load"
    <3>1. wire' = wire /\ first' = first
      BY <1>9, <2>3 DEF WriteFails, BeginNumbering, history
    <3> QED
      BY <2>1, <2>3, <3>1 DEF StoreInv, Numbered, Loaded, Faithful
  <2> QED
    BY <2>2, <2>3
<1>10. CASE ReceiveExpected
  BY <1>10 DEF ReceiveExpected, disk, StoreInv, Numbered, Loaded, Faithful
<1>11. ASSUME NEW n \in Number, DetectGap(n) PROVE StoreInv'
  BY <1>11, TransmitStore DEF DetectGap
<1>12. CASE AcceptGap
  BY <1>12 DEF AcceptGap, disk, StoreInv, Numbered, Loaded, Faithful
<1>13. CASE HandleMessage
  BY <1>13 DEF HandleMessage, disk, StoreInv, Numbered, Loaded, Faithful
<1>14. ASSUME NEW n \in NextNumber, HandleSequenceReset(n) PROVE StoreInv'
  BY <1>14 DEF HandleSequenceReset, disk, StoreInv, Numbered, Loaded, Faithful
<1>15. ASSUME NEW r \in BOOLEAN, NEW t \in BOOLEAN, Start(r, t) PROVE StoreInv'
  <2>1. regression' = FALSE /\ after' = "load" /\ UNCHANGED <<token, resend, wire, first>>
    BY <1>15 DEF Start, PlainMode, disk, history
  <2>2. CASE pc' = "load"
    <3>1. token.kind = "pair" /\ out' = token.out /\ token.out \in Nat
      BY <1>15, <2>2 DEF Start, TypeInv, TypeOK, Token
    <3>2. Faithful(resend, token.out)
      BY <3>1 DEF StoreInv
    <3> QED
      BY <2>1, <2>2, <3>1, <3>2 DEF StoreInv, Numbered, Loaded, Faithful
  <2>3. CASE pc' = "save"
    BY <2>1, <2>3 DEF StoreInv, Numbered, Loaded, Faithful
  <2> QED
    BY <1>15, <2>2, <2>3 DEF Start
<1>16. CASE LoadStore
  BY <1>16 DEF LoadStore, disk, history, StoreInv, Numbered, Loaded, Faithful
<1>17. CASE Stop
  BY <1>17 DEF Stop, Ended, disk, history, StoreInv, Numbered, Loaded, Faithful
<1>18. ASSUME NEW o \in NextNumber, NEW i \in NextNumber, EditToken(o, i) PROVE StoreInv'
  BY <1>18, RenumberFaithful DEF EditToken, Pair, process, StoreInv, Numbered, Loaded, Faithful
<1>19. CASE NewDay
  BY <1>19 DEF NewDay, Absent, process, StoreInv, Numbered, Loaded
<1>20. CASE UNCHANGED vars
  BY <1>20 DEF vars, process, disk, history, StoreInv, Numbered, Loaded, Faithful
<1> QED
  BY <1>1, <1>2, <1>3, <1>4, <1>5, <1>6, <1>7, <1>8, <1>10, <1>11, <1>12, <1>13,
     <1>14, <1>15, <1>16, <1>17, <1>18, <1>19, <1>20, <1>9 DEF Next

\* In the live mode a ResendRequest is answered with what was transmitted, across
\* crashes between any two steps of a send, lost token files, resets over an old
\* .resend file and token files that cannot be saved.
THEOREM LiveModeResendsWhatWasSent ==
  ASSUME PlainMode
  PROVE  Spec => []ResendsWhatWasSent
<1>1. StoreInv => ResendsWhatWasSent
  BY DEF StoreInv, ResendsWhatWasSent
<1>2. TypeInv /\ StoreInv /\ [Next]_vars => StoreInv'
  BY NextStoreInv
<1> QED
  BY <1>1, <1>2, InitStoreInv, TypeInvariance, PTL DEF Spec

\* Under the same conditions a crash at any point leaves in the .resend file
\* every message that the saved outbound number counts as sent.
THEOREM LiveModePersistsEveryMessage ==
  ASSUME PlainMode
  PROVE  Spec => []EveryMessagePersisted
<1>1. StoreInv => EveryMessagePersisted
  BY DEF StoreInv, EveryMessagePersisted
<1>2. TypeInv /\ StoreInv /\ [Next]_vars => StoreInv'
  BY NextStoreInv
<1> QED
  BY <1>1, <1>2, InitStoreInv, TypeInvariance, PTL DEF Spec

-----------------------------------------------------------------------------
(* What holds in every mode and under every fault                          *)

ForgedInv ==
  /\ NothingForged
  /\ pc = "down" => sent = Nothing
  /\ pc = "sent" => (cur.seq # 0 => <<cur.seq, cur.body>> \in ever)

\* The message in flight has been transmitted.
LEMMA TransmitForged ==
  ASSUME NEW b, NEW s, NEW f, NEW next, TypeInv, ForgedInv, Transmit(b, s, f, next)
  PROVE  ForgedInv'
  BY DEF Transmit, disk, ForgedInv, NothingForged

\* Neither memory nor the .resend file ever holds, under some number, a message
\* that was not transmitted under it that day: in every mode, whatever file
\* operation fails and wherever the process dies.
THEOREM NothingIsForged == Spec => []NothingForged
<1> USE ConstantsAssumption
<1>1. Init => ForgedInv
  BY DEF Init, ForgedInv, NothingForged, Nothing
<1>2. ASSUME TypeInv, ForgedInv, [Next]_vars PROVE ForgedInv'
  <2> USE <1>2
  <2>1. CASE SendLogon
    BY <2>1, TransmitForged DEF SendLogon
  <2>2. ASSUME NEW b \in Admin, SendAdmin(b) PROVE ForgedInv'
    BY <2>2, TransmitForged DEF SendAdmin
  <2>3. ASSUME NEW b \in Body, NEW s \in Number \cup {0}, SendScenarioLine(b, s) PROVE ForgedInv'
    BY <2>3, TransmitForged DEF SendScenarioLine
  <2>4. ASSUME NEW b \in Body, NEW s \in Number \cup {0}, SendStep(b, s) PROVE ForgedInv'
    BY <2>4, TransmitForged DEF SendStep
  <2>5. CASE StoreMessage
    <3>1. /\ cur.seq # 0 => <<cur.seq, cur.body>> \in ever
          /\ cur.seq \in Number \cup {0} /\ sent \in Store /\ resend \in Store
          /\ pc' = "save" /\ ever' = ever
      BY <2>5 DEF StoreMessage, ForgedInv, TypeInv, TypeOK, history
    <3>2. \A n \in Number : sent'[n] # NoMessage => <<n, sent'[n]>> \in ever
      BY <2>5, <3>1 DEF StoreMessage, ForgedInv, NothingForged
    <3>3. resend' = resend \/ (cur.seq # 0 /\ resend' = [resend EXCEPT ![cur.seq] = cur.body])
      BY <2>5 DEF StoreMessage, AppendResult
    <3>4. \A n \in Number : resend'[n] # NoMessage => <<n, resend'[n]>> \in ever
      <4>1. \A n \in Number : resend[n] # NoMessage => <<n, resend[n]>> \in ever
        BY DEF ForgedInv, NothingForged
      <4>2. CASE resend' = resend
        BY <4>1, <4>2
      <4>3. CASE cur.seq # 0 /\ resend' = [resend EXCEPT ![cur.seq] = cur.body]
        BY <3>1, <4>1, <4>3
      <4> QED
        BY <3>3, <4>2, <4>3
    <3> QED
      BY <3>1, <3>2, <3>4 DEF ForgedInv, NothingForged
  <2>6. CASE TruncateToken
    BY <2>6 DEF TruncateToken, history, ForgedInv, NothingForged
  <2>7. CASE WriteToken
    <3>1. ever' = ever /\ pc' \notin {"down", "sent"} /\ UNCHANGED <<sent, resend>>
      BY <2>7 DEF WriteToken, BeginNumbering, history, TypeInv, TypeOK
    <3> QED
      BY <3>1 DEF ForgedInv, NothingForged
  <2>8. CASE OpenFails
    <3>1. CASE after = "load"
      BY <2>8, <3>1 DEF OpenFails, Ended, Nothing, disk, history, ForgedInv, NothingForged
    <3>2. CASE after # "load"
      BY <2>8, <3>2 DEF OpenFails, disk, history, ForgedInv, NothingForged, TypeInv, TypeOK
    <3> QED
      BY <3>1, <3>2
  <2>9. CASE WriteFails
    <3>1. ever' = ever /\ pc' \notin {"down", "sent"} /\ UNCHANGED <<sent, resend>>
      BY <2>9 DEF WriteFails, BeginNumbering, disk, history, TypeInv, TypeOK
    <3> QED
      BY <3>1 DEF ForgedInv, NothingForged
  <2>10. CASE ReceiveExpected
    BY <2>10 DEF ReceiveExpected, disk, ForgedInv, NothingForged
  <2>11. ASSUME NEW n \in Number, DetectGap(n) PROVE ForgedInv'
    BY <2>11, TransmitForged DEF DetectGap
  <2>12. CASE AcceptGap
    BY <2>12 DEF AcceptGap, disk, ForgedInv, NothingForged
  <2>13. CASE HandleMessage
    BY <2>13 DEF HandleMessage, disk, ForgedInv, NothingForged
  <2>14. ASSUME NEW n \in NextNumber, HandleSequenceReset(n) PROVE ForgedInv'
    BY <2>14 DEF HandleSequenceReset, disk, ForgedInv, NothingForged
  <2>15. ASSUME NEW r \in BOOLEAN, NEW t \in BOOLEAN, Start(r, t) PROVE ForgedInv'
    BY <2>15 DEF Start, disk, history, ForgedInv, NothingForged
  <2>16. CASE LoadStore
    BY <2>16 DEF LoadStore, disk, history, ForgedInv, NothingForged
  <2>17. CASE Stop
    BY <2>17 DEF Stop, Ended, Nothing, disk, history, ForgedInv, NothingForged
  <2>18. ASSUME NEW o \in NextNumber, NEW i \in NextNumber, EditToken(o, i) PROVE ForgedInv'
    BY <2>18 DEF EditToken, process, ForgedInv, NothingForged
  <2>19. CASE NewDay
    BY <2>19 DEF NewDay, Nothing, process, ForgedInv, NothingForged
  <2>20. CASE UNCHANGED vars
    BY <2>20 DEF vars, process, disk, history, ForgedInv, NothingForged
  <2> QED
    BY <2>1, <2>2, <2>3, <2>4, <2>5, <2>6, <2>7, <2>8, <2>10, <2>11, <2>12, <2>13,
       <2>14, <2>15, <2>16, <2>17, <2>18, <2>19, <2>20, <2>9 DEF Next
<1>3. ForgedInv => NothingForged
  BY DEF ForgedInv
<1> QED
  BY <1>1, <1>2, <1>3, TypeInvariance, PTL DEF Spec

\* The numbers below `in` are settled, and so are those below the gap from the
\* moment its ResendRequest is on the wire.
InboundInv ==
  /\ NoInboundForgotten
  /\ Numbered => first.in..(in - 1) \subseteq settled
  /\ (Numbered /\ after = "accept") => first.in..(gap - 1) \subseteq settled
  /\ pc = "accept" => after = "accept"

\* What a send does to the inbound side: nothing, whatever is being sent.
LEMMA TransmitInbound ==
  ASSUME NEW b, NEW s, NEW f, TypeInv, InboundInv, pc \in {"logon", "ready"},
         Transmit(b, s, f, "ready"), UNCHANGED <<gap, settled>>
  PROVE  InboundInv'
  BY DEF Transmit, disk, InboundInv, NoInboundForgotten, Numbered

\* A restart never expects a number above one it neither received, nor asked
\* for, nor was told to skip: in every mode and under every fault.
THEOREM NoInboundIsForgotten == Spec => []NoInboundForgotten
<1> USE ConstantsAssumption
<1>1. Init => InboundInv
  BY DEF Init, InboundInv, NoInboundForgotten, Numbered, Absent
<1>2. ASSUME TypeInv, InboundInv, [Next]_vars PROVE InboundInv'
  <2> USE <1>2
  <2>0. /\ in \in NextNumber /\ gap \in Number \cup {0} /\ first.in \in NextNumber
        /\ token.in \in NextNumber /\ settled \subseteq Number
    BY DEF TypeInv, TypeOK, Token
  <2>1. CASE SendLogon
    BY <2>1, TransmitInbound DEF SendLogon
  <2>2. ASSUME NEW b \in Admin, SendAdmin(b) PROVE InboundInv'
    BY <2>2, TransmitInbound DEF SendAdmin
  <2>3. ASSUME NEW b \in Body, NEW s \in Number \cup {0}, SendScenarioLine(b, s) PROVE InboundInv'
    BY <2>3, TransmitInbound DEF SendScenarioLine
  <2>4. ASSUME NEW b \in Body, NEW s \in Number \cup {0}, SendStep(b, s) PROVE InboundInv'
    BY <2>4, TransmitInbound DEF SendStep
  <2>5. CASE StoreMessage
    BY <2>5 DEF StoreMessage, history, InboundInv, NoInboundForgotten, Numbered
  <2>6. CASE TruncateToken
    BY <2>6 DEF TruncateToken, Unreadable, history, InboundInv, NoInboundForgotten, Numbered
  <2>7. CASE WriteToken
    <3>1. CASE after = "load"
      BY <2>0, <2>7, <3>1 DEF WriteToken, BeginNumbering, Renumber, Pair, InboundInv, NoInboundForgotten, Numbered
    <3>2. CASE after # "load"
      BY <2>7, <3>2 DEF WriteToken, BeginNumbering, Pair, history, InboundInv, NoInboundForgotten, Numbered
    <3> QED
      BY <3>1, <3>2
  <2>8. CASE OpenFails
    <3>1. CASE after = "load"
      BY <2>8, <3>1 DEF OpenFails, Ended, disk, history, InboundInv, NoInboundForgotten, Numbered
    <3>2. CASE after # "load"
      BY <2>8, <3>2 DEF OpenFails, disk, history, InboundInv, NoInboundForgotten, Numbered
    <3> QED
      BY <3>1, <3>2
  <2>9. CASE WriteFails
    <3>1. CASE after = "load"
      <4>1. token'.kind # "pair"
        BY <2>9, <3>1 DEF WriteFails, disk, TypeInv, ControlInv
      <4>2. first'.in = in /\ in' = in /\ after' = after
        BY <2>9, <3>1 DEF WriteFails, BeginNumbering, Renumber
      <4>3. pc' = "load"
        BY <2>9, <3>1 DEF WriteFails
      <4> QED
        BY <2>0, <3>1, <4>1, <4>2, <4>3 DEF InboundInv, NoInboundForgotten, Numbered
    <3>2. CASE after # "load"
      BY <2>9, <3>2 DEF WriteFails, BeginNumbering, disk, history, InboundInv,
                         NoInboundForgotten, Numbered
    <3> QED
      BY <3>1, <3>2
  <2>10. CASE ReceiveExpected
    BY <2>0, <2>10 DEF ReceiveExpected, disk, InboundInv, NoInboundForgotten, Numbered
  <2>11. ASSUME NEW n \in Number, DetectGap(n) PROVE InboundInv'
    <3>1. /\ Numbered /\ Numbered' /\ n > in
          /\ gap' = n /\ settled' = settled \cup in..(n - 1)
          /\ UNCHANGED <<in, first, token>>
          /\ pc' = "sent"
      BY <2>11 DEF DetectGap, Transmit, disk, Numbered
    <3>2. first'.in..(gap' - 1) \subseteq settled'
      BY <2>0, <3>1 DEF InboundInv
    <3> QED
      BY <2>0, <3>1, <3>2 DEF InboundInv, NoInboundForgotten
  <2>12. CASE AcceptGap
    <3>1. /\ first.in..(gap - 1) \subseteq settled
          /\ in' = gap + 1 /\ settled' = settled \cup {gap}
          /\ pc' = "save" /\ after' = "handle" /\ UNCHANGED <<first, token>>
      BY <2>12 DEF AcceptGap, disk, InboundInv, Numbered
    <3>2. first'.in..(in' - 1) \subseteq settled'
      BY <2>0, <3>1
    <3> QED
      BY <2>0, <3>1, <3>2 DEF InboundInv, NoInboundForgotten
  <2>13. CASE HandleMessage
    BY <2>13 DEF HandleMessage, disk, InboundInv, NoInboundForgotten, Numbered
  <2>14. ASSUME NEW n \in NextNumber, HandleSequenceReset(n) PROVE InboundInv'
    <3>1. /\ Numbered /\ n > in
          /\ in' = n /\ settled' = settled \cup in..(n - 1)
          /\ pc' = "save" /\ after' = "ready" /\ UNCHANGED <<first, token>>
      BY <2>14 DEF HandleSequenceReset, disk, Numbered
    <3>2. first'.in..(in' - 1) \subseteq settled'
      BY <2>0, <3>1 DEF InboundInv
    <3> QED
      BY <2>0, <3>1, <3>2 DEF InboundInv, NoInboundForgotten
  <2>15. ASSUME NEW r \in BOOLEAN, NEW t \in BOOLEAN, Start(r, t) PROVE InboundInv'
    BY <2>15 DEF Start, disk, history, InboundInv, NoInboundForgotten, Numbered
  <2>16. CASE LoadStore
    BY <2>16 DEF LoadStore, disk, history, InboundInv, NoInboundForgotten, Numbered
  <2>17. CASE Stop
    BY <2>17 DEF Stop, Ended, disk, history, InboundInv, NoInboundForgotten, Numbered
  <2>18. ASSUME NEW o \in NextNumber, NEW i \in NextNumber, EditToken(o, i) PROVE InboundInv'
    BY <2>18 DEF EditToken, Renumber, Pair, process, InboundInv, NoInboundForgotten, Numbered
  <2>19. CASE NewDay
    BY <2>19 DEF NewDay, Absent, process, InboundInv, NoInboundForgotten, Numbered
  <2>20. CASE UNCHANGED vars
    BY <2>20 DEF vars, process, disk, history, InboundInv, NoInboundForgotten, Numbered
  <2> QED
    BY <2>1, <2>2, <2>3, <2>4, <2>5, <2>6, <2>7, <2>8, <2>10, <2>11, <2>12, <2>13,
       <2>14, <2>15, <2>16, <2>17, <2>18, <2>19, <2>20, <2>9 DEF Next
<1>3. InboundInv => NoInboundForgotten
  BY DEF InboundInv
<1> QED
  BY <1>1, <1>2, <1>3, TypeInvariance, PTL DEF Spec

=============================================================================
