------------------------- MODULE LiveScenarioProofs -------------------------
(***************************************************************************)
(* Theorems about LiveScenario, for every configuration file, session and  *)
(* scenario.                                                               *)
(*                                                                         *)
(* RunInv ties the configuration of a run to the file; MessageInv says     *)
(* what each message sent carries; OrgInv follows ${ORG_CLRID} through the *)
(* files.                                                                  *)
(***************************************************************************)
EXTENDS LiveScenario, ConfigFileProofs, FiniteSetTheorems

FieldLines == Seq([tag : Nat, value : Texts \cup {OrgClrId, Empty}])

\* From the Logon on, the configuration is the one of the session that was asked for.
RunInv ==
  /\ stage \in {"load", "logon", "answer", "lines", "ended"}
  /\ DOMAIN config = Keys
  /\ stage = "load" => sent = <<>>
  /\ sent # <<>> \/ stage \in {"logon", "answer", "lines"} =>
       Loaded /\ SessionName \in DOMAIN sessions /\ config = sessions[SessionName]
  /\ stage = "lines" => scenario \in Scenarios
  /\ file \in Nat \ {0} /\ line \in Nat \ {0} /\ clock \in Nat
  /\ first \in Nat
  /\ sent \in Seq({sent[m] : m \in DOMAIN sent})
  /\ outbound_seq = first + Len(sent)

\* Where a message refers to the original order of its file.
Refers(msg) == {i \in DOMAIN msg.template : IsOrg(msg.template[i])}

\* Two ClOrdIDs of one message are the same only if one is ${ORG_CLRID}, or there are
\* more than CountMod.
OwnIds(msg) ==
  Cardinality(Fields(msg, 11)) <= CountMod =>
    \A i, j \in Fields(msg, 11) :
      i # j /\ msg.fields[i].value = msg.fields[j].value =>
        IsOrg(msg.template[i]) \/ IsOrg(msg.template[j])

\* A message has the header of the session and its own number, and its ClOrdIDs, but
\* for ${ORG_CLRID}, are made from that number and differ.
MessageOf(msg, number, names) ==
  /\ DOMAIN msg.template = DOMAIN msg.fields
  /\ Fields(msg, 8) # {}
  /\ Carries(msg, 8, names["begin_string"])
  /\ Carries(msg, 49, names["sender_comp_id"])
  /\ Carries(msg, 56, names["target_comp_id"])
  /\ Carries(msg, 34, number)
  /\ \A i \in Fields(msg, 11) :
       IsOrg(msg.template[i]) \/ msg.fields[i].value[3] = number % SeqMod
  /\ OwnIds(msg)

MessageInv ==
  \A m \in DOMAIN sent :
    /\ sent[m].file \in Nat /\ sent[m].file <= file
    /\ MessageOf(sent[m], first + m - 1, config)

\* An identifier that was made for a message of this file.
MadeIn(id, of) ==
  \E m \in DOMAIN sent : sent[m].file = of /\ id[3] = (first + m - 1) % SeqMod

\* The message gives its references this identifier.
Gives(msg, id) == \A i \in Refers(msg) : msg.fields[i].value = id

\* ${ORG_CLRID} has one value per file, made for one of its messages; org is the one
\* of the current file.
OrgInv ==
  /\ org # NoId => org[1] = "CL" /\ MadeIn(org, file)
  /\ \A m \in DOMAIN sent : \A i \in Refers(sent[m]) :
       /\ MadeIn(sent[m].fields[i].value, sent[m].file)
       /\ sent[m].file = file => org # NoId /\ sent[m].fields[i].value = org
  /\ \A m, n \in DOMAIN sent : sent[m].file = sent[n].file =>
       \A i \in Refers(sent[m]), j \in Refers(sent[n]) :
         sent[m].fields[i].value = sent[n].fields[j].value

IInv == ConfigInv /\ RunInv /\ MessageInv /\ OrgInv

-----------------------------------------------------------------------------
(* Numbers modulo SeqMod                                                   *)

\* Two numbers less than K apart are equal if their remainders are.
LEMMA CloseRemainders ==
  ASSUME NEW a \in Nat, NEW b \in Nat, NEW K \in Nat \ {0},
         a % K = b % K, a - b < K, b - a < K
  PROVE  a = b
<1>1. /\ a \div K \in Int /\ b \div K \in Int
      /\ a = K * (a \div K) + (a % K) /\ b = K * (b \div K) + (b % K)
  OBVIOUS
<1> DEFINE q == (a \div K) - (b \div K)
<1>2. q \in Int
  BY <1>1
<1>3. a - b = K * q
  <2>1. K * q = K * (a \div K) - K * (b \div K)
    BY <1>1
  <2> QED
    BY <1>1, <2>1
<1> HIDE DEF q
<1>4. CASE q >= 1
  <2>1. K * q >= K
    BY <1>2, <1>4
  <2> QED
    BY <1>2, <1>3, <2>1
<1>5. CASE q <= -1
  <2>1. K * q <= -K
    BY <1>2, <1>5
  <2> QED
    BY <1>2, <1>3, <2>1
<1>6. CASE q = 0
  BY <1>3, <1>6
<1> QED
  BY <1>2, <1>4, <1>5, <1>6

-----------------------------------------------------------------------------
(* The fields of a message                                                 *)

\* The counters of two generated ClOrdIDs of a line differ, modulo CountMod too as long
\* as there are no more than CountMod.
LEMMA CountersDiffer ==
  ASSUME NEW fields \in FieldLines, NEW i \in DOMAIN fields, NEW j \in DOMAIN fields, i # j,
         fields[i].tag = 11, ~IsOrg(fields[i]), fields[j].tag = 11, ~IsOrg(fields[j]),
         Cardinality({k \in DOMAIN fields : fields[k].tag = 11}) <= CountMod,
         Counter(fields, i) % CountMod = Counter(fields, j) % CountMod
  PROVE  FALSE
<1> DEFINE All == {k \in DOMAIN fields : fields[k].tag = 11}
           Upto(n) == {k \in 1..n : fields[k].tag = 11 /\ ~IsOrg(fields[k])}
<1>1. Len(fields) \in Nat /\ DOMAIN fields = 1..Len(fields)
  BY LenProperties DEF FieldLines
<1>2. IsFiniteSet(All) /\ Cardinality(All) \in Nat /\ Cardinality(All) <= CountMod
  <2>1. IsFiniteSet(1..Len(fields))
    BY <1>1, FS_Interval
  <2>2. IsFiniteSet(All)
    BY <1>1, <2>1, FS_Subset
  <2> QED
    BY <2>2, FS_CardinalityType
<1>3. ASSUME NEW n \in DOMAIN fields, fields[n].tag = 11, ~IsOrg(fields[n])
      PROVE  /\ Counter(fields, n) = Cardinality(Upto(n)) /\ IsFiniteSet(Upto(n))
             /\ Counter(fields, n) \in Nat /\ Counter(fields, n) <= CountMod
             /\ n \in Upto(n) /\ Counter(fields, n) >= 1
  <2>1. Upto(n) \in SUBSET All /\ n \in Upto(n)
    BY <1>1, <1>3
  <2>2. Counter(fields, n) = Cardinality(Upto(n))
    BY <1>3 DEF Counter
  <2> HIDE DEF All, Upto
  <2>3. IsFiniteSet(Upto(n)) /\ Cardinality(Upto(n)) <= Cardinality(All)
    BY <1>2, <2>1, FS_Subset
  <2>4. Cardinality(Upto(n)) \in Nat /\ Cardinality(Upto(n)) # 0
    BY <2>1, <2>3, FS_CardinalityType, FS_EmptySet
  <2> QED
    BY <1>2, <2>1, <2>2, <2>3, <2>4, TemplateAssumption
<1>4. ASSUME NEW a \in {i, j}, NEW b \in {i, j}, a < b
      PROVE  Counter(fields, a) < Counter(fields, b)
  <2>1. Upto(a) \in SUBSET Upto(b) /\ b \notin Upto(a)
    BY <1>1, <1>4
  <2>2. /\ Counter(fields, a) = Cardinality(Upto(a)) /\ Counter(fields, b) = Cardinality(Upto(b))
        /\ IsFiniteSet(Upto(b)) /\ b \in Upto(b)
    BY <1>3
  <2> HIDE DEF Upto
  <2>3. Cardinality(Upto(a)) < Cardinality(Upto(b))
    <3>1. /\ Cardinality(Upto(a)) <= Cardinality(Upto(b)) /\ IsFiniteSet(Upto(a))
          /\ Cardinality(Upto(a)) # Cardinality(Upto(b))
      BY <2>1, <2>2, FS_Subset
    <3>2. Cardinality(Upto(a)) \in Nat /\ Cardinality(Upto(b)) \in Nat
      BY <2>2, <3>1, FS_CardinalityType
    <3> QED
      BY <3>1, <3>2
  <2> QED
    BY <2>2, <2>3
<1>5. i \in Nat /\ j \in Nat
  BY <1>1
<1>6. Counter(fields, i) # Counter(fields, j)
  <2>1. i < j \/ j < i
    BY <1>5
  <2>2. Counter(fields, i) \in Nat /\ Counter(fields, j) \in Nat
    BY <1>3
  <2> QED
    BY <1>4, <2>1, <2>2
<1>7. /\ Counter(fields, i) \in Nat /\ Counter(fields, j) \in Nat /\ CountMod \in Nat \ {0}
      /\ Counter(fields, i) - Counter(fields, j) < CountMod
      /\ Counter(fields, j) - Counter(fields, i) < CountMod
  <2>1. /\ Counter(fields, i) \in Nat /\ Counter(fields, i) <= CountMod /\ Counter(fields, i) >= 1
        /\ Counter(fields, j) \in Nat /\ Counter(fields, j) <= CountMod /\ Counter(fields, j) >= 1
    BY <1>3
  <2> QED
    BY <2>1, TemplateAssumption
<1> QED
  BY <1>6, <1>7, CloseRemainders

\* A message built from a scenario line.
LEMMA LineMessage ==
  ASSUME NEW fields \in FieldLines, NEW msg, NEW rt, rt.msg_seq_num \in Nat,
         rt.begin_string = config["begin_string"],
         rt.sender_comp_id = config["sender_comp_id"],
         rt.target_comp_id = config["target_comp_id"],
         msg.fields = build_from_fields(fix_template_apply(rt, fields)),
         msg.template = build_from_fields(fields)
  PROVE  /\ MessageOf(msg, rt.msg_seq_num, config)
         /\ Gives(msg, NewOrg(rt, fields))
         /\ Refers(msg) # {} => \E i \in DOMAIN fields : IsOrg(fields[i])
<1> DEFINE applied == fix_template_apply(rt, fields)
           D == {0} \cup {j \in DOMAIN fields : fields[j].tag \notin {8, 9, 10}}
<1>1. /\ Len(fields) \in Nat /\ DOMAIN fields = 1..Len(fields)
      /\ \A i \in DOMAIN fields : fields[i] \in [tag : Nat, value : Texts \cup {OrgClrId, Empty}]
  BY LenProperties, ElementOfSeq DEF FieldLines
<1>2. /\ DOMAIN applied = DOMAIN fields
      /\ \A i \in DOMAIN fields : applied[i].tag = fields[i].tag
      /\ \A i \in DOMAIN fields : applied[i].value = Value(rt, fields, i)
  BY DEF fix_template_apply
<1>3. /\ DOMAIN msg.fields = D /\ DOMAIN msg.template = D
      /\ msg.fields[0] = Field(8, config["begin_string"])
      /\ msg.template[0] = Field(8, config["begin_string"])
      /\ \A i \in D \ {0} : msg.fields[i] = applied[i] /\ msg.template[i] = fields[i]
  <2>1. {0} \cup {j \in DOMAIN applied : applied[j].tag \notin {8, 9, 10}} = D
    BY <1>2
  <2> HIDE DEF applied
  <2>2. msg.fields = [i \in D |-> IF i = 0 THEN Field(8, config["begin_string"]) ELSE applied[i]]
    BY <2>1, Zenon DEF build_from_fields, applied
  <2>3. msg.template = [i \in D |-> IF i = 0 THEN Field(8, config["begin_string"]) ELSE fields[i]]
    BY Zenon DEF build_from_fields
  <2>4. 0 \in D
    OBVIOUS
  <2> HIDE DEF D
  <2> QED
    BY <2>2, <2>3, <2>4
<1>4. /\ msg.fields[0].tag = 8 /\ msg.fields[0].value = config["begin_string"]
      /\ msg.template[0].tag = 8
  BY <1>3 DEF Field
<1>5. \A i \in D \ {0} : /\ i \in DOMAIN fields /\ i \in Nat /\ fields[i].tag \notin {8, 9, 10}
                         /\ msg.fields[i].tag = fields[i].tag
                         /\ msg.fields[i].value = Value(rt, fields, i)
                         /\ msg.template[i] = fields[i]
  BY <1>1, <1>2, <1>3
<1>15. 0 \in D
  OBVIOUS
<1> HIDE DEF D, applied
<1>6. Fields(msg, 8) # {} /\ Carries(msg, 8, config["begin_string"])
  <2>1. Fields(msg, 8) = {0}
    BY <1>3, <1>4, <1>5, <1>15 DEF Fields
  <2>2. {i \in DOMAIN msg.template : msg.template[i].tag = 8} = {0}
    BY <1>3, <1>4, <1>5, <1>15
  <2>3. Min({0}) = 0
    BY MinIs
  <2> QED
    BY <1>4, <2>1, <2>2, <2>3 DEF Carries
<1>7. ASSUME NEW t \in {49, 56, 34}
      PROVE  Carries(msg, t, Header(rt)[t])
  <2>9. Fields(msg, t) = {i \in DOMAIN msg.template : msg.template[i].tag = t}
    BY <1>3, <1>4, <1>5, <1>15 DEF Fields
  <2> SUFFICES ASSUME Fields(msg, t) # {}
               PROVE  msg.fields[Min(Fields(msg, t))].value = Header(rt)[t]
    BY <2>9, Zenon DEF Carries
  <2> DEFINE k == Min(Fields(msg, t))
  <2>1. \A i : i \in Fields(msg, t) <=> i \in D \ {0} /\ fields[i].tag = t
    BY <1>3, <1>4, <1>5 DEF Fields
  <2>2. Fields(msg, t) \in SUBSET Nat
    BY <1>5, <2>1
  <2>3. k \in Fields(msg, t) /\ \A y \in Fields(msg, t) : k <= y
    BY <2>2, MinOf
  <2> HIDE DEF k
  <2>4. \A j \in 1..(k - 1) : fields[j].tag # t
    <3> SUFFICES ASSUME NEW j \in 1..(k - 1), fields[j].tag = t PROVE FALSE
      OBVIOUS
    <3>1. k \in Nat /\ k \in DOMAIN fields
      BY <1>5, <2>1, <2>3
    <3>2. j \in DOMAIN fields /\ j \in Nat /\ j # 0 /\ j < k
      BY <1>1, <3>1
    <3>3. j \in D
      BY <3>2 DEF D
    <3> QED
      BY <2>1, <2>3, <3>1, <3>2, <3>3
  <2>5. fields[k].tag = t /\ k \in D \ {0}
    BY <2>1, <2>3
  <2>6. Overwritten(fields, k)
    BY <2>4, <2>5 DEF Overwritten
  <2>7. fields[k].tag # 60 /\ fields[k].tag # 11 /\ fields[k].tag # 548 /\ ~IsOrg(fields[k])
    BY <2>5 DEF IsOrg
  <2>8. Value(rt, fields, k) = Header(rt)[fields[k].tag]
    BY <2>6, <2>7, Zenon DEF Value
  <2> QED
    BY <1>5, <2>5, <2>8, Zenon DEF k
<1>8. /\ Header(rt)[49] = config["sender_comp_id"] /\ Header(rt)[56] = config["target_comp_id"]
      /\ Header(rt)[34] = rt.msg_seq_num
  BY DEF Header
<1>9. ASSUME NEW i \in D \ {0}, fields[i].tag \in {11, 41}
      PROVE  /\ ~Overwritten(fields, i)
             /\ IsOrg(fields[i]) => Value(rt, fields, i) = NewOrg(rt, fields)
             /\ fields[i].tag = 11 /\ ~IsOrg(fields[i]) =>
                  Value(rt, fields, i) = make_unique_id("CL", rt.sending_time_utc, rt.msg_seq_num, Counter(fields, i))
  <2>1. ~Overwritten(fields, i) /\ fields[i].tag # 60
    BY <1>9 DEF Overwritten
  <2>2. fields[i].tag = 11 => fields[i].tag # 548
    OBVIOUS
  <2> QED
    BY <1>9, <2>1, <2>2 DEF Value
<1>10. \A i \in Fields(msg, 11) : IsOrg(msg.template[i]) \/ msg.fields[i].value[3] = rt.msg_seq_num % SeqMod
  <2> SUFFICES ASSUME NEW i \in Fields(msg, 11), ~IsOrg(msg.template[i])
               PROVE  msg.fields[i].value[3] = rt.msg_seq_num % SeqMod
    OBVIOUS
  <2>1. i \in D \ {0} /\ fields[i].tag = 11
    BY <1>3, <1>4, <1>5 DEF Fields
  <2>2. msg.fields[i].value = make_unique_id("CL", rt.sending_time_utc, rt.msg_seq_num, Counter(fields, i))
    BY <1>5, <1>9, <2>1
  <2> QED
    BY <2>2 DEF make_unique_id
<1>11. \A i \in Refers(msg) : i \in D \ {0} /\ IsOrg(fields[i]) /\ fields[i].tag \in {11, 41}
  <2> SUFFICES ASSUME NEW i \in D, IsOrg(msg.template[i])
               PROVE  i # 0 /\ IsOrg(fields[i]) /\ fields[i].tag \in {11, 41}
    BY <1>3 DEF Refers
  <2>1. msg.template[i].tag \in {11, 41}
    BY DEF IsOrg
  <2>2. i # 0
    BY <1>4, <2>1
  <2> QED
    BY <1>5, <2>1, <2>2
<1>12. Gives(msg, NewOrg(rt, fields))
  BY <1>5, <1>9, <1>11 DEF Gives
<1>13. Refers(msg) # {} => \E i \in DOMAIN fields : IsOrg(fields[i])
  BY <1>5, <1>11
<1>16. OwnIds(msg)
  <2>1. ASSUME NEW i \in Fields(msg, 11), ~IsOrg(msg.template[i])
        PROVE  /\ i \in DOMAIN fields /\ fields[i].tag = 11 /\ ~IsOrg(fields[i])
               /\ msg.fields[i].value[4] = Counter(fields, i) % CountMod
    <3>1. i \in D \ {0} /\ fields[i].tag = 11
      BY <1>3, <1>4, <1>5 DEF Fields
    <3>2. i \in DOMAIN fields /\ ~IsOrg(fields[i])
      BY <1>5, <2>1, <3>1
    <3>3. msg.fields[i].value = make_unique_id("CL", rt.sending_time_utc, rt.msg_seq_num, Counter(fields, i))
      BY <1>5, <1>9, <3>1, <3>2
    <3> QED
      BY <3>1, <3>2, <3>3 DEF make_unique_id
  <2>2. Fields(msg, 11) = {i \in DOMAIN fields : fields[i].tag = 11}
    <3>1. \A i \in DOMAIN fields : fields[i].tag = 11 => i \in D \ {0}
      BY <1>1 DEF D
    <3> QED
      BY <1>3, <1>4, <1>5, <3>1 DEF Fields
  <2> SUFFICES ASSUME Cardinality(Fields(msg, 11)) <= CountMod,
                      NEW i \in Fields(msg, 11), NEW j \in Fields(msg, 11), i # j,
                      msg.fields[i].value = msg.fields[j].value,
                      ~IsOrg(msg.template[i]), ~IsOrg(msg.template[j])
               PROVE  FALSE
    BY DEF OwnIds
  <2>3. Counter(fields, i) % CountMod = Counter(fields, j) % CountMod
    BY <2>1
  <2> QED
    BY <2>1, <2>2, <2>3, CountersDiffer
<1>14. MessageOf(msg, rt.msg_seq_num, config)
  <2>1. /\ Carries(msg, 49, config["sender_comp_id"])
        /\ Carries(msg, 56, config["target_comp_id"])
        /\ Carries(msg, 34, rt.msg_seq_num)
    BY <1>7, <1>8
  <2> QED
    BY <1>3, <1>6, <1>10, <1>16, <2>1 DEF MessageOf
<1> QED
  BY <1>12, <1>13, <1>14

\* A message that the session builds itself.
LEMMA BuiltMessage ==
  ASSUME NEW msg, NEW time, NEW body, body \in Seq({body[i] : i \in DOMAIN body}),
         \A i \in DOMAIN body : body[i].tag \notin {8, 34, 49, 56, 11, 41},
         msg.fields = Message(time, body), msg.template = Message(time, body)
  PROVE  MessageOf(msg, outbound_seq, config) /\ Refers(msg) = {}
<1> DEFINE head ==
      <<Field(8, config["begin_string"]), Field(34, outbound_seq), Field(49, config["sender_comp_id"]),
        Field(56, config["target_comp_id"]), Field(52, time)>>
           E == {head[i] : i \in 1..5} \cup {body[i] : i \in DOMAIN body}
           all == Message(time, body)
<1>1. /\ head[1] = Field(8, config["begin_string"]) /\ head[2] = Field(34, outbound_seq)
      /\ head[3] = Field(49, config["sender_comp_id"]) /\ head[4] = Field(56, config["target_comp_id"])
      /\ head[5] = Field(52, time) /\ Len(head) = 5
  OBVIOUS
<1>2. head \in Seq(E) /\ body \in Seq(E)
  <2>1. head \in Seq(E)
    OBVIOUS
  <2>2. body \in Seq(E)
    <3> HIDE DEF head
    <3> QED
      BY SeqMonotonic
  <2> QED
    BY <2>1, <2>2
<1>3. all = head \o body
  BY Zenon DEF Message
<1> HIDE DEF head, all, E
<1>4. /\ Len(body) \in Nat /\ DOMAIN body = 1..Len(body)
      /\ DOMAIN all = 1..5 + Len(body)
      /\ \A i \in DOMAIN all : all[i] = IF i <= 5 THEN head[i] ELSE body[i - 5]
  <2>1. /\ all \in Seq(E) /\ Len(all) = Len(head) + Len(body)
        /\ \A i \in 1..Len(head) + Len(body) : all[i] = IF i <= Len(head) THEN head[i] ELSE body[i - Len(head)]
    BY <1>2, <1>3, ConcatProperties, Zenon
  <2>2. Len(body) \in Nat /\ DOMAIN body = 1..Len(body) /\ DOMAIN all = 1..Len(all)
    BY <1>2, <2>1, LenProperties
  <2> QED
    BY <1>1, <2>1, <2>2
<1>5. \A i \in DOMAIN all : /\ i \in Nat
                            /\ i = 1 \/ i = 2 \/ i = 3 \/ i = 4 \/ i = 5 \/ i - 5 \in DOMAIN body
                            /\ i > 5 => all[i] = body[i - 5] /\ i - 5 \in DOMAIN body
  BY <1>4
<1>6. /\ 1 \in DOMAIN all /\ 2 \in DOMAIN all /\ 3 \in DOMAIN all /\ 4 \in DOMAIN all /\ 5 \in DOMAIN all
      /\ all[1].tag = 8 /\ all[2].tag = 34 /\ all[3].tag = 49 /\ all[4].tag = 56 /\ all[5].tag = 52
      /\ all[1].value = config["begin_string"] /\ all[2].value = outbound_seq
      /\ all[3].value = config["sender_comp_id"] /\ all[4].value = config["target_comp_id"]
  <2>1. /\ 1 \in DOMAIN all /\ 2 \in DOMAIN all /\ 3 \in DOMAIN all /\ 4 \in DOMAIN all /\ 5 \in DOMAIN all
    BY <1>4
  <2>2. /\ all[1] = head[1] /\ all[2] = head[2] /\ all[3] = head[3] /\ all[4] = head[4] /\ all[5] = head[5]
    BY <1>4, <2>1
  <2>3. \A t, value : Field(t, value).tag = t /\ Field(t, value).value = value
    BY DEF Field
  <2> QED
    BY <1>1, <2>1, <2>2, <2>3
<1>7. /\ Fields(msg, 8) = {1} /\ Fields(msg, 34) = {2} /\ Fields(msg, 49) = {3}
      /\ Fields(msg, 56) = {4} /\ Fields(msg, 11) = {}
      /\ \A i \in DOMAIN all : all[i].tag \notin {11, 41}
  <2>1. msg.fields = all
    BY DEF all
  <2>2. ASSUME NEW i \in DOMAIN all
        PROVE  /\ all[i].tag = 8 => i = 1
               /\ all[i].tag = 34 => i = 2
               /\ all[i].tag = 49 => i = 3
               /\ all[i].tag = 56 => i = 4
               /\ all[i].tag \notin {11, 41}
    <3>1. CASE i \in Nat /\ i > 5
      BY <1>5, <3>1
    <3>2. CASE i = 1 \/ i = 2 \/ i = 3 \/ i = 4 \/ i = 5
      BY <1>6, <3>2
    <3> QED
      BY <1>4, <3>1, <3>2
  <2> QED
    BY <1>6, <2>1, <2>2 DEF Fields
<1>8. ASSUME NEW t, NEW n \in Nat, NEW value, Fields(msg, t) = {n}, all[n].value = value
      PROVE  Carries(msg, t, value)
  <2>1. msg.fields = all /\ msg.template = all
    BY DEF all
  <2>2. Fields(msg, t) = {i \in DOMAIN msg.template : msg.template[i].tag = t}
    BY <2>1, Zenon DEF Fields
  <2>3. Min({n}) = n
    BY MinIs
  <2> QED
    BY <1>8, <2>1, <2>2, <2>3 DEF Carries
<1>9. /\ Carries(msg, 8, config["begin_string"]) /\ Carries(msg, 34, outbound_seq)
      /\ Carries(msg, 49, config["sender_comp_id"]) /\ Carries(msg, 56, config["target_comp_id"])
  <2>1. Carries(msg, 8, config["begin_string"])
    BY <1>6, <1>7, <1>8
  <2>2. Carries(msg, 34, outbound_seq)
    BY <1>6, <1>7, <1>8
  <2>3. Carries(msg, 49, config["sender_comp_id"])
    BY <1>6, <1>7, <1>8
  <2>4. Carries(msg, 56, config["target_comp_id"])
    BY <1>6, <1>7, <1>8
  <2> QED
    BY <2>1, <2>2, <2>3, <2>4
<1>10. Refers(msg) = {}
  BY <1>7 DEF Refers, IsOrg, all
<1>11. OwnIds(msg)
  BY <1>7 DEF OwnIds
<1> QED
  BY <1>7, <1>9, <1>10, <1>11 DEF MessageOf

-----------------------------------------------------------------------------
(* One message more                                                        *)

\* Appending to a sequence, whatever its elements are.
LEMMA AppendAny ==
  ASSUME NEW s, s \in Seq({s[m] : m \in DOMAIN s}), NEW e, NEW t, t = Append(s, e)
  PROVE  /\ Len(s) \in Nat /\ DOMAIN s = 1..Len(s)
         /\ Len(t) = Len(s) + 1 /\ DOMAIN t = 1..Len(s) + 1
         /\ \A m \in DOMAIN s : m \in DOMAIN t /\ t[m] = s[m]
         /\ t[Len(s) + 1] = e
         /\ t \in Seq({t[m] : m \in DOMAIN t})
<1> DEFINE E == {s[m] : m \in DOMAIN s} \cup {e}
<1>1. s \in Seq(E)
  BY SeqMonotonic
<1> HIDE DEF E
<1>2. e \in E
  BY DEF E
<1>3. Len(s) \in Nat /\ DOMAIN s = 1..Len(s)
  BY <1>1, LenProperties
<1>4. /\ t \in Seq(E) /\ Len(t) = Len(s) + 1
      /\ \A m \in 1..Len(s) : t[m] = s[m]
      /\ t[Len(s) + 1] = e
  BY <1>1, <1>2, AppendProperties
<1>5. DOMAIN t = 1..Len(s) + 1
  BY <1>4, LenProperties
<1>6. t \in Seq({t[m] : m \in DOMAIN t})
  <2>1. t \in [1..Len(t) -> E]
    BY <1>4, LenProperties
  <2> DEFINE V == {t[m] : m \in DOMAIN t}
  <2>2. t \in [1..Len(t) -> V]
    BY <1>4, <1>5, <2>1
  <2>3. Len(t) \in Nat
    BY <1>3, <1>4
  <2> HIDE DEF V
  <2>4. Seq(V) = UNION {[1..n -> V] : n \in Nat}
    BY SeqDef, Zenon
  <2>5. [1..Len(t) -> V] \in {[1..n -> V] : n \in Nat}
    BY <2>3, Zenon
  <2>6. t \in Seq(V)
    BY <2>2, <2>4, <2>5, Zenon
  <2> QED
    BY <2>6 DEF V
<1> QED
  BY <1>3, <1>4, <1>5, <1>6

\* A message with its number and the file's identifier keeps the invariant.
LEMMA SendInv ==
  ASSUME RunInv, MessageInv, OrgInv, NEW e, sent' = Append(sent, e),
         UNCHANGED <<config, file, first>>,
         e.file = file, MessageOf(e, outbound_seq, config), Gives(e, org'),
         Refers(e) # {} => org' # NoId,
         \/ org' = org
         \/ org = NoId /\ org'[1] = "CL" /\ org'[3] = outbound_seq % SeqMod
  PROVE  /\ Len(sent') = Len(sent) + 1
         /\ sent' \in Seq({sent'[m] : m \in DOMAIN sent'})
         /\ MessageInv' /\ OrgInv'
<1> DEFINE L == Len(sent) + 1
<1>1. /\ Len(sent) \in Nat /\ DOMAIN sent = 1..Len(sent)
      /\ Len(sent') = Len(sent) + 1 /\ DOMAIN sent' = 1..L
      /\ \A m \in DOMAIN sent : m \in DOMAIN sent' /\ sent'[m] = sent[m]
      /\ sent'[L] = e
      /\ sent' \in Seq({sent'[m] : m \in DOMAIN sent'})
  <2>1. sent \in Seq({sent[m] : m \in DOMAIN sent})
    BY DEF RunInv
  <2> QED
    BY <2>1, AppendAny
<1>2. /\ L \in Nat /\ L \in DOMAIN sent'
      /\ \A m \in DOMAIN sent' : m = L \/ m \in DOMAIN sent
      /\ outbound_seq = first + L - 1 /\ first \in Nat
  <2>1. outbound_seq = first + Len(sent) /\ first \in Nat
    BY DEF RunInv
  <2> QED
    BY <1>1, <2>1
<1> HIDE DEF L
<1>3. MessageInv'
  <2>1. \A m \in DOMAIN sent' : /\ sent'[m].file \in Nat /\ sent'[m].file <= file
                                /\ MessageOf(sent'[m], first + m - 1, config)
    <3> SUFFICES ASSUME NEW m \in DOMAIN sent'
                 PROVE  /\ sent'[m].file \in Nat /\ sent'[m].file <= file
                        /\ MessageOf(sent'[m], first + m - 1, config)
      OBVIOUS
    <3>1. CASE m = L
      <4>1. file \in Nat /\ file <= file
        BY DEF RunInv
      <4> QED
        BY <1>1, <1>2, <3>1, <4>1
    <3>2. CASE m \in DOMAIN sent
      BY <1>1, <3>2, Zenon DEF MessageInv
    <3> QED
      BY <1>2, <3>1, <3>2
  <2> QED
    BY <2>1 DEF MessageInv
<1>4. ASSUME NEW id, NEW of, MadeIn(id, of) PROVE MadeIn(id, of)'
  <2>1. PICK m \in DOMAIN sent : sent[m].file = of /\ id[3] = (first + m - 1) % SeqMod
    BY <1>4 DEF MadeIn
  <2>2. m \in DOMAIN sent' /\ sent'[m].file = of
    BY <1>1, <2>1
  <2> QED
    BY <2>1, <2>2, Zenon DEF MadeIn
<1>5. org' # NoId => org'[1] = "CL" /\ \E m \in DOMAIN sent' : sent'[m].file = file /\ org'[3] = (first + m - 1) % SeqMod
  <2>1. CASE org' = org
    <3>1. ASSUME org' # NoId PROVE org'[1] = "CL" /\ MadeIn(org, file)
      BY <2>1, <3>1 DEF OrgInv
    <3> QED
      BY <1>1, <2>1, <3>1, Zenon DEF MadeIn
  <2>2. CASE org = NoId /\ org'[1] = "CL" /\ org'[3] = outbound_seq % SeqMod
    BY <1>1, <1>2, <2>2
  <2> QED
    BY <2>1, <2>2
<1>6. ASSUME NEW m \in DOMAIN sent', NEW i \in Refers(sent'[m])
      PROVE  /\ \E n \in DOMAIN sent' : /\ sent'[n].file = sent'[m].file
                                        /\ sent'[m].fields[i].value[3] = (first + n - 1) % SeqMod
             /\ sent'[m].file = file => org' # NoId /\ sent'[m].fields[i].value = org'
  <2>1. CASE m = L
    <3>1. sent'[m] = e /\ org' # NoId /\ e.fields[i].value = org'
      BY <1>1, <1>6, <2>1 DEF Gives
    <3> QED
      BY <1>5, <3>1
  <2>2. CASE m \in DOMAIN sent
    <3>1. /\ sent'[m] = sent[m] /\ MadeIn(sent[m].fields[i].value, sent[m].file)
          /\ sent[m].file = file => org # NoId /\ sent[m].fields[i].value = org
      BY <1>1, <1>6, <2>2 DEF OrgInv
    <3> QED
      BY <1>1, <3>1 DEF MadeIn
  <2> QED
    BY <1>2, <2>1, <2>2
<1>7. ASSUME NEW m \in DOMAIN sent', NEW n \in DOMAIN sent', sent'[m].file = sent'[n].file,
             NEW i \in Refers(sent'[m]), NEW j \in Refers(sent'[n])
      PROVE  sent'[m].fields[i].value = sent'[n].fields[j].value
  <2>1. CASE m \in DOMAIN sent /\ n \in DOMAIN sent
    BY <1>1, <1>7, <2>1 DEF OrgInv
  <2>2. CASE m = L \/ n = L
    <3>1. sent'[m].file = file /\ sent'[n].file = file
      BY <1>1, <1>7, <2>2
    <3>2. sent'[m].fields[i].value = org'
      BY <1>6, <3>1
    <3>3. sent'[n].fields[j].value = org'
      BY <1>6, <3>1
    <3> QED
      BY <3>2, <3>3
  <2> QED
    BY <1>2, <2>1, <2>2
<1>8. OrgInv'
  <2>1. \A msg : Refers(msg)' = Refers(msg)
    BY DEF Refers
  <2>2. (org # NoId => org[1] = "CL" /\ MadeIn(org, file))'
    BY <1>5, Zenon DEF MadeIn
  <2>3. (\A m \in DOMAIN sent : \A i \in Refers(sent[m]) :
           /\ MadeIn(sent[m].fields[i].value, sent[m].file)
           /\ sent[m].file = file => org # NoId /\ sent[m].fields[i].value = org)'
    BY <1>6, Zenon DEF MadeIn, Refers
  <2>4. (\A m, n \in DOMAIN sent : sent[m].file = sent[n].file =>
           \A i \in Refers(sent[m]), j \in Refers(sent[n]) :
             sent[m].fields[i].value = sent[n].fields[j].value)'
    BY <1>7, Zenon DEF Refers
  <2> QED
    BY <2>2, <2>3, <2>4 DEF OrgInv
<1> QED
  BY <1>1, <1>3, <1>8

-----------------------------------------------------------------------------
(* The steps                                                               *)

\* An identifier is a prefix and three numbers.
LEMMA MadeIsNoId ==
  ASSUME NEW time \in Nat, NEW seq \in Nat
  PROVE  make_unique_id("CL", time, seq, 1) # NoId
<1>1. time % TimeMod \in Nat /\ seq % SeqMod \in Nat /\ 1 % CountMod \in Nat
  BY TemplateAssumption
<1> QED
  BY <1>1, TemplateAssumption DEF make_unique_id

\* While nothing is sent, messages and identifiers stay what they are.
LEMMA SameSent ==
  ASSUME UNCHANGED <<sent, first, config>>
  PROVE  /\ UNCHANGED file => MessageInv' = MessageInv
         /\ UNCHANGED <<file, org>> => OrgInv' = OrgInv
         /\ \A id, of : MadeIn(id, of)' = MadeIn(id, of)
<1>1. UNCHANGED file => MessageInv' = MessageInv
  BY DEF MessageInv
<1>2. \A id, of : MadeIn(id, of)' = MadeIn(id, of)
  BY DEF MadeIn
<1>3. UNCHANGED <<file, org>> => OrgInv' = OrgInv
  BY DEF OrgInv, MadeIn
<1> QED
  BY <1>1, <1>2, <1>3

\* While nothing is read, the sections stay what they are.
LEMMA SameConfig ==
  ASSUME UNCHANGED configVars
  PROVE  ConfigInv' = ConfigInv
<1>1. UNCHANGED <<config_file, next, section_name, defaults, sessions>>
  BY DEF configVars
<1>2. \A s : Before(s)' = Before(s) /\ Above(s)' = Above(s)
  BY <1>1, SameFile DEF Before
<1>3. SectionAt(next - 1)' = SectionAt(next - 1) /\ SectionNames' = SectionNames
  BY <1>1, Zenon DEF SectionNames, SectionAt
<1>4. Says(defaults, Before("DEFAULT"), {})' <=> Says(defaults, Before("DEFAULT"), {})
  <2>1. \A k : ValueOf(Before("DEFAULT"), {}, k)' = ValueOf(Before("DEFAULT"), {}, k)
    BY <1>1, <1>2, Zenon DEF ValueOf, Last, Of
  <2> QED
    BY <1>1, <2>1, Zenon DEF Says
<1>5. \A s : Says(sessions[s], Before(s), Above(s))' <=> Says(sessions[s], Before(s), Above(s))
  <2>1. \A s, k : ValueOf(Before(s), Above(s), k)' = ValueOf(Before(s), Above(s), k)
    BY <1>1, <1>2, Zenon DEF ValueOf, Last, Of
  <2> QED
    BY <1>1, <2>1, Zenon DEF Says
<1> QED
  BY <1>1, <1>2, <1>3, <1>4, <1>5 DEF ConfigInv

\* At the start.
LEMMA LiveInit == Init => IInv
<1> SUFFICES ASSUME Init PROVE IInv
  OBVIOUS
<1>1. ConfigInv
  BY ConfigInitInv DEF Init, ConfigInit
<1>2. sent = <<>> /\ org = NoId /\ DOMAIN sent = {} /\ Len(sent) = 0
  BY DEF Init
<1>3. sent \in Seq({sent[m] : m \in DOMAIN sent})
  BY <1>2, EmptySeq
<1>4. RunInv
  BY <1>2, <1>3, LiveAssumption DEF RunInv, Init, SessionConfig
<1>5. MessageInv /\ OrgInv
  BY <1>2 DEF MessageInv, OrgInv
<1> QED
  BY <1>1, <1>4, <1>5 DEF IInv

\* A message that the session builds itself is sent.
LEMMA BuiltInv ==
  ASSUME RunInv, MessageInv, OrgInv, NEW time, NEW body,
         body \in Seq({body[i] : i \in DOMAIN body}),
         \A i \in DOMAIN body : body[i].tag \notin {8, 34, 49, 56, 11, 41},
         Send(Message(time, body), Message(time, body)),
         UNCHANGED <<config, file, org, first>>
  PROVE  /\ (sent \in Seq({sent[m] : m \in DOMAIN sent}))'
         /\ (outbound_seq = first + Len(sent))'
         /\ MessageInv' /\ OrgInv'
<1> DEFINE built == Message(time, body)
           e == [file |-> file, fields |-> built, template |-> built]
<1>1. /\ sent' = Append(sent, e) /\ outbound_seq' = outbound_seq + 1
      /\ e.file = file /\ e.fields = built /\ e.template = built
  BY DEF Send, NumberTaken
<1> HIDE DEF e
<1>2. MessageOf(e, outbound_seq, config) /\ Refers(e) = {}
  BY <1>1, BuiltMessage
<1>3. Gives(e, org')
  BY <1>2 DEF Gives
<1> HIDE DEF built
<1>4. /\ Len(sent') = Len(sent) + 1 /\ sent' \in Seq({sent'[m] : m \in DOMAIN sent'})
      /\ MessageInv' /\ OrgInv'
  BY <1>1, <1>2, <1>3, SendInv
<1>5. Len(sent) \in Nat
  BY AppendAny DEF RunInv
<1>6. (outbound_seq = first + Len(sent))'
  BY <1>1, <1>4, <1>5 DEF RunInv
<1> QED
  BY <1>4, <1>6

\* The Logon.
LEMMA SendLogonInv ==
  ASSUME IInv, SendLogon
  PROVE  IInv'
<1>1. /\ stage = "logon" /\ UNCHANGED <<configVars, config, scenario, file, line, org, clock, first>>
      /\ ConfigInv /\ RunInv /\ MessageInv /\ OrgInv
  BY DEF SendLogon, IInv
<1>2. ConfigInv'
  BY <1>1, SameConfig
<1>3. UNCHANGED <<sessions, next, config_file>>
  BY <1>1 DEF configVars
<1>4. CASE Send(Logon, Logon) /\ stage' = "answer"
  <2>1. PICK last : last = IF config["reset_on_logon"] THEN <<Field(141, Yes)>> ELSE <<>>
    OBVIOUS
  <2> DEFINE body == <<Field(108, config["heartbeat_interval"])>> \o last
  <2>2. body \in Seq({body[i] : i \in DOMAIN body}) /\ \A i \in DOMAIN body : body[i].tag \in {108, 141}
    <3>1. last = <<Field(141, Yes)>> \/ last = <<>>
      BY <2>1
    <3>2. CASE last = <<Field(141, Yes)>>
      BY <3>2 DEF Field
    <3>3. CASE last = <<>>
      BY <3>3 DEF Field
    <3> QED
      BY <3>1, <3>2, <3>3
  <2>3. Logon = Message(clock, body)
    BY <2>1, Zenon DEF Logon
  <2> HIDE DEF body
  <2>4. Send(Message(clock, body), Message(clock, body))
    BY <1>4, <2>3
  <2>5. \A i \in DOMAIN body : body[i].tag \notin {8, 34, 49, 56, 11, 41}
    BY <2>2
  <2>6. /\ (sent \in Seq({sent[m] : m \in DOMAIN sent}))'
        /\ (outbound_seq = first + Len(sent))'
        /\ MessageInv' /\ OrgInv'
    BY <1>1, <2>2, <2>4, <2>5, BuiltInv
  <2>7. RunInv'
    BY <1>1, <1>3, <1>4, <2>6 DEF RunInv, Loaded
  <2> QED
    BY <1>2, <2>6, <2>7 DEF IInv
<1>5. CASE End /\ UNCHANGED <<outbound_seq, sent>>
  <2>1. RunInv'
    BY <1>1, <1>3, <1>5 DEF RunInv, End, Loaded
  <2>2. MessageInv' /\ OrgInv'
    BY <1>1, <1>5, SameSent
  <2> QED
    BY <1>2, <2>1, <2>2 DEF IInv
<1> QED
  BY <1>4, <1>5 DEF SendLogon

\* A message that is answered while the Logon is not.
LEMMA SendAnswerInv ==
  ASSUME IInv, SendAnswer
  PROVE  IInv'
<1>1. /\ stage = "answer" /\ UNCHANGED <<configVars, stage, config, scenario, file, line, org, first>>
      /\ ConfigInv /\ RunInv /\ MessageInv /\ OrgInv
      /\ Send(Message(clock', <<>>), Message(clock', <<>>))
  BY DEF SendAnswer, IInv
<1>2. ConfigInv'
  BY <1>1, SameConfig
<1>3. UNCHANGED <<sessions, next, config_file>>
  BY <1>1 DEF configVars
<1>4. clock' \in Nat
  <2>1. PICK pause \in 0..MaxPause : clock' = clock + pause
    BY DEF SendAnswer, Pass
  <2>2. clock \in Nat /\ pause \in Nat
    BY <1>1, LiveAssumption DEF RunInv
  <2> QED
    BY <2>1, <2>2
<1>5. PICK time, body : time = clock' /\ body = <<>>
  OBVIOUS
<1>6. body \in Seq({body[i] : i \in DOMAIN body}) /\ DOMAIN body = {}
  BY <1>5, EmptySeq
<1>7. /\ (sent \in Seq({sent[m] : m \in DOMAIN sent}))'
      /\ (outbound_seq = first + Len(sent))'
      /\ MessageInv' /\ OrgInv'
  BY <1>1, <1>5, <1>6, BuiltInv
<1>8. RunInv'
  BY <1>1, <1>3, <1>4, <1>7 DEF RunInv, Loaded
<1> QED
  BY <1>2, <1>7, <1>8 DEF IInv

\* The answer to the Logon, or none.
LEMMA LogonAnsweredInv ==
  ASSUME IInv, LogonAnswered
  PROVE  IInv'
<1>1. /\ stage = "answer"
      /\ UNCHANGED <<configVars, config, file, line, org, outbound_seq, clock, first, sent>>
      /\ ConfigInv /\ RunInv /\ MessageInv /\ OrgInv
      /\ \/ stage' = "lines" /\ scenario' \in Scenarios
         \/ stage' = "ended"
  BY DEF LogonAnswered, End, IInv
<1>2. ConfigInv'
  BY <1>1, SameConfig
<1>3. UNCHANGED <<sessions, next, config_file>>
  BY <1>1 DEF configVars
<1>4. RunInv'
  BY <1>1, <1>3 DEF RunInv, Loaded
<1>5. MessageInv' /\ OrgInv'
  BY <1>1, SameSent
<1> QED
  BY <1>2, <1>4, <1>5 DEF IInv

\* Reading the configuration.
LEMMA LoadInv ==
  ASSUME IInv, Load
  PROVE  IInv'
<1>1. /\ stage = "load" /\ ReadLine
      /\ UNCHANGED <<stage, config, scenario, file, line, org, outbound_seq, clock, first, sent>>
  BY DEF Load, runVars
<1>2. ConfigInv'
  BY <1>1, ReadLineInv DEF IInv
<1>3. MessageInv' /\ OrgInv'
  BY <1>1, SameSent DEF IInv
<1>4. RunInv'
  BY <1>1 DEF IInv, RunInv
<1> QED
  BY <1>2, <1>3, <1>4 DEF IInv

\* Choosing the session, or giving up.
LEMMA GetSessionInv ==
  ASSUME IInv, ConfigFails \/ GetSession
  PROVE  IInv'
<1>1. /\ stage = "load" /\ ConfigInv /\ RunInv /\ MessageInv /\ OrgInv
      /\ UNCHANGED <<configVars, scenario, file, line, org, outbound_seq, clock, first, sent>>
  BY DEF IInv, ConfigFails, GetSession, runVars
<1>2. ConfigInv'
  BY <1>1, SameConfig
<1>3. UNCHANGED <<sessions, next, config_file>>
  BY <1>1 DEF configVars
<1>4. sent = <<>> /\ DOMAIN sent = {}
  BY <1>1 DEF RunInv
<1>5. RunInv'
  <2>1. CASE ConfigFails
    BY <1>1, <1>3, <1>4, <2>1 DEF RunInv, ConfigFails, End, runVars, Loaded
  <2>2. CASE GetSession
    <3>1. /\ Loaded /\ SessionName \in DOMAIN sessions /\ config' = sessions[SessionName]
          /\ stage' \in {"ended", "logon"}
      BY <2>2 DEF GetSession
    <3>2. DOMAIN config' = Keys
      BY <1>1, <3>1 DEF ConfigInv, Says
    <3> QED
      BY <1>1, <1>3, <1>4, <3>1, <3>2 DEF RunInv, Loaded
  <2> QED
    BY <2>1, <2>2
<1>6. MessageInv'
  BY <1>1, <1>4 DEF MessageInv
<1>7. OrgInv'
  BY <1>1, <1>4 DEF OrgInv, MadeIn
<1> QED
  BY <1>2, <1>5, <1>6, <1>7 DEF IInv

\* A line of a scenario.
LEMMA SendLineInv ==
  ASSUME IInv, SendLine
  PROVE  IInv'
<1> DEFINE fields == scenario[file][line]
           applied == fix_template_apply(runtime, fields)
<1>1. /\ stage = "lines" /\ file <= Len(scenario) /\ line <= Len(scenario[file]) /\ line' = line + 1
      /\ UNCHANGED <<configVars, config, scenario, file, first>>
      /\ ConfigInv /\ RunInv /\ MessageInv /\ OrgInv
  BY DEF SendLine, InFile, IInv
<1>2. ConfigInv'
  BY <1>1, SameConfig
<1>3. UNCHANGED <<sessions, next, config_file>>
  BY <1>1 DEF configVars
<1>4. clock' \in Nat
  <2>1. PICK pause \in 0..MaxPause : clock' = clock + pause
    BY DEF SendLine, Pass
  <2>2. clock \in Nat /\ pause \in Nat
    BY <1>1, LiveAssumption DEF RunInv
  <2> QED
    BY <2>1, <2>2
<1>5. fields \in FieldLines
  <2>1. scenario \in Seq(Seq(FieldLines)) /\ file \in Nat \ {0} /\ line \in Nat \ {0}
    BY <1>1, LiveAssumption DEF RunInv, FieldLines
  <2>2. file \in 1..Len(scenario)
    BY <1>1, <2>1, LenProperties
  <2>3. scenario[file] \in Seq(FieldLines)
    BY <2>1, <2>2, ElementOfSeq
  <2>4. line \in 1..Len(scenario[file])
    BY <1>1, <2>1, <2>3, LenProperties
  <2> QED
    BY <2>3, <2>4, ElementOfSeq
<1> HIDE DEF fields
<1>6. /\ Len(sent) \in Nat /\ outbound_seq \in Nat /\ first \in Nat
  <2>1. Len(sent) \in Nat
    BY <1>1, AppendAny DEF RunInv
  <2> QED
    BY <1>1, <2>1 DEF RunInv
<1>7. CASE fields # <<>> /\ org' = NewOrg(runtime, fields)
           /\ Send(build_from_fields(applied), build_from_fields(fields)) /\ UNCHANGED stage
  <2> DEFINE e == [file |-> file, fields |-> build_from_fields(applied),
                   template |-> build_from_fields(fields)]
  <2>1. /\ sent' = Append(sent, e) /\ outbound_seq' = outbound_seq + 1 /\ e.file = file
        /\ e.fields = build_from_fields(applied) /\ e.template = build_from_fields(fields)
    BY <1>7 DEF Send, NumberTaken
  <2>2. /\ runtime.begin_string = config["begin_string"]
        /\ runtime.sender_comp_id = config["sender_comp_id"]
        /\ runtime.target_comp_id = config["target_comp_id"]
        /\ runtime.msg_seq_num = outbound_seq /\ runtime.sending_time_utc = clock'
        /\ runtime.org = org
    BY DEF runtime
  <2> HIDE DEF e
  <2>3. PICK rt : rt = runtime
    OBVIOUS
  <2>4. /\ MessageOf(e, rt.msg_seq_num, config) /\ Gives(e, NewOrg(rt, fields))
        /\ Refers(e) # {} => \E i \in DOMAIN fields : IsOrg(fields[i])
    BY <1>5, <1>6, <2>1, <2>2, <2>3, LineMessage
  <2>5. /\ MessageOf(e, outbound_seq, config) /\ Gives(e, org')
    BY <1>7, <2>2, <2>3, <2>4
  <2>6. /\ Refers(e) # {} => org' # NoId
        /\ \/ org' = org
           \/ org = NoId /\ org'[1] = "CL" /\ org'[3] = outbound_seq % SeqMod
    <3>1. CASE org = NoId /\ \E i \in DOMAIN fields : IsOrg(fields[i])
      <4>1. org' = make_unique_id("CL", clock', outbound_seq, 1)
        BY <1>7, <2>2, <3>1 DEF NewOrg
      <4>2. org' # NoId
        BY <1>4, <1>6, <4>1, MadeIsNoId
      <4>3. org'[1] = "CL" /\ org'[3] = outbound_seq % SeqMod
        BY <4>1 DEF make_unique_id
      <4> QED
        BY <3>1, <4>2, <4>3
    <3>2. CASE ~(org = NoId /\ \E i \in DOMAIN fields : IsOrg(fields[i]))
      <4>1. org' = org
        BY <1>7, <2>2, <3>2 DEF NewOrg
      <4> QED
        BY <2>4, <3>2, <4>1
    <3> QED
      BY <3>1, <3>2
  <2>7. /\ Len(sent') = Len(sent) + 1 /\ sent' \in Seq({sent'[m] : m \in DOMAIN sent'})
        /\ MessageInv' /\ OrgInv'
    BY <1>1, <2>1, <2>5, <2>6, SendInv
  <2>8. RunInv'
    <3>1. (sent \in Seq({sent[m] : m \in DOMAIN sent}))'
      BY <2>7
    <3>2. (outbound_seq = first + Len(sent))'
      BY <1>1, <1>6, <2>1, <2>7 DEF RunInv
    <3> QED
      BY <1>1, <1>3, <1>4, <1>7, <3>1, <3>2 DEF RunInv, Loaded
  <2> QED
    BY <1>2, <2>7, <2>8 DEF IInv
<1>8. CASE UNCHANGED <<org, outbound_seq, sent>> /\ stage' \in {stage, "ended"}
  <2>1. RunInv'
    BY <1>1, <1>3, <1>4, <1>8 DEF RunInv, Loaded
  <2>2. MessageInv' /\ OrgInv'
    BY <1>1, <1>8, SameSent
  <2> QED
    BY <1>2, <2>1, <2>2 DEF IInv
<1>9. \/ fields = <<>> /\ UNCHANGED <<stage, org, outbound_seq, sent>>
      \/ /\ fields # <<>>
         /\ org' = NewOrg(runtime, fields)
         /\ Send(build_from_fields(applied), build_from_fields(fields))
         /\ UNCHANGED stage
      \/ fields # <<>> /\ End /\ UNCHANGED <<org, outbound_seq, sent>>
  BY Zenon DEF SendLine, fields
<1> QED
  BY <1>7, <1>8, <1>9 DEF End

\* The next file.
LEMMA NextFileInv ==
  ASSUME IInv, NextFile
  PROVE  IInv'
<1>1. /\ stage = "lines" /\ file' = file + 1 /\ line' = 1 /\ org' = NoId
      /\ UNCHANGED <<configVars, stage, config, scenario, outbound_seq, clock, first, sent>>
      /\ ConfigInv /\ RunInv /\ MessageInv /\ OrgInv /\ file \in Nat
  BY DEF NextFile, InFile, IInv, OrgOfNextFile, RunInv
<1>2. ConfigInv'
  BY <1>1, SameConfig
<1>3. UNCHANGED <<sessions, next, config_file>>
  BY <1>1 DEF configVars
<1>4. RunInv'
  BY <1>1, <1>3 DEF RunInv, Loaded
<1>5. \A m \in DOMAIN sent : /\ sent[m].file \in Nat /\ sent[m].file <= file'
                             /\ sent[m].file # file'
  BY <1>1 DEF MessageInv
<1>6. MessageInv'
  BY <1>1, <1>5 DEF MessageInv
<1>7. \A id, of : MadeIn(id, of)' = MadeIn(id, of)
  BY <1>1, SameSent
<1>8. OrgInv'
  <2>1. \A m \in DOMAIN sent : \A i \in Refers(sent[m]) : MadeIn(sent[m].fields[i].value, sent[m].file)
    BY <1>1 DEF OrgInv
  <2>2. (\A m \in DOMAIN sent : \A i \in Refers(sent[m]) :
           /\ MadeIn(sent[m].fields[i].value, sent[m].file)
           /\ sent[m].file = file => org # NoId /\ sent[m].fields[i].value = org)'
    BY <1>1, <1>5, <2>1 DEF MadeIn
  <2>3. (\A m, n \in DOMAIN sent : sent[m].file = sent[n].file =>
           \A i \in Refers(sent[m]), j \in Refers(sent[n]) :
             sent[m].fields[i].value = sent[n].fields[j].value)'
    BY <1>1 DEF OrgInv
  <2> QED
    BY <1>1, <2>2, <2>3 DEF OrgInv
<1> QED
  BY <1>2, <1>4, <1>6, <1>8 DEF IInv

\* The invariant holds throughout.
LEMMA Inductive == Spec => []IInv
<1>1. IInv /\ [Next]_vars => IInv'
  <2> SUFFICES ASSUME IInv, [Next]_vars PROVE IInv'
    OBVIOUS
  <2>1. CASE UNCHANGED vars
    <3>1. UNCHANGED <<configVars, stage, config, scenario, file, line, org, outbound_seq, clock, first, sent>>
      BY <2>1 DEF vars, runVars
    <3>2. UNCHANGED <<sessions, next, config_file>>
      BY <3>1 DEF configVars
    <3>3. ConfigInv' /\ MessageInv' /\ OrgInv'
      BY <3>1, SameConfig, SameSent DEF IInv
    <3>4. RunInv'
      BY <3>1, <3>2 DEF IInv, RunInv, Loaded
    <3> QED
      BY <3>3, <3>4 DEF IInv
  <2> QED
    BY <2>1, LoadInv, GetSessionInv, SendLogonInv, SendAnswerInv, LogonAnsweredInv,
       SendLineInv, NextFileInv DEF Next
<1> QED
  BY <1>1, LiveInit, PTL DEF Spec

-----------------------------------------------------------------------------
(* Theorems                                                                *)

\* A live run stays in its bounds, and every outbound number it takes is the number of
\* one message (application.cpp, send_current_message).
THEOREM LiveTypeCorrect == Spec => []TypeOK
<1>1. IInv => TypeOK
  BY DEF IInv, ConfigInv, RunInv, MessageInv, OrgInv, TypeOK
<1> QED
  BY <1>1, Inductive, PTL

\* Whatever the file, reading it line by line gives every section what the file as a
\* whole says of it: the last assignment wins, and [DEFAULT] counts as far as it stands
\* above the section's first assignment (ConfigParser::load).
THEOREM ConfigurationIsAsWritten == Spec => []LoadedAsWritten
<1>1. IInv => LoadedAsWritten
  <2> SUFFICES ASSUME ConfigInv, Loaded PROVE LoadedAsWritten
    BY DEF IInv, LoadedAsWritten
  <2>1. /\ DOMAIN sessions = {s \in SectionNames \ {"DEFAULT"} : LinesOf(s) # {}}
        /\ \A s \in DOMAIN sessions : \A k \in Keys : sessions[s][k] = Written(s, k)
    BY WhatIsWritten
  <2> QED
    BY <2>1, Zenon DEF LoadedAsWritten, SectionNames
<1> QED
  BY <1>1, Inductive, PTL

\* Each message begins with the session's version, and where it has SenderCompID,
\* TargetCompID or MsgSeqNum, they are the names the file gives the session and the
\* number of its turn, whatever the scenario line says (fix_template_apply,
\* build_from_fields).
THEOREM MessagesSentAsConfigured == Spec => []SentAsConfigured
<1>1. IInv => SentAsConfigured
  <2> SUFFICES ASSUME IInv, NEW m \in DOMAIN sent
               PROVE  /\ Fields(sent[m], 8) # {}
                      /\ Carries(sent[m], 8, Written(SessionName, "begin_string"))
                      /\ Carries(sent[m], 49, Written(SessionName, "sender_comp_id"))
                      /\ Carries(sent[m], 56, Written(SessionName, "target_comp_id"))
                      /\ Carries(sent[m], 34, first + m - 1)
    BY DEF SentAsConfigured
  <2>1. Loaded /\ SessionName \in DOMAIN sessions /\ config = sessions[SessionName]
    <3>1. sent # <<>>
      OBVIOUS
    <3> QED
      BY <3>1 DEF IInv, RunInv
  <2>2. \A k \in Keys : config[k] = Written(SessionName, k)
    BY <2>1, WhatIsWritten DEF IInv
  <2>3. /\ config["begin_string"] = Written(SessionName, "begin_string")
        /\ config["sender_comp_id"] = Written(SessionName, "sender_comp_id")
        /\ config["target_comp_id"] = Written(SessionName, "target_comp_id")
    BY <2>2 DEF Keys, Names
  <2> QED
    BY <2>3 DEF IInv, MessageInv, MessageOf
<1> QED
  BY <1>1, Inductive, PTL

\* Messages with numbers less than SeqMod apart differ in their numbers modulo SeqMod.
LEMMA CloseNumbers ==
  ASSUME RunInv, NEW m \in DOMAIN sent, NEW n \in DOMAIN sent, Close(m, n),
         (first + m - 1) % SeqMod = (first + n - 1) % SeqMod
  PROVE  m = n
<1>1. m \in Nat /\ n \in Nat /\ m >= 1 /\ n >= 1 /\ first \in Nat
  BY AppendAny DEF RunInv
<1>2. first + m - 1 \in Nat /\ first + n - 1 \in Nat /\ SeqMod \in Nat \ {0}
  BY <1>1, TemplateAssumption
<1>3. (first + m - 1) - (first + n - 1) < SeqMod /\ (first + n - 1) - (first + m - 1) < SeqMod
  BY <1>1, <1>2 DEF Close
<1>4. first + m - 1 = first + n - 1
  BY <1>2, <1>3, CloseRemainders
<1> QED
  BY <1>1, <1>4

\* ${ORG_CLRID} names one order within a file, in tag 11 as in tag 41, and, in a run of
\* at most SeqMod messages, never one of another file (fix_template_apply).
THEOREM OriginalNamesOneOrder == Spec => []OriginalOfFile
<1>1. IInv => OriginalOfFile
  <2> DEFINE Id(x) == sent[x[1]].fields[x[2]].value
  <2> SUFFICES ASSUME IInv, NEW f \in OrgFields, NEW g \in OrgFields
               PROVE  /\ sent[f[1]].file = sent[g[1]].file => Id(f) = Id(g)
                      /\ sent[f[1]].file # sent[g[1]].file /\ Close(1, Len(sent)) => Id(f) # Id(g)
    BY DEF OriginalOfFile
  <2>1. \A x \in OrgFields : x[1] \in DOMAIN sent /\ x[2] \in Refers(sent[x[1]])
    BY DEF OrgFields, Refers
  <2>2. sent[f[1]].file = sent[g[1]].file => Id(f) = Id(g)
    BY <2>1 DEF IInv, OrgInv
  <2>3. ASSUME sent[f[1]].file # sent[g[1]].file, Close(1, Len(sent)), Id(f) = Id(g)
        PROVE  FALSE
    <3>1. MadeIn(Id(f), sent[f[1]].file) /\ MadeIn(Id(g), sent[g[1]].file)
      BY <2>1 DEF IInv, OrgInv
    <3>2. PICK m \in DOMAIN sent : sent[m].file = sent[f[1]].file /\ Id(f)[3] = (first + m - 1) % SeqMod
      BY <3>1, Zenon DEF MadeIn
    <3>3. PICK n \in DOMAIN sent : sent[n].file = sent[g[1]].file /\ Id(g)[3] = (first + n - 1) % SeqMod
      BY <3>1, Zenon DEF MadeIn
    <3>4. Close(m, n)
      <4>1. Len(sent) \in Nat /\ m \in 1..Len(sent) /\ n \in 1..Len(sent)
        BY AppendAny DEF IInv, RunInv
      <4> QED
        BY <2>3, <4>1, TemplateAssumption DEF Close
    <3>5. m = n
      BY <2>3, <3>2, <3>3, <3>4, CloseNumbers DEF IInv
    <3> QED
      BY <2>3, <3>2, <3>3, <3>5
  <2> QED
    BY <2>2, <2>3
<1> QED
  BY <1>1, Inductive, PTL

\* Two ClOrdIDs are the same, in one message or in two, only if one of them repeats the
\* ${ORG_CLRID} of its file, or the messages are SeqMod numbers apart, or the message
\* has more than CountMod of them (make_unique_id, fix_template_apply).
THEOREM ClOrdIdsOfOneOrder == Spec => []ClOrdIdOfOneOrder
<1>1. IInv => ClOrdIdOfOneOrder
  <2> SUFFICES ASSUME IInv, NEW m \in DOMAIN sent, NEW n \in DOMAIN sent, Close(m, n),
                      NEW i \in Fields(sent[m], 11), NEW j \in Fields(sent[n], 11),
                      <<m, i>> # <<n, j>>,
                      m = n => Cardinality(Fields(sent[m], 11)) <= CountMod,
                      sent[m].fields[i].value = sent[n].fields[j].value,
                      ~(<<m, i>> \in OrgFields), ~(<<n, j>> \in OrgFields)
               PROVE  FALSE
    BY DEF ClOrdIdOfOneOrder
  <2>1. MessageOf(sent[m], first + m - 1, config) /\ MessageOf(sent[n], first + n - 1, config)
    BY DEF IInv, MessageInv
  <2>2. ~IsOrg(sent[m].template[i]) /\ ~IsOrg(sent[n].template[j])
    <3>1. i \in DOMAIN sent[m].template /\ j \in DOMAIN sent[n].template
      BY <2>1 DEF MessageOf, Fields
    <3>2. IsOrg(sent[m].template[i]) => <<m, i>> \in OrgFields
      BY <3>1 DEF OrgFields
    <3>3. IsOrg(sent[n].template[j]) => <<n, j>> \in OrgFields
      BY <3>1 DEF OrgFields
    <3> QED
      BY <3>2, <3>3
  <2>3. /\ sent[m].fields[i].value[3] = (first + m - 1) % SeqMod
        /\ sent[n].fields[j].value[3] = (first + n - 1) % SeqMod
    BY <2>1, <2>2, Zenon DEF MessageOf
  <2>4. m = n
    BY <2>3, CloseNumbers DEF IInv
  <2>5. OwnIds(sent[m])
    BY <2>1 DEF MessageOf
  <2> QED
    BY <2>2, <2>4, <2>5 DEF OwnIds
<1> QED
  BY <1>1, Inductive, PTL
=============================================================================
