-------------------------- MODULE ConfigFileProofs --------------------------
(***************************************************************************)
(* Reading line by line gives what the file says as a whole, for every     *)
(* configuration file: the invariant of ConfigFile, which LiveScenario     *)
(* uses.                                                                   *)
(***************************************************************************)
EXTENDS ConfigFile, SequenceTheorems, WellFoundedInduction, TLAPS

\* Of the lines S, those that assign to a key.
Of(S, key) == {i \in S : config_file[i].key = key}

Last(S, key) == Convert(key, config_file[Max(Of(S, key))].value)

\* What the lines S of a section and the lines D of [DEFAULT] say of a key.
ValueOf(S, D, key) ==
  IF Of(S, key) # {} THEN Last(S, key)
  ELSE IF Of(D, key) # {} THEN Last(D, key)
  ELSE SessionConfig[key]

\* A record holds what the lines S and D say.
Says(config, S, D) ==
  DOMAIN config = Keys /\ \A k \in Keys : config[k] = ValueOf(S, D, k)

\* The lines of a section that have been read.
Before(name) == {i \in LinesOf(name) : i < next}

\* The lines of [DEFAULT] above the first line of a section.
Above(name) == {i \in LinesOf("DEFAULT") : i < Min(LinesOf(name))}

SectionNames == {SectionAt(i) : i \in DOMAIN config_file}

\* What has been read is what the lines read so far say.
ConfigInv ==
  /\ config_file \in ConfigFiles
  /\ next \in 1..Len(config_file) + 1
  /\ section_name = SectionAt(next - 1)
  /\ Says(defaults, Before("DEFAULT"), {})
  /\ DOMAIN sessions = {s \in SectionNames \ {"DEFAULT"} : Before(s) # {}}
  /\ \A s \in DOMAIN sessions : Says(sessions[s], Before(s), Above(s))

-----------------------------------------------------------------------------
(* Least and greatest numbers                                              *)

Less == {p \in Nat \X Nat : p[1] < p[2]}

LEMMA LessWellFounded == IsWellFoundedOn(Less, Nat)
<1>1. OpToRel(<, Nat) = Less
  BY Zenon DEF OpToRel, Less
<1> QED
  BY <1>1, NatLessThanWellFounded, Zenon

\* A non-empty set of numbers has a least one.
LEMMA MinOf ==
  ASSUME NEW S \in SUBSET Nat, S # {}
  PROVE  Min(S) \in S /\ \A y \in S : Min(S) <= y
<1>1. PICK x \in S : \A y \in S : ~(<<y, x>> \in Less)
  BY LessWellFounded, WFMin, Zenon
<1>2. \A y \in S : x <= y
  <2> SUFFICES ASSUME NEW y \in S PROVE x <= y
    OBVIOUS
  <2>1. x \in Nat /\ y \in Nat
    OBVIOUS
  <2>2. <<y, x>> \in Nat \X Nat /\ <<y, x>>[1] = y /\ <<y, x>>[2] = x
    BY <2>1
  <2>3. ~(y < x)
    BY <1>1, <2>2, Zenon DEF Less
  <2> QED
    BY <2>1, <2>3
<1> QED
  BY <1>2 DEF Min

LEMMA MinIs ==
  ASSUME NEW S \in SUBSET Nat, NEW n \in S, \A y \in S : n <= y
  PROVE  Min(S) = n
<1>1. Min(S) \in S /\ \A y \in S : Min(S) <= y
  BY MinOf
<1>2. Min(S) \in Nat /\ n \in Nat /\ Min(S) <= n /\ n <= Min(S)
  BY <1>1
<1> QED
  BY <1>2

LEMMA MaxIs ==
  ASSUME NEW S \in SUBSET Nat, NEW n \in S, \A y \in S : y <= n
  PROVE  Max(S) = n
<1>1. \A y \in S : n >= y
  OBVIOUS
<1>2. Max(S) \in S /\ \A y \in S : Max(S) >= y
  BY <1>1 DEF Max
<1>3. Max(S) \in Nat /\ n \in Nat /\ Max(S) >= n /\ n >= Max(S)
  BY <1>1, <1>2
<1> QED
  BY <1>3

-----------------------------------------------------------------------------
(* One line more                                                           *)

\* The lines of the file.
LEMMA FileType ==
  ASSUME config_file \in ConfigFiles
  PROVE  /\ Len(config_file) \in Nat /\ DOMAIN config_file = 1..Len(config_file)
         /\ \A i \in DOMAIN config_file :
              config_file[i] \in [section : BOOLEAN, key : STRING, value : Texts]
<1>1. config_file \in Seq([section : BOOLEAN, key : STRING, value : Texts])
  BY ConfigAssumption
<1> QED
  BY <1>1, LenProperties, ElementOfSeq

\* A line changes the section if it names one.
LEMMA SectionOfLine ==
  ASSUME config_file \in ConfigFiles, NEW n \in DOMAIN config_file
  PROVE  SectionAt(n) =
           IF config_file[n].section
           THEN IF config_file[n].key = "" THEN "DEFAULT" ELSE config_file[n].key
           ELSE SectionAt(n - 1)
<1> DEFINE heads(i) == {j \in 1..i : config_file[j].section /\ j <= i}
<1>0. n \in Nat /\ n >= 1
  BY FileType
<1>1. CASE config_file[n].section
  <2>1. heads(n) \in SUBSET Nat /\ n \in heads(n) /\ \A y \in heads(n) : y <= n
    BY <1>0, <1>1
  <2>2. Max(heads(n)) = n
    <3> HIDE DEF heads
    <3> QED
      BY <2>1, MaxIs
  <2> QED
    BY <1>1, <2>1, <2>2 DEF SectionAt
<1>2. CASE ~config_file[n].section
  <2>1. heads(n) = heads(n - 1)
    BY <1>0, <1>2
  <2> QED
    BY <1>2, <2>1, Zenon DEF SectionAt
<1> QED
  BY <1>1, <1>2

\* An assignment is the last one of its key.
LEMMA AssignedLast ==
  ASSUME config_file \in ConfigFiles, NEW n \in DOMAIN config_file,
         NEW S \in SUBSET (1..n - 1), NEW D, NEW config, Says(config, S, D)
  PROVE  Says(Assign(config, config_file[n]), S \cup {n}, D)
<1>0. n \in Nat /\ n >= 1 /\ S \subseteq Nat /\ \A i \in S : i < n
  BY FileType
<1>1. DOMAIN Assign(config, config_file[n]) = Keys
  BY DEF Assign, Says
<1>2. ASSUME NEW k \in Keys, k # config_file[n].key
      PROVE  Assign(config, config_file[n])[k] = ValueOf(S \cup {n}, D, k)
  <2>1. Of(S \cup {n}, k) = Of(S, k)
    BY <1>2 DEF Of
  <2>2. Assign(config, config_file[n])[k] = config[k]
    BY <1>2 DEF Assign
  <2> QED
    BY <2>1, <2>2, Zenon DEF ValueOf, Last, Says
<1>3. ASSUME NEW k \in Keys, k = config_file[n].key
      PROVE  Assign(config, config_file[n])[k] = ValueOf(S \cup {n}, D, k)
  <2>1. /\ Of(S \cup {n}, k) \in SUBSET Nat /\ n \in Of(S \cup {n}, k)
        /\ \A y \in Of(S \cup {n}, k) : y <= n
    <3>1. \A y \in S \cup {n} : y \in Nat /\ y <= n
      BY <1>0
    <3> QED
      BY <1>3, <3>1 DEF Of
  <2>2. Max(Of(S \cup {n}, k)) = n
    BY <2>1, MaxIs
  <2>3. Assign(config, config_file[n])[k] = Convert(k, config_file[n].value)
    BY <1>3 DEF Assign, Says
  <2> QED
    BY <2>1, <2>2, <2>3 DEF ValueOf, Last
<1> QED
  BY <1>1, <1>2, <1>3 DEF Says

\* What the file says does not change while it is read.
LEMMA SameFile ==
  ASSUME UNCHANGED config_file
  PROVE  /\ \A i : SectionAt(i)' = SectionAt(i)
         /\ \A name : LinesOf(name)' = LinesOf(name) /\ Above(name)' = Above(name)
         /\ \A config, S, D : Says(config, S, D)' = Says(config, S, D)
         /\ SectionNames' = SectionNames
<1>1. \A i : SectionAt(i)' = SectionAt(i)
  BY Zenon DEF SectionAt
<1>2. \A name : LinesOf(name)' = LinesOf(name)
  BY <1>1, Zenon DEF LinesOf
<1>3. \A name : Above(name)' = Above(name)
  BY <1>2, Zenon DEF Above
<1>4. \A S, key : Of(S, key)' = Of(S, key)
  BY Zenon DEF Of
<1>5. \A S, D, key : ValueOf(S, D, key)' = ValueOf(S, D, key)
  BY <1>4, Zenon DEF ValueOf, Last
<1>6. SectionNames' = SectionNames
  BY <1>1, Zenon DEF SectionNames
<1>7. \A config, S, D : Says(config, S, D)' = Says(config, S, D)
  BY <1>5, Zenon DEF Says
<1> QED
  BY <1>1, <1>2, <1>3, <1>6, <1>7

\* Before the first line.
LEMMA ConfigInitInv == config_file \in ConfigFiles /\ ConfigInit => ConfigInv
<1> SUFFICES ASSUME config_file \in ConfigFiles, ConfigInit PROVE ConfigInv
  OBVIOUS
<1>1. /\ next = 1 /\ section_name = "DEFAULT" /\ defaults = SessionConfig /\ sessions = <<>>
      /\ DOMAIN sessions = {}
  BY DEF ConfigInit
<1>2. next \in 1..Len(config_file) + 1
  <2>1. \A n \in Nat : 1 \in 1..n + 1
    OBVIOUS
  <2> QED
    BY <1>1, <2>1, FileType
<1>3. section_name = SectionAt(next - 1)
  <2>1. {j \in 1..0 : config_file[j].section /\ j <= 0} = {} /\ next - 1 = 0
    BY <1>1
  <2> QED
    BY <1>1, <2>1, Zenon DEF SectionAt
<1>4. \A s : Before(s) = {}
  BY <1>1, FileType DEF Before, LinesOf
<1>5. Says(defaults, Before("DEFAULT"), {})
  BY <1>1, <1>4 DEF SessionConfig, Says, ValueOf, Of
<1>6. DOMAIN sessions = {s \in SectionNames \ {"DEFAULT"} : Before(s) # {}}
  BY <1>1, <1>4
<1> QED
  BY <1>1, <1>2, <1>3, <1>5, <1>6 DEF ConfigInv

LEMMA ReadLineInv ==
  ASSUME ConfigInv, ReadLine
  PROVE  ConfigInv'
<1> DEFINE n == next
           l == config_file[next]
           own == SectionAt(next)
<1>1. /\ n \in DOMAIN config_file /\ n \in Nat /\ n >= 1 /\ next' = n + 1 /\ config_file' = config_file
      /\ Len(config_file) \in Nat /\ n <= Len(config_file)
      /\ l.section \in BOOLEAN
  <2>1. /\ Len(config_file) \in Nat /\ DOMAIN config_file = 1..Len(config_file)
        /\ \A i \in DOMAIN config_file : config_file[i].section \in BOOLEAN
    BY FileType DEF ConfigInv
  <2>2. next \in 1..Len(config_file) + 1 /\ next <= Len(config_file)
        /\ next' = next + 1 /\ config_file' = config_file
    BY DEF ConfigInv, ReadLine
  <2>3. n \in Nat /\ n >= 1 /\ n \in 1..Len(config_file)
    BY <2>1, <2>2
  <2> QED
    BY <2>1, <2>2, <2>3
<1>2. own = IF l.section THEN IF l.key = "" THEN "DEFAULT" ELSE l.key ELSE section_name
  BY <1>1, SectionOfLine DEF ConfigInv
<1>2a. \/ /\ l.section
          /\ section_name' = IF l.key = "" THEN "DEFAULT" ELSE l.key
          /\ UNCHANGED <<defaults, sessions>>
       \/ /\ ~l.section /\ section_name = "DEFAULT"
          /\ defaults' = Assign(defaults, l)
          /\ UNCHANGED <<section_name, sessions>>
       \/ /\ ~l.section /\ section_name # "DEFAULT"
          /\ sessions' = [s \in DOMAIN sessions \cup {section_name} |->
               IF s = section_name THEN Assign(SectionConfig(s), l) ELSE sessions[s]]
          /\ UNCHANGED <<section_name, defaults>>
  BY Zenon DEF ReadLine
<1>3. section_name' = own
  <2>1. CASE l.section
    <3>1. section_name' = IF l.key = "" THEN "DEFAULT" ELSE l.key
      BY <1>2a, <2>1
    <3> QED
      BY <1>2, <2>1, <3>1
  <2>2. CASE ~l.section
    <3>1. section_name' = section_name
      BY <1>2a, <2>2
    <3> QED
      BY <1>2, <2>2, <3>1, Zenon
  <2> QED
    BY <2>1, <2>2
<1>4. next' \in 1..Len(config_file)' + 1 /\ config_file' \in ConfigFiles
  BY <1>1 DEF ConfigInv
<1>5. section_name' = SectionAt(next - 1)'
  <2>1. next' - 1 = next
    BY <1>1
  <2>2. \A i : SectionAt(i)' = SectionAt(i)
    BY <1>1, SameFile
  <2>3. SectionAt(next - 1)' = SectionAt(next' - 1)
    BY <1>1, Zenon DEF SectionAt
  <2> QED
    BY <1>3, <2>1, <2>3
<1>6. \A s : Before(s)' = IF ~l.section /\ s = own THEN Before(s) \cup {n} ELSE Before(s)
  <2>1. \A s : LinesOf(s)' = LinesOf(s)
    BY <1>1, SameFile
  <2>2. \A s : Before(s)' = {i \in LinesOf(s) : i < n + 1}
    BY <1>1, <2>1, Zenon DEF Before
  <2>3. \A s : \A i \in LinesOf(s) : i \in Nat
    BY FileType DEF LinesOf, ConfigInv
  <2>4. \A s : n \in LinesOf(s) <=> ~l.section /\ s = own
    BY <1>1 DEF LinesOf
  <2> SUFFICES ASSUME NEW s
               PROVE  {i \in LinesOf(s) : i < n + 1}
                        = IF ~l.section /\ s = own THEN Before(s) \cup {n} ELSE Before(s)
    BY <2>2
  <2>5. \A i \in LinesOf(s) : i < n + 1 <=> i < n \/ i = n
    BY <1>1, <2>3
  <2> QED
    BY <2>4, <2>5 DEF Before
<1>7. \A s : Before(s) \in SUBSET (1..n - 1)
  BY <1>1, FileType DEF Before, LinesOf, ConfigInv
<1>8. Says(defaults, Before("DEFAULT"), {})'
  <2>1. Says(defaults, Before("DEFAULT"), {})' <=> Says(defaults', Before("DEFAULT")', {})
    BY <1>1, Zenon DEF Says, ValueOf, Last, Of
  <2>0. config_file \in ConfigFiles /\ Says(defaults, Before("DEFAULT"), {})
    BY DEF ConfigInv
  <2>2. CASE ~l.section /\ own = "DEFAULT"
    <3>1. defaults' = Assign(defaults, l)
      BY <1>2, <1>2a, <2>2
    <3>2. Before("DEFAULT")' = Before("DEFAULT") \cup {n}
      BY <1>6, <2>2
    <3>3. Says(Assign(defaults, l), Before("DEFAULT") \cup {n}, {})
      BY <1>1, <1>7, <2>0, AssignedLast
    <3> QED
      BY <2>1, <3>1, <3>2, <3>3
  <2>3. CASE l.section \/ own # "DEFAULT"
    <3>1. defaults' = defaults
      BY <1>2, <1>2a, <2>3
    <3>2. Before("DEFAULT")' = Before("DEFAULT")
      BY <1>6, <2>3
    <3> QED
      BY <2>0, <2>1, <3>1, <3>2
  <2> QED
    BY <2>2, <2>3
<1>9. own \in SectionNames /\ \A s : Before(s)' = {} => Before(s) = {}
  BY <1>1, <1>6 DEF SectionNames
<1>10. DOMAIN sessions' = {s \in SectionNames' \ {"DEFAULT"} : Before(s)' # {}}
  <2>1. SectionNames' = SectionNames
    BY <1>1, SameFile
  <2>2. CASE ~l.section /\ own # "DEFAULT"
    <3>1. DOMAIN sessions' = DOMAIN sessions \cup {own}
      BY <1>2, <1>2a, <2>2
    <3>2. \A s : IF s = own THEN Before(s)' # {} ELSE Before(s)' = Before(s)
      BY <1>6, <2>2
    <3>3. DOMAIN sessions = {s \in SectionNames \ {"DEFAULT"} : Before(s) # {}}
      BY DEF ConfigInv
    <3> HIDE DEF own, l, n
    <3> QED
      BY <1>9, <2>1, <2>2, <3>1, <3>2, <3>3
  <2>3. CASE l.section \/ own = "DEFAULT"
    <3>1. sessions' = sessions
      BY <1>2, <1>2a, <2>3
    <3>2. \A s : s # "DEFAULT" => Before(s)' = Before(s)
      BY <1>6, <2>3
    <3> QED
      BY <2>1, <3>1, <3>2 DEF ConfigInv
  <2> QED
    BY <2>2, <2>3
<1>11. ASSUME NEW s \in DOMAIN sessions'
       PROVE  Says(sessions[s], Before(s), Above(s))'
  <2>0. config_file \in ConfigFiles
    BY DEF ConfigInv
  <2>1. Says(sessions[s], Before(s), Above(s))' <=> Says(sessions'[s], Before(s)', Above(s))
    <3>1. Above(s)' = Above(s)
      BY <1>1, SameFile
    <3>2. Says(sessions[s], Before(s), Above(s))' <=> Says(sessions'[s], Before(s)', Above(s)')
      <4>1. \A k : ValueOf(Before(s), Above(s), k)' = ValueOf(Before(s)', Above(s)', k)
        BY <1>1, Zenon DEF ValueOf, Last, Of
      <4> QED
        BY <4>1, Zenon DEF Says
    <3> QED
      BY <3>1, <3>2
  <2>2. CASE ~l.section /\ own # "DEFAULT" /\ s = own
    <3>1. sessions'[s] = Assign(SectionConfig(s), l)
      BY <1>2, <1>2a, <2>2
    <3>2. Before(s)' = Before(s) \cup {n}
      BY <1>6, <2>2
    <3>3. Says(SectionConfig(s), Before(s), Above(s))
      <4>1. CASE s \in DOMAIN sessions
        BY <4>1 DEF SectionConfig, ConfigInv
      <4>2. CASE s \notin DOMAIN sessions
        <5>1. Before(s) = {} /\ SectionConfig(s) = defaults
          BY <1>9, <2>2, <4>2 DEF SectionConfig, ConfigInv
        <5>2. Min(LinesOf(s)) = n
          <6>1. LinesOf(s) \in SUBSET Nat /\ n \in LinesOf(s)
            BY <1>1, <2>2, FileType DEF LinesOf, ConfigInv
          <6>2. \A y \in LinesOf(s) : n <= y
            BY <1>1, <5>1, <6>1 DEF Before
          <6> QED
            BY <6>1, <6>2, MinIs
        <5>3. Above(s) = Before("DEFAULT")
          BY <5>2 DEF Above, Before
        <5>4. Says(defaults, {}, Before("DEFAULT"))
          <6>1. Says(defaults, Before("DEFAULT"), {})
            BY DEF ConfigInv
          <6>2. \A k : Of({}, k) = {}
            BY DEF Of
          <6> QED
            BY <6>1, <6>2 DEF ValueOf, Says
        <5> QED
          BY <5>1, <5>3, <5>4
      <4> QED
        BY <4>1, <4>2
    <3>4. Says(Assign(SectionConfig(s), l), Before(s) \cup {n}, Above(s))
      BY <1>1, <1>7, <2>0, <3>3, AssignedLast
    <3> QED
      BY <2>1, <3>1, <3>2, <3>4
  <2>3. CASE ~(~l.section /\ own # "DEFAULT" /\ s = own)
    <3>1. s \in DOMAIN sessions /\ sessions'[s] = sessions[s]
      <4>1. CASE l.section \/ own = "DEFAULT"
        <5>1. sessions' = sessions
          BY <1>2, <1>2a, <4>1
        <5> QED
          BY <5>1
      <4>2. CASE ~l.section /\ own # "DEFAULT"
        <5>1. section_name = own
          BY <1>2, <4>2, Zenon
        <5>2. sessions' = [t \in DOMAIN sessions \cup {own} |->
                IF t = own THEN Assign(SectionConfig(t), l) ELSE sessions[t]]
          BY <1>2a, <4>2, <5>1, Zenon
        <5> HIDE DEF own, l
        <5> QED
          BY <2>3, <4>2, <5>2
      <4> QED
        BY <4>1, <4>2
    <3>2. s # "DEFAULT"
      BY <3>1 DEF ConfigInv
    <3>3. Before(s)' = Before(s)
      BY <1>6, <2>3, <3>2
    <3> QED
      BY <2>1, <3>1, <3>3 DEF ConfigInv
  <2> QED
    BY <2>2, <2>3
<1> QED
  BY <1>4, <1>5, <1>8, <1>10, <1>11 DEF ConfigInv

\* When all is read, the sections are what the file says of them.
LEMMA WhatIsWritten ==
  ASSUME ConfigInv, Loaded
  PROVE  /\ DOMAIN sessions = {s \in SectionNames \ {"DEFAULT"} : LinesOf(s) # {}}
         /\ \A s \in DOMAIN sessions : \A k \in Keys : sessions[s][k] = Written(s, k)
<1>1. \A s : Before(s) = LinesOf(s)
  BY FileType DEF ConfigInv, Loaded, Before, LinesOf
<1>2. ASSUME NEW s, NEW k PROVE ValueOf(LinesOf(s), Above(s), k) = Written(s, k)
  <2>1. Of(Above(s), k)
          = {i \in LinesOf("DEFAULT") : config_file[i].key = k /\ i < Min(LinesOf(s))}
    BY DEF Of, Above
  <2>2. Of(LinesOf(s), k) = {i \in LinesOf(s) : config_file[i].key = k}
    BY DEF Of
  <2> QED
    BY <2>1, <2>2 DEF ValueOf, Written, Last
<1> QED
  BY <1>1, <1>2 DEF ConfigInv, Says
=============================================================================
