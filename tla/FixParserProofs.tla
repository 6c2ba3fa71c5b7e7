--------------------------- MODULE FixParserProofs ---------------------------
(***************************************************************************)
(* The invariants of FixParser, for every stream the counterparty may      *)
(* send, however it is cut. What a fold or a search computes over data of  *)
(* any length is proved from a least counterexample (Least elements), for  *)
(* the induction theorems cannot be instantiated.                          *)
(*                                                                         *)
(* The buffer is an interval of the stream that ends at `taken` (TypeInv), *)
(* so that each outcome of read_next_message is stated in places of the    *)
(* stream (FindsNothing, FindsBegin, ReadsMessage) and the invariants      *)
(* speak of where items end (End) instead of what the buffer contains.     *)
(***************************************************************************)
EXTENDS FixParser, SequenceTheorems, FiniteSetTheorems, WellFoundedInduction, TLAPS

-----------------------------------------------------------------------------
(* Least elements                                                          *)

Less == {p \in Nat \X Nat : p[1] < p[2]}

LEMMA LessWellFounded == IsWellFoundedOn(Less, Nat)
<1>1. OpToRel(<, Nat) = Less
  BY Zenon DEF OpToRel, Less
<1> QED
  BY <1>1, NatLessThanWellFounded, Zenon

\* A non-empty set of numbers has a least one.
LEMMA MinOf ==
  ASSUME NEW S \in SUBSET Nat, S # {}
  PROVE  Min(S) \in S /\ \A y \in S : Min(S) <= y
<1>1. PICK x \in S : \A y \in S : ~(<<y, x>> \in Less)
  BY LessWellFounded, WFMin, Zenon
<1>2. \A y \in S : x <= y
  <2> SUFFICES ASSUME NEW y \in S PROVE x <= y
    OBVIOUS
  <2>1. x \in Nat /\ y \in Nat
    OBVIOUS
  <2>2. <<y, x>> \in Nat \X Nat /\ <<y, x>>[1] = y /\ <<y, x>>[2] = x
    BY <2>1
  <2>3. ~(y < x)
    BY <1>1, <2>2, Zenon DEF Less
  <2> QED
    BY <2>1, <2>3
<1> QED
  BY <1>2 DEF Min

LEMMA MinIs ==
  ASSUME NEW S \in SUBSET Nat, NEW n \in S, \A y \in S : n <= y
  PROVE  Min(S) = n
<1>1. Min(S) \in S /\ \A y \in S : Min(S) <= y
  BY MinOf
<1>2. Min(S) \in Nat /\ n \in Nat
  BY <1>1
<1> QED
  BY <1>1, <1>2

-----------------------------------------------------------------------------
(* Sequences of sequences, joined                                          *)

\* f[i] joins the first i of s.
Joins(f, s, n) ==
  f = [i \in 1..n |-> IF i = 1 THEN s[i] ELSE f[i - 1] \o s[i]]

LEMMA JoinsFirst ==
  ASSUME NEW f, NEW s, NEW n \in Nat, Joins(f, s, n), n > 0
  PROVE  f[1] = s[1]
<1>1. \A i \in 1..n : f[i] = IF i = 1 THEN s[i] ELSE f[i - 1] \o s[i]
  BY Zenon DEF Joins
<1>2. 1 \in 1..n
  OBVIOUS
<1> QED
  BY <1>1, <1>2, Zenon

LEMMA JoinsNext ==
  ASSUME NEW f, NEW s, NEW n \in Nat, Joins(f, s, n), NEW i \in 2..n
  PROVE  f[i] = f[i - 1] \o s[i]
<1>1. \A j \in 1..n : f[j] = IF j = 1 THEN s[j] ELSE f[j - 1] \o s[j]
  BY Zenon DEF Joins
<1>2. i \in 1..n /\ i # 1
  OBVIOUS
<1> QED
  BY <1>1, <1>2, Zenon

LEMMA JoinsExists ==
  ASSUME NEW s, NEW n \in Nat
  PROVE  \E f : Joins(f, s, n)
<1> DEFINE None == {k \in Nat : ~\E f : Joins(f, s, k)}
<1> SUFFICES ASSUME None # {} PROVE FALSE
  OBVIOUS
<1>1. None \in SUBSET Nat
  OBVIOUS
<1> DEFINE k == Min(None)
<1>2. k \in None /\ \A j \in None : k <= j
  BY <1>1, MinOf
<1> HIDE DEF k
<1>3. k \in Nat
  BY <1>2
<1>4. k # 0
  <2>1. Joins([i \in 1..0 |-> s[i]], s, 0)
    BY DEF Joins
  <2> QED
    BY <1>2, <2>1
<1>5. k - 1 \in Nat /\ k - 1 \notin None
  BY <1>2, <1>3, <1>4
<1>6. PICK g : Joins(g, s, k - 1)
  BY <1>5
<1> DEFINE f == [i \in 1..k |-> IF i = k THEN (IF k = 1 THEN s[1] ELSE g[k - 1] \o s[k]) ELSE g[i]]
<1>7. \A i \in 1..k : f[i] = IF i = 1 THEN s[i] ELSE f[i - 1] \o s[i]
  <2> SUFFICES ASSUME NEW i \in 1..k PROVE f[i] = IF i = 1 THEN s[i] ELSE f[i - 1] \o s[i]
    OBVIOUS
  <2>1. CASE i = k /\ k = 1
    BY <2>1
  <2>2. CASE i = k /\ k # 1
    <3>1. k - 1 \in 1..k /\ k - 1 # k
      BY <1>3, <2>2
    <3>2. f[k - 1] = g[k - 1]
      BY <3>1
    <3> QED
      BY <2>2, <3>2
  <2>3. CASE i # k
    <3>1. i \in 1..(k - 1)
      BY <1>3, <2>3
    <3>2. f[i] = g[i]
      BY <2>3
    <3>a. i # 1 => i \in 2..(k - 1)
      BY <1>3, <3>1
    <3>b. k - 1 > 0
      BY <1>3, <3>1
    <3>3. i = 1 => g[i] = s[i]
      BY <1>5, <1>6, <3>b, JoinsFirst, Zenon
    <3>4. ASSUME i # 1 PROVE g[i] = g[i - 1] \o s[i]
      <4>1. i \in 2..(k - 1)
        BY <3>4, <3>a
      <4>2. k - 1 \in Nat
        BY <1>5
      <4> HIDE DEF None
      <4>3. \A j \in 2..(k - 1) : g[j] = g[j - 1] \o s[j]
        BY <4>2, <1>6, JoinsNext, Zenon
      <4> QED
        BY <4>1, <4>3, Zenon
    <3>5. i # 1 => i - 1 \in 1..k /\ i - 1 # k
      BY <1>3, <3>1
    <3>6. i # 1 => f[i - 1] = g[i - 1]
      BY <3>5
    <3> QED
      BY <3>2, <3>3, <3>4, <3>6
  <2> QED
    BY <2>1, <2>2, <2>3
<1>8. Joins(f, s, k)
  <2>1. f = [i \in 1..k |-> f[i]]
    OBVIOUS
  <2> HIDE DEF f
  <2> QED
    BY <1>7, <2>1 DEF Joins
<1> QED
  BY <1>2, <1>8

LEMMA JoinsType ==
  ASSUME NEW S, NEW f, NEW s, NEW n \in Nat, Joins(f, s, n),
         \A i \in 1..n : s[i] \in Seq(S)
  PROVE  \A i \in 1..n : f[i] \in Seq(S)
<1> DEFINE Bad == {i \in 1..n : f[i] \notin Seq(S)}
<1> SUFFICES ASSUME Bad # {} PROVE FALSE
  OBVIOUS
<1>1. Bad \in SUBSET Nat
  OBVIOUS
<1> DEFINE k == Min(Bad)
<1>2. k \in Bad /\ \A j \in Bad : k <= j
  BY <1>1, MinOf
<1> HIDE DEF k
<1>3. k \in 1..n /\ f[k] \notin Seq(S)
  BY <1>2
<1>a. n > 0 /\ (k # 1 => k \in 2..n)
  BY <1>3
<1>b. f[1] = s[1]
  BY <1>a, JoinsFirst, Zenon
<1>4. k # 1
  BY <1>3, <1>b
<1>5. k - 1 \in 1..n /\ k - 1 \notin Bad
  BY <1>2, <1>3, <1>4
<1>6. f[k - 1] \in Seq(S)
  BY <1>5
<1>7. f[k] = f[k - 1] \o s[k]
  BY <1>4, <1>a, JoinsNext, Zenon
<1>8. f[k - 1] \o s[k] \in Seq(S)
  BY <1>3, <1>6, ConcatProperties
<1> QED
  BY <1>3, <1>7, <1>8

Agree(s, t, n) == \A i \in 1..n : s[i] = t[i]

\* The joins of two sequences agree as far as the sequences do.
LEMMA JoinsAgree ==
  ASSUME NEW f, NEW s, NEW n \in Nat, Joins(f, s, n),
         NEW g, NEW t, NEW m \in Nat, Joins(g, t, m),
         n <= m, Agree(s, t, n)
  PROVE  Agree(f, g, n)
<1> USE DEF Agree
<1> DEFINE Bad == {i \in 1..n : f[i] # g[i]}
<1> SUFFICES ASSUME Bad # {} PROVE FALSE
  OBVIOUS
<1>1. Bad \in SUBSET Nat
  OBVIOUS
<1> DEFINE b == Min(Bad)
<1>2. b \in Bad /\ \A j \in Bad : b <= j
  BY <1>1, MinOf
<1> HIDE DEF b
<1>3. b \in 1..n /\ f[b] # g[b]
  BY <1>2
<1>a. n > 0 /\ m > 0 /\ (b # 1 => b \in 2..n /\ b \in 2..m) /\ s[b] = t[b]
  BY <1>3
<1>b. f[1] = s[1]
  BY <1>a, JoinsFirst, Zenon
<1>c. g[1] = t[1]
  BY <1>a, JoinsFirst, Zenon
<1>4. b # 1
  BY <1>3, <1>a, <1>b, <1>c
<1>5. b - 1 \in 1..n /\ b - 1 \notin Bad
  BY <1>2, <1>3, <1>4
<1>6. f[b - 1] = g[b - 1] /\ s[b] = t[b]
  BY <1>3, <1>5
<1>7. f[b] = f[b - 1] \o s[b]
  BY <1>4, <1>a, JoinsNext, Zenon
<1>8. g[b] = g[b - 1] \o t[b]
  BY <1>4, <1>a, JoinsNext, Zenon
<1> QED
  BY <1>3, <1>6, <1>7, <1>8

LEMMA FlattenEmpty == FlattenSeq(<<>>) = <<>>
BY DEF FlattenSeq

LEMMA FlattenJoins ==
  ASSUME NEW S, NEW s \in Seq(S), Len(s) # 0
  PROVE  \E f : Joins(f, s, Len(s)) /\ FlattenSeq(s) = f[Len(s)]
<1>1. Len(s) \in Nat
  OBVIOUS
<1>2. PICK f : Joins(f, s, Len(s))
  BY <1>1, JoinsExists
<1> QED
  BY <1>2, Zenon DEF FlattenSeq, Joins

LEMMA FlattenAppend ==
  ASSUME NEW S, NEW s \in Seq(Seq(S)), NEW e \in Seq(S)
  PROVE  FlattenSeq(Append(s, e)) = FlattenSeq(s) \o e
<1> DEFINE t == Append(s, e)
<1>1. /\ t \in Seq(Seq(S)) /\ Len(t) = Len(s) + 1 /\ Len(s) \in Nat
      /\ \A i \in 1..Len(s) : t[i] = s[i]
      /\ t[Len(s) + 1] = e
  BY AppendProperties
<1> HIDE DEF t
<1>2. PICK g : Joins(g, t, Len(t)) /\ FlattenSeq(t) = g[Len(t)]
  BY <1>1, FlattenJoins
<1>3. CASE Len(s) = 0
  <2>1. s = <<>>
    BY <1>3
  <2>2. g[1] = e
    <3>1. Len(t) \in Nat /\ Len(t) > 0 /\ t[1] = e
      BY <1>1, <1>3
    <3> QED
      BY <1>2, <3>1, JoinsFirst, Zenon
  <2>3. FlattenSeq(s) \o e = e
    BY <2>1, FlattenEmpty, ConcatEmptySeq
  <2> QED
    BY <1>1, <1>2, <1>3, <2>2, <2>3 DEF t
<1>4. CASE Len(s) # 0
  <2>1. PICK f : Joins(f, s, Len(s)) /\ FlattenSeq(s) = f[Len(s)]
    BY <1>4, FlattenJoins
  <2>2. \A i \in 1..Len(s) : f[i] = g[i]
    <3>1. Len(s) \in Nat /\ Len(t) \in Nat /\ Len(s) <= Len(t)
      BY <1>1
    <3>2. Agree(s, t, Len(s))
      BY <1>1 DEF Agree
    <3>3. Joins(f, s, Len(s))
      BY <2>1
    <3>4. Joins(g, t, Len(t))
      BY <1>2
    <3>5. Agree(f, g, Len(s))
      BY <3>1, <3>2, <3>3, <3>4, JoinsAgree, Zenon
    <3> QED
      BY <3>5 DEF Agree
  <2>3. f[Len(s)] = g[Len(s)]
    BY <1>1, <1>4, <2>2
  <2>4. g[Len(s) + 1] = g[Len(s)] \o e
    <3>1. PICK i : i = Len(s) + 1
      OBVIOUS
    <3>2. i \in 2..Len(t) /\ i - 1 = Len(s) /\ Len(t) \in Nat /\ t[i] = e
      BY <1>1, <1>4, <3>1
    <3>3. Joins(g, t, Len(t))
      BY <1>2
    <3>4. g[i] = g[i - 1] \o t[i]
      BY <3>2, <3>3, JoinsNext, Zenon
    <3> QED
      BY <3>1, <3>2, <3>4
  <2> QED
    BY <1>1, <1>2, <2>1, <2>3, <2>4 DEF t
<1> QED
  BY <1>3, <1>4

LEMMA FlattenType ==
  ASSUME NEW S, NEW s \in Seq(Seq(S))
  PROVE  FlattenSeq(s) \in Seq(S)
<1>1. Len(s) \in Nat
  OBVIOUS
<1>2. CASE Len(s) = 0
  <2>1. s = <<>>
    BY <1>2
  <2>2. <<>> \in Seq(S)
    OBVIOUS
  <2> QED
    BY <2>1, <2>2, FlattenEmpty, Zenon
<1>3. CASE Len(s) # 0
  <2>1. PICK f : Joins(f, s, Len(s)) /\ FlattenSeq(s) = f[Len(s)]
    BY <1>3, FlattenJoins
  <2>2. \A i \in 1..Len(s) : s[i] \in Seq(S)
    BY ElementOfSeq
  <2>3. \A i \in 1..Len(s) : f[i] \in Seq(S)
    BY <1>1, <2>1, <2>2, JoinsType
  <2> QED
    BY <1>1, <1>3, <2>1, <2>3
<1> QED
  BY <1>2, <1>3

-----------------------------------------------------------------------------
(* The stream                                                              *)

\* Where item k ends, in bytes of the stream.
End(k) == Len(Bytes(k))

LEMMA ItemsType ==
  ASSUME items \in Streams
  PROVE  /\ Len(items) \in Nat /\ DOMAIN items = 1..Len(items)
         /\ \A i \in 1..Len(items) :
              /\ items[i].kind \in {"good", "noise", "bad"}
              /\ items[i].bytes \in Seq(Symbols)
              /\ items[i].kind = "good" => IsFrame(items[i].bytes)
              /\ items[i].kind = "noise" => IsNoise(items[i].bytes)
<1> DEFINE Item == [kind : {"good", "noise", "bad"}, bytes : Seq(Symbols)]
<1>1. /\ items \in Seq(Item)
      /\ \A i \in DOMAIN items :
           /\ items[i].kind = "good" => IsFrame(items[i].bytes)
           /\ items[i].kind = "noise" => IsNoise(items[i].bytes)
  BY ParserAssumption, Zenon
<1>2. Len(items) \in Nat /\ DOMAIN items = 1..Len(items) /\ \A i \in 1..Len(items) : items[i] \in Item
  <2> HIDE DEF Item
  <2> QED
    BY <1>1, LenProperties, ElementOfSeq
<1>3. \A i \in 1..Len(items) : items[i].kind \in {"good", "noise", "bad"} /\ items[i].bytes \in Seq(Symbols)
  BY <1>2
<1> QED
  BY <1>1, <1>2, <1>3, Zenon

\* The bytes of the first k items, one by one.
Pieces(k) == [i \in 1..k |-> items[i].bytes]

LEMMA PiecesType ==
  ASSUME items \in Streams, NEW k \in 0..Len(items)
  PROVE  Pieces(k) \in Seq(Seq(Symbols)) /\ Len(Pieces(k)) = k
<1>1. k \in Nat /\ \A i \in 1..k : items[i].bytes \in Seq(Symbols)
  BY ItemsType
<1>2. Pieces(k) \in [1..k -> Seq(Symbols)]
  BY <1>1, Zenon DEF Pieces
<1>3. Pieces(k) \in Seq(Seq(Symbols))
  BY <1>1, <1>2, SeqDef
<1>4. DOMAIN Pieces(k) = 1..k
  BY <1>2
<1>5. Len(Pieces(k)) \in Nat /\ DOMAIN Pieces(k) = 1..Len(Pieces(k))
  BY <1>3, LenProperties
<1> QED
  BY <1>1, <1>3, <1>4, <1>5

LEMMA BytesType ==
  ASSUME items \in Streams, NEW k \in 0..Len(items)
  PROVE  Bytes(k) \in Seq(Symbols)
<1>1. Bytes(k) = FlattenSeq(Pieces(k))
  BY Zenon DEF Bytes, Pieces
<1> QED
  BY <1>1, PiecesType, FlattenType

LEMMA BytesZero ==
  ASSUME items \in Streams
  PROVE  Bytes(0) = <<>>
<1>1. Pieces(0) = <<>>
  BY DEF Pieces
<1> QED
  BY <1>1, FlattenEmpty, Zenon DEF Bytes, Pieces

LEMMA BytesNext ==
  ASSUME items \in Streams, NEW k \in 0..Len(items), k < Len(items)
  PROVE  Bytes(k + 1) = Bytes(k) \o items[k + 1].bytes
<1> DEFINE b == items[k + 1].bytes
<1>1. k + 1 \in 0..Len(items) /\ k + 1 \in 1..Len(items) /\ k \in Nat
  BY ItemsType
<1>2. b \in Seq(Symbols)
  BY <1>1, ItemsType
<1>3. Pieces(k) \in Seq(Seq(Symbols)) /\ Len(Pieces(k)) = k
  BY PiecesType
<1>4. Pieces(k + 1) \in Seq(Seq(Symbols)) /\ Len(Pieces(k + 1)) = k + 1
  BY <1>1, PiecesType
<1>5. /\ Append(Pieces(k), b) \in Seq(Seq(Symbols))
      /\ Len(Append(Pieces(k), b)) = k + 1
      /\ \A i \in 1..k : Append(Pieces(k), b)[i] = Pieces(k)[i]
      /\ Append(Pieces(k), b)[k + 1] = b
  BY <1>2, <1>3, AppendProperties
<1>6. \A i \in 1..(k + 1) : Pieces(k + 1)[i] = Append(Pieces(k), b)[i]
  <2> SUFFICES ASSUME NEW i \in 1..(k + 1) PROVE Pieces(k + 1)[i] = Append(Pieces(k), b)[i]
    OBVIOUS
  <2>1. Pieces(k + 1)[i] = items[i].bytes
    BY DEF Pieces
  <2>2. i \in 1..k => Pieces(k)[i] = items[i].bytes
    BY DEF Pieces
  <2>3. i \in 1..k \/ i = k + 1
    BY <1>1
  <2> QED
    BY <1>5, <2>1, <2>2, <2>3, Zenon
<1>7. Pieces(k + 1) = Append(Pieces(k), b)
  BY <1>4, <1>5, <1>6, SeqEqual
<1>8. Bytes(k + 1) = FlattenSeq(Pieces(k + 1)) /\ Bytes(k) = FlattenSeq(Pieces(k))
  BY Zenon DEF Bytes, Pieces
<1>9. FlattenSeq(Append(Pieces(k), b)) = FlattenSeq(Pieces(k)) \o b
  BY <1>2, <1>3, FlattenAppend
<1> QED
  BY <1>7, <1>8, <1>9, Zenon

LEMMA EndNext ==
  ASSUME items \in Streams
  PROVE  /\ End(0) = 0
         /\ \A k \in 0..Len(items) : End(k) \in Nat
         /\ \A k \in 1..Len(items) :
              End(k) = End(k - 1) + Len(items[k].bytes) /\ Len(items[k].bytes) \in Nat
<1>1. End(0) = 0
  BY BytesZero DEF End
<1>2. \A k \in 0..Len(items) : End(k) \in Nat
  BY BytesType, LenProperties DEF End
<1>3. ASSUME NEW k \in 1..Len(items)
      PROVE  End(k) = End(k - 1) + Len(items[k].bytes) /\ Len(items[k].bytes) \in Nat
  <2>1. PICK j : j = k - 1
    OBVIOUS
  <2>2. j \in 0..Len(items) /\ j < Len(items) /\ j + 1 = k
    BY <2>1, ItemsType
  <2>3. Bytes(j + 1) = Bytes(j) \o items[j + 1].bytes
    BY <2>2, BytesNext
  <2>4. Bytes(j) \in Seq(Symbols) /\ items[k].bytes \in Seq(Symbols)
    BY <2>2, BytesType, ItemsType
  <2>5. Bytes(k) = Bytes(j) \o items[k].bytes
    BY <2>2, <2>3
  <2>6. Len(Bytes(k)) = Len(Bytes(j)) + Len(items[k].bytes)
    BY <2>4, <2>5, ConcatProperties
  <2> QED
    BY <2>1, <2>4, <2>6 DEF End
<1> QED
  BY <1>1, <1>2, <1>3

LEMMA EndMonotone ==
  ASSUME items \in Streams, NEW i \in 0..Len(items), NEW j \in 0..Len(items), i <= j
  PROVE  End(i) <= End(j)
<1> DEFINE Bad == {k \in i..Len(items) : ~(End(i) <= End(k))}
<1> SUFFICES ASSUME Bad # {} PROVE FALSE
  BY ItemsType
<1>1. Bad \in SUBSET Nat
  BY ItemsType
<1> DEFINE k == Min(Bad)
<1>2. k \in Bad /\ \A n \in Bad : k <= n
  BY <1>1, MinOf
<1> HIDE DEF k
<1>3. k \in i..Len(items) /\ ~(End(i) <= End(k)) /\ Len(items) \in Nat
  BY <1>2, ItemsType
<1>4. k # i /\ k \in 1..Len(items) /\ k - 1 \in 0..Len(items)
  BY <1>3, EndNext
<1>5. k - 1 \in i..Len(items) /\ k - 1 \notin Bad
  BY <1>2, <1>3, <1>4
<1>6. End(i) <= End(k - 1)
  BY <1>5
<1>7. End(k) = End(k - 1) + Len(items[k].bytes) /\ Len(items[k].bytes) \in Nat
  BY <1>4, EndNext
<1>8. End(k - 1) \in Nat /\ End(i) \in Nat
  BY <1>4, EndNext
<1> QED
  BY <1>3, <1>6, <1>7, <1>8

\* What has been sent is not changed by what follows.
LEMMA BytesPrefix ==
  ASSUME items \in Streams, NEW k \in 0..Len(items), NEW x \in 1..End(k)
  PROVE  Stream[x] = Bytes(k)[x]
<1> DEFINE Bad == {n \in k..Len(items) : Bytes(n)[x] # Bytes(k)[x]}
<1>a. Len(items) \in Nat /\ Len(items) \in k..Len(items)
  BY ItemsType
<1> SUFFICES ASSUME Bad # {} PROVE FALSE
  BY <1>a DEF Stream
<1>1. Bad \in SUBSET Nat
  BY <1>a
<1> DEFINE n == Min(Bad)
<1>2. n \in Bad /\ \A y \in Bad : n <= y
  BY <1>1, MinOf
<1> HIDE DEF n
<1>3. n \in k..Len(items) /\ Bytes(n)[x] # Bytes(k)[x] /\ n # k
  BY <1>2
<1>4. PICK m : m = n - 1
  OBVIOUS
<1>5. m \in k..Len(items) /\ m \in 0..Len(items) /\ m < Len(items) /\ m + 1 = n /\ m \notin Bad
  BY <1>2, <1>3, <1>4, <1>a
<1>6. Bytes(m)[x] = Bytes(k)[x]
  BY <1>5
<1>7. Bytes(n) = Bytes(m) \o items[n].bytes
  BY <1>5, BytesNext
<1>8. Bytes(m) \in Seq(Symbols) /\ items[n].bytes \in Seq(Symbols)
  BY <1>3, <1>5, BytesType, ItemsType
<1>9. x \in 1..Len(Bytes(m))
  <2>1. End(k) <= End(m) /\ End(m) \in Nat /\ End(k) \in Nat
    BY <1>5, EndMonotone, EndNext
  <2> QED
    BY <2>1 DEF End
<1>10. Bytes(n)[x] = Bytes(m)[x]
  BY <1>7, <1>8, <1>9, ConcatProperties
<1> QED
  BY <1>3, <1>6, <1>10

LEMMA StreamAt ==
  ASSUME items \in Streams, NEW k \in 1..Len(items), NEW j \in 1..Len(items[k].bytes)
  PROVE  /\ End(k - 1) + j \in 1..Len(Stream)
         /\ Stream[End(k - 1) + j] = items[k].bytes[j]
<1>1. PICK m : m = k - 1
  OBVIOUS
<1>2. m \in 0..Len(items) /\ m < Len(items) /\ m + 1 = k /\ k \in 0..Len(items) /\ Len(items) \in 0..Len(items)
  BY <1>1, ItemsType
<1>3. Bytes(k) = Bytes(m) \o items[k].bytes
  BY <1>2, BytesNext
<1>4. Bytes(m) \in Seq(Symbols) /\ items[k].bytes \in Seq(Symbols)
  BY <1>2, BytesType, ItemsType
<1>5. End(m) \in Nat /\ End(k) = End(m) + Len(items[k].bytes) /\ Len(items[k].bytes) \in Nat
  BY <1>1, <1>2, EndNext
<1>6. End(m) + j \in 1..End(k) /\ j \in Nat
  BY <1>5
<1>7. Bytes(k)[End(m) + j] = items[k].bytes[j]
  <2>1. PICK x : x = End(m) + j
    OBVIOUS
  <2>2. x \in 1..(Len(Bytes(m)) + Len(items[k].bytes)) /\ ~(x <= Len(Bytes(m))) /\ x - Len(Bytes(m)) = j
    BY <1>5, <1>6, <2>1 DEF End
  <2>3. Bytes(k)[x] = items[k].bytes[x - Len(Bytes(m))]
    BY <1>3, <1>4, <2>2, ConcatProperties
  <2> QED
    BY <2>1, <2>2, <2>3
<1>8. Stream[End(m) + j] = Bytes(k)[End(m) + j]
  BY <1>2, <1>6, BytesPrefix
<1>9. End(k) <= Len(Stream) /\ End(k) \in Nat /\ Len(Stream) \in Nat
  BY <1>2, EndMonotone, EndNext DEF End, Stream
<1> QED
  BY <1>1, <1>5, <1>6, <1>7, <1>8, <1>9

\* Every byte is a byte of some item.
LEMMA ItemOf ==
  ASSUME items \in Streams, NEW x \in 1..Len(Stream)
  PROVE  \E i \in 1..Len(items) : End(i - 1) < x /\ x <= End(i)
<1> DEFINE Ends == {i \in 0..Len(items) : x <= End(i)}
<1>1. Len(items) \in Ends /\ Ends \in SUBSET Nat
  BY ItemsType DEF End, Stream
<1> DEFINE i == Min(Ends)
<1>2. i \in Ends /\ \A y \in Ends : i <= y
  BY <1>1, MinOf
<1> HIDE DEF i
<1>3. i \in 0..Len(items) /\ x <= End(i) /\ Len(items) \in Nat
  BY <1>2, ItemsType
<1>4. i # 0
  BY <1>3, EndNext
<1>5. i - 1 \in 0..Len(items) /\ i \in 1..Len(items) /\ i - 1 \notin Ends
  BY <1>2, <1>3, <1>4
<1>6. ~(x <= End(i - 1)) /\ End(i - 1) \in Nat
  BY <1>5, EndNext
<1> QED
  BY <1>3, <1>5, <1>6

-----------------------------------------------------------------------------
(* Places in a buffer, and a message at its beginning                      *)

LEMMA SymbolsDiffer ==
  /\ Soh # Eight /\ Soh # Fix /\ Soh # Nine /\ Soh # Ten /\ Soh # Sum
  /\ Eight # Fix /\ Eight # Nine /\ Eight # Ten /\ Eight # Sum
  /\ Fix # Nine /\ Fix # Ten /\ Fix # Sum
  /\ Nine # Ten /\ Nine # Sum /\ Ten # Sum
  /\ Soh \notin Nat /\ Eight \notin Nat /\ Fix \notin Nat /\ Nine \notin Nat
  /\ Ten \notin Nat /\ Sum \notin Nat
  /\ {Soh, Eight, Fix, Nine, Ten, Sum} \cup Nat \subseteq Symbols
BY DEF Soh, Eight, Fix, Nine, Ten, Sum, Text, Symbols

LEMMA OneIs ==
  ASSUME NEW S, NEW t \in Seq(S), NEW x \in S, Len(t) = 1
  PROVE  t = <<x>> <=> t[1] = x
<1>1. <<x>> \in Seq(S) /\ Len(<<x>>) = 1 /\ <<x>>[1] = x
  OBVIOUS
<1>2. ASSUME t[1] = x PROVE t = <<x>>
  <2>1. \A i \in 1..Len(t) : t[i] = <<x>>[i]
    BY <1>2
  <2> QED
    BY <1>1, <2>1, SeqEqual, Zenon
<1> QED
  BY <1>1, <1>2

LEMMA TwoIs ==
  ASSUME NEW S, NEW t \in Seq(S), NEW x \in S, NEW y \in S, Len(t) = 2
  PROVE  t = <<x, y>> <=> t[1] = x /\ t[2] = y
<1>1. <<x, y>> \in Seq(S) /\ Len(<<x, y>>) = 2 /\ <<x, y>>[1] = x /\ <<x, y>>[2] = y
  OBVIOUS
<1>2. ASSUME t[1] = x, t[2] = y PROVE t = <<x, y>>
  <2>1. \A i \in 1..Len(t) : t[i] = <<x, y>>[i]
    BY <1>2
  <2> QED
    BY <1>1, <2>1, SeqEqual, Zenon
<1> QED
  BY <1>1, <1>2

LEMMA PlacesOne ==
  ASSUME NEW s \in Seq(Symbols), NEW x \in Symbols
  PROVE  Places(s, <<x>>) = {i \in 1..Len(s) : s[i] = x}
<1>1. Len(<<x>>) = 1 /\ Len(s) \in Nat
  OBVIOUS
<1>2. ASSUME NEW i \in 1..Len(s)
      PROVE  SubSeq(s, i, i) = <<x>> <=> s[i] = x
  <2>1. s[i] \in Symbols
    BY ElementOfSeq
  <2>2. SubSeq(s, i, i) \in Seq(Symbols) /\ Len(SubSeq(s, i, i)) = 1 /\ SubSeq(s, i, i)[1] = s[i]
    BY <2>1, <1>1, SubSeqProperties
  <2>3. SubSeq(s, i, i) = <<x>> <=> SubSeq(s, i, i)[1] = x
    BY <2>2, OneIs, Zenon
  <2> QED
    BY <2>2, <2>3, Zenon
<1>3. Places(s, <<x>>) = {i \in 1..Len(s) : SubSeq(s, i, i) = <<x>>}
  BY <1>1 DEF Places
<1> QED
  BY <1>2, <1>3

LEMMA PlacesBegin ==
  ASSUME NEW s \in Seq(Symbols)
  PROVE  Places(s, BeginString) = {i \in 1..(Len(s) - 1) : s[i] = Eight /\ s[i + 1] = Fix}
<1>1. Len(BeginString) = 2 /\ Len(s) \in Nat
  BY DEF BeginString
<1>2. ASSUME NEW i \in 1..(Len(s) - 1)
      PROVE  SubSeq(s, i, i + 1) = BeginString <=> s[i] = Eight /\ s[i + 1] = Fix
  <2>1. i \in 1..Len(s) /\ i + 1 \in 1..Len(s) /\ i \in Int /\ i + 1 \in Int
    BY <1>1
  <2>2. \A j \in i..(i + 1) : s[j] \in Symbols
    BY <1>1, <2>1, ElementOfSeq
  <2>3. PICK t : t = SubSeq(s, i, i + 1)
    OBVIOUS
  <2>4. /\ t \in Seq(Symbols)
        /\ Len(t) = IF i <= i + 1 THEN i + 1 - i + 1 ELSE 0
        /\ \A j \in 1..(i + 1 - i + 1) : t[j] = s[i + j - 1]
    BY <2>1, <2>2, <2>3, SubSeqProperties
  <2>5. t \in Seq(Symbols) /\ Len(t) = 2 /\ t[1] = s[i] /\ t[2] = s[i + 1]
    BY <2>1, <2>4
  <2>6. Eight \in Symbols /\ Fix \in Symbols
    BY SymbolsDiffer
  <2>7. t = <<Eight, Fix>> <=> t[1] = Eight /\ t[2] = Fix
    BY <2>5, <2>6, TwoIs
  <2> QED
    BY <2>3, <2>5, <2>7, Zenon DEF BeginString
<1>3. Places(s, BeginString) = {i \in 1..(Len(s) - 1) : SubSeq(s, i, i + 1) = BeginString}
  BY <1>1 DEF Places
<1> QED
  BY <1>2, <1>3

LEMMA FromIs ==
  ASSUME NEW s \in Seq(Symbols), NEW i \in 1..(Len(s) + 1)
  PROVE  /\ From(s, i) \in Seq(Symbols)
         /\ Len(From(s, i)) = Len(s) - i + 1
         /\ \A j \in 1..(Len(s) - i + 1) : From(s, i)[j] = s[i + j - 1]
<1>1. i \in Int /\ Len(s) \in Int /\ \A j \in i..Len(s) : s[j] \in Symbols
  BY ElementOfSeq
<1> QED
  BY <1>1, SubSeqProperties DEF From

LEMMA FrameIs ==
  ASSUME NEW b \in Seq(Symbols), IsFrame(b)
  PROVE  /\ Len(b) - 9 \in 0..MaxBodyLen
         /\ b[1] = Eight /\ b[2] = Fix /\ b[3] = Soh /\ b[4] = Nine /\ b[5] = Len(b) - 9 /\ b[6] = Soh
         /\ b[Len(b) - 2] = Ten /\ b[Len(b) - 1] = Sum /\ b[Len(b)] = Soh
<1>1. PICK n : n = Len(b) - 9
  OBVIOUS
<1>2. n \in 0..MaxBodyLen /\ b = Frame(n, SubSeq(b, 7, n + 6)) /\ Len(b) = n + 9 /\ n \in Nat /\ MaxBodyLen \in Nat
  BY <1>1, ParserAssumption DEF IsFrame
<1>3. PICK body : body = SubSeq(b, 7, n + 6)
  OBVIOUS
<1>4. body \in Seq(Symbols) /\ Len(body) = n
  <2>1. \A j \in 7..(n + 6) : b[j] \in Symbols
    BY <1>2, ElementOfSeq
  <2> QED
    BY <1>2, <1>3, <2>1, SubSeqProperties
<1> DEFINE head == <<Eight, Fix, Soh, Nine, n, Soh>>
           tail == <<Ten, Sum, Soh>>
<1>5. /\ head \in Seq(Symbols) /\ Len(head) = 6 /\ tail \in Seq(Symbols) /\ Len(tail) = 3
      /\ head[1] = Eight /\ head[2] = Fix /\ head[3] = Soh /\ head[4] = Nine /\ head[5] = n /\ head[6] = Soh
      /\ tail[1] = Ten /\ tail[2] = Sum /\ tail[3] = Soh
  BY <1>2, SymbolsDiffer
<1>6. b = (head \o body) \o tail
  BY <1>2, <1>3 DEF Frame
<1> HIDE DEF head, tail
<1>7. PICK front : front = head \o body
  OBVIOUS
<1>8. /\ front \in Seq(Symbols) /\ Len(front) = n + 6
      /\ \A i \in 1..6 : front[i] = head[i]
  <2>1. /\ front \in Seq(Symbols) /\ Len(front) = Len(head) + Len(body)
        /\ \A i \in 1..(Len(head) + Len(body)) :
             front[i] = IF i <= Len(head) THEN head[i] ELSE body[i - Len(head)]
    BY <1>4, <1>5, <1>7, ConcatProperties, Zenon
  <2>2. \A i \in 1..6 : i \in 1..(Len(head) + Len(body)) /\ i <= Len(head)
    BY <1>2, <1>4, <1>5
  <2> QED
    BY <1>2, <1>4, <1>5, <2>1, <2>2
<1>a. b = front \o tail
  BY <1>6, <1>7, Zenon
<1>9. /\ \A i \in 1..6 : b[i] = head[i]
      /\ \A i \in (n + 7)..(n + 9) : b[i] = tail[i - (n + 6)]
  <2>1. \A i \in 1..(Len(front) + Len(tail)) :
          b[i] = IF i <= Len(front) THEN front[i] ELSE tail[i - Len(front)]
    BY <1>5, <1>8, <1>a, ConcatProperties, Zenon
  <2>2. \A i \in 1..6 : i \in 1..(Len(front) + Len(tail)) /\ i <= Len(front)
    BY <1>2, <1>5, <1>8
  <2>3. \A i \in 1..6 : b[i] = head[i]
    BY <1>8, <2>1, <2>2
  <2>4. \A i \in (n + 7)..(n + 9) : i \in 1..(Len(front) + Len(tail)) /\ ~(i <= Len(front))
    BY <1>2, <1>5, <1>8
  <2>5. \A i \in (n + 7)..(n + 9) : b[i] = tail[i - Len(front)]
    BY <2>1, <2>4
  <2> QED
    BY <1>8, <2>3, <2>5
<1>10. b[n + 7] = tail[1] /\ b[n + 8] = tail[2] /\ b[n + 9] = tail[3]
  BY <1>2, <1>9
<1>11. b[Len(b) - 2] = Ten /\ b[Len(b) - 1] = Sum /\ b[Len(b)] = Soh
  BY <1>2, <1>5, <1>10
<1> QED
  BY <1>1, <1>2, <1>5, <1>9, <1>11

\* What build_from_fields makes of any fields is a message the parser reads, if its
\* body is not too long: the assumption on good items asks for no more than that
\* they were built (fix_message.cpp, build_from_fields).
THEOREM BuiltIsFrame ==
  ASSUME NEW fields \in Seq(Seq(Symbols)), Len(Build(fields)) - 9 <= MaxBodyLen
  PROVE  IsFrame(Build(fields))
<1> DEFINE texts == [i \in DOMAIN fields |->
                       IF fields[i][1] \in {Eight, Nine, Ten} THEN <<>> ELSE Append(fields[i], Soh)]
<1>1. texts \in Seq(Seq(Symbols))
  <2>1. Len(fields) \in Nat /\ DOMAIN fields = 1..Len(fields) /\ \A i \in 1..Len(fields) : fields[i] \in Seq(Symbols)
    BY ElementOfSeq
  <2>2. Soh \in Symbols
    BY SymbolsDiffer
  <2>3. \A i \in 1..Len(fields) : texts[i] \in Seq(Symbols)
    BY <2>1, <2>2
  <2> QED
    BY <2>1, <2>3, IsASeq
<1>2. PICK body : body = FlattenSeq(texts)
  OBVIOUS
<1>3. body \in Seq(Symbols) /\ Len(body) \in Nat
  BY <1>1, <1>2, FlattenType
<1>4. PICK n : n = Len(body)
  OBVIOUS
<1>5. Build(fields) = Frame(n, body)
  BY <1>2, <1>4, Zenon DEF Build
<1> DEFINE head == <<Eight, Fix, Soh, Nine, n, Soh>>
           tail == <<Ten, Sum, Soh>>
<1>6. head \in Seq(Symbols) /\ Len(head) = 6 /\ tail \in Seq(Symbols) /\ Len(tail) = 3
  BY <1>3, <1>4, SymbolsDiffer
<1>7. PICK b : b = (head \o body) \o tail
  OBVIOUS
<1>8. Build(fields) = b
  BY <1>5, <1>7, Zenon DEF Frame
<1> HIDE DEF head, tail
<1>9. PICK front : front = head \o body
  OBVIOUS
<1>10. /\ front \in Seq(Symbols) /\ Len(front) = n + 6 /\ n \in Nat
       /\ \A i \in 1..n : front[i + 6] = body[i]
  <2>1. /\ front \in Seq(Symbols) /\ Len(front) = Len(head) + Len(body)
        /\ \A i \in 1..(Len(head) + Len(body)) :
             front[i] = IF i <= Len(head) THEN head[i] ELSE body[i - Len(head)]
    BY <1>3, <1>6, <1>9, ConcatProperties, Zenon
  <2>2. ASSUME NEW i \in 1..n PROVE front[i + 6] = body[i]
    <3>1. PICK j : j = i + 6
      OBVIOUS
    <3>2. j \in 1..(Len(head) + Len(body)) /\ ~(j <= Len(head)) /\ j - Len(head) = i
      BY <1>3, <1>4, <1>6, <3>1
    <3>3. front[j] = body[j - Len(head)]
      BY <2>1, <3>2
    <3> QED
      BY <3>1, <3>2, <3>3
  <2> QED
    BY <1>3, <1>4, <1>6, <2>1, <2>2
<1>11. /\ b \in Seq(Symbols) /\ Len(b) = n + 9
       /\ \A i \in 1..(n + 6) : b[i] = front[i]
  <2>1. /\ b \in Seq(Symbols) /\ Len(b) = Len(front) + Len(tail)
        /\ \A i \in 1..(Len(front) + Len(tail)) :
             b[i] = IF i <= Len(front) THEN front[i] ELSE tail[i - Len(front)]
    BY <1>6, <1>7, <1>9, <1>10, ConcatProperties, Zenon
  <2>2. \A i \in 1..(n + 6) : i \in 1..(Len(front) + Len(tail)) /\ i <= Len(front)
    BY <1>6, <1>10
  <2> QED
    BY <1>6, <1>10, <2>1, <2>2
<1>12. PICK z : z = n + 6
  OBVIOUS
<1>13. SubSeq(b, 7, z) = body
  <2>1. \A i \in 7..z : b[i] \in Symbols
    BY <1>10, <1>11, <1>12, ElementOfSeq
  <2>2. PICK t : t = SubSeq(b, 7, z)
    OBVIOUS
  <2>3. /\ t \in Seq(Symbols) /\ Len(t) = IF 7 <= z THEN z - 7 + 1 ELSE 0
        /\ \A i \in 1..(z - 7 + 1) : t[i] = b[7 + i - 1]
    BY <1>10, <1>12, <2>1, <2>2, SubSeqProperties
  <2>4. Len(t) = n /\ z - 7 + 1 = n
    BY <1>10, <1>12, <2>3
  <2>5. ASSUME NEW i \in 1..n PROVE t[i] = body[i]
    <3>1. 7 + i - 1 = i + 6 /\ i + 6 \in 1..(n + 6) /\ i \in 1..(z - 7 + 1)
      BY <1>10, <2>4
    <3>2. t[i] = b[i + 6] /\ b[i + 6] = front[i + 6] /\ front[i + 6] = body[i]
      BY <1>10, <1>11, <2>3, <3>1
    <3> QED
      BY <3>2
  <2>6. t = body
    BY <1>3, <1>4, <2>3, <2>4, <2>5, SeqEqual
  <2> QED
    BY <2>2, <2>6
<1>14. IsFrame(b)
  <2>1. Len(b) - 9 = n /\ n \in 0..MaxBodyLen
    BY <1>8, <1>10, <1>11, ParserAssumption
  <2>2. b = Frame(n, SubSeq(b, 7, n + 6))
    BY <1>5, <1>8, <1>12, <1>13, Zenon
  <2> QED
    BY <2>1, <2>2, Zenon DEF IsFrame
<1> QED
  BY <1>8, <1>14

\* A buffer that begins with a message, or with the beginning of one.
BeginsWith(s, b) ==
  Len(s) >= 2 /\ \A i \in DOMAIN s : i <= Len(b) => s[i] = b[i]

\* BodyLength finds the length of that message as soon as it has been received.
LEMMA BodyLengthOfFrame ==
  ASSUME NEW b \in Seq(Symbols), IsFrame(b), NEW s \in Seq(Symbols), BeginsWith(s, b)
  PROVE  /\ BodyLength(s) # {} => BodyLength(s) = {[length |-> Len(b) - 9, end |-> 6]}
         /\ Len(s) >= 6 => BodyLength(s) # {}
<1> DEFINE fields == LengthFields(s)
           first  == Min(fields)
<1>1. /\ Len(b) - 9 \in 0..MaxBodyLen /\ MaxBodyLen \in Nat
      /\ b[1] = Eight /\ b[2] = Fix /\ b[3] = Soh /\ b[4] = Nine /\ b[5] = Len(b) - 9 /\ b[6] = Soh
  BY FrameIs, ParserAssumption
<1>2. Len(s) \in Nat /\ Len(b) \in Nat /\ Len(b) >= 9 /\ DOMAIN s = 1..Len(s)
  BY <1>1, LenProperties
<1>3. \A i \in 1..Len(s) : i <= Len(b) => s[i] = b[i]
  BY <1>2 DEF BeginsWith
<1>4. fields = {i \in 1..Len(s) : s[i] = Nine /\ (i = 1 \/ s[i - 1] = Soh)}
  BY PlacesOne, SymbolsDiffer DEF LengthFields
<1>5. fields \in SUBSET Nat
  BY <1>4
<1>6. \A i \in fields : i >= 4
  <2> SUFFICES ASSUME NEW i \in 1..3, i <= Len(s) PROVE s[i] # Nine
    BY <1>4, <1>2
  <2>1. s[i] = b[i]
    BY <1>2, <1>3
  <2> QED
    BY <1>1, <2>1, SymbolsDiffer
<1>7. ASSUME Len(s) >= 4 PROVE 4 \in fields /\ first = 4
  <2>1. s[4] = Nine /\ s[3] = Soh
    BY <1>1, <1>2, <1>3, <1>7
  <2>2. 4 \in fields
    BY <1>2, <1>4, <1>7, <2>1
  <2> HIDE DEF fields
  <2> QED
    BY <1>5, <1>6, <2>2, MinIs
<1>8. ASSUME Len(s) < 4 PROVE fields = {}
  <2>1. \A i \in fields : i \in 1..Len(s)
    BY <1>4
  <2> HIDE DEF fields
  <2> QED
    BY <1>2, <1>6, <1>8, <2>1
<1> DEFINE found == /\ fields # {} /\ first + 2 <= Len(s)
                    /\ s[first + 1] \in 0..MaxBodyLen /\ s[first + 2] = Soh
<1>9. BodyLength(s) = IF found THEN {[length |-> s[first + 1], end |-> first + 2]} ELSE {}
  BY Zenon DEF BodyLength
<1> HIDE DEF fields, first
<1>10. ASSUME found PROVE s[first + 1] = Len(b) - 9 /\ first + 2 = 6
  <2>1. Len(s) >= 4
    BY <1>2, <1>8, <1>10
  <2>2. first = 4 /\ 5 <= Len(s)
    BY <1>2, <1>7, <1>10, <2>1
  <2>3. s[5] = b[5]
    BY <1>2, <1>3, <2>2
  <2> QED
    BY <1>1, <2>2, <2>3
<1>11. ASSUME Len(s) >= 6 PROVE found
  <2>1. 4 \in fields /\ first = 4
    BY <1>7, <1>11, <1>2
  <2>2. s[5] = b[5] /\ s[6] = b[6]
    BY <1>2, <1>3, <1>11
  <2> QED
    BY <1>1, <1>2, <1>11, <2>1, <2>2
<1> HIDE DEF found
<1> QED
  BY <1>9, <1>10, <1>11

-----------------------------------------------------------------------------
(* read_next_message                                                       *)

LEMMA FromFrom ==
  ASSUME NEW s \in Seq(Symbols), NEW i \in 1..(Len(s) + 1), NEW j \in 1..(Len(s) - i + 2)
  PROVE  From(From(s, i), j) = From(s, i + j - 1)
<1>1. PICK t : t = From(s, i)
  OBVIOUS
<1>2. t \in Seq(Symbols) /\ Len(t) = Len(s) - i + 1 /\ \A x \in 1..(Len(s) - i + 1) : t[x] = s[i + x - 1]
  BY <1>1, FromIs
<1>3. PICK k : k = i + j - 1
  OBVIOUS
<1>4. Len(s) \in Nat /\ i \in Nat /\ j \in Nat /\ j \in 1..(Len(t) + 1) /\ k \in 1..(Len(s) + 1)
  BY <1>2, <1>3
<1>5. PICK u : u = From(t, j)
  OBVIOUS
<1>6. u \in Seq(Symbols) /\ Len(u) = Len(t) - j + 1 /\ \A x \in 1..(Len(t) - j + 1) : u[x] = t[j + x - 1]
  BY <1>2, <1>4, <1>5, FromIs
<1>7. PICK v : v = From(s, k)
  OBVIOUS
<1>8. v \in Seq(Symbols) /\ Len(v) = Len(s) - k + 1 /\ \A x \in 1..(Len(s) - k + 1) : v[x] = s[k + x - 1]
  BY <1>4, <1>7, FromIs
<1>9. Len(u) = Len(v)
  BY <1>2, <1>3, <1>4, <1>6, <1>8
<1>10. ASSUME NEW x \in 1..Len(u) PROVE u[x] = v[x]
  <2>1. PICK y : y = j + x - 1
    OBVIOUS
  <2>2. x \in 1..(Len(t) - j + 1) /\ x \in 1..(Len(s) - k + 1) /\ y \in 1..(Len(s) - i + 1)
    BY <1>2, <1>3, <1>4, <1>6, <1>8, <1>9, <2>1
  <2>3. u[x] = t[y] /\ t[y] = s[i + y - 1] /\ v[x] = s[k + x - 1]
    BY <1>2, <1>6, <1>8, <2>1, <2>2
  <2>4. i + y - 1 = k + x - 1
    BY <1>3, <1>4, <2>1, <2>2
  <2> QED
    BY <2>3, <2>4
<1> QED
  BY <1>1, <1>3, <1>5, <1>6, <1>7, <1>8, <1>9, <1>10, SeqEqual

LEMMA BodyLengthType ==
  ASSUME NEW s \in Seq(Symbols), NEW field \in BodyLength(s)
  PROVE  field.end \in 3..Len(s) /\ field.length \in Nat
<1> DEFINE fields == LengthFields(s)
           first  == Min(fields)
           found  == /\ fields # {} /\ first + 2 <= Len(s)
                     /\ s[first + 1] \in 0..MaxBodyLen /\ s[first + 2] = Soh
<1>1. BodyLength(s) = IF found THEN {[length |-> s[first + 1], end |-> first + 2]} ELSE {}
  BY Zenon DEF BodyLength
<1>2. fields \in SUBSET Nat /\ \A i \in fields : i >= 1
  BY PlacesOne, SymbolsDiffer DEF LengthFields
<1> HIDE DEF fields
<1>3. ASSUME found PROVE first \in Nat /\ first >= 1 /\ s[first + 1] \in Nat /\ first + 2 <= Len(s)
  <2>1. first \in fields
    BY <1>2, <1>3, MinOf
  <2>2. first \in Nat /\ first >= 1
    BY <1>2, <2>1
  <2> HIDE DEF first
  <2> QED
    BY <1>3, <2>2, ParserAssumption
<1> HIDE DEF found, first
<1>4. found /\ field = [length |-> s[first + 1], end |-> first + 2]
  BY <1>1
<1> QED
  BY <1>3, <1>4

\* What is behind the value of the first "9=" does not matter.
LEMMA LengthOfPart ==
  ASSUME NEW r \in Seq(Symbols), NEW s \in Seq(Symbols), Len(r) <= Len(s),
         \A i \in 1..Len(r) : s[i] = r[i],
         LengthFields(r) # {}, Min(LengthFields(r)) + 2 <= Len(r)
  PROVE  BodyLength(s) = BodyLength(r)
<1>1. /\ LengthFields(r) = {i \in 1..Len(r) : r[i] = Nine /\ (i = 1 \/ r[i - 1] = Soh)}
      /\ LengthFields(s) = {i \in 1..Len(s) : s[i] = Nine /\ (i = 1 \/ s[i - 1] = Soh)}
      /\ Len(r) \in Nat /\ Len(s) \in Nat
  BY PlacesOne, SymbolsDiffer DEF LengthFields
<1>2. PICK n : n = Min(LengthFields(r))
  OBVIOUS
<1>3. n \in LengthFields(r) /\ \A i \in LengthFields(r) : n <= i
  <2>1. LengthFields(r) \in SUBSET Nat
    BY <1>1
  <2> QED
    BY <1>2, <2>1, MinOf
<1>4. n \in 1..Len(r) /\ n + 2 <= Len(r)
  BY <1>1, <1>2, <1>3
<1>5. \A i \in 1..n : i \in LengthFields(s) <=> i \in LengthFields(r)
  <2> SUFFICES ASSUME NEW i \in 1..n PROVE i \in LengthFields(s) <=> i \in LengthFields(r)
    OBVIOUS
  <2>1. i \in 1..Len(r) /\ i \in 1..Len(s) /\ s[i] = r[i]
    BY <1>1, <1>4
  <2>2. i # 1 => i - 1 \in 1..Len(r) /\ s[i - 1] = r[i - 1]
    BY <1>1, <1>4
  <2> QED
    BY <1>1, <2>1, <2>2
<1>6. n \in LengthFields(s) /\ \A i \in LengthFields(s) : n <= i
  <2>1. n \in LengthFields(s)
    BY <1>1, <1>3, <1>4, <1>5
  <2>2. ASSUME NEW i \in LengthFields(s), ~(n <= i) PROVE FALSE
    <3>1. i \in 1..n
      BY <1>1, <1>4, <2>2
    <3> QED
      BY <1>3, <1>5, <2>2, <3>1
  <2> QED
    BY <2>1, <2>2
<1>7. Min(LengthFields(s)) = n /\ LengthFields(s) # {}
  <2>1. LengthFields(s) \in SUBSET Nat
    BY <1>1
  <2> QED
    BY <1>6, <2>1, MinIs
<1>8. s[n + 1] = r[n + 1] /\ s[n + 2] = r[n + 2] /\ n + 2 <= Len(s)
  BY <1>1, <1>4
<1> DEFINE found(x) == /\ LengthFields(x) # {} /\ n + 2 <= Len(x)
                       /\ x[n + 1] \in 0..MaxBodyLen /\ x[n + 2] = Soh
<1>9. /\ BodyLength(s) = IF found(s) THEN {[length |-> s[n + 1], end |-> n + 2]} ELSE {}
      /\ BodyLength(r) = IF found(r) THEN {[length |-> r[n + 1], end |-> n + 2]} ELSE {}
  BY <1>2, <1>7, Zenon DEF BodyLength
<1>10. found(s) <=> found(r)
  BY <1>4, <1>7, <1>8
<1> HIDE DEF found
<1> QED
  BY <1>8, <1>9, <1>10

\* Where BodyLength says the trailer is.
TrailerAt(s, t) == \E field \in BodyLength(s) : t = field.end + 1 + field.length

\* What read_next_message does with a buffer that begins with "8=FIX", by the
\* places it looks at: t where the trailer has to be, e where the message ends.
Waits(s) == buffer' = s /\ at' = "recv" /\ delivered' = delivered

Rejects(s, d) ==
  /\ buffer' = From(s, d + 1) /\ at' = "recv" /\ delivered' = delivered
  /\ \A i \in Places(s, BeginString) : i > 1 => d < i

Reads(s, t, e) ==
  /\ TrailerAt(s, t)
  /\ s[t] = Ten /\ s[e] = Soh /\ \A i \in (t + 1)..(e - 1) : s[i] # Soh
  /\ delivered' = Append(delivered, SubSeq(s, 1, e))
  /\ buffer' = From(s, e + 1) /\ at' = at

LEMMA ReadMessageIs ==
  ASSUME NEW s \in Seq(Symbols), Len(s) >= 2, ReadMessage(s)
  PROVE  \/ Waits(s)
         \/ \E d \in 1..Len(s) : Rejects(s, d)
         \/ \E t \in 1..Len(s) : \E e \in (t + 1)..Len(s) : Reads(s, t, e)
<1>1. CASE BodyLength(s) = {} /\ NoMessage(s)
  BY <1>1 DEF NoMessage, Waits
<1> DEFINE Checksum(field) == field.end + 1 + field.length
           Ends(field)     == {i \in Places(s, <<Soh>>) : i > Checksum(field)}
<1>2. CASE \E field \in BodyLength(s) : ~TrailerReceived(s, Checksum(field)) /\ NoMessage(s)
  BY <1>2 DEF NoMessage, Waits
<1>3. CASE \E field \in BodyLength(s) :
             /\ TrailerReceived(s, Checksum(field)) /\ s[Checksum(field)] # Ten /\ NoMessage(AfterRejected(s))
  <2>1. NoMessage(AfterRejected(s))
    BY <1>3
  <2>2. buffer' = AfterRejected(s) /\ at' = "recv" /\ delivered' = delivered
    BY <2>1 DEF NoMessage
  <2> DEFINE next == {i \in Places(s, BeginString) : i > 1}
  <2>3. AfterRejected(s) = IF next = {} THEN <<>> ELSE From(s, Min(next))
    BY DEF AfterRejected
  <2>4. Places(s, BeginString) = {i \in 1..(Len(s) - 1) : s[i] = Eight /\ s[i + 1] = Fix} /\ Len(s) \in Nat
    BY PlacesBegin
  <2>5. next \in SUBSET Nat /\ \A i \in next : i \in 2..(Len(s) - 1)
    BY <2>4
  <2>6. \A i \in Places(s, BeginString) : i > 1 => i \in next
    OBVIOUS
  <2> HIDE DEF next
  <2>7. CASE next = {}
    <3>1. From(s, Len(s) + 1) = <<>>
      <4>1. Len(s) + 1 \in 1..(Len(s) + 1)
        BY <2>4
      <4>2. From(s, Len(s) + 1) \in Seq(Symbols) /\ Len(From(s, Len(s) + 1)) = Len(s) - (Len(s) + 1) + 1
        BY <4>1, FromIs
      <4>3. Len(From(s, Len(s) + 1)) = 0
        BY <2>4, <4>2
      <4> QED
        BY <4>2, <4>3
    <3>2. Len(s) \in 1..Len(s) /\ Rejects(s, Len(s))
      BY <2>2, <2>3, <2>4, <2>6, <2>7, <3>1 DEF Rejects
    <3> QED
      BY <3>2
  <2>8. CASE next # {}
    <3>1. PICK m : m = Min(next)
      OBVIOUS
    <3>2. m \in next /\ \A i \in next : m <= i
      BY <2>5, <2>8, <3>1, MinOf
    <3>3. m \in 2..(Len(s) - 1)
      BY <2>5, <3>2
    <3>4. PICK d : d = m - 1
      OBVIOUS
    <3>5. d \in 1..Len(s) /\ d + 1 = m /\ \A i \in next : d < i
      BY <2>4, <2>5, <3>2, <3>3, <3>4
    <3>6. buffer' = From(s, d + 1)
      BY <2>2, <2>3, <2>8, <3>1, <3>5
    <3>7. Rejects(s, d)
      BY <2>2, <2>6, <3>5, <3>6, Zenon DEF Rejects
    <3> QED
      BY <3>5, <3>7
  <2> QED
    BY <2>7, <2>8
<1>4. CASE \E field \in BodyLength(s) :
             /\ TrailerReceived(s, Checksum(field)) /\ s[Checksum(field)] = Ten /\ Ends(field) = {} /\ NoMessage(s)
  BY <1>4 DEF NoMessage, Waits
<1>5. CASE \E field \in BodyLength(s) :
             /\ TrailerReceived(s, Checksum(field)) /\ s[Checksum(field)] = Ten /\ Ends(field) # {}
             /\ delivered' = Append(delivered, SubSeq(s, 1, Min(Ends(field))))
             /\ buffer' = AfterMessage(s, Min(Ends(field))) /\ UNCHANGED at
  <2>1. PICK field \in BodyLength(s) :
          /\ TrailerReceived(s, Checksum(field)) /\ s[Checksum(field)] = Ten /\ Ends(field) # {}
          /\ delivered' = Append(delivered, SubSeq(s, 1, Min(Ends(field))))
          /\ buffer' = AfterMessage(s, Min(Ends(field))) /\ UNCHANGED at
    BY <1>5
  <2>2. PICK t : t = Checksum(field)
    OBVIOUS
  <2>3. field.end \in 3..Len(s) /\ field.length \in Nat /\ Len(s) \in Nat
    BY BodyLengthType
  <2>4. t \in Nat /\ t >= 1 /\ t + 2 <= Len(s)
    <3>1. Len(s) >= t + 2 /\ t = field.end + 1 + field.length
      BY <2>1, <2>2, Zenon DEF TrailerReceived
    <3>2. PICK a : a = field.end
      OBVIOUS
    <3>3. PICK b : b = field.length
      OBVIOUS
    <3>4. PICK l : l = Len(s)
      OBVIOUS
    <3>5. a \in 3..l /\ b \in Nat /\ l \in Nat /\ l >= t + 2 /\ t = a + 1 + b
      BY <2>3, <3>1, <3>2, <3>3, <3>4, Zenon
    <3>6. t \in Nat /\ t >= 1 /\ t + 2 <= l
      BY <3>5
    <3> QED
      BY <3>4, <3>6, Zenon
  <2>5. PICK E : E = Ends(field)
    OBVIOUS
  <2>6. E = {i \in 1..Len(s) : s[i] = Soh /\ i > t}
    BY <2>2, <2>5, PlacesOne, SymbolsDiffer
  <2>7. PICK e : e = Min(E)
    OBVIOUS
  <2>8. E # {} /\ E \in SUBSET Nat
    BY <2>1, <2>5, <2>6
  <2>9. e \in E /\ \A i \in E : e <= i
    BY <2>7, <2>8, MinOf
  <2>10. e \in (t + 1)..Len(s) /\ s[e] = Soh
    BY <2>4, <2>6, <2>9
  <2>11. \A i \in (t + 1)..(e - 1) : s[i] # Soh
    BY <2>3, <2>4, <2>6, <2>9, <2>10
  <2>12. s[t] = Ten
    BY <2>1, <2>2
  <2>13. delivered' = Append(delivered, SubSeq(s, 1, e)) /\ buffer' = From(s, e + 1) /\ at' = at
    BY <2>1, <2>5, <2>7, Zenon DEF AfterMessage
  <2>14. Reads(s, t, e)
    <3>1. TrailerAt(s, t)
      BY <2>1, <2>2, Zenon DEF TrailerAt
    <3> QED
      BY <2>10, <2>11, <2>12, <2>13, <3>1, Zenon DEF Reads
  <2>15. t \in 1..Len(s)
    BY <2>3, <2>4
  <2> QED
    BY <2>10, <2>14, <2>15
<1> QED
  BY <1>1, <1>2, <1>3, <1>4, <1>5, Zenon DEF ReadMessage

\* A message at the beginning of the buffer is waited for, or read as it was built.
LEMMA ReadMessageOfFrame ==
  ASSUME NEW b \in Seq(Symbols), IsFrame(b), NEW s \in Seq(Symbols), BeginsWith(s, b), ReadMessage(s)
  PROVE  /\ Len(s) < Len(b) => Waits(s)
         /\ Len(s) >= Len(b) => /\ delivered' = Append(delivered, b)
                                /\ buffer' = From(s, Len(b) + 1) /\ at' = at
<1>1. /\ Len(b) - 9 \in Nat /\ b[Len(b) - 2] = Ten /\ b[Len(b) - 1] = Sum /\ b[Len(b)] = Soh
      /\ Len(b) \in Nat /\ Len(s) \in Nat /\ DOMAIN s = 1..Len(s)
  BY FrameIs, ParserAssumption, LenProperties
<1>2. \A i \in 1..Len(s) : i <= Len(b) => s[i] = b[i]
  BY <1>1 DEF BeginsWith
<1> DEFINE Checksum(field) == field.end + 1 + field.length
           Ends(field)     == {i \in Places(s, <<Soh>>) : i > Checksum(field)}
<1>3. ASSUME NEW field \in BodyLength(s) PROVE Checksum(field) = Len(b) - 2
  <2>1. field = [length |-> Len(b) - 9, end |-> 6]
    BY BodyLengthOfFrame
  <2> QED
    BY <1>1, <2>1
<1>4. Len(s) >= Len(b) => BodyLength(s) # {}
  BY <1>1, BodyLengthOfFrame
<1>5. ASSUME NEW field \in BodyLength(s) PROVE TrailerReceived(s, Checksum(field)) <=> Len(s) >= Len(b)
  BY <1>1, <1>3 DEF TrailerReceived
<1>6. ASSUME NEW field \in BodyLength(s), Len(s) >= Len(b)
      PROVE  s[Checksum(field)] = Ten /\ Ends(field) # {} /\ Min(Ends(field)) = Len(b)
  <2>1. s[Len(b) - 2] = Ten /\ s[Len(b) - 1] = Sum /\ s[Len(b)] = Soh
    BY <1>1, <1>2, <1>6
  <2>2. PICK E : E = Ends(field)
    OBVIOUS
  <2>3. E = {i \in 1..Len(s) : s[i] = Soh /\ i > Len(b) - 2}
    BY <1>3, <2>2, PlacesOne, SymbolsDiffer
  <2>4. E \in SUBSET Nat /\ Len(b) \in E
    BY <1>1, <1>6, <2>1, <2>3
  <2>5. \A i \in E : Len(b) <= i
    BY <1>1, <2>1, <2>3, SymbolsDiffer
  <2>6. Min(E) = Len(b)
    BY <2>4, <2>5, MinIs
  <2>7. s[Checksum(field)] = Ten
    BY <1>3, <2>1
  <2> QED
    BY <2>2, <2>4, <2>6, <2>7, Zenon
<1>7. Len(s) >= Len(b) => SubSeq(s, 1, Len(b)) = b
  <2> SUFFICES ASSUME Len(s) >= Len(b) PROVE SubSeq(s, 1, Len(b)) = b
    OBVIOUS
  <2>1. \A i \in 1..Len(b) : s[i] \in Symbols /\ s[i] = b[i]
    BY <1>1, <1>2, ElementOfSeq
  <2>2. PICK t : t = SubSeq(s, 1, Len(b))
    OBVIOUS
  <2>3. t \in Seq(Symbols) /\ Len(t) = Len(b) /\ \A i \in 1..Len(b) : t[i] = s[i]
    <3>1. Len(b) \in Int /\ 1 \in Int
      BY <1>1
    <3>2. /\ t \in Seq(Symbols) /\ Len(t) = IF 1 <= Len(b) THEN Len(b) - 1 + 1 ELSE 0
          /\ \A i \in 1..(Len(b) - 1 + 1) : t[i] = s[1 + i - 1]
      BY <2>1, <2>2, <3>1, SubSeqProperties
    <3> QED
      BY <1>1, <3>2
  <2>4. t = b
    BY <2>1, <2>3, SeqEqual
  <2> QED
    BY <2>2, <2>4
<1>8. CASE BodyLength(s) = {} /\ NoMessage(s)
  BY <1>1, <1>4, <1>8 DEF NoMessage, Waits
<1>9. CASE \E field \in BodyLength(s) : ~TrailerReceived(s, Checksum(field)) /\ NoMessage(s)
  BY <1>1, <1>5, <1>9 DEF NoMessage, Waits
<1>10. CASE \E field \in BodyLength(s) :
              /\ TrailerReceived(s, Checksum(field)) /\ s[Checksum(field)] # Ten /\ NoMessage(AfterRejected(s))
  BY <1>5, <1>6, <1>10
<1>11. CASE \E field \in BodyLength(s) :
              /\ TrailerReceived(s, Checksum(field)) /\ s[Checksum(field)] = Ten /\ Ends(field) = {} /\ NoMessage(s)
  BY <1>5, <1>6, <1>11
<1>12. CASE \E field \in BodyLength(s) :
              /\ TrailerReceived(s, Checksum(field)) /\ s[Checksum(field)] = Ten /\ Ends(field) # {}
              /\ delivered' = Append(delivered, SubSeq(s, 1, Min(Ends(field))))
              /\ buffer' = AfterMessage(s, Min(Ends(field))) /\ UNCHANGED at
  <2>1. PICK field \in BodyLength(s) :
          /\ TrailerReceived(s, Checksum(field))
          /\ delivered' = Append(delivered, SubSeq(s, 1, Min(Ends(field))))
          /\ buffer' = AfterMessage(s, Min(Ends(field))) /\ UNCHANGED at
    BY <1>12
  <2>2. Len(s) >= Len(b) /\ Min(Ends(field)) = Len(b)
    BY <1>5, <1>6, <2>1
  <2>3. delivered' = Append(delivered, SubSeq(s, 1, Len(b))) /\ buffer' = From(s, Len(b) + 1) /\ at' = at
    BY <2>1, <2>2, Zenon DEF AfterMessage
  <2> QED
    BY <1>1, <1>7, <2>2, <2>3
<1> QED
  BY <1>8, <1>9, <1>10, <1>11, <1>12, Zenon DEF ReadMessage

-----------------------------------------------------------------------------
(* The buffer is a part of the stream                                      *)

\* Where the buffer begins, in bytes of the stream.
Start == taken - Len(buffer)

TypeInv ==
  /\ items \in Streams
  /\ whole \in BOOLEAN
  /\ taken \in 0..Len(Stream)
  /\ at \in {"recv", "drain"}
  /\ buffer \in Seq(Symbols) /\ Len(buffer) <= taken
  /\ \A i \in 1..Len(buffer) : buffer[i] = Stream[Start + i]
  /\ delivered \in Seq(Seq(Symbols))
  /\ Len(FlattenSeq(delivered)) <= Start

LEMMA StreamType ==
  ASSUME items \in Streams
  PROVE  Stream \in Seq(Symbols) /\ Len(Stream) \in Nat /\ Len(Stream) = End(Len(items))
<1>1. Len(items) \in 0..Len(items)
  BY ItemsType
<1>2. Stream \in Seq(Symbols)
  BY <1>1, BytesType DEF Stream
<1> QED
  BY <1>2 DEF Stream, End

LEMMA StartType ==
  ASSUME TypeInv
  PROVE  Start \in 0..taken /\ taken \in Nat /\ Len(buffer) \in Nat /\ taken = Start + Len(buffer)
BY StreamType DEF TypeInv, Start

LEMMA TypeInit ==
  ASSUME Init
  PROVE  TypeInv
<1>1. items \in Streams /\ whole \in BOOLEAN /\ taken = 0 /\ buffer = <<>> /\ at = "recv" /\ delivered = <<>>
  BY DEF Init
<1>2. Len(Stream) \in Nat
  BY <1>1, StreamType
<1>3. FlattenSeq(delivered) = <<>>
  BY <1>1, FlattenEmpty
<1>4. taken = 0 /\ Len(buffer) = 0 /\ Len(FlattenSeq(delivered)) = 0
  BY <1>1, <1>3
<1>5. Start = 0
  BY <1>4 DEF Start
<1> QED
  BY <1>1, <1>2, <1>4, <1>5 DEF TypeInv

\* A receive leaves the buffer beginning where it did.
LEMMA AppendBytesIs ==
  ASSUME TypeInv, NEW n \in 1..(Len(Stream) - taken), AppendBytes(n)
  PROVE  TypeInv' /\ Start' = Start
<1>1. /\ taken' = taken + n /\ taken + n <= Len(Stream)
      /\ buffer' = buffer \o SubSeq(Stream, taken + 1, taken + n)
      /\ at' = "drain" /\ items' = items /\ whole' = whole /\ delivered' = delivered
  BY DEF AppendBytes
<1>2. /\ items \in Streams /\ whole \in BOOLEAN /\ taken \in 0..Len(Stream)
      /\ buffer \in Seq(Symbols) /\ Len(buffer) <= taken
      /\ \A i \in 1..Len(buffer) : buffer[i] = Stream[Start + i]
      /\ delivered \in Seq(Seq(Symbols)) /\ Len(FlattenSeq(delivered)) <= Start
  BY DEF TypeInv
<1>3. Stream \in Seq(Symbols) /\ Len(Stream) \in Nat /\ Stream' = Stream
  BY <1>1, <1>2, StreamType DEF Stream, Bytes
<1>4. Start \in 0..taken /\ taken \in Nat /\ Len(buffer) \in Nat /\ taken = Start + Len(buffer) /\ n \in Nat
  BY <1>3, StartType
<1>5. PICK new : new = SubSeq(Stream, taken + 1, taken + n)
  OBVIOUS
<1>6. new \in Seq(Symbols) /\ Len(new) = n /\ \A i \in 1..n : new[i] = Stream[taken + i]
  <2>1. \A i \in (taken + 1)..(taken + n) : Stream[i] \in Symbols
    BY <1>1, <1>3, <1>4, ElementOfSeq
  <2>2. /\ new \in Seq(Symbols)
        /\ Len(new) = IF taken + 1 <= taken + n THEN taken + n - (taken + 1) + 1 ELSE 0
        /\ \A i \in 1..(taken + n - (taken + 1) + 1) : new[i] = Stream[taken + 1 + i - 1]
    BY <1>4, <1>5, <2>1, SubSeqProperties
  <2>3. \A i \in 1..n : i \in 1..(taken + n - (taken + 1) + 1) /\ taken + 1 + i - 1 = taken + i
    BY <1>4
  <2>4. Len(new) = n
    BY <1>4, <2>2
  <2> QED
    BY <2>2, <2>3, <2>4
<1>7. /\ buffer' \in Seq(Symbols) /\ Len(buffer') = Len(buffer) + n
      /\ \A i \in 1..(Len(buffer) + n) :
           buffer'[i] = IF i <= Len(buffer) THEN buffer[i] ELSE new[i - Len(buffer)]
  BY <1>1, <1>2, <1>5, <1>6, ConcatProperties
<1>8. Start' = Start
  BY <1>1, <1>4, <1>7 DEF Start
<1>9. \A i \in 1..Len(buffer') : buffer'[i] = Stream[Start + i]
  <2> SUFFICES ASSUME NEW i \in 1..(Len(buffer) + n) PROVE buffer'[i] = Stream[Start + i]
    BY <1>7
  <2>1. CASE i <= Len(buffer)
    <3>1. i \in 1..Len(buffer)
      BY <1>4, <2>1
    <3> QED
      BY <1>2, <1>7, <2>1, <3>1
  <2>2. CASE ~(i <= Len(buffer))
    <3>1. PICK j : j = i - Len(buffer)
      OBVIOUS
    <3>2. j \in 1..n /\ taken + j = Start + i
      BY <1>4, <2>2, <3>1
    <3>3. buffer'[i] = new[j] /\ new[j] = Stream[taken + j]
      BY <1>6, <1>7, <2>2, <3>1, <3>2
    <3> QED
      BY <3>2, <3>3
  <2> QED
    BY <2>1, <2>2
<1>10. taken' \in 0..Len(Stream') /\ Len(buffer') <= taken'
  BY <1>1, <1>3, <1>4, <1>7
<1>11. /\ items' \in Streams /\ whole' \in BOOLEAN /\ at' \in {"recv", "drain"}
       /\ delivered' \in Seq(Seq(Symbols)) /\ Len(FlattenSeq(delivered')) <= Start'
  BY <1>1, <1>2, <1>8
<1> QED
  BY <1>3, <1>7, <1>8, <1>9, <1>10, <1>11 DEF TypeInv

\* Taking bytes from the front of the buffer, as a message or for nothing.
LEMMA CutIs ==
  ASSUME TypeInv, UNCHANGED <<items, whole, taken>>, at' \in {"recv", "drain"},
         NEW d \in 0..Len(buffer), buffer' = From(buffer, d + 1),
         \/ delivered' = delivered
         \/ \E m \in Seq(Symbols) : Len(m) <= d /\ delivered' = Append(delivered, m)
  PROVE  TypeInv' /\ Start' = Start + d
<1>1. /\ items \in Streams /\ whole \in BOOLEAN /\ taken \in 0..Len(Stream)
      /\ buffer \in Seq(Symbols) /\ Len(buffer) <= taken
      /\ \A i \in 1..Len(buffer) : buffer[i] = Stream[Start + i]
      /\ delivered \in Seq(Seq(Symbols)) /\ Len(FlattenSeq(delivered)) <= Start
  BY DEF TypeInv
<1>2. Start \in 0..taken /\ taken \in Nat /\ Len(buffer) \in Nat /\ taken = Start + Len(buffer) /\ d \in Nat
  BY StartType
<1>3. Stream' = Stream
  BY DEF Stream, Bytes
<1>4. /\ buffer' \in Seq(Symbols) /\ Len(buffer') = Len(buffer) - d
      /\ \A j \in 1..(Len(buffer) - d) : buffer'[j] = buffer[d + j]
  <2>1. PICK i : i = d + 1
    OBVIOUS
  <2>2. i \in 1..(Len(buffer) + 1)
    BY <1>2, <2>1
  <2>3. /\ From(buffer, i) \in Seq(Symbols) /\ Len(From(buffer, i)) = Len(buffer) - i + 1
        /\ \A j \in 1..(Len(buffer) - i + 1) : From(buffer, i)[j] = buffer[i + j - 1]
    BY <1>1, <2>2, FromIs
  <2>4. Len(buffer) - i + 1 = Len(buffer) - d /\ \A j \in Nat : i + j - 1 = d + j
    BY <1>2, <2>1
  <2>5. buffer' = From(buffer, i)
    BY <2>1
  <2>6. \A j \in 1..(Len(buffer) - d) : buffer'[j] = buffer[d + j]
    BY <2>3, <2>4, <2>5
  <2> QED
    BY <2>3, <2>4, <2>5, <2>6
<1>a. items' = items /\ whole' = whole /\ taken' = taken
  OBVIOUS
<1>b. Start' = taken' - Len(buffer')
  BY DEF Start
<1>5. Start' = Start + d
  BY <1>2, <1>4, <1>a, <1>b
<1>6. \A j \in 1..Len(buffer') : buffer'[j] = Stream[Start + d + j]
  <2> SUFFICES ASSUME NEW j \in 1..(Len(buffer) - d) PROVE buffer'[j] = Stream[Start + d + j]
    BY <1>4
  <2>1. PICK i : i = d + j
    OBVIOUS
  <2>2. i \in 1..Len(buffer) /\ Start + i = Start + d + j
    BY <1>2, <2>1
  <2> QED
    BY <1>1, <1>4, <2>1, <2>2
<1>7. delivered' \in Seq(Seq(Symbols)) /\ Len(FlattenSeq(delivered')) <= Start + d
  <2>1. CASE delivered' = delivered
    <3>1. FlattenSeq(delivered) \in Seq(Symbols)
      BY <1>1, FlattenType
    <3>2. Len(FlattenSeq(delivered)) \in Nat
      BY <3>1, LenProperties
    <3> QED
      BY <1>1, <1>2, <2>1, <3>2
  <2>2. CASE \E m \in Seq(Symbols) : Len(m) <= d /\ delivered' = Append(delivered, m)
    <3>1. PICK m \in Seq(Symbols) : Len(m) <= d /\ delivered' = Append(delivered, m)
      BY <2>2
    <3>2. FlattenSeq(delivered') = FlattenSeq(delivered) \o m
      BY <1>1, <3>1, FlattenAppend
    <3>3. FlattenSeq(delivered) \in Seq(Symbols)
      BY <1>1, FlattenType
    <3>4. Len(FlattenSeq(delivered')) = Len(FlattenSeq(delivered)) + Len(m)
      BY <3>1, <3>2, <3>3, ConcatProperties
    <3>5. Len(FlattenSeq(delivered)) \in Nat /\ Len(m) \in Nat
      BY <3>1, <3>3, LenProperties
    <3>6. delivered' \in Seq(Seq(Symbols))
      BY <1>1, <3>1, AppendProperties
    <3> QED
      BY <1>1, <1>2, <3>1, <3>4, <3>5, <3>6
  <2> QED
    BY <2>1, <2>2
<1>8. Len(buffer') <= taken' /\ taken' \in 0..Len(Stream')
  BY <1>1, <1>2, <1>3, <1>4
<1> QED
  BY <1>1, <1>3, <1>4, <1>5, <1>6, <1>7, <1>8 DEF TypeInv

-----------------------------------------------------------------------------
(* read_next_message, in places of the stream                              *)

Begins(x) == Stream[x] = Eight /\ Stream[x + 1] = Fix

\* No BeginString in the buffer: of its end something is kept.
FindsNothing ==
  /\ \A x \in (Start + 1)..(taken - 1) : ~Begins(x)
  /\ Start' \in Start..taken /\ (Start' = Start \/ Start' < taken)
  /\ taken - Start' <= Keep
  /\ at' = "recv" /\ delivered' = delivered

\* The first BeginString in the buffer.
FindsBegin(q) ==
  /\ q \in (Start + 1)..(taken - 1) /\ Begins(q)
  /\ \A x \in (Start + 1)..(q - 1) : ~Begins(x)

WaitsAt(q) == Start' = q - 1 /\ at' = "recv" /\ delivered' = delivered

RejectsAt(q) ==
  /\ Start' \in q..taken /\ at' = "recv" /\ delivered' = delivered
  /\ \A x \in (q + 1)..(taken - 1) : Begins(x) => Start' < x

\* The message from q to e, the trailer at t.
ReadsAt(q, t, e) ==
  /\ TrailerAt(SubSeq(Stream, q, taken), t - q + 1)
  /\ Stream[t] = Ten /\ Stream[e] = Soh /\ \A x \in (t + 1)..(e - 1) : Stream[x] # Soh
  /\ delivered' = Append(delivered, SubSeq(Stream, q, e))
  /\ Start' = e /\ at' = at

\* Item i begins at q, as it was built: it is read as soon as it is there.
ReadsItem(q, i) ==
  q = End(i - 1) + 1 /\ items[i].kind = "good" =>
    /\ taken < End(i) => WaitsAt(q)
    /\ taken >= End(i) =>
         delivered' = Append(delivered, items[i].bytes) /\ Start' = End(i) /\ at' = at

ReadsMessage(q) ==
  /\ \/ WaitsAt(q)
     \/ RejectsAt(q)
     \/ \E t \in q..taken : \E e \in (t + 1)..taken : ReadsAt(q, t, e)
  /\ \A i \in 1..Len(items) : ReadsItem(q, i)

\* A part of the buffer is the part of the stream at its place.
LEMMA PartOfStream ==
  ASSUME TypeInv, NEW b \in 1..(Len(buffer) + 1)
  PROVE  /\ From(buffer, b) \in Seq(Symbols) /\ Len(From(buffer, b)) = taken - (Start + b) + 1
         /\ \A i \in 1..(taken - (Start + b) + 1) : From(buffer, b)[i] = Stream[Start + b + i - 1]
<1>1. buffer \in Seq(Symbols) /\ \A i \in 1..Len(buffer) : buffer[i] = Stream[Start + i]
  BY DEF TypeInv
<1>2. Start \in 0..taken /\ taken \in Nat /\ Len(buffer) \in Nat /\ taken = Start + Len(buffer)
  BY StartType
<1>3. PICK s : s = From(buffer, b)
  OBVIOUS
<1>4. /\ s \in Seq(Symbols) /\ Len(s) = Len(buffer) - b + 1
      /\ \A i \in 1..(Len(buffer) - b + 1) : s[i] = buffer[b + i - 1]
  BY <1>1, <1>3, FromIs
<1>5. ASSUME NEW i \in 1..(taken - (Start + b) + 1)
      PROVE  s[i] = Stream[Start + b + i - 1]
  <2>1. PICK j : j = b + i - 1
    OBVIOUS
  <2>2. j \in 1..Len(buffer) /\ i \in 1..(Len(buffer) - b + 1) /\ Start + j = Start + b + i - 1
    BY <1>2, <2>1
  <2> QED
    BY <1>1, <1>4, <2>1, <2>2
<1>6. Len(s) = taken - (Start + b) + 1
  BY <1>2, <1>4
<1> QED
  BY <1>3, <1>4, <1>5, <1>6

LEMMA BufferBegins ==
  ASSUME TypeInv
  PROVE  Places(buffer, BeginString) = {b \in 1..(Len(buffer) - 1) : Begins(Start + b)}
<1>1. buffer \in Seq(Symbols) /\ \A i \in 1..Len(buffer) : buffer[i] = Stream[Start + i]
  BY DEF TypeInv
<1>2. Start \in Nat /\ Len(buffer) \in Nat
  BY StartType
<1>3. Places(buffer, BeginString) = {i \in 1..(Len(buffer) - 1) : buffer[i] = Eight /\ buffer[i + 1] = Fix}
  BY <1>1, PlacesBegin
<1>4. ASSUME NEW i \in 1..(Len(buffer) - 1)
      PROVE  (buffer[i] = Eight /\ buffer[i + 1] = Fix) <=> Begins(Start + i)
  <2>1. i \in 1..Len(buffer) /\ i + 1 \in 1..Len(buffer) /\ Start + i + 1 = Start + (i + 1)
    BY <1>2
  <2>2. buffer[i] = Stream[Start + i] /\ buffer[i + 1] = Stream[Start + i + 1]
    BY <1>1, <2>1
  <2> QED
    BY <2>2 DEF Begins
<1> QED
  BY <1>3, <1>4

LEMMA FindsNothingIs ==
  ASSUME TypeInv, ReadNext, Places(buffer, BeginString) = {}
  PROVE  TypeInv' /\ FindsNothing
<1>1. Start \in 0..taken /\ taken \in Nat /\ Len(buffer) \in Nat /\ taken = Start + Len(buffer)
  BY StartType
<1>2. /\ buffer' = KeptTail(buffer) /\ at' = "recv" /\ delivered' = delivered
      /\ UNCHANGED <<items, whole, taken>>
  BY DEF ReadNext, NoMessage
<1>3. Keep \in Nat /\ Keep > 0 /\ buffer \in Seq(Symbols)
  BY ParserAssumption DEF TypeInv
<1>4. PICK d \in 0..Len(buffer) :
        /\ buffer' = From(buffer, d + 1) /\ (d = 0 \/ d < Len(buffer))
        /\ Len(buffer) - d <= Keep
  <2>1. CASE Len(buffer) > Keep
    <3>1. PICK d : d = Len(buffer) - Keep
      OBVIOUS
    <3>2. /\ d \in 0..Len(buffer) /\ d < Len(buffer) /\ d + 1 = Len(buffer) - Keep + 1
          /\ Len(buffer) - d <= Keep
      BY <1>1, <1>3, <2>1, <3>1
    <3>3. buffer' = From(buffer, d + 1)
      BY <1>2, <2>1, <3>2 DEF KeptTail
    <3> QED
      BY <3>2, <3>3
  <2>2. CASE ~(Len(buffer) > Keep)
    <3>1. From(buffer, 1) = buffer
      BY <1>3, SubSeqFull DEF From
    <3>2. buffer' = From(buffer, 0 + 1)
      BY <1>2, <2>2, <3>1 DEF KeptTail
    <3>3. 0 \in 0..Len(buffer) /\ Len(buffer) - 0 <= Keep
      BY <1>1, <1>3, <2>2
    <3> QED
      BY <3>2, <3>3
  <2> QED
    BY <2>1, <2>2
<1>5. TypeInv' /\ Start' = Start + d
  BY <1>2, <1>4, CutIs
<1>6. ASSUME NEW x \in (Start + 1)..(taken - 1) PROVE ~Begins(x)
  <2>1. PICK b : b = x - Start
    OBVIOUS
  <2>2. b \in 1..(Len(buffer) - 1) /\ Start + b = x
    BY <1>1, <2>1
  <2> QED
    BY <2>2, BufferBegins
<1>7. /\ Start' \in Start..taken /\ (Start' = Start \/ Start' < taken)
      /\ taken - Start' <= Keep
  BY <1>1, <1>3, <1>4, <1>5
<1> QED
  BY <1>2, <1>5, <1>6, <1>7 DEF FindsNothing

LEMMA FindsMessageIs ==
  ASSUME TypeInv, ReadNext, Places(buffer, BeginString) # {}
  PROVE  TypeInv' /\ \E q \in (Start + 1)..(taken - 1) : FindsBegin(q) /\ ReadsMessage(q)
<1>1. Start \in 0..taken /\ taken \in Nat /\ Len(buffer) \in Nat /\ taken = Start + Len(buffer)
  BY StartType
<1>2. /\ buffer \in Seq(Symbols) /\ items \in Streams /\ at \in {"recv", "drain"}
      /\ taken <= Len(Stream) /\ Stream \in Seq(Symbols) /\ Len(Stream) \in Nat
  BY StreamType DEF TypeInv
<1>3. PICK b : b = Min(Places(buffer, BeginString))
  OBVIOUS
<1>4. Places(buffer, BeginString) = {i \in 1..(Len(buffer) - 1) : Begins(Start + i)}
  BY BufferBegins
<1>5. b \in 1..(Len(buffer) - 1) /\ Begins(Start + b) /\ \A i \in 1..(Len(buffer) - 1) : Begins(Start + i) => b <= i
  <2>1. PICK P : P = Places(buffer, BeginString)
    OBVIOUS
  <2>2. P = {i \in 1..(Len(buffer) - 1) : Begins(Start + i)} /\ P # {} /\ b = Min(P)
    BY <1>3, <1>4, <2>1
  <2>3. P \in SUBSET Nat
    BY <2>2
  <2>4. b \in P /\ \A i \in P : b <= i
    BY <2>2, <2>3, MinOf
  <2> QED
    BY <2>2, <2>4
<1>6. PICK s : s = From(buffer, b)
  OBVIOUS
<1>7. ReadMessage(s) /\ UNCHANGED <<items, whole, taken>>
  BY <1>3, <1>6 DEF ReadNext
<1>8. PICK q : q = Start + b
  OBVIOUS
<1>9. /\ s \in Seq(Symbols) /\ Len(s) = taken - q + 1 /\ Len(s) >= 2
      /\ \A i \in 1..Len(s) : s[i] = Stream[q + i - 1]
  <2>1. b \in 1..(Len(buffer) + 1)
    BY <1>1, <1>5
  <2>2. /\ s \in Seq(Symbols) /\ Len(s) = taken - (Start + b) + 1
        /\ \A i \in 1..(taken - (Start + b) + 1) : s[i] = Stream[Start + b + i - 1]
    BY <1>6, <2>1, PartOfStream
  <2> QED
    BY <1>1, <1>5, <1>8, <2>2
<1>10. FindsBegin(q)
  <2>1. q \in (Start + 1)..(taken - 1) /\ Begins(q)
    BY <1>1, <1>5, <1>8
  <2>2. ASSUME NEW x \in (Start + 1)..(q - 1) PROVE ~Begins(x)
    <3>1. PICK i : i = x - Start
      OBVIOUS
    <3>2. i \in 1..(Len(buffer) - 1) /\ Start + i = x /\ ~(b <= i)
      BY <1>1, <1>5, <1>8, <3>1
    <3> QED
      BY <1>5, <3>2
  <2> QED
    BY <2>1, <2>2 DEF FindsBegin
<1>a. q \in (Start + 1)..(taken - 1) /\ q \in Nat
  BY <1>1, <1>10 DEF FindsBegin
\* Cutting the buffer behind byte d of the message.
<1>11. ASSUME NEW d \in 0..Len(s), buffer' = From(s, d + 1), at' \in {"recv", "drain"},
              \/ delivered' = delivered
              \/ \E m \in Seq(Symbols) : Len(m) <= d /\ delivered' = Append(delivered, m)
       PROVE  TypeInv' /\ Start' = q - 1 + d
  <2>1. PICK c : c = b - 1 + d
    OBVIOUS
  <2>2. c \in 0..Len(buffer) /\ d <= c /\ d \in Nat /\ Start + c = q - 1 + d
    BY <1>1, <1>5, <1>8, <1>9, <2>1
  <2>3. From(s, d + 1) = From(buffer, c + 1)
    <3>1. PICK j : j = d + 1
      OBVIOUS
    <3>2. j \in 1..(Len(buffer) - b + 2) /\ b \in 1..(Len(buffer) + 1) /\ b + j - 1 = c + 1
      BY <1>1, <1>5, <1>8, <1>9, <2>1, <2>2, <3>1
    <3>3. From(From(buffer, b), j) = From(buffer, b + j - 1)
      BY <1>2, <3>2, FromFrom
    <3> QED
      BY <1>6, <3>1, <3>2, <3>3
  <2>4. buffer' = From(buffer, c + 1)
    BY <1>11, <2>3
  <2>5. \/ delivered' = delivered
        \/ \E m \in Seq(Symbols) : Len(m) <= c /\ delivered' = Append(delivered, m)
    <3>1. CASE delivered' = delivered
      BY <3>1
    <3>2. CASE \E m \in Seq(Symbols) : Len(m) <= d /\ delivered' = Append(delivered, m)
      <4>1. PICK m \in Seq(Symbols) : Len(m) <= d /\ delivered' = Append(delivered, m)
        BY <3>2
      <4>2. Len(m) \in Nat
        BY <4>1, LenProperties
      <4>3. Len(m) <= c
        BY <2>2, <4>1, <4>2
      <4> QED
        BY <4>1, <4>3
    <3> QED
      BY <1>11, <3>1, <3>2
  <2>6. TypeInv' /\ Start' = Start + c
    BY <1>7, <1>11, <2>2, <2>4, <2>5, CutIs
  <2> QED
    BY <2>2, <2>6
\* What is in front of byte e of the buffer.
<1>12. ASSUME NEW e \in 1..Len(s)
       PROVE  /\ SubSeq(s, 1, e) \in Seq(Symbols) /\ Len(SubSeq(s, 1, e)) = e
              /\ SubSeq(s, 1, e) = SubSeq(Stream, q, q - 1 + e)
  <2>1. PICK m : m = SubSeq(s, 1, e)
    OBVIOUS
  <2>2. PICK n : n = SubSeq(Stream, q, q - 1 + e)
    OBVIOUS
  <2>3. m \in Seq(Symbols) /\ Len(m) = e /\ \A i \in 1..e : m[i] = s[i]
    <3>1. e \in Int /\ 1 \in Int /\ \A i \in 1..e : s[i] \in Symbols
      BY <1>1, <1>9, <1>a, ElementOfSeq
    <3>2. /\ m \in Seq(Symbols) /\ Len(m) = IF 1 <= e THEN e - 1 + 1 ELSE 0
          /\ \A i \in 1..(e - 1 + 1) : m[i] = s[1 + i - 1]
      BY <2>1, <3>1, SubSeqProperties
    <3>3. e \in Nat /\ e >= 1 /\ e - 1 + 1 = e
      BY <1>1, <1>9, <1>a
    <3>4. \A i \in 1..e : i \in 1..(e - 1 + 1) /\ 1 + i - 1 = i
      BY <3>3
    <3>5. \A i \in 1..e : m[i] = s[i]
      BY <3>2, <3>4
    <3> QED
      BY <3>2, <3>3, <3>5
  <2>4. n \in Seq(Symbols) /\ Len(n) = e /\ \A i \in 1..e : n[i] = Stream[q + i - 1]
    <3>1. PICK z : z = q - 1 + e
      OBVIOUS
    <3>2. z \in Int /\ q \in Int /\ \A i \in q..z : Stream[i] \in Symbols
      BY <1>1, <1>2, <1>9, <1>a, <3>1, ElementOfSeq
    <3>3. /\ n \in Seq(Symbols) /\ Len(n) = IF q <= z THEN z - q + 1 ELSE 0
          /\ \A i \in 1..(z - q + 1) : n[i] = Stream[q + i - 1]
      BY <2>2, <3>1, <3>2, SubSeqProperties
    <3>4. z - q + 1 = e /\ q <= z
      BY <1>9, <1>1, <1>a, <3>1
    <3> QED
      BY <3>3, <3>4
  <2>5. \A i \in 1..Len(m) : m[i] = n[i]
    <3> SUFFICES ASSUME NEW i \in 1..e PROVE m[i] = n[i]
      BY <2>3
    <3>1. i \in 1..Len(s)
      BY <1>1, <1>9, <1>a
    <3> QED
      BY <1>9, <2>3, <2>4, <3>1
  <2>6. m = n
    BY <2>3, <2>4, <2>5, SeqEqual
  <2> QED
    BY <2>1, <2>2, <2>3, <2>6
<1>13. ASSUME Waits(s) PROVE TypeInv' /\ WaitsAt(q)
  <2>1. From(s, 1) = s
    BY <1>9, SubSeqFull DEF From
  <2>2. buffer' = From(s, 0 + 1) /\ at' = "recv" /\ delivered' = delivered
    BY <1>13, <2>1 DEF Waits
  <2>3. 0 \in 0..Len(s)
    BY <1>9, <1>1, <1>a
  <2>4. TypeInv' /\ Start' = q - 1 + 0
    BY <1>11, <2>2, <2>3
  <2> QED
    BY <1>a, <2>2, <2>4 DEF WaitsAt
<1>14. ASSUME NEW d \in 1..Len(s), Rejects(s, d) PROVE TypeInv' /\ RejectsAt(q)
  <2>1. buffer' = From(s, d + 1) /\ at' = "recv" /\ delivered' = delivered
    BY <1>14 DEF Rejects
  <2>2. d \in 0..Len(s) /\ d \in Nat
    BY <1>1, <1>9, <1>a
  <2>3. TypeInv' /\ Start' = q - 1 + d
    BY <1>11, <2>1, <2>2
  <2>4. Start' \in q..taken
    BY <1>1, <1>9, <1>a, <2>2, <2>3
  <2>5. ASSUME NEW x \in (q + 1)..(taken - 1), Begins(x) PROVE Start' < x
    <3>1. PICK i : i = x - q + 1
      OBVIOUS
    <3>2. i \in 1..(Len(s) - 1) /\ i > 1 /\ i \in 1..Len(s) /\ i + 1 \in 1..Len(s) /\ q + i - 1 = x /\ q + (i + 1) - 1 = x + 1
      BY <1>1, <1>9, <1>a, <3>1
    <3>3. s[i] = Eight /\ s[i + 1] = Fix
      BY <1>9, <2>5, <3>2 DEF Begins
    <3>4. i \in Places(s, BeginString)
      BY <1>9, <3>2, <3>3, PlacesBegin
    <3>5. d < i
      BY <1>14, <3>2, <3>4 DEF Rejects
    <3> QED
      BY <1>a, <2>2, <2>3, <3>2, <3>5
  <2> QED
    BY <2>1, <2>3, <2>4, <2>5 DEF RejectsAt
<1>15. ASSUME NEW t \in 1..Len(s), NEW e \in (t + 1)..Len(s), Reads(s, t, e)
       PROVE  TypeInv' /\ \E u \in q..taken : \E f \in (u + 1)..taken : ReadsAt(q, u, f)
  <2>1. /\ TrailerAt(s, t) /\ s[t] = Ten /\ s[e] = Soh /\ \A i \in (t + 1)..(e - 1) : s[i] # Soh
        /\ delivered' = Append(delivered, SubSeq(s, 1, e))
        /\ buffer' = From(s, e + 1) /\ at' = at
    BY <1>15 DEF Reads
  <2>2. e \in 0..Len(s) /\ e \in 1..Len(s) /\ e \in Nat /\ t \in Nat
    BY <1>1, <1>9, <1>a
  <2>3. /\ SubSeq(s, 1, e) \in Seq(Symbols) /\ Len(SubSeq(s, 1, e)) <= e
        /\ SubSeq(s, 1, e) = SubSeq(Stream, q, q - 1 + e)
    <3>1. /\ SubSeq(s, 1, e) \in Seq(Symbols) /\ Len(SubSeq(s, 1, e)) = e
          /\ SubSeq(s, 1, e) = SubSeq(Stream, q, q - 1 + e)
      BY <1>12, <2>2, Zenon
    <3>2. e <= e
      BY <2>2
    <3> QED
      BY <3>1, <3>2, Zenon
  <2>4. at' \in {"recv", "drain"}
    BY <1>2, <2>1
  <2>5. TypeInv' /\ Start' = q - 1 + e
    <3>1. \E m \in Seq(Symbols) : Len(m) <= e /\ delivered' = Append(delivered, m)
      BY <2>1, <2>3
    <3> QED
      BY <1>11, <2>1, <2>2, <2>4, <3>1
  <2>6. PICK u : u = q + t - 1
    OBVIOUS
  <2>7. PICK f : f = q + e - 1
    OBVIOUS
  <2>8. u \in q..taken /\ f \in (u + 1)..taken /\ q - 1 + e = f
    BY <1>1, <1>9, <1>a, <2>2, <2>6, <2>7
  <2>9. Stream[u] = Ten /\ Stream[f] = Soh
    BY <1>9, <2>1, <2>2, <2>6, <2>7
  <2>10. ASSUME NEW x \in (u + 1)..(f - 1) PROVE Stream[x] # Soh
    <3>1. PICK i : i = x - q + 1
      OBVIOUS
    <3>2. i \in (t + 1)..(e - 1) /\ i \in 1..Len(s) /\ q + i - 1 = x
      BY <1>1, <1>9, <1>a, <2>2, <2>6, <2>7, <3>1
    <3> QED
      BY <1>9, <2>1, <3>2
  <2>11. delivered' = Append(delivered, SubSeq(Stream, q, f)) /\ Start' = f /\ at' = at
    BY <2>1, <2>3, <2>5, <2>8
  <2>12. TrailerAt(SubSeq(Stream, q, taken), u - q + 1)
    <3>1. Len(s) \in 1..Len(s) /\ q - 1 + Len(s) = taken /\ u - q + 1 = t
      <4>1. /\ q \in Nat /\ taken \in Nat /\ t \in Nat /\ Len(s) \in Nat
            /\ Len(s) = taken - q + 1 /\ Len(s) >= 1
        BY <1>1, <1>9, <1>a, <2>2
      <4> QED
        BY <2>6, <4>1
    <3>2. SubSeq(s, 1, Len(s)) = SubSeq(Stream, q, q - 1 + Len(s))
      BY <1>12, <3>1
    <3>3. SubSeq(s, 1, Len(s)) = s
      BY <1>9, SubSeqFull
    <3> QED
      BY <2>1, <3>1, <3>2, <3>3
  <2>13. ReadsAt(q, u, f)
    BY <2>9, <2>10, <2>11, <2>12 DEF ReadsAt
  <2> QED
    BY <2>5, <2>8, <2>13
<1>16. ASSUME NEW i \in 1..Len(items) PROVE ReadsItem(q, i)
  <2> SUFFICES ASSUME q = End(i - 1) + 1, items[i].kind = "good"
               PROVE  /\ taken < End(i) => WaitsAt(q)
                      /\ taken >= End(i) =>
                           delivered' = Append(delivered, items[i].bytes) /\ Start' = End(i) /\ at' = at
    BY DEF ReadsItem
  <2>1. PICK m : m = items[i].bytes
    OBVIOUS
  <2>2. m \in Seq(Symbols) /\ IsFrame(m)
    BY <1>2, <2>1, ItemsType
  <2>3. End(i) = End(i - 1) + Len(m) /\ Len(m) \in Nat /\ End(i - 1) \in Nat
    <3>1. i - 1 \in 0..Len(items)
      BY <1>2, ItemsType
    <3> QED
      BY <1>2, <2>1, <3>1, EndNext
  <2>a. q = End(i - 1) + 1 /\ \A j \in 1..Len(s) : j \in Nat /\ j >= 1
    BY <1>1, <1>9, <1>a
  <2>4. ASSUME NEW j \in 1..Len(s), j <= Len(m) PROVE s[j] = m[j]
    <3>1. j \in 1..Len(m) /\ j \in Nat /\ q + j - 1 = End(i - 1) + j
      BY <2>3, <2>4, <2>a
    <3>2. Stream[End(i - 1) + j] = m[j]
      BY <1>2, <2>1, <3>1, StreamAt
    <3> QED
      BY <1>9, <3>1, <3>2
  <2>5. BeginsWith(s, m)
    BY <1>9, <2>4, LenProperties DEF BeginsWith
  <2>6. /\ Len(s) < Len(m) => Waits(s)
        /\ Len(s) >= Len(m) => /\ delivered' = Append(delivered, m)
                               /\ buffer' = From(s, Len(m) + 1) /\ at' = at
    BY <1>7, <1>9, <2>2, <2>5, ReadMessageOfFrame
  <2>7. /\ taken < End(i) <=> Len(s) < Len(m)
        /\ taken >= End(i) <=> Len(s) >= Len(m)
    <3>1. PICK p : p = End(i - 1)
      OBVIOUS
    <3>2. p \in Nat /\ End(i) = p + Len(m) /\ Len(m) \in Nat /\ q = p + 1
      BY <2>3, <2>a, <3>1
    <3>3. Len(s) = taken - q + 1 /\ taken \in Nat
      BY <1>1, <1>9
    <3>4. Len(s) = taken - p
      BY <3>2, <3>3
    <3> QED
      BY <3>2, <3>3, <3>4
  <2>8. ASSUME taken < End(i) PROVE WaitsAt(q)
    BY <1>13, <2>6, <2>7, <2>8
  <2>9. ASSUME taken >= End(i)
        PROVE  delivered' = Append(delivered, m) /\ Start' = End(i) /\ at' = at
    <3>1. /\ delivered' = Append(delivered, m) /\ buffer' = From(s, Len(m) + 1) /\ at' = at
          /\ Len(m) <= Len(s)
      BY <1>1, <1>9, <1>a, <2>3, <2>6, <2>7, <2>9
    <3>2. Len(m) \in 0..Len(s) /\ Len(m) <= Len(m) /\ at' \in {"recv", "drain"}
      BY <1>1, <1>2, <1>9, <1>a, <2>3, <3>1
    <3>3. \E n \in Seq(Symbols) : Len(n) <= Len(m) /\ delivered' = Append(delivered, n)
      BY <2>2, <3>1, <3>2
    <3>4. Start' = q - 1 + Len(m)
      BY <1>11, <3>1, <3>2, <3>3
    <3> QED
      BY <1>a, <2>3, <3>1, <3>4
  <2> QED
    BY <2>1, <2>8, <2>9
<1>17. \/ Waits(s)
       \/ \E d \in 1..Len(s) : Rejects(s, d)
       \/ \E t \in 1..Len(s) : \E e \in (t + 1)..Len(s) : Reads(s, t, e)
  BY <1>7, <1>9, ReadMessageIs
<1>18. TypeInv' /\ ReadsMessage(q)
  BY <1>13, <1>14, <1>15, <1>16, <1>17, Zenon DEF ReadsMessage
<1> QED
  BY <1>10, <1>18, <1>a

-----------------------------------------------------------------------------
(* Steps, and the number of messages in front of a place                   *)

LEMMA Unchanged ==
  ASSUME items' = items
  PROVE  /\ Stream' = Stream
         /\ \A k : /\ End(k)' = End(k) /\ Clean(k)' = Clean(k)
                   /\ GoodUpTo(k)' = GoodUpTo(k) /\ Count(k)' = Count(k)
BY DEF Stream, End, Bytes, Clean, GoodUpTo, Count

\* Every step keeps the buffer a part of the stream, and is one of four.
LEMMA NextIs ==
  ASSUME TypeInv, Next
  PROVE  /\ TypeInv' /\ items' = items /\ whole' = whole
         /\ \/ \E n \in 1..(Len(Stream) - taken) : AppendBytes(n) /\ Start' = Start
            \/ /\ taken' = taken /\ at = "drain"
               /\ \/ FindsNothing
                  \/ \E q \in (Start + 1)..(taken - 1) : FindsBegin(q) /\ ReadsMessage(q)
<1>1. CASE \E n \in 1..(Len(Stream) - taken) : AppendBytes(n)
  <2>1. PICK n \in 1..(Len(Stream) - taken) : AppendBytes(n)
    BY <1>1
  <2>2. TypeInv' /\ Start' = Start
    BY <2>1, AppendBytesIs
  <2>3. items' = items /\ whole' = whole
    BY <2>1 DEF AppendBytes
  <2> QED
    BY <2>1, <2>2, <2>3
<1>2. CASE ReadNext
  <2>1. items' = items /\ whole' = whole /\ taken' = taken /\ at = "drain"
    BY <1>2 DEF ReadNext
  <2>2. CASE Places(buffer, BeginString) = {}
    <3>1. TypeInv' /\ FindsNothing
      BY <1>2, <2>2, FindsNothingIs
    <3> QED
      BY <2>1, <3>1
  <2>3. CASE Places(buffer, BeginString) # {}
    <3>1. TypeInv' /\ \E q \in (Start + 1)..(taken - 1) : FindsBegin(q) /\ ReadsMessage(q)
      BY <1>2, <2>3, FindsMessageIs
    <3> QED
      BY <2>1, <3>1
  <2> QED
    BY <2>2, <2>3
<1> QED
  BY <1>1, <1>2 DEF Next

LEMMA CountType ==
  ASSUME NEW k \in Nat
  PROVE  IsFiniteSet(GoodUpTo(k)) /\ Count(k) \in Nat
<1>1. IsFiniteSet(1..k) /\ GoodUpTo(k) \in SUBSET (1..k)
  BY FS_Interval DEF GoodUpTo
<1>2. IsFiniteSet(GoodUpTo(k))
  BY <1>1, FS_Subset
<1> QED
  BY <1>2, FS_CardinalityType DEF Count

LEMMA CountMonotone ==
  ASSUME NEW j \in Nat, NEW k \in Nat, j <= k
  PROVE  Count(j) <= Count(k)
<1>1. GoodUpTo(j) \in SUBSET GoodUpTo(k)
  BY DEF GoodUpTo
<1> QED
  BY <1>1, CountType, FS_Subset DEF Count

LEMMA CountSame ==
  ASSUME NEW j \in Nat, NEW k \in Nat, j <= k,
         \A i \in (j + 1)..k : items[i].kind # "good"
  PROVE  Count(k) = Count(j) /\ GoodUpTo(k) = GoodUpTo(j)
<1>1. GoodUpTo(k) = GoodUpTo(j)
  BY DEF GoodUpTo
<1> QED
  BY <1>1 DEF Count

LEMMA CountGood ==
  ASSUME NEW k \in Nat, items[k + 1].kind = "good"
  PROVE  Count(k + 1) = Count(k) + 1 /\ GoodUpTo(k + 1) = GoodUpTo(k) \cup {k + 1}
<1>1. GoodUpTo(k + 1) = GoodUpTo(k) \cup {k + 1}
  BY DEF GoodUpTo
<1>2. k + 1 \notin GoodUpTo(k)
  BY DEF GoodUpTo
<1>3. Cardinality(GoodUpTo(k) \cup {k + 1}) = Cardinality(GoodUpTo(k)) + 1
  BY <1>2, CountType, FS_AddElement
<1> QED
  BY <1>1, <1>3 DEF Count

\* A message has a number of its own.
LEMMA CountLess ==
  ASSUME NEW k \in Nat, NEW i \in Nat, k < i, items[i].kind = "good"
  PROVE  Count(k) < Count(i)
<1>1. PICK j : j = i - 1
  OBVIOUS
<1>2. j \in Nat /\ k <= j /\ j + 1 = i
  BY <1>1
<1>3. items[j + 1].kind = "good"
  BY <1>2
<1>4. Count(j + 1) = Count(j) + 1
  BY <1>2, <1>3, CountGood
<1>5. Count(k) <= Count(j)
  BY <1>2, CountMonotone
<1>6. Count(k) \in Nat /\ Count(j) \in Nat /\ Count(i) = Count(j) + 1
  BY <1>2, <1>4, CountType
<1> QED
  BY <1>5, <1>6

\* Behind item k comes noise, and then the end of the stream or no noise.
LEMMA NoiseEnds ==
  ASSUME items \in Streams, NEW k \in 0..Len(items)
  PROVE  \E c \in k..Len(items) :
           /\ \A i \in (k + 1)..c : items[i].kind = "noise"
           /\ c < Len(items) => items[c + 1].kind # "noise"
<1> DEFINE S == {c \in k..Len(items) : c < Len(items) => items[c + 1].kind # "noise"}
<1>1. Len(items) \in Nat /\ k \in Nat
  BY ItemsType
<1>2. S \in SUBSET Nat /\ Len(items) \in S
  BY <1>1
<1>3. PICK c : c = Min(S)
  OBVIOUS
<1>4. c \in S /\ \A j \in S : c <= j
  BY <1>2, <1>3, MinOf
<1>5. c \in k..Len(items) /\ (c < Len(items) => items[c + 1].kind # "noise")
  BY <1>4
<1>6. ASSUME NEW i \in (k + 1)..c PROVE items[i].kind = "noise"
  <2>1. PICK j : j = i - 1
    OBVIOUS
  <2>2. j \in k..Len(items) /\ j < Len(items) /\ ~(c <= j) /\ j + 1 = i
    BY <1>1, <1>5, <2>1
  <2>3. j \notin S
    BY <1>4, <2>2
  <2> QED
    BY <2>2, <2>3
<1> QED
  BY <1>5, <1>6

\* There is no BeginString that ends in noise.
LEMMA NoBeginInNoise ==
  ASSUME items \in Streams, NEW i \in 1..Len(items), items[i].kind = "noise",
         NEW x \in Nat, End(i - 1) < x + 1, x + 1 <= End(i)
  PROVE  ~Begins(x)
<1>1. PICK p : p = End(i - 1)
  OBVIOUS
<1>2. PICK m : m = items[i].bytes
  OBVIOUS
<1>3. i - 1 \in 0..Len(items)
  BY ItemsType
<1>4. p \in Nat /\ End(i) = p + Len(m) /\ Len(m) \in Nat
  BY <1>1, <1>2, <1>3, EndNext
<1>5. m \in Seq(Symbols) /\ IsNoise(m) /\ DOMAIN m = 1..Len(m)
  BY <1>2, ItemsType, LenProperties
<1>6. PICK y : y = x + 1 - p
  OBVIOUS
<1>a. p < x + 1
  BY <1>1
<1>b. x + 1 <= p + Len(m)
  BY <1>4
<1>7. y \in 1..Len(m) /\ p + y = x + 1 /\ p + (y - 1) = x
  BY <1>4, <1>6, <1>a, <1>b
<1>8. Stream[x + 1] = m[y]
  BY <1>1, <1>2, <1>7, StreamAt
<1>9. ASSUME m[y] = Fix PROVE Stream[x] # Eight
  <2>1. y > 1 /\ m[y - 1] # Eight
    BY <1>5, <1>7, <1>9 DEF IsNoise
  <2>2. y - 1 \in 1..Len(m)
    BY <1>4, <1>7, <2>1
  <2>3. Stream[p + (y - 1)] = m[y - 1]
    BY <1>1, <1>2, <2>2, StreamAt
  <2> QED
    BY <1>7, <2>1, <2>3
<1> QED
  BY <1>8, <1>9 DEF Begins

\* A good message begins with BeginString, and is at least nine symbols long.
LEMMA GoodBegins ==
  ASSUME items \in Streams, NEW i \in 1..Len(items), items[i].kind = "good"
  PROVE  /\ Begins(End(i - 1) + 1) /\ ~Begins(End(i - 1))
         /\ End(i) >= End(i - 1) + 9 /\ End(i - 1) \in Nat /\ End(i) \in Nat
         /\ End(i) <= End(i - 1) + MaxBodyLen + 9
         /\ Stream[End(i) - 1] = Sum /\ Stream[End(i)] = Soh
<1>1. PICK p : p = End(i - 1)
  OBVIOUS
<1>2. PICK m : m = items[i].bytes
  OBVIOUS
<1>3. i - 1 \in 0..Len(items) /\ i \in 0..Len(items)
  BY ItemsType
<1>4. p \in Nat /\ End(i) = p + Len(m) /\ Len(m) \in Nat
  BY <1>1, <1>2, <1>3, EndNext
<1>5. /\ Len(m) - 9 \in Nat /\ Len(m) - 9 <= MaxBodyLen /\ MaxBodyLen \in Nat
      /\ m[1] = Eight /\ m[2] = Fix
      /\ m[Len(m) - 1] = Sum /\ m[Len(m)] = Soh
  <2>1. m \in Seq(Symbols) /\ IsFrame(m)
    BY <1>2, ItemsType
  <2> QED
    BY <2>1, FrameIs, ParserAssumption
<1>6. \A j \in 1..Len(m) : Stream[p + j] = m[j]
  BY <1>1, <1>2, StreamAt
<1>a. 1 \in 1..Len(m) /\ 2 \in 1..Len(m) /\ Len(m) - 1 \in 1..Len(m) /\ Len(m) \in 1..Len(m)
  BY <1>4, <1>5
<1>7. Stream[p + 1] = Eight /\ Stream[p + 2] = Fix
  BY <1>5, <1>6, <1>a, Zenon
<1>8. Stream[p + (Len(m) - 1)] = Sum /\ Stream[p + Len(m)] = Soh
  BY <1>5, <1>6, <1>a, Zenon
<1>9. p + 1 + 1 = p + 2 /\ p + (Len(m) - 1) = End(i) - 1 /\ p + Len(m) = End(i) /\ End(i) >= p + 9
      /\ End(i) <= p + MaxBodyLen + 9
  <2>1. PICK n : n = Len(m)
    OBVIOUS
  <2>2. n \in Nat /\ n >= 9 /\ n <= MaxBodyLen + 9 /\ MaxBodyLen \in Nat
    BY <1>4, <1>5, <2>1
  <2>3. End(i) = p + n
    BY <1>4, <2>1
  <2> QED
    BY <1>4, <2>1, <2>2, <2>3
<1>10. Begins(p + 1) /\ ~Begins(p)
  BY <1>7, <1>9, SymbolsDiffer DEF Begins
<1>11. Stream[End(i) - 1] = Sum /\ Stream[End(i)] = Soh
  BY <1>8, <1>9, Zenon
<1>12. End(i) \in Nat
  BY <1>4
<1> QED
  BY <1>1, <1>4, <1>9, <1>10, <1>11, <1>12, Zenon

-----------------------------------------------------------------------------
(* What was built is delivered                                             *)

\* The buffer holds no more than what is kept of noise, or than one message begun.
Short ==
  \/ taken - Start <= Keep
  \/ Begins(Start + 1) /\ taken - Start < MaxBodyLen + 9

\* Everything in front of item k + 1 has been read, and item k + 1 is a message that
\* is not complete yet, or still to be read.
ReadUpTo(k) ==
  /\ Clean(k)
  /\ \A i \in GoodUpTo(k) : Delivered(i) /\ End(i) <= Start
  /\ Len(delivered) = Count(k)
  /\ Start <= End(k)
  /\ at = "recv" => Short
  /\ k < Len(items) => items[k + 1].kind = "good" /\ (at = "recv" => taken < End(k + 1))

\* Item k + 1 is malformed: what is read from there on is not known.
ReadToMalformed(k) ==
  /\ k < Len(items) /\ items[k + 1].kind = "bad"
  /\ \A i \in GoodUpTo(k) : Delivered(i)

DeliveryInv == \E k \in 0..Len(items) : ReadUpTo(k) \/ ReadToMalformed(k)

\* In front of item k + 1 no BeginString is left.
LEMMA NoBeginBefore ==
  ASSUME TypeInv, NEW k \in 0..Len(items), ReadUpTo(k),
         NEW x \in (Start + 1)..(taken - 1), x + 1 <= End(k)
  PROVE  ~Begins(x)
<1>1. items \in Streams /\ taken \in 0..Len(Stream)
  BY DEF TypeInv
<1>2. Start \in Nat /\ taken \in Nat /\ Len(items) \in Nat /\ Len(Stream) \in Nat
  BY <1>1, StartType, ItemsType, StreamType
<1>3. x + 1 \in 1..Len(Stream) /\ x \in Nat
  BY <1>1, <1>2
<1>4. PICK y : y = x + 1
  OBVIOUS
<1>5. PICK i \in 1..Len(items) : End(i - 1) < y /\ y <= End(i)
  BY <1>1, <1>3, <1>4, ItemOf
<1>6. PICK j : j = i - 1
  OBVIOUS
<1>7. j \in 0..Len(items) /\ i \in 0..Len(items) /\ j \in Nat /\ End(j) < y
  BY <1>2, <1>5, <1>6
<1>8. i <= k
  <2> SUFFICES ASSUME k <= j PROVE FALSE
    BY <1>2, <1>6, <1>7
  <2>1. End(k) <= End(j) /\ End(k) \in Nat /\ End(j) \in Nat
    BY <1>1, <1>7, EndMonotone, EndNext
  <2> QED
    BY <1>3, <1>4, <1>7, <2>1
<1>9. items[i].kind # "good"
  <2> SUFFICES ASSUME items[i].kind = "good" PROVE FALSE
    OBVIOUS
  <2>1. i \in GoodUpTo(k)
    BY <1>2, <1>8 DEF GoodUpTo
  <2>2. End(i) <= Start /\ End(i) \in Nat
    BY <1>1, <1>7, <2>1, EndNext DEF ReadUpTo
  <2> QED
    BY <1>2, <1>3, <1>4, <1>5, <2>2
<1>10. items[i].kind = "noise"
  BY <1>2, <1>8, <1>9 DEF ReadUpTo, Clean
<1> QED
  BY <1>1, <1>3, <1>4, <1>5, <1>10, NoBeginInNoise

\* So the first one is that of item k + 1, if two symbols of it have been received.
LEMMA FirstBegin ==
  ASSUME TypeInv, NEW k \in 0..Len(items), ReadUpTo(k)
  PROVE  /\ \A q \in (Start + 1)..(taken - 1) :
              FindsBegin(q) => k < Len(items) /\ q = End(k) + 1
         /\ FindsNothing => taken <= End(k) + 1
<1>1. items \in Streams /\ taken \in 0..Len(Stream)
  BY DEF TypeInv
<1>2. /\ Start \in Nat /\ taken \in Nat /\ Len(items) \in Nat /\ Len(Stream) \in Nat
      /\ End(k) \in Nat /\ Len(Stream) = End(Len(items)) /\ Start <= End(k)
  BY <1>1, StartType, ItemsType, StreamType, EndNext DEF ReadUpTo
<1>3. ASSUME k < Len(items)
      PROVE  Begins(End(k) + 1) /\ ~Begins(End(k))
  <2>1. PICK i : i = k + 1
    OBVIOUS
  <2>2. i \in 1..Len(items) /\ i - 1 = k /\ items[i].kind = "good"
    BY <1>2, <1>3, <2>1 DEF ReadUpTo
  <2>3. Begins(End(i - 1) + 1) /\ ~Begins(End(i - 1))
    BY <1>1, <2>2, GoodBegins
  <2> QED
    BY <2>2, <2>3
<1>4. k < Len(items) \/ k = Len(items)
  BY <1>2
<1>5. ASSUME NEW q \in (Start + 1)..(taken - 1), FindsBegin(q)
      PROVE  k < Len(items) /\ q = End(k) + 1
  <2>1. Begins(q) /\ \A x \in (Start + 1)..(q - 1) : ~Begins(x)
    BY <1>5 DEF FindsBegin
  <2>2. ~(q + 1 <= End(k))
    BY <2>1, NoBeginBefore
  <2>3. q \in Nat /\ q + 1 <= taken /\ taken <= Len(Stream)
    BY <1>1, <1>2
  <2>4. k < Len(items)
    BY <1>2, <1>4, <2>2, <2>3
  <2>5. q # End(k)
    BY <1>3, <2>1, <2>4
  <2>6. ~(End(k) + 1 \in (Start + 1)..(q - 1))
    BY <1>3, <2>1, <2>4
  <2> QED
    BY <1>2, <2>2, <2>3, <2>4, <2>5, <2>6
<1>6. ASSUME FindsNothing PROVE taken <= End(k) + 1
  <2>1. CASE k = Len(items)
    BY <1>1, <1>2, <2>1
  <2>2. CASE k < Len(items)
    <3>1. ~(End(k) + 1 \in (Start + 1)..(taken - 1))
      BY <1>3, <1>6, <2>2 DEF FindsNothing
    <3> QED
      BY <1>2, <3>1
  <2> QED
    BY <1>4, <2>1, <2>2
<1> QED
  BY <1>5, <1>6

\* What has been delivered stays delivered.
LEMMA DeliveredGrows ==
  ASSUME TypeInv, items' = items, NEW i \in Nat, Delivered(i), i > 0, items[i].kind = "good",
         delivered' = delivered \/ \E m \in Seq(Symbols) : delivered' = Append(delivered, m)
  PROVE  Delivered(i)'
<1>1. delivered \in Seq(Seq(Symbols))
  BY DEF TypeInv
<1>2. Count(i)' = Count(i)
  BY Unchanged
<1>3. Count(i) \in Nat /\ Count(0) \in Nat /\ Count(0) < Count(i)
  BY CountType, CountLess
<1>4. Count(i) \in 1..Len(delivered) /\ delivered[Count(i)] = items[i].bytes /\ Len(delivered) \in Nat
  BY <1>1, <1>3, LenProperties DEF Delivered
<1>5. CASE delivered' = delivered
  BY <1>2, <1>4, <1>5 DEF Delivered
<1>6. CASE \E m \in Seq(Symbols) : delivered' = Append(delivered, m)
  <2>1. PICK m \in Seq(Symbols) : delivered' = Append(delivered, m)
    BY <1>6
  <2>2. Len(delivered') = Len(delivered) + 1 /\ \A j \in 1..Len(delivered) : delivered'[j] = delivered[j]
    BY <1>1, <2>1, AppendProperties
  <2>3. Count(i) <= Len(delivered') /\ delivered'[Count(i)] = items'[i].bytes
    BY <1>4, <2>2
  <2> QED
    BY <1>2, <2>3 DEF Delivered
<1> QED
  BY <1>5, <1>6

LEMMA DeliveredChange ==
  ASSUME TypeInv, Next
  PROVE  delivered' = delivered \/ \E m \in Seq(Symbols) : delivered' = Append(delivered, m)
<1>1. CASE \E n \in 1..(Len(Stream) - taken) : AppendBytes(n)
  BY <1>1 DEF AppendBytes
<1>2. CASE FindsNothing
  BY <1>2 DEF FindsNothing
<1>3. CASE \E q \in (Start + 1)..(taken - 1) : ReadsMessage(q)
  <2>1. PICK q \in (Start + 1)..(taken - 1) : ReadsMessage(q)
    BY <1>3
  <2>2. CASE WaitsAt(q) \/ RejectsAt(q)
    BY <2>2 DEF WaitsAt, RejectsAt
  <2>3. CASE \E t \in q..taken : \E e \in (t + 1)..taken : ReadsAt(q, t, e)
    <3>a. PICK t \in q..taken : \E e \in (t + 1)..taken : ReadsAt(q, t, e)
      BY <2>3
    <3>1. PICK e \in (t + 1)..taken : ReadsAt(q, t, e)
      BY <3>a
    <3>2. delivered' = Append(delivered, SubSeq(Stream, q, e))
      BY <3>1 DEF ReadsAt
    <3>3. Stream \in Seq(Symbols) /\ taken \in 0..Len(Stream) /\ Len(Stream) \in Nat /\ Start \in Nat /\ taken \in Nat
      BY StreamType, StartType DEF TypeInv
    <3>4. q \in Int /\ e \in Int /\ \A i \in q..e : i \in 1..Len(Stream)
      BY <3>3
    <3>5. \A i \in q..e : Stream[i] \in Symbols
      BY <3>3, <3>4, ElementOfSeq
    <3>6. SubSeq(Stream, q, e) \in Seq(Symbols)
      BY <3>4, <3>5, SubSeqProperties
    <3> QED
      BY <3>2, <3>6
  <2> QED
    BY <2>1, <2>2, <2>3 DEF ReadsMessage
<1> QED
  BY <1>1, <1>2, <1>3, NextIs

LEMMA DeliveryInit ==
  ASSUME TypeInv, Init
  PROVE  DeliveryInv
<1>1. items \in Streams /\ taken = 0 /\ delivered = <<>> /\ Start \in 0..taken
  BY StartType DEF TypeInv, Init
<1>2. 0 \in 0..Len(items) /\ Len(items) \in Nat
  BY <1>1, ItemsType
<1>3. PICK c \in 0..Len(items) :
        /\ \A i \in (0 + 1)..c : items[i].kind = "noise"
        /\ c < Len(items) => items[c + 1].kind # "noise"
  BY <1>1, <1>2, NoiseEnds
<1>4. c \in Nat /\ \A i \in 1..c : items[i].kind = "noise"
  BY <1>3
<1>5. GoodUpTo(c) = {}
  BY <1>4 DEF GoodUpTo
<1>6. Count(c) = 0
  BY <1>5, FS_EmptySet DEF Count
<1>7. Clean(c)
  BY <1>4 DEF Clean
<1>8. CASE c < Len(items) /\ items[c + 1].kind = "bad"
  BY <1>3, <1>5, <1>8 DEF DeliveryInv, ReadToMalformed
<1>9. CASE c < Len(items) => items[c + 1].kind = "good"
  <2>1. ASSUME c < Len(items) PROVE taken < End(c + 1)
    <3>1. PICK i : i = c + 1
      OBVIOUS
    <3>2. i \in 1..Len(items) /\ items[i].kind = "good"
      BY <1>4, <1>9, <2>1, <3>1
    <3>3. End(i) >= End(i - 1) + 9 /\ End(i - 1) \in Nat /\ End(i) \in Nat
      BY <1>1, <3>2, GoodBegins
    <3> QED
      BY <1>1, <3>1, <3>3
  <2>2. Start <= End(c) /\ Len(delivered) = 0
    BY <1>1, EndNext
  <2>3. ReadUpTo(c)
    <3>1. taken - Start <= Keep
      BY <1>1, ParserAssumption
    <3>2. Short
      BY <3>1, Zenon DEF Short
    <3> QED
      BY <1>5, <1>6, <1>7, <1>9, <2>1, <2>2, <3>2 DEF ReadUpTo
  <2> QED
    BY <2>3 DEF DeliveryInv
<1>10. c < Len(items) => c + 1 \in 1..Len(items)
  BY <1>2, <1>4
<1> QED
  BY <1>1, <1>3, <1>8, <1>9, <1>10, ItemsType

\* The message behind item k has been read: what is next is behind the noise.
LEMMA ReadOneMore ==
  ASSUME TypeInv, Next, NEW k \in 0..Len(items), ReadUpTo(k), k < Len(items),
         items[k + 1].kind = "good",
         delivered' = Append(delivered, items[k + 1].bytes), Start' = End(k + 1), at' = "drain"
  PROVE  DeliveryInv'
<1>1. items \in Streams /\ items' = items /\ delivered \in Seq(Seq(Symbols))
  BY NextIs DEF TypeInv
<1>2. k \in Nat /\ k + 1 \in 0..Len(items) /\ k + 1 \in 1..Len(items) /\ Len(items) \in Nat
  BY <1>1, ItemsType
<1>3. PICK n : n = k + 1
  OBVIOUS
<1>4. n \in Nat /\ n \in 0..Len(items) /\ n \in 1..Len(items) /\ items[n].kind = "good" /\ n > k
  BY <1>2, <1>3
<1>5. PICK c \in n..Len(items) :
        /\ \A i \in (n + 1)..c : items[i].kind = "noise"
        /\ c < Len(items) => items[c + 1].kind # "noise"
  BY <1>1, <1>4, NoiseEnds
<1>6. c \in Nat /\ c \in 0..Len(items) /\ n <= c
  BY <1>4, <1>5
<1>7. Count(c) = Count(n) /\ GoodUpTo(c) = GoodUpTo(n)
  BY <1>4, <1>5, <1>6, CountSame
<1>8. Count(n) = Count(k) + 1 /\ GoodUpTo(n) = GoodUpTo(k) \cup {n}
  BY <1>2, <1>3, CountGood
<1>9. /\ Clean(k) /\ Len(delivered) = Count(k) /\ Start <= End(k)
      /\ \A i \in GoodUpTo(k) : Delivered(i) /\ End(i) <= Start
  BY DEF ReadUpTo
<1>10. items[n].bytes \in Seq(Symbols)
  BY <1>1, <1>4, ItemsType
<1>11. delivered' = Append(delivered, items[n].bytes) /\ Start' = End(n)
  BY <1>3
<1>12. /\ Len(delivered') = Len(delivered) + 1 /\ Len(delivered) \in Nat
       /\ delivered'[Len(delivered) + 1] = items[n].bytes
  BY <1>1, <1>10, <1>11, AppendProperties, LenProperties
<1>13. /\ Clean(c)' = Clean(c) /\ Count(c)' = Count(c) /\ GoodUpTo(c)' = GoodUpTo(c)
       /\ \A i : End(i)' = End(i) /\ Count(i)' = Count(i)
  BY <1>1, Unchanged
<1>14. Clean(c)
  BY <1>2, <1>3, <1>4, <1>5, <1>9 DEF Clean
<1>15. Delivered(n)'
  <2>1. Count(n) <= Len(delivered') /\ delivered'[Count(n)] = items'[n].bytes
    BY <1>1, <1>8, <1>9, <1>12
  <2> QED
    BY <1>13, <2>1 DEF Delivered
<1>16. ASSUME NEW i \in GoodUpTo(k) PROVE Delivered(i)'
  <2>1. i \in Nat /\ i > 0 /\ items[i].kind = "good"
    BY DEF GoodUpTo
  <2>2. \E m \in Seq(Symbols) : delivered' = Append(delivered, m)
    BY <1>10, <1>11
  <2>3. Delivered(i)
    BY <1>9
  <2> QED
    BY <1>1, <2>1, <2>2, <2>3, DeliveredGrows
<1>17. \A i \in GoodUpTo(c) : Delivered(i)'
  BY <1>7, <1>8, <1>15, <1>16
<1>18. ASSUME NEW i \in GoodUpTo(c) PROVE End(i) <= End(n)
  <2>1. i \in GoodUpTo(n)
    BY <1>7
  <2>2. i \in 1..n
    BY <2>1 DEF GoodUpTo
  <2>3. i \in 0..Len(items) /\ i <= n
    BY <1>4, <2>2
  <2> QED
    BY <1>1, <1>4, <2>3, EndMonotone
<1>19. End(n) <= End(c)
  BY <1>1, <1>4, <1>6, EndMonotone
<1>20. CASE c < Len(items) /\ items[c + 1].kind = "bad"
  <2>1. c < Len(items') /\ items'[c + 1].kind = "bad"
    BY <1>1, <1>20
  <2>2. \A i \in GoodUpTo(c)' : Delivered(i)'
    BY <1>13, <1>17
  <2>3. ReadToMalformed(c)'
    BY <2>1, <2>2 DEF ReadToMalformed
  <2> QED
    BY <1>1, <1>6, <2>3 DEF DeliveryInv
<1>21. CASE c < Len(items) => items[c + 1].kind = "good"
  <2>1. c < Len(items') => items'[c + 1].kind = "good"
    BY <1>1, <1>21
  <2>2. at' # "recv"
    OBVIOUS
  <2>3. \A i \in GoodUpTo(c)' : Delivered(i)' /\ End(i)' <= Start'
    BY <1>11, <1>13, <1>17, <1>18
  <2>4. Len(delivered') = Count(c)' /\ Start' <= End(c)'
    BY <1>7, <1>8, <1>9, <1>11, <1>12, <1>13, <1>19
  <2>5. ReadUpTo(c)'
    BY <1>13, <1>14, <2>1, <2>2, <2>3, <2>4 DEF ReadUpTo
  <2> QED
    BY <1>1, <1>6, <2>5 DEF DeliveryInv
<1>22. c < Len(items) => c + 1 \in 1..Len(items)
  BY <1>2, <1>6
<1> QED
  BY <1>1, <1>5, <1>20, <1>21, <1>22, ItemsType

LEMMA DeliveryNext ==
  ASSUME TypeInv, DeliveryInv, Next
  PROVE  DeliveryInv'
<1>1. /\ items \in Streams /\ items' = items /\ Len(items) \in Nat
      /\ taken \in Nat /\ Start \in Nat
  BY NextIs, ItemsType, StartType DEF TypeInv
<1>2. PICK k \in 0..Len(items) : ReadUpTo(k) \/ ReadToMalformed(k)
  BY DEF DeliveryInv
<1>3. /\ Clean(k)' = Clean(k) /\ Count(k)' = Count(k) /\ GoodUpTo(k)' = GoodUpTo(k)
      /\ \A i : End(i)' = End(i) /\ Count(i)' = Count(i)
  BY <1>1, Unchanged
<1>4. ASSUME NEW i \in GoodUpTo(k) PROVE Delivered(i)'
  <2>1. i \in Nat /\ i > 0 /\ items[i].kind = "good"
    BY DEF GoodUpTo
  <2>2. Delivered(i)
    BY <1>2 DEF ReadUpTo, ReadToMalformed
  <2> QED
    BY <1>1, <2>1, <2>2, DeliveredChange, DeliveredGrows
<1>5. CASE ReadToMalformed(k)
  <2>1. k < Len(items') /\ items'[k + 1].kind = "bad"
    BY <1>1, <1>5 DEF ReadToMalformed
  <2>2. ReadToMalformed(k)'
    BY <1>3, <1>4, <2>1 DEF ReadToMalformed
  <2> QED
    BY <1>1, <2>2 DEF DeliveryInv
<1>6. CASE ReadUpTo(k)
  <2>1. /\ Clean(k) /\ Len(delivered) = Count(k) /\ Start <= End(k)
        /\ \A i \in GoodUpTo(k) : Delivered(i) /\ End(i) <= Start
        /\ k < Len(items) => items[k + 1].kind = "good" /\ (at = "recv" => taken < End(k + 1))
    BY <1>6 DEF ReadUpTo
  <2>2. ASSUME delivered' = delivered, Start' \in Nat, Start <= Start', Start' <= End(k),
               at' = "recv" => Short', k < Len(items) /\ at' = "recv" => taken' < End(k + 1)
        PROVE  DeliveryInv'
    <3>1. ASSUME NEW i \in GoodUpTo(k)' PROVE Delivered(i)' /\ End(i)' <= Start'
      <4>1. i \in GoodUpTo(k) /\ i \in 0..Len(items)
        BY <1>1, <1>2, <1>3, <3>1 DEF GoodUpTo
      <4>2. End(i) <= Start /\ End(i) \in Nat /\ Delivered(i)'
        BY <1>1, <1>4, <2>1, <4>1, EndNext
      <4> QED
        BY <1>1, <1>3, <2>2, <4>2
    <3>2. Len(delivered') = Count(k)' /\ Start' <= End(k)' /\ Clean(k)'
      BY <1>3, <2>1, <2>2
    <3>3. k < Len(items') => items'[k + 1].kind = "good" /\ (at' = "recv" => taken' < End(k + 1)')
      BY <1>1, <1>3, <2>1, <2>2
    <3>4. ReadUpTo(k)'
      BY <2>2, <3>1, <3>2, <3>3 DEF ReadUpTo
    <3> QED
      BY <1>1, <3>4 DEF DeliveryInv
  <2>3. ASSUME k < Len(items)
        PROVE  /\ End(k + 1) >= End(k) + 9 /\ End(k) \in Nat /\ End(k + 1) \in Nat
               /\ End(k + 1) <= End(k) + MaxBodyLen + 9
    <3>1. PICK i : i = k + 1
      OBVIOUS
    <3>2. i \in 1..Len(items) /\ i - 1 = k /\ items[i].kind = "good"
      BY <1>1, <2>1, <2>3, <3>1
    <3>3. /\ End(i) >= End(i - 1) + 9 /\ End(i - 1) \in Nat /\ End(i) \in Nat
          /\ End(i) <= End(i - 1) + MaxBodyLen + 9
      BY <1>1, <3>2, GoodBegins
    <3> QED
      BY <3>1, <3>2, <3>3
  <2>4. CASE \E n \in 1..(Len(Stream) - taken) : AppendBytes(n) /\ Start' = Start
    <3>1. delivered' = delivered /\ Start' = Start /\ at' = "drain"
      BY <2>4 DEF AppendBytes
    <3> QED
      BY <1>1, <2>1, <2>2, <3>1
  <2>5. CASE taken' = taken /\ FindsNothing
    <3>1. Start' \in Start..taken /\ (Start' = Start \/ Start' < taken) /\ delivered' = delivered
      BY <2>5 DEF FindsNothing
    <3>2. taken <= End(k) + 1
      BY <1>2, <1>6, <2>5, FirstBegin
    <3>3. End(k) \in Nat /\ Start' \in Nat
      BY <1>1, <3>1, EndNext
    <3>4. Start' <= End(k) /\ Start <= Start'
      BY <1>1, <2>1, <3>1, <3>2, <3>3
    <3>5. k < Len(items) => taken' < End(k + 1)
      BY <1>1, <2>3, <2>5, <3>2, <3>3
    <3>6. Short'
      <4>1. taken' - Start' <= Keep
        BY <2>5 DEF FindsNothing
      <4> QED
        BY <4>1, Zenon DEF Short
    <3> QED
      BY <2>2, <3>1, <3>3, <3>4, <3>5, <3>6
  <2>6. CASE /\ taken' = taken /\ at = "drain"
             /\ \E q \in (Start + 1)..(taken - 1) : FindsBegin(q) /\ ReadsMessage(q)
    <3>1. PICK q \in (Start + 1)..(taken - 1) : FindsBegin(q) /\ ReadsMessage(q)
      BY <2>6
    <3>2. k < Len(items) /\ q = End(k) + 1
      BY <1>6, <3>1, FirstBegin
    <3>3. PICK i : i = k + 1
      OBVIOUS
    <3>4. i \in 1..Len(items) /\ i - 1 = k /\ items[i].kind = "good"
      BY <1>1, <2>1, <3>2, <3>3
    <3>5. q = End(i - 1) + 1
      BY <3>2, <3>4
    <3>6. ReadsItem(q, i)
      BY <3>1, <3>4 DEF ReadsMessage
    <3>7. /\ taken < End(i) => WaitsAt(q)
          /\ taken >= End(i) =>
               delivered' = Append(delivered, items[i].bytes) /\ Start' = End(i) /\ at' = at
      BY <3>4, <3>5, <3>6, Zenon DEF ReadsItem
    <3>8. CASE taken < End(i)
      <4>1. Start' = q - 1 /\ delivered' = delivered
        BY <3>7, <3>8 DEF WaitsAt
      <4>2. End(k) \in Nat /\ Start' = End(k)
        BY <2>3, <3>2, <4>1
      <4>3. taken' < End(k + 1)
        BY <2>6, <3>3, <3>8
      <4>4. Short'
        <5>1. taken' - Start' < MaxBodyLen + 9
          BY <1>1, <2>3, <2>6, <3>2, <4>2, <4>3, ParserAssumption
        <5>2. Begins(q) /\ Start' + 1 = q
          BY <3>1, <3>2, <4>2 DEF FindsBegin
        <5>3. Begins(Start + 1)'
          BY <1>1, <5>2, Unchanged DEF Begins
        <5> QED
          BY <5>1, <5>3 DEF Short
      <4> QED
        BY <2>1, <2>2, <4>1, <4>2, <4>3, <4>4
    <3>9. CASE taken >= End(i)
      <4>1. /\ delivered' = Append(delivered, items[k + 1].bytes) /\ Start' = End(k + 1)
            /\ at' = "drain" /\ items[k + 1].kind = "good"
        BY <2>6, <3>3, <3>4, <3>7, <3>9
      <4> QED
        BY <1>6, <3>2, <4>1, ReadOneMore
    <3>10. End(i) \in Nat
      BY <2>3, <3>2, <3>3
    <3> QED
      BY <1>1, <3>8, <3>9, <3>10
  <2> QED
    BY <2>4, <2>5, <2>6, NextIs
<1> QED
  BY <1>2, <1>5, <1>6

\* From the invariant: what can be in front of item k + 1 and complete has been
\* delivered, and nothing but the messages has.
LEMMA DeliveryImplies ==
  ASSUME TypeInv, DeliveryInv
  PROVE  BuiltIsDelivered
<1>1. items \in Streams /\ Len(items) \in Nat /\ taken \in Nat /\ delivered \in Seq(Seq(Symbols))
  BY ItemsType, StartType DEF TypeInv
<1>2. PICK c \in 0..Len(items) : ReadUpTo(c) \/ ReadToMalformed(c)
  BY DEF DeliveryInv
<1>3. \A i \in GoodUpTo(c) : Delivered(i)
  BY <1>2 DEF ReadUpTo, ReadToMalformed
<1> SUFFICES ASSUME NEW k \in 0..Len(items), Clean(k)
             PROVE  /\ at = "recv" /\ End(k) <= taken => \A i \in GoodUpTo(k) : Delivered(i)
                    /\ k = Len(items) =>
                         /\ at = "recv" /\ Len(buffer) > Keep =>
                              1 \in Places(buffer, BeginString) /\ Len(buffer) < MaxBodyLen + 9
                         /\ Len(delivered) <= Count(k)
                         /\ \A i \in GoodUpTo(k) : Count(i) <= Len(delivered) => Delivered(i)
  BY DEF BuiltIsDelivered, End
<1>4. CASE ReadToMalformed(c)
  <2>1. k <= c
    <3> SUFFICES ASSUME c + 1 <= k PROVE FALSE
      BY <1>1
    <3>1. c + 1 \in 1..k
      BY <1>1
    <3>2. items[c + 1].kind \in {"good", "noise"}
      BY <3>1 DEF Clean
    <3> QED
      BY <1>4, <3>2 DEF ReadToMalformed
  <2>2. k # Len(items)
    BY <1>1, <1>4, <2>1 DEF ReadToMalformed
  <2>3. \A i \in GoodUpTo(k) : Delivered(i)
    BY <1>1, <1>3, <2>1 DEF GoodUpTo
  <2> QED
    BY <2>2, <2>3
<1>5. CASE ReadUpTo(c)
  <2>1. /\ Len(delivered) = Count(c)
        /\ c < Len(items) => items[c + 1].kind = "good" /\ (at = "recv" => taken < End(c + 1))
    BY <1>5 DEF ReadUpTo
  <2>2. ASSUME at = "recv", End(k) <= taken, NEW i \in GoodUpTo(k) PROVE Delivered(i)
    <3>1. k <= c
      <4> SUFFICES ASSUME c + 1 <= k PROVE FALSE
        BY <1>1
      <4>1. PICK j : j = c + 1
        OBVIOUS
      <4>2. j \in 0..Len(items) /\ j <= k /\ c < Len(items)
        BY <1>1, <4>1
      <4>3. taken < End(j)
        BY <2>1, <2>2, <4>1, <4>2
      <4>4. End(j) <= End(k) /\ End(j) \in Nat /\ End(k) \in Nat
        BY <1>1, <4>2, EndMonotone, EndNext
      <4> QED
        BY <1>1, <2>2, <4>3, <4>4
    <3>2. i \in GoodUpTo(c)
      BY <1>1, <3>1 DEF GoodUpTo
    <3> QED
      BY <1>3, <3>2
  <2>3. ASSUME k = Len(items), NEW i \in GoodUpTo(k), Count(i) <= Len(delivered) PROVE Delivered(i)
    <3>1. i \in Nat /\ i > 0 /\ items[i].kind = "good"
      BY <1>1 DEF GoodUpTo
    <3>2. ~(c < i)
      <4> SUFFICES ASSUME c < i PROVE FALSE
        OBVIOUS
      <4>1. c \in Nat
        BY <1>1
      <4>2. Count(c) < Count(i)
        BY <3>1, <4>1, CountLess
      <4>3. Count(c) \in Nat /\ Count(i) \in Nat
        BY <3>1, <4>1, CountType
      <4> QED
        BY <2>1, <2>3, <4>2, <4>3
    <3>3. i \in GoodUpTo(c)
      BY <1>1, <3>1, <3>2 DEF GoodUpTo
    <3> QED
      BY <1>3, <3>3
  <2>4. ASSUME k = Len(items) PROVE Len(delivered) <= Count(k)
    BY <1>1, <2>1, <2>4, CountMonotone
  <2>5. ASSUME at = "recv", Len(buffer) > Keep
        PROVE  1 \in Places(buffer, BeginString) /\ Len(buffer) < MaxBodyLen + 9
    <3>1. taken - Start = Len(buffer) /\ Len(buffer) \in Nat /\ Keep \in Nat /\ Keep > 0
      BY StartType, ParserAssumption
    <3>2. Begins(Start + 1) /\ Len(buffer) < MaxBodyLen + 9
      BY <1>5, <2>5, <3>1 DEF ReadUpTo, Short
    <3>3. /\ Start \in Nat /\ 1 \in 1..(Len(buffer) - 1) /\ 1 \in 1..Len(buffer) /\ 2 \in 1..Len(buffer)
          /\ Start + 1 + 1 = Start + 2
      BY <2>5, <3>1, StartType
    <3>4. buffer[1] = Eight /\ buffer[2] = Fix /\ buffer \in Seq(Symbols)
      BY <3>2, <3>3 DEF TypeInv, Begins
    <3> QED
      BY <3>2, <3>3, <3>4, PlacesBegin
  <2> QED
    BY <2>2, <2>3, <2>4, <2>5
<1> QED
  BY <1>2, <1>4, <1>5

-----------------------------------------------------------------------------
(* A malformed message that ends itself takes no good one with it          *)

\* Item i has been received, and the malformed messages in front of it end themselves.
Received(i) ==
  /\ items[i].kind = "good" /\ End(i) <= taken
  /\ \A b \in 1..(i - 1) : items[b].kind = "bad" => EndsItself(items[b].bytes)

\* The buffer begins no later than it, or behind it, and then it has been delivered.
Kept(i) ==
  \/ Start <= End(i - 1)
  \/ End(i) <= Start /\ \E j \in DOMAIN delivered : delivered[j] = items[i].bytes

KeptInv ==
  whole =>
    /\ \E k \in 0..Len(items) : taken = End(k)
    /\ \A i \in 1..Len(items) : Received(i) => Kept(i)

LEMMA WithinIs ==
  ASSUME NEW part \in Seq(Symbols), Len(part) > 0, NEW s \in Seq(Symbols),
         NEW d \in 0..(Len(s) - Len(part)),
         \A j \in 1..Len(part) : s[d + j] = part[j]
  PROVE  Within(part, s)
<1>1. Len(part) \in Nat /\ Len(s) \in Nat /\ d \in Nat
  OBVIOUS
<1>2. PICK x : x = d + 1
  OBVIOUS
<1>3. PICK z : z = x + Len(part) - 1
  OBVIOUS
<1>4. x \in Int /\ z \in Int /\ x <= z /\ z - x + 1 = Len(part) /\ \A i \in x..z : i \in 1..Len(s)
  BY <1>1, <1>2, <1>3
<1>5. \A i \in x..z : s[i] \in Symbols
  BY <1>4, ElementOfSeq
<1>6. PICK t : t = SubSeq(s, x, z)
  OBVIOUS
<1>7. /\ t \in Seq(Symbols) /\ Len(t) = IF x <= z THEN z - x + 1 ELSE 0
      /\ \A i \in 1..(z - x + 1) : t[i] = s[x + i - 1]
  BY <1>4, <1>5, <1>6, SubSeqProperties
<1>8. Len(t) = Len(part)
  BY <1>4, <1>7
<1>9. ASSUME NEW i \in 1..Len(t) PROVE t[i] = part[i]
  <2>1. i \in 1..(z - x + 1) /\ i \in 1..Len(part) /\ x + i - 1 = d + i
    BY <1>1, <1>2, <1>4, <1>8
  <2>2. t[i] = s[x + i - 1] /\ s[d + i] = part[i]
    BY <1>7, <2>1
  <2> QED
    BY <2>1, <2>2
<1>10. t = part
  BY <1>7, <1>8, <1>9, SeqEqual
<1>11. x \in 1..(Len(s) - Len(part) + 1)
  BY <1>1, <1>2
<1>12. SubSeq(s, x, x + Len(part) - 1) = part
  BY <1>3, <1>6, <1>10
<1> QED
  BY <1>11, <1>12 DEF Within, Places

\* Where item i is in the stream.
LEMMA ItemAt ==
  ASSUME items \in Streams, NEW i \in 1..Len(items), items[i].kind = "good"
  PROVE  /\ items[i].bytes \in Seq(Symbols) /\ Len(items[i].bytes) \in Nat /\ Len(items[i].bytes) > 0
         /\ End(i - 1) \in Nat /\ End(i) \in Nat /\ End(i) = End(i - 1) + Len(items[i].bytes)
         /\ \A j \in 1..Len(items[i].bytes) : Stream[End(i - 1) + j] = items[i].bytes[j]
<1>1. items[i].bytes \in Seq(Symbols) /\ i - 1 \in 0..Len(items) /\ i \in 0..Len(items)
  BY ItemsType
<1>2. \A j \in 1..Len(items[i].bytes) : Stream[End(i - 1) + j] = items[i].bytes[j]
  BY StreamAt
<1>3. /\ End(i - 1) \in Nat /\ End(i) \in Nat /\ End(i) = End(i - 1) + Len(items[i].bytes)
      /\ Len(items[i].bytes) \in Nat
  BY <1>1, EndNext
<1>4. End(i) >= End(i - 1) + 9
  BY GoodBegins
<1>5. Len(items[i].bytes) > 0
  <2>1. PICK p : p = End(i - 1)
    OBVIOUS
  <2>2. p \in Nat /\ End(i) = p + Len(items[i].bytes) /\ End(i) >= p + 9
    BY <1>3, <1>4, <2>1
  <2> QED
    BY <1>3, <2>2
<1> QED
  BY <1>1, <1>2, <1>3, <1>5

LEMMA WithinBuffer ==
  ASSUME TypeInv, NEW i \in 1..Len(items), items[i].kind = "good",
         Start <= End(i - 1), End(i) <= taken
  PROVE  Within(items[i].bytes, buffer)
<1>1. /\ items \in Streams /\ buffer \in Seq(Symbols)
      /\ \A j \in 1..Len(buffer) : buffer[j] = Stream[Start + j]
  BY DEF TypeInv
<1>2. Start \in Nat /\ taken \in Nat /\ Len(buffer) \in Nat /\ taken = Start + Len(buffer)
  BY StartType
<1>3. PICK m : m = items[i].bytes
  OBVIOUS
<1>4. PICK p : p = End(i - 1)
  OBVIOUS
<1>5. /\ m \in Seq(Symbols) /\ Len(m) \in Nat /\ Len(m) > 0
      /\ p \in Nat /\ End(i) = p + Len(m) /\ \A j \in 1..Len(m) : Stream[p + j] = m[j]
  BY <1>1, <1>3, <1>4, ItemAt
<1>6. PICK d : d = p - Start
  OBVIOUS
<1>7. d \in 0..(Len(buffer) - Len(m)) /\ d \in Nat
  BY <1>2, <1>4, <1>5, <1>6
<1>8. ASSUME NEW j \in 1..Len(m) PROVE buffer[d + j] = m[j]
  <2>1. d + j \in 1..Len(buffer) /\ Start + (d + j) = p + j
    BY <1>2, <1>5, <1>6, <1>7
  <2>2. buffer[d + j] = Stream[Start + (d + j)]
    BY <1>1, <2>1
  <2> QED
    BY <1>5, <2>1, <2>2
<1> QED
  BY <1>1, <1>3, <1>5, <1>7, <1>8, WithinIs

\* A message that begins in a malformed one which ends itself ends there too.
LEMMA ReadsWithin ==
  ASSUME TypeInv, NEW b \in 1..Len(items), EndsItself(items[b].bytes), End(b) <= taken,
         NEW q \in Nat, End(b - 1) < q, q + 1 <= End(b), Begins(q),
         NEW t \in q..taken, NEW e \in (t + 1)..taken, ReadsAt(q, t, e)
  PROVE  e <= End(b)
<1>1. /\ items \in Streams /\ Stream \in Seq(Symbols) /\ Len(Stream) \in Nat
      /\ taken \in Nat /\ taken <= Len(Stream)
  BY StreamType, StartType DEF TypeInv
<1>2. PICK p : p = End(b - 1)
  OBVIOUS
<1>3. PICK m : m = items[b].bytes
  OBVIOUS
<1>4. /\ m \in Seq(Symbols) /\ DOMAIN m = 1..Len(m) /\ Len(m) \in Nat /\ EndsItself(m)
      /\ p \in Nat /\ End(b) = p + Len(m) /\ \A j \in 1..Len(m) : Stream[p + j] = m[j]
  <2>1. b - 1 \in 0..Len(items)
    BY <1>1, ItemsType
  <2>2. m \in Seq(Symbols)
    BY <1>1, <1>3, ItemsType
  <2> QED
    BY <1>1, <1>2, <1>3, <2>1, <2>2, EndNext, StreamAt, LenProperties
<1>5. PICK y : y = q - p
  OBVIOUS
<1>6. y \in 1..(Len(m) - 1) /\ q = p + y
  BY <1>2, <1>4, <1>5
<1>7. y \in Places(m, BeginString)
  <2>1. y \in 1..Len(m) /\ y + 1 \in 1..Len(m) /\ p + (y + 1) = q + 1
    BY <1>4, <1>6
  <2>2. m[y] = Eight /\ m[y + 1] = Fix
    BY <1>4, <1>6, <2>1 DEF Begins
  <2> QED
    BY <1>4, <1>6, <2>2, PlacesBegin
<1>8. PICK r : r = From(m, y)
  OBVIOUS
<1>9. /\ LengthFields(r) # {} /\ Min(LengthFields(r)) + 2 <= Len(r)
      /\ \A field \in BodyLength(r) : field.end + 1 + field.length <= Len(r)
  BY <1>4, <1>7, <1>8, Zenon DEF EndsItself
<1>10. /\ r \in Seq(Symbols) /\ Len(r) = Len(m) - y + 1
       /\ \A j \in 1..(Len(m) - y + 1) : r[j] = m[y + j - 1]
  <2>1. y \in 1..(Len(m) + 1)
    BY <1>4, <1>6
  <2> QED
    BY <1>4, <1>8, <2>1, FromIs
<1>11. PICK s : s = SubSeq(Stream, q, taken)
  OBVIOUS
<1>12. s \in Seq(Symbols) /\ Len(s) = taken - q + 1 /\ \A j \in 1..(taken - q + 1) : s[j] = Stream[q + j - 1]
  <2>1. q \in Int /\ taken \in Int /\ q <= taken /\ \A j \in q..taken : j \in 1..Len(Stream)
    <3>1. PICK n : n = Len(Stream)
      OBVIOUS
    <3>2. q >= 1 /\ n \in Nat /\ taken <= n
      BY <1>1, <1>4, <1>6, <3>1
    <3>3. q <= taken
      BY <1>1
    <3> QED
      BY <1>1, <3>1, <3>2, <3>3
  <2>2. \A j \in q..taken : Stream[j] \in Symbols
    BY <1>1, <2>1, ElementOfSeq
  <2>3. /\ s \in Seq(Symbols) /\ Len(s) = IF q <= taken THEN taken - q + 1 ELSE 0
        /\ \A j \in 1..(taken - q + 1) : s[j] = Stream[q + j - 1]
    BY <1>11, <2>1, <2>2, SubSeqProperties
  <2> QED
    BY <2>1, <2>3
<1>13. Len(r) <= Len(s) /\ Len(r) = End(b) - q + 1
  BY <1>1, <1>4, <1>6, <1>10, <1>12
<1>14. ASSUME NEW j \in 1..Len(r) PROVE s[j] = r[j]
  <2>1. /\ j \in 1..(Len(m) - y + 1) /\ j \in 1..(taken - q + 1)
        /\ y + j - 1 \in 1..Len(m) /\ p + (y + j - 1) = q + j - 1
    BY <1>1, <1>4, <1>6, <1>10, <1>12, <1>13
  <2>2. Stream[p + (y + j - 1)] = m[y + j - 1]
    BY <1>4, <2>1
  <2> QED
    BY <1>10, <1>12, <2>1, <2>2
<1>15. BodyLength(s) = BodyLength(r)
  BY <1>9, <1>10, <1>12, <1>13, <1>14, LengthOfPart
<1>16. t <= End(b)
  <2>1. TrailerAt(s, t - q + 1)
    BY <1>11 DEF ReadsAt
  <2>2. t - q + 1 <= Len(r)
    BY <1>9, <1>15, <2>1 DEF TrailerAt
  <2>3. PICK n : n = End(b)
    OBVIOUS
  <2>4. n \in Nat /\ t \in Nat /\ q \in Nat
    BY <1>1, <1>4, <2>3
  <2>5. t - q + 1 <= n - q + 1
    BY <1>13, <2>2, <2>3
  <2> QED
    BY <2>3, <2>4, <2>5
<1>17. Stream[t] = Ten /\ \A x \in (t + 1)..(e - 1) : Stream[x] # Soh
  BY DEF ReadsAt
<1>18. PICK x : x = t - p
  OBVIOUS
<1>19. x \in 1..Len(m) /\ p + x = t
  BY <1>1, <1>4, <1>6, <1>16, <1>18
<1>20. m[x] = Ten
  BY <1>4, <1>17, <1>19
<1>21. PICK z \in DOMAIN m : z > x /\ m[z] = Soh
  BY <1>4, <1>19, <1>20 DEF EndsItself
<1>22. z \in 1..Len(m) /\ Stream[p + z] = Soh
  BY <1>4, <1>21
<1>23. ~(p + z \in (t + 1)..(e - 1))
  BY <1>17, <1>22
<1> QED
  BY <1>1, <1>4, <1>19, <1>21, <1>22, <1>23

LEMMA KeptInit ==
  ASSUME TypeInv, Init
  PROVE  KeptInv
<1>1. items \in Streams /\ taken = 0 /\ Len(items) \in Nat
  BY ItemsType DEF TypeInv, Init
<1>2. taken = End(0) /\ 0 \in 0..Len(items)
  BY <1>1, EndNext
<1>3. ASSUME NEW i \in 1..Len(items), Received(i) PROVE FALSE
  <2>1. items[i].kind = "good" /\ End(i) <= 0
    BY <1>1, <1>3 DEF Received
  <2>2. PICK p : p = End(i - 1)
    OBVIOUS
  <2>3. End(i) >= p + 9 /\ p \in Nat /\ End(i) \in Nat
    BY <1>1, <2>1, <2>2, GoodBegins
  <2> QED
    BY <2>1, <2>3
<1> QED
  BY <1>2, <1>3 DEF KeptInv

\* A message delivered stays delivered.
LEMMA OnceDelivered ==
  ASSUME TypeInv, Next, NEW part,
         \E j \in DOMAIN delivered : delivered[j] = part
  PROVE  \E j \in DOMAIN delivered' : delivered'[j] = part
<1>1. PICK j \in DOMAIN delivered : delivered[j] = part
  OBVIOUS
<1>2. delivered \in Seq(Seq(Symbols))
  BY DEF TypeInv
<1>3. CASE delivered' = delivered
  BY <1>1, <1>3
<1>4. CASE \E m \in Seq(Symbols) : delivered' = Append(delivered, m)
  <2>1. PICK m \in Seq(Symbols) : delivered' = Append(delivered, m)
    BY <1>4
  <2>2. /\ delivered' \in Seq(Seq(Symbols)) /\ Len(delivered') = Len(delivered) + 1
        /\ \A x \in 1..Len(delivered) : delivered'[x] = delivered[x]
    BY <1>2, <2>1, AppendProperties
  <2>3. DOMAIN delivered = 1..Len(delivered) /\ Len(delivered) \in Nat /\ DOMAIN delivered' = 1..Len(delivered')
    BY <1>2, <2>2, LenProperties
  <2>4. j \in 1..Len(delivered)
    BY <2>3
  <2>5. j \in DOMAIN delivered' /\ delivered'[j] = delivered[j]
    BY <2>2, <2>3, <2>4
  <2> QED
    BY <1>1, <2>5
<1> QED
  BY <1>3, <1>4, DeliveredChange

\* The message just read.
LEMMA JustDelivered ==
  ASSUME TypeInv, NEW m \in Seq(Symbols), delivered' = Append(delivered, m)
  PROVE  \E j \in DOMAIN delivered' : delivered'[j] = m
<1>1. delivered \in Seq(Seq(Symbols))
  BY DEF TypeInv
<1>2. /\ delivered' \in Seq(Seq(Symbols)) /\ Len(delivered') = Len(delivered) + 1
      /\ delivered'[Len(delivered) + 1] = m /\ Len(delivered) \in Nat
  BY <1>1, AppendProperties, LenProperties
<1>3. DOMAIN delivered' = 1..Len(delivered')
  BY <1>2, LenProperties
<1>4. PICK x : x = Len(delivered) + 1
  OBVIOUS
<1>5. x \in DOMAIN delivered' /\ delivered'[x] = m
  BY <1>2, <1>3, <1>4
<1> QED
  BY <1>5

\* A reading moves the beginning of the buffer forward only.
LEMMA StartGrows ==
  ASSUME TypeInv, taken' = taken,
         FindsNothing \/ \E q \in (Start + 1)..(taken - 1) : FindsBegin(q) /\ ReadsMessage(q)
  PROVE  Start' \in Nat /\ Start <= Start'
<1>1. Start \in Nat /\ taken \in Nat
  BY StartType
<1>2. CASE FindsNothing
  BY <1>1, <1>2 DEF FindsNothing
<1>3. CASE \E q \in (Start + 1)..(taken - 1) : ReadsMessage(q)
  <2>1. PICK q \in (Start + 1)..(taken - 1) : ReadsMessage(q)
    BY <1>3
  <2>2. CASE WaitsAt(q) \/ RejectsAt(q)
    BY <1>1, <2>2 DEF WaitsAt, RejectsAt
  <2>3. CASE \E t \in q..taken : \E e \in (t + 1)..taken : ReadsAt(q, t, e)
    <3>1. PICK t \in q..taken : \E e \in (t + 1)..taken : ReadsAt(q, t, e)
      BY <2>3
    <3>2. PICK e \in (t + 1)..taken : ReadsAt(q, t, e)
      BY <3>1
    <3>3. Start' = e
      BY <3>2 DEF ReadsAt
    <3> QED
      BY <1>1, <3>3
  <2> QED
    BY <2>1, <2>2, <2>3 DEF ReadsMessage
<1> QED
  BY <1>2, <1>3

LEMMA KeptNext ==
  ASSUME TypeInv, KeptInv, Next
  PROVE  KeptInv'
<1>1. /\ items \in Streams /\ items' = items /\ whole' = whole /\ TypeInv' /\ Len(items) \in Nat
      /\ DOMAIN items = 1..Len(items)
  BY NextIs, ItemsType DEF TypeInv
<1>2. \A i : End(i)' = End(i)
  BY <1>1, Unchanged
<1> SUFFICES ASSUME whole
             PROVE  /\ \E k \in 0..Len(items) : taken' = End(k)
                    /\ \A i \in 1..Len(items) : Received(i)' => Kept(i)'
  BY <1>1, <1>2 DEF KeptInv
<1>4. PICK k \in 0..Len(items) : taken = End(k)
  BY DEF KeptInv
<1>5. \A i \in 1..Len(items) : Received(i) => Kept(i)
  BY DEF KeptInv
<1>6. /\ Start \in Nat /\ taken \in Nat /\ Start <= taken /\ taken <= Len(Stream) /\ Len(Stream) \in Nat
      /\ delivered \in Seq(Seq(Symbols))
  <2>1. taken \in 0..Len(Stream) /\ delivered \in Seq(Seq(Symbols))
    BY DEF TypeInv
  <2>2. Start \in 0..taken /\ taken \in Nat
    BY StartType
  <2>3. Len(Stream) \in Nat
    BY <1>1, StreamType
  <2> QED
    BY <2>1, <2>2, <2>3
<1>7. ASSUME NEW i \in 1..Len(items),
             \/ Start' <= End(i - 1)
             \/ End(i) <= Start' /\ \E j \in DOMAIN delivered' : delivered'[j] = items[i].bytes
      PROVE  Kept(i)'
  BY <1>1, <1>2, <1>7 DEF Kept, End, Bytes
<1>8. ASSUME NEW i \in 1..Len(items)
      PROVE  Received(i)' <=>
               /\ items[i].kind = "good" /\ End(i) <= taken'
               /\ \A b \in 1..(i - 1) : items[b].kind = "bad" => EndsItself(items[b].bytes)
  BY <1>1, <1>2 DEF Received, End, Bytes
<1>10. CASE \E n \in 1..(Len(Stream) - taken) : AppendBytes(n) /\ Start' = Start
  <2>1. PICK n \in 1..(Len(Stream) - taken) : AppendBytes(n) /\ Start' = Start
    BY <1>10
  <2>2. PICK l \in DOMAIN items : taken + n = Len(Bytes(l))
    BY <2>1 DEF AppendBytes
  <2>3. l \in 0..Len(items) /\ taken' = End(l) /\ delivered' = delivered
    BY <1>1, <2>1, <2>2 DEF AppendBytes, End
  <2>4. ASSUME NEW i \in 1..Len(items), Received(i)' PROVE Kept(i)'
    <3>2. CASE End(i) <= taken
      <4>1. Kept(i)
        BY <1>5, <1>8, <2>4, <3>2 DEF Received
      <4> QED
        BY <1>7, <2>1, <2>3, <4>1 DEF Kept
    <3>3. CASE ~(End(i) <= taken)
      <4>1. PICK h : h = i - 1
        OBVIOUS
      <4>2. h \in 0..Len(items) /\ i \in 0..Len(items) /\ h + 1 = i
        BY <1>1, <4>1
      <4>3. k <= h
        <5> SUFFICES ASSUME i <= k PROVE FALSE
          BY <1>1, <4>2
        <5>1. End(i) <= End(k)
          BY <1>1, <4>2, EndMonotone
        <5> QED
          BY <1>4, <3>3, <5>1
      <4>4. End(k) <= End(h) /\ End(k) \in Nat /\ End(h) \in Nat
        BY <1>1, <4>2, <4>3, EndMonotone, EndNext
      <4>5. Start' <= End(i - 1)
        BY <1>4, <1>6, <2>1, <4>1, <4>4
      <4> QED
        BY <1>7, <2>4, <4>5
    <3> QED
      BY <3>2, <3>3
  <2> QED
    BY <2>3, <2>4
\* Reading: what was received was kept before; what was delivered is behind.
<1>11. ASSUME taken' = taken, NEW i \in 1..Len(items), Received(i)'
       PROVE  Received(i) /\ Kept(i)
  BY <1>5, <1>8, <1>11 DEF Received
<1>12. ASSUME taken' = taken, NEW i \in 1..Len(items), Received(i)', ~(Start <= End(i - 1)),
              FindsNothing \/ \E q \in (Start + 1)..(taken - 1) : FindsBegin(q) /\ ReadsMessage(q)
       PROVE  Kept(i)'
  <2>1. End(i) <= Start /\ \E j \in DOMAIN delivered : delivered[j] = items[i].bytes
    BY <1>11, <1>12 DEF Kept
  <2>2. \E j \in DOMAIN delivered' : delivered'[j] = items[i].bytes
    BY <2>1, OnceDelivered
  <2>3. Start' \in Nat /\ Start <= Start'
    BY <1>12, StartGrows
  <2>4. End(i) \in Nat
    BY <1>1, EndNext
  <2>5. End(i) <= Start'
    BY <1>6, <2>1, <2>3, <2>4
  <2> QED
    BY <1>7, <2>2, <2>5
\* Or it is where a BeginString is found.
<1>9. ASSUME taken' = taken, NEW i \in 1..Len(items), Received(i)', Start <= End(i - 1)
      PROVE  /\ items[i].kind = "good" /\ End(i) <= taken
             /\ Begins(End(i - 1) + 1) /\ End(i - 1) + 1 \in (Start + 1)..(taken - 1)
  <2>1. items[i].kind = "good" /\ End(i) <= taken
    BY <1>8, <1>9
  <2>2. PICK p : p = End(i - 1)
    OBVIOUS
  <2>3. Begins(p + 1) /\ End(i) >= p + 9 /\ p \in Nat /\ End(i) \in Nat
    BY <1>1, <2>1, <2>2, GoodBegins
  <2>4. p + 1 \in (Start + 1)..(taken - 1)
    BY <1>6, <1>9, <2>1, <2>2, <2>3
  <2> QED
    BY <2>1, <2>2, <2>3, <2>4
<1>13. CASE taken' = taken /\ FindsNothing
  <2>1. ASSUME NEW i \in 1..Len(items), Received(i)' PROVE Kept(i)'
    <3>1. ~(Start <= End(i - 1))
      BY <1>9, <1>13, <2>1 DEF FindsNothing
    <3> QED
      BY <1>12, <1>13, <2>1, <3>1
  <2> QED
    BY <1>4, <1>13, <2>1
<1>14. CASE taken' = taken /\ \E q \in (Start + 1)..(taken - 1) : FindsBegin(q) /\ ReadsMessage(q)
  <2>1. PICK q \in (Start + 1)..(taken - 1) : FindsBegin(q) /\ ReadsMessage(q)
    BY <1>14
  <2>2. ASSUME NEW i \in 1..Len(items), Received(i)' PROVE Kept(i)'
    <3> SUFFICES ASSUME Start <= End(i - 1) PROVE Kept(i)'
      BY <1>12, <1>14, <2>2
    <3>1. PICK p : p = End(i - 1)
      OBVIOUS
    <3>2. /\ items[i].kind = "good" /\ End(i) <= taken
          /\ Begins(p + 1) /\ p + 1 \in (Start + 1)..(taken - 1) /\ Start <= p
      BY <1>9, <1>14, <2>2, <3>1
    <3>3. p \in Nat /\ End(i) \in Nat /\ items[i].bytes \in Seq(Symbols) /\ End(i) = p + Len(items[i].bytes)
      BY <1>1, <3>1, <3>2, ItemAt
    <3>4. q <= p + 1
      <4>1. ~(p + 1 \in (Start + 1)..(q - 1))
        BY <2>1, <3>2 DEF FindsBegin
      <4> QED
        BY <1>6, <3>2, <3>3, <4>1
    <3>5. q \in 1..Len(Stream) /\ q \in Nat
      BY <1>6
    <3>7. ASSUME Start' <= p PROVE Kept(i)'
      BY <1>7, <3>1, <3>7
    <3>8. CASE WaitsAt(q)
      <4>1. Start' = q - 1
        BY <3>8 DEF WaitsAt
      <4> QED
        BY <3>3, <3>4, <3>5, <3>7, <4>1
    <3>9. CASE q = p + 1
      <4>1. ReadsItem(q, i)
        BY <2>1 DEF ReadsMessage
      <4>2. delivered' = Append(delivered, items[i].bytes) /\ Start' = End(i)
        BY <1>6, <3>1, <3>2, <3>3, <3>9, <4>1 DEF ReadsItem
      <4>3. \E j \in DOMAIN delivered' : delivered'[j] = items[i].bytes
        BY <3>3, <4>2, JustDelivered
      <4>4. End(i) <= Start'
        BY <3>3, <4>2
      <4> QED
        BY <1>7, <4>3, <4>4
    <3>10. CASE q # p + 1 /\ RejectsAt(q)
      <4>1. p + 1 \in (q + 1)..(taken - 1)
        BY <3>2, <3>3, <3>4, <3>5, <3>10
      <4>2. Start' < p + 1 /\ Start' \in Nat
        BY <1>6, <3>2, <3>5, <3>10, <4>1 DEF RejectsAt
      <4> QED
        BY <3>3, <3>7, <4>2
    <3>11. CASE q # p + 1 /\ \E t \in q..taken : \E e \in (t + 1)..taken : ReadsAt(q, t, e)
      <4>1. PICK t \in q..taken : \E e \in (t + 1)..taken : ReadsAt(q, t, e)
        BY <3>11
      <4>2. PICK e \in (t + 1)..taken : ReadsAt(q, t, e)
        BY <4>1
      <4>3. Start' = e /\ e \in Nat
        BY <1>6, <3>5, <4>2 DEF ReadsAt
      <4>4. Begins(q) /\ \A x \in (Start + 1)..(q - 1) : ~Begins(x)
        BY <2>1 DEF FindsBegin
      <4>5. q + 1 <= p
        <5>1. ~Begins(p)
          BY <1>1, <3>1, <3>2, GoodBegins
        <5> QED
          BY <3>3, <3>4, <3>5, <3>11, <4>4, <5>1
      <4>6. PICK b \in 1..Len(items) : End(b - 1) < q + 1 /\ q + 1 <= End(b)
        <5>1. PICK x : x = q + 1
          OBVIOUS
        <5>2. x \in 1..Len(Stream)
          BY <1>6, <3>2, <3>3, <3>5, <4>5, <5>1
        <5> QED
          BY <1>1, <5>1, <5>2, ItemOf
      <4>7. b \in 1..(i - 1) /\ End(b) <= p /\ End(b) \in Nat /\ End(b - 1) \in Nat
        <5>1. PICK g : g = i - 1
          OBVIOUS
        <5>2. PICK h : h = b - 1
          OBVIOUS
        <5>3. g \in 0..Len(items) /\ h \in 0..Len(items) /\ b \in 0..Len(items) /\ End(g) = p /\ End(h) < q + 1
          BY <1>1, <3>1, <4>6, <5>1, <5>2
        <5>4. End(h) \in Nat /\ End(b) \in Nat
          BY <1>1, <5>3, EndNext
        <5>5. b <= g
          <6> SUFFICES ASSUME g <= h PROVE FALSE
            BY <1>1, <5>2, <5>3
          <6>1. End(g) <= End(h)
            BY <1>1, <5>3, EndMonotone
          <6> QED
            BY <3>3, <3>5, <4>5, <5>3, <5>4, <6>1
        <5>6. End(b) <= p
          BY <1>1, <5>3, <5>5, EndMonotone
        <5> QED
          BY <1>1, <5>1, <5>2, <5>4, <5>5, <5>6
      <4>8. PICK m : m = items[b].bytes
        OBVIOUS
      <4>9. \A c \in 1..(i - 1) : items[c].kind = "bad" => EndsItself(items[c].bytes)
        BY <1>8, <2>2
      <4>10. CASE items[b].kind = "noise"
        BY <1>1, <3>5, <4>4, <4>6, <4>10, NoBeginInNoise
      <4>11. CASE items[b].kind = "good"
        <5>1. ~Begins(End(b - 1)) /\ Begins(End(b - 1) + 1)
          BY <1>1, <4>11, GoodBegins
        <5>2. End(b - 1) + 1 <= q
          BY <3>5, <4>4, <4>6, <4>7, <5>1
        <5>3. Received(b)
          <6>1. End(b) <= taken
            BY <1>6, <3>2, <3>3, <4>7
          <6>2. \A c \in 1..(b - 1) : c \in 1..(i - 1)
            BY <1>1, <4>7
          <6> QED
            BY <4>9, <4>11, <6>1, <6>2 DEF Received
        <5>4. Start <= End(b - 1)
          <6>1. Kept(b)
            BY <1>5, <5>3
          <6>2. ~(End(b) <= Start)
            BY <1>6, <3>5, <4>6, <4>7
          <6> QED
            BY <6>1, <6>2 DEF Kept
        <5>5. q = End(b - 1) + 1
          <6>1. ~(End(b - 1) + 1 \in (Start + 1)..(q - 1))
            BY <4>4, <5>1
          <6>2. PICK g : g = End(b - 1)
            OBVIOUS
          <6>3. g \in Nat /\ g + 1 <= q /\ Start <= g /\ ~(g + 1 \in (Start + 1)..(q - 1))
            BY <4>7, <5>2, <5>4, <6>1, <6>2
          <6>4. q \in Nat /\ Start \in Nat
            BY <1>6, <3>5
          <6> QED
            BY <6>2, <6>3, <6>4
        <5>6. ReadsItem(q, b)
          BY <2>1 DEF ReadsMessage
        <5>7. Start' = End(b)
          <6>1. taken >= End(b)
            BY <1>6, <3>2, <3>3, <4>7
          <6> QED
            BY <4>11, <5>5, <5>6, <6>1 DEF ReadsItem
        <5> QED
          BY <3>7, <4>7, <5>7
      <4>12. CASE items[b].kind = "bad"
        <5>1. EndsItself(m)
          BY <4>7, <4>8, <4>9, <4>12
        <5>2. End(b - 1) # q
          <6> SUFFICES ASSUME End(b - 1) = q PROVE FALSE
            OBVIOUS
          <6>1. b - 1 \in 0..Len(items) /\ m \in Seq(Symbols)
            BY <1>1, <4>8, ItemsType
          <6>2. End(b) = q + Len(m) /\ Len(m) \in Nat
            BY <1>1, <4>8, <6>1, EndNext
          <6>3. 1 \in 1..Len(m) /\ DOMAIN m = 1..Len(m)
            BY <3>5, <4>6, <6>1, <6>2, LenProperties
          <6>4. Stream[End(b - 1) + 1] = m[1]
            BY <1>1, <4>8, <6>3, StreamAt
          <6> QED
            BY <4>4, <5>1, <6>3, <6>4 DEF Begins, EndsItself
        <5>3. End(b - 1) < q
          BY <3>5, <4>6, <4>7, <5>2
        <5>4. End(b) <= taken
          BY <1>6, <3>2, <3>3, <4>7
        <5>5. e <= End(b)
          BY <3>5, <4>2, <4>4, <4>6, <4>8, <5>1, <5>3, <5>4, ReadsWithin
        <5> QED
          BY <3>3, <3>7, <4>3, <4>7, <5>5
      <4> QED
        BY <1>1, <4>10, <4>11, <4>12, ItemsType
    <3> QED
      BY <2>1, <3>8, <3>9, <3>10, <3>11 DEF ReadsMessage
  <2> QED
    BY <1>4, <1>14, <2>2
<1> QED
  BY <1>10, <1>13, <1>14, NextIs

-----------------------------------------------------------------------------
(* The theorems                                                            *)

IInv == TypeInv /\ DeliveryInv /\ KeptInv

LEMMA Inductive == Spec => []IInv
<1>1. ASSUME Init PROVE IInv
  BY <1>1, TypeInit, DeliveryInit, KeptInit DEF IInv
<1>2. ASSUME IInv, [Next]_vars PROVE IInv'
  <2>1. CASE Next
    BY <1>2, <2>1, NextIs, DeliveryNext, KeptNext DEF IInv
  <2>2. CASE UNCHANGED vars
    <3>1. /\ items' = items /\ whole' = whole /\ taken' = taken /\ buffer' = buffer
          /\ at' = at /\ delivered' = delivered
      BY <2>2 DEF vars
    <3>2. Start' = Start /\ Stream' = Stream
      BY <3>1, Unchanged DEF Start
    <3>3. TypeInv'
      BY <1>2, <3>1, <3>2 DEF IInv, TypeInv
    <3>4. DeliveryInv'
      <4>1. PICK k \in 0..Len(items) : ReadUpTo(k) \/ ReadToMalformed(k)
        BY <1>2 DEF IInv, DeliveryInv
      <4>2. ASSUME NEW i PROVE Delivered(i)' = Delivered(i)
        BY <3>1, Unchanged DEF Delivered
      <4>3. ReadUpTo(k) => ReadUpTo(k)'
        <5>1. Short' = Short
          BY <3>1, <3>2 DEF Short, Begins
        <5> QED
          BY <3>1, <3>2, <4>2, <5>1, Unchanged DEF ReadUpTo
      <4>4. ReadToMalformed(k) => ReadToMalformed(k)'
        BY <3>1, <4>2, Unchanged DEF ReadToMalformed
      <4> QED
        BY <3>1, <4>1, <4>3, <4>4 DEF DeliveryInv
    <3>5. KeptInv'
      <4>2. ASSUME NEW i PROVE (Received(i) => Kept(i)) = (Received(i) => Kept(i))'
        BY <3>1, <3>2, Unchanged DEF Received, Kept
      <4>3. KeptInv
        BY <1>2 DEF IInv
      <4>4. ASSUME NEW k PROVE (taken = End(k))' = (taken = End(k))
        BY <3>1, Unchanged
      <4> QED
        BY <3>1, <4>2, <4>3, <4>4 DEF KeptInv
    <3> QED
      BY <3>3, <3>4, <3>5 DEF IInv
  <2> QED
    BY <1>2, <2>1, <2>2
<1> QED
  BY <1>1, <1>2, PTL DEF Spec

\* The buffer is an end of what has been received: append_bytes and
\* read_next_message lose, repeat and invent no byte (fix_parser.cpp:8-135).
THEOREM TypeCorrect == Spec => []TypeOK
<1>1. ASSUME IInv PROVE TypeOK
  <2>1. TypeInv
    BY <1>1 DEF IInv
  <2>2. /\ items \in Streams /\ taken \in 0..Len(Stream) /\ at \in {"recv", "drain"}
        /\ buffer \in Seq(Symbols) /\ \A i \in 1..Len(buffer) : buffer[i] = Stream[Start + i]
        /\ Len(FlattenSeq(delivered)) <= Start /\ delivered \in Seq(Seq(Symbols))
    BY <2>1 DEF TypeInv
  <2>3. /\ Start \in Nat /\ taken \in Nat /\ Len(buffer) \in Nat /\ taken = Start + Len(buffer)
        /\ Stream \in Seq(Symbols) /\ Len(Stream) \in Nat /\ taken <= Len(Stream)
    BY <2>1, <2>2, StartType, StreamType
  <2>4. PICK f : f = Start + 1
    OBVIOUS
  <2>5. PICK t : t = SubSeq(Stream, f, taken)
    OBVIOUS
  <2>6. f \in Int /\ taken \in Int /\ \A i \in f..taken : i \in 1..Len(Stream)
    BY <2>3, <2>4
  <2>7. \A i \in f..taken : Stream[i] \in Symbols
    BY <2>3, <2>6, ElementOfSeq
  <2>8. /\ t \in Seq(Symbols) /\ Len(t) = IF f <= taken THEN taken - f + 1 ELSE 0
        /\ \A i \in 1..(taken - f + 1) : t[i] = Stream[f + i - 1]
    BY <2>5, <2>6, <2>7, SubSeqProperties
  <2>9. Len(t) = Len(buffer) /\ taken - f + 1 = Len(buffer)
    BY <2>3, <2>4, <2>8
  <2>10. ASSUME NEW i \in 1..Len(buffer) PROVE buffer[i] = t[i]
    <3>1. f + i - 1 = Start + i /\ i \in 1..(taken - f + 1)
      BY <2>3, <2>4, <2>9
    <3> QED
      BY <2>2, <2>8, <3>1
  <2>11. buffer = t
    BY <2>2, <2>8, <2>9, <2>10, SeqEqual
  <2>12. f = taken - Len(buffer) + 1
    BY <2>3, <2>4
  <2>13. Len(buffer) + Len(FlattenSeq(delivered)) <= taken
    <3>1. FlattenSeq(delivered) \in Seq(Symbols)
      BY <2>2, FlattenType
    <3>2. Len(FlattenSeq(delivered)) \in Nat
      BY <3>1, LenProperties
    <3> QED
      BY <2>2, <2>3, <3>2
  <2> QED
    BY <2>2, <2>5, <2>11, <2>12, <2>13 DEF TypeOK
<1> QED
  BY <1>1, Inductive, PTL

\* However recv cuts the stream, the messages in front of the first malformed one
\* are read as they were built, in order, as soon as they are complete, and of a
\* stream without a malformed one nothing else is (fix_parser.cpp:78-135).
THEOREM BuiltAreDelivered == Spec => []BuiltIsDelivered
<1>1. ASSUME IInv PROVE BuiltIsDelivered
  BY <1>1, DeliveryImplies DEF IInv
<1> QED
  BY <1>1, Inductive, PTL

\* If no receive cuts a message, a good message is delivered as it was built or is still
\* in the buffer, whatever malformed messages that end themselves are in front of it
\* (fix_parser.cpp:114-121).
THEOREM GoodMessagesAreKept == Spec => []GoodMessageKept
<1>1. ASSUME IInv PROVE GoodMessageKept
  <2>1. TypeInv /\ KeptInv
    BY <1>1 DEF IInv
  <2>2. items \in Streams /\ DOMAIN items = 1..Len(items)
    BY <2>1, ItemsType DEF TypeInv
  <2> SUFFICES ASSUME whole, NEW i \in 1..Len(items), Received(i)
               PROVE  Within(items[i].bytes, buffer) \/ \E j \in DOMAIN delivered : delivered[j] = items[i].bytes
    BY <2>2 DEF GoodMessageKept, Received, End
  <2>3. Kept(i)
    BY <2>1 DEF KeptInv
  <2>4. Start <= End(i - 1) => Within(items[i].bytes, buffer)
    BY <2>1, WithinBuffer DEF Received
  <2> QED
    BY <2>3, <2>4 DEF Kept
<1> QED
  BY <1>1, Inductive, PTL
=============================================================================
