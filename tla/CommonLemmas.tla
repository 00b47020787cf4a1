---------------------------- MODULE CommonLemmas -----------------------------
(* Facts about natural numbers and sequences that the proofs of several      *)
(* modules rest on.                                                          *)
EXTENDS Integers, SequencesExt, SequenceTheorems, WellFoundedInduction, TLAPS

\* A loop over natural numbers that would hit something has a first hit.
LEMMA SmallestNat ==
    ASSUME NEW S, S \subseteq Nat, S # {}
    PROVE  \E x \in S : \A y \in S : x <= y
<1> DEFINE R == {p \in Nat \X Nat : p[1] < p[2]}
<1>1. IsWellFoundedOn(R, Nat)
  BY NatLessThanWellFounded DEF OpToRel
<1>2. \E x \in S : \A y \in S : <<y, x>> \notin R
  <2> HIDE DEF R
  <2> QED BY <1>1, WFMin
<1>3. ASSUME NEW x \in S, NEW y \in S, <<y, x>> \notin R PROVE x <= y
  BY <1>3
<1> QED BY <1>2, <1>3

\* A sequence is a function from 1 .. Len(s), and such a function a sequence.
LEMMA SeqShape ==
    ASSUME NEW S, NEW s \in Seq(S)
    PROVE  Len(s) \in Nat /\ DOMAIN s = 1 .. Len(s) /\ \A k \in DOMAIN s : s[k] \in S
  BY LenProperties, ElementOfSeq

LEMMA FunctionIsSeq ==
    ASSUME NEW S, NEW n \in Nat, NEW f \in [1 .. n -> S]
    PROVE  f \in Seq(S) /\ Len(f) = n
<1>1. f \in Seq(S)
  BY SeqDef
<1>2. DOMAIN f = 1 .. Len(f) /\ DOMAIN f = 1 .. n /\ Len(f) \in Nat
  BY <1>1, LenProperties
<1> QED BY <1>1, <1>2

-----------------------------------------------------------------------------
(* A first part of several sequences, one after the other.                  *)

\* FlattenSeq, one sequence after the other.
Joined(seqs) ==
    LET flatten[i \in 1 .. Len(seqs)] ==
        IF i = 1 THEN seqs[i] ELSE flatten[i-1] \o seqs[i]
    IN flatten

Joins(seqs, n, f) == f = [i \in 1 .. n |-> IF i = 1 THEN seqs[i] ELSE f[i - 1] \o seqs[i]]

FirstOf(seqs, n) == IF n = 0 THEN <<>> ELSE Joined(seqs)[n]

LEMMA JoinedExists ==
    ASSUME NEW S, NEW seqs \in Seq(S), NEW n \in Nat
    PROVE  \E f : Joins(seqs, n, f)
<1> DEFINE Bad == {m \in Nat : ~ \E f : Joins(seqs, m, f)}
<1> SUFFICES ASSUME Bad # {} PROVE FALSE
  OBVIOUS
<1>1. PICK m \in Bad : \A y \in Bad : m <= y
  <2>1. Bad \subseteq Nat
    OBVIOUS
  <2> HIDE DEF Bad
  <2> QED BY <2>1, SmallestNat
<1>2. CASE m = 0
  <2>1. Joins(seqs, m, [i \in 1 .. m |-> seqs[i]])
    BY <1>2 DEF Joins
  <2> QED BY <2>1, <1>1
<1>3. CASE m # 0
  <2>1. m \in Nat /\ m - 1 \in Nat /\ m - 1 \notin Bad
    BY <1>1, <1>3
  <2>2. PICK f : Joins(seqs, m - 1, f)
    BY <2>1
  <2> DEFINE g == [i \in 1 .. m |-> IF i < m THEN f[i]
                                    ELSE IF m = 1 THEN seqs[m] ELSE f[m - 1] \o seqs[m]]
  <2>3. \A i \in 1 .. m - 1 : f[i] = IF i = 1 THEN seqs[i] ELSE f[i - 1] \o seqs[i]
    BY <2>2 DEF Joins
  <2>4. \A i \in 1 .. m : g[i] = IF i = 1 THEN seqs[i] ELSE g[i - 1] \o seqs[i]
    <3> SUFFICES ASSUME NEW i \in 1 .. m
                 PROVE  g[i] = IF i = 1 THEN seqs[i] ELSE g[i - 1] \o seqs[i]
      OBVIOUS
    <3>1. CASE i < m
      <4>1. i \in 1 .. m - 1 /\ g[i] = f[i]
        BY <2>1, <3>1
      <4>2. i # 1 => g[i - 1] = f[i - 1]
        BY <2>1, <3>1
      <4> QED BY <2>3, <4>1, <4>2
    <3>2. CASE i = m
      <4>1. i # 1 => g[i - 1] = f[i - 1]
        BY <2>1, <3>2
      <4> QED BY <3>2, <4>1, <2>1
    <3> QED BY <3>1, <3>2, <2>1
  <2>5. g = [i \in 1 .. m |-> g[i]]
    OBVIOUS
  <2>6. Joins(seqs, m, g)
    <3> HIDE DEF g
    <3> QED BY <2>4, <2>5 DEF Joins
  <2> QED BY <2>6, <1>1
<1> QED BY <1>2, <1>3

LEMMA JoinedRecursion ==
    ASSUME NEW S, NEW seqs \in Seq(S)
    PROVE  \A i \in 1 .. Len(seqs) :
              Joined(seqs)[i] = IF i = 1 THEN seqs[i] ELSE Joined(seqs)[i - 1] \o seqs[i]
<1>1. Len(seqs) \in Nat
  OBVIOUS
<1>2. \E f : Joins(seqs, Len(seqs), f)
  BY <1>1, JoinedExists
<1>3. Joined(seqs) = CHOOSE f : Joins(seqs, Len(seqs), f)
  BY DEF Joined, Joins
<1>4. Joins(seqs, Len(seqs), Joined(seqs))
  BY <1>2, <1>3
<1> QED BY <1>4 DEF Joins

LEMMA ConcatShape ==
    ASSUME NEW S, NEW s \in Seq(S), NEW t \in Seq(S)
    PROVE  s \o t \in Seq(S) /\ Len(s \o t) = Len(s) + Len(t)
  OBVIOUS

LEMMA ConcatElement ==
    ASSUME NEW S, NEW s \in Seq(S), NEW t \in Seq(S), NEW k \in 1 .. Len(s) + Len(t)
    PROVE  (s \o t)[k] = IF k <= Len(s) THEN s[k] ELSE t[k - Len(s)]
  OBVIOUS

LEMMA FirstElements ==
    ASSUME NEW S, NEW s \in Seq(S), NEW m \in 0 .. Len(s)
    PROVE  /\ SubSeq(s, 1, m) \in Seq(S) /\ Len(SubSeq(s, 1, m)) = m
           /\ \A k \in 1 .. m : SubSeq(s, 1, m)[k] = s[k]
  OBVIOUS

LEMMA SameElements ==
    ASSUME NEW S, NEW s \in Seq(S), NEW t \in Seq(S), Len(s) = Len(t),
           \A k \in 1 .. Len(s) : s[k] = t[k]
    PROVE  s = t
  BY SeqEqual

LEMMA WholeSeq ==
    ASSUME NEW S, NEW s \in Seq(S)
    PROVE  SubSeq(s, 1, Len(s)) = s
  OBVIOUS

LEMMA EmptyConcat ==
    ASSUME NEW S, NEW s \in Seq(S)
    PROVE  <<>> \o s = s /\ s \o <<>> = s
  OBVIOUS

LEMMA FirstOfNone == ASSUME NEW seqs PROVE FirstOf(seqs, 0) = <<>>
  BY DEF FirstOf

LEMMA FirstOfNextRaw ==
    ASSUME NEW S, NEW seqs \in Seq(Seq(S)), NEW n \in 0 .. Len(seqs) - 1
    PROVE  FirstOf(seqs, n + 1) = FirstOf(seqs, n) \o seqs[n + 1]
<1>1. n + 1 \in 1 .. Len(seqs) /\ Len(seqs) \in Nat
  OBVIOUS
<1>2. seqs[n + 1] \in Seq(S)
  BY <1>1
<1>3. FirstOf(seqs, n + 1) = Joined(seqs)[n + 1]
  BY <1>1 DEF FirstOf
<1>4. Joined(seqs)[n + 1] = IF n + 1 = 1 THEN seqs[n + 1]
                            ELSE Joined(seqs)[n + 1 - 1] \o seqs[n + 1]
  BY <1>1, JoinedRecursion
<1>5. CASE n = 0
  <2>1. FirstOf(seqs, n) = <<>>
    BY <1>5, FirstOfNone
  <2> QED BY <1>2, <1>3, <1>4, <1>5, <2>1, EmptyConcat
<1>6. CASE n # 0
  <2>1. n + 1 # 1 /\ n + 1 - 1 = n
    BY <1>6
  <2>2. FirstOf(seqs, n) = Joined(seqs)[n]
    BY <1>6 DEF FirstOf
  <2> QED BY <1>3, <1>4, <2>1, <2>2
<1> QED BY <1>5, <1>6

LEMMA FirstOfType ==
    ASSUME NEW S, NEW seqs \in Seq(Seq(S)), NEW n \in 0 .. Len(seqs)
    PROVE  FirstOf(seqs, n) \in Seq(S)
<1> DEFINE Bad == {m \in 0 .. Len(seqs) : FirstOf(seqs, m) \notin Seq(S)}
<1> SUFFICES ASSUME Bad # {} PROVE FALSE
  OBVIOUS
<1>1. PICK m \in Bad : \A y \in Bad : m <= y
  <2>1. Bad \subseteq Nat
    OBVIOUS
  <2> HIDE DEF Bad
  <2> QED BY <2>1, SmallestNat
<1>2. m # 0
  <2>1. <<>> \in Seq(S)
    OBVIOUS
  <2> QED BY <2>1, <1>1, FirstOfNone
<1>3. PICK p \in 0 .. Len(seqs) - 1 : p + 1 = m
  <2>1. m - 1 \in 0 .. Len(seqs) - 1 /\ m - 1 + 1 = m
    BY <1>1, <1>2
  <2> QED BY <2>1
<1>4. FirstOf(seqs, p) \in Seq(S)
  <2>1. p \notin Bad
    BY <1>1, <1>3
  <2> QED BY <2>1
<1>5. seqs[p + 1] \in Seq(S)
  OBVIOUS
<1>6. FirstOf(seqs, m) = FirstOf(seqs, p) \o seqs[p + 1]
  BY <1>3, FirstOfNextRaw
<1>7. FirstOf(seqs, p) \o seqs[p + 1] \in Seq(S)
  BY <1>4, <1>5, ConcatShape
<1>8. FirstOf(seqs, m) \notin Seq(S)
  BY <1>1
<1> QED BY <1>6, <1>7, <1>8

LEMMA FirstOfNext ==
    ASSUME NEW S, NEW seqs \in Seq(Seq(S)), NEW n \in 0 .. Len(seqs) - 1
    PROVE  /\ FirstOf(seqs, n) \in Seq(S) /\ seqs[n + 1] \in Seq(S)
           /\ FirstOf(seqs, n + 1) = FirstOf(seqs, n) \o seqs[n + 1]
           /\ Len(FirstOf(seqs, n + 1)) = Len(FirstOf(seqs, n)) + Len(seqs[n + 1])
<1>1. n \in 0 .. Len(seqs)
  OBVIOUS
<1>2. FirstOf(seqs, n) \in Seq(S)
  BY <1>1, FirstOfType
<1>3. seqs[n + 1] \in Seq(S)
  OBVIOUS
<1> QED BY <1>2, <1>3, FirstOfNextRaw, ConcatShape

LEMMA FirstOfAll ==
    ASSUME NEW S, NEW seqs \in Seq(Seq(S))
    PROVE  FlattenSeq(seqs) = FirstOf(seqs, Len(seqs)) /\ FlattenSeq(seqs) \in Seq(S)
<1>1. FlattenSeq(seqs) = IF Len(seqs) = 0 THEN seqs ELSE Joined(seqs)[Len(seqs)]
  BY DEF FlattenSeq, Joined
<1>2. Len(seqs) = 0 => seqs = <<>>
  OBVIOUS
<1>3. FlattenSeq(seqs) = FirstOf(seqs, Len(seqs))
  BY <1>1, <1>2 DEF FirstOf
<1>4. Len(seqs) \in 0 .. Len(seqs)
  OBVIOUS
<1> QED BY <1>3, <1>4, FirstOfType

\* A first part is no longer than all.
LEMMA FirstOfLength ==
    ASSUME NEW S, NEW seqs \in Seq(Seq(S)), NEW n \in 0 .. Len(seqs)
    PROVE  Len(FirstOf(seqs, n)) <= Len(FlattenSeq(seqs))
<1> DEFINE all == FirstOf(seqs, Len(seqs))
           Bad == {m \in Nat : m <= Len(seqs) /\ Len(FirstOf(seqs, Len(seqs) - m)) > Len(all)}
<1>1. Bad = {}
  <2> SUFFICES ASSUME Bad # {} PROVE FALSE
    OBVIOUS
  <2>1. PICK m \in Bad : \A y \in Bad : m <= y
    <3>1. Bad \subseteq Nat
      OBVIOUS
    <3> HIDE DEF Bad
    <3> QED BY <3>1, SmallestNat
  <2>2. m # 0
    <3>1. m = 0 => Len(seqs) - m = Len(seqs)
      OBVIOUS
    <3>2. Len(all) \in Nat
      BY FirstOfType
    <3> QED BY <2>1, <3>1, <3>2
  <2>3. PICK p \in 0 .. Len(seqs) - 1 : p = Len(seqs) - m
    <3>1. Len(seqs) - m \in 0 .. Len(seqs) - 1
      BY <2>1, <2>2
    <3> QED BY <3>1
  <2>4. /\ m - 1 \in Nat /\ m - 1 < m /\ m - 1 <= Len(seqs)
        /\ Len(seqs) - (m - 1) = p + 1
    <3>1. Len(seqs) \in Nat /\ m \in Nat /\ m <= Len(seqs) /\ p = Len(seqs) - m
      BY <2>1, <2>3
    <3> QED BY <2>2, <3>1
  <2>5. ~(Len(FirstOf(seqs, p + 1)) > Len(all))
    <3>1. m - 1 \notin Bad
      <4> HIDE DEF Bad
      <4>1. m \in Nat
        BY <2>1 DEF Bad
      <4> QED BY <2>1, <2>4, <4>1
    <3> QED BY <2>4, <3>1
  <2>6. Len(FirstOf(seqs, p + 1)) = Len(FirstOf(seqs, p)) + Len(seqs[p + 1])
    BY FirstOfNext
  <2>7. Len(FirstOf(seqs, p)) \in Nat /\ Len(seqs[p + 1]) \in Nat /\ Len(all) \in Nat
    <3>1. FirstOf(seqs, p) \in Seq(S) /\ seqs[p + 1] \in Seq(S) /\ all \in Seq(S)
      BY FirstOfNext, FirstOfType, SMTT(30)
    <3> QED BY <3>1, SMTT(30)
  <2>8. Len(FirstOf(seqs, p)) > Len(all)
    <3>1. p = Len(seqs) - m /\ Len(FirstOf(seqs, Len(seqs) - m)) > Len(all)
      BY <2>1, <2>3
    <3> QED BY <3>1
  <2> HIDE DEF all
  <2>9. ASSUME NEW x \in Nat, NEW y \in Nat, NEW z \in Nat, x > z PROVE x + y > z
    BY <2>9
  <2> QED BY <2>5, <2>6, <2>7, <2>8, <2>9
<1>2. Len(seqs) - n \in Nat /\ Len(seqs) - n <= Len(seqs) /\ Len(seqs) - (Len(seqs) - n) = n
  OBVIOUS
<1>3. ~(Len(FirstOf(seqs, n)) > Len(all))
  BY <1>1, <1>2
<1>4. all \in Seq(S) /\ FirstOf(seqs, n) \in Seq(S)
  BY FirstOfType
<1>5. Len(all) \in Nat /\ Len(FirstOf(seqs, n)) \in Nat
  BY <1>4
<1> QED BY <1>3, <1>5, FirstOfAll
=============================================================================
