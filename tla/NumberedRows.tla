---------------------------- MODULE NumberedRows ----------------------------
(* Facts about sets that the proofs of several modules need: sets with at most one   *)
(* element, and the rows of a table that are numbered from one without gaps, as      *)
(* attempts and invocations are.                                                     *)
EXTENDS Naturals, FiniteSets, FiniteSetTheorems, TLAPS

\* A set without two elements has at most one.
LEMMA AtMostOne ==
  ASSUME NEW S, \A x, y \in S : x = y PROVE Cardinality(S) <= 1
<1>1. CASE S = {}
  BY <1>1, FS_EmptySet
<1>2. CASE S # {}
  <2>1. PICK x : x \in S
    BY <1>2
  <2>2. S = {x}
    BY <2>1
  <2> QED
    BY <2>2, FS_Singleton
<1> QED
  BY <1>1, <1>2

\* Rows numbered without gaps stay so when the next one is added.
LEMMA NextRow ==
  ASSUME NEW S, NEW M \in Nat, S = 1 .. Cardinality(S), S \subseteq 1 .. M
  PROVE  /\ Cardinality(S) \in Nat /\ Cardinality(S) <= M
         /\ Cardinality(S) + 1 \notin S
         /\ S \cup {Cardinality(S) + 1} = 1 .. Cardinality(S \cup {Cardinality(S) + 1})
<1>1. IsFiniteSet(S)
  <2>1. IsFiniteSet(1 .. M)
    BY FS_Interval
  <2> QED
    BY <2>1, FS_Subset
<1>2. Cardinality(S) \in Nat
  BY <1>1, FS_CardinalityType
<1>3. Cardinality(S) + 1 \notin S
  BY <1>2
<1>4. Cardinality(S \cup {Cardinality(S) + 1}) = Cardinality(S) + 1
  BY <1>1, <1>3, FS_AddElement
<1>5. S \cup {Cardinality(S) + 1} = 1 .. Cardinality(S) + 1
  BY <1>2
<1>6. Cardinality(S) <= M
  <2>1. CASE Cardinality(S) = 0
    BY <2>1
  <2>2. CASE Cardinality(S) # 0
    <3>1. Cardinality(S) \in S
      BY <1>2, <2>2
    <3> QED
      BY <1>2, <3>1
  <2> QED
    BY <2>1, <2>2
<1> QED
  BY <1>2, <1>3, <1>4, <1>5, <1>6

\* A row that is not there, after those that are, is the next one.
LEMMA OnlyNextRow ==
  ASSUME NEW S, NEW M \in Nat, S = 1 .. Cardinality(S), S \subseteq 1 .. M,
         NEW n \in 1 .. M, n \notin S, \A m \in 1 .. M : m < n => m \in S
  PROVE  n = Cardinality(S) + 1
<1>1. Cardinality(S) \in Nat /\ Cardinality(S) <= M
  BY NextRow
<1>2. n > Cardinality(S)
  BY <1>1
<1>3. CASE n > Cardinality(S) + 1
  <2>1. Cardinality(S) + 1 \in 1 .. M /\ Cardinality(S) + 1 < n
    BY <1>1, <1>3
  <2> QED
    BY <2>1, NextRow
<1> QED
  BY <1>1, <1>2, <1>3

\* The first row is there when any is.
LEMMA FirstRow ==
  ASSUME NEW S, NEW M \in Nat, S = 1 .. Cardinality(S), S \subseteq 1 .. M, S # {}
  PROVE  1 \in S
<1>1. Cardinality(S) \in Nat
  BY NextRow
<1> QED
  BY <1>1
=============================================================================
