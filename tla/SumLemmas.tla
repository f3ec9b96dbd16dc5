------------------------------ MODULE SumLemmas ------------------------------
(* Sums over finite sets, and counting the holders of a limited resource.  *)
(* The induction is on the least cardinality of a counterexample: the      *)
(* theorems of the library that induct take an operator as a parameter.    *)
EXTENDS FiniteSetTheorems, TLAPS

LEMMA LeastNat ==
    ASSUME NEW T \in SUBSET Nat, T # {}
    PROVE  \E n \in T : \A m \in T : n =< m
<1> DEFINE R == {ss \in Nat \X Nat : ss[1] < ss[2]}
<1>1. IsWellFoundedOn(R, Nat)
  BY NatLessThanWellFounded DEF OpToRel
<1>2. \A m, n \in Nat : m < n => <<m, n>> \in R
  OBVIOUS
<1> HIDE DEF R
<1>3. PICK n \in T : \A m \in T : ~(<<m, n>> \in R)
  BY <1>1, WFMin
<1>4. \A m \in T : ~(m < n)
  BY <1>2, <1>3
<1> QED BY <1>4

(* What holds of a finite set as soon as it holds of it without any one of *)
(* its elements holds of all its subsets.                                  *)
LEMMA Shrinking ==
    ASSUME NEW S, IsFiniteSet(S), NEW G,
           \A s \in SUBSET S : (\A x \in s : s \ {x} \in G) => s \in G
    PROVE  \A s \in SUBSET S : s \in G
<1> DEFINE Bad == {n \in Nat : \E s \in SUBSET S : s \notin G /\ Cardinality(s) = n}
<1> SUFFICES ASSUME NEW t \in SUBSET S, t \notin G PROVE FALSE
  OBVIOUS
<1>1. Cardinality(t) \in Bad
  BY FS_Subset, FS_CardinalityType
<1>2. PICK n \in Bad : \A m \in Bad : n =< m
  <2> HIDE DEF Bad
  <2>1. Bad \in SUBSET Nat BY DEF Bad
  <2> QED BY <1>1, <2>1, LeastNat
<1>3. PICK s \in SUBSET S : s \notin G /\ Cardinality(s) = n
  OBVIOUS
<1>4. IsFiniteSet(s)
  BY FS_Subset
<1>5. ASSUME NEW x \in s PROVE s \ {x} \in G
  <2>1. Cardinality(s \ {x}) = n - 1 /\ n - 1 \in Nat
    <3>1. IsFiniteSet(s \ {x}) /\ Cardinality(s \ {x}) = n - 1
      BY <1>3, <1>4, FS_RemoveElement
    <3> QED BY <3>1, FS_CardinalityType
  <2> QED BY <2>1, <1>2
<1> QED BY <1>3, <1>5

-----------------------------------------------------------------------------
Pick(s) == CHOOSE x \in s : TRUE

(* g is the sum of w over every subset of S, in the order of Pick.         *)
IsSum(g, w, S) ==
    g = [s \in SUBSET S |-> IF s = {} THEN 0 ELSE w[Pick(s)] + g[s \ {Pick(s)}]]

Total(w, S) == (CHOOSE g : IsSum(g, w, S))[S]

LEMMA PickIn == ASSUME NEW s, s # {} PROVE Pick(s) \in s
  BY DEF Pick

LEMMA SumAt ==
    ASSUME NEW S, NEW w, NEW g, IsSum(g, w, S), NEW s \in SUBSET S
    PROVE  /\ s = {} => g[s] = 0
           /\ s # {} => g[s] = w[Pick(s)] + g[s \ {Pick(s)}]
<1> DEFINE F(h) == [t \in SUBSET S |-> IF t = {} THEN 0 ELSE w[Pick(t)] + h[t \ {Pick(t)}]]
<1>1. g = F(g)
  BY DEF IsSum
<1>2. g[s] = F(g)[s]
  BY ONLY <1>1
<1>3. F(g)[s] = IF s = {} THEN 0 ELSE w[Pick(s)] + g[s \ {Pick(s)}]
  OBVIOUS
<1> QED BY <1>2, <1>3

LEMMA SumsAgree ==
    ASSUME NEW S, NEW T, NEW w, NEW g, NEW h, IsSum(g, w, S), IsSum(h, w, T),
           NEW s, IsFiniteSet(s), s \in SUBSET S, s \in SUBSET T
    PROVE  g[s] = h[s]
<1> DEFINE G == {t \in SUBSET s : g[t] = h[t]}
<1>1. ASSUME NEW t \in SUBSET s, \A x \in t : t \ {x} \in G PROVE t \in G
  <2>1. CASE t = {}
    <3>1. g[t] = 0 /\ h[t] = 0
      BY <2>1, SumAt
    <3> QED BY <3>1
  <2>2. CASE t # {}
    <3>1. g[t \ {Pick(t)}] = h[t \ {Pick(t)}]
      BY <1>1, <2>2, PickIn
    <3>2. g[t] = w[Pick(t)] + g[t \ {Pick(t)}] /\ h[t] = w[Pick(t)] + h[t \ {Pick(t)}]
      BY <2>2, SumAt
    <3> QED BY <3>1, <3>2
  <2> QED BY <2>1, <2>2
<1> HIDE DEF G
<1>2. \A t \in SUBSET s : t \in G
  BY <1>1, Shrinking
<1> QED BY <1>2 DEF G

LEMMA TotalIs ==
    ASSUME NEW S, IsFiniteSet(S), NEW w, NEW g, IsSum(g, w, S), NEW s \in SUBSET S
    PROVE  g[s] = Total(w, s)
<1> DEFINE h == [t \in SUBSET s |-> g[t]]
<1>1. IsSum(h, w, s)
  <2>1. ASSUME NEW t \in SUBSET s
        PROVE  g[t] = IF t = {} THEN 0 ELSE w[Pick(t)] + h[t \ {Pick(t)}]
    BY SumAt
  <2>2. h = [t \in SUBSET s |-> IF t = {} THEN 0 ELSE w[Pick(t)] + h[t \ {Pick(t)}]]
    BY <2>1
  <2> QED BY <2>2 DEF IsSum
<1> DEFINE k == CHOOSE f : IsSum(f, w, s)
<1>2. IsSum(k, w, s)
  BY <1>1
<1> HIDE DEF k
<1>3. IsFiniteSet(s)
  BY FS_Subset
<1>4. g[s] = k[s]
  BY <1>2, <1>3, SumsAgree
<1> QED BY <1>4 DEF k, Total

LEMMA SumExists ==
    ASSUME NEW S, IsFiniteSet(S), NEW w
    PROVE  \E g : IsSum(g, w, S)
<1> DEFINE G == {s \in SUBSET S : \E g : IsSum(g, w, s)}
<1>1. ASSUME NEW s \in SUBSET S, \A x \in s : s \ {x} \in G PROVE s \in G
  <2> DEFINE rest == IF s = {} THEN 0 ELSE w[Pick(s)] + Total(w, s \ {Pick(s)})
             h == [t \in SUBSET s |-> IF t = s THEN rest ELSE Total(w, t)]
  <2>1. ASSUME NEW t \in SUBSET s
        PROVE  h[t] = IF t = {} THEN 0 ELSE w[Pick(t)] + h[t \ {Pick(t)}]
    <3>1. CASE t = s
      <4>1. h[t] = rest
        BY <3>1
      <4>2. s # {} => s \ {Pick(s)} # s /\ s \ {Pick(s)} \in SUBSET s
        BY PickIn
      <4>3. s # {} => h[s \ {Pick(s)}] = Total(w, s \ {Pick(s)})
        BY <4>2
      <4> HIDE DEF h
      <4> QED BY <3>1, <4>1, <4>3
    <3>2. CASE t # s
      <4>1. PICK x \in s : x \notin t
        BY <3>2
      <4>2. PICK g : IsSum(g, w, s \ {x})
        BY <1>1
      <4>3. IsFiniteSet(s \ {x}) /\ t \in SUBSET (s \ {x})
        BY <4>1, FS_Subset
      <4>4. g[t] = Total(w, t) /\ g[t \ {Pick(t)}] = Total(w, t \ {Pick(t)})
        BY <4>2, <4>3, TotalIs
      <4>5. g[t] = IF t = {} THEN 0 ELSE w[Pick(t)] + g[t \ {Pick(t)}]
        <5>1. t = {} => g[t] = 0
          BY <4>2, <4>3, SumAt
        <5>2. t # {} => g[t] = w[Pick(t)] + g[t \ {Pick(t)}]
          BY <4>2, <4>3, SumAt
        <5> QED BY <5>1, <5>2
      <4>6. h[t] = Total(w, t) /\ h[t \ {Pick(t)}] = Total(w, t \ {Pick(t)})
        BY <3>2, <4>1
      <4> HIDE DEF h
      <4> QED BY <4>4, <4>5, <4>6
    <3> QED BY <3>1, <3>2
  <2>2. h = [t \in SUBSET s |-> h[t]]
    OBVIOUS
  <2> HIDE DEF h
  <2>3. IsSum(h, w, s)
    BY <2>1, <2>2 DEF IsSum
  <2> QED BY <2>3
<1> HIDE DEF G
<1>2. \A s \in SUBSET S : s \in G
  BY <1>1, Shrinking
<1> QED BY <1>2 DEF G

(* What Total computes, one chosen element at a time.                      *)
LEMMA TotalPick ==
    ASSUME NEW S, IsFiniteSet(S), NEW w
    PROVE  /\ S = {} => Total(w, S) = 0
           /\ S # {} => Total(w, S) = w[Pick(S)] + Total(w, S \ {Pick(S)})
<1>1. PICK g : IsSum(g, w, S)
  BY SumExists
<1>2. g[S] = Total(w, S) /\ g[S \ {Pick(S)}] = Total(w, S \ {Pick(S)})
  BY <1>1, TotalIs
<1>3. /\ S = {} => g[S] = 0
      /\ S # {} => g[S] = w[Pick(S)] + g[S \ {Pick(S)}]
  BY <1>1, SumAt
<1> QED BY <1>2, <1>3

LEMMA TotalSame ==
    ASSUME NEW S, IsFiniteSet(S), NEW v, NEW w, \A x \in S : v[x] = w[x]
    PROVE  Total(v, S) = Total(w, S)
<1> DEFINE G == {s \in SUBSET S : Total(v, s) = Total(w, s)}
<1>1. ASSUME NEW s \in SUBSET S, \A x \in s : s \ {x} \in G PROVE s \in G
  <2>1. IsFiniteSet(s)
    BY FS_Subset
  <2>2. CASE s = {}
    <3>1. Total(v, s) = 0 /\ Total(w, s) = 0
      BY <2>2, <2>1, TotalPick
    <3> QED BY <3>1
  <2>3. CASE s # {}
    <3>1. Pick(s) \in s
      BY <2>3, PickIn
    <3>2. Total(v, s) = v[Pick(s)] + Total(v, s \ {Pick(s)})
      BY <2>1, <2>3, TotalPick
    <3>3. Total(w, s) = w[Pick(s)] + Total(w, s \ {Pick(s)})
      BY <2>1, <2>3, TotalPick
    <3> QED BY <1>1, <3>1, <3>2, <3>3
  <2> QED BY <2>2, <2>3
<1> HIDE DEF G
<1>2. \A s \in SUBSET S : s \in G
  BY <1>1, Shrinking
<1> QED BY <1>2 DEF G

LEMMA TotalNat ==
    ASSUME NEW S, IsFiniteSet(S), NEW w, \A x \in S : w[x] \in Nat
    PROVE  Total(w, S) \in Nat
<1> DEFINE G == {s \in SUBSET S : Total(w, s) \in Nat}
<1>1. ASSUME NEW s \in SUBSET S, \A x \in s : s \ {x} \in G PROVE s \in G
  <2>1. IsFiniteSet(s)
    BY FS_Subset
  <2>2. CASE s = {}
    <3>1. Total(w, s) = 0
      BY <2>2, <2>1, TotalPick
    <3> QED BY <3>1
  <2>3. CASE s # {}
    <3>1. Pick(s) \in s
      BY <2>3, PickIn
    <3>2. Total(w, s) = w[Pick(s)] + Total(w, s \ {Pick(s)})
      BY <2>1, <2>3, TotalPick
    <3> QED BY <1>1, <3>1, <3>2
  <2> QED BY <2>2, <2>3
<1> HIDE DEF G
<1>2. \A s \in SUBSET S : s \in G
  BY <1>1, Shrinking
<1> QED BY <1>2 DEF G

(* The order does not matter: any element may be counted first.            *)
LEMMA TotalSplit ==
    ASSUME NEW S, IsFiniteSet(S), NEW w, \A x \in S : w[x] \in Nat
    PROVE  \A x \in S : Total(w, S) = w[x] + Total(w, S \ {x})
<1> DEFINE G == {s \in SUBSET S : \A x \in s : Total(w, s) = w[x] + Total(w, s \ {x})}
<1>1. ASSUME NEW s \in SUBSET S, \A x \in s : s \ {x} \in G PROVE s \in G
  <2>1. \A t \in SUBSET s : IsFiniteSet(t) /\ Total(w, t) \in Nat
    <3>1. \A t \in SUBSET s : IsFiniteSet(t)
      BY FS_Subset
    <3> QED BY <3>1, TotalNat
  <2>2. ASSUME NEW x \in s PROVE Total(w, s) = w[x] + Total(w, s \ {x})
    <3> DEFINE c == Pick(s)
    <3>1. c \in s
      BY PickIn
    <3>2. Total(w, s) = w[c] + Total(w, s \ {c})
      BY <2>1, TotalPick
    <3> HIDE DEF c
    <3>3. CASE x # c
      <4>1. Total(w, s \ {c}) = w[x] + Total(w, (s \ {c}) \ {x})
        BY <1>1, <3>1, <3>3
      <4>2. Total(w, s \ {x}) = w[c] + Total(w, (s \ {x}) \ {c})
        BY <1>1, <3>1, <3>3
      <4>3. (s \ {c}) \ {x} = (s \ {x}) \ {c}
        OBVIOUS
      <4>4. Total(w, (s \ {c}) \ {x}) \in Nat /\ w[x] \in Nat /\ w[c] \in Nat
        BY <2>1, <3>1
      <4>5. \A i, j, k \in Nat : i + (j + k) = j + (i + k)
        OBVIOUS
      <4> QED BY ONLY <3>2, <4>1, <4>2, <4>3, <4>4, <4>5
    <3> QED BY <3>2, <3>3
  <2> QED BY <2>2
<1> HIDE DEF G
<1>2. \A s \in SUBSET S : s \in G
  BY <1>1, Shrinking
<1> QED BY <1>2 DEF G

(* A sum of naturals grows with its set.                                   *)
LEMMA TotalGrows ==
    ASSUME NEW S, IsFiniteSet(S), NEW w, \A x \in S : w[x] \in Nat, NEW T \in SUBSET S
    PROVE  Total(w, T) =< Total(w, S)
<1> DEFINE G == {s \in SUBSET S : \A t \in SUBSET s : Total(w, t) =< Total(w, s)}
<1>0. \A t \in SUBSET S : IsFiniteSet(t) /\ Total(w, t) \in Nat
  <2>1. \A t \in SUBSET S : IsFiniteSet(t)
    BY FS_Subset
  <2> QED BY <2>1, TotalNat
<1>1. ASSUME NEW s \in SUBSET S, \A x \in s : s \ {x} \in G PROVE s \in G
  <2>1. ASSUME NEW t \in SUBSET s, t # s PROVE Total(w, t) =< Total(w, s)
    <3>1. PICK x \in s : x \notin t
      BY <2>1
    <3>2. Total(w, t) =< Total(w, s \ {x})
      BY <1>1, <3>1
    <3>3. Total(w, s) = w[x] + Total(w, s \ {x})
      BY <1>0, TotalSplit
    <3>4. Total(w, t) \in Nat /\ Total(w, s \ {x}) \in Nat /\ w[x] \in Nat
      BY <1>0
    <3> QED BY <3>2, <3>3, <3>4
  <2>2. Total(w, s) =< Total(w, s)
    BY <1>0
  <2> QED BY <2>1, <2>2
<1> HIDE DEF G
<1>2. \A s \in SUBSET S : s \in G
  BY <1>1, Shrinking
<1> QED BY <1>2 DEF G

(* n elements of at most m each add at most n * m.                         *)
LEMMA TotalAdds ==
    ASSUME NEW A, IsFiniteSet(A), NEW B, IsFiniteSet(B), NEW w, NEW m \in Nat,
           \A x \in A \cup B : w[x] \in Nat, \A x \in B : w[x] =< m
    PROVE  Total(w, A \cup B) =< Total(w, A) + Cardinality(B) * m
<1> DEFINE G == {b \in SUBSET B : Total(w, A \cup b) =< Total(w, A) + Cardinality(b) * m}
<1>0. \A b \in SUBSET B :
        /\ IsFiniteSet(b) /\ IsFiniteSet(A \cup b)
        /\ Cardinality(b) \in Nat
        /\ Total(w, A \cup b) \in Nat
  <2>1. \A b \in SUBSET B :
          IsFiniteSet(b) /\ IsFiniteSet(A \cup b) /\ Cardinality(b) \in Nat
    BY FS_Subset, FS_Union, FS_CardinalityType
  <2> QED BY <2>1, TotalNat
<1>1. ASSUME NEW b \in SUBSET B, \A x \in b : b \ {x} \in G PROVE b \in G
  <2>1. CASE b = {}
    <3>1. Cardinality(b) * m = 0 /\ A \cup b = A
      BY <2>1, FS_EmptySet
    <3>2. Total(w, A) \in Nat
      BY TotalNat
    <3>3. Total(w, A \cup b) =< Total(w, A) + Cardinality(b) * m
      BY ONLY <3>1, <3>2
    <3> QED BY <3>3
  <2>2. CASE b # {}
    <3>1. PICK x \in b : TRUE
      BY <2>2
    <3> DEFINE k == Cardinality(b \ {x})
    <3>2. Total(w, A \cup (b \ {x})) =< Total(w, A) + k * m
      BY <1>1
    <3>3. Cardinality(b) = k + 1 /\ k \in Nat
      <4>1. k = Cardinality(b) - 1 /\ k \in Nat /\ Cardinality(b) \in Nat
        BY <1>0, FS_RemoveElement
      <4> QED BY <4>1
    <3>4. Total(w, A \cup b) =< Total(w, A \cup (b \ {x})) + m
      <4>1. CASE x \in A
        <5>1. A \cup b = A \cup (b \ {x})
          BY <4>1
        <5> QED BY <5>1, <1>0
      <4>2. CASE x \notin A
        <5>1. (A \cup b) \ {x} = A \cup (b \ {x})
          BY <4>2
        <5>2. Total(w, A \cup b) = w[x] + Total(w, (A \cup b) \ {x})
          BY <1>0, TotalSplit
        <5>3. Total(w, A \cup (b \ {x})) \in Nat
          BY <1>0
        <5>4. w[x] \in Nat /\ w[x] =< m
          OBVIOUS
        <5>5. Total(w, A \cup b) = w[x] + Total(w, A \cup (b \ {x}))
          BY ONLY <5>1, <5>2
        <5>6. \A i, j \in Nat : i =< m => i + j =< j + m
          OBVIOUS
        <5> QED BY ONLY <5>3, <5>4, <5>5, <5>6
      <4> QED BY <4>1, <4>2
    <3>5. Total(w, A) \in Nat /\ Total(w, A \cup b) \in Nat
            /\ Total(w, A \cup (b \ {x})) \in Nat
      BY <1>0, TotalNat
    <3>6. (k + 1) * m = k * m + m /\ k * m \in Nat
      BY <3>3
    <3> HIDE DEF k
    <3>7. Total(w, A \cup b) =< Total(w, A) + Cardinality(b) * m
      BY <3>2, <3>3, <3>4, <3>5, <3>6
    <3> QED BY <3>7
  <2> QED BY <2>1, <2>2
<1> HIDE DEF G
<1>2. \A b \in SUBSET B : b \in G
  BY <1>1, Shrinking
<1> QED BY <1>2 DEF G

-----------------------------------------------------------------------------
(* Who holds something after a step that lets at most one more in, and     *)
(* only while fewer than limit hold it.                                    *)
LEMMA LimitKept ==
    ASSUME NEW H, IsFiniteSet(H), NEW limit \in Nat, Cardinality(H) =< limit,
           NEW x, NEW K, K \subseteq H \cup {x},
           Cardinality(H) < limit \/ K \subseteq H
    PROVE  IsFiniteSet(K) /\ Cardinality(K) =< limit
<1>1. Cardinality(H) \in Nat
  BY FS_CardinalityType
<1>2. CASE K \subseteq H
  BY <1>1, <1>2, FS_Subset, FS_CardinalityType
<1>3. CASE Cardinality(H) < limit
  <2>1. IsFiniteSet(H \cup {x}) /\ Cardinality(H \cup {x}) =< limit
    BY <1>1, <1>3, FS_AddElement
  <2> QED BY <2>1, FS_Subset, FS_CardinalityType
<1> QED BY <1>2, <1>3

(* Two members make a set larger than one.                                 *)
LEMMA AtMostOne ==
    ASSUME NEW H, IsFiniteSet(H), Cardinality(H) =< 1, NEW x \in H, NEW y \in H
    PROVE  x = y
<1>1. Cardinality({x}) = 1 /\ Cardinality({x}) =< Cardinality(H)
  BY FS_Singleton, FS_Subset
<1>2. Cardinality({x}) = Cardinality(H)
  BY <1>1, FS_CardinalityType
<1>3. {x} = H
  BY <1>2, FS_Subset
<1> QED BY <1>3
=============================================================================
