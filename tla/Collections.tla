----------------------------- MODULE Collections -----------------------------
(***************************************************************************)
(* What the components' proofs need to know of finite collections: sums    *)
(* over them, their elements in an order, and parts of sequences.          *)
(***************************************************************************)
EXTENDS Integers, Sequences, FiniteSets, Functions, FiniteSetTheorems, TLAPS

-----------------------------------------------------------------------------
(* Sums.  SumFunctionOnSet adds the values in the order in which CHOOSE    *)
(* takes the elements; for a finite set it is a sum whatever the order.    *)
(* Each induction is on the subsets: a smallest exception cannot exist.    *)

Chosen(s) == CHOOSE x \in s : TRUE
IsIteration(g, f, S) ==
    g = [s \in SUBSET S |-> IF s = {} THEN 0 ELSE f[Chosen(s)] + g[s \ {Chosen(s)}]]
Iteration(f, S) == CHOOSE g : IsIteration(g, f, S)

LEMMA SumIsIteration ==
    ASSUME NEW f, NEW S
    PROVE  SumFunctionOnSet(f, S) = Iteration(f, S)[S]
BY DEF SumFunctionOnSet, FoldFunctionOnSet, MapThenFoldSet, Iteration, IsIteration, Chosen

LEMMA LeastNatural ==
    ASSUME NEW T \in SUBSET Nat, T # {}
    PROVE  \E m \in T : \A n \in T : m <= n
<1>1. \E x \in T : \A y \in T : ~(<<y, x>> \in OpToRel(<, Nat))
  BY NatLessThanWellFounded, WFMin, Zenon
<1>2. PICK m \in T : \A y \in T : ~(<<y, m>> \in OpToRel(<, Nat))
  BY <1>1
<1>3. \A y \in T : ~(y < m)
  BY <1>2 DEF OpToRel
<1> QED
  BY <1>3

LEMMA SmallestSubset ==
    ASSUME NEW S, IsFiniteSet(S), NEW T \in SUBSET (SUBSET S), T # {}
    PROVE  \E s \in T : \A t \in T : t \subseteq s => t = s
<1>1. IsWellFoundedOn(StrictSubsetOrdering(S), SUBSET S)
  BY FS_StrictSubsetOrderingWellFounded, FS_FiniteSubsetsOfFinite
<1>2. PICK s \in T : \A t \in T : ~(<<t, s>> \in StrictSubsetOrdering(S))
  BY <1>1, WFMin
<1> QED
  BY <1>2 DEF StrictSubsetOrdering

LEMMA ChosenIn == ASSUME NEW s, s # {} PROVE Chosen(s) \in s
BY DEF Chosen

\* The equation has a solution for the subsets of up to n elements, whatever n is.
LEMMA IterationExists ==
    ASSUME NEW f, NEW S, IsFiniteSet(S)
    PROVE  IsIteration(Iteration(f, S), f, S)
<1> DEFINE Unfolded(g, s) == IF s = {} THEN 0 ELSE f[Chosen(s)] + g[s \ {Chosen(s)}]
           Follows(g, n) == \A s \in SUBSET S : Cardinality(s) <= n => g[s] = Unfolded(g, s)
           Reached == {n \in Nat : \E g : Follows(g, n)}
<1>0. \A s \in SUBSET S : /\ IsFiniteSet(s) /\ Cardinality(s) \in Nat /\ Cardinality(s) <= Cardinality(S)
                          /\ s # {} => /\ Chosen(s) \in s /\ s \ {Chosen(s)} \in SUBSET S
                                       /\ Cardinality(s \ {Chosen(s)}) = Cardinality(s) - 1
                          /\ Cardinality(s) = 0 => s = {}
  BY FS_Subset, FS_CardinalityType, FS_RemoveElement, FS_EmptySet, ChosenIn
<1>1. 0 \in Reached
  <2> DEFINE g == [s \in SUBSET S |-> 0]
  <2>1. ASSUME NEW s \in SUBSET S, Cardinality(s) <= 0
        PROVE  g[s] = Unfolded(g, s)
    <3>1. Cardinality(s) \in Nat /\ (Cardinality(s) = 0 => s = {})
      BY <1>0
    <3>2. s = {}
      BY <2>1, <3>1
    <3> QED
      BY <3>2
  <2>2. Follows(g, 0)
    BY <2>1
  <2> HIDE DEF g, Follows
  <2> QED
    BY <2>2
<1>2. ASSUME NEW n \in Reached
      PROVE  n + 1 \in Reached
  <2>1. n \in Nat /\ \E g : Follows(g, n)
    OBVIOUS
  <2>2. PICK g : Follows(g, n)
    BY <2>1
  <2> DEFINE h == [s \in SUBSET S |-> IF Cardinality(s) = n + 1 THEN Unfolded(g, s) ELSE g[s]]
  <2>3. ASSUME NEW s \in SUBSET S, Cardinality(s) <= n + 1
        PROVE  h[s] = Unfolded(h, s)
    <3>1. CASE s = {}
      <4>1. Cardinality(s) = 0
        BY <3>1, FS_EmptySet
      <4>2. h[s] = g[s]
        BY <2>1, <4>1
      <4>3. g[s] = Unfolded(g, s)
        BY <2>1, <2>2, <4>1
      <4> QED
        BY <3>1, <4>2, <4>3
    <3>2. CASE s # {}
      <4> DEFINE t == s \ {Chosen(s)}
      <4>1. t \in SUBSET S /\ Cardinality(t) = Cardinality(s) - 1 /\ Cardinality(s) \in Nat
        BY <1>0, <3>2
      <4>2. Cardinality(t) # n + 1
        BY <2>1, <2>3, <4>1
      <4>3. h[t] = g[t]
        BY <4>1, <4>2
      <4>4. h[s] = Unfolded(g, s)
        <5>1. CASE Cardinality(s) = n + 1
          BY <5>1
        <5>2. CASE Cardinality(s) # n + 1
          <6>1. Cardinality(s) <= n
            BY <2>1, <2>3, <4>1, <5>2
          <6> QED
            BY <2>2, <5>2, <6>1
        <5> QED
          BY <5>1, <5>2
      <4> QED
        BY <3>2, <4>3, <4>4
    <3> QED
      BY <3>1, <3>2
  <2>4. Follows(h, n + 1)
    BY <2>3
  <2> HIDE DEF h, Follows
  <2> QED
    BY <2>1, <2>4
<1>3. Nat \ Reached = {}
  <2> SUFFICES ASSUME Nat \ Reached # {}
               PROVE  FALSE
    OBVIOUS
  <2>1. PICK m \in Nat \ Reached : \A n \in Nat \ Reached : m <= n
    <3> HIDE DEF Reached
    <3> QED
      BY LeastNatural
  <2> HIDE DEF Reached
  <2>2. m # 0 /\ m - 1 \in Nat
    BY <1>1, <2>1
  <2>3. m - 1 \in Reached
    BY <2>1, <2>2
  <2>4. (m - 1) + 1 \in Reached
    BY <1>2, <2>3
  <2> QED
    BY <2>2, <2>4
<1>4. PICK g : Follows(g, Cardinality(S))
  <2>1. Cardinality(S) \in Nat
    BY FS_CardinalityType
  <2> QED
    BY <1>3, <2>1
<1> DEFINE h == [s \in SUBSET S |-> g[s]]
<1>5. \A s \in SUBSET S : h[s] = Unfolded(h, s)
  <2> SUFFICES ASSUME NEW s \in SUBSET S
               PROVE  h[s] = Unfolded(h, s)
    OBVIOUS
  <2>1. g[s] = Unfolded(g, s)
    BY <1>0, <1>4
  <2>2. s # {} => h[s \ {Chosen(s)}] = g[s \ {Chosen(s)}]
    OBVIOUS
  <2> QED
    BY <2>1, <2>2
<1>6. IsIteration(h, f, S)
  <2>1. h = [s \in SUBSET S |-> h[s]]
    OBVIOUS
  <2>2. [s \in SUBSET S |-> h[s]] = [s \in SUBSET S |-> Unfolded(h, s)]
    BY <1>5
  <2> QED
    BY <2>1, <2>2 DEF IsIteration
<1> HIDE DEF h
<1> QED
  BY <1>6 DEF Iteration
\* What is added for a subset does not depend on the set around it.
LEMMA IterationsAgree ==
    ASSUME NEW f, NEW S, IsFiniteSet(S), NEW T \in SUBSET S
    PROVE  \A s \in SUBSET T : Iteration(f, T)[s] = Iteration(f, S)[s]
<1> DEFINE g == Iteration(f, T)
           h == Iteration(f, S)
           Bad == {s \in SUBSET T : g[s] # h[s]}
<1>1. IsIteration(g, f, T) /\ IsIteration(h, f, S) /\ IsFiniteSet(T)
  BY IterationExists, FS_Subset
<1> SUFFICES ASSUME Bad # {}
             PROVE  FALSE
  OBVIOUS
<1>2. PICK s \in Bad : \A t \in Bad : t \subseteq s => t = s
  <2>1. Bad \in SUBSET (SUBSET T)
    OBVIOUS
  <2> HIDE DEF Bad
  <2> QED
    BY <1>1, <2>1, SmallestSubset
<1> HIDE DEF g, h
<1>3. s \in SUBSET T /\ s \in SUBSET S
  OBVIOUS
<1>4. /\ g[s] = IF s = {} THEN 0 ELSE f[Chosen(s)] + g[s \ {Chosen(s)}]
      /\ h[s] = IF s = {} THEN 0 ELSE f[Chosen(s)] + h[s \ {Chosen(s)}]
  BY <1>1, <1>3 DEF IsIteration
<1>5. s # {}
  BY <1>2, <1>4
<1>6. s \ {Chosen(s)} \subseteq s /\ s \ {Chosen(s)} # s
  BY <1>5, ChosenIn
<1>7. g[s \ {Chosen(s)}] = h[s \ {Chosen(s)}]
  BY <1>2, <1>3, <1>6
<1> QED
  BY <1>2, <1>4, <1>5, <1>7

LEMMA SumEmpty == ASSUME NEW f PROVE SumFunctionOnSet(f, {}) = 0
<1>1. IsIteration(Iteration(f, {}), f, {})
  BY IterationExists, FS_EmptySet
<1> QED
  BY <1>1, SumIsIteration DEF IsIteration

\* The sum over S is that of what is left of S and the value at Chosen(S).
LEMMA SumUnfolds ==
    ASSUME NEW f, NEW S, IsFiniteSet(S), S # {}
    PROVE  SumFunctionOnSet(f, S) = f[Chosen(S)] + SumFunctionOnSet(f, S \ {Chosen(S)})
<1> DEFINE T == S \ {Chosen(S)}
<1>1. IsIteration(Iteration(f, S), f, S)
  BY IterationExists
<1>2. Iteration(f, S)[S] = f[Chosen(S)] + Iteration(f, S)[T]
  BY <1>1 DEF IsIteration
<1>3. T \in SUBSET S
  OBVIOUS
<1>4. Iteration(f, T)[T] = Iteration(f, S)[T]
  BY <1>3, IterationsAgree
<1> QED
  BY <1>2, <1>4, SumIsIteration

\* An exception would have a smallest one among the subsets, which is not empty
\* and loses its chosen element to one that is no exception.
LEMMA SumInt ==
    ASSUME NEW f, NEW S, IsFiniteSet(S), \A x \in S : f[x] \in Int
    PROVE  SumFunctionOnSet(f, S) \in Int
<1> DEFINE Bad == {s \in SUBSET S : SumFunctionOnSet(f, s) \notin Int}
<1> SUFFICES ASSUME Bad # {}
             PROVE  FALSE
  OBVIOUS
<1>1. PICK s \in Bad : \A t \in Bad : t \subseteq s => t = s
  <2>1. Bad \in SUBSET (SUBSET S)
    OBVIOUS
  <2> HIDE DEF Bad
  <2> QED
    BY <2>1, SmallestSubset
<1>2. s \in SUBSET S /\ IsFiniteSet(s) /\ SumFunctionOnSet(f, s) \notin Int
  BY FS_Subset
<1>3. s # {}
  BY <1>2, SumEmpty
<1>4. SumFunctionOnSet(f, s) = f[Chosen(s)] + SumFunctionOnSet(f, s \ {Chosen(s)})
  BY <1>2, <1>3, SumUnfolds
<1>5. Chosen(s) \in s /\ s \ {Chosen(s)} \in SUBSET S /\ s \ {Chosen(s)} # s
  BY <1>2, <1>3, ChosenIn
<1>6. SumFunctionOnSet(f, s \ {Chosen(s)}) \in Int
  BY <1>1, <1>5
<1> QED
  BY <1>2, <1>4, <1>5, <1>6

LEMMA SumSame ==
    ASSUME NEW f, NEW g, NEW S, IsFiniteSet(S), \A x \in S : f[x] = g[x]
    PROVE  SumFunctionOnSet(f, S) = SumFunctionOnSet(g, S)
<1> DEFINE Bad == {s \in SUBSET S : SumFunctionOnSet(f, s) # SumFunctionOnSet(g, s)}
<1> SUFFICES ASSUME Bad # {}
             PROVE  FALSE
  OBVIOUS
<1>1. PICK s \in Bad : \A t \in Bad : t \subseteq s => t = s
  <2>1. Bad \in SUBSET (SUBSET S)
    OBVIOUS
  <2> HIDE DEF Bad
  <2> QED
    BY <2>1, SmallestSubset
<1>2. s \in SUBSET S /\ IsFiniteSet(s) /\ SumFunctionOnSet(f, s) # SumFunctionOnSet(g, s)
  BY FS_Subset
<1>3. s # {}
  BY <1>2, SumEmpty
<1>4. /\ SumFunctionOnSet(f, s) = f[Chosen(s)] + SumFunctionOnSet(f, s \ {Chosen(s)})
      /\ SumFunctionOnSet(g, s) = g[Chosen(s)] + SumFunctionOnSet(g, s \ {Chosen(s)})
  BY <1>2, <1>3, SumUnfolds
<1>5. Chosen(s) \in s /\ s \ {Chosen(s)} \in SUBSET S /\ s \ {Chosen(s)} # s
  BY <1>2, <1>3, ChosenIn
<1>6. SumFunctionOnSet(f, s \ {Chosen(s)}) = SumFunctionOnSet(g, s \ {Chosen(s)})
  BY <1>1, <1>5
<1> QED
  BY <1>2, <1>4, <1>5, <1>6

\* Every element may be taken for the chosen one.
LEMMA SumRemoves ==
    ASSUME NEW f, NEW S, IsFiniteSet(S), \A x \in S : f[x] \in Int, NEW x \in S
    PROVE  SumFunctionOnSet(f, S) = f[x] + SumFunctionOnSet(f, S \ {x})
<1> DEFINE Bad == {s \in SUBSET S : \E y \in s : SumFunctionOnSet(f, s) # f[y] + SumFunctionOnSet(f, s \ {y})}
<1> SUFFICES ASSUME Bad # {}
             PROVE  FALSE
  OBVIOUS
<1>1. PICK s \in Bad : \A t \in Bad : t \subseteq s => t = s
  <2>1. Bad \in SUBSET (SUBSET S)
    OBVIOUS
  <2> HIDE DEF Bad
  <2> QED
    BY <2>1, SmallestSubset
<1>2. PICK y \in s : SumFunctionOnSet(f, s) # f[y] + SumFunctionOnSet(f, s \ {y})
  OBVIOUS
<1> DEFINE c == Chosen(s)
           t == s \ {c}
           u == s \ {y}
           v == t \ {y}
<1>3. /\ s \in SUBSET S /\ t \in SUBSET S /\ u \in SUBSET S /\ v \in SUBSET S
      /\ IsFiniteSet(s) /\ IsFiniteSet(t) /\ IsFiniteSet(u) /\ IsFiniteSet(v)
      /\ c \in s /\ y \in S /\ c \in S /\ t # s /\ u # s /\ t \subseteq s /\ u \subseteq s
  BY FS_Subset, ChosenIn
<1>4. SumFunctionOnSet(f, s) = f[c] + SumFunctionOnSet(f, t)
  BY <1>3, SumUnfolds
<1>5. y # c
  BY <1>2, <1>4
<1>6. y \in t /\ c \in u /\ v = u \ {c}
  BY <1>3, <1>5
<1>7. t \notin Bad /\ u \notin Bad
  BY <1>1, <1>3
<1>8. SumFunctionOnSet(f, t) = f[y] + SumFunctionOnSet(f, v)
  BY <1>3, <1>6, <1>7
<1>9. SumFunctionOnSet(f, u) = f[c] + SumFunctionOnSet(f, v)
  BY <1>3, <1>6, <1>7
<1>10. f[y] \in Int /\ f[c] \in Int /\ SumFunctionOnSet(f, v) \in Int
  BY <1>3, SumInt
<1> QED
  BY <1>2, <1>4, <1>8, <1>9, <1>10

LEMMA SumAdds ==
    ASSUME NEW f, NEW S, IsFiniteSet(S), NEW x, x \notin S, \A y \in S \cup {x} : f[y] \in Int
    PROVE  SumFunctionOnSet(f, S \cup {x}) = f[x] + SumFunctionOnSet(f, S)
<1>1. IsFiniteSet(S \cup {x}) /\ (S \cup {x}) \ {x} = S
  BY FS_AddElement
<1> QED
  BY <1>1, SumRemoves

\* Sums over two sets that have nothing in common add up.
LEMMA SumUnion ==
    ASSUME NEW f, NEW S, NEW T, IsFiniteSet(S), IsFiniteSet(T), S \cap T = {},
           \A x \in S \cup T : f[x] \in Int
    PROVE  SumFunctionOnSet(f, S \cup T) = SumFunctionOnSet(f, S) + SumFunctionOnSet(f, T)
<1> DEFINE Bad == {t \in SUBSET T : SumFunctionOnSet(f, S \cup t) # SumFunctionOnSet(f, S) + SumFunctionOnSet(f, t)}
<1> SUFFICES ASSUME Bad # {}
             PROVE  FALSE
  OBVIOUS
<1>1. PICK t \in Bad : \A u \in Bad : u \subseteq t => u = t
  <2>1. Bad \in SUBSET (SUBSET T)
    OBVIOUS
  <2> HIDE DEF Bad
  <2> QED
    BY <2>1, SmallestSubset
<1>2. t \in SUBSET T /\ IsFiniteSet(t) /\ SumFunctionOnSet(f, S \cup t) # SumFunctionOnSet(f, S) + SumFunctionOnSet(f, t)
  BY FS_Subset
<1>3. SumFunctionOnSet(f, S) \in Int /\ SumFunctionOnSet(f, {}) = 0
  BY SumInt, SumEmpty
<1>4. t # {}
  <2> SUFFICES ASSUME t = {}
               PROVE  FALSE
    OBVIOUS
  <2>1. S \cup t = S
    OBVIOUS
  <2> QED
    BY <1>2, <1>3, <2>1
<1>5. PICK x \in t : TRUE
  BY <1>4
<1> DEFINE u == t \ {x}
<1>6. u \in SUBSET T /\ u # t /\ u \subseteq t /\ IsFiniteSet(u) /\ x \notin S \cup u /\ t = u \cup {x}
  BY <1>2, <1>5, FS_Subset
<1>7. SumFunctionOnSet(f, S \cup u) = SumFunctionOnSet(f, S) + SumFunctionOnSet(f, u)
  BY <1>1, <1>6
<1>8. IsFiniteSet(S \cup u) /\ S \cup t = (S \cup u) \cup {x}
  BY <1>6, FS_Union
<1>9. \A y \in (S \cup u) \cup {x} : f[y] \in Int
  BY <1>6
<1>10. SumFunctionOnSet(f, S \cup t) = f[x] + SumFunctionOnSet(f, S \cup u)
  BY <1>6, <1>8, <1>9, SumAdds
<1>11. SumFunctionOnSet(f, t) = f[x] + SumFunctionOnSet(f, u)
  BY <1>6, <1>9, SumAdds
<1>12. f[x] \in Int /\ SumFunctionOnSet(f, u) \in Int
  BY <1>6, <1>9, SumInt
<1> QED
  BY <1>2, <1>3, <1>7, <1>10, <1>11, <1>12

\* A sum of greater values is greater.
LEMMA SumMonotone ==
    ASSUME NEW f, NEW g, NEW S, IsFiniteSet(S), \A x \in S : f[x] \in Int /\ g[x] \in Int /\ f[x] <= g[x]
    PROVE  SumFunctionOnSet(f, S) <= SumFunctionOnSet(g, S)
<1> DEFINE Bad == {s \in SUBSET S : ~(SumFunctionOnSet(f, s) <= SumFunctionOnSet(g, s))}
<1> SUFFICES ASSUME Bad # {}
             PROVE  FALSE
  OBVIOUS
<1>1. PICK s \in Bad : \A t \in Bad : t \subseteq s => t = s
  <2>1. Bad \in SUBSET (SUBSET S)
    OBVIOUS
  <2> HIDE DEF Bad
  <2> QED
    BY <2>1, SmallestSubset
<1>2. s \in SUBSET S /\ IsFiniteSet(s) /\ ~(SumFunctionOnSet(f, s) <= SumFunctionOnSet(g, s))
  BY FS_Subset
<1>3. s # {}
  BY <1>2, SumEmpty
<1> DEFINE c == Chosen(s)
           t == s \ {c}
<1>4. /\ SumFunctionOnSet(f, s) = f[c] + SumFunctionOnSet(f, t)
      /\ SumFunctionOnSet(g, s) = g[c] + SumFunctionOnSet(g, t)
  BY <1>2, <1>3, SumUnfolds
<1>5. c \in s /\ t \in SUBSET S /\ t \subseteq s /\ t # s /\ IsFiniteSet(t)
  BY <1>2, <1>3, ChosenIn, FS_Subset
<1>6. SumFunctionOnSet(f, t) <= SumFunctionOnSet(g, t)
  BY <1>1, <1>5
<1>7. f[c] \in Int /\ g[c] \in Int /\ f[c] <= g[c] /\ SumFunctionOnSet(f, t) \in Int /\ SumFunctionOnSet(g, t) \in Int
  BY <1>2, <1>5, SumInt
<1> QED
  BY <1>2, <1>4, <1>6, <1>7

\* A sum of sums is the sum of both.
LEMMA SumPlus ==
    ASSUME NEW f, NEW g, NEW h, NEW S, IsFiniteSet(S),
           \A x \in S : f[x] \in Int /\ g[x] \in Int /\ h[x] = f[x] + g[x]
    PROVE  SumFunctionOnSet(h, S) = SumFunctionOnSet(f, S) + SumFunctionOnSet(g, S)
<1> DEFINE Bad == {s \in SUBSET S : SumFunctionOnSet(h, s) # SumFunctionOnSet(f, s) + SumFunctionOnSet(g, s)}
<1> SUFFICES ASSUME Bad # {}
             PROVE  FALSE
  OBVIOUS
<1>1. PICK s \in Bad : \A t \in Bad : t \subseteq s => t = s
  <2>1. Bad \in SUBSET (SUBSET S)
    OBVIOUS
  <2> HIDE DEF Bad
  <2> QED
    BY <2>1, SmallestSubset
<1>2. s \in SUBSET S /\ IsFiniteSet(s) /\ SumFunctionOnSet(h, s) # SumFunctionOnSet(f, s) + SumFunctionOnSet(g, s)
  BY FS_Subset
<1>3. s # {}
  <2>1. SumFunctionOnSet(f, {}) = 0 /\ SumFunctionOnSet(g, {}) = 0 /\ SumFunctionOnSet(h, {}) = 0
    BY SumEmpty
  <2>2. SumFunctionOnSet(h, {}) = SumFunctionOnSet(f, {}) + SumFunctionOnSet(g, {})
    BY <2>1
  <2>3. SumFunctionOnSet(h, s) # SumFunctionOnSet(f, s) + SumFunctionOnSet(g, s)
    BY <1>2
  <2> HIDE DEF Bad
  <2> QED
    BY <2>2, <2>3
<1> DEFINE c == Chosen(s)
           t == s \ {c}
<1>4. /\ SumFunctionOnSet(f, s) = f[c] + SumFunctionOnSet(f, t)
      /\ SumFunctionOnSet(g, s) = g[c] + SumFunctionOnSet(g, t)
      /\ SumFunctionOnSet(h, s) = h[c] + SumFunctionOnSet(h, t)
  BY <1>2, <1>3, SumUnfolds
<1>5. c \in s /\ t \in SUBSET S /\ t \subseteq s /\ t # s /\ IsFiniteSet(t)
  BY <1>2, <1>3, ChosenIn, FS_Subset
<1>6. SumFunctionOnSet(h, t) = SumFunctionOnSet(f, t) + SumFunctionOnSet(g, t)
  BY <1>1, <1>5
<1>7. /\ f[c] \in Int /\ g[c] \in Int /\ h[c] = f[c] + g[c]
      /\ SumFunctionOnSet(f, t) \in Int /\ SumFunctionOnSet(g, t) \in Int
  BY <1>2, <1>5, SumInt
<1> QED
  BY <1>2, <1>4, <1>6, <1>7

\* What is 0 may be left out.
LEMMA SumZeros ==
    ASSUME NEW f, NEW S, NEW T \in SUBSET S, IsFiniteSet(S), \A x \in S : f[x] \in Int,
           \A x \in S \ T : f[x] = 0
    PROVE  SumFunctionOnSet(f, S) = SumFunctionOnSet(f, T)
<1> DEFINE R == S \ T
           z == [x \in R |-> 0]
<1>1. IsFiniteSet(R) /\ IsFiniteSet(T) /\ R \cap T = {} /\ S = T \cup R /\ T \cap R = {}
  BY FS_Subset
<1>2. SumFunctionOnSet(f, S) = SumFunctionOnSet(f, T) + SumFunctionOnSet(f, R)
  BY <1>1, SumUnion
<1>3. SumFunctionOnSet(f, R) = 0
  <2>1. \A x \in R : f[x] \in Int /\ z[x] \in Int /\ f[x] = z[x] /\ z[x] = z[x] + z[x]
    OBVIOUS
  <2> HIDE DEF R, z
  <2>2. SumFunctionOnSet(f, R) = SumFunctionOnSet(z, R)
    BY <1>1, <2>1, SumSame
  <2>3. SumFunctionOnSet(z, R) = SumFunctionOnSet(z, R) + SumFunctionOnSet(z, R)
    BY <1>1, <2>1, SumPlus
  <2>4. SumFunctionOnSet(z, R) \in Int
    BY <1>1, <2>1, SumInt
  <2> QED
    <3>1. PICK n \in Int : n = SumFunctionOnSet(z, R)
      BY <2>4
    <3>2. n = n + n
      BY <2>3, <3>1
    <3>3. n = 0
      BY <3>2
    <3> QED
      BY <2>2, <3>1, <3>3
<1>4. SumFunctionOnSet(f, T) \in Int
  BY <1>1, SumInt
<1> QED
  BY <1>2, <1>3, <1>4

LEMMA SumNat ==
    ASSUME NEW f, NEW S, IsFiniteSet(S), \A x \in S : f[x] \in Nat
    PROVE  SumFunctionOnSet(f, S) \in Nat
<1> DEFINE z == [x \in S |-> 0]
<1>1. \A x \in S : z[x] = 0 /\ z[x] \in Int /\ f[x] \in Int /\ z[x] <= f[x]
  OBVIOUS
<1> HIDE DEF z
<1>2. SumFunctionOnSet(z, S) <= SumFunctionOnSet(f, S) /\ SumFunctionOnSet(f, S) \in Int
  BY <1>1, SumMonotone, SumInt
<1>3. SumFunctionOnSet(z, S) = SumFunctionOnSet(z, {})
  <2>1. {} \in SUBSET S /\ \A x \in S \ {} : z[x] = 0
    BY <1>1
  <2> QED
    BY <1>1, <2>1, SumZeros
<1> QED
  BY <1>2, <1>3, SumEmpty

\* Groups: each value of w is the sum of f over the elements that t maps to it.
MappedTo(t, H, r) == {h \in H : t[h] = r}
MappedInto(t, H, R) == {h \in H : t[h] \in R}

LEMMA SumGroups ==
    ASSUME NEW f, NEW w, NEW t, NEW H, NEW R, IsFiniteSet(H), IsFiniteSet(R),
           \A h \in H : f[h] \in Int,
           \A r \in R : w[r] = SumFunctionOnSet(f, MappedTo(t, H, r))
    PROVE  SumFunctionOnSet(w, R) = SumFunctionOnSet(f, MappedInto(t, H, R))
<1> DEFINE In(s) == MappedInto(t, H, s)
           Bad == {s \in SUBSET R : SumFunctionOnSet(w, s) # SumFunctionOnSet(f, In(s))}
<1> SUFFICES ASSUME Bad # {}
             PROVE  FALSE
  OBVIOUS
<1>1. PICK s \in Bad : \A u \in Bad : u \subseteq s => u = s
  <2>1. Bad \in SUBSET (SUBSET R)
    OBVIOUS
  <2> HIDE DEF Bad
  <2> QED
    BY <2>1, SmallestSubset
<1>2. s \in SUBSET R /\ IsFiniteSet(s) /\ SumFunctionOnSet(w, s) # SumFunctionOnSet(f, In(s))
  BY FS_Subset
<1>3. s # {}
  <2> SUFFICES ASSUME s = {}
               PROVE  FALSE
    OBVIOUS
  <2>1. In(s) = {}
    BY DEF MappedInto
  <2> HIDE DEF In
  <2> QED
    BY <1>2, <2>1, SumEmpty
<1> DEFINE c == Chosen(s)
           u == s \ {c}
           G == MappedTo(t, H, c)
<1>4. SumFunctionOnSet(w, s) = w[c] + SumFunctionOnSet(w, u)
  BY <1>2, <1>3, SumUnfolds
<1>5. c \in s /\ c \in R /\ u \in SUBSET R /\ u \subseteq s /\ u # s
  BY <1>2, <1>3, ChosenIn
<1>6. SumFunctionOnSet(w, u) = SumFunctionOnSet(f, In(u))
  BY <1>1, <1>5
<1>7. w[c] = SumFunctionOnSet(f, G)
  BY <1>5
<1>8. /\ G \subseteq H /\ In(u) \subseteq H /\ G \cap In(u) = {} /\ In(s) = G \cup In(u)
  BY <1>5 DEF MappedTo, MappedInto
<1> HIDE DEF In, G
<1>9. IsFiniteSet(G) /\ IsFiniteSet(In(u)) /\ \A h \in G \cup In(u) : f[h] \in Int
  BY <1>8, FS_Subset
<1> HIDE DEF u
<1>10. SumFunctionOnSet(f, In(s)) = SumFunctionOnSet(f, G) + SumFunctionOnSet(f, In(u))
  <2>1. SumFunctionOnSet(f, G \cup In(u)) = SumFunctionOnSet(f, G) + SumFunctionOnSet(f, In(u))
    BY <1>8, <1>9, SumUnion
  <2> QED
    BY <1>8, <2>1
<1> QED
  BY <1>2, <1>4, <1>6, <1>7, <1>10

-----------------------------------------------------------------------------
(* Order.  A finite set with a strict total order R has a last element,    *)
(* and can be listed in that order.                                        *)

IsStrictOrder(R, S) ==
    /\ \A x, y, z \in S : <<x, y>> \in R /\ <<y, z>> \in R => <<x, z>> \in R
    /\ \A x, y \in S : x # y => <<x, y>> \in R \/ <<y, x>> \in R

LEMMA LastExists ==
    ASSUME NEW R, NEW S, IsFiniteSet(S), S # {}, IsStrictOrder(R, S)
    PROVE  \E m \in S : \A x \in S \ {m} : <<x, m>> \in R
<1> DEFINE HasLast(s) == \E m \in s : \A x \in s \ {m} : <<x, m>> \in R
           Bad == {s \in SUBSET S : s # {} /\ ~HasLast(s)}
<1> SUFFICES ASSUME Bad # {}
             PROVE  FALSE
  OBVIOUS
<1>1. PICK s \in Bad : \A t \in Bad : t \subseteq s => t = s
  <2>1. Bad \in SUBSET (SUBSET S)
    OBVIOUS
  <2> HIDE DEF Bad
  <2> QED
    BY <2>1, SmallestSubset
<1>2. PICK c : c \in s
  OBVIOUS
<1> DEFINE t == s \ {c}
<1>3. t \subseteq s /\ t # s /\ s \in SUBSET S /\ t \in SUBSET S /\ ~HasLast(s)
  BY <1>2
<1>4. t # {}
  BY <1>2, <1>3
<1>5. HasLast(t)
  BY <1>1, <1>3, <1>4
<1>6. PICK m \in t : \A x \in t \ {m} : <<x, m>> \in R
  BY <1>5
<1>7. c \in S /\ m \in S /\ m # c /\ \A x \in t : x \in S
  BY <1>2, <1>3
<1>8. CASE <<m, c>> \in R
  <2>1. \A x \in s \ {c} : <<x, c>> \in R
    BY <1>6, <1>7, <1>8 DEF IsStrictOrder
  <2> QED
    BY <1>2, <1>3, <2>1
<1>9. CASE <<c, m>> \in R
  <2>1. \A x \in s \ {m} : <<x, m>> \in R
    BY <1>6, <1>7, <1>9
  <2> QED
    BY <1>3, <2>1
<1> QED
  BY <1>7, <1>8, <1>9 DEF IsStrictOrder

Lists(q, R, s) ==
    /\ q \in [1..Cardinality(s) -> s]
    /\ \A x \in s : \E i \in 1..Cardinality(s) : q[i] = x
    /\ \A i, j \in 1..Cardinality(s) : i < j => <<q[i], q[j]>> \in R

LEMMA ListExists ==
    ASSUME NEW R, NEW S, IsFiniteSet(S), IsStrictOrder(R, S)
    PROVE  \E q : Lists(q, R, S)
<1> DEFINE Bad == {s \in SUBSET S : ~\E q : Lists(q, R, s)}
<1> SUFFICES ASSUME Bad # {}
             PROVE  FALSE
  OBVIOUS
<1>1. PICK s \in Bad : \A t \in Bad : t \subseteq s => t = s
  <2>1. Bad \in SUBSET (SUBSET S)
    OBVIOUS
  <2> HIDE DEF Bad
  <2> QED
    BY <2>1, SmallestSubset
<1>2. s \in SUBSET S /\ IsFiniteSet(s) /\ (~\E q : Lists(q, R, s))
  BY FS_Subset
<1>3. s # {}
  <2> SUFFICES ASSUME s = {}
               PROVE  \E q : Lists(q, R, s)
    BY <1>2
  <2>1. Cardinality(s) = 0
    BY FS_EmptySet
  <2>2. Lists([i \in {} |-> i], R, s)
    BY <2>1 DEF Lists
  <2> QED
    BY <2>2
<1>4. IsStrictOrder(R, s)
  BY <1>2 DEF IsStrictOrder
<1>5. PICK m \in s : \A x \in s \ {m} : <<x, m>> \in R
  BY <1>2, <1>3, <1>4, LastExists
<1> DEFINE t == s \ {m}
           n == Cardinality(t)
<1>6. t \in SUBSET S /\ t \subseteq s /\ t # s
  BY <1>2
<1>7. PICK q : Lists(q, R, t)
  BY <1>1, <1>6
<1>8. n \in Nat /\ Cardinality(s) = n + 1
  <2>1. IsFiniteSet(t) /\ Cardinality(t) = Cardinality(s) - 1 /\ Cardinality(s) \in Nat /\ Cardinality(t) \in Nat
    BY <1>2, FS_RemoveElement, FS_CardinalityType
  <2> QED
    BY <2>1
<1> DEFINE r == [i \in 1..(n + 1) |-> IF i = n + 1 THEN m ELSE q[i]]
<1> HIDE DEF n
<1>9. /\ q \in [1..n -> t]
      /\ \A x \in t : \E i \in 1..n : q[i] = x
      /\ \A i, j \in 1..n : i < j => <<q[i], q[j]>> \in R
  BY <1>7 DEF Lists, n
<1>10. \A i \in 1..n : i \in 1..(n + 1) /\ i # n + 1 /\ r[i] = q[i] /\ q[i] \in t
  BY <1>8, <1>9
<1>11. n + 1 \in 1..(n + 1) /\ r[n + 1] = m
  BY <1>8
<1>12. \A i \in 1..(n + 1) : i = n + 1 \/ i \in 1..n
  BY <1>8
<1>13. r \in [1..(n + 1) -> s]
  BY <1>10, <1>11, <1>12
<1> HIDE DEF r
<1>14. \A x \in s : \E i \in 1..(n + 1) : r[i] = x
  BY <1>9, <1>10, <1>11
<1>15. \A i, j \in 1..(n + 1) : i < j => <<r[i], r[j]>> \in R
  <2> SUFFICES ASSUME NEW i \in 1..(n + 1), NEW j \in 1..(n + 1), i < j
               PROVE  <<r[i], r[j]>> \in R
    OBVIOUS
  <2>1. i \in 1..n
    BY <1>8
  <2>2. CASE j = n + 1
    BY <1>5, <1>10, <1>11, <2>1, <2>2
  <2>3. CASE j \in 1..n
    BY <1>9, <1>10, <2>1, <2>3
  <2> QED
    BY <1>12, <2>2, <2>3
<1>16. Lists(r, R, s)
  BY <1>8, <1>13, <1>14, <1>15 DEF Lists
<1> QED
  BY <1>2, <1>16

-----------------------------------------------------------------------------
(* Sequences *)

LEMMA Prefix ==
    ASSUME NEW S, NEW s \in Seq(S), NEW l \in 1..Len(s)
    PROVE  /\ SubSeq(s, 1, l) \in Seq(S) /\ Len(SubSeq(s, 1, l)) = l
           /\ DOMAIN SubSeq(s, 1, l) = 1..l
           /\ \A k \in 1..l : SubSeq(s, 1, l)[k] = s[k]
<1>1. l \in Nat /\ l >= 1 /\ l <= Len(s)  OBVIOUS
<1>2. SubSeq(s, 1, l) \in Seq(S)  OBVIOUS
<1>3. Len(SubSeq(s, 1, l)) = l  BY <1>1
<1>4. \A k \in 1..l : SubSeq(s, 1, l)[k] = s[k]  BY <1>1
<1> QED BY <1>2, <1>3, <1>4

LEMMA Joined ==
    ASSUME NEW S, NEW s \in Seq(S), NEW t \in Seq(S)
    PROVE  /\ s \o t \in Seq(S) /\ Len(s \o t) = Len(s) + Len(t)
           /\ DOMAIN (s \o t) = 1..(Len(s) + Len(t))
           /\ \A k \in 1..Len(s) : (s \o t)[k] = s[k]
           /\ \A k \in 1..Len(t) : (s \o t)[Len(s) + k] = t[k]
<1>1. s \o t \in Seq(S)  OBVIOUS
<1>2. Len(s \o t) = Len(s) + Len(t)  OBVIOUS
<1>3. \A k \in 1..Len(s) : (s \o t)[k] = s[k]  OBVIOUS
<1>4. \A k \in 1..Len(t) : (s \o t)[Len(s) + k] = t[k]  OBVIOUS
<1> QED BY <1>1, <1>2, <1>3, <1>4
=============================================================================
