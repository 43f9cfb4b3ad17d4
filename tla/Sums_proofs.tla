------------------------------ MODULE Sums_proofs ------------------------------
(***************************************************************************)
(* Sums over finite sets.                                                  *)
(***************************************************************************)
EXTENDS Integers, Functions, FiniteSetsExt, FiniteSetTheorems, WellFoundedInduction, TLAPS

\* A set of numbers with 0 that is closed under successor has all of them.
LEMMA AllNumbers ==
  ASSUME NEW P \in SUBSET Nat, 0 \in P, \A n \in P : n + 1 \in P
  PROVE  P = Nat
  <1> SUFFICES ASSUME Nat \ P # {} PROVE FALSE
    OBVIOUS
  <1> DEFINE R == OpToRel(<, Nat)
  <1>1. \A a, b \in Nat : a < b => <<a, b>> \in R
    BY DEF OpToRel
  <1>2. IsWellFoundedOn(R, Nat)
    BY NatLessThanWellFounded
  <1> HIDE DEF R
  <1>3. PICK m \in Nat \ P : \A y \in Nat \ P : ~(<<y, m>> \in R)
    BY <1>2, WFMin
  <1>4. m # 0 /\ m - 1 \in Nat
    OBVIOUS
  <1>5. m - 1 \notin P
    <2>1. (m - 1) + 1 = m
      OBVIOUS
    <2> QED
      BY <2>1
  <1> QED
    <2>1. m - 1 \in Nat \ P /\ m - 1 < m /\ m \in Nat
      BY <1>4, <1>5
    <2> QED
      BY <1>1, <1>3, <2>1

\* How FiniteSetsExt adds up: it takes out one element after the other.
IsSum(g, f, S) ==
    g = [s \in SUBSET S |-> IF s = {} THEN 0
                            ELSE f[CHOOSE x \in s : TRUE] + g[s \ {CHOOSE x \in s : TRUE}]]

LEMMA SumUnfolded ==
  ASSUME NEW f, NEW S
  PROVE  SumFunctionOnSet(f, S) = (CHOOSE g : IsSum(g, f, S))[S]
  BY DEF SumFunctionOnSet, FoldFunctionOnSet, MapThenFoldSet, IsSum

Chosen(s) == CHOOSE x \in s : TRUE

LEMMA SumDefined ==
  ASSUME NEW S, IsFiniteSet(S), NEW f
  PROVE  \E g : IsSum(g, f, S)
  <1> DEFINE D(n) == {s \in SUBSET S : Cardinality(s) <= n}
             Good(g, n) == g = [s \in D(n) |-> IF s = {} THEN 0 ELSE f[Chosen(s)] + g[s \ {Chosen(s)}]]
             P == {n \in Nat : \E g : Good(g, n)}
  <1>0. \A s \in SUBSET S : IsFiniteSet(s) /\ Cardinality(s) \in Nat
    BY FS_Subset, FS_CardinalityType
  <1>1. 0 \in P
    <2> DEFINE g == [s \in D(0) |-> 0]
    <2>1. \A s \in D(0) : s = {}
      BY <1>0, FS_EmptySet
    <2>2. Good(g, 0)
      BY <2>1
    <2> QED
      BY <2>2
  <1>2. \A s \in SUBSET S : s # {} => /\ Chosen(s) \in s /\ s \ {Chosen(s)} \in SUBSET S
                                      /\ Cardinality(s \ {Chosen(s)}) = Cardinality(s) - 1
    BY <1>0, FS_RemoveElement DEF Chosen
  <1>3. ASSUME NEW n \in P PROVE n + 1 \in P
    <2>1. PICK g : Good(g, n)
      OBVIOUS
    <2> DEFINE val(s) == IF s = {} THEN 0 ELSE f[Chosen(s)] + g[s \ {Chosen(s)}]
               h == [s \in D(n + 1) |-> val(s)]
    <2>2. \A s \in D(n) : s \in D(n + 1) /\ h[s] = g[s]
      <3> SUFFICES ASSUME NEW s \in D(n) PROVE s \in D(n + 1) /\ h[s] = g[s]
        OBVIOUS
      <3>1. n \in Nat /\ Cardinality(s) \in Nat /\ Cardinality(s) <= n /\ s \in SUBSET S
        BY <1>0
      <3>2. s \in D(n + 1)
        BY <3>1
      <3>3. g[s] = val(s)
        <4> HIDE DEF D
        <4> QED
          BY <2>1
      <3>4. h[s] = val(s)
        <4> HIDE DEF D, val
        <4> QED
          BY <3>2
      <3> QED
        BY <3>2, <3>3, <3>4
    <2>3. \A s \in D(n + 1) : s # {} => s \ {Chosen(s)} \in D(n)
      BY <1>0, <1>2
    <2>4. \A s \in D(n + 1) : s # {} => g[s \ {Chosen(s)}] = h[s \ {Chosen(s)}]
      BY <2>2, <2>3
    <2>5. Good(h, n + 1)
      BY <2>4
    <2>6. n + 1 \in Nat
      OBVIOUS
    <2> HIDE DEF Good, h
    <2> QED
      BY <2>5, <2>6
  <1>4. P = Nat
    <2> HIDE DEF P
    <2>1. P \in SUBSET Nat
      BY DEF P
    <2> QED
      BY <1>1, <1>3, <2>1, AllNumbers
  <1>5. Cardinality(S) \in Nat /\ D(Cardinality(S)) = SUBSET S
    BY <1>0, FS_CardinalityType, FS_Subset
  <1>6. PICK g : Good(g, Cardinality(S))
    BY <1>4, <1>5
  <1>7. IsSum(g, f, S)
    BY <1>5, <1>6 DEF IsSum, Chosen
  <1> QED
    BY <1>7

\* Two sums agree where their functions do.
LEMMA SumsAgree ==
  ASSUME NEW S, NEW T, NEW f, NEW e, NEW g, NEW h, IsSum(g, f, S), IsSum(h, e, T),
         NEW U, IsFiniteSet(U), U \subseteq S, U \subseteq T, \A x \in U : f[x] = e[x]
  PROVE  g[U] = h[U]
  <1> DEFINE P == {n \in Nat : \A s \in SUBSET U : Cardinality(s) = n => g[s] = h[s]}
  <1>0. \A s \in SUBSET U : IsFiniteSet(s) /\ Cardinality(s) \in Nat /\ s \in SUBSET S /\ s \in SUBSET T
    BY FS_Subset, FS_CardinalityType
  <1>1. \A s \in SUBSET U : s # {} =>
          LET x == Chosen(s)
              rest == s \ {x}
          IN  /\ x \in s /\ rest \in SUBSET U /\ Cardinality(rest) = Cardinality(s) - 1
              /\ g[s] = f[x] + g[rest] /\ h[s] = e[x] + h[rest] /\ f[x] = e[x]
    <2> SUFFICES ASSUME NEW s \in SUBSET U, s # {}
                 PROVE  LET x == Chosen(s)
                            rest == s \ {x}
                        IN  /\ x \in s /\ rest \in SUBSET U /\ Cardinality(rest) = Cardinality(s) - 1
                            /\ g[s] = f[x] + g[rest] /\ h[s] = e[x] + h[rest] /\ f[x] = e[x]
      OBVIOUS
    <2>1. Chosen(s) \in s
      BY DEF Chosen
    <2>2. Cardinality(s \ {Chosen(s)}) = Cardinality(s) - 1
      BY <1>0, <2>1, FS_RemoveElement
    <2>3. g[s] = f[Chosen(s)] + g[s \ {Chosen(s)}]
      BY <1>0 DEF IsSum, Chosen
    <2>4. h[s] = e[Chosen(s)] + h[s \ {Chosen(s)}]
      BY <1>0 DEF IsSum, Chosen
    <2> QED
      BY <2>1, <2>2, <2>3, <2>4
  <1>2. 0 \in P
    <2>1. \A s \in SUBSET U : Cardinality(s) = 0 => s = {}
      BY <1>0, FS_EmptySet
    <2>2. g[{}] = 0 /\ h[{}] = 0
      <3>1. {} \in SUBSET S /\ {} \in SUBSET T
        OBVIOUS
      <3> QED
        BY <3>1 DEF IsSum
    <2> QED
      BY <2>1, <2>2
  <1>3. ASSUME NEW n \in P PROVE n + 1 \in P
    <2> SUFFICES ASSUME NEW s \in SUBSET U, Cardinality(s) = n + 1 PROVE g[s] = h[s]
      OBVIOUS
    <2>1. s # {}
      <3>1. n + 1 # 0
        OBVIOUS
      <3> QED
        BY <3>1, FS_EmptySet
    <2>2. Cardinality(s \ {Chosen(s)}) = n
      BY <1>1, <2>1
    <2>3. g[s \ {Chosen(s)}] = h[s \ {Chosen(s)}]
      BY <1>1, <2>1, <2>2
    <2> QED
      BY <1>1, <2>1, <2>3
  <1>4. P = Nat
    <2>1. P \in SUBSET Nat
      OBVIOUS
    <2> HIDE DEF P
    <2> QED
      BY <1>2, <1>3, <2>1, AllNumbers
  <1>5. Cardinality(U) \in P
    BY <1>0, <1>4
  <1> QED
    BY <1>5

LEMMA SumIs ==
  ASSUME NEW f, NEW S, IsFiniteSet(S), NEW T \in SUBSET S, NEW g, IsSum(g, f, S)
  PROVE  SumFunctionOnSet(f, T) = g[T]
  <1> DEFINE h == CHOOSE k : IsSum(k, f, T)
  <1>1. IsFiniteSet(T)
    BY FS_Subset
  <1>2. IsSum(h, f, T)
    BY <1>1, SumDefined
  <1>3. SumFunctionOnSet(f, T) = h[T]
    BY SumUnfolded
  <1> HIDE DEF h
  <1>4. h[T] = g[T]
    BY <1>1, <1>2, SumsAgree
  <1> QED
    BY <1>3, <1>4

LEMMA SumSame ==
  ASSUME NEW f, NEW e, NEW S, IsFiniteSet(S), \A x \in S : f[x] = e[x]
  PROVE  SumFunctionOnSet(f, S) = SumFunctionOnSet(e, S)
  <1>1. PICK g : IsSum(g, f, S)
    BY SumDefined
  <1>2. PICK h : IsSum(h, e, S)
    BY SumDefined
  <1>3. g[S] = h[S]
    BY <1>1, <1>2, SumsAgree
  <1>4. SumFunctionOnSet(f, S) = g[S] /\ SumFunctionOnSet(e, S) = h[S]
    BY <1>1, <1>2, SumIs
  <1> QED
    BY <1>3, <1>4

LEMMA SumEmpty ==
  ASSUME NEW f
  PROVE  SumFunctionOnSet(f, {}) = 0
  <1>1. IsFiniteSet({})
    BY FS_EmptySet
  <1>2. PICK g : IsSum(g, f, {})
    BY <1>1, SumDefined
  <1>3. SumFunctionOnSet(f, {}) = g[{}]
    BY <1>1, <1>2, SumIs
  <1>4. g[{}] = 0
    <2>1. {} \in SUBSET {}
      OBVIOUS
    <2> QED
      BY <1>2, <2>1 DEF IsSum
  <1> QED
    BY <1>3, <1>4

LEMMA SumChosen ==
  ASSUME NEW f, NEW S, IsFiniteSet(S), S # {}
  PROVE  /\ Chosen(S) \in S
         /\ SumFunctionOnSet(f, S) = f[Chosen(S)] + SumFunctionOnSet(f, S \ {Chosen(S)})
  <1>1. PICK g : IsSum(g, f, S)
    BY SumDefined
  <1>2. g[S] = f[Chosen(S)] + g[S \ {Chosen(S)}]
    <2>1. S \in SUBSET S
      OBVIOUS
    <2> QED
      BY <1>1, <2>1 DEF IsSum, Chosen
  <1>3. SumFunctionOnSet(f, S) = g[S] /\ SumFunctionOnSet(f, S \ {Chosen(S)}) = g[S \ {Chosen(S)}]
    BY <1>1, SumIs
  <1>4. Chosen(S) \in S
    BY DEF Chosen
  <1> QED
    BY <1>2, <1>3, <1>4

\* What a set has when all its strict subsets have it, every finite set has.
LEMMA SubsetInduction ==
  ASSUME NEW S, IsFiniteSet(S), NEW G,
         \A s \in SUBSET S : (\A t \in SUBSET s : t # s => t \in G) => s \in G
  PROVE  S \in G
  <1> DEFINE P == {n \in Nat : \A s \in SUBSET S : Cardinality(s) <= n => s \in G}
  <1>0. \A s \in SUBSET S : IsFiniteSet(s) /\ Cardinality(s) \in Nat
    BY FS_Subset, FS_CardinalityType
  <1>1. \A s \in SUBSET S : \A t \in SUBSET s : t # s => t \in SUBSET S /\ Cardinality(t) < Cardinality(s)
    <2> SUFFICES ASSUME NEW s \in SUBSET S, NEW t \in SUBSET s, t # s
                 PROVE  t \in SUBSET S /\ Cardinality(t) < Cardinality(s)
      OBVIOUS
    <2>1. IsFiniteSet(s) /\ t \in SUBSET S /\ Cardinality(t) \in Nat /\ Cardinality(s) \in Nat
      BY <1>0
    <2>2. Cardinality(t) <= Cardinality(s) /\ Cardinality(t) # Cardinality(s)
      BY <2>1, FS_Subset
    <2> QED
      BY <2>1, <2>2
  <1>2. 0 \in P
    <2> SUFFICES ASSUME NEW s \in SUBSET S, Cardinality(s) <= 0 PROVE s \in G
      OBVIOUS
    <2>1. \A t \in SUBSET s : t # s => FALSE
      <3> SUFFICES ASSUME NEW t \in SUBSET s, t # s PROVE FALSE
        OBVIOUS
      <3>1. Cardinality(t) < Cardinality(s) /\ Cardinality(t) \in Nat /\ Cardinality(s) \in Nat
        BY <1>0, <1>1
      <3> QED
        BY <3>1
    <2> QED
      BY <2>1
  <1>3. ASSUME NEW n \in P PROVE n + 1 \in P
    <2> SUFFICES ASSUME NEW s \in SUBSET S, Cardinality(s) <= n + 1 PROVE s \in G
      OBVIOUS
    <2>1. ASSUME NEW t \in SUBSET s, t # s PROVE t \in G
      <3>1. t \in SUBSET S /\ Cardinality(t) < Cardinality(s) /\ Cardinality(t) \in Nat /\ Cardinality(s) \in Nat
        BY <1>0, <1>1, <2>1
      <3>2. Cardinality(t) <= n
        BY <3>1
      <3> QED
        BY <3>1, <3>2
    <2> QED
      BY <2>1
  <1>4. P = Nat
    <2>1. P \in SUBSET Nat
      OBVIOUS
    <2> HIDE DEF P
    <2> QED
      BY <1>2, <1>3, <2>1, AllNumbers
  <1>5. Cardinality(S) \in P /\ Cardinality(S) <= Cardinality(S)
    BY <1>0, <1>4
  <1> QED
    BY <1>5

LEMMA SumInt ==
  ASSUME NEW f, NEW S, IsFiniteSet(S), \A x \in S : f[x] \in Int
  PROVE  SumFunctionOnSet(f, S) \in Int
  <1> DEFINE G == {s \in SUBSET S : SumFunctionOnSet(f, s) \in Int}
  <1>1. ASSUME NEW s \in SUBSET S, \A t \in SUBSET s : t # s => t \in G PROVE s \in G
    <2>1. CASE s = {}
      BY <2>1, SumEmpty
    <2>2. CASE s # {}
      <3>1. IsFiniteSet(s)
        BY FS_Subset
      <3> DEFINE c == Chosen(s)
      <3>2. c \in s /\ SumFunctionOnSet(f, s) = f[c] + SumFunctionOnSet(f, s \ {c})
        BY <2>2, <3>1, SumChosen
      <3> HIDE DEF c
      <3>3. SumFunctionOnSet(f, s \ {c}) \in Int
        BY <1>1, <3>2
      <3> QED
        BY <3>2, <3>3
    <2> QED
      BY <2>1, <2>2
  <1>2. S \in G
    <2> HIDE DEF G
    <2> QED
      BY <1>1, SubsetInduction
  <1> QED
    BY <1>2

LEMMA SumNat ==
  ASSUME NEW f, NEW S, IsFiniteSet(S), \A x \in S : f[x] \in Nat
  PROVE  SumFunctionOnSet(f, S) \in Nat
  <1> DEFINE G == {s \in SUBSET S : SumFunctionOnSet(f, s) \in Nat}
  <1>1. ASSUME NEW s \in SUBSET S, \A t \in SUBSET s : t # s => t \in G PROVE s \in G
    <2>1. CASE s = {}
      BY <2>1, SumEmpty
    <2>2. CASE s # {}
      <3>1. IsFiniteSet(s)
        BY FS_Subset
      <3> DEFINE c == Chosen(s)
      <3>2. c \in s /\ SumFunctionOnSet(f, s) = f[c] + SumFunctionOnSet(f, s \ {c})
        BY <2>2, <3>1, SumChosen
      <3> HIDE DEF c
      <3>3. SumFunctionOnSet(f, s \ {c}) \in Nat
        BY <1>1, <3>2
      <3> QED
        BY <3>2, <3>3
    <2> QED
      BY <2>1, <2>2
  <1>2. S \in G
    <2> HIDE DEF G
    <2> QED
      BY <1>1, SubsetInduction
  <1> QED
    BY <1>2

\* The order does not matter: any element may be taken out.
LEMMA SumRemove ==
  ASSUME NEW f, NEW S, IsFiniteSet(S), \A x \in S : f[x] \in Int, NEW y \in S
  PROVE  SumFunctionOnSet(f, S) = f[y] + SumFunctionOnSet(f, S \ {y})
  <1> DEFINE G == {s \in SUBSET S : \A x \in s :
                      SumFunctionOnSet(f, s) = f[x] + SumFunctionOnSet(f, s \ {x})}
  <1>1. ASSUME NEW s \in SUBSET S, \A t \in SUBSET s : t # s => t \in G PROVE s \in G
    <2> SUFFICES ASSUME NEW x \in s PROVE SumFunctionOnSet(f, s) = f[x] + SumFunctionOnSet(f, s \ {x})
      OBVIOUS
    <2> DEFINE c == Chosen(s)
    <2>1. IsFiniteSet(s)
      BY FS_Subset
    <2>2. c \in s /\ SumFunctionOnSet(f, s) = f[c] + SumFunctionOnSet(f, s \ {c})
      BY <2>1, SumChosen
    <2> HIDE DEF c
    <2>3. CASE x = c
      BY <2>2, <2>3
    <2>4. CASE x # c
      <3>1. s \ {c} \in G /\ s \ {x} \in G
        BY <1>1, <2>2
      <3>2. SumFunctionOnSet(f, s \ {c}) = f[x] + SumFunctionOnSet(f, (s \ {c}) \ {x})
        BY <2>4, <3>1
      <3>3. SumFunctionOnSet(f, s \ {x}) = f[c] + SumFunctionOnSet(f, (s \ {x}) \ {c})
        BY <2>2, <2>4, <3>1
      <3>4. (s \ {c}) \ {x} = (s \ {x}) \ {c}
        OBVIOUS
      <3>5. SumFunctionOnSet(f, (s \ {x}) \ {c}) \in Int
        <4>1. IsFiniteSet((s \ {x}) \ {c}) /\ \A z \in (s \ {x}) \ {c} : f[z] \in Int
          BY <2>1, FS_Subset
        <4> QED
          BY <4>1, SumInt
      <3>6. f[x] \in Int /\ f[c] \in Int
        BY <2>2
      <3> DEFINE w == SumFunctionOnSet(f, (s \ {x}) \ {c})
      <3>7. SumFunctionOnSet(f, s \ {c}) = f[x] + w /\ SumFunctionOnSet(f, s \ {x}) = f[c] + w /\ w \in Int
        BY <3>2, <3>3, <3>4, <3>5
      <3> HIDE DEF w
      <3> QED
        BY <2>2, <3>6, <3>7
    <2> QED
      BY <2>3, <2>4
  <1>2. S \in G
    <2> HIDE DEF G
    <2> QED
      BY <1>1, SubsetInduction
  <1> QED
    BY <1>2

LEMMA SumAdd ==
  ASSUME NEW f, NEW S, IsFiniteSet(S), \A x \in S : f[x] \in Int, NEW y, y \notin S, f[y] \in Int
  PROVE  SumFunctionOnSet(f, S \cup {y}) = SumFunctionOnSet(f, S) + f[y]
  <1>1. IsFiniteSet(S \cup {y}) /\ (S \cup {y}) \ {y} = S
    BY FS_AddElement
  <1> DEFINE U == S \cup {y}
  <1>2. SumFunctionOnSet(f, U) = f[y] + SumFunctionOnSet(f, S)
    <2>1. IsFiniteSet(U) /\ U \ {y} = S /\ y \in U /\ \A x \in U : f[x] \in Int
      BY <1>1
    <2> HIDE DEF U
    <2>2. SumFunctionOnSet(f, U) = f[y] + SumFunctionOnSet(f, U \ {y})
      BY <2>1, SumRemove
    <2> QED
      BY <2>1, <2>2
  <1>3. SumFunctionOnSet(f, S) \in Int
    BY SumInt
  <1> QED
    BY <1>2, <1>3

\* One summand changes.
LEMMA SumChange ==
  ASSUME NEW f, NEW e, NEW S, IsFiniteSet(S), NEW y \in S,
         \A x \in S : f[x] \in Int /\ e[x] \in Int, \A x \in S \ {y} : e[x] = f[x]
  PROVE  SumFunctionOnSet(e, S) = SumFunctionOnSet(f, S) + e[y] - f[y]
  <1>1. IsFiniteSet(S \ {y})
    BY FS_Subset
  <1>2. SumFunctionOnSet(f, S) = f[y] + SumFunctionOnSet(f, S \ {y})
    BY SumRemove
  <1>3. SumFunctionOnSet(e, S) = e[y] + SumFunctionOnSet(e, S \ {y})
    BY SumRemove
  <1>4. SumFunctionOnSet(e, S \ {y}) = SumFunctionOnSet(f, S \ {y})
    BY <1>1, SumSame
  <1>5. SumFunctionOnSet(f, S \ {y}) \in Int
    BY <1>1, SumInt
  <1> QED
    BY <1>2, <1>3, <1>4, <1>5

\* A part of a sum of naturals is no more than the whole.
LEMMA SumSubset ==
  ASSUME NEW f, NEW S, IsFiniteSet(S), \A x \in S : f[x] \in Nat, NEW T \in SUBSET S
  PROVE  SumFunctionOnSet(f, T) <= SumFunctionOnSet(f, S)
  <1> DEFINE G == {s \in SUBSET S : \A t \in SUBSET s : SumFunctionOnSet(f, t) <= SumFunctionOnSet(f, s)}
  <1>0. \A s \in SUBSET S : IsFiniteSet(s) /\ SumFunctionOnSet(f, s) \in Nat
    <2> SUFFICES ASSUME NEW s \in SUBSET S PROVE IsFiniteSet(s) /\ SumFunctionOnSet(f, s) \in Nat
      OBVIOUS
    <2>1. IsFiniteSet(s)
      BY FS_Subset
    <2> QED
      BY <2>1, SumNat
  <1>1. ASSUME NEW s \in SUBSET S, \A u \in SUBSET s : u # s => u \in G PROVE s \in G
    <2> SUFFICES ASSUME NEW t \in SUBSET s PROVE SumFunctionOnSet(f, t) <= SumFunctionOnSet(f, s)
      OBVIOUS
    <2>1. CASE t = s
      BY <1>0, <2>1
    <2>2. CASE t # s
      <3>1. PICK y \in s : y \notin t
        BY <2>2
      <3>2. SumFunctionOnSet(f, s) = f[y] + SumFunctionOnSet(f, s \ {y})
        <4>1. \A x \in s : f[x] \in Int
          OBVIOUS
        <4> QED
          BY <1>0, <4>1, SumRemove
      <3>3. s \ {y} \in G /\ t \in SUBSET (s \ {y})
        BY <1>1, <3>1
      <3>4. SumFunctionOnSet(f, t) <= SumFunctionOnSet(f, s \ {y})
        BY <3>3
      <3>5. SumFunctionOnSet(f, t) \in Nat /\ SumFunctionOnSet(f, s \ {y}) \in Nat /\ f[y] \in Nat
        BY <1>0
      <3> QED
        BY <3>2, <3>4, <3>5
    <2> QED
      BY <2>1, <2>2
  <1>2. S \in G
    <2> HIDE DEF G
    <2> QED
      BY <1>1, SubsetInduction
  <1> QED
    BY <1>2

\* A sum that gains an index, or loses one, while the other summands stay.
LEMMA SumGrows ==
  ASSUME NEW f, NEW e, NEW S, IsFiniteSet(S), NEW y, y \notin S, e[y] \in Int,
         \A x \in S : f[x] \in Int /\ e[x] = f[x]
  PROVE  SumFunctionOnSet(e, S \cup {y}) = SumFunctionOnSet(f, S) + e[y]
  <1>1. SumFunctionOnSet(e, S \cup {y}) = SumFunctionOnSet(e, S) + e[y]
    BY SumAdd
  <1> QED
    BY <1>1, SumSame

LEMMA SumShrinks ==
  ASSUME NEW f, NEW e, NEW S, IsFiniteSet(S), NEW y \in S,
         \A x \in S : f[x] \in Int, \A x \in S \ {y} : e[x] = f[x]
  PROVE  SumFunctionOnSet(e, S \ {y}) = SumFunctionOnSet(f, S) - f[y]
  <1> DEFINE T == S \ {y}
  <1>1. IsFiniteSet(T)
    BY FS_Subset
  <1>2. SumFunctionOnSet(f, S) = f[y] + SumFunctionOnSet(f, T)
    BY SumRemove
  <1>3. SumFunctionOnSet(e, T) = SumFunctionOnSet(f, T)
    BY <1>1, SumSame
  <1>4. SumFunctionOnSet(f, T) \in Int /\ f[y] \in Int
    BY <1>1, SumInt
  <1> HIDE DEF T
  <1>5. SumFunctionOnSet(e, T) = SumFunctionOnSet(f, S) - f[y]
    BY <1>2, <1>3, <1>4
  <1> QED
    BY <1>5 DEF T

LEMMA SumZero ==
  ASSUME NEW f, NEW S, IsFiniteSet(S), \A x \in S : f[x] = 0
  PROVE  SumFunctionOnSet(f, S) = 0
  <1> DEFINE G == {s \in SUBSET S : SumFunctionOnSet(f, s) = 0}
  <1>1. ASSUME NEW s \in SUBSET S, \A t \in SUBSET s : t # s => t \in G PROVE s \in G
    <2>1. CASE s = {}
      BY <2>1, SumEmpty
    <2>2. CASE s # {}
      <3>1. IsFiniteSet(s)
        BY FS_Subset
      <3> DEFINE c == Chosen(s)
      <3>2. c \in s /\ SumFunctionOnSet(f, s) = f[c] + SumFunctionOnSet(f, s \ {c})
        BY <2>2, <3>1, SumChosen
      <3> HIDE DEF c
      <3>3. SumFunctionOnSet(f, s \ {c}) = 0
        BY <1>1, <3>2
      <3> QED
        BY <3>2, <3>3
    <2> QED
      BY <2>1, <2>2
  <1>2. S \in G
    <2> HIDE DEF G
    <2> QED
      BY <1>1, SubsetInduction
  <1> QED
    BY <1>2

\* Summand by summand.
LEMMA SumMonotone ==
  ASSUME NEW f, NEW e, NEW S, IsFiniteSet(S), \A x \in S : f[x] \in Int /\ e[x] \in Int /\ f[x] <= e[x]
  PROVE  SumFunctionOnSet(f, S) <= SumFunctionOnSet(e, S)
  <1> DEFINE G == {s \in SUBSET S : SumFunctionOnSet(f, s) <= SumFunctionOnSet(e, s)}
  <1>1. ASSUME NEW s \in SUBSET S, \A t \in SUBSET s : t # s => t \in G PROVE s \in G
    <2>1. CASE s = {}
      BY <2>1, SumEmpty
    <2>2. CASE s # {}
      <3>1. IsFiniteSet(s)
        BY FS_Subset
      <3> DEFINE c == Chosen(s)
      <3>2. /\ c \in s /\ SumFunctionOnSet(f, s) = f[c] + SumFunctionOnSet(f, s \ {c})
            /\ SumFunctionOnSet(e, s) = e[c] + SumFunctionOnSet(e, s \ {c})
        BY <2>2, <3>1, SumChosen
      <3> HIDE DEF c
      <3> DEFINE u == SumFunctionOnSet(f, s \ {c})
                 w == SumFunctionOnSet(e, s \ {c})
      <3>3. u <= w
        BY <1>1, <3>2
      <3>4. u \in Int /\ w \in Int
        <4>1. IsFiniteSet(s \ {c}) /\ \A x \in s \ {c} : f[x] \in Int /\ e[x] \in Int
          BY <3>1, FS_Subset
        <4> QED
          BY <4>1, SumInt
      <3>5. SumFunctionOnSet(f, s) = f[c] + u /\ SumFunctionOnSet(e, s) = e[c] + w
        BY <3>2
      <3> HIDE DEF u, w
      <3>6. f[c] \in Int /\ e[c] \in Int /\ f[c] <= e[c]
        BY <3>2
      <3> QED
        BY <3>3, <3>4, <3>5, <3>6
    <2> QED
      BY <2>1, <2>2
  <1>2. S \in G
    <2> HIDE DEF G
    <2> QED
      BY <1>1, SubsetInduction
  <1> QED
    BY <1>2

LEMMA Distributes == ASSUME NEW k \in Int, NEW a \in Int, NEW b \in Int
                     PROVE  k * (a + b) = k * a + k * b
  OBVIOUS

LEMMA SumScaled ==
  ASSUME NEW f, NEW e, NEW S, IsFiniteSet(S), NEW k \in Int,
         \A x \in S : f[x] \in Int /\ e[x] = k * f[x]
  PROVE  SumFunctionOnSet(e, S) = k * SumFunctionOnSet(f, S)
  <1> DEFINE G == {s \in SUBSET S : SumFunctionOnSet(e, s) = k * SumFunctionOnSet(f, s)}
  <1>1. ASSUME NEW s \in SUBSET S, \A t \in SUBSET s : t # s => t \in G PROVE s \in G
    <2>1. CASE s = {}
      <3>1. k * 0 = 0
        OBVIOUS
      <3> QED
        BY <2>1, <3>1, SumEmpty
    <2>2. CASE s # {}
      <3>1. IsFiniteSet(s)
        BY FS_Subset
      <3> DEFINE c == Chosen(s)
      <3>2. /\ c \in s /\ SumFunctionOnSet(f, s) = f[c] + SumFunctionOnSet(f, s \ {c})
            /\ SumFunctionOnSet(e, s) = e[c] + SumFunctionOnSet(e, s \ {c})
        BY <2>2, <3>1, SumChosen
      <3> HIDE DEF c
      <3>3. SumFunctionOnSet(e, s \ {c}) = k * SumFunctionOnSet(f, s \ {c})
        BY <1>1, <3>2
      <3>4. SumFunctionOnSet(f, s \ {c}) \in Int
        <4>1. IsFiniteSet(s \ {c}) /\ \A x \in s \ {c} : f[x] \in Int
          BY <3>1, FS_Subset
        <4> QED
          BY <4>1, SumInt
      <3>5. f[c] \in Int /\ e[c] = k * f[c]
        BY <3>2
      <3>6. k * (f[c] + SumFunctionOnSet(f, s \ {c})) = k * f[c] + k * SumFunctionOnSet(f, s \ {c})
        BY <3>4, <3>5, Distributes
      <3> QED
        BY <3>2, <3>3, <3>5, <3>6
    <2> QED
      BY <2>1, <2>2
  <1>2. S \in G
    <2> HIDE DEF G
    <2> QED
      BY <1>1, SubsetInduction
  <1> QED
    BY <1>2

\* A finite set of integers that has an element has a greatest one.
LEMMA GreatestExists ==
  ASSUME NEW S, IsFiniteSet(S), S \in SUBSET Int, S # {}
  PROVE  \E x \in S : \A y \in S : x >= y
  <1> DEFINE G == {s \in SUBSET S : s = {} \/ \E x \in s : \A y \in s : x >= y}
  <1>1. ASSUME NEW s \in SUBSET S, \A t \in SUBSET s : t # s => t \in G PROVE s \in G
    <2> SUFFICES ASSUME s # {} PROVE \E x \in s : \A y \in s : x >= y
      OBVIOUS
    <2>1. PICK c \in s : TRUE
      OBVIOUS
    <2>2. s \ {c} \in G
      BY <1>1
    <2>3. CASE s \ {c} = {}
      <3>1. \A y \in s : c >= y
        BY <2>3
      <3> QED
        BY <3>1
    <2>4. CASE s \ {c} # {}
      <3>1. PICK x \in s \ {c} : \A y \in s \ {c} : x >= y
        BY <2>2, <2>4
      <3>2. CASE x >= c
        <4>1. \A y \in s : x >= y
          BY <3>1, <3>2
        <4> QED
          BY <4>1
      <3>3. CASE ~(x >= c)
        <4>1. \A y \in s : c >= y
          <5> SUFFICES ASSUME NEW y \in s, y # c PROVE c >= y
            OBVIOUS
          <5>1. x >= y /\ x \in Int /\ y \in Int /\ c \in Int
            BY <3>1
          <5> QED
            BY <3>3, <5>1
        <4> QED
          BY <4>1
      <3> QED
        BY <3>2, <3>3
    <2> QED
      BY <2>3, <2>4
  <1>2. S \in G
    <2> HIDE DEF G
    <2> QED
      BY <1>1, SubsetInduction
  <1> QED
    BY <1>2

\* Going on from x by F, n times.
LEMMA IterationExists ==
  ASSUME NEW n \in Nat, NEW T, NEW x \in T, NEW F \in [T -> T]
  PROVE  \E f \in [0 .. n -> T] : f = [k \in 0 .. n |-> IF k = 0 THEN x ELSE F[f[k - 1]]]
  <1> DEFINE Good(f, m) == f \in [0 .. m -> T] /\ f[0] = x /\ \A k \in 1 .. m : f[k] = F[f[k - 1]]
             P == {m \in Nat : \E f : Good(f, m)}
  <1>1. 0 \in P
    <2>1. Good([k \in 0 .. 0 |-> x], 0)
      OBVIOUS
    <2> QED
      BY <2>1
  <1>2. ASSUME NEW m \in P PROVE m + 1 \in P
    <2>1. PICK f : Good(f, m)
      OBVIOUS
    <2> DEFINE g == [k \in 0 .. m + 1 |-> IF k = m + 1 THEN F[f[m]] ELSE f[k]]
    <2>2. m \in Nat /\ m + 1 \in Nat /\ f[m] \in T /\ F[f[m]] \in T
      BY <2>1
    <2>3. g \in [0 .. m + 1 -> T] /\ g[0] = x
      BY <2>1, <2>2
    <2>4. ASSUME NEW k \in 1 .. m + 1 PROVE g[k] = F[g[k - 1]]
      BY <2>1, <2>2
    <2>5. Good(g, m + 1)
      BY <2>3, <2>4
    <2> HIDE DEF g, Good
    <2> QED
      BY <2>2, <2>5
  <1>3. P = Nat
    <2>1. P \in SUBSET Nat
      OBVIOUS
    <2> HIDE DEF P
    <2> QED
      BY <1>1, <1>2, <2>1, AllNumbers
  <1>4. PICK f : Good(f, n)
    BY <1>3
  <1>5. f = [k \in 0 .. n |-> IF k = 0 THEN x ELSE F[f[k - 1]]]
    BY <1>4
  <1> QED
    BY <1>4, <1>5

\* The order of the natural numbers has no infinite descent, so a set of indices has a
\* last one.
LEMMA MaxIsGreatest ==
  ASSUME NEW n \in Nat, NEW S \in SUBSET (1 .. n), S # {}
  PROVE  Max(S) \in S /\ \A x \in S : Max(S) >= x
  <1> DEFINE T == {n - x : x \in S}
  <1>1. T \subseteq Nat /\ T # {}
    <2>1. \A x \in S : n - x \in Nat
      OBVIOUS
    <2>2. \E x \in S : n - x \in T
      OBVIOUS
    <2> QED
      BY <2>1, <2>2
  <1> DEFINE R == OpToRel(<, Nat)
  <1>2. IsWellFoundedOn(R, Nat)
    BY NatLessThanWellFounded
  <1>3. \A a, b \in Nat : a < b => <<a, b>> \in R
    BY DEF OpToRel
  <1> HIDE DEF R
  <1>4. PICK m \in T : \A y \in T : ~ (<<y, m>> \in R)
    <2> HIDE DEF T
    <2> QED
      BY <1>1, <1>2, WFMin
  <1>5. PICK x \in S : m = n - x
    OBVIOUS
  <1>6. \A y \in S : x >= y
    <2> SUFFICES ASSUME NEW y \in S PROVE x >= y
      OBVIOUS
    <2>1. n - y \in T /\ n - y \in Nat /\ m \in Nat
      BY <1>1
    <2>2. ~(n - y < m)
      BY <1>3, <1>4, <2>1
    <2> QED
      BY <2>2, <1>5
  <1> QED
    BY <1>6 DEF Max
===============================================================================
