--------------------------- MODULE BalancesProofs ---------------------------
(***************************************************************************)
(* Facts about sums. First those about a function summed over a finite     *)
(* set, as Functions defines it: a recursion that takes an element the     *)
(* CHOOSE operator picks. The books of the pool and of the bridges are     *)
(* such sums, and their proofs need that the order of the elements does    *)
(* not matter. Induction is over sets of naturals and families of sets; it *)
(* also gives least and greatest elements. Then those about a sheet of     *)
(* balances, for any finite set of accounts and any width of a Balance,    *)
(* whose sum counts coins: each is a fact about a set's cardinality.       *)
(***************************************************************************)
EXTENDS Balances, Functions, FiniteSetTheorems, WellFoundedInduction, TLAPS

\* A set of naturals with 0 and, with each element, the next, has them all.
LEMMA NatSetInduction ==
  ASSUME NEW S \in SUBSET Nat, 0 \in S, \A n \in S : n + 1 \in S
  PROVE  S = Nat
<1> SUFFICES ASSUME S # Nat PROVE FALSE
  OBVIOUS
<1> DEFINE T == Nat \ S
           less == OpToRel(<, Nat)
<1>1. T # {} /\ T \subseteq Nat
  OBVIOUS
<1>2. IsWellFoundedOn(less, Nat)
  BY NatLessThanWellFounded, Zenon
<1> HIDE DEF less
<1>3. PICK m \in T : \A k \in T : ~ (<<k, m>> \in less)
  BY <1>1, <1>2, WFMin
<1>4. \A k \in T : ~ (k < m)
  BY <1>1, <1>3 DEF less, OpToRel
<1>5. m # 0 /\ m - 1 \in Nat
  BY <1>1
<1>6. m - 1 \in S
  BY <1>4, <1>5
<1> QED
  BY <1>5, <1>6

\* A set of naturals has a least element, and a bounded one a greatest.
LEMMA LeastExists ==
  ASSUME NEW S \in SUBSET Nat, S # {}
  PROVE  \E m \in S : \A i \in S : m <= i
<1> DEFINE less == OpToRel(<, Nat)
<1>1. IsWellFoundedOn(less, Nat)
  BY NatLessThanWellFounded, Zenon
<1> HIDE DEF less
<1>2. PICK m \in S : \A k \in S : ~ (<<k, m>> \in less)
  BY <1>1, WFMin
<1>3. \A k \in S : ~ (k < m)
  BY <1>2 DEF less, OpToRel
<1> QED
  BY <1>3

LEMMA GreatestExists ==
  ASSUME NEW n \in Nat, NEW S \in SUBSET (0..n), S # {}
  PROVE  \E m \in S : \A i \in S : m >= i
<1> DEFINE T == {n - i : i \in S}
<1>1. T \in SUBSET Nat /\ T # {}
  <2>1. \A i \in S : n - i \in Nat
    OBVIOUS
  <2>2. PICK i \in S : TRUE
    OBVIOUS
  <2>3. n - i \in T
    OBVIOUS
  <2> QED
    BY <2>1, <2>3
<1>2. PICK k \in T : \A j \in T : k <= j
  BY <1>1, LeastExists
<1>3. PICK m \in S : k = n - m
  BY <1>2
<1>4. ASSUME NEW i \in S PROVE m >= i
  <2>1. n - m <= n - i
    BY <1>2, <1>3
  <2> QED
    BY <2>1
<1> QED
  BY <1>4

\* The subsets of a finite set, smaller ones first.
LEMMA SubsetInduction ==
  ASSUME NEW S, IsFiniteSet(S), NEW P \in SUBSET SUBSET S, {} \in P,
         \A s \in SUBSET S : s # {} /\ (\A x \in s : s \ {x} \in P) => s \in P
  PROVE  P = SUBSET S
<1> DEFINE N == {n \in Nat : \A s \in SUBSET S : Cardinality(s) <= n => s \in P}
<1>0. \A s \in SUBSET S : IsFiniteSet(s) /\ Cardinality(s) \in Nat
  BY FS_Subset, FS_CardinalityType
<1>1. 0 \in N
  <2>1. ASSUME NEW s \in SUBSET S, Cardinality(s) <= 0 PROVE s \in P
    <3>1. s = {}
      BY <1>0, <2>1, FS_EmptySet
    <3> QED
      BY <3>1
  <2> QED
    BY <2>1
<1>2. ASSUME NEW n \in N PROVE n + 1 \in N
  <2>1. n \in Nat
    OBVIOUS
  <2> SUFFICES ASSUME NEW s \in SUBSET S, Cardinality(s) <= n + 1, s # {}
               PROVE  \A x \in s : s \ {x} \in P
    BY <2>1
  <2> TAKE x \in s
  <2>2. Cardinality(s \ {x}) = Cardinality(s) - 1
    BY <1>0, FS_RemoveElement
  <2>3. Cardinality(s \ {x}) <= n
    BY <1>0, <2>1, <2>2
  <2> QED
    BY <2>3
<1>3. N = Nat
  <2> HIDE DEF N
  <2>1. N \in SUBSET Nat
    BY DEF N
  <2> QED
    BY <1>1, <1>2, <2>1, NatSetInduction
<1> QED
  BY <1>0, <1>3

-----------------------------------------------------------------------------
(***************************************************************************)
(* The recursive function behind a sum exists, and its values depend on    *)
(* their argument alone.                                                   *)
(***************************************************************************)
Chosen(s) == CHOOSE x \in s : TRUE

SumEq(f, D, g) == g = [s \in D |-> IF s = {} THEN 0 ELSE LET x == CHOOSE x \in s : TRUE IN f[x] + g[s \ {x}]]

LEMMA SumFcnExists ==
  ASSUME NEW f, NEW S, IsFiniteSet(S)
  PROVE  \E g : SumEq(f, SUBSET S, g)
<1> DEFINE D(n) == {s \in SUBSET S : Cardinality(s) <= n}
           N == {n \in Nat : \E g : SumEq(f, D(n), g)}
<1>0. \A s \in SUBSET S : IsFiniteSet(s) /\ Cardinality(s) \in Nat /\ Cardinality(s) <= Cardinality(S)
  BY FS_Subset, FS_CardinalityType
<1>1. 0 \in N
  <2>1. D(0) = {{}}
    BY <1>0, FS_EmptySet
  <2> DEFINE g == [s \in D(0) |-> 0]
  <2>2. SumEq(f, D(0), g)
    BY <2>1 DEF SumEq
  <2> QED
    BY <2>2
<1>2. ASSUME NEW n \in N PROVE n + 1 \in N
  <2>1. n \in Nat /\ n + 1 \in Nat
    OBVIOUS
  <2>2. PICK g : SumEq(f, D(n), g)
    BY <1>2
  <2> DEFINE h == [s \in D(n+1) |-> IF s = {} THEN 0 ELSE LET x == CHOOSE x \in s : TRUE IN f[x] + g[s \ {x}]]
  <2>3. \A s \in D(n) : s \in D(n + 1) /\ h[s] = g[s]
    <3>1. \A s \in D(n) : s \in D(n+1)
      BY <1>0, <2>1
    <3>2. ASSUME NEW s \in D(n) PROVE h[s] = g[s]
      BY <2>2, <3>1 DEF SumEq
    <3> QED
      BY <3>1, <3>2
  <2>4. \A s \in D(n + 1) : s # {} => s \ {CHOOSE x \in s : TRUE} \in D(n)
    <3> SUFFICES ASSUME NEW s \in D(n+1), s # {} PROVE s \ {CHOOSE x \in s : TRUE} \in D(n)
      OBVIOUS
    <3> DEFINE x == CHOOSE x \in s : TRUE
    <3>1. x \in s
      OBVIOUS
    <3> HIDE DEF x
    <3>2. Cardinality(s \ {x}) = Cardinality(s) - 1
      BY <1>0, <3>1, FS_RemoveElement
    <3>3. s \ {x} \in D(n)
      BY <1>0, <2>1, <3>2
    <3> QED
      BY <3>3 DEF x
  <2>5. h = [s \in D(n+1) |-> IF s = {} THEN 0 ELSE LET x == CHOOSE x \in s : TRUE IN f[x] + h[s \ {x}]]
    <3> HIDE DEF D
    <3> DEFINE e(s) == IF s = {} THEN 0 ELSE LET x == CHOOSE x \in s : TRUE IN f[x] + h[s \ {x}]
    <3>1. ASSUME NEW s \in D(n+1) PROVE h[s] = e(s)
      <4> DEFINE x == CHOOSE x \in s : TRUE
      <4>1. h[s] = IF s = {} THEN 0 ELSE f[x] + g[s \ {x}]
        OBVIOUS
      <4>2. e(s) = IF s = {} THEN 0 ELSE f[x] + h[s \ {x}]
        OBVIOUS
      <4>3. s # {} => s \ {x} \in D(n)
        BY <2>4
      <4> HIDE DEF h, e, x
      <4>4. s # {} => h[s \ {x}] = g[s \ {x}]
        BY <2>3, <4>3
      <4> QED
        BY <4>1, <4>2, <4>4
    <3>2. h = [s \in D(n+1) |-> h[s]]
      OBVIOUS
    <3> QED
      BY <3>1, <3>2
  <2> HIDE DEF h
  <2>6. SumEq(f, D(n+1), h)
    BY <2>5 DEF SumEq
  <2> QED
    BY <2>1, <2>6
<1>3. N = Nat
  <2> HIDE DEF N
  <2>1. N \in SUBSET Nat
    BY DEF N
  <2> QED
    BY <1>1, <1>2, <2>1, NatSetInduction
<1>4. Cardinality(S) \in N
  BY <1>3, FS_CardinalityType
<1>5. D(Cardinality(S)) = SUBSET S
  BY <1>0
<1> QED
  BY <1>4, <1>5

SumFcn(f, S) == CHOOSE g : SumEq(f, SUBSET S, g)

LEMMA SumIsFcn ==
  ASSUME NEW f, NEW S
  PROVE  SumFunctionOnSet(f, S) = SumFcn(f, S)[S]
BY DEF SumFunctionOnSet, FoldFunctionOnSet, MapThenFoldSet, SumFcn, SumEq

\* Two such functions agree on the sets both are defined for.
LEMMA SumFcnUnique ==
  ASSUME NEW f, NEW S, IsFiniteSet(S), NEW T \in SUBSET S, NEW g, NEW h,
         SumEq(f, SUBSET S, g), SumEq(f, SUBSET T, h)
  PROVE  \A s \in SUBSET T : g[s] = h[s]
<1> DEFINE P == {s \in SUBSET T : g[s] = h[s]}
<1>0. IsFiniteSet(T)
  BY FS_Subset
<1>1. {} \in P
  BY DEF SumEq
<1>2. ASSUME NEW s \in SUBSET T, s # {}, \A x \in s : s \ {x} \in P
      PROVE  s \in P
  <2> DEFINE x == CHOOSE x \in s : TRUE
  <2>1. x \in s /\ s \in SUBSET S
    BY <1>2
  <2>2. g[s] = f[x] + g[s \ {x}]
    BY <1>2, <2>1 DEF SumEq
  <2>3. h[s] = f[x] + h[s \ {x}]
    BY <1>2 DEF SumEq
  <2> HIDE DEF x
  <2>4. g[s \ {x}] = h[s \ {x}]
    BY <1>2, <2>1
  <2> QED
    BY <2>2, <2>3, <2>4
<1>3. P = SUBSET T
  <2> HIDE DEF P
  <2>1. P \in SUBSET SUBSET T
    BY DEF P
  <2> QED
    BY <1>0, <1>1, <1>2, <2>1, SubsetInduction
<1> QED
  BY <1>3

\* The recursion, one step of it.
LEMMA SumStep ==
  ASSUME NEW f, NEW S, IsFiniteSet(S)
  PROVE  /\ SumFunctionOnSet(f, {}) = 0
         /\ S # {} => /\ Chosen(S) \in S
                      /\ SumFunctionOnSet(f, S) = f[Chosen(S)] + SumFunctionOnSet(f, S \ {Chosen(S)})
<1>1. \A T : IsFiniteSet(T) => SumEq(f, SUBSET T, SumFcn(f, T))
  BY SumFcnExists DEF SumFcn
<1>2. SumFunctionOnSet(f, {}) = 0
  <2>1. SumEq(f, SUBSET {}, SumFcn(f, {}))
    BY <1>1, FS_EmptySet
  <2>2. SumFcn(f, {})[{}] = 0
    BY <2>1 DEF SumEq
  <2> QED
    BY <2>2, SumIsFcn
<1>3. ASSUME S # {}
      PROVE  /\ Chosen(S) \in S
             /\ SumFunctionOnSet(f, S) = f[Chosen(S)] + SumFunctionOnSet(f, S \ {Chosen(S)})
  <2>1. Chosen(S) \in S
    BY <1>3 DEF Chosen
  <2> DEFINE T == S \ {Chosen(S)}
  <2>2. IsFiniteSet(T) /\ T \in SUBSET S
    BY FS_Subset
  <2>3. SumEq(f, SUBSET S, SumFcn(f, S)) /\ SumEq(f, SUBSET T, SumFcn(f, T))
    BY <1>1, <2>2
  <2>4. SumFcn(f, S)[S] = f[Chosen(S)] + SumFcn(f, S)[T]
    BY <1>3, <2>3 DEF SumEq, Chosen
  <2>5. SumFcn(f, S)[T] = SumFcn(f, T)[T]
    <3> HIDE DEF T
    <3>1. \A s \in SUBSET T : SumFcn(f, S)[s] = SumFcn(f, T)[s]
      BY <2>2, <2>3, SumFcnUnique
    <3> QED
      BY <3>1
  <2> QED
    BY <2>1, <2>4, <2>5, SumIsFcn
<1> QED
  BY <1>2, <1>3

-----------------------------------------------------------------------------
(***************************************************************************)
(* What a reader expects of a sum: any element may be taken first.         *)
(***************************************************************************)
LEMMA SumOfNone == \A f : SumFunctionOnSet(f, {}) = 0
BY SumStep, FS_EmptySet

LEMMA SumType ==
  ASSUME NEW S, IsFiniteSet(S), NEW f, \A x \in S : f[x] \in Int
  PROVE  SumFunctionOnSet(f, S) \in Int
<1> DEFINE P == {s \in SUBSET S : SumFunctionOnSet(f, s) \in Int}
<1>0. \A s \in SUBSET S : IsFiniteSet(s)
  BY FS_Subset
<1>1. {} \in P
  BY SumOfNone
<1>2. ASSUME NEW s \in SUBSET S, s # {}, \A x \in s : s \ {x} \in P
      PROVE  s \in P
  <2>1. /\ Chosen(s) \in s
        /\ SumFunctionOnSet(f, s) = f[Chosen(s)] + SumFunctionOnSet(f, s \ {Chosen(s)})
    BY <1>0, <1>2, SumStep
  <2>2. f[Chosen(s)] \in Int /\ SumFunctionOnSet(f, s \ {Chosen(s)}) \in Int
    BY <1>2, <2>1
  <2> QED
    BY <2>1, <2>2
<1>3. P = SUBSET S
  <2> HIDE DEF P
  <2>1. P \in SUBSET SUBSET S
    BY DEF P
  <2> QED
    BY <1>1, <1>2, <2>1, SubsetInduction
<1> QED
  BY <1>3

LEMMA SumRemove ==
  ASSUME NEW S, IsFiniteSet(S), NEW f, \A x \in S : f[x] \in Int, NEW x \in S
  PROVE  /\ SumFunctionOnSet(f, S \ {x}) \in Int
         /\ SumFunctionOnSet(f, S) = f[x] + SumFunctionOnSet(f, S \ {x})
<1> DEFINE F(s) == SumFunctionOnSet(f, s)
           P == {s \in SUBSET S : \A y \in s : F(s) = f[y] + F(s \ {y})}
<1>0. \A s \in SUBSET S : IsFiniteSet(s) /\ F(s) \in Int
  BY FS_Subset, SumType
<1>1. {} \in P
  OBVIOUS
<1>2. ASSUME NEW s \in SUBSET S, s # {}, \A y \in s : s \ {y} \in P
      PROVE  s \in P
  <2> SUFFICES ASSUME NEW y \in s PROVE F(s) = f[y] + F(s \ {y})
    OBVIOUS
  <2> DEFINE c == Chosen(s)
  <2>1. c \in s /\ F(s) = f[c] + F(s \ {c})
    BY <1>0, <1>2, SumStep
  <2> HIDE DEF c
  <2>2. CASE y = c
    BY <2>1, <2>2
  <2>3. CASE y # c
    <3>1. F(s \ {c}) = f[y] + F((s \ {c}) \ {y})
      <4>1. s \ {c} \in P /\ y \in s \ {c}
        BY <1>2, <2>1, <2>3
      <4> QED
        BY <4>1
    <3>2. F(s \ {y}) = f[c] + F((s \ {y}) \ {c})
      <4>1. s \ {y} \in P /\ c \in s \ {y}
        BY <1>2, <2>1, <2>3
      <4> QED
        BY <4>1
    <3>3. (s \ {c}) \ {y} = (s \ {y}) \ {c}
      OBVIOUS
    <3>4. (s \ {c}) \ {y} \in SUBSET S /\ s \ {y} \in SUBSET S /\ s \ {c} \in SUBSET S
      OBVIOUS
    <3>5. f[c] \in Int /\ f[y] \in Int
      BY <2>1
    <3> DEFINE rest == F((s \ {c}) \ {y})
    <3>6. rest \in Int
      BY <1>0, <3>4
    <3> HIDE DEF F, rest
    <3>7. F(s) = f[c] + (f[y] + rest) /\ F(s \ {y}) = f[c] + rest
      BY <2>1, <3>1, <3>2, <3>3 DEF rest
    <3> QED
      BY <3>5, <3>6, <3>7
  <2> QED
    BY <2>2, <2>3
<1>3. P = SUBSET S
  <2> HIDE DEF P
  <2>1. P \in SUBSET SUBSET S
    BY DEF P
  <2> QED
    BY <1>1, <1>2, <2>1, SubsetInduction
<1>4. S \ {x} \in SUBSET S /\ S \in SUBSET S
  OBVIOUS
<1> QED
  BY <1>0, <1>3, <1>4

LEMMA SumAdd ==
  ASSUME NEW S, IsFiniteSet(S), NEW x, x \notin S, NEW f, \A y \in S \cup {x} : f[y] \in Int
  PROVE  SumFunctionOnSet(f, S \cup {x}) = f[x] + SumFunctionOnSet(f, S)
<1>1. IsFiniteSet(S \cup {x}) /\ (S \cup {x}) \ {x} = S
  BY FS_AddElement
<1>2. x \in S \cup {x}
  OBVIOUS
<1> DEFINE T == S \cup {x}
<1>3. SumFunctionOnSet(f, T) = f[x] + SumFunctionOnSet(f, T \ {x})
  <2>1. IsFiniteSet(T) /\ x \in T /\ \A y \in T : f[y] \in Int
    BY <1>1
  <2> HIDE DEF T
  <2> QED
    BY <2>1, SumRemove
<1> QED
  BY <1>1, <1>3

\* Functions that agree on the set have the same sum.
LEMMA SumSame ==
  ASSUME NEW S, IsFiniteSet(S), NEW f, NEW g, \A x \in S : f[x] = g[x]
  PROVE  SumFunctionOnSet(f, S) = SumFunctionOnSet(g, S)
<1> DEFINE P == {s \in SUBSET S : SumFunctionOnSet(f, s) = SumFunctionOnSet(g, s)}
<1>0. \A s \in SUBSET S : IsFiniteSet(s)
  BY FS_Subset
<1>1. {} \in P
  BY SumOfNone
<1>2. ASSUME NEW s \in SUBSET S, s # {}, \A x \in s : s \ {x} \in P
      PROVE  s \in P
  <2>1. /\ Chosen(s) \in s
        /\ SumFunctionOnSet(f, s) = f[Chosen(s)] + SumFunctionOnSet(f, s \ {Chosen(s)})
        /\ SumFunctionOnSet(g, s) = g[Chosen(s)] + SumFunctionOnSet(g, s \ {Chosen(s)})
    BY <1>0, <1>2, SumStep
  <2>2. /\ f[Chosen(s)] = g[Chosen(s)]
        /\ SumFunctionOnSet(f, s \ {Chosen(s)}) = SumFunctionOnSet(g, s \ {Chosen(s)})
    BY <1>2, <2>1
  <2> QED
    BY <2>1, <2>2
<1>3. P = SUBSET S
  <2> HIDE DEF P
  <2>1. P \in SUBSET SUBSET S
    BY DEF P
  <2> QED
    BY <1>1, <1>2, <2>1, SubsetInduction
<1> QED
  BY <1>3

\* One value is changed.
LEMMA SumChange ==
  ASSUME NEW S, IsFiniteSet(S), NEW x \in S, NEW f, NEW g,
         \A y \in S : f[y] \in Int /\ g[y] \in Int, \A y \in S \ {x} : g[y] = f[y]
  PROVE  SumFunctionOnSet(g, S) = SumFunctionOnSet(f, S) - f[x] + g[x]
<1>1. IsFiniteSet(S \ {x})
  BY FS_Subset
<1>2. SumFunctionOnSet(f, S \ {x}) = SumFunctionOnSet(g, S \ {x})
  BY <1>1, SumSame
<1>3. /\ SumFunctionOnSet(f, S \ {x}) \in Int
      /\ SumFunctionOnSet(f, S) = f[x] + SumFunctionOnSet(f, S \ {x})
      /\ SumFunctionOnSet(g, S) = g[x] + SumFunctionOnSet(g, S \ {x})
  BY SumRemove
<1> QED
  BY <1>2, <1>3

\* A part and the rest make the whole.
LEMMA SumParts ==
  ASSUME NEW S, IsFiniteSet(S), NEW f, \A x \in S : f[x] \in Int, NEW T \in SUBSET S
  PROVE  SumFunctionOnSet(f, S) = SumFunctionOnSet(f, T) + SumFunctionOnSet(f, S \ T)
<1> DEFINE F(s) == SumFunctionOnSet(f, s)
           P == {s \in SUBSET T : F(S) = F(s) + F(S \ s)}
<1>0. \A s \in SUBSET S : IsFiniteSet(s) /\ F(s) \in Int
  BY FS_Subset, SumType
<1>1. {} \in P
  <2>1. S \ {} = S /\ F({}) = 0 /\ F(S) \in Int
    BY <1>0, SumOfNone
  <2> QED
    BY <2>1
<1>2. ASSUME NEW s \in SUBSET T, s # {}, \A x \in s : s \ {x} \in P
      PROVE  s \in P
  <2>1. PICK x \in s : TRUE
    BY <1>2
  <2>2. F(S) = F(s \ {x}) + F(S \ (s \ {x}))
    <3>1. s \ {x} \in P
      BY <1>2
    <3> QED
      BY <3>1
  <2>3. F(s) = f[x] + F(s \ {x})
    <3>1. s \in SUBSET S /\ \A y \in s : f[y] \in Int
      OBVIOUS
    <3> QED
      BY <1>0, <3>1, SumRemove
  <2> DEFINE R == S \ (s \ {x})
  <2>4. x \in R /\ R \ {x} = S \ s /\ R \in SUBSET S
    OBVIOUS
  <2>5. F(R) = f[x] + F(R \ {x})
    <3> HIDE DEF R
    <3>1. \A y \in R : f[y] \in Int
      BY <2>4
    <3> QED
      BY <1>0, <2>4, <3>1, SumRemove
  <2>6. f[x] \in Int /\ F(s \ {x}) \in Int /\ F(S \ s) \in Int
    <3>1. s \ {x} \in SUBSET S /\ S \ s \in SUBSET S
      OBVIOUS
    <3> QED
      BY <1>0, <3>1
  <2>7. F(S) = F(s \ {x}) + (f[x] + F(S \ s))
    BY <2>2, <2>4, <2>5
  <2> HIDE DEF F, R
  <2>8. F(S) = F(s) + F(S \ s)
    BY <2>3, <2>6, <2>7
  <2> QED
    BY <2>8
<1>3. P = SUBSET T
  <2> HIDE DEF P
  <2>1. P \in SUBSET SUBSET T
    BY DEF P
  <2> QED
    BY <1>0, <1>1, <1>2, <2>1, SubsetInduction
<1> QED
  BY <1>3

\* A sum of naturals is one, and no less than any of them.
LEMMA SumNat ==
  ASSUME NEW S, IsFiniteSet(S), NEW f, \A x \in S : f[x] \in Nat
  PROVE  /\ SumFunctionOnSet(f, S) \in Nat
         /\ \A x \in S : f[x] <= SumFunctionOnSet(f, S)
<1> DEFINE P == {s \in SUBSET S : SumFunctionOnSet(f, s) \in Nat}
<1>0. \A s \in SUBSET S : IsFiniteSet(s)
  BY FS_Subset
<1>1. {} \in P
  BY SumOfNone
<1>2. ASSUME NEW s \in SUBSET S, s # {}, \A x \in s : s \ {x} \in P
      PROVE  s \in P
  <2>1. /\ Chosen(s) \in s
        /\ SumFunctionOnSet(f, s) = f[Chosen(s)] + SumFunctionOnSet(f, s \ {Chosen(s)})
    BY <1>0, <1>2, SumStep
  <2>2. f[Chosen(s)] \in Nat /\ SumFunctionOnSet(f, s \ {Chosen(s)}) \in Nat
    BY <1>2, <2>1
  <2> QED
    BY <2>1, <2>2
<1>3. P = SUBSET S
  <2> HIDE DEF P
  <2>1. P \in SUBSET SUBSET S
    BY DEF P
  <2> QED
    BY <1>1, <1>2, <2>1, SubsetInduction
<1>4. ASSUME NEW x \in S PROVE f[x] <= SumFunctionOnSet(f, S)
  <2>1. SumFunctionOnSet(f, S) = f[x] + SumFunctionOnSet(f, S \ {x})
    <3>1. \A y \in S : f[y] \in Int
      OBVIOUS
    <3> QED
      BY <3>1, SumRemove
  <2>2. S \ {x} \in P
    BY <1>3
  <2>3. SumFunctionOnSet(f, S \ {x}) \in Nat /\ f[x] \in Nat
    BY <2>2
  <2> QED
    BY <2>1, <2>3
<1> QED
  BY <1>3, <1>4

\* The elements may be named otherwise.
LEMMA SumRenamed ==
  ASSUME NEW S, IsFiniteSet(S), NEW f, \A x \in S : f[x] \in Int,
         NEW T, IsFiniteSet(T), NEW g, NEW b \in [S -> T],
         \A x, y \in S : b[x] = b[y] => x = y, \A z \in T : \E x \in S : b[x] = z,
         \A x \in S : g[b[x]] = f[x]
  PROVE  SumFunctionOnSet(g, T) = SumFunctionOnSet(f, S)
<1> DEFINE Im(s) == {b[x] : x \in s}
           P == {s \in SUBSET S : SumFunctionOnSet(g, Im(s)) = SumFunctionOnSet(f, s)}
<1>0. /\ \A s \in SUBSET S : IsFiniteSet(s)
      /\ \A s \in SUBSET T : IsFiniteSet(s)
  BY FS_Subset
<1>1. {} \in P
  <2>1. Im({}) = {}
    OBVIOUS
  <2> QED
    BY <2>1, SumOfNone
<1>2. ASSUME NEW s \in SUBSET S, s # {}, \A x \in s : s \ {x} \in P
      PROVE  s \in P
  <2>1. PICK x \in s : TRUE
    BY <1>2
  <2>2. SumFunctionOnSet(f, s) = f[x] + SumFunctionOnSet(f, s \ {x})
    <3>1. \A y \in s : f[y] \in Int
      OBVIOUS
    <3> QED
      BY <1>0, <3>1, SumRemove
  <2>3. Im(s) \in SUBSET T /\ b[x] \in Im(s) /\ Im(s) \ {b[x]} = Im(s \ {x})
    OBVIOUS
  <2>4. SumFunctionOnSet(g, Im(s)) = g[b[x]] + SumFunctionOnSet(g, Im(s) \ {b[x]})
    <3>1. \A z \in Im(s) : g[z] \in Int
      OBVIOUS
    <3>2. IsFiniteSet(Im(s))
      BY <1>0, <2>3
    <3> HIDE DEF Im
    <3> DEFINE w == b[x]
               R == Im(s)
    <3>3. w \in R /\ IsFiniteSet(R) /\ \A z \in R : g[z] \in Int
      BY <2>3, <3>1, <3>2
    <3> HIDE DEF w, R
    <3>4. SumFunctionOnSet(g, R) = g[w] + SumFunctionOnSet(g, R \ {w})
      BY <3>3, SumRemove
    <3> QED
      BY <3>4 DEF w, R
  <2>5. SumFunctionOnSet(g, Im(s \ {x})) = SumFunctionOnSet(f, s \ {x})
    BY <1>2
  <2> QED
    BY <2>2, <2>3, <2>4, <2>5
<1>3. P = SUBSET S
  <2> HIDE DEF P
  <2>1. P \in SUBSET SUBSET S
    BY DEF P
  <2> QED
    BY <1>1, <1>2, <2>1, SubsetInduction
<1>4. Im(S) = T
  OBVIOUS
<1> QED
  BY <1>3, <1>4

-----------------------------------------------------------------------------
(***************************************************************************)
(* The sum of a whole function, when it gains, loses or changes a value.   *)
(***************************************************************************)
LEMMA SumFunctionNat ==
  ASSUME NEW f, IsFiniteSet(DOMAIN f), \A x \in DOMAIN f : f[x] \in Nat
  PROVE  SumFunction(f) \in Nat /\ \A x \in DOMAIN f : f[x] <= SumFunction(f)
BY SumNat DEF SumFunction

LEMMA SumFunctionSame ==
  ASSUME NEW f, NEW g, IsFiniteSet(DOMAIN f), DOMAIN g = DOMAIN f, \A x \in DOMAIN f : g[x] = f[x]
  PROVE  SumFunction(g) = SumFunction(f)
BY SumSame DEF SumFunction

LEMMA SumFunctionAdd ==
  ASSUME NEW f, NEW g, IsFiniteSet(DOMAIN f), NEW x, x \notin DOMAIN f, DOMAIN g = DOMAIN f \cup {x},
         \A y \in DOMAIN g : g[y] \in Int, \A y \in DOMAIN f : g[y] = f[y]
  PROVE  SumFunction(g) = SumFunction(f) + g[x]
<1> DEFINE S == DOMAIN f
<1>1. SumFunctionOnSet(g, S \cup {x}) = g[x] + SumFunctionOnSet(g, S)
  BY SumAdd
<1>2. SumFunctionOnSet(g, S) = SumFunctionOnSet(f, S) /\ SumFunctionOnSet(g, S) \in Int /\ g[x] \in Int
  BY SumSame, SumType
<1> HIDE DEF S
<1> QED
  BY <1>1, <1>2 DEF SumFunction, S

LEMMA SumFunctionRemove ==
  ASSUME NEW f, NEW g, IsFiniteSet(DOMAIN f), NEW x \in DOMAIN f, DOMAIN g = DOMAIN f \ {x},
         \A y \in DOMAIN f : f[y] \in Int, \A y \in DOMAIN g : g[y] = f[y]
  PROVE  SumFunction(g) = SumFunction(f) - f[x]
<1> DEFINE S == DOMAIN f
           T == S \ {x}
<1>1. SumFunctionOnSet(f, S) = f[x] + SumFunctionOnSet(f, T) /\ SumFunctionOnSet(f, T) \in Int
  BY SumRemove
<1>2. SumFunctionOnSet(g, T) = SumFunctionOnSet(f, T) /\ f[x] \in Int
  <2>1. IsFiniteSet(T) /\ \A y \in T : g[y] = f[y]
    BY FS_Subset
  <2> HIDE DEF T
  <2> QED
    BY <2>1, SumSame
<1>3. DOMAIN g = T
  OBVIOUS
<1> HIDE DEF S, T
<1> QED
  BY <1>1, <1>2, <1>3 DEF SumFunction, S

LEMMA SumFunctionChange ==
  ASSUME NEW f, NEW g, IsFiniteSet(DOMAIN f), NEW x \in DOMAIN f, DOMAIN g = DOMAIN f,
         \A y \in DOMAIN f : f[y] \in Int /\ g[y] \in Int, \A y \in DOMAIN f \ {x} : g[y] = f[y]
  PROVE  SumFunction(g) = SumFunction(f) - f[x] + g[x]
BY SumChange DEF SumFunction

\* Zeros add up to nothing.
LEMMA SumOfZeros ==
  ASSUME NEW f, IsFiniteSet(DOMAIN f), \A x \in DOMAIN f : f[x] = 0
  PROVE  SumFunction(f) = 0
<1> DEFINE P == {s \in SUBSET DOMAIN f : SumFunctionOnSet(f, s) = 0}
<1>0. \A s \in SUBSET DOMAIN f : IsFiniteSet(s)
  BY FS_Subset
<1>1. {} \in P
  BY SumOfNone
<1>2. ASSUME NEW s \in SUBSET DOMAIN f, s # {}, \A x \in s : s \ {x} \in P
      PROVE  s \in P
  <2>1. /\ Chosen(s) \in s
        /\ SumFunctionOnSet(f, s) = f[Chosen(s)] + SumFunctionOnSet(f, s \ {Chosen(s)})
    BY <1>0, <1>2, SumStep
  <2>2. f[Chosen(s)] = 0 /\ SumFunctionOnSet(f, s \ {Chosen(s)}) = 0
    BY <1>2, <2>1
  <2> QED
    BY <2>1, <2>2
<1> DEFINE S == DOMAIN f
<1>3. P = SUBSET S
  <2> HIDE DEF P
  <2>1. P \in SUBSET SUBSET S
    BY DEF P
  <2> QED
    BY <1>1, <1>2, <2>1, SubsetInduction
<1>4. S \in P
  BY <1>3
<1> QED
  BY <1>4 DEF SumFunction

\* The sum of values between two bounds is between as many times the bounds.
LEMMA SumBetween ==
  ASSUME NEW S, IsFiniteSet(S), NEW low \in Nat, NEW high \in Nat,
         NEW f, \A x \in S : f[x] \in low..high
  PROVE  /\ Cardinality(S) * low <= SumFunctionOnSet(f, S)
         /\ SumFunctionOnSet(f, S) <= Cardinality(S) * high
<1> DEFINE P == {s \in SUBSET S : /\ Cardinality(s) * low <= SumFunctionOnSet(f, s)
                                  /\ SumFunctionOnSet(f, s) <= Cardinality(s) * high}
<1>0. \A s \in SUBSET S : /\ IsFiniteSet(s) /\ Cardinality(s) \in Nat
                          /\ SumFunctionOnSet(f, s) \in Int
  <2>1. \A s \in SUBSET S : IsFiniteSet(s) /\ Cardinality(s) \in Nat
    BY FS_Subset, FS_CardinalityType
  <2>2. ASSUME NEW s \in SUBSET S PROVE SumFunctionOnSet(f, s) \in Int
    <3>1. \A x \in s : f[x] \in Int
      OBVIOUS
    <3> QED
      BY <2>1, <3>1, SumType
  <2> QED
    BY <2>1, <2>2
<1>1. {} \in P
  <2>1. Cardinality({}) = 0 /\ SumFunctionOnSet(f, {}) = 0
    BY SumOfNone, FS_EmptySet
  <2> QED
    BY <2>1
<1>2. ASSUME NEW s \in SUBSET S, s # {}, \A x \in s : s \ {x} \in P
      PROVE  s \in P
  <2> DEFINE c == Chosen(s)
             n == Cardinality(s \ {c})
             m == SumFunctionOnSet(f, s \ {c})
  <2>1. c \in s /\ SumFunctionOnSet(f, s) = f[c] + m
    BY <1>0, <1>2, SumStep
  <2> HIDE DEF c
  <2>2. Cardinality(s) = n + 1
    <3>1. Cardinality(s \ {c}) = Cardinality(s) - 1
      BY <1>0, <2>1, FS_RemoveElement
    <3> QED
      BY <1>0, <3>1
  <2>3. n \in Nat /\ m \in Int /\ s \ {c} \in P
    <3>1. s \ {c} \in SUBSET S
      OBVIOUS
    <3> QED
      BY <1>0, <1>2, <2>1, <3>1
  <2>4. n * low <= m /\ m <= n * high
    BY <2>3
  <2>5. f[c] \in Int /\ low <= f[c] /\ f[c] <= high
    BY <2>1
  <2> HIDE DEF n, m
  <2>6. (n + 1) * low = n * low + low /\ (n + 1) * high = n * high + high /\ n * low \in Nat /\ n * high \in Nat
    BY <2>3
  <2> DEFINE a == n * low
             b == n * high
  <2> HIDE DEF a, b
  <2>7. a + low <= f[c] + m /\ f[c] + m <= b + high
    BY <2>3, <2>4, <2>5, <2>6 DEF a, b
  <2> QED
    BY <2>1, <2>2, <2>6, <2>7 DEF a, b
<1>3. P = SUBSET S
  <2> HIDE DEF P
  <2>1. P \in SUBSET SUBSET S
    BY DEF P
  <2> QED
    BY <1>1, <1>2, <2>1, SubsetInduction
<1>4. S \in P
  BY <1>3
<1> QED
  BY <1>4

-----------------------------------------------------------------------------
\* The coins of every account but a, and the coins a holds with amount n.
OthersCoins(sheet, a) == {c \in Coins(sheet) : c[1] # a}
PileOf(a, n) == {a} \X (1..n)

\* A sheet has finitely many coins, so its sum is a natural number.
LEMMA CoinsFinite ==
  ASSUME NEW sheet \in Sheet
  PROVE  IsFiniteSet(Coins(sheet)) /\ SumOf(sheet) \in Nat
<1>1. IsFiniteSet(1..MaxBalance)
  BY MaxBalanceAssumption, FS_Interval
<1>2. IsFiniteSet(Accounts \X (1..MaxBalance))
  BY <1>1, AccountsAssumption, FS_Product
<1>3. Coins(sheet) \subseteq Accounts \X (1..MaxBalance)
  BY DEF Coins
<1>4. IsFiniteSet(Coins(sheet))
  BY <1>2, <1>3, FS_Subset
<1> QED
  BY <1>4, FS_CardinalityType DEF SumOf

\* A pile of n coins has n elements.
LEMMA PileSize ==
  ASSUME NEW a, NEW n \in Nat
  PROVE  IsFiniteSet(PileOf(a, n)) /\ Cardinality(PileOf(a, n)) = n
<1>1. IsFiniteSet(1..n) /\ Cardinality(1..n) = n
  BY FS_Interval
<1>2. IsFiniteSet({a}) /\ Cardinality({a}) = 1
  BY FS_Singleton
<1> QED
  BY <1>1, <1>2, FS_Product DEF PileOf

\* The sum is one account's balance plus the coins of the others.
LEMMA SumSplit ==
  ASSUME NEW sheet \in Sheet, NEW a \in Accounts
  PROVE  /\ Cardinality(OthersCoins(sheet, a)) \in Nat
         /\ SumOf(sheet) = Cardinality(OthersCoins(sheet, a)) + sheet[a]
<1>1. IsFiniteSet(OthersCoins(sheet, a))
  BY CoinsFinite, FS_Subset DEF OthersCoins
<1>2. sheet[a] \in Nat /\ sheet[a] <= MaxBalance
  BY MaxBalanceAssumption DEF Sheet, Balance
<1>3. IsFiniteSet(PileOf(a, sheet[a])) /\ Cardinality(PileOf(a, sheet[a])) = sheet[a]
  BY <1>2, PileSize
<1>4. Coins(sheet) = OthersCoins(sheet, a) \cup PileOf(a, sheet[a])
  BY <1>2, MaxBalanceAssumption DEF Coins, OthersCoins, PileOf
<1>5. OthersCoins(sheet, a) \cap PileOf(a, sheet[a]) = {}
  BY DEF OthersCoins, PileOf
<1>6. Cardinality(OthersCoins(sheet, a)) \in Nat
  BY <1>1, FS_CardinalityType
<1> QED
  BY <1>1, <1>2, <1>3, <1>4, <1>5, <1>6, FS_Union, FS_EmptySet DEF SumOf

\* Overwriting one entry changes the sum by the difference.
LEMMA SumUpdate ==
  ASSUME NEW sheet \in Sheet, NEW a \in Accounts, NEW n \in Balance
  PROVE  /\ SetBalance(sheet, a, n) \in Sheet
         /\ SumOf(SetBalance(sheet, a, n)) = SumOf(sheet) - sheet[a] + n
<1> DEFINE new == SetBalance(sheet, a, n)
<1>1. new \in Sheet /\ new[a] = n
  BY DEF SetBalance, Sheet
<1>2. OthersCoins(new, a) = OthersCoins(sheet, a)
  BY DEF OthersCoins, Coins, SetBalance, Sheet
<1>3. sheet[a] \in Nat /\ n \in Nat
  BY MaxBalanceAssumption DEF Sheet, Balance
<1> HIDE DEF new
<1>4. SumOf(new) = Cardinality(OthersCoins(sheet, a)) + n
  BY <1>1, <1>2, SumSplit
<1>5. SumOf(sheet) = Cardinality(OthersCoins(sheet, a)) + sheet[a]
  BY SumSplit
<1>6. Cardinality(OthersCoins(sheet, a)) \in Nat
  BY SumSplit
<1> QED
  BY <1>1, <1>3, <1>4, <1>5, <1>6 DEF new

\* The empty sheet sums to 0.
LEMMA SumEmpty == EmptySheet \in Sheet /\ SumOf(EmptySheet) = 0
<1>1. EmptySheet \in Sheet
  BY MaxBalanceAssumption DEF EmptySheet, Sheet, Balance
<1>2. Coins(EmptySheet) = {}
  BY MaxBalanceAssumption DEF Coins, EmptySheet
<1> QED
  BY <1>1, <1>2, FS_EmptySet DEF SumOf

\* No balance exceeds the sum, and no two balances together do.
LEMMA SumBounds ==
  ASSUME NEW sheet \in Sheet, NEW a \in Accounts
  PROVE  /\ sheet[a] <= SumOf(sheet)
         /\ \A b \in Accounts \ {a} : sheet[a] + sheet[b] <= SumOf(sheet)
<1> DEFINE rest == SetBalance(sheet, a, 0)
<1>1. 0 \in Balance
  BY MaxBalanceAssumption DEF Balance
<1>2. rest \in Sheet /\ SumOf(rest) = SumOf(sheet) - sheet[a]
  <2>1. SumOf(sheet) \in Nat /\ sheet[a] \in Nat
    BY CoinsFinite, MaxBalanceAssumption DEF Sheet, Balance
  <2> QED
    BY <1>1, <2>1, SumUpdate
<1>3. \A b \in Accounts \ {a} : rest[b] = sheet[b]
  BY DEF SetBalance, Sheet
<1> HIDE DEF rest
<1>4. \A s \in Sheet, c \in Accounts : s[c] \in Nat /\ SumOf(s) \in Nat /\ s[c] <= SumOf(s)
  <2> SUFFICES ASSUME NEW s \in Sheet, NEW c \in Accounts
               PROVE  s[c] \in Nat /\ SumOf(s) \in Nat /\ s[c] <= SumOf(s)
    OBVIOUS
  <2>1. s[c] \in Nat
    BY MaxBalanceAssumption DEF Sheet, Balance
  <2>2. /\ Cardinality(OthersCoins(s, c)) \in Nat
        /\ SumOf(s) = Cardinality(OthersCoins(s, c)) + s[c]
    BY SumSplit
  <2> QED
    BY <2>1, <2>2
<1> QED
  BY <1>2, <1>3, <1>4

\* Endowing a set of accounts with the same amount sums to the product.
LEMMA SumEndowed ==
  ASSUME NEW S \in SUBSET Accounts, NEW n \in Balance
  PROVE  SumOf([a \in Accounts |-> IF a \in S THEN n ELSE 0]) = n * Cardinality(S)
<1> DEFINE sheet == [a \in Accounts |-> IF a \in S THEN n ELSE 0]
<1>1. Coins(sheet) = S \X (1..n)
  BY MaxBalanceAssumption DEF Coins, Balance
<1>2. IsFiniteSet(S) /\ Cardinality(S) \in Nat
  BY AccountsAssumption, FS_Subset, FS_CardinalityType
<1>3. n \in Nat
  BY MaxBalanceAssumption DEF Balance
<1>4. IsFiniteSet(1..n) /\ Cardinality(1..n) = n
  BY <1>3, FS_Interval
<1>5. Cardinality(S \X (1..n)) = Cardinality(S) * n
  BY <1>2, <1>4, FS_Product
<1>6. SumOf(sheet) = Cardinality(Coins(sheet))
  BY DEF SumOf
<1>7. Cardinality(S) * n = n * Cardinality(S)
  BY <1>2, <1>3
<1> QED
  BY <1>1, <1>5, <1>6, <1>7

\* make_transfer between two accounts, while the asset's sum fits the width:
\* neither unchecked update wraps and the sum is unchanged.
THEOREM TransferKeepsSum ==
  ASSUME NEW sheet \in Sheet, NEW from \in Accounts, NEW to \in Accounts,
         NEW amount \in Balance,
         CanTransfer(sheet, from, amount), SumOf(sheet) <= MaxBalance
  PROVE  /\ AfterTransfer(sheet, from, to, amount) \in Sheet
         /\ SumOf(AfterTransfer(sheet, from, to, amount)) = SumOf(sheet)
         /\ from # to => AfterTransfer(sheet, from, to, amount)
                           = [sheet EXCEPT ![from] = @ - amount, ![to] = @ + amount]
<1>1. CASE from = to
  BY <1>1 DEF AfterTransfer
<1>2. CASE from # to
  <2>1. /\ amount \in Nat /\ sheet[from] \in Nat /\ sheet[to] \in Nat
        /\ amount <= sheet[from]
        /\ SumOf(sheet) \in Nat
    BY MaxBalanceAssumption, CoinsFinite DEF Sheet, Balance, CanTransfer
  <2>2. sheet[from] + sheet[to] <= SumOf(sheet)
    BY <1>2, SumBounds
  <2>3. /\ sheet[from] - amount \in Balance
        /\ sheet[to] + amount \in Balance
    BY <2>1, <2>2, MaxBalanceAssumption DEF Balance
  <2>4. /\ Wrapped(sheet[from] - amount) = sheet[from] - amount
        /\ Wrapped(sheet[to] + amount) = sheet[to] + amount
    BY <2>3, MaxBalanceAssumption DEF Wrapped, Balance
  <2> DEFINE paid == SetBalance(sheet, from, sheet[from] - amount)
             moved == SetBalance(paid, to, sheet[to] + amount)
  <2>5. paid \in Sheet /\ SumOf(paid) = SumOf(sheet) - sheet[from] + (sheet[from] - amount)
    BY <2>3, SumUpdate
  <2>6. paid[to] = sheet[to]
    BY <1>2 DEF SetBalance, Sheet
  <2>7. moved \in Sheet /\ SumOf(moved) = SumOf(paid) - sheet[to] + (sheet[to] + amount)
    <3> HIDE DEF paid
    <3> QED BY <2>3, <2>5, <2>6, SumUpdate
  <2>8. moved = [sheet EXCEPT ![from] = @ - amount, ![to] = @ + amount]
    BY <1>2 DEF SetBalance, Sheet
  <2>9. AfterTransfer(sheet, from, to, amount) = moved
    BY <1>2, <2>4, <2>8 DEF AfterTransfer, Sheet
  <2>10. SumOf(moved) = SumOf(sheet)
    <3> HIDE DEF paid, moved
    <3> QED BY <2>1, <2>5, <2>7
  <2> QED
    BY <1>2, <2>7, <2>8, <2>9, <2>10
<1> QED
  BY <1>1, <1>2

\* One unchecked addition or subtraction leaves a balance in range.
LEMMA WrappedType ==
  ASSUME NEW m \in Balance, NEW n \in Balance
  PROVE  Wrapped(m + n) \in Balance /\ Wrapped(m - n) \in Balance
BY MaxBalanceAssumption DEF Wrapped, Balance

\* So does a transfer, one that empties or overflows an account included.
LEMMA TransferType ==
  ASSUME NEW sheet \in Sheet, NEW from \in Accounts, NEW to \in Accounts, NEW amount \in Balance
  PROVE  AfterTransfer(sheet, from, to, amount) \in Sheet
<1>1. CASE from = to
  BY <1>1 DEF AfterTransfer
<1>2. CASE from # to
  <2>1. sheet[from] \in Balance /\ sheet[to] \in Balance
    BY DEF Sheet
  <2>2. Wrapped(sheet[from] - amount) \in Balance /\ Wrapped(sheet[to] + amount) \in Balance
    BY <2>1, WrappedType
  <2> QED
    BY <1>2, <2>2 DEF AfterTransfer, Sheet
<1> QED
  BY <1>1, <1>2
=============================================================================
