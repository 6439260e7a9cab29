---------------------------- MODULE SumTheorems ----------------------------
(***************************************************************************)
(* Facts about SumFunctionOnSet, the sum of a function over a finite set,  *)
(* for the modules whose balances are sums: it does not depend on the order*)
(* of the fold, and it changes by what one term changes by.                *)
(***************************************************************************)
EXTENDS FiniteSetsExt, FiniteSetTheorems, TLAPS

\* The element a fold takes out of a set first.
First(s) == CHOOSE x \in s : TRUE

\* g sums f over the subsets of S, one element at a time.
Adds(g, f, S) ==
  g = [s \in SUBSET S |-> IF s = {} THEN 0 ELSE f[First(s)] + g[s \ {First(s)}]]

\* The adder the fold is defined by.
Adder(f, S) == CHOOSE g : Adds(g, f, S)

\* The fold of the library is the value its adder has at the whole set.
LEMMA SumIsAdder ==
  ASSUME NEW f, NEW S
  PROVE  SumFunctionOnSet(f, S) = Adder(f, S)[S]
BY DEF SumFunctionOnSet, FoldFunctionOnSet, MapThenFoldSet, Adder, Adds, First

\* A set of subsets of a finite set has a minimal element.
LEMMA Smallest ==
  ASSUME NEW S, IsFiniteSet(S), NEW T \in SUBSET SUBSET S, T # {}
  PROVE  \E A \in T : \A B \in T : B \subseteq A => B = A
<1>1. IsWellFoundedOn(StrictSubsetOrdering(S), SUBSET S)
  BY FS_StrictSubsetOrderingWellFounded, FS_FiniteSubsetsOfFinite
<1>2. PICK A \in T : \A B \in T : ~ (<<B, A>> \in StrictSubsetOrdering(S))
  BY <1>1, WFMin
<1>3. ASSUME NEW B \in T, B \subseteq A, B # A PROVE FALSE
  <2>1. <<B, A>> \in (SUBSET S) \X (SUBSET S)
    OBVIOUS
  <2>2. <<B, A>> \in StrictSubsetOrdering(S)
    BY <2>1, <1>3 DEF StrictSubsetOrdering
  <2> QED
    BY <2>2, <1>2
<1> QED
  BY <1>3

\* Two adders agree where both are defined.
LEMMA AddersAgree ==
  ASSUME NEW f, NEW S, NEW R, NEW g, NEW h, IsFiniteSet(R),
         Adds(g, f, S), Adds(h, f, R), R \subseteq S
  PROVE  \A A \in SUBSET R : g[A] = h[A]
<1> DEFINE T == {A \in SUBSET R : g[A] # h[A]}
<1>1. SUFFICES ASSUME T # {} PROVE FALSE
  OBVIOUS
<1>2. PICK A \in T : \A B \in T : B \subseteq A => B = A
  <2> HIDE DEF T
  <2>1. T \in SUBSET SUBSET R
    BY DEF T
  <2> QED
    BY <2>1, <1>1, Smallest
<1>3. A \in SUBSET R /\ A \in SUBSET S
  OBVIOUS
<1>4. CASE A = {}
  <2>1. g[A] = 0 /\ h[A] = 0
    BY <1>3, <1>4 DEF Adds
  <2> QED
    BY <2>1
<1>5. CASE A # {}
  <2> DEFINE B == A \ {First(A)}
  <2>1. First(A) \in A
    BY <1>5 DEF First
  <2>2. B \in SUBSET R /\ B \subseteq A /\ B # A
    BY <2>1
  <2>3. g[B] = h[B]
    BY <2>2, <1>2
  <2>4. g[A] = f[First(A)] + g[B] /\ h[A] = f[First(A)] + h[B]
    BY <1>3, <1>5 DEF Adds
  <2> QED
    BY <2>3, <2>4
<1> QED
  BY <1>4, <1>5

\* Every finite set has an adder, so the one CHOOSE names is one.
LEMMA AdderExists ==
  ASSUME NEW f, NEW S, IsFiniteSet(S)
  PROVE  Adds(Adder(f, S), f, S)
<1> DEFINE T == {A \in SUBSET S : ~ Adds(Adder(f, A), f, A)}
<1>1. SUFFICES ASSUME T # {} PROVE FALSE
  OBVIOUS
<1>2. PICK U \in T : \A B \in T : B \subseteq U => B = U
  <2> HIDE DEF T
  <2>1. T \in SUBSET SUBSET S
    BY DEF T
  <2> QED
    BY <2>1, <1>1, Smallest
<1> DEFINE Total(t) == Adder(f, t)[t]
           h == [s \in SUBSET U |-> IF s = {} THEN 0
                                    ELSE f[First(s)] + Total(s \ {First(s)})]
<1>3. ASSUME NEW t \in SUBSET U, t # U PROVE Adds(Adder(f, t), f, t) /\ IsFiniteSet(t)
  BY <1>2, <1>3, FS_Subset
<1>4. ASSUME NEW t \in SUBSET U, t # U PROVE h[t] = Total(t)
  <2> DEFINE g == Adder(f, t)
  <2>1. Adds(g, f, t)
    BY <1>3, <1>4
  <2>2. CASE t = {}
    <3>1. g[t] = 0
      BY <2>1, <2>2 DEF Adds
    <3>2. h[t] = 0
      BY <2>2
    <3> QED
      BY <3>1, <3>2
  <2>3. CASE t # {}
    <3> DEFINE r == t \ {First(t)}
    <3>1. First(t) \in t
      BY <2>3 DEF First
    <3>2. r \in SUBSET U /\ r # U /\ r \subseteq t
      BY <3>1
    <3>3. Adds(Adder(f, r), f, r) /\ IsFiniteSet(r)
      BY <3>2, <1>3
    <3>4. g[r] = Adder(f, r)[r]
      <4> HIDE DEF g, r
      <4> QED
        BY <2>1, <3>2, <3>3, AddersAgree
    <3>5. g[t] = f[First(t)] + g[r]
      BY <2>1, <2>3 DEF Adds
    <3>6. h[t] = f[First(t)] + Total(r)
      BY <2>3
    <3> QED
      BY <3>4, <3>5, <3>6
  <2> QED
    BY <2>2, <2>3
<1>5. Adds(h, f, U)
  <2>1. ASSUME NEW s \in SUBSET U, s # {}
        PROVE  Total(s \ {First(s)}) = h[s \ {First(s)}]
    <3>1. First(s) \in s
      BY <2>1 DEF First
    <3> QED
      BY <3>1, <1>4
  <2> QED
    BY <2>1 DEF Adds
<1>6. Adds(Adder(f, U), f, U)
  <2> HIDE DEF h
  <2> QED
    BY <1>5 DEF Adder
<1> QED
  BY <1>6

\* Nothing sums to 0; anything else to its first element and the rest.
LEMMA SumStep ==
  ASSUME NEW f, NEW S, IsFiniteSet(S)
  PROVE  SumFunctionOnSet(f, S) =
           IF S = {} THEN 0 ELSE f[First(S)] + SumFunctionOnSet(f, S \ {First(S)})
<1> DEFINE g == Adder(f, S)
           R == S \ {First(S)}
<1>1. Adds(g, f, S)
  BY AdderExists
<1>2. g[S] = IF S = {} THEN 0 ELSE f[First(S)] + g[R]
  BY <1>1 DEF Adds
<1>3. IsFiniteSet(R) /\ R \subseteq S
  BY FS_Subset
<1>4. Adds(Adder(f, R), f, R)
  BY <1>3, AdderExists
<1>5. g[R] = Adder(f, R)[R]
  <2> HIDE DEF g, R
  <2> QED
    BY <1>1, <1>3, <1>4, AddersAgree
<1> QED
  BY <1>2, <1>5, SumIsAdder

\* A sum of integers is one.
LEMMA SumType ==
  ASSUME NEW f, NEW S, IsFiniteSet(S), \A x \in S : f[x] \in Int
  PROVE  SumFunctionOnSet(f, S) \in Int
<1> DEFINE T == {A \in SUBSET S : SumFunctionOnSet(f, A) \notin Int}
<1>1. SUFFICES ASSUME T # {} PROVE FALSE
  OBVIOUS
<1>2. PICK A \in T : \A B \in T : B \subseteq A => B = A
  <2> HIDE DEF T
  <2>1. T \in SUBSET SUBSET S
    BY DEF T
  <2> QED
    BY <2>1, <1>1, Smallest
<1>3. IsFiniteSet(A)
  BY FS_Subset
<1>4. A # {}
  <2>1. ASSUME A = {} PROVE SumFunctionOnSet(f, A) = 0
    <3> HIDE DEF T
    <3> QED
      BY <1>3, <2>1, SumStep
  <2> QED
    BY <2>1, <1>2
<1>5. First(A) \in A
  BY <1>4 DEF First
<1>6. SumFunctionOnSet(f, A \ {First(A)}) \in Int
  BY <1>2, <1>5
<1>7. SumFunctionOnSet(f, A) = f[First(A)] + SumFunctionOnSet(f, A \ {First(A)})
  BY <1>3, <1>4, SumStep
<1> QED
  BY <1>5, <1>6, <1>7

\* Any element may be taken out first.
LEMMA SumRemove ==
  ASSUME NEW f, NEW S, IsFiniteSet(S), \A x \in S : f[x] \in Int
  PROVE  \A x \in S : SumFunctionOnSet(f, S) = f[x] + SumFunctionOnSet(f, S \ {x})
<1> DEFINE Sum(A) == SumFunctionOnSet(f, A)
           Any(A) == \A x \in A : Sum(A) = f[x] + Sum(A \ {x})
           T == {A \in SUBSET S : ~ Any(A)}
<1>1. SUFFICES ASSUME T # {} PROVE FALSE
  OBVIOUS
<1>2. PICK A \in T : \A B \in T : B \subseteq A => B = A
  <2> HIDE DEF T
  <2>1. T \in SUBSET SUBSET S
    BY DEF T
  <2> QED
    BY <2>1, <1>1, Smallest
<1>3. /\ A \in SUBSET S /\ IsFiniteSet(A) /\ ~ Any(A)
      /\ \A x \in A : IsFiniteSet(A \ {x}) /\ Any(A \ {x})
  <2>1. A \in SUBSET S /\ ~ Any(A)
    OBVIOUS
  <2>2. \A x \in A : A \ {x} \in SUBSET S /\ A \ {x} \notin T
    BY <1>2
  <2>3. \A B \in SUBSET S : IsFiniteSet(B)
    BY FS_Subset
  <2> QED
    BY <2>1, <2>2, <2>3
<1>4. PICK x \in A : Sum(A) # f[x] + Sum(A \ {x})
  BY <1>3
<1> DEFINE c == First(A)
           R == A \ {c, x}
<1> HIDE DEF T
<1>5. c \in A
  BY <1>4 DEF First
<1>6. Sum(A) = f[c] + Sum(A \ {c})
  BY <1>3, <1>5, SumStep
<1>7. x # c
  BY <1>4, <1>6
<1> HIDE DEF c
<1>8. Sum(A \ {c}) = f[x] + Sum(R) /\ Sum(A \ {x}) = f[c] + Sum(R)
  <2>1. (A \ {c}) \ {x} = R /\ (A \ {x}) \ {c} = R
    OBVIOUS
  <2>2. x \in A \ {c} /\ c \in A \ {x}
    BY <1>5, <1>7
  <2>3. Any(A \ {c}) /\ Any(A \ {x})
    BY <1>3, <1>5
  <2>4. Sum(A \ {c}) = f[x] + Sum((A \ {c}) \ {x}) /\ Sum(A \ {x}) = f[c] + Sum((A \ {x}) \ {c})
    <3> HIDE DEF Sum
    <3> QED
      BY <2>2, <2>3
  <2> HIDE DEF R
  <2> QED
    BY <2>1, <2>4
<1>9. f[c] \in Int /\ f[x] \in Int /\ Sum(R) \in Int
  <2>1. IsFiniteSet(R) /\ R \subseteq S
    BY <1>3, FS_Subset
  <2>2. Sum(R) \in Int
    <3> HIDE DEF R
    <3> QED
      BY <2>1, SumType
  <2> QED
    BY <1>3, <1>5, <2>2
<1> QED
  <2> HIDE DEF Sum, R
  <2> QED
    BY <1>4, <1>6, <1>8, <1>9

\* Only the elements of the set count.
LEMMA SumSame ==
  ASSUME NEW f, NEW g, NEW S, IsFiniteSet(S), \A x \in S : f[x] = g[x]
  PROVE  SumFunctionOnSet(f, S) = SumFunctionOnSet(g, S)
<1> DEFINE T == {A \in SUBSET S : SumFunctionOnSet(f, A) # SumFunctionOnSet(g, A)}
<1>1. SUFFICES ASSUME T # {} PROVE FALSE
  OBVIOUS
<1>2. PICK A \in T : \A B \in T : B \subseteq A => B = A
  <2> HIDE DEF T
  <2>1. T \in SUBSET SUBSET S
    BY DEF T
  <2> QED
    BY <2>1, <1>1, Smallest
<1>3. IsFiniteSet(A)
  BY FS_Subset
<1>4. A # {}
  <2>1. ASSUME A = {} PROVE SumFunctionOnSet(f, A) = 0 /\ SumFunctionOnSet(g, A) = 0
    <3> HIDE DEF T
    <3> QED
      BY <1>3, <2>1, SumStep
  <2> QED
    BY <2>1, <1>2
<1>5. First(A) \in A
  BY <1>4 DEF First
<1>6. SumFunctionOnSet(f, A \ {First(A)}) = SumFunctionOnSet(g, A \ {First(A)})
  BY <1>2, <1>5
<1>7. /\ SumFunctionOnSet(f, A) = f[First(A)] + SumFunctionOnSet(f, A \ {First(A)})
      /\ SumFunctionOnSet(g, A) = g[First(A)] + SumFunctionOnSet(g, A \ {First(A)})
  BY <1>3, <1>4, SumStep
<1> QED
  BY <1>5, <1>6, <1>7

\* A sum of natural numbers is one, and no less than any of its terms.
LEMMA SumNatural ==
  ASSUME NEW f, NEW S, IsFiniteSet(S), \A x \in S : f[x] \in Nat
  PROVE  /\ SumFunctionOnSet(f, S) \in Nat
         /\ \A x \in S : f[x] <= SumFunctionOnSet(f, S)
<1>1. \A A \in SUBSET S : SumFunctionOnSet(f, A) \in Nat
  <2> DEFINE T == {A \in SUBSET S : SumFunctionOnSet(f, A) \notin Nat}
  <2>1. SUFFICES ASSUME T # {} PROVE FALSE
    OBVIOUS
  <2>2. PICK A \in T : \A B \in T : B \subseteq A => B = A
    <3> HIDE DEF T
    <3>1. T \in SUBSET SUBSET S
      BY DEF T
    <3> QED
      BY <3>1, <2>1, Smallest
  <2>3. IsFiniteSet(A)
    BY FS_Subset
  <2>4. A # {}
    <3>1. ASSUME A = {} PROVE SumFunctionOnSet(f, A) = 0
      <4> HIDE DEF T
      <4> QED
        BY <2>3, <3>1, SumStep
    <3> QED
      BY <3>1, <2>2
  <2>5. First(A) \in A
    BY <2>4 DEF First
  <2>6. SumFunctionOnSet(f, A \ {First(A)}) \in Nat
    BY <2>2, <2>5
  <2>7. SumFunctionOnSet(f, A) = f[First(A)] + SumFunctionOnSet(f, A \ {First(A)})
    BY <2>3, <2>4, SumStep
  <2> QED
    BY <2>5, <2>6, <2>7
<1>2. ASSUME NEW x \in S PROVE f[x] <= SumFunctionOnSet(f, S)
  <2>1. SumFunctionOnSet(f, S) = f[x] + SumFunctionOnSet(f, S \ {x})
    BY SumRemove
  <2>2. SumFunctionOnSet(f, S \ {x}) \in Nat /\ f[x] \in Nat
    BY <1>1
  <2> QED
    BY <2>1, <2>2
<1> QED
  BY <1>1, <1>2

\* One term changes.
LEMMA SumChange ==
  ASSUME NEW f, NEW g, NEW S, IsFiniteSet(S), \A x \in S : f[x] \in Int,
         NEW y \in S, g[y] \in Int, \A x \in S \ {y} : g[x] = f[x]
  PROVE  SumFunctionOnSet(g, S) = SumFunctionOnSet(f, S) + g[y] - f[y]
<1>1. SumFunctionOnSet(f, S) = f[y] + SumFunctionOnSet(f, S \ {y})
  BY SumRemove
<1>2. SumFunctionOnSet(g, S) = g[y] + SumFunctionOnSet(g, S \ {y})
  <2>1. \A x \in S : g[x] \in Int
    OBVIOUS
  <2> QED
    BY <2>1, SumRemove
<1>3. IsFiniteSet(S \ {y})
  BY FS_Subset
<1>4. SumFunctionOnSet(g, S \ {y}) = SumFunctionOnSet(f, S \ {y})
  BY <1>3, SumSame
<1>5. SumFunctionOnSet(f, S \ {y}) \in Int
  BY <1>3, SumType
<1> QED
  BY <1>1, <1>2, <1>4, <1>5

\* Another element joins.
LEMMA SumAdd ==
  ASSUME NEW f, NEW S, IsFiniteSet(S), NEW y, y \notin S, \A x \in S \cup {y} : f[x] \in Int
  PROVE  SumFunctionOnSet(f, S \cup {y}) = SumFunctionOnSet(f, S) + f[y]
<1>1. IsFiniteSet(S \cup {y}) /\ (S \cup {y}) \ {y} = S
  BY FS_AddElement
<1>2. SumFunctionOnSet(f, S \cup {y}) = f[y] + SumFunctionOnSet(f, (S \cup {y}) \ {y})
  BY <1>1, SumRemove
<1>3. SumFunctionOnSet(f, S) \in Int /\ f[y] \in Int
  BY SumType
<1>4. SumFunctionOnSet(f, S \cup {y}) = f[y] + SumFunctionOnSet(f, S)
  BY <1>1, <1>2
<1> QED
  BY <1>3, <1>4

\* A part of natural numbers sums to no more than the whole.
LEMMA SumPart ==
  ASSUME NEW f, NEW S, IsFiniteSet(S), \A x \in S : f[x] \in Nat, NEW R, R \subseteq S
  PROVE  SumFunctionOnSet(f, R) <= SumFunctionOnSet(f, S)
<1> DEFINE T == {A \in SUBSET S : /\ R \subseteq A
                                  /\ ~ (SumFunctionOnSet(f, R) <= SumFunctionOnSet(f, A))}
<1>1. SUFFICES ASSUME T # {} PROVE FALSE
  OBVIOUS
<1>2. PICK A \in T : \A B \in T : B \subseteq A => B = A
  <2> HIDE DEF T
  <2>1. T \in SUBSET SUBSET S
    BY DEF T
  <2> QED
    BY <2>1, <1>1, Smallest
<1>3. IsFiniteSet(A) /\ IsFiniteSet(R) /\ \A x \in A : IsFiniteSet(A \ {x})
  BY FS_Subset
<1>4. /\ SumFunctionOnSet(f, A) \in Nat /\ SumFunctionOnSet(f, R) \in Nat
      /\ \A x \in A : SumFunctionOnSet(f, A \ {x}) \in Nat
  BY <1>3, SumNatural
<1>5. PICK x \in A : x \notin R
  BY <1>4
<1>6. SumFunctionOnSet(f, R) <= SumFunctionOnSet(f, A \ {x})
  BY <1>2, <1>5
<1>7. SumFunctionOnSet(f, A) = f[x] + SumFunctionOnSet(f, A \ {x})
  BY <1>3, SumRemove
<1>8. f[x] \in Nat
  OBVIOUS
<1> QED
  BY <1>4, <1>6, <1>7, <1>8

\* What holds of the empty set and survives another element holds of a finite set.
LEMMA SetInduction ==
  ASSUME NEW S, IsFiniteSet(S), NEW T \in SUBSET SUBSET S, {} \in T,
         \A A \in T : \A x \in S \ A : A \cup {x} \in T
  PROVE  S \in T
<1> DEFINE N == (SUBSET S) \ T
<1>1. SUFFICES ASSUME N # {} PROVE FALSE
  OBVIOUS
<1>2. PICK A \in N : \A B \in N : B \subseteq A => B = A
  <2>1. N \in SUBSET SUBSET S
    OBVIOUS
  <2> HIDE DEF N
  <2> QED
    BY <2>1, <1>1, Smallest
<1>3. PICK x \in A : TRUE
  OBVIOUS
<1>4. A \ {x} \in T
  BY <1>2, <1>3
<1>5. (A \ {x}) \cup {x} \in T /\ (A \ {x}) \cup {x} = A
  BY <1>3, <1>4
<1> QED
  BY <1>5

\* A set and what is left of it make up the whole.
LEMMA SumSplit ==
  ASSUME NEW f, NEW S, IsFiniteSet(S), \A x \in S : f[x] \in Int, NEW R \in SUBSET S
  PROVE  SumFunctionOnSet(f, S) = SumFunctionOnSet(f, R) + SumFunctionOnSet(f, S \ R)
<1> DEFINE Sum(A) == SumFunctionOnSet(f, A)
           T == {A \in SUBSET R : Sum(S) = Sum(A) + Sum(S \ A)}
<1>1. \A A \in SUBSET S : IsFiniteSet(A) /\ Sum(A) \in Int
  BY FS_Subset, SumType
<1>2. {} \in T
  <2>1. Sum({}) = 0
    BY SumStep, FS_EmptySet
  <2>2. S \ {} = S
    OBVIOUS
  <2> QED
    BY <1>1, <2>1, <2>2
<1>3. ASSUME NEW A \in T, NEW x \in R \ A PROVE A \cup {x} \in T
  <2>1. Sum(A \cup {x}) = Sum(A) + f[x]
    BY <1>1, SumAdd
  <2>2. Sum(S \ A) = f[x] + Sum((S \ A) \ {x})
    BY <1>1, SumRemove
  <2>3. (S \ A) \ {x} = S \ (A \cup {x})
    OBVIOUS
  <2>4. Sum(S) = Sum(A) + Sum(S \ A) /\ f[x] \in Int
    OBVIOUS
  <2>5. Sum(A) \in Int /\ Sum(S \ (A \cup {x})) \in Int
    BY <1>1
  <2>6. A \cup {x} \in SUBSET R
    OBVIOUS
  <2>7. Sum(S) = Sum(A \cup {x}) + Sum(S \ (A \cup {x}))
    <3>1. Sum((S \ A) \ {x}) = Sum(S \ (A \cup {x}))
      BY <2>3
    <3> HIDE DEF T
    <3> QED
      BY <2>1, <2>2, <2>4, <2>5, <3>1
  <2> QED
    BY <2>6, <2>7
<1>4. R \in T
  <2>1. T \in SUBSET SUBSET R /\ IsFiniteSet(R)
    BY FS_Subset
  <2> HIDE DEF T
  <2> QED
    BY <1>2, <1>3, <2>1, SetInduction
<1> QED
  BY <1>4

\* Nothing but zeros.
LEMMA SumZero ==
  ASSUME NEW f, NEW S, IsFiniteSet(S), \A x \in S : f[x] = 0
  PROVE  SumFunctionOnSet(f, S) = 0
<1> DEFINE T == {A \in SUBSET S : SumFunctionOnSet(f, A) = 0}
<1>1. {} \in T
  BY SumStep, FS_EmptySet
<1>2. ASSUME NEW A \in T, NEW x \in S \ A PROVE A \cup {x} \in T
  <2>1. SumFunctionOnSet(f, A \cup {x}) = SumFunctionOnSet(f, A) + f[x]
    BY SumAdd, FS_Subset
  <2> QED
    BY <2>1
<1>3. S \in T
  <2> HIDE DEF T
  <2>1. T \in SUBSET SUBSET S
    BY DEF T
  <2> QED
    BY <2>1, <1>1, <1>2, SetInduction
<1> QED
  BY <1>3

\* Term by term.
LEMMA SumPlus ==
  ASSUME NEW f, NEW g, NEW h, NEW S, IsFiniteSet(S),
         \A x \in S : f[x] \in Int /\ g[x] \in Int /\ h[x] = f[x] + g[x]
  PROVE  SumFunctionOnSet(h, S) = SumFunctionOnSet(f, S) + SumFunctionOnSet(g, S)
<1> DEFINE P(A) == SumFunctionOnSet(h, A) = SumFunctionOnSet(f, A) + SumFunctionOnSet(g, A)
           T == {A \in SUBSET S : P(A)}
<1>1. {} \in T
  <2>1. /\ SumFunctionOnSet(f, {}) = 0 /\ SumFunctionOnSet(g, {}) = 0
        /\ SumFunctionOnSet(h, {}) = 0
    BY SumStep, FS_EmptySet
  <2> QED
    BY <2>1
<1>2. ASSUME NEW A \in T, NEW x \in S \ A PROVE A \cup {x} \in T
  <2>1. IsFiniteSet(A) /\ x \notin A /\ P(A)
    BY FS_Subset
  <2>2. \A y \in A \cup {x} : f[y] \in Int /\ g[y] \in Int /\ h[y] \in Int
    OBVIOUS
  <2>3. SumFunctionOnSet(f, A \cup {x}) = SumFunctionOnSet(f, A) + f[x]
    BY <2>1, <2>2, SumAdd
  <2>4. SumFunctionOnSet(g, A \cup {x}) = SumFunctionOnSet(g, A) + g[x]
    BY <2>1, <2>2, SumAdd
  <2>5. SumFunctionOnSet(h, A \cup {x}) = SumFunctionOnSet(h, A) + h[x]
    BY <2>1, <2>2, SumAdd
  <2>6. SumFunctionOnSet(f, A) \in Int /\ SumFunctionOnSet(g, A) \in Int
    BY <2>1, <2>2, SumType
  <2>7. f[x] \in Int /\ g[x] \in Int /\ h[x] = f[x] + g[x]
    OBVIOUS
  <2>8. P(A \cup {x})
    BY <2>1, <2>3, <2>4, <2>5, <2>6, <2>7
  <2> QED
    BY <2>8
<1>3. S \in T
  <2> HIDE DEF T
  <2>1. T \in SUBSET SUBSET S
    BY DEF T
  <2> QED
    BY <2>1, <1>1, <1>2, SetInduction
<1> QED
  BY <1>3

\* No smaller term by term, no smaller in sum.
LEMMA SumMonotone ==
  ASSUME NEW f, NEW g, NEW S, IsFiniteSet(S),
         \A x \in S : f[x] \in Int /\ g[x] \in Int /\ f[x] <= g[x]
  PROVE  SumFunctionOnSet(f, S) <= SumFunctionOnSet(g, S)
<1> DEFINE d == [x \in S |-> g[x] - f[x]]
<1>1. \A x \in S : d[x] \in Nat
  OBVIOUS
<1>2. SumFunctionOnSet(d, S) \in Nat /\ SumFunctionOnSet(f, S) \in Int
  <2> HIDE DEF d
  <2> QED
    BY <1>1, SumNatural, SumType
<1>3. \A x \in S : f[x] \in Int /\ d[x] \in Int /\ g[x] = f[x] + d[x]
  OBVIOUS
<1>4. SumFunctionOnSet(g, S) = SumFunctionOnSet(f, S) + SumFunctionOnSet(d, S)
  <2> HIDE DEF d
  <2> QED
    BY <1>3, SumPlus
<1> QED
  <2> HIDE DEF d
  <2> QED
    BY <1>2, <1>4

==========================================================================
