---------------------------- MODULE NumberLemmas ----------------------------
(***************************************************************************)
(* What the proofs about several modules need of numbers and finite sets.  *)
(***************************************************************************)
EXTENDS Listing, FiniteSetsExt, FunctionTheorems, FiniteSetTheorems, TLAPS

-----------------------------------------------------------------------------
(* Sets of natural numbers have a least element. *)

Less == {ss \in Nat \X Nat : ss[1] < ss[2]}

LEMMA LessWellFounded == IsWellFoundedOn(Less, Nat)
  BY NatLessThanWellFounded DEF OpToRel, Less

LEMMA LessMeans == \A x, y \in Nat : <<y, x>> \in Less <=> y < x
  BY DEF Less

LEMMA LeastExists ==
    ASSUME NEW S, S \subseteq Nat, S # {} PROVE \E x \in S : \A y \in S : x <= y
  <1>1. PICK x \in S : \A y \in S : ~(<<y, x>> \in Less)
    BY LessWellFounded, WFMin
  <1>2. \A y \in S : ~(y < x)
    BY <1>1, LessMeans
  <1>3. x \in Nat /\ \A y \in S : y \in Nat
    OBVIOUS
  <1>4. \A y \in S : x <= y
    BY <1>2, <1>3
  <1> QED
    BY <1>4

\* What the CHOOSE of Min picks.
LEMMA MinLeast ==
    ASSUME NEW S, S \subseteq Nat, S # {} PROVE Min(S) \in S /\ \A y \in S : Min(S) <= y
  BY LeastExists DEF Min

LEMMA MaxGreatest ==
    ASSUME NEW n \in Nat, NEW S, S \subseteq 1..n, S # {} PROVE Max(S) \in S /\ \A y \in S : y <= Max(S)
  <1> DEFINE Below == {n - x : x \in S}
  <1>1. Below \subseteq Nat /\ Below # {}
    <2>1. \A x \in S : n - x \in Nat
      OBVIOUS
    <2> QED  BY <2>1
  <1>2. PICK b \in Below : \A y \in Below : b <= y
    <2> HIDE DEF Below
    <2> QED  BY <1>1, LeastExists
  <1>3. PICK x \in S : b = n - x
    BY <1>2
  <1>4. \A y \in S : x >= y
    <2> TAKE y \in S
    <2>1. n - y \in Below
      OBVIOUS
    <2>2. x \in Int /\ y \in Int
      OBVIOUS
    <2> QED  BY <1>2, <1>3, <2>1, <2>2
  <1>5. Max(S) \in S /\ \A y \in S : Max(S) >= y
    BY <1>4 DEF Max
  <1>6. S \subseteq Int
    OBVIOUS
  <1> QED  BY <1>5, <1>6

-----------------------------------------------------------------------------
(* Counting. *)

\* A set whose members are numbered from 1 has as many as the last number.
LEMMA Numbered ==
    ASSUME NEW S, NEW number \in [S -> Nat], NEW n \in Nat,
           {number[x] : x \in S} = 1..n,
           \A x, y \in S : number[x] = number[y] => x = y
    PROVE  IsFiniteSet(S) /\ Cardinality(S) = n
  <1>1. number \in Bijection(S, 1..n)
    <2>1. number \in [S -> 1..n]
      OBVIOUS
    <2>2. \A k \in 1..n : \E x \in S : number[x] = k
      OBVIOUS
    <2> QED
      BY <2>1, <2>2 DEF Bijection, Injection, Surjection, IsInjective
  <1>2. ExistsBijection(1..n, S)
    BY <1>1, Fun_ExistsBijSymmetric DEF ExistsBijection
  <1>3. IsFiniteSet(1..n) /\ Cardinality(1..n) = n
    BY FS_Interval
  <1> QED
    BY <1>2, <1>3, FS_Bijection

\* One element more or less.
LEMMA OneMore ==
    ASSUME NEW S, IsFiniteSet(S), NEW T, NEW x, T \subseteq S \cup {x}
    PROVE  IsFiniteSet(T) /\ Cardinality(T) \in Nat /\ Cardinality(T) <= Cardinality(S) + 1
  <1>1. /\ IsFiniteSet(S \cup {x})
        /\ Cardinality(S \cup {x}) = IF x \in S THEN Cardinality(S) ELSE Cardinality(S) + 1
    BY FS_AddElement
  <1>2. Cardinality(S) \in Nat
    BY FS_CardinalityType
  <1>3. IsFiniteSet(T) /\ Cardinality(T) <= Cardinality(S \cup {x})
    BY <1>1, FS_Subset
  <1>4. Cardinality(T) \in Nat
    BY <1>3, FS_CardinalityType
  <1> QED
    BY <1>1, <1>2, <1>3, <1>4

-----------------------------------------------------------------------------
(* Finite sets of numbers have a least and a greatest element. *)

LEMMA FiniteLeast ==
    ASSUME NEW S, S \subseteq Int, S # {}, IsFiniteSet(S)
    PROVE  \E x \in S : \A y \in S : x <= y
  <1> DEFINE Endless(T) == T # {} /\ \A x \in T : \E y \in T : y < x
             Bad == {n \in Nat : \E T \in SUBSET S : Cardinality(T) = n /\ Endless(T)}
  <1>1. \A T \in SUBSET S : IsFiniteSet(T) /\ Cardinality(T) \in Nat
    BY FS_Subset, FS_CardinalityType
  <1>2. Bad = {}
    <2> SUFFICES ASSUME Bad # {} PROVE FALSE
      OBVIOUS
    <2>1. PICK n \in Bad : \A k \in Bad : n <= k
      <3>1. Bad \subseteq Nat
        OBVIOUS
      <3> HIDE DEF Bad
      <3> QED  BY <3>1, LeastExists
    <2>2. PICK T \in SUBSET S : Cardinality(T) = n /\ Endless(T)
      BY <2>1
    <2>3. PICK x \in T : TRUE
      BY <2>2
    <2>4. Cardinality(T \ {x}) = n - 1 /\ T \ {x} \in SUBSET S /\ n - 1 \in Nat
      <3>1. IsFiniteSet(T) /\ T \ {x} \in SUBSET S
        BY <1>1
      <3>2. Cardinality(T \ {x}) = Cardinality(T) - 1
        BY <3>1, <2>3, FS_RemoveElement
      <3>3. Cardinality(T) \in Nat /\ Cardinality(T \ {x}) \in Nat
        BY <3>1, <1>1
      <3> QED  BY <3>1, <3>2, <3>3, <2>2
    <2>5. n - 1 \notin Bad
      BY <2>1, <2>4
    <2>6. ~Endless(T \ {x})
      BY <2>4, <2>5
    <2>7. T \subseteq Int
      OBVIOUS
    <2>8. CASE T \ {x} = {}
      <3>1. \A y \in T : y = x
        BY <2>8
      <3> QED  BY <3>1, <2>2, <2>3, <2>7
    <2>9. CASE T \ {x} # {}
      <3>1. PICK m \in T \ {x} : \A y \in T \ {x} : ~(y < m)
        BY <2>6, <2>9
      <3>2. CASE x < m
        <4>1. \A y \in T : ~(y < x)
          BY <3>1, <3>2, <2>7, <2>3
        <4> QED  BY <4>1, <2>2, <2>3
      <3>3. CASE ~(x < m)
        <4>1. \A y \in T : ~(y < m)
          BY <3>1, <3>3
        <4> QED  BY <4>1, <2>2, <3>1
      <3> QED  BY <3>2, <3>3
    <2> QED  BY <2>8, <2>9
  <1>3. ~Endless(S)
    BY <1>1, <1>2
  <1>4. PICK x \in S : \A y \in S : ~(y < x)
    BY <1>3
  <1>5. \A y \in S : x <= y
    BY <1>4
  <1> QED
    BY <1>5

LEMMA FiniteGreatest ==
    ASSUME NEW S, S \subseteq Int, S # {}, IsFiniteSet(S)
    PROVE  \E x \in S : \A y \in S : y <= x
  <1> DEFINE Opposite == {-x : x \in S}
  <1>1. Opposite \subseteq Int /\ Opposite # {}
    OBVIOUS
  <1>2. IsFiniteSet(Opposite)
    <2> DEFINE f == [x \in S |-> -x]
    <2>1. f \in Surjection(S, Opposite)
      BY DEF Surjection
    <2> QED  BY <2>1, FS_Surjection
  <1>3. PICK z \in Opposite : \A y \in Opposite : z <= y
    <2> HIDE DEF Opposite
    <2> QED  BY <1>1, <1>2, FiniteLeast
  <1>4. PICK x \in S : z = -x
    BY <1>3
  <1>5. \A y \in S : y <= x
    <2> TAKE y \in S
    <2>1. z <= -y
      BY <1>3
    <2>2. x \in Int /\ y \in Int
      OBVIOUS
    <2> QED  BY <2>1, <2>2, <1>4
  <1> QED
    BY <1>5

LEMMA FiniteMin ==
    ASSUME NEW S, S \subseteq Int, S # {}, IsFiniteSet(S)
    PROVE  Min(S) \in S /\ \A y \in S : Min(S) <= y
  BY FiniteLeast DEF Min

LEMMA FiniteMax ==
    ASSUME NEW S, S \subseteq Int, S # {}, IsFiniteSet(S)
    PROVE  Max(S) \in S /\ \A y \in S : y <= Max(S)
  <1>1. PICK x \in S : \A y \in S : y <= x
    BY FiniteGreatest
  <1>2. \A y \in S : x >= y
    BY <1>1
  <1>3. Max(S) \in S /\ \A y \in S : Max(S) >= y
    BY <1>2 DEF Max
  <1>4. \A y \in S : y \in Int
    OBVIOUS
  <1> QED
    BY <1>3, <1>4

\* The CHOOSE of InOrder has what it looks for: of a finite set of numbers, one
\* has exactly n that are not greater.
LEMMA PlaceInOrder ==
    ASSUME NEW S, S \subseteq Int, IsFiniteSet(S), NEW n \in 1..Cardinality(S)
    PROVE  /\ InOrder(S)[n] \in S
           /\ Cardinality({j \in S : j <= InOrder(S)[n]}) = n
  <1> DEFINE UpTo(k) == {j \in S : j <= k}
             Enough == {k \in S : Cardinality(UpTo(k)) >= n}
  <1>1. \A T \in SUBSET S : IsFiniteSet(T) /\ Cardinality(T) \in Nat
    BY FS_Subset, FS_CardinalityType
  <1>2. Cardinality(S) \in Nat /\ n \in Nat /\ n >= 1
    BY <1>1
  <1>3. S # {}
    BY <1>2, FS_EmptySet
  <1>4. Enough # {}
    <2>1. PICK g \in S : \A y \in S : y <= g
      BY <1>3, FiniteGreatest
    <2>2. UpTo(g) = S
      BY <2>1
    <2> QED  BY <2>1, <2>2, <1>2
  <1>5. PICK k \in Enough : \A l \in Enough : k <= l
    <2>1. Enough \subseteq Int /\ IsFiniteSet(Enough)
      BY <1>1
    <2> HIDE DEF Enough
    <2> QED  BY <2>1, <1>4, FiniteLeast
  <1>6. k \in S /\ k \in Int
    BY <1>5
  <1> DEFINE Below == {j \in S : j < k}
  <1>7. Cardinality(UpTo(k)) = Cardinality(Below) + 1
    <2>0. \A j \in S : j <= k <=> j < k \/ j = k
      BY <1>6
    <2>1. UpTo(k) = Below \cup {k}
      BY <1>6, <2>0, ZenonT(20)
    <2>2. k \notin Below
      BY <1>6
    <2>3. IsFiniteSet(Below)
      BY <1>1
    <2> HIDE DEF Below
    <2> QED  BY <2>1, <2>2, <2>3, FS_AddElement
  <1>8. Cardinality(Below) < n
    <2>1. CASE Below = {}
      BY <2>1, <1>2, FS_EmptySet
    <2>2. CASE Below # {}
      <3>1. PICK l \in Below : \A y \in Below : y <= l
        <4>1. Below \subseteq Int /\ IsFiniteSet(Below)
          BY <1>1
        <4> HIDE DEF Below
        <4> QED  BY <4>1, <2>2, FiniteGreatest
      <3>2. UpTo(l) = Below
        <4>1. l \in Int /\ l < k
          BY <3>1
        <4>2. \A j \in S : j <= l => j < k
          BY <4>1, <1>6
        <4>3. \A j \in S : j < k => j <= l
          BY <3>1
        <4> QED  BY <4>2, <4>3
      <3>3. l \notin Enough
        BY <3>1, <1>5, <1>6
      <3>4. ~(Cardinality(UpTo(l)) >= n) /\ Cardinality(Below) \in Nat
        BY <3>1, <3>3, <1>1
      <3> QED  BY <3>2, <3>4, <1>2
    <2> QED  BY <2>1, <2>2
  <1>9. Cardinality(UpTo(k)) >= n /\ Cardinality(Below) \in Nat
    BY <1>5, <1>1
  <1>10. Cardinality({j \in S : j <= k}) = n
    BY <1>2, <1>7, <1>8, <1>9
  <1>11. InOrder(S)[n] = CHOOSE i \in S : Cardinality({j \in S : j <= i}) = n
    BY DEF InOrder
  <1> HIDE DEF Below, Enough, UpTo
  <1> QED
    BY <1>6, <1>10, <1>11

-----------------------------------------------------------------------------
(* Sums over finite sets. *)

\* What SumFunction computes: of each part of the domain, one member after
\* the other.
Picked(s) == CHOOSE x \in s : TRUE
SumStep(f, it, s) == IF s = {} THEN 0 ELSE f[Picked(s)] + it[s \ {Picked(s)}]
Sums(f, it) ==
    /\ it \in [SUBSET DOMAIN f -> Int]
    /\ \A s \in SUBSET DOMAIN f : it[s] = SumStep(f, it, s)

LEMMA SumsExist ==
    ASSUME NEW f, IsFiniteSet(DOMAIN f), \A x \in DOMAIN f : f[x] \in Int
    PROVE  \E it : Sums(f, it)
  <1> DEFINE D == DOMAIN f
             UpTo(it, n) == /\ it \in [SUBSET D -> Int]
                            /\ \A s \in SUBSET D : Cardinality(s) <= n => it[s] = SumStep(f, it, s)
             Bad == {n \in Nat : ~\E it : UpTo(it, n)}
  <1>0. \A s \in SUBSET D : IsFiniteSet(s) /\ Cardinality(s) \in Nat
    BY FS_Subset, FS_CardinalityType
  <1>1. \A s \in SUBSET D : s # {} => Picked(s) \in s
    BY DEF Picked
  <1>2. \A it \in [SUBSET D -> Int] : \A s \in SUBSET D : SumStep(f, it, s) \in Int
    <2> TAKE it \in [SUBSET D -> Int]
    <2> TAKE s \in SUBSET D
    <2>1. CASE s = {}
      BY <2>1 DEF SumStep
    <2>2. CASE s # {}
      <3>1. Picked(s) \in D /\ s \ {Picked(s)} \in SUBSET D
        BY <1>1, <2>2
      <3>2. f[Picked(s)] \in Int /\ it[s \ {Picked(s)}] \in Int
        BY <3>1
      <3> QED  BY <3>2, <2>2 DEF SumStep
    <2> QED  BY <2>1, <2>2
  <1> DEFINE next(it) == [s \in SUBSET D |-> SumStep(f, it, s)]
  <1>3. ASSUME NEW it, NEW n \in Nat, UpTo(it, n - 1) PROVE UpTo(next(it), n)
    <2>1. next(it) \in [SUBSET D -> Int]
      BY <1>2, <1>3
    <2>2. ASSUME NEW s \in SUBSET D, Cardinality(s) <= n
          PROVE  next(it)[s] = SumStep(f, next(it), s)
      <3>1. next(it)[s] = SumStep(f, it, s)
        OBVIOUS
      <3>2. CASE s = {}
        BY <3>1, <3>2 DEF SumStep
      <3>3. CASE s # {}
        <4> DEFINE rest == s \ {Picked(s)}
        <4>1. rest \in SUBSET D /\ Picked(s) \in s
          BY <1>1, <3>3
        <4>2. Cardinality(rest) = Cardinality(s) - 1
          BY <1>0, <4>1, FS_RemoveElement
        <4>3. Cardinality(rest) <= n - 1
          BY <1>0, <2>2, <4>2
        <4>4. it[rest] = SumStep(f, it, rest)
          BY <1>3, <4>1, <4>3
        <4>5. next(it)[rest] = it[rest]
          BY <4>1, <4>4
        <4> QED  BY <3>1, <3>3, <4>5 DEF SumStep
      <3> QED  BY <3>2, <3>3
    <2> QED  BY <2>1, <2>2
  <1>4. Bad = {}
    <2> SUFFICES ASSUME Bad # {} PROVE FALSE
      OBVIOUS
    <2>1. PICK n \in Bad : \A k \in Bad : n <= k
      <3>1. Bad \subseteq Nat
        OBVIOUS
      <3> HIDE DEF Bad
      <3> QED  BY <3>1, LeastExists
    <2>2. PICK it : UpTo(it, n - 1)
      <3>1. CASE n = 0
        <4> DEFINE none == [s \in SUBSET D |-> 0]
        <4>1. \A s \in SUBSET D : ~(Cardinality(s) <= n - 1)
          BY <1>0, <3>1
        <4>2. none \in [SUBSET D -> Int]
          OBVIOUS
        <4>3. UpTo(none, n - 1)
          BY <4>1, <4>2
        <4> HIDE DEF UpTo, none
        <4> QED  BY <4>3
      <3>2. CASE n # 0
        <4>1. n \in Nat
          BY <2>1
        <4>2. n - 1 \in Nat /\ ~(n <= n - 1)
          BY <4>1, <3>2
        <4>3. n - 1 \notin Bad
          <5> HIDE DEF Bad
          <5> QED  BY <2>1, <4>2
        <4> QED  BY <4>2, <4>3
      <3> QED  BY <3>1, <3>2
    <2>3. UpTo(next(it), n)
      BY <1>3, <2>1, <2>2
    <2> HIDE DEF UpTo, next
    <2> QED  BY <2>1, <2>3
  <1>5. Cardinality(D) \in Nat /\ Cardinality(D) \notin Bad
    BY <1>0, <1>4
  <1>6. PICK it : UpTo(it, Cardinality(D))
    BY <1>5
  <1>7. \A s \in SUBSET D : Cardinality(s) <= Cardinality(D)
    BY FS_Subset
  <1>8. Sums(f, it)
    BY <1>6, <1>7 DEF Sums
  <1> QED
    BY <1>8

LEMMA SumIsSums ==
    ASSUME NEW f, IsFiniteSet(DOMAIN f), \A x \in DOMAIN f : f[x] \in Int
    PROVE  \E it : Sums(f, it) /\ SumFunction(f) = it[DOMAIN f]
  <1> DEFINE Is(it) == it = [s \in SUBSET DOMAIN f |-> SumStep(f, it, s)]
             iter == CHOOSE it : Is(it)
  <1>1. PICK it : Sums(f, it)
    BY SumsExist
  <1>2. Is(it)
    BY <1>1 DEF Sums
  <1>3. Is(iter)
    BY <1>2
  <1> DEFINE Bad == {n \in Nat : \E s \in SUBSET DOMAIN f : Cardinality(s) = n /\ iter[s] \notin Int}
  <1> HIDE DEF iter
  <1>4. Bad = {}
    <2> SUFFICES ASSUME Bad # {} PROVE FALSE
      OBVIOUS
    <2>1. PICK n \in Bad : \A k \in Bad : n <= k
      <3>1. Bad \subseteq Nat
        OBVIOUS
      <3> HIDE DEF Bad
      <3> QED  BY <3>1, LeastExists
    <2>2. PICK s \in SUBSET DOMAIN f : Cardinality(s) = n /\ iter[s] \notin Int
      BY <2>1
    <2>3. iter[s] = SumStep(f, iter, s)
      BY <1>3
    <2>4. s # {}
      BY <2>2, <2>3 DEF SumStep
    <2>5. Picked(s) \in s
      BY <2>4 DEF Picked
    <2> DEFINE rest == s \ {Picked(s)}
    <2>6. IsFiniteSet(s) /\ rest \in SUBSET DOMAIN f
      BY FS_Subset
    <2>7. Cardinality(rest) = Cardinality(s) - 1 /\ IsFiniteSet(rest)
      BY <2>5, <2>6, FS_RemoveElement
    <2>8. Cardinality(rest) \in Nat /\ Cardinality(s) \in Nat
      BY <2>6, <2>7, FS_CardinalityType
    <2>9. Cardinality(rest) \notin Bad
      <3>1. ~(n <= Cardinality(rest))
        BY <2>2, <2>7, <2>8
      <3> HIDE DEF Bad
      <3> QED  BY <2>1, <3>1
    <2>10. iter[rest] \in Int
      BY <2>6, <2>8, <2>9
    <2>11. f[Picked(s)] \in Int
      BY <2>5
    <2> QED  BY <2>2, <2>3, <2>4, <2>10, <2>11 DEF SumStep
  <1>5. \A s \in SUBSET DOMAIN f : iter[s] \in Int
    <2> TAKE s \in SUBSET DOMAIN f
    <2>1. Cardinality(s) \in Nat
      BY FS_Subset, FS_CardinalityType
    <2>2. Cardinality(s) \notin Bad
      BY <1>4
    <2> QED  BY <2>1, <2>2
  <1>6. Sums(f, iter)
    BY <1>3, <1>5 DEF Sums
  <1>7. SumFunction(f) = iter[DOMAIN f]
    BY DEF SumFunction, SumFunctionOnSet, FoldFunctionOnSet, MapThenFoldSet, SumStep, Picked, iter
  <1> QED
    BY <1>6, <1>7

LEMMA SumIsNumber ==
    ASSUME NEW f, IsFiniteSet(DOMAIN f), \A x \in DOMAIN f : f[x] \in Int
    PROVE  SumFunction(f) \in Int
  <1>1. PICK it : Sums(f, it) /\ SumFunction(f) = it[DOMAIN f]
    BY SumIsSums
  <1> QED
    BY <1>1 DEF Sums

\* Members counted class by class are counted once each.
LEMMA SumOfClasses ==
    ASSUME NEW S, IsFiniteSet(S), NEW f, IsFiniteSet(DOMAIN f), NEW class \in [S -> DOMAIN f],
           \A l \in DOMAIN f : f[l] = Cardinality({x \in S : class[x] = l})
    PROVE  SumFunction(f) = Cardinality(S)
  <1> DEFINE In(s) == {x \in S : class[x] \in s}
             Of(l) == {x \in S : class[x] = l}
  <1>1. \A T \in SUBSET S : IsFiniteSet(T) /\ Cardinality(T) \in Nat
    BY FS_Subset, FS_CardinalityType
  <1>2. \A l \in DOMAIN f : f[l] = Cardinality(Of(l)) /\ f[l] \in Int
    BY <1>1
  <1>3. PICK it : Sums(f, it) /\ SumFunction(f) = it[DOMAIN f]
    BY <1>2, SumIsSums
  <1> DEFINE Bad == {n \in Nat : \E s \in SUBSET DOMAIN f :
                                    Cardinality(s) = n /\ it[s] # Cardinality(In(s))}
  <1>4. Bad = {}
    <2> SUFFICES ASSUME Bad # {} PROVE FALSE
      OBVIOUS
    <2>1. PICK n \in Bad : \A k \in Bad : n <= k
      <3>1. Bad \subseteq Nat
        OBVIOUS
      <3> HIDE DEF Bad
      <3> QED  BY <3>1, LeastExists
    <2>2. PICK s \in SUBSET DOMAIN f : Cardinality(s) = n /\ it[s] # Cardinality(In(s))
      BY <2>1
    <2>3. it[s] = SumStep(f, it, s)
      BY <1>3 DEF Sums
    <2>4. s # {}
      <3>1. In({}) = {}
        OBVIOUS
      <3>2. Cardinality(In({})) = 0
        BY <3>1, FS_EmptySet
      <3> QED  BY <2>2, <2>3, <3>2 DEF SumStep
    <2> DEFINE p == Picked(s)
               rest == s \ {p}
    <2>5. p \in s
      BY <2>4 DEF Picked
    <2>6. IsFiniteSet(s) /\ rest \in SUBSET DOMAIN f
      BY FS_Subset
    <2>7. Cardinality(rest) = Cardinality(s) - 1 /\ IsFiniteSet(rest)
      BY <2>5, <2>6, FS_RemoveElement
    <2>8. Cardinality(rest) \in Nat /\ Cardinality(s) \in Nat
      BY <2>6, <2>7, FS_CardinalityType
    <2>9. Cardinality(rest) \notin Bad
      <3>1. ~(n <= Cardinality(rest))
        BY <2>2, <2>7, <2>8
      <3> HIDE DEF Bad
      <3> QED  BY <2>1, <3>1
    <2>10. it[rest] = Cardinality(In(rest))
      BY <2>6, <2>8, <2>9
    <2>11. In(s) = In(rest) \cup Of(p) /\ In(rest) \cap Of(p) = {}
      BY <2>5
    <2>12. Cardinality(In(s)) = Cardinality(In(rest)) + Cardinality(Of(p))
      <3>1. IsFiniteSet(In(rest)) /\ IsFiniteSet(Of(p))
        BY <1>1
      <3>2. Cardinality(In(rest)) \in Nat /\ Cardinality(Of(p)) \in Nat
        BY <1>1
      <3>3. Cardinality(In(rest) \cap Of(p)) = 0
        BY <2>11, FS_EmptySet
      <3> HIDE DEF In, Of, rest, p
      <3>4. Cardinality(In(rest) \cup Of(p))
              = Cardinality(In(rest)) + Cardinality(Of(p)) - Cardinality(In(rest) \cap Of(p))
        BY <3>1, FS_Union
      <3> QED  BY <2>11, <3>2, <3>3, <3>4
    <2>13. it[s] = f[p] + it[rest]
      BY <2>3, <2>4 DEF SumStep
    <2>14. f[p] = Cardinality(Of(p)) /\ f[p] \in Int /\ Cardinality(In(rest)) \in Nat
      BY <1>1, <1>2, <2>5
    <2> HIDE DEF In, Of, rest, p
    <2> QED  BY <2>2, <2>10, <2>12, <2>13, <2>14
  <1>5. it[DOMAIN f] = Cardinality(In(DOMAIN f))
    <2>1. Cardinality(DOMAIN f) \in Nat /\ Cardinality(DOMAIN f) \notin Bad
      BY <1>4, FS_CardinalityType
    <2> QED  BY <2>1
  <1>6. In(DOMAIN f) = S
    OBVIOUS
  <1> QED
    BY <1>3, <1>5, <1>6
=============================================================================
