-------------------------------- MODULE Sums --------------------------------
(***************************************************************************)
(* Lemmas about sums over finite sets, as SumFunctionOnSet of the community*)
(* modules computes them, and about the places in an order.  The induction *)
(* theorems of the library take a predicate; here induction is over a set  *)
(* of numbers or of finite sets, which the provers can instantiate.        *)
(***************************************************************************)
EXTENDS Functions, FiniteSetTheorems, WellFoundedInduction, TLAPS

\* Induction over numbers and over finite sets, stated with sets instead of predicates.
LEMMA SmallestNumber ==
    ASSUME NEW T \in SUBSET Nat, T # {}
    PROVE  \E n \in T : \A m \in T : n <= m
<1>1. PICK x \in T : \A n \in T : ~(<<n, x>> \in OpToRel(<, Nat))
  BY NatLessThanWellFounded, WFMin
<1>2. \A n \in T : ~(n < x)
  BY <1>1 DEF OpToRel
<1>3. \A n \in T : x <= n
  BY <1>2
<1> QED BY <1>3

\* Induction over numbers.
LEMMA NumberInduction ==
    ASSUME NEW A \in SUBSET Nat, 0 \in A, \A n \in A : n + 1 \in A
    PROVE  A = Nat
<1> SUFFICES ASSUME Nat \ A # {} PROVE FALSE
  OBVIOUS
<1>1. PICK n \in Nat \ A : \A m \in Nat \ A : n <= m
  BY SmallestNumber
<1>2. n # 0 /\ n - 1 \in Nat /\ ~(n <= n - 1)
  BY <1>1
<1>3. n - 1 \in A
  BY <1>1, <1>2
<1>4. (n - 1) + 1 \in A
  BY <1>3
<1> QED BY <1>1, <1>4

\* Induction over the subsets of a finite set.
LEMMA SetInduction ==
    ASSUME NEW S, IsFiniteSet(S), NEW F, {} \in F,
           \A T \in F : \A x \in S \ T : T \cup {x} \in F
    PROVE  S \in F
<1> DEFINE A == {n \in Nat : \A T \in SUBSET S : Cardinality(T) = n => T \in F}
<1>1. \A T \in SUBSET S : IsFiniteSet(T) /\ Cardinality(T) \in Nat
  BY FS_Subset, FS_CardinalityType
<1>2. 0 \in A
  BY <1>1, FS_EmptySet
<1>3. ASSUME NEW n \in A PROVE n + 1 \in A
  <2> SUFFICES ASSUME NEW T \in SUBSET S, Cardinality(T) = n + 1 PROVE T \in F
    OBVIOUS
  <2>1. n \in Nat /\ \A U \in SUBSET S : Cardinality(U) = n => U \in F
    OBVIOUS
  <2> HIDE DEF A
  <2>2. PICK x \in T : TRUE
    <3>1. Cardinality({}) = 0 /\ n + 1 # 0
      BY <2>1, FS_EmptySet
    <3> QED BY <3>1
  <2>3. Cardinality(T \ {x}) = n /\ T \ {x} \in SUBSET S
    <3>1. IsFiniteSet(T) /\ Cardinality(T \ {x}) = Cardinality(T) - 1
      BY <1>1, FS_RemoveElement
    <3> QED BY <2>1, <3>1
  <2>4. T \ {x} \in F /\ x \in S \ (T \ {x})
    BY <2>1, <2>3
  <2>5. (T \ {x}) \cup {x} \in F /\ T = (T \ {x}) \cup {x}
    BY <2>4
  <2> QED BY <2>5
<1>4. A \in SUBSET Nat
  OBVIOUS
<1> HIDE DEF A
<1>5. A = Nat
  BY <1>2, <1>3, <1>4, NumberInduction
<1> QED BY <1>1, <1>5 DEF A

\* The values of a function on a finite set.
LEMMA FiniteImage ==
    ASSUME NEW S, IsFiniteSet(S), NEW f PROVE IsFiniteSet({f[x] : x \in S})
<1> DEFINE T == {f[x] : x \in S}
           g == [x \in S |-> f[x]]
<1>1. g \in Surjection(S, T)
  BY DEF Surjection
<1> HIDE DEF g, T
<1>2. IsFiniteSet(T)
  BY <1>1, FS_Surjection
<1> QED BY <1>2 DEF T

-----------------------------------------------------------------------------
OneOf(s) == CHOOSE x \in s : TRUE
NextSum(f, g, s) == IF s = {} THEN 0 ELSE f[OneOf(s)] + g[s \ {OneOf(s)}]

\* The sum as the community modules define it.
LEMMA SumUnfolded ==
    ASSUME NEW f, NEW S
    PROVE  SumFunctionOnSet(f, S) = (CHOOSE g : g = [s \in SUBSET S |-> NextSum(f, g, s)])[S]
BY DEF SumFunctionOnSet, FoldFunctionOnSet, MapThenFoldSet, NextSum, OneOf

\* An element is picked from a set that has one.
LEMMA PickIn == ASSUME NEW s, s # {} PROVE OneOf(s) \in s
BY DEF OneOf

\* The recursive function that the definition chooses exists.
LEMMA SumsExist ==
    ASSUME NEW S, IsFiniteSet(S), NEW f, \A x \in S : f[x] \in Int
    PROVE  \E g : g = [s \in SUBSET S |-> NextSum(f, g, s)] /\ \A s \in SUBSET S : g[s] \in Int
<1> DEFINE UpTo(n) == {s \in SUBSET S : Cardinality(s) <= n}
           Good(n, g) == g = [s \in UpTo(n) |-> NextSum(f, g, s)] /\ \A s \in UpTo(n) : g[s] \in Int
           A == {n \in Nat : \E g : Good(n, g)}
<1>1. \A T \in SUBSET S : IsFiniteSet(T) /\ Cardinality(T) \in Nat
  BY FS_Subset, FS_CardinalityType
<1>2. 0 \in A
  <2> DEFINE g == [s \in UpTo(0) |-> 0]
  <2>1. \A s \in UpTo(0) : s = {}
    BY <1>1, FS_EmptySet
  <2>2. g = [s \in UpTo(0) |-> NextSum(f, g, s)]
    BY <2>1 DEF NextSum
  <2>3. Good(0, g)
    BY <2>2
  <2> QED BY <2>3
<1>3. ASSUME NEW n \in A PROVE n + 1 \in A
  <2>1. PICK g : Good(n, g)
    OBVIOUS
  <2> DEFINE h == [s \in UpTo(n + 1) |-> NextSum(f, g, s)]
  <2>2. ASSUME NEW s \in UpTo(n + 1), s # {}
        PROVE  OneOf(s) \in S /\ s \ {OneOf(s)} \in UpTo(n)
    <3>1. OneOf(s) \in s
      BY <2>2, PickIn
    <3>2. Cardinality(s \ {OneOf(s)}) = Cardinality(s) - 1
      BY <1>1, <3>1, FS_RemoveElement
    <3>3. Cardinality(s) \in Nat /\ Cardinality(s) <= n + 1
      BY <1>1
    <3>4. Cardinality(s \ {OneOf(s)}) <= n
      BY <3>2, <3>3
    <3> QED BY <3>1, <3>4
  <2>3. \A s \in UpTo(n) : s \in UpTo(n + 1)
    BY <1>1
  <2>4. \A s \in UpTo(n) : h[s] = g[s]
    BY <2>1, <2>3
  <2>5. ASSUME NEW s \in UpTo(n + 1) PROVE NextSum(f, h, s) = NextSum(f, g, s)
    <3>1. s # {} => h[s \ {OneOf(s)}] = g[s \ {OneOf(s)}]
      BY <2>2, <2>4
    <3> HIDE DEF h
    <3> QED BY <3>1 DEF NextSum
  <2>6. \A s \in UpTo(n + 1) : NextSum(f, g, s) \in Int
    <3> SUFFICES ASSUME NEW s \in UpTo(n + 1) PROVE NextSum(f, g, s) \in Int
      OBVIOUS
    <3>1. CASE s = {}
      BY <3>1 DEF NextSum
    <3>2. CASE s # {}
      <4>1. f[OneOf(s)] \in Int /\ g[s \ {OneOf(s)}] \in Int
        BY <2>1, <2>2, <3>2
      <4> QED BY <3>2, <4>1 DEF NextSum
    <3> QED BY <3>1, <3>2
  <2>7. h = [s \in UpTo(n + 1) |-> NextSum(f, h, s)] /\ \A s \in UpTo(n + 1) : h[s] \in Int
    <3> DEFINE D == UpTo(n + 1)
    <3>1. h = [s \in D |-> NextSum(f, g, s)]
      OBVIOUS
    <3>2. \A s \in D : NextSum(f, h, s) = NextSum(f, g, s) /\ NextSum(f, g, s) \in Int
      BY <2>5, <2>6
    <3> HIDE DEF D, h
    <3> QED BY <3>1, <3>2 DEF D
  <2>8. n + 1 \in Nat
    OBVIOUS
  <2> HIDE DEF h
  <2> QED BY <2>7, <2>8
<1>4. Cardinality(S) \in A
  <2> HIDE DEF A
  <2>1. A = Nat
    BY <1>2, <1>3, NumberInduction DEF A
  <2> QED BY <1>1, <2>1
<1>5. UpTo(Cardinality(S)) = SUBSET S
  BY <1>1, FS_Subset
<1> QED BY <1>4, <1>5

\* The sum of a finite set is the value of a function that follows the recursion.
LEMMA SumFollows ==
    ASSUME NEW S, IsFiniteSet(S), NEW f, \A x \in S : f[x] \in Int
    PROVE  \E g : /\ \A s \in SUBSET S : g[s] = NextSum(f, g, s) /\ g[s] \in Int
                 /\ SumFunctionOnSet(f, S) = g[S]
<1> DEFINE Is(g) == g = [s \in SUBSET S |-> NextSum(f, g, s)]
           G == CHOOSE g : Is(g)
<1>1. PICK h : Is(h) /\ \A s \in SUBSET S : h[s] \in Int
  BY SumsExist
<1>2. Is(G)
  BY <1>1
<1>3. SumFunctionOnSet(f, S) = G[S]
  BY SumUnfolded
<1>4. PICK g : g = G
  OBVIOUS
<1> HIDE DEF G
<1>5. \A s \in SUBSET S : g[s] = NextSum(f, g, s)
  BY <1>2, <1>4
<1>6. \A s \in SUBSET S : h[s] = NextSum(f, h, s)
  BY <1>1
<1>7. \A s \in SUBSET S : g[s] = h[s]
  <2> DEFINE A == {n \in Nat : \A s \in SUBSET S : Cardinality(s) = n => g[s] = h[s]}
  <2>1. \A s \in SUBSET S : IsFiniteSet(s) /\ Cardinality(s) \in Nat
    BY FS_Subset, FS_CardinalityType
  <2>2. 0 \in A
    BY <1>5, <1>6, <2>1, FS_EmptySet DEF NextSum
  <2>3. ASSUME NEW n \in A PROVE n + 1 \in A
    <3> SUFFICES ASSUME NEW s \in SUBSET S, Cardinality(s) = n + 1 PROVE g[s] = h[s]
      OBVIOUS
    <3>1. n \in Nat /\ \A t \in SUBSET S : Cardinality(t) = n => g[t] = h[t]
      OBVIOUS
    <3> HIDE DEF A
    <3>2. s # {}
      <4>1. Cardinality({}) = 0 /\ n + 1 # 0
        BY <3>1, FS_EmptySet
      <4> QED BY <4>1
    <3>3. OneOf(s) \in s
      BY <3>2, PickIn
    <3>4. Cardinality(s \ {OneOf(s)}) = Cardinality(s) - 1
      BY <2>1, <3>3, FS_RemoveElement
    <3>5. Cardinality(s \ {OneOf(s)}) = n /\ s \ {OneOf(s)} \in SUBSET S
      BY <3>1, <3>4
    <3>6. g[s \ {OneOf(s)}] = h[s \ {OneOf(s)}]
      BY <3>1, <3>5
    <3>7. NextSum(f, g, s) = NextSum(f, h, s)
      BY <3>2, <3>6 DEF NextSum
    <3> QED BY <1>5, <1>6, <3>7
  <2>4. A \in SUBSET Nat
    OBVIOUS
  <2> HIDE DEF A
  <2>5. A = Nat
    BY <2>2, <2>3, <2>4, NumberInduction
  <2> QED BY <2>1, <2>5 DEF A
<1>8. \A s \in SUBSET S : g[s] \in Int
  BY <1>1, <1>7
<1> HIDE DEF Is
<1> QED BY <1>3, <1>4, <1>5, <1>8

\* Functions that follow the recursion on a set agree with the sums of its subsets.
LEMMA SumIsUnique ==
    ASSUME NEW S, IsFiniteSet(S), NEW f, \A x \in S : f[x] \in Int,
           NEW g, \A s \in SUBSET S : g[s] = NextSum(f, g, s)
    PROVE  \A s \in SUBSET S : g[s] = SumFunctionOnSet(f, s)
<1> SUFFICES ASSUME NEW T \in SUBSET S PROVE g[T] = SumFunctionOnSet(f, T)
  OBVIOUS
<1>1. IsFiniteSet(T)
  BY FS_Subset
<1>2. PICK h : /\ \A s \in SUBSET T : h[s] = NextSum(f, h, s)
               /\ SumFunctionOnSet(f, T) = h[T]
  BY <1>1, SumFollows
<1> DEFINE A == {n \in Nat : \A s \in SUBSET T : Cardinality(s) = n => g[s] = h[s]}
<1>3. \A s \in SUBSET T : IsFiniteSet(s) /\ Cardinality(s) \in Nat
  BY <1>1, FS_Subset, FS_CardinalityType
<1>4. 0 \in A
  BY <1>2, <1>3, FS_EmptySet DEF NextSum
<1>5. ASSUME NEW n \in A PROVE n + 1 \in A
  <2> SUFFICES ASSUME NEW s \in SUBSET T, Cardinality(s) = n + 1 PROVE g[s] = h[s]
    OBVIOUS
  <2>1. n \in Nat /\ \A t \in SUBSET T : Cardinality(t) = n => g[t] = h[t]
    OBVIOUS
  <2> HIDE DEF A
  <2>2. s # {}
    <3>1. Cardinality({}) = 0 /\ n + 1 # 0
      BY <2>1, FS_EmptySet
    <3> QED BY <3>1
  <2>3. OneOf(s) \in s
    BY <2>2, PickIn
  <2>4. Cardinality(s \ {OneOf(s)}) = Cardinality(s) - 1
    BY <1>3, <2>3, FS_RemoveElement
  <2>5. Cardinality(s \ {OneOf(s)}) = n /\ s \ {OneOf(s)} \in SUBSET T
    BY <2>1, <2>4
  <2>6. g[s \ {OneOf(s)}] = h[s \ {OneOf(s)}]
    BY <2>1, <2>5
  <2>7. NextSum(f, g, s) = NextSum(f, h, s)
    BY <2>2, <2>6 DEF NextSum
  <2> QED BY <1>2, <2>7
<1>6. A \in SUBSET Nat
  OBVIOUS
<1> HIDE DEF A
<1>7. A = Nat
  BY <1>4, <1>5, <1>6, NumberInduction
<1>8. Cardinality(T) \in Nat /\ T \in SUBSET T
  BY <1>3
<1>9. g[T] = h[T]
  BY <1>7, <1>8 DEF A
<1> QED BY <1>2, <1>9

\* The sum of nothing, and the recursion of the sum itself.
LEMMA SumRecursion ==
    ASSUME NEW S, IsFiniteSet(S), NEW f, \A x \in S : f[x] \in Int
    PROVE  /\ SumFunctionOnSet(f, S) \in Int
           /\ S = {} => SumFunctionOnSet(f, S) = 0
           /\ S # {} => /\ OneOf(S) \in S
                        /\ SumFunctionOnSet(f, S) =
                              f[OneOf(S)] + SumFunctionOnSet(f, S \ {OneOf(S)})
<1>1. PICK g : /\ \A s \in SUBSET S : g[s] = NextSum(f, g, s) /\ g[s] \in Int
               /\ SumFunctionOnSet(f, S) = g[S]
  BY SumFollows
<1>2. \A s \in SUBSET S : g[s] = SumFunctionOnSet(f, s)
  BY <1>1, SumIsUnique
<1>3. g[S] = NextSum(f, g, S) /\ g[S] \in Int
  BY <1>1
<1>4. S \ {OneOf(S)} \in SUBSET S
  OBVIOUS
<1> QED BY <1>1, <1>2, <1>3, <1>4, PickIn DEF NextSum

\* The order does not matter: any member can be taken out.
THEOREM SumRemove ==
    ASSUME NEW S, IsFiniteSet(S), NEW f, \A x \in S : f[x] \in Int, NEW e \in S
    PROVE  SumFunctionOnSet(f, S) = f[e] + SumFunctionOnSet(f, S \ {e})
<1> DEFINE Out(T, x) == SumFunctionOnSet(f, T) = f[x] + SumFunctionOnSet(f, T \ {x})
           A == {n \in Nat : \A T \in SUBSET S : Cardinality(T) = n => \A x \in T : Out(T, x)}
<1>1. \A T \in SUBSET S : IsFiniteSet(T) /\ Cardinality(T) \in Nat
  BY FS_Subset, FS_CardinalityType
<1>2. 0 \in A
  BY <1>1, FS_EmptySet
<1>3. ASSUME NEW n \in A PROVE n + 1 \in A
  <2> SUFFICES ASSUME NEW T \in SUBSET S, Cardinality(T) = n + 1, NEW x \in T PROVE Out(T, x)
    OBVIOUS
  <2>1. n \in Nat /\ \A U \in SUBSET S : Cardinality(U) = n => \A y \in U : Out(U, y)
    OBVIOUS
  <2> HIDE DEF A
  <2> DEFINE y == OneOf(T)
  <2>2. y \in T /\ Out(T, y)
    BY <1>1, SumRecursion
  <2>3. CASE x = y
    BY <2>2, <2>3
  <2>4. CASE x # y
    <3> HIDE DEF y
    <3>1. \A z \in T : Cardinality(T \ {z}) = n /\ T \ {z} \in SUBSET S
      <4> SUFFICES ASSUME NEW z \in T PROVE Cardinality(T \ {z}) = n
        OBVIOUS
      <4>1. Cardinality(T \ {z}) = Cardinality(T) - 1
        BY <1>1, FS_RemoveElement
      <4> QED BY <2>1, <4>1
    <3>2. Out(T \ {y}, x) /\ Out(T \ {x}, y)
      <4>1. x \in T \ {y} /\ y \in T \ {x}
        BY <2>2, <2>4
      <4> HIDE DEF Out
      <4> QED BY <2>1, <2>2, <3>1, <4>1
    <3>3. (T \ {y}) \ {x} = (T \ {x}) \ {y}
      OBVIOUS
    <3>4. f[x] \in Int /\ f[y] \in Int /\ SumFunctionOnSet(f, (T \ {x}) \ {y}) \in Int
      BY <1>1, <2>2, SumRecursion
    <3>5. /\ SumFunctionOnSet(f, T) = f[y] + SumFunctionOnSet(f, T \ {y})
          /\ SumFunctionOnSet(f, T \ {y}) = f[x] + SumFunctionOnSet(f, (T \ {x}) \ {y})
          /\ SumFunctionOnSet(f, T \ {x}) = f[y] + SumFunctionOnSet(f, (T \ {x}) \ {y})
      BY <2>2, <3>2, <3>3
    <3>6. SumFunctionOnSet(f, T) = f[x] + SumFunctionOnSet(f, T \ {x})
      BY <3>4, <3>5
    <3> QED BY <3>6
  <2> QED BY <2>3, <2>4
<1>4. A \in SUBSET Nat
  OBVIOUS
<1> HIDE DEF A, Out
<1>5. A = Nat
  BY <1>2, <1>3, <1>4, NumberInduction
<1>6. Out(S, e)
  BY <1>1, <1>5 DEF A
<1> QED BY <1>6 DEF Out

\* A sum is a number; that of nothing is 0.
THEOREM SumIsNumber ==
    ASSUME NEW S, IsFiniteSet(S), NEW f, \A x \in S : f[x] \in Int
    PROVE  SumFunctionOnSet(f, S) \in Int
BY SumRecursion

\* Nothing adds up to 0.
THEOREM SumOfNone == ASSUME NEW f PROVE SumFunctionOnSet(f, {}) = 0
BY SumRecursion, FS_EmptySet

\* A member more.
THEOREM SumAdd ==
    ASSUME NEW S, IsFiniteSet(S), NEW e, e \notin S, NEW f, \A x \in S \cup {e} : f[x] \in Int
    PROVE  /\ IsFiniteSet(S \cup {e})
           /\ SumFunctionOnSet(f, S \cup {e}) = SumFunctionOnSet(f, S) + f[e]
<1>1. IsFiniteSet(S \cup {e}) /\ (S \cup {e}) \ {e} = S
  BY FS_AddElement
<1>2. SumFunctionOnSet(f, S \cup {e}) = f[e] + SumFunctionOnSet(f, S)
  BY <1>1, SumRemove
<1>3. SumFunctionOnSet(f, S) \in Int /\ f[e] \in Int
  BY SumIsNumber
<1> QED BY <1>1, <1>2, <1>3

\* Only the summands matter.
THEOREM SumSame ==
    ASSUME NEW S, IsFiniteSet(S), NEW f, NEW g, \A x \in S : f[x] \in Int /\ g[x] = f[x]
    PROVE  SumFunctionOnSet(g, S) = SumFunctionOnSet(f, S)
<1> DEFINE F == {T \in SUBSET S : SumFunctionOnSet(g, T) = SumFunctionOnSet(f, T)}
<1>1. {} \in F
  BY SumOfNone
<1>2. ASSUME NEW T \in F, NEW x \in S \ T PROVE T \cup {x} \in F
  <2>1. IsFiniteSet(T) /\ \A y \in T \cup {x} : f[y] \in Int /\ g[y] \in Int
    BY FS_Subset
  <2>2. /\ SumFunctionOnSet(f, T \cup {x}) = SumFunctionOnSet(f, T) + f[x]
        /\ SumFunctionOnSet(g, T \cup {x}) = SumFunctionOnSet(g, T) + g[x]
    BY <2>1, SumAdd
  <2> QED BY <2>2
<1> HIDE DEF F
<1>3. S \in F
  BY <1>1, <1>2, SetInduction
<1> QED BY <1>3 DEF F

\* One summand changes.
THEOREM SumChange ==
    ASSUME NEW S, IsFiniteSet(S), NEW f, NEW g, NEW e \in S,
           \A x \in S : f[x] \in Int /\ (x # e => g[x] = f[x]), g[e] \in Int
    PROVE  SumFunctionOnSet(g, S) = SumFunctionOnSet(f, S) - f[e] + g[e]
<1>1. \A x \in S : g[x] \in Int
  OBVIOUS
<1>2. /\ SumFunctionOnSet(f, S) = f[e] + SumFunctionOnSet(f, S \ {e})
      /\ SumFunctionOnSet(g, S) = g[e] + SumFunctionOnSet(g, S \ {e})
  BY <1>1, SumRemove
<1>3. IsFiniteSet(S \ {e})
  BY FS_RemoveElement
<1>4. SumFunctionOnSet(g, S \ {e}) = SumFunctionOnSet(f, S \ {e})
  BY <1>3, SumSame
<1>5. SumFunctionOnSet(f, S \ {e}) \in Int /\ f[e] \in Int
  BY <1>3, SumIsNumber
<1> QED BY <1>2, <1>4, <1>5

\* No summand is smaller.
THEOREM SumOrder ==
    ASSUME NEW S, IsFiniteSet(S), NEW f, NEW g,
           \A x \in S : f[x] \in Int /\ g[x] \in Int /\ f[x] <= g[x]
    PROVE  SumFunctionOnSet(f, S) <= SumFunctionOnSet(g, S)
<1> DEFINE F == {T \in SUBSET S : SumFunctionOnSet(f, T) <= SumFunctionOnSet(g, T)}
<1>1. {} \in F
  BY SumOfNone
<1>2. ASSUME NEW T \in F, NEW x \in S \ T PROVE T \cup {x} \in F
  <2>1. IsFiniteSet(T) /\ \A y \in T \cup {x} : f[y] \in Int /\ g[y] \in Int
    BY FS_Subset
  <2>2. /\ SumFunctionOnSet(f, T \cup {x}) = SumFunctionOnSet(f, T) + f[x]
        /\ SumFunctionOnSet(g, T \cup {x}) = SumFunctionOnSet(g, T) + g[x]
    BY <2>1, SumAdd
  <2>3. SumFunctionOnSet(f, T) \in Int /\ SumFunctionOnSet(g, T) \in Int
    BY <2>1, SumIsNumber
  <2>4. SumFunctionOnSet(f, T) <= SumFunctionOnSet(g, T) /\ f[x] <= g[x]
    OBVIOUS
  <2>5. SumFunctionOnSet(f, T \cup {x}) <= SumFunctionOnSet(g, T \cup {x})
    BY <2>1, <2>2, <2>3, <2>4
  <2> QED BY <2>5
<1> HIDE DEF F
<1>3. S \in F
  BY <1>1, <1>2, SetInduction
<1> QED BY <1>3 DEF F

\* Two parts.
THEOREM SumParts ==
    ASSUME NEW S, IsFiniteSet(S), NEW P \in SUBSET S, NEW f, \A x \in S : f[x] \in Int
    PROVE  SumFunctionOnSet(f, S) = SumFunctionOnSet(f, P) + SumFunctionOnSet(f, S \ P)
<1> DEFINE rest == SumFunctionOnSet(f, S \ P)
           F == {T \in SUBSET P : SumFunctionOnSet(f, T \cup (S \ P)) = SumFunctionOnSet(f, T) + rest}
<1>1. IsFiniteSet(P) /\ IsFiniteSet(S \ P)
  BY FS_Subset
<1>2. {} \in F
  <2>1. rest \in Int /\ {} \cup (S \ P) = S \ P
    BY <1>1, SumIsNumber
  <2>2. SumFunctionOnSet(f, {}) + rest = rest
    BY <2>1, SumOfNone
  <2> QED BY <2>1, <2>2
<1>3. ASSUME NEW T \in F, NEW x \in P \ T PROVE T \cup {x} \in F
  <2>1. T \cup (S \ P) \in SUBSET S /\ x \notin T \cup (S \ P) /\ x \in S
    OBVIOUS
  <2>2. IsFiniteSet(T) /\ IsFiniteSet(T \cup (S \ P))
    BY <1>1, <2>1, FS_Subset
  <2>3. /\ SumFunctionOnSet(f, (T \cup (S \ P)) \cup {x}) = SumFunctionOnSet(f, T \cup (S \ P)) + f[x]
        /\ SumFunctionOnSet(f, T \cup {x}) = SumFunctionOnSet(f, T) + f[x]
    BY <2>1, <2>2, SumAdd
  <2>4. (T \cup (S \ P)) \cup {x} = (T \cup {x}) \cup (S \ P)
    OBVIOUS
  <2>5. SumFunctionOnSet(f, T) \in Int /\ rest \in Int /\ f[x] \in Int
    BY <1>1, <2>2, SumIsNumber
  <2>6. SumFunctionOnSet(f, T \cup (S \ P)) = SumFunctionOnSet(f, T) + rest
    OBVIOUS
  <2>7. PICK U, V, W, r : /\ U = T \cup (S \ P) /\ V = T \cup {x} /\ r = rest
                          /\ W = (T \cup {x}) \cup (S \ P)
    OBVIOUS
  <2>8. SumFunctionOnSet(f, W) = SumFunctionOnSet(f, U) + f[x]
    BY <2>3, <2>4, <2>7
  <2>9. SumFunctionOnSet(f, V) = SumFunctionOnSet(f, T) + f[x]
    BY <2>3, <2>7
  <2>10. SumFunctionOnSet(f, U) = SumFunctionOnSet(f, T) + r /\ r \in Int
    BY <2>5, <2>6, <2>7
  <2>11. SumFunctionOnSet(f, W) = SumFunctionOnSet(f, V) + r
    BY <2>5, <2>8, <2>9, <2>10
  <2> QED BY <2>7, <2>11
<1> HIDE DEF F
<1>4. P \in F
  BY <1>1, <1>2, <1>3, SetInduction
<1>5. P \cup (S \ P) = S
  OBVIOUS
<1> QED BY <1>4, <1>5 DEF F

\* The same summands under other names.
THEOREM SumRenamed ==
    ASSUME NEW S, IsFiniteSet(S), NEW name, \A x, y \in S : name[x] = name[y] => x = y,
           NEW f, NEW g, \A x \in S : g[x] \in Int /\ f[name[x]] = g[x]
    PROVE  /\ IsFiniteSet({name[x] : x \in S})
           /\ SumFunctionOnSet(f, {name[x] : x \in S}) = SumFunctionOnSet(g, S)
<1> DEFINE Names(T) == {name[x] : x \in T}
           F == {T \in SUBSET S : /\ IsFiniteSet(Names(T))
                                  /\ SumFunctionOnSet(f, Names(T)) = SumFunctionOnSet(g, T)}
<1>1. {} \in F
  <2>1. Names({}) = {}
    OBVIOUS
  <2> QED BY <2>1, SumOfNone, FS_EmptySet
<1>2. ASSUME NEW T \in F, NEW x \in S \ T PROVE T \cup {x} \in F
  <2>1. /\ IsFiniteSet(Names(T)) /\ name[x] \notin Names(T) /\ T \cup {x} \in SUBSET S
        /\ Names(T \cup {x}) = Names(T) \cup {name[x]}
        /\ \A n \in Names(T) \cup {name[x]} : f[n] \in Int
        /\ f[name[x]] = g[x]
        /\ SumFunctionOnSet(f, Names(T)) = SumFunctionOnSet(g, T)
    OBVIOUS
  <2> HIDE DEF Names
  <2>2. IsFiniteSet(T) /\ \A y \in T \cup {x} : g[y] \in Int
    BY FS_Subset
  <2>3. SumFunctionOnSet(g, T \cup {x}) = SumFunctionOnSet(g, T) + g[x]
    BY <2>2, SumAdd
  <2>4. PICK N, e : N = Names(T) /\ e = name[x]
    OBVIOUS
  <2>5. IsFiniteSet(N) /\ e \notin N /\ \A n \in N \cup {e} : f[n] \in Int
    BY <2>1, <2>4
  <2>6. /\ IsFiniteSet(N \cup {e})
        /\ SumFunctionOnSet(f, N \cup {e}) = SumFunctionOnSet(f, N) + f[e]
    BY <2>5, SumAdd
  <2> QED BY <2>1, <2>3, <2>4, <2>6
<1> HIDE DEF F, Names
<1>3. S \in F
  BY <1>1, <1>2, SetInduction
<1> QED BY <1>3 DEF F, Names

\* Two sums at once.
THEOREM SumOfSums ==
    ASSUME NEW S, IsFiniteSet(S), NEW f, NEW g, NEW h,
           \A x \in S : f[x] \in Int /\ g[x] \in Int /\ h[x] = f[x] + g[x]
    PROVE  SumFunctionOnSet(h, S) = SumFunctionOnSet(f, S) + SumFunctionOnSet(g, S)
<1> DEFINE F == {T \in SUBSET S :
                    SumFunctionOnSet(h, T) = SumFunctionOnSet(f, T) + SumFunctionOnSet(g, T)}
<1>1. {} \in F
  BY SumOfNone
<1>2. ASSUME NEW T \in F, NEW x \in S \ T PROVE T \cup {x} \in F
  <2>1. IsFiniteSet(T) /\ \A y \in T \cup {x} : f[y] \in Int /\ g[y] \in Int /\ h[y] \in Int
    BY FS_Subset
  <2>2. /\ SumFunctionOnSet(f, T \cup {x}) = SumFunctionOnSet(f, T) + f[x]
        /\ SumFunctionOnSet(g, T \cup {x}) = SumFunctionOnSet(g, T) + g[x]
        /\ SumFunctionOnSet(h, T \cup {x}) = SumFunctionOnSet(h, T) + h[x]
    BY <2>1, SumAdd
  <2>3. SumFunctionOnSet(f, T) \in Int /\ SumFunctionOnSet(g, T) \in Int
    BY <2>1, SumIsNumber
  <2>4. SumFunctionOnSet(h, T) = SumFunctionOnSet(f, T) + SumFunctionOnSet(g, T) /\ h[x] = f[x] + g[x]
    OBVIOUS
  <2>5. SumFunctionOnSet(h, T \cup {x}) =
            SumFunctionOnSet(f, T \cup {x}) + SumFunctionOnSet(g, T \cup {x})
    BY <2>1, <2>2, <2>3, <2>4
  <2> QED BY <2>5
<1> HIDE DEF F
<1>3. S \in F
  BY <1>1, <1>2, SetInduction
<1> QED BY <1>3 DEF F

\* Zeros.
THEOREM SumOfZeros ==
    ASSUME NEW S, IsFiniteSet(S), NEW f, \A x \in S : f[x] = 0
    PROVE  SumFunctionOnSet(f, S) = 0
<1> DEFINE F == {T \in SUBSET S : SumFunctionOnSet(f, T) = 0}
<1>1. {} \in F
  BY SumOfNone
<1>2. ASSUME NEW T \in F, NEW x \in S \ T PROVE T \cup {x} \in F
  <2>1. IsFiniteSet(T) /\ \A y \in T \cup {x} : f[y] \in Int
    BY FS_Subset
  <2>2. SumFunctionOnSet(f, T \cup {x}) = SumFunctionOnSet(f, T) + f[x]
    BY <2>1, SumAdd
  <2> QED BY <2>2
<1> HIDE DEF F
<1>3. S \in F
  BY <1>1, <1>2, SetInduction
<1> QED BY <1>3 DEF F

\* What is the opposite everywhere adds up to the opposite.
THEOREM SumOpposite ==
    ASSUME NEW S, IsFiniteSet(S), NEW f, NEW g,
           \A x \in S : f[x] \in Int /\ g[x] \in Int /\ f[x] + g[x] = 0
    PROVE  SumFunctionOnSet(g, S) = -SumFunctionOnSet(f, S)
<1>1. PICK h : h = [x \in S |-> 0]
  OBVIOUS
<1>2. \A x \in S : f[x] \in Int /\ g[x] \in Int /\ h[x] = f[x] + g[x]
  BY <1>1
<1>3. SumFunctionOnSet(h, S) = SumFunctionOnSet(f, S) + SumFunctionOnSet(g, S)
  BY <1>2, SumOfSums
<1>4. SumFunctionOnSet(h, S) = 0
  BY <1>1, SumOfZeros
<1>5. SumFunctionOnSet(f, S) \in Int /\ SumFunctionOnSet(g, S) \in Int
  BY SumIsNumber
<1> QED BY <1>3, <1>4, <1>5

\* A common factor.
THEOREM SumTimes ==
    ASSUME NEW S, IsFiniteSet(S), NEW k \in Int, NEW f, NEW g,
           \A x \in S : f[x] \in Int /\ g[x] = k * f[x]
    PROVE  SumFunctionOnSet(g, S) = k * SumFunctionOnSet(f, S)
<1> DEFINE F == {T \in SUBSET S : SumFunctionOnSet(g, T) = k * SumFunctionOnSet(f, T)}
<1>1. {} \in F
  BY SumOfNone
<1>2. ASSUME NEW T \in F, NEW x \in S \ T PROVE T \cup {x} \in F
  <2>1. IsFiniteSet(T) /\ \A y \in T \cup {x} : f[y] \in Int /\ g[y] \in Int
    BY FS_Subset
  <2>2. /\ SumFunctionOnSet(f, T \cup {x}) = SumFunctionOnSet(f, T) + f[x]
        /\ SumFunctionOnSet(g, T \cup {x}) = SumFunctionOnSet(g, T) + g[x]
    BY <2>1, SumAdd
  <2>3. PICK m, n : m = SumFunctionOnSet(f, T) /\ n = f[x]
    OBVIOUS
  <2>4. m \in Int /\ n \in Int /\ g[x] = k * n /\ SumFunctionOnSet(g, T) = k * m
    BY <2>1, <2>3, SumIsNumber
  <2>5. k * m + k * n = k * (m + n)
    BY <2>4
  <2> QED BY <2>2, <2>3, <2>4, <2>5
<1> HIDE DEF F
<1>3. S \in F
  BY <1>1, <1>2, SetInduction
<1> QED BY <1>3 DEF F

\* The same for each member.
THEOREM SumOfEach ==
    ASSUME NEW S, IsFiniteSet(S), NEW k \in Int, NEW f, \A x \in S : f[x] = k
    PROVE  SumFunctionOnSet(f, S) = k * Cardinality(S)
<1> DEFINE F == {T \in SUBSET S : SumFunctionOnSet(f, T) = k * Cardinality(T)}
<1>1. {} \in F
  BY SumOfNone, FS_EmptySet
<1>2. ASSUME NEW T \in F, NEW x \in S \ T PROVE T \cup {x} \in F
  <2>1. IsFiniteSet(T) /\ \A y \in T \cup {x} : f[y] \in Int
    BY FS_Subset
  <2>2. SumFunctionOnSet(f, T \cup {x}) = SumFunctionOnSet(f, T) + f[x]
    BY <2>1, SumAdd
  <2>3. PICK n : n = Cardinality(T)
    OBVIOUS
  <2>4. n \in Nat /\ Cardinality(T \cup {x}) = n + 1
    BY <2>1, <2>3, FS_CardinalityType, FS_AddElement
  <2>5. k * n + k = k * (n + 1)
    BY <2>4
  <2> QED BY <2>2, <2>3, <2>4, <2>5
<1> HIDE DEF F
<1>3. S \in F
  BY <1>1, <1>2, SetInduction
<1> QED BY <1>3 DEF F

\* Summands that are close add up to sums that are close.
THEOREM SumNear ==
    ASSUME NEW S, IsFiniteSet(S), NEW f, NEW g, NEW h,
           \A x \in S : /\ f[x] \in Int /\ g[x] \in Int /\ h[x] \in Int
                        /\ f[x] <= g[x] + h[x] /\ g[x] <= f[x] + h[x]
    PROVE  /\ SumFunctionOnSet(f, S) <= SumFunctionOnSet(g, S) + SumFunctionOnSet(h, S)
           /\ SumFunctionOnSet(g, S) <= SumFunctionOnSet(f, S) + SumFunctionOnSet(h, S)
<1>1. PICK fh, gh : fh = [x \in S |-> f[x] + h[x]] /\ gh = [x \in S |-> g[x] + h[x]]
  OBVIOUS
<1>2. SumFunctionOnSet(fh, S) = SumFunctionOnSet(f, S) + SumFunctionOnSet(h, S)
  BY <1>1, SumOfSums
<1>3. SumFunctionOnSet(gh, S) = SumFunctionOnSet(g, S) + SumFunctionOnSet(h, S)
  BY <1>1, SumOfSums
<1>4. \A x \in S : f[x] \in Int /\ gh[x] \in Int /\ f[x] <= gh[x]
  BY <1>1
<1>5. \A x \in S : g[x] \in Int /\ fh[x] \in Int /\ g[x] <= fh[x]
  BY <1>1
<1> QED BY <1>2, <1>3, <1>4, <1>5, SumOrder

\* Nothing below zero.
THEOREM SumNotNegative ==
    ASSUME NEW S, IsFiniteSet(S), NEW f, \A x \in S : f[x] \in Nat
    PROVE  SumFunctionOnSet(f, S) \in Nat
<1> DEFINE zero == [x \in S |-> 0]
<1>1. SumFunctionOnSet(zero, S) = 0
  BY SumOfZeros
<1>2. SumFunctionOnSet(zero, S) <= SumFunctionOnSet(f, S)
  BY SumOrder
<1>3. SumFunctionOnSet(f, S) \in Int
  BY SumIsNumber
<1> HIDE DEF zero
<1> QED BY <1>1, <1>2, <1>3

\* Group by group.
THEOREM SumByGroup ==
    ASSUME NEW S, IsFiniteSet(S), NEW K, IsFiniteSet(K), NEW key, \A x \in S : key[x] \in K,
           NEW f, \A x \in S : f[x] \in Int
    PROVE  SumFunctionOnSet(f, S) =
               SumFunctionOnSet([k \in K |-> SumFunctionOnSet(f, {x \in S : key[x] = k})], K)
<1> DEFINE Of(T, k) == {x \in T : key[x] = k}
           GroupSums(T) == [k \in K |-> SumFunctionOnSet(f, Of(T, k))]
           F == {T \in SUBSET S : SumFunctionOnSet(f, T) = SumFunctionOnSet(GroupSums(T), K)}
<1>1. {} \in F
  <2>1. \A k \in K : GroupSums({})[k] = 0
    <3>1. \A k \in K : Of({}, k) = {}
      OBVIOUS
    <3> QED BY <3>1, SumOfNone
  <2> HIDE DEF GroupSums
  <2>2. SumFunctionOnSet(GroupSums({}), K) = 0
    BY <2>1, SumOfZeros
  <2> QED BY <2>2, SumOfNone
<1>2. ASSUME NEW T \in F, NEW x \in S \ T PROVE T \cup {x} \in F
  <2>1. IsFiniteSet(T) /\ \A y \in T \cup {x} : f[y] \in Int
    BY FS_Subset
  <2>2. SumFunctionOnSet(f, T \cup {x}) = SumFunctionOnSet(f, T) + f[x]
    BY <2>1, SumAdd
  <2>3. \A k \in K : IsFiniteSet(Of(T, k)) /\ GroupSums(T)[k] \in Int
    <3> SUFFICES ASSUME NEW k \in K PROVE IsFiniteSet(Of(T, k)) /\ GroupSums(T)[k] \in Int
      OBVIOUS
    <3>1. Of(T, k) \in SUBSET T
      OBVIOUS
    <3>2. IsFiniteSet(Of(T, k)) /\ \A y \in Of(T, k) : f[y] \in Int
      BY <2>1, <3>1, FS_Subset
    <3> HIDE DEF Of
    <3>3. SumFunctionOnSet(f, Of(T, k)) \in Int
      BY <3>2, SumIsNumber
    <3> QED BY <3>2, <3>3
  <2>4. \A k \in K : k # key[x] => GroupSums(T \cup {x})[k] = GroupSums(T)[k]
    <3>1. \A k \in K : k # key[x] => Of(T \cup {x}, k) = Of(T, k)
      OBVIOUS
    <3> HIDE DEF Of
    <3> QED BY <3>1
  <2>5. GroupSums(T \cup {x})[key[x]] = GroupSums(T)[key[x]] + f[x]
    <3>1. PICK k, U, V : k = key[x] /\ U = Of(T, k) /\ V = Of(T \cup {x}, k)
      OBVIOUS
    <3>2. V = U \cup {x} /\ x \notin U
      BY <3>1
    <3>3. U \subseteq S /\ k \in K
      BY <3>1
    <3>4. \A y \in U \cup {x} : f[y] \in Int
      BY <3>3
    <3>5. GroupSums(T)[k] = SumFunctionOnSet(f, U) /\ GroupSums(T \cup {x})[k] = SumFunctionOnSet(f, V)
      BY <3>1, <3>3
    <3>6. IsFiniteSet(U)
      BY <2>3, <3>1, <3>3
    <3> HIDE DEF Of, GroupSums, F
    <3>7. SumFunctionOnSet(f, U \cup {x}) = SumFunctionOnSet(f, U) + f[x]
      <4> HIDE <2>1, <2>2, <2>3, <2>4, <3>1
      <4> QED BY <3>2, <3>4, <3>6, SumAdd
    <3> QED BY <3>1, <3>2, <3>5, <3>7
  <2>6. f[x] \in Int /\ key[x] \in K
    OBVIOUS
  <2>7. SumFunctionOnSet(f, T) = SumFunctionOnSet(GroupSums(T), K)
    OBVIOUS
  <2>8. PICK G, H, k : G = GroupSums(T) /\ H = GroupSums(T \cup {x}) /\ k = key[x]
    OBVIOUS
  <2> HIDE DEF GroupSums, Of
  <2>9. /\ \A l \in K : G[l] \in Int /\ (l # k => H[l] = G[l])
        /\ k \in K /\ G[k] \in Int /\ H[k] = G[k] + f[x] /\ f[x] \in Int
    BY <2>3, <2>4, <2>5, <2>6, <2>8
  <2>10. H[k] \in Int
    BY <2>9
  <2>11. SumFunctionOnSet(H, K) = SumFunctionOnSet(G, K) - G[k] + H[k]
    <3>1. k \in K
      BY <2>9
    <3>2. \A l \in K : G[l] \in Int /\ (l # k => H[l] = G[l])
      BY <2>9
    <3> HIDE <2>8
    <3> QED BY <2>10, <3>1, <3>2, SumChange
  <2>12. SumFunctionOnSet(G, K) \in Int
    BY <2>9, SumIsNumber
  <2>13. SumFunctionOnSet(H, K) = SumFunctionOnSet(G, K) + f[x]
    BY <2>9, <2>11, <2>12
  <2>14. SumFunctionOnSet(f, T \cup {x}) = SumFunctionOnSet(GroupSums(T \cup {x}), K)
    BY <2>2, <2>7, <2>8, <2>13
  <2> QED BY <2>14
<1> HIDE DEF F
<1>3. S \in F
  BY <1>1, <1>2, SetInduction
<1> QED BY <1>3 DEF F

\* Row by row or column by column.
THEOREM SumBothWays ==
    ASSUME NEW S, IsFiniteSet(S), NEW T, IsFiniteSet(T), NEW f,
           \A x \in S : \A y \in T : f[x][y] \in Int
    PROVE  SumFunctionOnSet([x \in S |-> SumFunctionOnSet(f[x], T)], S)
              = SumFunctionOnSet([y \in T |-> SumFunctionOnSet([x \in S |-> f[x][y]], S)], T)
<1>1. PICK row, col : row = [x \in S |-> SumFunctionOnSet(f[x], T)]
                      /\ col = [y \in T |-> [x \in S |-> f[x][y]]]
  OBVIOUS
<1> DEFINE Below(U) == [y \in T |-> SumFunctionOnSet(col[y], U)]
           F == {U \in SUBSET S : SumFunctionOnSet(row, U) = SumFunctionOnSet(Below(U), T)}
<1>2. \A x \in S : row[x] = SumFunctionOnSet(f[x], T) /\ row[x] \in Int
  BY <1>1, SumIsNumber
<1>3. \A y \in T : \A x \in S : col[y][x] = f[x][y] /\ col[y][x] \in Int
  BY <1>1
<1>4. {} \in F
  <2>1. \A y \in T : Below({})[y] = 0
    BY SumOfNone
  <2> HIDE DEF Below
  <2>2. SumFunctionOnSet(Below({}), T) = 0
    BY <2>1, SumOfZeros
  <2> QED BY <2>2, SumOfNone
<1>5. ASSUME NEW U \in F, NEW x \in S \ U PROVE U \cup {x} \in F
  <2>1. IsFiniteSet(U) /\ x \notin U /\ U \in SUBSET S
    BY FS_Subset
  <2>2. \A y \in U \cup {x} : row[y] \in Int
    BY <1>2, <2>1
  <2>3. SumFunctionOnSet(row, U \cup {x}) = SumFunctionOnSet(row, U) + row[x]
    BY ONLY <2>1, <2>2, SumAdd
  <2>4. ASSUME NEW y \in T
        PROVE  /\ Below(U)[y] \in Int /\ f[x][y] \in Int
               /\ Below(U \cup {x})[y] = Below(U)[y] + f[x][y]
    <3>1. PICK c : c = col[y]
      OBVIOUS
    <3>2. \A z \in U \cup {x} : c[z] \in Int
      BY <1>3, <2>1, <3>1
    <3>3. \A z \in U : c[z] \in Int
      BY <3>2
    <3>4. SumFunctionOnSet(c, U \cup {x}) = SumFunctionOnSet(c, U) + c[x]
      BY ONLY <2>1, <3>2, SumAdd
    <3>5. SumFunctionOnSet(c, U) \in Int
      BY ONLY <2>1, <3>3, SumIsNumber
    <3>6. c[x] = f[x][y] /\ f[x][y] \in Int
      BY <1>3, <3>1
    <3> QED BY <3>1, <3>4, <3>5, <3>6
  <2>5. PICK b, B, g : b = Below(U) /\ B = Below(U \cup {x}) /\ g = f[x]
    OBVIOUS
  <2>6. \A y \in T : b[y] \in Int /\ g[y] \in Int /\ B[y] = b[y] + g[y]
    <3> HIDE DEF Below
    <3> QED BY <2>4, <2>5
  <2>7. IsFiniteSet(T)
    OBVIOUS
  <2>8. SumFunctionOnSet(B, T) = SumFunctionOnSet(b, T) + SumFunctionOnSet(g, T)
    BY ONLY <2>6, <2>7, SumOfSums
  <2>9. SumFunctionOnSet(row, U) = SumFunctionOnSet(b, T) /\ row[x] = SumFunctionOnSet(g, T)
    BY <1>2, <2>5
  <2>10. SumFunctionOnSet(row, U \cup {x}) = SumFunctionOnSet(Below(U \cup {x}), T)
    BY <2>3, <2>5, <2>8, <2>9
  <2> QED BY <2>10
<1> HIDE DEF F
<1>6. S \in F
  BY <1>4, <1>5, SetInduction
<1>7. SumFunctionOnSet(row, S) = SumFunctionOnSet(Below(S), T)
  BY <1>6 DEF F
<1>8. \A y \in T : col[y] = [x \in S |-> f[x][y]]
  BY <1>1
<1>9. Below(S) = [y \in T |-> SumFunctionOnSet([x \in S |-> f[x][y]], S)]
  BY <1>8
<1> QED BY <1>1, <1>7, <1>9

-----------------------------------------------------------------------------
\* A strict order of all members of a finite set, as a set of pairs.
IsOrder(S, R) ==
    /\ IsFiniteSet(S)
    /\ \A a \in S : <<a, a>> \notin R
    /\ \A a, b \in S : a # b => <<a, b>> \in R \/ <<b, a>> \in R
    /\ \A a, b, c \in S : <<a, b>> \in R /\ <<b, c>> \in R => <<a, c>> \in R

\* How many come before one of them.
Ahead(S, R, n) == {m \in S : <<m, n>> \in R}
Ranked(S, R) == [n \in S |-> Cardinality(Ahead(S, R, n))]

\* Who comes later has more before it.
LEMMA RanksGrow ==
    ASSUME NEW S, NEW R, IsOrder(S, R)
    PROVE  /\ \A n \in S : Cardinality(Ahead(S, R, n)) \in 0..(Cardinality(S) - 1)
           /\ \A a, b \in S : <<a, b>> \in R =>
                 Cardinality(Ahead(S, R, a)) < Cardinality(Ahead(S, R, b))
<1>1. ASSUME NEW n \in S
      PROVE  Cardinality(Ahead(S, R, n)) \in 0..(Cardinality(S) - 1)
  <2>1. IsFiniteSet(S) /\ S \ {n} \in SUBSET S /\ Cardinality(S \ {n}) = Cardinality(S) - 1
    BY FS_RemoveElement DEF IsOrder
  <2>2. IsFiniteSet(S \ {n}) /\ Ahead(S, R, n) \in SUBSET (S \ {n})
    BY <2>1, FS_Subset DEF IsOrder, Ahead
  <2>3. IsFiniteSet(Ahead(S, R, n)) /\ Cardinality(Ahead(S, R, n)) <= Cardinality(S \ {n})
    BY <2>2, FS_Subset
  <2>4. Cardinality(S) \in Nat /\ Cardinality(Ahead(S, R, n)) \in Nat
    BY <2>1, <2>3, FS_CardinalityType
  <2> QED BY <2>1, <2>3, <2>4
<1>2. ASSUME NEW a \in S, NEW b \in S, <<a, b>> \in R
      PROVE  Cardinality(Ahead(S, R, a)) < Cardinality(Ahead(S, R, b))
  <2> DEFINE before == Ahead(S, R, a)
             after == Ahead(S, R, b)
  <2>1. IsFiniteSet(S) /\ before \in SUBSET S /\ after \in SUBSET S
    BY DEF IsOrder, Ahead
  <2>2. IsFiniteSet(before) /\ IsFiniteSet(after)
    BY <2>1, FS_Subset
  <2>3. before \in SUBSET (after \ {a}) /\ a \in after
    BY <1>2 DEF IsOrder, Ahead
  <2> HIDE DEF before, after
  <2>4. IsFiniteSet(after \ {a}) /\ Cardinality(after \ {a}) = Cardinality(after) - 1
    BY <2>2, <2>3, FS_RemoveElement
  <2>5. Cardinality(before) <= Cardinality(after \ {a})
    BY <2>3, <2>4, FS_Subset
  <2>6. Cardinality(before) \in Nat /\ Cardinality(after) \in Nat
    BY <2>2, FS_CardinalityType
  <2>7. Cardinality(before) < Cardinality(after)
    BY <2>4, <2>5, <2>6
  <2> QED BY <2>7 DEF before, after
<1> QED BY <1>1, <1>2

\* At every place there is one of them, and the order of places is theirs.
LEMMA PlacesAreTaken ==
    ASSUME NEW S, NEW R, IsOrder(S, R), NEW i \in 1..Cardinality(S)
    PROVE  \E n \in S : Cardinality(Ahead(S, R, n)) = i - 1
<1> DEFINE places == 0..(Cardinality(S) - 1)
           f == Ranked(S, R)
<1>1. IsFiniteSet(S) /\ Cardinality(S) \in Nat \ {0}
  BY FS_CardinalityType DEF IsOrder
<1>2. IsFiniteSet(places) /\ Cardinality(places) = Cardinality(S)
  <2>1. PICK k : k = Cardinality(S)
    OBVIOUS
  <2>2. 0 \in Int /\ k - 1 \in Int /\ 0 <= k - 1
    BY <1>1, <2>1
  <2>3. IsFiniteSet(0..(k - 1)) /\ Cardinality(0..(k - 1)) = (k - 1) - 0 + 1
    BY ONLY <2>2, FS_Interval
  <2> QED BY <1>1, <2>1, <2>3
<1>3. f \in [S -> places] /\ \A n \in S : f[n] = Cardinality(Ahead(S, R, n))
  BY RanksGrow DEF Ranked
<1>4. ASSUME NEW a \in S, NEW b \in S, f[a] = f[b] PROVE a = b
  <2>1. f[a] \in Nat /\ f[b] \in Nat
    BY <1>1, <1>3
  <2>2. <<a, b>> \notin R /\ <<b, a>> \notin R
    BY <1>3, <1>4, <2>1, RanksGrow
  <2> QED BY <2>2 DEF IsOrder
<1> HIDE DEF places, f
<1>5. f \in Injection(S, places)
  BY <1>3, <1>4 DEF Injection, IsInjective
<1>6. f \in Surjection(S, places)
  BY <1>2, <1>5, FS_Injection
<1>7. i - 1 \in places
  BY <1>1 DEF places
<1>8. PICK n \in S : f[n] = i - 1
  BY <1>6, <1>7 DEF Surjection
<1> QED BY <1>3, <1>8

\* Each of them has a place, and only one.
LEMMA EachHasItsPlace ==
    ASSUME NEW S, NEW R, IsOrder(S, R), NEW at,
           \A i \in 1..Cardinality(S) : at[i] \in S /\ Cardinality(Ahead(S, R, at[i])) = i - 1
    PROVE  /\ \A i, j \in 1..Cardinality(S) : at[i] = at[j] => i = j
           /\ {at[i] : i \in 1..Cardinality(S)} = S
<1> DEFINE rank(n) == Cardinality(Ahead(S, R, n))
<1>1. Cardinality(S) \in Nat
  BY FS_CardinalityType DEF IsOrder
<1>2. \A i \in 1..Cardinality(S) : at[i] \in S /\ rank(at[i]) = i - 1
  OBVIOUS
<1>3. \A n \in S : rank(n) \in 0..(Cardinality(S) - 1)
  BY RanksGrow
<1>4. \A m, n \in S : rank(m) = rank(n) => m = n
  <2> SUFFICES ASSUME NEW m \in S, NEW n \in S, rank(m) = rank(n), m # n PROVE FALSE
    OBVIOUS
  <2>1. <<m, n>> \in R \/ <<n, m>> \in R
    BY DEF IsOrder
  <2>2. rank(m) < rank(n) \/ rank(n) < rank(m)
    BY <2>1, RanksGrow
  <2> QED BY <1>1, <1>3, <2>2
<1> HIDE DEF rank
<1>5. PICK k : k = Cardinality(S) /\ k \in Nat
  BY <1>1
<1>6. /\ \A i \in 1..k : at[i] \in S /\ rank(at[i]) = i - 1
      /\ \A n \in S : rank(n) \in 0..(k - 1)
  BY <1>2, <1>3, <1>5
<1>7. ASSUME NEW n \in S PROVE \E i \in 1..k : at[i] = n
  <2>1. PICK r, i : r = rank(n) /\ i = r + 1
    OBVIOUS
  <2>2. i \in 1..k /\ i - 1 = r
    BY <1>5, <1>6, <2>1
  <2>3. at[i] = n
    BY <1>4, <1>6, <2>1, <2>2
  <2> QED BY <2>2, <2>3
<1>8. ASSUME NEW i \in 1..k, NEW j \in 1..k, at[i] = at[j] PROVE i = j
  BY <1>5, <1>6, <1>8
<1>9. {at[i] : i \in 1..k} = S
  BY <1>6, <1>7
<1> QED BY <1>5, <1>6, <1>8, <1>9

=============================================================================
