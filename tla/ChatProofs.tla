------------------------------ MODULE ChatProofs ------------------------------
(***************************************************************************)
(* What the panel keeps of what others send: the images that are under way *)
(* and the transcripts with their images (PanelMemory), for any number of  *)
(* senders, channels and messages, and any limits; and the media of the    *)
(* picker and of the transcript (MediaInv), for any searches and media.    *)
(*                                                                         *)
(* The counters are kept by hand beside loops over containers.  A loop is a *)
(* fold here, which the prover knows nothing about: the first part gives   *)
(* folds and loops their meaning (FoldExists, LoopExists), from which what *)
(* each loop keeps follows by induction on its rounds (LeastNumber).       *)
(***************************************************************************)
EXTENDS PanelState, Media, FiniteSetTheorems, SequenceTheorems, WellFoundedInduction, TLAPS
-----------------------------------------------------------------------------
(***************************************************************************)
(* Folds over finite sets, and sums.                                       *)
(***************************************************************************)
\* A set of natural numbers has a least one.
LEMMA LeastNumber ==
  ASSUME NEW T \in SUBSET Nat, T # {}
  PROVE  \E x \in T : \A y \in T : x <= y
<1> DEFINE R == OpToRel(<, Nat)
<1>1. IsWellFoundedOn(R, Nat)
  BY NatLessThanWellFounded
<1>2. R = {ss \in Nat \X Nat : ss[1] < ss[2]}
  BY DEF OpToRel
<1>3. \A x, y \in Nat : x < y => <<x, y>> \in R
  BY <1>2
<1> HIDE DEF R
<1>4. PICK x \in T : \A y \in T : ~ (<<y, x>> \in R)
  BY <1>1, WFMin
<1>5. ASSUME NEW y \in T
      PROVE  x <= y
  <2>1. ~ (y < x)
    BY <1>3, <1>4
  <2> QED
    BY <2>1
<1> QED
  BY <1>5

\* Taking one element from a set that is not empty leaves one fewer.
LEMMA OneFewer ==
  ASSUME NEW S, IsFiniteSet(S), NEW T \in SUBSET S, NEW x \in T
  PROVE  /\ IsFiniteSet(T) /\ Cardinality(T) \in Nat /\ Cardinality(T) # 0
         /\ T \ {x} \in SUBSET S
         /\ Cardinality(T \ {x}) = Cardinality(T) - 1
<1>1. IsFiniteSet(T)
  BY FS_Subset
<1>2. Cardinality(T \ {x}) = Cardinality(T) - 1
  BY <1>1, FS_RemoveElement
<1>3. Cardinality(T) \in Nat
  BY <1>1, FS_CardinalityType
<1>4. Cardinality(T) # 0
  BY <1>1, FS_EmptySet
<1> QED
  BY <1>1, <1>2, <1>3, <1>4

\* pick takes an element of every subset, and the steps stay among the values V.
CanFold(S, V, pick, step) ==
    /\ \A T \in SUBSET S : T # {} => pick[T] \in T
    /\ \A T \in SUBSET S : \A v \in V : T # {} => step[<<T, v>>] \in V
\* f folds the subsets of S from base, in the order pick takes their elements.
FoldsBy(f, S, base, pick, step) ==
    \A T \in SUBSET S :
        f[T] = IF T = {} THEN base ELSE step[<<T, f[T \ {pick[T]}]>>]

\* There is a function that folds the subsets of a finite set.
LEMMA FoldExists ==
  ASSUME NEW S, IsFiniteSet(S), NEW V, NEW base \in V, NEW pick, NEW step,
         CanFold(S, V, pick, step)
  PROVE  \E f \in [SUBSET S -> V] : FoldsBy(f, S, base, pick, step)
<1> USE DEF CanFold
<1> DEFINE Rest(T) == T \ {pick[T]}
           Follows(f, T) == f[T] = IF T = {} THEN base ELSE step[<<T, f[Rest(T)]>>]
           Upto(f, k) == \A T \in SUBSET S : Cardinality(T) <= k => Follows(f, T)
           Good(k) == \E f \in [SUBSET S -> V] : Upto(f, k)
           Bad == {k \in Nat : ~ Good(k)}
<1>0. \A T \in SUBSET S : Cardinality(T) \in Nat /\ (Cardinality(T) = 0 <=> T = {})
  BY FS_Subset, FS_CardinalityType, FS_EmptySet
<1>1. \A T \in SUBSET S : T # {} => Rest(T) \in SUBSET S /\ Cardinality(Rest(T)) = Cardinality(T) - 1
  BY OneFewer
<1> HIDE DEF Rest
<1>2. ASSUME Bad # {} PROVE FALSE
  <2>1. PICK k \in Bad : \A j \in Bad : k <= j
    <3>1. Bad \in SUBSET Nat
      OBVIOUS
    <3> HIDE DEF Bad
    <3> QED
      BY <1>2, <3>1, LeastNumber
  <2>2. k # 0
    <3>1. ASSUME k = 0 PROVE FALSE
      <4> DEFINE f == [T \in SUBSET S |-> base]
      <4>1. f \in [SUBSET S -> V]
        OBVIOUS
      <4>2. \A T \in SUBSET S : Cardinality(T) <= 0 => T = {}
        BY <1>0
      <4>3. Upto(f, 0)
        BY <4>2
      <4> HIDE DEF f, Upto
      <4> QED
        BY <2>1, <3>1, <4>1, <4>3
    <3> QED
      BY <3>1
  <2>3. k \in Nat /\ k - 1 \in Nat /\ ~ (k <= k - 1)
    BY <2>1, <2>2
  <2>4. PICK f \in [SUBSET S -> V] : Upto(f, k - 1)
    <3>1. k - 1 \notin Bad
      BY <2>1, <2>3
    <3> HIDE DEF Upto
    <3> QED
      BY <2>3, <3>1
  <2> DEFINE g == [T \in SUBSET S |->
                     IF Cardinality(T) = k THEN step[<<T, f[Rest(T)]>>] ELSE f[T]]
  <2>5. g \in [SUBSET S -> V]
    <3>1. \A T \in SUBSET S : Cardinality(T) = k => T # {} /\ f[Rest(T)] \in V
      BY <1>0, <1>1, <2>2
    <3>2. \A T \in SUBSET S : Cardinality(T) = k => step[<<T, f[Rest(T)]>>] \in V
      BY <3>1
    <3> QED
      BY <3>2
  <2>6. \A T \in SUBSET S : Cardinality(T) # k => g[T] = f[T]
    OBVIOUS
  <2>7. \A T \in SUBSET S : Cardinality(T) = k => g[T] = step[<<T, f[Rest(T)]>>]
    OBVIOUS
  <2> HIDE DEF g
  <2>8. \A T \in SUBSET S : T # {} /\ Cardinality(T) <= k => g[Rest(T)] = f[Rest(T)]
    BY <1>0, <1>1, <2>3, <2>6
  <2>9. Upto(g, k)
    <3> SUFFICES ASSUME NEW T \in SUBSET S, Cardinality(T) <= k
          PROVE  Follows(g, T)
      OBVIOUS
    <3>1. CASE Cardinality(T) = k
      BY <1>0, <2>2, <2>7, <2>8, <3>1
    <3>2. CASE Cardinality(T) # k
      <4>1. Cardinality(T) <= k - 1
        BY <1>0, <2>3, <3>2
      <4>2. Follows(f, T)
        BY <2>4, <4>1
      <4>3. g[T] = f[T]
        BY <2>6, <3>2
      <4> QED
        BY <2>8, <4>2, <4>3
    <3> QED
      BY <3>1, <3>2
  <2> HIDE DEF Upto
  <2> QED
    BY <2>1, <2>5, <2>9
<1>3. Cardinality(S) \in Nat /\ \A T \in SUBSET S : Cardinality(T) <= Cardinality(S)
  BY FS_Subset, FS_CardinalityType
<1>4. Good(Cardinality(S))
  <2> HIDE DEF Good
  <2> QED
    BY <1>2, <1>3
<1>5. \E f \in [SUBSET S -> V] : \A T \in SUBSET S : Follows(f, T)
  BY <1>3, <1>4
<1> QED
  BY <1>5 DEF Rest, FoldsBy

\* f sums w over the subsets of S, in the order CHOOSE takes them.
IsSum(f, w, S) ==
    f = [T \in SUBSET S |->
            IF T = {} THEN 0
            ELSE w[CHOOSE x \in T : TRUE] + f[T \ {CHOOSE x \in T : TRUE}]]
\* The sum of w over S.
SumOf(w, S) == (CHOOSE f : IsSum(f, w, S))[S]

\* There is a function that sums integers.
LEMMA SumExists ==
  ASSUME NEW S, IsFiniteSet(S), NEW w, \A x \in S : w[x] \in Int
  PROVE  \E f \in [SUBSET S -> Int] : IsSum(f, w, S)
<1> DEFINE AnyOf(T) == CHOOSE x \in T : TRUE
           pick == [T \in SUBSET S |-> AnyOf(T)]
           step == [p \in (SUBSET S) \X Int |-> w[AnyOf(p[1])] + p[2]]
<1>0. \A T \in SUBSET S : T # {} => AnyOf(T) \in T
  OBVIOUS
<1>1. \A T \in SUBSET S : pick[T] = AnyOf(T)
  OBVIOUS
<1>2. \A T \in SUBSET S : \A v \in Int : step[<<T, v>>] = w[AnyOf(T)] + v
  OBVIOUS
<1>3. \A T \in SUBSET S : T # {} => pick[T] \in T
  BY <1>0, <1>1
<1>4. \A T \in SUBSET S : \A v \in Int : T # {} => step[<<T, v>>] \in Int
  <2> SUFFICES ASSUME NEW T \in SUBSET S, NEW v \in Int, T # {}
        PROVE  step[<<T, v>>] \in Int
    OBVIOUS
  <2>1. w[AnyOf(T)] \in Int
    BY <1>0
  <2> HIDE DEF AnyOf, step
  <2> QED
    BY <1>2, <2>1
<1> HIDE DEF pick, step
<1>5. PICK f \in [SUBSET S -> Int] : FoldsBy(f, S, 0, pick, step)
  <2>1. CanFold(S, Int, pick, step)
    BY <1>3, <1>4 DEF CanFold
  <2>2. \A base \in Int : \E f \in [SUBSET S -> Int] : FoldsBy(f, S, base, pick, step)
    BY <2>1, FoldExists
  <2> DEFINE zero == 0
  <2>3. zero \in Int
    OBVIOUS
  <2> HIDE DEF zero
  <2>4. \E f \in [SUBSET S -> Int] : FoldsBy(f, S, zero, pick, step)
    BY <2>2, <2>3
  <2> QED
    BY <2>4 DEF zero
<1>6. \A T \in SUBSET S : f[T] = IF T = {} THEN 0 ELSE w[AnyOf(T)] + f[T \ {AnyOf(T)}]
  <2> SUFFICES ASSUME NEW T \in SUBSET S
        PROVE  f[T] = IF T = {} THEN 0 ELSE w[AnyOf(T)] + f[T \ {AnyOf(T)}]
    OBVIOUS
  <2> HIDE DEF AnyOf
  <2>1. f[T \ {AnyOf(T)}] \in Int
    OBVIOUS
  <2> QED
    BY <1>1, <1>2, <1>5, <2>1 DEF FoldsBy
<1>7. f = [T \in SUBSET S |-> f[T]]
  OBVIOUS
<1> QED
  BY <1>6, <1>7 DEF IsSum

\* Two functions that sum what agrees, agree: a sum is of its elements alone.
LEMMA SumsAgree ==
  ASSUME NEW S, NEW R, NEW T, T \subseteq S, T \subseteq R, IsFiniteSet(T),
         NEW f, NEW g, NEW w, NEW v, IsSum(f, w, S), IsSum(g, v, R),
         \A x \in T : w[x] = v[x]
  PROVE  f[T] = g[T]
<1> DEFINE AnyOf(U) == CHOOSE x \in U : TRUE
           Bad == {n \in Nat : \E U \in SUBSET T : Cardinality(U) = n /\ f[U] # g[U]}
<1>0. /\ \A U \in SUBSET T : f[U] = IF U = {} THEN 0 ELSE w[AnyOf(U)] + f[U \ {AnyOf(U)}]
      /\ \A U \in SUBSET T : g[U] = IF U = {} THEN 0 ELSE v[AnyOf(U)] + g[U \ {AnyOf(U)}]
  <2>1. \A U \in SUBSET T : U \in SUBSET S /\ U \in SUBSET R
    OBVIOUS
  <2> QED
    BY <2>1 DEF IsSum
<1>1. \A U \in SUBSET T : U # {} => AnyOf(U) \in U
  OBVIOUS
<1> HIDE DEF AnyOf
<1>2. ASSUME Bad # {} PROVE FALSE
  <2>1. PICK n \in Bad : \A j \in Bad : n <= j
    <3>1. Bad \in SUBSET Nat
      OBVIOUS
    <3> HIDE DEF Bad
    <3> QED
      BY <1>2, <3>1, LeastNumber
  <2>2. PICK U \in SUBSET T : Cardinality(U) = n /\ f[U] # g[U]
    BY <2>1
  <2>3. U # {} /\ AnyOf(U) \in U
    BY <1>0, <1>1, <2>2
  <2> DEFINE less == U \ {AnyOf(U)}
  <2>4. less \in SUBSET T /\ Cardinality(less) = n - 1 /\ n - 1 \in Nat
    BY <2>2, <2>3, OneFewer
  <2>5. f[less] = g[less]
    <3>1. ~ (n <= n - 1)
      BY <2>1
    <3>2. n - 1 \notin Bad
      BY <2>1, <3>1
    <3> HIDE DEF less
    <3> QED
      BY <2>4, <3>2
  <2> HIDE DEF Bad
  <2> QED
    BY <1>0, <2>2, <2>3, <2>5
<1>3. Cardinality(T) \in Nat
  BY FS_CardinalityType
<1>4. Cardinality(T) \notin Bad
  BY <1>2
<1> QED
  BY <1>3, <1>4

\* What SumOf chooses sums.
LEMMA SumIs ==
  ASSUME NEW S, IsFiniteSet(S), NEW w, \A x \in S : w[x] \in Int, NEW f, IsSum(f, w, S)
  PROVE  f[S] = SumOf(w, S)
<1> DEFINE P(g) == IsSum(g, w, S)
           chosen == CHOOSE g : P(g)
<1>1. P(chosen)
  <2>1. \E g : P(g)
    OBVIOUS
  <2> HIDE DEF P
  <2> QED BY <2>1
<1>2. SumOf(w, S) = chosen[S]
  BY DEF SumOf
<1> HIDE DEF chosen
<1>3. f[S] = chosen[S]
  BY <1>1, SumsAgree
<1> QED
  BY <1>2, <1>3

\* A sum is a sum of what is there.
LEMMA SumSame ==
  ASSUME NEW S, IsFiniteSet(S), NEW w, NEW v, \A x \in S : w[x] \in Int /\ w[x] = v[x]
  PROVE  SumOf(w, S) = SumOf(v, S)
<1>1. PICK f \in [SUBSET S -> Int] : IsSum(f, w, S)
  BY SumExists
<1>2. PICK g \in [SUBSET S -> Int] : IsSum(g, v, S)
  BY SumExists
<1>3. f[S] = g[S]
  BY <1>1, <1>2, SumsAgree
<1>4. f[S] = SumOf(w, S)
  BY <1>1, SumIs
<1>5. g[S] = SumOf(v, S)
  BY <1>2, SumIs
<1> QED
  BY <1>3, <1>4, <1>5

\* The sum of integers is an integer, of nothing it is zero, and it takes one
\* element after the other.
LEMMA SumFacts ==
  ASSUME NEW S, IsFiniteSet(S), NEW w, \A x \in S : w[x] \in Int
  PROVE  /\ SumOf(w, S) \in Int
         /\ S = {} => SumOf(w, S) = 0
         /\ S # {} => \E x \in S : SumOf(w, S) = w[x] + SumOf(w, S \ {x})
<1> DEFINE AnyOf(U) == CHOOSE x \in U : TRUE
<1>1. PICK f \in [SUBSET S -> Int] : IsSum(f, w, S)
  BY SumExists
<1>2. f[S] = SumOf(w, S)
  BY <1>1, SumIs
<1>3. f[S] = IF S = {} THEN 0 ELSE w[AnyOf(S)] + f[S \ {AnyOf(S)}]
  BY <1>1 DEF IsSum
<1>4. S # {} => AnyOf(S) \in S
  OBVIOUS
<1> HIDE DEF AnyOf
<1>5. f[S] \in Int
  BY <1>1
<1>6. ASSUME S # {}
      PROVE  \E x \in S : SumOf(w, S) = w[x] + SumOf(w, S \ {x})
  <2> DEFINE R == S \ {AnyOf(S)}
  <2>1. IsFiniteSet(R) /\ R \subseteq S
    BY <1>4, <1>6, FS_Subset
  <2> HIDE DEF R
  <2>2. PICK g \in [SUBSET R -> Int] : IsSum(g, w, R)
    BY <2>1, SumExists
  <2>3. f[R] = g[R]
    BY <1>1, <2>1, <2>2, SumsAgree
  <2>4. g[R] = SumOf(w, R)
    BY <2>1, <2>2, SumIs
  <2> QED
    BY <1>2, <1>3, <1>4, <1>6, <2>3, <2>4 DEF R
<1> QED
  BY <1>2, <1>3, <1>5, <1>6

\* The order does not matter: any element may be taken first.
LEMMA SumTakes ==
  ASSUME NEW S, IsFiniteSet(S), NEW w, \A x \in S : w[x] \in Int, NEW e \in S
  PROVE  SumOf(w, S) = w[e] + SumOf(w, S \ {e})
<1> DEFINE Takes(U) == \A a \in U : SumOf(w, U) = w[a] + SumOf(w, U \ {a})
           Bad == {n \in Nat : \E U \in SUBSET S : Cardinality(U) = n /\ ~ Takes(U)}
<1>1. \A U \in SUBSET S : IsFiniteSet(U) /\ SumOf(w, U) \in Int
  <2> SUFFICES ASSUME NEW U \in SUBSET S PROVE IsFiniteSet(U) /\ SumOf(w, U) \in Int
    OBVIOUS
  <2>1. IsFiniteSet(U)
    BY FS_Subset
  <2> QED
    BY <2>1, SumFacts
<1>2. ASSUME Bad # {} PROVE FALSE
  <2>1. PICK n \in Bad : \A j \in Bad : n <= j
    <3>1. Bad \in SUBSET Nat
      OBVIOUS
    <3> HIDE DEF Bad
    <3> QED
      BY <1>2, <3>1, LeastNumber
  <2>2. PICK U \in SUBSET S : Cardinality(U) = n /\ ~ Takes(U)
    BY <2>1
  <2>3. PICK a \in U : SumOf(w, U) # w[a] + SumOf(w, U \ {a})
    BY <2>2
  <2>4. PICK b \in U : SumOf(w, U) = w[b] + SumOf(w, U \ {b})
    <3>1. IsFiniteSet(U) /\ U # {} /\ \A x \in U : w[x] \in Int
      BY <1>1
    <3> QED
      BY <3>1, SumFacts
  <2>5. a # b
    BY <2>3, <2>4
  <2>6. /\ U \ {b} \in SUBSET S /\ Cardinality(U \ {b}) = n - 1
        /\ U \ {a} \in SUBSET S /\ Cardinality(U \ {a}) = n - 1 /\ n - 1 \in Nat
    <3>1. U \ {b} \in SUBSET S /\ Cardinality(U \ {b}) = n - 1 /\ n - 1 \in Nat
      BY <2>2, OneFewer
    <3>2. U \ {a} \in SUBSET S /\ Cardinality(U \ {a}) = n - 1
      BY <2>2, OneFewer
    <3> QED
      BY <3>1, <3>2
  <2>7. Takes(U \ {a}) /\ Takes(U \ {b})
    <3>1. ~ (n <= n - 1)
      BY <2>1
    <3>2. n - 1 \notin Bad
      BY <2>1, <3>1
    <3> HIDE DEF Takes
    <3> QED
      BY <2>6, <3>2
  <2>8. SumOf(w, U \ {b}) = w[a] + SumOf(w, (U \ {b}) \ {a})
    BY <2>5, <2>7
  <2>9. SumOf(w, U \ {a}) = w[b] + SumOf(w, (U \ {a}) \ {b})
    BY <2>5, <2>7
  <2>10. (U \ {b}) \ {a} = (U \ {a}) \ {b}
    OBVIOUS
  <2> DEFINE rest == SumOf(w, (U \ {a}) \ {b})
  <2>11. rest \in Int /\ w[a] \in Int /\ w[b] \in Int
    <3>1. (U \ {a}) \ {b} \in SUBSET S
      OBVIOUS
    <3> QED
      BY <1>1, <3>1
  <2>12. SumOf(w, U \ {b}) = w[a] + rest /\ SumOf(w, U \ {a}) = w[b] + rest
    BY <2>8, <2>9, <2>10
  <2> HIDE DEF rest
  <2> QED
    BY <2>3, <2>4, <2>11, <2>12
<1>3. Cardinality(S) \in Nat
  BY FS_CardinalityType
<1>4. Takes(S)
  <2> HIDE DEF Takes
  <2> QED
    BY <1>2, <1>3
<1> QED
  BY <1>4

\* One element more.
LEMMA SumAdd ==
  ASSUME NEW S, IsFiniteSet(S), NEW w, \A x \in S : w[x] \in Int,
         NEW e, e \notin S, w[e] \in Int
  PROVE  SumOf(w, S \cup {e}) = w[e] + SumOf(w, S)
<1>1. IsFiniteSet(S \cup {e})
  BY FS_AddElement
<1>2. (S \cup {e}) \ {e} = S
  OBVIOUS
<1>3. \A x \in S \cup {e} : w[x] \in Int
  OBVIOUS
<1>4. e \in S \cup {e}
  OBVIOUS
<1> DEFINE T == S \cup {e}
<1>5. IsFiniteSet(T) /\ (\A x \in T : w[x] \in Int) /\ e \in T /\ T \ {e} = S
  BY <1>1, <1>2, <1>3, <1>4
<1> HIDE DEF T
<1>6. SumOf(w, T) = w[e] + SumOf(w, T \ {e})
  BY <1>5, SumTakes
<1> QED
  BY <1>5, <1>6 DEF T

\* A sum is the sum of a part and of the rest.
LEMMA SumSplits ==
  ASSUME NEW S, IsFiniteSet(S), NEW w, \A x \in S : w[x] \in Int, NEW T \in SUBSET S
  PROVE  SumOf(w, S) = SumOf(w, T) + SumOf(w, S \ T)
<1> DEFINE Splits(U) == SumOf(w, S) = SumOf(w, U) + SumOf(w, S \ U)
           Bad == {n \in Nat : \E U \in SUBSET S : Cardinality(U) = n /\ ~ Splits(U)}
<1>1. \A U \in SUBSET S : IsFiniteSet(U) /\ SumOf(w, U) \in Int
  <2> SUFFICES ASSUME NEW U \in SUBSET S PROVE IsFiniteSet(U) /\ SumOf(w, U) \in Int
    OBVIOUS
  <2>1. IsFiniteSet(U)
    BY FS_Subset
  <2> QED
    BY <2>1, SumFacts
<1>2. ASSUME Bad # {} PROVE FALSE
  <2>1. PICK n \in Bad : \A j \in Bad : n <= j
    <3>1. Bad \in SUBSET Nat
      OBVIOUS
    <3> HIDE DEF Bad
    <3> QED
      BY <1>2, <3>1, LeastNumber
  <2>2. PICK U \in SUBSET S : Cardinality(U) = n /\ ~ Splits(U)
    BY <2>1
  <2>3. U # {}
    <3>1. ASSUME U = {} PROVE FALSE
      <4>1. S \ U = S /\ SumOf(w, S) \in Int
        BY <1>1, <3>1
      <4>2. SumOf(w, U) = 0
        BY <1>1, <3>1, SumFacts
      <4> QED
        BY <2>2, <4>1, <4>2
    <3> QED
      BY <3>1
  <2>4. PICK a \in U : TRUE
    BY <2>3
  <2>5. U \ {a} \in SUBSET S /\ Cardinality(U \ {a}) = n - 1 /\ n - 1 \in Nat
    <3>1. /\ U \ {a} \in SUBSET S /\ Cardinality(U) \in Nat /\ Cardinality(U) # 0
          /\ Cardinality(U \ {a}) = Cardinality(U) - 1
      BY OneFewer
    <3>2. Cardinality(U) = n
      BY <2>2
    <3> QED
      BY <3>1, <3>2
  <2>6. Splits(U \ {a})
    <3>1. ~ (n <= n - 1)
      BY <2>1
    <3>2. n - 1 \notin Bad
      BY <2>1, <3>1
    <3> HIDE DEF Splits
    <3> QED
      BY <2>5, <3>2
  <2>7. SumOf(w, U) = w[a] + SumOf(w, U \ {a})
    BY <1>1, SumTakes
  <2>8. SumOf(w, S \ (U \ {a})) = w[a] + SumOf(w, S \ U)
    <3> DEFINE R == S \ (U \ {a})
    <3>1. R \in SUBSET S /\ a \in R /\ R \ {a} = S \ U
      OBVIOUS
    <3> HIDE DEF R
    <3>2. IsFiniteSet(R) /\ \A x \in R : w[x] \in Int
      BY <1>1, <3>1
    <3>3. SumOf(w, R) = w[a] + SumOf(w, R \ {a})
      BY <3>1, <3>2, SumTakes
    <3> QED
      BY <3>1, <3>3 DEF R
  <2>9. /\ SumOf(w, U \ {a}) \in Int /\ SumOf(w, S \ U) \in Int /\ w[a] \in Int
        /\ SumOf(w, S) \in Int
    <3>1. S \ U \in SUBSET S
      OBVIOUS
    <3> QED
      BY <1>1, <2>5, <3>1
  <2> QED
    BY <2>2, <2>6, <2>7, <2>8, <2>9
<1>3. IsFiniteSet(T) /\ Cardinality(T) \in Nat
  BY <1>1, FS_CardinalityType
<1>4. Splits(T)
  <2> HIDE DEF Splits
  <2> QED
    BY <1>2, <1>3
<1> QED
  BY <1>4

\* A sum of naturals is one, and zero only if each is.
LEMMA SumOfNaturals ==
  ASSUME NEW S, IsFiniteSet(S), NEW w, \A x \in S : w[x] \in Nat
  PROVE  SumOf(w, S) \in Nat /\ \A x \in S : w[x] <= SumOf(w, S)
<1> DEFINE Bad == {n \in Nat : \E U \in SUBSET S : Cardinality(U) = n /\ SumOf(w, U) \notin Nat}
<1>1. ASSUME Bad # {} PROVE FALSE
  <2>1. PICK n \in Bad : \A j \in Bad : n <= j
    <3>1. Bad \in SUBSET Nat
      OBVIOUS
    <3> HIDE DEF Bad
    <3> QED
      BY <1>1, <3>1, LeastNumber
  <2>2. PICK U \in SUBSET S : Cardinality(U) = n /\ SumOf(w, U) \notin Nat
    BY <2>1
  <2>3. IsFiniteSet(U) /\ \A x \in U : w[x] \in Int
    BY FS_Subset
  <2>4. PICK a \in U : SumOf(w, U) = w[a] + SumOf(w, U \ {a})
    BY <2>2, <2>3, SumFacts
  <2>5. U \ {a} \in SUBSET S /\ Cardinality(U \ {a}) = n - 1 /\ n - 1 \in Nat
    <3>1. /\ U \ {a} \in SUBSET S /\ Cardinality(U) \in Nat /\ Cardinality(U) # 0
          /\ Cardinality(U \ {a}) = Cardinality(U) - 1
      BY OneFewer
    <3>2. Cardinality(U) = n
      BY <2>2
    <3> QED
      BY <3>1, <3>2
  <2>6. SumOf(w, U \ {a}) \in Nat
    <3>1. ~ (n <= n - 1)
      BY <2>1
    <3>2. n - 1 \notin Bad
      BY <2>1, <3>1
    <3> QED
      BY <2>5, <3>2
  <2> QED
    BY <2>2, <2>4, <2>6
<1>2. \A U \in SUBSET S : SumOf(w, U) \in Nat
  <2>1. \A U \in SUBSET S : Cardinality(U) \in Nat
    BY FS_Subset, FS_CardinalityType
  <2> QED
    BY <1>1, <2>1
<1>3. \A x \in S : w[x] \in Int
  OBVIOUS
<1>4. \A x \in S : SumOf(w, S) = w[x] + SumOf(w, S \ {x}) /\ SumOf(w, S \ {x}) \in Nat
  BY <1>2, <1>3, SumTakes
<1>5. SumOf(w, S) \in Nat
  BY <1>2
<1>6. ASSUME NEW x \in S
      PROVE  w[x] <= SumOf(w, S)
  <2>1. w[x] \in Nat /\ SumOf(w, S) = w[x] + SumOf(w, S \ {x}) /\ SumOf(w, S \ {x}) \in Nat
    BY <1>4
  <2> QED
    BY <2>1
<1> QED
  BY <1>5, <1>6

-----------------------------------------------------------------------------
(***************************************************************************)
(* Images.                                                                 *)
(***************************************************************************)
\* An image that is being put together.
Transfers == [chunks: SUBSET Nat, count: Nat, started: Nat]
\* Transfers, as a receiver holds them.
TransfersTyped(some) ==
    /\ DOMAIN some \subseteq Uploaders \X TransferIds /\ IsFiniteSet(DOMAIN some)
    /\ some \in [DOMAIN some -> Transfers]
    /\ \A key \in DOMAIN some : IsFiniteSet(some[key].chunks)
\* The transfers of one sender.
MineOf(some, s) == {key \in DOMAIN some : key[1] = s}
\* A state of the receiver that keeps its counter.
Counted(held) ==
    /\ held = [transfers |-> held.transfers, bytes |-> held.bytes]
    /\ TransfersTyped(held.transfers) /\ held.bytes = Bytes(held.transfers)
\* It keeps its bound as well, and holds no image that is complete.
Accounted(held) ==
    /\ Counted(held) /\ held.bytes <= MaxBuffered
    /\ \A key \in DOMAIN held.transfers : Held(held.transfers[key]) < held.transfers[key].count

\* What the variables hold.
ImageTyped ==
    /\ uploads \in [Uploaders -> Seq([id: TransferIds, count: 1..MaxChunks, next: Nat])]
    /\ \A s \in Uploaders : Len(uploads[s]) <= MaxQueued
    /\ wire \in [Uploaders -> Seq([id: TransferIds, count: 1..MaxChunks, index: Nat])]
    /\ imageClock \in 0..MaxTicks /\ bufferedBytes \in Int
\* The inductive invariant.
ImageIInv ==
    /\ ImageTyped
    /\ Accounted([transfers |-> transfers, bytes |-> bufferedBytes])
    /\ \A s \in Uploaders : Cardinality(MineOf(transfers, s)) <= MaxTransfers

\* The weight of each transfer.
Weights(some) == [key \in DOMAIN some |-> Held(some[key])]

\* A transfer holds a natural number of chunks.
LEMMA WeightsAreNaturals ==
  ASSUME NEW some, TransfersTyped(some)
  PROVE  /\ \A key \in DOMAIN some : Held(some[key]) \in Nat
         /\ \A key \in DOMAIN some : Weights(some)[key] = Held(some[key])
         /\ IsFiniteSet(DOMAIN some)
<1>1. \A key \in DOMAIN some : Held(some[key]) \in Nat
  BY FS_CardinalityType DEF TransfersTyped, Held
<1> QED
  BY <1>1 DEF TransfersTyped, Weights

\* Bytes counts the chunks of all transfers.
LEMMA BytesAreSum ==
  ASSUME NEW some, TransfersTyped(some)
  PROVE  Bytes(some) = SumOf(Weights(some), DOMAIN some)
<1> DEFINE D == DOMAIN some
           Folds(f) == f = [T \in SUBSET D |->
              IF T = {} THEN 0
              ELSE Held(some[CHOOSE x \in T : TRUE]) + f[T \ {CHOOSE x \in T : TRUE}]]
           chosen == CHOOSE f : Folds(f)
<1>1. Bytes(some) = chosen[D]
  BY DEF Bytes, FoldFunction, FoldFunctionOnSet, MapThenFoldSet
<1>2. \A T \in SUBSET D : T # {} =>
        Held(some[CHOOSE x \in T : TRUE]) = Weights(some)[CHOOSE x \in T : TRUE]
  BY DEF Weights
<1>3. \A f : Folds(f) <=> IsSum(f, Weights(some), D)
  <2> SUFFICES ASSUME NEW f PROVE Folds(f) <=> IsSum(f, Weights(some), D)
    OBVIOUS
  <2> DEFINE one == [T \in SUBSET D |->
              IF T = {} THEN 0
              ELSE Held(some[CHOOSE x \in T : TRUE]) + f[T \ {CHOOSE x \in T : TRUE}]]
             other == [T \in SUBSET D |->
              IF T = {} THEN 0
              ELSE Weights(some)[CHOOSE x \in T : TRUE] + f[T \ {CHOOSE x \in T : TRUE}]]
  <2>1. one = other
    BY <1>2
  <2>2. Folds(f) <=> f = one
    OBVIOUS
  <2>3. IsSum(f, Weights(some), D) <=> f = other
    BY DEF IsSum
  <2> HIDE DEF one, other, Folds
  <2> QED
    BY <2>1, <2>2, <2>3
<1>4. IsFiniteSet(D) /\ \A x \in D : Weights(some)[x] \in Int
  BY WeightsAreNaturals
<1> HIDE DEF D, Folds
<1>5. \E f : Folds(f)
  BY <1>3, <1>4, SumExists
<1>6. Folds(chosen)
  BY <1>5
<1> HIDE DEF chosen
<1>7. chosen[D] = SumOf(Weights(some), D)
  BY <1>3, <1>4, <1>6, SumIs
<1> QED
  BY <1>1, <1>7 DEF D

\* A part of the transfers, and what it holds.
LEMMA Restricted ==
  ASSUME NEW some, TransfersTyped(some), NEW S, S \subseteq DOMAIN some
  PROVE  /\ TransfersTyped(Restrict(some, S)) /\ DOMAIN Restrict(some, S) = S
         /\ \A key \in S : Restrict(some, S)[key] = some[key]
         /\ Bytes(Restrict(some, S)) = SumOf(Weights(some), S)
<1> DEFINE part == Restrict(some, S)
<1>1. DOMAIN part = S /\ \A key \in S : part[key] = some[key]
  BY DEF Restrict
<1>2. part = [key \in S |-> some[key]]
  BY DEF Restrict
<1> HIDE DEF part
<1>3. IsFiniteSet(S)
  BY FS_Subset DEF TransfersTyped
<1>4. TransfersTyped(part)
  <2>1. part \in [S -> Transfers]
    BY <1>2 DEF TransfersTyped
  <2> QED
    BY <1>1, <1>3, <2>1 DEF TransfersTyped
<1>5. \A key \in S : Weights(part)[key] \in Int /\ Weights(part)[key] = Weights(some)[key]
  <2>1. \A key \in S : Weights(part)[key] = Held(part[key]) /\ Held(part[key]) \in Nat
    BY <1>1, <1>4, WeightsAreNaturals
  <2>2. \A key \in S : Weights(some)[key] = Held(some[key])
    BY WeightsAreNaturals
  <2> QED
    BY <1>1, <2>1, <2>2
<1>6. SumOf(Weights(part), S) = SumOf(Weights(some), S)
  BY <1>3, <1>5, SumSame
<1>7. Bytes(part) = SumOf(Weights(part), S)
  BY <1>1, <1>4, BytesAreSum
<1> QED
  BY <1>1, <1>4, <1>6, <1>7 DEF part

\* Fewer transfers are fewer of each sender.
LEMMA MineShrink ==
  ASSUME NEW some, NEW others, TransfersTyped(some), DOMAIN others \subseteq DOMAIN some,
         NEW s
  PROVE  /\ IsFiniteSet(MineOf(some, s)) /\ Cardinality(MineOf(some, s)) \in Nat
         /\ Cardinality(MineOf(others, s)) \in Nat
         /\ Cardinality(MineOf(others, s)) <= Cardinality(MineOf(some, s))
<1>1. MineOf(others, s) \subseteq MineOf(some, s) /\ MineOf(some, s) \subseteq DOMAIN some
  BY DEF MineOf
<1>2. IsFiniteSet(MineOf(some, s))
  BY <1>1, FS_Subset DEF TransfersTyped
<1>3. IsFiniteSet(MineOf(others, s)) /\ Cardinality(MineOf(others, s)) <= Cardinality(MineOf(some, s))
  BY <1>1, <1>2, FS_Subset
<1> QED
  BY <1>2, <1>3, FS_CardinalityType

\* ImageAssembler::drop counts what it drops.
LEMMA Dropped ==
  ASSUME NEW held, Counted(held), NEW gone
  PROVE  /\ Counted(Drop(held, gone))
         /\ DOMAIN Drop(held, gone).transfers = DOMAIN held.transfers \ gone
         /\ \A key \in DOMAIN held.transfers \ gone :
              Drop(held, gone).transfers[key] = held.transfers[key]
         /\ Drop(held, gone).bytes <= held.bytes /\ held.bytes \in Nat /\ Drop(held, gone).bytes \in Nat
         /\ (Accounted(held) => Accounted(Drop(held, gone)))
<1> DEFINE some == held.transfers
           D == DOMAIN some
           after == Drop(held, gone)
           stay == D \ gone
           go == gone \cap D
<1>0. TransfersTyped(some) /\ held.bytes = Bytes(some)
  BY DEF Counted
<1>1. after = [transfers |-> Restrict(some, stay), bytes |-> held.bytes - Bytes(Restrict(some, go))]
  BY DEF Drop
<1>2. after.transfers = Restrict(some, stay) /\ after.bytes = held.bytes - Bytes(Restrict(some, go))
  BY <1>1
<1>3. after = [transfers |-> after.transfers, bytes |-> after.bytes]
  BY <1>1
<1> HIDE DEF after
<1>4. stay \subseteq D /\ go \subseteq D /\ stay \in SUBSET D /\ D \ stay = go
  OBVIOUS
<1> HIDE DEF stay, go, D
<1>5. /\ TransfersTyped(Restrict(some, stay)) /\ DOMAIN Restrict(some, stay) = stay
      /\ \A key \in stay : Restrict(some, stay)[key] = some[key]
      /\ Bytes(Restrict(some, stay)) = SumOf(Weights(some), stay)
  BY <1>0, <1>4, Restricted DEF D
<1>6. Bytes(Restrict(some, go)) = SumOf(Weights(some), go)
  BY <1>0, <1>4, Restricted DEF D
<1>7. IsFiniteSet(D) /\ \A key \in D : Weights(some)[key] \in Nat
  BY <1>0, WeightsAreNaturals DEF D
<1>8. SumOf(Weights(some), D) = SumOf(Weights(some), stay) + SumOf(Weights(some), go)
  BY <1>4, <1>7, SumSplits
<1>9. /\ SumOf(Weights(some), stay) \in Nat /\ SumOf(Weights(some), go) \in Nat
      /\ SumOf(Weights(some), D) \in Nat
  <2>1. IsFiniteSet(stay) /\ IsFiniteSet(go)
    BY <1>4, <1>7, FS_Subset
  <2> QED
    BY <1>4, <1>7, <2>1, SumOfNaturals
<1>10. held.bytes = SumOf(Weights(some), D)
  BY <1>0, BytesAreSum DEF D
<1>11. after.bytes = Bytes(after.transfers) /\ after.bytes <= held.bytes /\ after.bytes \in Nat /\ held.bytes \in Nat
  BY <1>2, <1>5, <1>6, <1>8, <1>9, <1>10
<1>13. \A key \in stay : after.transfers[key] = some[key]
  BY <1>2, <1>5
<1>14. DOMAIN after.transfers = stay
  BY <1>2, <1>5
<1>17. Counted(after)
  BY <1>2, <1>3, <1>5, <1>11 DEF Counted
<1>18. ASSUME Accounted(held) PROVE Accounted(after)
  <2>1. after.bytes <= MaxBuffered
    BY <1>11, <1>18, ImageTransferAssumption DEF Accounted
  <2>2. \A key \in DOMAIN after.transfers : Held(after.transfers[key]) < after.transfers[key].count
    BY <1>4, <1>13, <1>14, <1>18 DEF Accounted, D
  <2> QED
    BY <1>17, <2>1, <2>2 DEF Accounted
<1> QED
  BY <1>11, <1>13, <1>14, <1>17, <1>18 DEF after, stay, D

\* The receiver's state with a new transfer.
Roomier(held, key, count) ==
    [held EXCEPT !.transfers = [k \in DOMAIN @ \cup {key} |->
        IF k = key THEN NewTransfer(count) ELSE @[k]]]

\* A new transfer holds nothing yet.
LEMMA Begins ==
  ASSUME NEW held, Accounted(held), NEW key \in Uploaders \X TransferIds,
         key \notin DOMAIN held.transfers, NEW count \in 1 .. MaxChunks,
         imageClock \in Nat
  PROVE  /\ Accounted(Roomier(held, key, count))
         /\ DOMAIN Roomier(held, key, count).transfers = DOMAIN held.transfers \cup {key}
<1> DEFINE room == Roomier(held, key, count)
           some == held.transfers
           D == DOMAIN some
           more == [k \in D \cup {key} |-> IF k = key THEN NewTransfer(count) ELSE some[k]]
<1>0. TransfersTyped(some) /\ held.bytes = Bytes(some) /\ held.bytes <= MaxBuffered
  BY DEF Accounted, Counted
<1>1. room = [transfers |-> more, bytes |-> held.bytes]
  BY DEF Accounted, Counted, Roomier
<1> HIDE DEF room
<1>2. DOMAIN more = D \cup {key} /\ more[key] = NewTransfer(count) /\ \A k \in D : more[k] = some[k]
  OBVIOUS
<1>3. more \in [D \cup {key} -> Transfers]
  <2>1. NewTransfer(count) \in Transfers
    BY ImageTransferAssumption DEF NewTransfer, Transfers
  <2>2. \A k \in D : some[k] \in Transfers
    BY <1>0 DEF TransfersTyped
  <2> QED
    BY <2>1, <2>2
<1> HIDE DEF more
<1>4. Held(NewTransfer(count)) = 0 /\ IsFiniteSet(NewTransfer(count).chunks)
  BY FS_EmptySet DEF Held, NewTransfer
<1>5. TransfersTyped(more)
  <2>1. IsFiniteSet(D \cup {key})
    BY <1>0, FS_AddElement DEF TransfersTyped
  <2>2. \A k \in D \cup {key} : IsFiniteSet(more[k].chunks)
    BY <1>0, <1>2, <1>4 DEF TransfersTyped
  <2>3. D \cup {key} \subseteq Uploaders \X TransferIds
    BY <1>0 DEF TransfersTyped
  <2> QED
    BY <1>2, <1>3, <2>1, <2>2, <2>3 DEF TransfersTyped
<1>6. Bytes(more) = Bytes(some)
  <2>1. \A k \in D \cup {key} : Weights(more)[k] = Held(more[k]) /\ Held(more[k]) \in Nat
    BY <1>2, <1>5, WeightsAreNaturals
  <2>2. \A k \in D : Weights(some)[k] = Held(some[k])
    BY <1>0, WeightsAreNaturals
  <2>3. IsFiniteSet(D) /\ key \notin D
    BY <1>0 DEF TransfersTyped
  <2>4. \A k \in D : Weights(more)[k] \in Int /\ Weights(more)[k] = Weights(some)[k]
    BY <1>2, <2>1, <2>2
  <2>5. Weights(more)[key] = 0
    BY <1>2, <1>4, <2>1
  <2>6. SumOf(Weights(more), D) = SumOf(Weights(some), D)
    BY <2>3, <2>4, SumSame
  <2>7. SumOf(Weights(more), D) \in Int
    BY <2>3, <2>4, SumFacts
  <2>8. SumOf(Weights(more), D \cup {key}) = Weights(more)[key] + SumOf(Weights(more), D)
    <3>1. Weights(more)[key] \in Int
      BY <2>5
    <3> HIDE DEF D
    <3> QED
      BY <2>3, <2>4, <3>1, SumAdd
  <2>9. Bytes(more) = SumOf(Weights(more), D \cup {key}) /\ Bytes(some) = SumOf(Weights(some), D)
    BY <1>0, <1>2, <1>5, BytesAreSum
  <2> QED
    BY <2>5, <2>6, <2>7, <2>8, <2>9
<1>7. \A k \in D \cup {key} : Held(more[k]) < more[k].count
  <2>1. \A k \in D : Held(some[k]) < some[k].count
    BY DEF Accounted
  <2>2. NewTransfer(count).count = count /\ 0 < count
    BY ImageTransferAssumption DEF NewTransfer
  <2> QED
    BY <1>2, <1>4, <2>1, <2>2
<1>8. room.transfers = more /\ room.bytes = held.bytes /\ room = [transfers |-> room.transfers, bytes |-> room.bytes]
  BY <1>1
<1> QED
  BY <1>0, <1>2, <1>5, <1>6, <1>7, <1>8 DEF Accounted, Counted, room

\* ImageAssembler::add counts the chunk it places, and keeps its bound.
LEMMA Placed ==
  ASSUME NEW held, Accounted(held), NEW key \in DOMAIN held.transfers, NEW index \in Nat
  PROVE  /\ Accounted(Place(held, key, index))
         /\ DOMAIN Place(held, key, index).transfers \subseteq DOMAIN held.transfers
<1> DEFINE some == held.transfers
           D == DOMAIN some
           t == some[key]
           more == [some EXCEPT ![key].chunks = @ \cup {index}]
           placed == [transfers |-> more, bytes |-> held.bytes + 1]
           after == Place(held, key, index)
<1>0. TransfersTyped(some) /\ held.bytes = Bytes(some) /\ held.bytes <= MaxBuffered /\ Counted(held)
  BY DEF Accounted, Counted
<1>1. t \in Transfers /\ IsFiniteSet(t.chunks) /\ Held(t) \in Nat /\ Held(t) < t.count /\ t.count \in Nat
  <2>1. t \in Transfers /\ IsFiniteSet(t.chunks)
    BY <1>0 DEF TransfersTyped
  <2>2. Held(t) \in Nat
    BY <1>0, WeightsAreNaturals
  <2>3. Held(t) < t.count
    BY DEF Accounted
  <2> QED
    BY <2>1, <2>2, <2>3 DEF Transfers
<1>2. after = IF index \in t.chunks THEN held
              ELSE IF held.bytes + 1 > MaxBuffered THEN Drop(held, {key})
              ELSE IF Held(t) + 1 < t.count THEN placed
              ELSE Drop(placed, {key})
  BY DEF Place
<1> HIDE DEF after
<1>3. CASE index \in t.chunks
  BY <1>2, <1>3 DEF after
<1>4. CASE index \notin t.chunks /\ held.bytes + 1 > MaxBuffered
  <2>1. after = Drop(held, {key})
    BY <1>2, <1>4
  <2>2. Accounted(Drop(held, {key})) /\ DOMAIN Drop(held, {key}).transfers = D \ {key}
    BY <1>0, Dropped
  <2> QED
    BY <2>1, <2>2 DEF after
<1>5. CASE index \notin t.chunks /\ ~ (held.bytes + 1 > MaxBuffered)
  <2> DEFINE u == [t EXCEPT !.chunks = @ \cup {index}]
  <2>1. DOMAIN more = D /\ more[key] = u /\ \A k \in D : k # key => more[k] = some[k]
    OBVIOUS
  <2>2. u \in Transfers /\ u.chunks = t.chunks \cup {index} /\ u.count = t.count
    BY <1>1 DEF Transfers
  <2> HIDE DEF u, more
  <2>3. IsFiniteSet(u.chunks) /\ Held(u) = Held(t) + 1
    <3>1. index \notin t.chunks /\ IsFiniteSet(t.chunks)
      BY <1>1, <1>5
    <3> HIDE DEF t
    <3>2. IsFiniteSet(t.chunks \cup {index})
          /\ Cardinality(t.chunks \cup {index}) = Cardinality(t.chunks) + 1
      BY <3>1, FS_AddElement
    <3> QED
      BY <2>2, <3>2 DEF Held
  <2>4. TransfersTyped(more)
    <3>1. \A k \in D : more[k] \in Transfers /\ IsFiniteSet(more[k].chunks)
      BY <1>0, <2>1, <2>2, <2>3 DEF TransfersTyped
    <3>2. more = [k \in D |-> more[k]]
      BY <2>1 DEF more
    <3>3. more \in [D -> Transfers]
      BY <3>1, <3>2
    <3>4. D \subseteq Uploaders \X TransferIds /\ IsFiniteSet(D)
      BY <1>0 DEF TransfersTyped
    <3> HIDE DEF D
    <3> QED
      BY <2>1, <3>1, <3>3, <3>4 DEF TransfersTyped
  <2>5. Bytes(more) = held.bytes + 1 /\ held.bytes \in Nat
    <3>1. \A k \in D : Weights(more)[k] = Held(more[k]) /\ Held(more[k]) \in Nat
      BY <2>1, <2>4, WeightsAreNaturals
    <3>2. \A k \in D : Weights(some)[k] = Held(some[k]) /\ Held(some[k]) \in Nat
      BY <1>0, WeightsAreNaturals
    <3>3. IsFiniteSet(D) /\ key \in D /\ IsFiniteSet(D \ {key})
      BY <1>0, FS_RemoveElement DEF TransfersTyped
    <3>4. SumOf(Weights(more), D) = Weights(more)[key] + SumOf(Weights(more), D \ {key})
      BY <3>1, <3>3, SumTakes
    <3>5. SumOf(Weights(some), D) = Weights(some)[key] + SumOf(Weights(some), D \ {key})
      BY <3>2, <3>3, SumTakes
    <3>6. SumOf(Weights(more), D \ {key}) = SumOf(Weights(some), D \ {key})
      <4>1. \A k \in D \ {key} : Weights(more)[k] \in Int /\ Weights(more)[k] = Weights(some)[k]
        BY <2>1, <3>1, <3>2
      <4> QED
        BY <3>3, <4>1, SumSame
    <3>7. Weights(more)[key] = Weights(some)[key] + 1
      BY <2>1, <2>3, <3>1, <3>2
    <3>8. SumOf(Weights(some), D) \in Nat /\ SumOf(Weights(some), D \ {key}) \in Nat /\ Weights(some)[key] \in Nat
      BY <3>2, <3>3, SumOfNaturals
    <3>9. Bytes(more) = SumOf(Weights(more), D) /\ held.bytes = SumOf(Weights(some), D)
      BY <1>0, <2>1, <2>4, BytesAreSum
    <3> QED
      BY <3>4, <3>5, <3>6, <3>7, <3>8, <3>9
  <2>6. placed.transfers = more /\ placed.bytes = held.bytes + 1
        /\ placed = [transfers |-> placed.transfers, bytes |-> placed.bytes]
    OBVIOUS
  <2>7. placed.bytes <= MaxBuffered
    BY <1>5, <2>5, <2>6, ImageTransferAssumption
  <2> HIDE DEF placed
  <2>8. Counted(placed)
    BY <2>4, <2>5, <2>6 DEF Counted
  <2>9. \A k \in D : k # key => Held(more[k]) < more[k].count
    BY <2>1 DEF Accounted
  <2>10. CASE Held(t) + 1 < t.count
    <3>1. after = placed
      BY <1>2, <1>5, <2>10
    <3>2. \A k \in D : Held(more[k]) < more[k].count
      BY <2>1, <2>2, <2>3, <2>9, <2>10
    <3>3. Accounted(placed)
      BY <2>1, <2>6, <2>7, <2>8, <3>2 DEF Accounted
    <3> QED
      BY <2>1, <2>6, <3>1, <3>3 DEF after
  <2>11. CASE ~ (Held(t) + 1 < t.count)
    <3> DEFINE left == Drop(placed, {key})
    <3>1. after = left
      BY <1>2, <1>5, <2>11
    <3>2. /\ Counted(left) /\ DOMAIN left.transfers = D \ {key}
          /\ \A k \in D \ {key} : left.transfers[k] = more[k]
          /\ left.bytes <= placed.bytes /\ placed.bytes \in Nat /\ left.bytes \in Nat
      BY <2>1, <2>6, <2>8, Dropped
    <3> HIDE DEF left
    <3>3. \A k \in DOMAIN left.transfers : Held(left.transfers[k]) < left.transfers[k].count
      BY <2>9, <3>2
    <3>4. left.bytes <= MaxBuffered
      BY <2>7, <3>2, ImageTransferAssumption
    <3>5. Accounted(left)
      BY <3>2, <3>3, <3>4 DEF Accounted
    <3> QED
      BY <3>1, <3>2, <3>5 DEF after
  <2> QED
    BY <2>10, <2>11
<1> QED
  BY <1>3, <1>4, <1>5

\* What a sender queues, and what is on its way.
Uploads == [id: TransferIds, count: 1..MaxChunks, next: Nat]
Chunks == [id: TransferIds, count: 1..MaxChunks, index: Nat]

\* The desktop begins with no images.
LEMMA ImagesStart == ImageInit => ImageIInv
<1> SUFFICES ASSUME ImageInit PROVE ImageIInv
  OBVIOUS
<1> DEFINE held == [transfers |-> transfers, bytes |-> bufferedBytes]
<1>1. ImageTyped
  BY ImageTransferAssumption DEF ImageInit, ImageTyped
<1>2. DOMAIN transfers = {} /\ bufferedBytes = 0
  BY DEF ImageInit
<1>3. TransfersTyped(transfers)
  <2>1. IsFiniteSet(DOMAIN transfers)
    BY <1>2, FS_EmptySet
  <2>2. transfers \in [DOMAIN transfers -> Transfers]
    BY <1>2 DEF ImageInit
  <2> QED
    BY <1>2, <2>1, <2>2 DEF TransfersTyped
<1>4. Bytes(transfers) = 0
  <2>1. Bytes(transfers) = SumOf(Weights(transfers), DOMAIN transfers)
    BY <1>3, BytesAreSum
  <2>2. \A x \in DOMAIN transfers : Weights(transfers)[x] \in Int
    BY <1>2
  <2>3. IsFiniteSet(DOMAIN transfers)
    BY <1>3 DEF TransfersTyped
  <2> QED
    BY <1>2, <2>1, <2>2, <2>3, SumFacts
<1>5. held.transfers = transfers /\ held.bytes = bufferedBytes
      /\ held = [transfers |-> held.transfers, bytes |-> held.bytes]
  OBVIOUS
<1> HIDE DEF held
<1>6. Accounted(held)
  BY <1>2, <1>3, <1>4, <1>5, ImageTransferAssumption DEF Accounted, Counted
<1>7. \A s \in Uploaders : Cardinality(MineOf(transfers, s)) <= MaxTransfers
  <2>1. \A s : MineOf(transfers, s) = {}
    BY <1>2 DEF MineOf
  <2> QED
    BY <2>1, FS_EmptySet, ImageTransferAssumption
<1> QED
  BY <1>1, <1>6, <1>7 DEF ImageIInv, held

\* What a handler that leaves the receiver alone keeps.
LEMMA ReceiverUnchanged ==
  ASSUME ImageIInv, UNCHANGED <<transfers, bufferedBytes>>, ImageTyped',
         imageClock' = imageClock
  PROVE  ImageIInv'
<1>1. transfers' = transfers /\ bufferedBytes' = bufferedBytes
  OBVIOUS
<1>2. Accounted([transfers |-> transfers, bytes |-> bufferedBytes])'
  BY <1>1 DEF ImageIInv
<1>3. (\A s \in Uploaders : Cardinality(MineOf(transfers, s)) <= MaxTransfers)'
  BY <1>1 DEF ImageIInv, MineOf
<1> QED
  BY <1>2, <1>3 DEF ImageIInv

\* CommunityPanel::sendImage.
LEMMA SendImageKeeps ==
  ASSUME ImageIInv, NEW s \in Uploaders, SendImage(s)
  PROVE  ImageIInv'
<1>1. PICK id \in TransferIds, count \in 1..MaxChunks :
        uploads' = [uploads EXCEPT ![s] =
            Append(uploads[s], [id |-> id, count |-> count, next |-> 0])]
  BY DEF SendImage
<1> DEFINE one == [id |-> id, count |-> count, next |-> 0]
           longer == Append(uploads[s], one)
<1>2. one \in Uploads /\ uploads[s] \in Seq(Uploads) /\ uploads \in [Uploaders -> Seq(Uploads)]
  BY DEF Uploads, ImageIInv, ImageTyped
<1> HIDE DEF one
<1>3. longer \in Seq(Uploads) /\ Len(longer) = Len(uploads[s]) + 1 /\ Len(uploads[s]) \in Nat
  BY <1>2
<1>4. Len(longer) <= MaxQueued
  BY <1>3, ImageTransferAssumption DEF SendImage
<1>5. uploads' = [uploads EXCEPT ![s] = longer]
  BY <1>1 DEF one
<1> HIDE DEF longer
<1>6. uploads' \in [Uploaders -> Seq(Uploads)] /\ \A u \in Uploaders : Len(uploads'[u]) <= MaxQueued
  BY <1>2, <1>3, <1>4, <1>5 DEF ImageIInv, ImageTyped
<1>7. UNCHANGED <<wire, transfers, bufferedBytes, imageClock>>
  BY DEF SendImage
<1>8. ImageTyped'
  BY <1>6, <1>7 DEF ImageIInv, ImageTyped, Uploads
<1> QED
  BY <1>7, <1>8, ReceiverUnchanged

\* The timer that sends the chunks.
LEMMA ImageTimerKeeps ==
  ASSUME ImageIInv, NEW s \in Uploaders, ImageTimer(s)
  PROVE  ImageIInv'
<1> DEFINE first == Head(uploads[s])
           more == [first EXCEPT !.next = first.next + 1]
           chunk == [id |-> first.id, count |-> first.count, index |-> first.next]
           left == Tail(uploads[s])
<1>1. /\ uploads[s] # <<>> /\ uploads[s] \in Seq(Uploads) /\ uploads \in [Uploaders -> Seq(Uploads)]
      /\ wire \in [Uploaders -> Seq(Chunks)] /\ wire[s] \in Seq(Chunks)
      /\ Len(uploads[s]) <= MaxQueued
  BY DEF ImageTimer, ImageIInv, ImageTyped, Uploads, Chunks
<1>2. first \in Uploads
  BY <1>1
<1>3. left \in Seq(Uploads) /\ Len(left) = Len(uploads[s]) - 1 /\ Len(uploads[s]) \in Nat
  BY <1>1
<1>4. /\ (wire' = [wire EXCEPT ![s] = Append(wire[s], chunk)] \/ wire' = wire)
      /\ uploads' = [uploads EXCEPT ![s] = IF more.next = first.count THEN left ELSE <<more>> \o left]
      /\ UNCHANGED <<transfers, bufferedBytes, imageClock>>
  BY DEF ImageTimer
<1> HIDE DEF first, left
<1>5. more \in Uploads /\ chunk \in Chunks
  BY <1>2 DEF Uploads, Chunks
<1> HIDE DEF more, chunk
<1>6. <<more>> \o left \in Seq(Uploads) /\ Len(<<more>> \o left) = Len(uploads[s])
  BY <1>3, <1>5
<1> DEFINE now == IF more.next = first.count THEN left ELSE <<more>> \o left
<1>7. now \in Seq(Uploads) /\ Len(now) <= MaxQueued
  BY <1>1, <1>3, <1>6, ImageTransferAssumption
<1>8. uploads' = [uploads EXCEPT ![s] = now]
  BY <1>4
<1> HIDE DEF now
<1>9. uploads' \in [Uploaders -> Seq(Uploads)] /\ \A u \in Uploaders : Len(uploads'[u]) <= MaxQueued
  BY <1>1, <1>7, <1>8 DEF ImageIInv, ImageTyped
<1>10. wire' \in [Uploaders -> Seq(Chunks)]
  <2> DEFINE sent == Append(wire[s], chunk)
  <2>1. sent \in Seq(Chunks)
    BY <1>1, <1>5
  <2>2. wire' = [wire EXCEPT ![s] = sent] \/ wire' = wire
    BY <1>4
  <2> HIDE DEF sent
  <2> QED
    BY <1>1, <2>1, <2>2
<1>11. ImageTyped'
  BY <1>4, <1>9, <1>10 DEF ImageIInv, ImageTyped, Uploads, Chunks
<1> QED
  BY <1>4, <1>11, ReceiverUnchanged

\* The sender's connection ends.
LEMMA SenderDisconnectsKeeps ==
  ASSUME ImageIInv, NEW s \in Uploaders, SenderDisconnects(s)
  PROVE  ImageIInv'
<1>1. /\ uploads' = [uploads EXCEPT ![s] = <<>>] /\ wire' = [wire EXCEPT ![s] = <<>>]
      /\ UNCHANGED <<transfers, bufferedBytes, imageClock>>
  BY DEF SenderDisconnects
<1>2. uploads \in [Uploaders -> Seq(Uploads)] /\ wire \in [Uploaders -> Seq(Chunks)]
  BY DEF ImageIInv, ImageTyped, Uploads, Chunks
<1>3. uploads' \in [Uploaders -> Seq(Uploads)] /\ wire' \in [Uploaders -> Seq(Chunks)]
  BY <1>1, <1>2
<1>4. \A u \in Uploaders : Len(uploads'[u]) <= MaxQueued
  BY <1>1, <1>2, ImageTransferAssumption DEF ImageIInv, ImageTyped
<1>5. ImageTyped'
  BY <1>1, <1>3, <1>4 DEF ImageIInv, ImageTyped, Uploads, Chunks
<1> QED
  BY <1>1, <1>5, ReceiverUnchanged

\* The greater of zero and another number.
LEMMA Surplus ==
  ASSUME NEW n \in Int
  PROVE  Max({0, n}) \in Nat /\ Max({0, n}) >= n /\ (Max({0, n}) = 0 \/ Max({0, n}) = n)
<1> DEFINE P(x) == x \in {0, n} /\ \A y \in {0, n} : x >= y
<1>1. \E x : P(x)
  <2>1. P(0) \/ P(n)
    OBVIOUS
  <2> QED
    BY <2>1
<1>2. P(Max({0, n}))
  BY <1>1 DEF Max
<1> QED
  BY <1>2

\* A sender's oldest transfers make way: there is room for one more of it.
LEMMA RoomIsMade ==
  ASSUME NEW held, Accounted(held), NEW s \in Uploaders, NEW old \in Oldest(held, s),
         NEW key, key[1] = s, NEW room,
         DOMAIN room = DOMAIN Drop(held, old).transfers \cup {key}
  PROVE  Cardinality(MineOf(room, s)) <= MaxTransfers
<1> DEFINE some == held.transfers
           mine == MineOf(some, s)
           surplus == Max({0, Cardinality(mine) - (MaxTransfers - 1)})
<1>0. TransfersTyped(some) /\ Counted(held)
  BY DEF Accounted, Counted
<1>1. IsFiniteSet(mine) /\ Cardinality(mine) \in Nat
  BY <1>0, MineShrink
<1>2. old \in SUBSET mine /\ Cardinality(old) = surplus
  BY DEF Oldest, kSubset, MineOf
<1>3. Cardinality(mine) - (MaxTransfers - 1) \in Int /\ MaxTransfers \in Nat
  BY <1>1, ImageTransferAssumption
<1>4. surplus \in Nat /\ surplus >= Cardinality(mine) - (MaxTransfers - 1)
  <2> HIDE DEF mine
  <2> QED
    BY <1>3, Surplus
<1> HIDE DEF surplus
<1>5. DOMAIN Drop(held, old).transfers = DOMAIN some \ old
  BY <1>0, Dropped
<1>6. MineOf(room, s) = (mine \ old) \cup {key}
  BY <1>5 DEF MineOf
<1> HIDE DEF mine
<1>7. mine \cap old = old
  BY <1>2
<1>8. IsFiniteSet(mine \ old) /\ Cardinality(mine \ old) = Cardinality(mine) - surplus
  BY <1>1, <1>2, <1>7, FS_Difference
<1> DEFINE rest == mine \ old
<1>9. IsFiniteSet(rest) /\ Cardinality(rest) = Cardinality(mine) - surplus
  BY <1>8
<1> HIDE DEF rest
<1>10. Cardinality(rest \cup {key}) <= Cardinality(rest) + 1 /\ Cardinality(rest) \in Nat
       /\ Cardinality(rest \cup {key}) \in Nat
  <2>1. /\ IsFiniteSet(rest \cup {key})
        /\ Cardinality(rest \cup {key}) =
             IF key \in rest THEN Cardinality(rest) ELSE Cardinality(rest) + 1
    BY <1>9, FS_AddElement
  <2>2. Cardinality(rest) \in Nat /\ Cardinality(rest \cup {key}) \in Nat
    BY <1>9, <2>1, FS_CardinalityType
  <2> QED
    BY <2>1, <2>2
<1>11. Cardinality(MineOf(room, s)) = Cardinality(rest \cup {key})
  BY <1>6 DEF rest
<1> QED
  BY <1>1, <1>3, <1>4, <1>9, <1>10, <1>11

\* CommunityPanel::receive of an image packet.
LEMMA ReceiveImageKeeps ==
  ASSUME ImageIInv, NEW s \in Uploaders, ReceiveImage(s)
  PROVE  ImageIInv'
<1> DEFINE chunk == Head(wire[s])
           key == <<s, chunk.id>>
           before == [transfers |-> transfers, bytes |-> bufferedBytes]
           fresh == Expire(before)
           held == DropOther(fresh, key, chunk.count)
           rooms == IF key \in DOMAIN held.transfers THEN {held}
                    ELSE {Roomier(room, key, chunk.count) :
                          room \in {Drop(held, old) : old \in Oldest(held, s)}}
<1>1. /\ wire[s] # <<>> /\ wire' = [wire EXCEPT ![s] = Tail(wire[s])]
      /\ UNCHANGED <<uploads, imageClock>>
  BY DEF ReceiveImage
<1>2. PICK room \in rooms :
        /\ transfers' = Place(room, key, chunk.index).transfers
        /\ bufferedBytes' = Place(room, key, chunk.index).bytes
  BY DEF ReceiveImage, Roomier
<1>3. wire \in [Uploaders -> Seq(Chunks)] /\ wire[s] \in Seq(Chunks)
  BY DEF ImageIInv, ImageTyped, Chunks
<1>4. chunk \in Chunks /\ Tail(wire[s]) \in Seq(Chunks)
  BY <1>1, <1>3
<1> HIDE DEF chunk
<1>5. /\ chunk.id \in TransferIds /\ chunk.count \in 1..MaxChunks /\ chunk.index \in Nat
      /\ key \in Uploaders \X TransferIds /\ key[1] = s
  BY <1>4 DEF Chunks
<1>6. wire' \in [Uploaders -> Seq(Chunks)]
  <2> DEFINE rest == Tail(wire[s])
  <2>1. rest \in Seq(Chunks) /\ wire' = [wire EXCEPT ![s] = rest]
    BY <1>1, <1>4
  <2> HIDE DEF rest
  <2> QED
    BY <1>3, <2>1
<1>7. Accounted(before) /\ before.transfers = transfers /\ imageClock \in Nat
  BY DEF ImageIInv, ImageTyped
<1> HIDE DEF before, key
<1>8. Accounted(fresh) /\ DOMAIN fresh.transfers \subseteq DOMAIN transfers
  <2> DEFINE gone == {k \in DOMAIN before.transfers :
                        imageClock - before.transfers[k].started > TransferTimeout}
  <2>1. fresh = Drop(before, gone)
    BY DEF Expire
  <2> HIDE DEF fresh, gone
  <2>2. /\ Accounted(Drop(before, gone))
        /\ DOMAIN Drop(before, gone).transfers = DOMAIN before.transfers \ gone
    BY <1>7, Dropped DEF Accounted
  <2> QED
    BY <1>7, <2>1, <2>2
<1> HIDE DEF fresh
<1>9. Accounted(held) /\ DOMAIN held.transfers \subseteq DOMAIN transfers
  <2> DEFINE gone == {k \in DOMAIN fresh.transfers :
                        k = key /\ fresh.transfers[k].count # chunk.count}
  <2>1. held = Drop(fresh, gone)
    BY DEF DropOther
  <2> HIDE DEF held, gone
  <2>2. /\ Accounted(Drop(fresh, gone))
        /\ DOMAIN Drop(fresh, gone).transfers = DOMAIN fresh.transfers \ gone
    BY <1>8, Dropped DEF Accounted
  <2> QED
    BY <1>8, <2>1, <2>2
<1> HIDE DEF held
<1>10. /\ Accounted(room) /\ key \in DOMAIN room.transfers
       /\ \A u \in Uploaders : Cardinality(MineOf(room.transfers, u)) <= MaxTransfers
  <2>0. TransfersTyped(transfers) /\ MaxTransfers \in Nat
        /\ \A u \in Uploaders : Cardinality(MineOf(transfers, u)) <= MaxTransfers
    BY <1>7, ImageTransferAssumption DEF ImageIInv, Accounted, Counted
  <2>1. CASE key \in DOMAIN held.transfers
    <3>1. room = held
      BY <1>2, <2>1
    <3>2. ASSUME NEW u \in Uploaders
          PROVE  Cardinality(MineOf(held.transfers, u)) <= MaxTransfers
      <4>1. /\ Cardinality(MineOf(held.transfers, u)) <= Cardinality(MineOf(transfers, u))
            /\ Cardinality(MineOf(held.transfers, u)) \in Nat
            /\ Cardinality(MineOf(transfers, u)) \in Nat
        BY <1>9, <2>0, MineShrink
      <4>2. Cardinality(MineOf(transfers, u)) <= MaxTransfers
        BY <2>0
      <4> QED
        BY <2>0, <4>1, <4>2
    <3> QED
      BY <1>9, <2>1, <3>1, <3>2
  <2>2. CASE key \notin DOMAIN held.transfers
    <3>1. PICK old \in Oldest(held, s) : room = Roomier(Drop(held, old), key, chunk.count)
      BY <1>2, <2>2
    <3> DEFINE less == Drop(held, old)
    <3>2. Accounted(less) /\ DOMAIN less.transfers = DOMAIN held.transfers \ old
      BY <1>9, Dropped DEF Accounted
    <3> HIDE DEF less
    <3>3. key \notin DOMAIN less.transfers
      BY <2>2, <3>2
    <3>4. Accounted(Roomier(less, key, chunk.count))
          /\ DOMAIN Roomier(less, key, chunk.count).transfers = DOMAIN less.transfers \cup {key}
      BY <1>5, <1>7, <3>2, <3>3, Begins
    <3>5. room = Roomier(less, key, chunk.count)
      BY <3>1 DEF less
    <3>6. Accounted(room) /\ DOMAIN room.transfers = DOMAIN less.transfers \cup {key}
      BY <3>4, <3>5
    <3>7. ASSUME NEW u \in Uploaders, u # s
          PROVE  Cardinality(MineOf(room.transfers, u)) <= MaxTransfers
      <4>1. MineOf(room.transfers, u) = MineOf(less.transfers, u)
        BY <1>5, <3>6, <3>7 DEF MineOf
      <4>2. DOMAIN less.transfers \subseteq DOMAIN transfers
        BY <1>9, <3>2
      <4>3. /\ Cardinality(MineOf(less.transfers, u)) <= Cardinality(MineOf(transfers, u))
            /\ Cardinality(MineOf(less.transfers, u)) \in Nat
            /\ Cardinality(MineOf(transfers, u)) \in Nat
        BY <2>0, <4>2, MineShrink
      <4>4. Cardinality(MineOf(transfers, u)) <= MaxTransfers
        BY <2>0
      <4> QED
        BY <2>0, <4>1, <4>3, <4>4
    <3>8. Cardinality(MineOf(room.transfers, s)) <= MaxTransfers
      BY <1>5, <1>9, <3>6, RoomIsMade DEF less
    <3> QED
      BY <3>6, <3>7, <3>8
  <2> QED
    BY <2>1, <2>2
<1> HIDE DEF rooms
<1> DEFINE after == Place(room, key, chunk.index)
<1>11. Accounted(after) /\ DOMAIN after.transfers \subseteq DOMAIN room.transfers
  BY <1>5, <1>10, Placed
<1>12. transfers' = after.transfers /\ bufferedBytes' = after.bytes
  BY <1>2
<1> HIDE DEF after
<1>13. after = [transfers |-> after.transfers, bytes |-> after.bytes]
  BY <1>11 DEF Accounted, Counted
<1>14. Accounted([transfers |-> transfers', bytes |-> bufferedBytes'])
  BY <1>11, <1>12, <1>13
<1>15. Accounted([transfers |-> transfers, bytes |-> bufferedBytes])'
  BY <1>14
<1>16. ASSUME NEW u \in Uploaders
       PROVE  Cardinality(MineOf(transfers', u)) <= MaxTransfers
  <2>1. TransfersTyped(room.transfers) /\ MaxTransfers \in Nat
    BY <1>10, ImageTransferAssumption DEF Accounted, Counted
  <2>2. /\ Cardinality(MineOf(after.transfers, u)) <= Cardinality(MineOf(room.transfers, u))
        /\ Cardinality(MineOf(after.transfers, u)) \in Nat
        /\ Cardinality(MineOf(room.transfers, u)) \in Nat
    BY <1>11, <2>1, MineShrink
  <2>3. Cardinality(MineOf(room.transfers, u)) <= MaxTransfers
    BY <1>10
  <2> QED
    BY <1>12, <2>1, <2>2, <2>3
<1>17. (\A u \in Uploaders : Cardinality(MineOf(transfers, u)) <= MaxTransfers)'
  BY <1>16 DEF MineOf
<1>18. bufferedBytes' \in Int
  <2>1. TransfersTyped(after.transfers) /\ after.bytes = Bytes(after.transfers)
    BY <1>11 DEF Accounted, Counted
  <2>2. \A x \in DOMAIN after.transfers : Weights(after.transfers)[x] \in Int
    BY <2>1, WeightsAreNaturals
  <2>3. IsFiniteSet(DOMAIN after.transfers)
    BY <2>1, WeightsAreNaturals
  <2>4. SumOf(Weights(after.transfers), DOMAIN after.transfers) \in Int
    BY <2>2, <2>3, SumFacts
  <2> QED
    BY <1>12, <2>1, <2>4, BytesAreSum
<1>19. ImageTyped'
  BY <1>1, <1>6, <1>18 DEF ImageIInv, ImageTyped, Chunks
<1> QED
  BY <1>15, <1>17, <1>19 DEF ImageIInv

\* The receiver's connection ends.
LEMMA ReceiverDisconnectsKeeps == ImageIInv /\ ReceiverDisconnects => ImageIInv'
<1> SUFFICES ASSUME ImageIInv, ReceiverDisconnects PROVE ImageIInv'
  OBVIOUS
<1> DEFINE held == [transfers |-> transfers', bytes |-> bufferedBytes']
<1>1. /\ transfers' = [key \in {} |-> {}] /\ bufferedBytes' = 0
      /\ wire' = [s \in Uploaders |-> <<>>] /\ UNCHANGED <<uploads, imageClock>>
  BY DEF ReceiverDisconnects
<1>2. DOMAIN transfers' = {}
  BY <1>1
<1>3. TransfersTyped(transfers')
  <2>1. IsFiniteSet(DOMAIN transfers')
    BY <1>2, FS_EmptySet
  <2>2. transfers' \in [DOMAIN transfers' -> Transfers]
    BY <1>1
  <2> QED
    BY <1>2, <2>1, <2>2 DEF TransfersTyped
<1>4. Bytes(transfers') = 0
  <2>1. Bytes(transfers') = SumOf(Weights(transfers'), DOMAIN transfers')
    BY <1>3, BytesAreSum
  <2>2. \A x \in DOMAIN transfers' : Weights(transfers')[x] \in Int
    BY <1>2
  <2>3. IsFiniteSet(DOMAIN transfers')
    BY <1>3 DEF TransfersTyped
  <2> QED
    BY <1>2, <2>1, <2>2, <2>3, SumFacts
<1>5. held.transfers = transfers' /\ held.bytes = bufferedBytes'
      /\ held = [transfers |-> held.transfers, bytes |-> held.bytes]
  OBVIOUS
<1> HIDE DEF held
<1>6. Accounted(held)
  BY <1>1, <1>2, <1>3, <1>4, <1>5, ImageTransferAssumption DEF Accounted, Counted
<1>7. Accounted([transfers |-> transfers, bytes |-> bufferedBytes])'
  BY <1>6 DEF held
<1>8. (\A s \in Uploaders : Cardinality(MineOf(transfers, s)) <= MaxTransfers)'
  <2>1. \A s : MineOf(transfers', s) = {}
    BY <1>2 DEF MineOf
  <2>2. \A s \in Uploaders : Cardinality(MineOf(transfers', s)) <= MaxTransfers
    BY <2>1, FS_EmptySet, ImageTransferAssumption
  <2> QED
    BY <2>2 DEF MineOf
<1>9. ImageTyped'
  <2>1. <<>> \in Seq(Chunks)
    OBVIOUS
  <2>2. wire' \in [Uploaders -> Seq(Chunks)] /\ bufferedBytes' \in Int
    BY <1>1, <2>1
  <2> QED
    BY <1>1, <2>2 DEF ImageIInv, ImageTyped, Chunks
<1> QED
  BY <1>7, <1>8, <1>9 DEF ImageIInv

\* Time passes.
LEMMA ImageClockKeeps == ImageIInv /\ ImageClockAdvances => ImageIInv'
<1> SUFFICES ASSUME ImageIInv, ImageClockAdvances PROVE ImageIInv'
  OBVIOUS
<1>1. /\ imageClock < MaxTicks /\ imageClock' = imageClock + 1
      /\ UNCHANGED <<uploads, wire, transfers, bufferedBytes>>
  BY DEF ImageClockAdvances
<1>2. ImageTyped'
  <2>1. imageClock' \in 0..MaxTicks
    BY <1>1, ImageTransferAssumption DEF ImageIInv, ImageTyped
  <2> QED
    BY <1>1, <2>1 DEF ImageIInv, ImageTyped
<1>3. Accounted([transfers |-> transfers, bytes |-> bufferedBytes])'
  BY <1>1 DEF ImageIInv
<1>4. (\A s \in Uploaders : Cardinality(MineOf(transfers, s)) <= MaxTransfers)'
  BY <1>1 DEF ImageIInv, MineOf
<1> QED
  BY <1>2, <1>3, <1>4 DEF ImageIInv

\* Every step keeps the invariant.
LEMMA ImageStepKeeps == ImageIInv /\ [ImageNext]_imageVars => ImageIInv'
<1> SUFFICES ASSUME ImageIInv, [ImageNext]_imageVars PROVE ImageIInv'
  OBVIOUS
<1>1. CASE UNCHANGED imageVars
  <2>1. UNCHANGED <<uploads, wire, transfers, bufferedBytes, imageClock>>
    BY <1>1 DEF imageVars
  <2>2. ImageTyped'
    BY <2>1 DEF ImageIInv, ImageTyped
  <2> QED
    BY <2>1, <2>2, ReceiverUnchanged
<1>2. CASE ImageNext
  BY <1>2, SendImageKeeps, ImageTimerKeeps, SenderDisconnectsKeeps, ReceiveImageKeeps,
     ReceiverDisconnectsKeeps, ImageClockKeeps DEF ImageNext
<1> QED
  BY <1>1, <1>2

\* What the invariant says of the images.
LEMMA ImagesAreCounted == ImageIInv => ImageTypeOK /\ BufferIsCounted
<1> SUFFICES ASSUME ImageIInv PROVE ImageTypeOK /\ BufferIsCounted
  OBVIOUS
<1> DEFINE held == [transfers |-> transfers, bytes |-> bufferedBytes]
<1>1. Accounted(held) /\ held.transfers = transfers /\ held.bytes = bufferedBytes
  BY DEF ImageIInv
<1> HIDE DEF held
<1>2. /\ TransfersTyped(transfers) /\ bufferedBytes = Bytes(transfers) /\ bufferedBytes <= MaxBuffered
      /\ \A key \in DOMAIN transfers : Held(transfers[key]) < transfers[key].count
  BY <1>1 DEF Accounted, Counted
<1>3. ImageTypeOK
  BY <1>2 DEF ImageIInv, ImageTyped, ImageTypeOK, TransfersTyped
<1>4. BufferIsCounted
  BY <1>2 DEF BufferIsCounted, ImageIInv, MineOf
<1> QED
  BY <1>3, <1>4

\* The counter.
THEOREM ImagesThm == ImageSpec => [](ImageTypeOK /\ BufferIsCounted)
BY ImagesStart, ImageStepKeeps, ImagesAreCounted, PTL DEF ImageSpec

-----------------------------------------------------------------------------
(***************************************************************************)
(* Loops, and folds of sequences.                                          *)
(***************************************************************************)
\* The steps of a loop, of N rounds, stay among the values V.
CanLoop(N, V, op) == \A v \in V : \A n \in 1 .. N : op[<<n, v>>] \in V
\* f goes through the rounds, from base.
LoopsBy(f, N, base, op) ==
    f[0] = base /\ \A n \in 1 .. N : f[n] = op[<<n, f[n - 1]>>]

\* There is a function that goes through the rounds of a loop.
LEMMA LoopExists ==
  ASSUME NEW N \in Nat, NEW V, NEW base \in V, NEW op, CanLoop(N, V, op)
  PROVE  \E f \in [0 .. N -> V] : LoopsBy(f, N, base, op)
<1> DEFINE Good(k) == \E f \in [0 .. k -> V] : LoopsBy(f, k, base, op)
           Bad == {k \in 0 .. N : ~ Good(k)}
<1>1. ASSUME Bad # {} PROVE FALSE
  <2>1. PICK k \in Bad : \A j \in Bad : k <= j
    <3>1. Bad \in SUBSET Nat
      OBVIOUS
    <3> HIDE DEF Bad
    <3> QED
      BY <1>1, <3>1, LeastNumber
  <2>2. k # 0
    <3>1. ASSUME k = 0 PROVE FALSE
      <4> DEFINE f == [n \in 0 .. 0 |-> base]
      <4>1. f \in [0 .. 0 -> V] /\ LoopsBy(f, 0, base, op)
        BY DEF LoopsBy
      <4> HIDE DEF f
      <4> QED
        BY <2>1, <3>1, <4>1
    <3> QED
      BY <3>1
  <2>3. k \in 1 .. N /\ k - 1 \in 0 .. N /\ ~ (k <= k - 1)
    BY <2>1, <2>2
  <2>4. PICK f \in [0 .. (k - 1) -> V] : LoopsBy(f, k - 1, base, op)
    BY <2>1, <2>3
  <2>5. f[k - 1] \in V
    BY <2>3
  <2>6. op[<<k, f[k - 1]>>] \in V
    BY <2>3, <2>5 DEF CanLoop
  <2> DEFINE last == op[<<k, f[k - 1]>>]
             g == [n \in 0 .. k |-> IF n = k THEN last ELSE f[n]]
  <2>7. \A n \in 0 .. k : n # k => n \in 0 .. (k - 1)
    BY <2>3
  <2>8. last \in V
    BY <2>6
  <2> HIDE DEF last
  <2>9. g \in [0 .. k -> V]
    BY <2>7, <2>8
  <2>10. \A n \in 0 .. (k - 1) : g[n] = f[n]
    BY <2>3
  <2>11. g[k] = last
    BY <2>3
  <2> HIDE DEF g
  <2>12. LoopsBy(g, k, base, op)
    <3>1. g[0] = base
      BY <2>3, <2>4, <2>10 DEF LoopsBy
    <3>2. ASSUME NEW n \in 1 .. k PROVE g[n] = op[<<n, g[n - 1]>>]
      <4>1. n - 1 \in 0 .. (k - 1) /\ g[n - 1] = f[n - 1]
        BY <2>3, <2>10
      <4>2. CASE n = k
        BY <2>11, <4>1, <4>2 DEF last
      <4>3. CASE n # k
        <5>1. n \in 1 .. (k - 1) /\ n \in 0 .. (k - 1)
          BY <2>3, <4>3
        <5> QED
          BY <2>4, <2>10, <4>1, <5>1 DEF LoopsBy
      <4> QED
        BY <4>2, <4>3
    <3> QED
      BY <3>1, <3>2 DEF LoopsBy
  <2> QED
    BY <2>1, <2>9, <2>12
<1>2. Good(N)
  <2> HIDE DEF Good
  <2> QED
    BY <1>1
<1> QED
  BY <1>2

\* What Max chooses of the first numbers.
LEMMA MaxOfFirst ==
  ASSUME NEW n \in Nat, n # 0
  PROVE  Max(1 .. n) = n /\ (1 .. n) \ {Max(1 .. n)} = 1 .. (n - 1)
<1>1. n \in 1 .. n /\ \A y \in 1 .. n : n >= y
  OBVIOUS
<1>2. Max(1 .. n) \in 1 .. n /\ \A y \in 1 .. n : Max(1 .. n) >= y
  BY <1>1 DEF Max
<1>3. Max(1 .. n) = n
  BY <1>1, <1>2
<1> QED
  BY <1>3

\* Any set of the first numbers has a greatest.
LEMMA MaxOfSome ==
  ASSUME NEW N \in Nat, NEW T \in SUBSET (1 .. N), T # {}
  PROVE  Max(T) \in T
<1> DEFINE Above == {k \in Nat : \A y \in T : k >= y}
<1>1. N \in Above
  OBVIOUS
<1>2. PICK k \in Above : \A j \in Above : k <= j
  <2>1. Above \in SUBSET Nat /\ Above # {}
    BY <1>1
  <2> HIDE DEF Above
  <2> QED
    BY <2>1, LeastNumber
<1>3. k \in Nat /\ \A y \in T : k >= y
  BY <1>2
<1>4. k \in T
  <2>1. ASSUME k \notin T PROVE FALSE
    <3>1. \A y \in T : y \in Nat /\ y >= 1
      OBVIOUS
    <3>2. \A y \in T : k >= y /\ k # y
      BY <1>3, <2>1
    <3>3. PICK y \in T : TRUE
      OBVIOUS
    <3>4. k - 1 \in Nat
      BY <1>3, <3>1, <3>2, <3>3
    <3>5. \A z \in T : k - 1 >= z
      BY <1>3, <3>1, <3>2
    <3>6. k - 1 \in Above
      BY <3>4, <3>5
    <3> QED
      BY <1>2, <1>3, <3>6
  <2> QED
    BY <2>1
<1>5. \E x \in T : \A y \in T : x >= y
  BY <1>3, <1>4
<1> QED
  BY <1>5 DEF Max

\* f folds the first N places from the left.
FoldsLeft(f, N, base, op) ==
    f = [T \in SUBSET (1 .. N) |->
            IF T = {} THEN base ELSE op[<<Max(T), f[T \ {Max(T)}]>>]]

\* A fold from the left exists.
LEMMA FoldLeftExists ==
  ASSUME NEW N \in Nat, NEW V, NEW base \in V, NEW op, CanLoop(N, V, op)
  PROVE  \E f \in [SUBSET (1 .. N) -> V] : FoldsLeft(f, N, base, op)
<1> DEFINE S == 1 .. N
           pick == [T \in SUBSET S |-> Max(T)]
           step == [p \in (SUBSET S) \X V |-> op[<<Max(p[1]), p[2]>>]]
<1>1. \A T \in SUBSET S : T # {} => Max(T) \in T
  BY MaxOfSome
<1>2. \A T \in SUBSET S : pick[T] = Max(T)
  OBVIOUS
<1>3. \A T \in SUBSET S : \A v \in V : step[<<T, v>>] = op[<<Max(T), v>>]
  OBVIOUS
<1>4. IsFiniteSet(S)
  BY FS_Interval
<1> HIDE DEF pick, step
<1>5. CanFold(S, V, pick, step)
  <2>1. \A T \in SUBSET S : T # {} => pick[T] \in T
    BY <1>1, <1>2
  <2>2. ASSUME NEW T \in SUBSET S, NEW v \in V, T # {} PROVE step[<<T, v>>] \in V
    <3>1. Max(T) \in S
      BY <1>1, <2>2
    <3>2. op[<<Max(T), v>>] \in V
      BY <3>1 DEF CanLoop
    <3> QED
      BY <1>3, <3>2
  <2> HIDE DEF S
  <2> QED
    BY <2>1, <2>2 DEF CanFold
<1> HIDE DEF S
<1>6. PICK f \in [SUBSET S -> V] : FoldsBy(f, S, base, pick, step)
  BY <1>4, <1>5, FoldExists
<1>7. \A T \in SUBSET S : f[T] = IF T = {} THEN base ELSE op[<<Max(T), f[T \ {Max(T)}]>>]
  <2> SUFFICES ASSUME NEW T \in SUBSET S
        PROVE  f[T] = IF T = {} THEN base ELSE op[<<Max(T), f[T \ {Max(T)}]>>]
    OBVIOUS
  <2>1. f[T \ {Max(T)}] \in V
    OBVIOUS
  <2>2. f[T] = IF T = {} THEN base ELSE step[<<T, f[T \ {Max(T)}]>>]
    BY <1>2, <1>6 DEF FoldsBy
  <2> QED
    BY <1>3, <2>1, <2>2
<1>8. f = [T \in SUBSET S |-> f[T]]
  OBVIOUS
<1> QED
  BY <1>7, <1>8 DEF FoldsLeft, S

\* What the rounds of a loop keep holds after each of them.
LEMMA Stays ==
  ASSUME NEW N \in Nat, NEW V, NEW g, g[0] \in V,
         \A n \in 1 .. N : g[n - 1] \in V => g[n] \in V
  PROVE  \A n \in 0 .. N : g[n] \in V
<1> DEFINE Bad == {n \in Nat : n <= N /\ g[n] \notin V}
<1>1. ASSUME Bad # {} PROVE FALSE
  <2>1. PICK n \in Bad : \A j \in Bad : n <= j
    <3>1. Bad \in SUBSET Nat
      OBVIOUS
    <3> HIDE DEF Bad
    <3> QED
      BY <1>1, <3>1, LeastNumber
  <2>2. n \in Nat /\ n <= N /\ g[n] \notin V
    BY <2>1
  <2>3. n # 0
    BY <2>2
  <2>4. n \in 1 .. N /\ n - 1 \in Nat /\ n - 1 <= N /\ ~ (n <= n - 1)
    BY <2>2, <2>3
  <2>5. g[n - 1] \in V
    BY <2>1, <2>4
  <2> QED
    BY <2>2, <2>4, <2>5
<1> QED
  BY <1>1

\* Any function that folds from the left goes from prefix to prefix.
LEMMA PrefixStep ==
  ASSUME NEW N \in Nat, NEW n \in 1 .. N
  PROVE  /\ (1 .. n) \in SUBSET (1 .. N) /\ (1 .. n) # {} /\ Max(1 .. n) = n
         /\ (1 .. n) \ {n} = 1 .. (n - 1)
<1>1. n \in Nat /\ n # 0 /\ 1 .. n # {} /\ (1 .. n) \in SUBSET (1 .. N)
  OBVIOUS
<1>2. Max(1 .. n) = n /\ (1 .. n) \ {Max(1 .. n)} = 1 .. (n - 1)
  BY <1>1, MaxOfFirst
<1> QED
  BY <1>1, <1>2

-----------------------------------------------------------------------------
(***************************************************************************)
(* The transcripts.                                                        *)
(***************************************************************************)
\* The round of the loop of OnlyOf.
KeepsOf(seq, S, M) ==
    [p \in (1 .. Len(seq)) \X Seq(M) |->
        IF seq[p[1]] \in S THEN Append(p[2], seq[p[1]]) ELSE p[2]]

\* g holds what OnlyOf has kept after each round.
KeepsBy(g, seq, S, M) ==
    /\ g \in [0 .. Len(seq) -> Seq(M)] /\ OnlyOf(seq, S) = g[Len(seq)] /\ g[0] = <<>>
    /\ \A n \in 1 .. Len(seq) :
          g[n] = IF seq[n] \in S THEN Append(g[n - 1], seq[n]) ELSE g[n - 1]

\* OnlyOf goes through a sequence, round by round.
LEMMA OnlyOfLoops ==
  ASSUME NEW M, NEW seq \in Seq(M), NEW S
  PROVE  \E g : KeepsBy(g, seq, S, M)
<1> DEFINE N == Len(seq)
           D == DOMAIN seq
           op == KeepsOf(seq, S, M)
           Folds(f) == f = [T \in SUBSET D |->
              IF T = {} THEN <<>>
              ELSE IF seq[Max(T)] \in S THEN Append(f[T \ {Max(T)}], seq[Max(T)])
                   ELSE f[T \ {Max(T)}]]
           chosen == CHOOSE f : Folds(f)
<1>0. N \in Nat /\ D = 1 .. N /\ <<>> \in Seq(M)
  OBVIOUS
<1>1. OnlyOf(seq, S) = chosen[D]
  BY DEF OnlyOf, FoldLeft, MapThenFoldSet
<1>2. \A n \in 1 .. N : \A v \in Seq(M) :
        op[<<n, v>>] = IF seq[n] \in S THEN Append(v, seq[n]) ELSE v
  BY DEF KeepsOf
<1>3. CanLoop(N, Seq(M), op)
  <2> SUFFICES ASSUME NEW v \in Seq(M), NEW n \in 1 .. N PROVE op[<<n, v>>] \in Seq(M)
    BY DEF CanLoop
  <2>1. seq[n] \in M
    OBVIOUS
  <2>2. Append(v, seq[n]) \in Seq(M)
    BY <2>1
  <2> HIDE DEF op
  <2> QED
    BY <1>2, <2>2
<1> HIDE DEF op, N
<1>4. PICK h \in [SUBSET (1 .. N) -> Seq(M)] : FoldsLeft(h, N, <<>>, op)
  BY <1>0, <1>3, FoldLeftExists
<1>5. Folds(h)
  <2>1. ASSUME NEW T \in SUBSET D, T # {}
        PROVE  op[<<Max(T), h[T \ {Max(T)}]>>]
                = IF seq[Max(T)] \in S THEN Append(h[T \ {Max(T)}], seq[Max(T)])
                  ELSE h[T \ {Max(T)}]
    <3>1. T \in SUBSET (1 .. N) /\ Max(T) \in 1 .. N
      BY <1>0, <2>1, MaxOfSome
    <3>2. h[T \ {Max(T)}] \in Seq(M)
      BY <3>1
    <3> QED
      BY <1>2, <3>1, <3>2
  <2>2. h = [T \in SUBSET D |-> IF T = {} THEN <<>> ELSE op[<<Max(T), h[T \ {Max(T)}]>>]]
    BY <1>0, <1>4 DEF FoldsLeft
  <2> QED
    BY <2>1, <2>2
<1> HIDE DEF Folds
<1>6. Folds(chosen)
  BY <1>5
<1> HIDE DEF chosen
<1> DEFINE g == [n \in 0 .. N |-> chosen[1 .. n]]
<1>7. \A n \in 0 .. N : g[n] = chosen[1 .. n]
  OBVIOUS
<1>8. g[0] = <<>>
  <2>1. 1 .. 0 = {} /\ 0 \in 0 .. N /\ {} \in SUBSET D
    BY <1>0
  <2>2. chosen[{}] = <<>>
    BY <1>6, <2>1 DEF Folds
  <2> QED
    BY <1>7, <2>1, <2>2
<1>9. ASSUME NEW n \in 1 .. N
      PROVE  g[n] = IF seq[n] \in S THEN Append(g[n - 1], seq[n]) ELSE g[n - 1]
  <2>1. /\ (1 .. n) \in SUBSET (1 .. N) /\ (1 .. n) # {} /\ Max(1 .. n) = n
        /\ (1 .. n) \ {n} = 1 .. (n - 1)
    BY <1>0, PrefixStep
  <2>2. n \in 0 .. N /\ n - 1 \in 0 .. N
    BY <1>0
  <2>3. chosen[1 .. n] = IF seq[Max(1 .. n)] \in S
                           THEN Append(chosen[(1 .. n) \ {Max(1 .. n)}], seq[Max(1 .. n)])
                           ELSE chosen[(1 .. n) \ {Max(1 .. n)}]
    BY <1>0, <1>6, <2>1 DEF Folds
  <2> HIDE DEF g
  <2> QED
    BY <1>7, <2>1, <2>2, <2>3
<1>10. g \in [0 .. N -> Seq(M)]
  <2>1. \A n \in 1 .. N : g[n - 1] \in Seq(M) => g[n] \in Seq(M)
    <3> SUFFICES ASSUME NEW n \in 1 .. N, g[n - 1] \in Seq(M) PROVE g[n] \in Seq(M)
      OBVIOUS
    <3>1. seq[n] \in M
      BY <1>0 DEF N
    <3>2. Append(g[n - 1], seq[n]) \in Seq(M)
      BY <3>1
    <3> HIDE DEF g
    <3> QED
      BY <1>9, <3>2
  <2>2. g[0] \in Seq(M)
    BY <1>0, <1>8
  <2>3. g = [n \in 0 .. N |-> g[n]]
    OBVIOUS
  <2> HIDE DEF g
  <2>4. \A n \in 0 .. N : g[n] \in Seq(M)
    BY <1>0, <2>1, <2>2, Stays
  <2> QED
    BY <2>3, <2>4
<1>11. OnlyOf(seq, S) = g[N]
  <2>1. g[N] = chosen[1 .. N]
    BY <1>0
  <2> QED
    BY <1>0, <1>1, <2>1
<1> HIDE DEF g
<1>12. KeepsBy(g, seq, S, M)
  BY <1>8, <1>9, <1>10, <1>11 DEF N, KeepsBy
<1> QED
  BY <1>12

\* What OnlyOf keeps: at[i] is the place its i-th element comes from.
PlacesOf(r, seq, n, S, at) ==
    /\ at \in [1 .. Len(r) -> 1 .. n]
    /\ \A i, j \in 1 .. Len(r) : i < j => at[i] < at[j]
    /\ \A i \in 1 .. Len(r) : r[i] = seq[at[i]] /\ r[i] \in S
    /\ \A k \in 1 .. n : seq[k] \in S => \E i \in 1 .. Len(r) : at[i] = k

\* OnlyOf keeps what is in the set, in its order, and nothing else.
LEMMA OnlyOfFacts ==
  ASSUME NEW M, NEW seq \in Seq(M), NEW S
  PROVE  /\ OnlyOf(seq, S) \in Seq(M)
         /\ \E at : PlacesOf(OnlyOf(seq, S), seq, Len(seq), S, at)
<1> DEFINE N == Len(seq)
<1>0. N \in Nat /\ N \in 0 .. N
  OBVIOUS
<1>1. PICK g : KeepsBy(g, seq, S, M)
  BY OnlyOfLoops
<1>6. /\ g \in [0 .. N -> Seq(M)] /\ OnlyOf(seq, S) = g[N] /\ g[0] = <<>>
      /\ \A n \in 1 .. N :
            g[n] = IF seq[n] \in S THEN Append(g[n - 1], seq[n]) ELSE g[n - 1]
  BY <1>1 DEF KeepsBy
<1>7. \A n \in 0 .. N : g[n] \in Seq(M)
  BY <1>6, Zenon
<1> DEFINE Kept(n) == \E at : PlacesOf(g[n], seq, n, S, at)
           Bad == {n \in Nat : n <= N /\ ~ Kept(n)}
<1>2. Kept(0)
  <2> DEFINE at == [i \in {} |-> 0]
  <2>1. Len(g[0]) = 0 /\ 1 .. 0 = {}
    BY <1>6
  <2>2. at \in [1 .. Len(g[0]) -> 1 .. 0]
    BY <2>1
  <2>3. PlacesOf(g[0], seq, 0, S, at)
    BY <2>1, <2>2 DEF PlacesOf
  <2> QED
    BY <2>3
<1>3. ASSUME NEW n \in 1 .. N, Kept(n - 1) PROVE Kept(n)
  <2>0. n - 1 \in 0 .. N /\ n \in 0 .. N /\ seq[n] \in M
    BY <1>0
  <2>1. PICK at : PlacesOf(g[n - 1], seq, n - 1, S, at)
    BY <1>3
  <2> DEFINE r == g[n - 1]
             L == Len(r)
  <2>2. r \in Seq(M) /\ L \in Nat
    <3>1. r \in Seq(M)
      BY <1>7, <2>0
    <3> QED
      BY <3>1
  <2>3. /\ at \in [1 .. L -> 1 .. (n - 1)]
        /\ \A i, j \in 1 .. L : i < j => at[i] < at[j]
        /\ \A i \in 1 .. L : r[i] = seq[at[i]] /\ r[i] \in S
        /\ \A k \in 1 .. (n - 1) : seq[k] \in S => \E i \in 1 .. L : at[i] = k
    BY <2>1 DEF PlacesOf
  <2>4. CASE seq[n] \notin S
    <3>1. g[n] = r
      BY <1>6, <2>4
    <3>2. at \in [1 .. L -> 1 .. n]
      BY <2>3
    <3>3. \A k \in 1 .. n : seq[k] \in S => \E i \in 1 .. L : at[i] = k
      BY <2>3, <2>4
    <3> HIDE DEF r
    <3>4. PlacesOf(r, seq, n, S, at)
      BY <2>3, <3>2, <3>3 DEF PlacesOf
    <3> QED
      BY <3>1, <3>4
  <2>5. CASE seq[n] \in S
    <3> DEFINE q == Append(r, seq[n])
               to == [i \in 1 .. (L + 1) |-> IF i = L + 1 THEN n ELSE at[i]]
    <3>1. g[n] = q
      BY <1>6, <2>5
    <3> HIDE DEF r
    <3>2. Len(q) = L + 1 /\ q[L + 1] = seq[n] /\ \A i \in 1 .. L : q[i] = r[i]
      BY <2>0, <2>2
    <3> HIDE DEF q, L
    <3>3. \A i \in 1 .. (L + 1) : i # L + 1 => i \in 1 .. L
      BY <2>2
    <3>4. to[L + 1] = n /\ \A i \in 1 .. L : to[i] = at[i]
      BY <2>2
    <3>5. to \in [1 .. (L + 1) -> 1 .. n]
      <4>1. \A i \in 1 .. L : at[i] \in 1 .. n
        BY <2>3
      <4> QED
        BY <3>3, <4>1
    <3> HIDE DEF to
    <3>6. \A i, j \in 1 .. (L + 1) : i < j => to[i] < to[j]
      <4> SUFFICES ASSUME NEW i \in 1 .. (L + 1), NEW j \in 1 .. (L + 1), i < j
            PROVE  to[i] < to[j]
        OBVIOUS
      <4>1. i \in 1 .. L
        BY <2>2
      <4>2. CASE j = L + 1
        <5>1. at[i] \in 1 .. (n - 1)
          BY <2>3, <4>1
        <5> QED
          BY <3>4, <4>1, <4>2, <5>1
      <4>3. CASE j # L + 1
        BY <2>3, <3>3, <3>4, <4>1, <4>3
      <4> QED
        BY <4>2, <4>3
    <3>7. \A i \in 1 .. (L + 1) : q[i] = seq[to[i]] /\ q[i] \in S
      BY <2>3, <2>5, <3>2, <3>3, <3>4
    <3>8. ASSUME NEW k \in 1 .. n, seq[k] \in S
          PROVE  \E i \in 1 .. (L + 1) : to[i] = k
      <4>1. CASE k = n
        <5>1. L + 1 \in 1 .. (L + 1)
          BY <2>2
        <5> QED
          BY <3>4, <4>1, <5>1
      <4>2. CASE k # n
        <5>1. k \in 1 .. (n - 1)
          BY <4>2
        <5>2. PICK i \in 1 .. L : at[i] = k
          BY <2>3, <3>8, <5>1
        <5>3. i \in 1 .. (L + 1)
          BY <2>2
        <5> QED
          BY <3>4, <5>2, <5>3
      <4> QED
        BY <4>1, <4>2
    <3>9. PlacesOf(q, seq, n, S, to)
      BY <3>2, <3>5, <3>6, <3>7, <3>8 DEF PlacesOf
    <3> QED
      BY <3>1, <3>9
  <2> QED
    BY <2>4, <2>5
<1>4. ASSUME Bad # {} PROVE FALSE
  <2>1. PICK n \in Bad : \A j \in Bad : n <= j
    <3>1. Bad \in SUBSET Nat
      OBVIOUS
    <3> HIDE DEF Bad
    <3> QED
      BY <1>4, <3>1, LeastNumber
  <2>2. n # 0
    BY <1>2, <2>1
  <2>3. n \in 1 .. N /\ n - 1 \in Nat /\ n - 1 <= N /\ ~ (n <= n - 1)
    BY <1>0, <2>1, <2>2
  <2> HIDE DEF Kept
  <2> QED
    BY <1>3, <2>1, <2>3
<1>5. Kept(N)
  <2> HIDE DEF Kept
  <2> QED
    BY <1>0, <1>4
<1> QED
  BY <1>0, <1>6, <1>5

\* An entry of a transcript.
Entries == [id: Nat, image: Nat]
\* The images of a transcript.
ImagesOf(seq) == [i \in 1 .. Len(seq) |-> seq[i].image]

\* SizeOf adds up the images.
LEMMA SizeIsSum ==
  ASSUME NEW seq \in Seq(Entries)
  PROVE  /\ SizeOf(seq) = SumOf(ImagesOf(seq), 1 .. Len(seq))
         /\ IsFiniteSet(1 .. Len(seq)) /\ Len(seq) \in Nat
         /\ \A i \in 1 .. Len(seq) : ImagesOf(seq)[i] \in Nat /\ ImagesOf(seq)[i] = seq[i].image
<1> DEFINE D == DOMAIN seq
           Folds(f) == f = [T \in SUBSET D |->
              IF T = {} THEN 0
              ELSE seq[CHOOSE x \in T : TRUE].image + f[T \ {CHOOSE x \in T : TRUE}]]
           chosen == CHOOSE f : Folds(f)
<1>0. Len(seq) \in Nat /\ D = 1 .. Len(seq)
  OBVIOUS
<1>1. SizeOf(seq) = chosen[D]
  BY DEF SizeOf, FoldSeq, FoldFunction, FoldFunctionOnSet, MapThenFoldSet
<1>2. \A i \in D : ImagesOf(seq)[i] = seq[i].image /\ seq[i].image \in Nat
  <2>1. \A i \in D : seq[i] \in Entries
    BY <1>0
  <2> QED
    BY <1>0, <2>1 DEF ImagesOf, Entries
<1>3. \A f : Folds(f) <=> IsSum(f, ImagesOf(seq), D)
  <2> SUFFICES ASSUME NEW f PROVE Folds(f) <=> IsSum(f, ImagesOf(seq), D)
    OBVIOUS
  <2> DEFINE one == [T \in SUBSET D |->
              IF T = {} THEN 0
              ELSE seq[CHOOSE x \in T : TRUE].image + f[T \ {CHOOSE x \in T : TRUE}]]
             other == [T \in SUBSET D |->
              IF T = {} THEN 0
              ELSE ImagesOf(seq)[CHOOSE x \in T : TRUE] + f[T \ {CHOOSE x \in T : TRUE}]]
  <2>1. one = other
    <3>1. \A T \in SUBSET D : T # {} =>
            seq[CHOOSE x \in T : TRUE].image = ImagesOf(seq)[CHOOSE x \in T : TRUE]
      BY <1>2
    <3> QED
      BY <3>1
  <2>2. Folds(f) <=> f = one
    OBVIOUS
  <2>3. IsSum(f, ImagesOf(seq), D) <=> f = other
    BY DEF IsSum
  <2> HIDE DEF one, other, Folds
  <2> QED
    BY <2>1, <2>2, <2>3
<1>4. IsFiniteSet(D) /\ \A x \in D : ImagesOf(seq)[x] \in Int
  <2>1. IsFiniteSet(1 .. Len(seq))
    BY <1>0, FS_Interval
  <2>2. \A x \in D : ImagesOf(seq)[x] \in Int
    BY <1>2
  <2> HIDE DEF D
  <2> QED
    BY <1>0, <2>1, <2>2
<1> HIDE DEF D, Folds
<1>5. \E f : Folds(f)
  BY <1>3, <1>4, SumExists
<1>6. Folds(chosen)
  BY <1>5
<1> HIDE DEF chosen
<1>7. chosen[D] = SumOf(ImagesOf(seq), D)
  BY <1>3, <1>4, <1>6, SumIs
<1>8. SizeOf(seq) = SumOf(ImagesOf(seq), 1 .. Len(seq)) /\ IsFiniteSet(1 .. Len(seq))
  BY <1>0, <1>1, <1>4, <1>7
<1>9. \A i \in 1 .. Len(seq) : ImagesOf(seq)[i] \in Nat /\ ImagesOf(seq)[i] = seq[i].image
  BY <1>0, <1>2
<1> QED
  BY <1>0, <1>8, <1>9, Zenon

\* A size is a natural number, and no image is larger.
LEMMA SizeIsNatural ==
  ASSUME NEW seq \in Seq(Entries)
  PROVE  SizeOf(seq) \in Nat /\ \A i \in 1 .. Len(seq) : seq[i].image <= SizeOf(seq)
BY SizeIsSum, SumOfNaturals

\* Nothing has no size.
LEMMA SizeOfNothing == SizeOf(<<>>) = 0
<1>1. <<>> \in Seq(Entries) /\ 1 .. Len(<<>>) = {}
  OBVIOUS
<1>2. SizeOf(<<>>) = SumOf(ImagesOf(<<>>), {})
  BY <1>1, SizeIsSum
<1>3. IsFiniteSet({}) /\ \A x \in {} : ImagesOf(<<>>)[x] \in Int
  BY FS_EmptySet
<1>4. SumOf(ImagesOf(<<>>), {}) = 0
  BY <1>3, SumFacts
<1> QED
  BY <1>2, <1>4

\* The sums of numbers that are moved to other places.
LEMMA SumMoved ==
  ASSUME NEW n \in Nat, NEW k \in Nat, NEW w, NEW v,
         \A i \in 1 .. n : w[i] \in Int /\ v[k + i] = w[i]
  PROVE  SumOf(v, (k + 1) .. (k + n)) = SumOf(w, 1 .. n)
<1> DEFINE Same(m) == SumOf(v, (k + 1) .. (k + m)) = SumOf(w, 1 .. m)
           Bad == {m \in Nat : m <= n /\ ~ Same(m)}
<1>1. Same(0)
  <2>1. 1 .. 0 = {} /\ (k + 1) .. (k + 0) = {}
    OBVIOUS
  <2>2. IsFiniteSet({}) /\ (\A x \in {} : w[x] \in Int) /\ (\A x \in {} : v[x] \in Int)
    BY FS_EmptySet
  <2>3. SumOf(w, {}) = 0
    BY <2>2, SumFacts
  <2>4. SumOf(v, {}) = 0
    BY <2>2, SumFacts
  <2> QED
    BY <2>1, <2>3, <2>4
<1>2. ASSUME NEW m \in 1 .. n, Same(m - 1) PROVE Same(m)
  <2> DEFINE A == 1 .. (m - 1)
             B == (k + 1) .. (k + (m - 1))
  <2>1. 1 .. m = A \cup {m} /\ m \notin A /\ m - 1 \in Nat
    OBVIOUS
  <2>2. (k + 1) .. (k + m) = B \cup {k + m} /\ (k + m) \notin B
    OBVIOUS
  <2>3. IsFiniteSet(A) /\ IsFiniteSet(B)
    BY FS_Interval
  <2>4. (\A i \in A : w[i] \in Int) /\ w[m] \in Int /\ v[k + m] = w[m]
    OBVIOUS
  <2>5. \A j \in B : v[j] \in Int
    <3> SUFFICES ASSUME NEW j \in B PROVE v[j] \in Int
      OBVIOUS
    <3>1. j - k \in 1 .. n /\ k + (j - k) = j
      OBVIOUS
    <3> QED
      BY <3>1
  <2>6. SumOf(v, B) = SumOf(w, A)
    BY <1>2
  <2> HIDE DEF A, B
  <2>7. SumOf(w, A \cup {m}) = w[m] + SumOf(w, A)
    BY <2>1, <2>3, <2>4, SumAdd
  <2>8. SumOf(v, B \cup {k + m}) = v[k + m] + SumOf(v, B)
    BY <2>2, <2>3, <2>4, <2>5, SumAdd
  <2> QED
    BY <2>1, <2>2, <2>4, <2>6, <2>7, <2>8
<1>3. ASSUME Bad # {} PROVE FALSE
  <2>1. PICK m \in Bad : \A j \in Bad : m <= j
    <3>1. Bad \in SUBSET Nat
      OBVIOUS
    <3> HIDE DEF Bad
    <3> QED
      BY <1>3, <3>1, LeastNumber
  <2>2. m # 0
    BY <1>1, <2>1
  <2>3. m \in 1 .. n /\ m - 1 \in Nat /\ m - 1 <= n /\ ~ (m <= m - 1)
    BY <2>1, <2>2
  <2> HIDE DEF Same
  <2> QED
    BY <1>2, <2>1, <2>3
<1>4. Same(n)
  <2> HIDE DEF Same
  <2> QED
    BY <1>3
<1> QED
  BY <1>4

\* A transcript before another: the sizes add up.
LEMMA SizeOfJoined ==
  ASSUME NEW p \in Seq(Entries), NEW q \in Seq(Entries)
  PROVE  SizeOf(p \o q) = SizeOf(p) + SizeOf(q)
<1> DEFINE r == p \o q
           k == Len(p)
           n == Len(q)
           first == 1 .. k
           rest == (k + 1) .. (k + n)
           all == 1 .. (k + n)
<1>1. k \in Nat /\ n \in Nat /\ r \in Seq(Entries) /\ Len(r) = k + n
  OBVIOUS
<1>2. (\A i \in 1 .. k : r[i] = p[i]) /\ (\A i \in 1 .. n : r[k + i] = q[i])
  OBVIOUS
<1> HIDE DEF r, k, n
<1>3. /\ SizeOf(r) = SumOf(ImagesOf(r), all) /\ IsFiniteSet(all)
      /\ \A i \in all : ImagesOf(r)[i] \in Nat /\ ImagesOf(r)[i] = r[i].image
  BY <1>1, SizeIsSum
<1>4. /\ SizeOf(p) = SumOf(ImagesOf(p), 1 .. k) /\ IsFiniteSet(1 .. k)
      /\ \A i \in 1 .. k : ImagesOf(p)[i] \in Nat /\ ImagesOf(p)[i] = p[i].image
  BY SizeIsSum DEF k
<1>5. /\ SizeOf(q) = SumOf(ImagesOf(q), 1 .. n)
      /\ \A i \in 1 .. n : ImagesOf(q)[i] \in Nat /\ ImagesOf(q)[i] = q[i].image
  BY SizeIsSum DEF n
<1>6. first \in SUBSET all /\ all \ first = rest
  BY <1>1
<1>7. SumOf(ImagesOf(r), all) = SumOf(ImagesOf(r), first) + SumOf(ImagesOf(r), rest)
  <2>1. \A i \in all : ImagesOf(r)[i] \in Int
    BY <1>3
  <2> HIDE DEF all, first, rest
  <2> QED
    BY <1>3, <1>6, <2>1, SumSplits
<1>8. SumOf(ImagesOf(r), first) = SizeOf(p)
  <2>1. \A i \in 1 .. k : ImagesOf(p)[i] \in Int /\ ImagesOf(p)[i] = ImagesOf(r)[i]
    BY <1>1, <1>2, <1>3, <1>4
  <2>2. SumOf(ImagesOf(p), 1 .. k) = SumOf(ImagesOf(r), 1 .. k)
    BY <1>4, <2>1, SumSame
  <2> QED
    BY <1>4, <2>2
<1>9. SumOf(ImagesOf(r), rest) = SizeOf(q)
  <2>1. \A i \in 1 .. n : k + i \in all
    BY <1>1
  <2>2. \A i \in 1 .. n : ImagesOf(q)[i] \in Int /\ ImagesOf(r)[k + i] = ImagesOf(q)[i]
    BY <1>2, <1>3, <1>5, <2>1
  <2>3. SumOf(ImagesOf(r), (k + 1) .. (k + n)) = SumOf(ImagesOf(q), 1 .. n)
    BY <1>1, <2>2, SumMoved
  <2> QED
    BY <1>5, <2>3
<1> HIDE DEF first, rest, all
<1> QED
  BY <1>3, <1>7, <1>8, <1>9 DEF r

\* The size of one entry.
LEMMA SizeOfOne ==
  ASSUME NEW e \in Entries
  PROVE  SizeOf(<<e>>) = e.image /\ e.image \in Nat
<1> DEFINE q == <<e>>
           w == ImagesOf(q)
<1>1. q \in Seq(Entries) /\ Len(q) = 1 /\ q[1] = e /\ 1 .. 1 = {1} /\ e.image \in Nat
  BY DEF Entries
<1> HIDE DEF q
<1>2. SizeOf(q) = SumOf(w, {1}) /\ w[1] = e.image /\ w[1] \in Nat
  BY <1>1, SizeIsSum
<1> HIDE DEF w
<1>3. IsFiniteSet({}) /\ (\A x \in {} : w[x] \in Int)
  BY FS_EmptySet
<1>4. SumOf(w, {}) = 0
  BY <1>3, SumFacts
<1>5. SumOf(w, {} \cup {1}) = w[1] + SumOf(w, {})
  BY <1>2, <1>3, SumAdd
<1>6. {} \cup {1} = {1}
  OBVIOUS
<1> QED
  BY <1>2, <1>4, <1>5, <1>6 DEF q

\* A sum of zeros.
LEMMA SumOfZeros ==
  ASSUME NEW S, IsFiniteSet(S), NEW w, \A x \in S : w[x] = 0
  PROVE  SumOf(w, S) = 0
<1> DEFINE Bad == {n \in Nat : \E U \in SUBSET S : Cardinality(U) = n /\ SumOf(w, U) # 0}
<1>1. ASSUME Bad # {} PROVE FALSE
  <2>1. PICK n \in Bad : \A j \in Bad : n <= j
    <3>1. Bad \in SUBSET Nat
      OBVIOUS
    <3> HIDE DEF Bad
    <3> QED
      BY <1>1, <3>1, LeastNumber
  <2>2. PICK U \in SUBSET S : Cardinality(U) = n /\ SumOf(w, U) # 0
    BY <2>1
  <2>3. IsFiniteSet(U) /\ \A x \in U : w[x] \in Int
    BY FS_Subset
  <2>4. PICK a \in U : SumOf(w, U) = w[a] + SumOf(w, U \ {a})
    BY <2>2, <2>3, SumFacts
  <2>5. U \ {a} \in SUBSET S /\ Cardinality(U \ {a}) = n - 1 /\ n - 1 \in Nat
    <3>1. U \in SUBSET S /\ a \in U
      OBVIOUS
    <3>2. /\ U \ {a} \in SUBSET S /\ Cardinality(U \ {a}) = Cardinality(U) - 1
          /\ Cardinality(U) # 0
      BY <3>1, OneFewer
    <3> QED
      BY <2>1, <2>2, <3>2
  <2>6. SumOf(w, U \ {a}) = 0
    <3>1. ~ (n <= n - 1)
      BY <2>1
    <3>2. n - 1 \notin Bad
      BY <2>1, <3>1
    <3> QED
      BY <2>5, <3>2
  <2>7. w[a] = 0
    OBVIOUS
  <2> QED
    BY <2>2, <2>4, <2>6, <2>7
<1>2. Cardinality(S) \in Nat
  BY FS_CardinalityType
<1> QED
  BY <1>1, <1>2

\* A transcript without images has no size.
LEMMA SizeWithoutImages ==
  ASSUME NEW seq \in Seq(Entries), \A i \in 1 .. Len(seq) : seq[i].image = 0
  PROVE  SizeOf(seq) = 0
<1>1. /\ SizeOf(seq) = SumOf(ImagesOf(seq), 1 .. Len(seq)) /\ IsFiniteSet(1 .. Len(seq))
      /\ \A i \in 1 .. Len(seq) : ImagesOf(seq)[i] = 0
  BY SizeIsSum
<1> QED
  BY <1>1, SumOfZeros

\* What entries_ holds, and what is named by scope and id.
Transcripts == [Scopes -> Seq(Entries)]
Names == Scopes \X Nat
\* The size of each transcript, and of all.
Sizes(en) == [s \in Scopes |-> SizeOf(en[s])]
TotalOf(en) == SumOf(Sizes(en), Scopes)
\* Every image that is shown is among those that are cached.
Imaged(en, images) ==
    \A s \in Scopes : \A i \in 1 .. Len(en[s]) :
        en[s][i].image > 0 => \E k \in 1 .. Len(images) : images[k] = <<s, en[s][i].id>>
\* A cache that counts what is shown.
Caches ==
    {c \in [entries: Transcripts, images: Seq(Names), bytes: Int] :
        c.bytes = TotalOf(c.entries) /\ Imaged(c.entries, c.images)}
\* Two sets of transcripts with the same messages, but for their images.
SameIds(en, other) ==
    \A s \in Scopes :
        /\ Len(other[s]) = Len(en[s])
        /\ \A i \in 1 .. Len(en[s]) : other[s][i].id = en[s][i].id
\* A transcript in the order of arrival.
InOrder(seq) == \A i, j \in 1 .. Len(seq) : i < j => seq[i].id < seq[j].id
\* Of the saved messages, all from the first that is shown are shown.
Reached(seq, sv, s) ==
    \A k \in 1 .. Len(sv) :
        seq # <<>> /\ sv[k][1] = s /\ sv[k][2] >= seq[1].id =>
            \E i \in 1 .. Len(seq) : seq[i].id = sv[k][2]
\* The saved messages are in the order of arrival.
SavedInOrder(sv) == \A i, j \in 1 .. Len(sv) : i < j => sv[i][2] < sv[j][2]

\* What the variables hold.
HistoryTyped ==
    /\ arrivals \in Nat /\ entries \in Transcripts
    /\ cachedImages \in Seq(Names) /\ cachedBytes \in Int
    /\ saved \in Seq(Names) /\ Len(saved) <= Maximum
    /\ historyLoaded \subseteq Scopes
    /\ \A s \in Scopes : \A i \in 1 .. Len(entries[s]) : entries[s][i].id \in 1 .. arrivals
    /\ \A k \in 1 .. Len(saved) : saved[k][2] \in 1 .. arrivals
\* The cache.
CacheKept ==
    /\ cachedBytes = TotalOf(entries) /\ Imaged(entries, cachedImages)
    /\ cachedBytes <= MaxImageBytes /\ Len(cachedImages) <= MaxCached
\* The inductive invariant.
HistoryIInv ==
    /\ HistoryTyped /\ CacheKept
    /\ \A s \in Scopes : InOrder(entries[s]) /\ Reached(entries[s], saved, s)
    /\ SavedInOrder(saved)

\* The sizes of the transcripts are natural numbers.
LEMMA SizesAreNaturals ==
  ASSUME NEW en \in Transcripts
  PROVE  /\ \A s \in Scopes : en[s] \in Seq(Entries) /\ Sizes(en)[s] = SizeOf(en[s])
         /\ \A s \in Scopes : SizeOf(en[s]) \in Nat
         /\ IsFiniteSet(Scopes) /\ TotalOf(en) \in Nat
         /\ \A s \in Scopes : SizeOf(en[s]) <= TotalOf(en)
<1>1. \A s \in Scopes : en[s] \in Seq(Entries) /\ Sizes(en)[s] = SizeOf(en[s])
  BY DEF Transcripts, Sizes
<1>2. \A s \in Scopes : SizeOf(en[s]) \in Nat
  BY <1>1, SizeIsNatural
<1>3. IsFiniteSet(Scopes)
  BY ChatHistoryAssumption
<1>4. TotalOf(en) \in Nat /\ \A s \in Scopes : Sizes(en)[s] <= TotalOf(en)
  BY <1>1, <1>2, <1>3, SumOfNaturals DEF TotalOf
<1> QED
  BY <1>1, <1>2, <1>3, <1>4

\* The fold of CacheIsCounted adds up the sizes.
LEMMA TotalIsFold ==
  ASSUME NEW en \in Transcripts
  PROVE  FoldSet(LAMBDA s, sum : SizeOf(en[s]) + sum, 0, Scopes) = TotalOf(en)
<1> DEFINE Folds(f) == f = [T \in SUBSET Scopes |->
              IF T = {} THEN 0
              ELSE SizeOf(en[CHOOSE x \in T : TRUE]) + f[T \ {CHOOSE x \in T : TRUE}]]
           chosen == CHOOSE f : Folds(f)
<1>1. FoldSet(LAMBDA s, sum : SizeOf(en[s]) + sum, 0, Scopes) = chosen[Scopes]
  BY DEF FoldSet, MapThenFoldSet
<1>2. /\ \A s \in Scopes : Sizes(en)[s] = SizeOf(en[s]) /\ Sizes(en)[s] \in Int
      /\ IsFiniteSet(Scopes)
  BY SizesAreNaturals
<1>3. \A f : Folds(f) <=> IsSum(f, Sizes(en), Scopes)
  <2> SUFFICES ASSUME NEW f PROVE Folds(f) <=> IsSum(f, Sizes(en), Scopes)
    OBVIOUS
  <2> DEFINE one == [T \in SUBSET Scopes |->
              IF T = {} THEN 0
              ELSE SizeOf(en[CHOOSE x \in T : TRUE]) + f[T \ {CHOOSE x \in T : TRUE}]]
             other == [T \in SUBSET Scopes |->
              IF T = {} THEN 0
              ELSE Sizes(en)[CHOOSE x \in T : TRUE] + f[T \ {CHOOSE x \in T : TRUE}]]
  <2>1. one = other
    <3>1. \A T \in SUBSET Scopes : T # {} =>
            SizeOf(en[CHOOSE x \in T : TRUE]) = Sizes(en)[CHOOSE x \in T : TRUE]
      BY <1>2
    <3> QED
      BY <3>1
  <2>2. Folds(f) <=> f = one
    OBVIOUS
  <2>3. IsSum(f, Sizes(en), Scopes) <=> f = other
    BY DEF IsSum
  <2> HIDE DEF one, other, Folds
  <2> QED
    BY <2>1, <2>2, <2>3
<1> HIDE DEF Folds
<1>4. \E f : Folds(f)
  BY <1>2, <1>3, SumExists
<1>5. Folds(chosen)
  BY <1>4
<1> HIDE DEF chosen
<1>6. chosen[Scopes] = SumOf(Sizes(en), Scopes)
  BY <1>2, <1>3, <1>5, SumIs
<1> QED
  BY <1>1, <1>6 DEF TotalOf

\* One transcript changes.
LEMMA TotalChanges ==
  ASSUME NEW en \in Transcripts, NEW s \in Scopes, NEW seq \in Seq(Entries)
  PROVE  /\ [en EXCEPT ![s] = seq] \in Transcripts
         /\ TotalOf([en EXCEPT ![s] = seq]) = TotalOf(en) - SizeOf(en[s]) + SizeOf(seq)
<1> DEFINE now == [en EXCEPT ![s] = seq]
           R == Scopes \ {s}
<1>1. now \in Transcripts
  BY DEF Transcripts
<1>2. now[s] = seq /\ \A u \in R : now[u] = en[u]
  BY DEF Transcripts
<1> HIDE DEF now
<1>3. /\ \A u \in Scopes : Sizes(en)[u] = SizeOf(en[u]) /\ SizeOf(en[u]) \in Nat
      /\ \A u \in Scopes : Sizes(now)[u] = SizeOf(now[u]) /\ SizeOf(now[u]) \in Nat
      /\ IsFiniteSet(Scopes)
  BY <1>1, SizesAreNaturals
<1>4. IsFiniteSet(R)
  BY <1>3, FS_RemoveElement
<1>5. SumOf(Sizes(en), Scopes) = Sizes(en)[s] + SumOf(Sizes(en), R)
  BY <1>3, SumTakes
<1>6. SumOf(Sizes(now), Scopes) = Sizes(now)[s] + SumOf(Sizes(now), R)
  BY <1>3, SumTakes
<1>7. \A u \in R : Sizes(now)[u] \in Int /\ Sizes(now)[u] = Sizes(en)[u]
  BY <1>2, <1>3
<1>8. SumOf(Sizes(now), R) = SumOf(Sizes(en), R) /\ SumOf(Sizes(now), R) \in Int
  BY <1>4, <1>7, SumSame, SumFacts
<1>9. SizeOf(en[s]) \in Nat /\ SizeOf(seq) \in Nat /\ Sizes(now)[s] = SizeOf(seq)
      /\ Sizes(en)[s] = SizeOf(en[s])
  BY <1>2, <1>3
<1> QED
  BY <1>1, <1>5, <1>6, <1>8, <1>9 DEF TotalOf, now

\* An entry without its image.
LEMMA ImageTaken ==
  ASSUME NEW seq \in Seq(Entries), NEW id
  PROVE  /\ WithoutImage(seq, id) \in Seq(Entries) /\ Len(WithoutImage(seq, id)) = Len(seq)
         /\ \A i \in 1 .. Len(seq) :
               /\ WithoutImage(seq, id)[i].id = seq[i].id
               /\ WithoutImage(seq, id)[i].image = IF seq[i].id = id THEN 0 ELSE seq[i].image
<1> DEFINE now == WithoutImage(seq, id)
           N == Len(seq)
<1>1. N \in Nat /\ DOMAIN seq = 1 .. N
  OBVIOUS
<1>2. now = [i \in 1 .. N |-> IF seq[i].id = id THEN [seq[i] EXCEPT !.image = 0] ELSE seq[i]]
  BY <1>1 DEF WithoutImage
<1>3. ASSUME NEW i \in 1 .. N
      PROVE  now[i] \in Entries /\ now[i].id = seq[i].id
             /\ now[i].image = IF seq[i].id = id THEN 0 ELSE seq[i].image
  <2>1. seq[i] \in Entries
    BY <1>1
  <2>2. now[i] = IF seq[i].id = id THEN [seq[i] EXCEPT !.image = 0] ELSE seq[i]
    BY <1>2
  <2> HIDE DEF now
  <2> QED
    BY <2>1, <2>2 DEF Entries
<1>4. now \in [1 .. N -> Entries]
  <2>1. now = [i \in 1 .. N |-> now[i]]
    BY <1>2
  <2> HIDE DEF now
  <2> QED
    BY <1>3, <2>1
<1> HIDE DEF now
<1>5. now \in Seq(Entries) /\ Len(now) = N
  <2> HIDE DEF N
  <2> QED
    BY <1>1, <1>4
<1> QED
  BY <1>3, <1>5 DEF now

\* An eviction keeps the count, and drops the oldest image.
LEMMA EvictOneKeeps ==
  ASSUME NEW c \in Caches, c.images # <<>>
  PROVE  /\ EvictOne(c) \in Caches /\ SameIds(c.entries, EvictOne(c).entries)
         /\ Len(EvictOne(c).images) = Len(c.images) - 1
<1> DEFINE en == c.entries
           oldest == Head(c.images)
           s == oldest[1]
           id == oldest[2]
           seq == WithoutImage(en[s], id)
           less == [en EXCEPT ![s] = seq]
           after == EvictOne(c)
<1>1. /\ en \in Transcripts /\ c.images \in Seq(Names) /\ c.bytes = TotalOf(en)
      /\ Imaged(en, c.images)
  BY DEF Caches
<1>2. oldest \in Names /\ oldest = c.images[1] /\ Tail(c.images) \in Seq(Names)
      /\ Len(Tail(c.images)) = Len(c.images) - 1 /\ Len(c.images) \in Nat /\ Len(c.images) # 0
      /\ \A k \in 1 .. (Len(c.images) - 1) : Tail(c.images)[k] = c.images[k + 1]
  BY <1>1
<1>3. s \in Scopes /\ oldest = <<s, id>>
  BY <1>2 DEF Names
<1>4. en[s] \in Seq(Entries)
  BY <1>1, <1>3 DEF Transcripts
<1>5. after = [entries |-> less, images |-> Tail(c.images),
               bytes |-> c.bytes - (SizeOf(en[s]) - SizeOf(less[s]))]
  BY DEF EvictOne
<1> HIDE DEF after, oldest, s, id
<1>6. /\ seq \in Seq(Entries) /\ Len(seq) = Len(en[s])
      /\ \A i \in 1 .. Len(en[s]) :
            seq[i].id = en[s][i].id /\ seq[i].image = IF en[s][i].id = id THEN 0 ELSE en[s][i].image
  BY <1>4, ImageTaken
<1> HIDE DEF seq
<1>7. less \in Transcripts /\ TotalOf(less) = TotalOf(en) - SizeOf(en[s]) + SizeOf(seq)
  BY <1>1, <1>3, <1>6, TotalChanges
<1>8. less[s] = seq /\ \A u \in Scopes : u # s => less[u] = en[u]
  BY <1>1, <1>3 DEF Transcripts
<1> HIDE DEF less
<1>9. TotalOf(en) \in Nat /\ SizeOf(en[s]) \in Nat /\ SizeOf(seq) \in Nat
  BY <1>1, <1>3, <1>6, SizesAreNaturals, SizeIsNatural
<1>10. after.bytes = TotalOf(less) /\ after.bytes \in Int
  BY <1>1, <1>5, <1>7, <1>8, <1>9
<1>11. SameIds(en, less)
  BY <1>3, <1>6, <1>8 DEF SameIds
<1>12. Imaged(less, Tail(c.images))
  <2> SUFFICES ASSUME NEW u \in Scopes, NEW i \in 1 .. Len(less[u]), less[u][i].image > 0
        PROVE  \E k \in 1 .. Len(Tail(c.images)) : Tail(c.images)[k] = <<u, less[u][i].id>>
    BY DEF Imaged
  <2>1. i \in 1 .. Len(en[u]) /\ less[u][i].id = en[u][i].id
    BY <1>11 DEF SameIds
  <2>2. en[u][i].image > 0 /\ ~ (u = s /\ en[u][i].id = id)
    BY <1>6, <1>8, <2>1
  <2>3. PICK k \in 1 .. Len(c.images) : c.images[k] = <<u, en[u][i].id>>
    BY <1>1, <2>1, <2>2 DEF Imaged
  <2>4. k # 1
    <3>1. ASSUME k = 1 PROVE FALSE
      <4>1. <<u, en[u][i].id>> = <<s, id>>
        BY <1>2, <1>3, <2>3, <3>1
      <4>2. u = s /\ en[u][i].id = id
        BY <4>1
      <4> QED
        BY <2>2, <4>2
    <3> QED
      BY <3>1
  <2>5. k - 1 \in 1 .. (Len(c.images) - 1) /\ (k - 1) + 1 = k
    BY <1>2, <2>4
  <2> QED
    BY <1>2, <2>1, <2>3, <2>5
<1>13. after \in [entries: Transcripts, images: Seq(Names), bytes: Int]
  BY <1>2, <1>5, <1>7, <1>10
<1>14. after.entries = less /\ after.images = Tail(c.images)
  BY <1>5
<1>15. after \in Caches
  BY <1>10, <1>12, <1>13, <1>14 DEF Caches
<1> QED
  BY <1>2, <1>11, <1>14, <1>15 DEF after

\* A cache beyond its bounds has an image to evict.
LEMMA OverBoundsHasImages ==
  ASSUME NEW c \in Caches, OverBounds(c)
  PROVE  c.images # <<>>
<1> SUFFICES ASSUME c.images = <<>> PROVE FALSE
  OBVIOUS
<1> DEFINE en == c.entries
<1>1. en \in Transcripts /\ c.bytes = TotalOf(en) /\ Imaged(en, c.images) /\ Len(c.images) = 0
  BY DEF Caches
<1>2. \A s \in Scopes : SizeOf(en[s]) = 0
  <2> SUFFICES ASSUME NEW s \in Scopes PROVE SizeOf(en[s]) = 0
    OBVIOUS
  <2>1. en[s] \in Seq(Entries)
    BY <1>1 DEF Transcripts
  <2>2. \A i \in 1 .. Len(en[s]) : en[s][i].image = 0
    <3> SUFFICES ASSUME NEW i \in 1 .. Len(en[s]) PROVE en[s][i].image = 0
      OBVIOUS
    <3>1. en[s][i] \in Entries
      BY <2>1
    <3>2. en[s][i].image \in Nat
      BY <3>1 DEF Entries
    <3>3. ~ (en[s][i].image > 0)
      BY <1>1 DEF Imaged
    <3> QED
      BY <3>2, <3>3
  <2> HIDE DEF en
  <2> QED
    BY <2>1, <2>2, SizeWithoutImages
<1>3. TotalOf(en) = 0
  <2>2. \A s \in Scopes : Sizes(en)[s] \in Int /\ Sizes(en)[s] = 0
    BY <1>1, <1>2, SizesAreNaturals
  <2>3. IsFiniteSet(Scopes)
    BY ChatHistoryAssumption
  <2> QED
    BY <2>2, <2>3, SumOfZeros DEF TotalOf
<1> QED
  BY <1>1, <1>3, ChatHistoryAssumption DEF OverBounds

\* The caches that show the messages of en.
CachesOf(en) == {v \in Caches : SameIds(en, v.entries)}
\* The round of the loop of Evict, in n rounds.
EvictsOf(n, V) ==
    [p \in (1 .. n) \X V |-> IF OverBounds(p[2]) THEN EvictOne(p[2]) ELSE p[2]]

\* Transcripts with the same messages as those with the same messages.
LEMMA SameIdsTwice ==
  ASSUME NEW a, NEW b, NEW c, SameIds(a, b), SameIds(b, c)
  PROVE  SameIds(a, c)
BY DEF SameIds

\* The loop of Evict stops within the bounds, and keeps the count.
LEMMA EvictKeeps ==
  ASSUME NEW c \in Caches
  PROVE  /\ Evict(c) \in Caches /\ SameIds(c.entries, Evict(c).entries)
         /\ ~ OverBounds(Evict(c))
<1> DEFINE N == Len(c.images)
           W == CachesOf(c.entries)
           op == EvictsOf(N, W)
           Loops(f) == f = [n \in 0 .. N |->
              IF n = 0 THEN c ELSE IF OverBounds(f[n - 1]) THEN EvictOne(f[n - 1]) ELSE f[n - 1]]
           chosen == CHOOSE f : Loops(f)
<1>0. N \in Nat
  BY DEF Caches
<1>1. Evict(c) = chosen[N]
  BY DEF Evict
<1> HIDE DEF N
<1>2. c \in W
  BY DEF CachesOf, SameIds
<1>3. ASSUME NEW v \in W, OverBounds(v)
      PROVE  v.images # <<>> /\ EvictOne(v) \in W /\ Len(EvictOne(v).images) = Len(v.images) - 1
  <2>1. v \in Caches /\ SameIds(c.entries, v.entries)
    BY DEF CachesOf
  <2>2. v.images # <<>>
    BY <1>3, <2>1, OverBoundsHasImages
  <2>3. /\ EvictOne(v) \in Caches /\ SameIds(v.entries, EvictOne(v).entries)
        /\ Len(EvictOne(v).images) = Len(v.images) - 1
    BY <2>1, <2>2, EvictOneKeeps
  <2>4. SameIds(c.entries, EvictOne(v).entries)
    BY <2>1, <2>3, SameIdsTwice
  <2> QED
    BY <2>2, <2>3, <2>4 DEF CachesOf
<1> HIDE DEF W
<1>4. \A n \in 1 .. N : \A v \in W :
        op[<<n, v>>] = IF OverBounds(v) THEN EvictOne(v) ELSE v
  BY DEF EvictsOf
<1> HIDE DEF op
<1>5. CanLoop(N, W, op)
  BY <1>3, <1>4 DEF CanLoop
<1>6. PICK h \in [0 .. N -> W] : LoopsBy(h, N, c, op)
  BY <1>0, <1>2, <1>5, LoopExists
<1>7. Loops(h)
  <2>1. ASSUME NEW n \in 0 .. N
        PROVE  h[n] = IF n = 0 THEN c
                      ELSE IF OverBounds(h[n - 1]) THEN EvictOne(h[n - 1]) ELSE h[n - 1]
    <3>1. CASE n = 0
      BY <1>6, <3>1 DEF LoopsBy
    <3>2. CASE n # 0
      <4>1. n \in 1 .. N /\ n - 1 \in 0 .. N
        BY <1>0, <3>2
      <4>2. h[n - 1] \in W
        BY <1>6, <4>1
      <4>3. h[n] = op[<<n, h[n - 1]>>]
        BY <1>6, <4>1 DEF LoopsBy
      <4> QED
        BY <1>4, <3>2, <4>1, <4>2, <4>3
    <3> QED
      BY <3>1, <3>2
  <2>2. h = [n \in 0 .. N |-> h[n]]
    BY <1>6
  <2> QED
    BY <2>1, <2>2
<1> HIDE DEF Loops
<1>8. Loops(chosen)
  BY <1>7
<1> HIDE DEF chosen
<1>9. chosen[0] = c
  BY <1>0, <1>8 DEF Loops
<1>10. ASSUME NEW n \in 1 .. N
       PROVE  chosen[n] = IF OverBounds(chosen[n - 1]) THEN EvictOne(chosen[n - 1])
                          ELSE chosen[n - 1]
  BY <1>0, <1>8 DEF Loops
<1>11. \A n \in 0 .. N : chosen[n] \in W
  <2>1. \A n \in 1 .. N : chosen[n - 1] \in W => chosen[n] \in W
    BY <1>3, <1>10
  <2> QED
    BY <1>0, <1>2, <1>9, <2>1, Stays
<1> DEFINE Short(n) == OverBounds(chosen[n]) => Len(chosen[n].images) = N - n
           Bad == {n \in Nat : n <= N /\ ~ Short(n)}
<1>12. Short(0)
  BY <1>0, <1>9 DEF N
<1>13. ASSUME NEW n \in 1 .. N, Short(n - 1) PROVE Short(n)
  <2> SUFFICES ASSUME OverBounds(chosen[n]) PROVE Len(chosen[n].images) = N - n
    OBVIOUS
  <2>1. n - 1 \in 0 .. N
    BY <1>0
  <2>2. OverBounds(chosen[n - 1])
    <3>1. ASSUME ~ OverBounds(chosen[n - 1]) PROVE FALSE
      <4>1. chosen[n] = chosen[n - 1]
        BY <1>10, <3>1
      <4> QED
        BY <3>1, <4>1
    <3> QED
      BY <3>1
  <2>3. chosen[n] = EvictOne(chosen[n - 1])
    BY <1>10, <2>2
  <2>4. chosen[n - 1] \in W
    BY <1>11, <2>1
  <2>5. Len(chosen[n].images) = Len(chosen[n - 1].images) - 1
    BY <1>3, <2>2, <2>3, <2>4
  <2>6. Len(chosen[n - 1].images) = N - (n - 1)
    BY <1>13, <2>2
  <2> QED
    BY <1>0, <2>5, <2>6
<1>14. ASSUME Bad # {} PROVE FALSE
  <2>1. PICK n \in Bad : \A j \in Bad : n <= j
    <3>1. Bad \in SUBSET Nat
      OBVIOUS
    <3> HIDE DEF Bad
    <3> QED
      BY <1>14, <3>1, LeastNumber
  <2>2. n # 0
    BY <1>12, <2>1
  <2>3. n \in 1 .. N /\ n - 1 \in Nat /\ n - 1 <= N /\ ~ (n <= n - 1)
    BY <1>0, <2>1, <2>2
  <2> HIDE DEF Short
  <2> QED
    BY <1>13, <2>1, <2>3
<1>15. Short(N)
  <2> HIDE DEF Short
  <2> QED
    BY <1>0, <1>14
<1>16. N \in 0 .. N
  BY <1>0
<1>17. chosen[N] \in W
  BY <1>11, <1>16
<1>18. ~ OverBounds(chosen[N])
  <2>1. ASSUME OverBounds(chosen[N]) PROVE FALSE
    <3>1. Len(chosen[N].images) = 0
      BY <1>0, <1>15, <2>1
    <3>2. chosen[N].images # <<>>
      BY <1>3, <1>17, <2>1
    <3>3. chosen[N].images \in Seq(Names)
      BY <1>17 DEF W, CachesOf, Caches
    <3> QED
      BY <3>1, <3>2, <3>3
  <2> QED
    BY <2>1
<1> QED
  BY <1>1, <1>17, <1>18 DEF W, CachesOf

-----------------------------------------------------------------------------
\* The newest of a sequence: all but the first `off`.
LEMMA NewestFacts ==
  ASSUME NEW M, NEW seq \in Seq(M), NEW n \in Nat \ {0}
  PROVE  /\ Newest(seq, n) \in Seq(M) /\ Len(Newest(seq, n)) <= n
         /\ \E off \in Nat :
              /\ Len(seq) = off + Len(Newest(seq, n))
              /\ \A i \in 1 .. Len(Newest(seq, n)) : Newest(seq, n)[i] = seq[off + i]
<1> DEFINE L == Len(seq)
           from == Max({1, L - n + 1})
           r == Newest(seq, n)
<1>0. L \in Nat
  OBVIOUS
<1> HIDE DEF L
<1>1. from \in {1, L - n + 1} /\ from >= 1 /\ from >= L - n + 1
  <2>1. \E x \in {1, L - n + 1} : \A y \in {1, L - n + 1} : x >= y
    <3>1. CASE L - n + 1 >= 1
      BY <1>0, <3>1
    <3>2. CASE ~ (L - n + 1 >= 1)
      BY <1>0, <3>2
    <3> QED
      BY <3>1, <3>2
  <2>2. from \in {1, L - n + 1} /\ \A y \in {1, L - n + 1} : from >= y
    BY <2>1 DEF Max
  <2> HIDE DEF from
  <2> QED
    BY <2>2
<1>2. r = SubSeq(seq, from, L)
  BY DEF Newest, L
<1> HIDE DEF from
<1>3. from \in Nat /\ from - 1 \in Nat /\ from <= L + 1
  BY <1>0, <1>1
<1>4. r = [i \in 1 .. (L - from + 1) |-> seq[i + from - 1]]
  BY <1>0, <1>2, <1>3
<1>5. L - from + 1 \in Nat /\ L - from + 1 <= n
  BY <1>0, <1>1, <1>3
<1>6. \A i \in 1 .. (L - from + 1) : seq[i + from - 1] \in M
  <2> SUFFICES ASSUME NEW i \in 1 .. (L - from + 1) PROVE seq[i + from - 1] \in M
    OBVIOUS
  <2>1. i + from - 1 \in 1 .. L
    BY <1>0, <1>3
  <2> QED
    BY <2>1 DEF L
<1> HIDE DEF r
<1>7. r \in Seq(M) /\ Len(r) = L - from + 1
  <2> DEFINE k == L - from + 1
  <2>1. r \in [1 .. k -> M] /\ k \in Nat
    BY <1>4, <1>5, <1>6
  <2> HIDE DEF k
  <2>2. r \in Seq(M) /\ Len(r) = k
    BY <2>1
  <2> QED
    BY <2>2 DEF k
<1>8. \A i \in 1 .. Len(r) : r[i] = seq[(from - 1) + i]
  <2> SUFFICES ASSUME NEW i \in 1 .. (L - from + 1) PROVE r[i] = seq[(from - 1) + i]
    BY <1>7
  <2>1. i + from - 1 = (from - 1) + i
    BY <1>3
  <2> QED
    BY <1>4, <2>1
<1>9. L = (from - 1) + Len(r)
  BY <1>0, <1>3, <1>7
<1>10. \E off \in Nat : L = off + Len(r) /\ \A i \in 1 .. Len(r) : r[i] = seq[off + i]
  BY <1>3, <1>8, <1>9
<1> QED
  BY <1>5, <1>7, <1>10 DEF r, L

\* What loadHistory puts before the entries of a scope.
Shown(scope) == {entries[scope][i].id : i \in DOMAIN entries[scope]}
Previous(scope) == OnlyOf(Recent(scope), {scope} \X (Nat \ Shown(scope)))
\* at[i] is the place in saved of the i-th of p; the others are shown or older.
FromSaved(p, sv, scope, shown, at) ==
    /\ at \in [1 .. Len(p) -> 1 .. Len(sv)]
    /\ \A i, j \in 1 .. Len(p) : i < j => at[i] < at[j]
    /\ \A i \in 1 .. Len(p) : p[i] = sv[at[i]] /\ p[i][1] = scope /\ p[i][2] \notin shown
    /\ \A k \in 1 .. Len(sv) : sv[k][1] = scope =>
          \/ sv[k][2] \in shown
          \/ \E i \in 1 .. Len(p) : at[i] = k
          \/ \A i \in 1 .. Len(p) : k < at[i]

\* Where the previous messages come from.
LEMMA PreviousFacts ==
  ASSUME HistoryTyped, NEW scope \in Scopes
  PROVE  /\ Previous(scope) \in Seq(Names)
         /\ \E at : FromSaved(Previous(scope), saved, scope, Shown(scope), at)
<1> DEFINE A == OnlyOf(saved, {scope} \X Nat)
           R == Newest(A, RecentLimit)
           shown == Shown(scope)
           P == OnlyOf(R, {scope} \X (Nat \ shown))
           N == Len(saved)
<1>1. saved \in Seq(Names) /\ N \in Nat
  BY DEF HistoryTyped
<1>2. A \in Seq(Names)
  BY <1>1, OnlyOfFacts
<1>3. PICK a : PlacesOf(A, saved, N, {scope} \X Nat, a)
  BY <1>1, OnlyOfFacts
<1>4. RecentLimit \in Nat \ {0}
  BY ChatHistoryAssumption
<1> HIDE DEF A
<1>5. R \in Seq(Names)
  BY <1>2, <1>4, NewestFacts
<1>6. PICK off \in Nat :
         Len(A) = off + Len(R) /\ \A i \in 1 .. Len(R) : R[i] = A[off + i]
  BY <1>2, <1>4, NewestFacts
<1> HIDE DEF R
<1>7. P \in Seq(Names)
  BY <1>5, OnlyOfFacts
<1>8. PICK p : PlacesOf(P, R, Len(R), {scope} \X (Nat \ shown), p)
  BY <1>5, OnlyOfFacts
<1>9. Previous(scope) = P
  BY DEF Previous, Recent, A, R
<1> HIDE DEF P, shown
<1> DEFINE n == Len(P)
           m == Len(R)
           at == [i \in 1 .. n |-> a[off + p[i]]]
<1>10. n \in Nat /\ m \in Nat /\ Len(A) = off + m
  BY <1>5, <1>6, <1>7
<1>11. /\ a \in [1 .. Len(A) -> 1 .. N]
       /\ \A i, j \in 1 .. Len(A) : i < j => a[i] < a[j]
       /\ \A i \in 1 .. Len(A) : A[i] = saved[a[i]]
       /\ \A k \in 1 .. N : saved[k] \in {scope} \X Nat => \E i \in 1 .. Len(A) : a[i] = k
  BY <1>3 DEF PlacesOf
<1>12. /\ p \in [1 .. n -> 1 .. m]
       /\ \A i, j \in 1 .. n : i < j => p[i] < p[j]
       /\ \A i \in 1 .. n : P[i] = R[p[i]] /\ P[i] \in {scope} \X (Nat \ shown)
       /\ \A k \in 1 .. m : R[k] \in {scope} \X (Nat \ shown) => \E i \in 1 .. n : p[i] = k
  BY <1>8 DEF PlacesOf
<1>13. \A j \in 1 .. m : off + j \in 1 .. Len(A) /\ R[j] = A[off + j]
  BY <1>6, <1>10
<1>14. \A i \in 1 .. n : p[i] \in 1 .. m /\ off + p[i] \in 1 .. Len(A)
  BY <1>12, <1>13
<1> HIDE DEF n, m, N
<1>15. \A i \in 1 .. n : at[i] = a[off + p[i]]
  OBVIOUS
<1>16. at \in [1 .. n -> 1 .. N]
  BY <1>11, <1>14
<1> HIDE DEF at
<1>17. \A i, j \in 1 .. n : i < j => at[i] < at[j]
  <2> SUFFICES ASSUME NEW i \in 1 .. n, NEW j \in 1 .. n, i < j PROVE at[i] < at[j]
    OBVIOUS
  <2>1. p[i] < p[j]
    BY <1>12
  <2>2. off + p[i] < off + p[j]
    BY <1>14, <2>1
  <2>3. a[off + p[i]] < a[off + p[j]]
    BY <1>11, <1>14, <2>2
  <2> QED
    BY <1>15, <2>3
<1>18. \A i \in 1 .. n : P[i] = saved[at[i]] /\ P[i][1] = scope /\ P[i][2] \notin shown
  <2> SUFFICES ASSUME NEW i \in 1 .. n
        PROVE  P[i] = saved[at[i]] /\ P[i][1] = scope /\ P[i][2] \notin shown
    OBVIOUS
  <2>1. P[i] = A[off + p[i]]
    BY <1>12, <1>13, <1>14
  <2>2. P[i] = saved[at[i]]
    BY <1>11, <1>14, <1>15, <2>1
  <2>3. P[i] \in {scope} \X (Nat \ shown)
    BY <1>12
  <2> QED
    BY <2>2, <2>3
<1>19. ASSUME NEW k \in 1 .. N, saved[k][1] = scope
       PROVE  \/ saved[k][2] \in shown
              \/ \E i \in 1 .. n : at[i] = k
              \/ \A i \in 1 .. n : k < at[i]
  <2>1. saved[k] \in Names
    BY <1>1 DEF N
  <2>2. saved[k] \in {scope} \X Nat
    BY <1>19, <2>1 DEF Names
  <2>3. PICK j \in 1 .. Len(A) : a[j] = k
    BY <1>11, <2>2
  <2>4. CASE j <= off
    <3>1. ASSUME NEW i \in 1 .. n PROVE k < at[i]
      <4>1. p[i] \in 1 .. m /\ off + p[i] \in 1 .. Len(A)
        BY <1>14
      <4>2. j < off + p[i]
        BY <2>4, <4>1
      <4>3. a[j] < a[off + p[i]]
        BY <1>11, <4>1, <4>2
      <4> QED
        BY <1>15, <2>3, <4>3
    <3> QED
      BY <3>1
  <2>5. CASE ~ (j <= off) /\ saved[k][2] \notin shown
    <3> DEFINE q == j - off
    <3>1. q \in 1 .. m /\ off + q = j
      BY <1>10, <2>5
    <3> HIDE DEF q
    <3>2. R[q] = A[j]
      BY <1>13, <3>1
    <3>3. A[j] = saved[k]
      BY <1>11, <2>3
    <3>4. R[q] \in {scope} \X (Nat \ shown)
      <4>1. saved[k] = <<saved[k][1], saved[k][2]>> /\ saved[k][2] \in Nat
        BY <2>1 DEF Names
      <4>2. saved[k] \in {scope} \X (Nat \ shown)
        BY <1>19, <2>5, <4>1
      <4> QED
        BY <3>2, <3>3, <4>2
    <3>5. PICK i \in 1 .. n : p[i] = q
      BY <1>12, <3>1, <3>4
    <3>6. at[i] = k
      BY <1>15, <2>3, <3>1, <3>5
    <3> QED
      BY <3>6
  <2> QED
    BY <2>4, <2>5
<1>20. FromSaved(P, saved, scope, shown, at)
  BY <1>16, <1>17, <1>18, <1>19 DEF FromSaved, n, N
<1> QED
  BY <1>7, <1>9, <1>20 DEF shown

\* A sequence before another.
LEMMA JoinedFacts ==
  ASSUME NEW M, NEW p \in Seq(M), NEW q \in Seq(M)
  PROVE  /\ p \o q \in Seq(M) /\ Len(p \o q) = Len(p) + Len(q)
         /\ \A i \in 1 .. Len(p) : (p \o q)[i] = p[i]
         /\ \A i \in 1 .. Len(q) : (p \o q)[Len(p) + i] = q[i]
OBVIOUS

\* What loadHistory shows: the order holds, nothing saved is left out between,
\* and no image is added.
LEMMA LoadFacts ==
  ASSUME HistoryIInv, NEW scope \in Scopes
  PROVE  /\ LoadHistory(scope) \in Seq(Entries)
         /\ SizeOf(LoadHistory(scope)) = SizeOf(entries[scope])
         /\ InOrder(LoadHistory(scope)) /\ Reached(LoadHistory(scope), saved, scope)
         /\ \A i \in 1 .. Len(LoadHistory(scope)) :
               /\ LoadHistory(scope)[i].id \in 1 .. arrivals
               /\ LoadHistory(scope)[i].image > 0 =>
                     \E j \in 1 .. Len(entries[scope]) :
                        entries[scope][j] = LoadHistory(scope)[i]
<1> DEFINE P == Previous(scope)
           e == entries[scope]
           head == [i \in 1 .. Len(P) |-> [id |-> P[i][2], image |-> 0]]
           l == LoadHistory(scope)
           n == Len(P)
           m == Len(e)
           shown == Shown(scope)
<1>1. /\ HistoryTyped /\ InOrder(e) /\ Reached(e, saved, scope) /\ SavedInOrder(saved)
      /\ e \in Seq(Entries) /\ arrivals \in Nat /\ saved \in Seq(Names)
      /\ \A i \in 1 .. m : e[i].id \in 1 .. arrivals
      /\ \A k \in 1 .. Len(saved) : saved[k][2] \in 1 .. arrivals
  BY DEF HistoryIInv, HistoryTyped, Transcripts
<1>2. P \in Seq(Names) /\ \E at : FromSaved(P, saved, scope, shown, at)
  BY <1>1, PreviousFacts
<1>3. PICK at : FromSaved(P, saved, scope, shown, at)
  BY <1>2
<1>4. DOMAIN P = 1 .. n /\ n \in Nat /\ m \in Nat
  BY <1>1, <1>2
<1>5. l = head \o e
  BY <1>4 DEF LoadHistory, Previous, Shown
<1> HIDE DEF P, l, head
<1>6. shown = {e[i].id : i \in 1 .. m}
  <2>1. DOMAIN e = 1 .. m
    <3> HIDE DEF e
    <3> QED
      BY <1>1
  <2>2. shown = {e[i].id : i \in DOMAIN e}
    BY DEF Shown
  <2> HIDE DEF e, m, shown
  <2> QED
    BY <2>1, <2>2
<1> HIDE DEF e, shown
<1> USE DEF head
<1>7. /\ at \in [1 .. n -> 1 .. Len(saved)]
      /\ \A i, j \in 1 .. n : i < j => at[i] < at[j]
      /\ \A i \in 1 .. n : P[i] = saved[at[i]] /\ P[i][1] = scope /\ P[i][2] \notin shown
      /\ \A k \in 1 .. Len(saved) : saved[k][1] = scope =>
            \/ saved[k][2] \in shown
            \/ \E i \in 1 .. n : at[i] = k
            \/ \A i \in 1 .. n : k < at[i]
  BY <1>3 DEF FromSaved
<1>8. \A i \in 1 .. n : P[i][2] \in 1 .. arrivals
  <2> SUFFICES ASSUME NEW i \in 1 .. n PROVE P[i][2] \in 1 .. arrivals
    OBVIOUS
  <2>1. at[i] \in 1 .. Len(saved) /\ P[i] = saved[at[i]]
    BY <1>7
  <2> QED
    BY <1>1, <2>1
<1> HIDE DEF n, m
<1>9. head \in [1 .. n -> Entries]
  <2>1. \A i \in 1 .. n : [id |-> P[i][2], image |-> 0] \in Entries
    BY <1>1, <1>8 DEF Entries
  <2> QED
    BY <2>1 DEF n
<1>10. \A i \in 1 .. n : head[i] = [id |-> P[i][2], image |-> 0]
  BY DEF n
<1> HIDE DEF head
<1>11. head \in Seq(Entries) /\ Len(head) = n
  BY <1>4, <1>9
<1>12. /\ l \in Seq(Entries) /\ Len(l) = n + m
       /\ \A i \in 1 .. n : l[i] = head[i]
       /\ \A i \in 1 .. m : l[n + i] = e[i]
  BY <1>1, <1>5, <1>11, JoinedFacts DEF m
<1>13. SizeOf(l) = SizeOf(e)
  <2>1. SizeOf(l) = SizeOf(head) + SizeOf(e)
    BY <1>1, <1>5, <1>11, SizeOfJoined
  <2>2. SizeOf(head) = 0
    <3>1. \A i \in 1 .. Len(head) : head[i].image = 0
      BY <1>10, <1>11
    <3> QED
      BY <1>11, <3>1, SizeWithoutImages
  <2>3. SizeOf(e) \in Nat
    BY <1>1, SizeIsNatural
  <2> QED
    BY <2>1, <2>2, <2>3
<1>14. \A i \in 1 .. (n + m) : i \in 1 .. n \/ (i - n \in 1 .. m /\ n + (i - n) = i)
  BY <1>4
<1>15. \A i \in 1 .. n : l[i].id = P[i][2] /\ l[i].image = 0
  <2> SUFFICES ASSUME NEW i \in 1 .. n PROVE l[i].id = P[i][2] /\ l[i].image = 0
    OBVIOUS
  <2>1. l[i] = [id |-> P[i][2], image |-> 0]
    BY <1>10, <1>12
  <2> QED
    BY <2>1
<1>16. \A i \in 1 .. n : \A j \in 1 .. m : P[i][2] < e[j].id
  <2> SUFFICES ASSUME NEW i \in 1 .. n, NEW j \in 1 .. m PROVE P[i][2] < e[j].id
    OBVIOUS
  <2>1. at[i] \in 1 .. Len(saved) /\ P[i] = saved[at[i]] /\ P[i][1] = scope /\ P[i][2] \notin shown
    BY <1>7
  <2>2. 1 \in 1 .. m /\ e # <<>>
    BY <1>1, <1>4 DEF m
  <2>3. ~ (P[i][2] >= e[1].id)
    <3>1. ASSUME P[i][2] >= e[1].id PROVE FALSE
      <4>1. PICK k \in 1 .. Len(e) : e[k].id = saved[at[i]][2]
        BY <1>1, <2>1, <2>2, <3>1 DEF Reached
      <4> QED
        BY <1>6, <2>1, <4>1 DEF m
    <3> QED
      BY <3>1
  <2>4. e[1].id \in 1 .. arrivals /\ e[j].id \in 1 .. arrivals /\ P[i][2] \in 1 .. arrivals
    BY <1>1, <1>8, <2>2 DEF m
  <2>5. e[1].id <= e[j].id
    <3>1. CASE j = 1
      BY <2>4, <3>1
    <3>2. CASE j # 1
      <4>1. 1 < j
        BY <1>4, <3>2
      <4>2. e[1].id < e[j].id
        BY <1>1, <2>2, <4>1 DEF InOrder, m
      <4> QED
        BY <1>1, <2>4, <4>2
    <3> QED
      BY <3>1, <3>2
  <2> QED
    BY <1>1, <2>3, <2>4, <2>5
<1>17. InOrder(l)
  <2> SUFFICES ASSUME NEW i \in 1 .. (n + m), NEW j \in 1 .. (n + m), i < j
        PROVE  l[i].id < l[j].id
    BY <1>12 DEF InOrder
  <2>1. CASE i \in 1 .. n /\ j \in 1 .. n
    <3>1. at[i] \in 1 .. Len(saved) /\ at[j] \in 1 .. Len(saved) /\ at[i] < at[j]
      BY <1>7, <2>1
    <3>2. saved[at[i]][2] < saved[at[j]][2]
      BY <1>1, <3>1 DEF SavedInOrder
    <3> QED
      BY <1>7, <1>15, <2>1, <3>2
  <2>2. CASE i \in 1 .. n /\ j \notin 1 .. n
    <3>1. j - n \in 1 .. m /\ l[j] = e[j - n]
      BY <1>12, <1>14, <2>2
    <3> QED
      BY <1>15, <1>16, <2>2, <3>1
  <2>3. CASE i \notin 1 .. n
    <3>1. i - n \in 1 .. m /\ l[i] = e[i - n]
      BY <1>12, <1>14, <2>3
    <3>2. j \notin 1 .. n
      BY <1>4, <2>3
    <3>3. j - n \in 1 .. m /\ l[j] = e[j - n]
      BY <1>12, <1>14, <3>2
    <3>4. i - n < j - n
      BY <1>4
    <3>5. e[i - n].id < e[j - n].id
      BY <1>1, <3>1, <3>3, <3>4 DEF InOrder, m
    <3> QED
      BY <3>1, <3>3, <3>5
  <2> QED
    BY <2>1, <2>2, <2>3
<1>18. Reached(l, saved, scope)
  <2> SUFFICES ASSUME NEW k \in 1 .. Len(saved), l # <<>>, saved[k][1] = scope,
                      saved[k][2] >= l[1].id
        PROVE  \E i \in 1 .. (n + m) : l[i].id = saved[k][2]
    BY <1>12 DEF Reached
  <2>1. ASSUME NEW i \in 1 .. m, e[i].id = saved[k][2]
        PROVE  \E j \in 1 .. (n + m) : l[j].id = saved[k][2]
    <3>1. n + i \in 1 .. (n + m) /\ l[n + i] = e[i]
      BY <1>4, <1>12
    <3> QED
      BY <2>1, <3>1
  <2>2. CASE n = 0
    <3>1. 1 \in 1 .. m /\ l[1] = e[1] /\ e # <<>>
      <4>1. m # 0
        BY <1>12, <2>2
      <4>2. 1 \in 1 .. m
        BY <1>4, <4>1
      <4>3. l[n + 1] = e[1]
        BY <1>12, <4>2
      <4> QED
        BY <1>4, <2>2, <4>1, <4>2, <4>3 DEF m
    <3>2. PICK i \in 1 .. Len(e) : e[i].id = saved[k][2]
      BY <1>1, <3>1 DEF Reached
    <3> QED
      BY <2>1, <3>2 DEF m
  <2>3. CASE n # 0
    <3>1. 1 \in 1 .. n /\ l[1].id = P[1][2]
      BY <1>4, <1>15, <2>3
    <3>2. at[1] \in 1 .. Len(saved) /\ l[1].id = saved[at[1]][2]
      BY <1>7, <3>1
    <3>3. ~ (k < at[1])
      <4>1. ASSUME k < at[1] PROVE FALSE
        <5>1. saved[k][2] < saved[at[1]][2]
          BY <1>1, <3>2, <4>1 DEF SavedInOrder
        <5>2. saved[k][2] \in 1 .. arrivals /\ saved[at[1]][2] \in 1 .. arrivals
          BY <1>1, <3>2
        <5> QED
          BY <1>1, <3>2, <5>1, <5>2
      <4> QED
        BY <4>1
    <3>4. saved[k][2] \in shown \/ \E i \in 1 .. n : at[i] = k
      BY <1>7, <3>1, <3>3
    <3>5. CASE saved[k][2] \in shown
      <4>1. PICK i \in 1 .. m : e[i].id = saved[k][2]
        BY <1>6, <3>5
      <4> QED
        BY <2>1, <4>1
    <3>6. CASE \E i \in 1 .. n : at[i] = k
      <4>1. PICK i \in 1 .. n : at[i] = k
        BY <3>6
      <4>2. i \in 1 .. (n + m) /\ l[i].id = saved[k][2]
        BY <1>4, <1>7, <1>15, <4>1
      <4> QED
        BY <4>2
    <3> QED
      BY <3>4, <3>5, <3>6
  <2> QED
    BY <2>2, <2>3
<1>19. ASSUME NEW i \in 1 .. (n + m)
       PROVE  /\ l[i].id \in 1 .. arrivals
              /\ l[i].image > 0 => \E j \in 1 .. m : e[j] = l[i]
  <2>1. CASE i \in 1 .. n
    BY <1>8, <1>15, <2>1
  <2>2. CASE i \notin 1 .. n
    <3>1. i - n \in 1 .. m /\ l[i] = e[i - n]
      BY <1>12, <1>14, <2>2
    <3> QED
      BY <1>1, <3>1 DEF m
  <2> QED
    BY <2>1, <2>2
<1> QED
  BY <1>12, <1>13, <1>17, <1>18, <1>19 DEF l, e, m

\* A message or an image at the end of a transcript, that keeps at most
\* MaxEntries of them.
ListOf(scope, id, image) == Append(entries[scope], [id |-> id, image |-> image])
FullList(list) == Len(list) > MaxEntries
KeptList(list) == IF FullList(list) THEN Tail(list) ELSE list
LostImage(list) == IF FullList(list) THEN Head(list).image ELSE 0

\* r is seq without its first `off`.
Suffix(r, seq, off) ==
    /\ off \in Nat /\ Len(seq) = off + Len(r)
    /\ \A i \in 1 .. Len(r) : r[i] = seq[off + i]

\* The list that is kept.
LEMMA KeptFacts ==
  ASSUME NEW list \in Seq(Entries), list # <<>>
  PROVE  /\ KeptList(list) \in Seq(Entries) /\ KeptList(list) # <<>>
         /\ Len(KeptList(list)) \in Nat /\ Len(KeptList(list)) # 0
         /\ SizeOf(KeptList(list)) = SizeOf(list) - LostImage(list) /\ LostImage(list) \in Nat
         /\ \E off : Suffix(KeptList(list), list, off)
<1> DEFINE k == KeptList(list)
<1>0. Len(list) \in Nat /\ Len(list) # 0 /\ SizeOf(list) \in Nat /\ MaxEntries \in Nat \ {0}
  BY SizeIsNatural, ChatHistoryAssumption
<1>1. CASE FullList(list)
  <2>0. k = Tail(list) /\ LostImage(list) = Head(list).image
    BY <1>1 DEF KeptList, LostImage
  <2>1. k \in Seq(Entries) /\ Len(k) = Len(list) - 1 /\ \A i \in 1 .. Len(k) : k[i] = list[1 + i]
    BY <1>0, <2>0
  <2>2. Len(k) # 0
    BY <1>0, <1>1, <2>1 DEF FullList
  <2>3. Head(list) \in Entries /\ Head(list) = list[1]
    BY <1>0
  <2> DEFINE one == <<Head(list)>>
  <2>4. one \in Seq(Entries) /\ Len(one) = 1 /\ one[1] = Head(list)
    BY <2>3
  <2> HIDE DEF k
  <2>5. SizeOf(one) = Head(list).image /\ Head(list).image \in Nat
    BY <2>3, SizeOfOne
  <2> HIDE DEF one
  <2>6. list = one \o k
    <3> DEFINE q == one \o k
    <3>0. one \in Seq(Entries) /\ k \in Seq(Entries)
      BY <2>1, <2>4
    <3>1. /\ q \in Seq(Entries) /\ Len(q) = Len(one) + Len(k)
          /\ \A i \in 1 .. Len(one) : q[i] = one[i]
          /\ \A i \in 1 .. Len(k) : q[Len(one) + i] = k[i]
      BY <3>0, JoinedFacts
    <3> HIDE DEF q
    <3>2. Len(q) = Len(list)
      BY <1>0, <2>1, <2>4, <3>1
    <3>3. ASSUME NEW i \in 1 .. Len(list) PROVE q[i] = list[i]
      <4>1. CASE i = 1
        BY <2>3, <2>4, <3>1, <4>1
      <4>2. CASE i # 1
        <5>1. i - 1 \in 1 .. Len(k) /\ 1 + (i - 1) = i
          BY <1>0, <2>1, <4>2
        <5> QED
          BY <2>1, <2>4, <3>1, <5>1
      <4> QED
        BY <4>1, <4>2
    <3>4. q = list
      BY <3>1, <3>2, <3>3, SeqEqual
    <3> QED
      BY <3>4 DEF q
  <2>7. SizeOf(list) = SizeOf(one) + SizeOf(k) /\ SizeOf(k) \in Nat
    BY <2>1, <2>4, <2>6, SizeOfJoined, SizeIsNatural
  <2>8. Suffix(k, list, 1)
    BY <1>0, <2>1 DEF Suffix
  <2>9. k # <<>> /\ Len(k) \in Nat
    BY <2>1, <2>2
  <2> QED
    BY <2>0, <2>1, <2>2, <2>5, <2>7, <2>8, <2>9 DEF k
<1>2. CASE ~ FullList(list)
  <2>1. k = list /\ LostImage(list) = 0
    BY <1>2 DEF KeptList, LostImage
  <2>2. Suffix(list, list, 0)
    BY <1>0 DEF Suffix
  <2> QED
    BY <1>0, <2>1, <2>2
<1> QED
  BY <1>1, <1>2

\* The end of a transcript is in order, and reaches as far as it does.
LEMMA SuffixReaches ==
  ASSUME NEW seq \in Seq(Entries), NEW r \in Seq(Entries), NEW off, Suffix(r, seq, off),
         NEW sv \in Seq(Names), NEW s, InOrder(seq), Reached(seq, sv, s)
  PROVE  InOrder(r) /\ Reached(r, sv, s)
<1>1. /\ off \in Nat /\ Len(seq) = off + Len(r) /\ Len(r) \in Nat /\ Len(seq) \in Nat
      /\ \A i \in 1 .. Len(r) : r[i] = seq[off + i] /\ off + i \in 1 .. Len(seq)
  BY DEF Suffix
<1>2. \A i \in 1 .. Len(seq) : seq[i].id \in Nat
  <2>1. \A i \in 1 .. Len(seq) : seq[i] \in Entries
    OBVIOUS
  <2> QED
    BY <2>1 DEF Entries
<1>3. InOrder(r)
  <2> SUFFICES ASSUME NEW i \in 1 .. Len(r), NEW j \in 1 .. Len(r), i < j
        PROVE  r[i].id < r[j].id
    BY DEF InOrder
  <2>1. off + i < off + j
    BY <1>1
  <2>2. seq[off + i].id < seq[off + j].id
    BY <1>1, <2>1 DEF InOrder
  <2> QED
    BY <1>1, <2>2
<1>4. Reached(r, sv, s)
  <2> SUFFICES ASSUME NEW k \in 1 .. Len(sv), r # <<>>, sv[k][1] = s, sv[k][2] >= r[1].id
        PROVE  \E i \in 1 .. Len(r) : r[i].id = sv[k][2]
    BY DEF Reached
  <2>1. 1 \in 1 .. Len(r) /\ r[1] = seq[off + 1] /\ seq # <<>> /\ 1 \in 1 .. Len(seq)
    <3>1. Len(r) # 0
      OBVIOUS
    <3>2. 1 \in 1 .. Len(r)
      BY <1>1, <3>1
    <3>3. off + 1 \in 1 .. Len(seq)
      BY <1>1, <3>2
    <3> QED
      BY <1>1, <3>2, <3>3
  <2>2. seq[1].id \in Nat /\ r[1].id \in Nat /\ seq[1].id <= r[1].id
    <3>1. off + 1 \in 1 .. Len(seq)
      BY <1>1, <2>1
    <3>2. CASE off = 0
      BY <1>2, <2>1, <3>1, <3>2
    <3>3. CASE off # 0
      <4>1. 1 < off + 1
        BY <1>1, <3>3
      <4>2. seq[1].id < seq[off + 1].id
        BY <2>1, <3>1, <4>1 DEF InOrder
      <4> QED
        BY <1>2, <2>1, <3>1, <4>2
    <3> QED
      BY <3>2, <3>3
  <2>3. sv[k] \in Names /\ sv[k][2] \in Nat
    BY DEF Names
  <2>4. sv[k][2] >= seq[1].id
    BY <2>2, <2>3
  <2>5. PICK i \in 1 .. Len(seq) : seq[i].id = sv[k][2]
    BY <2>1, <2>4 DEF Reached
  <2>6. ~ (i < off + 1)
    <3>1. ASSUME i < off + 1 PROVE FALSE
      <4>1. off + 1 \in 1 .. Len(seq)
        BY <1>1, <2>1
      <4>2. seq[i].id < seq[off + 1].id
        BY <3>1, <4>1 DEF InOrder
      <4> QED
        BY <1>2, <2>1, <2>2, <2>3, <2>5, <4>2
    <3> QED
      BY <3>1
  <2>7. i - off \in 1 .. Len(r) /\ off + (i - off) = i
    BY <1>1, <2>6
  <2> QED
    BY <1>1, <2>5, <2>7
<1> QED
  BY <1>3, <1>4

\* What a message that arrives makes of its transcript.
LEMMA ArrivalFacts ==
  ASSUME HistoryIInv, NEW scope \in Scopes, NEW image \in Nat, NEW id, id = arrivals + 1
  PROVE  /\ ListOf(scope, id, image) \in Seq(Entries) /\ ListOf(scope, id, image) # <<>>
         /\ KeptList(ListOf(scope, id, image)) \in Seq(Entries)
         /\ SizeOf(KeptList(ListOf(scope, id, image)))
              = SizeOf(entries[scope]) + image - LostImage(ListOf(scope, id, image))
         /\ LostImage(ListOf(scope, id, image)) \in Nat
         /\ InOrder(KeptList(ListOf(scope, id, image)))
         /\ Reached(KeptList(ListOf(scope, id, image)), saved, scope)
         /\ \E i \in 1 .. Len(KeptList(ListOf(scope, id, image))) :
               KeptList(ListOf(scope, id, image))[i].id = id
         /\ \A i \in 1 .. Len(KeptList(ListOf(scope, id, image))) :
              /\ KeptList(ListOf(scope, id, image))[i].id \in 1 .. id
              /\ \/ KeptList(ListOf(scope, id, image))[i] = [id |-> id, image |-> image]
                 \/ \E j \in 1 .. Len(entries[scope]) :
                       entries[scope][j] = KeptList(ListOf(scope, id, image))[i]
<1> DEFINE e == entries[scope]
           new == [id |-> id, image |-> image]
           list == ListOf(scope, id, image)
           k == KeptList(list)
           n == Len(e)
<1>1. /\ InOrder(e) /\ Reached(e, saved, scope) /\ e \in Seq(Entries) /\ arrivals \in Nat
      /\ saved \in Seq(Names) /\ \A i \in 1 .. n : e[i].id \in 1 .. arrivals
      /\ \A j \in 1 .. Len(saved) : saved[j][2] \in 1 .. arrivals
  BY DEF HistoryIInv, HistoryTyped, Transcripts
<1>2. new \in Entries /\ new.id = id /\ new.image = image /\ id \in Nat /\ id # 0
  BY <1>1 DEF Entries
<1> HIDE DEF new
<1>3. list = Append(e, new)
  BY DEF ListOf, new
<1> HIDE DEF e, list
<1>4. /\ list \in Seq(Entries) /\ Len(list) = n + 1 /\ n \in Nat /\ list[n + 1] = new
      /\ \A i \in 1 .. n : list[i] = e[i]
  BY <1>1, <1>2, <1>3
<1>5. list # <<>>
  BY <1>4
<1>6. list = e \o <<new>> /\ <<new>> \in Seq(Entries)
  BY <1>1, <1>2, <1>3
<1> HIDE DEF n
<1>7. SizeOf(list) = SizeOf(e) + image
  <2>1. SizeOf(<<new>>) = image
    BY <1>2, SizeOfOne
  <2>2. SizeOf(list) = SizeOf(e) + SizeOf(<<new>>)
    BY <1>1, <1>6, SizeOfJoined
  <2> QED
    BY <2>1, <2>2
<1>8. \A i \in 1 .. (n + 1) : i \in 1 .. n \/ i = n + 1
  BY <1>4
<1>9. InOrder(list)
  <2> SUFFICES ASSUME NEW i \in 1 .. (n + 1), NEW j \in 1 .. (n + 1), i < j
        PROVE  list[i].id < list[j].id
    BY <1>4 DEF InOrder
  <2>1. i \in 1 .. n
    BY <1>4
  <2>2. CASE j = n + 1
    <3>1. e[i].id \in 1 .. arrivals
      BY <1>1, <2>1
    <3>2. list[j].id = arrivals + 1
      BY <1>2, <1>4, <2>2
    <3> QED
      BY <1>1, <1>4, <2>1, <3>1, <3>2
  <2>3. CASE j # n + 1
    <3>1. j \in 1 .. n
      BY <1>8, <2>3
    <3>2. e[i].id < e[j].id
      BY <1>1, <2>1, <3>1 DEF InOrder, n
    <3> QED
      BY <1>4, <2>1, <3>1, <3>2
  <2> QED
    BY <2>2, <2>3
<1>10. Reached(list, saved, scope)
  <2> SUFFICES ASSUME NEW j \in 1 .. Len(saved), saved[j][1] = scope, saved[j][2] >= list[1].id
        PROVE  \E i \in 1 .. (n + 1) : list[i].id = saved[j][2]
    BY <1>4 DEF Reached
  <2>1. n # 0
    <3>1. ASSUME n = 0 PROVE FALSE
      <4>1. list[1].id = arrivals + 1
        BY <1>2, <1>4, <3>1
      <4>2. saved[j][2] \in 1 .. arrivals
        BY <1>1
      <4> QED
        BY <1>1, <4>1, <4>2
    <3> QED
      BY <3>1
  <2>2. 1 \in 1 .. n /\ list[1] = e[1] /\ e # <<>>
    BY <1>1, <1>4, <2>1 DEF n
  <2>3. PICK i \in 1 .. n : e[i].id = saved[j][2]
    BY <1>1, <2>2 DEF Reached, n
  <2>4. i \in 1 .. (n + 1) /\ list[i] = e[i]
    BY <1>4
  <2> QED
    BY <2>3, <2>4
<1>11. /\ k \in Seq(Entries) /\ Len(k) \in Nat /\ Len(k) # 0
       /\ SizeOf(k) = SizeOf(list) - LostImage(list) /\ LostImage(list) \in Nat
       /\ \E off : Suffix(k, list, off)
  BY <1>4, <1>5, KeptFacts
<1> HIDE DEF k
<1>12. PICK off : Suffix(k, list, off)
  BY <1>11
<1>13. InOrder(k) /\ Reached(k, saved, scope)
  BY <1>1, <1>4, <1>9, <1>10, <1>11, <1>12, SuffixReaches
<1>14. /\ off \in Nat /\ n + 1 = off + Len(k)
       /\ \A i \in 1 .. Len(k) : k[i] = list[off + i] /\ off + i \in 1 .. (n + 1)
  <2>1. /\ off \in Nat /\ n + 1 = off + Len(k)
        /\ \A i \in 1 .. Len(k) : k[i] = list[off + i]
    BY <1>4, <1>12 DEF Suffix
  <2>2. \A i \in 1 .. Len(k) : off + i \in 1 .. (n + 1)
    BY <1>4, <1>11, <2>1
  <2> QED
    BY <2>1, <2>2
<1>15. Len(k) \in 1 .. Len(k) /\ k[Len(k)].id = id
  BY <1>2, <1>4, <1>11, <1>14
<1>16. ASSUME NEW i \in 1 .. Len(k)
       PROVE  k[i].id \in 1 .. id /\ (k[i] = new \/ \E j \in 1 .. n : e[j] = k[i])
  <2>1. CASE off + i \in 1 .. n
    <3>1. k[i] = e[off + i]
      BY <1>4, <1>14, <2>1
    <3>2. e[off + i].id \in 1 .. arrivals
      BY <1>1, <2>1
    <3> QED
      BY <1>1, <2>1, <3>1, <3>2
  <2>2. CASE off + i = n + 1
    BY <1>1, <1>2, <1>4, <1>14, <2>2
  <2> QED
    BY <1>8, <1>14, <2>1, <2>2
<1>17. SizeOf(e) \in Nat /\ SizeOf(k) = SizeOf(e) + image - LostImage(list)
  <2>1. SizeOf(e) \in Nat
    BY <1>1, SizeIsNatural
  <2> QED
    BY <1>7, <1>11, <2>1
<1> QED
  BY <1>4, <1>5, <1>11, <1>13, <1>15, <1>16, <1>17 DEF k, list, e, new, n

\* A transcript that differs in its images only is in the same order, and
\* reaches as far.
LEMMA SameOrder ==
  ASSUME NEW seq \in Seq(Entries), NEW r \in Seq(Entries), Len(r) = Len(seq),
         \A i \in 1 .. Len(seq) : r[i].id = seq[i].id,
         NEW sv, NEW s, InOrder(seq), Reached(seq, sv, s)
  PROVE  InOrder(r) /\ Reached(r, sv, s)
<1>1. InOrder(r)
  BY DEF InOrder
<1>2. Reached(r, sv, s)
  <2> SUFFICES ASSUME NEW k \in 1 .. Len(sv), r # <<>>, sv[k][1] = s, sv[k][2] >= r[1].id
        PROVE  \E i \in 1 .. Len(r) : r[i].id = sv[k][2]
    BY DEF Reached
  <2>1. seq # <<>> /\ r[1].id = seq[1].id
    <3>1. Len(r) # 0 /\ Len(r) \in Nat
      OBVIOUS
    <3>2. 1 \in 1 .. Len(seq)
      BY <3>1
    <3> QED
      BY <3>2
  <2>2. PICK i \in 1 .. Len(seq) : seq[i].id = sv[k][2]
    BY <2>1 DEF Reached
  <2> QED
    BY <2>2
<1> QED
  BY <1>1, <1>2

\* What is saved of a message: it is shown, or of another scope.
LEMMA MoreSaved ==
  ASSUME NEW seq, NEW sv, NEW sw, NEW s, NEW m, Reached(seq, sv, s),
         \A k \in 1 .. Len(sw) : sw[k] = m \/ \E j \in 1 .. Len(sv) : sv[j] = sw[k],
         m[1] = s => \E i \in 1 .. Len(seq) : seq[i].id = m[2]
  PROVE  Reached(seq, sw, s)
<1> SUFFICES ASSUME NEW k \in 1 .. Len(sw), seq # <<>>, sw[k][1] = s, sw[k][2] >= seq[1].id
      PROVE  \E i \in 1 .. Len(seq) : seq[i].id = sw[k][2]
  BY DEF Reached
<1>1. CASE sw[k] = m
  BY <1>1
<1>2. CASE \E j \in 1 .. Len(sv) : sv[j] = sw[k]
  <2>1. PICK j \in 1 .. Len(sv) : sv[j] = sw[k]
    BY <1>2
  <2> QED
    BY <2>1 DEF Reached
<1> QED
  BY <1>1, <1>2

\* What RecentMessages::append leaves: it is in order and within its limit.
LEMMA SavedFacts ==
  ASSUME HistoryIInv, NEW scope \in Scopes, NEW id, id = arrivals + 1
  PROVE  /\ Saved(scope, id) \in Seq(Names) /\ Len(Saved(scope, id)) <= Maximum
         /\ SavedInOrder(Saved(scope, id))
         /\ \A k \in 1 .. Len(Saved(scope, id)) :
              \/ Saved(scope, id)[k] = <<scope, id>>
              \/ \E j \in 1 .. Len(saved) : saved[j] = Saved(scope, id)[k]
<1> DEFINE m == <<scope, id>>
           more == Append(saved, m)
           r == Newest(more, Maximum)
           n == Len(saved)
<1>1. /\ saved \in Seq(Names) /\ SavedInOrder(saved) /\ arrivals \in Nat
      /\ \A k \in 1 .. n : saved[k][2] \in 1 .. arrivals
  BY DEF HistoryIInv, HistoryTyped
<1>2. m \in Names /\ m[2] = id /\ Maximum \in Nat \ {0}
  BY <1>1, ChatHistoryAssumption DEF Names
<1> HIDE DEF m
<1>3. /\ more \in Seq(Names) /\ Len(more) = n + 1 /\ n \in Nat /\ more[n + 1] = m
      /\ \A k \in 1 .. n : more[k] = saved[k]
  BY <1>1, <1>2
<1>4. r = Saved(scope, id)
  BY DEF Saved, m
<1> HIDE DEF more
<1>5. /\ r \in Seq(Names) /\ Len(r) <= Maximum
      /\ \E off \in Nat :
              Len(more) = off + Len(r) /\ \A i \in 1 .. Len(r) : r[i] = more[off + i]
  BY <1>2, <1>3, NewestFacts
<1> HIDE DEF r
<1>6. PICK off \in Nat : n + 1 = off + Len(r) /\ \A i \in 1 .. Len(r) : r[i] = more[off + i]
  BY <1>3, <1>5
<1>7. Len(r) \in Nat
  BY <1>5
<1> HIDE DEF n
<1>8. \A i, j \in 1 .. (n + 1) : i < j => more[i][2] < more[j][2]
  <2> SUFFICES ASSUME NEW i \in 1 .. (n + 1), NEW j \in 1 .. (n + 1), i < j
        PROVE  more[i][2] < more[j][2]
    OBVIOUS
  <2>1. i \in 1 .. n /\ more[i] = saved[i] /\ saved[i][2] \in 1 .. arrivals
    BY <1>1, <1>3
  <2>2. CASE j = n + 1
    <3>1. more[j][2] = arrivals + 1
      BY <1>2, <1>3, <2>2
    <3> QED
      BY <1>1, <2>1, <3>1
  <2>3. CASE j # n + 1
    <3>1. j \in 1 .. n /\ more[j] = saved[j]
      BY <1>3, <2>3
    <3>2. saved[i][2] < saved[j][2]
      BY <1>1, <2>1, <3>1 DEF SavedInOrder, n
    <3> QED
      BY <2>1, <3>1, <3>2
  <2> QED
    BY <2>2, <2>3
<1>9. \A i \in 1 .. Len(r) : off + i \in 1 .. (n + 1)
  BY <1>3, <1>6, <1>7
<1>10. SavedInOrder(r)
  <2> SUFFICES ASSUME NEW i \in 1 .. Len(r), NEW j \in 1 .. Len(r), i < j
        PROVE  r[i][2] < r[j][2]
    BY DEF SavedInOrder
  <2>1. off + i < off + j
    OBVIOUS
  <2>2. more[off + i][2] < more[off + j][2]
    BY <1>8, <1>9, <2>1
  <2> QED
    BY <1>6, <2>2
<1>11. ASSUME NEW k \in 1 .. Len(r)
       PROVE  r[k] = m \/ \E j \in 1 .. n : saved[j] = r[k]
  <2>1. CASE off + k = n + 1
    BY <1>3, <1>6, <2>1
  <2>2. CASE off + k # n + 1
    <3>1. off + k \in 1 .. n
      BY <1>3, <1>9, <2>2
    <3> QED
      BY <1>3, <1>6, <3>1
  <2> QED
    BY <2>1, <2>2
<1> QED
  BY <1>4, <1>5, <1>10, <1>11 DEF m, n

\* What OnlyOf keeps is not longer.
LEMMA OnlyOfIsShorter ==
  ASSUME NEW M, NEW seq \in Seq(M), NEW S
  PROVE  Len(OnlyOf(seq, S)) <= Len(seq)
<1> DEFINE r == OnlyOf(seq, S)
           n == Len(r)
           N == Len(seq)
<1>1. r \in Seq(M) /\ \E at : PlacesOf(r, seq, N, S, at)
  BY OnlyOfFacts
<1>2. PICK at : PlacesOf(r, seq, N, S, at)
  BY <1>1
<1>3. n \in Nat /\ N \in Nat
  BY <1>1
<1>4. at \in [1 .. n -> 1 .. N] /\ \A i, j \in 1 .. n : i < j => at[i] < at[j]
  BY <1>2 DEF PlacesOf
<1> HIDE DEF n, N
<1> DEFINE Bad == {i \in Nat : i \in 1 .. n /\ ~ (i <= at[i])}
<1>5. ASSUME Bad # {} PROVE FALSE
  <2>1. PICK i \in Bad : \A j \in Bad : i <= j
    <3>1. Bad \in SUBSET Nat
      OBVIOUS
    <3> HIDE DEF Bad
    <3> QED
      BY <1>5, <3>1, LeastNumber
  <2>2. i \in 1 .. n /\ at[i] \in 1 .. N /\ ~ (i <= at[i])
    BY <1>4, <2>1
  <2>3. i # 1
    BY <1>3, <2>2
  <2>4. i - 1 \in 1 .. n /\ i - 1 \in Nat /\ ~ (i <= i - 1) /\ i - 1 < i
    BY <1>3, <2>2, <2>3
  <2>5. i - 1 <= at[i - 1]
    BY <2>1, <2>4
  <2>6. at[i - 1] < at[i] /\ at[i - 1] \in 1 .. N
    BY <1>4, <2>2, <2>4
  <2> QED
    BY <1>3, <2>2, <2>5, <2>6
<1>6. n <= N
  <2>1. CASE n = 0
    BY <1>3, <2>1
  <2>2. CASE n # 0
    <3>1. n \in 1 .. n /\ n \in Nat
      BY <1>3, <2>2
    <3>2. n <= at[n]
      BY <1>5, <3>1
    <3>3. at[n] \in 1 .. N
      BY <1>4, <3>1
    <3> QED
      BY <1>3, <3>2, <3>3
  <2> QED
    BY <2>1, <2>2
<1> QED
  BY <1>6 DEF n, N

-----------------------------------------------------------------------------
\* One transcript is another, and the cache is kept.
LEMMA OneScope ==
  ASSUME HistoryIInv, NEW scope \in Scopes, NEW seq \in Seq(Entries),
         InOrder(seq), Reached(seq, saved, scope),
         \A i \in 1 .. Len(seq) : seq[i].id \in 1 .. arrivals,
         entries' = [entries EXCEPT ![scope] = seq], CacheKept',
         saved' = saved, arrivals' = arrivals, historyLoaded' \subseteq Scopes,
         cachedImages' \in Seq(Names), cachedBytes' \in Int
  PROVE  HistoryIInv'
<1>1. /\ arrivals \in Nat /\ entries \in Transcripts /\ saved \in Seq(Names)
      /\ Len(saved) <= Maximum
      /\ \A s \in Scopes : \A i \in 1 .. Len(entries[s]) : entries[s][i].id \in 1 .. arrivals
      /\ \A k \in 1 .. Len(saved) : saved[k][2] \in 1 .. arrivals
      /\ \A s \in Scopes : InOrder(entries[s]) /\ Reached(entries[s], saved, s)
      /\ SavedInOrder(saved)
  BY DEF HistoryIInv, HistoryTyped
<1>2. entries' \in Transcripts /\ entries'[scope] = seq
      /\ \A s \in Scopes : s # scope => entries'[s] = entries[s]
  BY <1>1 DEF Transcripts
<1>3. \A s \in Scopes : \A i \in 1 .. Len(entries'[s]) : entries'[s][i].id \in 1 .. arrivals
  BY <1>1, <1>2
<1>4. \A s \in Scopes : InOrder(entries'[s]) /\ Reached(entries'[s], saved, s)
  BY <1>1, <1>2
<1>5. HistoryTyped'
  BY <1>1, <1>2, <1>3 DEF HistoryTyped
<1> QED
  BY <1>1, <1>4, <1>5 DEF HistoryIInv

\* A transcript is loaded from what is saved.
LEMMA Loads ==
  ASSUME HistoryIInv, NEW scope \in Scopes,
         entries' = [entries EXCEPT ![scope] = LoadHistory(scope)],
         historyLoaded' \subseteq Scopes,
         UNCHANGED <<cachedImages, cachedBytes, saved, arrivals>>
  PROVE  HistoryIInv'
<1> DEFINE l == LoadHistory(scope)
           e == entries[scope]
<1>1. /\ l \in Seq(Entries) /\ SizeOf(l) = SizeOf(e) /\ InOrder(l) /\ Reached(l, saved, scope)
      /\ \A i \in 1 .. Len(l) :
            /\ l[i].id \in 1 .. arrivals
            /\ l[i].image > 0 => \E j \in 1 .. Len(e) : e[j] = l[i]
  BY LoadFacts
<1>2. entries' = [entries EXCEPT ![scope] = l]
  OBVIOUS
<1> HIDE DEF l
<1>3. /\ cachedBytes = TotalOf(entries) /\ Imaged(entries, cachedImages)
      /\ cachedBytes <= MaxImageBytes /\ Len(cachedImages) <= MaxCached
      /\ entries \in Transcripts /\ cachedImages \in Seq(Names) /\ cachedBytes \in Int
  BY DEF HistoryIInv, HistoryTyped, CacheKept
<1>4. TotalOf(entries') = TotalOf(entries)
  <2>0. entries \in Transcripts /\ l \in Seq(Entries)
    BY <1>1, <1>3
  <2>1. TotalOf(entries') = TotalOf(entries) - SizeOf(e) + SizeOf(l)
    <3>1. TotalOf([entries EXCEPT ![scope] = l]) = TotalOf(entries) - SizeOf(e) + SizeOf(l)
      BY <2>0, TotalChanges
    <3> QED
      BY <1>2, <3>1
  <2>2. SizeOf(e) \in Nat /\ TotalOf(entries) \in Nat
    BY <1>3, SizesAreNaturals
  <2> QED
    BY <1>1, <2>1, <2>2
<1>5. Imaged(entries', cachedImages)
  <2> SUFFICES ASSUME NEW s \in Scopes, NEW i \in 1 .. Len(entries'[s]),
                      entries'[s][i].image > 0
        PROVE  \E k \in 1 .. Len(cachedImages) : cachedImages[k] = <<s, entries'[s][i].id>>
    BY DEF Imaged
  <2>1. CASE s = scope
    <3>1. entries'[s] = l
      BY <1>2, <1>3, <2>1 DEF Transcripts
    <3>2. PICK j \in 1 .. Len(e) : e[j] = l[i]
      BY <1>1, <3>1
    <3> QED
      BY <1>3, <2>1, <3>1, <3>2 DEF Imaged
  <2>2. CASE s # scope
    <3>1. entries'[s] = entries[s]
      BY <1>2, <1>3, <2>2 DEF Transcripts
    <3> QED
      BY <1>3, <3>1 DEF Imaged
  <2> QED
    BY <2>1, <2>2
<1>6. CacheKept'
  BY <1>3, <1>4, <1>5 DEF CacheKept
<1>7. saved' = saved /\ arrivals' = arrivals /\ cachedImages' \in Seq(Names) /\ cachedBytes' \in Int
  BY <1>3
<1> QED
  BY <1>1, <1>2, <1>6, <1>7, OneScope

\* A channel is cleared.
LEMMA Clears ==
  ASSUME HistoryIInv, NEW scope \in Scopes, Clear(scope)
  PROVE  HistoryIInv'
<1> DEFINE e == entries[scope]
           rest == OnlyOf(cachedImages, (Scopes \ {scope}) \X Nat)
<1>1. /\ cachedBytes = TotalOf(entries) /\ Imaged(entries, cachedImages)
      /\ cachedBytes <= MaxImageBytes /\ Len(cachedImages) <= MaxCached
      /\ entries \in Transcripts /\ cachedImages \in Seq(Names) /\ cachedBytes \in Int
      /\ historyLoaded \subseteq Scopes
  BY DEF HistoryIInv, HistoryTyped, CacheKept
<1>2. /\ cachedBytes' = cachedBytes - SizeOf(e) /\ entries' = [entries EXCEPT ![scope] = <<>>]
      /\ cachedImages' = rest /\ saved' = saved /\ arrivals' = arrivals
      /\ historyLoaded' = historyLoaded
  BY DEF Clear
<1>3. <<>> \in Seq(Entries) /\ SizeOf(<<>>) = 0 /\ InOrder(<<>>) /\ Reached(<<>>, saved, scope)
      /\ \A i \in 1 .. Len(<<>>) : <<>>[i].id \in 1 .. arrivals
  BY SizeOfNothing DEF InOrder, Reached
<1>4. rest \in Seq(Names) /\ Len(rest) <= Len(cachedImages)
  BY <1>1, OnlyOfFacts, OnlyOfIsShorter
<1>5. PICK at : PlacesOf(rest, cachedImages, Len(cachedImages), (Scopes \ {scope}) \X Nat, at)
  BY <1>1, OnlyOfFacts
<1> HIDE DEF rest
<1>6. \A k \in 1 .. Len(cachedImages) : cachedImages[k] \in (Scopes \ {scope}) \X Nat =>
        \E i \in 1 .. Len(rest) : rest[i] = cachedImages[k]
  BY <1>5 DEF PlacesOf
<1>7. SizeOf(e) \in Nat /\ TotalOf(entries) \in Nat
  BY <1>1, SizesAreNaturals
<1>8. TotalOf(entries') = cachedBytes'
  <2>1. TotalOf(entries') = TotalOf(entries) - SizeOf(e) + SizeOf(<<>>)
    BY <1>1, <1>2, <1>3, TotalChanges
  <2> QED
    BY <1>1, <1>2, <1>3, <1>7, <2>1
<1>9. Imaged(entries', rest)
  <2> SUFFICES ASSUME NEW s \in Scopes, NEW i \in 1 .. Len(entries'[s]),
                      entries'[s][i].image > 0
        PROVE  \E k \in 1 .. Len(rest) : rest[k] = <<s, entries'[s][i].id>>
    BY DEF Imaged
  <2>1. s # scope
    <3>1. ASSUME s = scope PROVE FALSE
      <4>1. entries'[s] = <<>>
        BY <1>1, <1>2, <3>1 DEF Transcripts
      <4> QED
        BY <4>1
    <3> QED
      BY <3>1
  <2>2. entries'[s] = entries[s]
    BY <1>1, <1>2, <2>1 DEF Transcripts
  <2>3. PICK k \in 1 .. Len(cachedImages) : cachedImages[k] = <<s, entries[s][i].id>>
    BY <1>1, <2>2 DEF Imaged
  <2>4. cachedImages[k] \in Names
    BY <1>1
  <2>5. entries[s][i].id \in Nat
    BY <2>3, <2>4 DEF Names
  <2>6. cachedImages[k] \in (Scopes \ {scope}) \X Nat
    BY <2>1, <2>3, <2>5
  <2>7. PICK j \in 1 .. Len(rest) : rest[j] = cachedImages[k]
    BY <1>6, <2>6
  <2> QED
    BY <2>2, <2>3, <2>7
<1>10. CacheKept'
  <2>1. MaxCached \in Nat /\ MaxImageBytes \in Nat
    BY ChatHistoryAssumption
  <2>2. Len(rest) \in Nat /\ Len(cachedImages) \in Nat
    BY <1>1, <1>4
  <2>3. cachedBytes' <= MaxImageBytes
    BY <1>1, <1>2, <1>7, <2>1
  <2>4. Len(rest) <= MaxCached
    BY <1>1, <1>4, <2>1, <2>2
  <2> QED
    BY <1>2, <1>8, <1>9, <2>3, <2>4 DEF CacheKept
<1>11. cachedImages' \in Seq(Names) /\ cachedBytes' \in Int /\ historyLoaded' \subseteq Scopes
  BY <1>1, <1>2, <1>4, <1>7
<1> QED
  BY <1>2, <1>3, <1>10, <1>11, OneScope

\* A message or an image arrives.
LEMMA Arrives ==
  ASSUME HistoryIInv, NEW scope \in Scopes, NEW image \in Nat, Arrive(scope, image)
  PROVE  HistoryIInv'
<1> DEFINE id == arrivals + 1
           list == ListOf(scope, id, image)
           k == KeptList(list)
           images == IF image > 0 THEN Append(cachedImages, <<scope, id>>) ELSE cachedImages
           en == [entries EXCEPT ![scope] = k]
           c == [entries |-> en, images |-> images,
                 bytes |-> cachedBytes + image - LostImage(list)]
           r == Evict(c)
<1>1. /\ cachedBytes = TotalOf(entries) /\ Imaged(entries, cachedImages)
      /\ entries \in Transcripts /\ cachedImages \in Seq(Names) /\ cachedBytes \in Int
      /\ historyLoaded \subseteq Scopes /\ arrivals \in Nat /\ saved \in Seq(Names)
      /\ Len(saved) <= Maximum /\ SavedInOrder(saved)
      /\ \A s \in Scopes : \A i \in 1 .. Len(entries[s]) : entries[s][i].id \in 1 .. arrivals
      /\ \A j \in 1 .. Len(saved) : saved[j][2] \in 1 .. arrivals
      /\ \A s \in Scopes : InOrder(entries[s]) /\ Reached(entries[s], saved, s)
  BY DEF HistoryIInv, HistoryTyped, CacheKept
<1>2. arrivals' = id /\ historyLoaded' = historyLoaded
  BY DEF Arrive
<1>3. entries' = r.entries /\ cachedImages' = r.images /\ cachedBytes' = r.bytes
  <2>1. r = Appended(scope, arrivals', image)
    BY <1>2 DEF Appended, ListOf, KeptList, LostImage, FullList
  <2> HIDE DEF r
  <2> QED
    BY <2>1 DEF Arrive
<1>4. saved' = saved \/ saved' = Saved(scope, id)
  BY <1>2 DEF Arrive
<1>5. /\ k \in Seq(Entries) /\ SizeOf(k) = SizeOf(entries[scope]) + image - LostImage(list)
      /\ LostImage(list) \in Nat /\ InOrder(k) /\ Reached(k, saved, scope)
      /\ \E i \in 1 .. Len(k) : k[i].id = id
      /\ \A i \in 1 .. Len(k) :
            /\ k[i].id \in 1 .. id
            /\ \/ k[i] = [id |-> id, image |-> image]
               \/ \E j \in 1 .. Len(entries[scope]) : entries[scope][j] = k[i]
  BY ArrivalFacts
<1>6. id \in Nat /\ <<scope, id>> \in Names /\ id = arrivals + 1
  BY <1>1 DEF Names
<1> HIDE DEF k, list, id
<1>7. en \in Transcripts /\ en[scope] = k /\ \A s \in Scopes : s # scope => en[s] = entries[s]
  BY <1>1, <1>5 DEF Transcripts
<1>8. c.bytes = TotalOf(en) /\ c.bytes \in Int
  <2>1. TotalOf(en) = TotalOf(entries) - SizeOf(entries[scope]) + SizeOf(k)
    BY <1>1, <1>5, TotalChanges
  <2>2. SizeOf(entries[scope]) \in Nat /\ TotalOf(entries) \in Nat
    BY <1>1, SizesAreNaturals
  <2> HIDE DEF en
  <2> QED
    BY <1>1, <1>5, <2>1, <2>2
<1> HIDE DEF en
<1>9. images \in Seq(Names) /\ \A j \in 1 .. Len(cachedImages) :
         j \in 1 .. Len(images) /\ images[j] = cachedImages[j]
  BY <1>1, <1>6
<1>10. image > 0 => \E j \in 1 .. Len(images) : images[j] = <<scope, id>>
  <2> SUFFICES ASSUME image > 0 PROVE \E j \in 1 .. Len(images) : images[j] = <<scope, id>>
    OBVIOUS
  <2>1. images = Append(cachedImages, <<scope, id>>)
    OBVIOUS
  <2> HIDE DEF images
  <2>2. Len(images) = Len(cachedImages) + 1 /\ images[Len(cachedImages) + 1] = <<scope, id>>
        /\ Len(cachedImages) \in Nat
    BY <1>1, <1>6, <2>1
  <2>3. Len(cachedImages) + 1 \in 1 .. Len(images)
    BY <2>2
  <2> QED
    BY <2>2, <2>3
<1> HIDE DEF images
<1>11. Imaged(en, images)
  <2> SUFFICES ASSUME NEW s \in Scopes, NEW i \in 1 .. Len(en[s]), en[s][i].image > 0
        PROVE  \E j \in 1 .. Len(images) : images[j] = <<s, en[s][i].id>>
    BY DEF Imaged
  <2>1. ASSUME NEW j \in 1 .. Len(entries[s]), entries[s][j] = en[s][i]
        PROVE  \E q \in 1 .. Len(images) : images[q] = <<s, en[s][i].id>>
    <3>1. PICK q \in 1 .. Len(cachedImages) : cachedImages[q] = <<s, entries[s][j].id>>
      BY <1>1, <2>1 DEF Imaged
    <3> QED
      BY <1>9, <2>1, <3>1
  <2>2. CASE s = scope
    <3>1. CASE k[i] = [id |-> id, image |-> image]
      <4>1. en[s][i].id = id /\ en[s][i].image = image
        BY <1>7, <2>2, <3>1
      <4> QED
        BY <1>10, <2>2, <4>1
    <3>2. CASE \E j \in 1 .. Len(entries[scope]) : entries[scope][j] = k[i]
      BY <1>7, <2>1, <2>2, <3>2
    <3> QED
      BY <1>5, <1>7, <2>2, <3>1, <3>2
  <2>3. CASE s # scope
    <3>1. en[s] = entries[s]
      BY <1>7, <2>3
    <3> QED
      BY <2>1, <3>1
  <2> QED
    BY <2>2, <2>3
<1>12. c \in Caches /\ c.entries = en
  <2>1. c \in [entries: Transcripts, images: Seq(Names), bytes: Int]
    BY <1>7, <1>8, <1>9
  <2>2. c.entries = en /\ c.images = images
    OBVIOUS
  <2> HIDE DEF c
  <2> QED
    BY <1>8, <1>11, <2>1, <2>2 DEF Caches
<1> HIDE DEF c
<1>13. r \in Caches /\ SameIds(en, r.entries) /\ ~ OverBounds(r)
  BY <1>12, EvictKeeps
<1> HIDE DEF r
<1>14. /\ entries' \in Transcripts /\ cachedImages' \in Seq(Names) /\ cachedBytes' \in Int
       /\ cachedBytes' = TotalOf(entries') /\ Imaged(entries', cachedImages')
       /\ SameIds(en, entries')
  BY <1>3, <1>13 DEF Caches
<1>15. cachedBytes' <= MaxImageBytes /\ Len(cachedImages') <= MaxCached
  <2>1. MaxCached \in Nat /\ MaxImageBytes \in Nat
    BY ChatHistoryAssumption
  <2>2. Len(cachedImages') \in Nat
    BY <1>14
  <2> QED
    BY <1>3, <1>13, <1>14, <2>1, <2>2 DEF OverBounds
<1>16. CacheKept'
  BY <1>14, <1>15 DEF CacheKept
<1>17. /\ saved' \in Seq(Names) /\ Len(saved') <= Maximum /\ SavedInOrder(saved')
       /\ \A j \in 1 .. Len(saved') :
             saved'[j] = <<scope, id>> \/ \E q \in 1 .. Len(saved) : saved[q] = saved'[j]
  <2>1. CASE saved' = saved
    BY <1>1, <2>1
  <2>2. CASE saved' = Saved(scope, id)
    BY <1>6, <2>2, SavedFacts
  <2> QED
    BY <1>4, <2>1, <2>2
<1>18. \A j \in 1 .. Len(saved') : saved'[j][2] \in 1 .. id
  <2> SUFFICES ASSUME NEW j \in 1 .. Len(saved') PROVE saved'[j][2] \in 1 .. id
    OBVIOUS
  <2>1. CASE saved'[j] = <<scope, id>>
    BY <1>1, <1>6, <2>1
  <2>2. CASE \E q \in 1 .. Len(saved) : saved[q] = saved'[j]
    BY <1>1, <1>6, <2>2
  <2> QED
    BY <1>17, <2>1, <2>2
<1>19. ASSUME NEW s \in Scopes
       PROVE  /\ en[s] \in Seq(Entries) /\ InOrder(en[s]) /\ Reached(en[s], saved', s)
              /\ \A i \in 1 .. Len(en[s]) : en[s][i].id \in 1 .. id
  <2>1. en[s] \in Seq(Entries) /\ InOrder(en[s]) /\ Reached(en[s], saved, s)
    <3>1. CASE s = scope
      BY <1>5, <1>7, <3>1
    <3>2. CASE s # scope
      BY <1>1, <1>7, <3>2 DEF Transcripts
    <3> QED
      BY <3>1, <3>2
  <2> DEFINE m == <<scope, id>>
  <2>2. m[1] = scope /\ m[2] = id
    OBVIOUS
  <2>3. m[1] = s => \E i \in 1 .. Len(en[s]) : en[s][i].id = m[2]
    BY <1>5, <1>7, <2>2
  <2>4. \A j \in 1 .. Len(saved') :
           saved'[j] = m \/ \E q \in 1 .. Len(saved) : saved[q] = saved'[j]
    BY <1>17
  <2> HIDE DEF m
  <2>5. Reached(en[s], saved', s)
    BY <2>1, <2>3, <2>4, MoreSaved
  <2>6. \A i \in 1 .. Len(en[s]) : en[s][i].id \in 1 .. id
    <3>1. CASE s = scope
      BY <1>5, <1>7, <3>1
    <3>2. CASE s # scope
      <4>1. en[s] = entries[s] /\ \A i \in 1 .. Len(en[s]) : en[s][i].id \in 1 .. arrivals
        BY <1>1, <1>7, <3>2
      <4> QED
        BY <1>1, <1>6, <4>1
    <3> QED
      BY <3>1, <3>2
  <2> QED
    BY <2>1, <2>5, <2>6
<1>20. ASSUME NEW s \in Scopes
       PROVE  /\ InOrder(entries'[s]) /\ Reached(entries'[s], saved', s)
              /\ \A i \in 1 .. Len(entries'[s]) : entries'[s][i].id \in 1 .. id
  <2>1. /\ entries'[s] \in Seq(Entries) /\ Len(entries'[s]) = Len(en[s])
        /\ \A i \in 1 .. Len(en[s]) : entries'[s][i].id = en[s][i].id
    BY <1>14 DEF Transcripts, SameIds
  <2>2. InOrder(entries'[s]) /\ Reached(entries'[s], saved', s)
    BY <1>19, <2>1, SameOrder
  <2> QED
    BY <1>19, <2>1, <2>2
<1>21. HistoryTyped'
  BY <1>1, <1>2, <1>6, <1>14, <1>17, <1>18, <1>20 DEF HistoryTyped
<1> QED
  BY <1>16, <1>17, <1>20, <1>21 DEF HistoryIInv

\* With no messages there is nothing to keep.
LEMMA NothingShown ==
  ASSUME NEW en, en = [s \in Scopes |-> <<>>]
  PROVE  /\ en \in Transcripts /\ TotalOf(en) = 0 /\ Imaged(en, <<>>)
         /\ \A s \in Scopes : en[s] = <<>>
<1>1. en \in Transcripts /\ \A s \in Scopes : en[s] = <<>>
  BY DEF Transcripts
<1>2. \A s \in Scopes : Sizes(en)[s] = 0
  BY <1>1, SizesAreNaturals, SizeOfNothing
<1>3. TotalOf(en) = 0
  BY <1>2, ChatHistoryAssumption, SumOfZeros DEF TotalOf
<1>4. Imaged(en, <<>>)
  BY <1>1 DEF Imaged
<1> QED
  BY <1>1, <1>3, <1>4

\* The transcripts begin with the invariant.
LEMMA HistoryStarts == HistoryInit => HistoryIInv
<1> SUFFICES ASSUME HistoryInit PROVE HistoryIInv
  OBVIOUS
<1>1. /\ entries = [s \in Scopes |-> <<>>] /\ cachedImages = <<>> /\ cachedBytes = 0
      /\ saved = <<>> /\ historyLoaded = {} /\ arrivals = 0
  BY DEF HistoryInit
<1>2. /\ entries \in Transcripts /\ TotalOf(entries) = 0 /\ Imaged(entries, <<>>)
      /\ \A s \in Scopes : entries[s] = <<>>
  BY <1>1, NothingShown
<1>3. MaxCached \in Nat /\ MaxImageBytes \in Nat /\ Maximum \in Nat
  BY ChatHistoryAssumption
<1>4. <<>> \in Seq(Names) /\ Len(<<>>) = 0 /\ 1 .. 0 = {}
  OBVIOUS
<1>5. HistoryTyped
  BY <1>1, <1>2, <1>3, <1>4 DEF HistoryTyped
<1>6. CacheKept
  BY <1>1, <1>2, <1>3, <1>4 DEF CacheKept
<1>7. \A s \in Scopes : InOrder(entries[s]) /\ Reached(entries[s], saved, s)
  BY <1>2, <1>4 DEF InOrder, Reached
<1>8. SavedInOrder(saved)
  BY <1>1, <1>4 DEF SavedInOrder
<1> QED
  BY <1>5, <1>6, <1>7, <1>8 DEF HistoryIInv

\* The application is started again.
LEMMA Restarts ==
  ASSUME HistoryIInv, AppRestarts
  PROVE  HistoryIInv'
<1>1. /\ entries' = [s \in Scopes |-> <<>>] /\ cachedImages' = <<>> /\ cachedBytes' = 0
      /\ historyLoaded' = {} /\ saved' = saved /\ arrivals' = arrivals
  BY DEF AppRestarts
<1>2. /\ entries' \in Transcripts /\ TotalOf(entries') = 0 /\ Imaged(entries', <<>>)
      /\ \A s \in Scopes : entries'[s] = <<>>
  BY <1>1, NothingShown
<1>3. MaxCached \in Nat /\ MaxImageBytes \in Nat
  BY ChatHistoryAssumption
<1>4. <<>> \in Seq(Names) /\ Len(<<>>) = 0 /\ 1 .. 0 = {}
  OBVIOUS
<1>5. /\ arrivals \in Nat /\ saved \in Seq(Names) /\ Len(saved) <= Maximum
      /\ \A k \in 1 .. Len(saved) : saved[k][2] \in 1 .. arrivals
      /\ SavedInOrder(saved)
  BY DEF HistoryIInv, HistoryTyped
<1>6. HistoryTyped'
  BY <1>1, <1>2, <1>4, <1>5 DEF HistoryTyped
<1>7. CacheKept'
  BY <1>1, <1>2, <1>3, <1>4 DEF CacheKept
<1>8. \A s \in Scopes : InOrder(entries'[s]) /\ Reached(entries'[s], saved', s)
  BY <1>2, <1>4 DEF InOrder, Reached
<1> QED
  BY <1>1, <1>5, <1>6, <1>7, <1>8 DEF HistoryIInv

\* Every step of the transcripts keeps it.
LEMMA HistoryStep ==
  ASSUME HistoryIInv, [HistoryNext]_historyVars
  PROVE  HistoryIInv'
<1>1. ASSUME NEW scope \in Scopes, NEW image \in {0} \cup ImageSizes, Arrive(scope, image)
      PROVE  HistoryIInv'
  <2>1. image \in Nat
    BY DEF ImageSizes
  <2> QED
    BY <1>1, <2>1, Arrives
<1>2. ASSUME NEW scope \in Scopes, Select(scope) PROVE HistoryIInv'
  <2>1. historyLoaded' \subseteq Scopes
    BY <1>2 DEF Select, HistoryIInv, HistoryTyped
  <2>2. /\ entries' = [entries EXCEPT ![scope] = LoadHistory(scope)]
        /\ UNCHANGED <<cachedImages, cachedBytes, saved, arrivals>>
    BY <1>2 DEF Select
  <2> QED
    BY <2>1, <2>2, Loads
<1>3. ASSUME NEW scope \in Scopes, Clear(scope) PROVE HistoryIInv'
  BY <1>3, Clears
<1>4. ASSUME UNCHANGED <<entries, cachedImages, cachedBytes, saved, arrivals>>,
             historyLoaded' \subseteq Scopes
      PROVE  HistoryIInv'
  BY <1>4 DEF HistoryIInv, HistoryTyped, CacheKept
<1>5. ASSUME NEW scope \in Scopes, NEW enabled \in BOOLEAN, OpenHistory(scope, enabled)
      PROVE  HistoryIInv'
  <2>1. historyLoaded' \subseteq Scopes /\ UNCHANGED <<cachedImages, cachedBytes, saved, arrivals>>
    BY <1>5 DEF OpenHistory
  <2>2. CASE enabled
    <3>1. entries' = [entries EXCEPT ![scope] = LoadHistory(scope)]
      BY <1>5, <2>2 DEF OpenHistory
    <3> QED
      BY <2>1, <3>1, Loads
  <2>3. CASE ~ enabled
    <3>1. entries' = entries
      BY <1>5, <2>3 DEF OpenHistory
    <3> QED
      BY <1>4, <2>1, <3>1
  <2> QED
    BY <2>2, <2>3
<1>6. CASE AppRestarts
  BY <1>6, Restarts
<1>7. CASE UNCHANGED historyVars
  <2>1. historyLoaded' \subseteq Scopes
    BY <1>7 DEF historyVars, HistoryIInv, HistoryTyped
  <2> QED
    BY <1>4, <1>7, <2>1 DEF historyVars
<1> QED
  BY <1>1, <1>2, <1>3, <1>5, <1>6, <1>7 DEF HistoryNext

\* What the invariant says of the properties.
LEMMA HistoryShows ==
  ASSUME HistoryIInv
  PROVE  HistoryTypeOK /\ TranscriptInOrder /\ CacheIsCounted
<1>1. /\ entries \in Transcripts /\ cachedBytes = TotalOf(entries)
      /\ Imaged(entries, cachedImages) /\ cachedBytes <= MaxImageBytes
      /\ Len(cachedImages) <= MaxCached /\ cachedBytes \in Int
      /\ Len(saved) <= Maximum /\ historyLoaded \subseteq Scopes
      /\ \A s \in Scopes : \A i \in 1 .. Len(entries[s]) : entries[s][i].id \in 1 .. arrivals
      /\ \A s \in Scopes : InOrder(entries[s])
  BY DEF HistoryIInv, HistoryTyped, CacheKept
<1>2. \A s \in Scopes : DOMAIN entries[s] = 1 .. Len(entries[s])
  BY <1>1 DEF Transcripts
<1>3. HistoryTypeOK
  BY <1>1, <1>2 DEF HistoryTypeOK
<1>4. TranscriptInOrder
  BY <1>1, <1>2 DEF TranscriptInOrder, InOrder
<1>5. FoldSet(LAMBDA s, sum : SizeOf(entries[s]) + sum, 0, Scopes) = TotalOf(entries)
  BY <1>1, TotalIsFold
<1>6. \A s \in Scopes : \A i \in DOMAIN entries[s] :
         entries[s][i].image > 0 => Contains(cachedImages, <<s, entries[s][i].id>>)
  BY <1>1, <1>2 DEF Imaged, Contains
<1>7. CacheIsCounted
  BY <1>1, <1>5, <1>6 DEF CacheIsCounted
<1> QED
  BY <1>3, <1>4, <1>7

\* The transcripts.
THEOREM HistoryThm == HistorySpec => [](HistoryTypeOK /\ TranscriptInOrder /\ CacheIsCounted)
<1>1. HistoryInit => HistoryIInv
  BY HistoryStarts
<1>2. HistoryIInv /\ [HistoryNext]_historyVars => HistoryIInv'
  BY HistoryStep
<1>3. HistoryIInv => HistoryTypeOK /\ TranscriptInOrder /\ CacheIsCounted
  BY HistoryShows
<1> QED
  BY <1>1, <1>2, <1>3, PTL DEF HistorySpec

\* The panel's memory of both kinds is counted, in order and bounded, as far as
\* images and messages arrive, time out, are cleared, evicted and loaded again.
THEOREM PanelMemoryThm == ImageSpec /\ HistorySpec => []PanelMemory
<1>1. ImageSpec => [](ImageTypeOK /\ BufferIsCounted)
  BY ImagesThm
<1>2. HistorySpec => [](HistoryTypeOK /\ TranscriptInOrder /\ CacheIsCounted)
  BY HistoryThm
<1>3. (ImageTypeOK /\ BufferIsCounted) /\ (HistoryTypeOK /\ TranscriptInOrder /\ CacheIsCounted)
        => PanelMemory
  BY DEF PanelMemory
<1> QED
  BY <1>1, <1>2, <1>3, PTL

-----------------------------------------------------------------------------
(***************************************************************************)
(* Media in the picker and in the chat.                                    *)
(***************************************************************************)
\* Finitely many callbacks of different ids can be put in the order of their ids.
DistinctIds(S) == \A c, d \in S : c.id = d.id => c = d
Sorted(s, S) ==
    /\ s \in [1 .. Cardinality(S) -> S]
    /\ \A i, j \in 1 .. Cardinality(S) : i < j => s[i].id < s[j].id

\* Numbers that are not repeated can be put in order.
LEMMA SortExists ==
  ASSUME NEW S, IsFiniteSet(S), \A c \in S : c.id \in Nat, DistinctIds(S)
  PROVE  /\ Cardinality(S) \in Nat /\ Sorted(OldestFirst(S), S)
         /\ \A c \in S : \E i \in 1 .. Cardinality(S) : OldestFirst(S)[i] = c
<1> DEFINE n == Cardinality(S)
           upto(c) == {d \in S : d.id <= c.id}
           rank == [c \in S |-> Cardinality(upto(c))]
<1>1. n \in Nat
  BY FS_CardinalityType
<1>2. \A c \in S : c.id \in Nat
  OBVIOUS
<1>3. ASSUME NEW c \in S PROVE rank[c] \in 1 .. n
  <2>1. upto(c) \in SUBSET S /\ c \in upto(c)
    BY <1>2
  <2> HIDE DEF upto
  <2>2. IsFiniteSet(upto(c)) /\ Cardinality(upto(c)) <= n
    BY <2>1, FS_Subset
  <2>3. Cardinality(upto(c)) \in Nat /\ Cardinality(upto(c)) # 0
    <3>1. Cardinality(upto(c)) \in Nat
      BY <2>2, FS_CardinalityType
    <3>2. upto(c) # {}
      BY <2>1
    <3>3. Cardinality(upto(c)) # 0
      BY <2>2, <3>2, FS_EmptySet
    <3> QED
      BY <3>1, <3>3
  <2>4. rank[c] = Cardinality(upto(c))
    OBVIOUS
  <2> QED
    BY <1>1, <2>2, <2>3, <2>4
<1>4. ASSUME NEW c \in S, NEW d \in S, c.id < d.id PROVE rank[c] < rank[d]
  <2>1. upto(c) \in SUBSET upto(d) /\ d \in upto(d) /\ d \notin upto(c) /\ upto(d) \in SUBSET S
    BY <1>2, <1>4
  <2>2. rank[c] = Cardinality(upto(c)) /\ rank[d] = Cardinality(upto(d))
    OBVIOUS
  <2>3. rank[c] \in 1 .. n /\ rank[d] \in 1 .. n
    BY <1>3
  <2> HIDE DEF upto, rank
  <2>4. IsFiniteSet(upto(d))
    BY <2>1, FS_Subset
  <2>5. Cardinality(upto(c)) <= Cardinality(upto(d))
    BY <2>1, <2>4, FS_Subset
  <2>6. Cardinality(upto(d)) # Cardinality(upto(c))
    <3>1. upto(d) # upto(c)
      BY <2>1
    <3> QED
      BY <2>1, <2>4, <3>1, FS_Subset
  <2> QED
    BY <1>1, <2>2, <2>3, <2>5, <2>6
<1>5. \A c, d \in S : rank[c] = rank[d] => c = d
  <2> SUFFICES ASSUME NEW c \in S, NEW d \in S, rank[c] = rank[d] PROVE c = d
    OBVIOUS
  <2>1. ~ (c.id < d.id) /\ ~ (d.id < c.id)
    <3>1. rank[c] \in 1 .. n /\ rank[d] \in 1 .. n
      BY <1>3
    <3> HIDE DEF rank
    <3> QED
      BY <1>1, <1>4, <3>1
  <2>2. c.id = d.id
    BY <1>2, <2>1
  <2> QED
    BY <2>2 DEF DistinctIds
<1>6. rank \in Injection(S, 1 .. n)
  <2>1. rank \in [S -> 1 .. n]
    BY <1>3
  <2>2. IsInjective(rank)
    <3>1. DOMAIN rank = S
      OBVIOUS
    <3> HIDE DEF rank
    <3> QED
      BY <1>5, <3>1 DEF IsInjective
  <2> HIDE DEF rank, n
  <2> QED
    BY <2>1, <2>2 DEF Injection
<1>7. IsFiniteSet(1 .. n) /\ Cardinality(1 .. n) = n
  <2>1. IsFiniteSet(1 .. n) /\ Cardinality(1 .. n) = IF 1 > n THEN 0 ELSE n - 1 + 1
    BY <1>1, FS_Interval
  <2> HIDE DEF n
  <2> QED
    BY <1>1, <2>1
<1> HIDE DEF rank
<1>8. \A k \in 1 .. n : \E c \in S : rank[c] = k
  <2>1. rank \in Surjection(S, 1 .. n)
    BY <1>6, <1>7, FS_Injection
  <2> QED
    BY <2>1 DEF Surjection
<1> DEFINE s == [k \in 1 .. n |-> CHOOSE c \in S : rank[c] = k]
<1>9. \A k \in 1 .. n : s[k] \in S /\ rank[s[k]] = k
  BY <1>8
<1>10. s \in [1 .. n -> S]
  BY <1>8
<1> HIDE DEF s, n
<1>11. \A i, j \in 1 .. n : i < j => s[i].id < s[j].id
  <2> SUFFICES ASSUME NEW i \in 1 .. n, NEW j \in 1 .. n, i < j PROVE s[i].id < s[j].id
    OBVIOUS
  <2>1. s[i] \in S /\ s[j] \in S /\ rank[s[i]] = i /\ rank[s[j]] = j
    BY <1>9
  <2>2. ~ (s[j].id < s[i].id)
    <3>1. ASSUME s[j].id < s[i].id PROVE FALSE
      <4>1. rank[s[j]] < rank[s[i]]
        BY <1>4, <2>1, <3>1
      <4> QED
        BY <2>1, <4>1
    <3> QED
      BY <3>1
  <2>3. s[i].id # s[j].id
    <3>1. ASSUME s[i].id = s[j].id PROVE FALSE
      <4>1. s[i] = s[j]
        BY <2>1, <3>1 DEF DistinctIds
      <4> QED
        BY <2>1, <4>1
    <3> QED
      BY <3>1
  <2> QED
    BY <1>2, <2>1, <2>2, <2>3
<1> DEFINE Ok(t) == \A i, j \in DOMAIN t : i < j => t[i].id < t[j].id
<1>12. Ok(s)
  BY <1>10, <1>11
<1>13. OldestFirst(S) = CHOOSE t \in [1 .. n -> S] : Ok(t)
  BY DEF OldestFirst, n
<1> HIDE DEF Ok
<1>14. OldestFirst(S) \in [1 .. n -> S] /\ Ok(OldestFirst(S))
  BY <1>10, <1>12, <1>13
<1> DEFINE o == OldestFirst(S)
<1>15. o \in [1 .. n -> S] /\ \A i, j \in 1 .. n : i < j => o[i].id < o[j].id
  BY <1>14 DEF Ok
<1> HIDE DEF o
<1>16. o \in Injection(1 .. n, S)
  <2>1. IsInjective(o)
    <3>1. DOMAIN o = 1 .. n
      BY <1>15
    <3>2. ASSUME NEW i \in 1 .. n, NEW j \in 1 .. n, o[i] = o[j] PROVE i = j
      <4>1. o[i].id = o[j].id /\ o[i].id \in Nat
        BY <1>2, <1>15, <3>2
      <4>2. ~ (i < j) /\ ~ (j < i)
        BY <1>15, <4>1
      <4> QED
        BY <1>1, <4>2
    <3> QED
      BY <3>1, <3>2 DEF IsInjective
  <2> QED
    BY <1>15, <2>1 DEF Injection
<1>17. o \in Surjection(1 .. n, S)
  <2>1. Cardinality(1 .. n) = Cardinality(S)
    BY <1>7 DEF n
  <2> QED
    BY <1>16, <2>1, FS_Injection
<1>18. \A c \in S : \E i \in 1 .. n : o[i] = c
  BY <1>17 DEF Surjection
<1>19. Sorted(o, S)
  BY <1>15 DEF Sorted, n
<1> QED
  BY <1>1, <1>18, <1>19 DEF n, o

\* What an embed holds, and what ChatMedia does.
Shows == Urls \cup {NoUrl}
Kinds == Contents \cup {"loading"}
EmbedOf == [url: Shows, shows: Shows, kind: Kinds]
EmbedMaps == UNION {[D -> EmbedOf] : D \in SUBSET Nat}
Chats == [embeds: EmbedMaps, playing: Seq(Nat)]

\* No number comes twice, and no more than MaxPlaying.
Once(seq) == \A i, j \in 1 .. Len(seq) : seq[i] = seq[j] => i = j
Among(id, seq) == \E i \in 1 .. Len(seq) : seq[i] = id
\* Each embed shows its own, and those that move are the ones that play.
ChatOK(chat) ==
    /\ chat \in Chats
    /\ \A id \in DOMAIN chat.embeds :
          /\ chat.embeds[id].shows \in {NoUrl, chat.embeds[id].url}
          /\ chat.embeds[id].kind = "moving" <=> Among(id, chat.playing)
    /\ \A i \in 1 .. Len(chat.playing) : chat.playing[i] \in DOMAIN chat.embeds
    /\ Once(chat.playing) /\ Len(chat.playing) <= MaxPlaying
\* An embed that waits for its media.
Awaits(all, id) == id \in DOMAIN all /\ all[id].kind = "loading"

\* The end of a sequence.
LEMMA EndOf ==
  ASSUME NEW M, NEW seq \in Seq(M), NEW k \in 0 .. Len(seq)
  PROVE  /\ SubSeq(seq, k + 1, Len(seq)) \in Seq(M)
         /\ Len(SubSeq(seq, k + 1, Len(seq))) = Len(seq) - k
         /\ \A i \in 1 .. (Len(seq) - k) : SubSeq(seq, k + 1, Len(seq))[i] = seq[k + i]
<1> DEFINE L == Len(seq)
           r == SubSeq(seq, k + 1, L)
           m == L - k
<1>1. L \in Nat /\ k \in Nat /\ m \in Nat
  OBVIOUS
<1>2. r = [i \in 1 .. (L - (k + 1) + 1) |-> seq[i + (k + 1) - 1]]
  BY <1>1
<1>3. L - (k + 1) + 1 = m
  BY <1>1
<1>4. \A i \in 1 .. m : k + i \in 1 .. L /\ i + (k + 1) - 1 = k + i
  BY <1>1
<1>5. \A i \in 1 .. m : seq[k + i] \in M
  BY <1>4
<1> HIDE DEF r, m
<1>6. r = [i \in 1 .. m |-> seq[i + (k + 1) - 1]]
  BY <1>2, <1>3
<1>7. \A i \in 1 .. m : r[i] = seq[k + i]
  BY <1>4, <1>6
<1>8. r \in [1 .. m -> M]
  BY <1>4, <1>5, <1>6
<1>9. r \in Seq(M) /\ Len(r) = m
  BY <1>1, <1>8
<1> QED
  BY <1>7, <1>9 DEF r, m

\* The maps of embeds are functions.
LEMMA MapTyped ==
  ASSUME NEW all
  PROVE  all \in EmbedMaps <=>
            /\ DOMAIN all \in SUBSET Nat /\ all \in [DOMAIN all -> EmbedOf]
<1>1. ASSUME all \in EmbedMaps
      PROVE  DOMAIN all \in SUBSET Nat /\ all \in [DOMAIN all -> EmbedOf]
  <2>1. PICK D \in SUBSET Nat : all \in [D -> EmbedOf]
    BY <1>1 DEF EmbedMaps
  <2>2. DOMAIN all = D
    BY <2>1
  <2> QED
    BY <2>1, <2>2
<1>2. ASSUME DOMAIN all \in SUBSET Nat, all \in [DOMAIN all -> EmbedOf]
      PROVE  all \in EmbedMaps
  <2> DEFINE D == DOMAIN all
  <2>1. D \in SUBSET Nat /\ all \in [D -> EmbedOf]
    BY <1>2
  <2> HIDE DEF D
  <2> QED
    BY <2>1 DEF EmbedMaps
<1> QED
  BY <1>1, <1>2

\* The pieces of Painted: the embed shows its medium, and joins those that play.
ShownBy(chat, id, url, content) ==
    [chat.embeds EXCEPT ![id].kind = content, ![id].shows = url]
OrderBy(chat, id, content) ==
    IF content = "moving" THEN Append(chat.playing, id) ELSE chat.playing
\* The first of those that play stop when there are too many.
Halt(all, order) ==
    LET spare == Len(order) - MaxPlaying
        stopped == {order[i] : i \in 1..spare} \cap DOMAIN all
    IN  [embeds |-> [e \in DOMAIN all |->
                        IF e \in stopped THEN [all[e] EXCEPT !.kind = "still"] ELSE all[e]],
         playing |-> IF spare > 0 THEN SubSeq(order, spare + 1, Len(order)) ELSE order]

\* Painted, in those pieces.
LEMMA PaintedIs ==
  ASSUME NEW chat, NEW id, NEW url, NEW content
  PROVE  Painted(chat, id, url, content) =
            IF id \notin DOMAIN chat.embeds THEN chat
            ELSE Halt(ShownBy(chat, id, url, content), OrderBy(chat, id, content))
BY DEF Painted, Halt, ShownBy, OrderBy

\* Halting drops the first k of order and stops their embeds.
HaltsAt(h, all, order, k) ==
    /\ Len(order) = k + Len(h.playing)
    /\ \A i \in 1 .. Len(h.playing) : h.playing[i] = order[k + i]
    /\ \A e \in DOMAIN all :
          /\ h.embeds[e].url = all[e].url /\ h.embeds[e].shows = all[e].shows
          /\ h.embeds[e].kind = IF \E i \in 1 .. k : order[i] = e THEN "still" ELSE all[e].kind

\* What Halt leaves.
LEMMA HaltTyped ==
  ASSUME NEW all \in EmbedMaps, NEW order \in Seq(Nat)
  PROVE  /\ Halt(all, order) \in Chats /\ DOMAIN Halt(all, order).embeds = DOMAIN all
         /\ Len(Halt(all, order).playing) <= MaxPlaying
         /\ \E k \in 0 .. Len(order) : HaltsAt(Halt(all, order), all, order, k)
<1> DEFINE spare == Len(order) - MaxPlaying
           stopped == {order[i] : i \in 1..spare} \cap DOMAIN all
           em == [e \in DOMAIN all |->
                        IF e \in stopped THEN [all[e] EXCEPT !.kind = "still"] ELSE all[e]]
           pl == IF spare > 0 THEN SubSeq(order, spare + 1, Len(order)) ELSE order
           k == IF spare > 0 THEN spare ELSE 0
           D == DOMAIN all
<1>1. Halt(all, order) = [embeds |-> em, playing |-> pl]
  BY DEF Halt
<1>2. MaxPlaying \in Nat \ {0} /\ Len(order) \in Nat
  BY MediaAssumption
<1>3. D \in SUBSET Nat /\ \A e \in D : all[e] \in EmbedOf
  BY MapTyped
<1>4. k \in 0 .. Len(order)
  BY <1>2
<1>5. pl \in Seq(Nat) /\ Len(pl) = Len(order) - k /\ \A i \in 1 .. Len(pl) : pl[i] = order[k + i]
  <2>1. CASE spare > 0
    <3>1. pl = SubSeq(order, k + 1, Len(order))
      BY <2>1
    <3> HIDE DEF pl, k
    <3> QED
      BY <1>4, <3>1, EndOf
  <2>2. CASE ~ (spare > 0)
    <3>1. pl = order /\ k = 0
      BY <2>2
    <3> QED
      BY <1>2, <3>1
  <2> QED
    BY <2>1, <2>2
<1>6. Len(pl) <= MaxPlaying
  BY <1>2, <1>5
<1>7. \A e \in D : e \in stopped <=> \E i \in 1 .. k : order[i] = e
  <2>1. CASE spare > 0
    BY <2>1
  <2>2. CASE ~ (spare > 0)
    <3>1. 1 .. spare = {} /\ 1 .. k = {}
      BY <1>2, <2>2
    <3> QED
      BY <3>1
  <2> QED
    BY <2>1, <2>2
<1> HIDE DEF stopped, pl, k
<1>8. ASSUME NEW e \in D
      PROVE  /\ em[e] \in EmbedOf /\ em[e].url = all[e].url /\ em[e].shows = all[e].shows
             /\ em[e].kind = IF e \in stopped THEN "still" ELSE all[e].kind
  <2>1. em[e] = IF e \in stopped THEN [all[e] EXCEPT !.kind = "still"] ELSE all[e]
    OBVIOUS
  <2>2. all[e] \in EmbedOf /\ "still" \in Kinds
    BY <1>3 DEF Kinds, Contents, Pictures
  <2> HIDE DEF em
  <2> QED
    BY <2>1, <2>2 DEF EmbedOf
<1>9. DOMAIN em = D /\ em = [e \in D |-> em[e]]
  OBVIOUS
<1> HIDE DEF em, D
<1>10. em \in [D -> EmbedOf]
  BY <1>8, <1>9
<1>11. em \in EmbedMaps
  BY <1>3, <1>9, <1>10, MapTyped
<1>12. Halt(all, order) \in Chats /\ Halt(all, order).embeds = em /\ Halt(all, order).playing = pl
  BY <1>1, <1>5, <1>11 DEF Chats
<1>13. Len(order) = k + Len(pl)
  BY <1>2, <1>4, <1>5
<1> DEFINE h == Halt(all, order)
<1>14. DOMAIN all = D
  BY DEF D
<1>15. h.embeds = em /\ h.playing = pl /\ h \in Chats
  BY <1>12
<1> HIDE DEF h
<1>16. HaltsAt(h, all, order, k)
  <2>1. Len(order) = k + Len(h.playing)
    BY <1>13, <1>15
  <2>2. \A i \in 1 .. Len(h.playing) : h.playing[i] = order[k + i]
    BY <1>5, <1>15
  <2>3. ASSUME NEW e \in DOMAIN all
        PROVE  /\ h.embeds[e].url = all[e].url /\ h.embeds[e].shows = all[e].shows
               /\ h.embeds[e].kind = IF \E i \in 1 .. k : order[i] = e THEN "still" ELSE all[e].kind
    <3>1. e \in D
      BY <1>14
    <3> QED
      BY <1>7, <1>8, <1>15, <3>1
  <2> QED
    BY <2>1, <2>2, <2>3 DEF HaltsAt
<1>17. Len(h.playing) <= MaxPlaying /\ DOMAIN h.embeds = DOMAIN all
  BY <1>6, <1>9, <1>14, <1>15
<1> QED
  BY <1>4, <1>15, <1>16, <1>17 DEF h

\* ChatOK, before the oldest of those that play are stopped.
Fits(all, order) ==
    /\ \A id \in DOMAIN all :
          /\ all[id].shows \in {NoUrl, all[id].url}
          /\ all[id].kind = "moving" <=> Among(id, order)
    /\ \A i \in 1 .. Len(order) : order[i] \in DOMAIN all
    /\ Once(order)

\* What ChatOK adds to Fits.
LEMMA ChatIs ==
  ASSUME NEW chat
  PROVE  ChatOK(chat) <=> /\ chat \in Chats /\ Fits(chat.embeds, chat.playing)
                          /\ Len(chat.playing) <= MaxPlaying
BY DEF ChatOK, Fits

\* startPlaying stops the first of those that play, and no other.
LEMMA HaltKeeps ==
  ASSUME NEW all \in EmbedMaps, NEW order \in Seq(Nat), Fits(all, order)
  PROVE  /\ ChatOK(Halt(all, order))
         /\ DOMAIN Halt(all, order).embeds = DOMAIN all
         /\ \A e \in DOMAIN all :
               /\ Halt(all, order).embeds[e].url = all[e].url
               /\ all[e].kind = "loading" => Halt(all, order).embeds[e].kind = "loading"
<1> DEFINE h == Halt(all, order)
           L == Len(order)
           M == Len(h.playing)
<1>1. /\ h \in Chats /\ DOMAIN h.embeds = DOMAIN all /\ M <= MaxPlaying
      /\ \E k \in 0 .. L : HaltsAt(h, all, order, k)
  BY HaltTyped
<1> HIDE DEF h
<1>2. PICK k \in 0 .. L : HaltsAt(h, all, order, k)
  BY <1>1
<1>3. /\ L = k + M /\ \A i \in 1 .. M : h.playing[i] = order[k + i]
      /\ \A e \in DOMAIN all :
            /\ h.embeds[e].url = all[e].url /\ h.embeds[e].shows = all[e].shows
            /\ h.embeds[e].kind = IF \E i \in 1 .. k : order[i] = e THEN "still" ELSE all[e].kind
  BY <1>2 DEF HaltsAt
<1>4. /\ \A id \in DOMAIN all :
            /\ all[id].shows \in {NoUrl, all[id].url}
            /\ all[id].kind = "moving" <=> \E i \in 1 .. L : order[i] = id
      /\ \A i \in 1 .. L : order[i] \in DOMAIN all
      /\ \A i, j \in 1 .. L : order[i] = order[j] => i = j
  BY DEF Fits, Once, Among
<1>5. L \in Nat /\ M \in Nat /\ k \in Nat
  <2>1. h.playing \in Seq(Nat)
    BY <1>1 DEF Chats
  <2> QED
    BY <2>1
<1> HIDE DEF L, M
<1>6. \A i \in 1 .. M : k + i \in 1 .. L
  BY <1>3, <1>5
<1>7. \A j \in 1 .. L : j \in 1 .. k \/ (j - k \in 1 .. M /\ k + (j - k) = j)
  BY <1>3, <1>5
<1>8. \A i \in 1 .. k : i \in 1 .. L
  BY <1>3, <1>5
<1>9. \A i \in 1 .. M : h.playing[i] \in DOMAIN h.embeds
  BY <1>1, <1>3, <1>4, <1>6
<1>10. Once(h.playing)
  <2> SUFFICES ASSUME NEW i \in 1 .. M, NEW j \in 1 .. M, h.playing[i] = h.playing[j] PROVE i = j
    BY DEF Once, M
  <2>1. order[k + i] = order[k + j] /\ k + i \in 1 .. L /\ k + j \in 1 .. L
    BY <1>3, <1>6
  <2>2. k + i = k + j
    BY <1>4, <2>1
  <2> QED
    BY <1>5, <2>2
<1>11. ASSUME NEW e \in DOMAIN all
       PROVE  h.embeds[e].kind = "moving" <=> \E i \in 1 .. M : h.playing[i] = e
  <2>1. h.embeds[e].kind = IF \E i \in 1 .. k : order[i] = e THEN "still" ELSE all[e].kind
    BY <1>3
  <2>2. CASE \E i \in 1 .. k : order[i] = e
    <3>1. PICK j \in 1 .. k : order[j] = e
      BY <2>2
    <3>2. ASSUME NEW i \in 1 .. M, h.playing[i] = e PROVE FALSE
      <4>1. order[k + i] = order[j] /\ k + i \in 1 .. L /\ j \in 1 .. L
        BY <1>3, <1>6, <1>8, <3>1, <3>2
      <4>2. k + i = j
        BY <1>4, <4>1
      <4> QED
        BY <1>5, <4>2
    <3> QED
      BY <2>1, <2>2, <3>2
  <2>3. CASE ~ \E i \in 1 .. k : order[i] = e
    <3>1. h.embeds[e].kind = "moving" <=> \E i \in 1 .. L : order[i] = e
      BY <1>4, <2>1, <2>3
    <3>2. ASSUME NEW j \in 1 .. L, order[j] = e PROVE \E i \in 1 .. M : h.playing[i] = e
      <4>1. j - k \in 1 .. M /\ k + (j - k) = j
        BY <1>7, <2>3, <3>2
      <4>2. h.playing[j - k] = order[k + (j - k)]
        BY <1>3, <4>1
      <4> QED
        BY <3>2, <4>1, <4>2
    <3>3. ASSUME NEW i \in 1 .. M, h.playing[i] = e PROVE \E j \in 1 .. L : order[j] = e
      BY <1>3, <1>6, <3>3
    <3> QED
      BY <3>1, <3>2, <3>3
  <2> QED
    BY <2>2, <2>3
<1>12. Fits(h.embeds, h.playing)
  <2>1. ASSUME NEW e \in DOMAIN h.embeds
        PROVE  /\ h.embeds[e].shows \in {NoUrl, h.embeds[e].url}
               /\ h.embeds[e].kind = "moving" <=> Among(e, h.playing)
    <3>1. e \in DOMAIN all
      BY <1>1
    <3>2. h.embeds[e].shows \in {NoUrl, h.embeds[e].url}
      BY <1>3, <1>4, <3>1
    <3>3. h.embeds[e].kind = "moving" <=> Among(e, h.playing)
      BY <1>11, <3>1 DEF Among, M
    <3> QED
      BY <3>2, <3>3
  <2> QED
    BY <1>9, <1>10, <2>1 DEF Fits, M
<1>13. ChatOK(h)
  BY <1>1, <1>12, ChatIs DEF M
<1>14. ASSUME NEW e \in DOMAIN all, all[e].kind = "loading" PROVE h.embeds[e].kind = "loading"
  <2>1. ASSUME NEW i \in 1 .. k, order[i] = e PROVE FALSE
    <3>1. all[e].kind = "moving"
      BY <1>4, <1>8, <2>1
    <3> QED
      BY <1>14, <3>1
  <2> QED
    BY <1>3, <1>14, <2>1
<1> QED
  BY <1>1, <1>3, <1>13, <1>14 DEF h

\* An embed at the end of those that play.
LEMMA OrderTyped ==
  ASSUME NEW chat, chat \in Chats, NEW id \in Nat, NEW content
  PROVE  /\ OrderBy(chat, id, content) \in Seq(Nat)
         /\ content # "moving" => OrderBy(chat, id, content) = chat.playing
         /\ content = "moving" =>
              /\ Len(OrderBy(chat, id, content)) = Len(chat.playing) + 1
              /\ OrderBy(chat, id, content)[Len(chat.playing) + 1] = id
              /\ \A i \in 1 .. Len(chat.playing) :
                    OrderBy(chat, id, content)[i] = chat.playing[i]
<1>1. chat.playing \in Seq(Nat)
  BY DEF Chats
<1> DEFINE s == chat.playing
<1>2. Append(s, id) \in Seq(Nat) /\ Len(Append(s, id)) = Len(s) + 1
      /\ Append(s, id)[Len(s) + 1] = id /\ \A i \in 1 .. Len(s) : Append(s, id)[i] = s[i]
  <2> HIDE DEF s
  <2> QED
    BY <1>1 DEF s
<1> QED
  BY <1>1, <1>2 DEF OrderBy

\* An embed that shows its medium.
LEMMA ShownTyped ==
  ASSUME NEW chat, chat \in Chats, NEW id \in DOMAIN chat.embeds, NEW url \in Shows,
         NEW content \in Contents
  PROVE  /\ ShownBy(chat, id, url, content) \in EmbedMaps
         /\ DOMAIN ShownBy(chat, id, url, content) = DOMAIN chat.embeds
         /\ \A e \in DOMAIN chat.embeds :
              /\ ShownBy(chat, id, url, content)[e].url = chat.embeds[e].url
              /\ e # id => ShownBy(chat, id, url, content)[e] = chat.embeds[e]
         /\ ShownBy(chat, id, url, content)[id].kind = content
         /\ ShownBy(chat, id, url, content)[id].shows = url
<1> DEFINE all == chat.embeds
           D == DOMAIN all
           new == ShownBy(chat, id, url, content)
           one == [all[id] EXCEPT !.kind = content, !.shows = url]
<1>1. all \in EmbedMaps
  BY DEF Chats
<1>2. D \in SUBSET Nat /\ all \in [D -> EmbedOf] /\ id \in D
  BY <1>1, MapTyped
<1>3. all[id] \in EmbedOf /\ content \in Kinds
  BY <1>2 DEF Kinds
<1>4. one \in EmbedOf /\ one.url = all[id].url /\ one.kind = content /\ one.shows = url
  BY <1>3 DEF EmbedOf
<1>5. new = [all EXCEPT ![id] = one]
  BY <1>2 DEF ShownBy
<1> HIDE DEF new, one, all
<1>6. new \in [D -> EmbedOf] /\ DOMAIN new = D
  BY <1>2, <1>4, <1>5
<1>7. new[id] = one /\ \A e \in D : e # id => new[e] = all[e]
  BY <1>2, <1>5
<1>8. new \in EmbedMaps
  BY <1>2, <1>6, MapTyped
<1>9. \A e \in D : new[e].url = all[e].url
  BY <1>4, <1>7
<1> QED
  BY <1>4, <1>6, <1>7, <1>8, <1>9 DEF new, all

\* An embed that waited shows its medium, and the transcript is in order.
LEMMA PaintKeeps ==
  ASSUME NEW chat, ChatOK(chat), NEW id \in Nat, NEW url \in Shows, NEW content \in Contents,
         id \in DOMAIN chat.embeds => Awaits(chat.embeds, id) /\ chat.embeds[id].url = url
  PROVE  /\ ChatOK(Painted(chat, id, url, content))
         /\ DOMAIN Painted(chat, id, url, content).embeds = DOMAIN chat.embeds
         /\ \A e \in DOMAIN chat.embeds :
              /\ Painted(chat, id, url, content).embeds[e].url = chat.embeds[e].url
              /\ e # id /\ chat.embeds[e].kind = "loading"
                   => Painted(chat, id, url, content).embeds[e].kind = "loading"
<1> DEFINE p == Painted(chat, id, url, content)
           all == ShownBy(chat, id, url, content)
           order == OrderBy(chat, id, content)
           L == Len(chat.playing)
<1>1. CASE id \notin DOMAIN chat.embeds
  <2>1. p = chat
    BY <1>1, PaintedIs
  <2> QED
    BY <2>1
<1>2. CASE id \in DOMAIN chat.embeds
  <2>1. p = Halt(all, order)
    BY <1>2, PaintedIs
  <2>2. /\ chat \in Chats /\ chat.embeds[id].kind = "loading" /\ chat.embeds[id].url = url
        /\ \A e \in DOMAIN chat.embeds :
             /\ chat.embeds[e].shows \in {NoUrl, chat.embeds[e].url}
             /\ chat.embeds[e].kind = "moving" <=> \E i \in 1 .. L : chat.playing[i] = e
        /\ \A i \in 1 .. L : chat.playing[i] \in DOMAIN chat.embeds
        /\ \A i, j \in 1 .. L : chat.playing[i] = chat.playing[j] => i = j
    BY <1>2 DEF ChatOK, Awaits, Once, Among
  <2>3. /\ all \in EmbedMaps /\ DOMAIN all = DOMAIN chat.embeds
        /\ \A e \in DOMAIN chat.embeds :
             /\ all[e].url = chat.embeds[e].url /\ (e # id => all[e] = chat.embeds[e])
        /\ all[id].kind = content /\ all[id].shows = url
    BY <1>2, <2>2, ShownTyped
  <2>4. order \in Seq(Nat)
    BY <2>2, OrderTyped
  <2>5. L \in Nat
    <3>1. chat.playing \in Seq(Nat)
      BY <2>2 DEF Chats
    <3> QED
      BY <3>1
  <2>6. content # "moving" => order = chat.playing
    BY <2>2, OrderTyped
  <2>7. content = "moving" => /\ Len(order) = L + 1 /\ order[L + 1] = id
                              /\ \A i \in 1 .. L : order[i] = chat.playing[i]
    BY <2>2, OrderTyped
  <2> HIDE DEF all, order, L, p
  <2>8. \A i \in 1 .. L : chat.playing[i] # id
    BY <1>2, <2>2
  <2>9. Fits(all, order)
    <3>1. CASE content # "moving"
      <4>1. Len(order) = L /\ order = chat.playing
        BY <2>6, <3>1 DEF L
      <4>2. Once(order) /\ \A i \in 1 .. Len(order) : order[i] \in DOMAIN all
        BY <2>2, <2>3, <4>1 DEF Once
      <4>3. ASSUME NEW e \in DOMAIN all
            PROVE  /\ all[e].shows \in {NoUrl, all[e].url}
                   /\ all[e].kind = "moving" <=> Among(e, order)
        <5>1. CASE e = id
          BY <1>2, <2>2, <2>3, <2>8, <3>1, <4>1, <5>1 DEF Among
        <5>2. CASE e # id
          BY <2>2, <2>3, <4>1, <4>3, <5>2 DEF Among
        <5> QED
          BY <5>1, <5>2
      <4> QED
        BY <4>2, <4>3 DEF Fits
    <3>2. CASE content = "moving"
      <4>1. /\ Len(order) = L + 1 /\ order[L + 1] = id
            /\ \A i \in 1 .. L : order[i] = chat.playing[i]
        BY <2>7, <3>2
      <4>2. \A i \in 1 .. (L + 1) : i = L + 1 \/ i \in 1 .. L
        BY <2>5
      <4>3. L + 1 \in 1 .. (L + 1) /\ \A i \in 1 .. L : i \in 1 .. (L + 1)
        BY <2>5
      <4>4. Once(order)
        <5> SUFFICES ASSUME NEW i \in 1 .. (L + 1), NEW j \in 1 .. (L + 1), order[i] = order[j]
                     PROVE  i = j
          BY <4>1 DEF Once
        <5> QED
          BY <2>2, <2>8, <4>1, <4>2
      <4>5. \A i \in 1 .. Len(order) : order[i] \in DOMAIN all
        BY <1>2, <2>2, <2>3, <4>1, <4>2
      <4>6. ASSUME NEW e \in DOMAIN all
            PROVE  /\ all[e].shows \in {NoUrl, all[e].url}
                   /\ all[e].kind = "moving" <=> Among(e, order)
        <5>1. CASE e = id
          <6>1. Among(e, order)
            BY <4>1, <4>3, <5>1 DEF Among
          <6> QED
            BY <1>2, <2>2, <2>3, <3>2, <5>1, <6>1
        <5>2. CASE e # id
          <6>1. Among(e, order) <=> \E i \in 1 .. L : chat.playing[i] = e
            BY <4>1, <4>2, <4>3, <5>2 DEF Among
          <6> QED
            BY <2>2, <2>3, <4>6, <5>2, <6>1
        <5> QED
          BY <5>1, <5>2
      <4> QED
        BY <4>4, <4>5, <4>6 DEF Fits
    <3> QED
      BY <3>1, <3>2
  <2>10. /\ ChatOK(Halt(all, order)) /\ DOMAIN Halt(all, order).embeds = DOMAIN all
         /\ \A e \in DOMAIN all :
               /\ Halt(all, order).embeds[e].url = all[e].url
               /\ all[e].kind = "loading" => Halt(all, order).embeds[e].kind = "loading"
    BY <2>3, <2>4, <2>9, HaltKeeps
  <2>11. /\ ChatOK(p) /\ DOMAIN p.embeds = DOMAIN all
         /\ \A e \in DOMAIN all :
               /\ p.embeds[e].url = all[e].url
               /\ all[e].kind = "loading" => p.embeds[e].kind = "loading"
    BY <2>1, <2>10
  <2> QED
    BY <2>3, <2>11 DEF p
<1> QED
  BY <1>1, <1>2

\* Painted leaves a transcript's media.
LEMMA PaintTyped ==
  ASSUME NEW chat \in Chats, NEW id \in Nat, NEW url \in Shows, NEW content \in Contents
  PROVE  Painted(chat, id, url, content) \in Chats
<1>1. CASE id \notin DOMAIN chat.embeds
  BY <1>1, PaintedIs
<1>2. CASE id \in DOMAIN chat.embeds
  <2>1. ShownBy(chat, id, url, content) \in EmbedMaps
    BY <1>2, ShownTyped
  <2>2. OrderBy(chat, id, content) \in Seq(Nat)
    BY OrderTyped
  <2>3. Halt(ShownBy(chat, id, url, content), OrderBy(chat, id, content)) \in Chats
    BY <2>1, <2>2, HaltTyped
  <2> QED
    BY <1>2, <2>3, PaintedIs
<1> QED
  BY <1>1, <1>2

\* The loop of Called over the transcript's callbacks.
PaintAll(chat, s, content) ==
    FoldLeft(LAMBDA state, c : Painted(state, c.id, c.url, content), chat, s)
\* Its round.
PaintOf(s, n, content) ==
    [p \in (1 .. n) \X Chats |-> Painted(p[2], s[p[1]].id, s[p[1]].url, content)]
\* g holds the transcript after each round.
PaintedBy(g, chat, s, n, content) ==
    /\ g \in [0 .. n -> Chats] /\ PaintAll(chat, s, content) = g[n] /\ g[0] = chat
    /\ \A i \in 1 .. n : g[i] = Painted(g[i - 1], s[i].id, s[i].url, content)

\* The transcript's callbacks run one by one.
LEMMA PaintLoops ==
  ASSUME NEW chat \in Chats, NEW n \in Nat, NEW s, DOMAIN s = 1 .. n, NEW content \in Contents,
         \A i \in 1 .. n : s[i].id \in Nat /\ s[i].url \in Shows
  PROVE  \E g : PaintedBy(g, chat, s, n, content)
<1> DEFINE D == DOMAIN s
           op == PaintOf(s, n, content)
           Folds(f) == f = [T \in SUBSET D |->
              IF T = {} THEN chat
              ELSE Painted(f[T \ {Max(T)}], s[Max(T)].id, s[Max(T)].url, content)]
           chosen == CHOOSE f : Folds(f)
<1>0. D = 1 .. n
  OBVIOUS
<1>1. PaintAll(chat, s, content) = chosen[D]
  BY DEF PaintAll, FoldLeft, MapThenFoldSet
<1>2. \A i \in 1 .. n : \A v \in Chats : op[<<i, v>>] = Painted(v, s[i].id, s[i].url, content)
  BY DEF PaintOf
<1>3. CanLoop(n, Chats, op)
  <2> SUFFICES ASSUME NEW v \in Chats, NEW i \in 1 .. n PROVE op[<<i, v>>] \in Chats
    BY DEF CanLoop
  <2>1. Painted(v, s[i].id, s[i].url, content) \in Chats
    BY PaintTyped
  <2> HIDE DEF op
  <2> QED
    BY <1>2, <2>1
<1> HIDE DEF op
<1>4. PICK h \in [SUBSET (1 .. n) -> Chats] : FoldsLeft(h, n, chat, op)
  BY <1>3, FoldLeftExists
<1>5. Folds(h)
  <2>1. ASSUME NEW T \in SUBSET D, T # {}
        PROVE  op[<<Max(T), h[T \ {Max(T)}]>>]
                = Painted(h[T \ {Max(T)}], s[Max(T)].id, s[Max(T)].url, content)
    <3>1. T \in SUBSET (1 .. n) /\ Max(T) \in 1 .. n
      BY <1>0, <2>1, MaxOfSome
    <3>2. h[T \ {Max(T)}] \in Chats
      BY <3>1
    <3> QED
      BY <1>2, <3>1, <3>2
  <2>2. h = [T \in SUBSET D |-> IF T = {} THEN chat ELSE op[<<Max(T), h[T \ {Max(T)}]>>]]
    BY <1>0, <1>4 DEF FoldsLeft
  <2> QED
    BY <2>1, <2>2
<1> HIDE DEF Folds
<1>6. Folds(chosen)
  BY <1>5
<1> HIDE DEF chosen
<1> DEFINE g == [i \in 0 .. n |-> chosen[1 .. i]]
<1>7. \A i \in 0 .. n : g[i] = chosen[1 .. i]
  OBVIOUS
<1>8. g[0] = chat
  <2>1. 1 .. 0 = {} /\ 0 \in 0 .. n /\ {} \in SUBSET D
    BY <1>0
  <2>2. chosen[{}] = chat
    BY <1>6, <2>1 DEF Folds
  <2> QED
    BY <1>7, <2>1, <2>2
<1>9. ASSUME NEW i \in 1 .. n PROVE g[i] = Painted(g[i - 1], s[i].id, s[i].url, content)
  <2>1. /\ (1 .. i) \in SUBSET (1 .. n) /\ (1 .. i) # {} /\ Max(1 .. i) = i
        /\ (1 .. i) \ {i} = 1 .. (i - 1)
    BY <1>0, PrefixStep
  <2>2. i \in 0 .. n /\ i - 1 \in 0 .. n
    BY <1>0
  <2>3. chosen[1 .. i] = Painted(chosen[(1 .. i) \ {Max(1 .. i)}], s[Max(1 .. i)].id,
                                 s[Max(1 .. i)].url, content)
    BY <1>0, <1>6, <2>1 DEF Folds
  <2> HIDE DEF g
  <2> QED
    BY <1>7, <2>1, <2>2, <2>3
<1>10. g \in [0 .. n -> Chats]
  <2>1. \A i \in 1 .. n : g[i - 1] \in Chats => g[i] \in Chats
    <3> SUFFICES ASSUME NEW i \in 1 .. n, g[i - 1] \in Chats PROVE g[i] \in Chats
      OBVIOUS
    <3>1. s[i].id \in Nat /\ s[i].url \in Shows
      OBVIOUS
    <3> HIDE DEF g
    <3>2. Painted(g[i - 1], s[i].id, s[i].url, content) \in Chats
      BY <3>1, PaintTyped
    <3> QED
      BY <1>9, <3>2
  <2>2. g[0] \in Chats
    BY <1>8
  <2>3. g = [i \in 0 .. n |-> g[i]]
    OBVIOUS
  <2> HIDE DEF g
  <2>4. \A i \in 0 .. n : g[i] \in Chats
    BY <2>1, <2>2, Stays
  <2> QED
    BY <2>3, <2>4
<1>11. PaintAll(chat, s, content) = g[n]
  <2>1. g[n] = chosen[1 .. n]
    BY <1>0
  <2> QED
    BY <1>0, <1>1, <2>1
<1> HIDE DEF g
<1>12. PaintedBy(g, chat, s, n, content)
  BY <1>8, <1>9, <1>10, <1>11 DEF PaintedBy
<1> QED
  BY <1>12

\* What the callbacks of a medium keep: the embeds they do not belong to still wait.
PaintedOver(new, old, S) ==
    /\ ChatOK(new) /\ DOMAIN new.embeds = DOMAIN old.embeds
    /\ \A e \in DOMAIN old.embeds :
         /\ new.embeds[e].url = old.embeds[e].url
         /\ old.embeds[e].kind = "loading" /\ (\A c \in S : c.id # e)
              => new.embeds[e].kind = "loading"

\* After any number of callbacks each embed shows its own.
LEMMA PaintAllKeeps ==
  ASSUME NEW chat, ChatOK(chat), NEW S, IsFiniteSet(S), NEW content \in Contents,
         \A c \in S : /\ c.id \in Nat /\ c.url \in Shows
                      /\ c.id \in DOMAIN chat.embeds
                           => Awaits(chat.embeds, c.id) /\ chat.embeds[c.id].url = c.url,
         DistinctIds(S)
  PROVE  PaintedOver(PaintAll(chat, OldestFirst(S), content), chat, S)
<1> DEFINE s == OldestFirst(S)
           n == Cardinality(S)
<1>1. n \in Nat /\ Sorted(s, S) /\ \A c \in S : \E i \in 1 .. n : s[i] = c
  BY SortExists
<1> HIDE DEF s, n
<1>2. s \in [1 .. n -> S] /\ \A i, j \in 1 .. n : i < j => s[i].id < s[j].id
  BY <1>1 DEF Sorted, n
<1>3. DOMAIN s = 1 .. n /\ \A i \in 1 .. n : s[i] \in S
  BY <1>2
<1>4. \A i \in 1 .. n : s[i].id \in Nat /\ s[i].url \in Shows
  BY <1>3
<1>5. chat \in Chats
  BY DEF ChatOK
<1>6. PICK g : PaintedBy(g, chat, s, n, content)
  BY <1>1, <1>3, <1>4, <1>5, PaintLoops
<1>7. /\ PaintAll(chat, s, content) = g[n] /\ g[0] = chat
      /\ \A i \in 1 .. n : g[i] = Painted(g[i - 1], s[i].id, s[i].url, content)
  BY <1>6 DEF PaintedBy
<1> DEFINE Good(i) ==
             /\ ChatOK(g[i]) /\ DOMAIN g[i].embeds = DOMAIN chat.embeds
             /\ \A e \in DOMAIN chat.embeds :
                  /\ g[i].embeds[e].url = chat.embeds[e].url
                  /\ chat.embeds[e].kind = "loading" /\ (\A j \in 1 .. i : s[j].id # e)
                       => g[i].embeds[e].kind = "loading"
           Bad == {i \in Nat : i <= n /\ ~ Good(i)}
<1>8. Good(0)
  BY <1>7
<1>9. ASSUME NEW i \in 1 .. n, Good(i - 1) PROVE Good(i)
  <2> DEFINE old == g[i - 1]
             c == s[i]
             new == g[i]
  <2>1. new = Painted(old, c.id, c.url, content) /\ c \in S
    BY <1>3, <1>7
  <2>2. /\ ChatOK(old) /\ DOMAIN old.embeds = DOMAIN chat.embeds
        /\ \A e \in DOMAIN chat.embeds :
             /\ old.embeds[e].url = chat.embeds[e].url
             /\ chat.embeds[e].kind = "loading" /\ (\A j \in 1 .. (i - 1) : s[j].id # e)
                  => old.embeds[e].kind = "loading"
    BY <1>9
  <2>3. \A j \in 1 .. (i - 1) : j \in 1 .. n /\ j < i /\ j \in 1 .. i
    BY <1>1
  <2>4. i \in 1 .. i
    OBVIOUS
  <2>5. \A j \in 1 .. (i - 1) : s[j].id # c.id
    <3> SUFFICES ASSUME NEW j \in 1 .. (i - 1), s[j].id = c.id PROVE FALSE
      OBVIOUS
    <3>1. j \in 1 .. n /\ s[j].id < s[i].id
      BY <1>2, <2>3
    <3>2. s[j].id \in Nat /\ s[i].id \in Nat
      BY <1>4, <3>1
    <3> QED
      BY <3>1, <3>2
  <2> HIDE DEF old, new, c, Good
  <2>6. /\ c.id \in Nat /\ c.url \in Shows
        /\ c.id \in DOMAIN chat.embeds
             => Awaits(chat.embeds, c.id) /\ chat.embeds[c.id].url = c.url
    BY <2>1
  <2>7. c.id \in DOMAIN old.embeds => Awaits(old.embeds, c.id) /\ old.embeds[c.id].url = c.url
    BY <2>2, <2>5, <2>6 DEF Awaits
  <2>8. /\ ChatOK(new) /\ DOMAIN new.embeds = DOMAIN old.embeds
        /\ \A e \in DOMAIN old.embeds :
              /\ new.embeds[e].url = old.embeds[e].url
              /\ e # c.id /\ old.embeds[e].kind = "loading" => new.embeds[e].kind = "loading"
    BY <2>1, <2>2, <2>6, <2>7, PaintKeeps
  <2>9. ASSUME NEW e \in DOMAIN chat.embeds, chat.embeds[e].kind = "loading",
               \A j \in 1 .. i : s[j].id # e
        PROVE  new.embeds[e].kind = "loading"
    <3>1. e # c.id
      BY <2>4, <2>9 DEF c
    <3>2. old.embeds[e].kind = "loading"
      BY <2>2, <2>3, <2>9
    <3> QED
      BY <2>2, <2>8, <3>1, <3>2
  <2>10. Good(i)
    BY <2>2, <2>8, <2>9 DEF Good, new
  <2> QED
    BY <2>10
<1> HIDE DEF Good
<1>10. Good(n)
  <2>1. ASSUME Bad # {} PROVE FALSE
    <3>1. PICK i \in Bad : \A j \in Bad : i <= j
      <4>1. Bad \in SUBSET Nat
        OBVIOUS
      <4> HIDE DEF Bad
      <4> QED
        BY <2>1, <4>1, LeastNumber
    <3>2. i # 0
      BY <1>8, <3>1
    <3>3. i \in 1 .. n /\ i - 1 \in Nat /\ i - 1 <= n /\ ~ (i <= i - 1)
      BY <1>1, <3>1, <3>2
    <3>4. Good(i - 1)
      BY <3>1, <3>3
    <3> QED
      BY <1>9, <3>1, <3>3, <3>4
  <2> QED
    BY <1>1, <2>1
<1>11. \A e : (\A c \in S : c.id # e) => \A j \in 1 .. n : s[j].id # e
  BY <1>3
<1>12. /\ ChatOK(g[n]) /\ DOMAIN g[n].embeds = DOMAIN chat.embeds
       /\ \A e \in DOMAIN chat.embeds :
             /\ g[n].embeds[e].url = chat.embeds[e].url
             /\ chat.embeds[e].kind = "loading" /\ (\A c \in S : c.id # e)
                  => g[n].embeds[e].kind = "loading"
  BY <1>10, <1>11 DEF Good
<1>13. PaintedOver(g[n], chat, S)
  BY <1>12 DEF PaintedOver
<1> QED
  BY <1>7, <1>13 DEF s

\* What a tile holds.
Searches == [provider: Providers, query: Queries, page: 0 .. LastPage]
TileOf == [of: Searches, url: Urls, shows: Shows]
TileMaps == UNION {[D -> TileOf] : D \in SUBSET (0 .. LastPage)}
ShowsItsOwn(tile) == tile.shows \in {NoUrl, tile.url}
\* The tiles all are some of the tiles old, and still stand for the same GIFs.
SomeOf(all, old) ==
    /\ DOMAIN all \in SUBSET (DOMAIN old)
    /\ \A p \in DOMAIN all : /\ all[p].of = old[p].of /\ all[p].url = old[p].url
                             /\ ShowsItsOwn(all[p])

\* The maps of tiles are functions.
LEMMA TilesTyped ==
  ASSUME NEW all
  PROVE  all \in TileMaps <=>
            /\ DOMAIN all \in SUBSET (0 .. LastPage) /\ all \in [DOMAIN all -> TileOf]
<1>1. ASSUME all \in TileMaps
      PROVE  DOMAIN all \in SUBSET (0 .. LastPage) /\ all \in [DOMAIN all -> TileOf]
  <2>1. PICK D \in SUBSET (0 .. LastPage) : all \in [D -> TileOf]
    BY <1>1 DEF TileMaps
  <2>2. DOMAIN all = D
    BY <2>1
  <2> QED
    BY <2>1, <2>2
<1>2. ASSUME DOMAIN all \in SUBSET (0 .. LastPage), all \in [DOMAIN all -> TileOf]
      PROVE  all \in TileMaps
  <2> DEFINE D == DOMAIN all
  <2>1. D \in SUBSET (0 .. LastPage) /\ all \in [D -> TileOf]
    BY <1>2
  <2> HIDE DEF D
  <2> QED
    BY <2>1 DEF TileMaps
<1> QED
  BY <1>1, <1>2

\* The callback of a preview that still belongs to the search.
Belongs(c, old) ==
    c.generation = picker.generation /\ c.id \in DOMAIN old => c.url = old[c.id].url

\* A preview that arrives leaves the tiles that stand for the same GIFs.
LEMMA PreviewKeeps ==
  ASSUME NEW old, NEW all \in TileMaps, SomeOf(all, old), NEW c, Belongs(c, old), NEW content
  PROVE  Previewed(all, c, content) \in TileMaps /\ SomeOf(Previewed(all, c, content), old)
<1> DEFINE new == Previewed(all, c, content)
           D == DOMAIN all
<1>1. D \in SUBSET (0 .. LastPage) /\ all \in [D -> TileOf]
  BY TilesTyped
<1>2. /\ D \in SUBSET (DOMAIN old)
      /\ \A p \in D : all[p].of = old[p].of /\ all[p].url = old[p].url /\ ShowsItsOwn(all[p])
  BY DEF SomeOf
<1>3. CASE c.generation # picker.generation \/ c.id \notin D
  <2>1. new = all
    BY <1>3 DEF Previewed
  <2> HIDE DEF new
  <2> QED
    BY <2>1 DEF new
<1>4. CASE ~ (c.generation # picker.generation \/ c.id \notin D) /\ content = "unavailable"
  <2> DEFINE E == D \ {c.id}
             rest == [page \in E |-> all[page]]
  <2>1. new = rest
    BY <1>4 DEF Previewed
  <2>2. DOMAIN rest = E /\ E \in SUBSET (0 .. LastPage) /\ E \in SUBSET (DOMAIN old)
        /\ (\A p \in E : p \in D /\ rest[p] = all[p]) /\ rest = [p \in E |-> rest[p]]
    BY <1>1, <1>2
  <2> HIDE DEF rest, E, new
  <2>3. \A p \in E : rest[p] \in TileOf
    BY <1>1, <2>2
  <2>4. rest \in [E -> TileOf]
    BY <2>2, <2>3
  <2>5. rest \in TileMaps
    BY <2>2, <2>4, TilesTyped
  <2>6. SomeOf(rest, old)
    BY <1>2, <2>2 DEF SomeOf
  <2> QED
    BY <2>1, <2>5, <2>6 DEF new
<1>5. CASE ~ (c.generation # picker.generation \/ c.id \notin D) /\ content # "unavailable"
  <2> DEFINE id == c.id
             one == [all[id] EXCEPT !.shows = c.url]
             rest == [all EXCEPT ![id] = one]
  <2>1. new = rest
    BY <1>1, <1>5 DEF Previewed
  <2>2. id \in D /\ id \in DOMAIN old /\ c.url = old[id].url /\ c.url = all[id].url
    BY <1>2, <1>5 DEF Belongs
  <2>3. all[id] \in TileOf
    BY <1>1, <2>2
  <2>4. all[id].url \in Shows
    BY <2>3 DEF TileOf, Shows
  <2>5. one \in TileOf /\ one.of = all[id].of /\ one.url = all[id].url /\ one.shows = all[id].url
    BY <2>2, <2>3, <2>4 DEF TileOf
  <2> HIDE DEF one, new, id
  <2>6. rest \in [D -> TileOf] /\ DOMAIN rest = D /\ rest[id] = one
        /\ \A p \in D : p # id => rest[p] = all[p]
    BY <1>1, <2>2, <2>5
  <2> HIDE DEF rest
  <2>7. rest \in TileMaps
    BY <1>1, <2>6, TilesTyped
  <2>8. ASSUME NEW p \in D
        PROVE  rest[p].of = old[p].of /\ rest[p].url = old[p].url /\ ShowsItsOwn(rest[p])
    <3>1. CASE p = id
      BY <1>2, <2>5, <2>6, <3>1 DEF ShowsItsOwn
    <3>2. CASE p # id
      BY <1>2, <2>6, <3>2
    <3> QED
      BY <3>1, <3>2
  <2>9. SomeOf(rest, old)
    BY <1>2, <2>6, <2>8 DEF SomeOf
  <2> QED
    BY <2>1, <2>7, <2>9 DEF new
<1> QED
  BY <1>3, <1>4, <1>5

\* The loop of Called over the tiles' callbacks.
PreviewAll(old, S, content) ==
    FoldSet(LAMBDA c, all : Previewed(all, c, content), old, S)

\* After any number of previews the tiles stand for the same GIFs.
LEMMA PreviewAllKeeps ==
  ASSUME NEW old \in TileMaps, SomeOf(old, old), NEW S, IsFiniteSet(S),
         \A c \in S : Belongs(c, old), NEW content
  PROVE  PreviewAll(old, S, content) \in TileMaps /\ SomeOf(PreviewAll(old, S, content), old)
<1> DEFINE V == {all \in TileMaps : SomeOf(all, old)}
           AnyOf(T) == CHOOSE x \in T : TRUE
           pick == [T \in SUBSET S |-> AnyOf(T)]
           step == [p \in (SUBSET S) \X V |-> Previewed(p[2], AnyOf(p[1]), content)]
           Folds(f) == f = [T \in SUBSET S |->
              IF T = {} THEN old ELSE Previewed(f[T \ {AnyOf(T)}], AnyOf(T), content)]
           chosen == CHOOSE f : Folds(f)
<1>0. \A T \in SUBSET S : T # {} => AnyOf(T) \in T
  OBVIOUS
<1>1. PreviewAll(old, S, content) = chosen[S]
  BY DEF PreviewAll, FoldSet, MapThenFoldSet
<1>2. \A T \in SUBSET S : pick[T] = AnyOf(T)
  OBVIOUS
<1>3. \A T \in SUBSET S : \A v \in V : step[<<T, v>>] = Previewed(v, AnyOf(T), content)
  OBVIOUS
<1>4. \A v \in V : \A c \in S : Previewed(v, c, content) \in V
  BY PreviewKeeps
<1>5. old \in V
  OBVIOUS
<1> HIDE DEF pick, step, AnyOf, V
<1>6. CanFold(S, V, pick, step)
  <2>1. \A T \in SUBSET S : T # {} => pick[T] \in T
    BY <1>0, <1>2
  <2>2. ASSUME NEW T \in SUBSET S, NEW v \in V, T # {} PROVE step[<<T, v>>] \in V
    <3>1. AnyOf(T) \in S
      BY <1>0, <2>2
    <3> QED
      BY <1>3, <1>4, <3>1
  <2> QED
    BY <2>1, <2>2 DEF CanFold
<1>7. PICK f \in [SUBSET S -> V] : FoldsBy(f, S, old, pick, step)
  BY <1>5, <1>6, FoldExists
<1>8. \A T \in SUBSET S :
        f[T] = IF T = {} THEN old ELSE Previewed(f[T \ {AnyOf(T)}], AnyOf(T), content)
  <2> SUFFICES ASSUME NEW T \in SUBSET S
        PROVE  f[T] = IF T = {} THEN old ELSE Previewed(f[T \ {AnyOf(T)}], AnyOf(T), content)
    OBVIOUS
  <2>1. f[T \ {AnyOf(T)}] \in V
    OBVIOUS
  <2>2. f[T] = IF T = {} THEN old ELSE step[<<T, f[T \ {pick[T]}]>>]
    BY <1>7 DEF FoldsBy
  <2> QED
    BY <1>2, <1>3, <2>1, <2>2
<1>9. Folds(f)
  <2>1. f = [T \in SUBSET S |-> f[T]]
    OBVIOUS
  <2> QED
    BY <1>8, <2>1
<1> HIDE DEF Folds
<1>10. Folds(chosen)
  BY <1>9
<1> HIDE DEF chosen
<1> DEFINE Bad == {T \in SUBSET S : chosen[T] \notin V}
           sizes == {Cardinality(T) : T \in Bad}
<1>11. \A T \in SUBSET S :
        chosen[T] = IF T = {} THEN old ELSE Previewed(chosen[T \ {AnyOf(T)}], AnyOf(T), content)
  BY <1>10 DEF Folds
<1>12. ASSUME Bad # {} PROVE FALSE
  <2>1. \A T \in SUBSET S : Cardinality(T) \in Nat
    BY FS_Subset, FS_CardinalityType
  <2>2. PICK k \in sizes : \A j \in sizes : k <= j
    <3>1. sizes \in SUBSET Nat /\ sizes # {}
      BY <1>12, <2>1
    <3> HIDE DEF sizes
    <3> QED
      BY <3>1, LeastNumber
  <2>3. PICK T \in Bad : k = Cardinality(T)
    BY <2>2
  <2>4. T \in SUBSET S /\ chosen[T] \notin V /\ T # {}
    BY <1>5, <1>11, <2>3
  <2> DEFINE x == AnyOf(T)
  <2>5. x \in T /\ x \in S
    BY <1>0, <2>4
  <2>6. T \ {x} \in SUBSET S /\ Cardinality(T \ {x}) = Cardinality(T) - 1 /\ Cardinality(T) \in Nat
    BY <2>4, <2>5, OneFewer
  <2>7. T \ {x} \notin Bad
    BY <2>2, <2>3, <2>6
  <2>8. chosen[T \ {x}] \in V
    BY <2>6, <2>7
  <2>9. chosen[T] = Previewed(chosen[T \ {x}], x, content)
    BY <1>11, <2>4
  <2> QED
    BY <1>4, <2>4, <2>5, <2>8, <2>9
<1>13. chosen[S] \in V
  BY <1>12
<1> QED
  BY <1>1, <1>13 DEF V

\* The members of the picker, and the callbacks of the fetcher.
PickerOf == [opened: BOOLEAN, visible: BOOLEAN, typing: BOOLEAN, text: Queries,
             shown: Queries, provider: Providers, page: 0 .. LastPage,
             requested: 0 .. LastPage, hasMore: BOOLEAN, loading: BOOLEAN,
             generation: 0 .. MaxSearches]
TileCalls == [for: {"tile"}, generation: 0 .. MaxSearches, id: 0 .. LastPage, url: Urls]
EmbedCalls == [for: {"embed"}, generation: {0}, id: Nat, url: Urls]
MediaCalls == TileCalls \cup EmbedCalls

\* The types of the media's variables.
MediaTyped ==
    /\ picker \in PickerOf /\ tiles \in TileMaps
    /\ waiters \in [Urls -> SUBSET MediaCalls] /\ due \in SUBSET MediaCalls
    /\ IsFiniteSet(due) /\ \A u \in Urls : IsFiniteSet(waiters[u])
    /\ cached \in SUBSET Urls /\ nextEmbed \in 0 .. MaxEmbeds

\* What the picker p waits for is the answer to its search.
Asks(p, asked) ==
    /\ p.page <= p.requested /\ (p.hasMore => p.page < LastPage)
    /\ asked = IF p.loading THEN {SearchOf(p, p.requested)} ELSE {}
\* A page the picker p has, or had.
Seen(p, page) == page <= p.page /\ (p.loading => page < p.requested)
\* Its tiles are pages of its search.
Answers(p, all) ==
    \A q \in DOMAIN all : all[q].of = SearchOf(p, q) /\ Seen(p, q) /\ ShowsItsOwn(all[q])

\* A callback of a tile is of an earlier search, or of a page shown, whose GIF it
\* fetches; one of an embed finds it waiting for its medium, or gone.
TileCallOK(c, p, all) ==
    /\ c.generation <= p.generation
    /\ c.generation = p.generation =>
         Seen(p, c.id) /\ (c.id \in DOMAIN all => c.url = all[c.id].url)
EmbedCallOK(c, all, next) ==
    c.id < next /\ (c.id \in DOMAIN all => Awaits(all, c.id) /\ all[c.id].url = c.url)
CallOK(c, p, t, e, next) ==
    (c.for = "tile" => TileCallOK(c, p, t)) /\ (c.for = "embed" => EmbedCallOK(c, e, next))
\* The callbacks that wait for a download are of its medium, and those of an
\* embed wait once.
CallsOK(p, t, e, next, w, d) ==
    /\ \A c \in d : CallOK(c, p, t, e, next)
    /\ \A u \in Urls : \A c \in w[u] :
          CallOK(c, p, t, e, next) /\ c.url = u /\ (c.for = "embed" => c \notin d)

\* The transcript's media, in one record.
ChatNow == [embeds |-> embeds, playing |-> playing]

\* The inductive invariant of the media.
MediaIInv ==
    /\ MediaTyped
    /\ Asks(picker, replies)
    /\ Answers(picker, tiles)
    /\ CallsOK(picker, tiles, embeds, nextEmbed, waiters, due)
    /\ ChatOK(ChatNow)
    /\ DOMAIN embeds \in SUBSET (0 .. (nextEmbed - 1))

\* Two callbacks of an embed for the same medium are one.
LEMMA OneCall ==
  ASSUME NEW c \in EmbedCalls, NEW d \in EmbedCalls, c.id = d.id, c.url = d.url
  PROVE  c = d
<1>1. c.for = d.for /\ c.generation = d.generation
  BY DEF EmbedCalls
<1> QED
  BY <1>1 DEF EmbedCalls

\* Which callbacks there are.
LEMMA CallKinds ==
  ASSUME NEW c \in MediaCalls
  PROVE  /\ c.for = "tile" \/ c.for = "embed"
         /\ c.for = "tile" => c \in TileCalls
         /\ c.for = "embed" => c \in EmbedCalls
         /\ c.for = "tile" <=> c.for # "embed"
         /\ c.id \in Nat /\ c.url \in Urls /\ c.url \in Shows /\ c.generation \in Nat
<1>0. LastPage \in Nat /\ MaxSearches \in Nat
  BY MediaAssumption
<1>1. CASE c \in TileCalls
  BY <1>0, <1>1 DEF TileCalls, Shows
<1>2. CASE c \in EmbedCalls
  BY <1>2 DEF EmbedCalls, Shows
<1> QED
  BY <1>1, <1>2 DEF MediaCalls

\* The callbacks of a medium run: some of the tiles are left, and each embed that
\* the callbacks belong to shows its own.
LEMMA CalledKeeps ==
  ASSUME MediaIInv, NEW S \in SUBSET MediaCalls, IsFiniteSet(S), NEW content \in Contents,
         \A c \in S : CallOK(c, picker, tiles, embeds, nextEmbed),
         \A c, d \in S : c.for = "embed" /\ d.for = "embed" /\ c.id = d.id => c = d,
         Called(S, content)
  PROVE  /\ tiles' \in TileMaps /\ SomeOf(tiles', tiles)
         /\ PaintedOver(ChatNow', ChatNow, {c \in S : c.for = "embed"})
         /\ UNCHANGED <<picker, replies, nextEmbed>>
<1> DEFINE ofTiles == {c \in S : c.for = "tile"}
           ofEmbeds == {c \in S : c.for = "embed"}
           chat == PaintAll(ChatNow, OldestFirst(S \ ofTiles), content)
<1>1. /\ tiles' = PreviewAll(tiles, ofTiles, content)
      /\ embeds' = chat.embeds /\ playing' = chat.playing
      /\ UNCHANGED <<picker, replies, nextEmbed>>
  BY DEF Called, PreviewAll, PaintAll, ChatNow
<1>2. \A c \in S : c.for = "tile" <=> c.for # "embed"
  BY CallKinds
<1>3. S \ ofTiles = ofEmbeds
  BY <1>2
<1>4. ofTiles \in SUBSET S /\ ofEmbeds \in SUBSET S
  OBVIOUS
<1>5. IsFiniteSet(ofTiles) /\ IsFiniteSet(ofEmbeds)
  BY <1>4, FS_Subset
<1>6. \A c \in ofTiles : Belongs(c, tiles)
  BY DEF Belongs, CallOK, TileCallOK
<1>7. tiles \in TileMaps /\ SomeOf(tiles, tiles)
  BY DEF MediaIInv, MediaTyped, Answers, SomeOf
<1>8. ChatOK(ChatNow) /\ ChatNow.embeds = embeds
  BY DEF MediaIInv, ChatNow
<1>9. \A c \in ofEmbeds :
        /\ c.id \in Nat /\ c.url \in Shows
        /\ c.id \in DOMAIN embeds => Awaits(embeds, c.id) /\ embeds[c.id].url = c.url
  BY CallKinds DEF CallOK, EmbedCallOK
<1>10. DistinctIds(ofEmbeds)
  BY DEF DistinctIds
<1> HIDE DEF ofTiles, ofEmbeds, chat
<1>11. PreviewAll(tiles, ofTiles, content) \in TileMaps
       /\ SomeOf(PreviewAll(tiles, ofTiles, content), tiles)
  BY <1>5, <1>6, <1>7, PreviewAllKeeps
<1>12. chat = PaintAll(ChatNow, OldestFirst(ofEmbeds), content)
  BY <1>3 DEF chat
<1>13. PaintedOver(chat, ChatNow, ofEmbeds)
  BY <1>5, <1>8, <1>9, <1>10, <1>12, PaintAllKeeps
<1>14. ChatNow' = [embeds |-> chat.embeds, playing |-> chat.playing]
  BY <1>1 DEF ChatNow
<1>15. chat \in [embeds: EmbedMaps, playing: Seq(Nat)]
  BY <1>13 DEF PaintedOver, ChatOK, Chats
<1>16. ChatNow' = chat
  BY <1>14, <1>15
<1> QED
  BY <1>1, <1>11, <1>13, <1>16 DEF ofEmbeds

\* What the callbacks leave of the invariant.
LEMMA CalledInv ==
  ASSUME MediaIInv, NEW S \in SUBSET MediaCalls, IsFiniteSet(S), NEW content \in Contents,
         \A c \in S : CallOK(c, picker, tiles, embeds, nextEmbed),
         \A c, d \in S : c.for = "embed" /\ d.for = "embed" /\ c.id = d.id => c = d,
         Called(S, content)
  PROVE  /\ picker' = picker /\ replies' = replies /\ nextEmbed' = nextEmbed
         /\ tiles' \in TileMaps /\ Answers(picker, tiles')
         /\ ChatOK(ChatNow') /\ DOMAIN embeds' = DOMAIN embeds
         /\ \A c \in MediaCalls :
              /\ CallOK(c, picker, tiles, embeds, nextEmbed)
              /\ c.for = "embed" => \A d \in S : d.for = "embed" => d.id # c.id
              => CallOK(c, picker, tiles', embeds', nextEmbed)
<1>1. /\ tiles' \in TileMaps /\ SomeOf(tiles', tiles)
      /\ PaintedOver(ChatNow', ChatNow, {c \in S : c.for = "embed"})
      /\ UNCHANGED <<picker, replies, nextEmbed>>
  BY CalledKeeps
<1>2. ChatNow.embeds = embeds /\ ChatNow'.embeds = embeds'
  BY DEF ChatNow
<1>3. Answers(picker, tiles)
  BY DEF MediaIInv
<1>4. Answers(picker, tiles')
  BY <1>1, <1>3 DEF Answers, SomeOf
<1>5. /\ ChatOK(ChatNow') /\ DOMAIN embeds' = DOMAIN embeds
      /\ \A e \in DOMAIN embeds :
         /\ embeds'[e].url = embeds[e].url
         /\ embeds[e].kind = "loading" /\ (\A c \in S : c.for = "embed" => c.id # e)
              => embeds'[e].kind = "loading"
  BY <1>1, <1>2 DEF PaintedOver
<1>6. ASSUME NEW c \in MediaCalls, CallOK(c, picker, tiles, embeds, nextEmbed),
             c.for = "embed" => \A d \in S : d.for = "embed" => d.id # c.id
      PROVE  CallOK(c, picker, tiles', embeds', nextEmbed)
  <2>1. ASSUME c.for = "tile" PROVE TileCallOK(c, picker, tiles')
    <3>1. TileCallOK(c, picker, tiles)
      BY <1>6, <2>1 DEF CallOK
    <3>2. c.id \in DOMAIN tiles' => c.id \in DOMAIN tiles /\ tiles'[c.id].url = tiles[c.id].url
      BY <1>1 DEF SomeOf
    <3> QED
      BY <3>1, <3>2 DEF TileCallOK
  <2>2. ASSUME c.for = "embed" PROVE EmbedCallOK(c, embeds', nextEmbed)
    <3>1. EmbedCallOK(c, embeds, nextEmbed)
      BY <1>6, <2>2 DEF CallOK
    <3> QED
      BY <1>5, <1>6, <2>2, <3>1 DEF EmbedCallOK, Awaits
  <2> QED
    BY <2>1, <2>2 DEF CallOK
<1> QED
  BY <1>1, <1>4, <1>5, <1>6

\* The types of what the fetcher holds.
FetcherOK(w, d, held) ==
    /\ w \in [Urls -> SUBSET MediaCalls] /\ d \in SUBSET MediaCalls
    /\ IsFiniteSet(d) /\ (\A u \in Urls : IsFiniteSet(w[u])) /\ held \in SUBSET Urls

\* The types, with those of the fetcher together.
LEMMA TypedIs ==
  MediaTyped <=> /\ picker \in PickerOf /\ tiles \in TileMaps
                 /\ FetcherOK(waiters, due, cached) /\ nextEmbed \in 0 .. MaxEmbeds
BY DEF MediaTyped, FetcherOK

\* The same, of the next state.
LEMMA TypedIsNext ==
  MediaTyped' <=> /\ picker' \in PickerOf /\ tiles' \in TileMaps
                  /\ FetcherOK(waiters', due', cached') /\ nextEmbed' \in 0 .. MaxEmbeds
BY DEF MediaTyped, FetcherOK

\* A fetch adds a callback of the medium it is for.
LEMMA FetchKeeps ==
  ASSUME NEW p, NEW t, NEW e, NEW next, FetcherOK(waiters, due, cached),
         CallsOK(p, t, e, next, waiters, due),
         NEW url \in Urls, NEW callback \in MediaCalls, CallOK(callback, p, t, e, next),
         callback.url = url,
         callback.for = "embed" => callback \notin due /\ \A u \in Urls : callback \notin waiters[u],
         Fetch(url, callback)
  PROVE  FetcherOK(waiters', due', cached') /\ CallsOK(p, t, e, next, waiters', due')
<1>1. CASE url \in cached
  <2>1. due' = due \cup {callback} /\ waiters' = waiters /\ cached' = cached
    BY <1>1 DEF Fetch
  <2>2. IsFiniteSet(due \cup {callback})
    BY FS_AddElement DEF FetcherOK
  <2>3. FetcherOK(waiters', due', cached')
    BY <2>1, <2>2 DEF FetcherOK
  <2>4. CallsOK(p, t, e, next, waiters', due')
    BY <2>1 DEF CallsOK
  <2> QED
    BY <2>3, <2>4
<1>2. CASE url \notin cached
  <2>1. waiters' = [waiters EXCEPT ![url] = @ \cup {callback}] /\ due' = due /\ cached' = cached
    BY <1>2 DEF Fetch
  <2>2. waiters \in [Urls -> SUBSET MediaCalls] /\ IsFiniteSet(waiters[url])
    BY DEF FetcherOK
  <2>3. IsFiniteSet(waiters[url] \cup {callback})
    BY <2>2, FS_AddElement
  <2>4. \A u \in Urls : waiters'[u] = IF u = url THEN waiters[u] \cup {callback} ELSE waiters[u]
    BY <2>1, <2>2
  <2>5. waiters' \in [Urls -> SUBSET MediaCalls]
    BY <2>1, <2>2
  <2>6. \A u \in Urls : IsFiniteSet(waiters'[u])
    BY <2>3, <2>4 DEF FetcherOK
  <2>7. FetcherOK(waiters', due', cached')
    BY <2>1, <2>5, <2>6 DEF FetcherOK
  <2>8. ASSUME NEW u \in Urls, NEW c \in waiters'[u]
        PROVE  CallOK(c, p, t, e, next) /\ c.url = u /\ (c.for = "embed" => c \notin due)
    <3>1. CASE c \in waiters[u]
      BY <3>1 DEF CallsOK
    <3>2. CASE c \notin waiters[u]
      <4>1. c = callback /\ u = url
        BY <2>4, <2>8, <3>2
      <4> QED
        BY <4>1
    <3> QED
      BY <3>1, <3>2
  <2>9. CallsOK(p, t, e, next, waiters', due')
    BY <2>1, <2>8 DEF CallsOK
  <2> QED
    BY <2>7, <2>9
<1> QED
  BY <1>1, <1>2

\* MediaFetcher::finish keeps the invariant.
LEMMA FinishFetchKeeps ==
  ASSUME MediaIInv, NEW url \in Urls, FinishFetch(url)
  PROVE  MediaIInv'
<1> DEFINE S == waiters[url]
<1>1. PICK content \in Contents :
        /\ \/ \E kept \in {{}, cached} : cached' = kept \cup {url}
           \/ content = "unavailable" /\ UNCHANGED cached
        /\ Called(S, content)
  BY DEF FinishFetch
<1>2. waiters' = [waiters EXCEPT ![url] = {}] /\ due' = due
  BY DEF FinishFetch
<1>3. /\ FetcherOK(waiters, due, cached) /\ picker \in PickerOf /\ nextEmbed \in 0 .. MaxEmbeds
      /\ CallsOK(picker, tiles, embeds, nextEmbed, waiters, due) /\ Asks(picker, replies)
      /\ DOMAIN embeds \in SUBSET (0 .. (nextEmbed - 1))
  BY TypedIs DEF MediaIInv
<1>4. S \in SUBSET MediaCalls /\ IsFiniteSet(S) /\ waiters \in [Urls -> SUBSET MediaCalls]
  BY <1>3 DEF FetcherOK
<1>5. \A c \in S : /\ CallOK(c, picker, tiles, embeds, nextEmbed) /\ c.url = url
                   /\ c.for = "embed" => c \notin due
  BY <1>3 DEF CallsOK
<1>6. \A c, d \in S : c.for = "embed" /\ d.for = "embed" /\ c.id = d.id => c = d
  <2> SUFFICES ASSUME NEW c \in S, NEW d \in S, c.for = "embed", d.for = "embed", c.id = d.id
               PROVE  c = d
    OBVIOUS
  <2>1. c \in MediaCalls /\ d \in MediaCalls
    BY <1>4
  <2>2. c \in EmbedCalls /\ d \in EmbedCalls /\ c.url = d.url
    BY <1>5, <2>1, CallKinds
  <2> QED
    BY <2>2, OneCall
<1> HIDE DEF S
<1>7. /\ picker' = picker /\ replies' = replies /\ nextEmbed' = nextEmbed
      /\ tiles' \in TileMaps /\ Answers(picker, tiles')
      /\ ChatOK(ChatNow') /\ DOMAIN embeds' = DOMAIN embeds
      /\ \A c \in MediaCalls :
           /\ CallOK(c, picker, tiles, embeds, nextEmbed)
           /\ c.for = "embed" => \A d \in S : d.for = "embed" => d.id # c.id
           => CallOK(c, picker, tiles', embeds', nextEmbed)
  BY <1>1, <1>4, <1>5, <1>6, CalledInv
<1>8. \A u \in Urls : waiters'[u] = IF u = url THEN {} ELSE waiters[u]
  BY <1>2, <1>4
<1>9. FetcherOK(waiters', due', cached')
  <2>1. cached' \in SUBSET Urls
    BY <1>1, <1>3 DEF FetcherOK
  <2>2. \A u \in Urls : IsFiniteSet(waiters'[u])
    BY <1>3, <1>8, FS_EmptySet DEF FetcherOK
  <2>3. waiters' \in [Urls -> SUBSET MediaCalls]
    BY <1>2, <1>4
  <2> QED
    BY <1>2, <1>3, <2>1, <2>2, <2>3 DEF FetcherOK
<1>10. ASSUME NEW c \in MediaCalls, CallOK(c, picker, tiles, embeds, nextEmbed),
              \/ c \in due \/ c.url # url
       PROVE  CallOK(c, picker, tiles', embeds', nextEmbed)
  <2>1. ASSUME c.for = "embed", c.id \in DOMAIN embeds, NEW d \in S, d.for = "embed", d.id = c.id
        PROVE  FALSE
    <3>1. d \in MediaCalls /\ CallOK(d, picker, tiles, embeds, nextEmbed) /\ d.url = url
          /\ d \notin due
      BY <1>4, <1>5, <2>1
    <3>2. c \in EmbedCalls /\ d \in EmbedCalls
      BY <2>1, <3>1, CallKinds
    <3>3. c.url = embeds[c.id].url /\ d.url = embeds[c.id].url
      BY <1>10, <2>1, <3>1 DEF CallOK, EmbedCallOK
    <3>4. c = d
      BY <2>1, <3>2, <3>3, OneCall
    <3> QED
      BY <1>10, <3>1, <3>4
  <2>2. CASE c.for = "embed" /\ c.id \notin DOMAIN embeds
    BY <1>7, <1>10, <2>2 DEF CallOK, EmbedCallOK
  <2>3. CASE c.for = "embed" => c.id \in DOMAIN embeds
    BY <1>7, <1>10, <2>1, <2>3
  <2> QED
    BY <2>2, <2>3
<1>11. CallsOK(picker, tiles', embeds', nextEmbed, waiters', due')
  <2>1. ASSUME NEW c \in due PROVE CallOK(c, picker, tiles', embeds', nextEmbed)
    <3>1. c \in MediaCalls /\ CallOK(c, picker, tiles, embeds, nextEmbed)
      BY <1>3 DEF FetcherOK, CallsOK
    <3> QED
      BY <1>10, <3>1
  <2>2. ASSUME NEW u \in Urls, NEW c \in waiters'[u]
        PROVE  CallOK(c, picker, tiles', embeds', nextEmbed) /\ c.url = u
               /\ (c.for = "embed" => c \notin due)
    <3>1. u # url /\ c \in waiters[u]
      BY <1>8, <2>2
    <3>2. c \in MediaCalls /\ CallOK(c, picker, tiles, embeds, nextEmbed) /\ c.url = u
          /\ (c.for = "embed" => c \notin due)
      BY <1>3, <1>4, <3>1 DEF CallsOK
    <3>3. c.url # url
      BY <3>1, <3>2
    <3> QED
      BY <1>10, <3>2, <3>3
  <2> QED
    BY <1>2, <2>1, <2>2 DEF CallsOK
<1>12. MediaTyped'
  BY <1>3, <1>7, <1>9, TypedIsNext
<1> QED
  BY <1>3, <1>7, <1>11, <1>12 DEF MediaIInv

\* The timer of MediaFetcher::fetch keeps the invariant.
LEMMA FetchCachedKeeps ==
  ASSUME MediaIInv, FetchCached
  PROVE  MediaIInv'
<1>1. PICK callback \in due, content \in Contents :
        due' = due \ {callback} /\ Called({callback}, content) /\ UNCHANGED <<waiters, cached>>
  BY DEF FetchCached
<1> DEFINE S == {callback}
<1>2. content \in Contents
  BY <1>1
<1>3. /\ FetcherOK(waiters, due, cached) /\ picker \in PickerOf /\ nextEmbed \in 0 .. MaxEmbeds
      /\ CallsOK(picker, tiles, embeds, nextEmbed, waiters, due) /\ Asks(picker, replies)
      /\ DOMAIN embeds \in SUBSET (0 .. (nextEmbed - 1))
  BY TypedIs DEF MediaIInv
<1>4. callback \in MediaCalls /\ CallOK(callback, picker, tiles, embeds, nextEmbed)
  BY <1>1, <1>3 DEF FetcherOK, CallsOK
<1>5. /\ S \in SUBSET MediaCalls /\ IsFiniteSet(S)
      /\ \A c \in S : CallOK(c, picker, tiles, embeds, nextEmbed)
      /\ \A c, d \in S : c.for = "embed" /\ d.for = "embed" /\ c.id = d.id => c = d
      /\ Called(S, content)
  BY <1>1, <1>4, FS_Singleton
<1>6. S = {callback}
  OBVIOUS
<1> HIDE DEF S
<1>7. /\ picker' = picker /\ replies' = replies /\ nextEmbed' = nextEmbed
      /\ tiles' \in TileMaps /\ Answers(picker, tiles')
      /\ ChatOK(ChatNow') /\ DOMAIN embeds' = DOMAIN embeds
      /\ \A c \in MediaCalls :
           /\ CallOK(c, picker, tiles, embeds, nextEmbed)
           /\ c.for = "embed" => \A d \in S : d.for = "embed" => d.id # c.id
           => CallOK(c, picker, tiles', embeds', nextEmbed)
  BY <1>2, <1>5, CalledInv
<1>8. IsFiniteSet(due \ {callback})
  BY <1>3, FS_RemoveElement DEF FetcherOK
<1>9. FetcherOK(waiters', due', cached')
  BY <1>1, <1>3, <1>8 DEF FetcherOK
<1>10. ASSUME NEW c \in MediaCalls, CallOK(c, picker, tiles, embeds, nextEmbed),
              c.for = "embed" => c # callback
       PROVE  CallOK(c, picker, tiles', embeds', nextEmbed)
  <2>1. ASSUME c.for = "embed", c.id \in DOMAIN embeds, callback.for = "embed", callback.id = c.id
        PROVE  FALSE
    <3>1. c \in EmbedCalls /\ callback \in EmbedCalls
      BY <1>4, <2>1, CallKinds
    <3>2. c.url = embeds[c.id].url /\ callback.url = embeds[c.id].url
      BY <1>4, <1>10, <2>1 DEF CallOK, EmbedCallOK
    <3>3. c = callback
      BY <2>1, <3>1, <3>2, OneCall
    <3> QED
      BY <1>10, <2>1, <3>3
  <2>2. CASE c.for = "embed" /\ c.id \notin DOMAIN embeds
    BY <1>7, <1>10, <2>2 DEF CallOK, EmbedCallOK
  <2>3. CASE c.for = "embed" => c.id \in DOMAIN embeds
    BY <1>6, <1>7, <1>10, <2>1, <2>3
  <2> QED
    BY <2>2, <2>3
<1>11. CallsOK(picker, tiles', embeds', nextEmbed, waiters', due')
  <2>1. ASSUME NEW c \in due' PROVE CallOK(c, picker, tiles', embeds', nextEmbed)
    <3>1. c \in MediaCalls /\ CallOK(c, picker, tiles, embeds, nextEmbed) /\ c # callback
      BY <1>1, <1>3, <2>1 DEF FetcherOK, CallsOK
    <3> QED
      BY <1>10, <3>1
  <2>2. ASSUME NEW u \in Urls, NEW c \in waiters[u]
        PROVE  CallOK(c, picker, tiles', embeds', nextEmbed) /\ c.url = u
               /\ (c.for = "embed" => c \notin due')
    <3>1. c \in MediaCalls /\ CallOK(c, picker, tiles, embeds, nextEmbed) /\ c.url = u
          /\ (c.for = "embed" => c \notin due)
      BY <1>3, <2>2 DEF FetcherOK, CallsOK
    <3>2. c.for = "embed" => c # callback /\ c \notin due'
      BY <1>1, <3>1
    <3> QED
      BY <1>10, <3>1, <3>2
  <2> QED
    BY <1>1, <2>1, <2>2 DEF CallsOK
<1>12. MediaTyped'
  BY <1>3, <1>7, <1>9, TypedIsNext
<1> QED
  BY <1>3, <1>7, <1>11, <1>12 DEF MediaIInv

\* A picker that moves on: the callbacks of its tiles find what they found before,
\* or belong to an earlier search.
LEMMA PickerMoves ==
  ASSUME MediaIInv, picker' \in PickerOf, tiles' \in TileMaps, Asks(picker', replies'),
         Answers(picker', tiles'), UNCHANGED <<fetcherVars, chatVars>>,
         \A c \in MediaCalls : TileCallOK(c, picker, tiles) => TileCallOK(c, picker', tiles')
  PROVE  MediaIInv'
<1>1. /\ FetcherOK(waiters, due, cached) /\ nextEmbed \in 0 .. MaxEmbeds
      /\ CallsOK(picker, tiles, embeds, nextEmbed, waiters, due)
      /\ ChatOK(ChatNow) /\ DOMAIN embeds \in SUBSET (0 .. (nextEmbed - 1))
  BY TypedIs DEF MediaIInv
<1>2. waiters' = waiters /\ due' = due /\ cached' = cached /\ embeds' = embeds
      /\ playing' = playing /\ nextEmbed' = nextEmbed
  BY DEF fetcherVars, chatVars
<1>3. ChatNow' = ChatNow
  BY <1>2 DEF ChatNow
<1>4. ASSUME NEW c \in MediaCalls, CallOK(c, picker, tiles, embeds, nextEmbed)
      PROVE  CallOK(c, picker', tiles', embeds, nextEmbed)
  BY <1>4 DEF CallOK
<1>5. CallsOK(picker', tiles', embeds', nextEmbed', waiters', due')
  <2>1. \A c \in due : c \in MediaCalls
    BY <1>1 DEF FetcherOK
  <2>2. \A u \in Urls : \A c \in waiters[u] : c \in MediaCalls
    BY <1>1 DEF FetcherOK
  <2>3. \A c \in due : CallOK(c, picker', tiles', embeds, nextEmbed)
    BY <1>1, <1>4, <2>1 DEF CallsOK
  <2>4. \A u \in Urls : \A c \in waiters[u] :
           /\ CallOK(c, picker', tiles', embeds, nextEmbed) /\ c.url = u
           /\ c.for = "embed" => c \notin due
    BY <1>1, <1>4, <2>2 DEF CallsOK
  <2> QED
    BY <1>2, <2>3, <2>4 DEF CallsOK
<1>6. FetcherOK(waiters', due', cached') /\ nextEmbed' \in 0 .. MaxEmbeds
      /\ DOMAIN embeds' \in SUBSET (0 .. (nextEmbed' - 1))
  BY <1>1, <1>2
<1>7. MediaTyped'
  BY <1>6, TypedIsNext
<1>8. ChatOK(ChatNow')
  BY <1>1, <1>3
<1>9. Asks(picker', replies') /\ Answers(picker', tiles')
  OBVIOUS
<1> QED
  BY <1>5, <1>6, <1>7, <1>8, <1>9 DEF MediaIInv

\* What tells two pickers apart for their searches and callbacks.
Searching(p) == <<p.provider, p.shown, p.page, p.requested, p.hasMore, p.loading, p.generation>>

\* A picker that only shows or hides itself, or whose box is typed in.
LEMMA PickerSame ==
  ASSUME MediaIInv, NEW p \in PickerOf, Searching(p) = Searching(picker), picker' = p, Keep,
         UNCHANGED <<fetcherVars, chatVars>>
  PROVE  MediaIInv'
<1>1. /\ p.provider = picker.provider /\ p.shown = picker.shown /\ p.page = picker.page
      /\ p.requested = picker.requested /\ p.hasMore = picker.hasMore
      /\ p.loading = picker.loading /\ p.generation = picker.generation
  BY DEF Searching
<1>2. tiles' = tiles /\ replies' = replies
  BY DEF Keep
<1>3. tiles \in TileMaps /\ Asks(picker, replies) /\ Answers(picker, tiles)
  BY DEF MediaIInv, MediaTyped
<1>4. \A page : SearchOf(p, page) = SearchOf(picker, page)
  BY <1>1 DEF SearchOf
<1>5. Asks(p, replies)
  BY <1>1, <1>3, <1>4 DEF Asks
<1>6. Answers(p, tiles)
  BY <1>1, <1>3, <1>4 DEF Answers, Seen
<1>7. \A c \in MediaCalls : TileCallOK(c, picker, tiles) => TileCallOK(c, p, tiles)
  BY <1>1 DEF TileCallOK, Seen
<1> QED
  BY <1>2, <1>3, <1>5, <1>6, <1>7, PickerMoves

\* No pages.
LEMMA NoTiles ==
  NoPages \in TileMaps /\ DOMAIN NoPages = {}
<1>1. NoPages \in [{} -> TileOf] /\ DOMAIN NoPages = {}
  BY DEF NoPages
<1>2. {} \in SUBSET (0 .. LastPage)
  OBVIOUS
<1> QED
  BY <1>1, <1>2 DEF TileMaps

\* GifPicker::startSearch keeps the invariant.
LEMMA StartSearchKeeps ==
  ASSUME MediaIInv, NEW p \in PickerOf, p.generation = picker.generation, StartSearch(p),
         UNCHANGED <<fetcherVars, chatVars>>
  PROVE  MediaIInv'
<1> DEFINE fresh == [p EXCEPT !.typing = FALSE, !.generation = @ + 1, !.page = 0,
                              !.requested = 0, !.hasMore = FALSE, !.loading = TRUE,
                              !.shown = p.text]
<1>1. /\ p.generation < MaxSearches /\ picker' = fresh /\ tiles' = NoPages
      /\ Request(fresh, 0)
  BY DEF StartSearch
<1>2. LastPage \in Nat /\ MaxSearches \in Nat
  BY MediaAssumption
<1>3. /\ p.generation \in 0 .. MaxSearches /\ p.generation + 1 \in 0 .. MaxSearches
      /\ 0 \in 0 .. LastPage /\ p.text \in Queries
  BY <1>1, <1>2 DEF PickerOf
<1>4. fresh \in PickerOf
  BY <1>3 DEF PickerOf
<1>5. fresh.page = 0 /\ fresh.requested = 0 /\ fresh.hasMore = FALSE /\ fresh.loading = TRUE
      /\ fresh.generation = p.generation + 1
  BY DEF PickerOf
<1> HIDE DEF fresh
<1>6. replies' = {SearchOf(fresh, 0)}
  BY <1>1 DEF Request, Cancelled
<1>7. Asks(fresh, replies')
  BY <1>5, <1>6 DEF Asks
<1>8. Answers(fresh, NoPages)
  BY NoTiles DEF Answers
<1>9. \A c \in MediaCalls : TileCallOK(c, picker, tiles) => TileCallOK(c, fresh, NoPages)
  <2> SUFFICES ASSUME NEW c \in MediaCalls, TileCallOK(c, picker, tiles)
               PROVE  TileCallOK(c, fresh, NoPages)
    OBVIOUS
  <2>1. c.generation \in Nat /\ c.generation <= p.generation
    BY CallKinds DEF TileCallOK
  <2>2. c.generation <= fresh.generation /\ c.generation # fresh.generation
    BY <1>3, <1>5, <2>1
  <2> QED
    BY <2>2 DEF TileCallOK
<1>10. NoPages \in TileMaps
  BY NoTiles
<1> QED
  BY <1>1, <1>4, <1>7, <1>8, <1>9, <1>10, PickerMoves

\* The next page is asked for: no callback is of it.
LEMMA AsksNext ==
  ASSUME NEW p \in PickerOf, p.hasMore, ~ p.loading, p.page < LastPage
  PROVE  LET asking == [p EXCEPT !.loading = TRUE, !.requested = p.page + 1]
         IN  /\ asking \in PickerOf /\ asking.requested = p.page + 1
             /\ Asks(asking, {SearchOf(asking, asking.requested)})
             /\ \A page : SearchOf(asking, page) = SearchOf(p, page)
             /\ \A page \in Nat : Seen(p, page) => Seen(asking, page)
             /\ asking.generation = p.generation
<1> DEFINE asking == [p EXCEPT !.loading = TRUE, !.requested = p.page + 1]
<1>1. LastPage \in Nat /\ p.page \in 0 .. LastPage
  BY MediaAssumption DEF PickerOf
<1>2. p.page + 1 \in 0 .. LastPage
  BY <1>1
<1>3. asking \in PickerOf
  BY <1>2 DEF PickerOf
<1>4. /\ asking.page = p.page /\ asking.requested = p.page + 1 /\ asking.hasMore = p.hasMore
      /\ asking.loading = TRUE /\ asking.generation = p.generation
      /\ asking.provider = p.provider /\ asking.shown = p.shown
  BY DEF PickerOf
<1> HIDE DEF asking
<1>5. Asks(asking, {SearchOf(asking, asking.requested)})
  BY <1>1, <1>4 DEF Asks
<1>6. \A page : SearchOf(asking, page) = SearchOf(p, page)
  BY <1>4 DEF SearchOf
<1>7. \A page \in Nat : Seen(p, page) => Seen(asking, page)
  BY <1>1, <1>4 DEF Seen
<1> QED
  BY <1>3, <1>4, <1>5, <1>6, <1>7 DEF asking

\* The scroll bar's end keeps the invariant.
LEMMA ScrollDownKeeps ==
  ASSUME MediaIInv, ScrollDown
  PROVE  MediaIInv'
<1> DEFINE asking == [picker EXCEPT !.loading = TRUE, !.requested = picker.page + 1]
<1>1. /\ picker.hasMore /\ ~ picker.loading /\ picker' = asking
      /\ replies' = Cancelled(replies) \cup {SearchOf(asking, asking.requested)}
      /\ UNCHANGED <<tiles, fetcherVars, chatVars>>
  BY DEF ScrollDown, LoadMore, Request
<1>2. picker \in PickerOf /\ tiles \in TileMaps /\ Answers(picker, tiles) /\ picker.page < LastPage
  BY <1>1 DEF MediaIInv, MediaTyped, Asks
<1>3. /\ asking \in PickerOf
      /\ Asks(asking, {SearchOf(asking, asking.requested)})
      /\ \A page : SearchOf(asking, page) = SearchOf(picker, page)
      /\ \A page \in Nat : Seen(picker, page) => Seen(asking, page)
      /\ asking.generation = picker.generation
  BY <1>1, <1>2, AsksNext
<1> HIDE DEF asking
<1>4. replies' = {SearchOf(asking, asking.requested)} /\ tiles' = tiles
      /\ UNCHANGED <<fetcherVars, chatVars>>
  BY <1>1 DEF Cancelled
<1>5. \A q \in DOMAIN tiles : q \in Nat
  BY <1>2, TilesTyped, MediaAssumption
<1>6. Answers(asking, tiles)
  BY <1>2, <1>3, <1>5 DEF Answers
<1>7. \A c \in MediaCalls : TileCallOK(c, picker, tiles) => TileCallOK(c, asking, tiles)
  BY <1>3, CallKinds DEF TileCallOK
<1> QED
  BY <1>1, <1>2, <1>3, <1>4, <1>6, <1>7, PickerMoves

\* GifPicker::showFailure keeps the invariant.
LEMMA ShowFailureKeeps ==
  ASSUME MediaIInv, ShowFailure
  PROVE  MediaIInv'
<1>1. PICK r \in replies :
        /\ replies' = replies \ {r}
        /\ picker' = IF Wanted(r) THEN [picker EXCEPT !.loading = FALSE, !.hasMore = FALSE]
                                  ELSE picker
        /\ UNCHANGED <<tiles, fetcherVars, chatVars>>
  BY DEF ShowFailure
<1>2. picker \in PickerOf /\ tiles \in TileMaps /\ Answers(picker, tiles) /\ Asks(picker, replies)
  BY DEF MediaIInv, MediaTyped
<1>3. picker.loading /\ replies = {SearchOf(picker, picker.requested)}
  BY <1>1, <1>2 DEF Asks
<1>4. Wanted(r)
  BY <1>1, <1>3 DEF Wanted
<1> DEFINE p == [picker EXCEPT !.loading = FALSE, !.hasMore = FALSE]
<1>5. picker' = p /\ replies' = {} /\ tiles' = tiles /\ UNCHANGED <<fetcherVars, chatVars>>
  BY <1>1, <1>3, <1>4
<1>6. p \in PickerOf
  BY <1>2 DEF PickerOf
<1>7. /\ p.page = picker.page /\ p.requested = picker.requested /\ p.hasMore = FALSE
      /\ p.loading = FALSE /\ p.generation = picker.generation
      /\ p.provider = picker.provider /\ p.shown = picker.shown
  BY <1>2 DEF PickerOf
<1> HIDE DEF p
<1>8. Asks(p, {})
  BY <1>2, <1>7 DEF Asks
<1>9. \A page : SearchOf(p, page) = SearchOf(picker, page) /\ (Seen(picker, page) => Seen(p, page))
  BY <1>7 DEF SearchOf, Seen
<1>10. Answers(p, tiles)
  BY <1>2, <1>9 DEF Answers
<1>11. \A c \in MediaCalls : TileCallOK(c, picker, tiles) => TileCallOK(c, p, tiles)
  BY <1>7, <1>9 DEF TileCallOK
<1> QED
  BY <1>2, <1>5, <1>6, <1>8, <1>10, <1>11, PickerMoves

\* GifPicker::popup keeps the invariant.
LEMMA PopupKeeps ==
  ASSUME MediaIInv, Popup
  PROVE  MediaIInv'
<1>1. PICK query \in Queries :
        LET p == [picker EXCEPT !.opened = TRUE, !.visible = TRUE, !.text = query]
        IN  /\ IF \/ ~picker.opened \/ query # picker.text
                  \/ DOMAIN tiles = {} /\ ~picker.loading
               THEN StartSearch(p)
               ELSE picker' = p /\ Keep
            /\ UNCHANGED <<fetcherVars, chatVars>>
  BY DEF Popup
<1> DEFINE p == [picker EXCEPT !.opened = TRUE, !.visible = TRUE, !.text = query]
<1>2. (StartSearch(p) \/ (picker' = p /\ Keep)) /\ UNCHANGED <<fetcherVars, chatVars>>
  BY <1>1
<1>3. picker \in PickerOf
  BY DEF MediaIInv, MediaTyped
<1>4. p \in PickerOf
  BY <1>3 DEF PickerOf
<1>5. Searching(p) = Searching(picker) /\ p.generation = picker.generation
  BY <1>3 DEF PickerOf, Searching
<1> HIDE DEF p
<1>6. CASE StartSearch(p)
  BY <1>2, <1>4, <1>5, <1>6, StartSearchKeeps
<1>7. CASE picker' = p /\ Keep
  BY <1>2, <1>4, <1>5, <1>7, PickerSame
<1> QED
  BY <1>2, <1>6, <1>7

\* The other keys and clicks of the picker keep the invariant.
LEMMA TypeQueryKeeps ==
  ASSUME MediaIInv, TypeQuery
  PROVE  MediaIInv'
<1>1. PICK query \in Queries : picker' = [picker EXCEPT !.text = query, !.typing = TRUE]
  BY DEF TypeQuery
<1> DEFINE p == [picker EXCEPT !.text = query, !.typing = TRUE]
<1>2. Keep /\ UNCHANGED <<fetcherVars, chatVars>>
  BY DEF TypeQuery, Keep
<1>3. picker \in PickerOf
  BY DEF MediaIInv, MediaTyped
<1>4. p \in PickerOf
  BY <1>3 DEF PickerOf
<1>5. Searching(p) = Searching(picker)
  BY <1>3 DEF PickerOf, Searching
<1>6. picker' = p
  BY <1>1
<1> HIDE DEF p
<1> QED
  BY <1>2, <1>4, <1>5, <1>6, PickerSame

\* hideEvent keeps the invariant.
LEMMA HidePickerKeeps ==
  ASSUME MediaIInv, HidePicker
  PROVE  MediaIInv'
<1> DEFINE p == [picker EXCEPT !.visible = FALSE, !.typing = FALSE]
<1>1. picker' = p /\ Keep /\ UNCHANGED <<fetcherVars, chatVars>>
  BY DEF HidePicker, Keep
<1>2. picker \in PickerOf
  BY DEF MediaIInv, MediaTyped
<1>3. p \in PickerOf
  BY <1>2 DEF PickerOf
<1>4. Searching(p) = Searching(picker)
  BY <1>2 DEF PickerOf, Searching
<1> HIDE DEF p
<1> QED
  BY <1>1, <1>3, <1>4, PickerSame

\* The debounce timer, Return and another provider's tab keep the invariant.
LEMMA SearchesKeep ==
  ASSUME MediaIInv, Debounce \/ ReturnPressed \/ SwitchProvider
  PROVE  MediaIInv'
<1>1. picker \in PickerOf
  BY DEF MediaIInv, MediaTyped
<1>2. CASE Debounce \/ ReturnPressed
  <2>1. StartSearch(picker) /\ UNCHANGED <<fetcherVars, chatVars>>
    BY <1>2 DEF Debounce, ReturnPressed
  <2> QED
    BY <1>1, <2>1, StartSearchKeeps
<1>3. CASE SwitchProvider
  <2>1. PICK other \in Providers : StartSearch([picker EXCEPT !.provider = other])
                                   /\ UNCHANGED <<fetcherVars, chatVars>>
    BY <1>3 DEF SwitchProvider
  <2> DEFINE p == [picker EXCEPT !.provider = other]
  <2>2. p \in PickerOf /\ p.generation = picker.generation
    BY <1>1 DEF PickerOf
  <2>3. StartSearch(p) /\ UNCHANGED <<fetcherVars, chatVars>>
    BY <2>1
  <2> HIDE DEF p
  <2> QED
    BY <2>2, <2>3, StartSearchKeeps
<1> QED
  BY <1>2, <1>3

\* The picker q, which waits for asked, has shown the page that the picker waited for.
MovedOn(q, asked) ==
    /\ q \in PickerOf /\ Asks(q, asked) /\ q.generation = picker.generation
    /\ \A page : SearchOf(q, page) = SearchOf(picker, page)
    /\ Seen(q, picker.requested) /\ \A page \in Nat : Seen(picker, page) => Seen(q, page)

\* A page was shown, and the next may be asked for.
LEMMA PageShown ==
  ASSUME MediaIInv, picker.loading, NEW more \in BOOLEAN, NEW short \in BOOLEAN,
         more => picker.requested < LastPage,
         LET r == SearchOf(picker, picker.requested)
             p == [picker EXCEPT !.loading = FALSE, !.page = r.page, !.hasMore = more]
         IN  IF more /\ short THEN LoadMore(p)
             ELSE picker' = p /\ replies' = replies \ {r}
  PROVE  MovedOn(picker', replies')
<1> DEFINE r == SearchOf(picker, picker.requested)
           p == [picker EXCEPT !.loading = FALSE, !.page = picker.requested, !.hasMore = more]
<1>1. picker \in PickerOf /\ Asks(picker, replies)
  BY DEF MediaIInv, MediaTyped
<1>2. replies = {r} /\ r.page = picker.requested /\ picker.page <= picker.requested
  BY <1>1 DEF Asks, SearchOf
<1>3. IF more /\ short THEN LoadMore(p) ELSE picker' = p /\ replies' = replies \ {r}
  BY <1>2
<1>4. p \in PickerOf
  BY <1>1 DEF PickerOf
<1>5. /\ p.page = picker.requested /\ p.requested = picker.requested /\ p.hasMore = more
      /\ p.loading = FALSE /\ p.generation = picker.generation
      /\ p.provider = picker.provider /\ p.shown = picker.shown
  BY <1>1 DEF PickerOf
<1>6. picker.requested \in Nat /\ picker.page \in Nat
  BY <1>1, MediaAssumption DEF PickerOf
<1> HIDE DEF p
<1>7. \A page : SearchOf(p, page) = SearchOf(picker, page)
  BY <1>5 DEF SearchOf
<1>8. Seen(p, picker.requested) /\ \A page \in Nat : Seen(picker, page) => Seen(p, page)
  BY <1>5, <1>6 DEF Seen
<1>9. CASE more /\ short
  <2> DEFINE asking == [p EXCEPT !.loading = TRUE, !.requested = p.page + 1]
  <2>1. p.hasMore /\ ~ p.loading /\ p.page < LastPage
    BY <1>5, <1>9
  <2>2. picker' = asking /\ replies' = Cancelled(replies) \cup {SearchOf(asking, asking.requested)}
    BY <1>3, <1>9, <2>1 DEF LoadMore, Request
  <2>3. /\ asking \in PickerOf
        /\ Asks(asking, {SearchOf(asking, asking.requested)})
        /\ \A page : SearchOf(asking, page) = SearchOf(p, page)
        /\ \A page \in Nat : Seen(p, page) => Seen(asking, page)
        /\ asking.generation = p.generation
    BY <1>4, <2>1, AsksNext
  <2> HIDE DEF asking
  <2>4. replies' = {SearchOf(asking, asking.requested)}
    BY <2>2 DEF Cancelled
  <2> QED
    BY <1>5, <1>6, <1>7, <1>8, <2>2, <2>3, <2>4 DEF MovedOn
<1>10. CASE ~ (more /\ short)
  <2>1. picker' = p /\ replies' = {}
    BY <1>2, <1>3, <1>10
  <2>2. Asks(p, {})
    BY <1>5, <1>6 DEF Asks
  <2> QED
    BY <1>4, <1>5, <1>7, <1>8, <2>1, <2>2 DEF MovedOn
<1> QED
  BY <1>9, <1>10

\* The tiles with one more, of a page nothing was fetched for.
WithTile(all, page, tile) == [q \in DOMAIN all \cup {page} |-> IF q = page THEN tile ELSE all[q]]

\* The GIF of a page joins the tiles.
LEMMA TileJoins ==
  ASSUME MediaIInv, picker.loading, NEW q, NEW asked, MovedOn(q, asked), NEW url \in Urls,
         NEW new, new = WithTile(tiles, picker.requested,
                          [of |-> SearchOf(picker, picker.requested), url |-> url, shows |-> NoUrl])
  PROVE  /\ new \in TileMaps /\ Answers(q, new)
         /\ \A c \in MediaCalls : TileCallOK(c, picker, tiles) => TileCallOK(c, q, new)
         /\ TileCallOK(TileCallback(picker, picker.requested, url), q, new)
         /\ TileCallback(picker, picker.requested, url) \in TileCalls
<1> DEFINE k == picker.requested
           tile == [of |-> SearchOf(picker, k), url |-> url, shows |-> NoUrl]
           D == DOMAIN tiles
<1>1. picker \in PickerOf /\ tiles \in TileMaps /\ Answers(picker, tiles)
  BY DEF MediaIInv, MediaTyped
<1>2. k \in 0 .. LastPage /\ k \in Nat /\ picker.generation \in 0 .. MaxSearches
      /\ picker.generation \in Nat
  BY <1>1, MediaAssumption DEF PickerOf
<1>3. tile \in TileOf /\ ShowsItsOwn(tile)
  BY <1>1, <1>2 DEF PickerOf, TileOf, Searches, SearchOf, Shows, ShowsItsOwn
<1>4. tile.of = SearchOf(picker, k) /\ tile.url = url
  OBVIOUS
<1>5. D \in SUBSET (0 .. LastPage) /\ tiles \in [D -> TileOf]
  BY <1>1, TilesTyped
<1>6. \A i \in D : i \in Nat
  BY <1>5, MediaAssumption
<1>7. \A i \in D : i # k /\ i < k
  BY <1>1, <1>2, <1>6 DEF Answers, Seen
<1> HIDE DEF tile
<1>8. new = [i \in D \cup {k} |-> IF i = k THEN tile ELSE tiles[i]]
  BY DEF WithTile, tile
<1>9. DOMAIN new = D \cup {k} /\ new[k] = tile /\ \A i \in D : new[i] = tiles[i]
  BY <1>7, <1>8
<1>10. new \in TileMaps
  <2>1. D \cup {k} \in SUBSET (0 .. LastPage)
    BY <1>2, <1>5
  <2>2. new \in [D \cup {k} -> TileOf]
    BY <1>3, <1>5, <1>8
  <2> QED
    BY <1>9, <2>1, <2>2, TilesTyped
<1>11. Answers(q, new)
  <2> SUFFICES ASSUME NEW i \in D \cup {k}
               PROVE  new[i].of = SearchOf(q, i) /\ Seen(q, i) /\ ShowsItsOwn(new[i])
    BY <1>9 DEF Answers
  <2>1. CASE i = k
    BY <1>3, <1>4, <1>9, <2>1 DEF MovedOn
  <2>2. CASE i # k
    <3>1. i \in D /\ i \in Nat
      BY <1>6, <2>2
    <3>2. tiles[i].of = SearchOf(picker, i) /\ Seen(picker, i) /\ ShowsItsOwn(tiles[i])
      BY <1>1, <3>1 DEF Answers
    <3> QED
      BY <1>9, <3>1, <3>2 DEF MovedOn
  <2> QED
    BY <2>1, <2>2
<1>12. ASSUME NEW c \in MediaCalls, TileCallOK(c, picker, tiles) PROVE TileCallOK(c, q, new)
  <2>1. c.id \in Nat /\ q.generation = picker.generation
    BY CallKinds DEF MovedOn
  <2>2. c.generation <= q.generation
    BY <1>12, <2>1 DEF TileCallOK
  <2>3. ASSUME c.generation = q.generation
        PROVE  Seen(q, c.id) /\ (c.id \in DOMAIN new => c.url = new[c.id].url)
    <3>1. Seen(picker, c.id) /\ (c.id \in D => c.url = tiles[c.id].url)
      BY <1>12, <2>1, <2>3 DEF TileCallOK
    <3>2. c.id # k
      BY <1>2, <2>1, <3>1 DEF Seen
    <3> QED
      BY <1>9, <2>1, <3>1, <3>2 DEF MovedOn
  <2> QED
    BY <2>2, <2>3 DEF TileCallOK
<1> DEFINE mine == TileCallback(picker, k, url)
<1>13. /\ mine.for = "tile" /\ mine.generation = picker.generation /\ mine.id = k
       /\ mine.url = url /\ mine \in TileCalls
  BY <1>2 DEF TileCallback, TileCalls
<1> HIDE DEF mine
<1>14. TileCallOK(mine, q, new)
  BY <1>2, <1>4, <1>9, <1>13 DEF TileCallOK, MovedOn
<1> QED
  BY <1>10, <1>11, <1>12, <1>13, <1>14 DEF mine

\* The callbacks find the picker that moved on as they found it before.
LEMMA CallsMoveOn ==
  ASSUME NEW p, NEW t, NEW q, NEW new, NEW e, NEW next, NEW w, NEW d, NEW held,
         FetcherOK(w, d, held), CallsOK(p, t, e, next, w, d),
         \A c \in MediaCalls : TileCallOK(c, p, t) => TileCallOK(c, q, new)
  PROVE  CallsOK(q, new, e, next, w, d)
<1>1. \A c \in MediaCalls : CallOK(c, p, t, e, next) => CallOK(c, q, new, e, next)
  BY DEF CallOK
<1>2. (\A c \in d : c \in MediaCalls) /\ \A u \in Urls : \A c \in w[u] : c \in MediaCalls
  BY DEF FetcherOK
<1>3. \A c \in d : CallOK(c, q, new, e, next)
  BY <1>1, <1>2 DEF CallsOK
<1>4. \A u \in Urls : \A c \in w[u] :
        CallOK(c, q, new, e, next) /\ c.url = u /\ (c.for = "embed" => c \notin d)
  BY <1>1, <1>2 DEF CallsOK
<1> QED
  BY <1>3, <1>4 DEF CallsOK

\* GifPicker::showPage keeps the invariant.
LEMMA ShowPageKeeps ==
  ASSUME MediaIInv, ShowPage
  PROVE  MediaIInv'
<1> DEFINE r == SearchOf(picker, picker.requested)
<1>1. /\ picker \in PickerOf /\ tiles \in TileMaps /\ Asks(picker, replies)
      /\ Answers(picker, tiles) /\ FetcherOK(waiters, due, cached)
      /\ CallsOK(picker, tiles, embeds, nextEmbed, waiters, due)
      /\ ChatOK(ChatNow) /\ nextEmbed \in 0 .. MaxEmbeds
      /\ DOMAIN embeds \in SUBSET (0 .. (nextEmbed - 1))
  BY TypedIs DEF MediaIInv
<1>2. replies # {} => picker.loading /\ replies = {r} /\ Wanted(r)
  BY <1>1 DEF Asks, Wanted
<1>3. r.page = picker.requested
  BY DEF SearchOf
<1> HIDE DEF r
<1>3a. PICK a \in replies :
        IF ~Wanted(a)
        THEN /\ replies' = replies \ {a} /\ UNCHANGED <<picker, tiles, fetcherVars, chatVars>>
        ELSE \E more \in BOOLEAN, short \in BOOLEAN, found \in SUBSET Urls :
               /\ more => a.page < LastPage
               /\ Cardinality(found) <= 1
               /\ LET p == [picker EXCEPT !.loading = FALSE, !.page = a.page, !.hasMore = more]
                  IN  IF more /\ short THEN LoadMore(p)
                                       ELSE picker' = p /\ replies' = replies \ {a}
               /\ IF found = {} THEN UNCHANGED <<tiles, waiters, due, cached>>
                  ELSE \E url \in found :
                         /\ tiles' = [page \in DOMAIN tiles \cup {a.page} |->
                                         IF page = a.page THEN [of |-> a, url |-> url, shows |-> NoUrl]
                                                          ELSE tiles[page]]
                         /\ Fetch(url, TileCallback(picker, a.page, url))
               /\ UNCHANGED chatVars
  BY DEF ShowPage
<1>3b. a = r /\ Wanted(a)
  BY <1>2, <1>3a
<1>4. PICK more \in BOOLEAN, short \in BOOLEAN, found \in SUBSET Urls :
        /\ more => r.page < LastPage
        /\ Cardinality(found) <= 1
        /\ LET p == [picker EXCEPT !.loading = FALSE, !.page = r.page, !.hasMore = more]
           IN  IF more /\ short THEN LoadMore(p)
                                ELSE picker' = p /\ replies' = replies \ {r}
        /\ IF found = {} THEN UNCHANGED <<tiles, waiters, due, cached>>
           ELSE \E url \in found :
                  /\ tiles' = [page \in DOMAIN tiles \cup {r.page} |->
                                  IF page = r.page THEN [of |-> r, url |-> url, shows |-> NoUrl]
                                                   ELSE tiles[page]]
                  /\ Fetch(url, TileCallback(picker, r.page, url))
        /\ UNCHANGED chatVars
  BY <1>3a, <1>3b
<1>5. picker.loading
  BY <1>2, <1>3a
<1>6. MovedOn(picker', replies')
  BY <1>3, <1>4, <1>5, PageShown DEF r
<1>7. /\ embeds' = embeds /\ playing' = playing /\ nextEmbed' = nextEmbed
  BY <1>4 DEF chatVars
<1>8. ChatNow' = ChatNow
  BY <1>7 DEF ChatNow
<1>9. picker' \in PickerOf /\ Asks(picker', replies')
  BY <1>6 DEF MovedOn
<1>10. CASE found = {}
  <2>1. tiles' = tiles /\ waiters' = waiters /\ due' = due /\ cached' = cached
    BY <1>4, <1>10
  <2>2. \A q \in DOMAIN tiles : q \in Nat
    BY <1>1, TilesTyped, MediaAssumption
  <2>3. Answers(picker', tiles)
    BY <1>1, <1>6, <2>2 DEF Answers, MovedOn
  <2>4. \A c \in MediaCalls : TileCallOK(c, picker, tiles) => TileCallOK(c, picker', tiles)
    BY <1>6, CallKinds DEF TileCallOK, MovedOn
  <2>5. UNCHANGED <<fetcherVars, chatVars>>
    BY <1>4, <2>1 DEF fetcherVars
  <2> QED
    BY <1>1, <1>9, <2>1, <2>3, <2>4, <2>5, PickerMoves
<1>11. CASE found # {}
  <2>1. PICK url \in Urls :
          /\ tiles' = [page \in DOMAIN tiles \cup {r.page} |->
                          IF page = r.page THEN [of |-> r, url |-> url, shows |-> NoUrl]
                                           ELSE tiles[page]]
          /\ Fetch(url, TileCallback(picker, r.page, url))
    BY <1>4, <1>11
  <2> DEFINE mine == TileCallback(picker, picker.requested, url)
  <2>2. tiles' = WithTile(tiles, picker.requested,
                    [of |-> SearchOf(picker, picker.requested), url |-> url, shows |-> NoUrl])
    BY <1>3, <2>1 DEF WithTile, r
  <2>3. /\ tiles' \in TileMaps /\ Answers(picker', tiles')
        /\ \A c \in MediaCalls : TileCallOK(c, picker, tiles) => TileCallOK(c, picker', tiles')
        /\ TileCallOK(mine, picker', tiles') /\ mine \in TileCalls
    BY <1>5, <1>6, <2>2, TileJoins
  <2>4. mine.for = "tile" /\ mine.url = url
    BY DEF TileCallback
  <2>5. Fetch(url, mine)
    BY <1>3, <2>1
  <2> HIDE DEF mine
  <2>6. CallsOK(picker', tiles', embeds, nextEmbed, waiters, due)
    BY <1>1, <2>3, CallsMoveOn
  <2>7. mine \in MediaCalls /\ CallOK(mine, picker', tiles', embeds, nextEmbed)
    BY <2>3, <2>4 DEF MediaCalls, CallOK
  <2>8. /\ FetcherOK(waiters', due', cached')
        /\ CallsOK(picker', tiles', embeds, nextEmbed, waiters', due')
    BY <1>1, <2>4, <2>5, <2>6, <2>7, FetchKeeps
  <2>9. MediaTyped'
    BY <1>1, <1>7, <1>9, <2>3, <2>8, TypedIsNext
  <2> QED
    BY <1>1, <1>7, <1>8, <1>9, <2>3, <2>8, <2>9 DEF MediaIInv
<1> QED
  BY <1>10, <1>11

\* An embed joins the transcript, waiting for its medium.
LEMMA InsertKeeps ==
  ASSUME MediaIInv, nextEmbed < MaxEmbeds, NEW url \in Shows, NEW new,
         new = Inserted(url, NoUrl, "loading")
  PROVE  /\ ChatOK([embeds |-> new, playing |-> playing])
         /\ DOMAIN new = DOMAIN embeds \cup {nextEmbed}
         /\ DOMAIN new \in SUBSET (0 .. ((nextEmbed + 1) - 1))
         /\ new[nextEmbed].url = url /\ new[nextEmbed].kind = "loading"
         /\ \A e \in DOMAIN embeds : new[e] = embeds[e] /\ e # nextEmbed
         /\ nextEmbed \in Nat /\ nextEmbed + 1 \in 0 .. MaxEmbeds
<1> DEFINE D == DOMAIN embeds
           one == [url |-> url, shows |-> NoUrl, kind |-> "loading"]
           chat == [embeds |-> new, playing |-> playing]
<1>1. /\ ChatOK(ChatNow) /\ D \in SUBSET (0 .. (nextEmbed - 1)) /\ nextEmbed \in 0 .. MaxEmbeds
  BY TypedIs DEF MediaIInv
<1>2. nextEmbed \in Nat /\ nextEmbed + 1 \in 0 .. MaxEmbeds
  BY <1>1, MediaAssumption
<1>3. ChatNow.embeds = embeds /\ ChatNow.playing = playing
  BY DEF ChatNow
<1>4. embeds \in EmbedMaps /\ playing \in Seq(Nat)
  BY <1>1, <1>3 DEF ChatOK, Chats
<1>5. D \in SUBSET Nat /\ embeds \in [D -> EmbedOf]
  BY <1>4, MapTyped
<1>6. one \in EmbedOf /\ one.url = url /\ one.shows = NoUrl /\ one.kind = "loading"
  BY DEF EmbedOf, Shows, Kinds
<1>7. \A e \in D : e # nextEmbed
  BY <1>1, <1>2
<1> HIDE DEF one
<1>8. new = [id \in D \cup {nextEmbed} |-> IF id = nextEmbed THEN one ELSE embeds[id]]
  BY DEF Inserted, one
<1>9. DOMAIN new = D \cup {nextEmbed} /\ new[nextEmbed] = one /\ \A e \in D : new[e] = embeds[e]
  BY <1>7, <1>8
<1>10. new \in [D \cup {nextEmbed} -> EmbedOf] /\ D \cup {nextEmbed} \in SUBSET Nat
  BY <1>2, <1>5, <1>6, <1>8
<1>11. new \in EmbedMaps
  BY <1>9, <1>10, MapTyped
<1>12. D \cup {nextEmbed} \in SUBSET (0 .. ((nextEmbed + 1) - 1))
  BY <1>1, <1>2
<1>13. chat.embeds = new /\ chat.playing = playing /\ chat \in Chats
  BY <1>4, <1>11 DEF Chats
<1>14. /\ \A id \in D : /\ embeds[id].shows \in {NoUrl, embeds[id].url}
                        /\ embeds[id].kind = "moving" <=> Among(id, playing)
       /\ \A i \in 1 .. Len(playing) : playing[i] \in D
       /\ Once(playing) /\ Len(playing) <= MaxPlaying
  BY <1>1, <1>3 DEF ChatOK
<1> HIDE DEF chat
<1>15. ASSUME NEW id \in D \cup {nextEmbed}
       PROVE  /\ new[id].shows \in {NoUrl, new[id].url}
              /\ new[id].kind = "moving" <=> Among(id, playing)
  <2>1. CASE id = nextEmbed
    <3>1. ~ Among(id, playing)
      BY <1>7, <1>14, <2>1 DEF Among
    <3> QED
      BY <1>6, <1>9, <2>1, <3>1
  <2>2. CASE id # nextEmbed
    BY <1>9, <1>14, <2>2
  <2> QED
    BY <2>1, <2>2
<1>16. \A i \in 1 .. Len(playing) : playing[i] \in DOMAIN new
  BY <1>9, <1>14
<1>17. ChatOK(chat)
  BY <1>9, <1>13, <1>14, <1>15, <1>16 DEF ChatOK
<1> QED
  BY <1>2, <1>6, <1>7, <1>9, <1>12, <1>17 DEF chat

\* The callbacks of the embeds there were find them as before.
LEMMA CallsStay ==
  ASSUME NEW p, NEW t, NEW e, NEW next \in Nat, NEW w, NEW d, NEW held, NEW new,
         NEW later \in Nat, next <= later,
         FetcherOK(w, d, held), CallsOK(p, t, e, next, w, d),
         \A id \in DOMAIN new : id < next => id \in DOMAIN e /\ new[id].url = e[id].url
                                    /\ (e[id].kind = "loading" => new[id].kind = "loading")
  PROVE  CallsOK(p, t, new, later, w, d)
<1>1. ASSUME NEW c \in MediaCalls, EmbedCallOK(c, e, next) PROVE EmbedCallOK(c, new, later)
  <2>1. c.id \in Nat /\ c.id < next /\ (c.id \in DOMAIN e => Awaits(e, c.id) /\ e[c.id].url = c.url)
    BY <1>1, CallKinds DEF EmbedCallOK
  <2> QED
    BY <2>1 DEF EmbedCallOK, Awaits
<1>2. \A c \in MediaCalls : CallOK(c, p, t, e, next) => CallOK(c, p, t, new, later)
  BY <1>1 DEF CallOK
<1>3. (\A c \in d : c \in MediaCalls) /\ \A u \in Urls : \A c \in w[u] : c \in MediaCalls
  BY DEF FetcherOK
<1>4. \A c \in d : CallOK(c, p, t, new, later)
  BY <1>2, <1>3 DEF CallsOK
<1>5. \A u \in Urls : \A c \in w[u] :
        CallOK(c, p, t, new, later) /\ c.url = u /\ (c.for = "embed" => c \notin d)
  BY <1>2, <1>3 DEF CallsOK
<1> QED
  BY <1>4, <1>5 DEF CallsOK

\* ChatMedia::appendRemote keeps the invariant.
LEMMA AppendRemoteKeeps ==
  ASSUME MediaIInv, AppendRemote
  PROVE  MediaIInv'
<1>1. PICK url \in Urls : /\ embeds' = Inserted(url, NoUrl, "loading")
                          /\ Fetch(url, EmbedCallback(nextEmbed, url))
  BY DEF AppendRemote
<1>2. /\ nextEmbed < MaxEmbeds /\ nextEmbed' = nextEmbed + 1 /\ picker' = picker
      /\ tiles' = tiles /\ replies' = replies /\ playing' = playing
  BY DEF AppendRemote
<1>3. /\ picker \in PickerOf /\ tiles \in TileMaps /\ Asks(picker, replies)
      /\ Answers(picker, tiles) /\ FetcherOK(waiters, due, cached)
      /\ CallsOK(picker, tiles, embeds, nextEmbed, waiters, due)
  BY TypedIs DEF MediaIInv
<1>4. url \in Shows
  BY DEF Shows
<1>5. /\ ChatOK([embeds |-> embeds', playing |-> playing])
      /\ DOMAIN embeds' = DOMAIN embeds \cup {nextEmbed}
      /\ DOMAIN embeds' \in SUBSET (0 .. ((nextEmbed + 1) - 1))
      /\ embeds'[nextEmbed].url = url /\ embeds'[nextEmbed].kind = "loading"
      /\ \A e \in DOMAIN embeds : embeds'[e] = embeds[e] /\ e # nextEmbed
      /\ nextEmbed \in Nat /\ nextEmbed + 1 \in 0 .. MaxEmbeds
  <2> DEFINE new == Inserted(url, NoUrl, "loading")
  <2>1. embeds' = new
    BY <1>1
  <2> HIDE DEF new
  <2>2. /\ ChatOK([embeds |-> new, playing |-> playing])
        /\ DOMAIN new = DOMAIN embeds \cup {nextEmbed}
        /\ DOMAIN new \in SUBSET (0 .. ((nextEmbed + 1) - 1))
        /\ new[nextEmbed].url = url /\ new[nextEmbed].kind = "loading"
        /\ \A e \in DOMAIN embeds : new[e] = embeds[e] /\ e # nextEmbed
        /\ nextEmbed \in Nat /\ nextEmbed + 1 \in 0 .. MaxEmbeds
    BY <1>2, <1>4, InsertKeeps DEF new
  <2> QED
    BY <2>1, <2>2
<1>6. ChatNow' = [embeds |-> embeds', playing |-> playing]
  BY <1>2 DEF ChatNow
<1> DEFINE later == nextEmbed + 1
           mine == EmbedCallback(nextEmbed, url)
<1>7. later \in Nat /\ nextEmbed <= later /\ nextEmbed < later
  BY <1>5
<1> HIDE DEF later
<1>8. CallsOK(picker, tiles, embeds', later, waiters, due)
  BY <1>3, <1>5, <1>7, CallsStay
<1>9. /\ mine.for = "embed" /\ mine.generation = 0 /\ mine.id = nextEmbed /\ mine.url = url
      /\ mine \in EmbedCalls /\ Fetch(url, mine)
  BY <1>1, <1>5 DEF EmbedCallback, EmbedCalls
<1> HIDE DEF mine
<1>10. mine \in MediaCalls /\ CallOK(mine, picker, tiles, embeds', later)
  BY <1>5, <1>7, <1>9 DEF MediaCalls, CallOK, EmbedCallOK, Awaits
<1>11. mine \notin due /\ \A u \in Urls : mine \notin waiters[u]
  <2>1. ~ EmbedCallOK(mine, embeds, nextEmbed)
    BY <1>5, <1>9 DEF EmbedCallOK
  <2>2. ~ CallOK(mine, picker, tiles, embeds, nextEmbed)
    BY <1>9, <2>1 DEF CallOK
  <2> QED
    BY <1>3, <2>2 DEF CallsOK
<1>12. /\ FetcherOK(waiters', due', cached')
       /\ CallsOK(picker, tiles, embeds', later, waiters', due')
  BY <1>3, <1>8, <1>9, <1>10, <1>11, FetchKeeps
<1>13. nextEmbed' = later
  BY <1>2 DEF later
<1>14. MediaTyped'
  BY <1>2, <1>3, <1>5, <1>12, TypedIsNext
<1> QED
  BY <1>2, <1>3, <1>5, <1>6, <1>12, <1>13, <1>14 DEF MediaIInv

\* ChatMedia::appendImage keeps the invariant.
LEMMA AppendImageKeeps ==
  ASSUME MediaIInv, AppendImage
  PROVE  MediaIInv'
<1> DEFINE new == Inserted(NoUrl, NoUrl, "loading")
           old == [embeds |-> new, playing |-> playing]
<1>1. PICK content \in Pictures :
        LET chat == Painted(old, nextEmbed, NoUrl, content)
        IN  embeds' = chat.embeds /\ playing' = chat.playing
  BY DEF AppendImage
<1>2. /\ nextEmbed < MaxEmbeds /\ nextEmbed' = nextEmbed + 1
      /\ picker' = picker /\ tiles' = tiles /\ replies' = replies
      /\ waiters' = waiters /\ due' = due /\ cached' = cached
  BY DEF AppendImage, fetcherVars
<1>3. /\ picker \in PickerOf /\ tiles \in TileMaps /\ Asks(picker, replies)
      /\ Answers(picker, tiles) /\ FetcherOK(waiters, due, cached)
      /\ CallsOK(picker, tiles, embeds, nextEmbed, waiters, due)
      /\ DOMAIN embeds \in SUBSET (0 .. (nextEmbed - 1))
  BY TypedIs DEF MediaIInv
<1>4. NoUrl \in Shows /\ content \in Contents
  BY DEF Shows, Contents
<1> DEFINE chat == Painted(old, nextEmbed, NoUrl, content)
<1>5. embeds' = chat.embeds /\ playing' = chat.playing
  BY <1>1
<1>6. old.embeds = new
  OBVIOUS
<1> HIDE DEF new, chat
<1>7. /\ ChatOK(old) /\ DOMAIN new = DOMAIN embeds \cup {nextEmbed}
      /\ DOMAIN new \in SUBSET (0 .. ((nextEmbed + 1) - 1))
      /\ new[nextEmbed].url = NoUrl /\ new[nextEmbed].kind = "loading"
      /\ \A e \in DOMAIN embeds : new[e] = embeds[e] /\ e # nextEmbed
      /\ nextEmbed \in Nat /\ nextEmbed + 1 \in 0 .. MaxEmbeds
  BY <1>2, <1>4, InsertKeeps DEF new
<1> HIDE DEF old
<1>8. /\ ChatOK(chat) /\ DOMAIN chat.embeds = DOMAIN new
      /\ \A e \in DOMAIN new :
           /\ chat.embeds[e].url = new[e].url
           /\ e # nextEmbed /\ new[e].kind = "loading" => chat.embeds[e].kind = "loading"
  <2>1. nextEmbed \in DOMAIN old.embeds =>
          Awaits(old.embeds, nextEmbed) /\ old.embeds[nextEmbed].url = NoUrl
    BY <1>6, <1>7 DEF Awaits
  <2> QED
    BY <1>4, <1>6, <1>7, <2>1, PaintKeeps DEF chat
<1>9. ChatNow' = chat
  <2>1. ChatNow' = [embeds |-> chat.embeds, playing |-> chat.playing]
    BY <1>5 DEF ChatNow
  <2>2. chat \in [embeds: EmbedMaps, playing: Seq(Nat)]
    BY <1>8 DEF ChatOK, Chats
  <2> QED
    BY <2>1, <2>2
<1> DEFINE later == nextEmbed + 1
<1>10. later \in Nat /\ nextEmbed <= later
  BY <1>7
<1> HIDE DEF later
<1>11. \A id \in DOMAIN embeds' : id < nextEmbed =>
          id \in DOMAIN embeds /\ embeds'[id].url = embeds[id].url
          /\ (embeds[id].kind = "loading" => embeds'[id].kind = "loading")
  BY <1>5, <1>7, <1>8
<1>12. CallsOK(picker, tiles, embeds', later, waiters, due)
  BY <1>3, <1>7, <1>10, <1>11, CallsStay
<1>13. nextEmbed' = later
  BY <1>2 DEF later
<1>14. DOMAIN embeds' \in SUBSET (0 .. (nextEmbed' - 1))
  BY <1>2, <1>5, <1>7, <1>8
<1>15. MediaTyped'
  BY <1>2, <1>3, <1>7, TypedIsNext
<1> QED
  BY <1>2, <1>3, <1>8, <1>9, <1>12, <1>13, <1>14, <1>15 DEF MediaIInv

\* No embeds.
LEMMA NoEmbeds ==
  ChatOK([embeds |-> NoPages, playing |-> <<>>]) /\ DOMAIN NoPages = {}
<1> DEFINE chat == [embeds |-> NoPages, playing |-> <<>>]
<1>1. NoPages \in [{} -> EmbedOf] /\ DOMAIN NoPages = {}
  BY DEF NoPages
<1>2. NoPages \in EmbedMaps
  <2>1. {} \in SUBSET Nat
    OBVIOUS
  <2> QED
    BY <1>1, <2>1 DEF EmbedMaps
<1>3. chat.embeds = NoPages /\ chat.playing = <<>> /\ chat \in Chats
  BY <1>2 DEF Chats
<1>4. Len(chat.playing) = 0 /\ MaxPlaying \in Nat
  BY <1>3, MediaAssumption
<1> HIDE DEF chat
<1> QED
  BY <1>1, <1>3, <1>4 DEF ChatOK, Once, chat

\* ChatMedia::clear keeps the invariant.
LEMMA ClearEmbedsKeeps ==
  ASSUME MediaIInv, ClearEmbeds
  PROVE  MediaIInv'
<1>1. /\ embeds' = NoPages /\ playing' = <<>> /\ nextEmbed' = nextEmbed
      /\ picker' = picker /\ tiles' = tiles /\ replies' = replies
      /\ waiters' = waiters /\ due' = due /\ cached' = cached
  BY DEF ClearEmbeds, fetcherVars
<1>2. /\ picker \in PickerOf /\ tiles \in TileMaps /\ Asks(picker, replies)
      /\ Answers(picker, tiles) /\ FetcherOK(waiters, due, cached)
      /\ CallsOK(picker, tiles, embeds, nextEmbed, waiters, due)
      /\ nextEmbed \in 0 .. MaxEmbeds
  BY TypedIs DEF MediaIInv
<1>3. nextEmbed \in Nat /\ nextEmbed <= nextEmbed
  BY <1>2, MediaAssumption
<1>4. \A id \in DOMAIN NoPages : id < nextEmbed =>
          id \in DOMAIN embeds /\ NoPages[id].url = embeds[id].url
          /\ (embeds[id].kind = "loading" => NoPages[id].kind = "loading")
  BY NoEmbeds
<1>5. CallsOK(picker, tiles, NoPages, nextEmbed, waiters, due)
  BY <1>2, <1>3, <1>4, CallsStay
<1>6. ChatNow' = [embeds |-> NoPages, playing |-> <<>>]
  BY <1>1 DEF ChatNow
<1>7. MediaTyped'
  BY <1>1, <1>2, TypedIsNext
<1> QED
  BY <1>1, <1>2, <1>5, <1>6, <1>7, NoEmbeds DEF MediaIInv

\* The media begin with the invariant.
LEMMA MediaStarts ==
  MediaInit => MediaIInv
<1> SUFFICES ASSUME MediaInit PROVE MediaIInv
  OBVIOUS
<1>1. LastPage \in Nat /\ MaxSearches \in Nat /\ MaxEmbeds \in Nat /\ Trending \in Queries
  BY MediaAssumption
<1>2. picker \in PickerOf /\ picker.page = 0 /\ picker.requested = 0 /\ picker.hasMore = FALSE
      /\ picker.loading = FALSE
  <2>1. picker \in [opened: {FALSE}, visible: {FALSE}, typing: {FALSE}, text: {Trending},
                    shown: {Trending}, provider: Providers, page: {0}, requested: {0},
                    hasMore: {FALSE}, loading: {FALSE}, generation: {0}]
    BY DEF MediaInit
  <2>2. {FALSE} \subseteq BOOLEAN /\ {Trending} \subseteq Queries
        /\ {0} \subseteq 0 .. LastPage /\ {0} \subseteq 0 .. MaxSearches
    BY <1>1
  <2>3. picker \in PickerOf
    BY <2>1, <2>2 DEF PickerOf
  <2>4. picker.page \in {0} /\ picker.requested \in {0} /\ picker.hasMore \in {FALSE}
        /\ picker.loading \in {FALSE}
    BY <2>1
  <2> QED
    BY <2>3, <2>4
<1>3. /\ tiles = NoPages /\ replies = {} /\ waiters = [u \in Urls |-> {}] /\ due = {}
      /\ cached = {} /\ embeds = NoPages /\ playing = <<>> /\ nextEmbed = 0
  BY DEF MediaInit
<1>4. IsFiniteSet({})
  BY FS_EmptySet
<1>5. FetcherOK(waiters, due, cached)
  BY <1>3, <1>4 DEF FetcherOK
<1>6. MediaTyped
  BY <1>1, <1>2, <1>3, <1>5, NoTiles, TypedIs
<1>7. Asks(picker, replies)
  BY <1>2, <1>3 DEF Asks
<1>8. Answers(picker, tiles)
  BY <1>3, NoTiles DEF Answers
<1>9. CallsOK(picker, tiles, embeds, nextEmbed, waiters, due)
  BY <1>3 DEF CallsOK
<1>10. ChatNow = [embeds |-> NoPages, playing |-> <<>>]
  BY <1>3 DEF ChatNow
<1>11. DOMAIN embeds = {}
  BY <1>3, NoEmbeds
<1> QED
  BY <1>6, <1>7, <1>8, <1>9, <1>10, <1>11, NoEmbeds DEF MediaIInv

\* Every step of the media keeps the invariant.
LEMMA MediaStep ==
  MediaIInv /\ [MediaNext]_mediaVars => MediaIInv'
<1> SUFFICES ASSUME MediaIInv, [MediaNext]_mediaVars PROVE MediaIInv'
  OBVIOUS
<1>1. CASE Popup
  BY <1>1, PopupKeeps
<1>2. CASE TypeQuery
  BY <1>2, TypeQueryKeeps
<1>3. CASE Debounce \/ ReturnPressed \/ SwitchProvider
  BY <1>3, SearchesKeep
<1>4. CASE HidePicker
  BY <1>4, HidePickerKeeps
<1>5. CASE ScrollDown
  BY <1>5, ScrollDownKeeps
<1>6. CASE ShowPage
  BY <1>6, ShowPageKeeps
<1>7. CASE ShowFailure
  BY <1>7, ShowFailureKeeps
<1>8. CASE AppendRemote
  BY <1>8, AppendRemoteKeeps
<1>9. CASE AppendImage
  BY <1>9, AppendImageKeeps
<1>10. CASE ClearEmbeds
  BY <1>10, ClearEmbedsKeeps
<1>11. CASE FetchCached
  BY <1>11, FetchCachedKeeps
<1>12. ASSUME NEW url \in Urls, FinishFetch(url) PROVE MediaIInv'
  BY <1>12, FinishFetchKeeps
<1>13. CASE UNCHANGED mediaVars
  <2>1. picker' = picker /\ tiles' = tiles /\ replies' = replies /\ waiters' = waiters
        /\ due' = due /\ cached' = cached /\ embeds' = embeds /\ playing' = playing
        /\ nextEmbed' = nextEmbed
    BY <1>13 DEF mediaVars
  <2>2. ChatNow' = ChatNow
    BY <2>1 DEF ChatNow
  <2>3. MediaTyped'
    BY <2>1 DEF MediaIInv, MediaTyped
  <2> QED
    BY <2>1, <2>2, <2>3 DEF MediaIInv
<1> QED
  BY <1>1, <1>2, <1>3, <1>4, <1>5, <1>6, <1>7, <1>8, <1>9, <1>10, <1>11, <1>12, <1>13
  DEF MediaNext

\* What the invariant says of the media.
LEMMA MediaIs ==
  MediaIInv => MediaInv
<1> SUFFICES ASSUME MediaIInv PROVE MediaInv
  OBVIOUS
<1>1. /\ MediaTyped /\ Asks(picker, replies) /\ Answers(picker, tiles)
      /\ ChatOK(ChatNow) /\ DOMAIN embeds \in SUBSET (0 .. (nextEmbed - 1))
  BY DEF MediaIInv
<1>2. ChatNow.embeds = embeds /\ ChatNow.playing = playing
  BY DEF ChatNow
<1>3. /\ \A id \in DOMAIN embeds : /\ embeds[id].shows \in {NoUrl, embeds[id].url}
                                   /\ embeds[id].kind = "moving" <=> Among(id, playing)
      /\ \A i \in 1 .. Len(playing) : playing[i] \in DOMAIN embeds
      /\ Len(playing) <= MaxPlaying /\ playing \in Seq(Nat)
  BY <1>1, <1>2 DEF ChatOK, Chats
<1>4. MediaTypeOK
  <2>1. DOMAIN tiles \subseteq 0 .. LastPage
    BY <1>1, TilesTyped DEF MediaTyped
  <2> QED
    BY <1>1, <1>3, <2>1 DEF MediaTyped, MediaTypeOK, PickerOf
<1>5. ResultsAnswerTheSearch
  BY <1>1 DEF Answers, Asks, Seen, ShowsItsOwn, ResultsAnswerTheSearch
<1>6. EmbedsShowTheirOwn
  <2>1. DOMAIN playing = 1 .. Len(playing)
    BY <1>3
  <2>2. ToSet(playing) = {playing[i] : i \in 1 .. Len(playing)}
    BY <2>1 DEF ToSet
  <2>3. {id \in DOMAIN embeds : embeds[id].kind = "moving"} = ToSet(playing)
    BY <1>3, <2>2 DEF Among
  <2> QED
    BY <1>3, <2>3 DEF EmbedsShowTheirOwn
<1> QED
  BY <1>4, <1>5, <1>6 DEF MediaInv

\* The results shown answer the search the picker shows, "loading..." is up as long
\* as an answer may come, and no embed of the transcript shows another's picture,
\* whatever arrives late or was cleared (gif_picker.cpp, chat_media.cpp and
\* remote_media.cpp).
THEOREM MediaThm == MediaSpec => []MediaInv
<1>1. MediaInit => MediaIInv
  BY MediaStarts
<1>2. MediaIInv /\ [MediaNext]_mediaVars => MediaIInv'
  BY MediaStep
<1>3. MediaIInv => MediaInv
  BY MediaIs
<1> QED
  BY <1>1, <1>2, <1>3, PTL DEF MediaSpec
=============================================================================
