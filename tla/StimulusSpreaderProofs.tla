----------------------- MODULE StimulusSpreaderProofs -----------------------
(***************************************************************************)
(* For every number of spreaders, updaters, handles and stimuli, and for    *)
(* every rate: what spread_stimuli keeps true.                              *)
(*                                                                          *)
(* 1. Sums over finite sets, with which amounts of tokens are computed.     *)
(* 2. Type correctness.                                                     *)
(* 3. What can end the process (CrashInvariant).                            *)
(* 4. Why no node owes tokens (CreditInvariant).                            *)
(* 5. Why no tokens are created (SolventInvariant) ...                      *)
(* 6. ... and, up to rounding, none are lost (KeptInvariant).               *)
(***************************************************************************)
EXTENDS StimulusSpreader, HebbianNetworkProofs, WellFoundedInduction

(* Finite sets *)

\* What holds of a finite set if it holds of its proper subsets holds of all.
LEMMA SetInduction ==
    ASSUME NEW S, IsFiniteSet(S), NEW Q,
           \A T \in SUBSET S : (\A U \in SUBSET T : U # T => U \in Q) => T \in Q
    PROVE  SUBSET S \subseteq Q
  <1> DEFINE B == (SUBSET S) \ Q
             R == StrictSubsetOrdering(S)
  <1>1. IsWellFoundedOn(R, FiniteSubsetsOf(S))
    BY FS_StrictSubsetOrderingWellFounded
  <1>2. B \subseteq FiniteSubsetsOf(S)
    BY FS_Subset DEF FiniteSubsetsOf
  <1>3. ASSUME B # {}
        PROVE  FALSE
    <2>1. \E T \in B : \A U \in B : ~(<<U, T>> \in R)
      <3> HIDE DEF B, R
      <3> QED
        BY <1>1, <1>2, <1>3, WFMin
    <2>2. PICK T \in SUBSET S : T \notin Q /\ \A U \in B : ~(<<U, T>> \in R)
      <3> HIDE DEF R
      <3> QED
        BY <2>1
    <2>3. PICK U \in SUBSET T : U # T /\ U \notin Q
      BY <2>2
    <2>4. U \in B /\ <<U, T>> \in R
      BY <2>2, <2>3 DEF StrictSubsetOrdering
    <2> QED
      BY <2>2, <2>4
  <1> QED
    BY <1>3

LEMMA SubsetFinite ==
    ASSUME NEW S, IsFiniteSet(S), NEW T \in SUBSET S
    PROVE  IsFiniteSet(T)
  BY FS_Subset
-----------------------------------------------------------------------------
(* Sums *)

Sum(f, S) == MapThenSumSet(LAMBDA h : f[h], S)

Chosen(s) == CHOOSE x \in s : TRUE

\* The recursion that a fold over S stands for.
Folds(f, S, g) ==
    g = [s \in SUBSET S |-> IF s = {} THEN 0 ELSE f[Chosen(s)] + g[s \ {Chosen(s)}]]

LEMMA SumIsFold ==
    ASSUME NEW f, NEW S
    PROVE  Sum(f, S) = (CHOOSE g : Folds(f, S, g))[S]
  BY DEF Sum, MapThenSumSet, MapThenFoldSet, Folds, Chosen

LEMMA ChosenIn ==
    ASSUME NEW s, s # {}
    PROVE  Chosen(s) \in s /\ s \ {Chosen(s)} \in SUBSET s /\ s \ {Chosen(s)} # s
  BY DEF Chosen

\* The folds of two sets agree on their common subsets.
LEMMA FoldsAgree ==
    ASSUME NEW f, NEW S, NEW T \in SUBSET S, IsFiniteSet(S), NEW g, NEW k,
           Folds(f, S, g), Folds(f, T, k)
    PROVE  \A s \in SUBSET T : g[s] = k[s]
  <1> DEFINE Q == {s \in SUBSET T : g[s] = k[s]}
  <1>1. ASSUME NEW s \in SUBSET T, \A u \in SUBSET s : u # s => u \in Q
        PROVE  s \in Q
    <2>1. /\ g[s] = IF s = {} THEN 0 ELSE f[Chosen(s)] + g[s \ {Chosen(s)}]
          /\ k[s] = IF s = {} THEN 0 ELSE f[Chosen(s)] + k[s \ {Chosen(s)}]
      BY DEF Folds
    <2>2. s # {} => g[s \ {Chosen(s)}] = k[s \ {Chosen(s)}]
      BY <1>1, ChosenIn
    <2> QED
      BY <2>1, <2>2
  <1>2. IsFiniteSet(T)
    BY SubsetFinite
  <1>3. SUBSET T \subseteq Q
    <2> HIDE DEF Q
    <2> QED
      BY <1>1, <1>2, SetInduction
  <1> QED
    BY <1>3

LEMMA FoldExists ==
    ASSUME NEW f, NEW S, IsFiniteSet(S)
    PROVE  \E g : Folds(f, S, g)
  <1> DEFINE Q == {T \in SUBSET S : \E g : Folds(f, T, g)}
             G(T) == CHOOSE g : Folds(f, T, g)
  <1>1. ASSUME NEW T \in SUBSET S, \A U \in SUBSET T : U # T => U \in Q
        PROVE  T \in Q
    <2> DEFINE g == [s \in SUBSET T |->
                        IF s = {} THEN 0
                        ELSE f[Chosen(s)] + G(s \ {Chosen(s)})[s \ {Chosen(s)}]]
    <2>1. ASSUME NEW U \in SUBSET T, U # T
          PROVE  Folds(f, U, G(U)) /\ IsFiniteSet(U)
      <3>1. \E k : Folds(f, U, k)
        BY <1>1, <2>1
      <3> QED
        BY <3>1, SubsetFinite
    <2>2. ASSUME NEW s \in SUBSET T, s # T
          PROVE  g[s] = G(s)[s]
      <3>1. Folds(f, s, G(s)) /\ IsFiniteSet(s)
        BY <2>1, <2>2
      <3>2. G(s)[s] = IF s = {} THEN 0 ELSE f[Chosen(s)] + G(s)[s \ {Chosen(s)}]
        <4> HIDE DEF G
        <4> QED
          BY <3>1 DEF Folds
      <3>3. ASSUME s # {}
            PROVE  G(s)[s \ {Chosen(s)}] = G(s \ {Chosen(s)})[s \ {Chosen(s)}]
        <4> DEFINE u == s \ {Chosen(s)}
        <4>1. u \in SUBSET s /\ u \in SUBSET T /\ u # T
          BY <2>2, <3>3, ChosenIn
        <4>2. Folds(f, u, G(u))
          BY <2>1, <4>1
        <4> HIDE DEF u, G
        <4>3. G(s)[u] = G(u)[u]
          BY <3>1, <4>1, <4>2, FoldsAgree
        <4> QED
          BY <4>3 DEF u
      <3> QED
        BY <3>2, <3>3
    <2>3. ASSUME NEW s \in SUBSET T, s # {}
          PROVE  g[s \ {Chosen(s)}] = G(s \ {Chosen(s)})[s \ {Chosen(s)}]
      <3>1. s \ {Chosen(s)} \in SUBSET T /\ s \ {Chosen(s)} # T
        BY <2>3, ChosenIn
      <3> QED
        BY <2>2, <3>1
    <2>4. Folds(f, T, g)
      <3> DEFINE body(s) == IF s = {} THEN 0 ELSE f[Chosen(s)] + g[s \ {Chosen(s)}]
                 made(s) == IF s = {} THEN 0
                            ELSE f[Chosen(s)] + G(s \ {Chosen(s)})[s \ {Chosen(s)}]
      <3>1. \A s \in SUBSET T : made(s) = body(s)
        <4> HIDE DEF g, G
        <4> QED
          BY <2>3
      <3>2. [s \in SUBSET T |-> made(s)] = [s \in SUBSET T |-> body(s)]
        <4> HIDE DEF made, body
        <4> QED
          BY <3>1
      <3>3. g = [s \in SUBSET T |-> made(s)]
        OBVIOUS
      <3>4. g = [s \in SUBSET T |-> body(s)]
        <4> HIDE DEF made, body, g
        <4> QED
          BY <3>2, <3>3
      <3> QED
        <4> HIDE DEF g
        <4> QED
          BY <3>4 DEF Folds
    <2> QED
      BY <2>4
  <1>2. SUBSET S \subseteq Q
    <2> HIDE DEF Q
    <2> QED
      BY <1>1, SetInduction
  <1> QED
    BY <1>2

\* The sum over the empty set, and what the fold does first.
LEMMA SumChosen ==
    ASSUME NEW f, NEW S, IsFiniteSet(S)
    PROVE  Sum(f, S) = IF S = {} THEN 0 ELSE f[Chosen(S)] + Sum(f, S \ {Chosen(S)})
  <1> DEFINE G(T) == CHOOSE g : Folds(f, T, g)
  <1>1. \A T \in SUBSET S : Folds(f, T, G(T)) /\ Sum(f, T) = G(T)[T]
    BY FoldExists, SubsetFinite, SumIsFold
  <1> HIDE DEF G
  <1>2. Folds(f, S, G(S)) /\ Sum(f, S) = G(S)[S]
    BY <1>1
  <1>3. G(S)[S] = IF S = {} THEN 0 ELSE f[Chosen(S)] + G(S)[S \ {Chosen(S)}]
    BY <1>2 DEF Folds
  <1>4. ASSUME S # {}
        PROVE  G(S)[S \ {Chosen(S)}] = Sum(f, S \ {Chosen(S)})
    <2>1. S \ {Chosen(S)} \in SUBSET S
      OBVIOUS
    <2>2. G(S)[S \ {Chosen(S)}] = G(S \ {Chosen(S)})[S \ {Chosen(S)}]
      BY <1>1, <1>2, <2>1, FoldsAgree
    <2> QED
      BY <1>1, <2>1, <2>2
  <1> QED
    BY <1>2, <1>3, <1>4

Ints(f, S) == \A x \in S : f[x] \in Int

LEMMA SumEmpty ==
    ASSUME NEW f
    PROVE  Sum(f, {}) = 0
  BY SumChosen, FS_EmptySet

LEMMA SumInt ==
    ASSUME NEW S, IsFiniteSet(S), NEW f, Ints(f, S)
    PROVE  Sum(f, S) \in Int
  <1> DEFINE Q == {T \in SUBSET S : Sum(f, T) \in Int}
  <1>1. ASSUME NEW T \in SUBSET S, \A U \in SUBSET T : U # T => U \in Q
        PROVE  T \in Q
    <2>1. Sum(f, T) = IF T = {} THEN 0 ELSE f[Chosen(T)] + Sum(f, T \ {Chosen(T)})
      BY SubsetFinite, SumChosen
    <2>2. T # {} => f[Chosen(T)] \in Int /\ Sum(f, T \ {Chosen(T)}) \in Int
      BY <1>1, ChosenIn DEF Ints
    <2> QED
      BY <2>1, <2>2
  <1>2. SUBSET S \subseteq Q
    <2> HIDE DEF Q
    <2> QED
      BY <1>1, SetInduction
  <1> QED
    BY <1>2

\* Any element may be added last.
LEMMA SumElement ==
    ASSUME NEW S, IsFiniteSet(S), NEW f, Ints(f, S), NEW x \in S
    PROVE  Sum(f, S) = f[x] + Sum(f, S \ {x})
  <1> DEFINE Q == {T \in SUBSET S : \A y \in T : Sum(f, T) = f[y] + Sum(f, T \ {y})}
  <1>1. ASSUME NEW T \in SUBSET S, \A U \in SUBSET T : U # T => U \in Q
        PROVE  T \in Q
    <2> SUFFICES ASSUME NEW y \in T
                 PROVE  Sum(f, T) = f[y] + Sum(f, T \ {y})
      OBVIOUS
    <2> DEFINE c == Chosen(T)
    <2>1. c \in T /\ Sum(f, T) = f[c] + Sum(f, T \ {c})
      BY SubsetFinite, SumChosen, ChosenIn
    <2> HIDE DEF c
    <2>2. CASE y = c
      BY <2>1, <2>2
    <2>3. CASE y # c
      <3>1. T \ {c} \in Q /\ T \ {y} \in Q
        BY <1>1, <2>1
      <3>2. Sum(f, T \ {c}) = f[y] + Sum(f, (T \ {c}) \ {y})
        BY <2>3, <3>1
      <3>3. Sum(f, T \ {y}) = f[c] + Sum(f, (T \ {y}) \ {c})
        BY <2>1, <2>3, <3>1
      <3>4. (T \ {c}) \ {y} = (T \ {y}) \ {c}
        OBVIOUS
      <3>5. /\ (T \ {y}) \ {c} \in SUBSET S /\ f[y] \in Int /\ f[c] \in Int
            /\ Sum(f, (T \ {y}) \ {c}) \in Int
        <4>1. (T \ {y}) \ {c} \in SUBSET S /\ f[y] \in Int /\ f[c] \in Int
          BY <2>1 DEF Ints
        <4>2. Ints(f, (T \ {y}) \ {c})
          BY <4>1 DEF Ints
        <4> QED
          BY <4>1, <4>2, SumInt, SubsetFinite
      <3>6. f[c] + (f[y] + Sum(f, (T \ {y}) \ {c})) = f[y] + (f[c] + Sum(f, (T \ {y}) \ {c}))
        <4> PICK n \in Int : n = Sum(f, (T \ {y}) \ {c})
          BY <3>5
        <4> QED
          BY <3>5
      <3> HIDE DEF Q
      <3> QED
        BY <2>1, <3>2, <3>3, <3>4, <3>6, Zenon
    <2> QED
      BY <2>2, <2>3
  <1>2. SUBSET S \subseteq Q
    <2> HIDE DEF Q
    <2> QED
      BY <1>1, SetInduction
  <1> QED
    BY <1>2

\* A sum that is at most another one element by element is at most the other.
LEMMA SumMonotone ==
    ASSUME NEW S, IsFiniteSet(S), NEW f, NEW g, Ints(f, S), Ints(g, S),
           \A x \in S : f[x] <= g[x]
    PROVE  Sum(f, S) <= Sum(g, S)
  <1> DEFINE Q == {T \in SUBSET S : Sum(f, T) <= Sum(g, T)}
  <1>1. ASSUME NEW T \in SUBSET S, \A U \in SUBSET T : U # T => U \in Q
        PROVE  T \in Q
    <2>1. CASE T = {}
      BY <2>1, SumEmpty
    <2>2. CASE T # {}
      <3> DEFINE c == Chosen(T)
      <3>1. c \in T /\ T \ {c} \in SUBSET T /\ T \ {c} # T
        BY <2>2, ChosenIn
      <3>2. Sum(f, T) = f[c] + Sum(f, T \ {c}) /\ Sum(g, T) = g[c] + Sum(g, T \ {c})
        BY <2>2, SubsetFinite, SumChosen
      <3> HIDE DEF c
      <3>3. Sum(f, T \ {c}) <= Sum(g, T \ {c})
        BY <1>1, <3>1
      <3>4. f[c] \in Int /\ g[c] \in Int /\ f[c] <= g[c]
        BY <3>1 DEF Ints
      <3>5. IsFiniteSet(T \ {c}) /\ Ints(f, T \ {c}) /\ Ints(g, T \ {c})
        BY SubsetFinite DEF Ints
      <3>6. Sum(f, T \ {c}) \in Int /\ Sum(g, T \ {c}) \in Int
        BY <3>5, SumInt
      <3> QED
        BY <3>2, <3>3, <3>4, <3>6
    <2> QED
      BY <2>1, <2>2
  <1>2. SUBSET S \subseteq Q
    <2> HIDE DEF Q
    <2> QED
      BY <1>1, SetInduction
  <1> QED
    BY <1>2

\* The sum of two sums is the sum of the sums of the elements.
LEMMA SumPlus ==
    ASSUME NEW S, IsFiniteSet(S), NEW f, NEW g, NEW k, Ints(f, S), Ints(g, S),
           \A x \in S : k[x] = f[x] + g[x]
    PROVE  Sum(k, S) = Sum(f, S) + Sum(g, S)
  <1> DEFINE Q == {T \in SUBSET S : Sum(k, T) = Sum(f, T) + Sum(g, T)}
  <1>1. ASSUME NEW T \in SUBSET S, \A U \in SUBSET T : U # T => U \in Q
        PROVE  T \in Q
    <2>1. CASE T = {}
      BY <2>1, SumEmpty
    <2>2. CASE T # {}
      <3> DEFINE c == Chosen(T)
      <3>1. c \in T /\ T \ {c} \in SUBSET T /\ T \ {c} # T
        BY <2>2, ChosenIn
      <3>2. /\ Sum(f, T) = f[c] + Sum(f, T \ {c}) /\ Sum(g, T) = g[c] + Sum(g, T \ {c})
            /\ Sum(k, T) = k[c] + Sum(k, T \ {c})
        BY <2>2, SubsetFinite, SumChosen
      <3> HIDE DEF c
      <3>3. Sum(k, T \ {c}) = Sum(f, T \ {c}) + Sum(g, T \ {c})
        BY <1>1, <3>1
      <3>4. f[c] \in Int /\ g[c] \in Int /\ k[c] = f[c] + g[c]
        BY <3>1 DEF Ints
      <3>5. IsFiniteSet(T \ {c}) /\ Ints(f, T \ {c}) /\ Ints(g, T \ {c})
        BY SubsetFinite DEF Ints
      <3>6. Sum(f, T \ {c}) \in Int /\ Sum(g, T \ {c}) \in Int
        BY <3>5, SumInt
      <3> QED
        BY <3>2, <3>3, <3>4, <3>6
    <2> QED
      BY <2>1, <2>2
  <1>2. SUBSET S \subseteq Q
    <2> HIDE DEF Q
    <2> QED
      BY <1>1, SetInduction
  <1> QED
    BY <1>2

\* A sum depends only on the elements that it adds.
LEMMA SumAgree ==
    ASSUME NEW S, IsFiniteSet(S), NEW f, NEW g, \A x \in S : f[x] = g[x]
    PROVE  Sum(f, S) = Sum(g, S)
  <1> DEFINE Q == {T \in SUBSET S : Sum(f, T) = Sum(g, T)}
  <1>1. ASSUME NEW T \in SUBSET S, \A U \in SUBSET T : U # T => U \in Q
        PROVE  T \in Q
    <2>1. CASE T = {}
      BY <2>1, SumEmpty
    <2>2. CASE T # {}
      <3>1. Chosen(T) \in T /\ T \ {Chosen(T)} \in SUBSET T /\ T \ {Chosen(T)} # T
        BY <2>2, ChosenIn
      <3>2. /\ Sum(f, T) = f[Chosen(T)] + Sum(f, T \ {Chosen(T)})
            /\ Sum(g, T) = g[Chosen(T)] + Sum(g, T \ {Chosen(T)})
        BY <2>2, SubsetFinite, SumChosen
      <3> QED
        BY <1>1, <3>1, <3>2
    <2> QED
      BY <2>1, <2>2
  <1>2. SUBSET S \subseteq Q
    <2> HIDE DEF Q
    <2> QED
      BY <1>1, SetInduction
  <1> QED
    BY <1>2

\* A sum of amounts that are not negative is not negative.
LEMMA SumNat ==
    ASSUME NEW S, IsFiniteSet(S), NEW f, \A x \in S : f[x] \in Nat
    PROVE  Sum(f, S) \in Nat
  <1> DEFINE Q == {T \in SUBSET S : Sum(f, T) \in Nat}
  <1>1. ASSUME NEW T \in SUBSET S, \A U \in SUBSET T : U # T => U \in Q
        PROVE  T \in Q
    <2>1. CASE T = {}
      BY <2>1, SumEmpty
    <2>2. CASE T # {}
      <3>1. Chosen(T) \in T /\ T \ {Chosen(T)} \in SUBSET T /\ T \ {Chosen(T)} # T
        BY <2>2, ChosenIn
      <3>2. Sum(f, T) = f[Chosen(T)] + Sum(f, T \ {Chosen(T)})
        BY <2>2, SubsetFinite, SumChosen
      <3>3. Sum(f, T \ {Chosen(T)}) \in Nat /\ f[Chosen(T)] \in Nat
        BY <1>1, <3>1
      <3> QED
        BY <3>2, <3>3
    <2> QED
      BY <2>1, <2>2
  <1>2. SUBSET S \subseteq Q
    <2> HIDE DEF Q
    <2> QED
      BY <1>1, SetInduction
  <1> QED
    BY <1>2

\* A sum may be made in two parts.
LEMMA SumSplit ==
    ASSUME NEW S, IsFiniteSet(S), NEW T \in SUBSET S, NEW f, Ints(f, S)
    PROVE  Sum(f, S) = Sum(f, T) + Sum(f, S \ T)
  <1> DEFINE Q == {U \in SUBSET S : Sum(f, U) = Sum(f, U \cap T) + Sum(f, U \ T)}
  <1>1. ASSUME NEW U \in SUBSET S, \A V \in SUBSET U : V # U => V \in Q
        PROVE  U \in Q
    <2>1. CASE U = {}
      <3>1. U \cap T = {} /\ U \ T = {}
        BY <2>1
      <3> QED
        BY <2>1, <3>1, SumEmpty
    <2>2. CASE U # {}
      <3>1. PICK c \in U : TRUE
        BY <2>2
      <3> DEFINE V == U \ {c}
      <3>2. V \in SUBSET U /\ V # U
        BY <3>1
      <3>3. Sum(f, V) = Sum(f, V \cap T) + Sum(f, V \ T)
        BY <1>1, <3>2
      <3>4. /\ Ints(f, U) /\ Ints(f, U \cap T) /\ Ints(f, U \ T)
            /\ Ints(f, V) /\ Ints(f, V \cap T) /\ Ints(f, V \ T)
        BY DEF Ints
      <3>5. /\ IsFiniteSet(U) /\ IsFiniteSet(U \cap T) /\ IsFiniteSet(U \ T)
            /\ IsFiniteSet(V) /\ IsFiniteSet(V \cap T) /\ IsFiniteSet(V \ T)
        BY SubsetFinite
      <3>6. Sum(f, U) = f[c] + Sum(f, V)
        BY <3>1, <3>4, <3>5, SumElement
      <3>7. f[c] \in Int /\ Sum(f, V \cap T) \in Int /\ Sum(f, V \ T) \in Int
        BY <3>1, <3>4, <3>5, SumInt DEF Ints
      <3>8. CASE c \in T
        <4>1. c \in U \cap T /\ (U \cap T) \ {c} = V \cap T /\ U \ T = V \ T
          BY <3>1, <3>8
        <4>2. Sum(f, U \cap T) = f[c] + Sum(f, V \cap T) /\ Sum(f, U \ T) = Sum(f, V \ T)
          BY <3>4, <3>5, <4>1, SumElement
        <4> HIDE DEF V
        <4> QED
          BY <3>3, <3>6, <3>7, <4>2
      <3>9. CASE c \notin T
        <4>1. c \in U \ T /\ (U \ T) \ {c} = V \ T /\ U \cap T = V \cap T
          BY <3>1, <3>9
        <4> DEFINE W == U \ T
        <4>2. Sum(f, W) = f[c] + Sum(f, W \ {c})
          <5>1. c \in W /\ IsFiniteSet(W) /\ Ints(f, W)
            BY <3>4, <3>5, <4>1
          <5> HIDE DEF W
          <5> QED
            BY <5>1, SumElement
        <4>3. Sum(f, U \ T) = f[c] + Sum(f, V \ T) /\ Sum(f, U \cap T) = Sum(f, V \cap T)
          BY <4>1, <4>2
        <4> HIDE DEF V
        <4> QED
          BY <3>3, <3>6, <3>7, <4>3
      <3> QED
        BY <3>8, <3>9
    <2> QED
      BY <2>1, <2>2
  <1>2. SUBSET S \subseteq Q
    <2> HIDE DEF Q
    <2> QED
      BY <1>1, SetInduction
  <1>3. S \cap T = T
    OBVIOUS
  <1> QED
    BY <1>2, <1>3

LEMMA SumZero ==
    ASSUME NEW S, IsFiniteSet(S), NEW f, \A x \in S : f[x] = 0
    PROVE  Sum(f, S) = 0
  <1>1. Ints(f, S) /\ \A x \in S : f[x] = f[x] + f[x]
    BY DEF Ints
  <1>2. Sum(f, S) \in Int /\ Sum(f, S) = Sum(f, S) + Sum(f, S)
    BY <1>1, SumInt, SumPlus
  <1>3. \A n \in Int : n = n + n => n = 0
    OBVIOUS
  <1> QED
    BY <1>2, <1>3

\* Elements that count nothing may be left out.
LEMMA SumExtend ==
    ASSUME NEW S, IsFiniteSet(S), NEW T \in SUBSET S, NEW f, NEW g, Ints(g, T),
           \A x \in S : f[x] = IF x \in T THEN g[x] ELSE 0
    PROVE  Sum(f, S) = Sum(g, T)
  <1>1. Ints(f, S)
    BY DEF Ints
  <1>2. Sum(f, S) = Sum(f, T) + Sum(f, S \ T)
    BY <1>1, SumSplit
  <1>3. IsFiniteSet(T) /\ IsFiniteSet(S \ T)
    BY SubsetFinite
  <1>4. Sum(f, T) = Sum(g, T)
    BY <1>3, SumAgree
  <1>5. Sum(f, S \ T) = 0
    BY <1>3, SumZero
  <1>6. Sum(g, T) \in Int
    BY <1>3, SumInt
  <1> QED
    BY <1>2, <1>4, <1>5, <1>6

\* One summand is replaced.
LEMMA SumChange ==
    ASSUME NEW S, IsFiniteSet(S), NEW f, NEW g, Ints(f, S), Ints(g, S), NEW x \in S,
           \A y \in S \ {x} : g[y] = f[y]
    PROVE  /\ Sum(g, S) = Sum(f, S) - f[x] + g[x]
           /\ Sum(f, S) \in Int /\ Sum(g, S) \in Int /\ f[x] \in Int /\ g[x] \in Int
  <1>1. Sum(f, S) = f[x] + Sum(f, S \ {x}) /\ Sum(g, S) = g[x] + Sum(g, S \ {x})
    BY SumElement
  <1>2. IsFiniteSet(S \ {x}) /\ Ints(f, S \ {x})
    BY SubsetFinite DEF Ints
  <1>3. Sum(f, S \ {x}) = Sum(g, S \ {x}) /\ Sum(f, S \ {x}) \in Int
    BY <1>2, SumAgree, SumInt
  <1>4. f[x] \in Int /\ g[x] \in Int
    BY DEF Ints
  <1> QED
    BY <1>1, <1>3, <1>4

\* What is left of an integer when it is divided.
LEMMA Quotient ==
    ASSUME NEW n \in Int, NEW d \in Nat \ {0}
    PROVE  /\ n \div d \in Int /\ d * (n \div d) <= n
           /\ n >= 0 => n \div d \in Nat
  OBVIOUS

\* The shares of an amount are together at most what their counts stand for.
LEMMA SumShares ==
    ASSUME NEW S, IsFiniteSet(S), NEW c, NEW w, NEW x \in Nat, NEW d \in Nat \ {0},
           \A b \in S : c[b] \in Nat /\ w[b] = (x * c[b]) \div d,
           Sum(c, S) <= d
    PROVE  Sum(w, S) \in Nat /\ Sum(w, S) <= x
  <1> DEFINE Q == {T \in SUBSET S : d * Sum(w, T) <= x * Sum(c, T)}
  <1>1. \A b \in S : c[b] \in Nat /\ w[b] \in Nat /\ d * w[b] <= x * c[b]
    <2> SUFFICES ASSUME NEW b \in S PROVE w[b] \in Nat /\ d * w[b] <= x * c[b]
      OBVIOUS
    <2>1. x * c[b] \in Nat
      OBVIOUS
    <2>2. PICK n \in Nat : n = x * c[b]
      BY <2>1
    <2>3. w[b] = n \div d /\ n >= 0
      BY <2>2
    <2>4. n \div d \in Nat /\ d * (n \div d) <= n
      BY <2>3, Quotient
    <2> QED
      BY <2>2, <2>3, <2>4
  <1>2. \A T \in SUBSET S : Sum(w, T) \in Nat /\ Sum(c, T) \in Nat
    BY <1>1, SubsetFinite, SumNat
  <1>3. ASSUME NEW T \in SUBSET S, \A U \in SUBSET T : U # T => U \in Q
        PROVE  T \in Q
    <2>1. CASE T = {}
      BY <2>1, SumEmpty
    <2>2. CASE T # {}
      <3> DEFINE b == Chosen(T)
                 U == T \ {b}
      <3>1. b \in T /\ U \in SUBSET T /\ U # T
        BY <2>2, ChosenIn
      <3>2. Sum(w, T) = w[b] + Sum(w, U) /\ Sum(c, T) = c[b] + Sum(c, U)
        BY <2>2, SubsetFinite, SumChosen
      <3> HIDE DEF b, U
      <3>3. d * Sum(w, U) <= x * Sum(c, U)
        BY <1>3, <3>1
      <3>4. /\ w[b] \in Nat /\ c[b] \in Nat /\ d * w[b] <= x * c[b]
            /\ Sum(w, U) \in Nat /\ Sum(c, U) \in Nat
        BY <1>1, <1>2, <3>1
      <3>5. \A p, q, r, s \in Nat : d * p <= x * q /\ d * r <= x * s => d * (p + r) <= x * (q + s)
        OBVIOUS
      <3>6. d * (w[b] + Sum(w, U)) <= x * (c[b] + Sum(c, U))
        BY <3>3, <3>4, <3>5
      <3> QED
        BY <3>2, <3>6
    <2> QED
      BY <2>1, <2>2
  <1>4. SUBSET S \subseteq Q
    <2> HIDE DEF Q
    <2> QED
      BY <1>3, SetInduction
  <1>5. d * Sum(w, S) <= x * Sum(c, S) /\ Sum(w, S) \in Nat /\ Sum(c, S) \in Nat
    BY <1>2, <1>4
  <1>6. \A p, q \in Nat : d * p <= x * q /\ q <= d => p <= x
    OBVIOUS
  <1> QED
    BY <1>5, <1>6

\* ... and each of them loses less than one unit to rounding.
LEMMA SumSharesLoss ==
    ASSUME NEW S, IsFiniteSet(S), NEW c, NEW w, NEW x \in Nat, NEW d \in Nat \ {0},
           \A b \in S : c[b] \in Nat /\ w[b] = (x * c[b]) \div d,
           Sum(c, S) = d
    PROVE  x <= Sum(w, S) + Cardinality(S)
  <1> DEFINE Q == {T \in SUBSET S : x * Sum(c, T) <= d * (Sum(w, T) + Cardinality(T))}
  <1>1. \A b \in S : c[b] \in Nat /\ w[b] \in Nat /\ x * c[b] <= d * (w[b] + 1)
    <2> SUFFICES ASSUME NEW b \in S PROVE w[b] \in Nat /\ x * c[b] <= d * (w[b] + 1)
      OBVIOUS
    <2>1. x * c[b] \in Nat
      OBVIOUS
    <2>2. PICK n \in Nat : n = x * c[b]
      BY <2>1
    <2>3. \A m \in Nat : m \div d \in Nat /\ m <= d * ((m \div d) + 1)
      OBVIOUS
    <2> QED
      BY <2>2, <2>3
  <1>2. \A T \in SUBSET S : /\ IsFiniteSet(T) /\ Sum(w, T) \in Nat /\ Sum(c, T) \in Nat
                            /\ Cardinality(T) \in Nat
    BY <1>1, SubsetFinite, SumNat, FS_CardinalityType
  <1>3. ASSUME NEW T \in SUBSET S, \A U \in SUBSET T : U # T => U \in Q
        PROVE  T \in Q
    <2>1. CASE T = {}
      <3>1. Sum(c, T) = 0 /\ Sum(w, T) = 0 /\ Cardinality(T) = 0
        BY <2>1, SumEmpty, FS_EmptySet
      <3> QED
        BY <3>1
    <2>2. CASE T # {}
      <3> DEFINE b == Chosen(T)
                 U == T \ {b}
      <3>1. b \in T /\ U \in SUBSET T /\ U # T
        BY <2>2, ChosenIn
      <3>2. Sum(w, T) = w[b] + Sum(w, U) /\ Sum(c, T) = c[b] + Sum(c, U)
        BY <2>2, SubsetFinite, SumChosen
      <3>3. Cardinality(T) = Cardinality(U) + 1
        BY <1>2, <3>1, FS_RemoveElement
      <3> HIDE DEF b, U
      <3>4. x * Sum(c, U) <= d * (Sum(w, U) + Cardinality(U))
        BY <1>3, <3>1
      <3>5. /\ w[b] \in Nat /\ c[b] \in Nat /\ x * c[b] <= d * (w[b] + 1)
            /\ Sum(w, U) \in Nat /\ Sum(c, U) \in Nat /\ Cardinality(U) \in Nat
        BY <1>1, <1>2, <3>1
      <3>6. \A p, q, r, s, k \in Nat : x * q <= d * (p + 1) /\ x * s <= d * (r + k)
                                        => x * (q + s) <= d * ((p + r) + (k + 1))
        <4> SUFFICES ASSUME NEW p \in Nat, NEW q \in Nat, NEW r \in Nat, NEW s \in Nat, NEW k \in Nat,
                            x * q <= d * (p + 1), x * s <= d * (r + k)
                     PROVE  x * (q + s) <= d * ((p + r) + (k + 1))
          OBVIOUS
        <4>1. x * (q + s) = x * q + x * s
          OBVIOUS
        <4>2. d * ((p + r) + (k + 1)) = d * (p + 1) + d * (r + k)
          OBVIOUS
        <4>3. x * q \in Int /\ x * s \in Int /\ d * (p + 1) \in Int /\ d * (r + k) \in Int
          OBVIOUS
        <4> QED
          BY <4>1, <4>2, <4>3
      <3>7. x * (c[b] + Sum(c, U)) <= d * ((w[b] + Sum(w, U)) + (Cardinality(U) + 1))
        BY <3>4, <3>5, <3>6
      <3> QED
        BY <3>2, <3>3, <3>7
    <2> QED
      BY <2>1, <2>2
  <1>4. SUBSET S \subseteq Q
    <2> HIDE DEF Q
    <2> QED
      BY <1>3, SetInduction
  <1>5. x * d <= d * (Sum(w, S) + Cardinality(S)) /\ Sum(w, S) + Cardinality(S) \in Nat
    BY <1>2, <1>4
  <1>6. \A p \in Nat : x * d <= d * p => x <= p
    OBVIOUS
  <1> QED
    BY <1>5, <1>6

\* The least of a set of handles.
LEMMA LeastHandle ==
    ASSUME NEW T \in SUBSET Handles, T # {}
    PROVE  Min(T) \in T
  <1> DEFINE least(U) == \E x \in U : \A y \in U : x <= y
             Q == {U \in SUBSET T : U = {} \/ least(U)}
  <1>1. IsFiniteSet(T) /\ T \subseteq Int
    <2>1. IsFiniteSet(T)
      BY HandlesFinite, FS_Subset
    <2> QED
      BY <2>1 DEF Handles
  <1>2. ASSUME NEW U \in SUBSET T, \A V \in SUBSET U : V # U => V \in Q
        PROVE  U \in Q
    <2> SUFFICES ASSUME NEW c \in U PROVE least(U)
      OBVIOUS
    <2>1. U \ {c} \in Q
      BY <1>2
    <2>2. CASE U \ {c} = {}
      BY <1>1, <2>2
    <2>3. CASE least(U \ {c})
      <3>1. PICK x \in U \ {c} : \A y \in U \ {c} : x <= y
        BY <2>3
      <3>2. CASE x <= c
        BY <3>1, <3>2
      <3>3. CASE ~(x <= c)
        <4>1. \A y \in U : c <= y
          BY <1>1, <3>1, <3>3
        <4> QED
          BY <4>1
      <3> QED
        BY <3>2, <3>3
    <2> QED
      BY <2>1, <2>2, <2>3
  <1>3. SUBSET T \subseteq Q
    <2> HIDE DEF Q
    <2> QED
      BY <1>1, <1>2, SetInduction
  <1>4. least(T)
    BY <1>3
  <1> QED
    BY <1>4 DEF Min

LEMMA FewHandles ==
    ASSUME NEW T \in SUBSET Handles
    PROVE  Cardinality(T) \in Nat /\ Cardinality(T) <= HandleCount
  <1>1. IsFiniteSet(Handles) /\ Cardinality(Handles) = HandleCount
    <2>1. HandleCount \in Nat /\ 1 \in Int /\ HandleCount \in Int /\ 1 <= HandleCount
      BY HandleAssumption
    <2>2. Cardinality(1..HandleCount) = HandleCount - 1 + 1
      BY <2>1, FS_Interval
    <2> QED
      BY <2>1, <2>2, HandlesFinite DEF Handles
  <1> QED
    BY <1>1, FS_Subset, FS_CardinalityType
-----------------------------------------------------------------------------
(* Amounts *)

LEMMA AmountsType ==
    ASSUME NEW x \in Amounts, NEW y \in Amounts
    PROVE  /\ Plus(x, y) \in Amounts /\ Minus(x, y) \in Amounts
           /\ \A n \in Int, d \in Nat : Scaled(x, n, d) \in Amounts
  <1>1. Plus(x, y) \in Amounts /\ Minus(x, y) \in Amounts
    BY DEF Amounts, Plus, Minus
  <1>2. ASSUME NEW n \in Int, NEW d \in Nat
        PROVE  Scaled(x, n, d) \in Amounts
    <2>1. CASE x = NaN \/ d = 0
      BY <2>1 DEF Amounts, Scaled
    <2>2. CASE ~(x = NaN \/ d = 0)
      <3>1. x * n \in Int /\ d \in Nat \ {0}
        BY <2>2 DEF Amounts
      <3>2. PICK m \in Int : m = x * n
        BY <3>1
      <3>3. m \div d \in Int
        BY <3>1, Quotient
      <3> QED
        BY <2>2, <3>2, <3>3 DEF Scaled, Amounts
    <2> QED
      BY <2>1, <2>2
  <1> QED
    BY <1>1, <1>2

LEMMA TotalIsSum ==
    ASSUME NEW S, NEW f, Ints(f, S)
    PROVE  Total(f, S) = Sum(f, S)
  <1>1. \A h \in S : f[h] # NaN
    BY StimulusAssumption DEF Ints
  <1> QED
    BY <1>1 DEF Total, Sum

LEMMA TotalType ==
    ASSUME NEW S, IsFiniteSet(S), NEW f, \A h \in S : f[h] \in Amounts
    PROVE  Total(f, S) \in Amounts
  <1>1. CASE \E h \in S : f[h] = NaN
    BY <1>1 DEF Total, Amounts
  <1>2. CASE ~ \E h \in S : f[h] = NaN
    <2>1. Ints(f, S)
      BY <1>2 DEF Ints, Amounts
    <2> QED
      BY <2>1, TotalIsSum, SumInt DEF Amounts
  <1> QED
    BY <1>1, <1>2
-----------------------------------------------------------------------------
(* Type correctness *)

Changes == [rent : Amounts, wages : Amounts]

Entries == UNION {[D -> Changes] : D \in SUBSET Handles}

Stages == {"idle", "rent", "wages", "consolidate", "consolidating", "spread", "spreading",
           "delivering"}

Visiting(s) == stage[s] \in {"consolidating", "spreading", "delivering"}

TokenType ==
    /\ importance \in [Handles -> Amounts]
    /\ stimuli_to_spread \in [Handles -> Amounts]
    /\ tokens_to_distribute \in 0..TOKENS

RequestType ==
    /\ stage \in [Spreaders -> Stages]
    /\ stimulus \in [Spreaders -> Stimuli \cup {NULL}]
    /\ data_largest_arity \in [Spreaders -> Nat]
    /\ importance_changes \in [Spreaders -> Entries]
    /\ to_visit \in [Spreaders -> SUBSET Handles]
    /\ summed \in [Spreaders -> Nat]
    /\ root_lock \in Spreaders \cup {NULL}
    /\ started \in 0..MaxStimuli
    /\ crashed \in BOOLEAN

\* A spreader has a request from start to return, the root during a visit, and a
\* node in hand between the two traversals of its neighbors.
RequestShape ==
    \A s \in Spreaders :
        /\ root_lock = s <=> Visiting(s)
        /\ stage[s] # "idle" => stimulus[s] \in Stimuli
        /\ stage[s] = "delivering" => to_visit[s] # {}

SpreaderTypes == TokenType /\ RequestType /\ RequestShape

TypeInvariant == TypeOK /\ SpreaderTypes

LEMMA TypeInvariantImplies == TypeInvariant => SpreaderTypeOK
  <1> SUFFICES ASSUME TypeInvariant
               PROVE  \A s \in Spreaders : /\ DOMAIN importance_changes[s] \subseteq Handles
                                           /\ to_visit[s] \subseteq Handles
                                           /\ summed[s] \in Nat
    BY DEF TypeInvariant, SpreaderTypes, TokenType, RequestType, RequestShape, Visiting, Stages, SpreaderTypeOK
  <1> QED
    BY DEF TypeInvariant, SpreaderTypes, RequestType, Entries

LEMMA InitSpreaderType == SpreaderInit => TypeInvariant
  <1> SUFFICES ASSUME SpreaderInit PROVE TypeInvariant
    OBVIOUS
  <1>1. TypeOK
    BY InitType DEF SpreaderInit
  <1>2. TokenType
    BY StimulusAssumption DEF SpreaderInit, TokenType, Amounts
  <1>3. <<>> \in Entries
    <2>1. <<>> \in [{} -> Changes]
      OBVIOUS
    <2>2. {} \in SUBSET Handles
      OBVIOUS
    <2> QED
      BY <2>1, <2>2 DEF Entries
  <1>4. RequestType
    <2>1. importance_changes \in [Spreaders -> Entries]
      BY <1>3 DEF SpreaderInit
    <2>2. started \in 0..MaxStimuli
      BY StimulusAssumption DEF SpreaderInit
    <2> QED
      BY <2>1, <2>2 DEF SpreaderInit, RequestType, Stages
  <1>5. RequestShape
    BY StimulusAssumption DEF SpreaderInit, RequestShape, Visiting
  <1> QED
    BY <1>1, <1>2, <1>4, <1>5 DEF TypeInvariant, SpreaderTypes

\* Every step of the composition is a step of the network or leaves it alone.
LEMMA NetworkStep ==
    ASSUME SpreaderNext
    PROVE  [Next]_vars
  <1>1. ASSUME NEW s \in Spreaders, SpreadStimuli(s) \/ \E r \in Stimuli : StartStimulus(s, r)
        PROVE  UNCHANGED vars
    BY <1>1 DEF SpreadStimuli, StartStimulus, CollectRent, DistributeWages, WagesThrow, LockRoot,
       UnlockRoot, ConsolidateNode, NoChanges, TraverseSumWeights, TraverseDeliverStimulus,
       EdgeNotLinked, Crash
  <1>2. ASSUME NEW t \in Updaters, Correlate(t) \/ \E list \in Lists : StartCorrelation(t, list)
        PROVE  \E u \in Updaters : Correlation(u) \/ \E list \in Lists : Start(u, list)
    BY <1>2 DEF Correlate, StartCorrelation, Correlation
  <1> QED
    BY <1>1, <1>2 DEF SpreaderNext, Next

LEMMA StartStimulusType ==
    ASSUME SpreaderTypes, NEW s \in Spreaders, NEW r \in Stimuli, StartStimulus(s, r),
           largest_arity \in Nat
    PROVE  SpreaderTypes'
  <1>1. TokenType'
    BY DEF SpreaderTypes, TokenType, StartStimulus, tokenVars
  <1>2. RequestType'
    <2>1. started' \in 0..MaxStimuli
      BY StimulusAssumption DEF SpreaderTypes, RequestType, StartStimulus
    <2> QED
      BY <2>1 DEF SpreaderTypes, RequestType, StartStimulus, Move, Stages
  <1>3. RequestShape'
    BY DEF SpreaderTypes, RequestType, RequestShape, Visiting, StartStimulus, Move
  <1> QED
    BY <1>1, <1>2, <1>3 DEF SpreaderTypes

\* The handles of the trie, and what is paid and taken, have their types.
LEMMA PresentHandles == Present \in SUBSET Handles /\ Renters \in SUBSET Handles
  BY DEF Present, Renters

LEMMA CollectRentType ==
    ASSUME SpreaderTypes, NEW s \in Spreaders, CollectRent(s)
    PROVE  SpreaderTypes'
  <1>1. TokenType'
    BY DEF SpreaderTypes, TokenType, CollectRent, tokenVars
  <1>2. ASSUME NEW h \in Renters
        PROVE  [rent |-> Rent(h), wages |-> 0] \in Changes
    <2>1. importance[h] \in Amounts /\ RENT_PERCENT \in Int
      BY PresentHandles, StimulusAssumption DEF SpreaderTypes, TokenType
    <2>2. Rent(h) \in Amounts
      BY <2>1, AmountsType DEF Rent
    <2> QED
      BY <2>2 DEF Changes, Amounts
  <1>3. [h \in Renters |-> [rent |-> Rent(h), wages |-> 0]] \in Entries
    <2>1. [h \in Renters |-> [rent |-> Rent(h), wages |-> 0]] \in [Renters -> Changes]
      BY <1>2
    <2> QED
      BY <2>1, PresentHandles DEF Entries
  <1>4. RequestType'
    <2>1. importance_changes' \in [Spreaders -> Entries]
      BY <1>3 DEF SpreaderTypes, RequestType, CollectRent
    <2> QED
      BY <2>1 DEF SpreaderTypes, RequestType, CollectRent, Move, Stages
  <1>5. RequestShape'
    BY DEF SpreaderTypes, RequestType, RequestShape, Visiting, CollectRent, Move
  <1> QED
    BY <1>1, <1>4, <1>5 DEF SpreaderTypes

\* An entry of a request.
LEMMA EntryType ==
    ASSUME RequestType, NEW s \in Spreaders
    PROVE  /\ DOMAIN importance_changes[s] \in SUBSET Handles
           /\ IsFiniteSet(DOMAIN importance_changes[s])
           /\ \A h \in DOMAIN importance_changes[s] : importance_changes[s][h] \in Changes
  <1>1. importance_changes[s] \in Entries
    BY DEF RequestType
  <1>2. PICK D \in SUBSET Handles : importance_changes[s] \in [D -> Changes]
    BY <1>1 DEF Entries
  <1> QED
    BY <1>2, HandlesFinite, FS_Subset

LEMMA TotalRentType ==
    ASSUME RequestType, NEW s \in Spreaders
    PROVE  TotalRent(s) \in Amounts
  <1> DEFINE D == DOMAIN importance_changes[s]
             f == [h \in D |-> importance_changes[s][h].rent]
  <1>1. IsFiniteSet(D) /\ \A h \in D : f[h] \in Amounts
    BY EntryType DEF Changes
  <1>2. Total(f, D) \in Amounts
    <2> HIDE DEF f, D
    <2> QED
      BY <1>1, TotalType
  <1> QED
    BY <1>2 DEF TotalRent

LEMMA DistributeWagesType ==
    ASSUME SpreaderTypes, NEW s \in Spreaders, DistributeWages(s)
    PROVE  SpreaderTypes'
  <1> DEFINE total == Plus(tokens_to_distribute, TotalRent(s))
             paid == DOMAIN stimulus[s].count
             wages(h) == Scaled(total, stimulus[s].count[h], stimulus[s].SUM)
             D == DOMAIN importance_changes[s]
             new == [h \in D \cup paid |-> IF h \in paid THEN Paid(s, h, wages(h))
                                           ELSE importance_changes[s][h]]
  <1>1. TokenType'
    BY StimulusAssumption DEF SpreaderTypes, TokenType, DistributeWages, Alienated
  <1>2. total \in Amounts
    <2>1. tokens_to_distribute \in Amounts
      BY StimulusAssumption DEF SpreaderTypes, TokenType, Amounts
    <2>2. TotalRent(s) \in Amounts
      BY TotalRentType DEF SpreaderTypes
    <2> QED
      BY <2>1, <2>2, AmountsType
  <1>3. /\ stimulus[s] \in Stimuli /\ stimulus[s].SUM \in Nat /\ paid \in SUBSET Handles
        /\ \A h \in paid : stimulus[s].count[h] \in Nat
    BY StimuliAssumption DEF SpreaderTypes, RequestShape, DistributeWages
  <1>4. ASSUME NEW h \in paid
        PROVE  Paid(s, h, wages(h)) \in Changes
    <2>1. wages(h) \in Amounts
      <3> HIDE DEF total
      <3> QED
        BY <1>2, <1>3, AmountsType
    <2> HIDE DEF wages, total, paid
    <2>2. CASE h \in DOMAIN importance_changes[s]
      <3>1. importance_changes[s][h] \in Changes
        BY <2>2, EntryType DEF SpreaderTypes
      <3>2. Plus(importance_changes[s][h].wages, wages(h)) \in Amounts
        BY <2>1, <3>1, AmountsType DEF Changes
      <3>3. Paid(s, h, wages(h)) =
              [importance_changes[s][h] EXCEPT !.wages = Plus(importance_changes[s][h].wages, wages(h))]
        BY <2>2 DEF Paid
      <3> QED
        BY <3>1, <3>2, <3>3 DEF Changes
    <2>3. CASE h \notin DOMAIN importance_changes[s]
      BY <2>1, <2>3 DEF Paid, Changes, Amounts
    <2> QED
      BY <2>2, <2>3
  <1>5. new \in Entries
    <2>1. D \in SUBSET Handles /\ \A h \in D : importance_changes[s][h] \in Changes
      BY EntryType DEF SpreaderTypes
    <2>2. D \cup paid \in SUBSET Handles
      BY <1>3, <2>1
    <2>3. new \in [D \cup paid -> Changes]
      <3> HIDE DEF wages, paid, D
      <3> QED
        BY <1>4, <2>1
    <2> HIDE DEF new, paid, D
    <2> QED
      BY <2>2, <2>3 DEF Entries
  <1>6. importance_changes' = [importance_changes EXCEPT ![s] = new]
    BY DEF DistributeWages
  <1>7. RequestType'
    <2>1. importance_changes' \in [Spreaders -> Entries]
      <3> HIDE DEF new
      <3> QED
        BY <1>5, <1>6 DEF SpreaderTypes, RequestType
    <2> QED
      BY <2>1 DEF SpreaderTypes, RequestType, DistributeWages, Move, Stages
  <1>8. RequestShape'
    BY DEF SpreaderTypes, RequestType, RequestShape, Visiting, DistributeWages, Move
  <1> QED
    BY <1>1, <1>7, <1>8 DEF SpreaderTypes

LEMMA CrashType ==
    ASSUME SpreaderTypes, NEW s \in Spreaders, WagesThrow(s) \/ NoChanges(s) \/ EdgeNotLinked(s)
    PROVE  SpreaderTypes'
  <1>1. Crash
    BY DEF WagesThrow, NoChanges, EdgeNotLinked
  <1> QED
    BY <1>1 DEF Crash, SpreaderTypes, TokenType, RequestType, RequestShape, Visiting, tokenVars,
                dataVars, visitVars

LEMMA RootType ==
    ASSUME SpreaderTypes, NEW s \in Spreaders, LockRoot(s) \/ UnlockRoot(s)
    PROVE  SpreaderTypes'
  <1>1. TokenType'
    BY DEF SpreaderTypes, TokenType, LockRoot, UnlockRoot, tokenVars
  <1>2. CASE LockRoot(s)
    <2>1. RequestType'
      BY <1>2, PresentHandles
      DEF SpreaderTypes, RequestType, LockRoot, Move, Stages, dataVars
    <2>2. RequestShape'
      BY <1>2, StimulusAssumption
      DEF SpreaderTypes, RequestType, RequestShape, Visiting, LockRoot, Move, dataVars
    <2> QED
      BY <1>1, <2>1, <2>2 DEF SpreaderTypes
  <1>3. CASE UnlockRoot(s)
    <2>1. RequestType'
      BY <1>3 DEF SpreaderTypes, RequestType, UnlockRoot, ReleaseRoot, Move, Stages, dataVars
    <2>2. RequestShape'
      BY <1>3, StimulusAssumption
      DEF SpreaderTypes, RequestType, RequestShape, Visiting, UnlockRoot, ReleaseRoot, Move,
          dataVars
    <2> QED
      BY <1>1, <2>1, <2>2 DEF SpreaderTypes
  <1> QED
    BY <1>2, <1>3

\* What consolidation computes for a node that has an entry.
LEMMA ConsolidatedType ==
    ASSUME TypeOK, SpreaderTypes, NEW s \in Spreaders, NEW h \in DOMAIN importance_changes[s]
    PROVE  /\ h \in Handles /\ Consolidated(s, h) \in Amounts /\ ToSpread(s, h) \in Amounts
           /\ Minus(Consolidated(s, h), ToSpread(s, h)) \in Amounts
  <1>1. h \in Handles /\ importance[h] \in Amounts /\ importance_changes[s][h] \in Changes
    BY EntryType DEF SpreaderTypes, TokenType
  <1>2. Consolidated(s, h) \in Amounts
    <2>1. Minus(importance[h], importance_changes[s][h].rent) \in Amounts
      BY <1>1, AmountsType DEF Changes
    <2> QED
      BY <1>1, <2>1, AmountsType DEF Changes, Consolidated
  <1>3. ToSpread(s, h) \in Amounts
    <2> DEFINE n == LOWERBOUND_PERCENT * data_largest_arity[s]
                        + (UPPERBOUND_PERCENT - LOWERBOUND_PERCENT) * arity[h]
               d == 100 * data_largest_arity[s]
    <2>1. n \in Int /\ d \in Nat
      <3>1. data_largest_arity[s] \in Nat /\ arity[h] \in Nat
        BY <1>1 DEF TypeOK, GraphType, SpreaderTypes, RequestType
      <3>2. /\ LOWERBOUND_PERCENT \in Nat
            /\ UPPERBOUND_PERCENT - LOWERBOUND_PERCENT \in Int
        BY StimulusAssumption
      <3>3. \A a, b, c, e \in Int : a * b + c * e \in Int
        OBVIOUS
      <3>4. \A a \in Nat : 100 * a \in Nat
        OBVIOUS
      <3> QED
        BY <3>1, <3>2, <3>3, <3>4
    <2> HIDE DEF n, d
    <2>2. Scaled(Consolidated(s, h), n, d) \in Amounts
      BY <1>2, <2>1, AmountsType
    <2> QED
      BY <2>2 DEF ToSpread, n, d
  <1> QED
    BY <1>1, <1>2, <1>3, AmountsType

LEMMA ConsolidateNodeType ==
    ASSUME TypeOK, SpreaderTypes, NEW s \in Spreaders, ConsolidateNode(s)
    PROVE  SpreaderTypes'
  <1> DEFINE h == NextNode(s)
  <1>1. h \in Handles /\ h \in DOMAIN importance_changes[s]
    BY EntryType DEF ConsolidateNode, SpreaderTypes
  <1>2. ToSpread(s, h) \in Amounts /\ Minus(Consolidated(s, h), ToSpread(s, h)) \in Amounts
    <2> HIDE DEF h
    <2> QED
      BY <1>1, ConsolidatedType
  <1>3. /\ importance' = [importance EXCEPT ![h] = Minus(Consolidated(s, h), ToSpread(s, h))]
        /\ stimuli_to_spread' = [stimuli_to_spread EXCEPT ![h] = ToSpread(s, h)]
        /\ to_visit' = [to_visit EXCEPT ![s] = to_visit[s] \ {h}]
        /\ UNCHANGED <<tokens_to_distribute, dataVars, root_lock, stage, summed, started, crashed>>
    BY DEF ConsolidateNode
  <1> HIDE DEF h
  <1>4. TokenType'
    BY <1>2, <1>3 DEF SpreaderTypes, TokenType
  <1>5. RequestType'
    BY <1>3 DEF SpreaderTypes, RequestType, dataVars
  <1>6. RequestShape'
    BY <1>3 DEF SpreaderTypes, RequestType, RequestShape, Visiting, dataVars, ConsolidateNode
  <1> QED
    BY <1>4, <1>5, <1>6 DEF SpreaderTypes

\* The weights of the edges of a node.
LEMMA WeightsType ==
    ASSUME TypeOK, NEW h \in Handles
    PROVE  /\ Neighbors(h) \in SUBSET Handles /\ IsFiniteSet(Neighbors(h))
           /\ SumWeights(h) \in Nat
           /\ \A b \in Handles : edge_count[<<h, b>>] \in Nat
           /\ SumWeights(h) = Sum([b \in Handles |-> edge_count[<<h, b>>]], Neighbors(h))
  <1> DEFINE f == [b \in Handles |-> edge_count[<<h, b>>]]
  <1>1. Neighbors(h) \in SUBSET Handles /\ IsFiniteSet(Neighbors(h))
    BY HandleSets DEF Neighbors
  <1>2. \A b \in Handles : edge_count[<<h, b>>] \in Nat
    BY DEF TypeOK, GraphType, Edges
  <1>3. \A b \in Neighbors(h) : f[b] \in Nat
    BY <1>1, <1>2
  <1> HIDE DEF f
  <1>4. Total(f, Neighbors(h)) = Sum(f, Neighbors(h)) /\ Sum(f, Neighbors(h)) \in Nat
    BY <1>1, <1>3, TotalIsSum, SumNat DEF Ints
  <1> QED
    BY <1>1, <1>2, <1>4 DEF SumWeights, f

LEMMA TraverseSumWeightsType ==
    ASSUME TypeOK, SpreaderTypes, NEW s \in Spreaders, TraverseSumWeights(s)
    PROVE  SpreaderTypes'
  <1>1. NextNode(s) \in Handles
    <2>1. to_visit[s] \in SUBSET Handles /\ to_visit[s] # {}
      BY DEF SpreaderTypes, RequestType, TraverseSumWeights
    <2> QED
      BY <2>1, LeastHandle DEF NextNode
  <1>2. SumWeights(NextNode(s)) \in Nat
    BY <1>1, WeightsType
  <1>3. TokenType'
    BY DEF SpreaderTypes, TokenType, TraverseSumWeights, tokenVars
  <1>4. RequestType'
    BY <1>2 DEF SpreaderTypes, RequestType, TraverseSumWeights, Move, Stages, dataVars
  <1>5. RequestShape'
    BY DEF SpreaderTypes, RequestType, RequestShape, Visiting, TraverseSumWeights, Move, dataVars
  <1> QED
    BY <1>3, <1>4, <1>5 DEF SpreaderTypes

LEMMA TraverseDeliverStimulusType ==
    ASSUME TypeOK, SpreaderTypes, NEW s \in Spreaders, TraverseDeliverStimulus(s)
    PROVE  SpreaderTypes'
  <1> DEFINE h == NextNode(s)
  <1>1. h \in Handles
    <2>1. to_visit[s] \in SUBSET Handles /\ to_visit[s] # {}
      BY DEF SpreaderTypes, RequestType, RequestShape, TraverseDeliverStimulus
    <2> QED
      BY <2>1, LeastHandle DEF NextNode
  <1>2. /\ importance' = [b \in Handles |->
              IF b \in Neighbors(h) THEN Plus(importance[b], Share(s, h, b)) ELSE importance[b]]
        /\ stimuli_to_spread' = [stimuli_to_spread EXCEPT ![h] = 0]
        /\ to_visit' = [to_visit EXCEPT ![s] = to_visit[s] \ {h}]
    BY DEF TraverseDeliverStimulus
  <1> HIDE DEF h
  <1>3. ASSUME NEW b \in Handles
        PROVE  importance[b] \in Amounts /\ Plus(importance[b], Share(s, h, b)) \in Amounts
    <2>1. /\ importance[b] \in Amounts /\ stimuli_to_spread[h] \in Amounts
          /\ edge_count[<<h, b>>] \in Int /\ summed[s] \in Nat
      <3>1. edge_count[<<h, b>>] \in Nat
        BY <1>1, WeightsType
      <3> QED
        BY <1>1, <3>1 DEF SpreaderTypes, TokenType, RequestType
    <2>2. Share(s, h, b) \in Amounts
      BY <2>1, AmountsType DEF Share
    <2> QED
      BY <2>1, <2>2, AmountsType
  <1>4. TokenType'
    <2>1. importance' \in [Handles -> Amounts]
      BY <1>2, <1>3
    <2>2. stimuli_to_spread' \in [Handles -> Amounts]
      <3>1. 0 \in Amounts
        BY DEF Amounts
      <3> QED
        BY <1>2, <3>1 DEF SpreaderTypes, TokenType
    <2> QED
      BY <2>1, <2>2 DEF SpreaderTypes, TokenType, TraverseDeliverStimulus
  <1>5. RequestType'
    BY <1>2
    DEF SpreaderTypes, RequestType, TraverseDeliverStimulus, Move, Stages, dataVars
  <1>6. RequestShape'
    BY <1>2
    DEF SpreaderTypes, RequestType, RequestShape, Visiting, TraverseDeliverStimulus, Move, dataVars
  <1> QED
    BY <1>4, <1>5, <1>6 DEF SpreaderTypes

LEMMA CorrelateType ==
    ASSUME SpreaderTypes, NEW t \in Updaters,
           Correlate(t) \/ \E list \in Lists : StartCorrelation(t, list)
    PROVE  SpreaderTypes'
  <1>1. UNCHANGED <<tokenVars, dataVars, visitVars, started, crashed>>
    BY DEF Correlate, StartCorrelation, spreadVars
  <1> QED
    BY <1>1 DEF SpreaderTypes, TokenType, RequestType, RequestShape, Visiting, tokenVars,
                dataVars, visitVars

LEMMA NextSpreaderType == TypeInvariant /\ [SpreaderNext]_allVars => TypeInvariant'
  <1> SUFFICES ASSUME TypeInvariant, [SpreaderNext]_allVars PROVE TypeInvariant'
    OBVIOUS
  <1>1. TypeOK /\ SpreaderTypes /\ largest_arity \in Nat
    BY DEF TypeInvariant, TypeOK, GraphType
  <1>2. CASE UNCHANGED allVars
    <2>1. UNCHANGED vars /\ UNCHANGED spreadVars
      BY <1>2 DEF allVars
    <2>2. TypeOK'
      BY <1>1, <2>1, NextType
    <2>3. SpreaderTypes'
      BY <1>1, <2>1 DEF SpreaderTypes, TokenType, RequestType, RequestShape, Visiting, spreadVars,
                        tokenVars, dataVars, visitVars
    <2> QED
      BY <2>2, <2>3 DEF TypeInvariant
  <1>3. CASE SpreaderNext
    <2>1. TypeOK'
      BY <1>1, <1>3, NetworkStep, NextType
    <2>2. ASSUME NEW s \in Spreaders, SpreadStimuli(s) \/ \E r \in Stimuli : StartStimulus(s, r)
          PROVE  SpreaderTypes'
      BY <1>1, <2>2, StartStimulusType, CollectRentType, DistributeWagesType, CrashType, RootType,
         ConsolidateNodeType, TraverseSumWeightsType, TraverseDeliverStimulusType
      DEF SpreadStimuli
    <2>3. SpreaderTypes'
      BY <1>1, <1>3, <2>2, CorrelateType DEF SpreaderNext
    <2> QED
      BY <2>1, <2>3 DEF TypeInvariant
  <1> QED
    BY <1>2, <1>3

\* Every state of a network, its updaters and its spreaders is well formed; in
\* particular the root is locked exactly during the visits (StimulusSpreader.cc:137-149).
THEOREM SpreadersWellFormed == SpreaderSpec => []SpreaderTypeOK
  BY InitSpreaderType, NextSpreaderType, TypeInvariantImplies, PTL DEF SpreaderSpec
-----------------------------------------------------------------------------
(* What a stimulus relies on while no correlation disturbs it *)

Calm == "correlation" \notin disturbances

Active(s) == stage[s] # "idle"

\* No correlation runs beside a stimulus, and none has run into another one.
AtRest ==
    Calm => \A s \in Spreaders : Active(s) =>
        Quiescent /\ ~overlapped /\ data_largest_arity[s] = largest_arity

\* The nodes that a spreader will consolidate have an entry.
Covered(s) ==
    /\ stage[s] \in {"wages", "consolidate"} => Present \subseteq DOMAIN importance_changes[s]
    /\ stage[s] = "consolidating" => to_visit[s] \subseteq DOMAIN importance_changes[s]

EntriesCover == Calm => \A s \in Spreaders : Covered(s)

\* What makes distribute_wages throw.
Faults(r) ==
    (IF r.SUM = NULL THEN {"no sum"} ELSE {})
    \cup (IF DOMAIN r.count \subseteq Handles THEN {} ELSE {"malformed handle"})

FaultsNoted == \A s \in Spreaders : Active(s) => Faults(stimulus[s]) \subseteq disturbances

\* An updater throws only on a list with a malformed handle.
ThrowsNoted ==
    \A t \in Updaters :
        /\ malformed[t] => "malformed handle" \in disturbances
        /\ pc[t] = "terminated" => malformed[t]

NetworkInvariant == ArityInvariant /\ Sequential

\* The inductive invariant of the crashes.
CrashInvariant ==
    /\ TypeInvariant /\ NetworkInvariant
    /\ AtRest /\ EntriesCover /\ FaultsNoted /\ ThrowsNoted
    /\ CrashNeedsCorrelation

LEMMA NetworkInit == SpreaderInit => NetworkInvariant
  BY InitType, InitArity, InitSequential DEF SpreaderInit, NetworkInvariant, ArityInvariant

LEMMA NetworkNext == NetworkInvariant /\ [SpreaderNext]_allVars => NetworkInvariant'
  <1>1. [SpreaderNext]_allVars => [Next]_vars
    BY NetworkStep DEF allVars
  <1> QED
    BY <1>1, NextArity, NextSequential DEF NetworkInvariant

\* What happened is not forgotten.
LEMMA DisturbancesGrow ==
    ASSUME SpreaderNext
    PROVE  disturbances \subseteq disturbances'
  <1>1. ASSUME NEW s \in Spreaders, SpreadStimuli(s) \/ \E r \in Stimuli : StartStimulus(s, r)
        PROVE  disturbances \subseteq disturbances'
    BY <1>1 DEF SpreadStimuli, StartStimulus, CollectRent, DistributeWages, WagesThrow, LockRoot,
       UnlockRoot, ConsolidateNode, NoChanges, TraverseSumWeights, TraverseDeliverStimulus,
       EdgeNotLinked, Crash
  <1>2. ASSUME NEW t \in Updaters, Correlate(t) \/ \E list \in Lists : StartCorrelation(t, list)
        PROVE  disturbances \subseteq disturbances'
    BY <1>2 DEF Correlate, StartCorrelation, spreadVars
  <1> QED
    BY <1>1, <1>2 DEF SpreaderNext

\* While stimuli are processed and none is disturbed the network does not change.
LEMMA CalmStep ==
    ASSUME AtRest, SpreaderNext, Calm', NEW s \in Spreaders, Active(s)
    PROVE  UNCHANGED vars
  <1>1. Calm /\ Quiescent
    BY DisturbancesGrow DEF Calm, AtRest
  <1>2. ASSUME NEW t \in Updaters
        PROVE  ~Correlate(t)
    <2>1. pc[t] = "idle"
      BY <1>1 DEF Quiescent
    <2> QED
      BY <2>1 DEF Correlate, AddNode, NextPair, Throw, Finish, AddEdge, InsertEdge, CheckFirstTime,
                  LinkEdge, ReadArity, WriteArity, CompareArity, AssignLargest
  <1>3. ASSUME NEW t \in Updaters, NEW list \in Lists
        PROVE  ~StartCorrelation(t, list)
    BY DEF StartCorrelation, Active, Calm
  <1>4. ASSUME NEW u \in Spreaders, SpreadStimuli(u) \/ \E r \in Stimuli : StartStimulus(u, r)
        PROVE  UNCHANGED vars
    BY <1>4 DEF SpreadStimuli, StartStimulus, CollectRent, DistributeWages, WagesThrow, LockRoot,
       UnlockRoot, ConsolidateNode, NoChanges, TraverseSumWeights, TraverseDeliverStimulus,
       EdgeNotLinked, Crash
  <1> QED
    BY <1>2, <1>3, <1>4 DEF SpreaderNext

\* A correlation of the workers leaves the spreaders alone.
LEMMA CorrelationKeeps ==
    ASSUME NEW t \in Updaters, Correlate(t) \/ \E list \in Lists : StartCorrelation(t, list)
    PROVE  UNCHANGED <<tokenVars, dataVars, visitVars, started, crashed>>
  BY DEF Correlate, StartCorrelation, spreadVars

\* A step of a spreader leaves the requests of the others alone.
LEMMA SpreaderKeeps ==
    ASSUME SpreaderTypes, NEW s \in Spreaders,
           SpreadStimuli(s) \/ \E r \in Stimuli : StartStimulus(s, r)
    PROVE  /\ UNCHANGED vars
           /\ \A u \in Spreaders \ {s} :
                 /\ stage'[u] = stage[u] /\ stimulus'[u] = stimulus[u]
                 /\ data_largest_arity'[u] = data_largest_arity[u]
                 /\ importance_changes'[u] = importance_changes[u]
                 /\ to_visit'[u] = to_visit[u] /\ summed'[u] = summed[u]
  <1>1. CASE \E r \in Stimuli : StartStimulus(s, r)
    BY <1>1 DEF StartStimulus, Move, SpreaderTypes, RequestType
  <1>2. CASE CollectRent(s)
    BY <1>2 DEF CollectRent, Move, SpreaderTypes, RequestType
  <1>3. CASE DistributeWages(s)
    BY <1>3 DEF DistributeWages, Move, SpreaderTypes, RequestType
  <1>4. CASE WagesThrow(s) \/ NoChanges(s) \/ EdgeNotLinked(s)
    BY <1>4 DEF WagesThrow, NoChanges, EdgeNotLinked, Crash, dataVars, visitVars
  <1>5. CASE LockRoot(s) \/ UnlockRoot(s)
    BY <1>5 DEF LockRoot, UnlockRoot, Move, dataVars, SpreaderTypes, RequestType
  <1>6. CASE ConsolidateNode(s)
    BY <1>6 DEF ConsolidateNode, dataVars, SpreaderTypes, RequestType
  <1>7. CASE TraverseSumWeights(s) \/ TraverseDeliverStimulus(s)
    BY <1>7 DEF TraverseSumWeights, TraverseDeliverStimulus, Move, dataVars, SpreaderTypes,
                RequestType
  <1> QED
    BY <1>1, <1>2, <1>3, <1>4, <1>5, <1>6, <1>7 DEF SpreadStimuli

LEMMA AtRestStep ==
    ASSUME SpreaderTypes, SpreaderTypes', AtRest, SpreaderNext
    PROVE  AtRest'
  <1> SUFFICES ASSUME Calm', NEW u \in Spreaders, Active(u)'
               PROVE  (Quiescent /\ ~overlapped /\ data_largest_arity[u] = largest_arity)'
    BY DEF AtRest
  <1>1. Calm
    BY DisturbancesGrow DEF Calm
  <1>2. CASE Active(u)
    <2>1. UNCHANGED vars /\ Quiescent /\ ~overlapped /\ data_largest_arity[u] = largest_arity
      BY <1>1, <1>2, CalmStep DEF AtRest
    <2>2. data_largest_arity'[u] = data_largest_arity[u]
      <3>1. ASSUME NEW t \in Updaters, Correlate(t) \/ \E list \in Lists : StartCorrelation(t, list)
            PROVE  data_largest_arity'[u] = data_largest_arity[u]
        BY <3>1, CorrelationKeeps DEF dataVars
      <3>2. ASSUME NEW s \in Spreaders, NEW r \in Stimuli, StartStimulus(s, r)
            PROVE  data_largest_arity'[u] = data_largest_arity[u]
        BY <1>2, <3>2 DEF StartStimulus, Active, SpreaderTypes, RequestType
      <3>3. ASSUME NEW s \in Spreaders, SpreadStimuli(s)
            PROVE  data_largest_arity'[u] = data_largest_arity[u]
        BY <3>3 DEF SpreadStimuli, CollectRent, DistributeWages, WagesThrow, LockRoot,
           UnlockRoot, ConsolidateNode, NoChanges, TraverseSumWeights, TraverseDeliverStimulus,
           EdgeNotLinked, Crash, dataVars
      <3> QED
        BY <3>1, <3>2, <3>3 DEF SpreaderNext
    <2> QED
      BY <2>1, <2>2 DEF Quiescent, vars, workerVars, largestVars, historyVars
  <1>3. CASE ~Active(u)
    <2>1. PICK r \in Stimuli : StartStimulus(u, r)
      <3>1. ASSUME NEW t \in Updaters, Correlate(t) \/ \E list \in Lists : StartCorrelation(t, list)
            PROVE  FALSE
        BY <1>3, <3>1, CorrelationKeeps DEF Active, visitVars
      <3>2. ASSUME NEW s \in Spreaders \ {u}, SpreadStimuli(s) \/ \E r \in Stimuli : StartStimulus(s, r)
            PROVE  FALSE
        BY <1>3, <3>2, SpreaderKeeps DEF Active
      <3>3. ~SpreadStimuli(u)
        BY <1>3 DEF Active, SpreadStimuli, CollectRent, DistributeWages, WagesThrow, LockRoot,
           UnlockRoot, ConsolidateNode, NoChanges, TraverseSumWeights, TraverseDeliverStimulus,
           EdgeNotLinked, SpreaderTypes, RequestType, RequestShape, Visiting
      <3> QED
        BY <3>1, <3>2, <3>3 DEF SpreaderNext
    <2>2. ~overlapped /\ \A t \in Updaters : pc[t] = "idle"
      BY <2>1 DEF StartStimulus, DisturbancesOf, Calm
    <2>3. UNCHANGED vars /\ data_largest_arity'[u] = largest_arity
      BY <2>1 DEF StartStimulus, SpreaderTypes, RequestType
    <2> QED
      BY <2>2, <2>3 DEF Quiescent, vars, workerVars, largestVars, historyVars
  <1> QED
    BY <1>2, <1>3

LEMMA EntriesCoverStep ==
    ASSUME SpreaderTypes, AtRest, EntriesCover, SpreaderNext
    PROVE  EntriesCover'
  <1> SUFFICES ASSUME Calm', NEW u \in Spreaders
               PROVE  Covered(u)'
    BY DEF EntriesCover
  <1>1. Calm /\ Covered(u)
    BY DisturbancesGrow DEF Calm, EntriesCover
  <1>2. ASSUME NEW t \in Updaters, Correlate(t) \/ \E list \in Lists : StartCorrelation(t, list)
        PROVE  Covered(u)'
    <2>1. UNCHANGED <<dataVars, visitVars>>
      BY <1>2, CorrelationKeeps
    <2>2. CASE Active(u)
      <3>1. UNCHANGED vars
        BY <2>2, CalmStep
      <3> QED
        BY <1>1, <2>1, <3>1 DEF Covered, Present, vars, graphVars, dataVars, visitVars
    <2>3. CASE ~Active(u)
      BY <2>1, <2>3 DEF Covered, Active, visitVars
    <2> QED
      BY <2>2, <2>3
  <1>3. ASSUME NEW s \in Spreaders \ {u}, SpreadStimuli(s) \/ \E r \in Stimuli : StartStimulus(s, r)
        PROVE  Covered(u)'
    BY <1>1, <1>3, SpreaderKeeps DEF Covered, Present, vars, graphVars
  <1>4. ASSUME SpreadStimuli(u) \/ \E r \in Stimuli : StartStimulus(u, r)
        PROVE  Covered(u)'
    <2>1. Present' = Present
      BY <1>4, SpreaderKeeps DEF Present, vars, graphVars
    <2>2. CASE \E r \in Stimuli : StartStimulus(u, r)
      BY <2>2 DEF StartStimulus, Move, Covered, SpreaderTypes, RequestType
    <2>3. CASE CollectRent(u)
      BY <2>1, <2>3 DEF CollectRent, Renters, Move, Covered, SpreaderTypes, RequestType
    <2>4. CASE DistributeWages(u)
      <3>1. DOMAIN importance_changes[u] \subseteq DOMAIN importance_changes'[u]
        BY <2>4 DEF DistributeWages, SpreaderTypes, RequestType
      <3>2. stage[u] = "wages" /\ stage'[u] = "consolidate"
        BY <2>4 DEF DistributeWages, Move, SpreaderTypes, RequestType
      <3> QED
        BY <1>1, <2>1, <3>1, <3>2 DEF Covered
    <2>5. CASE WagesThrow(u) \/ NoChanges(u) \/ EdgeNotLinked(u)
      BY <1>1, <2>1, <2>5 DEF WagesThrow, NoChanges, EdgeNotLinked, Crash, dataVars, visitVars, Covered
    <2>6. CASE LockRoot(u) \/ UnlockRoot(u)
      BY <1>1, <2>1, <2>6 DEF LockRoot, UnlockRoot, Move, dataVars, Covered, SpreaderTypes, RequestType
    <2>7. CASE ConsolidateNode(u)
      BY <1>1, <2>1, <2>7 DEF ConsolidateNode, dataVars, Covered, SpreaderTypes, RequestType
    <2>8. CASE TraverseSumWeights(u) \/ TraverseDeliverStimulus(u)
      BY <2>8 DEF TraverseSumWeights, TraverseDeliverStimulus, Move, Covered, SpreaderTypes, RequestType
    <2> QED
      BY <1>4, <2>2, <2>3, <2>4, <2>5, <2>6, <2>7, <2>8 DEF SpreadStimuli
  <1> QED
    BY <1>2, <1>3, <1>4 DEF SpreaderNext

\* A request without "SUM" or with a malformed handle is remembered when it starts.
LEMMA FaultsNotedStep ==
    ASSUME SpreaderTypes, FaultsNoted, SpreaderNext
    PROVE  FaultsNoted'
  <1> SUFFICES ASSUME NEW u \in Spreaders, Active(u)'
               PROVE  Faults(stimulus'[u]) \subseteq disturbances'
    BY DEF FaultsNoted, Faults
  <1>1. Active(u) => Faults(stimulus[u]) \subseteq disturbances'
    BY DisturbancesGrow DEF FaultsNoted
  <1>2. ASSUME NEW t \in Updaters, Correlate(t) \/ \E list \in Lists : StartCorrelation(t, list)
        PROVE  Faults(stimulus'[u]) \subseteq disturbances'
    BY <1>1, <1>2, CorrelationKeeps DEF Active, dataVars, visitVars
  <1>3. ASSUME NEW s \in Spreaders \ {u}, SpreadStimuli(s) \/ \E r \in Stimuli : StartStimulus(s, r)
        PROVE  Faults(stimulus'[u]) \subseteq disturbances'
    BY <1>1, <1>3, SpreaderKeeps DEF Active
  <1>4. ASSUME SpreadStimuli(u)
        PROVE  Faults(stimulus'[u]) \subseteq disturbances'
    <2>1. stimulus'[u] = stimulus[u]
      BY <1>4 DEF SpreadStimuli, CollectRent, DistributeWages, WagesThrow, LockRoot,
         UnlockRoot, ConsolidateNode, NoChanges, TraverseSumWeights, TraverseDeliverStimulus,
         EdgeNotLinked, Crash, dataVars
    <2>2. Active(u)
      BY <1>4 DEF Active, SpreadStimuli, CollectRent, DistributeWages, WagesThrow, LockRoot,
         UnlockRoot, ConsolidateNode, NoChanges, TraverseSumWeights, TraverseDeliverStimulus,
         EdgeNotLinked
    <2> QED
      BY <1>1, <2>1, <2>2
  <1>5. ASSUME NEW r \in Stimuli, StartStimulus(u, r)
        PROVE  Faults(stimulus'[u]) \subseteq disturbances'
    <2>1. stimulus'[u] = r
      BY <1>5 DEF StartStimulus, SpreaderTypes, RequestType
    <2>2. DisturbancesOf(u, r) \subseteq disturbances'
      BY <1>5 DEF StartStimulus
    <2>3. Faults(r) \subseteq DisturbancesOf(u, r)
      BY DEF Faults, DisturbancesOf
    <2> QED
      BY <2>1, <2>2, <2>3
  <1> QED
    BY <1>2, <1>3, <1>4, <1>5 DEF SpreaderNext

LEMMA ThrowsNotedStep ==
    ASSUME TypeOK, ThrowsNoted, SpreaderNext
    PROVE  ThrowsNoted'
  <1>1. disturbances \subseteq disturbances'
    BY DisturbancesGrow
  <1>2. ASSUME NEW s \in Spreaders, SpreadStimuli(s) \/ \E r \in Stimuli : StartStimulus(s, r)
        PROVE  ThrowsNoted'
    <2>1. UNCHANGED vars
      BY <1>2 DEF SpreadStimuli, StartStimulus, CollectRent, DistributeWages, WagesThrow, LockRoot,
         UnlockRoot, ConsolidateNode, NoChanges, TraverseSumWeights, TraverseDeliverStimulus,
         EdgeNotLinked, Crash
    <2>2. pc' = pc /\ malformed' = malformed
      BY <2>1 DEF vars, workerVars, loopVars
    <2> QED
      BY <1>1, <2>2 DEF ThrowsNoted
  <1>3. ASSUME NEW t \in Updaters, Correlate(t)
        PROVE  ThrowsNoted'
    <2>1. malformed' = malformed
      BY <1>3 DEF Correlate, AddNode, NextPair, Throw, Finish, AddEdge, InsertEdge, CheckFirstTime,
                  LinkEdge, ReadArity, WriteArity, CompareArity, AssignLargest, loopVars
    <2>2. \A u \in Updaters : pc'[u] = "terminated" => pc[u] = "terminated" \/ malformed[u]
      BY <1>3 DEF Correlate, AddNode, NextPair, Throw, Finish, AddEdge, InsertEdge, CheckFirstTime,
                  LinkEdge, ReadArity, WriteArity, CompareArity, AssignLargest, Done, Goto,
                  TypeOK, WorkerType
    <2> QED
      BY <1>1, <2>1, <2>2 DEF ThrowsNoted
  <1>4. ASSUME NEW t \in Updaters, NEW list \in Lists, StartCorrelation(t, list)
        PROVE  ThrowsNoted'
    <2>1. PICK bad \in BOOLEAN : malformed' = [malformed EXCEPT ![t] = bad]
      BY <1>4 DEF StartCorrelation, Start
    <2>2. /\ malformed \in [Updaters -> BOOLEAN]
          /\ \A u \in Updaters : pc'[u] = "terminated" => u # t /\ pc[u] = "terminated"
      BY <1>4 DEF StartCorrelation, Start, Goto, TypeOK, WorkerType
    <2>3. malformed'[t] => "malformed handle" \in disturbances'
      BY <1>4 DEF StartCorrelation
    <2> QED
      BY <1>1, <2>1, <2>2, <2>3 DEF ThrowsNoted
  <1> QED
    BY <1>2, <1>3, <1>4 DEF SpreaderNext

\* While a stimulus is processed and none is disturbed, every edge is linked.
LEMMA CalmEdgesLinked ==
    ASSUME TypeInvariant, NetworkInvariant, AtRest, Calm, NEW s \in Spreaders, Active(s),
           NEW h \in Handles
    PROVE  EdgesLinked(h)
  <1>1. Quiescent /\ ~overlapped
    BY DEF AtRest
  <1>2. LinksExact
    BY <1>1 DEF NetworkInvariant, Sequential
  <1>3. \A t \in Updaters : pc[t] = "idle"
    BY <1>1 DEF Quiescent
  <1>4. \A e \in Edges : edge_count[e] > 0 => e \in linked
    BY <1>2, <1>3 DEF LinksExact
  <1> QED
    BY <1>4 DEF EdgesLinked, Neighbors, Edges

LEMMA CrashStep ==
    ASSUME CrashInvariant, SpreaderNext
    PROVE  CrashNeedsCorrelation'
  <1> SUFFICES ASSUME Calm', "no sum" \notin disturbances', "malformed handle" \notin disturbances',
                      (crashed \/ ~Alive)'
               PROVE  FALSE
    BY DEF CrashNeedsCorrelation, Calm
  <1>1. /\ Calm /\ "no sum" \notin disturbances /\ "malformed handle" \notin disturbances
        /\ ~crashed
    BY DisturbancesGrow DEF Calm, SpreaderNext
  <1>0. crashed'
    <2>1. ThrowsNoted'
      BY ThrowsNotedStep DEF CrashInvariant, TypeInvariant
    <2> QED
      BY <2>1 DEF ThrowsNoted, Alive
  <1>2. PICK s \in Spreaders : WagesThrow(s) \/ NoChanges(s) \/ EdgeNotLinked(s)
    <2>1. ASSUME NEW t \in Updaters, Correlate(t) \/ \E list \in Lists : StartCorrelation(t, list)
          PROVE  FALSE
      BY <1>0, <1>1, <2>1, CorrelationKeeps
    <2>2. ASSUME NEW s \in Spreaders, SpreadStimuli(s) \/ \E r \in Stimuli : StartStimulus(s, r)
          PROVE  WagesThrow(s) \/ NoChanges(s) \/ EdgeNotLinked(s)
      BY <1>0, <1>1, <2>2 DEF SpreadStimuli, StartStimulus, CollectRent, DistributeWages, LockRoot,
         UnlockRoot, ConsolidateNode, TraverseSumWeights, TraverseDeliverStimulus
    <2> QED
      BY <2>1, <2>2 DEF SpreaderNext
  <1>3. Active(s)
    BY <1>2 DEF Active, WagesThrow, NoChanges, EdgeNotLinked
  <1>4. ~WagesThrow(s)
    BY <1>1, <1>3 DEF CrashInvariant, FaultsNoted, Faults, WagesThrow
  <1>5. to_visit[s] # {} => NextNode(s) \in to_visit[s] /\ to_visit[s] \in SUBSET Handles
    <2>1. to_visit[s] \in SUBSET Handles
      BY DEF CrashInvariant, TypeInvariant, SpreaderTypes, RequestType
    <2> QED
      BY <2>1, LeastHandle DEF NextNode
  <1>6. ~NoChanges(s)
    <2>1. Covered(s)
      BY <1>1 DEF CrashInvariant, EntriesCover
    <2> QED
      BY <1>5, <2>1 DEF NoChanges, Covered
  <1>7. ~EdgeNotLinked(s)
    <2>1. stage[s] = "delivering" => to_visit[s] # {}
      BY DEF CrashInvariant, TypeInvariant, SpreaderTypes, RequestShape
    <2>2. \A h \in Handles : EdgesLinked(h)
      BY <1>1, <1>3, CalmEdgesLinked DEF CrashInvariant
    <2> QED
      BY <1>5, <2>1, <2>2 DEF EdgeNotLinked
  <1> QED
    BY <1>2, <1>4, <1>6, <1>7

LEMMA InitCrash == SpreaderInit => CrashInvariant
  <1> SUFFICES ASSUME SpreaderInit PROVE CrashInvariant
    OBVIOUS
  <1>1. TypeInvariant /\ NetworkInvariant
    BY InitSpreaderType, NetworkInit
  <1>2. AtRest /\ EntriesCover /\ FaultsNoted
    BY DEF SpreaderInit, AtRest, Active, EntriesCover, Covered, FaultsNoted
  <1>3. ThrowsNoted /\ CrashNeedsCorrelation
    BY DEF SpreaderInit, Init, ThrowsNoted, CrashNeedsCorrelation, Alive
  <1> QED
    BY <1>1, <1>2, <1>3 DEF CrashInvariant

LEMMA NextCrash == CrashInvariant /\ [SpreaderNext]_allVars => CrashInvariant'
  <1> SUFFICES ASSUME CrashInvariant, [SpreaderNext]_allVars PROVE CrashInvariant'
    OBVIOUS
  <1>1. TypeInvariant' /\ NetworkInvariant'
    BY NextSpreaderType, NetworkNext DEF CrashInvariant
  <1>2. CASE SpreaderNext
    <2>1. AtRest' /\ EntriesCover' /\ FaultsNoted' /\ ThrowsNoted'
      BY <1>1, <1>2, AtRestStep, EntriesCoverStep, FaultsNotedStep, ThrowsNotedStep
      DEF CrashInvariant, TypeInvariant
    <2> QED
      BY <1>1, <1>2, <2>1, CrashStep DEF CrashInvariant
  <1>3. CASE UNCHANGED allVars
    <2>1. AtRest' /\ EntriesCover' /\ FaultsNoted'
      BY <1>3 DEF CrashInvariant, AtRest, Calm, Active, Quiescent, EntriesCover, Covered, Present,
         FaultsNoted, Faults, allVars, vars, graphVars, largestVars, workerVars,
         historyVars, spreadVars, dataVars, visitVars
    <2>2. ThrowsNoted' /\ CrashNeedsCorrelation'
      BY <1>3 DEF CrashInvariant, ThrowsNoted, CrashNeedsCorrelation, Alive, allVars, vars,
         workerVars, loopVars, spreadVars
    <2> QED
      BY <1>1, <2>1, <2>2 DEF CrashInvariant
  <1> QED
    BY <1>2, <1>3

\* Whatever the stimulus workers do at the same time, only a correlation that runs
\* beside a stimulus, correlations that ran beside one another before it, or a request
\* without "SUM" or with a handle of a wrong length can end the process
\* (StimulusSpreader.cc:59-62, 75-88, 108-116; HandleTrie.cc:82-84).
THEOREM OnlyCorrelationsCrash == SpreaderSpec => []CrashNeedsCorrelation
  <1>1. CrashInvariant => CrashNeedsCorrelation
    BY DEF CrashInvariant
  <1> QED
    BY <1>1, InitCrash, NextCrash, PTL DEF SpreaderSpec

-----------------------------------------------------------------------------
(* No node owes tokens while stimuli and correlations do not overlap *)

Undisturbed == disturbances \cap {"stimulus", "correlation"} = {}

\* What is not owed.
Credits == Nat \cup {NaN}

OneStimulus ==
    Undisturbed => \A s, u \in Spreaders : s # u => ~Active(s) \/ ~Active(u)

NoDebt ==
    Undisturbed => /\ "debt" \notin disturbances
                   /\ importance \in [Handles -> Credits]
                   /\ stimuli_to_spread \in [Handles -> Credits]

\* The node still owns the rent that was computed from its importance.
Affordable(s, h) ==
    LET change == importance_changes[s][h]
    IN /\ change.rent \in Credits /\ change.wages \in Credits
       /\ NaN \notin {change.rent, importance[h]} => change.rent <= importance[h]

\* The entries that a spreader has still to consolidate.
Due(s) ==
    CASE stage[s] \in {"wages", "consolidate"} -> DOMAIN importance_changes[s]
      [] stage[s] = "consolidating" -> to_visit[s] \cap DOMAIN importance_changes[s]
      [] OTHER -> {}

RentsAffordable ==
    Undisturbed => \A s \in Spreaders : \A h \in Due(s) : Affordable(s, h)

CreditInvariant ==
    /\ TypeInvariant /\ NetworkInvariant /\ AtRest
    /\ OneStimulus /\ NoDebt /\ RentsAffordable

LEMMA CreditsType ==
    ASSUME NEW x \in Credits, NEW y \in Credits
    PROVE  /\ Plus(x, y) \in Credits
           /\ NaN \notin {x, y} /\ y <= x => Minus(x, y) \in Credits
           /\ NaN \in {x, y} => Minus(x, y) \in Credits
           /\ \A n, d \in Nat : Scaled(x, n, d) \in Credits
  <1>1. NaN \notin Int
    BY StimulusAssumption
  <1>2. /\ Plus(x, y) \in Credits
        /\ NaN \notin {x, y} /\ y <= x => Minus(x, y) \in Credits
        /\ NaN \in {x, y} => Minus(x, y) \in Credits
    BY <1>1 DEF Credits, Plus, Minus
  <1>3. ASSUME NEW n \in Nat, NEW d \in Nat
        PROVE  Scaled(x, n, d) \in Credits
    <2>1. CASE x = NaN \/ d = 0
      BY <2>1 DEF Credits, Scaled
    <2>2. CASE ~(x = NaN \/ d = 0)
      <3>1. x * n \in Nat /\ d \in Nat \ {0}
        BY <2>2 DEF Credits
      <3>2. PICK m \in Nat : m = x * n
        BY <3>1
      <3>3. m \div d \in Nat
        BY <3>1, Quotient
      <3> QED
        BY <2>2, <3>2, <3>3 DEF Scaled, Credits
    <2> QED
      BY <2>1, <2>2
  <1> QED
    BY <1>2, <1>3

LEMMA TotalCredits ==
    ASSUME NEW S, IsFiniteSet(S), NEW f, \A h \in S : f[h] \in Credits
    PROVE  Total(f, S) \in Credits
  <1>1. CASE \E h \in S : f[h] = NaN
    BY <1>1 DEF Total, Credits
  <1>2. CASE ~ \E h \in S : f[h] = NaN
    <2>1. \A h \in S : f[h] \in Nat
      BY <1>2 DEF Credits
    <2> QED
      BY <2>1, TotalIsSum, SumNat DEF Credits, Ints
  <1> QED
    BY <1>1, <1>2

\* A part of an amount is not more than the amount.
LEMMA Portion ==
    ASSUME NEW x \in Nat, NEW d \in Nat \ {0}, NEW n \in 0..d
    PROVE  (x * n) \div d \in 0..x
  <1>1. x * n \in Nat /\ x * n <= d * x
    OBVIOUS
  <1>2. PICK m \in Nat : m = x * n
    BY <1>1
  <1>3. PICK q \in Nat : q = m \div d
    BY Quotient
  <1>4. d * q <= m
    BY <1>3, Quotient
  <1>5. d * q <= d * x
    BY <1>1, <1>2, <1>4
  <1>6. q <= x
    BY <1>5
  <1> QED
    BY <1>2, <1>3, <1>6

\* As above, for amounts.
LEMMA PortionOf ==
    ASSUME NEW x \in Credits, NEW d \in Nat, NEW n \in 0..d
    PROVE  /\ Scaled(x, n, d) \in Credits
           /\ NaN \notin {x, Scaled(x, n, d)} => Scaled(x, n, d) <= x
           /\ Minus(x, Scaled(x, n, d)) \in Credits
  <1>1. CASE x = NaN \/ d = 0
    BY <1>1 DEF Credits, Scaled, Minus
  <1>2. CASE ~(x = NaN \/ d = 0)
    <2>1. x \in Nat /\ d \in Nat \ {0}
      BY <1>2 DEF Credits
    <2>2. PICK m \in 0..x : m = (x * n) \div d
      BY <2>1, Portion
    <2>3. Scaled(x, n, d) = m
      BY <1>2, <2>2 DEF Scaled
    <2> QED
      BY <2>1, <2>2, <2>3, StimulusAssumption DEF Credits, Minus
  <1> QED
    BY <1>1, <1>2

\* While a stimulus is processed and none is disturbed, no arity is above the copy
\* of largest_arity: at most UPPERBOUND_PERCENT of an importance is spread.
LEMMA SpreadRate ==
    ASSUME TypeInvariant, NetworkInvariant, AtRest, Calm, NEW s \in Spreaders, Active(s),
           NEW h \in Handles
    PROVE  /\ 100 * data_largest_arity[s] \in Nat
           /\ LOWERBOUND_PERCENT * data_largest_arity[s]
                + (UPPERBOUND_PERCENT - LOWERBOUND_PERCENT) * arity[h]
              \in 0..(100 * data_largest_arity[s])
  <1>1. Quiescent /\ ~overlapped /\ data_largest_arity[s] = largest_arity
    BY DEF AtRest
  <1>2. LargestExact /\ \A t \in Updaters : pc[t] = "idle"
    BY <1>1 DEF NetworkInvariant, Sequential, Quiescent
  <1>3. arity[h] \in Nat /\ largest_arity \in Nat /\ arity[h] <= largest_arity
    BY <1>2 DEF LargestExact, Raising, TypeInvariant, TypeOK, GraphType
  <1>4. \A l \in 0..100, u \in 0..100, a, m \in Nat :
           l <= u /\ a <= m => l * m + (u - l) * a \in 0..(100 * m)
    <2> SUFFICES ASSUME NEW l \in 0..100, NEW u \in 0..100, NEW a \in Nat, NEW m \in Nat,
                        l <= u, a <= m
                 PROVE  l * m + (u - l) * a \in 0..(100 * m)
      OBVIOUS
    <2>1. PICK r \in Nat : r = u - l
      OBVIOUS
    <2>2. r * a \in Nat /\ r * a <= r * m /\ l * m \in Nat
      BY <2>1
    <2>3. l * m + r * m = u * m /\ u * m <= 100 * m
      BY <2>1
    <2> QED
      BY <2>1, <2>2, <2>3
  <1>5. LOWERBOUND_PERCENT \in 0..100 /\ UPPERBOUND_PERCENT \in 0..100
        /\ LOWERBOUND_PERCENT <= UPPERBOUND_PERCENT
    BY StimulusAssumption
  <1>6. LOWERBOUND_PERCENT * largest_arity + (UPPERBOUND_PERCENT - LOWERBOUND_PERCENT) * arity[h]
           \in 0..(100 * largest_arity)
    BY <1>3, <1>4, <1>5, Zenon
  <1> QED
    BY <1>1, <1>3, <1>6

LEMMA Acting ==
    ASSUME NEW s \in Spreaders, SpreadStimuli(s)
    PROVE  Active(s)
  BY DEF Active, SpreadStimuli, CollectRent, DistributeWages, WagesThrow, LockRoot, UnlockRoot,
         ConsolidateNode, NoChanges, TraverseSumWeights, TraverseDeliverStimulus, EdgeNotLinked

LEMMA OnlyOne ==
    ASSUME SpreaderTypes, OneStimulus, Undisturbed, Undisturbed', NEW s \in Spreaders,
           SpreadStimuli(s) \/ \E r \in Stimuli : StartStimulus(s, r)
    PROVE  \A u \in Spreaders \ {s} : ~Active(u) /\ ~Active(u)'
  <1> SUFFICES ASSUME NEW u \in Spreaders \ {s} PROVE ~Active(u)
    BY SpreaderKeeps DEF Active
  <1>1. CASE SpreadStimuli(s)
    BY <1>1, Acting DEF OneStimulus
  <1>2. CASE \E r \in Stimuli : StartStimulus(s, r)
    BY <1>2 DEF StartStimulus, DisturbancesOf, Undisturbed, Active
  <1> QED
    BY <1>1, <1>2

LEMMA StillUndisturbed ==
    ASSUME SpreaderNext, Undisturbed'
    PROVE  Undisturbed
  BY DisturbancesGrow DEF Undisturbed

LEMMA OneStimulusStep ==
    ASSUME SpreaderTypes, OneStimulus, SpreaderNext
    PROVE  OneStimulus'
  <1> SUFFICES ASSUME Undisturbed', NEW a \in Spreaders, NEW b \in Spreaders, a # b
               PROVE  (~Active(a) \/ ~Active(b))'
    BY DEF OneStimulus
  <1>1. Undisturbed
    BY StillUndisturbed
  <1>2. ASSUME NEW t \in Updaters, Correlate(t) \/ \E list \in Lists : StartCorrelation(t, list)
        PROVE  (~Active(a) \/ ~Active(b))'
    BY <1>1, <1>2, CorrelationKeeps DEF OneStimulus, Active, visitVars
  <1>3. ASSUME NEW s \in Spreaders, SpreadStimuli(s) \/ \E r \in Stimuli : StartStimulus(s, r)
        PROVE  (~Active(a) \/ ~Active(b))'
    BY <1>1, <1>3, OnlyOne
  <1> QED
    BY <1>2, <1>3 DEF SpreaderNext

\* The rents that a request collects are affordable when they are computed ...
LEMMA CollectRentCredit ==
    ASSUME CreditInvariant, Undisturbed, NEW s \in Spreaders, CollectRent(s)
    PROVE  \A h \in Due(s)' : Affordable(s, h)'
  <1>1. /\ importance_changes'[s] = [h \in Renters |-> [rent |-> Rent(h), wages |-> 0]]
        /\ stage'[s] = "wages" /\ importance' = importance
    BY DEF CollectRent, Move, tokenVars, CreditInvariant, TypeInvariant, SpreaderTypes, RequestType
  <1>2. SUFFICES ASSUME NEW h \in Renters PROVE Affordable(s, h)'
    BY <1>1 DEF Due
  <1>3. importance[h] \in Credits
    BY PresentHandles DEF CreditInvariant, NoDebt
  <1>4. /\ Rent(h) \in Credits
        /\ NaN \notin {importance[h], Rent(h)} => Rent(h) <= importance[h]
    BY <1>3, PortionOf, StimulusAssumption DEF Rent
  <1> QED
    BY <1>1, <1>4 DEF Affordable, Credits

\* ... and the wages, which are shares of rents and tokens, are not negative.
LEMMA DistributeWagesCredit ==
    ASSUME CreditInvariant, Undisturbed, NEW s \in Spreaders, DistributeWages(s)
    PROVE  \A h \in Due(s)' : Affordable(s, h)'
  <1> DEFINE total == Plus(tokens_to_distribute, TotalRent(s))
             paid == DOMAIN stimulus[s].count
             wages(h) == Scaled(total, stimulus[s].count[h], stimulus[s].SUM)
             D == DOMAIN importance_changes[s]
             rents == [h \in D |-> importance_changes[s][h].rent]
  <1>1. SpreaderTypes
    BY DEF CreditInvariant, TypeInvariant
  <1>2. /\ stimulus[s].SUM \in Nat /\ paid \in SUBSET Handles
        /\ \A h \in paid : stimulus[s].count[h] \in Nat
    BY <1>1, StimuliAssumption DEF SpreaderTypes, RequestShape, DistributeWages
  <1>3. \A h \in D : Affordable(s, h)
    BY DEF CreditInvariant, RentsAffordable, Due, DistributeWages
  <1>4. IsFiniteSet(D) /\ D \in SUBSET Handles /\ \A h \in D : importance_changes[s][h] \in Changes
    BY <1>1, EntryType DEF SpreaderTypes
  <1>5. total \in Credits
    <2>1. \A h \in D : rents[h] \in Credits
      BY <1>3 DEF Affordable
    <2>2. TotalRent(s) = Total(rents, D)
      BY DEF TotalRent
    <2>3. TotalRent(s) \in Credits
      <3> HIDE DEF rents, D
      <3> QED
        BY <1>4, <2>1, <2>2, TotalCredits
    <2>4. tokens_to_distribute \in Credits
      BY <1>1, StimulusAssumption DEF SpreaderTypes, TokenType, Credits
    <2> QED
      BY <2>3, <2>4, CreditsType
  <1>6. ASSUME NEW h \in paid
        PROVE  wages(h) \in Credits
    <2> HIDE DEF total
    <2> QED
      BY <1>2, <1>5, CreditsType
  <1>7. /\ importance_changes'[s] = [h \in D \cup paid |->
               IF h \in paid THEN Paid(s, h, wages(h)) ELSE importance_changes[s][h]]
        /\ stage'[s] = "consolidate" /\ importance' = importance
    BY <1>1 DEF DistributeWages, Move, SpreaderTypes, RequestType
  <1>8. Due(s)' = D \cup paid
    BY <1>7 DEF Due
  <1>9. ASSUME NEW h \in D \cup paid
        PROVE  Affordable(s, h)'
    <2>1. CASE h \notin paid
      BY <1>3, <1>7, <2>1 DEF Affordable
    <2>2. CASE h \in paid /\ h \in D
      <3>1. importance_changes'[s][h] =
               [importance_changes[s][h] EXCEPT !.wages = Plus(importance_changes[s][h].wages, wages(h))]
        BY <1>7, <2>2 DEF Paid
      <3> HIDE DEF wages
      <3>2. Plus(importance_changes[s][h].wages, wages(h)) \in Credits
        BY <1>3, <1>6, <2>2, CreditsType DEF Affordable
      <3>3. /\ importance_changes'[s][h].rent = importance_changes[s][h].rent
            /\ importance_changes'[s][h].wages \in Credits
        BY <1>4, <2>2, <3>1, <3>2 DEF Changes
      <3> QED
        BY <1>3, <1>7, <2>2, <3>3 DEF Affordable
    <2>3. CASE h \in paid /\ h \notin D
      <3>1. importance_changes'[s][h] = [rent |-> 0, wages |-> wages(h)]
        BY <1>7, <2>3 DEF Paid
      <3>2. importance[h] \in Credits
        BY <1>2, <2>3 DEF CreditInvariant, NoDebt
      <3> HIDE DEF wages
      <3> QED
        BY <1>6, <1>7, <2>3, <3>1, <3>2 DEF Affordable, Credits
    <2> QED
      BY <2>1, <2>2, <2>3
  <1> QED
    BY <1>8, <1>9

\* A node that can afford its rent spreads at most what it then has.
LEMMA ConsolidateNodeCredit ==
    ASSUME CreditInvariant, Undisturbed, NEW s \in Spreaders, ConsolidateNode(s)
    PROVE  NoDebt' /\ \A h \in Due(s)' : Affordable(s, h)'
  <1> DEFINE h == NextNode(s)
             n == LOWERBOUND_PERCENT * data_largest_arity[s]
                    + (UPPERBOUND_PERCENT - LOWERBOUND_PERCENT) * arity[h]
             d == 100 * data_largest_arity[s]
  <1>1. SpreaderTypes /\ Active(s) /\ stage[s] = "consolidating"
    BY DEF CreditInvariant, TypeInvariant, ConsolidateNode, Active
  <1>2. h \in to_visit[s] /\ h \in DOMAIN importance_changes[s] /\ h \in Handles
    <2>1. to_visit[s] \in SUBSET Handles /\ to_visit[s] # {}
      BY <1>1 DEF SpreaderTypes, RequestType, ConsolidateNode
    <2> QED
      BY <2>1, LeastHandle DEF NextNode, ConsolidateNode
  <1>3. /\ importance' = [importance EXCEPT ![h] = Minus(Consolidated(s, h), ToSpread(s, h))]
        /\ stimuli_to_spread' = [stimuli_to_spread EXCEPT ![h] = ToSpread(s, h)]
        /\ to_visit' = [to_visit EXCEPT ![s] = to_visit[s] \ {h}]
        /\ disturbances' = IF Consolidated(s, h) # NaN /\ Consolidated(s, h) < 0
                           THEN disturbances \cup {"debt"} ELSE disturbances
        /\ UNCHANGED <<stage, importance_changes>>
    BY DEF ConsolidateNode, dataVars
  <1>4. n \in 0..d /\ d \in Nat
    BY <1>1, <1>2, SpreadRate DEF CreditInvariant, Undisturbed, Calm
  <1> HIDE DEF h
  <1>5. Affordable(s, h)
    BY <1>1, <1>2 DEF CreditInvariant, RentsAffordable, Due
  <1>6. importance \in [Handles -> Credits] /\ stimuli_to_spread \in [Handles -> Credits]
        /\ "debt" \notin disturbances
    BY DEF CreditInvariant, NoDebt
  <1>7. Consolidated(s, h) \in Credits
    <2>1. Minus(importance[h], importance_changes[s][h].rent) \in Credits
      BY <1>2, <1>5, <1>6, CreditsType DEF Affordable
    <2>2. importance_changes[s][h].wages \in Credits
      BY <1>5 DEF Affordable
    <2> QED
      BY <2>1, <2>2, CreditsType DEF Consolidated
  <1>8. ToSpread(s, h) \in Credits /\ Minus(Consolidated(s, h), ToSpread(s, h)) \in Credits
    <2>1. ToSpread(s, h) = Scaled(Consolidated(s, h), n, d)
      BY DEF ToSpread
    <2> HIDE DEF n, d
    <2> QED
      BY <1>4, <1>7, <2>1, PortionOf
  <1>9. NoDebt'
    <2>1. disturbances' = disturbances
      BY <1>3, <1>7 DEF Credits
    <2> HIDE DEF n, d
    <2>2. importance' \in [Handles -> Credits] /\ stimuli_to_spread' \in [Handles -> Credits]
      BY <1>3, <1>6, <1>8
    <2> QED
      BY <1>6, <2>1, <2>2 DEF NoDebt
  <1>10. ASSUME NEW b \in Due(s)'
         PROVE  Affordable(s, b)'
    <2>1. to_visit'[s] = to_visit[s] \ {h} /\ to_visit[s] \in SUBSET Handles
      BY <1>1, <1>3 DEF SpreaderTypes, RequestType
    <2>2. b \in Due(s) /\ b # h /\ b \in Handles
      BY <1>1, <1>3, <2>1 DEF Due
    <2>3. importance'[b] = importance[b]
      BY <1>3, <1>6, <2>2
    <2> QED
      BY <1>3, <2>2, <2>3 DEF Affordable, CreditInvariant, RentsAffordable
  <1> QED
    BY <1>9, <1>10

LEMMA TraverseDeliverStimulusCredit ==
    ASSUME CreditInvariant, Undisturbed, NEW s \in Spreaders, TraverseDeliverStimulus(s)
    PROVE  NoDebt'
  <1> DEFINE h == NextNode(s)
  <1>1. SpreaderTypes /\ TypeOK
    BY DEF CreditInvariant, TypeInvariant
  <1>2. h \in Handles
    <2>1. to_visit[s] \in SUBSET Handles /\ to_visit[s] # {}
      BY <1>1 DEF SpreaderTypes, RequestType, RequestShape, TraverseDeliverStimulus
    <2> QED
      BY <2>1, LeastHandle DEF NextNode
  <1>3. /\ importance' = [b \in Handles |->
              IF b \in Neighbors(h) THEN Plus(importance[b], Share(s, h, b)) ELSE importance[b]]
        /\ stimuli_to_spread' = [stimuli_to_spread EXCEPT ![h] = 0]
        /\ disturbances' = disturbances
    BY DEF TraverseDeliverStimulus
  <1> HIDE DEF h
  <1>4. importance \in [Handles -> Credits] /\ stimuli_to_spread \in [Handles -> Credits]
        /\ "debt" \notin disturbances
    BY DEF CreditInvariant, NoDebt
  <1>5. ASSUME NEW b \in Handles
        PROVE  Plus(importance[b], Share(s, h, b)) \in Credits
    <2>1. edge_count[<<h, b>>] \in Nat /\ summed[s] \in Nat
      BY <1>1, <1>2, WeightsType DEF SpreaderTypes, RequestType
    <2>2. Share(s, h, b) \in Credits
      BY <1>2, <1>4, <2>1, CreditsType DEF Share
    <2> QED
      BY <1>4, <2>2, CreditsType
  <1>6. importance' \in [Handles -> Credits]
    BY <1>3, <1>4, <1>5
  <1>7. stimuli_to_spread' \in [Handles -> Credits]
    <2>1. 0 \in Credits
      BY DEF Credits
    <2> QED
      BY <1>3, <1>4, <2>1
  <1> QED
    BY <1>3, <1>4, <1>6, <1>7 DEF NoDebt

\* A step that changes neither importances nor entries.
LEMMA QuietCredit ==
    ASSUME CreditInvariant, Undisturbed, NEW s \in Spreaders,
           UNCHANGED <<importance, importance_changes>>, Due(s)' \subseteq Due(s)
    PROVE  \A h \in Due(s)' : Affordable(s, h)'
  BY DEF CreditInvariant, RentsAffordable, Affordable

LEMMA SpreadCredit ==
    ASSUME CreditInvariant, Undisturbed, NEW s \in Spreaders, SpreadStimuli(s)
    PROVE  NoDebt' /\ \A h \in Due(s)' : Affordable(s, h)'
  <1>1. NoDebt /\ stage \in [Spreaders -> Stages] /\ to_visit \in [Spreaders -> SUBSET Handles]
    BY DEF CreditInvariant, TypeInvariant, SpreaderTypes, RequestType
  <1>2. CASE CollectRent(s) \/ DistributeWages(s)
    <2>1. NoDebt'
      BY <1>1, <1>2 DEF CollectRent, DistributeWages, NoDebt, Undisturbed, tokenVars
    <2> QED
      BY <1>2, <2>1, CollectRentCredit, DistributeWagesCredit
  <1>3. CASE WagesThrow(s) \/ NoChanges(s) \/ EdgeNotLinked(s)
    <2>1. UNCHANGED <<tokenVars, dataVars, visitVars, disturbances>>
      BY <1>3 DEF WagesThrow, NoChanges, EdgeNotLinked, Crash
    <2>2. NoDebt'
      BY <1>1, <2>1 DEF NoDebt, Undisturbed, tokenVars
    <2>3. Due(s)' \subseteq Due(s)
      BY <2>1 DEF Due, dataVars, visitVars
    <2> QED
      BY <2>1, <2>2, <2>3, QuietCredit DEF tokenVars, dataVars
  <1>4. CASE LockRoot(s) \/ UnlockRoot(s) \/ TraverseSumWeights(s)
    <2>1. UNCHANGED <<tokenVars, dataVars, disturbances>>
      BY <1>4 DEF LockRoot, UnlockRoot, TraverseSumWeights
    <2>2. NoDebt'
      BY <1>1, <2>1 DEF NoDebt, Undisturbed, tokenVars
    <2>3. Due(s)' \subseteq Due(s)
      <3>1. CASE LockRoot(s)
        BY <1>1, <2>1, <3>1 DEF LockRoot, Move, Due, dataVars
      <3>2. CASE UnlockRoot(s) \/ TraverseSumWeights(s)
        BY <1>1, <2>1, <3>2 DEF UnlockRoot, TraverseSumWeights, Move, Due, dataVars
      <3> QED
        BY <1>4, <3>1, <3>2
    <2> QED
      BY <2>1, <2>2, <2>3, QuietCredit DEF tokenVars, dataVars
  <1>5. CASE TraverseDeliverStimulus(s)
    <2>1. Due(s)' = {}
      BY <1>1, <1>5 DEF TraverseDeliverStimulus, Move, Due
    <2> QED
      BY <1>5, <2>1, TraverseDeliverStimulusCredit
  <1> QED
    BY <1>2, <1>3, <1>4, <1>5, ConsolidateNodeCredit DEF SpreadStimuli

LEMMA CreditStep ==
    ASSUME CreditInvariant, SpreaderNext
    PROVE  NoDebt' /\ RentsAffordable'
  <1> SUFFICES ASSUME Undisturbed'
               PROVE  NoDebt' /\ \A u \in Spreaders : \A h \in Due(u)' : Affordable(u, h)'
    BY DEF NoDebt, RentsAffordable
  <1>1. Undisturbed /\ NoDebt /\ SpreaderTypes
    BY StillUndisturbed DEF CreditInvariant, TypeInvariant
  <1>2. ASSUME NEW t \in Updaters, Correlate(t) \/ \E list \in Lists : StartCorrelation(t, list)
        PROVE  NoDebt' /\ \A u \in Spreaders : \A h \in Due(u)' : Affordable(u, h)'
    <2>1. UNCHANGED <<tokenVars, dataVars, visitVars>>
      BY <1>2, CorrelationKeeps
    <2>2. "debt" \in disturbances' => "debt" \in disturbances
      <3>1. CASE Correlate(t)
        BY <3>1 DEF Correlate, spreadVars
      <3>2. ASSUME NEW list \in Lists, StartCorrelation(t, list)
            PROVE  disturbances' \ {"correlation", "malformed handle"} \subseteq disturbances
        BY <3>2 DEF StartCorrelation
      <3> QED
        BY <1>2, <3>1, <3>2
    <2>3. NoDebt'
      BY <1>1, <2>1, <2>2 DEF NoDebt, tokenVars
    <2>4. \A u \in Spreaders : Due(u)' \subseteq Due(u)
      BY <2>1 DEF Due, dataVars, visitVars
    <2> QED
      BY <1>1, <2>1, <2>3, <2>4, QuietCredit DEF tokenVars, dataVars
  <1>3. ASSUME NEW s \in Spreaders, SpreadStimuli(s) \/ \E r \in Stimuli : StartStimulus(s, r)
        PROVE  NoDebt' /\ \A u \in Spreaders : \A h \in Due(u)' : Affordable(u, h)'
    <2>1. ASSUME NEW u \in Spreaders \ {s}
          PROVE  Due(u)' = {}
      <3>1. ~Active(u)'
        BY <1>1, <1>3, OnlyOne DEF CreditInvariant
      <3> QED
        BY <3>1 DEF Active, Due
    <2>2. CASE SpreadStimuli(s)
      BY <1>1, <2>1, <2>2, SpreadCredit
    <2>3. CASE \E r \in Stimuli : StartStimulus(s, r)
      <3>1. PICK r \in Stimuli : StartStimulus(s, r)
        BY <2>3
      <3>2. stage'[s] = "rent"
        BY <1>1, <3>1 DEF StartStimulus, Move, SpreaderTypes, RequestType
      <3>3. Due(s)' = {}
        BY <3>2 DEF Due
      <3>4. "debt" \notin disturbances'
        BY <1>1, <3>1 DEF StartStimulus, DisturbancesOf, NoDebt
      <3>5. NoDebt'
        BY <1>1, <3>1, <3>4 DEF StartStimulus, NoDebt, tokenVars
      <3> QED
        BY <2>1, <3>3, <3>5
    <2> QED
      BY <1>3, <2>2, <2>3
  <1> QED
    BY <1>2, <1>3 DEF SpreaderNext

LEMMA InitCredit == SpreaderInit => CreditInvariant
  <1> SUFFICES ASSUME SpreaderInit PROVE CreditInvariant
    OBVIOUS
  <1>1. TypeInvariant /\ NetworkInvariant /\ AtRest
    BY InitCrash DEF CrashInvariant
  <1>2. OneStimulus /\ NoDebt /\ RentsAffordable
    BY DEF SpreaderInit, OneStimulus, Active, NoDebt, Credits, RentsAffordable, Due
  <1> QED
    BY <1>1, <1>2 DEF CreditInvariant

LEMMA NextCredit == CreditInvariant /\ [SpreaderNext]_allVars => CreditInvariant'
  <1> SUFFICES ASSUME CreditInvariant, [SpreaderNext]_allVars PROVE CreditInvariant'
    OBVIOUS
  <1>1. TypeInvariant' /\ NetworkInvariant'
    BY NextSpreaderType, NetworkNext DEF CreditInvariant
  <1>2. CASE SpreaderNext
    BY <1>1, <1>2, AtRestStep, OneStimulusStep, CreditStep DEF CreditInvariant, TypeInvariant
  <1>3. CASE UNCHANGED allVars
    <2>1. UNCHANGED <<stage, disturbances, importance, stimuli_to_spread, importance_changes,
                      to_visit, data_largest_arity, largest_arity, overlapped, pc>>
      BY <1>3 DEF allVars, vars, largestVars, workerVars, historyVars, spreadVars, tokenVars,
                  dataVars, visitVars
    <2>2. AtRest' /\ OneStimulus'
      BY <2>1 DEF CreditInvariant, AtRest, Calm, Active, Quiescent, OneStimulus, Undisturbed
    <2>3. NoDebt' /\ RentsAffordable'
      BY <2>1 DEF CreditInvariant, NoDebt, RentsAffordable, Undisturbed, Due, Affordable
    <2> QED
      BY <1>1, <2>2, <2>3 DEF CreditInvariant
  <1> QED
    BY <1>2, <1>3

\* While neither stimuli nor correlations overlap, whatever the requests are, a node
\* always owns the rent that it still has to pay and spreads a part of what it has
\* then: no importance becomes negative (StimulusSpreader.cc:44-73).
THEOREM NoNodeOwes == SpreaderSpec => []ImportanceNotNegative
  <1>1. CreditInvariant => ImportanceNotNegative
    BY DEF CreditInvariant, NoDebt, Undisturbed, Credits, ImportanceNotNegative
  <1> QED
    BY <1>1, InitCredit, NextCredit, PTL DEF SpreaderSpec

-----------------------------------------------------------------------------
(* Stimuli never create tokens *)

Solvent == disturbances \subseteq {"stimulus", "unknown handle"}

\* The entries that have still to be consolidated once the wages are computed.
Left(s) == IF stage[s] = "wages" THEN {} ELSE Due(s)

Net(s) == [h \in Left(s) |-> importance_changes[s][h].wages - importance_changes[s][h].rent]

Claim(s) == Sum(Net(s), Left(s))

Wealth ==
    Sum(importance, Handles) + Sum(stimuli_to_spread, Handles) + tokens_to_distribute
        + Sum([s \in Spreaders |-> Claim(s)], Spreaders)

Funded == importance \in [Handles -> Nat] /\ stimuli_to_spread \in [Handles -> Nat]

\* An entry: a rent is collected from a node, wages are added to it later.
Booked(s, h) ==
    LET change == importance_changes[s][h]
    IN /\ change.rent \in Nat /\ change.wages \in Nat
       /\ h \notin Present => change.rent = 0
       /\ stage[s] = "wages" => change.wages = 0

Sociable == \A h \in Present : Neighbors(h) # {}

Booking(s) ==
    /\ \A h \in Due(s) : Booked(s, h)
    /\ Active(s) => Sociable /\ stimulus[s].SUM # NULL /\ SumIsRight(stimulus[s])
    /\ Visiting(s) => to_visit[s] \subseteq Present
    /\ stage[s] = "delivering" => summed[s] = SumWeights(NextNode(s))

LEMMA StillSolvent ==
    ASSUME SpreaderNext, Solvent'
    PROVE  Solvent
  BY DisturbancesGrow DEF Solvent

\* An entry keeps its meaning while it is not paid for.
LEMMA BookedKept ==
    ASSUME NEW s \in Spreaders, \A h \in Due(s) : Booked(s, h), Due(s)' \subseteq Due(s),
           importance_changes'[s] = importance_changes[s], Present' = Present,
           stage'[s] = "wages" => stage[s] = "wages"
    PROVE  \A h \in Due(s)' : Booked(s, h)'
  BY DEF Booked

LEMMA SameNetwork ==
    ASSUME UNCHANGED vars
    PROVE  /\ Present' = Present /\ Sociable' = Sociable
           /\ \A h : Neighbors(h)' = Neighbors(h) /\ SumWeights(h)' = SumWeights(h)
  BY DEF vars, graphVars, Present, Sociable, Neighbors, SumWeights

\* The steps of the others do not touch what a spreader has computed.
LEMMA BookingOfOthers ==
    ASSUME TypeInvariant, AtRest, SpreaderNext, Solvent', NEW u \in Spreaders, Booking(u)
    PROVE  /\ \A t \in Updaters :
                 Correlate(t) \/ (\E list \in Lists : StartCorrelation(t, list)) => Booking(u)'
           /\ \A s \in Spreaders \ {u} :
                 SpreadStimuli(s) \/ (\E r \in Stimuli : StartStimulus(s, r)) => Booking(u)'
  <1>1. Calm'
    BY DEF Solvent, Calm
  <1>2. ASSUME NEW t \in Updaters, Correlate(t) \/ \E list \in Lists : StartCorrelation(t, list)
        PROVE  Booking(u)'
    <2>1. UNCHANGED <<dataVars, visitVars>>
      BY <1>2, CorrelationKeeps
    <2>2. CASE Active(u)
      <3>1. UNCHANGED vars
        BY <1>1, <2>2, CalmStep
      <3> QED
        BY <2>1, <3>1, SameNetwork
        DEF Booking, Due, Booked, Active, Visiting, NextNode, dataVars, visitVars
    <2>3. CASE ~Active(u)
      BY <2>1, <2>3 DEF Booking, Due, Active, Visiting, dataVars, visitVars
    <2> QED
      BY <2>2, <2>3
  <1>3. ASSUME NEW s \in Spreaders \ {u}, SpreadStimuli(s) \/ \E r \in Stimuli : StartStimulus(s, r)
        PROVE  Booking(u)'
    <2>1. UNCHANGED vars /\ stage'[u] = stage[u] /\ stimulus'[u] = stimulus[u]
          /\ importance_changes'[u] = importance_changes[u]
          /\ to_visit'[u] = to_visit[u] /\ summed'[u] = summed[u]
      BY <1>3, SpreaderKeeps DEF TypeInvariant
    <2> QED
      BY <2>1, SameNetwork DEF Booking, Due, Booked, Active, Visiting, NextNode
  <1> QED
    BY <1>2, <1>3

LEMMA StartStimulusBooking ==
    ASSUME SpreaderTypes, Solvent', NEW s \in Spreaders, NEW r \in Stimuli, StartStimulus(s, r)
    PROVE  Booking(s)'
  <1>1. /\ stage'[s] = "rent" /\ stimulus'[s] = r /\ UNCHANGED vars
        /\ disturbances' = disturbances \cup DisturbancesOf(s, r)
    BY DEF StartStimulus, Move, SpreaderTypes, RequestType
  <1>2. {"isolated node", "no sum", "wrong sum"} \cap DisturbancesOf(s, r) = {}
    BY <1>1 DEF Solvent
  <1>3. Sociable /\ r.SUM # NULL /\ SumIsRight(r)
    BY <1>2 DEF DisturbancesOf, Sociable
  <1>4. SumIsRight(r)'
    BY <1>3
  <1> QED
    BY <1>1, <1>3, <1>4, SameNetwork DEF Booking, Due, Visiting

\* What the wages are computed from.
LEMMA WagesArithmetic ==
    ASSUME SpreaderTypes, NEW s \in Spreaders, Booking(s), DistributeWages(s)
    PROVE  /\ stimulus[s].SUM \in Nat \ {0}
           /\ DOMAIN stimulus[s].count \in SUBSET Handles
           /\ \A h \in DOMAIN stimulus[s].count : stimulus[s].count[h] \in Nat
           /\ Sum(stimulus[s].count, DOMAIN stimulus[s].count) = stimulus[s].SUM
           /\ TotalRent(s) \in Nat
           /\ TotalRent(s) = Sum([h \in DOMAIN importance_changes[s] |-> importance_changes[s][h].rent],
                                 DOMAIN importance_changes[s])
           /\ Plus(tokens_to_distribute, TotalRent(s)) = tokens_to_distribute + TotalRent(s)
           /\ tokens_to_distribute \in Nat
  <1> DEFINE D == DOMAIN importance_changes[s]
             rents == [h \in D |-> importance_changes[s][h].rent]
             count == stimulus[s].count
  <1>0. stage[s] = "wages" /\ DOMAIN count \subseteq Handles
    BY DEF DistributeWages
  <1>1. stimulus[s].SUM # NULL /\ SumIsRight(stimulus[s]) /\ stimulus[s] \in Stimuli
    BY <1>0 DEF Booking, Active, SpreaderTypes, RequestShape
  <1>2. stimulus[s].SUM \in Nat /\ DOMAIN count \in SUBSET Handles /\ \A h \in DOMAIN count : count[h] \in Nat
    BY <1>0, <1>1, StimuliAssumption
  <1>3. Total(count, DOMAIN count) = Sum(count, DOMAIN count)
    <2> HIDE DEF count
    <2> QED
      BY <1>2, TotalIsSum DEF Ints
  <1>4. IsFiniteSet(D) /\ \A h \in D : rents[h] \in Nat
    <2>1. \A h \in D : Booked(s, h)
      BY <1>0 DEF Booking, Due
    <2> QED
      BY <1>0, <2>1, EntryType DEF Booked, SpreaderTypes
  <1>5. Total(rents, D) = Sum(rents, D) /\ Sum(rents, D) \in Nat
    <2> HIDE DEF rents, D
    <2> QED
      BY <1>4, TotalIsSum, SumNat DEF Ints
  <1>6. TotalRent(s) = Total(rents, D)
    BY DEF TotalRent
  <1>7. tokens_to_distribute \in Nat
    BY StimulusAssumption DEF SpreaderTypes, TokenType
  <1>8. Plus(tokens_to_distribute, TotalRent(s)) = tokens_to_distribute + TotalRent(s)
    BY <1>5, <1>6, <1>7, StimulusAssumption DEF Plus
  <1> QED
    BY <1>1, <1>2, <1>3, <1>5, <1>6, <1>7, <1>8 DEF SumIsRight

LEMMA CollectRentBooking ==
    ASSUME TypeInvariant, Funded, NEW s \in Spreaders, Booking(s), CollectRent(s)
    PROVE  Booking(s)'
  <1>1. /\ importance_changes'[s] = [h \in Renters |-> [rent |-> Rent(h), wages |-> 0]]
        /\ stage[s] = "rent" /\ stage'[s] = "wages" /\ UNCHANGED vars /\ stimulus' = stimulus
    BY DEF CollectRent, Move, TypeInvariant, SpreaderTypes, RequestType
  <1>2. ASSUME NEW h \in Renters
        PROVE  Booked(s, h)'
    <2>1. importance[h] \in Nat
      BY PresentHandles DEF Funded
    <2>2. Rent(h) \in Nat
      <3>1. PICK n \in Nat : n = importance[h] * RENT_PERCENT
        BY <2>1, StimulusAssumption
      <3>2. n \div 100 \in Nat
        BY Quotient
      <3> QED
        BY <2>1, <3>1, <3>2, StimulusAssumption DEF Rent, Scaled
    <2>3. h \in Present'
      BY <1>1, SameNetwork DEF Renters
    <2> QED
      BY <1>1, <2>2, <2>3 DEF Booked
  <1>3. Due(s)' = Renters
    BY <1>1 DEF Due
  <1>4. Sociable' /\ stimulus'[s].SUM # NULL /\ SumIsRight(stimulus[s])'
    BY <1>1, SameNetwork DEF Booking, Active, SumIsRight
  <1> QED
    BY <1>1, <1>2, <1>3, <1>4 DEF Booking, Visiting

\* The entries after the wages were distributed.
LEMMA PaidEntries ==
    ASSUME SpreaderTypes, NEW s \in Spreaders, Booking(s), DistributeWages(s)
    PROVE  /\ DOMAIN importance_changes'[s] = DOMAIN importance_changes[s] \cup DOMAIN stimulus[s].count
           /\ \A h \in DOMAIN importance_changes'[s] :
                 /\ importance_changes'[s][h].rent =
                       IF h \in DOMAIN importance_changes[s] THEN importance_changes[s][h].rent ELSE 0
                 /\ importance_changes'[s][h].wages =
                       IF h \in DOMAIN stimulus[s].count
                       THEN ((tokens_to_distribute + TotalRent(s)) * stimulus[s].count[h])
                               \div stimulus[s].SUM
                       ELSE 0
  <1> DEFINE D == DOMAIN importance_changes[s]
             paid == DOMAIN stimulus[s].count
             share(h) == ((tokens_to_distribute + TotalRent(s)) * stimulus[s].count[h])
                             \div stimulus[s].SUM
             wages(h) == Scaled(Plus(tokens_to_distribute, TotalRent(s)), stimulus[s].count[h],
                                stimulus[s].SUM)
  <1>1. stage[s] = "wages"
    BY DEF DistributeWages
  <1>2. /\ tokens_to_distribute \in Nat /\ TotalRent(s) \in Nat /\ stimulus[s].SUM \in Nat \ {0}
        /\ tokens_to_distribute + TotalRent(s) = Plus(tokens_to_distribute, TotalRent(s))
        /\ \A h \in DOMAIN stimulus[s].count : stimulus[s].count[h] \in Nat
    BY <1>1, WagesArithmetic
  <1>3. importance_changes'[s] = [h \in D \cup paid |->
            IF h \in paid THEN Paid(s, h, wages(h)) ELSE importance_changes[s][h]]
    BY DEF DistributeWages, SpreaderTypes, RequestType
  <1>4. ASSUME NEW h \in paid
        PROVE  wages(h) = share(h) /\ share(h) \in Nat
    <2>1. PICK t \in Nat : t = tokens_to_distribute + TotalRent(s)
                        /\ t = Plus(tokens_to_distribute, TotalRent(s))
      BY <1>2
    <2>2. PICK n \in Nat : n = t * stimulus[s].count[h]
      BY <1>2
    <2>3. n \div stimulus[s].SUM \in Nat
      BY <1>2, Quotient
    <2>4. wages(h) = n \div stimulus[s].SUM
      <3>1. stimulus[s].SUM # 0 /\ t # NaN
        BY <1>2, StimulusAssumption
      <3> QED
        BY <2>1, <2>2, <3>1 DEF Scaled
    <2> QED
      BY <2>1, <2>2, <2>3, <2>4
  <1>5. \A h \in D : Booked(s, h) /\ importance_changes[s][h] \in Changes
    BY <1>1, EntryType DEF Booking, Due, SpreaderTypes
  <1>6. ASSUME NEW h \in D \cup paid
        PROVE  /\ importance_changes'[s][h].rent = IF h \in D THEN importance_changes[s][h].rent ELSE 0
               /\ importance_changes'[s][h].wages = IF h \in paid THEN share(h) ELSE 0
    <2>1. CASE h \notin paid
      BY <1>1, <1>3, <1>5, <2>1 DEF Booked
    <2>2. CASE h \in paid /\ h \in D
      <3>1. importance_changes'[s][h] =
               [importance_changes[s][h] EXCEPT !.wages = Plus(importance_changes[s][h].wages, wages(h))]
        BY <1>3, <2>2 DEF Paid
      <3>2. importance_changes[s][h].wages = 0
        BY <1>1, <1>5, <2>2 DEF Booked
      <3>3. wages(h) = share(h) /\ share(h) \in Nat
        BY <1>4, <2>2
      <3> HIDE DEF wages, share
      <3>4. Plus(0, wages(h)) = share(h)
        BY <3>3, StimulusAssumption DEF Plus
      <3>5. /\ importance_changes'[s][h].rent = importance_changes[s][h].rent
            /\ importance_changes'[s][h].wages = share(h)
        BY <1>5, <2>2, <3>1, <3>2, <3>4 DEF Changes
      <3> QED
        BY <2>2, <3>5
    <2>3. CASE h \in paid /\ h \notin D
      <3>1. importance_changes'[s][h] = [rent |-> 0, wages |-> wages(h)]
        BY <1>3, <2>3 DEF Paid
      <3>2. wages(h) = share(h)
        BY <1>4, <2>3
      <3> HIDE DEF wages, share
      <3> QED
        BY <2>3, <3>1, <3>2
    <2> QED
      BY <2>1, <2>2, <2>3
  <1>7. DOMAIN importance_changes'[s] = D \cup paid
    BY <1>3
  <1> QED
    BY <1>6, <1>7

LEMMA DistributeWagesBooking ==
    ASSUME TypeInvariant, NEW s \in Spreaders, Booking(s), DistributeWages(s)
    PROVE  Booking(s)'
  <1>1. /\ stage[s] = "wages" /\ stage'[s] = "consolidate" /\ UNCHANGED vars /\ stimulus' = stimulus
        /\ SpreaderTypes
    BY DEF DistributeWages, Move, TypeInvariant, SpreaderTypes, RequestType
  <1>2. /\ tokens_to_distribute \in Nat /\ TotalRent(s) \in Nat /\ stimulus[s].SUM \in Nat \ {0}
        /\ tokens_to_distribute + TotalRent(s) = Plus(tokens_to_distribute, TotalRent(s))
        /\ \A h \in DOMAIN stimulus[s].count : stimulus[s].count[h] \in Nat
    BY <1>1, WagesArithmetic
  <1>3. ASSUME NEW h \in DOMAIN importance_changes'[s]
        PROVE  Booked(s, h)'
    <2>1. h \in DOMAIN importance_changes[s] => Booked(s, h)
      BY <1>1 DEF Booking, Due
    <2>2. importance_changes'[s][h].rent \in Nat
          /\ (h \notin Present' => importance_changes'[s][h].rent = 0)
      BY <1>1, <2>1, PaidEntries, SameNetwork DEF Booked
    <2>3. importance_changes'[s][h].wages \in Nat
      <3>1. CASE h \in DOMAIN stimulus[s].count
        <4>1. PICK n \in Nat : n = (tokens_to_distribute + TotalRent(s)) * stimulus[s].count[h]
          <5>1. PICK t \in Nat : t = tokens_to_distribute + TotalRent(s)
            BY <1>2
          <5>2. stimulus[s].count[h] \in Nat
            BY <3>1, <1>2
          <5> QED
            BY <5>1, <5>2
        <4>2. n \div stimulus[s].SUM \in Nat
          BY <1>2, Quotient
        <4> QED
          BY <1>1, <3>1, <4>1, <4>2, PaidEntries
      <3>2. CASE h \notin DOMAIN stimulus[s].count
        BY <1>1, <3>2, PaidEntries
      <3> QED
        BY <3>1, <3>2
    <2> QED
      BY <1>1, <2>2, <2>3 DEF Booked
  <1>4. Due(s)' = DOMAIN importance_changes'[s]
    BY <1>1 DEF Due
  <1>5. Sociable' /\ stimulus'[s].SUM # NULL /\ SumIsRight(stimulus[s])'
    BY <1>1, SameNetwork DEF Booking, Active, SumIsRight
  <1> QED
    BY <1>1, <1>3, <1>4, <1>5 DEF Booking, Visiting

\* The wages are at most the tokens and the rents that they are made of.
LEMMA WagesCovered ==
    ASSUME TypeInvariant, NEW s \in Spreaders, Booking(s), DistributeWages(s)
    PROVE  /\ Claim(s)' \in Int /\ Claim(s)' <= tokens_to_distribute
           /\ tokens_to_distribute <= Claim(s)' + HandleCount
  <1> DEFINE D == DOMAIN importance_changes[s]
             count == stimulus[s].count
             paid == DOMAIN count
             all == D \cup paid
             total == tokens_to_distribute + TotalRent(s)
             net == [h \in all |-> importance_changes'[s][h].wages - importance_changes'[s][h].rent]
             wages == [h \in all |-> importance_changes'[s][h].wages]
             rents == [h \in all |-> importance_changes'[s][h].rent]
             old == [h \in D |-> importance_changes[s][h].rent]
             counts == [h \in all |-> IF h \in paid THEN count[h] ELSE 0]
  <1>1. SpreaderTypes /\ stage[s] = "wages" /\ stage'[s] = "consolidate"
    BY DEF DistributeWages, Move, TypeInvariant, SpreaderTypes, RequestType
  <1>2. /\ IsFiniteSet(all) /\ D \in SUBSET all /\ paid \in SUBSET all
        /\ \A h \in D : old[h] \in Nat
    <2>1. D \in SUBSET Handles /\ paid \in SUBSET Handles
      BY <1>1, EntryType, WagesArithmetic DEF SpreaderTypes
    <2>2. IsFiniteSet(all)
      <3> HIDE DEF D, paid
      <3> QED
        BY <2>1, HandlesFinite, FS_Subset
    <2>3. \A h \in D : Booked(s, h)
      BY <1>1 DEF Booking, Due
    <2> QED
      BY <2>2, <2>3 DEF Booked
  <1>3. /\ stimulus[s].SUM \in Nat \ {0} /\ \A h \in paid : count[h] \in Nat
        /\ Sum(count, paid) = stimulus[s].SUM
        /\ TotalRent(s) \in Nat /\ TotalRent(s) = Sum(old, D)
        /\ tokens_to_distribute \in Nat
    BY <1>1, WagesArithmetic
  <1>4. Claim(s)' = Sum(net, all)
    <2>1. Left(s)' = all
      BY <1>1, PaidEntries DEF Left, Due
    <2> QED
      BY <2>1 DEF Claim, Net
  <1>5. ASSUME NEW h \in all
        PROVE  /\ counts[h] \in Nat /\ wages[h] = (total * counts[h]) \div stimulus[s].SUM
               /\ rents[h] = IF h \in D THEN old[h] ELSE 0
    <2>1. /\ rents[h] = IF h \in D THEN old[h] ELSE 0
          /\ wages[h] = IF h \in paid THEN (total * count[h]) \div stimulus[s].SUM ELSE 0
      BY <1>1, PaidEntries
    <2>2. total \in Nat /\ counts[h] \in Nat
      BY <1>3
    <2>3. (total * 0) \div stimulus[s].SUM = 0
      <3> HIDE DEF total
      <3>1. total * 0 = 0
        BY <2>2
      <3>2. \A d \in Nat \ {0} : 0 \div d = 0
        OBVIOUS
      <3> QED
        BY <1>3, <3>1, <3>2
    <2> HIDE DEF total, rents, wages, old
    <2> QED
      BY <2>1, <2>2, <2>3
  <1>6. total \in Nat /\ \A h \in all : net[h] = wages[h] - rents[h]
    BY <1>3
  <1> HIDE DEF D, count, paid, all, total, net, wages, rents, old, counts
  <1>7. Sum(counts, all) = stimulus[s].SUM
    <2>1. \A h \in all : counts[h] = IF h \in paid THEN count[h] ELSE 0
      BY DEF counts
    <2> QED
      BY <1>2, <1>3, <2>1, SumExtend DEF Ints
  <1>8. Sum(wages, all) \in Nat /\ Sum(wages, all) <= total
    <2>1. stimulus[s].SUM <= stimulus[s].SUM
      BY <1>3
    <2>2. Sum(counts, all) <= stimulus[s].SUM
      BY <1>7, <2>1
    <2> QED
      BY <1>2, <1>3, <1>5, <1>6, <2>2, SumShares
  <1>9. total <= Sum(wages, all) + Cardinality(all) /\ Cardinality(all) <= HandleCount
         /\ Cardinality(all) \in Nat
    <2>1. all \in SUBSET Handles
      BY <1>1, EntryType, WagesArithmetic DEF SpreaderTypes, all, D, paid, count
    <2> QED
      BY <1>2, <1>3, <1>5, <1>6, <1>7, <2>1, SumSharesLoss, FewHandles
  <1>10. Sum(rents, all) = Sum(old, D)
    BY <1>2, <1>5, SumExtend DEF Ints
  <1>11. Sum(wages, all) = Sum(net, all) + Sum(rents, all) /\ Sum(net, all) \in Int
    <2>1. \A h \in all : wages[h] \in Int /\ rents[h] \in Int
      <3> SUFFICES ASSUME NEW h \in all PROVE wages[h] \in Int /\ rents[h] \in Int
        OBVIOUS
      <3>1. PICK n \in Nat : n = total * counts[h]
        BY <1>5, <1>6
      <3>2. wages[h] \in Nat
        BY <1>3, <1>5, <3>1, Quotient
      <3> QED
        BY <1>2, <1>5, <3>2
    <2>2. Ints(net, all) /\ Ints(rents, all) /\ \A h \in all : wages[h] = net[h] + rents[h]
      BY <1>6, <2>1 DEF Ints
    <2> QED
      BY <1>2, <2>2, SumPlus, SumInt
  <1> QED
    BY <1>3, <1>4, <1>8, <1>10, <1>11, <1>9, HandleAssumption DEF total

\* A visit goes through the nodes of the trie.  What else was paid for is dropped:
\* no rent was collected for it.
LEMMA LockRootBooking ==
    ASSUME TypeInvariant, NEW s \in Spreaders, Booking(s), LockRoot(s)
    PROVE  /\ Booking(s)'
           /\ Claim(s) \in Int => Claim(s)' <= Claim(s)
           /\ DOMAIN importance_changes[s] \subseteq Present \/ stage[s] = "spread" =>
                 Claim(s)' = Claim(s)
  <1>1. /\ to_visit'[s] = Present /\ UNCHANGED vars /\ UNCHANGED <<stimulus, importance_changes>>
        /\ \/ stage[s] = "consolidate" /\ stage'[s] = "consolidating"
           \/ stage[s] = "spread" /\ stage'[s] = "spreading"
        /\ SpreaderTypes
    BY DEF LockRoot, Move, dataVars, TypeInvariant, SpreaderTypes, RequestType
  <1>2. Sociable' /\ stimulus'[s].SUM # NULL /\ SumIsRight(stimulus[s])'
    BY <1>1, SameNetwork DEF Booking, Active, SumIsRight
  <1>3. Due(s)' \subseteq Due(s)
    BY <1>1 DEF Due
  <1>4. \A h \in Due(s)' : Booked(s, h)'
    BY <1>1, <1>3, SameNetwork, BookedKept DEF Booking
  <1>5. Booking(s)'
    BY <1>1, <1>2, <1>4, SameNetwork DEF Booking, Visiting
  <1>6. ASSUME Claim(s) \in Int
        PROVE  Claim(s)' <= Claim(s)
    <2>1. CASE stage[s] = "spread"
      <3>1. Left(s) = {} /\ Left(s)' = {}
        BY <1>1, <2>1 DEF Left, Due
      <3>2. Claim(s) = Sum(Net(s), {}) /\ Claim(s)' = Sum(Net(s)', {})
        BY <3>1 DEF Claim
      <3> QED
        BY <3>2, SumEmpty
    <2>2. CASE stage[s] = "consolidate"
      <3> DEFINE D == DOMAIN importance_changes[s]
                 T == Present \cap D
                 f == Net(s)
                 g == Net(s)'
      <3>1. Left(s) = D /\ Left(s)' = T
        BY <1>1, <2>2 DEF Left, Due
      <3>2. IsFiniteSet(D) /\ T \in SUBSET D /\ \A h \in D : Booked(s, h)
        BY <1>1, <2>2, EntryType DEF Booking, Due, SpreaderTypes
      <3>3. /\ \A h \in D : f[h] = importance_changes[s][h].wages - importance_changes[s][h].rent
            /\ \A h \in T : g[h] = importance_changes[s][h].wages - importance_changes[s][h].rent
        BY <1>1, <3>1 DEF Net
      <3>4. Ints(f, D) /\ (\A h \in T : g[h] = f[h]) /\ \A h \in D \ T : f[h] \in Nat
        BY <3>2, <3>3 DEF Ints, Booked
      <3>5. Claim(s) = Sum(f, D) /\ Claim(s)' = Sum(g, T)
        BY <3>1 DEF Claim
      <3> HIDE DEF D, T, f, g
      <3>6. IsFiniteSet(T) /\ IsFiniteSet(D \ T)
        BY <3>2, SubsetFinite
      <3>7. Sum(f, D) = Sum(f, T) + Sum(f, D \ T)
        BY <3>2, <3>4, SumSplit
      <3>8. Sum(g, T) = Sum(f, T) /\ Sum(f, D \ T) \in Nat
        BY <3>4, <3>6, SumAgree, SumNat
      <3>9. Sum(f, T) \in Int
        <4>1. Ints(f, T)
          BY <3>2, <3>4 DEF Ints
        <4> QED
          BY <3>6, <4>1, SumInt
      <3> QED
        BY <3>5, <3>7, <3>8, <3>9
    <2> QED
      BY <1>1, <2>1, <2>2
  <1>7. CASE stage[s] = "spread"
    <2>1. Left(s) = {} /\ Left(s)' = {}
      BY <1>1, <1>7 DEF Left, Due
    <2>2. Claim(s) = Sum(Net(s), {}) /\ Claim(s)' = Sum(Net(s)', {})
      BY <2>1 DEF Claim
    <2> QED
      BY <1>5, <1>6, <2>2, SumEmpty
  <1>8. CASE stage[s] = "consolidate"
    <2>1. ASSUME DOMAIN importance_changes[s] \subseteq Present
          PROVE  Claim(s)' = Claim(s)
      <3>1. Left(s)' = Left(s)
        BY <1>1, <1>8, <2>1 DEF Left, Due
      <3>2. Net(s)' = Net(s)
        BY <1>1, <3>1 DEF Net
      <3> QED
        BY <3>1, <3>2 DEF Claim
    <2> QED
      BY <1>5, <1>6, <1>8, <2>1
  <1> QED
    BY <1>1, <1>7, <1>8

\* A step that leaves what is booked where it is.
LEMMA QuietBooking ==
    ASSUME TypeInvariant, NEW s \in Spreaders, Booking(s),
           WagesThrow(s) \/ NoChanges(s) \/ EdgeNotLinked(s) \/ UnlockRoot(s) \/ TraverseSumWeights(s)
    PROVE  Booking(s)' /\ Claim(s)' = Claim(s) /\ UNCHANGED tokenVars
  <1>1. SpreaderTypes
    BY DEF TypeInvariant
  <1>2. CASE WagesThrow(s) \/ NoChanges(s) \/ EdgeNotLinked(s)
    <2>1. UNCHANGED <<tokenVars, dataVars, visitVars, vars>>
      BY <1>2 DEF WagesThrow, NoChanges, EdgeNotLinked, Crash
    <2>2. UNCHANGED <<stage, stimulus, importance_changes, to_visit, summed>>
      BY <2>1 DEF dataVars, visitVars
    <2>3. Booking(s)'
      BY <2>1, <2>2, SameNetwork DEF Booking, Due, Booked, Active, Visiting, NextNode
    <2> QED
      BY <2>1, <2>2, <2>3 DEF Claim, Net, Left, Due
  <1>3. CASE UnlockRoot(s)
    <2>1. /\ UNCHANGED <<tokenVars, stimulus, importance_changes, vars>> /\ to_visit[s] = {}
          /\ to_visit' = to_visit
          /\ \/ stage[s] = "consolidating" /\ stage'[s] = "spread"
             \/ stage[s] = "spreading" /\ stage'[s] = "idle"
      BY <1>1, <1>3 DEF UnlockRoot, Move, dataVars, SpreaderTypes, RequestType
    <2>2. Due(s) = {} /\ Due(s)' = {} /\ Left(s) = {} /\ Left(s)' = {}
      BY <2>1 DEF Left, Due
    <2>3. Booking(s)'
      <3>1. Sociable' /\ stimulus'[s].SUM # NULL /\ SumIsRight(stimulus[s])'
        BY <2>1, SameNetwork DEF Booking, Active, SumIsRight
      <3> QED
        BY <2>1, <2>2, <3>1 DEF Booking, Visiting
    <2>4. Claim(s) = Sum(Net(s), {}) /\ Claim(s)' = Sum(Net(s)', {})
      BY <2>2 DEF Claim
    <2> QED
      BY <2>1, <2>3, <2>4, SumEmpty
  <1>4. CASE TraverseSumWeights(s)
    <2>1. /\ UNCHANGED <<tokenVars, stimulus, importance_changes, to_visit, vars>>
          /\ stage[s] = "spreading" /\ stage'[s] = "delivering"
          /\ summed'[s] = SumWeights(NextNode(s))
      BY <1>1, <1>4 DEF TraverseSumWeights, Move, dataVars, SpreaderTypes, RequestType
    <2>2. Due(s) = {} /\ Due(s)' = {} /\ Left(s) = {} /\ Left(s)' = {}
      BY <2>1 DEF Left, Due
    <2>3. Booking(s)'
      <3>1. Sociable' /\ stimulus'[s].SUM # NULL /\ SumIsRight(stimulus[s])'
        BY <2>1, SameNetwork DEF Booking, Active, SumIsRight
      <3>2. SumWeights(NextNode(s))' = SumWeights(NextNode(s))
        BY <2>1 DEF SumWeights, Neighbors, NextNode, vars, graphVars
      <3>3. to_visit'[s] \subseteq Present'
        BY <2>1, SameNetwork DEF Booking, Visiting
      <3> QED
        BY <2>1, <2>2, <3>1, <3>2, <3>3 DEF Booking, Visiting
    <2>4. Claim(s) = Sum(Net(s), {}) /\ Claim(s)' = Sum(Net(s)', {})
      BY <2>2 DEF Claim
    <2> QED
      BY <2>1, <2>3, <2>4, SumEmpty
  <1> QED
    BY <1>2, <1>3, <1>4

\* What a spreader can see of the wealth.
Own(s) ==
    Sum(importance, Handles) + Sum(stimuli_to_spread, Handles) + tokens_to_distribute + Claim(s)

LEMMA ConsolidateNodeBooking ==
    ASSUME TypeInvariant, NetworkInvariant, AtRest, Solvent', Solvent, Funded,
           NEW s \in Spreaders, Booking(s), ConsolidateNode(s)
    PROVE  /\ Booking(s)' /\ Funded' /\ Claim(s) \in Int /\ Claim(s)' \in Int
           /\ Own(s) = Own(s)' + stimuli_to_spread[NextNode(s)] /\ Own(s)' <= Own(s)
  <1> DEFINE h == NextNode(s)
             n == LOWERBOUND_PERCENT * data_largest_arity[s]
                    + (UPPERBOUND_PERCENT - LOWERBOUND_PERCENT) * arity[h]
             d == 100 * data_largest_arity[s]
             D == DOMAIN importance_changes[s]
             rent == importance_changes[s][h].rent
             wages == importance_changes[s][h].wages
             C == importance[h] - rent + wages
  <1>1. /\ SpreaderTypes /\ Active(s) /\ Visiting(s) /\ Calm /\ stage[s] = "consolidating"
        /\ UNCHANGED vars
    BY DEF TypeInvariant, ConsolidateNode, Active, Visiting, Solvent, Calm
  <1>2. h \in to_visit[s] /\ h \in D /\ h \in Handles /\ h \in Present /\ to_visit[s] \in SUBSET Handles
    <2>1. to_visit[s] \in SUBSET Handles /\ to_visit[s] # {}
      BY <1>1 DEF SpreaderTypes, RequestType, ConsolidateNode
    <2>2. h \in to_visit[s]
      BY <2>1, LeastHandle DEF NextNode
    <2> QED
      BY <1>1, <2>1, <2>2 DEF Booking, ConsolidateNode
  <1>3. /\ importance' = [importance EXCEPT ![h] = Minus(Consolidated(s, h), ToSpread(s, h))]
        /\ stimuli_to_spread' = [stimuli_to_spread EXCEPT ![h] = ToSpread(s, h)]
        /\ to_visit' = [to_visit EXCEPT ![s] = to_visit[s] \ {h}]
        /\ disturbances' = IF Consolidated(s, h) # NaN /\ Consolidated(s, h) < 0
                           THEN disturbances \cup {"debt"} ELSE disturbances
        /\ UNCHANGED <<stage, stimulus, importance_changes, tokens_to_distribute>>
    BY DEF ConsolidateNode, dataVars
  <1>4. n \in 0..d /\ d \in Nat
    BY <1>1, <1>2, SpreadRate
  <1>5. d # 0
    <2>1. ExactWhenSequential /\ Quiescent /\ ~overlapped /\ data_largest_arity[s] = largest_arity
      BY <1>1, SequentialExact DEF NetworkInvariant, AtRest
    <2>2. arity[h] = Cardinality(Neighbors(h)) /\ arity[h] <= largest_arity
      BY <1>2, <2>1 DEF ExactWhenSequential
    <2>3. Neighbors(h) # {} /\ Neighbors(h) \in SUBSET Handles
      BY <1>1, <1>2 DEF Booking, Sociable, Neighbors
    <2>4. Cardinality(Neighbors(h)) \in Nat /\ Cardinality(Neighbors(h)) # 0
      <3>1. IsFiniteSet(Neighbors(h))
        BY <2>3, HandlesFinite, FS_Subset
      <3> QED
        BY <2>3, <3>1, FS_CardinalityType, FS_EmptySet
    <2>5. largest_arity \in Nat \ {0}
      BY <2>2, <2>4 DEF TypeInvariant, TypeOK, GraphType
    <2> QED
      BY <2>1, <2>5
  <1>6. /\ importance[h] \in Nat /\ stimuli_to_spread[h] \in Nat /\ rent \in Nat /\ wages \in Nat
        /\ importance \in [Handles -> Nat] /\ stimuli_to_spread \in [Handles -> Nat]
    <2>1. Booked(s, h)
      BY <1>1, <1>2 DEF Booking, Due
    <2> QED
      BY <1>2, <2>1 DEF Funded, Booked
  <1>7. Consolidated(s, h) = C /\ C \in Nat
    <2>1. Consolidated(s, h) = C /\ C \in Int
      <3> HIDE DEF h
      <3> QED
        BY <1>6, StimulusAssumption DEF Consolidated, Plus, Minus
    <2>2. ~(Consolidated(s, h) # NaN /\ Consolidated(s, h) < 0)
      BY <1>3 DEF Solvent
    <2> HIDE DEF C, h
    <2> QED
      BY <2>1, <2>2, StimulusAssumption
  <1>8. PICK t \in 0..C : ToSpread(s, h) = t /\ Minus(Consolidated(s, h), ToSpread(s, h)) = C - t
    <2>1. ToSpread(s, h) = Scaled(C, n, d)
      BY <1>7 DEF ToSpread
    <2> HIDE DEF C, n, d
    <2>2. PICK t \in 0..C : t = (C * n) \div d
      BY <1>4, <1>5, <1>7, Portion
    <2>3. ToSpread(s, h) = t
      BY <1>5, <1>7, <2>1, <2>2, StimulusAssumption DEF Scaled
    <2> QED
      BY <1>7, <2>2, <2>3, StimulusAssumption DEF Minus
  <1> HIDE DEF h, n, d
  <1>9. importance' = [importance EXCEPT ![h] = C - t] /\ stimuli_to_spread' = [stimuli_to_spread EXCEPT ![h] = t]
    BY <1>3, <1>8
  <1>10. Funded'
    <2>1. t \in Nat /\ C - t \in Nat
      BY <1>7, <1>8
    <2> HIDE DEF C
    <2> QED
      BY <1>6, <1>9, <2>1 DEF Funded
  <1>11. Booking(s)'
    <2>1. to_visit'[s] = to_visit[s] \ {h}
      BY <1>1, <1>3 DEF SpreaderTypes, RequestType
    <2>2. Due(s)' \subseteq Due(s)
      BY <1>1, <1>3, <2>1 DEF Due
    <2>3. \A b \in Due(s)' : Booked(s, b)'
      BY <1>1, <1>3, <2>2, SameNetwork, BookedKept DEF Booking
    <2>4. Sociable' /\ stimulus'[s].SUM # NULL /\ SumIsRight(stimulus[s])'
      BY <1>1, <1>3, SameNetwork DEF Booking, Active, SumIsRight
    <2> QED
      BY <1>1, <1>3, <2>1, <2>3, <2>4, SameNetwork DEF Booking, Visiting
  <1>12. /\ Claim(s) = (wages - rent) + Claim(s)' /\ Claim(s)' \in Int
    <2> DEFINE L == to_visit[s] \cap D
               f == Net(s)
               g == Net(s)'
    <2>1. Left(s) = L /\ Left(s)' = L \ {h}
      <3>1. to_visit'[s] = to_visit[s] \ {h}
        BY <1>1, <1>3 DEF SpreaderTypes, RequestType
      <3> QED
        BY <1>1, <1>3, <3>1 DEF Left, Due
    <2>2. IsFiniteSet(L) /\ h \in L /\ \A b \in L : Booked(s, b)
      <3>1. L \in SUBSET Handles
        BY <1>2
      <3> QED
        BY <1>1, <1>2, <3>1, HandlesFinite, FS_Subset DEF Booking, Due
    <2>3. /\ \A b \in L : f[b] = importance_changes[s][b].wages - importance_changes[s][b].rent
          /\ \A b \in L \ {h} : g[b] = importance_changes[s][b].wages - importance_changes[s][b].rent
      BY <1>3, <2>1 DEF Net
    <2>4. Ints(f, L) /\ Ints(g, L \ {h}) /\ f[h] = wages - rent /\ \A b \in L \ {h} : f[b] = g[b]
      BY <2>2, <2>3 DEF Ints, Booked
    <2>5. Claim(s) = Sum(f, L) /\ Claim(s)' = Sum(g, L \ {h})
      BY <2>1 DEF Claim
    <2> HIDE DEF L, f, g
    <2>6. IsFiniteSet(L \ {h})
      BY <2>2, SubsetFinite
    <2>7. Sum(f, L) = f[h] + Sum(f, L \ {h}) /\ Sum(f, L \ {h}) = Sum(g, L \ {h})
          /\ Sum(g, L \ {h}) \in Int
      BY <2>2, <2>4, <2>6, SumElement, SumAgree, SumInt
    <2> QED
      BY <2>4, <2>5, <2>7
  <1>13. /\ Sum(importance', Handles) = Sum(importance, Handles) - importance[h] + (C - t)
         /\ Sum(importance, Handles) \in Int
    <2> HIDE DEF C
    <2>1. Ints(importance, Handles) /\ Ints(importance', Handles)
      BY <1>6, <1>7, <1>8, <1>9 DEF Ints
    <2>2. importance'[h] = C - t /\ \A b \in Handles \ {h} : importance'[b] = importance[b]
      BY <1>2, <1>6, <1>9
    <2> QED
      BY <1>2, <2>1, <2>2, HandlesFinite, SumChange
  <1>14. /\ Sum(stimuli_to_spread', Handles) = Sum(stimuli_to_spread, Handles) - stimuli_to_spread[h] + t
         /\ Sum(stimuli_to_spread, Handles) \in Int
    <2> HIDE DEF C
    <2>1. Ints(stimuli_to_spread, Handles) /\ Ints(stimuli_to_spread', Handles)
      BY <1>6, <1>7, <1>8, <1>9 DEF Ints
    <2>2. stimuli_to_spread'[h] = t
          /\ \A b \in Handles \ {h} : stimuli_to_spread'[b] = stimuli_to_spread[b]
      BY <1>2, <1>6, <1>9
    <2>3. PICK f, g : f = stimuli_to_spread /\ g = stimuli_to_spread'
      OBVIOUS
    <2>4. Ints(f, Handles) /\ Ints(g, Handles) /\ \A b \in Handles \ {h} : g[b] = f[b]
      BY <2>1, <2>2, <2>3
    <2>5. Sum(g, Handles) = Sum(f, Handles) - f[h] + g[h] /\ Sum(f, Handles) \in Int
      BY <1>2, <2>4, HandlesFinite, SumChange
    <2> QED
      BY <2>2, <2>3, <2>5
  <1>15. Claim(s) \in Int
    BY <1>6, <1>12
  <1>16. tokens_to_distribute \in Int /\ tokens_to_distribute' = tokens_to_distribute
    BY <1>1, <1>3, StimulusAssumption DEF SpreaderTypes, TokenType
  <1>17. Own(s) = Own(s)' + stimuli_to_spread[h] /\ Own(s)' <= Own(s)
    <2>1. Own(s)' = Sum(importance', Handles) + Sum(stimuli_to_spread', Handles)
                      + tokens_to_distribute' + Claim(s)'
      BY DEF Own
    <2>2. t \in Nat
      BY <1>7, <1>8
    <2> HIDE DEF rent, wages
    <2> QED
      BY <1>6, <1>12, <1>13, <1>14, <1>16, <2>1, <2>2 DEF Own
  <1> QED
    BY <1>10, <1>11, <1>12, <1>15, <1>17 DEF h

\* What the neighbors of a node are given is at most what the node spreads.
LEMMA TraverseDeliverStimulusBooking ==
    ASSUME TypeInvariant, Funded, NEW s \in Spreaders, Booking(s), TraverseDeliverStimulus(s)
    PROVE  /\ Booking(s)' /\ Funded' /\ Claim(s) = 0 /\ Claim(s)' = 0
           /\ Own(s)' <= Own(s) /\ Own(s) <= Own(s)' + HandleCount
  <1> DEFINE h == NextNode(s)
             N == Neighbors(h)
             weight == [b \in Handles |-> edge_count[<<h, b>>]]
             share == [b \in N |-> (stimuli_to_spread[h] * edge_count[<<h, b>>]) \div summed[s]]
             gain == [b \in Handles |-> IF b \in N THEN share[b] ELSE 0]
  <1>1. /\ TypeOK /\ SpreaderTypes /\ stage[s] = "delivering" /\ stage'[s] = "spreading"
        /\ UNCHANGED vars /\ UNCHANGED <<stimulus, importance_changes, tokens_to_distribute>>
    BY DEF TypeInvariant, TraverseDeliverStimulus, Move, dataVars, SpreaderTypes, RequestType
  <1>2. h \in to_visit[s] /\ h \in Handles /\ h \in Present /\ to_visit[s] \in SUBSET Handles
    <2>1. to_visit[s] \in SUBSET Handles /\ to_visit[s] # {}
      BY <1>1 DEF SpreaderTypes, RequestType, RequestShape
    <2>2. h \in to_visit[s]
      BY <2>1, LeastHandle DEF NextNode
    <2> QED
      BY <1>1, <2>1, <2>2 DEF Booking, Visiting
  <1>3. /\ importance' = [b \in Handles |->
              IF b \in N THEN Plus(importance[b], Share(s, h, b)) ELSE importance[b]]
        /\ stimuli_to_spread' = [stimuli_to_spread EXCEPT ![h] = 0]
        /\ to_visit'[s] = to_visit[s] \ {h}
    BY <1>1 DEF TraverseDeliverStimulus, SpreaderTypes, RequestType
  <1>4. Due(s) = {} /\ Due(s)' = {} /\ Left(s) = {} /\ Left(s)' = {}
    BY <1>1 DEF Left, Due
  <1>5. Booking(s)'
    <2>1. Sociable' /\ stimulus'[s].SUM # NULL /\ SumIsRight(stimulus[s])'
      BY <1>1, SameNetwork DEF Booking, Active, SumIsRight
    <2>2. to_visit'[s] \subseteq Present'
      BY <1>1, <1>3, SameNetwork DEF Booking, Visiting
    <2> QED
      BY <1>1, <1>4, <2>1, <2>2 DEF Booking
  <1>6. Claim(s) = 0 /\ Claim(s)' = 0
    <2>1. Claim(s) = Sum(Net(s), {}) /\ Claim(s)' = Sum(Net(s)', {})
      BY <1>4 DEF Claim
    <2> QED
      BY <2>1, SumEmpty
  <1>7. /\ N \in SUBSET Handles /\ IsFiniteSet(N) /\ \A b \in N : weight[b] \in Nat \ {0}
        /\ summed[s] = Sum(weight, N)
    <2>1. /\ N \in SUBSET Handles /\ IsFiniteSet(N) /\ SumWeights(h) = Sum(weight, N)
          /\ \A b \in Handles : edge_count[<<h, b>>] \in Nat
      BY <1>1, <1>2, WeightsType
    <2>2. \A b \in N : edge_count[<<h, b>>] > 0
      BY DEF Neighbors
    <2>3. \A b \in N : weight[b] \in Nat \ {0}
      BY <2>1, <2>2
    <2>4. summed[s] = SumWeights(h)
      BY <1>1 DEF Booking
    <2> QED
      BY <2>1, <2>3, <2>4
  <1>8. summed[s] \in Nat \ {0}
    <2>1. PICK b : b \in N
      BY <1>1, <1>2 DEF Booking, Active, Sociable
    <2> HIDE DEF h, N, weight
    <2>2. Ints(weight, N) /\ IsFiniteSet(N \ {b}) /\ \A c \in N \ {b} : weight[c] \in Nat
      BY <1>7, SubsetFinite DEF Ints
    <2>3. Sum(weight, N) = weight[b] + Sum(weight, N \ {b})
      BY <1>7, <2>1, <2>2, SumElement
    <2>4. Sum(weight, N \ {b}) \in Nat /\ weight[b] \in Nat \ {0}
      BY <1>7, <2>1, <2>2, SumNat
    <2> QED
      BY <1>7, <2>3, <2>4
  <1>9. /\ importance \in [Handles -> Nat] /\ stimuli_to_spread \in [Handles -> Nat]
        /\ stimuli_to_spread[h] \in Nat
    BY <1>2 DEF Funded
  <1>10. \A b \in N : /\ share[b] = (stimuli_to_spread[h] * weight[b]) \div summed[s]
                      /\ share[b] \in Nat
                      /\ Share(s, h, b) = share[b]
    <2> SUFFICES ASSUME NEW b \in N
                 PROVE  /\ share[b] = (stimuli_to_spread[h] * weight[b]) \div summed[s]
                        /\ share[b] \in Nat
                        /\ Share(s, h, b) = share[b]
      OBVIOUS
    <2>1. weight[b] = edge_count[<<h, b>>] /\ weight[b] \in Nat
      BY <1>7
    <2>2. share[b] = (stimuli_to_spread[h] * weight[b]) \div summed[s]
      BY <2>1
    <2>3. PICK n \in Nat : n = stimuli_to_spread[h] * weight[b]
      <3> HIDE DEF h, weight
      <3> QED
        BY <1>9, <2>1
    <2>4. n \div summed[s] \in Nat
      BY <1>8, Quotient
    <2>5. stimuli_to_spread[h] # NaN /\ summed[s] # 0
      BY <1>8, <1>9, StimulusAssumption
    <2>6. Share(s, h, b) = (stimuli_to_spread[h] * edge_count[<<h, b>>]) \div summed[s]
      BY <2>5 DEF Share, Scaled
    <2> QED
      BY <2>1, <2>2, <2>3, <2>4, <2>6
  <1> HIDE DEF h, N, weight, share
  <1>11. /\ Sum(share, N) \in Nat /\ Sum(share, N) <= stimuli_to_spread[h]
         /\ stimuli_to_spread[h] <= Sum(share, N) + HandleCount
    <2>1. summed[s] <= summed[s]
      BY <1>8
    <2>2. Sum(weight, N) <= summed[s]
      BY <1>7, <2>1
    <2>3. Sum(share, N) \in Nat /\ Sum(share, N) <= stimuli_to_spread[h]
      BY <1>7, <1>8, <1>9, <1>10, <2>2, SumShares
    <2>4. stimuli_to_spread[h] <= Sum(share, N) + Cardinality(N)
      BY <1>7, <1>8, <1>9, <1>10, SumSharesLoss
    <2>5. Cardinality(N) \in Nat /\ Cardinality(N) <= HandleCount /\ HandleCount \in Nat
      BY <1>7, FewHandles, HandleAssumption
    <2> QED
      BY <1>9, <2>3, <2>4, <2>5
  <1>12. \A b \in Handles : gain[b] \in Nat /\ importance'[b] = importance[b] + gain[b]
    <2> SUFFICES ASSUME NEW b \in Handles
                 PROVE  gain[b] \in Nat /\ importance'[b] = importance[b] + gain[b]
      OBVIOUS
    <2>1. importance[b] \in Nat
      BY <1>9
    <2>2. CASE b \in N
      BY <1>3, <1>10, <2>1, <2>2, StimulusAssumption DEF Plus
    <2>3. CASE b \notin N
      BY <1>3, <2>1, <2>3
    <2> QED
      BY <2>2, <2>3
  <1>13. Funded'
    <2>1. importance' \in [Handles -> Nat]
      BY <1>3, <1>9, <1>12
    <2>2. stimuli_to_spread' \in [Handles -> Nat]
      BY <1>3, <1>9
    <2> QED
      BY <2>1, <2>2 DEF Funded
  <1>14. Sum(gain, Handles) = Sum(share, N)
    <2>1. Ints(share, N) /\ \A b \in Handles : gain[b] = IF b \in N THEN share[b] ELSE 0
      BY <1>10 DEF Ints
    <2> HIDE DEF gain
    <2> QED
      BY <1>7, <2>1, HandlesFinite, SumExtend
  <1> HIDE DEF gain
  <1>15. /\ Sum(importance', Handles) = Sum(importance, Handles) + Sum(gain, Handles)
         /\ Sum(importance, Handles) \in Int
    <2>1. PICK f, g : f = importance /\ g = importance'
      OBVIOUS
    <2>2. Ints(f, Handles) /\ Ints(gain, Handles) /\ \A b \in Handles : g[b] = f[b] + gain[b]
      BY <1>9, <1>12, <2>1 DEF Ints
    <2>3. Sum(g, Handles) = Sum(f, Handles) + Sum(gain, Handles) /\ Sum(f, Handles) \in Int
      BY <2>2, HandlesFinite, SumPlus, SumInt
    <2> QED
      BY <2>1, <2>3
  <1>16. /\ Sum(stimuli_to_spread', Handles) = Sum(stimuli_to_spread, Handles) - stimuli_to_spread[h]
         /\ Sum(stimuli_to_spread, Handles) \in Int
    <2>1. PICK f, g : f = stimuli_to_spread /\ g = stimuli_to_spread'
      OBVIOUS
    <2>2. /\ Ints(f, Handles) /\ Ints(g, Handles)
          /\ g[h] = 0 /\ \A b \in Handles \ {h} : g[b] = f[b]
      BY <1>2, <1>3, <1>9, <2>1 DEF Ints
    <2>3. Sum(g, Handles) = Sum(f, Handles) - f[h] + g[h] /\ Sum(f, Handles) \in Int /\ f[h] \in Int
      BY <1>2, <2>2, HandlesFinite, SumChange
    <2> QED
      BY <2>1, <2>2, <2>3
  <1>17. Own(s)' <= Own(s) /\ Own(s) <= Own(s)' + HandleCount
    <2>1. Own(s)' = Sum(importance', Handles) + Sum(stimuli_to_spread', Handles)
                      + tokens_to_distribute' + Claim(s)'
      BY DEF Own
    <2>2. tokens_to_distribute \in Int /\ tokens_to_distribute' = tokens_to_distribute
      BY <1>1, StimulusAssumption DEF SpreaderTypes, TokenType
    <2> QED
      BY <1>6, <1>9, <1>11, <1>14, <1>15, <1>16, <2>1, <2>2, HandleAssumption DEF Own
  <1> QED
    BY <1>5, <1>6, <1>13, <1>17

\* What has still to be consolidated is a number.
LEMMA ClaimType ==
    ASSUME SpreaderTypes, NEW s \in Spreaders, Booking(s)
    PROVE  Claim(s) \in Int /\ IsFiniteSet(Left(s)) /\ Ints(Net(s), Left(s))
  <1>1. Left(s) \subseteq Due(s) /\ Due(s) \subseteq DOMAIN importance_changes[s]
    BY DEF Left, Due
  <1>2. IsFiniteSet(Left(s))
    BY <1>1, EntryType, FS_Subset DEF SpreaderTypes
  <1>3. Ints(Net(s), Left(s))
    BY <1>1 DEF Ints, Net, Booking, Booked
  <1> QED
    BY <1>2, <1>3, SumInt DEF Claim

AllBooked == \A s \in Spreaders : Booking(s)

ClaimsAreNumbers == \A s \in Spreaders : Claim(s) \in Int

LEMMA ClaimsType == SpreaderTypes /\ AllBooked => ClaimsAreNumbers
  BY ClaimType DEF AllBooked, ClaimsAreNumbers

\* The effect of a spreader's step on the wealth is the one that it can see.
LEMMA WealthStep ==
    ASSUME TypeInvariant, TypeInvariant', Funded, Funded', AllBooked, AllBooked',
           NEW s \in Spreaders,
           \A u \in Spreaders \ {s} : Claim(u)' = Claim(u)
    PROVE  /\ Wealth' = Wealth - Own(s) + Own(s)'
           /\ Wealth \in Int /\ Own(s) \in Int /\ Own(s)' \in Int
  <1> DEFINE f == [u \in Spreaders |-> Claim(u)]
             g == [u \in Spreaders |-> Claim(u)']
  <1>1. IsFiniteSet(Spreaders)
    BY StimulusAssumption
  <1>2. SpreaderTypes /\ SpreaderTypes'
    BY DEF TypeInvariant
  <1>3. \A u \in Spreaders : Claim(u) \in Int
    BY <1>2, ClaimsType DEF ClaimsAreNumbers
  <1>4. \A u \in Spreaders : Claim(u)' \in Int
    <2>1. SpreaderTypes' /\ AllBooked' => ClaimsAreNumbers'
      BY ClaimsType, PTL
    <2> QED
      BY <1>2, <2>1 DEF AllBooked, ClaimsAreNumbers
  <1>5. Wealth = Sum(importance, Handles) + Sum(stimuli_to_spread, Handles)
                   + tokens_to_distribute + Sum(f, Spreaders)
    BY DEF Wealth
  <1>6. Wealth' = Sum(importance', Handles) + Sum(stimuli_to_spread', Handles)
                   + tokens_to_distribute' + Sum(g, Spreaders)
    BY DEF Wealth
  <1>7. /\ Ints(f, Spreaders) /\ Ints(g, Spreaders) /\ \A u \in Spreaders \ {s} : g[u] = f[u]
        /\ f[s] = Claim(s) /\ g[s] = Claim(s)'
    BY <1>3, <1>4 DEF Ints
  <1> HIDE DEF f, g
  <1>8. /\ Sum(g, Spreaders) = Sum(f, Spreaders) - f[s] + g[s]
        /\ Sum(f, Spreaders) \in Int /\ f[s] \in Int /\ g[s] \in Int
    BY <1>1, <1>7, SumChange
  <1>9. /\ Sum(importance, Handles) \in Int /\ Sum(stimuli_to_spread, Handles) \in Int
        /\ Sum(importance', Handles) \in Int /\ Sum(stimuli_to_spread', Handles) \in Int
    <2>1. /\ Ints(importance, Handles) /\ Ints(stimuli_to_spread, Handles)
          /\ Ints(importance', Handles) /\ Ints(stimuli_to_spread', Handles)
      BY DEF Ints, Funded
    <2> QED
      BY <2>1, HandlesFinite, SumInt
  <1>10. tokens_to_distribute \in Int /\ tokens_to_distribute' \in Int
    BY <1>2, StimulusAssumption DEF SpreaderTypes, TokenType
  <1>11. Own(s)' = Sum(importance', Handles) + Sum(stimuli_to_spread', Handles)
                      + tokens_to_distribute' + Claim(s)'
    BY DEF Own
  <1> QED
    BY <1>5, <1>6, <1>7, <1>8, <1>9, <1>10, <1>11 DEF Own

LEMMA FundedSums ==
    ASSUME SpreaderTypes, Funded
    PROVE  /\ Sum(importance, Handles) \in Nat /\ Sum(stimuli_to_spread, Handles) \in Nat
           /\ Ints(importance, Handles) /\ Ints(stimuli_to_spread, Handles)
           /\ tokens_to_distribute \in Nat
  <1>1. /\ \A h \in Handles : importance[h] \in Nat /\ stimuli_to_spread[h] \in Nat
        /\ tokens_to_distribute \in Nat
    BY StimulusAssumption DEF Funded, SpreaderTypes, TokenType
  <1> QED
    BY <1>1, HandlesFinite, SumNat DEF Ints

\* No step of a spreader adds to the tokens that it can see.
LEMMA OwnStep ==
    ASSUME TypeInvariant, NetworkInvariant, AtRest, Solvent, Solvent', Funded,
           NEW s \in Spreaders, Booking(s),
           SpreadStimuli(s) \/ \E r \in Stimuli : StartStimulus(s, r)
    PROVE  Booking(s)' /\ Funded' /\ Own(s)' <= Own(s)
  <1>1. SpreaderTypes
    BY DEF TypeInvariant
  <1>2. Claim(s) \in Int /\ Own(s) \in Int
    <2>1. Claim(s) \in Int
      BY <1>1, ClaimType
    <2> QED
      BY <1>1, <2>1, FundedSums DEF Own
  <1>3. ASSUME UNCHANGED tokenVars, Claim(s)' \in Int, Claim(s)' <= Claim(s)
        PROVE  Funded' /\ Own(s)' <= Own(s)
    <2>1. UNCHANGED <<importance, stimuli_to_spread, tokens_to_distribute>>
      BY <1>3 DEF tokenVars
    <2>2. Own(s)' = Sum(importance, Handles) + Sum(stimuli_to_spread, Handles)
                      + tokens_to_distribute + Claim(s)'
      BY <2>1 DEF Own
    <2>3. /\ Sum(importance, Handles) \in Int /\ Sum(stimuli_to_spread, Handles) \in Int
          /\ tokens_to_distribute \in Int
      BY <1>1, FundedSums
    <2> QED
      BY <1>2, <1>3, <2>1, <2>2, <2>3 DEF Own, Funded
  <1>4. ASSUME Left(s) = {}, Left(s)' = {}
        PROVE  Claim(s) = 0 /\ Claim(s)' = 0
    <2>1. Claim(s) = Sum(Net(s), {}) /\ Claim(s)' = Sum(Net(s)', {})
      BY <1>4 DEF Claim
    <2> QED
      BY <2>1, SumEmpty
  <1>5. CASE \E r \in Stimuli : StartStimulus(s, r)
    <2>1. PICK r \in Stimuli : StartStimulus(s, r)
      BY <1>5
    <2>2. stage[s] = "idle" /\ stage'[s] = "rent" /\ UNCHANGED tokenVars
      BY <1>1, <2>1 DEF StartStimulus, Move, SpreaderTypes, RequestType
    <2>3. Left(s) = {} /\ Left(s)' = {}
      BY <2>2 DEF Left, Due
    <2>4. Booking(s)'
      BY <1>1, <2>1, StartStimulusBooking
    <2> QED
      BY <1>3, <1>4, <2>2, <2>3, <2>4
  <1>6. CASE CollectRent(s)
    <2>1. stage[s] = "rent" /\ stage'[s] = "wages" /\ UNCHANGED tokenVars
      BY <1>1, <1>6 DEF CollectRent, Move, SpreaderTypes, RequestType
    <2>2. Left(s) = {} /\ Left(s)' = {}
      BY <2>1 DEF Left, Due
    <2>3. Booking(s)'
      BY <1>6, CollectRentBooking
    <2> QED
      BY <1>3, <1>4, <2>1, <2>2, <2>3
  <1>7. CASE DistributeWages(s)
    <2>1. /\ stage[s] = "wages" /\ tokens_to_distribute' = 0
          /\ UNCHANGED <<importance, stimuli_to_spread>>
      BY <1>7 DEF DistributeWages, Alienated
    <2>2. Booking(s)' /\ Claim(s)' \in Int /\ Claim(s)' <= tokens_to_distribute
      BY <1>7, DistributeWagesBooking, WagesCovered
    <2>3. Claim(s) = 0
      <3>1. Left(s) = {}
        BY <2>1 DEF Left
      <3>2. Claim(s) = Sum(Net(s), {})
        BY <3>1 DEF Claim
      <3> QED
        BY <3>2, SumEmpty
    <2>4. Own(s)' = Sum(importance, Handles) + Sum(stimuli_to_spread, Handles) + 0 + Claim(s)'
      BY <2>1 DEF Own
    <2>5. /\ Sum(importance, Handles) \in Int /\ Sum(stimuli_to_spread, Handles) \in Int
          /\ tokens_to_distribute \in Int
      BY <1>1, FundedSums
    <2>6. Own(s)' <= Own(s)
      BY <2>2, <2>3, <2>4, <2>5 DEF Own
    <2> QED
      BY <2>1, <2>2, <2>6 DEF Funded
  <1>8. CASE LockRoot(s)
    <2>1. Booking(s)' /\ Claim(s)' <= Claim(s)
      BY <1>2, <1>8, LockRootBooking
    <2>2. UNCHANGED tokenVars
      BY <1>8 DEF LockRoot
    <2>3. Claim(s)' \in Int
      <3>1. SpreaderTypes' /\ Booking(s)' => Claim(s)' \in Int
        <4>1. Left(s)' \subseteq Left(s)
          BY <1>1, <1>8 DEF LockRoot, Move, Left, Due, dataVars, SpreaderTypes, RequestType
        <4>2. importance_changes' = importance_changes
          BY <1>8 DEF LockRoot, dataVars
        <4>3. IsFiniteSet(Left(s)') /\ Ints(Net(s)', Left(s)')
          <5>1. IsFiniteSet(Left(s)) /\ Ints(Net(s), Left(s))
            BY <1>1, ClaimType
          <5> QED
            BY <4>1, <4>2, <5>1, FS_Subset DEF Ints, Net
        <4> QED
          BY <4>3, SumInt DEF Claim
      <3> QED
        BY <1>1, <1>8, <2>1, <3>1, RootType
    <2> QED
      BY <1>3, <2>1, <2>2, <2>3
  <1>9. CASE WagesThrow(s) \/ NoChanges(s) \/ EdgeNotLinked(s) \/ UnlockRoot(s)
             \/ TraverseSumWeights(s)
    <2>1. Booking(s)' /\ Claim(s)' = Claim(s) /\ UNCHANGED tokenVars
      BY <1>9, QuietBooking
    <2> QED
      BY <1>2, <1>3, <2>1
  <1>10. CASE ConsolidateNode(s) \/ TraverseDeliverStimulus(s)
    BY <1>10, ConsolidateNodeBooking, TraverseDeliverStimulusBooking
  <1> QED
    BY <1>5, <1>6, <1>7, <1>8, <1>9, <1>10 DEF SpreadStimuli

\* The inductive invariant of the tokens.
SolventInvariant ==
    /\ TypeInvariant /\ NetworkInvariant /\ AtRest
    /\ Solvent => Funded /\ AllBooked /\ Wealth <= TOKENS

LEMMA SolventStep ==
    ASSUME SolventInvariant, TypeInvariant', SpreaderNext, Solvent'
    PROVE  Funded' /\ AllBooked' /\ Wealth' <= TOKENS
  <1>1. /\ TypeInvariant /\ NetworkInvariant /\ AtRest /\ Solvent /\ SpreaderTypes
        /\ Funded /\ AllBooked /\ Wealth <= TOKENS
    BY StillSolvent DEF SolventInvariant, TypeInvariant
  <1>2. ASSUME NEW t \in Updaters, Correlate(t) \/ \E list \in Lists : StartCorrelation(t, list)
        PROVE  Funded' /\ AllBooked' /\ Wealth' <= TOKENS
    <2>1. AllBooked'
      BY <1>1, <1>2, BookingOfOthers DEF AllBooked
    <2>2. UNCHANGED <<importance, stimuli_to_spread, tokens_to_distribute, stage, to_visit,
                      importance_changes>>
      BY <1>2, CorrelationKeeps DEF tokenVars, dataVars, visitVars
    <2>3. Funded'
      BY <1>1, <2>2 DEF Funded
    <2>4. Wealth' = Wealth
      BY <2>2 DEF Wealth, Claim, Net, Left, Due
    <2> QED
      BY <1>1, <2>1, <2>3, <2>4
  <1>3. ASSUME NEW s \in Spreaders, SpreadStimuli(s) \/ \E r \in Stimuli : StartStimulus(s, r)
        PROVE  Funded' /\ AllBooked' /\ Wealth' <= TOKENS
    <2>1. Booking(s)' /\ Funded' /\ Own(s)' <= Own(s)
      BY <1>1, <1>3, OwnStep DEF AllBooked
    <2>2. \A u \in Spreaders \ {s} : Booking(u)'
      BY <1>1, <1>3, BookingOfOthers DEF AllBooked
    <2>3. AllBooked'
      BY <2>1, <2>2 DEF AllBooked
    <2>4. \A u \in Spreaders \ {s} : Claim(u)' = Claim(u)
      BY <1>1, <1>3, SpreaderKeeps DEF Claim, Net, Left, Due
    <2>5. /\ Wealth' = Wealth - Own(s) + Own(s)'
          /\ Wealth \in Int /\ Own(s) \in Int /\ Own(s)' \in Int
      BY <1>1, <2>1, <2>3, <2>4, WealthStep
    <2> QED
      BY <1>1, <2>1, <2>3, <2>5, StimulusAssumption
  <1> QED
    BY <1>2, <1>3 DEF SpreaderNext

LEMMA InitWealth == SpreaderInit => Wealth = TOKENS
  <1> SUFFICES ASSUME SpreaderInit PROVE Wealth = TOKENS
    OBVIOUS
  <1> DEFINE f == [s \in Spreaders |-> Claim(s)]
  <1>1. Sum(importance, Handles) = 0 /\ Sum(stimuli_to_spread, Handles) = 0
    <2>1. \A h \in Handles : importance[h] = 0 /\ stimuli_to_spread[h] = 0
      BY DEF SpreaderInit
    <2> QED
      BY <2>1, HandlesFinite, SumZero
  <1>2. \A s \in Spreaders : f[s] = 0
    <2> SUFFICES ASSUME NEW s \in Spreaders PROVE Claim(s) = 0
      OBVIOUS
    <2>1. Left(s) = {}
      BY DEF SpreaderInit, Left, Due
    <2>2. Claim(s) = Sum(Net(s), {})
      BY <2>1 DEF Claim
    <2> QED
      BY <2>2, SumEmpty
  <1>3. Wealth = Sum(importance, Handles) + Sum(stimuli_to_spread, Handles)
                   + tokens_to_distribute + Sum(f, Spreaders)
    BY DEF Wealth
  <1> HIDE DEF f
  <1>4. Sum(f, Spreaders) = 0
    BY <1>2, SumZero, StimulusAssumption
  <1> QED
    BY <1>1, <1>3, <1>4, StimulusAssumption DEF SpreaderInit

LEMMA InitSolvent == SpreaderInit => SolventInvariant
  <1> SUFFICES ASSUME SpreaderInit PROVE SolventInvariant
    OBVIOUS
  <1>1. TypeInvariant /\ NetworkInvariant /\ AtRest
    BY InitCrash DEF CrashInvariant
  <1>2. Funded /\ AllBooked
    BY DEF SpreaderInit, Funded, AllBooked, Booking, Due, Active, Visiting
  <1>3. Wealth <= TOKENS
    BY InitWealth, StimulusAssumption
  <1> QED
    BY <1>1, <1>2, <1>3 DEF SolventInvariant

LEMMA NextSolvent == SolventInvariant /\ [SpreaderNext]_allVars => SolventInvariant'
  <1> SUFFICES ASSUME SolventInvariant, [SpreaderNext]_allVars PROVE SolventInvariant'
    OBVIOUS
  <1>1. TypeInvariant' /\ NetworkInvariant'
    BY NextSpreaderType, NetworkNext DEF SolventInvariant
  <1>2. CASE SpreaderNext
    BY <1>1, <1>2, AtRestStep, SolventStep DEF SolventInvariant, TypeInvariant
  <1>3. CASE UNCHANGED allVars
    <2>1. UNCHANGED vars /\ UNCHANGED spreadVars
      BY <1>3 DEF allVars
    <2>2. UNCHANGED <<stage, disturbances, importance, stimuli_to_spread, tokens_to_distribute,
                      stimulus, importance_changes, summed, to_visit, data_largest_arity,
                      largest_arity, overlapped, pc>>
      BY <2>1 DEF vars, largestVars, workerVars, historyVars, spreadVars, tokenVars,
                  dataVars, visitVars
    <2>3. AtRest' /\ (Solvent' => Solvent)
      BY <2>2 DEF SolventInvariant, AtRest, Calm, Active, Quiescent, Solvent
    <2>4. Funded' = Funded /\ Wealth' = Wealth
      BY <2>2 DEF Funded, Wealth, Claim, Net, Left, Due
    <2>5. AllBooked => AllBooked'
      BY <2>1, <2>2, SameNetwork DEF AllBooked, Booking, Due, Booked, Active, Visiting, NextNode
    <2> QED
      BY <1>1, <2>3, <2>4, <2>5 DEF SolventInvariant
  <1> QED
    BY <1>2, <1>3

LEMMA WealthType == SpreaderTypes /\ Funded /\ AllBooked => Wealth \in Int
  <1> SUFFICES ASSUME SpreaderTypes, Funded, AllBooked PROVE Wealth \in Int
    OBVIOUS
  <1> DEFINE f == [s \in Spreaders |-> Claim(s)]
  <1>1. Ints(f, Spreaders)
    BY ClaimsType DEF ClaimsAreNumbers, Ints
  <1>2. Wealth = Sum(importance, Handles) + Sum(stimuli_to_spread, Handles)
                   + tokens_to_distribute + Sum(f, Spreaders)
    BY DEF Wealth
  <1> HIDE DEF f
  <1>3. Sum(f, Spreaders) \in Int
    BY <1>1, SumInt, StimulusAssumption
  <1> QED
    BY <1>2, <1>3, FundedSums

LEMMA PendingIsClaim ==
    ASSUME SpreaderTypes, NEW s \in Spreaders, Booking(s)
    PROVE  Pending(s) = Claim(s)
  <1> DEFINE f == [h \in Left(s) |-> Minus(importance_changes[s][h].wages,
                                           importance_changes[s][h].rent)]
  <1>1. Pending(s) = Total(f, Left(s))
    <2>1. (CASE stage[s] = "consolidate" -> DOMAIN importance_changes[s]
             [] stage[s] = "consolidating" -> to_visit[s] \cap DOMAIN importance_changes[s]
             [] OTHER -> {}) = Left(s)
      BY DEF Left, Due
    <2> QED
      BY <2>1 DEF Pending
  <1>2. ASSUME NEW h \in Left(s)
        PROVE  Minus(importance_changes[s][h].wages, importance_changes[s][h].rent)
                  = importance_changes[s][h].wages - importance_changes[s][h].rent
    <2>1. Booked(s, h)
      BY DEF Left, Booking
    <2> QED
      BY <2>1, StimulusAssumption DEF Booked, Minus
  <1>3. f = Net(s)
    BY <1>2 DEF Net
  <1>4. Total(Net(s), Left(s)) = Sum(Net(s), Left(s))
    BY ClaimType, TotalIsSum
  <1> QED
    BY <1>1, <1>3, <1>4 DEF Claim

LEMMA BalanceIsWealth ==
    ASSUME SpreaderTypes, Funded, AllBooked
    PROVE  Balance = Wealth
  <1> DEFINE f == [s \in Spreaders |-> Pending(s)]
  <1>1. f = [s \in Spreaders |-> Claim(s)]
    BY PendingIsClaim DEF AllBooked
  <1>2. Ints(f, Spreaders)
    BY <1>1, ClaimsType DEF ClaimsAreNumbers, Ints
  <1>3. Balance = Plus(Plus(Total(importance, Handles), Total(stimuli_to_spread, Handles)),
                       Plus(tokens_to_distribute, Total(f, Spreaders)))
    BY DEF Balance
  <1>4. Wealth = Sum(importance, Handles) + Sum(stimuli_to_spread, Handles)
                   + tokens_to_distribute + Sum(f, Spreaders)
    BY <1>1 DEF Wealth
  <1> HIDE DEF f
  <1>5. /\ Total(importance, Handles) = Sum(importance, Handles)
        /\ Total(stimuli_to_spread, Handles) = Sum(stimuli_to_spread, Handles)
        /\ Total(f, Spreaders) = Sum(f, Spreaders)
    BY <1>2, FundedSums, TotalIsSum
  <1>6. /\ Sum(importance, Handles) \in Int /\ Sum(stimuli_to_spread, Handles) \in Int
        /\ Sum(f, Spreaders) \in Int /\ tokens_to_distribute \in Int
    BY <1>2, FundedSums, SumInt, StimulusAssumption
  <1>7. \A x, y \in Int : Plus(x, y) = x + y /\ x + y \in Int
    BY StimulusAssumption DEF Plus
  <1>8. /\ Plus(Sum(importance, Handles), Sum(stimuli_to_spread, Handles))
              = Sum(importance, Handles) + Sum(stimuli_to_spread, Handles)
        /\ Plus(tokens_to_distribute, Sum(f, Spreaders)) = tokens_to_distribute + Sum(f, Spreaders)
    BY <1>6, <1>7
  <1>9. Balance = (Sum(importance, Handles) + Sum(stimuli_to_spread, Handles))
                    + (tokens_to_distribute + Sum(f, Spreaders))
    BY <1>3, <1>5, <1>6, <1>7, <1>8
  <1> QED
    BY <1>4, <1>6, <1>9

\* Spreaders that run at the same time may lose tokens but create none, as long as
\* no correlation runs beside them, every node has a neighbor, the sums of the
\* requests are right and no node owed a rent that it no longer owned
\* (StimulusSpreader.cc:44-73, 137-149).
THEOREM TokensAreNotCreated == SpreaderSpec => []NeverCreated
  <1>1. SolventInvariant => NeverCreated
    BY BalanceIsWealth DEF SolventInvariant, TypeInvariant, Solvent, NeverCreated
  <1> QED
    BY <1>1, InitSolvent, NextSolvent, PTL DEF SpreaderSpec

-----------------------------------------------------------------------------
(* Requests that are processed one at a time keep the tokens, up to rounding *)

Exact == disturbances = {}

\* What one node, or the wages of one request, can lose to rounding, and one request.
NodeLoss == HandleCount
RequestLoss == NodeLoss + HandleCount * NodeLoss

\* What rounding may still lose of the request.
Allowed(s) ==
    CASE stage[s] = "idle" -> 0
      [] stage[s] \in {"rent", "wages"} -> RequestLoss
      [] stage[s] \in {"consolidate", "consolidating", "spread"} -> HandleCount * NodeLoss
      [] OTHER -> Cardinality(to_visit[s]) * NodeLoss

\* The node has consolidated and not spread yet.
Holding(s, h) ==
    \/ stage[s] = "consolidating" /\ h \in Present \ to_visit[s]
    \/ stage[s] = "spread" /\ h \in Present
    \/ stage[s] \in {"spreading", "delivering"} /\ h \in to_visit[s]

Spent == \A h \in Handles : stimuli_to_spread[h] # 0 => \E s \in Spreaders : Holding(s, h)

\* Whoever is paid is in the trie.
Listed(s) ==
    /\ Active(s) => Known(stimulus[s])
    /\ stage[s] \in {"wages", "consolidate"} => DOMAIN importance_changes[s] \subseteq Present

Sustained(s) == TOKENS + Allowed(s) <= Wealth + started * RequestLoss

KeptInvariant ==
    /\ SolventInvariant /\ OneStimulus
    /\ Exact => Spent /\ \A s \in Spreaders : Listed(s) /\ Sustained(s)

LEMMA ExactImplies ==
    ASSUME Exact
    PROVE  Solvent /\ Undisturbed /\ Calm
  BY DEF Exact, Solvent, Undisturbed, Calm

LEMMA StillExact ==
    ASSUME SpreaderNext, Exact'
    PROVE  Exact
  BY DisturbancesGrow DEF Exact

\* Only the spreader that is at work has consolidated nodes.
LEMMA OnlyHolder ==
    ASSUME Spent, NEW s \in Spreaders, \A u \in Spreaders \ {s} : ~Active(u)
    PROVE  \A h \in Handles : stimuli_to_spread[h] # 0 => Holding(s, h)
  <1>1. \A u \in Spreaders \ {s}, h \in Handles : ~Holding(u, h)
    BY DEF Holding, Active
  <1> QED
    BY <1>1 DEF Spent

LEMMA SpentStep ==
    ASSUME TypeInvariant, AtRest, OneStimulus, Exact, Exact', SpreaderNext, Spent,
           \A s \in Spreaders : Booking(s)
    PROVE  Spent'
  <1>1. SpreaderTypes /\ stimuli_to_spread \in [Handles -> Amounts]
    BY DEF TypeInvariant, SpreaderTypes, TokenType
  <1>2. Undisturbed /\ Undisturbed' /\ Calm'
    BY DEF Exact, Undisturbed, Calm
  <1>3. ASSUME NEW t \in Updaters, Correlate(t) \/ \E list \in Lists : StartCorrelation(t, list)
        PROVE  Spent'
    <2>1. UNCHANGED <<stimuli_to_spread, stage, to_visit>>
      BY <1>3, CorrelationKeeps DEF tokenVars, visitVars
    <2>2. ASSUME NEW s \in Spreaders, NEW h \in Handles, Holding(s, h)
          PROVE  Holding(s, h)'
      <3>1. UNCHANGED vars
        BY <1>2, <2>2, CalmStep DEF Holding, Active
      <3> QED
        BY <2>1, <2>2, <3>1, SameNetwork DEF Holding
    <2> QED
      BY <2>1, <2>2 DEF Spent
  <1>4. ASSUME NEW s \in Spreaders, SpreadStimuli(s) \/ \E r \in Stimuli : StartStimulus(s, r)
        PROVE  Spent'
    <2>1. UNCHANGED vars /\ \A h \in Handles : stimuli_to_spread[h] # 0 => Holding(s, h)
      BY <1>1, <1>2, <1>4, OnlyOne, OnlyHolder, SpreaderKeeps
    <2>2. Present' = Present
      BY <2>1, SameNetwork
    <2> SUFFICES ASSUME NEW h \in Handles, stimuli_to_spread'[h] # 0
                 PROVE  Holding(s, h)'
      BY DEF Spent
    <2>3. CASE CollectRent(s) \/ DistributeWages(s) \/ \E r \in Stimuli : StartStimulus(s, r)
      <3>1. stimuli_to_spread' = stimuli_to_spread /\ ~Holding(s, h)
        BY <2>3 DEF CollectRent, DistributeWages, StartStimulus, tokenVars, Holding
      <3> QED
        BY <2>1, <3>1
    <2>4. CASE WagesThrow(s) \/ NoChanges(s) \/ EdgeNotLinked(s)
      BY <2>1, <2>2, <2>4 DEF WagesThrow, NoChanges, EdgeNotLinked, Crash, tokenVars, visitVars, Holding
    <2>5. CASE LockRoot(s) \/ UnlockRoot(s)
      <3>1. stimuli_to_spread' = stimuli_to_spread /\ Holding(s, h)
        BY <2>1, <2>5 DEF LockRoot, UnlockRoot, tokenVars
      <3>2. CASE LockRoot(s)
        BY <1>1, <2>2, <3>1, <3>2 DEF LockRoot, Move, Holding, SpreaderTypes, RequestType
      <3>3. CASE UnlockRoot(s)
        BY <1>1, <2>2, <3>1, <3>3 DEF UnlockRoot, Move, Holding, SpreaderTypes, RequestType
      <3> QED
        BY <2>5, <3>2, <3>3
    <2>6. CASE ConsolidateNode(s)
      <3> DEFINE h0 == NextNode(s)
      <3>1. /\ stage[s] = "consolidating" /\ stage' = stage /\ to_visit'[s] = to_visit[s] \ {h0}
            /\ stimuli_to_spread' = [stimuli_to_spread EXCEPT ![h0] = ToSpread(s, h0)]
        BY <1>1, <2>6 DEF ConsolidateNode, SpreaderTypes, RequestType
      <3>2. to_visit[s] \in SUBSET Handles /\ to_visit[s] # {} /\ to_visit[s] \subseteq Present
        BY <1>1, <2>6 DEF ConsolidateNode, SpreaderTypes, RequestType, Booking, Visiting
      <3>3. h0 \in to_visit[s]
        BY <3>2, LeastHandle DEF NextNode
      <3> HIDE DEF h0
      <3>4. CASE h = h0
        BY <2>2, <3>1, <3>2, <3>3, <3>4 DEF Holding
      <3>5. CASE h # h0
        <4>1. stimuli_to_spread[h] # 0
          BY <1>1, <3>1, <3>5
        <4>2. h \in Present \ to_visit[s]
          BY <2>1, <3>1, <4>1 DEF Holding
        <4> QED
          BY <2>2, <3>1, <4>2 DEF Holding
      <3> QED
        BY <3>4, <3>5
    <2>7. CASE TraverseSumWeights(s)
      BY <1>1, <2>1, <2>2, <2>7
      DEF TraverseSumWeights, Move, tokenVars, Holding, SpreaderTypes, RequestType
    <2>8. CASE TraverseDeliverStimulus(s)
      <3> DEFINE h0 == NextNode(s)
      <3>1. /\ stage[s] = "delivering" /\ stage'[s] = "spreading"
            /\ to_visit'[s] = to_visit[s] \ {h0}
            /\ stimuli_to_spread' = [stimuli_to_spread EXCEPT ![h0] = 0]
        BY <1>1, <2>8 DEF TraverseDeliverStimulus, Move, SpreaderTypes, RequestType
      <3> HIDE DEF h0
      <3>2. h # h0 /\ stimuli_to_spread[h] # 0
        BY <1>1, <3>1
      <3> QED
        BY <2>1, <3>1, <3>2 DEF Holding
    <2> QED
      BY <1>4, <2>3, <2>4, <2>5, <2>6, <2>7, <2>8 DEF SpreadStimuli
  <1> QED
    BY <1>3, <1>4 DEF SpreaderNext

LEMMA ListedStep ==
    ASSUME TypeInvariant, AtRest, Exact, Exact', SpreaderNext, NEW u \in Spreaders, Listed(u)
    PROVE  Listed(u)'
  <1>1. SpreaderTypes /\ Calm'
    BY DEF TypeInvariant, Exact, Calm
  <1>2. ASSUME NEW t \in Updaters, Correlate(t) \/ \E list \in Lists : StartCorrelation(t, list)
        PROVE  Listed(u)'
    <2>1. UNCHANGED <<stage, stimulus, importance_changes>>
      BY <1>2, CorrelationKeeps DEF dataVars, visitVars
    <2>2. CASE Active(u)
      <3>1. Present' = Present
        BY <1>1, <2>2, CalmStep, SameNetwork
      <3> QED
        BY <2>1, <3>1 DEF Listed, Active, Known
    <2>3. CASE ~Active(u)
      BY <2>1, <2>3 DEF Listed, Active
    <2> QED
      BY <2>2, <2>3
  <1>3. ASSUME NEW s \in Spreaders \ {u}, SpreadStimuli(s) \/ \E r \in Stimuli : StartStimulus(s, r)
        PROVE  Listed(u)'
    BY <1>1, <1>3, SpreaderKeeps, SameNetwork DEF Listed, Active, Known
  <1>4. ASSUME SpreadStimuli(u) \/ \E r \in Stimuli : StartStimulus(u, r)
        PROVE  Listed(u)'
    <2>1. Present' = Present
      BY <1>1, <1>4, SpreaderKeeps, SameNetwork
    <2>2. CASE \E r \in Stimuli : StartStimulus(u, r)
      <3>1. PICK r \in Stimuli : StartStimulus(u, r)
        BY <2>2
      <3>2. Known(r)
        BY <3>1 DEF StartStimulus, DisturbancesOf, Exact
      <3>3. stage'[u] = "rent" /\ stimulus'[u] = r
        BY <1>1, <3>1 DEF StartStimulus, Move, SpreaderTypes, RequestType
      <3> QED
        BY <2>1, <3>2, <3>3 DEF Listed, Known
    <2>3. ASSUME SpreadStimuli(u)
          PROVE  stimulus' = stimulus /\ Known(stimulus[u]) /\ Known(stimulus[u])'
      <3>1. stimulus' = stimulus
        BY <2>3 DEF SpreadStimuli, CollectRent, DistributeWages, WagesThrow, LockRoot,
           UnlockRoot, ConsolidateNode, NoChanges, TraverseSumWeights, TraverseDeliverStimulus,
           EdgeNotLinked, Crash, dataVars
      <3>2. Known(stimulus[u])
        BY <2>3, Acting DEF Listed
      <3> QED
        BY <2>1, <3>1, <3>2 DEF Known
    <2>4. CASE CollectRent(u)
      BY <1>1, <2>1, <2>3, <2>4
      DEF SpreadStimuli, CollectRent, Renters, Move, Listed, SpreaderTypes, RequestType
    <2>5. CASE DistributeWages(u)
      <3>1. /\ DOMAIN importance_changes'[u] = DOMAIN importance_changes[u] \cup DOMAIN stimulus[u].count
            /\ stage[u] = "wages"
        BY <1>1, <2>5 DEF DistributeWages, SpreaderTypes, RequestType
      <3> QED
        BY <2>1, <2>3, <2>5, <3>1 DEF SpreadStimuli, Listed, Known
    <2>6. ASSUME SpreadStimuli(u), ~CollectRent(u), ~DistributeWages(u)
          PROVE  Listed(u)'
      <3>1. importance_changes' = importance_changes
        BY <2>6 DEF SpreadStimuli, WagesThrow, LockRoot, UnlockRoot, ConsolidateNode, NoChanges,
           TraverseSumWeights, TraverseDeliverStimulus, EdgeNotLinked, Crash, dataVars
      <3>2. stage'[u] \in {"wages", "consolidate"} => stage'[u] = stage[u]
        BY <1>1, <2>6 DEF SpreadStimuli, WagesThrow, LockRoot, UnlockRoot, ConsolidateNode, NoChanges,
           TraverseSumWeights, TraverseDeliverStimulus, EdgeNotLinked, Crash, visitVars, Move,
           SpreaderTypes, RequestType
      <3> QED
        BY <2>1, <2>3, <2>6, <3>1, <3>2 DEF Listed
    <2> QED
      BY <1>4, <2>2, <2>4, <2>5, <2>6
  <1> QED
    BY <1>2, <1>3, <1>4 DEF SpreaderNext

LEMMA AllowedType ==
    ASSUME SpreaderTypes, NEW s \in Spreaders
    PROVE  /\ Allowed(s) \in Nat /\ RequestLoss \in Nat /\ HandleCount * NodeLoss \in Nat
           /\ RequestLoss = HandleCount + HandleCount * NodeLoss
  <1>1. Cardinality(to_visit[s]) \in Nat
    BY FewHandles DEF SpreaderTypes, RequestType
  <1>2. HandleCount \in Nat /\ NodeLoss \in Nat
    BY HandleAssumption DEF NodeLoss
  <1>3. HandleCount * NodeLoss \in Nat /\ Cardinality(to_visit[s]) * NodeLoss \in Nat
    BY <1>1, <1>2
  <1>4. RequestLoss \in Nat /\ RequestLoss = HandleCount + HandleCount * NodeLoss
    BY <1>2, <1>3 DEF RequestLoss, NodeLoss
  <1> QED
    BY <1>3, <1>4 DEF Allowed

AllowedNumbers == \A s \in Spreaders : Allowed(s) \in Nat

LEMMA AllowedNumbersHold == SpreaderTypes => AllowedNumbers
  BY AllowedType DEF AllowedNumbers

LEMMA AllowedNumbersStep == SpreaderTypes' => AllowedNumbers'
  BY AllowedNumbersHold, PTL

\* What a step of a spreader loses was allowed for.
LEMMA OwnLoss ==
    ASSUME TypeInvariant, NetworkInvariant, AtRest, OneStimulus, Exact, Exact', Funded, Spent,
           NEW s \in Spreaders, Booking(s), Listed(s), SpreadStimuli(s),
           Own(s) \in Int, Own(s)' \in Int
    PROVE  Own(s) + Allowed(s)' <= Own(s)' + Allowed(s)
  <1>1. SpreaderTypes /\ Solvent /\ Solvent' /\ Undisturbed /\ Undisturbed'
    BY DEF TypeInvariant, Exact, Solvent, Undisturbed
  <1>2. /\ HandleCount \in Nat /\ NodeLoss = HandleCount /\ HandleCount * NodeLoss \in Nat
        /\ RequestLoss = HandleCount + HandleCount * NodeLoss /\ Allowed(s) \in Nat
    BY <1>1, AllowedType, HandleAssumption DEF NodeLoss
  <1>3. ASSUME UNCHANGED tokenVars, Claim(s)' = Claim(s), Allowed(s)' \in Nat, Allowed(s)' <= Allowed(s)
        PROVE  Own(s) + Allowed(s)' <= Own(s)' + Allowed(s)
    <2>1. Own(s)' = Own(s)
      BY <1>3 DEF Own, tokenVars
    <2> QED
      BY <1>2, <1>3, <2>1
  <1>4. ASSUME Left(s) = {}, Left(s)' = {}
        PROVE  Claim(s) = 0 /\ Claim(s)' = 0
    <2>1. Claim(s) = Sum(Net(s), {}) /\ Claim(s)' = Sum(Net(s)', {})
      BY <1>4 DEF Claim
    <2> QED
      BY <2>1, SumEmpty
  <1>5. CASE CollectRent(s)
    <2>1. stage[s] = "rent" /\ stage'[s] = "wages" /\ UNCHANGED tokenVars
      BY <1>1, <1>5 DEF CollectRent, Move, SpreaderTypes, RequestType
    <2>2. Left(s) = {} /\ Left(s)' = {}
      BY <2>1 DEF Left, Due
    <2>3. Allowed(s) = RequestLoss /\ Allowed(s)' = RequestLoss
      BY <2>1 DEF Allowed
    <2> QED
      BY <1>2, <1>3, <1>4, <2>1, <2>2, <2>3
  <1>6. CASE DistributeWages(s)
    <2>1. /\ stage[s] = "wages" /\ stage'[s] = "consolidate" /\ tokens_to_distribute' = 0
          /\ UNCHANGED <<importance, stimuli_to_spread>>
      BY <1>1, <1>6 DEF DistributeWages, Move, Alienated, SpreaderTypes, RequestType
    <2>2. Claim(s)' \in Int /\ tokens_to_distribute <= Claim(s)' + HandleCount
      BY <1>6, WagesCovered
    <2>3. Claim(s) = 0
      <3>1. Left(s) = {}
        BY <2>1 DEF Left
      <3>2. Claim(s) = Sum(Net(s), {})
        BY <3>1 DEF Claim
      <3> QED
        BY <3>2, SumEmpty
    <2>4. Own(s)' = Sum(importance, Handles) + Sum(stimuli_to_spread, Handles) + 0 + Claim(s)'
      BY <2>1 DEF Own
    <2>5. /\ Sum(importance, Handles) \in Int /\ Sum(stimuli_to_spread, Handles) \in Int
          /\ tokens_to_distribute \in Int
      BY <1>1, FundedSums
    <2>6. Own(s) <= Own(s)' + HandleCount
      BY <1>2, <2>2, <2>3, <2>4, <2>5 DEF Own
    <2>7. Allowed(s) = RequestLoss /\ Allowed(s)' = HandleCount * NodeLoss
      BY <2>1 DEF Allowed
    <2>8. PICK n \in Nat : n = HandleCount * NodeLoss
      BY <1>2
    <2> QED
      BY <1>2, <2>6, <2>7, <2>8
  <1>7. CASE LockRoot(s)
    <2>1. /\ UNCHANGED tokenVars /\ to_visit'[s] = Present
          /\ \/ stage[s] = "consolidate" /\ stage'[s] = "consolidating"
             \/ stage[s] = "spread" /\ stage'[s] = "spreading"
      BY <1>1, <1>7 DEF LockRoot, Move, SpreaderTypes, RequestType
    <2>2. Claim(s) \in Int
      BY <1>1, ClaimType
    <2>3. Claim(s)' = Claim(s)
      BY <1>7, <2>1, <2>2, LockRootBooking DEF Listed
    <2>4. Allowed(s) = HandleCount * NodeLoss
      BY <2>1 DEF Allowed
    <2>5. Allowed(s)' \in Nat /\ Allowed(s)' <= HandleCount * NodeLoss
      <3>1. CASE stage'[s] = "consolidating"
        BY <1>2, <3>1 DEF Allowed
      <3>2. CASE stage'[s] = "spreading"
        <4>1. Allowed(s)' = Cardinality(Present) * NodeLoss
          BY <2>1, <3>2 DEF Allowed, NodeLoss
        <4>2. PICK c \in Nat : c = Cardinality(Present) /\ c <= HandleCount
          BY PresentHandles, FewHandles
        <4>3. \A a, b, m \in Nat : a <= b => a * m \in Nat /\ a * m <= b * m
          OBVIOUS
        <4> QED
          BY <1>2, <4>1, <4>2, <4>3
      <3> QED
        BY <2>1, <3>1, <3>2
    <2> QED
      BY <1>3, <2>1, <2>3, <2>4, <2>5
  <1>8. CASE UnlockRoot(s)
    <2>1. /\ to_visit[s] = {}
          /\ \/ stage[s] = "consolidating" /\ stage'[s] = "spread"
             \/ stage[s] = "spreading" /\ stage'[s] = "idle"
      BY <1>1, <1>8 DEF UnlockRoot, Move, SpreaderTypes, RequestType
    <2>2. Claim(s)' = Claim(s) /\ UNCHANGED tokenVars
      BY <1>8, QuietBooking
    <2>3. Allowed(s)' \in Nat /\ Allowed(s)' <= Allowed(s)
      BY <1>2, <2>1 DEF Allowed
    <2> QED
      BY <1>3, <2>2, <2>3
  <1>9. CASE TraverseSumWeights(s) \/ WagesThrow(s) \/ NoChanges(s) \/ EdgeNotLinked(s)
    <2>1. Claim(s)' = Claim(s) /\ UNCHANGED tokenVars
      BY <1>9, QuietBooking
    <2>2. to_visit' = to_visit
      BY <1>9 DEF TraverseSumWeights, WagesThrow, NoChanges, EdgeNotLinked, Crash, visitVars
    <2>3. stage' = stage \/ (stage[s] = "spreading" /\ stage'[s] = "delivering")
      BY <1>1, <1>9 DEF TraverseSumWeights, WagesThrow, NoChanges, EdgeNotLinked, Crash, visitVars,
                        Move, SpreaderTypes, RequestType
    <2>4. Allowed(s)' = Allowed(s)
      BY <2>2, <2>3 DEF Allowed
    <2> QED
      BY <1>2, <1>3, <2>1, <2>4
  <1>10. CASE ConsolidateNode(s)
    <2> DEFINE h == NextNode(s)
    <2>1. Own(s) = Own(s)' + stimuli_to_spread[h]
      BY <1>1, <1>10, ConsolidateNodeBooking
    <2>2. to_visit[s] \in SUBSET Handles /\ to_visit[s] # {} /\ stage[s] = "consolidating"
      BY <1>1, <1>10 DEF ConsolidateNode, SpreaderTypes, RequestType
    <2>3. h \in to_visit[s] /\ h \in Handles
      BY <2>2, LeastHandle DEF NextNode
    <2> HIDE DEF h
    <2>4. ~Holding(s, h)
      BY <2>2, <2>3 DEF Holding
    <2>5. stimuli_to_spread[h] = 0
      BY <1>1, <2>3, <2>4, OnlyOne, OnlyHolder
    <2>6. Allowed(s)' = Allowed(s)
      BY <1>10, <2>2 DEF ConsolidateNode, Allowed
    <2> QED
      BY <1>2, <2>1, <2>5, <2>6
  <1>11. CASE TraverseDeliverStimulus(s)
    <2> DEFINE h == NextNode(s)
    <2>1. Own(s) <= Own(s)' + HandleCount
      BY <1>11, TraverseDeliverStimulusBooking
    <2>2. /\ to_visit[s] \in SUBSET Handles /\ to_visit[s] # {} /\ to_visit'[s] = to_visit[s] \ {h}
          /\ stage[s] = "delivering" /\ stage'[s] = "spreading"
      BY <1>1, <1>11
      DEF TraverseDeliverStimulus, Move, SpreaderTypes, RequestType, RequestShape
    <2>3. h \in to_visit[s]
      BY <2>2, LeastHandle DEF NextNode
    <2> HIDE DEF h
    <2>4. PICK c \in Nat : Cardinality(to_visit[s] \ {h}) = c /\ Cardinality(to_visit[s]) = c + 1
      <3>1. IsFiniteSet(to_visit[s])
        BY <2>2, HandlesFinite, FS_Subset
      <3>2. /\ Cardinality(to_visit[s] \ {h}) = Cardinality(to_visit[s]) - 1
            /\ Cardinality(to_visit[s]) \in Nat
        BY <2>3, <3>1, FS_RemoveElement, FS_CardinalityType
      <3>3. Cardinality(to_visit[s] \ {h}) \in Nat
        BY <2>2, FewHandles
      <3> QED
        BY <3>2, <3>3
    <2>5. Allowed(s) = (c + 1) * NodeLoss /\ Allowed(s)' = c * NodeLoss
      BY <2>2, <2>4 DEF Allowed, NodeLoss
    <2>6. (c + 1) * NodeLoss = c * NodeLoss + HandleCount /\ c * NodeLoss \in Nat
      BY <1>2
    <2> QED
      BY <1>2, <2>1, <2>5, <2>6
  <1> QED
    BY <1>5, <1>6, <1>7, <1>8, <1>9, <1>10, <1>11 DEF SpreadStimuli

LEMMA SustainedStep ==
    ASSUME KeptInvariant, SolventInvariant', SpreaderNext, Exact'
    PROVE  \A u \in Spreaders : Sustained(u)'
  <1>1. Exact /\ Solvent /\ Solvent' /\ Undisturbed /\ Undisturbed' /\ Calm'
    BY StillExact DEF Exact, Solvent, Undisturbed, Calm
  <1>2. /\ TypeInvariant /\ TypeInvariant' /\ SpreaderTypes /\ NetworkInvariant /\ AtRest
        /\ OneStimulus /\ Funded /\ Funded' /\ AllBooked /\ AllBooked' /\ Spent
        /\ \A s \in Spreaders : Listed(s) /\ Sustained(s) /\ Booking(s)
    BY <1>1 DEF KeptInvariant, SolventInvariant, TypeInvariant, AllBooked
  <1>3. started \in Nat /\ TOKENS \in Nat
    BY <1>2, StimulusAssumption DEF SpreaderTypes, RequestType
  <1>4. ASSUME NEW t \in Updaters, Correlate(t) \/ \E list \in Lists : StartCorrelation(t, list)
        PROVE  \A u \in Spreaders : Sustained(u)'
    <2>1. UNCHANGED <<importance, stimuli_to_spread, tokens_to_distribute, stage, to_visit,
                      importance_changes, started>>
      BY <1>4, CorrelationKeeps DEF tokenVars, dataVars, visitVars
    <2>2. Wealth' = Wealth /\ \A u \in Spreaders : Allowed(u)' = Allowed(u)
      BY <2>1 DEF Wealth, Claim, Net, Left, Due, Allowed
    <2> QED
      BY <1>2, <2>1, <2>2 DEF Sustained
  <1>5. ASSUME NEW s \in Spreaders, SpreadStimuli(s) \/ \E r \in Stimuli : StartStimulus(s, r)
        PROVE  \A u \in Spreaders : Sustained(u)'
    <2>1. \A u \in Spreaders \ {s} : Claim(u)' = Claim(u)
      BY <1>2, <1>5, SpreaderKeeps DEF Claim, Net, Left, Due
    <2>2. /\ Wealth' = Wealth - Own(s) + Own(s)'
          /\ Wealth \in Int /\ Own(s) \in Int /\ Own(s)' \in Int
      BY <1>2, <2>1, WealthStep
    <2>3. /\ Allowed(s) \in Nat /\ RequestLoss \in Nat
          /\ TOKENS + Allowed(s) <= Wealth + started * RequestLoss
      BY <1>2, AllowedType DEF Sustained
    <2>4. PICK n \in Nat : n = started * RequestLoss
      BY <1>3, <2>3
    <2>5. /\ Allowed(s)' \in Nat
          /\ TOKENS + Allowed(s)' <= Wealth' + started' * RequestLoss
          /\ Wealth' + started' * RequestLoss \in Int
      <3>1. CASE SpreadStimuli(s)
        <4>1. started' = started
          BY <3>1 DEF SpreadStimuli, CollectRent, DistributeWages, WagesThrow, LockRoot,
             UnlockRoot, ConsolidateNode, NoChanges, TraverseSumWeights, TraverseDeliverStimulus,
             EdgeNotLinked, Crash
        <4>2. Own(s) + Allowed(s)' <= Own(s)' + Allowed(s)
          BY <1>1, <1>2, <2>2, <3>1, OwnLoss
        <4>3. Allowed(s)' \in Nat
          BY <1>2, AllowedNumbersStep DEF AllowedNumbers, TypeInvariant
        <4> QED
          BY <1>3, <2>2, <2>3, <2>4, <4>1, <4>2, <4>3
      <3>2. CASE \E r \in Stimuli : StartStimulus(s, r)
        <4>1. /\ stage[s] = "idle" /\ stage'[s] = "rent" /\ started' = started + 1
              /\ UNCHANGED tokenVars
          BY <1>2, <3>2 DEF StartStimulus, Move, SpreaderTypes, RequestType
        <4>2. Left(s) = {} /\ Left(s)' = {}
          BY <4>1 DEF Left, Due
        <4>3. Claim(s) = Sum(Net(s), {}) /\ Claim(s)' = Sum(Net(s)', {})
          BY <4>2 DEF Claim
        <4>4. Own(s)' = Own(s)
          BY <4>1, <4>3, SumEmpty DEF Own, tokenVars
        <4>5. Allowed(s) = 0 /\ Allowed(s)' = RequestLoss
          BY <4>1 DEF Allowed
        <4>6. started' * RequestLoss = n + RequestLoss
          BY <1>3, <2>3, <2>4, <4>1
        <4> QED
          BY <1>3, <2>2, <2>3, <2>4, <4>4, <4>5, <4>6
      <3> QED
        BY <1>5, <3>1, <3>2
    <2>6. ASSUME NEW u \in Spreaders \ {s}
          PROVE  Allowed(u)' = 0
      <3>1. ~Active(u)'
        BY <1>1, <1>2, <1>5, OnlyOne
      <3> QED
        BY <3>1 DEF Active, Allowed
    <2> SUFFICES ASSUME NEW u \in Spreaders
                 PROVE  TOKENS + Allowed(u)' <= Wealth' + started' * RequestLoss
      BY DEF Sustained
    <2>7. CASE u = s
      BY <2>5, <2>7
    <2>8. CASE u # s
      <3>1. Allowed(u)' = 0
        BY <2>6, <2>8
      <3>2. PICK m \in Int : m = Wealth' + started' * RequestLoss
        BY <2>5
      <3> QED
        BY <1>3, <2>5, <3>1, <3>2
    <2> QED
      BY <2>7, <2>8
  <1> QED
    BY <1>4, <1>5 DEF SpreaderNext

LEMMA InitKept == SpreaderInit => KeptInvariant
  <1> SUFFICES ASSUME SpreaderInit PROVE KeptInvariant
    OBVIOUS
  <1>1. SolventInvariant /\ OneStimulus
    BY InitSolvent, InitCredit DEF CreditInvariant
  <1>2. Spent /\ \A s \in Spreaders : Listed(s)
    BY DEF SpreaderInit, Spent, Listed, Active
  <1>3. ASSUME NEW s \in Spreaders
        PROVE  Sustained(s)
    <2>1. Allowed(s) = 0 /\ started = 0
      BY DEF SpreaderInit, Allowed
    <2>2. TOKENS <= Wealth /\ Wealth \in Int
      BY InitWealth, StimulusAssumption
    <2>3. RequestLoss \in Nat
      BY <1>1, AllowedType DEF SolventInvariant, TypeInvariant
    <2> QED
      BY <2>1, <2>2, <2>3, StimulusAssumption DEF Sustained
  <1> QED
    BY <1>1, <1>2, <1>3 DEF KeptInvariant

LEMMA NextKept == KeptInvariant /\ [SpreaderNext]_allVars => KeptInvariant'
  <1> SUFFICES ASSUME KeptInvariant, [SpreaderNext]_allVars PROVE KeptInvariant'
    OBVIOUS
  <1>1. SolventInvariant'
    BY NextSolvent DEF KeptInvariant
  <1>2. CASE SpreaderNext
    <2>1. SpreaderTypes /\ TypeInvariant /\ AtRest /\ OneStimulus
      BY DEF KeptInvariant, SolventInvariant, TypeInvariant
    <2>2. OneStimulus'
      BY <1>2, <2>1, OneStimulusStep
    <2>3. ASSUME Exact'
          PROVE  Spent' /\ \A s \in Spreaders : Listed(s)' /\ Sustained(s)'
      <3>1. Exact /\ Solvent
        BY <1>2, <2>3, StillExact, ExactImplies
      <3>2. Spent /\ \A s \in Spreaders : Listed(s) /\ Booking(s)
        BY <3>1 DEF KeptInvariant, SolventInvariant, AllBooked
      <3> QED
        BY <1>1, <1>2, <2>1, <2>3, <3>1, <3>2, SpentStep, ListedStep, SustainedStep
    <2> QED
      BY <1>1, <2>2, <2>3 DEF KeptInvariant
  <1>3. CASE UNCHANGED allVars
    <2>1. UNCHANGED vars /\ UNCHANGED spreadVars
      BY <1>3 DEF allVars
    <2>2. UNCHANGED <<stage, disturbances, importance, stimuli_to_spread, tokens_to_distribute,
                      stimulus, importance_changes, summed, to_visit, started>>
      BY <2>1 DEF spreadVars, tokenVars, dataVars, visitVars
    <2>3. OneStimulus' /\ Present' = Present
      BY <2>1, <2>2, SameNetwork DEF KeptInvariant, OneStimulus, Undisturbed, Active
    <2>4. Wealth' = Wealth /\ \A s \in Spreaders : Allowed(s)' = Allowed(s)
      BY <2>2 DEF Wealth, Claim, Net, Left, Due, Allowed
    <2>5. Spent => Spent'
      BY <2>2, <2>3 DEF Spent, Holding
    <2>6. \A s \in Spreaders : (Listed(s) => Listed(s)') /\ (Sustained(s) => Sustained(s)')
      BY <2>2, <2>3, <2>4 DEF Listed, Active, Known, Sustained
    <2>7. Exact' = Exact
      BY <2>2 DEF Exact
    <2> QED
      BY <1>1, <2>3, <2>5, <2>6, <2>7 DEF KeptInvariant
  <1> QED
    BY <1>2, <1>3

\* As long as requests are processed one at a time, name handles of the network and
\* every node has a neighbor, all tokens are where the balance finds them in every
\* state of a request, except what rounding takes: less than a unit for each handle
\* that is paid and for each edge that is followed (StimulusSpreader.h:79-81).
THEOREM TokensAreKept ==
    ASSUME MaxStimuli * RequestLoss <= Tolerance, Spreaders # {}
    PROVE  SpreaderSpec => []ConservedWhenAlone
  <1>1. KeptInvariant => ConservedWhenAlone
    <2> SUFFICES ASSUME KeptInvariant, Exact
                 PROVE  Balance \in (TOKENS - Tolerance)..TOKENS
      BY DEF ConservedWhenAlone, Exact
    <2>1. SpreaderTypes /\ Funded /\ AllBooked /\ Wealth <= TOKENS
      BY ExactImplies DEF KeptInvariant, SolventInvariant, TypeInvariant
    <2>2. Balance = Wealth /\ Wealth \in Int
      BY <2>1, BalanceIsWealth, WealthType
    <2>3. PICK s : s \in Spreaders
      OBVIOUS
    <2>4. /\ TOKENS + Allowed(s) <= Wealth + started * RequestLoss
          /\ Allowed(s) \in Nat /\ RequestLoss \in Nat
      BY <2>1, <2>3, AllowedType DEF KeptInvariant, Sustained
    <2>5. started \in Nat /\ MaxStimuli \in Nat /\ started <= MaxStimuli
          /\ TOKENS \in Nat /\ Tolerance \in Nat
      BY <2>1, StimulusAssumption DEF SpreaderTypes, RequestType
    <2>6. PICK n \in Nat : n = started * RequestLoss /\ n <= Tolerance
      <3>1. \A a, b, m \in Nat : a <= b => a * m \in Nat /\ b * m \in Nat /\ a * m <= b * m
        OBVIOUS
      <3>2. started * RequestLoss \in Nat /\ MaxStimuli * RequestLoss \in Nat
            /\ started * RequestLoss <= MaxStimuli * RequestLoss
        BY <2>4, <2>5, <3>1
      <3> QED
        BY <2>5, <3>2
    <2> QED
      BY <2>1, <2>2, <2>4, <2>5, <2>6
  <1> QED
    BY <1>1, InitKept, NextKept, PTL DEF SpreaderSpec
=============================================================================
