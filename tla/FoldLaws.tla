------------------------------- MODULE FoldLaws -------------------------------
(***************************************************************************)
(* Laws of MapThenFoldSet for operators that are parameters of the module, *)
(* so that every instance states them for its own.  p stands for whatever  *)
(* the operators depend on besides their arguments.                        *)
(***************************************************************************)
EXTENDS Folds, FiniteSetTheorems, TLAPS

CONSTANTS Op(_, _, _), Value(_, _), Base(_), Choice(_)

Fold(p, S) == MapThenFoldSet(LAMBDA x, y : Op(p, x, y), Base(p), LAMBDA i : Value(p, i), Choice, S)

\* The recursion equation of the fold, for a function on the subsets of S.
Unfold(p, g, s) == IF s = {} THEN Base(p) ELSE Op(p, Value(p, Choice(s)), g[s \ {Choice(s)}])
Folds(p, S, g) == g = [s \in SUBSET S |-> Unfold(p, g, s)]
Chooses(S) == \A s \in SUBSET S : s # {} => Choice(s) \in s

LEMMA FoldIs == \A p, S : Fold(p, S) = (CHOOSE g : Folds(p, S, g))[S]
BY DEF Fold, MapThenFoldSet, Folds, Unfold

-----------------------------------------------------------------------------
(* Induction over the subsets of a finite set: among those of a kind there *)
(* is a smallest one.                                                      *)
LEMMA SmallestSubset ==
  ASSUME NEW S, IsFiniteSet(S), NEW B, B \subseteq SUBSET S, B # {}
  PROVE  \E s \in B : \A t \in B : t \subseteq s => t = s
<1>1. IsWellFoundedOn(StrictSubsetOrdering(S), SUBSET S)
  BY FS_StrictSubsetOrderingWellFounded, FS_FiniteSubsetsOfFinite
<1>2. PICK s \in B : \A t \in B : ~(<<t, s>> \in StrictSubsetOrdering(S))
  BY <1>1, WFMin
<1> QED BY <1>2 DEF StrictSubsetOrdering

\* Some element of a set of positions is the last one.
LEMMA LastOf ==
  ASSUME NEW n \in Nat, NEW S \in SUBSET (1..n), S # {}
  PROVE  \E x \in S : \A y \in S : x >= y
<1> DEFINE After(x) == {y \in 1..n : y > x}
           B == {After(x) : x \in S}
<1>1. IsFiniteSet(1..n) /\ B \subseteq SUBSET (1..n) /\ B # {}
  <2>1. IsFiniteSet(1..n)
    BY FS_Interval
  <2>2. B \subseteq SUBSET (1..n) /\ B # {}
    OBVIOUS
  <2> QED BY <2>1, <2>2
<1>2. PICK s \in B : \A t \in B : t \subseteq s => t = s
  <2>1. PICK N : N = 1..n
    OBVIOUS
  <2>2. IsFiniteSet(N) /\ B \subseteq SUBSET N /\ B # {}
    BY <1>1, <2>1
  <2> HIDE DEF B
  <2> QED BY <2>2, SmallestSubset
<1>3. PICK x \in S : s = After(x)
  OBVIOUS
<1>4. ASSUME NEW y \in S, y > x PROVE FALSE
  <2>1. After(y) \subseteq After(x) /\ y \in After(x) /\ y \notin After(y)
    BY <1>4
  <2> QED BY <1>2, <1>3, <2>1
<1>5. x \in Int /\ S \subseteq Int
  OBVIOUS
<1> QED BY <1>4, <1>5

LEMMA FoldsOnSubset ==
  ASSUME NEW p, NEW S, NEW T, T \subseteq S, Chooses(S), NEW g, Folds(p, S, g)
  PROVE  Folds(p, T, [s \in SUBSET T |-> g[s]])
<1> DEFINE h == [s \in SUBSET T |-> g[s]]
<1> SUFFICES ASSUME NEW s \in SUBSET T PROVE h[s] = Unfold(p, h, s)
  BY DEF Folds
<1>1. s \in SUBSET S /\ g[s] = Unfold(p, g, s)
  BY DEF Folds
<1>2. s \ {Choice(s)} \in SUBSET T
  OBVIOUS
<1> QED BY <1>1, <1>2 DEF Unfold

LEMMA FoldsOnce ==
  ASSUME NEW p, NEW S, IsFiniteSet(S), Chooses(S), NEW g, NEW h, Folds(p, S, g), Folds(p, S, h)
  PROVE  g = h
<1> DEFINE B == {s \in SUBSET S : g[s] # h[s]}
<1> SUFFICES B = {}
  BY DEF Folds
<1> SUFFICES ASSUME B # {} PROVE FALSE
  OBVIOUS
<1>1. PICK s \in B : \A t \in B : t \subseteq s => t = s
  <2>1. B \subseteq SUBSET S
    OBVIOUS
  <2> HIDE DEF B
  <2> QED BY <2>1, SmallestSubset
<1>2. s # {} /\ Choice(s) \in s
  BY DEF Folds, Unfold, Chooses
<1>3. s \ {Choice(s)} \notin B
  BY <1>1, <1>2
<1> QED BY <1>1, <1>2, <1>3 DEF Folds, Unfold

LEMMA FoldsExists ==
  ASSUME NEW p, NEW S, IsFiniteSet(S), Chooses(S)
  PROVE  \E g : Folds(p, S, g)
<1> DEFINE B == {T \in SUBSET S : ~\E g : Folds(p, T, g)}
<1> SUFFICES ASSUME B # {} PROVE FALSE
  OBVIOUS
<1>1. PICK T \in B : \A U \in B : U \subseteq T => U = T
  <2>1. B \subseteq SUBSET S
    OBVIOUS
  <2> HIDE DEF B
  <2> QED BY <2>1, SmallestSubset
<1> DEFINE G(U) == CHOOSE g : Folds(p, U, g)
           h == [s \in SUBSET T |-> IF s = {} THEN Base(p)
                                    ELSE Op(p, Value(p, Choice(s)), G(s \ {Choice(s)})[s \ {Choice(s)}])]
<1>2. ASSUME NEW U \in SUBSET T, U # T PROVE Folds(p, U, G(U)) /\ U \subseteq S /\ IsFiniteSet(U) /\ Chooses(U)
  <2>1. U \in SUBSET S /\ U \notin B
    BY <1>1, <1>2
  <2>2. \E g : Folds(p, U, g)
    BY <2>1
  <2> QED BY <2>1, <2>2, FS_Subset DEF Chooses
<1>3. ASSUME NEW v \in SUBSET T, v # T PROVE h[v] = G(v)[v]
  <2>1. G(v)[v] = Unfold(p, G(v), v)
    <3> HIDE DEF G
    <3> QED BY <1>2, <1>3 DEF Folds
  <2>2. CASE v = {}
    BY <2>1, <2>2 DEF Unfold
  <2>3. CASE v # {}
    <3> DEFINE u == v \ {Choice(v)}
    <3>1. u \in SUBSET T /\ u # T /\ u \subseteq v
      BY <1>3
    <3>2. Folds(p, u, G(u)) /\ IsFiniteSet(u) /\ Chooses(u)
      BY <1>2, <3>1
    <3>3. Folds(p, v, G(v)) /\ Chooses(v)
      BY <1>2, <1>3
    <3>4. Folds(p, u, [s \in SUBSET u |-> G(v)[s]])
      <4> HIDE DEF G, u
      <4> QED BY <3>1, <3>3, FoldsOnSubset
    <3>5. G(u) = [s \in SUBSET u |-> G(v)[s]]
      <4> HIDE DEF G, u
      <4> QED BY <3>2, <3>4, FoldsOnce
    <3>6. G(u)[u] = G(v)[u]
      BY <3>5
    <3>7. h[v] = Op(p, Value(p, Choice(v)), G(u)[u])
      BY <2>3
    <3>8. G(v)[v] = Op(p, Value(p, Choice(v)), G(v)[u])
      BY <2>1, <2>3 DEF Unfold
    <3> QED BY <3>6, <3>7, <3>8
  <2> QED BY <2>2, <2>3
<1>4. Folds(p, T, h)
  <2> SUFFICES ASSUME NEW s \in SUBSET T PROVE h[s] = Unfold(p, h, s)
    BY DEF Folds
  <2>1. CASE s = {}
    BY <2>1 DEF Unfold
  <2>2. CASE s # {}
    <3> DEFINE v == s \ {Choice(s)}
    <3>1. Choice(s) \in s
      BY <2>2 DEF Chooses
    <3>2. v \in SUBSET T /\ v # T
      BY <3>1
    <3>3. h[v] = G(v)[v]
      BY <1>3, <3>2
    <3>4. h[s] = Op(p, Value(p, Choice(s)), G(v)[v])
      BY <2>2
    <3> HIDE DEF h, G
    <3> QED BY <2>2, <3>3, <3>4 DEF Unfold
  <2> QED BY <2>1, <2>2
<1> QED BY <1>1, <1>4

(* A fold over a finite set is one step from the element it chooses: what  *)
(* the code's loops compute (sum, chain of selected actions).              *)
THEOREM FoldUnfolds ==
  ASSUME NEW p, NEW S, IsFiniteSet(S), Chooses(S)
  PROVE  Fold(p, S) = IF S = {} THEN Base(p)
                      ELSE Op(p, Value(p, Choice(S)), Fold(p, S \ {Choice(S)}))
<1> DEFINE G(U) == CHOOSE g : Folds(p, U, g)
           u == S \ {Choice(S)}
<1>1. Folds(p, S, G(S)) /\ Chooses(u) /\ IsFiniteSet(u)
  BY FoldsExists, FS_Subset DEF Chooses
<1>2. Folds(p, u, G(u))
  BY <1>1, FoldsExists
<1>3. Folds(p, u, [s \in SUBSET u |-> G(S)[s]])
  <2>1. u \subseteq S
    OBVIOUS
  <2> HIDE DEF G, u
  <2> QED BY <1>1, <2>1, FoldsOnSubset
<1>4. G(u) = [s \in SUBSET u |-> G(S)[s]]
  <2> HIDE DEF G, u
  <2> QED BY <1>1, <1>2, <1>3, FoldsOnce
<1>5. G(u)[u] = G(S)[u]
  BY <1>4
<1>6. G(S)[S] = Unfold(p, G(S), S)
  <2> HIDE DEF G
  <2> QED BY <1>1 DEF Folds
<1>7. Fold(p, S) = G(S)[S] /\ Fold(p, u) = G(u)[u]
  BY FoldIs
<1> HIDE DEF G
<1> QED BY <1>5, <1>6, <1>7 DEF Unfold

\* What every step of the fold keeps, its result has.
THEOREM FoldStays ==
  ASSUME NEW p, NEW S, IsFiniteSet(S), Chooses(S), NEW D, Base(p) \in D,
         \A i \in S, x \in D : Op(p, Value(p, i), x) \in D
  PROVE  \A T \in SUBSET S : Fold(p, T) \in D
<1> DEFINE B == {T \in SUBSET S : Fold(p, T) \notin D}
<1> SUFFICES ASSUME B # {} PROVE FALSE
  OBVIOUS
<1>1. PICK T \in B : \A U \in B : U \subseteq T => U = T
  <2>1. B \subseteq SUBSET S
    OBVIOUS
  <2> HIDE DEF B
  <2> QED BY <2>1, SmallestSubset
<1>2. Fold(p, T) = IF T = {} THEN Base(p) ELSE Op(p, Value(p, Choice(T)), Fold(p, T \ {Choice(T)}))
  <2>1. T \subseteq S /\ IsFiniteSet(T) /\ Chooses(T)
    BY FS_Subset DEF Chooses
  <2> HIDE DEF B
  <2> QED BY <2>1, FoldUnfolds
<1>3. T # {} /\ Choice(T) \in T
  BY <1>2 DEF Chooses
<1>4. Fold(p, T \ {Choice(T)}) \in D
  BY <1>1, <1>3
<1> QED BY <1>2, <1>3, <1>4

\* Where the steps commute, any element may be the one that is taken last.
THEOREM FoldAnyOrder ==
  ASSUME NEW p, NEW S, IsFiniteSet(S), Chooses(S), NEW D, Base(p) \in D,
         \A i \in S, x \in D : Op(p, Value(p, i), x) \in D,
         \A i \in S, j \in S, x \in D :
           Op(p, Value(p, i), Op(p, Value(p, j), x)) = Op(p, Value(p, j), Op(p, Value(p, i), x)),
         NEW i \in S
  PROVE  Fold(p, S) = Op(p, Value(p, i), Fold(p, S \ {i}))
<1> DEFINE B == {T \in SUBSET S : \E k \in T : Fold(p, T) # Op(p, Value(p, k), Fold(p, T \ {k}))}
<1> SUFFICES ASSUME B # {} PROVE FALSE
  OBVIOUS
<1>1. PICK T \in B : \A U \in B : U \subseteq T => U = T
  <2>1. B \subseteq SUBSET S
    OBVIOUS
  <2> HIDE DEF B
  <2> QED BY <2>1, SmallestSubset
<1>2. PICK k \in T : Fold(p, T) # Op(p, Value(p, k), Fold(p, T \ {k}))
  OBVIOUS
<1> DEFINE c == Choice(T)
<1>3. T \subseteq S /\ IsFiniteSet(T) /\ Chooses(T) /\ T # {} /\ c \in T
  BY <1>2, FS_Subset DEF Chooses
<1>4. Fold(p, T) = Op(p, Value(p, c), Fold(p, T \ {c}))
  <2> HIDE DEF B
  <2> QED BY <1>3, FoldUnfolds
<1>5. k # c
  BY <1>2, <1>4
<1>6. /\ Fold(p, T \ {c}) = Op(p, Value(p, k), Fold(p, (T \ {c}) \ {k}))
      /\ Fold(p, T \ {k}) = Op(p, Value(p, c), Fold(p, (T \ {k}) \ {c}))
  <2>1. T \ {c} \notin B /\ T \ {k} \notin B
    BY <1>1, <1>2, <1>3
  <2> QED BY <1>3, <1>5, <2>1
<1>7. (T \ {c}) \ {k} = (T \ {k}) \ {c} /\ (T \ {c}) \ {k} \in SUBSET S
  BY <1>3
<1>8. Fold(p, (T \ {c}) \ {k}) \in D
  <2> HIDE DEF B, c
  <2> QED BY <1>7, FoldStays
<1>9. c \in S /\ k \in S
  BY <1>3
<1> DEFINE z == Fold(p, (T \ {c}) \ {k})
<1>10. Op(p, Value(p, k), Op(p, Value(p, c), z)) = Op(p, Value(p, c), Op(p, Value(p, k), z))
  <2> HIDE DEF z, c
  <2> QED BY <1>8, <1>9 DEF z
<1>11. Fold(p, T) = Op(p, Value(p, k), Fold(p, T \ {k}))
  BY <1>4, <1>6, <1>7, <1>10
<1> QED BY <1>2, <1>11

\* Where two folds take the same steps, they have the same result.
THEOREM FoldAgrees ==
  ASSUME NEW p, NEW q, NEW S, IsFiniteSet(S), Chooses(S),
         Base(p) = Base(q),
         \A i \in S : \A x : Op(p, Value(p, i), x) = Op(q, Value(q, i), x)
  PROVE  Fold(p, S) = Fold(q, S)
<1> DEFINE B == {T \in SUBSET S : Fold(p, T) # Fold(q, T)}
<1> SUFFICES ASSUME B # {} PROVE FALSE
  OBVIOUS
<1>1. PICK T \in B : \A U \in B : U \subseteq T => U = T
  <2>1. B \subseteq SUBSET S
    OBVIOUS
  <2> HIDE DEF B
  <2> QED BY <2>1, SmallestSubset
<1> DEFINE c == Choice(T)
<1>2. T \subseteq S /\ IsFiniteSet(T) /\ Chooses(T)
  BY FS_Subset DEF Chooses
<1>3. /\ Fold(p, T) = IF T = {} THEN Base(p) ELSE Op(p, Value(p, c), Fold(p, T \ {c}))
      /\ Fold(q, T) = IF T = {} THEN Base(q) ELSE Op(q, Value(q, c), Fold(q, T \ {c}))
  <2> HIDE DEF B
  <2> QED BY <1>2, FoldUnfolds
<1>4. T # {} /\ c \in T /\ c \in S
  BY <1>2, <1>3 DEF Chooses
<1>5. Fold(p, T \ {c}) = Fold(q, T \ {c})
  BY <1>1, <1>4
<1> HIDE DEF c
<1>6. Fold(p, T) = Fold(q, T)
  BY <1>3, <1>4, <1>5
<1> QED BY <1>6

-----------------------------------------------------------------------------
(* Sums.                                                                   *)

Summing == /\ \A p : Base(p) = 0
           /\ \A p, q, x, y : Op(p, x, y) = Op(q, x, y)
           /\ \A p : \A x, y \in Nat : Op(p, x, y) = x + y

LEMMA SumIsNat ==
  ASSUME Summing, NEW p, NEW S, IsFiniteSet(S), Chooses(S), \A i \in S : Value(p, i) \in Nat
  PROVE  Fold(p, S) \in Nat
<1>1. Base(p) \in Nat /\ \A i \in S, x \in Nat : Op(p, Value(p, i), x) \in Nat
  BY DEF Summing
<1>2. \A T \in SUBSET S : Fold(p, T) \in Nat
  BY <1>1, FoldStays
<1> QED BY <1>2

LEMMA SumOfNone == ASSUME Summing, NEW p PROVE Fold(p, {}) = 0
<1>1. IsFiniteSet({}) /\ Chooses({})
  BY FS_EmptySet DEF Chooses
<1>2. Fold(p, {}) = Base(p)
  BY <1>1, FoldUnfolds
<1> QED BY <1>2 DEF Summing

\* Any element may be taken out of a sum.
THEOREM SumSplits ==
  ASSUME Summing, NEW p, NEW S, IsFiniteSet(S), Chooses(S), \A i \in S : Value(p, i) \in Nat,
         NEW i \in S
  PROVE  Fold(p, S) = Value(p, i) + Fold(p, S \ {i})
<1>1. Base(p) \in Nat /\ \A k \in S, x \in Nat : Op(p, Value(p, k), x) \in Nat
  BY DEF Summing
<1>2. \A k \in S, j \in S, x \in Nat :
        Op(p, Value(p, k), Op(p, Value(p, j), x)) = Op(p, Value(p, j), Op(p, Value(p, k), x))
  BY DEF Summing
<1>3. PICK D : D = Nat
  OBVIOUS
<1>4. Base(p) \in D /\ \A k \in S, x \in D : Op(p, Value(p, k), x) \in D
  BY <1>1, <1>3
<1>5. \A k \in S, j \in S, x \in D :
        Op(p, Value(p, k), Op(p, Value(p, j), x)) = Op(p, Value(p, j), Op(p, Value(p, k), x))
  BY <1>2, <1>3
<1>6. Fold(p, S) = Op(p, Value(p, i), Fold(p, S \ {i}))
  BY <1>1, <1>4, <1>5, FoldAnyOrder
<1>7. Fold(p, S \ {i}) \in Nat
  BY FS_RemoveElement, SumIsNat DEF Chooses
<1> QED BY <1>6, <1>7 DEF Summing

\* Two sums that differ at one place at most differ by what is there.
THEOREM SumChanges ==
  ASSUME Summing, NEW p, NEW q, NEW S, NEW T, IsFiniteSet(S), NEW i, S \ {i} = T \ {i},
         Chooses(S), Chooses(T),
         \A j \in S : Value(p, j) \in Nat, \A j \in T : Value(q, j) \in Nat,
         \A j \in S \ {i} : Value(p, j) = Value(q, j)
  PROVE  /\ IsFiniteSet(T) /\ Fold(p, S) \in Nat /\ Fold(q, T) \in Nat
         /\ i \in S => Value(p, i) <= Fold(p, S)
         /\ Fold(q, T) + (IF i \in S THEN Value(p, i) ELSE 0)
              = Fold(p, S) + (IF i \in T THEN Value(q, i) ELSE 0)
<1> DEFINE R == S \ {i}
<1>1. IsFiniteSet(R) /\ IsFiniteSet(T) /\ Chooses(R)
  <2>1. IsFiniteSet(R)
    BY FS_RemoveElement
  <2>2. T = R \/ T = R \cup {i}
    OBVIOUS
  <2>3. Chooses(R)
    BY DEF Chooses
  <2> HIDE DEF R
  <2>4. IsFiniteSet(R \cup {i})
    BY <2>1, FS_AddElement
  <2> QED BY <2>1, <2>2, <2>3, <2>4
<1>2. Fold(p, R) = Fold(q, R)
  <2>1. \A j \in R : \A x : Op(p, Value(p, j), x) = Op(q, Value(q, j), x)
    BY DEF Summing
  <2>2. Base(p) = Base(q)
    BY DEF Summing
  <2> HIDE DEF R
  <2> QED BY <1>1, <2>1, <2>2, FoldAgrees
<1>3. Fold(p, R) \in Nat /\ Fold(p, S) \in Nat /\ Fold(q, T) \in Nat
  <2>1. \A j \in R : Value(p, j) \in Nat
    OBVIOUS
  <2> HIDE DEF R
  <2> QED BY <1>1, <2>1, SumIsNat
<1>4. i \in S => Fold(p, S) = Value(p, i) + Fold(p, R)
  BY SumSplits
<1>5. i \in T => Fold(q, T) = Value(q, i) + Fold(q, R)
  BY <1>1, SumSplits
<1>6. (i \notin S => S = R) /\ (i \notin T => T = R)
  OBVIOUS
<1>7. (i \in S => Value(p, i) \in Nat) /\ (i \in T => Value(q, i) \in Nat)
  OBVIOUS
<1> HIDE DEF R
<1> QED BY <1>1, <1>2, <1>3, <1>4, <1>5, <1>6, <1>7
\* A part of what is summed comes to no more than all of it.
THEOREM SumOfPart ==
  ASSUME Summing, NEW p, NEW T, IsFiniteSet(T), Chooses(T), \A i \in T : Value(p, i) \in Nat,
         NEW S, S \subseteq T
  PROVE  Fold(p, S) <= Fold(p, T)
<1> DEFINE B == {R \in SUBSET T : S \subseteq R /\ ~(Fold(p, S) <= Fold(p, R))}
<1> SUFFICES ASSUME B # {} PROVE FALSE
  OBVIOUS
<1>1. PICK R \in B : \A U \in B : U \subseteq R => U = R
  <2>1. B \subseteq SUBSET T
    OBVIOUS
  <2> HIDE DEF B
  <2> QED BY <2>1, SmallestSubset
<1>2. IsFiniteSet(R) /\ Chooses(R) /\ IsFiniteSet(S) /\ Chooses(S) /\ \A i \in R : Value(p, i) \in Nat
  BY FS_Subset DEF Chooses
<1>3. Fold(p, S) \in Nat
  BY <1>2, SumIsNat
<1>4. PICK i \in R : i \notin S
  BY <1>3
<1>5. Fold(p, R) = Value(p, i) + Fold(p, R \ {i})
  BY <1>2, SumSplits
<1>6. Fold(p, R \ {i}) \in Nat
  <2>1. IsFiniteSet(R \ {i}) /\ Chooses(R \ {i}) /\ \A k \in R \ {i} : Value(p, k) \in Nat
    BY <1>2, FS_RemoveElement DEF Chooses
  <2> QED BY <2>1, SumIsNat
<1>7. R \ {i} \notin B /\ R \ {i} \in SUBSET T /\ S \subseteq R \ {i}
  BY <1>1, <1>4
<1>8. Fold(p, S) <= Fold(p, R \ {i})
  BY <1>7
<1>9. Value(p, i) \in Nat /\ ~(Fold(p, S) <= Fold(p, R))
  BY <1>2
<1> HIDE DEF B
<1> QED BY <1>3, <1>5, <1>6, <1>8, <1>9

===============================================================================
