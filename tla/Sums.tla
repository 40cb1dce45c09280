-------------------------------- MODULE Sums --------------------------------
(***************************************************************************)
(* The sums of the spend counters (IntentPipeline) and of the capital      *)
(* flows (Capital) are SumFunctionOnSet of the community modules, a fold   *)
(* by a recursive function.  Here: that fold exists and is unique on every *)
(* finite set, whatever order it takes the members in, and what the proofs *)
(* need of it.  Induction over the set is an argument about the smallest   *)
(* counterexample, a subset none of whose proper subsets is one.           *)
(***************************************************************************)
EXTENDS Integers, FiniteSets, Functions, FiniteSetTheorems,
        WellFoundedInduction, TLAPS

(* f is a whole number at every member of S. *)
WholeOn(f, S) == \A x \in S : f[x] \in Int

(* The member the library's fold takes out of a set first.                 *)
Chosen(S) == CHOOSE x \in S : TRUE

(* it folds + over every subset of S. *)
IsFold(f, S, it) ==
  it = [T \in SUBSET S |-> IF T = {} THEN 0 ELSE f[Chosen(T)] + it[T \ {Chosen(T)}]]

(* A non-empty family of subsets of a finite set has a member none of      *)
(* whose proper subsets is in the family.                                  *)
LEMMA MinimalSubset ==
  ASSUME NEW S, IsFiniteSet(S), NEW Fam \in SUBSET SUBSET S, Fam # {}
  PROVE  \E T \in Fam : \A U \in SUBSET T : U # T => U \notin Fam
<1>1. IsWellFoundedOn(StrictSubsetOrdering(S), SUBSET S)
  BY FS_StrictSubsetOrderingWellFounded, FS_FiniteSubsetsOfFinite
<1>2. PICK T \in Fam : \A U \in Fam : ~ (<<U, T>> \in StrictSubsetOrdering(S))
  BY <1>1, WFMin, Zenon
<1>3. ASSUME NEW U \in SUBSET T, U # T, U \in Fam PROVE FALSE
  <2>1. <<U, T>> \in (SUBSET S) \X (SUBSET S)
    BY <1>3
  <2>2. <<U, T>> \in StrictSubsetOrdering(S)
    BY <2>1, <1>3 DEF StrictSubsetOrdering
  <2> QED BY <2>2, <1>2, <1>3
<1> QED BY <1>2, <1>3

LEMMA ChosenIn == ASSUME NEW T, T # {} PROVE Chosen(T) \in T
  BY DEF Chosen

LEMMA FoldAt ==
  ASSUME NEW f, NEW S, NEW it, IsFold(f, S, it), NEW T \in SUBSET S
  PROVE  it[T] = IF T = {} THEN 0 ELSE f[Chosen(T)] + it[T \ {Chosen(T)}]
  BY DEF IsFold

(* Two folds agree on what the smaller one is defined for. *)
LEMMA FoldUnique ==
  ASSUME NEW f, NEW S, IsFiniteSet(S), NEW R \in SUBSET S,
         NEW g, IsFold(f, R, g), NEW h, IsFold(f, S, h)
  PROVE  \A T \in SUBSET R : g[T] = h[T]
<1> DEFINE Fam == {U \in SUBSET R : g[U] # h[U]}
<1>1. SUFFICES ASSUME Fam # {} PROVE FALSE OBVIOUS
<1>2. PICK U \in Fam : \A V \in SUBSET U : V # U => V \notin Fam
  <2>1. Fam \in SUBSET SUBSET R /\ IsFiniteSet(R) BY FS_Subset
  <2> HIDE DEF Fam
  <2> QED BY <2>1, <1>1, MinimalSubset, Zenon
<1>3. U \in SUBSET R /\ U \in SUBSET S /\ g[U] # h[U] OBVIOUS
<1>4. /\ g[U] = IF U = {} THEN 0 ELSE f[Chosen(U)] + g[U \ {Chosen(U)}]
      /\ h[U] = IF U = {} THEN 0 ELSE f[Chosen(U)] + h[U \ {Chosen(U)}]
  <2> HIDE DEF Fam
  <2> QED BY <1>3, FoldAt
<1>5. U # {} BY <1>3, <1>4
<1>6. Chosen(U) \in U BY <1>5, ChosenIn
<1>7. U \ {Chosen(U)} \notin Fam BY <1>2, <1>6
<1>8. g[U \ {Chosen(U)}] = h[U \ {Chosen(U)}] BY <1>7, <1>3
<1> QED BY <1>3, <1>4, <1>8

(* A fold exists over every finite set. *)
LEMMA FoldExists ==
  ASSUME NEW f, NEW S, IsFiniteSet(S)
  PROVE  \E it : IsFold(f, S, it)
<1> DEFINE Fam == {R \in SUBSET S : ~ \E it : IsFold(f, R, it)}
<1>1. SUFFICES ASSUME Fam # {} PROVE FALSE
  BY DEF Fam
<1>2. PICK R \in Fam : \A V \in SUBSET R : V # R => V \notin Fam
  <2>1. Fam \in SUBSET SUBSET S OBVIOUS
  <2> HIDE DEF Fam
  <2> QED BY <2>1, <1>1, MinimalSubset, Zenon
<1>3. R \in SUBSET S /\ ~ \E it : IsFold(f, R, it) OBVIOUS
<1>4. \A V \in SUBSET R : V # R => \E it : IsFold(f, V, it) BY <1>2, <1>3
<1> HIDE DEF Fam
<1> DEFINE Fold(V) == CHOOSE it : IsFold(f, V, it)
<1>5. \A V \in SUBSET R : V # R => IsFold(f, V, Fold(V)) BY <1>4, Zenon
<1> DEFINE all == [T \in SUBSET R |->
                     IF T = {} THEN 0 ELSE f[Chosen(T)] + Fold(T \ {Chosen(T)})[T \ {Chosen(T)}]]
<1>6. ASSUME NEW V \in SUBSET R, V # R PROVE all[V] = Fold(V)[V]
  <2>1. IsFold(f, V, Fold(V)) BY <1>5, <1>6, Zenon
  <2> DEFINE W == V \ {Chosen(V)}
  <2>2. Fold(V)[V] = IF V = {} THEN 0 ELSE f[Chosen(V)] + Fold(V)[W]
    <3> HIDE DEF Fold
    <3> QED BY <2>1, FoldAt
  <2>3. CASE V = {} BY <2>2, <2>3
  <2>4. CASE V # {}
    <3>1. Chosen(V) \in V BY <2>4, ChosenIn
    <3>2. W \in SUBSET R /\ W # R /\ W \in SUBSET V /\ W \in SUBSET W BY <3>1
    <3>3. IsFold(f, W, Fold(W)) BY <3>2, <1>5
    <3>4. IsFiniteSet(V) /\ IsFiniteSet(W)
      BY <3>2, <1>3, FS_Subset
    <3>5. Fold(V)[W] = Fold(W)[W]
      <4>1. PICK h, g, U : h = Fold(V) /\ g = Fold(W) /\ U = W OBVIOUS
      <4> HIDE DEF Fold, W
      <4>2. IsFold(f, V, h) /\ IsFold(f, U, g) /\ U \in SUBSET V /\ IsFiniteSet(V)
        BY <4>1, <2>1, <3>2, <3>3, <3>4
      <4>3. \A T \in SUBSET U : g[T] = h[T]
        BY <4>2, FoldUnique
      <4> QED BY <4>1, <4>3
    <3>6. all[V] = f[Chosen(V)] + Fold(W)[W]
      <4> HIDE DEF Fold
      <4> QED BY <2>4
    <3> HIDE DEF Fold, all, W
    <3> QED BY <2>2, <2>4, <3>5, <3>6
  <2> QED BY <2>3, <2>4
<1>7. IsFold(f, R, all)
  <2>1. ASSUME NEW T \in SUBSET R
        PROVE  all[T] = IF T = {} THEN 0 ELSE f[Chosen(T)] + all[T \ {Chosen(T)}]
    <3>1. CASE T = {} BY <3>1
    <3>2. CASE T # {}
      <4>1. Chosen(T) \in T BY <3>2, ChosenIn
      <4>2. T \ {Chosen(T)} \in SUBSET R /\ T \ {Chosen(T)} # R BY <4>1
      <4>3. all[T \ {Chosen(T)}] = Fold(T \ {Chosen(T)})[T \ {Chosen(T)}]
        <5> HIDE DEF all, Fold
        <5> QED BY <4>2, <1>6
      <4>4. all[T] = f[Chosen(T)] + Fold(T \ {Chosen(T)})[T \ {Chosen(T)}]
        <5> HIDE DEF Fold
        <5> QED BY <3>2
      <4> HIDE DEF all, Fold
      <4> QED BY <3>2, <4>3, <4>4
    <3> QED BY <3>1, <3>2
  <2>2. all = [T \in SUBSET R |-> all[T]]
    <3> HIDE DEF Fold
    <3> QED OBVIOUS
  <2> HIDE DEF all
  <2> QED BY <2>1, <2>2 DEF IsFold
<1> QED BY <1>7, <1>3, Zenon

-----------------------------------------------------------------------------
(* Sums.                                                                    *)

LEMMA SumIsFold ==
  ASSUME NEW f, NEW S, IsFiniteSet(S)
  PROVE  \E it : IsFold(f, S, it) /\ SumFunctionOnSet(f, S) = it[S]
<1> DEFINE it == CHOOSE it : IsFold(f, S, it)
<1>1. IsFold(f, S, it) BY FoldExists
<1>2. SumFunctionOnSet(f, S) = it[S]
  BY DEF SumFunctionOnSet, FoldFunctionOnSet, MapThenFoldSet, IsFold, Chosen
<1> HIDE DEF it
<1> QED BY <1>1, <1>2

LEMMA SumEmpty == ASSUME NEW f PROVE SumFunctionOnSet(f, {}) = 0
<1>1. PICK it : IsFold(f, {}, it) /\ SumFunctionOnSet(f, {}) = it[{}]
  BY SumIsFold, FS_EmptySet
<1>2. it[{}] = 0 BY <1>1, FoldAt
<1> QED BY <1>1, <1>2

LEMMA SumChosen ==
  ASSUME NEW f, NEW S, IsFiniteSet(S), S # {}
  PROVE  SumFunctionOnSet(f, S) = f[Chosen(S)] + SumFunctionOnSet(f, S \ {Chosen(S)})
<1>1. PICK R : R = S \ {Chosen(S)} OBVIOUS
<1>2. R \in SUBSET S /\ IsFiniteSet(R) BY <1>1, FS_Subset
<1>3. PICK h : IsFold(f, S, h) /\ SumFunctionOnSet(f, S) = h[S]
  BY SumIsFold
<1>4. PICK g : IsFold(f, R, g) /\ SumFunctionOnSet(f, R) = g[R]
  BY SumIsFold, <1>2
<1>5. g[R] = h[R]
  <2>1. \A T \in SUBSET R : g[T] = h[T] BY <1>2, <1>3, <1>4, FoldUnique
  <2> QED BY <2>1
<1>6. h[S] = f[Chosen(S)] + h[R]
  <2>1. h[S] = IF S = {} THEN 0 ELSE f[Chosen(S)] + h[S \ {Chosen(S)}]
    BY <1>3, FoldAt
  <2> QED BY <2>1, <1>1
<1> QED BY <1>1, <1>3, <1>4, <1>5, <1>6

LEMMA SumType ==
  ASSUME NEW f, NEW S, IsFiniteSet(S), WholeOn(f, S)
  PROVE  SumFunctionOnSet(f, S) \in Int
<1> DEFINE Fam == {U \in SUBSET S : SumFunctionOnSet(f, U) \notin Int}
<1>1. SUFFICES ASSUME Fam # {} PROVE FALSE OBVIOUS
<1>2. PICK U \in Fam : \A V \in SUBSET U : V # U => V \notin Fam
  <2>1. Fam \in SUBSET SUBSET S OBVIOUS
  <2> HIDE DEF Fam
  <2> QED BY <2>1, <1>1, MinimalSubset, Zenon
<1>3. U \in SUBSET S /\ SumFunctionOnSet(f, U) \notin Int /\ IsFiniteSet(U)
  BY FS_Subset
<1>4. U # {} BY <1>3, SumEmpty
<1>5. Chosen(U) \in U BY <1>4, ChosenIn
<1>6. SumFunctionOnSet(f, U \ {Chosen(U)}) \in Int BY <1>2, <1>5
<1>7. SumFunctionOnSet(f, U) = f[Chosen(U)] + SumFunctionOnSet(f, U \ {Chosen(U)})
  BY <1>3, <1>4, SumChosen
<1>8. f[Chosen(U)] \in Int BY <1>5, <1>3 DEF WholeOn
<1> HIDE DEF Fam
<1> QED BY <1>3, <1>6, <1>7, <1>8

(* Any member may be taken out first. *)
LEMMA SumRemove ==
  ASSUME NEW f, NEW S, IsFiniteSet(S), WholeOn(f, S), NEW x \in S
  PROVE  SumFunctionOnSet(f, S) = f[x] + SumFunctionOnSet(f, S \ {x})
<1> DEFINE Sum(T) == SumFunctionOnSet(f, T)
           Fam == {U \in SUBSET S : \E y \in U : Sum(U) # f[y] + Sum(U \ {y})}
<1>1. SUFFICES ASSUME Fam # {} PROVE FALSE OBVIOUS
<1>2. PICK U \in Fam : \A V \in SUBSET U : V # U => V \notin Fam
  <2>1. Fam \in SUBSET SUBSET S OBVIOUS
  <2> HIDE DEF Fam
  <2> QED BY <2>1, <1>1, MinimalSubset, Zenon
<1>3. U \in SUBSET S /\ IsFiniteSet(U) BY FS_Subset
<1>4. PICK y \in U : Sum(U) # f[y] + Sum(U \ {y}) OBVIOUS
<1>5. PICK c : c = Chosen(U) OBVIOUS
<1>6. c \in U /\ Sum(U) = f[c] + Sum(U \ {c}) BY <1>3, <1>4, <1>5, ChosenIn, SumChosen
<1>7. c # y BY <1>4, <1>6
<1>8. U \ {c} \notin Fam /\ U \ {y} \notin Fam BY <1>2, <1>4, <1>6
<1>9. /\ Sum(U \ {c}) = f[y] + Sum((U \ {c}) \ {y})
      /\ Sum(U \ {y}) = f[c] + Sum((U \ {y}) \ {c})
  BY <1>3, <1>4, <1>6, <1>7, <1>8
<1>10. PICK R : R = (U \ {c}) \ {y} /\ R = (U \ {y}) \ {c} OBVIOUS
<1>11. Sum(R) \in Int
  <2>1. R \in SUBSET S /\ IsFiniteSet(R) /\ WholeOn(f, R) BY <1>3, <1>10, FS_Subset DEF WholeOn
  <2> HIDE DEF Fam
  <2> QED BY <2>1, SumType
<1>12. f[c] \in Int /\ f[y] \in Int BY <1>3, <1>4, <1>6 DEF WholeOn
<1> HIDE DEF Fam, Sum
<1>13. Sum(U \ {c}) = f[y] + Sum(R) /\ Sum(U \ {y}) = f[c] + Sum(R) BY <1>9, <1>10
<1> QED BY <1>4, <1>6, <1>11, <1>12, <1>13

LEMMA SumAdd ==
  ASSUME NEW f, NEW S, IsFiniteSet(S), NEW x, x \notin S, WholeOn(f, S \cup {x})
  PROVE  SumFunctionOnSet(f, S \cup {x}) = f[x] + SumFunctionOnSet(f, S)
<1>1. PICK T : T = S \cup {x} OBVIOUS
<1>2. IsFiniteSet(T) /\ x \in T /\ WholeOn(f, T) /\ T \ {x} = S
  BY <1>1, FS_AddElement
<1>3. SumFunctionOnSet(f, T) = f[x] + SumFunctionOnSet(f, T \ {x})
  BY <1>2, SumRemove
<1> QED BY <1>1, <1>2, <1>3

(* Sums of the smaller function are the smaller sums.                      *)
LEMMA SumMonotone ==
  ASSUME NEW f, NEW g, NEW S, IsFiniteSet(S), WholeOn(f, S), WholeOn(g, S),
         \A x \in S : f[x] <= g[x]
  PROVE  SumFunctionOnSet(f, S) <= SumFunctionOnSet(g, S)
<1> DEFINE F(T) == SumFunctionOnSet(f, T)
           G(T) == SumFunctionOnSet(g, T)
           Fam == {U \in SUBSET S : ~ F(U) <= G(U)}
<1>1. SUFFICES ASSUME Fam # {} PROVE FALSE OBVIOUS
<1>2. PICK U \in Fam : \A V \in SUBSET U : V # U => V \notin Fam
  <2>1. Fam \in SUBSET SUBSET S OBVIOUS
  <2> HIDE DEF Fam
  <2> QED BY <2>1, <1>1, MinimalSubset, Zenon
<1>3. /\ U \in SUBSET S /\ IsFiniteSet(U) /\ ~ F(U) <= G(U)
      /\ WholeOn(f, U) /\ WholeOn(g, U)
  BY FS_Subset DEF WholeOn
<1>4. U # {} BY <1>3, SumEmpty
<1>5. PICK c : c \in U BY <1>4
<1>6. F(U) = f[c] + F(U \ {c}) /\ G(U) = g[c] + G(U \ {c})
  BY <1>3, <1>5, SumRemove
<1>7. F(U \ {c}) <= G(U \ {c}) BY <1>2, <1>3, <1>5
<1>8. F(U \ {c}) \in Int /\ G(U \ {c}) \in Int
  <2>1. IsFiniteSet(U \ {c}) /\ WholeOn(f, U \ {c}) /\ WholeOn(g, U \ {c})
    BY <1>3, FS_RemoveElement DEF WholeOn
  <2> QED BY <2>1, SumType
<1>9. f[c] \in Int /\ g[c] \in Int /\ f[c] <= g[c]
  BY <1>3, <1>5 DEF WholeOn
<1> HIDE DEF Fam, F, G
<1> QED BY <1>3, <1>6, <1>7, <1>8, <1>9

(* A sum reads the function at the members of the set only. *)
LEMMA SumSame ==
  ASSUME NEW f, NEW g, NEW S, IsFiniteSet(S), WholeOn(f, S),
         \A x \in S : f[x] = g[x]
  PROVE  SumFunctionOnSet(f, S) = SumFunctionOnSet(g, S)
<1>1. WholeOn(g, S) BY DEF WholeOn
<1>2. SumFunctionOnSet(f, S) <= SumFunctionOnSet(g, S)
  <2>1. \A x \in S : f[x] <= g[x] BY DEF WholeOn
  <2> QED BY <1>1, <2>1, SumMonotone
<1>3. SumFunctionOnSet(g, S) <= SumFunctionOnSet(f, S)
  <2>1. \A x \in S : g[x] <= f[x] BY DEF WholeOn
  <2> QED BY <1>1, <2>1, SumMonotone
<1>4. SumFunctionOnSet(f, S) \in Int /\ SumFunctionOnSet(g, S) \in Int
  BY <1>1, SumType
<1> QED BY <1>2, <1>3, <1>4

LEMMA SumDisjoint ==
  ASSUME NEW f, NEW S, NEW T, IsFiniteSet(S), IsFiniteSet(T), S \cap T = {},
         WholeOn(f, S \cup T)
  PROVE  SumFunctionOnSet(f, S \cup T) = SumFunctionOnSet(f, S) + SumFunctionOnSet(f, T)
<1> DEFINE Sum(R) == SumFunctionOnSet(f, R)
           Fam == {U \in SUBSET T : Sum(S \cup U) # Sum(S) + Sum(U)}
<1>1. SUFFICES ASSUME Fam # {} PROVE FALSE OBVIOUS
<1>2. PICK U \in Fam : \A V \in SUBSET U : V # U => V \notin Fam
  <2>1. Fam \in SUBSET SUBSET T OBVIOUS
  <2> HIDE DEF Fam
  <2> QED BY <2>1, <1>1, MinimalSubset, Zenon
<1>3. /\ U \in SUBSET T /\ IsFiniteSet(U) /\ Sum(S \cup U) # Sum(S) + Sum(U)
      /\ WholeOn(f, U) /\ WholeOn(f, S) /\ Sum(S) \in Int
  BY FS_Subset, SumType DEF WholeOn
<1>4. U # {} BY <1>3, SumEmpty
<1>5. PICK c : c \in U BY <1>4
<1>6. PICK R : R = U \ {c} OBVIOUS
<1>7. Sum(U) = f[c] + Sum(R)
  BY <1>3, <1>5, <1>6, SumRemove
<1>8. Sum(S \cup R) = Sum(S) + Sum(R) BY <1>2, <1>3, <1>5, <1>6
<1>9. Sum(S \cup U) = f[c] + Sum(S \cup R)
  <2>1. IsFiniteSet(R) /\ IsFiniteSet(S \cup R)
    BY <1>3, <1>6, FS_RemoveElement, FS_Union
  <2>2. c \notin S \cup R /\ S \cup U = (S \cup R) \cup {c} /\ WholeOn(f, (S \cup R) \cup {c})
    BY <1>3, <1>5, <1>6 DEF WholeOn
  <2>3. PICK Q : Q = S \cup R OBVIOUS
  <2>4. SumFunctionOnSet(f, Q \cup {c}) = f[c] + SumFunctionOnSet(f, Q)
    <3> HIDE DEF Fam
    <3> QED BY <2>1, <2>2, <2>3, SumAdd
  <2> QED BY <2>2, <2>3, <2>4
<1>10. Sum(R) \in Int /\ f[c] \in Int
  <2>1. IsFiniteSet(R) /\ WholeOn(f, R)
    BY <1>3, <1>6, FS_RemoveElement DEF WholeOn
  <2> QED BY <2>1, SumType, <1>3, <1>5 DEF WholeOn
<1> HIDE DEF Fam, Sum
<1> QED BY <1>3, <1>7, <1>8, <1>9, <1>10

(* A function changed at one member changes the sum by as much. *)
LEMMA SumShift ==
  ASSUME NEW f, NEW g, NEW S, IsFiniteSet(S), WholeOn(f, S), NEW x \in S,
         g[x] \in Int, \A y \in S : y # x => g[y] = f[y]
  PROVE  SumFunctionOnSet(g, S) = SumFunctionOnSet(f, S) + (g[x] - f[x])
<1>1. PICK R : R = S \ {x} OBVIOUS
<1>2. IsFiniteSet(R) /\ WholeOn(f, R) /\ WholeOn(g, S) /\ \A y \in R : f[y] = g[y]
  BY <1>1, FS_RemoveElement DEF WholeOn
<1>3. SumFunctionOnSet(f, R) = SumFunctionOnSet(g, R) BY <1>2, SumSame
<1>4. SumFunctionOnSet(f, S) = f[x] + SumFunctionOnSet(f, R) BY <1>1, SumRemove
<1>5. SumFunctionOnSet(g, S) = g[x] + SumFunctionOnSet(g, R) BY <1>1, <1>2, SumRemove
<1>6. SumFunctionOnSet(f, R) \in Int /\ f[x] \in Int BY <1>2, SumType DEF WholeOn
<1> QED BY <1>3, <1>4, <1>5, <1>6

LEMMA SumZero ==
  ASSUME NEW f, NEW S, IsFiniteSet(S), \A x \in S : f[x] = 0
  PROVE  SumFunctionOnSet(f, S) = 0
<1> DEFINE Fam == {U \in SUBSET S : SumFunctionOnSet(f, U) # 0}
<1>1. SUFFICES ASSUME Fam # {} PROVE FALSE OBVIOUS
<1>2. PICK U \in Fam : \A V \in SUBSET U : V # U => V \notin Fam
  <2>1. Fam \in SUBSET SUBSET S OBVIOUS
  <2> HIDE DEF Fam
  <2> QED BY <2>1, <1>1, MinimalSubset, Zenon
<1>3. U \in SUBSET S /\ SumFunctionOnSet(f, U) # 0 /\ IsFiniteSet(U)
  BY FS_Subset
<1>4. U # {} BY <1>3, SumEmpty
<1>5. Chosen(U) \in U BY <1>4, ChosenIn
<1>6. SumFunctionOnSet(f, U \ {Chosen(U)}) = 0 BY <1>2, <1>3, <1>5
<1>7. SumFunctionOnSet(f, U) = f[Chosen(U)] + SumFunctionOnSet(f, U \ {Chosen(U)})
  BY <1>3, <1>4, SumChosen
<1>8. f[Chosen(U)] = 0 BY <1>5, <1>3
<1> HIDE DEF Fam
<1> QED BY <1>3, <1>6, <1>7, <1>8
=============================================================================
