------------------------------ MODULE FiniteSums ------------------------------
(***************************************************************************)
(* Finite sums.  SumOver(f, S) is the sum of f[x] over the elements x of   *)
(* a finite set, as MapThenSumSet of FiniteSetsExt computes it, one element*)
(* after the other in the order of CHOOSE; what it yields does not depend  *)
(* on that order.                                                          *)
(*                                                                         *)
(* The proofs go by induction on finite sets, in the form of SmallestSet:  *)
(* if there were a subset without the property, there would be a smallest. *)
(***************************************************************************)
EXTENDS Integers, FiniteSetsExt, FiniteSetTheorems, TLAPS

Pick(s) == CHOOSE x \in s : TRUE

SumOver(f, S) ==
    LET iter[s \in SUBSET S] ==
          IF s = {} THEN 0 ELSE f[Pick(s)] + iter[s \ {Pick(s)}]
    IN  iter[S]

LEMMA PickIsIn == \A s : s # {} => Pick(s) \in s
BY DEF Pick

\* Among the subsets of a finite set there are smallest ones.
LEMMA SmallestSet ==
    ASSUME NEW S, IsFiniteSet(S), NEW Bad \in SUBSET (SUBSET S), Bad # {}
    PROVE  \E U \in Bad : \A V \in SUBSET U : V # U => V \notin Bad
<1>1. IsWellFoundedOn(StrictSubsetOrdering(S), SUBSET S)
  BY FS_StrictSubsetOrderingWellFounded, FS_FiniteSubsetsOfFinite
<1>2. PICK U \in Bad : \A V \in Bad : <<V, U>> \notin StrictSubsetOrdering(S)
  BY <1>1, WFMin
<1> QED
  BY <1>2 DEF StrictSubsetOrdering

\* The recursion that SumOver solves, on the subsets of S.
Solves(g, f, S) ==
    g = [s \in SUBSET S |->
           IF s = {} THEN 0 ELSE f[Pick(s)] + g[s \ {Pick(s)}]]

LEMMA SolutionAt ==
    ASSUME NEW g, NEW f, NEW S, Solves(g, f, S), NEW s \in SUBSET S
    PROVE  /\ s = {} => g[s] = 0
           /\ s # {} => g[s] = f[Pick(s)] + g[s \ {Pick(s)}]
BY DEF Solves

LEMMA OneSolution ==
    ASSUME NEW S, IsFiniteSet(S), NEW f, NEW g, NEW h, Solves(g, f, S), Solves(h, f, S)
    PROVE  g = h
<1> DEFINE Bad == {s \in SUBSET S : g[s] # h[s]}
<1>1. CASE Bad = {}
  <2>1. \A s \in SUBSET S : g[s] = h[s]
    BY <1>1
  <2>2. g = [s \in SUBSET S |-> g[s]] /\ h = [s \in SUBSET S |-> h[s]]
    BY DEF Solves
  <2> HIDE DEF Bad
  <2> QED
    BY <2>1, <2>2
<1>2. CASE Bad # {}
  <2>1. PICK U \in Bad : \A V \in SUBSET U : V # U => V \notin Bad
    <3>1. Bad \in SUBSET (SUBSET S)
      OBVIOUS
    <3> HIDE DEF Bad
    <3> QED
      BY <1>2, <3>1, SmallestSet
  <2>2. U # {}
    BY <2>1, SolutionAt
  <2>3. /\ U \ {Pick(U)} \in SUBSET U /\ U \ {Pick(U)} # U
        /\ U \in SUBSET S /\ U \ {Pick(U)} \in SUBSET S
    BY <2>1, <2>2, PickIsIn
  <2>4. g[U \ {Pick(U)}] = h[U \ {Pick(U)}]
    BY <2>1, <2>3
  <2>5. /\ g[U] = f[Pick(U)] + g[U \ {Pick(U)}]
        /\ h[U] = f[Pick(U)] + h[U \ {Pick(U)}]
    BY <2>2, <2>3, SolutionAt
  <2> QED
    BY <2>1, <2>4, <2>5
<1> QED
  BY <1>1, <1>2

\* A solution for S is one for each of its subsets.
LEMMA PartSolution ==
    ASSUME NEW S, NEW f, NEW g, Solves(g, f, S), NEW T \in SUBSET S
    PROVE  Solves([s \in SUBSET T |-> g[s]], f, T)
<1>1. \A s \in SUBSET T : g[s] = IF s = {} THEN 0 ELSE f[Pick(s)] + g[s \ {Pick(s)}]
  BY DEF Solves
<1> QED
  BY <1>1 DEF Solves

LEMMA Solvable ==
    ASSUME NEW S, IsFiniteSet(S), NEW f
    PROVE  \E g : Solves(g, f, S)
<1> DEFINE Bad == {s \in SUBSET S : ~ \E g : Solves(g, f, s)}
           Solution(s) == CHOOSE g : Solves(g, f, s)
<1>1. CASE Bad = {}
  <2>1. S \in SUBSET S
    OBVIOUS
  <2> QED
    BY <1>1, <2>1
<1>2. CASE Bad # {}
  <2>1. PICK U \in Bad : \A V \in SUBSET U : V # U => V \notin Bad
    <3>1. Bad \in SUBSET (SUBSET S)
      OBVIOUS
    <3> HIDE DEF Bad
    <3> QED
      BY <1>2, <3>1, SmallestSet
  <2>2. ASSUME NEW V \in SUBSET U, V # U
        PROVE  /\ Solves(Solution(V), f, V) /\ IsFiniteSet(V)
               /\ \A W \in SUBSET V : Solution(W)[W] = Solution(V)[W]
    <3>1. \A W \in SUBSET V : W \in SUBSET S /\ IsFiniteSet(W) /\ Solves(Solution(W), f, W)
      <4> TAKE W \in SUBSET V
      <4>1. W \in SUBSET U /\ W # U /\ W \in SUBSET S
        BY <2>1, <2>2
      <4>2. \E g : Solves(g, f, W)
        BY <2>1, <4>1
      <4>3. IsFiniteSet(W)
        BY <4>1, FS_Subset
      <4> QED
        BY <4>1, <4>2, <4>3
    <3>2. ASSUME NEW W \in SUBSET V
          PROVE  Solution(W)[W] = Solution(V)[W]
      <4> HIDE DEF Solution
      <4>1. Solves([s \in SUBSET W |-> Solution(V)[s]], f, W)
        <5>1. Solves(Solution(V), f, V)
          BY <3>1
        <5> QED
          BY <5>1, PartSolution
      <4>2. Solution(W) = [s \in SUBSET W |-> Solution(V)[s]]
        BY <3>1, <4>1, OneSolution
      <4> QED
        BY <4>2
    <3> QED
      BY <3>1, <3>2
  <2> DEFINE next(s) == s \ {Pick(s)}
             G == [s \in SUBSET U |->
                     IF s = {} THEN 0 ELSE f[Pick(s)] + Solution(next(s))[next(s)]]
  <2>3. ASSUME NEW s \in SUBSET U, s # {}
        PROVE  G[next(s)] = Solution(next(s))[next(s)]
    <3> DEFINE V == next(s)
    <3>1. V \in SUBSET U /\ V # U
      BY <2>3, PickIsIn
    <3> HIDE DEF V, Solution
    <3>2. CASE V = {}
      <4>1. Solution(V)[V] = 0
        BY <2>2, <3>1, <3>2, SolutionAt
      <4>2. G[V] = 0
        BY <3>1, <3>2
      <4> QED
        BY <4>1, <4>2 DEF V
    <3>3. CASE V # {}
      <4>1. next(V) \in SUBSET V
        OBVIOUS
      <4>2. Solution(V)[V] = f[Pick(V)] + Solution(V)[next(V)]
        BY <2>2, <3>1, <3>3, SolutionAt
      <4>3. Solution(next(V))[next(V)] = Solution(V)[next(V)]
        BY <2>2, <3>1, <4>1
      <4>4. G[V] = f[Pick(V)] + Solution(next(V))[next(V)]
        BY <3>1, <3>3
      <4>5. G[V] = Solution(V)[V]
        BY <4>2, <4>3, <4>4
      <4> QED
        BY <4>5 DEF V
    <3> QED
      BY <3>2, <3>3
  <2>4. Solves(G, f, U)
    <3>1. \A s \in SUBSET U :
            G[s] = IF s = {} THEN 0 ELSE f[Pick(s)] + G[next(s)]
      <4> TAKE s \in SUBSET U
      <4>1. CASE s = {}
        BY <4>1
      <4>2. CASE s # {}
        <5>1. G[s] = f[Pick(s)] + Solution(next(s))[next(s)]
          BY <4>2
        <5> HIDE DEF G, Solution
        <5> QED
          BY <2>3, <4>2, <5>1
      <4> QED
        BY <4>1, <4>2
    <3>2. G = [s \in SUBSET U |-> G[s]]
      OBVIOUS
    <3> HIDE DEF G
    <3> QED
      BY <3>1, <3>2 DEF Solves
  <2> QED
    BY <2>1, <2>4
<1> QED
  BY <1>1, <1>2

-----------------------------------------------------------------------------
(***************************************************************************)
(* What SumOver yields.                                                      *)
(***************************************************************************)
LEMMA TotalSolves ==
    ASSUME NEW S, IsFiniteSet(S), NEW f, NEW g, Solves(g, f, S)
    PROVE  \A s \in SUBSET S : SumOver(f, s) = g[s]
<1> TAKE s \in SUBSET S
<1>1. SumOver(f, s) = (CHOOSE h : Solves(h, f, s))[s]
  BY DEF SumOver, Solves
<1>2. Solves([t \in SUBSET s |-> g[t]], f, s)
  BY PartSolution
<1>3. Solves(CHOOSE h : Solves(h, f, s), f, s)
  BY <1>2
<1>4. IsFiniteSet(s)
  BY FS_Subset
<1>5. (CHOOSE h : Solves(h, f, s)) = [t \in SUBSET s |-> g[t]]
  BY <1>2, <1>3, <1>4, OneSolution
<1> QED
  BY <1>1, <1>5

LEMMA TotalEmpty == \A f : SumOver(f, {}) = 0
<1> TAKE f
<1>1. IsFiniteSet({})
  BY FS_EmptySet
<1>2. PICK g : Solves(g, f, {})
  BY <1>1, Solvable
<1>3. {} \in SUBSET {}
  OBVIOUS
<1>4. g[{}] = 0
  BY <1>2, <1>3, SolutionAt
<1> QED
  BY <1>1, <1>2, <1>3, <1>4, TotalSolves

LEMMA TotalPick ==
    ASSUME NEW S, IsFiniteSet(S), S # {}, NEW f
    PROVE  SumOver(f, S) = f[Pick(S)] + SumOver(f, S \ {Pick(S)})
<1>1. PICK g : Solves(g, f, S)
  BY Solvable
<1>2. S \in SUBSET S /\ S \ {Pick(S)} \in SUBSET S
  OBVIOUS
<1>3. g[S] = f[Pick(S)] + g[S \ {Pick(S)}]
  BY <1>1, <1>2, SolutionAt
<1> QED
  BY <1>1, <1>2, <1>3, TotalSolves

\* The total of functions that agree on a set is the same.
LEMMA TotalSame ==
    ASSUME NEW S, IsFiniteSet(S), NEW f, NEW g, \A x \in S : f[x] = g[x]
    PROVE  SumOver(f, S) = SumOver(g, S)
<1> DEFINE Bad == {s \in SUBSET S : SumOver(f, s) # SumOver(g, s)}
<1>1. CASE Bad = {}
  BY <1>1
<1>2. CASE Bad # {}
  <2>1. PICK U \in Bad : \A V \in SUBSET U : V # U => V \notin Bad
    <3>1. Bad \in SUBSET (SUBSET S)
      OBVIOUS
    <3> HIDE DEF Bad
    <3> QED
      BY <1>2, <3>1, SmallestSet
  <2>2. U # {} /\ U \in SUBSET S /\ IsFiniteSet(U)
    BY <2>1, TotalEmpty, FS_Subset
  <2>3. /\ Pick(U) \in S /\ U \ {Pick(U)} \in SUBSET U /\ U \ {Pick(U)} # U
    BY <2>2, PickIsIn
  <2>4. SumOver(f, U \ {Pick(U)}) = SumOver(g, U \ {Pick(U)})
    BY <2>1, <2>2, <2>3
  <2>5. /\ SumOver(f, U) = f[Pick(U)] + SumOver(f, U \ {Pick(U)})
        /\ SumOver(g, U) = g[Pick(U)] + SumOver(g, U \ {Pick(U)})
    BY <2>2, TotalPick
  <2>6. SumOver(f, U) # SumOver(g, U)
    BY <2>1
  <2> HIDE DEF Bad
  <2> QED
    BY <2>3, <2>4, <2>5, <2>6
<1> QED
  BY <1>1, <1>2

\* A total of natural numbers is one.
LEMMA TotalType ==
    ASSUME NEW S, IsFiniteSet(S), NEW f, \A x \in S : f[x] \in Nat
    PROVE  SumOver(f, S) \in Nat
<1> DEFINE Bad == {s \in SUBSET S : SumOver(f, s) \notin Nat}
<1>1. CASE Bad = {}
  BY <1>1
<1>2. CASE Bad # {}
  <2>1. PICK U \in Bad : \A V \in SUBSET U : V # U => V \notin Bad
    <3>1. Bad \in SUBSET (SUBSET S)
      OBVIOUS
    <3> HIDE DEF Bad
    <3> QED
      BY <1>2, <3>1, SmallestSet
  <2>2. U # {} /\ U \in SUBSET S /\ IsFiniteSet(U)
    <3>1. SumOver(f, {}) \in Nat
      BY TotalEmpty
    <3>2. U # {} /\ U \in SUBSET S
      BY <2>1, <3>1
    <3> QED
      BY <3>2, FS_Subset
  <2>3. /\ Pick(U) \in S /\ U \ {Pick(U)} \in SUBSET U /\ U \ {Pick(U)} # U
    BY <2>2, PickIsIn
  <2>4. SumOver(f, U \ {Pick(U)}) \in Nat
    BY <2>1, <2>2, <2>3
  <2>5. SumOver(f, U) = f[Pick(U)] + SumOver(f, U \ {Pick(U)})
    BY <2>2, TotalPick
  <2>6. SumOver(f, U) \notin Nat
    BY <2>1
  <2> HIDE DEF Bad
  <2> QED
    BY <2>3, <2>4, <2>5, <2>6
<1> QED
  BY <1>1, <1>2

\* And a total of integers is an integer.
LEMMA TotalInteger ==
    ASSUME NEW S, IsFiniteSet(S), NEW f, \A x \in S : f[x] \in Int
    PROVE  SumOver(f, S) \in Int
<1> DEFINE Bad == {s \in SUBSET S : SumOver(f, s) \notin Int}
<1>1. CASE Bad = {}
  BY <1>1
<1>2. CASE Bad # {}
  <2>1. PICK U \in Bad : \A V \in SUBSET U : V # U => V \notin Bad
    <3>1. Bad \in SUBSET (SUBSET S)
      OBVIOUS
    <3> HIDE DEF Bad
    <3> QED
      BY <1>2, <3>1, SmallestSet
  <2>2. U # {} /\ U \in SUBSET S /\ IsFiniteSet(U)
    <3>1. SumOver(f, {}) \in Int
      BY TotalEmpty
    <3>2. U # {} /\ U \in SUBSET S
      BY <2>1, <3>1
    <3> QED
      BY <3>2, FS_Subset
  <2>3. /\ Pick(U) \in S /\ U \ {Pick(U)} \in SUBSET U /\ U \ {Pick(U)} # U
    BY <2>2, PickIsIn
  <2>4. SumOver(f, U \ {Pick(U)}) \in Int
    BY <2>1, <2>2, <2>3
  <2>5. SumOver(f, U) = f[Pick(U)] + SumOver(f, U \ {Pick(U)})
    BY <2>2, TotalPick
  <2>6. SumOver(f, U) \notin Int
    BY <2>1
  <2> HIDE DEF Bad
  <2> QED
    BY <2>3, <2>4, <2>5, <2>6
<1> QED
  BY <1>1, <1>2

\* The order does not matter: any element may be the first.
LEMMA TotalRemove ==
    ASSUME NEW S, IsFiniteSet(S), NEW f, \A y \in S : f[y] \in Int, NEW x \in S
    PROVE  SumOver(f, S) = f[x] + SumOver(f, S \ {x})
<1> DEFINE Bad == {s \in SUBSET S : \E y \in s : SumOver(f, s) # f[y] + SumOver(f, s \ {y})}
<1>1. CASE Bad = {}
  <2>1. S \notin Bad
    BY <1>1
  <2> QED
    BY <2>1
<1>2. CASE Bad # {}
  <2>1. PICK U \in Bad : \A V \in SUBSET U : V # U => V \notin Bad
    <3>1. Bad \in SUBSET (SUBSET S)
      OBVIOUS
    <3> HIDE DEF Bad
    <3> QED
      BY <1>2, <3>1, SmallestSet
  <2>2. PICK y \in U : SumOver(f, U) # f[y] + SumOver(f, U \ {y})
    BY <2>1
  <2> DEFINE z == Pick(U)
             V == U \ {z}
             W == U \ {y}
  <2>3. U # {} /\ U \in SUBSET S /\ IsFiniteSet(U) /\ z \in U
    BY <2>1, <2>2, FS_Subset, PickIsIn
  <2>4. SumOver(f, U) = f[z] + SumOver(f, V)
    BY <2>3, TotalPick
  <2>5. y # z
    BY <2>2, <2>4
  <2>6. /\ V \in SUBSET U /\ V # U /\ V \in SUBSET S
        /\ W \in SUBSET U /\ W # U /\ W \in SUBSET S
        /\ y \in V /\ z \in W /\ V \ {y} = W \ {z}
    BY <2>3, <2>5
  <2>7. V \notin Bad /\ W \notin Bad
    <3> HIDE DEF Bad, V, W
    <3> QED
      BY <2>1, <2>6
  <2>8. /\ SumOver(f, V) = f[y] + SumOver(f, V \ {y})
        /\ SumOver(f, W) = f[z] + SumOver(f, W \ {z})
    BY <2>6, <2>7
  <2>9. f[y] \in Int /\ f[z] \in Int /\ SumOver(f, V \ {y}) \in Int
    <3>1. V \ {y} \in SUBSET S
      BY <2>6
    <3>2. IsFiniteSet(V \ {y}) /\ \A v \in V \ {y} : f[v] \in Int
      BY <3>1, FS_Subset
    <3>3. SumOver(f, V \ {y}) \in Int
      BY <3>2, TotalInteger
    <3> QED
      BY <2>3, <3>3
  <2>10. SumOver(f, U) # f[y] + SumOver(f, W)
    BY <2>2
  <2>11. SumOver(f, W \ {z}) = SumOver(f, V \ {y})
    BY <2>6
  <2>12. \A a, b, c \in Int : b + (a + c) = a + (b + c)
    OBVIOUS
  <2> HIDE DEF Bad, V, W, z
  <2> QED
    BY <2>4, <2>8, <2>9, <2>10, <2>11, <2>12
<1> QED
  BY <1>1, <1>2

LEMMA TotalAdd ==
    ASSUME NEW S, IsFiniteSet(S), NEW x, x \notin S, NEW f,
           \A y \in S \cup {x} : f[y] \in Int
    PROVE  SumOver(f, S \cup {x}) = f[x] + SumOver(f, S)
<1>1. IsFiniteSet(S \cup {x}) /\ (S \cup {x}) \ {x} = S
  BY FS_AddElement
<1>2. SumOver(f, S \cup {x}) = f[x] + SumOver(f, (S \cup {x}) \ {x})
  BY <1>1, TotalRemove
<1> QED
  BY <1>1, <1>2

\* What adds nothing everywhere adds up to nothing.
LEMMA TotalZero ==
    ASSUME NEW S, IsFiniteSet(S), NEW f, \A x \in S : f[x] = 0
    PROVE  SumOver(f, S) = 0
<1> DEFINE Bad == {s \in SUBSET S : SumOver(f, s) # 0}
<1>1. CASE Bad = {}
  BY <1>1
<1>2. CASE Bad # {}
  <2>1. PICK U \in Bad : \A V \in SUBSET U : V # U => V \notin Bad
    <3>1. Bad \in SUBSET (SUBSET S)
      OBVIOUS
    <3> HIDE DEF Bad
    <3> QED
      BY <1>2, <3>1, SmallestSet
  <2>2. U # {} /\ U \in SUBSET S /\ IsFiniteSet(U)
    BY <2>1, TotalEmpty, FS_Subset
  <2>3. /\ Pick(U) \in S /\ U \ {Pick(U)} \in SUBSET U /\ U \ {Pick(U)} # U
    BY <2>2, PickIsIn
  <2>4. SumOver(f, U \ {Pick(U)}) = 0
    BY <2>1, <2>2, <2>3
  <2>5. SumOver(f, U) = f[Pick(U)] + SumOver(f, U \ {Pick(U)})
    BY <2>2, TotalPick
  <2>6. SumOver(f, U) # 0
    BY <2>1
  <2> HIDE DEF Bad
  <2> QED
    BY <2>3, <2>4, <2>5, <2>6
<1> QED
  BY <1>1, <1>2

\* Where one summand changes, the total changes as much.
LEMMA TotalChange ==
    ASSUME NEW S, IsFiniteSet(S), NEW x \in S, NEW f, NEW g, NEW d \in Int,
           \A y \in S : f[y] \in Int,
           \A y \in S : g[y] = IF y = x THEN f[y] + d ELSE f[y]
    PROVE  SumOver(g, S) = SumOver(f, S) + d
<1>1. \A y \in S : g[y] \in Int
  OBVIOUS
<1>2. /\ SumOver(f, S) = f[x] + SumOver(f, S \ {x})
      /\ SumOver(g, S) = g[x] + SumOver(g, S \ {x})
  BY <1>1, TotalRemove
<1>3. IsFiniteSet(S \ {x}) /\ \A y \in S \ {x} : g[y] = f[y] /\ f[y] \in Int
  BY FS_Subset
<1>4. SumOver(g, S \ {x}) = SumOver(f, S \ {x})
  BY <1>3, TotalSame
<1>5. SumOver(f, S \ {x}) \in Int
  BY <1>3, TotalInteger
<1> QED
  BY <1>2, <1>4, <1>5

\* No summand exceeds a total of natural numbers.
LEMMA TotalCovers ==
    ASSUME NEW S, IsFiniteSet(S), NEW f, \A y \in S : f[y] \in Nat, NEW x \in S
    PROVE  f[x] <= SumOver(f, S)
<1>1. SumOver(f, S) = f[x] + SumOver(f, S \ {x})
  BY TotalRemove
<1>2. IsFiniteSet(S \ {x}) /\ \A y \in S \ {x} : f[y] \in Nat
  BY FS_Subset
<1>3. SumOver(f, S \ {x}) \in Nat
  BY <1>2, TotalType
<1> QED
  BY <1>1, <1>3

\* What is nothing may be left out.
LEMMA TotalPart ==
    ASSUME NEW S, IsFiniteSet(S), NEW f, \A x \in S : f[x] \in Int,
           NEW T \in SUBSET S, \A x \in S \ T : f[x] = 0
    PROVE  SumOver(f, S) = SumOver(f, T)
<1> DEFINE Bad == {s \in SUBSET S : SumOver(f, s) # SumOver(f, s \cap T)}
<1>1. CASE Bad = {}
  <2>1. S \cap T = T /\ S \in SUBSET S
    OBVIOUS
  <2> QED
    BY <1>1, <2>1
<1>2. CASE Bad # {}
  <2>1. PICK U \in Bad : \A V \in SUBSET U : V # U => V \notin Bad
    <3>1. Bad \in SUBSET (SUBSET S)
      OBVIOUS
    <3> HIDE DEF Bad
    <3> QED
      BY <1>2, <3>1, SmallestSet
  <2>2. U \in SUBSET S /\ SumOver(f, U) # SumOver(f, U \cap T)
    BY <2>1
  <2>3. IsFiniteSet(U) /\ IsFiniteSet(U \cap T)
    BY <2>2, FS_Subset
  <2>4. PICK x \in U : TRUE
    <3>1. U # {}
      BY <2>2, TotalEmpty
    <3> QED
      BY <3>1
  <2>5. SumOver(f, U) = f[x] + SumOver(f, U \ {x})
    BY <2>2, <2>3, TotalRemove
  <2>6. U \ {x} \in SUBSET U /\ U \ {x} # U /\ U \ {x} \in SUBSET S
    BY <2>2
  <2>7. SumOver(f, U \ {x}) = SumOver(f, (U \ {x}) \cap T)
    BY <2>1, <2>6
  <2>8. SumOver(f, U \cap T) = f[x] + SumOver(f, (U \ {x}) \cap T)
    <3>1. CASE x \in T
      <4>1. (U \ {x}) \cap T = (U \cap T) \ {x} /\ x \in U \cap T
        BY <3>1
      <4>2. SumOver(f, U \cap T) = f[x] + SumOver(f, (U \cap T) \ {x})
        BY <2>2, <2>3, <4>1, TotalRemove
      <4> QED
        BY <4>1, <4>2
    <3>2. CASE x \notin T
      <4>1. (U \ {x}) \cap T = U \cap T /\ f[x] = 0
        BY <2>2, <3>2
      <4>2. SumOver(f, U \cap T) \in Int
        BY <2>2, <2>3, TotalInteger
      <4>3. SumOver(f, U \cap T) = SumOver(f, (U \ {x}) \cap T)
        BY <4>1
      <4>4. \A n \in Int : n = 0 + n
        OBVIOUS
      <4> HIDE DEF Bad
      <4> QED
        BY <4>1, <4>2, <4>3, <4>4
    <3> QED
      BY <3>1, <3>2
  <2> HIDE DEF Bad
  <2> QED
    BY <2>2, <2>5, <2>7, <2>8
<1> QED
  BY <1>1, <1>2

\* A part of a total of natural numbers does not exceed it.
LEMMA TotalGrows ==
    ASSUME NEW S, IsFiniteSet(S), NEW f, \A x \in S : f[x] \in Nat, NEW T \in SUBSET S
    PROVE  SumOver(f, T) <= SumOver(f, S)
<1> DEFINE Bad == {s \in SUBSET S : ~ (SumOver(f, s \cap T) <= SumOver(f, s))}
<1>1. CASE Bad = {}
  <2>1. S \cap T = T /\ S \in SUBSET S
    OBVIOUS
  <2> QED
    BY <1>1, <2>1
<1>2. CASE Bad # {}
  <2>1. PICK U \in Bad : \A V \in SUBSET U : V # U => V \notin Bad
    <3>1. Bad \in SUBSET (SUBSET S)
      OBVIOUS
    <3> HIDE DEF Bad
    <3> QED
      BY <1>2, <3>1, SmallestSet
  <2>2. U \in SUBSET S /\ ~ (SumOver(f, U \cap T) <= SumOver(f, U))
    BY <2>1
  <2>3. IsFiniteSet(U) /\ IsFiniteSet(U \cap T)
    BY <2>2, FS_Subset
  <2>4. PICK x \in U : TRUE
    <3>1. U \cap T = {} /\ U = {} => SumOver(f, U \cap T) <= SumOver(f, U)
      BY TotalEmpty
    <3>2. U # {}
      BY <2>2, <3>1
    <3> QED
      BY <3>2
  <2>5. SumOver(f, U) = f[x] + SumOver(f, U \ {x})
    BY <2>2, <2>3, TotalRemove
  <2>6. U \ {x} \in SUBSET U /\ U \ {x} # U /\ U \ {x} \in SUBSET S
    BY <2>2
  <2>7. SumOver(f, (U \ {x}) \cap T) <= SumOver(f, U \ {x})
    BY <2>1, <2>6
  <2>8. /\ SumOver(f, U \ {x}) \in Nat /\ SumOver(f, (U \ {x}) \cap T) \in Nat
        /\ f[x] \in Nat
    <3>1. IsFiniteSet(U \ {x}) /\ IsFiniteSet((U \ {x}) \cap T)
      BY <2>3, FS_Subset
    <3>2. /\ \A y \in U \ {x} : f[y] \in Nat
          /\ \A y \in (U \ {x}) \cap T : f[y] \in Nat
      BY <2>2
    <3> QED
      BY <2>2, <3>1, <3>2, TotalType
  <2>9. SumOver(f, U \cap T) \in {f[x] + SumOver(f, (U \ {x}) \cap T),
                                  SumOver(f, (U \ {x}) \cap T)}
    <3>1. CASE x \in T
      <4>1. (U \ {x}) \cap T = (U \cap T) \ {x} /\ x \in U \cap T
        BY <3>1
      <4>2. SumOver(f, U \cap T) = f[x] + SumOver(f, (U \cap T) \ {x})
        BY <2>2, <2>3, <4>1, TotalRemove
      <4> QED
        BY <4>1, <4>2
    <3>2. CASE x \notin T
      <4>1. (U \ {x}) \cap T = U \cap T
        BY <3>2
      <4>2. SumOver(f, U \cap T) = SumOver(f, (U \ {x}) \cap T)
        BY <4>1
      <4> QED
        BY <4>2
    <3> QED
      BY <3>1, <3>2
  <2> HIDE DEF Bad
  <2> QED
    BY <2>2, <2>5, <2>7, <2>8, <2>9
<1> QED
  BY <1>1, <1>2

=============================================================================
