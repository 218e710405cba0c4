---------------------------- MODULE GenomeProofs ----------------------------
(***************************************************************************)
(* Proofs about Genome: the seed codes, and what holds over generations.   *)
(***************************************************************************)
EXTENDS Genome, TLAPS

(***************************************************************************)
(* Seed codes.                                                             *)
(***************************************************************************)

\* Quotient and remainder of what is left of a seed and the base.
LEMMA DivMod ==
    ASSUME NEW n \in Nat
    PROVE  /\ rest(n) \in Nat /\ n % Base \in 0..(Base - 1)
           /\ n = Base * rest(n) + (n % Base)
BY GenomeAssumption DEF rest

LEMMA Distributes ==
    ASSUME NEW b \in Nat, NEW m \in Nat, NEW d \in Nat
    PROVE  b * (m + d) = b * m + b * d /\ b * d \in Nat /\ b * m \in Nat
BY Z3

\* A digit less is left of it.
LEMMA Shrinks ==
    ASSUME NEW n \in Nat, NEW m \in Nat, n < Base * m
    PROVE  rest(n) < m
<1>0. Base \in Nat
  BY GenomeAssumption
<1>1. rest(n) \in Nat /\ n = Base * rest(n) + (n % Base) /\ n % Base \in Nat
  <2>1. n % Base \in 0..(Base - 1)
    BY DivMod
  <2> QED BY <2>1, <1>0, DivMod
<1>2. SUFFICES ASSUME rest(n) >= m PROVE FALSE
  BY <1>1
<1>3. PICK d \in Nat : rest(n) = m + d
  <2>1. rest(n) - m \in Nat /\ rest(n) = m + (rest(n) - m)
    BY <1>1, <1>2
  <2> QED BY <2>1
<1>4. Base * rest(n) = Base * m + Base * d /\ Base * d \in Nat /\ Base * m \in Nat
  BY <1>0, <1>3, Distributes
<1> DEFINE p == Base * rest(n)
           q == Base * m
           e == Base * d
           t == n % Base
<1>5. n = p + t /\ t \in Nat /\ p = q + e /\ e \in Nat /\ q \in Nat /\ n < q
  BY <1>1, <1>4
<1> HIDE DEF p, q, e, t
<1> QED BY <1>5

LEMMA Wraps ==
    ASSUME NEW n \in Seed
    PROVE  toUint32(n) = n
BY GenomeAssumption DEF Seed, toUint32

\* decodeSeedCode takes every code that encodeSeedCode makes, and gives the
\* seed back.  Digit by digit: what the decoder has read so far is what was left
\* of the seed when the encoder wrote the digit.
THEOREM CodesAreExact ==
    ASSUME NEW s \in Seed
    PROVE  /\ encodeSeedCode(s) \in Code
           /\ decodable(encodeSeedCode(s))
           /\ decodeSeedCode(encodeSeedCode(s)) = s
<1> DEFINE n1 == rest(s)
           n2 == rest(n1)
           n3 == rest(n2)
           n4 == rest(n3)
           n5 == rest(n4)
           n6 == rest(n5)
           m2 == Base * Base
           m3 == Base * m2
           m4 == Base * m3
           m5 == Base * m4
           m6 == Base * m5
<1>1. s \in Nat /\ Base \in Nat /\ Base > 0 /\ Seeds \in Nat
  BY GenomeAssumption DEF Seed
<1>2. s < Base * m6
  BY <1>1, GenomeAssumption DEF Seed
<1>3. /\ m2 \in Nat /\ m3 \in Nat /\ m4 \in Nat /\ m5 \in Nat /\ m6 \in Nat
  BY <1>1, Distributes
<1>4. /\ n1 \in Nat /\ n2 \in Nat /\ n3 \in Nat /\ n4 \in Nat /\ n5 \in Nat /\ n6 \in Nat
  BY <1>1, DivMod
<1> HIDE DEF m6
<1>5. n1 < m6
  BY <1>1, <1>2, <1>3, Shrinks
<1>6. n2 < m5
  BY <1>3, <1>4, <1>5, Shrinks DEF m6
<1> HIDE DEF m5, n1
<1>7. n3 < m4
  BY <1>3, <1>4, <1>6, Shrinks DEF m5
<1> HIDE DEF m4, n2
<1>8. n4 < m3
  BY <1>3, <1>4, <1>7, Shrinks DEF m4
<1> HIDE DEF m3, n3
<1>9. n5 < m2
  BY <1>3, <1>4, <1>8, Shrinks DEF m3
<1> HIDE DEF n4
<1>10. n6 < Base
  BY <1>1, <1>4, <1>9, Shrinks
<1> HIDE DEF n5, m2
<1>11. n6 % Base = n6
  BY <1>1, <1>4, <1>10
<1> HIDE DEF n6
<1>12. /\ n6 * Base + (n5 % Base) = n5 /\ n5 * Base + (n4 % Base) = n4
       /\ n4 * Base + (n3 % Base) = n3 /\ n3 * Base + (n2 % Base) = n2
       /\ n2 * Base + (n1 % Base) = n1 /\ n1 * Base + (s % Base) = s
  <2>1. ASSUME NEW n \in Nat PROVE rest(n) * Base + (n % Base) = n
    <3>1. n = Base * rest(n) + (n % Base) /\ rest(n) \in Nat
      BY DivMod
    <3>2. Base * rest(n) = rest(n) * Base
      BY <3>1, <1>1
    <3> QED BY <3>1, <3>2
  <2> QED BY <2>1, <1>1, <1>4 DEF n1, n2, n3, n4, n5, n6
<1> DEFINE code == <<n6 % Base, n5 % Base, n4 % Base, n3 % Base, n2 % Base, n1 % Base, s % Base>>
<1>13. encodeSeedCode(s) = code
  BY DEF encodeSeedCode, n1, n2, n3, n4, n5, n6
<1>14. ASSUME NEW n \in Nat PROVE n % Base \in 0..(Base - 1)
  BY DivMod
<1>15. code \in Code /\ Len(code) = 7
  BY <1>1, <1>4, <1>14 DEF Code
<1>16. decodeSeedCode(code) = toUint32(s)
  BY <1>11, <1>12 DEF decodeSeedCode
<1> QED BY <1>13, <1>15, <1>16, Wraps DEF decodable, Code

-----------------------------------------------------------------------------
(***************************************************************************)
(* Types.                                                                  *)
(***************************************************************************)
LEMMA GlowType ==
    ASSUME NEW k \in Rank, NEW M
    PROVE  Glow[k] \in Nat /\ glowOf(k, M) \in Nat
BY GenomeAssumption DEF glowOf

LEMMA GenerateType ==
    ASSUME NEW s \in Seed, NEW k \in Rank, NEW f \in Form, NEW M \in SUBSET Mutation
    PROVE  generateLumi(s, k, f, M) \in Lumi
<1>1. encodeSeedCode(s) \in Code
  BY CodesAreExact
<1> QED BY <1>1, GlowType DEF generateLumi, buildRenderSpec, Lumi

LEMMA BreedType ==
    ASSUME NEW a \in Lumi, NEW b \in Lumi, NEW fresh \in Lumi, NEW f \in Form,
           NEW k \in Rank, NEW M \in SUBSET Mutation
    PROVE  breedLumi(a, b, fresh, f, k, M) \in Lumi
<1>1. encodeSeedCode(a.seed) \in Code /\ encodeSeedCode(b.seed) \in Code
  BY CodesAreExact DEF Lumi
<1>2. <<encodeSeedCode(a.seed), encodeSeedCode(b.seed)>> \in Code \X Code
  BY <1>1
<1> DEFINE c == [fresh EXCEPT !.form = f, !.rarity = k,
                              !.mutations = @ \cup M,
                              !.lineage = <<encodeSeedCode(a.seed), encodeSeedCode(b.seed)>>]
<1>3. c \in Lumi /\ c.rarity = k
  BY <1>2 DEF Lumi
<1> HIDE DEF c
<1>4. /\ glowOf(c.rarity, c.mutations) \in Nat /\ Glow[c.rarity] \in Nat
      /\ (c.render.extras \ Redrawn) \cup (c.mutations \cap Redrawn) \in SUBSET Mutation
  BY <1>3, GlowType, GenomeAssumption DEF Lumi
<1>5. recomputed(c) \in Lumi
  BY <1>3, <1>4 DEF recomputed, Lumi
<1> QED BY <1>5 DEF breedLumi, c

\* What is drawn has a type, the next seed, and only mutations that its rarity
\* allows.
LEMMA DrawnType ==
    ASSUME TypeOK, Len(lumi) < Births, NEW fresh \in Drawn
    PROVE  /\ fresh \in Lumi /\ fresh.seed = seedOf[Newborn]
           /\ fresh.seedCode = encodeSeedCode(fresh.seed) /\ fresh.lineage = <<>>
           /\ fresh.mutations \subseteq rollable(fresh.tier)
           /\ fresh.render.extras = fresh.mutations /\ fresh.species = fresh.form
           /\ fresh.rarity = fresh.tier
           /\ fresh.glow = glowOf(fresh.rarity, fresh.mutations)
           /\ fresh.render.aura = Glow[fresh.rarity]
<1>1. Len(lumi) \in Nat /\ Newborn \in 1..Births
  BY GenomeAssumption DEF TypeOK, Newborn
<1>2. seedOf[Newborn] \in Seed
  BY <1>1, GenomeAssumption
<1>3. PICK t \in [rarity : Rank, form : Form, mutations : SUBSET Mutation] :
         /\ t.mutations \subseteq rollable(t.rarity)
         /\ fresh = generateLumi(seedOf[Newborn], t.rarity, t.form, t.mutations)
  BY DEF Drawn
<1>4. fresh \in Lumi
  BY <1>2, <1>3, GenerateType
<1> QED BY <1>3, <1>4 DEF generateLumi, buildRenderSpec

\* The child of a pair.
Child(c, fresh, i, j) ==
    \E rarity \in Rank, form \in Form, heritable \in SUBSET (lumi[i].mutations \cup lumi[j].mutations) :
       c = breedLumi(lumi[i], lumi[j], fresh, form, rarity, heritable)

\* A step adds a Lumi: one that is drawn, or the child of two there are.
Grown ==
    /\ Len(lumi) < Births
    /\ \E fresh \in Drawn :
         \/ /\ lumi' = Append(lumi, fresh)
            /\ parents' = Append(parents, <<>>) /\ line' = Append(line, {Newborn})
         \/ \E i, j \in Born, c \in Lumi :
              /\ Child(c, fresh, i, j)
              /\ lumi' = Append(lumi, c) /\ parents' = Append(parents, <<i, j>>)
              /\ line' = Append(line, {Newborn} \cup line[i] \cup line[j])

LEMMA StepGrows ==
    ASSUME TypeOK, Next
    PROVE  Grown
<1>1. CASE Hatch
  BY <1>1 DEF Hatch, Grown
<1>2. ASSUME NEW i \in Born, NEW j \in Born, Breed(i, j) PROVE Grown
  <2>1. Len(lumi) < Births
    BY <1>2 DEF Breed
  <2>2. PICK fresh \in Drawn, rarity \in inheritRarity(lumi[i], lumi[j]),
             heritable \in SUBSET (lumi[i].mutations \cup lumi[j].mutations) :
          \E form \in {lumi[i].form, lumi[j].form, fresh.form} :
             lumi' = Append(lumi, breedLumi(lumi[i], lumi[j], fresh, form, rarity, heritable))
    BY <1>2 DEF Breed
  <2>3. PICK form \in {lumi[i].form, lumi[j].form, fresh.form} :
             lumi' = Append(lumi, breedLumi(lumi[i], lumi[j], fresh, form, rarity, heritable))
    BY <2>2
  <2>4. lumi[i] \in Lumi /\ lumi[j] \in Lumi /\ fresh \in Lumi
    BY <2>1, DrawnType DEF TypeOK, Born
  <2>5. form \in Form /\ rarity \in Rank /\ heritable \in SUBSET Mutation
    BY <2>3, <2>4 DEF Lumi, inheritRarity
  <2> DEFINE c == breedLumi(lumi[i], lumi[j], fresh, form, rarity, heritable)
  <2>6. c \in Lumi /\ Child(c, fresh, i, j)
    BY <2>4, <2>5, BreedType DEF Child
  <2> QED BY <1>2, <2>1, <2>3, <2>6 DEF Breed, Grown
<1> QED BY <1>1, <1>2 DEF Next

\* What a step leaves of the Lumi there were, and the place of the new one.
LEMMA StepKeeps ==
    ASSUME TypeOK, Grown
    PROVE  /\ Len(lumi') = Newborn /\ Len(parents') = Newborn /\ Len(line') = Newborn
           /\ Newborn \in Nat /\ Born' = Born \cup {Newborn} /\ Newborn \notin Born
           /\ \A k \in Born : /\ lumi'[k] = lumi[k] /\ parents'[k] = parents[k]
                              /\ line'[k] = line[k]
<1>1. PICK x, y, z : lumi' = Append(lumi, x) /\ parents' = Append(parents, y) /\ line' = Append(line, z)
  BY DEF Grown
<1>2. Len(lumi) \in Nat
  BY DEF TypeOK
<1>3. Len(lumi') = Newborn /\ \A k \in Born : lumi'[k] = lumi[k]
  BY <1>1 DEF TypeOK, Born, Newborn
<1>4. Len(parents') = Newborn /\ \A k \in Born : parents'[k] = parents[k]
  BY <1>1 DEF TypeOK, Born, Newborn
<1>5. Len(line') = Newborn /\ \A k \in Born : line'[k] = line[k]
  BY <1>1 DEF TypeOK, Born, Newborn
<1> QED BY <1>2, <1>3, <1>4, <1>5 DEF Born, Newborn

LEMMA TypeStep ==
    ASSUME TypeOK, Grown
    PROVE  TypeOK'
<1>1. PICK fresh \in Drawn :
         \/ /\ lumi' = Append(lumi, fresh)
            /\ parents' = Append(parents, <<>>) /\ line' = Append(line, {Newborn})
         \/ \E i, j \in Born, c \in Lumi :
              /\ lumi' = Append(lumi, c) /\ parents' = Append(parents, <<i, j>>)
              /\ line' = Append(line, {Newborn} \cup line[i] \cup line[j])
  BY DEF Grown
<1>2. fresh \in Lumi
  BY DrawnType DEF Grown
<1>3. Newborn \in Nat /\ \A k \in Born : line[k] \subseteq 1..k /\ k < Newborn /\ k \in Nat
  BY DEF TypeOK, Born, Newborn
<1>4. PICK c \in Lumi, y \in {<<>>} \cup (Born \X Born), z \in SUBSET (1..Newborn) :
        /\ lumi' = Append(lumi, c) /\ parents' = Append(parents, y) /\ line' = Append(line, z)
        /\ Newborn \in z
  <2>1. CASE lumi' = Append(lumi, fresh) /\ parents' = Append(parents, <<>>)
             /\ line' = Append(line, {Newborn})
    <3>1. {Newborn} \in SUBSET (1..Newborn)
      BY <1>3 DEF Newborn
    <3> QED BY <1>2, <2>1, <3>1
  <2>2. ASSUME NEW i \in Born, NEW j \in Born, NEW c \in Lumi,
               lumi' = Append(lumi, c), parents' = Append(parents, <<i, j>>),
               line' = Append(line, {Newborn} \cup line[i] \cup line[j])
        PROVE  \E d \in Lumi, y \in {<<>>} \cup (Born \X Born), z \in SUBSET (1..Newborn) :
                 /\ lumi' = Append(lumi, d) /\ parents' = Append(parents, y)
                 /\ line' = Append(line, z) /\ Newborn \in z
    <3>1. {Newborn} \cup line[i] \cup line[j] \in SUBSET (1..Newborn)
      BY <1>3 DEF Newborn
    <3>2. <<i, j>> \in Born \X Born
      OBVIOUS
    <3> QED BY <2>2, <3>1, <3>2
  <2> QED BY <1>1, <2>1, <2>2
<1>5. lumi' \in Seq(Lumi)
  BY <1>4 DEF TypeOK
<1>6. parents' \in Seq({<<>>} \cup (Nat \X Nat))
  <2>1. y \in {<<>>} \cup (Nat \X Nat)
    BY <1>4 DEF Born
  <2> QED BY <1>4, <2>1 DEF TypeOK
<1>7. line' \in Seq(SUBSET Nat)
  <2>1. z \in SUBSET Nat
    BY <1>4
  <2> QED BY <1>4, <2>1 DEF TypeOK
<1>8. parents'[Newborn] = y /\ line'[Newborn] = z
  BY <1>4 DEF TypeOK, Newborn
<1>9. ASSUME NEW k \in Born'
      PROVE  /\ parents'[k] = <<>> \/ parents'[k] \in (1..(k - 1)) \X (1..(k - 1))
             /\ k \in line'[k] /\ line'[k] \subseteq 1..k
  <2>1. CASE k \in Born
    BY <2>1, StepKeeps DEF TypeOK
  <2>2. CASE k = Newborn
    <3>1. Born = 1..(k - 1)
      BY <2>2 DEF Born, Newborn, TypeOK
    <3> QED BY <1>4, <1>8, <2>2, <3>1
  <2> QED BY <2>1, <2>2, StepKeeps
<1> QED BY <1>5, <1>6, <1>7, <1>9, StepKeeps DEF TypeOK

\* The genomes keep their types, and descent goes back in time.
THEOREM GenomeTypeCorrect == Spec => []TypeOK
<1>1. Init => TypeOK
  BY DEF Init, TypeOK, Born
<1>2. TypeOK /\ [Next]_vars => TypeOK'
  <2>1. CASE Next
    BY <2>1, StepGrows, TypeStep
  <2>2. CASE UNCHANGED vars
    BY <2>2 DEF TypeOK, Born, vars
  <2> QED BY <2>1, <2>2
<1> QED BY <1>1, <1>2, PTL DEF Spec

-----------------------------------------------------------------------------
(***************************************************************************)
(* Invariants.                                                             *)
(***************************************************************************)

\* What breedLumi makes of a drawing.
LEMMA ChildIs ==
    ASSUME TypeOK, Grown, NEW fresh \in Drawn, NEW i \in Born, NEW j \in Born,
           NEW c, Child(c, fresh, i, j)
    PROVE  /\ c.seed = fresh.seed /\ c.seedCode = encodeSeedCode(c.seed) /\ c.tier = fresh.tier
           /\ c.mutations \subseteq fresh.mutations \cup lumi[i].mutations \cup lumi[j].mutations
           /\ fresh.mutations \subseteq c.mutations
           /\ c.render.extras = (fresh.render.extras \ Redrawn) \cup (c.mutations \cap Redrawn)
           /\ c.species = c.form /\ c.glow = glowOf(c.rarity, c.mutations)
           /\ c.render.aura = Glow[c.rarity]
           /\ c.lineage = <<encodeSeedCode(lumi[i].seed), encodeSeedCode(lumi[j].seed)>>
<1>1. PICK rarity \in Rank, form \in Form,
           heritable \in SUBSET (lumi[i].mutations \cup lumi[j].mutations) :
         c = breedLumi(lumi[i], lumi[j], fresh, form, rarity, heritable)
  BY DEF Child
<1>2. fresh \in Lumi /\ fresh.seedCode = encodeSeedCode(fresh.seed)
  BY DrawnType DEF Grown
<1> DEFINE e == [fresh EXCEPT !.form = form, !.rarity = rarity,
                              !.mutations = @ \cup heritable,
                              !.lineage = <<encodeSeedCode(lumi[i].seed),
                                            encodeSeedCode(lumi[j].seed)>>]
<1>3. c = recomputed(e)
  BY <1>1 DEF breedLumi
<1>4. /\ e.seed = fresh.seed /\ e.seedCode = fresh.seedCode /\ e.tier = fresh.tier
      /\ e.render = fresh.render /\ e.mutations = fresh.mutations \cup heritable
      /\ e.lineage = <<encodeSeedCode(lumi[i].seed), encodeSeedCode(lumi[j].seed)>>
      /\ DOMAIN e = DOMAIN fresh
  BY <1>2 DEF Lumi
<1> HIDE DEF e
<1>5. DOMAIN e = {"seed", "seedCode", "rarity", "tier", "form", "species", "mutations",
                  "render", "glow", "lineage"}
  BY <1>2, <1>4 DEF Lumi
<1>6. DOMAIN e.render = {"extras", "aura"}
  BY <1>2, <1>4 DEF Lumi
<1>7. /\ c.seed = e.seed /\ c.seedCode = e.seedCode /\ c.tier = e.tier /\ c.form = e.form
      /\ c.rarity = e.rarity /\ c.mutations = e.mutations /\ c.lineage = e.lineage
      /\ c.species = e.form /\ c.glow = glowOf(e.rarity, e.mutations)
      /\ c.render.aura = Glow[e.rarity]
      /\ c.render.extras = (e.render.extras \ Redrawn) \cup (e.mutations \cap Redrawn)
  BY <1>3, <1>5, <1>6 DEF recomputed
<1> QED BY <1>2, <1>4, <1>7

\* The last born after a step.
LEMMA NewbornIs ==
    ASSUME TypeOK, Grown
    PROVE  \E fresh \in Drawn :
             \/ /\ lumi'[Newborn] = fresh /\ parents'[Newborn] = <<>> /\ line'[Newborn] = {Newborn}
             \/ \E i, j \in Born :
                  /\ Child(lumi'[Newborn], fresh, i, j) /\ parents'[Newborn] = <<i, j>>
                  /\ line'[Newborn] = {Newborn} \cup line[i] \cup line[j]
<1>1. /\ \A x : lumi' = Append(lumi, x) => lumi'[Newborn] = x
      /\ \A x : parents' = Append(parents, x) => parents'[Newborn] = x
      /\ \A x : line' = Append(line, x) => line'[Newborn] = x
  BY DEF TypeOK, Newborn
<1>2. PICK fresh \in Drawn :
         \/ /\ lumi' = Append(lumi, fresh)
            /\ parents' = Append(parents, <<>>) /\ line' = Append(line, {Newborn})
         \/ \E i, j \in Born, c \in Lumi :
              /\ Child(c, fresh, i, j)
              /\ lumi' = Append(lumi, c) /\ parents' = Append(parents, <<i, j>>)
              /\ line' = Append(line, {Newborn} \cup line[i] \cup line[j])
  BY DEF Grown
<1>3. CASE lumi' = Append(lumi, fresh) /\ parents' = Append(parents, <<>>)
           /\ line' = Append(line, {Newborn})
  BY <1>1, <1>3
<1>4. ASSUME NEW i \in Born, NEW j \in Born, NEW c \in Lumi, Child(c, fresh, i, j),
             lumi' = Append(lumi, c), parents' = Append(parents, <<i, j>>),
             line' = Append(line, {Newborn} \cup line[i] \cup line[j])
      PROVE  /\ Child(lumi'[Newborn], fresh, i, j) /\ parents'[Newborn] = <<i, j>>
             /\ line'[Newborn] = {Newborn} \cup line[i] \cup line[j]
  BY <1>1, <1>4
<1> QED BY <1>2, <1>3, <1>4

\* The picture and the name follow what was handed down, in every generation.
THEOREM PicturesFollow == Spec => []LooksFollow
<1>1. Init => LooksFollow
  BY DEF Init, LooksFollow, Born
<1>2. TypeOK /\ LooksFollow /\ [Next]_vars => LooksFollow'
  <2>1. ASSUME TypeOK, LooksFollow, Grown PROVE LooksFollow'
    <3>1. ASSUME NEW k \in Born, NEW l, l = lumi[k]
          PROVE  /\ l.species = l.form
                 /\ l.glow = glowOf(l.rarity, l.mutations) /\ l.render.aura = Glow[l.rarity]
                 /\ l.render.extras \subseteq l.mutations /\ l.mutations \cap Redrawn \subseteq l.render.extras
      BY <2>1, <3>1 DEF LooksFollow
    <3>2. ASSUME NEW l, l = lumi'[Newborn]
          PROVE  /\ l.species = l.form
                 /\ l.glow = glowOf(l.rarity, l.mutations) /\ l.render.aura = Glow[l.rarity]
                 /\ l.render.extras \subseteq l.mutations /\ l.mutations \cap Redrawn \subseteq l.render.extras
      <4>1. PICK fresh \in Drawn : l = fresh \/ \E i, j \in Born : Child(l, fresh, i, j)
        BY <2>1, <3>2, NewbornIs
      <4>3. /\ fresh.render.extras = fresh.mutations /\ fresh.species = fresh.form
            /\ fresh.glow = glowOf(fresh.rarity, fresh.mutations)
            /\ fresh.render.aura = Glow[fresh.rarity]
        BY <2>1, DrawnType DEF Grown
      <4>4. CASE l = fresh
        BY <4>3, <4>4
      <4>5. ASSUME NEW i \in Born, NEW j \in Born, Child(l, fresh, i, j)
            PROVE  /\ l.species = l.form
                   /\ l.glow = glowOf(l.rarity, l.mutations) /\ l.render.aura = Glow[l.rarity]
                   /\ l.render.extras \subseteq l.mutations /\ l.mutations \cap Redrawn \subseteq l.render.extras
        BY <2>1, <4>3, <4>5, ChildIs
      <4> QED BY <4>1, <4>4, <4>5
    <3> QED BY <2>1, <3>1, <3>2, StepKeeps DEF LooksFollow
  <2>2. CASE UNCHANGED vars
    BY <2>2 DEF LooksFollow, Born, vars
  <2> QED BY <2>1, <2>2, StepGrows
<1> QED BY <1>1, <1>2, GenomeTypeCorrect, PTL DEF Spec

\* A gated mutation comes from a drawing that was rare enough for it, by whatever
\* rarities it passed since.
THEOREM TrophiesAreTrue == Spec => []TrophiesHaveOrigin
<1>1. Init => TrophiesHaveOrigin
  BY DEF Init, TrophiesHaveOrigin, Born
<1>2. TypeOK /\ TrophiesHaveOrigin /\ [Next]_vars => TrophiesHaveOrigin'
  <2>1. ASSUME TypeOK, TrophiesHaveOrigin, Grown PROVE TrophiesHaveOrigin'
    <3> DEFINE Origin(j, m) == lumi'[j].tier >= minRarity[m] /\ m \in lumi'[j].mutations
    <3>1. \A k \in Born : line[k] \subseteq Born
      BY <2>1 DEF TypeOK, Born
    <3>2. ASSUME NEW k \in Born, NEW m \in lumi[k].mutations
          PROVE  \E j \in line[k] : Origin(j, m)
      <4>1. PICK j \in line[k] : lumi[j].tier >= minRarity[m] /\ m \in lumi[j].mutations
        BY <2>1 DEF TrophiesHaveOrigin
      <4> QED BY <2>1, <3>1, <4>1, StepKeeps
    <3> DEFINE l == lumi'[Newborn]
    <3>3. ASSUME NEW m \in l.mutations
          PROVE  \E j \in line'[Newborn] : Origin(j, m)
      <4>1. PICK fresh \in Drawn :
               \/ l = fresh /\ line'[Newborn] = {Newborn}
               \/ \E i, j \in Born : /\ Child(l, fresh, i, j)
                                      /\ line'[Newborn] = {Newborn} \cup line[i] \cup line[j]
        BY <2>1, NewbornIs
      <4>2. fresh \in Lumi /\ fresh.mutations \subseteq rollable(fresh.tier)
        BY <2>1, DrawnType DEF Grown
      <4>3. ASSUME m \in fresh.mutations, fresh.mutations \subseteq l.mutations,
                   l.tier = fresh.tier, Newborn \in line'[Newborn]
            PROVE  \E j \in line'[Newborn] : Origin(j, m)
        <5>1. m \in Mutation /\ minRarity[m] <= fresh.tier
          BY <4>2, <4>3 DEF rollable
        <5>2. minRarity[m] \in Nat /\ fresh.tier \in Nat
          BY <4>2, <5>1, GenomeAssumption DEF Lumi, Rank
        <5>3. Origin(Newborn, m)
          BY <4>3, <5>1, <5>2
        <5> QED BY <4>3, <5>3
      <4>4. CASE l = fresh /\ line'[Newborn] = {Newborn}
        BY <4>3, <4>4
      <4>5. ASSUME NEW i \in Born, NEW j \in Born, Child(l, fresh, i, j),
                   line'[Newborn] = {Newborn} \cup line[i] \cup line[j]
            PROVE  \E a \in line'[Newborn] : Origin(a, m)
        <5>1. /\ l.tier = fresh.tier /\ fresh.mutations \subseteq l.mutations
              /\ l.mutations \subseteq fresh.mutations \cup lumi[i].mutations \cup lumi[j].mutations
          BY <2>1, <4>5, ChildIs
        <5>2. CASE m \in fresh.mutations
          BY <4>3, <4>5, <5>1, <5>2
        <5>3. CASE m \in lumi[i].mutations
          <6>1. PICK a \in line[i] : Origin(a, m)
            BY <3>2, <5>3
          <6> QED BY <4>5, <6>1
        <5>4. CASE m \in lumi[j].mutations
          <6>1. PICK a \in line[j] : Origin(a, m)
            BY <3>2, <5>4
          <6> QED BY <4>5, <6>1
        <5> QED BY <5>1, <5>2, <5>3, <5>4
      <4> QED BY <4>1, <4>4, <4>5
    <3>4. ASSUME NEW k \in Born', NEW m \in lumi'[k].mutations
          PROVE  \E j \in line'[k] : Origin(j, m)
      <4>1. CASE k \in Born
        <5>1. lumi'[k] = lumi[k] /\ line'[k] = line[k]
          BY <2>1, <4>1, StepKeeps
        <5> QED BY <3>2, <4>1, <5>1
      <4>2. CASE k = Newborn
        BY <3>3, <4>2
      <4> QED BY <2>1, <4>1, <4>2, StepKeeps
    <3> QED BY <3>4 DEF TrophiesHaveOrigin
  <2>2. CASE UNCHANGED vars
    BY <2>2 DEF TrophiesHaveOrigin, Born, vars
  <2> QED BY <2>1, <2>2, StepGrows
<1> QED BY <1>1, <1>2, GenomeTypeCorrect, PTL DEF Spec

\* Every code that is kept with a Lumi names the seed it was made from.
THEOREM CodesAreKept == Spec => []CodesKeepSeeds
<1> DEFINE Exact(s, code) == decodable(code) /\ decodeSeedCode(code) = s
<1>1. Init => CodesKeepSeeds
  BY DEF Init, CodesKeepSeeds, Born
<1>2. TypeOK /\ CodesKeepSeeds /\ [Next]_vars => CodesKeepSeeds'
  <2>1. ASSUME TypeOK, CodesKeepSeeds, Grown PROVE CodesKeepSeeds'
    <3> DEFINE Kept(k) ==
          /\ Exact(lumi'[k].seed, lumi'[k].seedCode)
          /\ Len(lumi'[k].lineage) = Len(parents'[k])
          /\ \A n \in 1..Len(parents'[k]) :
                decodeSeedCode(lumi'[k].lineage[n]) = lumi'[parents'[k][n]].seed
    <3>1. ASSUME NEW k \in Born PROVE Kept(k)
      <4>1. lumi'[k] = lumi[k] /\ parents'[k] = parents[k]
        BY <2>1, StepKeeps
      <4>2. ASSUME NEW n \in 1..Len(parents[k]) PROVE parents[k][n] \in Born
        <5>1. parents[k] = <<>> \/ parents[k] \in (1..(k - 1)) \X (1..(k - 1))
          BY <2>1 DEF TypeOK
        <5>2. CASE parents[k] = <<>>
          BY <4>2, <5>2
        <5>3. CASE parents[k] \in (1..(k - 1)) \X (1..(k - 1))
          <6>1. PICK a \in 1..(k - 1), b \in 1..(k - 1) : parents[k] = <<a, b>>
            BY <5>3
          <6>2. n \in {1, 2}
            BY <4>2, <6>1
          <6> QED BY <2>1, <6>1, <6>2 DEF Born, TypeOK
        <5> QED BY <5>1, <5>2, <5>3
      <4> QED BY <2>1, <4>1, <4>2, StepKeeps DEF CodesKeepSeeds
    <3>2. Kept(Newborn)
      <4> DEFINE l == lumi'[Newborn]
      <4>1. PICK fresh \in Drawn :
               \/ l = fresh /\ parents'[Newborn] = <<>>
               \/ \E i, j \in Born : Child(l, fresh, i, j) /\ parents'[Newborn] = <<i, j>>
        BY <2>1, NewbornIs
      <4>2. /\ fresh \in Lumi /\ fresh.seedCode = encodeSeedCode(fresh.seed)
            /\ fresh.lineage = <<>>
        BY <2>1, DrawnType DEF Grown
      <4>3. fresh.seed \in Seed /\ \A k \in Born : lumi[k].seed \in Seed
        <5>1. \A k \in Born : lumi[k] \in Lumi
          BY <2>1 DEF TypeOK, Born
        <5> QED BY <4>2, <5>1 DEF Lumi
      <4>4. CASE l = fresh /\ parents'[Newborn] = <<>>
        BY <4>2, <4>3, <4>4, CodesAreExact
      <4>5. ASSUME NEW i \in Born, NEW j \in Born, Child(l, fresh, i, j),
                   parents'[Newborn] = <<i, j>>
            PROVE  Kept(Newborn)
        <5>1. /\ l.seed = fresh.seed /\ l.seedCode = encodeSeedCode(l.seed)
              /\ l.lineage = <<encodeSeedCode(lumi[i].seed), encodeSeedCode(lumi[j].seed)>>
          BY <2>1, <4>5, ChildIs
        <5>2. Exact(l.seed, l.seedCode)
          BY <4>3, <5>1, CodesAreExact
        <5>3. lumi'[i].seed = lumi[i].seed /\ lumi'[j].seed = lumi[j].seed
          BY <2>1, StepKeeps
        <5>4. /\ decodeSeedCode(l.lineage[1]) = lumi'[i].seed
              /\ decodeSeedCode(l.lineage[2]) = lumi'[j].seed
          <6>1. /\ decodeSeedCode(encodeSeedCode(lumi[i].seed)) = lumi[i].seed
                /\ decodeSeedCode(encodeSeedCode(lumi[j].seed)) = lumi[j].seed
            BY <4>3, CodesAreExact
          <6> QED BY <5>1, <5>3, <6>1
        <5>5. Len(l.lineage) = 2 /\ Len(parents'[Newborn]) = 2
          BY <4>5, <5>1
        <5>6. ASSUME NEW n \in 1..2
              PROVE  decodeSeedCode(l.lineage[n]) = lumi'[parents'[Newborn][n]].seed
          BY <4>5, <5>4, <5>6
        <5> QED BY <5>2, <5>5, <5>6
      <4> QED BY <4>1, <4>4, <4>5
    <3> QED BY <2>1, <3>1, <3>2, StepKeeps DEF CodesKeepSeeds
  <2>2. CASE UNCHANGED vars
    BY <2>2 DEF CodesKeepSeeds, Born, vars
  <2> QED BY <2>1, <2>2, StepGrows
<1> QED BY <1>1, <1>2, GenomeTypeCorrect, PTL DEF Spec

=============================================================================
