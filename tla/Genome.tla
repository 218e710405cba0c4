------------------------------- MODULE Genome -------------------------------
(***************************************************************************)
(* Lumi over generations: what generateLumi draws from a seed, and what    *)
(* breedLumi lays over such a drawing.  A bred Lumi is first generated     *)
(* from its own seed; then form, rarity and mutations are taken from the   *)
(* parents, and some of what was derived from the drawing is derived anew. *)
(*                                                                         *)
(* What Rng draws from a seed is a choice.  Elements are drawn, inherited  *)
(* and named in the species as forms are, and are left out, as are the     *)
(* traits that nothing depends on: name, pattern, temperament and size.    *)
(***************************************************************************)
EXTENDS Integers, Sequences

CONSTANTS
    Top,         \* index of the last of the RARITIES
    Glow,        \* RARITIES[k].glow, in hundredths
    Form,        \* ids of the FORMS
    Mutation,    \* ids of the MUTATIONS
    minRarity,   \* the rarity a mutation asks for, 0 for none
    Aurora,      \* the mutation that glows
    Redrawn,     \* the mutations whose picture breedLumi draws anew
    Base,        \* digits of a seed code
    Seeds,       \* how many seeds there are
    seedOf,      \* the seeds of the Lumi, in the order of their birth
    Births       \* bound: how many Lumi are born

Rank == 0..Top
Seed == 0..(Seeds - 1)

\* Seven digits hold every seed.
ASSUME GenomeAssumption ==
    /\ Top \in Nat /\ Glow \in [Rank -> Nat]
    /\ minRarity \in [Mutation -> Rank]
    /\ Aurora \in Mutation /\ Redrawn \subseteq Mutation
    /\ Base \in Nat \ {0} /\ Seeds \in Nat \ {0}
    /\ Seeds <= Base * (Base * (Base * (Base * (Base * (Base * Base)))))
    /\ Births \in Nat /\ seedOf \in [1..Births -> Seed]

VARIABLES
    lumi,      \* the genomes, in the order of birth
    parents,   \* history: the two parents of a bred Lumi
    line       \* history: a Lumi and all it descends from

vars == <<lumi, parents, line>>

-----------------------------------------------------------------------------
(***************************************************************************)
(* Seed codes.                                                             *)
(***************************************************************************)
toUint32(n) == n % Seeds

rest(n) == n \div Base

\* Mutant of the next: a code of six digits.
encodeSixDigits(seed) ==
    LET n1 == rest(seed) n2 == rest(n1) n3 == rest(n2) n4 == rest(n3) n5 == rest(n4)
    IN  <<0, n5 % Base, n4 % Base, n3 % Base, n2 % Base, n1 % Base, seed % Base>>

\* The lowest digit is the last one.
encodeSeedCode(seed) ==
    LET n1 == rest(seed) n2 == rest(n1) n3 == rest(n2)
        n4 == rest(n3) n5 == rest(n4) n6 == rest(n5)
    IN  <<n6 % Base, n5 % Base, n4 % Base, n3 % Base, n2 % Base, n1 % Base, seed % Base>>

\* Seven digits and more make a code; the first seven count.
decodable(code) == Len(code) >= 7 /\ \A i \in 1..7 : code[i] \in 0..(Base - 1)

decodeSeedCode(code) ==
    LET n4 == ((code[1] * Base + code[2]) * Base + code[3]) * Base + code[4]
    IN  toUint32(((n4 * Base + code[5]) * Base + code[6]) * Base + code[7])

-----------------------------------------------------------------------------
(***************************************************************************)
(* generateLumi and breedLumi.                                             *)
(***************************************************************************)
Code == [1..7 -> 0..(Base - 1)]

\* tier is the rarity whose statMul went into the stats and the power.  The picture
\* has extras, the mutations it shows, and the glow of the aura.
Lumi == [seed : Seed, seedCode : Code, rarity : Rank, tier : Rank,
         form : Form, species : Form,
         mutations : SUBSET Mutation, render : [extras : SUBSET Mutation, aura : Nat],
         glow : Nat, lineage : {<<>>} \cup (Code \X Code)]

\* Mutant of the next: the gate opens one tier early.
rollableEarly(rarity) == {m \in Mutation : minRarity[m] <= rarity + 1}

\* The mutations that rollMutations gives a chance.
rollable(rarity) == {m \in Mutation : minRarity[m] <= rarity}

glowOf(rarity, mutations) == Glow[rarity] + (IF Aurora \in mutations THEN 20 ELSE 0)

\* The rest of the picture depends on the form and on what is drawn for it.
buildRenderSpec(rarity, mutations) == [extras |-> mutations, aura |-> Glow[rarity]]

generateLumi(seed, rarity, form, mutations) ==
    [seed |-> seed, seedCode |-> encodeSeedCode(seed),
     rarity |-> rarity, tier |-> rarity,
     form |-> form, species |-> form,
     mutations |-> mutations, render |-> buildRenderSpec(rarity, mutations),
     glow |-> glowOf(rarity, mutations),
     lineage |-> <<>>]

\* The better parent's rarity, or one up, or one down.
inheritRarity(a, b) ==
    LET hi == IF a.rarity >= b.rarity THEN a.rarity ELSE b.rarity
    IN  {r \in Rank : r \in (hi - 1)..(hi + 1)}

\* Mutant of the next: the glow stays that of the drawing.
recomputedDim(c) ==
    [c EXCEPT !.species = c.form,
              !.render.aura = Glow[c.rarity],
              !.render.extras = (@ \ Redrawn) \cup (c.mutations \cap Redrawn)]

\* The derived fields that breedLumi computes again.  The other
\* extras, the body, the palette and the stats stay those of the drawing.
recomputed(c) ==
    [c EXCEPT !.species = c.form,
              !.glow = glowOf(c.rarity, c.mutations),
              !.render.aura = Glow[c.rarity],
              !.render.extras = (@ \ Redrawn) \cup (c.mutations \cap Redrawn)]

breedLumi(a, b, fresh, form, rarity, heritable) ==
    recomputed([fresh EXCEPT !.form = form, !.rarity = rarity,
                             !.mutations = @ \cup heritable,
                             !.lineage = <<encodeSeedCode(a.seed), encodeSeedCode(b.seed)>>])

Born == 1..Len(lumi)
Newborn == Len(lumi) + 1

\* A Lumi has no parents or two, and descends from those born before.
TypeOK ==
    /\ lumi \in Seq(Lumi)
    /\ parents \in Seq({<<>>} \cup (Nat \X Nat)) /\ Len(parents) = Len(lumi)
    /\ line \in Seq(SUBSET Nat) /\ Len(line) = Len(lumi)
    /\ \A i \in Born :
          /\ parents[i] = <<>> \/ parents[i] \in (1..(i - 1)) \X (1..(i - 1))
          /\ i \in line[i] /\ line[i] \subseteq 1..i

-----------------------------------------------------------------------------
Init == lumi = <<>> /\ parents = <<>> /\ line = <<>>

\* What generateLumi may draw for the next Lumi.
Drawn == {generateLumi(seedOf[Newborn], t.rarity, t.form, t.mutations) :
            t \in {d \in [rarity : Rank, form : Form, mutations : SUBSET Mutation] :
                     d.mutations \subseteq rollable(d.rarity)}}

\* A harvest, or one of a new player's starters.  Floors only rule draws out.
Hatch ==
    /\ Len(lumi) < Births
    /\ \E fresh \in Drawn : lumi' = Append(lumi, fresh)
    /\ parents' = Append(parents, <<>>)
    /\ line' = Append(line, {Newborn})

\* POST breed: the parents are two, and keep what they are.
Breed(i, j) ==
    /\ Len(lumi) < Births
    /\ i # j
    /\ \E fresh \in Drawn, rarity \in inheritRarity(lumi[i], lumi[j]),
          heritable \in SUBSET (lumi[i].mutations \cup lumi[j].mutations) :
          \E form \in {lumi[i].form, lumi[j].form, fresh.form} :
             lumi' = Append(lumi, breedLumi(lumi[i], lumi[j], fresh, form, rarity, heritable))
    /\ parents' = Append(parents, <<i, j>>)
    /\ line' = Append(line, {Newborn} \cup line[i] \cup line[j])

Next == Hatch \/ \E i, j \in Born : Breed(i, j)

Spec == Init /\ [][Next]_vars

-----------------------------------------------------------------------------
(***************************************************************************)
(* Properties.                                                             *)
(***************************************************************************)

\* A code, a Lumi's own or those of its lineage, is one decodeSeedCode takes,
\* and gives back the seed of the Lumi or of the parent it stands for.
CodesKeepSeeds ==
    \A i \in Born :
        /\ decodable(lumi[i].seedCode) /\ decodeSeedCode(lumi[i].seedCode) = lumi[i].seed
        /\ Len(lumi[i].lineage) = Len(parents[i])
        /\ \A k \in 1..Len(parents[i]) :
              decodeSeedCode(lumi[i].lineage[k]) = lumi[parents[i][k]].seed

\* Rarity may slip below what a mutation asks for, and a common Lumi wear a
\* halo.  But somewhere in its line a drawing of that rarity gave it.
TrophiesHaveOrigin ==
    \A i \in Born : \A m \in lumi[i].mutations :
        \E j \in line[i] : lumi[j].tier >= minRarity[m] /\ m \in lumi[j].mutations

\* However often form, rarity and mutations were handed down, the species names
\* the form, the glow is that of the rarity, the picture has a mutation only if
\* the Lumi does, and has all those that are drawn anew.
LooksFollow ==
    \A i \in Born :
        LET l == lumi[i]
        IN  /\ l.species = l.form
            /\ l.glow = glowOf(l.rarity, l.mutations) /\ l.render.aura = Glow[l.rarity]
            /\ l.render.extras \subseteq l.mutations
            /\ l.mutations \cap Redrawn \subseteq l.render.extras

=============================================================================
