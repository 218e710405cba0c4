------------------------------ MODULE Handlers ------------------------------
(***************************************************************************)
(* What the POST handlers of server/api.js do to the player objects they   *)
(* have loaded, between two awaits: trading (core/trade.js), the garden    *)
(* (core/garden.js), breeding, visits, locks and purchases.  Every handler *)
(* is a condition under which it does not throw and the objects it leaves. *)
(*                                                                         *)
(* A player object is a record: the wallet, the ledger entries of this     *)
(* request, the neighbours visited today, the plot (a garden is one plot   *)
(* here), the Lumi of the collection and those of them that are locked.    *)
(***************************************************************************)
EXTENDS Economy, FiniteSets

CONSTANTS
    Player, Lumi, Planting,
    NoPlanting,           \* the `null` of plot.planting
    TaxBase, TaxPerLumi,  \* TRADE_TAX
    VisitReward, VisitCap,
    SeedCost, RitualCost, \* a catalogue price in petals, the ritual's in lumen
    PackLumen             \* the lumen of the product that is sold

ASSUME HandlersAssumption ==
    /\ {TaxBase, TaxPerLumi, VisitReward, VisitCap, SeedCost, RitualCost,
        PackLumen} \subseteq Nat
    /\ NoPlanting \notin Planting
    /\ IsFiniteSet(Player) /\ IsFiniteSet(Lumi)

PlayerObject == [wallet : Balance, ledger : Sums, visits : SUBSET Player,
                 plot : Planting \cup {NoPlanting},
                 lumi : SUBSET Lumi, locked : SUBSET Lumi]

Offer == [offerLumi : SUBSET Lumi, offerPetals : Nat, requestLumi : SUBSET Lumi]

(***************************************************************************)
(* core/trade.js                                                           *)
(***************************************************************************)
tradeTax(t) ==
    TaxBase + TaxPerLumi * (Cardinality(t.offerLumi) + Cardinality(t.requestLumi))

\* Mutants of the next two: the tax is forgotten in the solvency check; locked
\* Lumi may be traded.
validateTradeUntaxed(from, to, t) ==
    /\ t.offerLumi # {} \/ t.requestLumi # {} \/ t.offerPetals > 0
    /\ t.offerLumi \subseteq from.lumi \ from.locked
    /\ t.requestLumi \subseteq to.lumi \ to.locked
    /\ from.wallet["petals"] >= t.offerPetals

validateTradeUnlocked(from, to, t) ==
    /\ t.offerLumi # {} \/ t.requestLumi # {} \/ t.offerPetals > 0
    /\ t.offerLumi \subseteq from.lumi
    /\ t.requestLumi \subseteq to.lumi
    /\ from.wallet["petals"] >= t.offerPetals + tradeTax(t)

\* The objects of two different players: the initiator's and the counterparty's.
validateTrade(from, to, t) ==
    /\ t.offerLumi # {} \/ t.requestLumi # {} \/ t.offerPetals > 0
    /\ t.offerLumi \subseteq from.lumi \ from.locked
    /\ t.requestLumi \subseteq to.lumi \ to.locked
    /\ from.wallet["petals"] >= t.offerPetals + tradeTax(t)

\* The initiator's side: the tax is burned, the offered petals are debited.
tradeFrom(from, t) ==
    [pay(from, Petals(tradeTax(t) + t.offerPetals)) EXCEPT
       !.lumi = (from.lumi \ t.offerLumi) \cup t.requestLumi]

\* Mutants of the counterparty's side: no ledger entry; the Lumi not handed over.
tradeToUnrecorded(to, t) ==
    [to EXCEPT
       !.wallet["petals"] = @ + t.offerPetals,
       !.lumi = (to.lumi \ t.requestLumi) \cup t.offerLumi]

tradeToEmptyHanded(to, t) ==
    [to EXCEPT
       !.wallet["petals"] = @ + t.offerPetals,
       !.ledger["petals"] = @ + t.offerPetals,
       !.lumi = to.lumi \ t.requestLumi]

\* The counterparty's side: the petals are added to the balance directly, not
\* through `credit`, so that no cap applies to them.
tradeTo(to, t) ==
    [to EXCEPT
       !.wallet["petals"] = @ + t.offerPetals,
       !.ledger["petals"] = @ + t.offerPetals,
       !.lumi = (to.lumi \ t.requestLumi) \cup t.offerLumi]

(***************************************************************************)
(* core/garden.js: plant and harvest, with the debit and the addLumi that  *)
(* the handlers of api.js wrap around them.                                *)
(***************************************************************************)
canPlant(p) == p.plot = NoPlanting /\ canPay(p, Petals(SeedCost))

plant(p, planting) == [pay(p, Petals(SeedCost)) EXCEPT !.plot = planting]

canHarvest(p) == p.plot # NoPlanting

addLumi(p, l) == [p EXCEPT !.lumi = @ \cup {l}]

\* Mutant: the plot keeps its planting.
harvestKept(p, l) == addLumi(p, l)

harvest(p, l) == [addLumi(p, l) EXCEPT !.plot = NoPlanting]

(***************************************************************************)
(* server/api.js: the remaining handlers.                                  *)
(***************************************************************************)
canBreed(p) ==
    /\ \E a, b \in p.lumi : a # b
    /\ canPay(p, Lumen(RitualCost))

breed(p, l) == addLumi(pay(p, Lumen(RitualCost)), l)

rewardedVisit(p, target) ==
    target \notin p.visits /\ Cardinality(p.visits) < VisitCap

\* Mutant of the next: the visit is not entered in the log.
visitUnlogged(p, target) ==
    IF rewardedVisit(p, target) THEN grant(p, Petals(VisitReward)) ELSE p

visit(p, target) ==
    IF rewardedVisit(p, target)
    THEN [grant(p, Petals(VisitReward)) EXCEPT !.visits = @ \cup {target}]
    ELSE p

canLock(p, l) == l \in p.lumi

lock(p, l, on) ==
    [p EXCEPT !.locked = IF on THEN @ \cup {l} ELSE @ \ {l}]

grantProduct(p) == grant(p, Lumen(PackLumen))

=============================================================================
