---------------------------- MODULE PgStoreProofs ---------------------------
(***************************************************************************)
(* Theorems about PgStore, for every value of its constants.               *)
(*                                                                         *)
(* The first part holds whatever clients send at the same time: the types, *)
(* the grants of purchases, the closing of trades.                         *)
(*                                                                         *)
(* The second part holds when requests in flight touch different players   *)
(* (Workload = "isolated"): the balances agree with the ledger, visits pay *)
(* once, Lumi are neither lost nor hatched twice, a trade's status tells   *)
(* whether it was executed, and the tables change as the serial game of    *)
(* module Game does.  All of it rests on one inductive invariant, IsoInv:  *)
(* the copies of a request in flight are the committed rows, up to what    *)
(* its own handler has done to them.                                       *)
(***************************************************************************)
EXTENDS PgGame, FiniteSums

(***************************************************************************)
(* Facts about the operators of Economy and Handlers: what they return.    *)
(***************************************************************************)
LEMMA AmountType ==
    ASSUME NEW n \in Nat
    PROVE  Petals(n) \in Balance /\ Lumen(n) \in Balance
BY DEF Petals, Lumen, Balance, Currency

LEMMA NoEntriesType == NoEntries \in Balance /\ NoEntries \in Sums
BY DEF NoEntries, Balance, Sums, Currency

LEMMA HardCapType == HardCap \in [Currency -> Nat]
BY CapAssumption DEF HardCap

LEMMA CostType ==
    /\ TaxBase \in Nat /\ TaxPerLumi \in Nat /\ VisitReward \in Nat
    /\ SeedCost \in Nat /\ RitualCost \in Nat /\ PackLumen \in Nat
BY HandlersAssumption

\* pay, once canPay holds, leaves a player object: no balance goes below zero.
LEMMA PayType ==
    ASSUME NEW p \in PlayerObject, NEW cost \in Balance, canPay(p, cost)
    PROVE  pay(p, cost) \in PlayerObject
<1>1. \A c \in Currency : p.wallet[c] - cost[c] \in Nat
  BY DEF PlayerObject, Balance, canPay
<1>2. [c \in Currency |-> p.wallet[c] - cost[c]] \in Balance
  BY <1>1 DEF Balance
<1>3. [c \in Currency |-> p.ledger[c] - cost[c]] \in Sums
  BY DEF PlayerObject, Balance, Sums
<1> QED
  BY <1>2, <1>3 DEF pay, PlayerObject

\* A credit ends within the cap, whatever it started from.
LEMMA AppliedType ==
    ASSUME NEW wallet \in Balance, NEW c \in Currency, NEW n \in Nat
    PROVE  /\ applied(wallet, c, n) \in Int
           /\ wallet[c] + applied(wallet, c, n) \in Nat
           /\ wallet[c] + applied(wallet, c, n) <= HardCap[c]
BY HardCapType DEF Balance, applied, Lesser

LEMMA GrantType ==
    ASSUME NEW p \in PlayerObject, NEW reward \in Balance
    PROVE  grant(p, reward) \in PlayerObject
<1> DEFINE given == [c \in Currency |-> IF reward[c] = 0 THEN 0
                                        ELSE applied(p.wallet, c, reward[c])]
<1>1. p.wallet \in Balance /\ p.ledger \in Sums
  BY DEF PlayerObject
<1>2. \A c \in Currency : given[c] \in Int /\ p.wallet[c] + given[c] \in Nat
  BY <1>1, AppliedType DEF Balance
<1>3. [c \in Currency |-> p.wallet[c] + given[c]] \in Balance
  BY <1>2 DEF Balance
<1>4. [c \in Currency |-> p.ledger[c] + given[c]] \in Sums
  BY <1>1, <1>2 DEF Sums
<1> HIDE DEF given
<1>5. [p EXCEPT !.wallet = [c \in Currency |-> p.wallet[c] + given[c]],
                !.ledger = [c \in Currency |-> p.ledger[c] + given[c]]]
        \in PlayerObject
  BY <1>3, <1>4 DEF PlayerObject
<1> QED
  BY <1>5 DEF grant, given

LEMMA TaxType ==
    ASSUME NEW t \in Offer
    PROVE  tradeTax(t) \in Nat
<1>1. t.offerLumi \subseteq Lumi /\ t.requestLumi \subseteq Lumi
  BY DEF Offer
<1>2. IsFiniteSet(t.offerLumi) /\ IsFiniteSet(t.requestLumi)
  BY <1>1, FS_Subset, HandlersAssumption
<1>3. Cardinality(t.offerLumi) \in Nat /\ Cardinality(t.requestLumi) \in Nat
  BY <1>2, FS_CardinalityType
<1> QED
  BY <1>3, CostType DEF tradeTax

LEMMA TradeFromType ==
    ASSUME NEW from \in PlayerObject, NEW to \in PlayerObject, NEW t \in Offer,
           validateTrade(from, to, t)
    PROVE  tradeFrom(from, t) \in PlayerObject
<1>1. tradeTax(t) + t.offerPetals \in Nat
  BY TaxType DEF Offer
<1>2. Petals(tradeTax(t) + t.offerPetals) \in Balance
  BY <1>1, AmountType
<1>3. canPay(from, Petals(tradeTax(t) + t.offerPetals))
  BY <1>1, TaxType DEF validateTrade, canPay, Petals, Currency, PlayerObject,
                       Balance, Offer
<1>4. pay(from, Petals(tradeTax(t) + t.offerPetals)) \in PlayerObject
  BY <1>2, <1>3, PayType
<1>5. (from.lumi \ t.offerLumi) \cup t.requestLumi \subseteq Lumi
  BY DEF PlayerObject, Offer
<1> QED
  BY <1>4, <1>5 DEF tradeFrom, PlayerObject

LEMMA TradeToType ==
    ASSUME NEW to \in PlayerObject, NEW t \in Offer
    PROVE  tradeTo(to, t) \in PlayerObject
<1>1. [to.wallet EXCEPT !["petals"] = @ + t.offerPetals] \in Balance
  BY DEF PlayerObject, Balance, Offer, Currency
<1>2. [to.ledger EXCEPT !["petals"] = @ + t.offerPetals] \in Sums
  BY DEF PlayerObject, Sums, Offer, Currency
<1>3. (to.lumi \ t.requestLumi) \cup t.offerLumi \subseteq Lumi
  BY DEF PlayerObject, Offer
<1> QED
  BY <1>1, <1>2, <1>3 DEF tradeTo, PlayerObject

LEMMA PlantType ==
    ASSUME NEW p \in PlayerObject, NEW planting \in Planting, canPlant(p)
    PROVE  plant(p, planting) \in PlayerObject
<1>1. pay(p, Petals(SeedCost)) \in PlayerObject
  BY PayType, AmountType, CostType DEF canPlant
<1> QED
  BY <1>1 DEF plant, PlayerObject

LEMMA HarvestType ==
    ASSUME NEW p \in PlayerObject, NEW l \in Lumi
    PROVE  harvest(p, l) \in PlayerObject
BY DEF harvest, addLumi, PlayerObject

LEMMA BreedType ==
    ASSUME NEW p \in PlayerObject, NEW l \in Lumi, canBreed(p)
    PROVE  breed(p, l) \in PlayerObject
<1>1. pay(p, Lumen(RitualCost)) \in PlayerObject
  BY PayType, AmountType, CostType DEF canBreed
<1> QED
  BY <1>1 DEF breed, addLumi, PlayerObject

LEMMA VisitType ==
    ASSUME NEW p \in PlayerObject, NEW q \in Player
    PROVE  visit(p, q) \in PlayerObject
<1>1. grant(p, Petals(VisitReward)) \in PlayerObject
  BY GrantType, AmountType, CostType
<1> QED
  BY <1>1 DEF visit, PlayerObject

LEMMA LockType ==
    ASSUME NEW p \in PlayerObject, NEW l \in Lumi, NEW on \in BOOLEAN
    PROVE  lock(p, l, on) \in PlayerObject
BY DEF lock, PlayerObject

LEMMA ProductType ==
    ASSUME NEW p \in PlayerObject
    PROVE  grantProduct(p) \in PlayerObject
BY GrantType, AmountType, CostType DEF grantProduct

(***************************************************************************)
(* The type invariant is not inductive as it stands: what a handler reads  *)
(* from its copies has the right type only because its request hydrated    *)
(* them first.  WellFormed is what a request's program counter promises.   *)
(***************************************************************************)
Answers(r) == job[r].op \in {"accept", "cancel"}

Kept(r) ==
    /\ pc[r] # "idle" => job[r].who \in Player /\ at[r] \in Player
    /\ Answers(r) => job[r].trade \in Trade /\ trades[job[r].trade] # NoRow
    /\ pc[r] = "trades" => Answers(r)
    /\ job[r].op = "accept" /\ job[r].other # NoPlayer => trd[r] # NoRow
    /\ job[r].op = "accept" /\ pc[r] = "run" => job[r].other # NoPlayer
    /\ job[r].op = "cancel" => job[r].other = NoPlayer
    /\ job[r].op = "cancel" /\ pc[r] = "run" => trd[r] # NoRow
    /\ job[r].op \in {"visit", "create"} => job[r].other # NoPlayer
    /\ pc[r] = "claim" => job[r].op = "redeem"
    /\ job[r].op = "redeem" => job[r].tx \in Tx

WellFormed == \A r \in Req : Kept(r)

TypeInv == TypeOK /\ WellFormed

USE DEF Job, NoJob, Routes, TradeRoutes, Stages

LEMMA BlankType == Blank \in PlayerObject
BY NoEntriesType DEF Blank, PlayerObject

LEMMA NoOfferType == NoOffer \in Offer
BY DEF NoOffer, Offer

LEMMA NoJobType == NoJob \in Job
BY NoOfferType

\* A copy of the right type put into the identity map keeps its type.
LEMMA CtxType ==
    ASSUME ctx \in [Req -> [Player -> PlayerObject]],
           NEW r \in Req, NEW p, NEW copy,
           p \in Player => copy \in PlayerObject
    PROVE  [ctx EXCEPT ![r][p] = copy] \in [Req -> [Player -> PlayerObject]]
OBVIOUS

LEMMA ResolveType ==
    ASSUME NEW row \in TradeRow, NEW status \in {"open", "accepted", "cancelled"}
    PROVE  resolve(row, status) \in TradeRow /\ resolve(row, status) # NoRow
<1>1. resolve(row, status) \in TradeRow
  BY DEF resolve, TradeRow
<1> QED
  BY <1>1, PgStoreAssumption

\* What arrives is a job that a client can send.
Sendable(j) ==
    /\ j \in Job
    /\ j.op \in Routes
    /\ j.who \in Player /\ j.who # j.other
    /\ j.op \notin {"visit", "create"} => j.other = NoPlayer
    /\ j.op \in {"accept", "cancel"} =>
         j.other = NoPlayer /\ j.trade \in Trade /\ trades[j.trade] # NoRow
    /\ j.op \notin {"accept", "cancel"} => j.trade = NoTrade
    /\ j.op \in {"visit", "create"} => j.other # NoPlayer
    /\ j.op = "create" => j.offer \in Offers
    /\ j.op = "redeem" => j.tx \in Tx

LEMMA ArriveSubmits ==
    ASSUME NEW r \in Req, Arrive(r)
    PROVE  \E j : Sendable(j) /\ Submit(r, j)
<1>1. PICK o \in Ops, p \in Player :
        \/ /\ o \in {"plant", "harvest", "breed"}
           /\ Submit(r, [NoJob EXCEPT !.op = o, !.who = p])
        \/ /\ o = "visit"
           /\ \E q \in Player \ {p} :
                Submit(r, [NoJob EXCEPT !.op = o, !.who = p, !.other = q])
        \/ /\ o \in {"lock", "unlock"}
           /\ \E l \in Lumi :
                Submit(r, [NoJob EXCEPT !.op = o, !.who = p, !.lumi = l])
        \/ /\ o = "redeem"
           /\ \E x \in Tx :
                Submit(r, [NoJob EXCEPT !.op = o, !.who = p, !.tx = x])
        \/ /\ o = "create"
           /\ Cardinality(Created) < Cardinality(Trade)
           /\ \E q \in Player \ {p}, f \in Offers :
                Submit(r, [NoJob EXCEPT !.op = o, !.who = p, !.other = q,
                                        !.offer = f])
        \/ /\ o \in {"accept", "cancel"}
           /\ \E t \in Trade :
                /\ trades[t] # NoRow
                /\ Submit(r, [NoJob EXCEPT !.op = o, !.who = p, !.trade = t])
  BY DEF Arrive
<1> DEFINE Alone(w)     == [NoJob EXCEPT !.op = o, !.who = w]
           Visits(q)    == [NoJob EXCEPT !.op = o, !.who = p, !.other = q]
           Locks(l)     == [NoJob EXCEPT !.op = o, !.who = p, !.lumi = l]
           Redeems(x)   == [NoJob EXCEPT !.op = o, !.who = p, !.tx = x]
           Creates(q,f) == [NoJob EXCEPT !.op = o, !.who = p, !.other = q,
                                         !.offer = f]
           Settles(t)   == [NoJob EXCEPT !.op = o, !.who = p, !.trade = t]
<1>2. /\ o \in Routes /\ NoOffer \in Offer /\ Offers \subseteq Offer
      /\ NoPlayer \notin Player
  BY PgStoreAssumption, NoOfferType
<1>3. o \in {"plant", "harvest", "breed"} => Sendable(Alone(p))
  BY <1>2 DEF Sendable
<1>4. o = "visit" => \A q \in Player \ {p} : Sendable(Visits(q))
  BY <1>2 DEF Sendable
<1>5. o \in {"lock", "unlock"} => \A l \in Lumi : Sendable(Locks(l))
  BY <1>2 DEF Sendable
<1>6. o = "redeem" => \A x \in Tx : Sendable(Redeems(x))
  BY <1>2 DEF Sendable
<1>7. o = "create" =>
        \A q \in Player \ {p}, f \in Offers : Sendable(Creates(q, f))
  <2> SUFFICES ASSUME o = "create", NEW q \in Player \ {p}, NEW f \in Offers
               PROVE  Sendable(Creates(q, f))
    OBVIOUS
  <2>1. Creates(q, f) \in Job /\ Creates(q, f).op = "create"
    BY <1>2
  <2>2. /\ Creates(q, f).who = p /\ Creates(q, f).other = q
        /\ Creates(q, f).trade = NoTrade /\ Creates(q, f).offer = f
    OBVIOUS
  <2> HIDE DEF Creates, Job
  <2> QED
    BY <1>2, <2>1, <2>2 DEF Sendable
<1>8. o \in {"accept", "cancel"} =>
        \A t \in Trade : trades[t] # NoRow => Sendable(Settles(t))
  BY <1>2 DEF Sendable
<1> HIDE DEF NoJob
<1> QED
  BY <1>1, <1>3, <1>4, <1>5, <1>6, <1>7, <1>8, Zenon

LEMMA InitTypeInv == Init => TypeInv
<1> SUFFICES ASSUME Init PROVE TypeInv
  OBVIOUS
<1>1. TypeOK
  BY PgStoreAssumption, BlankType, NoJobType, NoEntriesType
     DEF Init, TypeOK, Unminted, Bred
<1>2. WellFormed
  BY DEF Init, WellFormed, Kept, Answers
<1> QED
  BY <1>1, <1>2 DEF TypeInv

(***************************************************************************)
(* Each action preserves the type invariant.                               *)
(***************************************************************************)
LEMMA ArriveType ==
    ASSUME TypeInv, NEW r \in Req, Arrive(r)
    PROVE  TypeInv'
<1>1. PICK j : Sendable(j) /\ Submit(r, j)
  BY ArriveSubmits
<1>2. TypeOK'
  BY <1>1, PgStoreAssumption
     DEF TypeInv, TypeOK, Submit, Sendable, tables
<1>3. WellFormed'
  BY <1>1 DEF TypeInv, TypeOK, WellFormed, Kept, Answers, Submit, Sendable, tables
<1> QED
  BY <1>2, <1>3 DEF TypeInv

\* A query of getPlayer that leaves the request with a player to read next.
LEMMA ReadType ==
    ASSUME TypeInv, NEW r \in Req, NEW table, NEW next \in Stages, NEW copy,
           Read(r, table, next, copy), table # "idle", next # "idle",
           copy \in PlayerObject,
           next = "run" => job[r].op # "cancel",
           next = "run" /\ job[r].op = "accept" => job[r].other # NoPlayer,
           next = "trades" => Answers(r),
           next = "claim" => job[r].op = "redeem",
           \/ at' = at
           \/ \E p \in Player : at' = [at EXCEPT ![r] = p]
    PROVE  TypeInv'
<1>1. ctx' \in [Req -> [Player -> PlayerObject]]
  <2> HIDE DEF Stages, Job
  <2> QED
    BY CtxType DEF TypeInv, TypeOK, Read
<1>2. TypeOK'
  <2> HIDE DEF Stages, Job
  <2>1. at' \in [Req -> Player \cup {NoPlayer}]
    BY DEF TypeInv, TypeOK
  <2>2. pc' \in [Req -> Stages]
    BY DEF TypeInv, TypeOK, Read
  <2> QED
    BY <1>1, <2>1, <2>2 DEF TypeInv, TypeOK, Read, tables, history
<1>3. WellFormed'
  BY DEF TypeInv, TypeOK, WellFormed, Kept, Answers, Read, tables
<1> QED
  BY <1>2, <1>3 DEF TypeInv

LEMMA QueriesType ==
    ASSUME TypeInv, NEW r \in Req,
           ReadPlayers(r) \/ ReadWallets(r) \/ ReadGardens(r) \/ ReadLumi(r)
    PROVE  TypeInv'
<1> DEFINE old == ctx[r][at[r]]
           visitsRead == [old EXCEPT !.visits = visitLog[at[r]]]
           walletRead == [old EXCEPT !.wallet = wallets[at[r]]]
           plotRead   == [old EXCEPT !.plot = plots[at[r]]]
           lumiRead   == [old EXCEPT !.lumi = Rows(at[r]),
                                     !.locked = Rows(at[r]) \cap locked]
<1>1. at[r] \in Player /\ old \in PlayerObject
  BY DEF TypeInv, TypeOK, WellFormed, Kept, Read, ReadPlayers, ReadWallets,
         ReadGardens, ReadLumi
<1>2. /\ visitsRead \in PlayerObject /\ walletRead \in PlayerObject
      /\ plotRead \in PlayerObject /\ lumiRead \in PlayerObject
  BY <1>1 DEF TypeInv, TypeOK, PlayerObject, Rows
<1>3. CASE ReadPlayers(r)
  <2>1. Read(r, "players", "wallets", visitsRead) /\ at' = at
    BY <1>3 DEF ReadPlayers
  <2> HIDE DEF visitsRead
  <2> QED
    BY <1>2, <2>1, ReadType
<1>4. CASE ReadWallets(r)
  <2>1. Read(r, "wallets", "gardens", walletRead) /\ at' = at
    BY <1>4 DEF ReadWallets
  <2> HIDE DEF walletRead
  <2> QED
    BY <1>2, <2>1, ReadType
<1>5. CASE ReadGardens(r)
  <2>1. Read(r, "gardens", "lumi", plotRead) /\ at' = at
    BY <1>5 DEF ReadGardens
  <2> HIDE DEF plotRead
  <2> QED
    BY <1>2, <2>1, ReadType
<1>6. CASE ReadLumi(r)
  <2>1. Read(r, "lumi", NextAwait(r), lumiRead)
    BY <1>6 DEF ReadLumi
  <2>2. /\ NextAwait(r) \in Stages /\ NextAwait(r) # "idle"
        /\ NextAwait(r) = "run" => job[r].op # "cancel"
        /\ NextAwait(r) = "run" /\ job[r].op = "accept" => job[r].other # NoPlayer
        /\ NextAwait(r) = "trades" => Answers(r)
        /\ NextAwait(r) = "claim" => job[r].op = "redeem"
        /\ NextAwait(r) = "players" => job[r].other \in Player
    BY <1>1, PgStoreAssumption
       DEF NextAwait, TypeInv, TypeOK, WellFormed, Kept, Answers
  <2>3. at' = at \/ \E p \in Player : at' = [at EXCEPT ![r] = p]
    BY <1>6, <2>2 DEF ReadLumi
  <2> HIDE DEF lumiRead, Stages
  <2> QED
    BY <1>2, <2>1, <2>2, <2>3, ReadType
<1> QED
  BY <1>3, <1>4, <1>5, <1>6

LEMMA ReadTradeType ==
    ASSUME TypeInv, NEW r \in Req, ReadTrade(r)
    PROVE  TypeInv'
<1> DEFINE row == trades[job[r].trade]
<1>1. /\ row \in TradeRow /\ row # NoRow
      /\ row.from \in Player
      /\ pc[r] = "trades" /\ job[r] \in Job
  BY DEF TypeInv, TypeOK, WellFormed, Kept, Answers, ReadTrade, TradeRow
<1>2. \/ /\ job[r].op = "accept" /\ pc' = [pc EXCEPT ![r] = "players"]
         /\ at' = [at EXCEPT ![r] = row.from]
         /\ job' = [job EXCEPT ![r].other = row.from]
      \/ /\ job[r].op = "cancel" /\ pc' = [pc EXCEPT ![r] = "run"]
         /\ at' = at /\ job' = job
  BY DEF ReadTrade
<1>3. trd' = [trd EXCEPT ![r] = row]
  BY DEF ReadTrade
<1>4. TypeOK'
  <2>1. /\ job' \in [Req -> Job] /\ at' \in [Req -> Player \cup {NoPlayer}]
        /\ pc' \in [Req -> Stages]
    <3>1. [job[r] EXCEPT !.other = row.from] \in Job
      BY <1>1
    <3> HIDE DEF Job, Stages
    <3>2. job' \in [Req -> Job]
      BY <1>2, <3>1 DEF TypeInv, TypeOK
    <3> USE DEF Stages
    <3> QED
      BY <1>1, <1>2, <3>2 DEF TypeInv, TypeOK
  <2>2. trd' \in [Req -> TradeRow \cup {NoRow}]
    BY <1>1, <1>3 DEF TypeInv, TypeOK
  <2> HIDE DEF Job, Stages, row
  <2> QED
    BY <2>1, <2>2 DEF TypeInv, TypeOK, ReadTrade, tables, history
<1>5. WellFormed'
  <2> SUFFICES ASSUME NEW s \in Req
               PROVE  Kept(s)'
    BY DEF WellFormed
  <2>1. UNCHANGED trades /\ Kept(s) /\ pc \in [Req -> Stages]
        /\ job \in [Req -> Job] /\ at \in [Req -> Player \cup {NoPlayer}]
        /\ trd \in [Req -> TradeRow \cup {NoRow}]
    BY DEF TypeInv, TypeOK, WellFormed, ReadTrade, tables
  <2>2. CASE s = r /\ job[r].op = "accept"
    BY <1>1, <1>2, <1>3, <2>1, <2>2, PgStoreAssumption DEF Kept, Answers
  <2>3. CASE s = r /\ job[r].op = "cancel"
    BY <1>1, <1>2, <1>3, <2>1, <2>3 DEF Kept, Answers
  <2>4. CASE s # r
    BY <1>2, <1>3, <2>1, <2>4 DEF Kept, Answers
  <2> QED
    BY <1>2, <2>2, <2>3, <2>4
<1> QED
  BY <1>4, <1>5 DEF TypeInv

(***************************************************************************)
(* Every handler leaves copies of the right type in the identity map.      *)
(***************************************************************************)
LEMMA SelfType ==
    ASSUME TypeInv, NEW r \in Req, pc[r] # "idle"
    PROVE  /\ job[r].who \in Player /\ Self(r) \in PlayerObject
           /\ \A copy \in PlayerObject :
                SelfBecomes(r, copy) \in [Player -> PlayerObject]
BY DEF TypeInv, TypeOK, WellFormed, Kept, Self, SelfBecomes

LEMMA ReturnType ==
    ASSUME TypeInv, NEW r \in Req, NEW copies \in [Player -> PlayerObject],
           pc[r] # "idle", Return(r, copies),
           trd' \in [Req -> TradeRow \cup {NoRow}],
           job[r].op = "accept" /\ job[r].other # NoPlayer => trd'[r] # NoRow,
           \A s \in Req \ {r} : trd'[s] = trd[s],
           job' \in [Req -> Job],
           \A s \in Req \ {r} : job'[s] = job[s],
           \/ job' = job
           \/ /\ job[r].op = "create"
              /\ \E t \in Trade : job' = [job EXCEPT ![r].trade = t],
           seedOf' \in [Lumi -> Planting \cup {Bred, Unminted}],
           sown' \in SUBSET Planting,
           UNCHANGED grants
    PROVE  TypeInv'
<1>1. TypeOK'
  <2> HIDE DEF Job
  <2>1. at' \in [Req -> Player \cup {NoPlayer}]
    BY SelfType DEF TypeInv, TypeOK, Return
  <2>2. pc' \in [Req -> Stages]
    BY DEF TypeInv, TypeOK, Return
  <2>3. ctx' \in [Req -> [Player -> PlayerObject]]
    BY DEF TypeInv, TypeOK, Return
  <2> HIDE DEF Stages
  <2> QED
    BY <2>1, <2>2, <2>3 DEF TypeInv, TypeOK, Return, tables
<1>2. WellFormed'
  <2> SUFFICES ASSUME NEW s \in Req
               PROVE  Kept(s)'
    BY DEF WellFormed
  <2>3. /\ job'[r].who = job[r].who /\ job'[r].op = job[r].op
        /\ job'[r].other = job[r].other /\ job'[r].tx = job[r].tx
        /\ job'[r].trade = job[r].trade \/ job[r].op = "create"
    BY DEF TypeInv, TypeOK
  <2>1. CASE s = r
    BY <2>1, <2>3, SelfType
       DEF TypeInv, TypeOK, WellFormed, Kept, Answers, Return, tables
  <2>2. CASE s # r
    BY <2>2 DEF TypeInv, TypeOK, WellFormed, Kept, Answers, Return, tables
  <2> QED
    BY <2>1, <2>2
<1> QED
  BY <1>1, <1>2 DEF TypeInv

LEMMA HandlersType ==
    ASSUME TypeInv, NEW r \in Req,
           \/ HandlePlant(r)  \/ HandleHarvest(r) \/ HandleBreed(r)
           \/ HandleVisit(r)  \/ HandleLock(r)    \/ HandleCreate(r)
           \/ HandleAccept(r) \/ HandleCancel(r)
    PROVE  TypeInv'
<1>1. /\ pc[r] = "run" /\ job[r] \in Job
      /\ trd \in [Req -> TradeRow \cup {NoRow}] /\ job \in [Req -> Job]
      /\ seedOf \in [Lumi -> Planting \cup {Bred, Unminted}]
      /\ sown \in SUBSET Planting
      /\ job[r].op = "accept" /\ job[r].other # NoPlayer => trd[r] # NoRow
  BY DEF TypeInv, TypeOK, WellFormed, Kept, Handling, HandlePlant, HandleHarvest,
         HandleBreed, HandleVisit, HandleLock, HandleCreate, HandleAccept,
         HandleCancel
<1>2. /\ job[r].who \in Player /\ Self(r) \in PlayerObject
      /\ \A copy \in PlayerObject :
           SelfBecomes(r, copy) \in [Player -> PlayerObject]
      /\ ctx[r] \in [Player -> PlayerObject]
  BY <1>1, SelfType DEF TypeInv, TypeOK
<1> HIDE DEF Job
<1>3. ASSUME HandlePlant(r) PROVE TypeInv'
  <2>1. PICK planting \in Planting :
          /\ canPlant(Self(r)) /\ sown' = sown \cup {planting}
          /\ Return(r, SelfBecomes(r, plant(Self(r), planting)))
          /\ UNCHANGED <<job, trd, seedOf, grants>>
    BY <1>3 DEF HandlePlant
  <2>2. SelfBecomes(r, plant(Self(r), planting)) \in [Player -> PlayerObject]
    BY <1>2, <2>1, PlantType
  <2> QED
    BY <1>1, <2>1, <2>2, ReturnType
<1>4. ASSUME HandleHarvest(r) PROVE TypeInv'
  <2>1. PICK l \in Lumi :
          /\ canHarvest(Self(r))
          /\ seedOf' = [seedOf EXCEPT ![l] = Self(r).plot]
          /\ Return(r, SelfBecomes(r, harvest(Self(r), l)))
          /\ UNCHANGED <<job, trd, sown, grants>>
    BY <1>4 DEF HandleHarvest
  <2>2. SelfBecomes(r, harvest(Self(r), l)) \in [Player -> PlayerObject]
    BY <1>2, <2>1, HarvestType
  <2>3. Self(r).plot \in Planting
    BY <1>2, <2>1 DEF PlayerObject, canHarvest
  <2> QED
    BY <1>1, <2>1, <2>2, <2>3, ReturnType
<1>5. ASSUME HandleBreed(r) PROVE TypeInv'
  <2>1. PICK l \in Lumi :
          /\ canBreed(Self(r)) /\ seedOf' = [seedOf EXCEPT ![l] = Bred]
          /\ Return(r, SelfBecomes(r, breed(Self(r), l)))
          /\ UNCHANGED <<job, trd, sown, grants>>
    BY <1>5 DEF HandleBreed
  <2>2. SelfBecomes(r, breed(Self(r), l)) \in [Player -> PlayerObject]
    BY <1>2, <2>1, BreedType
  <2> QED
    BY <1>1, <2>1, <2>2, ReturnType
<1>6. ASSUME HandleVisit(r) PROVE TypeInv'
  <2>1. /\ Return(r, SelfBecomes(r, visit(Self(r), job[r].other)))
        /\ UNCHANGED <<job, trd, seedOf, sown, grants>>
    BY <1>6 DEF HandleVisit
  <2>2. job[r].other \in Player
    BY <1>1, <1>6 DEF HandleVisit, Handling, TypeInv, WellFormed, Kept, Job
  <2>3. SelfBecomes(r, visit(Self(r), job[r].other)) \in [Player -> PlayerObject]
    BY <1>2, <2>2, VisitType
  <2> QED
    BY <1>1, <2>1, <2>3, ReturnType
<1>7. ASSUME HandleLock(r) PROVE TypeInv'
  <2> DEFINE copy == lock(Self(r), job[r].lumi, job[r].op = "lock")
  <2>1. /\ Return(r, SelfBecomes(r, copy)) /\ canLock(Self(r), job[r].lumi)
        /\ UNCHANGED <<job, trd, seedOf, sown, grants>>
    BY <1>7 DEF HandleLock
  <2>2. job[r].lumi \in Lumi
    BY <1>2, <2>1 DEF canLock, PlayerObject
  <2>3. SelfBecomes(r, copy) \in [Player -> PlayerObject]
    BY <1>2, <2>2, LockType
  <2> QED
    BY <1>1, <2>1, <2>3, ReturnType
<1>8. ASSUME HandleCreate(r) PROVE TypeInv'
  <2>1. PICK t \in Trade : job' = [job EXCEPT ![r].trade = t]
    BY <1>8 DEF HandleCreate
  <2> DEFINE row == [from |-> job[r].who, to |-> job[r].other,
                     offer |-> job[r].offer, status |-> "open"]
  <2>2. /\ trd' = [trd EXCEPT ![r] = row] /\ Return(r, ctx[r])
        /\ UNCHANGED <<seedOf, sown, grants>> /\ job[r].op = "create"
    BY <1>8 DEF HandleCreate, Handling, createTrade
  <2>3. row \in TradeRow
    BY <1>1, <1>2, <2>2 DEF TradeRow, TypeInv, WellFormed, Kept, Job
  <2>4. job' \in [Req -> Job]
    <3>1. [job[r] EXCEPT !.trade = t] \in Job
      BY <1>1 DEF Job
    <3> QED
      BY <1>1, <2>1, <3>1
  <2>5. trd' \in [Req -> TradeRow \cup {NoRow}]
    BY <1>1, <2>2, <2>3
  <2>6. \A s \in Req \ {r} : trd'[s] = trd[s] /\ job'[s] = job[s]
    BY <1>1, <2>1, <2>2
  <2> HIDE DEF row
  <2> QED
    BY <1>1, <1>2, <2>1, <2>2, <2>4, <2>5, <2>6, ReturnType
<1>9. ASSUME HandleAccept(r) PROVE TypeInv'
  <2> DEFINE mine   == tradeTo(Self(r), trd[r].offer)
             theirs == tradeFrom(Other(r), trd[r].offer)
             copies == [SelfBecomes(r, mine) EXCEPT ![job[r].other] = theirs]
  <2>1. /\ Return(r, copies) /\ canAccept(r)
        /\ trd' = [trd EXCEPT ![r] = resolve(trd[r], "accepted")]
        /\ UNCHANGED <<job, seedOf, sown, grants>>
    BY <1>9 DEF HandleAccept
  <2>2. /\ job[r].other \in Player /\ trd[r] \in TradeRow
        /\ trd[r].offer \in Offer
    BY <1>1, <1>9 DEF HandleAccept, Handling, TypeInv, WellFormed, Kept, Job,
                      TradeRow
  <2>3. Other(r) \in PlayerObject
    BY <1>2, <2>2 DEF Other
  <2>4. mine \in PlayerObject /\ theirs \in PlayerObject
    BY <1>2, <2>1, <2>2, <2>3, TradeToType, TradeFromType DEF canAccept
  <2>5. SelfBecomes(r, mine) \in [Player -> PlayerObject]
    BY <1>2, <2>4
  <2>6. copies \in [Player -> PlayerObject]
    BY <2>4, <2>5
  <2>7. /\ trd' \in [Req -> TradeRow \cup {NoRow}] /\ trd'[r] # NoRow
        /\ \A s \in Req \ {r} : trd'[s] = trd[s]
    BY <1>1, <2>1, <2>2, ResolveType
  <2> HIDE DEF copies
  <2> QED
    BY <1>1, <2>1, <2>6, <2>7, ReturnType
<1>10. ASSUME HandleCancel(r) PROVE TypeInv'
  <2>1. /\ Return(r, ctx[r])
        /\ trd' = [trd EXCEPT ![r] = resolve(trd[r], "cancelled")]
        /\ UNCHANGED <<job, seedOf, sown, grants>>
    BY <1>10 DEF HandleCancel
  <2>2. trd[r] \in TradeRow
    BY <1>1, <1>10 DEF HandleCancel, Handling, TypeInv, WellFormed, Kept
  <2>3. /\ trd' \in [Req -> TradeRow \cup {NoRow}] /\ trd'[r] # NoRow
        /\ \A s \in Req \ {r} : trd'[s] = trd[s]
    BY <1>1, <2>1, <2>2, ResolveType
  <2> QED
    BY <1>1, <1>2, <2>1, <2>3, ReturnType
<1> QED
  BY <1>3, <1>4, <1>5, <1>6, <1>7, <1>8, <1>9, <1>10

LEMMA RedeemType ==
    ASSUME TypeInv, NEW r \in Req, HandleRedeem(r)
    PROVE  TypeInv'
<1>1. /\ pc[r] = "claim" /\ job[r].tx \in Tx /\ job[r].op = "redeem"
      /\ job[r].who \in Player /\ Self(r) \in PlayerObject
  BY SelfType DEF HandleRedeem, TypeInv, WellFormed, Kept
<1>2. SelfBecomes(r, grantProduct(Self(r))) \in [Player -> PlayerObject]
  BY <1>1, SelfType, ProductType
<1>3. /\ ctx' \in [Req -> [Player -> PlayerObject]]
      /\ receipts' \in [Tx -> Player \cup {NoPlayer}]
      /\ grants' \in [Req -> Tx \cup {NoTx}]
  <2>1. CASE Claimed(r)
    <3> HIDE DEF Job
    <3> QED
      BY <1>1, <1>2, <2>1 DEF TypeInv, TypeOK, Claimed
  <2>2. CASE AlreadyClaimed(r)
    <3> HIDE DEF Job
    <3> QED
      BY <2>2 DEF TypeInv, TypeOK, AlreadyClaimed
  <2> QED
    BY <2>1, <2>2 DEF HandleRedeem
<1>4. TypeOK'
  <2>1. /\ at' \in [Req -> Player \cup {NoPlayer}]
        /\ pc' \in [Req -> Stages]
    BY <1>1 DEF TypeInv, TypeOK, HandleRedeem
  <2> HIDE DEF Job, Stages
  <2> QED
    BY <1>3, <2>1 DEF TypeInv, TypeOK, HandleRedeem
<1>5. WellFormed'
  BY <1>1 DEF TypeInv, TypeOK, WellFormed, Kept, Answers, HandleRedeem
<1> QED
  BY <1>4, <1>5 DEF TypeInv

(***************************************************************************)
(* The end of a request, and the transaction.                              *)
(***************************************************************************)
LEMMA EndType ==
    ASSUME TypeInv, NEW r \in Req, End(r)
    PROVE  /\ pc' \in [Req -> Stages] /\ job' \in [Req -> Job]
           /\ at' \in [Req -> Player \cup {NoPlayer}]
           /\ ctx' \in [Req -> [Player -> PlayerObject]]
           /\ trd' \in [Req -> TradeRow \cup {NoRow}]
           /\ cleared' \in [Req -> SUBSET Lumi]
           /\ grants' \in [Req -> Tx \cup {NoTx}]
<1> HIDE DEF Job, NoJob
<1> QED
  BY BlankType, NoJobType DEF TypeInv, TypeOK, End, Unlock

\* An ended request is well formed, and so are the others as long as the trades
\* they name exist.
LEMMA EndKeeps ==
    ASSUME TypeInv, NEW r \in Req, End(r),
           \A t \in Trade : trades[t] # NoRow => trades'[t] # NoRow
    PROVE  WellFormed'
<1> SUFFICES ASSUME NEW s \in Req PROVE Kept(s)'
  BY DEF WellFormed
<1>1. CASE s = r
  BY <1>1 DEF TypeInv, TypeOK, Kept, Answers, End
<1>2. CASE s # r
  BY <1>2 DEF TypeInv, TypeOK, WellFormed, Kept, Answers, End
<1> QED
  BY <1>1, <1>2

LEMMA DropType ==
    ASSUME TypeInv, NEW r \in Req, Drop(r)
    PROVE  TypeInv'
<1>1. End(r)
  BY DEF Drop
<1>2. TypeOK'
  <2> HIDE DEF Job, Stages
  <2> QED
    BY <1>1, EndType DEF TypeInv, TypeOK, Drop, tables
<1>3. WellFormed'
  BY <1>1, EndKeeps DEF Drop, tables
<1> QED
  BY <1>2, <1>3 DEF TypeInv

LEMMA DeleteType ==
    ASSUME TypeInv, NEW r \in Req, StartDelete(r) \/ FinishDelete(r)
    PROVE  TypeInv'
<1>1. CASE StartDelete(r)
  <2>1. snap' \in [Req -> SUBSET Lumi] /\ pc' \in [Req -> Stages]
    BY <1>1 DEF TypeInv, TypeOK, StartDelete, Rows
  <2>2. TypeOK'
    <3> HIDE DEF Job, Stages
    <3> QED
      BY <1>1, <2>1 DEF TypeInv, TypeOK, StartDelete, tables, history
  <2>3. WellFormed'
    BY <1>1 DEF TypeInv, TypeOK, WellFormed, Kept, Answers, StartDelete, tables
  <2> QED
    BY <2>2, <2>3 DEF TypeInv
<1>2. CASE FinishDelete(r)
  <2>1. /\ cleared' \in [Req -> SUBSET Lumi] /\ snap' \in [Req -> SUBSET Lumi]
        /\ pc' \in [Req -> Stages]
    BY <1>2 DEF TypeInv, TypeOK, FinishDelete
  <2>2. /\ job[r].other # NoPlayer => job[r].other \in Player
        /\ at' \in [Req -> Player \cup {NoPlayer}]
    BY <1>2 DEF TypeInv, TypeOK, FinishDelete
  <2>3. TypeOK'
    <3> HIDE DEF Job, Stages
    <3> QED
      BY <1>2, <2>1, <2>2 DEF TypeInv, TypeOK, FinishDelete, tables, history
  <2>4. WellFormed'
    <3> SUFFICES ASSUME NEW s \in Req PROVE Kept(s)'
      BY DEF WellFormed
    <3>1. CASE s = r
      BY <1>2, <2>2, <3>1
         DEF TypeInv, TypeOK, WellFormed, Kept, Answers, FinishDelete, tables
    <3>2. CASE s # r
      BY <1>2, <3>2
         DEF TypeInv, TypeOK, WellFormed, Kept, Answers, FinishDelete, tables
    <3> QED
      BY <3>1, <3>2
  <2> QED
    BY <2>3, <2>4 DEF TypeInv
<1> QED
  BY <1>1, <1>2

LEMMA CommitType ==
    ASSUME TypeInv, NEW r \in Req, Commit(r)
    PROVE  TypeInv'
<1>1. End(r)
  BY DEF Commit
<1>2. \A p \in Player : ctx[r][p] \in PlayerObject
  BY DEF TypeInv, TypeOK
<1>3. /\ wallets' \in [Player -> Balance]
      /\ visitLog' \in [Player -> SUBSET Player]
      /\ plots' \in [Player -> Planting \cup {NoPlanting}]
  BY <1>2 DEF TypeInv, TypeOK, Commit, Saved, PlayerObject
<1>4. owner' \in [Lumi -> Player \cup {NoPlayer}]
  <2> SUFFICES ASSUME NEW l \in Lumi
               PROVE  SavedOwner(r, l) \in Player \cup {NoPlayer}
    BY DEF Commit
  <2>1. Hydrated(r) \subseteq Player
    BY DEF Hydrated, TypeInv, TypeOK
  <2>2. l \in Carried(r) => \E p \in Hydrated(r) : l \in ctx[r][p].lumi
    BY DEF Carried
  <2> QED
    BY <2>1, <2>2 DEF SavedOwner, TypeInv, TypeOK
<1>5. locked' \in SUBSET Lumi
  <2>1. \A p \in Hydrated(r) : ctx[r][p].locked \subseteq Lumi
    BY <1>2 DEF Hydrated, PlayerObject, TypeInv, TypeOK
  <2> QED
    BY <2>1 DEF Commit, SavedLocks, TypeInv, TypeOK
<1>6. journal' \in [Player -> Sums]
  <2>1. \A p \in Player : \A c \in Currency :
          journal[p][c] + Saved(r, p, ctx[r][p].ledger[c], 0) \in Int
    BY <1>2 DEF Saved, PlayerObject, Sums, TypeInv, TypeOK
  <2> QED
    BY <2>1 DEF Commit, Sums
<1>7. trades' \in [Trade -> TradeRow \cup {NoRow}]
  BY DEF TypeInv, TypeOK, Commit
<1>8. granted' \in [Tx -> Nat] /\ swaps' \in [Trade -> Nat]
  BY DEF TypeInv, TypeOK, Commit
<1>9. snap' \in [Req -> SUBSET Lumi]
  BY DEF TypeInv, TypeOK, Commit
<1>10. TypeOK'
  <2> HIDE DEF Job, Stages
  <2> QED
    BY <1>1, <1>3, <1>4, <1>5, <1>6, <1>7, <1>8, <1>9, EndType
       DEF TypeInv, TypeOK, Commit
<1>11. \A t \in Trade : trades[t] # NoRow => trades'[t] # NoRow
  BY DEF TypeInv, TypeOK, Commit
<1> QED
  BY <1>1, <1>10, <1>11, EndKeeps DEF TypeInv

LEMMA StutterType ==
    ASSUME TypeInv, UNCHANGED vars
    PROVE  TypeInv'
<1>1. TypeOK'
  <2> HIDE DEF Job, Stages
  <2> QED
    BY DEF TypeInv, TypeOK, vars, tables, request, history
<1>2. WellFormed'
  BY DEF TypeInv, WellFormed, Kept, Answers, vars, tables, request
<1> QED
  BY <1>1, <1>2 DEF TypeInv

LEMMA NextType == TypeInv /\ [Next]_vars => TypeInv'
<1> SUFFICES ASSUME TypeInv, [Next]_vars PROVE TypeInv'
  OBVIOUS
<1>1. ASSUME NEW r \in Req, Arrive(r) PROVE TypeInv'
  BY <1>1, ArriveType
<1>2. ASSUME NEW r \in Req, Step(r) PROVE TypeInv'
  <2>1. Reject(r) \/ DuplicateKey(r) \/ DeadlockVictim(r) => Drop(r)
    BY DEF Reject, DuplicateKey, DeadlockVictim
  <2> QED
    BY <1>2, <2>1, QueriesType, ReadTradeType, HandlersType, RedeemType,
       DropType, DeleteType, CommitType DEF Step, Handle
<1>3. ASSUME NEW r \in Req, Fail(r) PROVE TypeInv'
  BY <1>3, DropType DEF Fail
<1> QED
  BY <1>1, <1>2, <1>3, StutterType DEF Next

\* The tables and the requests keep their types: among them, that no balance a
\* commit writes is negative (wallets CHECK, schema.sql), and that a trade row
\* names two players and an offer.
THEOREM TypeCorrect == Spec => []TypeOK
<1>1. TypeInv => TypeOK
  BY DEF TypeInv
<1> QED
  BY <1>1, InitTypeInv, NextType, PTL DEF Spec

(***************************************************************************)
(* A transaction is granted once.  The argument rests on the one statement *)
(* that decides, the INSERT ... ON CONFLICT DO NOTHING of the receipt: who *)
(* claims a transaction is its only claimer, so at most one unit of work   *)
(* ever carries its grant; until that one commits, nothing was granted.    *)
(***************************************************************************)
Granting(r) ==
    grants[r] # NoTx =>
        /\ pc[r] \in {"delete", "deleting", "save"}
        /\ receipts[grants[r]] = job[r].who
        /\ granted[grants[r]] = 0

GrantInv ==
    /\ \A r \in Req : Granting(r)
    /\ \A r, s \in Req : grants[r] = grants[s] /\ grants[r] # NoTx => r = s
    /\ GrantedOnce

LEMMA InitGrantInv == Init => GrantInv
BY DEF Init, GrantInv, Granting, GrantedOnce

\* Steps that neither claim nor end a request.
LEMMA OthersKeepGrants ==
    ASSUME TypeInv, GrantInv, NEW r \in Req,
           UNCHANGED <<receipts, grants, granted>>,
           \A s \in Req : job'[s].who = job[s].who \/ pc[s] = "idle",
           \A s \in Req \ {r} : pc'[s] = pc[s],
           \/ pc[r] \notin {"delete", "deleting", "save"}
           \/ pc'[r] \in {"delete", "deleting", "save"}
    PROVE  GrantInv'
<1>1. \A s \in Req : Granting(s)'
  BY DEF GrantInv, Granting
<1>2. GrantedOnce'
  BY DEF GrantInv, GrantedOnce, unclaimed
<1> QED
  BY <1>1, <1>2 DEF GrantInv

LEMMA ArriveGrants ==
    ASSUME TypeInv, GrantInv, NEW r \in Req, Arrive(r)
    PROVE  GrantInv'
<1>1. PICK j : Submit(r, j)
  BY ArriveSubmits
<1> QED
  BY <1>1, OthersKeepGrants DEF Submit, tables, TypeInv, TypeOK

LEMMA ReadsGrant ==
    ASSUME TypeInv, GrantInv, NEW r \in Req,
           \/ ReadPlayers(r) \/ ReadWallets(r) \/ ReadGardens(r) \/ ReadLumi(r)
           \/ ReadTrade(r)
    PROVE  GrantInv'
<1>1. UNCHANGED <<receipts, grants, granted>>
  BY DEF Read, ReadPlayers, ReadWallets, ReadGardens, ReadLumi, ReadTrade,
         tables, history
<1>2. \A s \in Req : job'[s].who = job[s].who
  <2>1. job' = job \/ \E p : job' = [job EXCEPT ![r].other = p]
    BY DEF Read, ReadPlayers, ReadWallets, ReadGardens, ReadLumi, ReadTrade
  <2>2. job \in [Req -> Job]
    BY DEF TypeInv, TypeOK
  <2> QED
    BY <2>1, <2>2
<1>3. /\ pc[r] \in {"players", "wallets", "gardens", "lumi", "trades"}
      /\ \A s \in Req \ {r} : pc'[s] = pc[s]
  BY DEF Read, ReadPlayers, ReadWallets, ReadGardens, ReadLumi, ReadTrade,
         TypeInv, TypeOK
<1> QED
  BY <1>1, <1>2, <1>3, OthersKeepGrants

LEMMA HandlersGrant ==
    ASSUME TypeInv, GrantInv, NEW r \in Req,
           \/ HandlePlant(r)  \/ HandleHarvest(r) \/ HandleBreed(r)
           \/ HandleVisit(r)  \/ HandleLock(r)    \/ HandleCreate(r)
           \/ HandleAccept(r) \/ HandleCancel(r)
    PROVE  GrantInv'
<1>1. PICK copies : Return(r, copies)
  BY DEF HandlePlant, HandleHarvest, HandleBreed, HandleVisit, HandleLock,
         HandleCreate, HandleAccept, HandleCancel
<1>2. UNCHANGED grants
  BY DEF HandlePlant, HandleHarvest, HandleBreed, HandleVisit, HandleLock,
         HandleCreate, HandleAccept, HandleCancel
<1>3. \A s \in Req : job'[s].who = job[s].who
  <2>1. job' = job \/ \E t \in Trade : job' = [job EXCEPT ![r].trade = t]
    BY DEF HandlePlant, HandleHarvest, HandleBreed, HandleVisit, HandleLock,
           HandleCreate, HandleAccept, HandleCancel
  <2>2. job \in [Req -> Job]
    BY DEF TypeInv, TypeOK
  <2> QED
    BY <2>1, <2>2
<1>4. /\ UNCHANGED <<receipts, granted>> /\ pc'[r] = "delete"
      /\ \A s \in Req \ {r} : pc'[s] = pc[s]
  BY <1>1 DEF Return, tables, TypeInv, TypeOK
<1> QED
  BY <1>2, <1>3, <1>4, OthersKeepGrants

LEMMA RedeemGrants ==
    ASSUME TypeInv, GrantInv, NEW r \in Req, HandleRedeem(r)
    PROVE  GrantInv'
<1>1. CASE AlreadyClaimed(r)
  BY <1>1, OthersKeepGrants DEF AlreadyClaimed, HandleRedeem, TypeInv, TypeOK
<1>2. CASE Claimed(r)
  <2> DEFINE x == job[r].tx
  <2>1. /\ x \in Tx /\ x # NoTx /\ receipts[x] = NoPlayer
        /\ receipts' = [receipts EXCEPT ![x] = job[r].who]
        /\ grants' = [grants EXCEPT ![r] = x]
        /\ job[r].who \in Player /\ job' = job /\ granted' = granted
        /\ pc' = [pc EXCEPT ![r] = "delete"]
    BY <1>2, PgStoreAssumption DEF HandleRedeem, Claimed, unclaimed, TypeInv,
                                   TypeOK, WellFormed, Kept
  <2>2. granted[x] = 0
    <3>1. granted[x] \in Nat
      BY <2>1 DEF TypeInv, TypeOK
    <3>2. granted[x] <= 1 /\ granted[x] # 1
      BY <2>1 DEF GrantInv, GrantedOnce, unclaimed
    <3> QED
      BY <3>1, <3>2
  <2>3. \A s \in Req : grants[s] # NoTx => grants[s] # x
    <3> SUFFICES ASSUME NEW s \in Req, grants[s] = x PROVE FALSE
      BY <2>1
    <3>1. pc[s] # "idle" /\ receipts[x] = job[s].who
      BY <2>1 DEF GrantInv, Granting
    <3>2. job[s].who \in Player
      BY <3>1 DEF TypeInv, WellFormed, Kept
    <3> QED
      BY <2>1, <3>1, <3>2, PgStoreAssumption
  <2> HIDE DEF x, Job
  <2>4. \A s \in Req : Granting(s)'
    <3> SUFFICES ASSUME NEW s \in Req PROVE Granting(s)'
      OBVIOUS
    <3>1. CASE s = r
      BY <2>1, <2>2, <3>1 DEF Granting, TypeInv, TypeOK
    <3>2. CASE s # r
      BY <2>1, <2>3, <3>2 DEF GrantInv, Granting, TypeInv, TypeOK
    <3> QED
      BY <3>1, <3>2
  <2>5. \A s, t \in Req : grants'[s] = grants'[t] /\ grants'[s] # NoTx => s = t
    BY <2>1, <2>3 DEF GrantInv, TypeInv, TypeOK
  <2>6. GrantedOnce'
    BY <2>1, PgStoreAssumption
       DEF GrantInv, GrantedOnce, unclaimed, TypeInv, TypeOK
  <2> QED
    BY <2>4, <2>5, <2>6 DEF GrantInv
<1> QED
  BY <1>1, <1>2 DEF HandleRedeem

LEMMA DeleteGrants ==
    ASSUME TypeInv, GrantInv, NEW r \in Req, StartDelete(r) \/ FinishDelete(r)
    PROVE  GrantInv'
<1>1. /\ UNCHANGED <<receipts, grants, granted, job>>
      /\ pc'[r] \in {"delete", "deleting", "save"}
      /\ \A s \in Req \ {r} : pc'[s] = pc[s]
  BY DEF StartDelete, FinishDelete, tables, history, TypeInv, TypeOK
<1> QED
  BY <1>1, OthersKeepGrants

LEMMA DropGrants ==
    ASSUME TypeInv, GrantInv, NEW r \in Req, Drop(r)
    PROVE  GrantInv'
<1>1. /\ UNCHANGED <<receipts, granted>> /\ grants'[r] = NoTx
      /\ \A s \in Req \ {r} : /\ grants'[s] = grants[s] /\ pc'[s] = pc[s]
                              /\ job'[s] = job[s]
  BY DEF Drop, End, tables, TypeInv, TypeOK
<1> QED
  BY <1>1 DEF GrantInv, Granting, GrantedOnce, unclaimed

LEMMA CommitGrants ==
    ASSUME TypeInv, GrantInv, NEW r \in Req, Commit(r)
    PROVE  GrantInv'
<1>1. /\ receipts' = receipts /\ grants'[r] = NoTx
      /\ \A s \in Req \ {r} : /\ grants'[s] = grants[s] /\ pc'[s] = pc[s]
                              /\ job'[s] = job[s]
  BY DEF Commit, End, TypeInv, TypeOK
<1>2. \A x \in Tx : granted'[x] = granted[x] + IF grants[r] = x THEN 1 ELSE 0
  BY DEF Commit
<1>3. \A s \in Req : Granting(s)'
  <2> SUFFICES ASSUME NEW s \in Req, grants'[s] # NoTx PROVE Granting(s)'
    BY DEF Granting
  <2>1. s # r /\ grants[s] = grants'[s] /\ grants[s] \in Tx
    BY <1>1 DEF TypeInv, TypeOK
  <2>2. grants[r] # grants[s] /\ granted[grants[s]] = 0
    BY <2>1, <1>1 DEF GrantInv, Granting
  <2>3. granted'[grants[s]] = 0
    BY <1>2, <2>1, <2>2
  <2> QED
    BY <1>1, <2>1, <2>3 DEF GrantInv, Granting
<1>4. GrantedOnce'
  <2> SUFFICES ASSUME NEW x \in Tx
               PROVE  granted'[x] <= 1 /\ (granted'[x] = 1 => ~unclaimed(x)')
    BY DEF GrantedOnce
  <2>1. CASE grants[r] = x
    <3>1. /\ granted[x] = 0 /\ receipts[x] = job[r].who
          /\ job[r].who \in Player
      BY <2>1, PgStoreAssumption
         DEF GrantInv, Granting, TypeInv, WellFormed, Kept
    <3> QED
      BY <1>1, <1>2, <2>1, <3>1, PgStoreAssumption DEF unclaimed
  <2>2. CASE grants[r] # x
    BY <1>1, <1>2, <2>2 DEF GrantInv, GrantedOnce, unclaimed, TypeInv, TypeOK
  <2> QED
    BY <2>1, <2>2
<1> QED
  BY <1>1, <1>3, <1>4 DEF GrantInv

LEMMA NextGrants == TypeInv /\ GrantInv /\ [Next]_vars => GrantInv'
<1> SUFFICES ASSUME TypeInv, GrantInv, [Next]_vars PROVE GrantInv'
  OBVIOUS
<1>1. ASSUME NEW r \in Req, Arrive(r) PROVE GrantInv'
  BY <1>1, ArriveGrants
<1>2. ASSUME NEW r \in Req, Step(r) PROVE GrantInv'
  <2>1. Reject(r) \/ DuplicateKey(r) \/ DeadlockVictim(r) => Drop(r)
    BY DEF Reject, DuplicateKey, DeadlockVictim
  <2> QED
    BY <1>2, <2>1, ReadsGrant, HandlersGrant, RedeemGrants, DeleteGrants,
       DropGrants, CommitGrants DEF Step, Handle
<1>3. ASSUME NEW r \in Req, Fail(r) PROVE GrantInv'
  BY <1>3, DropGrants DEF Fail
<1>4. CASE UNCHANGED vars
  BY <1>4 DEF GrantInv, Granting, GrantedOnce, unclaimed, vars, tables, request,
              history
<1> QED
  BY <1>1, <1>2, <1>3, <1>4 DEF Next

\* However many redemptions of a transaction are in flight, and whatever fails,
\* at most one commit grants it, to a claimed receipt, and the unit of work that grants a transaction acts for the
\* receipt's player.
THEOREM GrantsGoToTheClaimer == Spec => []GrantsAreDue
<1>1. GrantInv => GrantsAreDue
  BY DEF GrantInv, Granting, GrantsFollowReceipts, GrantsAreDue
<1> QED
  BY <1>1, InitTypeInv, NextType, InitGrantInv, NextGrants, PTL DEF Spec

(***************************************************************************)
(* A closed trade stays closed, though requests that read it while it was  *)
(* open commit their copies of it later: those that answer a trade write   *)
(* it closed, and one that creates a trade has an id that no other request *)
(* knows until it has committed.                                           *)
(***************************************************************************)
Committing == {"delete", "deleting", "save"}

Proposing(r) ==
    job[r].op = "create" /\ job[r].trade # NoTrade =>
        /\ job[r].trade \in Trade
        /\ trades[job[r].trade] = NoRow
        /\ \A s \in Req \ {r} : job[s].trade # job[r].trade

Answering(r) ==
    trd[r] # NoRow =>
        /\ pc[r] # "idle" /\ job[r].op \in TradeRoutes
        /\ job[r].op = "create" => job[r].trade # NoTrade
        /\ job[r].op # "create" /\ pc[r] \in Committing => trd[r].status # "open"

TradeInv == \A r \in Req : Proposing(r) /\ Answering(r)

LEMMA InitTradeInv == Init => TradeInv
BY DEF Init, TradeInv, Proposing, Answering

\* Steps that change no trade, no trade id, and no copy of a trade.
LEMMA OthersKeepTrades ==
    ASSUME TradeInv, NEW r \in Req, UNCHANGED <<trades, trd>>,
           \A s \in Req : /\ job'[s].op = job[s].op
                          /\ job'[s].trade = job[s].trade,
           \A s \in Req \ {r} : pc'[s] = pc[s],
           pc'[r] # "idle",
           pc'[r] \in Committing =>
              pc[r] \in Committing \/ job[r].op \notin {"accept", "cancel"}
    PROVE  TradeInv'
BY DEF TradeInv, Proposing, Answering, Committing

LEMMA ArriveTrades ==
    ASSUME TypeInv, TradeInv, NEW r \in Req, Arrive(r)
    PROVE  TradeInv'
<1>1. PICK j : Sendable(j) /\ Submit(r, j)
  BY ArriveSubmits
<1>2. /\ UNCHANGED <<trades, trd>> /\ trd[r] = NoRow
      /\ job'[r] = j /\ pc[r] = "idle"
      /\ \A s \in Req \ {r} : job'[s] = job[s] /\ pc'[s] = pc[s]
  BY <1>1 DEF Submit, tables, TypeInv, TypeOK, TradeInv, Answering
<1>3. \A s \in Req : Answering(s)'
  BY <1>2 DEF TradeInv, Answering
<1>4. /\ j.op = "create" => j.trade = NoTrade
      /\ j.trade # NoTrade => trades[j.trade] # NoRow
  <2> HIDE DEF Job
  <2>1. j.op = "create" => j.op \notin {"accept", "cancel"}
    OBVIOUS
  <2> QED
    BY <1>1, <2>1 DEF Sendable
<1>5. \A s \in Req : Proposing(s)'
  BY <1>2, <1>4 DEF TradeInv, Proposing
<1> QED
  BY <1>3, <1>5 DEF TradeInv

LEMMA QueriesTrades ==
    ASSUME TypeInv, TradeInv, NEW r \in Req,
           ReadPlayers(r) \/ ReadWallets(r) \/ ReadGardens(r) \/ ReadLumi(r)
    PROVE  TradeInv'
<1>1. UNCHANGED <<trades, trd, job>>
  BY DEF Read, ReadPlayers, ReadWallets, ReadGardens, ReadLumi, tables
<1>2. /\ pc'[r] \in {"players", "wallets", "gardens", "lumi", "trades", "claim",
                      "run"}
      /\ \A s \in Req \ {r} : pc'[s] = pc[s]
  BY DEF Read, ReadPlayers, ReadWallets, ReadGardens, ReadLumi, NextAwait,
         TypeInv, TypeOK
<1> QED
  BY <1>1, <1>2, OthersKeepTrades DEF Committing

LEMMA ReadTradeTrades ==
    ASSUME TypeInv, TradeInv, NEW r \in Req, ReadTrade(r)
    PROVE  TradeInv'
<1>1. /\ trades' = trades /\ pc[r] = "trades" /\ pc'[r] \in {"players", "run"}
      /\ job[r].op \in {"accept", "cancel"}
      /\ \A s \in Req \ {r} : trd'[s] = trd[s] /\ pc'[s] = pc[s]
  BY DEF ReadTrade, tables, TypeInv, TypeOK
<1>2. \A s \in Req : job'[s].op = job[s].op /\ job'[s].trade = job[s].trade
  <2>1. job' = job \/ \E p : job' = [job EXCEPT ![r].other = p]
    BY DEF ReadTrade
  <2>2. job \in [Req -> Job]
    BY DEF TypeInv, TypeOK
  <2> QED
    BY <2>1, <2>2
<1>3. \A s \in Req : Answering(s)'
  BY <1>1, <1>2 DEF TradeInv, Answering, Committing
<1>4. \A s \in Req : Proposing(s)'
  BY <1>1, <1>2 DEF TradeInv, Proposing
<1> QED
  BY <1>3, <1>4 DEF TradeInv

LEMMA CreateTrades ==
    ASSUME TypeInv, TradeInv, NEW r \in Req, HandleCreate(r)
    PROVE  TradeInv'
<1>1. PICK t \in Trade :
        /\ trades[t] = NoRow /\ \A s \in Req : job[s].trade # t
        /\ job' = [job EXCEPT ![r].trade = t]
  BY DEF HandleCreate
<1>2. /\ trades' = trades /\ pc'[r] = "delete" /\ job[r].op = "create"
      /\ \A s \in Req \ {r} : trd'[s] = trd[s] /\ pc'[s] = pc[s]
  BY DEF HandleCreate, Handling, Return, tables, TypeInv, TypeOK
<1>3. /\ job'[r].op = "create" /\ job'[r].trade = t /\ t # NoTrade
      /\ \A s \in Req \ {r} : job'[s] = job[s]
  BY <1>1, <1>2, PgStoreAssumption DEF TypeInv, TypeOK
<1>4. \A s \in Req : Answering(s)'
  BY <1>1, <1>2, <1>3 DEF TradeInv, Answering, Committing
<1>5. \A s \in Req : Proposing(s)'
  BY <1>1, <1>2, <1>3 DEF TradeInv, Proposing
<1> QED
  BY <1>4, <1>5 DEF TradeInv

LEMMA ResolveTrades ==
    ASSUME TypeInv, TradeInv, NEW r \in Req, HandleAccept(r) \/ HandleCancel(r)
    PROVE  TradeInv'
<1>1. /\ UNCHANGED <<trades, job>> /\ pc'[r] = "delete"
      /\ job[r].op \in {"accept", "cancel"}
      /\ \A s \in Req \ {r} : trd'[s] = trd[s] /\ pc'[s] = pc[s]
  BY DEF HandleAccept, HandleCancel, Handling, Return, tables, TypeInv, TypeOK
<1>2. trd'[r].status # "open"
  <2>1. trd[r] \in TradeRow /\ trd \in [Req -> TradeRow \cup {NoRow}]
    BY DEF HandleAccept, HandleCancel, Handling, TypeInv, TypeOK, WellFormed, Kept
  <2>2. trd'[r] = resolve(trd[r], "accepted") \/ trd'[r] = resolve(trd[r], "cancelled")
    BY <2>1 DEF HandleAccept, HandleCancel
  <2> QED
    BY <2>1, <2>2 DEF resolve, TradeRow
<1>3. \A s \in Req : Answering(s)'
  BY <1>1, <1>2 DEF TradeInv, Answering, Committing
<1>4. \A s \in Req : Proposing(s)'
  BY <1>1 DEF TradeInv, Proposing
<1> QED
  BY <1>3, <1>4 DEF TradeInv

LEMMA OtherHandlersTrades ==
    ASSUME TypeInv, TradeInv, NEW r \in Req,
           \/ HandlePlant(r) \/ HandleHarvest(r) \/ HandleBreed(r)
           \/ HandleVisit(r) \/ HandleLock(r)    \/ HandleRedeem(r)
    PROVE  TradeInv'
<1>1. UNCHANGED <<trades, trd, job>>
  BY DEF HandlePlant, HandleHarvest, HandleBreed, HandleVisit, HandleLock,
         HandleRedeem, Return, tables
<1>2. job[r].op \notin {"accept", "cancel"}
  BY DEF HandlePlant, HandleHarvest, HandleBreed, HandleVisit, HandleLock,
         HandleRedeem, Handling, TypeInv, WellFormed, Kept
<1>3. pc'[r] = "delete" /\ \A s \in Req \ {r} : pc'[s] = pc[s]
  BY DEF HandlePlant, HandleHarvest, HandleBreed, HandleVisit, HandleLock,
         HandleRedeem, Return, TypeInv, TypeOK
<1> QED
  BY <1>1, <1>2, <1>3, OthersKeepTrades

LEMMA DeleteTrades ==
    ASSUME TypeInv, TradeInv, NEW r \in Req, StartDelete(r) \/ FinishDelete(r)
    PROVE  TradeInv'
<1>1. /\ UNCHANGED <<trades, trd, job>> /\ pc[r] \in Committing
      /\ pc'[r] \in Committing
      /\ \A s \in Req \ {r} : pc'[s] = pc[s]
  BY DEF StartDelete, FinishDelete, tables, Committing, TypeInv, TypeOK
<1> QED
  BY <1>1, OthersKeepTrades DEF Committing

\* The end of a request: what it knew of a trade is forgotten.
LEMMA EndTrades ==
    ASSUME TypeInv, TradeInv, NEW r \in Req, End(r),
           \A t \in Trade : trades'[t] = trades[t] \/ t = job[r].trade
    PROVE  TradeInv'
<1>1. /\ job'[r].op = "none" /\ job'[r].trade = NoTrade /\ trd'[r] = NoRow
      /\ \A s \in Req \ {r} : /\ job'[s] = job[s] /\ trd'[s] = trd[s]
                              /\ pc'[s] = pc[s]
  BY DEF End, TypeInv, TypeOK
<1>2. \A s \in Req : Answering(s)'
  BY <1>1 DEF TradeInv, Answering, Committing
<1>3. \A s \in Req : Proposing(s)'
  BY <1>1 DEF TradeInv, Proposing
<1> QED
  BY <1>2, <1>3 DEF TradeInv

LEMMA NextTrades == TypeInv /\ TradeInv /\ [Next]_vars => TradeInv'
<1> SUFFICES ASSUME TypeInv, TradeInv, [Next]_vars PROVE TradeInv'
  OBVIOUS
<1>1. ASSUME NEW r \in Req, Arrive(r) PROVE TradeInv'
  BY <1>1, ArriveTrades
<1>2. ASSUME NEW r \in Req, Drop(r) PROVE TradeInv'
  BY <1>2, EndTrades DEF Drop, tables
<1>3. ASSUME NEW r \in Req, Commit(r) PROVE TradeInv'
  BY <1>3, EndTrades DEF Commit, TypeInv, TypeOK
<1>4. ASSUME NEW r \in Req, Step(r) PROVE TradeInv'
  <2>1. Reject(r) \/ DuplicateKey(r) \/ DeadlockVictim(r) => Drop(r)
    BY DEF Reject, DuplicateKey, DeadlockVictim
  <2> QED
    BY <1>2, <1>3, <1>4, <2>1, QueriesTrades, ReadTradeTrades, CreateTrades,
       ResolveTrades, OtherHandlersTrades, DeleteTrades DEF Step, Handle
<1>5. ASSUME NEW r \in Req, Fail(r) PROVE TradeInv'
  BY <1>5, <1>2 DEF Fail
<1>6. CASE UNCHANGED vars
  BY <1>6 DEF TradeInv, Proposing, Answering, Committing, vars, tables, request
<1> QED
  BY <1>1, <1>4, <1>5, <1>6 DEF Next

\* What a step may do to a trade: the step part of TradesStayClosed.
TradeStep ==
    \A t \in Trade :
         trades[t] # NoRow =>
            /\ trades'[t] # NoRow
            /\ trades[t].status # "open" => trades'[t].status # "open"

LEMMA CommitClosesTrades ==
    ASSUME TypeInv, TradeInv, NEW r \in Req, Commit(r)
    PROVE  TradeStep
<1> SUFFICES ASSUME NEW t \in Trade, trades[t] # NoRow, trades'[t] # trades[t]
             PROVE  trades'[t] # NoRow /\ trades'[t].status # "open"
  BY DEF TradeStep
<1>1. trd[r] # NoRow /\ job[r].trade = t /\ trades'[t] = trd[r]
  BY DEF Commit, TypeInv, TypeOK
<1>2. job[r].op # "create"
  BY <1>1, PgStoreAssumption DEF TradeInv, Proposing, Answering
<1>3. pc[r] \in Committing
  BY DEF Commit, Committing
<1> QED
  BY <1>1, <1>2, <1>3 DEF TradeInv, Answering

LEMMA NextClosesTrades == TypeInv /\ TradeInv /\ [Next]_vars => [TradeStep]_vars
<1> SUFFICES ASSUME TypeInv, TradeInv, Next PROVE TradeStep
  OBVIOUS
<1>1. UNCHANGED trades => TradeStep
  BY DEF TradeStep
<1>2. ASSUME NEW r \in Req, Arrive(r) PROVE TradeStep
  BY <1>1, <1>2, ArriveSubmits DEF Submit, tables
<1>3. ASSUME NEW r \in Req, Drop(r) PROVE TradeStep
  BY <1>1, <1>3 DEF Drop, tables
<1>4. ASSUME NEW r \in Req, Handle(r), ~Reject(r) PROVE UNCHANGED trades
  BY <1>4 DEF Handle, HandlePlant, HandleHarvest, HandleBreed, HandleVisit,
     HandleLock, HandleCreate, HandleAccept, HandleCancel, HandleRedeem, Return,
     tables
<1>5. ASSUME NEW r \in Req, Step(r) PROVE TradeStep
  <2>1. Reject(r) \/ DuplicateKey(r) \/ DeadlockVictim(r) => Drop(r)
    BY DEF Reject, DuplicateKey, DeadlockVictim
  <2>2. ASSUME \/ ReadPlayers(r) \/ ReadWallets(r) \/ ReadGardens(r)
               \/ ReadLumi(r) \/ ReadTrade(r) \/ StartDelete(r)
               \/ FinishDelete(r)
        PROVE  UNCHANGED trades
    BY <2>2 DEF ReadPlayers, ReadWallets, ReadGardens, ReadLumi, Read, ReadTrade,
       StartDelete, FinishDelete, tables
  <2> QED
    BY <1>1, <1>3, <1>4, <1>5, <2>1, <2>2, CommitClosesTrades DEF Step
<1> QED
  BY <1>2, <1>3, <1>5 DEF Next, Fail

\* Whatever late commits there are, a closed trade is never reopened and no
\* trade disappears.
THEOREM ClosedForGood == Spec => TradesStayClosed
<1>1. Spec => [][TradeStep]_vars
  BY InitTypeInv, NextType, InitTradeInv, NextTrades, NextClosesTrades, PTL
     DEF Spec
<1> QED
  BY <1>1 DEF TradesStayClosed, TradeStep

-----------------------------------------------------------------------------
(***************************************************************************)
(* Requests in flight that touch different players.                        *)
(***************************************************************************)
HIDE DEF Job, NoJob, Routes, TradeRoutes, Stages

Reading == {"players", "wallets", "gardens", "lumi"}

\* The object that getPlayer would build from the rows of p as they are now.
Committed(p) ==
    [wallet |-> wallets[p], ledger |-> NoEntries, visits |-> visitLog[p],
     plot |-> plots[p], lumi |-> Rows(p), locked |-> Rows(p) \cap locked]

\* The part of it that a request has read before the query it awaits.
SoFar(r, p) ==
    [wallet |-> IF pc[r] \in {"gardens", "lumi"} THEN wallets[p] ELSE NoEntries,
     ledger |-> NoEntries,
     visits |-> IF pc[r] = "players" THEN {} ELSE visitLog[p],
     plot |-> IF pc[r] = "lumi" THEN plots[p] ELSE NoPlanting,
     lumi |-> {}, locked |-> {}]

\* The copies of a request whose players are all read.
Before(r) ==
    [p \in Player |-> IF p \in Hydrated(r) THEN Committed(p) ELSE Blank]

(***************************************************************************)
(* What the handler of a request has done to its copies: from `old` to     *)
(* `new`, for the job j, the copy `row` of its trade and the transaction x *)
(* that it grants.                                                         *)
(***************************************************************************)
Put(objects, p, object) == [objects EXCEPT ![p] = object]

Does(j, row, x, old, new) ==
    /\ j.op = "plant" =>
         /\ canPlant(old[j.who])
         /\ \E n \in Planting : new = Put(old, j.who, plant(old[j.who], n))
    /\ j.op = "harvest" =>
         /\ canHarvest(old[j.who])
         /\ \E l \in Lumi \ old[j.who].lumi :
              new = Put(old, j.who, harvest(old[j.who], l))
    /\ j.op = "breed" =>
         /\ canBreed(old[j.who])
         /\ \E l \in Lumi \ old[j.who].lumi :
              new = Put(old, j.who, breed(old[j.who], l))
    /\ j.op = "visit" => new = Put(old, j.who, visit(old[j.who], j.other))
    /\ j.op \in {"lock", "unlock"} =>
         /\ canLock(old[j.who], j.lumi)
         /\ new = Put(old, j.who, lock(old[j.who], j.lumi, j.op = "lock"))
    /\ j.op = "create" =>
         validateTrade(old[j.who], old[j.other], j.offer) /\ new = old
    /\ j.op = "accept" =>
         /\ validateTrade(old[j.other], old[j.who], row.offer)
         /\ new = [Put(old, j.who, tradeTo(old[j.who], row.offer)) EXCEPT
                     ![j.other] = tradeFrom(old[j.other], row.offer)]
    /\ j.op = "cancel" => new = old
    /\ j.op = "redeem" =>
         \/ x = NoTx /\ new = old
         \/ x = j.tx /\ new = Put(old, j.who, grantProduct(old[j.who]))

(***************************************************************************)
(* The isolation invariant, one conjunct per idea.                         *)
(***************************************************************************)
\* Where a request stands, and whose rows it is about.
Placed(r) ==
    /\ pc[r] # "idle" =>
         /\ job[r].op # "none"
         /\ job[r].who # job[r].other
         /\ at[r] \in {job[r].who, job[r].other}
    /\ pc[r] \in {"trades", "claim"} => at[r] = job[r].who
    /\ job[r].op \notin {"visit", "create", "accept"} => job[r].other = NoPlayer
    /\ job[r].op = "create" => job[r].offer \in Offers

\* What a request knows of the trade it settles is still so: the trade is open.
Informed(r) ==
    /\ Answers(r) /\ trd[r] = NoRow =>
         pc[r] \in Reading \cup {"trades"} /\ job[r].other = NoPlayer
    /\ Answers(r) /\ trd[r] # NoRow =>
         /\ pc[r] \notin {"idle", "trades"}
         /\ trades[job[r].trade].status = "open"
         /\ job[r].op = "accept" =>
              /\ job[r].other = trades[job[r].trade].from
              /\ job[r].who = trades[job[r].trade].to
              /\ pc[r] \in Reading => at[r] = job[r].other
         /\ job[r].op = "cancel" => pc[r] \notin Reading
         /\ trd[r] = IF pc[r] \notin Committing THEN trades[job[r].trade]
                     ELSE resolve(trades[job[r].trade],
                                  IF job[r].op = "accept" THEN "accepted"
                                                          ELSE "cancelled")
    /\ job[r].op = "create" =>
         /\ trd[r] = IF pc[r] \in Committing THEN createTrade(r) ELSE NoRow
         /\ pc[r] \in Committing => job[r].trade # NoTrade
    /\ job[r].op \notin TradeRoutes => trd[r] = NoRow
    /\ job[r].op # "redeem" => grants[r] = NoTx
    /\ grants[r] # NoTx => grants[r] = job[r].tx

\* The copies are the committed rows, as far as they were read, until the
\* handler has run; and then what it makes of the committed rows.
Faithful(r) ==
    /\ pc[r] = "idle" => \A p \in Player : ctx[r][p] = Blank
    /\ pc[r] \in Reading =>
         \A p \in Player :
            ctx[r][p] = IF p = at[r] THEN SoFar(r, p)
                        ELSE IF p = job[r].who THEN Committed(p) ELSE Blank
    /\ pc[r] \in {"trades", "claim", "run"} => ctx[r] = Before(r)
    /\ pc[r] \in Committing =>
         Does(job[r], trd[r], grants[r], Before(r), ctx[r])

\* A transaction has deleted the rows of the players it is done with, all of
\* them and no other.
Deleted(r) ==
    /\ pc[r] \notin Committing => cleared[r] = {}
    /\ pc[r] \in {"delete", "deleting"} =>
         cleared[r] = IF at[r] = job[r].who THEN {} ELSE Rows(job[r].who)
    /\ pc[r] = "deleting" => snap[r] = Rows(at[r])
    /\ pc[r] = "save" => cleared[r] = {l \in Lumi : owner[l] \in Hydrated(r)}

\* It carries only Lumi of its own players and Lumi that it minted itself.
Carries(r) ==
    \A p \in Player : \A l \in ctx[r][p].lumi :
        /\ owner[l] \in Hydrated(r) \cup {NoPlayer}
        /\ seedOf[l] # Unminted

Own(r) == Placed(r) /\ Informed(r) /\ Faithful(r) /\ Deleted(r) /\ Carries(r)

Disjoint(r, s) ==
    /\ Footprint(job[r]) \cap Footprint(job[s]) = {}
    /\ \A p, q \in Player : ctx[r][p].lumi \cap ctx[s][q].lumi = {}

Apart ==
    \A r, s \in Req :
        r # s /\ pc[r] # "idle" /\ pc[s] # "idle" => Disjoint(r, s)

Minted == \A l \in Lumi : owner[l] # NoPlayer => seedOf[l] # Unminted

TwoSides == \A t \in Trade : trades[t] # NoRow => trades[t].from # trades[t].to

IsoInv == (\A r \in Req : Own(r)) /\ Apart /\ Minted /\ TwoSides

Inv == TypeInv /\ GrantInv /\ TradeInv /\ IsoInv

(***************************************************************************)
(* What every handler does to the objects: it records what it moves, it    *)
(* loses no Lumi, and it does not give away a locked one.                  *)
(***************************************************************************)
Recorded(old, new) ==
    \A c \in Currency :
        new.wallet[c] - new.ledger[c] = old.wallet[c] - old.ledger[c]

LEMMA PayRecords ==
    ASSUME NEW p \in PlayerObject, NEW cost \in Balance
    PROVE  Recorded(p, pay(p, cost))
BY DEF Recorded, pay, PlayerObject, Balance, Sums

LEMMA GrantRecords ==
    ASSUME NEW p \in PlayerObject, NEW reward \in Balance
    PROVE  Recorded(p, grant(p, reward))
<1> DEFINE given == [c \in Currency |-> IF reward[c] = 0 THEN 0
                                        ELSE applied(p.wallet, c, reward[c])]
<1>1. p.wallet \in Balance /\ p.ledger \in Sums
  BY DEF PlayerObject
<1>2. \A c \in Currency : given[c] \in Int
  BY <1>1, AppliedType DEF Balance
<1> HIDE DEF given
<1>3. grant(p, reward) =
        [p EXCEPT !.wallet = [c \in Currency |-> p.wallet[c] + given[c]],
                  !.ledger = [c \in Currency |-> p.ledger[c] + given[c]]]
  BY DEF grant, given
<1> QED
  BY <1>1, <1>2, <1>3 DEF Recorded, PlayerObject, Balance, Sums

\* Only the wallet and the ledger change.
LEMMA MovesOnlyMoney ==
    ASSUME NEW p \in PlayerObject, NEW cost
    PROVE  /\ pay(p, cost).visits = p.visits /\ pay(p, cost).plot = p.plot
           /\ pay(p, cost).lumi = p.lumi /\ pay(p, cost).locked = p.locked
           /\ grant(p, cost).visits = p.visits /\ grant(p, cost).plot = p.plot
           /\ grant(p, cost).lumi = p.lumi /\ grant(p, cost).locked = p.locked
BY DEF pay, grant, PlayerObject

\* The handlers that change one object.
Sound(old, new) ==
    /\ new \in PlayerObject
    /\ Recorded(old, new)
    /\ old.lumi \subseteq new.lumi
    /\ new.locked \subseteq new.lumi

LEMMA PlantSound ==
    ASSUME NEW p \in PlayerObject, p.locked \subseteq p.lumi,
           NEW n \in Planting, canPlant(p)
    PROVE  Sound(p, plant(p, n)) /\ plant(p, n).plot = n /\ plant(p, n).lumi = p.lumi
<1> DEFINE paid == pay(p, Petals(SeedCost))
<1>1. paid \in PlayerObject /\ Recorded(p, paid) /\ paid.lumi = p.lumi
      /\ paid.locked = p.locked
  BY PayType, PayRecords, MovesOnlyMoney, AmountType, CostType DEF canPlant
<1>2. plant(p, n) = [paid EXCEPT !.plot = n]
  BY DEF plant
<1> HIDE DEF paid
<1> QED
  BY <1>1, <1>2, PlantType DEF Sound, Recorded, PlayerObject

LEMMA HarvestSound ==
    ASSUME NEW p \in PlayerObject, p.locked \subseteq p.lumi, NEW l \in Lumi
    PROVE  /\ Sound(p, harvest(p, l)) /\ harvest(p, l).plot = NoPlanting
           /\ harvest(p, l).lumi = p.lumi \cup {l}
BY HarvestType DEF Sound, Recorded, PlayerObject, harvest, addLumi

LEMMA BreedSound ==
    ASSUME NEW p \in PlayerObject, p.locked \subseteq p.lumi, NEW l \in Lumi,
           canBreed(p)
    PROVE  /\ Sound(p, breed(p, l)) /\ breed(p, l).plot = p.plot
           /\ breed(p, l).lumi = p.lumi \cup {l}
<1> DEFINE paid == pay(p, Lumen(RitualCost))
<1>1. /\ paid \in PlayerObject /\ Recorded(p, paid) /\ paid.lumi = p.lumi
      /\ paid.locked = p.locked /\ paid.plot = p.plot
  BY PayType, PayRecords, MovesOnlyMoney, AmountType, CostType DEF canBreed
<1>2. breed(p, l) = [paid EXCEPT !.lumi = @ \cup {l}]
  BY DEF breed, addLumi
<1> HIDE DEF paid
<1> QED
  BY <1>1, <1>2, BreedType DEF Sound, Recorded, PlayerObject

LEMMA VisitSound ==
    ASSUME NEW p \in PlayerObject, p.locked \subseteq p.lumi, NEW q \in Player
    PROVE  /\ Sound(p, visit(p, q)) /\ visit(p, q).plot = p.plot
           /\ visit(p, q).lumi = p.lumi
<1> DEFINE paid == grant(p, Petals(VisitReward))
<1>1. /\ paid \in PlayerObject /\ Recorded(p, paid) /\ paid.lumi = p.lumi
      /\ paid.locked = p.locked /\ paid.plot = p.plot
  BY GrantType, GrantRecords, MovesOnlyMoney, AmountType, CostType
<1>2. visit(p, q) = IF rewardedVisit(p, q)
                    THEN [paid EXCEPT !.visits = @ \cup {q}] ELSE p
  BY DEF visit
<1> HIDE DEF paid
<1> QED
  BY <1>1, <1>2, VisitType DEF Sound, Recorded, PlayerObject

LEMMA LockSound ==
    ASSUME NEW p \in PlayerObject, p.locked \subseteq p.lumi, NEW l,
           NEW on \in BOOLEAN, canLock(p, l)
    PROVE  /\ Sound(p, lock(p, l, on)) /\ lock(p, l, on).plot = p.plot
           /\ lock(p, l, on).lumi = p.lumi
BY LockType DEF Sound, Recorded, PlayerObject, lock, canLock

LEMMA ProductSound ==
    ASSUME NEW p \in PlayerObject, p.locked \subseteq p.lumi
    PROVE  /\ Sound(p, grantProduct(p)) /\ grantProduct(p).plot = p.plot
           /\ grantProduct(p).lumi = p.lumi
BY GrantType, GrantRecords, MovesOnlyMoney, AmountType, CostType
   DEF grantProduct, Sound

\* A trade of two players who own different Lumi.
LEMMA TradeSound ==
    ASSUME NEW from \in PlayerObject, NEW to \in PlayerObject, NEW t \in Offer,
           from.locked \subseteq from.lumi, to.locked \subseteq to.lumi,
           from.lumi \cap to.lumi = {}, validateTrade(from, to, t)
    PROVE  LET mine == tradeFrom(from, t)  theirs == tradeTo(to, t)
           IN  /\ mine \in PlayerObject /\ theirs \in PlayerObject
               /\ Recorded(from, mine) /\ Recorded(to, theirs)
               /\ mine.lumi \cup theirs.lumi = from.lumi \cup to.lumi
               /\ mine.lumi \cap theirs.lumi = {}
               /\ from.locked = mine.locked /\ to.locked = theirs.locked
               /\ mine.locked \subseteq mine.lumi
               /\ theirs.locked \subseteq theirs.lumi
               /\ mine.plot = from.plot /\ theirs.plot = to.plot
<1> DEFINE cost == Petals(tradeTax(t) + t.offerPetals)
           paid == pay(from, cost)
           mine == tradeFrom(from, t)
           theirs == tradeTo(to, t)
<1>1. mine \in PlayerObject /\ theirs \in PlayerObject
  BY TradeFromType, TradeToType
<1>2. cost \in Balance
  BY AmountType, TaxType DEF Offer
<1>3. /\ paid.lumi = from.lumi /\ paid.locked = from.locked
      /\ paid.plot = from.plot /\ Recorded(from, paid)
  BY <1>2, PayRecords, MovesOnlyMoney
<1>4. /\ mine = [paid EXCEPT !.lumi = (from.lumi \ t.offerLumi) \cup t.requestLumi]
      /\ DOMAIN paid = DOMAIN from
  BY DEF tradeFrom, pay
<1>5. /\ mine.lumi = (from.lumi \ t.offerLumi) \cup t.requestLumi
      /\ mine.locked = from.locked /\ mine.plot = from.plot
      /\ Recorded(from, mine)
  <2> HIDE DEF paid
  <2> QED
    BY <1>3, <1>4 DEF PlayerObject, Recorded
<1>6. /\ theirs.lumi = (to.lumi \ t.requestLumi) \cup t.offerLumi
      /\ theirs.locked = to.locked /\ theirs.plot = to.plot
  BY DEF tradeTo, PlayerObject
<1>7. Recorded(to, theirs)
  BY DEF tradeTo, PlayerObject, Recorded, Balance, Sums, Currency, Offer
<1>8. /\ t.offerLumi \subseteq from.lumi \ from.locked
      /\ t.requestLumi \subseteq to.lumi \ to.locked
  BY DEF validateTrade
<1> HIDE DEF mine, theirs
<1>9. /\ mine.lumi \cup theirs.lumi = from.lumi \cup to.lumi
      /\ mine.lumi \cap theirs.lumi = {}
  BY <1>5, <1>6, <1>8
<1>10. mine.locked \subseteq mine.lumi /\ theirs.locked \subseteq theirs.lumi
  BY <1>5, <1>6, <1>8
<1> QED
  BY <1>1, <1>5, <1>6, <1>7, <1>9, <1>10 DEF mine, theirs

\* All the handlers at once, on the objects of players who own different Lumi.
Tidy(objects) ==
    /\ objects \in [Player -> PlayerObject]
    /\ \A p \in Player : objects[p].locked \subseteq objects[p].lumi
    /\ \A p, q \in Player : p # q => objects[p].lumi \cap objects[q].lumi = {}

LEMMA OneChanged ==
    ASSUME NEW old, Tidy(old), NEW who \in Player, NEW object,
           Sound(old[who], object), NEW new, new = Put(old, who, object)
    PROVE  /\ new \in [Player -> PlayerObject] /\ new[who] = object
           /\ \A p \in Player : p # who => new[p] = old[p]
           /\ \A p \in Player : /\ Recorded(old[p], new[p])
                                /\ new[p].locked \subseteq new[p].lumi
                                /\ old[p].lumi \subseteq new[p].lumi
BY DEF Tidy, Sound, Recorded, Put

LEMMA DoesSound ==
    ASSUME NEW j \in Job, NEW row, NEW x, NEW old, NEW new,
           Tidy(old), Does(j, row, x, old, new),
           j.op # "none", j.who \in Player, j.who # j.other,
           j.op \in {"visit", "create", "accept"} => j.other \in Player,
           j.op = "accept" => row \in TradeRow
    PROVE  /\ new \in [Player -> PlayerObject]
           /\ \A p \in Player :
                /\ Recorded(old[p], new[p])
                /\ new[p].locked \subseteq new[p].lumi
                /\ old[p].locked \subseteq new[p].lumi
                /\ p \notin {j.who, j.other} => new[p] = old[p]
                /\ \A l \in old[p].lumi : \E q \in Player : l \in new[q].lumi
                /\ j.op \notin {"harvest", "breed"} =>
                     \A l \in new[p].lumi : \E q \in Player : l \in old[q].lumi
<1> DEFINE me == old[j.who]
<1>1. me \in PlayerObject /\ me.locked \subseteq me.lumi
  BY DEF Tidy
<1>3. \A p \in Player : old[p].locked \subseteq old[p].lumi
  BY DEF Tidy
<1>4. j.op \in {"plant", "harvest", "breed", "visit", "lock", "unlock", "create",
                "accept", "cancel", "redeem"}
  BY DEF Job, Routes, TradeRoutes
<1>5. CASE new = old
  BY <1>3, <1>5 DEF Recorded, Tidy
<1>6. ASSUME NEW object, Sound(me, object), new = Put(old, j.who, object),
             object.lumi = me.lumi \/ j.op \in {"harvest", "breed"}
      PROVE  /\ new \in [Player -> PlayerObject]
             /\ \A p \in Player :
                  /\ Recorded(old[p], new[p])
                  /\ new[p].locked \subseteq new[p].lumi
                  /\ old[p].locked \subseteq new[p].lumi
                  /\ p \notin {j.who, j.other} => new[p] = old[p]
                  /\ \A l \in old[p].lumi : \E q \in Player : l \in new[q].lumi
                  /\ j.op \notin {"harvest", "breed"} =>
                       \A l \in new[p].lumi : \E q \in Player : l \in old[q].lumi
  <2>2. /\ new \in [Player -> PlayerObject] /\ new[j.who] = object
        /\ \A p \in Player : p # j.who => new[p] = old[p]
    BY <1>6, OneChanged
  <2>3. \A p \in Player : /\ Recorded(old[p], new[p])
                           /\ new[p].locked \subseteq new[p].lumi
                           /\ old[p].lumi \subseteq new[p].lumi
    BY <1>6, OneChanged
  <2> HIDE DEF me
  <2>4. ASSUME NEW p \in Player, NEW l \in new[p].lumi,
               j.op \notin {"harvest", "breed"}
        PROVE  \E q \in Player : l \in old[q].lumi
    BY <1>6, <2>2, <2>4 DEF me
  <2> QED
    BY <1>3, <2>2, <2>3, <2>4
<1>7. CASE j.op = "plant"
  <2>1. PICK n \in Planting :
          canPlant(me) /\ new = Put(old, j.who, plant(me, n))
    BY <1>7 DEF Does
  <2> HIDE DEF me
  <2>2. Sound(me, plant(me, n)) /\ plant(me, n).lumi = me.lumi
    BY <1>1, <2>1, PlantSound
  <2> QED
    BY <1>6, <2>1, <2>2
<1>8. CASE j.op = "harvest"
  <2>1. PICK l \in Lumi : new = Put(old, j.who, harvest(me, l))
    BY <1>8 DEF Does
  <2> HIDE DEF me
  <2>2. Sound(me, harvest(me, l))
    BY <1>1, HarvestSound
  <2> QED
    BY <1>6, <1>8, <2>1, <2>2
<1>9. CASE j.op = "breed"
  <2>1. PICK l \in Lumi : canBreed(me) /\ new = Put(old, j.who, breed(me, l))
    BY <1>9 DEF Does
  <2> HIDE DEF me
  <2>2. Sound(me, breed(me, l))
    BY <1>1, <2>1, BreedSound
  <2> QED
    BY <1>6, <1>9, <2>1, <2>2
<1>10. CASE j.op = "visit"
  <2>1. new = Put(old, j.who, visit(me, j.other)) /\ j.other \in Player
    BY <1>10 DEF Does
  <2> HIDE DEF me
  <2>2. Sound(me, visit(me, j.other)) /\ visit(me, j.other).lumi = me.lumi
    BY <1>1, <2>1, VisitSound
  <2> QED
    BY <1>6, <2>1, <2>2
<1>11. CASE j.op \in {"lock", "unlock"}
  <2> DEFINE on == j.op = "lock"
  <2>1. canLock(me, j.lumi) /\ new = Put(old, j.who, lock(me, j.lumi, on))
    BY <1>11 DEF Does
  <2>2. on \in BOOLEAN
    OBVIOUS
  <2> HIDE DEF me, on
  <2>3. Sound(me, lock(me, j.lumi, on)) /\ lock(me, j.lumi, on).lumi = me.lumi
    BY <1>1, <2>1, <2>2, LockSound
  <2> QED
    BY <1>6, <2>1, <2>3
<1>12. CASE j.op \in {"create", "cancel"}
  BY <1>5, <1>12 DEF Does
<1>13. CASE j.op = "redeem"
  <2>1. new = old \/ new = Put(old, j.who, grantProduct(me))
    BY <1>13 DEF Does
  <2> HIDE DEF me
  <2>2. Sound(me, grantProduct(me)) /\ grantProduct(me).lumi = me.lumi
    BY <1>1, ProductSound
  <2> QED
    BY <1>5, <1>6, <2>1, <2>2
<1>14. CASE j.op = "accept"
  <2> DEFINE from == old[j.other]
             mine == tradeTo(me, row.offer)
             theirs == tradeFrom(from, row.offer)
  <2>1. /\ j.other \in Player /\ row.offer \in Offer
        /\ validateTrade(from, me, row.offer)
        /\ new = [Put(old, j.who, mine) EXCEPT ![j.other] = theirs]
    BY <1>14 DEF Does, TradeRow
  <2>2. /\ from \in PlayerObject /\ from.locked \subseteq from.lumi
        /\ from.lumi \cap me.lumi = {}
    BY <2>1 DEF Tidy
  <2>3. /\ mine \in PlayerObject /\ theirs \in PlayerObject
        /\ Recorded(from, theirs) /\ Recorded(me, mine)
        /\ theirs.lumi \cup mine.lumi = from.lumi \cup me.lumi
        /\ from.locked = theirs.locked /\ me.locked = mine.locked
        /\ theirs.locked \subseteq theirs.lumi /\ mine.locked \subseteq mine.lumi
    <3> HIDE DEF me, from
    <3> QED
      BY <1>1, <2>1, <2>2, TradeSound
  <2>4. /\ new \in [Player -> PlayerObject]
        /\ new[j.who] = mine /\ new[j.other] = theirs
        /\ \A p \in Player : p \notin {j.who, j.other} => new[p] = old[p]
    <3> HIDE DEF me, from, mine, theirs
    <3> QED
      BY <2>1, <2>3 DEF Tidy, Put
  <2>5. ASSUME NEW p \in Player
        PROVE  /\ Recorded(old[p], new[p])
               /\ new[p].locked \subseteq new[p].lumi
               /\ old[p].locked \subseteq new[p].lumi
    <3>1. CASE p = j.who
      <4> HIDE DEF mine, theirs
      <4> QED
        BY <2>3, <2>4, <3>1
    <3>2. CASE p = j.other
      <4> HIDE DEF mine, theirs
      <4> QED
        BY <2>3, <2>4, <3>2
    <3>3. CASE p \notin {j.who, j.other}
      BY <1>3, <2>4, <3>3 DEF Recorded, Tidy
    <3> QED
      BY <3>1, <3>2, <3>3
  <2>6. ASSUME NEW p \in Player, NEW l \in old[p].lumi
        PROVE  \E q \in Player : l \in new[q].lumi
    <3>1. CASE p \in {j.who, j.other}
      <4>1. l \in mine.lumi \/ l \in theirs.lumi
        <5> HIDE DEF mine, theirs
        <5> QED
          BY <2>3, <3>1
      <4> HIDE DEF mine, theirs, me, from
      <4> QED
        BY <2>1, <2>4, <4>1
    <3>2. CASE p \notin {j.who, j.other}
      BY <2>4, <3>2
    <3> QED
      BY <3>1, <3>2
  <2>7. ASSUME NEW p \in Player, NEW l \in new[p].lumi
        PROVE  \E q \in Player : l \in old[q].lumi
    <3>1. CASE p \in {j.who, j.other}
      <4>1. l \in mine.lumi \/ l \in theirs.lumi
        <5> HIDE DEF mine, theirs, me, from
        <5> QED
          BY <2>4, <3>1
      <4>2. l \in me.lumi \/ l \in from.lumi
        <5> HIDE DEF mine, theirs, me, from
        <5> QED
          BY <2>3, <4>1
      <4> QED
        BY <2>1, <4>2
    <3>2. CASE p \notin {j.who, j.other}
      BY <2>4, <3>2
    <3> QED
      BY <3>1, <3>2
  <2> QED
    BY <2>4, <2>5, <2>6, <2>7
<1> QED
  BY <1>4, <1>7, <1>8, <1>9, <1>10, <1>11, <1>12, <1>13, <1>14

(***************************************************************************)
(* What the invariant says of one request.                                 *)
(***************************************************************************)
LEMMA CommittedType ==
    ASSUME TypeInv, NEW p \in Player
    PROVE  Committed(p) \in PlayerObject /\ Committed(p).locked \subseteq Committed(p).lumi
BY NoEntriesType DEF TypeInv, TypeOK, Committed, PlayerObject, Rows

LEMMA BeforeTidy ==
    ASSUME TypeInv, NEW r \in Req
    PROVE  /\ Tidy(Before(r))
           /\ \A p \in Player : Before(r)[p].ledger = NoEntries
<1>1. \A p \in Player : /\ Before(r)[p] \in PlayerObject
                        /\ Before(r)[p].locked \subseteq Before(r)[p].lumi
                        /\ Before(r)[p].ledger = NoEntries
                        /\ Before(r)[p].lumi \subseteq Rows(p)
  <2> TAKE p \in Player
  <2>1. CASE p \in Hydrated(r)
    <3>1. Before(r)[p] = Committed(p)
      BY <2>1 DEF Before
    <3> QED
      BY <3>1, CommittedType DEF Committed
  <2>2. CASE p \notin Hydrated(r)
    <3>1. Before(r)[p] = Blank
      BY <2>2 DEF Before
    <3> QED
      BY <3>1, BlankType DEF Blank
  <2> QED
    BY <2>1, <2>2
<1>2. Before(r) \in [Player -> PlayerObject]
  BY <1>1 DEF Before
<1>3. \A p, q \in Player : p # q => Rows(p) \cap Rows(q) = {}
  BY DEF Rows
<1> QED
  BY <1>1, <1>2, <1>3 DEF Tidy

LEMMA Standing ==
    ASSUME TypeInv, IsoInv, NEW r \in Req, pc[r] # "idle"
    PROVE  /\ job[r] \in Job /\ job[r].op # "none"
           /\ job[r].who \in Player /\ job[r].who # job[r].other
           /\ job[r].other \in Player \cup {NoPlayer}
           /\ job[r].op \in {"visit", "create"} => job[r].other \in Player
           /\ at[r] \in Hydrated(r) /\ at[r] \in {job[r].who, job[r].other}
           /\ job[r].who \in Hydrated(r) /\ NoPlayer \notin Hydrated(r)
           /\ Hydrated(r) \subseteq Player
           /\ Hydrated(r) \subseteq Footprint(job[r])
<1>1. Kept(r) /\ Own(r) /\ job[r] \in Job
  BY DEF TypeInv, TypeOK, WellFormed, IsoInv
<1>2. /\ job[r].who \in Player /\ at[r] \in Player
      /\ job[r].other \in Player \cup {NoPlayer}
      /\ job[r].op \in {"visit", "create"} => job[r].other \in Player
  BY <1>1 DEF Kept, Job
<1>3. /\ job[r].op # "none" /\ job[r].who # job[r].other
      /\ at[r] \in {job[r].who, job[r].other}
  BY <1>1 DEF Own, Placed
<1>4. Hydrated(r) \subseteq Player /\ job[r].who \in Hydrated(r)
      /\ at[r] \in Hydrated(r) /\ NoPlayer \notin Hydrated(r)
  BY <1>2, <1>3, PgStoreAssumption DEF Hydrated
<1>5. Hydrated(r) \subseteq Footprint(job[r])
  <2>1. CASE job[r].op = "accept"
    <3>1. job[r].other = NoPlayer \/ job[r].other = trades[job[r].trade].from
      BY <1>1, <2>1 DEF Own, Informed, Answers
    <3> QED
      BY <2>1, <3>1 DEF Footprint, Hydrated
  <2>2. CASE job[r].op = "cancel"
    BY <1>1, <2>2 DEF Kept, Footprint, Hydrated
  <2>3. CASE job[r].op \notin {"accept", "cancel"}
    BY <2>3 DEF Footprint, Hydrated
  <2> QED
    BY <2>1, <2>2, <2>3
<1> QED
  BY <1>1, <1>2, <1>3, <1>4, <1>5

\* A request that settles a trade, once it has read it.
LEMMA Settling ==
    ASSUME TypeInv, IsoInv, NEW r \in Req, Answers(r),
           pc[r] \in Committing \cup {"run"} \/ trd[r] # NoRow
    PROVE  /\ job[r].trade \in Trade /\ trades[job[r].trade] \in TradeRow
           /\ trades[job[r].trade] # NoRow
           /\ trades[job[r].trade].status = "open"
           /\ trd[r] \in TradeRow /\ trd[r] # NoRow
           /\ trd[r].offer = trades[job[r].trade].offer
           /\ job[r].op = "accept" =>
                /\ job[r].other = trades[job[r].trade].from
                /\ job[r].who = trades[job[r].trade].to
                /\ job[r].other \in Player
<1>1. /\ Kept(r) /\ Informed(r) /\ trd[r] \in TradeRow \cup {NoRow}
      /\ trades \in [Trade -> TradeRow \cup {NoRow}]
  BY DEF TypeInv, TypeOK, WellFormed, IsoInv, Own
<1>2. /\ job[r].trade \in Trade /\ trades[job[r].trade] # NoRow
      /\ trades[job[r].trade] \in TradeRow
  BY <1>1 DEF Kept
<1>3. trd[r] # NoRow
  BY <1>1 DEF Informed, Committing, Reading
<1>4. /\ trades[job[r].trade].status = "open"
      /\ job[r].op = "accept" => /\ job[r].other = trades[job[r].trade].from
                                 /\ job[r].who = trades[job[r].trade].to
      /\ \/ trd[r] = trades[job[r].trade]
         \/ \E s : trd[r] = resolve(trades[job[r].trade], s)
  BY <1>1, <1>3 DEF Informed
<1>5. trd[r].offer = trades[job[r].trade].offer
  BY <1>2, <1>4 DEF resolve, TradeRow
<1>6. trades[job[r].trade].from \in Player
  BY <1>2 DEF TradeRow
<1> QED
  BY <1>1, <1>2, <1>3, <1>4, <1>5, <1>6

\* What a unit of work that is being committed does to its players' objects.
LEMMA Working ==
    ASSUME TypeInv, IsoInv, NEW r \in Req, pc[r] \in Committing
    PROVE  /\ Does(job[r], trd[r], grants[r], Before(r), ctx[r])
           /\ \A p \in Player :
                /\ Recorded(Before(r)[p], ctx[r][p])
                /\ ctx[r][p].locked \subseteq ctx[r][p].lumi
                /\ Before(r)[p].locked \subseteq ctx[r][p].lumi
                /\ p \notin Hydrated(r) => ctx[r][p] = Blank
                /\ \A l \in Before(r)[p].lumi : l \in Carried(r)
                /\ job[r].op \notin {"harvest", "breed"} =>
                     \A l \in ctx[r][p].lumi : owner[l] \in Hydrated(r)
<1>1. pc[r] # "idle"
  BY DEF Committing
<1>2. Does(job[r], trd[r], grants[r], Before(r), ctx[r])
  BY DEF IsoInv, Own, Faithful
<1>3. job[r].op = "accept" => trd[r] \in TradeRow /\ job[r].other \in Player
  BY Settling DEF Answers
<1>4. /\ ctx[r] \in [Player -> PlayerObject]
      /\ \A p \in Player :
           /\ Recorded(Before(r)[p], ctx[r][p])
           /\ ctx[r][p].locked \subseteq ctx[r][p].lumi
           /\ Before(r)[p].locked \subseteq ctx[r][p].lumi
           /\ p \notin {job[r].who, job[r].other} => ctx[r][p] = Before(r)[p]
           /\ \A l \in Before(r)[p].lumi : \E q \in Player : l \in ctx[r][q].lumi
           /\ job[r].op \notin {"harvest", "breed"} =>
                \A l \in ctx[r][p].lumi : \E q \in Player : l \in Before(r)[q].lumi
  BY <1>1, <1>2, <1>3, Standing, BeforeTidy, DoesSound
<1>5. \A p \in Player : p \notin Hydrated(r) =>
        Before(r)[p] = Blank /\ p \notin {job[r].who, job[r].other}
  BY <1>1, Standing, PgStoreAssumption DEF Before, Hydrated
<1>6. \A p \in Player : p \notin Hydrated(r) => ctx[r][p] = Blank
  BY <1>4, <1>5
<1>7. \A p \in Player : \A l \in ctx[r][p].lumi : l \in Carried(r)
  BY <1>6 DEF Carried, Blank
<1>8. \A p \in Player : \A l \in Before(r)[p].lumi : owner[l] \in Hydrated(r)
  BY DEF Before, Committed, Rows, Blank
<1> QED
  BY <1>2, <1>4, <1>6, <1>7, <1>8

(***************************************************************************)
(* A step that leaves a request's rows, its trade and its Lumi alone, and  *)
(* the request itself, leaves what is known of it intact.                  *)
(***************************************************************************)
SameRows(p) ==
    /\ wallets'[p] = wallets[p] /\ visitLog'[p] = visitLog[p]
    /\ plots'[p] = plots[p]
    /\ \A l \in Lumi : owner'[l] = p <=> owner[l] = p
    /\ \A l \in Lumi : owner[l] = p => (l \in locked' <=> l \in locked)

LEMMA SameObject ==
    ASSUME NEW p, SameRows(p)
    PROVE  /\ Committed(p)' = Committed(p) /\ Rows(p)' = Rows(p)
           /\ \A s \in Req : pc'[s] = pc[s] => SoFar(s, p)' = SoFar(s, p)
<1>1. Rows(p)' = Rows(p)
  BY DEF SameRows, Rows
<1>2. Rows(p)' \cap locked' = Rows(p) \cap locked
  BY <1>1 DEF SameRows, Rows
<1> QED
  BY <1>1, <1>2 DEF SameRows, Committed, SoFar

SameRequest(s) ==
    /\ job'[s] = job[s] /\ pc'[s] = pc[s] /\ at'[s] = at[s]
    /\ ctx'[s] = ctx[s] /\ trd'[s] = trd[s]
    /\ pc[s] = "deleting" => snap'[s] = snap[s]
    /\ cleared'[s] = cleared[s] /\ grants'[s] = grants[s]

Undisturbed(s) ==
    /\ SameRequest(s)
    /\ pc[s] # "idle" => \A p \in Hydrated(s) : SameRows(p)
    /\ Answers(s) => trades'[job[s].trade] = trades[job[s].trade]
    /\ \A p \in Player : \A l \in ctx[s][p].lumi :
         owner'[l] = owner[l] /\ (seedOf[l] # Unminted => seedOf'[l] = seedOf[l])

LEMMA Frame ==
    ASSUME TypeInv, IsoInv, NEW s \in Req, Undisturbed(s)
    PROVE  Own(s)' /\ Footprint(job[s])' = Footprint(job[s])
<1>1. Own(s) /\ SameRequest(s)
  BY DEF IsoInv, Undisturbed
<1>2. Hydrated(s)' = Hydrated(s)
  BY <1>1 DEF SameRequest, Hydrated
<1>3. Answers(s) => trades'[job[s].trade] = trades[job[s].trade]
  BY DEF Undisturbed
<1>4. Placed(s)'
  BY <1>1 DEF Own, Placed, SameRequest
<1>5. createTrade(s)' = createTrade(s)
  BY <1>1 DEF SameRequest, createTrade
<1>6. Informed(s)'
  BY <1>1, <1>3, <1>5 DEF Own, Informed, Answers, SameRequest
<1>7. Footprint(job[s])' = Footprint(job[s])
  BY <1>1, <1>3 DEF Footprint, Answers, SameRequest
<1>8. Carries(s)'
  BY <1>1, <1>2 DEF Own, Carries, SameRequest, Undisturbed
<1>9. CASE pc[s] = "idle"
  BY <1>1, <1>4, <1>6, <1>7, <1>8, <1>9
     DEF Own, Faithful, Deleted, SameRequest, Reading, Committing
<1>10. CASE pc[s] # "idle"
  <2>1. \A p \in Hydrated(s) : /\ Committed(p)' = Committed(p)
                               /\ Rows(p)' = Rows(p)
                               /\ SoFar(s, p)' = SoFar(s, p)
    BY <1>1, <1>10, SameObject DEF Undisturbed, SameRequest
  <2>2. at[s] \in Hydrated(s) /\ job[s].who \in Hydrated(s)
    BY <1>10, Standing
  <2>3. Before(s)' = Before(s)
    BY <1>2, <2>1 DEF Before
  <2>4. Faithful(s)'
    <3>1. ASSUME pc'[s] \in Reading, NEW p \in Player
          PROVE  ctx'[s][p] = IF p = at'[s] THEN SoFar(s, p)'
                              ELSE IF p = job'[s].who THEN Committed(p)' ELSE Blank
      BY <1>1, <2>1, <2>2, <3>1 DEF Own, Faithful, SameRequest
    <3> QED
      BY <1>1, <2>3, <3>1 DEF Own, Faithful, SameRequest
  <2>5. pc[s] = "save" =>
          {l \in Lumi : owner'[l] \in Hydrated(s)} = {l \in Lumi : owner[l] \in Hydrated(s)}
    BY <1>10 DEF Undisturbed, SameRows
  <2>6. Deleted(s)'
    BY <1>1, <1>2, <2>1, <2>2, <2>5 DEF Own, Deleted, SameRequest
  <2> QED
    BY <1>4, <1>6, <1>7, <1>8, <2>4, <2>6 DEF Own
<1> QED
  BY <1>9, <1>10

(***************************************************************************)
(* The actions, one after the other.  Each leaves the other requests       *)
(* undisturbed and keeps what is known of its own.                         *)
(***************************************************************************)
LEMMA Combine ==
    ASSUME TypeInv, IsoInv, NEW r \in Req,
           \A s \in Req \ {r} : Undisturbed(s),
           Own(r)', Minted', TwoSides',
           pc'[r] # "idle" =>
             \A s \in Req \ {r} : pc[s] # "idle" =>
               /\ Footprint(job[r])' \cap Footprint(job[s]) = {}
               /\ \A p, q \in Player : ctx'[r][p].lumi \cap ctx[s][q].lumi = {}
    PROVE  IsoInv'
<1>1. \A s \in Req \ {r} : /\ Own(s)' /\ SameRequest(s)
                           /\ Footprint(job[s])' = Footprint(job[s])
  BY Frame DEF Undisturbed
<1>2. \A s \in Req : Own(s)'
  BY <1>1
<1>3. Apart'
  <2> SUFFICES ASSUME NEW s \in Req, NEW t \in Req, s # t,
                      pc'[s] # "idle", pc'[t] # "idle"
               PROVE  Disjoint(s, t)'
    BY DEF Apart
  <2>1. CASE s # r /\ t # r
    BY <1>1, <2>1 DEF IsoInv, Apart, Disjoint, SameRequest
  <2>2. CASE s = r
    BY <1>1, <2>2 DEF Disjoint, SameRequest
  <2>3. CASE t = r
    BY <1>1, <2>3 DEF Disjoint, SameRequest
  <2> QED
    BY <2>1, <2>2, <2>3
<1> QED
  BY <1>2, <1>3 DEF IsoInv

\* A step that writes none of the tables that getPlayer and getTrade read.
Silent == UNCHANGED <<wallets, visitLog, plots, owner, locked, trades>>

OnlyMints == \A l \in Lumi : seedOf[l] # Unminted => seedOf'[l] = seedOf[l]

LEMMA Quiet ==
    ASSUME TypeInv, IsoInv, NEW r \in Req, Silent, OnlyMints,
           \A s \in Req \ {r} : SameRequest(s),
           Own(r)',
           pc'[r] # "idle" =>
             \A s \in Req \ {r} : pc[s] # "idle" =>
               /\ Footprint(job[r])' \cap Footprint(job[s]) = {}
               /\ \A p, q \in Player : ctx'[r][p].lumi \cap ctx[s][q].lumi = {}
    PROVE  IsoInv'
<1>1. \A p : SameRows(p)
  BY DEF Silent, SameRows
<1>2. \A s \in Req : \A p \in Player : ctx[s][p].lumi \subseteq Lumi
  BY DEF TypeInv, TypeOK, PlayerObject
<1>3. \A s \in Req \ {r} : Undisturbed(s)
  BY <1>1, <1>2 DEF Undisturbed, Silent, OnlyMints
<1>4. Minted' /\ TwoSides'
  BY DEF IsoInv, Minted, TwoSides, Silent, OnlyMints
<1> QED
  BY <1>3, <1>4, Combine

\* As above, of a request that keeps its footprint and gains no Lumi.
LEMMA QuietStep ==
    ASSUME TypeInv, IsoInv, NEW r \in Req, Silent, OnlyMints,
           \A s \in Req \ {r} : SameRequest(s),
           Own(r)', pc[r] # "idle", Footprint(job[r])' = Footprint(job[r]),
           \A p \in Player : ctx'[r][p].lumi \subseteq ctx[r][p].lumi
    PROVE  IsoInv'
<1>1. \A s \in Req \ {r} : pc[s] # "idle" => Disjoint(r, s)
  BY DEF IsoInv, Apart
<1>2. \A s \in Req \ {r} : pc[s] # "idle" =>
        /\ Footprint(job[r])' \cap Footprint(job[s]) = {}
        /\ \A p, q \in Player : ctx'[r][p].lumi \cap ctx[s][q].lumi = {}
  BY <1>1 DEF Disjoint
<1> QED
  BY <1>2, Quiet

LEMMA InitIso == Init => IsoInv
BY PgStoreAssumption
   DEF Init, IsoInv, Own, Placed, Informed, Answers, TradeRoutes, Faithful,
       Reading, Committing, Deleted, Carries, Blank, Apart, Minted, TwoSides,
       Bred, Unminted, NoJob

LEMMA ArriveIso ==
    ASSUME Workload = "isolated", Inv, NEW r \in Req, Arrive(r)
    PROVE  IsoInv'
<1>1. PICK j : Sendable(j) /\ Submit(r, j)
  BY ArriveSubmits
<1>2. TypeInv /\ IsoInv /\ Own(r) /\ TypeOK
  BY DEF Inv, IsoInv, TypeInv
<1>3. /\ pc[r] = "idle" /\ Admitted(j)
      /\ job' = [job EXCEPT ![r] = j] /\ at' = [at EXCEPT ![r] = j.who]
      /\ pc' = [pc EXCEPT ![r] = "players"]
      /\ UNCHANGED <<tables, ctx, trd, snap, cleared, seedOf, grants>>
  BY <1>1 DEF Submit
<1>4. /\ job'[r] = j /\ at'[r] = j.who /\ pc'[r] = "players"
      /\ \A s \in Req \ {r} : SameRequest(s)
  BY <1>2, <1>3 DEF TypeOK, SameRequest
<1>5. trd[r] = NoRow /\ grants[r] = NoTx /\ cleared[r] = {}
      /\ \A p \in Player : ctx[r][p] = Blank
  BY <1>2, <1>3 DEF Inv, TradeInv, Answering, GrantInv, Granting, Own, Deleted,
                    Faithful, Committing
<1>6. Own(r)'
  <2>1. Placed(r)'
    BY <1>1, <1>4 DEF Placed, Sendable, Routes, TradeRoutes
  <2>2. Informed(r)'
    BY <1>1, <1>3, <1>4, <1>5 DEF Informed, Answers, Sendable, Reading, Committing
  <2>3. \A p \in Player : SoFar(r, p)' = Blank
    BY <1>4 DEF SoFar, Blank
  <2>4. Faithful(r)'
    BY <1>3, <1>4, <1>5, <2>3 DEF Faithful, Reading, Committing
  <2>5. Deleted(r)' /\ Carries(r)'
    BY <1>3, <1>4, <1>5 DEF Deleted, Carries, Committing, Blank
  <2> QED
    BY <2>1, <2>2, <2>4, <2>5 DEF Own
<1>7. Footprint(job[r])' = Footprint(j)
  BY <1>3, <1>4 DEF Footprint, tables
<1>8. \A s \in Req \ {r} : pc[s] # "idle" =>
        /\ Footprint(job[r])' \cap Footprint(job[s]) = {}
        /\ \A p, q \in Player : ctx'[r][p].lumi \cap ctx[s][q].lumi = {}
  BY <1>3, <1>5, <1>7 DEF Admitted, Busy, Blank
<1> QED
  BY <1>2, <1>3, <1>4, <1>6, <1>8, Quiet DEF Silent, OnlyMints, tables

\* The queries that leave one field of one copy.
LEMMA QueriesIso ==
    ASSUME Inv, NEW r \in Req,
           ReadPlayers(r) \/ ReadWallets(r) \/ ReadGardens(r)
    PROVE  IsoInv'
<1>1. TypeInv /\ IsoInv /\ Own(r) /\ TypeOK
  BY DEF Inv, IsoInv, TypeInv
<1>2. /\ pc[r] \in {"players", "wallets", "gardens"}
      /\ UNCHANGED <<tables, job, at, trd, snap, cleared, history>>
      /\ \E next \in {"wallets", "gardens", "lumi"} :
           pc' = [pc EXCEPT ![r] = next]
      /\ \E copy : ctx' = [ctx EXCEPT ![r][at[r]] = copy]
  BY DEF ReadPlayers, ReadWallets, ReadGardens, Read
<1>3. /\ pc'[r] \in {"wallets", "gardens", "lumi"}
      /\ \A s \in Req \ {r} : SameRequest(s)
  BY <1>1, <1>2 DEF TypeOK, SameRequest, history
<1>4. /\ at[r] \in Player /\ pc[r] # "idle"
      /\ ctx[r] \in [Player -> PlayerObject]
      /\ ctx[r][at[r]] = SoFar(r, at[r])
  BY <1>1, <1>2, Standing DEF TypeOK, Own, Faithful, Reading
<1>5. /\ ctx'[r][at[r]] = SoFar(r, at[r])'
      /\ \A p \in Player : p # at[r] => ctx'[r][p] = ctx[r][p]
  <2>1. CASE ReadPlayers(r)
    <3>1. /\ pc[r] = "players" /\ pc' = [pc EXCEPT ![r] = "wallets"]
          /\ ctx' = [ctx EXCEPT ![r][at[r]] =
                        [ctx[r][at[r]] EXCEPT !.visits = visitLog[at[r]]]]
      BY <2>1 DEF ReadPlayers, Read
    <3>2. /\ pc'[r] = "wallets"
          /\ ctx'[r][at[r]] = [SoFar(r, at[r]) EXCEPT !.visits = visitLog[at[r]]]
          /\ \A p \in Player : p # at[r] => ctx'[r][p] = ctx[r][p]
      BY <1>1, <1>4, <3>1 DEF TypeOK
    <3> QED
      BY <1>2, <3>1, <3>2 DEF SoFar, tables
  <2>2. CASE ReadWallets(r)
    <3>1. /\ pc[r] = "wallets" /\ pc' = [pc EXCEPT ![r] = "gardens"]
          /\ ctx' = [ctx EXCEPT ![r][at[r]] =
                        [ctx[r][at[r]] EXCEPT !.wallet = wallets[at[r]]]]
      BY <2>2 DEF ReadWallets, Read
    <3>2. /\ pc'[r] = "gardens"
          /\ ctx'[r][at[r]] = [SoFar(r, at[r]) EXCEPT !.wallet = wallets[at[r]]]
          /\ \A p \in Player : p # at[r] => ctx'[r][p] = ctx[r][p]
      BY <1>1, <1>4, <3>1 DEF TypeOK
    <3> QED
      BY <1>2, <3>1, <3>2 DEF SoFar, tables
  <2>3. CASE ReadGardens(r)
    <3>1. /\ pc[r] = "gardens" /\ pc' = [pc EXCEPT ![r] = "lumi"]
          /\ ctx' = [ctx EXCEPT ![r][at[r]] =
                        [ctx[r][at[r]] EXCEPT !.plot = plots[at[r]]]]
      BY <2>3 DEF ReadGardens, Read
    <3>2. /\ pc'[r] = "lumi"
          /\ ctx'[r][at[r]] = [SoFar(r, at[r]) EXCEPT !.plot = plots[at[r]]]
          /\ \A p \in Player : p # at[r] => ctx'[r][p] = ctx[r][p]
      BY <1>1, <1>4, <3>1 DEF TypeOK
    <3> QED
      BY <1>2, <3>1, <3>2 DEF SoFar, tables
  <2> QED
    BY <2>1, <2>2, <2>3
<1>6. Own(r)'
  <2>1. Placed(r)' /\ Informed(r)'
    BY <1>1, <1>2, <1>3
       DEF Own, Placed, Informed, Answers, Reading, Committing, tables, history
  <2>2. \A p \in Player : Committed(p)' = Committed(p)
    BY <1>2 DEF Committed, Rows, tables
  <2>3. Faithful(r)'
    BY <1>1, <1>2, <1>3, <1>5, <2>2 DEF Own, Faithful, Reading, Committing
  <2>4. Deleted(r)'
    BY <1>1, <1>2, <1>3 DEF Own, Deleted, Committing
  <2>5. Hydrated(r)' = Hydrated(r)
    BY <1>2 DEF Hydrated
  <2>6. Carries(r)'
    BY <1>1, <1>2, <1>5, <2>5 DEF Own, Carries, tables, history, SoFar
  <2> QED
    BY <2>1, <2>3, <2>4, <2>6 DEF Own
<1>7. /\ Footprint(job[r])' = Footprint(job[r])
      /\ \A p \in Player : ctx'[r][p].lumi \subseteq ctx[r][p].lumi
  BY <1>2, <1>5 DEF Footprint, tables, SoFar
<1> QED
  BY <1>1, <1>2, <1>3, <1>4, <1>6, <1>7, QuietStep
     DEF Silent, OnlyMints, tables, history

\* The last query of a player: its copy is now the committed object.
LEMMA ReadLumiIso ==
    ASSUME Inv, NEW r \in Req, ReadLumi(r)
    PROVE  IsoInv'
<1> DEFINE who == job[r].who  other == job[r].other
<1>1. TypeInv /\ IsoInv /\ Own(r) /\ TypeOK /\ Kept(r)
  BY DEF Inv, IsoInv, TypeInv, WellFormed
<1>2. /\ pc[r] = "lumi"
      /\ UNCHANGED <<tables, job, trd, snap, cleared, history>>
      /\ pc' = [pc EXCEPT ![r] = NextAwait(r)]
      /\ ctx' = [ctx EXCEPT ![r][at[r]] =
                   [ctx[r][at[r]] EXCEPT !.lumi = Rows(at[r]),
                                         !.locked = Rows(at[r]) \cap locked]]
      /\ at' = IF NextAwait(r) = "players"
               THEN [at EXCEPT ![r] = job[r].other] ELSE at
  BY DEF ReadLumi, Read
<1>3. /\ pc'[r] = NextAwait(r)
      /\ at'[r] = IF NextAwait(r) = "players" THEN other ELSE at[r]
      /\ \A s \in Req \ {r} : SameRequest(s)
  BY <1>1, <1>2 DEF TypeOK, SameRequest, history
<1>4. /\ at[r] \in Player /\ pc[r] # "idle" /\ at[r] \in {who, other}
      /\ who # other /\ who \in Player /\ other \in Player \cup {NoPlayer}
      /\ at[r] \in Hydrated(r) /\ job[r] \in Job
      /\ ctx[r] \in [Player -> PlayerObject]
      /\ \A p \in Player : ctx[r][p] = IF p = at[r] THEN SoFar(r, p)
                                       ELSE IF p = who THEN Committed(p) ELSE Blank
  BY <1>1, <1>2, Standing DEF TypeOK, Own, Faithful, Reading
<1>5. \A p \in Player : ctx'[r][p] = IF p \in {at[r], who} THEN Committed(p)
                                     ELSE Blank
  <2>1. ctx'[r][at[r]] = [SoFar(r, at[r]) EXCEPT !.lumi = Rows(at[r]),
                                           !.locked = Rows(at[r]) \cap locked]
    BY <1>1, <1>2, <1>4 DEF TypeOK
  <2>2. [SoFar(r, at[r]) EXCEPT !.lumi = Rows(at[r]),
                                !.locked = Rows(at[r]) \cap locked] = Committed(at[r])
    <3> DEFINE read == [wallet |-> wallets[at[r]], ledger |-> NoEntries,
                        visits |-> visitLog[at[r]], plot |-> plots[at[r]],
                        lumi |-> {}, locked |-> {}]
           whole == [wallet |-> wallets[at[r]], ledger |-> NoEntries,
                     visits |-> visitLog[at[r]], plot |-> plots[at[r]],
                     lumi |-> Rows(at[r]), locked |-> {}]
    <3>1. SoFar(r, at[r]) = read
      BY <1>2 DEF SoFar
    <3>2. [read EXCEPT !.lumi = Rows(at[r])] = whole
      OBVIOUS
    <3>3. [whole EXCEPT !.locked = Rows(at[r]) \cap locked] = Committed(at[r])
      BY DEF Committed
    <3>4. read \in PlayerObject
      BY <1>4, <3>1
    <3>5. [read EXCEPT !.lumi = Rows(at[r]), !.locked = Rows(at[r]) \cap locked]
            = [[read EXCEPT !.lumi = Rows(at[r])] EXCEPT
                 !.locked = Rows(at[r]) \cap locked]
      <4> HIDE DEF read
      <4> QED
        BY <3>4 DEF PlayerObject
    <3> HIDE DEF read, whole
    <3> QED
      BY <3>1, <3>2, <3>3, <3>5
  <2>3. \A p \in Player : p # at[r] => ctx'[r][p] = ctx[r][p]
    BY <1>1, <1>2, <1>4 DEF TypeOK
  <2> QED
    BY <1>4, <2>1, <2>2, <2>3
<1>12. \A p \in Player : ctx'[r][p].lumi = IF p \in {at[r], who} THEN Rows(p)
                                           ELSE {}
  <2>1. \A p \in Player : Committed(p).lumi = Rows(p) /\ Blank.lumi = {}
    BY DEF Committed, Blank
  <2> QED
    BY <1>5, <2>1
<1>6. /\ Hydrated(r)' = Hydrated(r) /\ Before(r)' = Before(r)
      /\ \A p \in Player : Committed(p)' = Committed(p)
  BY <1>2 DEF Hydrated, Before, Committed, Rows, tables
\* Where the request goes next, and what it has read by then.
<1>7. \/ /\ NextAwait(r) = "players" /\ at[r] = who /\ other \in Player
         /\ job[r].op \in {"visit", "create"}
      \/ /\ NextAwait(r) = "run" /\ at[r] = other /\ job[r].op # "cancel"
      \/ /\ NextAwait(r) \in {"trades", "claim", "run"}
         /\ at[r] = who /\ other = NoPlayer
         /\ NextAwait(r) = "trades" <=> Answers(r)
  <2>1. CASE at[r] = other
    <3>1. NextAwait(r) = "run" /\ other \in Player
      BY <1>4, <2>1 DEF NextAwait
    <3>2. job[r].op \in {"visit", "create", "accept"}
      BY <1>1, <3>1, PgStoreAssumption DEF Own, Placed
    <3> QED
      BY <2>1, <3>1, <3>2
  <2>2. CASE at[r] = who
    <3>1. NextAwait(r) = CASE job[r].op \in {"visit", "create"} -> "players"
                           [] job[r].op \in {"accept", "cancel"} -> "trades"
                           [] job[r].op = "redeem" -> "claim"
                           [] OTHER -> "run"
      BY <1>4, <2>2 DEF NextAwait
    <3>2. CASE job[r].op \in {"visit", "create"}
      BY <1>1, <1>4, <2>2, <3>1, <3>2 DEF Kept
    <3>3. CASE job[r].op \in {"accept", "cancel"}
      <4>1. NextAwait(r) = "trades"
        BY <3>1, <3>3
      <4>2. other = NoPlayer
        BY <1>1, <1>2, <1>4, <2>2, <3>3 DEF Own, Informed, Placed, Answers, Reading
      <4> QED
        BY <2>2, <3>3, <4>1, <4>2 DEF Answers
    <3>4. CASE job[r].op \notin {"visit", "create", "accept", "cancel"}
      <4>1. NextAwait(r) \in {"claim", "run"}
        BY <3>1, <3>4
      <4>2. other = NoPlayer
        BY <1>1, <3>4 DEF Own, Placed
      <4> QED
        BY <2>2, <3>4, <4>1, <4>2 DEF Answers
    <3> QED
      BY <3>2, <3>3, <3>4
  <2> QED
    BY <1>4, <2>1, <2>2
<1>8. Own(r)'
  <2>1. Placed(r)'
    BY <1>1, <1>2, <1>3, <1>4, <1>7 DEF Own, Placed
  <2>2. Informed(r)'
    <3>1. trd' = trd /\ job' = job /\ trades' = trades /\ grants' = grants
      BY <1>2 DEF tables, history
    <3>2. createTrade(r)' = createTrade(r)
      BY <3>1 DEF createTrade
    <3>3. pc[r] \in Reading /\ pc[r] \notin Committing
          /\ pc'[r] \notin Committing /\ pc'[r] # "idle"
      BY <1>2, <1>3, <1>7 DEF Reading, Committing
    <3>4. job[r].op = "cancel" => pc'[r] = "trades" /\ trd[r] = NoRow
      BY <1>1, <1>3, <1>7, <3>3 DEF Own, Informed, Answers
    <3>5. job[r].op = "accept" =>
            IF trd[r] = NoRow THEN pc'[r] = "trades" ELSE pc'[r] = "run"
      BY <1>1, <1>3, <1>4, <1>7, <3>3, PgStoreAssumption DEF Own, Informed, Answers
    <3>6. Informed(r)
      BY <1>1 DEF Own
    <3>7. CASE Answers(r)
      BY <3>1, <3>3, <3>4, <3>5, <3>6, <3>7
         DEF Informed, Answers, Reading, TradeRoutes
    <3>8. CASE ~Answers(r)
      BY <3>1, <3>2, <3>3, <3>6, <3>8 DEF Informed, Answers
    <3> QED
      BY <3>7, <3>8
  <2>3. Faithful(r)'
    <3>1. CASE pc'[r] = "players"
      <4>1. at'[r] = other /\ at[r] = who
        BY <1>3, <1>7, <3>1
      <4>2. \A p \in Player : SoFar(r, p)' = Blank
        BY <3>1 DEF SoFar, Blank
      <4> QED
        BY <1>2, <1>4, <1>5, <1>6, <3>1, <4>1, <4>2 DEF Faithful, Committing
    <3>2. CASE pc'[r] # "players"
      <4>1. Hydrated(r) = {at[r], who}
        BY <1>3, <1>4, <1>7, <3>2, PgStoreAssumption DEF Hydrated
      <4>2. ctx'[r] \in [Player -> PlayerObject]
        BY <1>1, <1>5, CommittedType, BlankType, <1>2, <1>4 DEF TypeOK
      <4>3. ctx'[r] = Before(r)
        BY <1>5, <4>1, <4>2 DEF Before
      <4>4. pc'[r] \in {"trades", "claim", "run"}
        BY <1>3, <1>7, <3>2
      <4> QED
        BY <1>6, <4>3, <4>4 DEF Faithful, Reading, Committing
    <3> QED
      BY <3>1, <3>2
  <2>4. Deleted(r)'
    <3>1. pc'[r] \notin Committing /\ pc[r] \notin Committing
      BY <1>2, <1>3, <1>7 DEF Committing
    <3> QED
      BY <1>1, <1>2, <3>1 DEF Own, Deleted, Committing
  <2>5. Carries(r)'
    <3> SUFFICES ASSUME NEW p \in Player, NEW l \in ctx'[r][p].lumi
                 PROVE  owner[l] \in Hydrated(r) /\ seedOf[l] # Unminted
      BY <1>2, <1>6 DEF Carries, tables, history
    <3>1. p \in {at[r], who} /\ l \in Rows(p)
      BY <1>12
    <3>2. p \in Hydrated(r) /\ p # NoPlayer
      BY <1>1, <1>2, <1>4, <3>1, Standing
    <3> QED
      BY <1>1, <3>1, <3>2 DEF Rows, IsoInv, Minted
  <2> QED
    BY <2>1, <2>2, <2>3, <2>4, <2>5 DEF Own
<1>9. Footprint(job[r])' = Footprint(job[r])
  BY <1>2 DEF Footprint, tables
<1>10. ASSUME NEW s \in Req \ {r}, pc[s] # "idle", NEW p \in Player,
              NEW q \in Player, NEW l \in ctx'[r][p].lumi, l \in ctx[s][q].lumi
       PROVE  FALSE
  <2>1. p \in {at[r], who} /\ l \in Rows(p)
    BY <1>10, <1>12
  <2>2. p \in Hydrated(r) /\ p # NoPlayer
    BY <1>1, <1>2, <1>4, <2>1, Standing
  <2>3. owner[l] = p
    BY <2>1 DEF Rows
  <2>4. owner[l] \in Hydrated(s) \cup {NoPlayer}
    BY <1>1, <1>10 DEF IsoInv, Own, Carries
  <2>5. p \in Footprint(job[r]) \cap Footprint(job[s])
    BY <1>1, <1>4, <1>10, <2>2, <2>3, <2>4, Standing
  <2> QED
    BY <1>1, <1>4, <1>10, <2>5 DEF IsoInv, Apart, Disjoint
<1>11. \A s \in Req \ {r} : pc[s] # "idle" =>
         /\ Footprint(job[r])' \cap Footprint(job[s]) = {}
         /\ \A p, q \in Player : ctx'[r][p].lumi \cap ctx[s][q].lumi = {}
  <2>1. \A s \in Req \ {r} : pc[s] # "idle" => Disjoint(r, s)
    BY <1>1, <1>4 DEF IsoInv, Apart
  <2> QED
    BY <1>9, <1>10, <2>1 DEF Disjoint
<1> QED
  BY <1>1, <1>2, <1>3, <1>8, <1>11, Quiet DEF Silent, OnlyMints, tables, history

LEMMA ReadTradeIso ==
    ASSUME Inv, NEW r \in Req, ReadTrade(r)
    PROVE  IsoInv'
<1> DEFINE row == trades[job[r].trade]  who == job[r].who
<1>1. TypeInv /\ IsoInv /\ Own(r) /\ TypeOK /\ Kept(r)
  BY DEF Inv, IsoInv, TypeInv, WellFormed
<1>2. /\ pc[r] = "trades" /\ UNCHANGED <<tables, ctx, snap, cleared, history>>
      /\ trd' = [trd EXCEPT ![r] = row]
      /\ \/ /\ job[r].op = "accept" /\ mayAccept(r, row)
            /\ pc' = [pc EXCEPT ![r] = "players"]
            /\ at' = [at EXCEPT ![r] = row.from]
            /\ job' = [job EXCEPT ![r].other = row.from]
         \/ /\ job[r].op = "cancel" /\ mayCancel(r, row)
            /\ pc' = [pc EXCEPT ![r] = "run"]
            /\ UNCHANGED <<at, job>>
  BY DEF ReadTrade
<1>3. /\ Answers(r) /\ job[r] \in Job /\ who \in Player
      /\ row \in TradeRow /\ row # NoRow /\ row.from # row.to
      /\ row.from \in Player /\ row.status = "open"
  BY <1>1, <1>2 DEF Kept, Answers, TypeOK, IsoInv, TwoSides, TradeRow,
                    mayAccept, mayCancel
<1>4. trd[r] = NoRow /\ job[r].other = NoPlayer
  BY <1>1, <1>2, <1>3 DEF Own, Informed
<1>5. Hydrated(r) = {who}
  BY <1>3, <1>4, PgStoreAssumption DEF Hydrated
<1>6. /\ ctx' = ctx
      /\ \A p \in Player : ctx[r][p] = IF p = who THEN Committed(p) ELSE Blank
  BY <1>1, <1>2, <1>5 DEF Own, Faithful, Before
<1>7. /\ trd'[r] = row /\ \A s \in Req \ {r} : SameRequest(s)
      /\ pc'[r] \in {"players", "run"}
  BY <1>1, <1>2 DEF TypeOK, SameRequest, history
<1>8. \A p \in Player : Committed(p)' = Committed(p)
  BY <1>2 DEF Committed, Rows, tables
<1>9. /\ Placed(r)' /\ Informed(r)' /\ Faithful(r)' /\ who \in Hydrated(r)'
      /\ Footprint(job[r])' = Footprint(job[r])
  <2>1. CASE job[r].op = "accept"
    <3>1. /\ pc'[r] = "players" /\ at'[r] = row.from /\ row.to = who
          /\ job'[r].op = "accept" /\ job'[r].other = row.from
          /\ job'[r].who = who /\ job'[r].trade = job[r].trade
          /\ job'[r].tx = job[r].tx
      BY <1>1, <1>2, <1>3, <2>1 DEF TypeOK, mayAccept, Job
    <3>2. trades' = trades /\ grants'[r] = grants[r]
      BY <1>2 DEF tables, history
    <3>3. Placed(r)'
      BY <1>3, <3>1 DEF Placed
    <3>4. Informed(r)'
      BY <1>1, <1>3, <1>7, <2>1, <3>1, <3>2
         DEF Own, Informed, Answers, Reading, Committing, TradeRoutes
    <3>5. \A p \in Player : SoFar(r, p)' = Blank
      BY <3>1 DEF SoFar, Blank
    <3>6. Faithful(r)'
      BY <1>3, <1>6, <1>8, <3>1, <3>5 DEF Faithful, Reading, Committing
    <3>7. Footprint(job[r])' = Footprint(job[r])
      BY <2>1, <3>1, <3>2 DEF Footprint
    <3>8. who \in Hydrated(r)'
      BY <1>3, <3>1, PgStoreAssumption DEF Hydrated
    <3> QED
      BY <3>3, <3>4, <3>6, <3>7, <3>8
  <2>2. CASE job[r].op = "cancel"
    <3>1. pc'[r] = "run" /\ at' = at /\ job' = job /\ who \in {row.from, row.to}
      BY <1>1, <1>2, <1>3, <2>2 DEF TypeOK, mayCancel
    <3>2. trades' = trades /\ grants'[r] = grants[r]
      BY <1>2 DEF tables, history
    <3>3. Placed(r)'
      BY <1>1, <1>2, <3>1 DEF Own, Placed
    <3>4. Informed(r)'
      BY <1>1, <1>3, <1>7, <2>2, <3>1, <3>2
         DEF Own, Informed, Answers, Reading, Committing, TradeRoutes
    <3>5. Before(r)' = Before(r) /\ Hydrated(r)' = Hydrated(r)
      BY <1>2, <3>1 DEF Before, Hydrated, Committed, Rows, tables
    <3>6. Faithful(r)'
      BY <1>1, <1>2, <3>1, <3>5 DEF Own, Faithful, Reading, Committing
    <3>7. Footprint(job[r])' = Footprint(job[r])
      BY <3>1, <3>2 DEF Footprint
    <3> QED
      BY <1>5, <3>3, <3>4, <3>5, <3>6, <3>7
  <2> QED
    BY <1>2, <2>1, <2>2
<1>10. Deleted(r)'
  BY <1>1, <1>2, <1>7 DEF Own, Deleted, Committing
<1>11. Carries(r)'
  BY <1>1, <1>2, <1>5, <1>9 DEF Own, Carries, tables, history
<1>12. Own(r)'
  BY <1>9, <1>10, <1>11 DEF Own
<1> QED
  BY <1>1, <1>2, <1>6, <1>7, <1>9, <1>12, QuietStep
     DEF Silent, OnlyMints, tables, history

(***************************************************************************)
(* The handlers.  Each turns the committed objects of its players into     *)
(* what it makes of them, and mints at most one Lumi.                      *)
(***************************************************************************)
LEMMA HandlerIso ==
    ASSUME Inv, NEW r \in Req, pc[r] \in {"run", "claim"},
           Silent, OnlyMints, \A s \in Req \ {r} : SameRequest(s),
           pc'[r] = "delete", at'[r] = job[r].who, UNCHANGED cleared,
           job'[r] \in Job, job'[r].op = job[r].op, job'[r].who = job[r].who,
           job'[r].other = job[r].other, job'[r].offer = job[r].offer,
           Answers(r) => job'[r].trade = job[r].trade,
           Informed(r)',
           Does(job'[r], trd'[r], grants'[r], Before(r), ctx'[r]),
           job[r].op = "accept" => trd'[r] \in TradeRow,
           job[r].op \in {"harvest", "breed"} =>
             \A p \in Player : \A l \in ctx'[r][p].lumi :
               \/ l \in Before(r)[p].lumi
               \/ l \in Lumi /\ seedOf[l] = Unminted /\ seedOf'[l] # Unminted
    PROVE  IsoInv'
<1>1. TypeInv /\ IsoInv /\ Own(r) /\ Kept(r) /\ Minted /\ pc[r] # "idle"
  BY DEF Inv, IsoInv, TypeInv, WellFormed
<1>2. /\ job[r].who \in Player /\ job[r].who # job[r].other
      /\ job[r].op # "none" /\ Hydrated(r) \subseteq Player
      /\ Hydrated(r) \subseteq Footprint(job[r]) /\ NoPlayer \notin Hydrated(r)
  BY <1>1, Standing
<1>3. /\ job[r].op \in {"visit", "create"} => job[r].other \in Player
      /\ job[r].op = "accept" => job[r].other \in Player
  <2>1. job[r].op = "accept" => pc[r] = "run"
    BY <1>1 DEF Kept
  <2> QED
    BY <1>1, <2>1, Standing, Settling DEF Answers
<1>4. Hydrated(r)' = Hydrated(r)
  BY DEF Hydrated
<1>5. /\ Before(r)' = Before(r)
      /\ Footprint(job[r])' = Footprint(job[r])
  BY <1>4 DEF Before, Committed, Rows, Footprint, Silent, Answers
<1>6. \A p \in Player : \A l \in Before(r)[p].lumi :
        l \in Lumi /\ owner[l] \in Hydrated(r)
  BY DEF Before, Committed, Rows, Blank
<1>7. ASSUME NEW p \in Player, NEW l \in ctx'[r][p].lumi
      PROVE  /\ l \in Lumi /\ seedOf'[l] # Unminted
             /\ \/ owner[l] \in Hydrated(r)
                \/ owner[l] = NoPlayer /\ seedOf[l] = Unminted
  <2>1. (\E q \in Player : l \in Before(r)[q].lumi)
          \/ (l \in Lumi /\ seedOf[l] = Unminted /\ seedOf'[l] # Unminted)
    <3>1. CASE job[r].op \in {"harvest", "breed"}
      BY <1>7, <3>1
    <3>2. CASE job[r].op \notin {"harvest", "breed"}
      <4>1. Tidy(Before(r))
        BY <1>1, BeforeTidy
      <4> QED
        BY <1>2, <1>3, <1>7, <3>2, <4>1, DoesSound
    <3> QED
      BY <3>1, <3>2
  <2>2. CASE \E q \in Player : l \in Before(r)[q].lumi
    BY <1>1, <1>2, <1>6, <2>2 DEF Minted, OnlyMints
  <2>3. CASE l \in Lumi /\ seedOf[l] = Unminted /\ seedOf'[l] # Unminted
    BY <1>1, <2>3 DEF Minted
  <2> QED
    BY <2>1, <2>2, <2>3
<1>8. Own(r)'
  <2>1. Placed(r)'
    BY <1>1, <1>2 DEF Own, Placed
  <2>2. Faithful(r)'
    BY <1>5 DEF Faithful, Reading, Committing
  <2>3. Deleted(r)'
    BY <1>1 DEF Own, Deleted, Committing
  <2>4. Carries(r)'
    BY <1>4, <1>7 DEF Carries, Silent
  <2> QED
    BY <2>1, <2>2, <2>3, <2>4 DEF Own
<1>9. ASSUME NEW s \in Req \ {r}, pc[s] # "idle", NEW p \in Player,
             NEW q \in Player, NEW l \in ctx'[r][p].lumi, l \in ctx[s][q].lumi
      PROVE  FALSE
  <2>1. seedOf[l] # Unminted /\ owner[l] \in Hydrated(s) \cup {NoPlayer}
    BY <1>1, <1>9 DEF IsoInv, Own, Carries
  <2>2. owner[l] \in Hydrated(r)
    BY <1>7, <1>9, <2>1
  <2>3. Hydrated(s) \subseteq Footprint(job[s])
    BY <1>1, <1>9, Standing
  <2> QED
    BY <1>1, <1>2, <1>9, <2>1, <2>2, <2>3 DEF IsoInv, Apart, Disjoint
<1>10. \A s \in Req \ {r} : pc[s] # "idle" =>
         /\ Footprint(job[r])' \cap Footprint(job[s]) = {}
         /\ \A p, q \in Player : ctx'[r][p].lumi \cap ctx[s][q].lumi = {}
  <2>1. \A s \in Req \ {r} : pc[s] # "idle" => Disjoint(r, s)
    BY <1>1 DEF IsoInv, Apart
  <2> QED
    BY <1>5, <1>9, <2>1 DEF Disjoint
<1> QED
  BY <1>1, <1>8, <1>10, Quiet

\* The handlers that act for one player, or only read, and touch no trade.
LEMMA ActorIso ==
    ASSUME Inv, NEW r \in Req, NEW copies, Return(r, copies),
           pc[r] = "run", job[r].op \notin TradeRoutes,
           UNCHANGED <<job, trd, grants>>, OnlyMints,
           Does(job[r], trd[r], grants[r], Before(r), copies),
           job[r].op \in {"harvest", "breed"} =>
             \A p \in Player : \A l \in copies[p].lumi :
               \/ l \in Before(r)[p].lumi
               \/ l \in Lumi /\ seedOf[l] = Unminted /\ seedOf'[l] # Unminted
    PROVE  IsoInv'
<1>1. TypeOK /\ Own(r) /\ job[r] \in Job
  BY DEF Inv, IsoInv, TypeInv, TypeOK
<1>2. /\ ctx'[r] = copies /\ pc'[r] = "delete" /\ at'[r] = job[r].who
      /\ UNCHANGED <<tables, snap, cleared>>
      /\ \A s \in Req \ {r} : SameRequest(s)
  BY <1>1 DEF Return, TypeOK, SameRequest
<1>3. Silent
  BY <1>2 DEF Silent, tables
<1>4. Informed(r)'
  BY <1>1, <1>2 DEF Own, Informed, Answers, TradeRoutes
<1> QED
  BY <1>1, <1>2, <1>3, <1>4, HandlerIso DEF TradeRoutes

\* What a request that runs its handler has read.
LEMMA Ready ==
    ASSUME Inv, NEW r \in Req, pc[r] \in {"run", "claim"}
    PROVE  /\ ctx[r] = Before(r) /\ job[r] \in Job
           /\ job[r].who \in Player /\ Self(r) = Before(r)[job[r].who]
           /\ Self(r) \in PlayerObject
           /\ \A copy : SelfBecomes(r, copy) = Put(Before(r), job[r].who, copy)
           /\ Self(r) = Committed(job[r].who)
           /\ Self(r).locked \subseteq Self(r).lumi
           /\ \A l \in Self(r).lumi : l \in Lumi /\ seedOf[l] # Unminted
<1>1. TypeInv /\ IsoInv /\ Own(r) /\ pc[r] # "idle"
  BY DEF Inv, IsoInv
<1>2. ctx[r] = Before(r) /\ job[r].who \in Player /\ job[r] \in Job
  BY <1>1, Standing DEF Own, Faithful
<1>3. Self(r) \in PlayerObject
  BY <1>1, SelfType
<1>4. \A l \in Self(r).lumi : l \in Lumi /\ seedOf[l] # Unminted
  BY <1>1, <1>2, <1>3 DEF Own, Carries, Self, PlayerObject
<1>5. Self(r) = Committed(job[r].who)
  <2>1. job[r].who \in Hydrated(r)
    BY <1>1, Standing
  <2> QED
    BY <1>2, <2>1 DEF Self, Before
<1>6. Self(r).locked \subseteq Self(r).lumi
  BY <1>1, <1>2, <1>5, CommittedType
<1> QED
  BY <1>2, <1>3, <1>4, <1>5, <1>6 DEF Self, SelfBecomes, Put

\* A handler that mints one Lumi gains that one.
LEMMA Gains ==
    ASSUME Inv, NEW r \in Req, pc[r] \in {"run", "claim"}, NEW l, NEW object,
           object.lumi = Self(r).lumi \cup {l}
    PROVE  \A p \in Player : \A k \in SelfBecomes(r, object)[p].lumi :
             k \in Before(r)[p].lumi \/ k = l
<1>1. Before(r) \in [Player -> PlayerObject]
  BY BeforeTidy DEF Tidy, Inv
<1> QED
  BY <1>1, Ready DEF Put

LEMMA PlantIso ==
    ASSUME Inv, NEW r \in Req, HandlePlant(r)
    PROVE  IsoInv'
<1>1. /\ pc[r] = "run" /\ job[r].op = "plant" /\ canPlant(Self(r))
      /\ UNCHANGED <<job, trd, seedOf, grants>>
  BY DEF HandlePlant, Handling
<1>2. PICK n \in Planting : Return(r, SelfBecomes(r, plant(Self(r), n)))
  BY DEF HandlePlant
<1>3. Does(job[r], trd[r], grants[r], Before(r), SelfBecomes(r, plant(Self(r), n)))
  BY <1>1, Ready DEF Does
<1> QED
  BY <1>1, <1>2, <1>3, ActorIso DEF OnlyMints, TradeRoutes

LEMMA HarvestIso ==
    ASSUME Inv, NEW r \in Req, HandleHarvest(r)
    PROVE  IsoInv'
<1>1. /\ pc[r] = "run" /\ job[r].op = "harvest" /\ canHarvest(Self(r))
      /\ UNCHANGED <<job, trd, grants>>
  BY DEF HandleHarvest, Handling
<1>2. PICK l \in Lumi : /\ seedOf[l] = Unminted
                        /\ seedOf' = [seedOf EXCEPT ![l] = Self(r).plot]
                        /\ Return(r, SelfBecomes(r, harvest(Self(r), l)))
  BY DEF HandleHarvest
<1> DEFINE copies == SelfBecomes(r, harvest(Self(r), l))
<1>3. l \notin Self(r).lumi
  BY <1>1, <1>2, Ready
<1>4. Does(job[r], trd[r], grants[r], Before(r), copies)
  BY <1>1, <1>3, Ready DEF Does
<1>5. Self(r).plot \in Planting /\ Unminted \notin Planting
  BY <1>1, Ready, PgStoreAssumption DEF canHarvest, PlayerObject
<1>6. seedOf'[l] # Unminted /\ OnlyMints
  BY <1>2, <1>5 DEF OnlyMints, Inv, TypeInv, TypeOK
<1>7. harvest(Self(r), l).lumi = Self(r).lumi \cup {l}
  BY <1>1, Ready, HarvestSound
<1>8. \A p \in Player : \A k \in copies[p].lumi :
        k \in Before(r)[p].lumi \/ k = l
  BY <1>1, <1>7, Gains
<1> QED
  BY <1>1, <1>2, <1>4, <1>6, <1>8, ActorIso DEF TradeRoutes

LEMMA BreedIso ==
    ASSUME Inv, NEW r \in Req, HandleBreed(r)
    PROVE  IsoInv'
<1>1. /\ pc[r] = "run" /\ job[r].op = "breed" /\ canBreed(Self(r))
      /\ UNCHANGED <<job, trd, grants>>
  BY DEF HandleBreed, Handling
<1>2. PICK l \in Lumi : /\ seedOf[l] = Unminted
                        /\ seedOf' = [seedOf EXCEPT ![l] = Bred]
                        /\ Return(r, SelfBecomes(r, breed(Self(r), l)))
  BY DEF HandleBreed
<1> DEFINE copies == SelfBecomes(r, breed(Self(r), l))
<1>3. l \notin Self(r).lumi
  BY <1>1, <1>2, Ready
<1>4. Does(job[r], trd[r], grants[r], Before(r), copies)
  BY <1>1, <1>3, Ready DEF Does
<1>5. seedOf'[l] # Unminted /\ OnlyMints
  BY <1>2 DEF OnlyMints, Inv, TypeInv, TypeOK, Bred, Unminted
<1>6. breed(Self(r), l).lumi = Self(r).lumi \cup {l}
  BY <1>1, Ready, BreedSound
<1>7. \A p \in Player : \A k \in copies[p].lumi :
        k \in Before(r)[p].lumi \/ k = l
  BY <1>1, <1>6, Gains
<1> QED
  BY <1>1, <1>2, <1>4, <1>5, <1>7, ActorIso DEF TradeRoutes

LEMMA VisitIso ==
    ASSUME Inv, NEW r \in Req, HandleVisit(r)
    PROVE  IsoInv'
<1> DEFINE copies == SelfBecomes(r, visit(Self(r), job[r].other))
<1>1. /\ pc[r] = "run" /\ job[r].op = "visit" /\ Return(r, copies)
      /\ UNCHANGED <<job, trd, seedOf, grants>>
  BY DEF HandleVisit, Handling
<1>2. Does(job[r], trd[r], grants[r], Before(r), copies)
  BY <1>1, Ready DEF Does
<1> QED
  BY <1>1, <1>2, ActorIso DEF OnlyMints, TradeRoutes

LEMMA LockIso ==
    ASSUME Inv, NEW r \in Req, HandleLock(r)
    PROVE  IsoInv'
<1> DEFINE copies == SelfBecomes(r, lock(Self(r), job[r].lumi, job[r].op = "lock"))
<1>1. /\ pc[r] = "run" /\ job[r].op \in {"lock", "unlock"} /\ Return(r, copies)
      /\ canLock(Self(r), job[r].lumi)
      /\ UNCHANGED <<job, trd, seedOf, grants>>
  BY DEF HandleLock, Handling
<1>2. Does(job[r], trd[r], grants[r], Before(r), copies)
  BY <1>1, Ready DEF Does
<1> QED
  BY <1>1, <1>2, ActorIso DEF OnlyMints, TradeRoutes

LEMMA CreateIso ==
    ASSUME Inv, NEW r \in Req, HandleCreate(r)
    PROVE  IsoInv'
<1>1. /\ pc[r] = "run" /\ job[r].op = "create" /\ Return(r, ctx[r])
      /\ validateTrade(Self(r), Other(r), job[r].offer)
      /\ trd' = [trd EXCEPT ![r] = createTrade(r)]
      /\ UNCHANGED <<seedOf, grants>>
  BY DEF HandleCreate, Handling
<1>2. PICK t \in Trade : job' = [job EXCEPT ![r].trade = t]
  BY DEF HandleCreate
<1>3. TypeOK /\ Own(r)
  BY DEF Inv, IsoInv, TypeInv
<1>4. /\ ctx'[r] = ctx[r] /\ pc'[r] = "delete" /\ at'[r] = job[r].who
      /\ UNCHANGED <<tables, snap, cleared>>
      /\ \A s \in Req \ {r} : SameRequest(s)
  BY <1>1, <1>2, <1>3 DEF Return, TypeOK, SameRequest
<1>5. /\ job'[r] \in Job /\ job'[r].op = "create" /\ job'[r].trade = t
      /\ job'[r].who = job[r].who /\ job'[r].other = job[r].other
      /\ job'[r].offer = job[r].offer /\ job'[r].tx = job[r].tx
      /\ trd'[r] = createTrade(r)
  BY <1>1, <1>2, <1>3 DEF TypeOK, Job
<1>6. createTrade(r)' = createTrade(r) /\ t # NoTrade
  BY <1>5, PgStoreAssumption DEF createTrade
<1>7. Informed(r)'
  BY <1>1, <1>3, <1>4, <1>5, <1>6
     DEF Own, Informed, Answers, Committing, TradeRoutes
<1>8. Does(job'[r], trd'[r], grants'[r], Before(r), ctx'[r])
  BY <1>1, <1>4, <1>5, Ready DEF Does, Other
<1> QED
  BY <1>1, <1>4, <1>5, <1>7, <1>8, HandlerIso
     DEF Silent, OnlyMints, tables, Answers

LEMMA ResolveIso ==
    ASSUME Inv, NEW r \in Req, HandleAccept(r) \/ HandleCancel(r)
    PROVE  IsoInv'
<1> DEFINE closed == IF job[r].op = "accept" THEN "accepted" ELSE "cancelled"
           mine == tradeTo(Self(r), trd[r].offer)
           theirs == tradeFrom(Other(r), trd[r].offer)
           copies == IF job[r].op = "accept"
                     THEN [SelfBecomes(r, mine) EXCEPT ![job[r].other] = theirs]
                     ELSE ctx[r]
<1>1. /\ pc[r] = "run" /\ job[r].op \in {"accept", "cancel"}
      /\ Return(r, copies) /\ trd' = [trd EXCEPT ![r] = resolve(trd[r], closed)]
      /\ UNCHANGED <<job, seedOf, sown, grants>>
      /\ job[r].op = "accept" => validateTrade(Other(r), Self(r), trd[r].offer)
  BY DEF HandleAccept, HandleCancel, Handling, canAccept
<1>2. TypeOK /\ TypeInv /\ IsoInv /\ Own(r) /\ job[r] \in Job /\ Answers(r)
  BY <1>1 DEF Inv, IsoInv, TypeInv, TypeOK, Answers
<1>3. /\ ctx'[r] = copies /\ pc'[r] = "delete" /\ at'[r] = job[r].who
      /\ UNCHANGED <<tables, snap, cleared>>
      /\ \A s \in Req \ {r} : SameRequest(s)
  <2> HIDE DEF copies, closed
  <2> QED
    BY <1>1, <1>2 DEF Return, TypeOK, SameRequest
<1>4. /\ trd[r] = trades[job[r].trade] /\ trd[r] \in TradeRow /\ trd[r] # NoRow
      /\ trd[r].status = "open"
      /\ job[r].op = "accept" => /\ job[r].other = trd[r].from
                                 /\ job[r].who = trd[r].to
  BY <1>1, <1>2, Settling DEF Own, Informed, Committing
<1>5. trd'[r] = resolve(trd[r], closed)
  BY <1>1, <1>2 DEF TypeOK
<1>6. trd'[r] \in TradeRow /\ trd'[r] # NoRow /\ trd'[r].offer = trd[r].offer
  <2>1. \/ trd'[r] = resolve(trd[r], "accepted")
        \/ trd'[r] = resolve(trd[r], "cancelled")
    BY <1>5
  <2>2. trd'[r] \in TradeRow /\ trd'[r].offer = trd[r].offer
    BY <1>4, <2>1 DEF resolve, TradeRow
  <2> QED
    BY <2>2, PgStoreAssumption
<1>7. Informed(r)'
  <2>1. trades' = trades /\ job' = job /\ grants' = grants /\ pc'[r] = "delete"
    BY <1>1, <1>3 DEF tables
  <2>2. Informed(r)
    BY <1>2 DEF Own
  <2> QED
    BY <1>1, <1>4, <1>5, <1>6, <2>1, <2>2
       DEF Informed, Answers, Reading, Committing, TradeRoutes
<1>8. Does(job'[r], trd'[r], grants'[r], Before(r), ctx'[r])
  <2>1. CASE job[r].op = "cancel"
    BY <1>1, <1>3, <2>1, Ready DEF Does
  <2>2. CASE job[r].op = "accept"
    <3>1. Other(r) = Before(r)[job[r].other]
      BY <1>1, Ready DEF Other
    <3>2. copies = [Put(Before(r), job[r].who, mine) EXCEPT ![job[r].other] = theirs]
      BY <1>1, <2>2, Ready
    <3> QED
      BY <1>1, <1>3, <1>6, <2>2, <3>1, <3>2, Ready DEF Does
  <2> QED
    BY <1>1, <2>1, <2>2
<1> QED
  BY <1>1, <1>2, <1>3, <1>6, <1>7, <1>8, HandlerIso
     DEF Silent, OnlyMints, tables, Answers

LEMMA RedeemIso ==
    ASSUME Inv, NEW r \in Req, HandleRedeem(r)
    PROVE  IsoInv'
<1>1. TypeOK /\ TypeInv /\ Own(r) /\ Kept(r) /\ job[r] \in Job /\ pc[r] = "claim"
  BY DEF Inv, IsoInv, TypeInv, TypeOK, WellFormed, HandleRedeem
<1>2. job[r].op = "redeem" /\ grants[r] = NoTx
  <2>1. job[r].op = "redeem"
    BY <1>1 DEF Kept
  <2>2. grants[r] = NoTx
    BY <1>1 DEF Inv, GrantInv, Granting
  <2> QED
    BY <2>1, <2>2
<1>3. /\ pc'[r] = "delete" /\ at'[r] = job[r].who
      /\ UNCHANGED <<wallets, visitLog, plots, owner, locked, trades, job, trd,
                     snap, cleared, seedOf>>
      /\ \/ /\ ctx'[r] = SelfBecomes(r, grantProduct(Self(r)))
            /\ grants'[r] = job[r].tx
         \/ ctx'[r] = ctx[r] /\ grants'[r] = grants[r]
      /\ \A s \in Req \ {r} : SameRequest(s)
  BY <1>1 DEF HandleRedeem, Claimed, AlreadyClaimed, TypeOK, SameRequest
<1>4. Informed(r)'
  BY <1>1, <1>2, <1>3 DEF Own, Informed, Answers, TradeRoutes
<1>5. Does(job'[r], trd'[r], grants'[r], Before(r), ctx'[r])
  BY <1>1, <1>2, <1>3, Ready DEF Does
<1> QED
  BY <1>1, <1>2, <1>3, <1>4, <1>5, HandlerIso DEF Silent, OnlyMints, Answers

(***************************************************************************)
(* The end of a request, and its transaction.                              *)
(***************************************************************************)
LEMMA EndOwn ==
    ASSUME TypeInv, NEW r \in Req, End(r)
    PROVE  Own(r)' /\ pc'[r] = "idle"
<1>1. /\ pc'[r] = "idle" /\ job'[r] = NoJob /\ at'[r] = NoPlayer
      /\ \A p \in Player : ctx'[r][p] = Blank
      /\ trd'[r] = NoRow /\ cleared'[r] = {} /\ grants'[r] = NoTx
  BY DEF End, Unlock, TypeInv, TypeOK
<1>2. Placed(r)' /\ Informed(r)'
  BY <1>1 DEF Placed, Informed, Answers, NoJob, TradeRoutes
<1>3. Faithful(r)' /\ Deleted(r)' /\ Carries(r)'
  BY <1>1 DEF Faithful, Deleted, Carries, Reading, Committing, Blank
<1> QED
  BY <1>1, <1>2, <1>3 DEF Own

LEMMA DropIso ==
    ASSUME Inv, NEW r \in Req, Drop(r)
    PROVE  IsoInv'
<1>1. TypeInv /\ IsoInv /\ TypeOK
  BY DEF Inv, TypeInv
<1>2. End(r) /\ snap' = [snap EXCEPT ![r] = {}] /\ UNCHANGED <<tables, seedOf>>
  BY DEF Drop
<1>3. \A s \in Req \ {r} : SameRequest(s)
  BY <1>1, <1>2 DEF End, Unlock, TypeOK, SameRequest
<1> QED
  BY <1>1, <1>2, <1>3, EndOwn, Quiet DEF Silent, OnlyMints, tables

LEMMA DeleteIso ==
    ASSUME Inv, NEW r \in Req, StartDelete(r) \/ FinishDelete(r)
    PROVE  IsoInv'
<1>1. TypeInv /\ IsoInv /\ TypeOK /\ Own(r)
  BY DEF Inv, IsoInv, TypeInv
<1>2. /\ pc[r] \in {"delete", "deleting"} /\ pc'[r] \in Committing
      /\ UNCHANGED <<tables, job, ctx, trd, history>>
      /\ \A s \in Req \ {r} : SameRequest(s)
  BY <1>1 DEF StartDelete, FinishDelete, TypeOK, SameRequest, Committing, history
<1>3. /\ pc[r] # "idle" /\ pc[r] \in Committing
      /\ pc'[r] \notin Reading /\ pc'[r] \notin {"idle", "trades", "claim", "run"}
  BY <1>2 DEF Committing, Reading
<1>4. /\ job[r].who \in Player /\ job[r].who # job[r].other
      /\ at[r] \in {job[r].who, job[r].other}
      /\ job[r].other \in Player \cup {NoPlayer} /\ at[r] \in Hydrated(r)
  BY <1>1, <1>3, Standing
<1>5. Before(r)' = Before(r) /\ Hydrated(r)' = Hydrated(r)
  BY <1>2 DEF Before, Hydrated, Committed, Rows, tables
<1>6. Placed(r)' /\ Deleted(r)'
  <2>1. CASE StartDelete(r)
    <3>1. /\ pc[r] = "delete" /\ pc'[r] = "deleting" /\ snap'[r] = Rows(at[r])
          /\ UNCHANGED <<tables, at, cleared>>
      BY <1>1, <2>1 DEF StartDelete, TypeOK
    <3> QED
      BY <1>1, <1>2, <3>1
         DEF Own, Placed, Deleted, Committing, Rows, tables
  <2>2. CASE FinishDelete(r)
    <3>1. /\ pc[r] = "deleting" /\ cleared'[r] = cleared[r] \cup Rows(at[r])
      BY <1>1, <2>2 DEF FinishDelete, TypeOK, Own, Deleted
    <3>2. /\ cleared[r] = IF at[r] = job[r].who THEN {} ELSE Rows(job[r].who)
          /\ \A p \in Player : Rows(p)' = Rows(p)
      BY <1>1, <1>2, <3>1 DEF Own, Deleted, Rows, tables
    <3>3. CASE at[r] = job[r].who /\ job[r].other # NoPlayer
      <4>1. pc'[r] = "delete" /\ at'[r] = job[r].other
        BY <1>1, <2>2, <3>3 DEF FinishDelete, TypeOK
      <4> QED
        BY <1>1, <1>2, <1>4, <3>1, <3>2, <3>3, <4>1
           DEF Own, Placed, Deleted, Committing
    <3>4. CASE ~(at[r] = job[r].who /\ job[r].other # NoPlayer)
      <4>1. pc'[r] = "save" /\ at' = at
        BY <1>1, <2>2, <3>4 DEF FinishDelete, TypeOK
      <4>2. cleared'[r] = {l \in Lumi : owner[l] \in Hydrated(r)}
        BY <1>4, <3>1, <3>2, <3>4, PgStoreAssumption DEF Hydrated, Rows
      <4> QED
        BY <1>1, <1>2, <1>5, <4>1, <4>2
           DEF Own, Placed, Deleted, Committing, tables
    <3> QED
      BY <3>3, <3>4
  <2> QED
    BY <2>1, <2>2
<1>7. Informed(r)'
  <2>1. createTrade(r)' = createTrade(r)
    BY <1>2 DEF createTrade
  <2>2. /\ Informed(r) /\ job' = job /\ trd' = trd /\ trades' = trades
        /\ grants' = grants
    BY <1>1, <1>2 DEF Own, tables, history
  <2>3. CASE Answers(r)
    <3>1. trd[r] # NoRow
      BY <1>3, <2>2, <2>3 DEF Informed, Reading, Committing
    <3> QED
      BY <1>2, <1>3, <2>2, <2>3, <3>1 DEF Informed, Answers, TradeRoutes
  <2>4. CASE ~Answers(r)
    BY <1>2, <1>3, <2>1, <2>2, <2>4 DEF Informed, Answers
  <2> QED
    BY <2>3, <2>4
<1>8. Faithful(r)' /\ Carries(r)'
  BY <1>1, <1>2, <1>3, <1>5 DEF Own, Faithful, Carries, tables, history
<1>9. Own(r)' /\ Footprint(job[r])' = Footprint(job[r])
  BY <1>2, <1>6, <1>7, <1>8 DEF Own, Footprint, tables
<1> QED
  BY <1>1, <1>2, <1>3, <1>9, QuietStep DEF Silent, OnlyMints, tables, history

\* What a commit writes: the new objects of its players, and nothing else.
LEMMA CommitWrites ==
    ASSUME Inv, NEW r \in Req, Commit(r)
    PROVE  /\ pc[r] = "save" /\ Hydrated(r) \subseteq Player
           /\ \A p \in Hydrated(r) :
                /\ wallets'[p] = ctx[r][p].wallet
                /\ visitLog'[p] = ctx[r][p].visits
                /\ plots'[p] = ctx[r][p].plot
                /\ Rows(p)' = ctx[r][p].lumi
                /\ Rows(p)' \cap locked' = ctx[r][p].locked
           /\ \A p \in Player \ Hydrated(r) : SameRows(p)
           /\ \A l \in Carried(r) :
                /\ l \in Lumi /\ owner'[l] \in Hydrated(r) /\ seedOf[l] # Unminted
                /\ l \in ctx[r][owner'[l]].lumi
                /\ owner[l] \in Hydrated(r) \cup {NoPlayer}
           /\ \A l \in Lumi \ Carried(r) :
                /\ owner[l] \notin Hydrated(r) /\ owner'[l] = owner[l]
                /\ l \in locked' <=> l \in locked
<1>1. /\ TypeInv /\ IsoInv /\ Own(r) /\ TypeOK /\ pc[r] = "save"
      /\ pc[r] # "idle" /\ pc[r] \in Committing
  BY DEF Inv, IsoInv, TypeInv, Commit, Committing
<1>2. /\ Hydrated(r) \subseteq Player /\ NoPlayer \notin Hydrated(r)
  BY <1>1, Standing
<1>3. cleared[r] = {l \in Lumi : owner[l] \in Hydrated(r)}
  BY <1>1 DEF Own, Deleted
<1>4. /\ ctx[r] \in [Player -> PlayerObject]
      /\ \A p \in Player : /\ ctx[r][p].lumi \subseteq Lumi
                           /\ ctx[r][p].locked \subseteq ctx[r][p].lumi
  BY <1>1, Working DEF TypeOK, PlayerObject
<1>5. \A l \in Lumi : owner[l] \in Hydrated(r) => l \in Carried(r)
  <2> SUFFICES ASSUME NEW l \in Lumi, owner[l] \in Hydrated(r)
               PROVE  l \in Carried(r)
    OBVIOUS
  <2>1. owner[l] \in Player /\ l \in Before(r)[owner[l]].lumi
    BY <1>2 DEF Before, Committed, Rows
  <2> QED
    BY <1>1, <2>1, Working
<1>6. \A p, q \in Hydrated(r) : p # q => ctx[r][p].lumi \cap ctx[r][q].lumi = {}
  BY DEF Commit, PkConflict
<1>7. ASSUME NEW l \in Carried(r)
      PROVE  /\ l \in Lumi /\ owner'[l] \in Hydrated(r) /\ seedOf[l] # Unminted
             /\ l \in ctx[r][owner'[l]].lumi
             /\ owner[l] \in Hydrated(r) \cup {NoPlayer}
  <2>1. PICK p \in Hydrated(r) : l \in ctx[r][p].lumi
    BY DEF Carried
  <2>2. l \in Lumi
    BY <1>2, <1>4, <2>1
  <2>3. owner'[l] = CHOOSE q \in Hydrated(r) : l \in ctx[r][q].lumi
    BY <2>2 DEF Commit, SavedOwner
  <2>4. owner'[l] \in Hydrated(r) /\ l \in ctx[r][owner'[l]].lumi
    BY <2>1, <2>3
  <2>5. seedOf[l] # Unminted /\ owner[l] \in Hydrated(r) \cup {NoPlayer}
    BY <1>1, <1>2, <2>1 DEF Own, Carries
  <2> QED
    BY <2>2, <2>4, <2>5
<1>8. ASSUME NEW l \in Lumi \ Carried(r)
      PROVE  /\ owner[l] \notin Hydrated(r) /\ owner'[l] = owner[l]
             /\ l \in locked' <=> l \in locked
  <2>1. owner[l] \notin Hydrated(r) /\ l \notin cleared[r]
    BY <1>3, <1>5, <1>8
  <2>2. owner'[l] = owner[l]
    BY <1>8, <2>1 DEF Commit, SavedOwner
  <2>3. \A p \in Hydrated(r) : l \notin ctx[r][p].locked
    BY <1>2, <1>4, <1>8 DEF Carried
  <2> QED
    BY <1>8, <2>1, <2>2, <2>3 DEF Commit, SavedLocks
<1>9. ASSUME NEW p \in Hydrated(r)
      PROVE  /\ wallets'[p] = ctx[r][p].wallet
             /\ visitLog'[p] = ctx[r][p].visits
             /\ plots'[p] = ctx[r][p].plot
             /\ Rows(p)' = ctx[r][p].lumi
             /\ Rows(p)' \cap locked' = ctx[r][p].locked
  <2>1. p \in Player
    BY <1>2
  <2>2. /\ wallets'[p] = ctx[r][p].wallet
        /\ visitLog'[p] = ctx[r][p].visits
        /\ plots'[p] = ctx[r][p].plot
    BY <1>9, <2>1 DEF Commit, Saved
  <2>3. \A l \in Lumi : owner'[l] = p <=> l \in ctx[r][p].lumi
    <3> TAKE l \in Lumi
    <3>1. CASE l \in Carried(r)
      BY <1>6, <1>7, <3>1
    <3>2. CASE l \notin Carried(r)
      <4>1. l \notin ctx[r][p].lumi
        BY <3>2 DEF Carried
      <4> QED
        BY <1>8, <3>2, <4>1
    <3> QED
      BY <3>1, <3>2
  <2>4. Rows(p)' = ctx[r][p].lumi
    BY <1>4, <2>1, <2>3 DEF Rows
  <2>5. \A l \in ctx[r][p].lumi : l \in locked' <=> l \in ctx[r][p].locked
    <3> TAKE l \in ctx[r][p].lumi
    <3>1. l \in Carried(r)
      BY DEF Carried
    <3>2. \A q \in Hydrated(r) : l \in ctx[r][q].locked => q = p
      BY <1>2, <1>4, <1>6
    <3> QED
      BY <3>1, <3>2 DEF Commit, SavedLocks
  <2> QED
    BY <1>4, <2>1, <2>2, <2>4, <2>5
<1>10. ASSUME NEW p \in Player \ Hydrated(r)
       PROVE  SameRows(p)
  <2>1. wallets'[p] = wallets[p] /\ visitLog'[p] = visitLog[p]
        /\ plots'[p] = plots[p]
    BY <1>10 DEF Commit, Saved
  <2>2. \A l \in Lumi : owner'[l] = p <=> owner[l] = p
    BY <1>7, <1>8, PgStoreAssumption
  <2>3. \A l \in Lumi : owner[l] = p => (l \in locked' <=> l \in locked)
    BY <1>7, <1>8, PgStoreAssumption
  <2> QED
    BY <2>1, <2>2, <2>3 DEF SameRows
<1> QED
  BY <1>1, <1>2, <1>7, <1>8, <1>9, <1>10

LEMMA CommitIso ==
    ASSUME Inv, NEW r \in Req, Commit(r)
    PROVE  IsoInv'
<1>1. /\ TypeInv /\ IsoInv /\ Own(r) /\ TypeOK /\ TradeInv /\ Kept(r)
      /\ pc[r] = "save" /\ pc[r] # "idle" /\ pc[r] \in Committing
  BY DEF Inv, IsoInv, TypeInv, WellFormed, Commit, Committing
<1>2. Hydrated(r) \subseteq Footprint(job[r]) /\ job[r].who \in Player
      /\ job[r].who # job[r].other /\ Hydrated(r) \subseteq Player
      /\ NoPlayer \notin Hydrated(r)
  BY <1>1, Standing
<1>3. End(r) /\ UNCHANGED seedOf
      /\ snap' = [s \in Req |-> snap[s] \ cleared[r]]
      /\ trades' = IF trd[r] = NoRow THEN trades
                   ELSE [trades EXCEPT ![job[r].trade] = trd[r]]
  BY DEF Commit
<1>4. Own(r)' /\ pc'[r] = "idle"
  BY <1>1, <1>3, EndOwn
<1>5. ASSUME NEW s \in Req \ {r}, pc[s] # "idle"
      PROVE  /\ Hydrated(r) \cap Hydrated(s) = {}
             /\ Hydrated(s) \subseteq Player
             /\ at[s] \in Hydrated(s) /\ Disjoint(r, s)
  BY <1>1, <1>2, <1>5, Standing DEF IsoInv, Apart, Disjoint
<1>6. ASSUME NEW s \in Req \ {r}
      PROVE  SameRequest(s)
  <2>1. /\ job'[s] = job[s] /\ pc'[s] = pc[s] /\ at'[s] = at[s]
        /\ ctx'[s] = ctx[s] /\ trd'[s] = trd[s]
        /\ cleared'[s] = cleared[s] /\ grants'[s] = grants[s]
    BY <1>1, <1>3 DEF End, Unlock, TypeOK
  <2>2. ASSUME pc[s] = "deleting" PROVE snap'[s] = snap[s]
    <3>1. snap[s] = Rows(at[s])
      BY <1>1, <2>2 DEF IsoInv, Own, Deleted
    <3>2. cleared[r] = {l \in Lumi : owner[l] \in Hydrated(r)}
      BY <1>1 DEF Own, Deleted
    <3>3. at[s] \notin Hydrated(r)
      BY <1>5, <2>2
    <3> QED
      BY <1>3, <3>1, <3>2, <3>3 DEF Rows
  <2> QED
    BY <2>1, <2>2 DEF SameRequest
<1>7. \A s \in Req : pc[s] = "idle" => ~Answers(s)
  BY <1>1 DEF IsoInv, Own, Informed, Reading
<1>8. ASSUME NEW s \in Req \ {r}, Answers(s)
      PROVE  trades'[job[s].trade] = trades[job[s].trade]
  <2>1. Kept(s) /\ pc[s] # "idle"
    BY <1>1, <1>7, <1>8 DEF TypeInv, WellFormed
  <2>2. CASE trd[r] = NoRow
    BY <1>3, <2>2
  <2>3. CASE job[r].op = "create" /\ trd[r] # NoRow
    BY <1>1, <1>3, <1>8, <2>1, <2>3 DEF TradeInv, Proposing, Answering, Kept, TypeOK
  <2>4. CASE Answers(r)
    <3>1. job[r].trade # job[s].trade
      BY <1>5, <1>8, <2>1, <2>4 DEF Disjoint, Footprint, Answers
    <3> QED
      BY <1>1, <1>3, <3>1 DEF TypeOK
  <2> QED
    BY <1>1, <2>2, <2>3, <2>4 DEF TradeInv, Answering, Answers, TradeRoutes
<1>9. ASSUME NEW s \in Req \ {r}, NEW p \in Player, NEW l \in ctx[s][p].lumi
      PROVE  owner'[l] = owner[l]
  <2>1. pc[s] # "idle" /\ l \in Lumi
    BY <1>1, <1>9 DEF IsoInv, Own, Faithful, Blank, TypeOK, PlayerObject
  <2>2. l \notin Carried(r)
    BY <1>2, <1>5, <1>9, <2>1 DEF Disjoint, Carried
  <2> QED
    BY <2>1, <2>2, CommitWrites
<1>10. \A s \in Req \ {r} : Undisturbed(s)
  <2> SUFFICES ASSUME NEW s \in Req \ {r} PROVE Undisturbed(s)
    OBVIOUS
  <2>1. pc[s] # "idle" => \A p \in Hydrated(s) : SameRows(p)
    BY <1>5, CommitWrites
  <2> QED
    BY <1>3, <1>6, <1>8, <1>9, <2>1 DEF Undisturbed
<1>11. Minted'
  BY <1>1, <1>3, CommitWrites DEF IsoInv, Minted
<1>12. TwoSides'
  <2> SUFFICES ASSUME NEW t \in Trade, trades'[t] # NoRow, trades'[t] # trades[t]
               PROVE  trades'[t].from # trades'[t].to
    BY <1>1 DEF IsoInv, TwoSides
  <2>1. trd[r] # NoRow /\ t = job[r].trade /\ trades'[t] = trd[r]
    BY <1>1, <1>3 DEF TypeOK
  <2>2. CASE job[r].op = "create"
    BY <1>1, <1>2, <2>1, <2>2 DEF Own, Informed, createTrade
  <2>3. CASE Answers(r)
    <3>1. /\ trades[t] \in TradeRow /\ trades[t].from # trades[t].to
          /\ \E s : trd[r] = resolve(trades[t], s)
      BY <1>1, <2>1, <2>3, Settling DEF Own, Informed, IsoInv, TwoSides
    <3> QED
      BY <2>1, <3>1 DEF resolve, TradeRow
  <2> QED
    BY <1>1, <2>1, <2>2, <2>3 DEF TradeInv, Answering, Answers, TradeRoutes
<1> QED
  BY <1>1, <1>4, <1>10, <1>11, <1>12, Combine

LEMMA InitInv == Init => Inv
BY InitTypeInv, InitGrantInv, InitTradeInv, InitIso DEF Inv

LEMMA NextInv ==
    ASSUME Workload = "isolated", Inv, [Next]_vars
    PROVE  Inv'
<1>1. TypeInv' /\ GrantInv' /\ TradeInv'
  BY NextType, NextGrants, NextTrades DEF Inv
<1>2. ASSUME NEW r \in Req, Handle(r), ~Reject(r) PROVE IsoInv'
  BY <1>2, PlantIso, HarvestIso, BreedIso, VisitIso, LockIso, CreateIso,
     ResolveIso, RedeemIso DEF Handle
<1>3. ASSUME NEW r \in Req, Step(r) PROVE IsoInv'
  <2>1. Reject(r) \/ DuplicateKey(r) \/ DeadlockVictim(r) => Drop(r)
    BY DEF Reject, DuplicateKey, DeadlockVictim
  <2> QED
    BY <1>2, <1>3, <2>1, QueriesIso, ReadLumiIso, ReadTradeIso, DropIso,
       DeleteIso, CommitIso DEF Step
<1>4. ASSUME NEW r \in Req, Arrive(r) \/ Fail(r) PROVE IsoInv'
  BY <1>4, ArriveIso, DropIso DEF Fail
<1>5. CASE UNCHANGED vars
  <2>1. /\ Silent /\ UNCHANGED <<job, pc, at, ctx, trd, snap, cleared, grants, seedOf>>
    BY <1>5 DEF vars, tables, request, history, Silent
  <2>2. \A s \in Req : Undisturbed(s)
    BY <2>1 DEF Undisturbed, SameRequest, SameRows, Silent
  <2>3. \A s \in Req : Own(s)' /\ Footprint(job[s])' = Footprint(job[s])
    BY <2>2, Frame DEF Inv
  <2>4. Apart'
    BY <2>1, <2>3 DEF Inv, IsoInv, Apart, Disjoint
  <2>5. Minted' /\ TwoSides'
    BY <2>1 DEF Inv, IsoInv, Minted, TwoSides, Silent
  <2> QED
    BY <1>1, <2>3, <2>4, <2>5 DEF IsoInv, Inv
<1> QED
  BY <1>1, <1>3, <1>4, <1>5 DEF Next, Inv

LEMMA Isolated ==
    ASSUME Workload = "isolated"
    PROVE  Spec => []Inv
<1>1. Inv /\ [Next]_vars => Inv'
  BY NextInv
<1> QED
  BY <1>1, InitInv, PTL DEF Spec

(***************************************************************************)
(* What follows from it.  The tables that matter below change by commits   *)
(* alone.                                                                  *)
(***************************************************************************)
Written == <<wallets, visitLog, plots, owner, locked, trades, journal, granted, swaps>>

LEMMA OnlyCommitsWrite ==
    ASSUME [Next]_vars
    PROVE  UNCHANGED Written \/ \E r \in Req : Commit(r)
<1>1. ASSUME NEW r \in Req, Arrive(r) PROVE UNCHANGED Written
  BY <1>1, ArriveSubmits DEF Submit, tables, Written
<1>2. ASSUME NEW r \in Req, Drop(r) PROVE UNCHANGED Written
  BY <1>2 DEF Drop, tables, Written
<1>3. ASSUME NEW r \in Req, Handle(r), ~Reject(r) PROVE UNCHANGED Written
  BY <1>3 DEF Handle, HandlePlant, HandleHarvest, HandleBreed, HandleVisit,
     HandleLock, HandleCreate, HandleAccept, HandleCancel, HandleRedeem, Return,
     tables, Written
<1>4. ASSUME NEW r \in Req, Step(r) PROVE UNCHANGED Written \/ Commit(r)
  <2>1. Reject(r) \/ DuplicateKey(r) \/ DeadlockVictim(r) => Drop(r)
    BY DEF Reject, DuplicateKey, DeadlockVictim
  <2>2. ASSUME \/ ReadPlayers(r) \/ ReadWallets(r) \/ ReadGardens(r)
               \/ ReadLumi(r) \/ ReadTrade(r) \/ StartDelete(r)
               \/ FinishDelete(r)
        PROVE  UNCHANGED Written
    BY <2>2 DEF ReadPlayers, ReadWallets, ReadGardens, ReadLumi, Read, ReadTrade,
       StartDelete, FinishDelete, tables, history, Written
  <2> QED
    BY <1>2, <1>3, <1>4, <2>1, <2>2 DEF Step
<1>5. UNCHANGED vars => UNCHANGED Written
  BY DEF vars, tables, history, Written
<1> QED
  BY <1>1, <1>2, <1>4, <1>5 DEF Next, Fail

\* A commit moves a player's money by what its ledger entries say.
LEMMA CommitBalances ==
    ASSUME Inv, WalletsMatchJournal, NEW r \in Req, Commit(r)
    PROVE  WalletsMatchJournal'
<1> SUFFICES ASSUME NEW p \in Player, NEW c \in Currency
             PROVE  /\ wallets'[p][c] = Opening[p][c] + journal'[p][c]
                    /\ wallets'[p][c] >= 0
  BY DEF WalletsMatchJournal
<1>1. /\ TypeInv /\ IsoInv /\ TypeOK /\ pc[r] \in Committing
      /\ journal' = [q \in Player |-> [k \in Currency |->
                       journal[q][k] + Saved(r, q, ctx[r][q].ledger[k], 0)]]
  BY DEF Inv, TypeInv, Commit, Committing
<1>2. /\ wallets[p][c] = Opening[p][c] + journal[p][c] /\ wallets[p][c] >= 0
      /\ wallets[p][c] \in Nat /\ Opening[p][c] \in Nat /\ journal[p][c] \in Int
  BY <1>1, PgStoreAssumption DEF WalletsMatchJournal, TypeOK, Balance, Sums
<1>3. journal'[p][c] = journal[p][c] + Saved(r, p, ctx[r][p].ledger[c], 0)
  BY <1>1
<1>4. CASE p \in Hydrated(r)
  <2>1. wallets'[p] = ctx[r][p].wallet
    BY <1>4, CommitWrites
  <2>2. Before(r)[p].wallet = wallets[p] /\ Before(r)[p].ledger = NoEntries
    BY <1>4 DEF Before, Committed
  <2>3. ctx[r][p].wallet[c] - ctx[r][p].ledger[c]
          = Before(r)[p].wallet[c] - Before(r)[p].ledger[c]
    BY <1>1, Working DEF Recorded
  <2>4. ctx[r][p].wallet[c] \in Nat /\ ctx[r][p].ledger[c] \in Int
    <3>1. ctx[r][p] \in PlayerObject
      BY <1>1 DEF TypeOK
    <3> QED
      BY <3>1 DEF PlayerObject, Balance, Sums
  <2>5. NoEntries[c] = 0
    BY DEF NoEntries
  <2>6. journal'[p][c] = journal[p][c] + ctx[r][p].ledger[c]
    BY <1>3, <1>4 DEF Saved
  <2> QED
    BY <1>2, <2>1, <2>2, <2>3, <2>4, <2>5, <2>6
<1>5. CASE p \notin Hydrated(r)
  <2>1. wallets'[p] = wallets[p]
    BY <1>5, CommitWrites DEF SameRows
  <2> QED
    BY <1>2, <1>3, <1>5, <2>1 DEF Saved
<1> QED
  BY <1>4, <1>5

\* While requests in flight touch different players, every balance is what its
\* player opened with plus the movements in the ledger, and never negative.
THEOREM MoneyIsAccountedFor ==
    ASSUME Workload = "isolated"
    PROVE  Spec => []WalletsMatchJournal
<1>1. Init => WalletsMatchJournal
  BY PgStoreAssumption DEF Init, WalletsMatchJournal, NoEntries, Balance
<1>2. Inv /\ WalletsMatchJournal /\ [Next]_vars => WalletsMatchJournal'
  BY OnlyCommitsWrite, CommitBalances DEF Written, WalletsMatchJournal
<1> QED
  BY <1>1, <1>2, Isolated, PTL DEF Spec

\* While requests in flight touch different players, no commit makes a Lumi
\* disappear, a trade's least of all.
THEOREM NoLumiIsLost ==
    ASSUME Workload = "isolated"
    PROVE  Spec => LumiConserved
<1>1. ASSUME Inv, NEW r \in Req, Commit(r), NEW l \in Lumi, owner[l] # NoPlayer
      PROVE  owner'[l] # NoPlayer
  <2>1. pc[r] # "idle" /\ TypeInv /\ IsoInv
    BY <1>1 DEF Commit, Inv
  <2>2. NoPlayer \notin Hydrated(r)
    BY <2>1, Standing
  <2> QED
    BY <1>1, <2>2, CommitWrites
<1>2. Inv /\ [Next]_vars =>
        [\A l \in Lumi : owner[l] # NoPlayer => owner'[l] # NoPlayer]_vars
  BY <1>1, OnlyCommitsWrite DEF Written
<1> QED
  BY <1>2, Isolated, PTL DEF Spec, LumiConserved

LocksAreOwned == \A l \in Lumi : l \in locked => owner[l] # NoPlayer

LEMMA CommitLocks ==
    ASSUME Inv, LocksAreOwned, NEW r \in Req, Commit(r), NEW l \in Lumi
    PROVE  /\ l \in locked => owner'[l] = owner[l]
           /\ l \in locked' => owner'[l] # NoPlayer
<1>1. pc[r] # "idle" /\ pc[r] \in Committing /\ TypeInv /\ IsoInv
  BY DEF Commit, Inv, Committing
<1>2. NoPlayer \notin Hydrated(r) /\ Hydrated(r) \subseteq Player
  BY <1>1, Standing
<1>3. CASE l \notin Carried(r)
  BY <1>3, CommitWrites DEF LocksAreOwned
<1>4. CASE l \in Carried(r)
  <2>1. owner'[l] \in Hydrated(r)
    BY <1>4, CommitWrites
  <2>2. ASSUME l \in locked PROVE owner'[l] = owner[l]
    <3>1. PICK p \in Hydrated(r) : owner[l] = p
      BY <1>4, <2>2, CommitWrites DEF LocksAreOwned
    <3>2. l \in Before(r)[p].locked
      BY <1>2, <2>2, <3>1 DEF Before, Committed, Rows
    <3>3. l \in ctx[r][p].lumi
      BY <1>1, <1>2, <3>2, Working
    <3>4. l \in Rows(p)'
      BY <3>3, CommitWrites
    <3> QED
      BY <3>1, <3>4 DEF Rows
  <2> QED
    BY <1>2, <2>1, <2>2
<1> QED
  BY <1>3, <1>4

\* While requests in flight touch different players, a locked Lumi does not
\* change hands: neither a trade nor any other handler gives it away.
THEOREM LocksHold ==
    ASSUME Workload = "isolated"
    PROVE  Spec => LockedStays
<1>1. Init => LocksAreOwned
  BY DEF Init, LocksAreOwned
<1>2. Inv /\ LocksAreOwned /\ [Next]_vars => LocksAreOwned'
  BY OnlyCommitsWrite, CommitLocks DEF Written, LocksAreOwned
<1>3. Inv /\ LocksAreOwned /\ [Next]_vars =>
        [\A l \in Lumi : l \in locked => owner'[l] = owner[l]]_vars
  BY OnlyCommitsWrite, CommitLocks DEF Written
<1> QED
  BY <1>1, <1>2, <1>3, Isolated, PTL DEF Spec, LockedStays

LEMMA CommitOutcome ==
    ASSUME Inv, StatusTellsOutcome, NEW r \in Req, Commit(r)
    PROVE  StatusTellsOutcome'
<1> SUFFICES ASSUME NEW t \in Trade
             PROVE  swaps'[t] = IF trades'[t] # NoRow /\ trades'[t].status = "accepted"
                                THEN 1 ELSE 0
  BY DEF StatusTellsOutcome
<1>1. /\ TypeInv /\ IsoInv /\ TypeOK /\ TradeInv /\ Own(r) /\ Kept(r)
      /\ pc[r] \in Committing
      /\ trades' = IF trd[r] = NoRow THEN trades
                   ELSE [trades EXCEPT ![job[r].trade] = trd[r]]
      /\ swaps'[t] = swaps[t] + IF job[r].op = "accept" /\ job[r].trade = t
                                THEN 1 ELSE 0
  BY DEF Inv, IsoInv, TypeInv, WellFormed, Commit, Committing
<1>2. /\ swaps[t] = IF trades[t] # NoRow /\ trades[t].status = "accepted"
                    THEN 1 ELSE 0
      /\ swaps[t] \in Nat
  BY <1>1 DEF StatusTellsOutcome, TypeOK
<1>3. CASE Answers(r)
  <2>1. /\ trades[job[r].trade] \in TradeRow /\ trades[job[r].trade] # NoRow
        /\ trades[job[r].trade].status = "open"
        /\ trd[r] # NoRow /\ job[r].trade \in Trade
    BY <1>1, <1>3, Settling
  <2>2. trd[r] = resolve(trades[job[r].trade],
                         IF job[r].op = "accept" THEN "accepted" ELSE "cancelled")
    BY <1>1, <1>3, <2>1 DEF Own, Informed
  <2>3. trd[r].status = IF job[r].op = "accept" THEN "accepted" ELSE "cancelled"
    BY <2>1, <2>2 DEF resolve, TradeRow
  <2>4. trades'[t] = IF t = job[r].trade THEN trd[r] ELSE trades[t]
    BY <1>1, <2>1 DEF TypeOK
  <2> QED
    BY <1>1, <1>2, <2>1, <2>3, <2>4
<1>4. CASE ~Answers(r) /\ trd[r] = NoRow
  BY <1>1, <1>2, <1>4 DEF Answers
<1>5. CASE ~Answers(r) /\ trd[r] # NoRow
  <2>1. /\ job[r].op = "create" /\ trd[r] = createTrade(r)
        /\ job[r].trade \in Trade /\ trades[job[r].trade] = NoRow
    BY <1>1, <1>5 DEF TradeInv, Proposing, Answering, Answers, TradeRoutes, Own,
                      Informed
  <2>2. trd[r].status = "open"
    BY <2>1 DEF createTrade
  <2>3. trades'[t] = IF t = job[r].trade THEN trd[r] ELSE trades[t]
    BY <1>1, <1>5 DEF TypeOK
  <2> QED
    BY <1>1, <1>2, <2>1, <2>2, <2>3
<1> QED
  BY <1>3, <1>4, <1>5

\* While requests in flight touch different players, the status of a trade
\* tells what became of it: it was executed once if it says accepted, and never
\* if it is open or cancelled.
THEOREM StatusIsTheOutcome ==
    ASSUME Workload = "isolated"
    PROVE  Spec => []StatusTellsOutcome
<1>1. Init => StatusTellsOutcome
  BY DEF Init, StatusTellsOutcome
<1>2. Inv /\ StatusTellsOutcome /\ [Next]_vars => StatusTellsOutcome'
  BY OnlyCommitsWrite, CommitOutcome DEF Written, StatusTellsOutcome
<1> QED
  BY <1>1, <1>2, Isolated, PTL DEF Spec

\* Of the objects' plots, planting fills one and harvesting empties one.
LEMMA DoesPlot ==
    ASSUME TypeInv, IsoInv, NEW r \in Req, pc[r] \in Committing
    PROVE  /\ \A p \in Player :
                \/ ctx[r][p].plot = Before(r)[p].plot
                \/ p = job[r].who /\ job[r].op = "plant"
                \/ p = job[r].who /\ job[r].op = "harvest" /\ ctx[r][p].plot = NoPlanting
           /\ job[r].op = "harvest" => ctx[r][job[r].who].plot = NoPlanting
<1> DEFINE j == job[r]  old == Before(r)  new == ctx[r]  me == old[j.who]
           PlotKept == \A p \in Player : new[p].plot = old[p].plot
           OneKept == \A p \in Player : p # j.who => new[p].plot = old[p].plot
<1>1. /\ pc[r] # "idle" /\ Does(j, trd[r], grants[r], old, new)
      /\ Tidy(old) /\ j.op # "none" /\ j \in Job
      /\ j.who \in Player /\ j.who # j.other
      /\ j.op \in {"visit", "create"} => j.other \in Player
      /\ j.op = "accept" => j.other \in Player /\ trd[r] \in TradeRow
  BY Standing, Settling, BeforeTidy, Working DEF Committing, Answers
<1>2. /\ old \in [Player -> PlayerObject] /\ me \in PlayerObject
      /\ me.locked \subseteq me.lumi
  BY <1>1 DEF Tidy
<1> HIDE DEF old, new, me, j
<1>3. ASSUME NEW object, new = Put(old, j.who, object)
      PROVE  OneKept /\ new[j.who] = object
  BY <1>1, <1>2, <1>3 DEF Put
<1>4. ASSUME NEW object, new = Put(old, j.who, object), object.plot = me.plot
      PROVE  PlotKept
  BY <1>1, <1>3, <1>4 DEF me
<1>5. CASE j.op = "plant"
  BY <1>1, <1>3, <1>5 DEF Does, j, old, new
<1>6. CASE j.op = "harvest"
  <2>1. PICK l \in Lumi : new = Put(old, j.who, harvest(me, l))
    BY <1>1, <1>6 DEF Does, me
  <2>2. harvest(me, l).plot = NoPlanting
    BY <1>2, HarvestSound
  <2> QED
    BY <1>3, <1>6, <2>1, <2>2 DEF j, old, new
<1>7. CASE j.op = "breed"
  <2>1. PICK l \in Lumi : canBreed(me) /\ new = Put(old, j.who, breed(me, l))
    BY <1>1, <1>7 DEF Does, me
  <2>2. breed(me, l).plot = me.plot
    BY <1>2, <2>1, BreedSound
  <2> QED
    BY <1>4, <1>7, <2>1, <2>2 DEF j, old, new
<1>8. CASE j.op = "visit"
  <2>1. new = Put(old, j.who, visit(me, j.other))
    BY <1>1, <1>8 DEF Does, me
  <2>2. visit(me, j.other).plot = me.plot
    BY <1>1, <1>2, <1>8, VisitSound
  <2> QED
    BY <1>4, <1>8, <2>1, <2>2 DEF j, old, new
<1>9. CASE j.op \in {"lock", "unlock"}
  <2> DEFINE on == j.op = "lock"
  <2>1. canLock(me, j.lumi) /\ new = Put(old, j.who, lock(me, j.lumi, on))
    BY <1>1, <1>9 DEF Does, me
  <2>2. on \in BOOLEAN
    OBVIOUS
  <2> HIDE DEF on
  <2>3. lock(me, j.lumi, on).plot = me.plot
    BY <1>2, <2>1, <2>2, LockSound
  <2> QED
    BY <1>4, <1>9, <2>1, <2>3 DEF j, old, new
<1>10. CASE j.op \in {"create", "cancel"}
  BY <1>1, <1>10 DEF Does, j, old, new
<1>11. CASE j.op = "redeem"
  <2>1. new = old \/ new = Put(old, j.who, grantProduct(me))
    BY <1>1, <1>11 DEF Does, me
  <2>2. grantProduct(me).plot = me.plot
    BY <1>2, ProductSound
  <2> QED
    BY <1>4, <1>11, <2>1, <2>2 DEF j, old, new
<1>12. CASE j.op = "accept"
  <2> DEFINE offer == trd[r].offer  from == old[j.other]
             mine == tradeTo(me, offer)  theirs == tradeFrom(from, offer)
  <2>1. /\ j.other \in Player /\ offer \in Offer
        /\ validateTrade(from, me, offer)
        /\ new = [Put(old, j.who, mine) EXCEPT ![j.other] = theirs]
    BY <1>1, <1>12 DEF Does, TradeRow, me
  <2>2. /\ from \in PlayerObject /\ from.locked \subseteq from.lumi
        /\ from.lumi \cap me.lumi = {}
    BY <1>1, <2>1 DEF Tidy, me
  <2>3. mine.plot = me.plot /\ theirs.plot = from.plot
    <3> HIDE DEF from, offer
    <3> QED
      BY <1>2, <2>1, <2>2, TradeSound
  <2>4. \A p \in Player : new[p] = IF p = j.other THEN theirs
                                   ELSE IF p = j.who THEN mine ELSE old[p]
    <3> HIDE DEF mine, theirs
    <3> QED
      BY <1>1, <1>2, <2>1 DEF Put
  <2> HIDE DEF mine, theirs
  <2> QED
    BY <1>12, <2>3, <2>4 DEF me, j, old, new
<1>13. j.op \in {"plant", "harvest", "breed", "visit", "lock", "unlock", "create",
                 "accept", "cancel", "redeem"}
  BY <1>1 DEF Job, Routes, TradeRoutes
<1> QED
  BY <1>5, <1>6, <1>7, <1>8, <1>9, <1>10, <1>11, <1>12, <1>13

(***************************************************************************)
(* One planting, one Lumi.  A planting is in one place at a time: in the   *)
(* copy of the request that sows it, then in a plot, then in the one Lumi  *)
(* that the harvest mints.                                                 *)
(***************************************************************************)
Sows(r) == pc[r] \in Committing /\ job[r].op = "plant"

Seedling(r) == ctx[r][job[r].who].plot

Hatching(r) ==
    /\ Sows(r) =>
         /\ Seedling(r) \in sown
         /\ \A p \in Player : plots[p] # Seedling(r)
         /\ \A l \in Lumi : seedOf[l] # Seedling(r)
    /\ pc[r] \in Committing =>
         \A l \in Carried(r) : owner[l] = NoPlayer =>
           /\ job[r].op \in {"harvest", "breed"}
           /\ job[r].op = "harvest" => seedOf[l] = plots[job[r].who]
           /\ job[r].op = "breed" => seedOf[l] = Bred
           /\ \A k \in Carried(r) : owner[k] = NoPlayer => k = l

HatchInv ==
    /\ \A r \in Req : Hatching(r)
    /\ \A r, s \in Req : r # s /\ Sows(r) /\ Sows(s) => Seedling(r) # Seedling(s)
    /\ \A p \in Player : plots[p] \in sown \cup {NoPlanting}
    /\ \A p, q \in Player : p # q /\ plots[p] = plots[q] => plots[p] = NoPlanting
    /\ \A l \in Lumi : seedOf[l] \in Planting => seedOf[l] \in sown
    /\ HatchedOnce

LEMMA InitHatch == Init => HatchInv
<1> SUFFICES ASSUME Init PROVE HatchInv
  OBVIOUS
<1>1. \A r \in Req : Hatching(r) /\ ~Sows(r)
  BY DEF Init, Hatching, Sows, Committing
<1>2. \A p \in Player : plots[p] \in sown \cup {NoPlanting}
  BY DEF Init
<1>3. \A p, q \in Player : p # q /\ plots[p] = plots[q] => plots[p] = NoPlanting
  BY PgStoreAssumption DEF Init
<1>4. \A l \in Lumi : seedOf[l] \notin Planting
  BY PgStoreAssumption DEF Init
<1> QED
  BY <1>1, <1>2, <1>3, <1>4 DEF HatchInv, HatchedOnce

\* A step of r that writes no table, and mints from a plot or by breeding.
LEMMA QuietHatch ==
    ASSUME Inv, HatchInv, NEW r \in Req, UNCHANGED <<plots, owner>>,
           \A s \in Req \ {r} : SameRequest(s),
           sown \subseteq sown', OnlyMints,
           \A l \in Lumi : seedOf'[l] # seedOf[l] =>
              seedOf'[l] = Bred \/ \E p \in Player : seedOf'[l] = plots[p],
           Hatching(r)',
           Sows(r)' => \/ Sows(r) /\ Seedling(r)' = Seedling(r)
                       \/ Seedling(r)' \notin sown
    PROVE  HatchInv'
<1>1. /\ TypeOK /\ IsoInv /\ Minted /\ sown \subseteq Planting
      /\ Bred \notin Planting
  BY PgStoreAssumption DEF Inv, TypeInv, IsoInv, TypeOK
<1>2. \A s \in Req \ {r} : /\ Sows(s)' = Sows(s) /\ Seedling(s)' = Seedling(s)
                           /\ Hydrated(s)' = Hydrated(s) /\ Carried(s)' = Carried(s)
  BY DEF SameRequest, Sows, Seedling, Hydrated, Carried
<1>3. ASSUME NEW s \in Req \ {r}, pc[s] # "idle", NEW l \in Carried(s)
      PROVE  seedOf'[l] = seedOf[l]
  <2>1. Hydrated(s) \subseteq Player /\ Carries(s)
    BY <1>1, <1>3, Standing DEF IsoInv, Own, Inv
  <2>2. seedOf[l] # Unminted /\ l \in Lumi
    BY <1>1, <2>1 DEF Carries, Carried, TypeOK, PlayerObject
  <2> QED
    BY <2>2 DEF OnlyMints
<1>4. ASSUME NEW s \in Req \ {r} PROVE Hatching(s)'
  <2>1. Hatching(s)
    BY DEF HatchInv
  <2>2. ASSUME Sows(s)
        PROVE  /\ Seedling(s) \in sown
               /\ \A p \in Player : plots[p] # Seedling(s)
               /\ \A l \in Lumi : seedOf'[l] # Seedling(s)
    BY <1>1, <2>1, <2>2 DEF Hatching
  <2>3. pc[s] \in Committing => pc[s] # "idle"
    BY DEF Committing
  <2> QED
    BY <1>2, <1>3, <2>1, <2>2, <2>3 DEF Hatching, SameRequest
<1>5. ASSUME NEW s \in Req, NEW t \in Req, s # t, Sows(s)', Sows(t)'
      PROVE  Seedling(s)' # Seedling(t)'
  <2>1. \A q \in Req \ {r} : Sows(q)' => Seedling(q)' \in sown
    BY <1>2 DEF HatchInv, Hatching
  <2>2. CASE s # r /\ t # r
    BY <1>2, <1>5, <2>2 DEF HatchInv
  <2>3. CASE s = r
    BY <1>2, <1>5, <2>1, <2>3 DEF HatchInv
  <2>4. CASE t = r
    BY <1>2, <1>5, <2>1, <2>4 DEF HatchInv
  <2> QED
    BY <2>2, <2>3, <2>4
<1>6. \A l \in Lumi : seedOf'[l] \in Planting => seedOf'[l] \in sown'
  BY <1>1, HandlersAssumption DEF HatchInv
<1>7. \A l \in Lumi : owner[l] # NoPlayer => seedOf'[l] = seedOf[l]
  BY <1>1 DEF Minted, OnlyMints
<1>8. HatchedOnce'
  BY <1>7 DEF HatchInv, HatchedOnce
<1> QED
  BY <1>4, <1>5, <1>6, <1>8 DEF HatchInv

LEMMA CommitHatch ==
    ASSUME Inv, HatchInv, NEW r \in Req, Commit(r)
    PROVE  HatchInv'
<1> DEFINE who == job[r].who
<1>1. /\ TypeInv /\ TypeOK /\ IsoInv /\ pc[r] # "idle" /\ pc[r] \in Committing
      /\ End(r) /\ UNCHANGED <<seedOf, sown>> /\ sown \subseteq Planting
      /\ NoPlanting \notin Planting /\ Bred \notin Planting /\ Hatching(r)
  BY PgStoreAssumption, HandlersAssumption
     DEF Inv, TypeInv, TypeOK, Commit, Committing, HatchInv
<1>2. /\ who \in Hydrated(r) /\ Hydrated(r) \subseteq Player
      /\ NoPlayer \notin Hydrated(r)
  BY <1>1, Standing
<1>3. \A p \in Player : \/ plots'[p] = plots[p]
                        \/ p = who /\ Sows(r) /\ plots'[p] = Seedling(r)
                        \/ p = who /\ job[r].op = "harvest" /\ plots'[p] = NoPlanting
  <2> SUFFICES ASSUME NEW p \in Hydrated(r)
               PROVE  \/ plots'[p] = plots[p]
                      \/ p = who /\ Sows(r) /\ plots'[p] = Seedling(r)
                      \/ p = who /\ job[r].op = "harvest" /\ plots'[p] = NoPlanting
    BY CommitWrites DEF SameRows
  <2>1. plots'[p] = ctx[r][p].plot /\ Before(r)[p].plot = plots[p]
    BY <1>2, CommitWrites DEF Before, Committed
  <2>2. \/ ctx[r][p].plot = Before(r)[p].plot
        \/ p = who /\ job[r].op = "plant"
        \/ p = who /\ job[r].op = "harvest" /\ ctx[r][p].plot = NoPlanting
    BY <1>1, <1>2, DoesPlot
  <2> QED
    BY <1>1, <2>1, <2>2 DEF Sows, Seedling
<1>4. job[r].op = "harvest" => plots'[who] = NoPlanting
  <2> HAVE job[r].op = "harvest"
  <2>1. ctx[r][who].plot = NoPlanting
    BY <1>1, DoesPlot
  <2> QED
    BY <1>2, <2>1, CommitWrites
<1>5. \A l \in Lumi : owner[l] # NoPlayer => owner'[l] # NoPlayer
  BY <1>2, CommitWrites
\* A Lumi that comes into being is the one that r carries.
<1>6. \A l \in Lumi : owner[l] = NoPlayer /\ owner'[l] # NoPlayer => l \in Carried(r)
  BY CommitWrites
<1>7. ASSUME NEW s \in Req \ {r} PROVE Hatching(s)'
  <2>1. /\ Hatching(s) /\ job'[s] = job[s] /\ pc'[s] = pc[s] /\ ctx'[s] = ctx[s]
    BY <1>1, <1>7 DEF HatchInv, End, TypeOK
  <2>2. /\ Sows(s)' = Sows(s) /\ Seedling(s)' = Seedling(s)
        /\ Carried(s)' = Carried(s)
    BY <2>1 DEF Sows, Seedling, Hydrated, Carried
  <2>3. ASSUME Sows(s)
        PROVE  \A p \in Player : plots'[p] # Seedling(s)
    BY <1>1, <1>3, <2>1, <2>3 DEF Hatching, HatchInv
  <2>4. ASSUME pc[s] # "idle"
        PROVE  plots'[job[s].who] = plots[job[s].who] /\ Carried(s) \subseteq Lumi
    <3>1. /\ job[s].who \in Hydrated(s) /\ Hydrated(s) \subseteq Player
          /\ Hydrated(s) \subseteq Footprint(job[s])
          /\ Hydrated(r) \subseteq Footprint(job[r])
      BY <1>1, <2>4, Standing
    <3>2. job[s].who \in Player \ Hydrated(r)
      BY <1>1, <1>7, <2>4, <3>1 DEF IsoInv, Apart, Disjoint
    <3> QED
      BY <1>1, <3>1, <3>2, CommitWrites DEF SameRows, Carried, TypeOK, PlayerObject
  <2>5. pc[s] \in Committing => pc[s] # "idle"
    BY DEF Committing
  <2> QED
    BY <1>1, <1>5, <2>1, <2>2, <2>3, <2>4, <2>5 DEF Hatching
<1>8. ~Sows(r)' /\ Hatching(r)'
  BY <1>1 DEF End, TypeOK, Sows, Hatching, Committing
<1>9. \A s \in Req \ {r} : Sows(s)' = Sows(s) /\ Seedling(s)' = Seedling(s)
  BY <1>1 DEF End, TypeOK, Sows, Seedling
<1>10. \A p \in Player : plots'[p] \in sown' \cup {NoPlanting}
  BY <1>1, <1>3 DEF HatchInv, Hatching
<1>11. \A p, q \in Player : p # q /\ plots'[p] = plots'[q] => plots'[p] = NoPlanting
  BY <1>1, <1>3 DEF HatchInv, Hatching
<1>12. HatchedOnce'
  <2> SUFFICES ASSUME NEW l \in Lumi, owner'[l] # NoPlayer, seedOf[l] \in Planting
               PROVE  /\ \A k \in Lumi \ {l} : owner'[k] # NoPlayer => seedOf[k] # seedOf[l]
                      /\ \A p \in Player : plots'[p] # seedOf[l]
    BY <1>1 DEF HatchedOnce
  <2>1. CASE owner[l] # NoPlayer
    <3>1. ASSUME NEW k \in Lumi \ {l}, owner'[k] # NoPlayer, owner[k] = NoPlayer
          PROVE  seedOf[k] # seedOf[l]
      BY <1>1, <1>2, <1>6, <2>1, <3>1 DEF Hatching, HatchInv, HatchedOnce
    <3> QED
      BY <1>1, <1>3, <2>1, <3>1 DEF HatchInv, HatchedOnce, Hatching
  <2>2. CASE owner[l] = NoPlayer
    <3>1. l \in Carried(r)
      BY <1>6, <2>2
    <3>2. job[r].op = "harvest" /\ seedOf[l] = plots[who]
      BY <1>1, <2>2, <3>1 DEF Hatching
    <3>3. ASSUME NEW k \in Lumi \ {l}, owner'[k] # NoPlayer
          PROVE  seedOf[k] # seedOf[l]
      <4>1. owner[k] # NoPlayer
        BY <1>1, <1>6, <2>2, <3>1, <3>3 DEF Hatching
      <4> QED
        BY <1>2, <3>2, <4>1 DEF HatchInv, HatchedOnce
    <3>4. \A p \in Player : plots'[p] # seedOf[l]
      <4> TAKE p \in Player
      <4>1. CASE p = who
        BY <1>1, <1>4, <3>2, <4>1
      <4>2. CASE p # who
        BY <1>1, <1>2, <1>3, <3>2, <4>2 DEF HatchInv
      <4> QED
        BY <4>1, <4>2
    <3> QED
      BY <3>3, <3>4
  <2> QED
    BY <2>1, <2>2
<1> QED
  BY <1>1, <1>7, <1>8, <1>9, <1>10, <1>11, <1>12 DEF HatchInv

LEMMA HandleWrites ==
    ASSUME TypeOK, NEW r \in Req, Handle(r), ~Reject(r)
    PROVE  /\ Silent /\ pc[r] \in {"run", "claim"} /\ pc'[r] = "delete"
           /\ job'[r].op = job[r].op /\ job'[r].who = job[r].who
           /\ job'[r].other = job[r].other
           /\ \A s \in Req \ {r} : SameRequest(s)
<1>1. /\ UNCHANGED <<wallets, visitLog, plots, owner, locked, trades, snap, cleared>>
      /\ pc[r] \in {"run", "claim"} /\ pc' = [pc EXCEPT ![r] = "delete"]
      /\ at' = [at EXCEPT ![r] = job[r].who]
      /\ job' = job \/ \E t \in Trade : job' = [job EXCEPT ![r].trade = t]
      /\ \A s \in Req \ {r} : trd'[s] = trd[s] /\ grants'[s] = grants[s]
      /\ \A s \in Req \ {r} : ctx'[s] = ctx[s]
  BY DEF Handle, HandlePlant, HandleHarvest, HandleBreed, HandleVisit,
     HandleLock, HandleCreate, HandleAccept, HandleCancel, HandleRedeem, Claimed,
     AlreadyClaimed, Handling, Return, tables, TypeOK
<1>2. /\ job'[r].op = job[r].op /\ job'[r].who = job[r].who
      /\ job'[r].other = job[r].other
      /\ \A s \in Req \ {r} : job'[s] = job[s]
  BY <1>1 DEF TypeOK, Job
<1> QED
  BY <1>1, <1>2 DEF Silent, TypeOK, SameRequest

\* What a handler that does not mint carries exists already.
LEMMA CarriesOwned ==
    ASSUME Inv, Inv', NEW r \in Req, Handle(r), ~Reject(r),
           job[r].op \notin {"harvest", "breed"}
    PROVE  \A l \in Carried(r)' : owner[l] # NoPlayer
<1>1. /\ TypeOK /\ TypeInv /\ IsoInv /\ Kept(r)
      /\ TypeOK' /\ Kept(r)' /\ Own(r)'
  BY DEF Inv, TypeInv, IsoInv, WellFormed
<1>2. /\ Silent /\ pc[r] \in {"run", "claim"} /\ pc'[r] = "delete"
      /\ job'[r].op = job[r].op /\ job'[r].who = job[r].who
      /\ job'[r].other = job[r].other
  BY <1>1, HandleWrites
<1>3. /\ job'[r] \in Job /\ job[r].op # "none" /\ job[r].who \in Player
      /\ job[r].who # job[r].other
      /\ job[r].op \in {"visit", "create"} => job[r].other \in Player
      /\ job[r].op = "accept" => job[r].other \in Player /\ trd'[r] \in TradeRow
      /\ NoPlayer \notin Hydrated(r) /\ Hydrated(r) \subseteq Player
  <2>1. pc[r] # "idle" /\ (job[r].op = "accept" => pc[r] = "run")
    BY <1>1, <1>2 DEF Kept
  <2>2. job[r].op = "accept" => job[r].other \in Player
    BY <1>1, <2>1, Settling DEF Answers
  <2>3. job[r].op = "accept" => trd'[r] \in TradeRow
    BY <1>1, <1>2, <2>2, PgStoreAssumption DEF Kept, TypeOK
  <2> QED
    BY <1>1, <2>1, <2>2, <2>3, Standing DEF TypeOK
<1>4. Hydrated(r)' = Hydrated(r) /\ Before(r)' = Before(r)
  BY <1>2 DEF Hydrated, Before, Committed, Rows, Silent
<1>5. Does(job'[r], trd'[r], grants'[r], Before(r), ctx'[r]) /\ Tidy(Before(r))
  BY <1>1, <1>2, <1>4, BeforeTidy DEF Own, Faithful, Committing
<1>6. \A p \in Player : \A l \in ctx'[r][p].lumi :
        \E q \in Player : l \in Before(r)[q].lumi
  BY <1>2, <1>3, <1>5, DoesSound
<1>7. \A q \in Player : \A l \in Before(r)[q].lumi : owner[l] # NoPlayer
  BY <1>3 DEF Before, Committed, Rows, Blank
<1> QED
  BY <1>3, <1>4, <1>6, <1>7 DEF Carried

LEMMA HandleHatch ==
    ASSUME Inv, Inv', HatchInv, NEW r \in Req, Handle(r), ~Reject(r)
    PROVE  HatchInv'
<1> DEFINE who == job[r].who
<1>1. /\ TypeOK /\ TypeInv /\ IsoInv /\ Carries(r) /\ sown \subseteq Planting
  BY DEF Inv, TypeInv, IsoInv, Own, TypeOK
<1>2. /\ Silent /\ pc[r] \in {"run", "claim"} /\ pc'[r] = "delete"
      /\ job'[r].op = job[r].op /\ job'[r].who = who
      /\ job'[r].other = job[r].other
      /\ \A s \in Req \ {r} : SameRequest(s)
  BY <1>1, HandleWrites
<1>3. Hydrated(r)' = Hydrated(r) /\ who \in Hydrated(r) /\ who \in Player
      /\ Hydrated(r) \subseteq Player
  BY <1>1, <1>2, Standing DEF Hydrated
\* The handlers that mint.
<1>4. ASSUME NEW l \in Lumi, NEW seed, NEW object,
             seedOf[l] = Unminted, seedOf' = [seedOf EXCEPT ![l] = seed],
             object.lumi = Self(r).lumi \cup {l},
             ctx'[r] = SelfBecomes(r, object), sown' = sown,
             \/ job[r].op = "harvest" /\ seed = plots[who] /\ seed # NoPlanting
             \/ job[r].op = "breed" /\ seed = Bred
      PROVE  HatchInv'
  <2>1. \A p \in Player : \A k \in ctx'[r][p].lumi : k \in Before(r)[p].lumi \/ k = l
    BY <1>2, <1>4, Gains
  <2>2. NoPlayer \notin Hydrated(r)
    BY <1>1, <1>2, Standing
  <2>3. \A k \in Carried(r)' : owner[k] = NoPlayer => k = l
    BY <1>3, <2>1, <2>2 DEF Carried, Before, Committed, Rows, Blank
  <2>4. seedOf'[l] = seed /\ \A k \in Lumi \ {l} : seedOf'[k] = seedOf[k]
    BY <1>1, <1>4 DEF TypeOK
  <2>5. OnlyMints
    BY <1>4, <2>4 DEF OnlyMints
  <2>6. Hatching(r)' /\ ~Sows(r)'
    BY <1>2, <1>4, <2>3, <2>4 DEF Hatching, Sows, Silent
  <2>7. \A k \in Lumi : seedOf'[k] # seedOf[k] =>
          seedOf'[k] = Bred \/ \E p \in Player : seedOf'[k] = plots[p]
    BY <1>3, <1>4, <2>4
  <2> QED
    BY <1>2, <1>4, <2>5, <2>6, <2>7, QuietHatch DEF Silent
\* The others.
<1>5. ASSUME job[r].op \notin {"harvest", "breed"}, UNCHANGED seedOf,
             \/ sown' = sown /\ job[r].op # "plant"
             \/ /\ job[r].op = "plant"
                /\ \E n \in Planting \ sown : /\ sown' = sown \cup {n}
                                              /\ ctx'[r][who].plot = n
      PROVE  HatchInv'
  <2>1. \A l \in Carried(r)' : owner[l] # NoPlayer
    BY <1>5, CarriesOwned
  <2>2. NoPlanting \notin Planting
    BY HandlersAssumption
  <2>3. Hatching(r)'
    BY <1>2, <1>5, <2>1, <2>2 DEF Hatching, Sows, Seedling, HatchInv, Silent
  <2>4. Sows(r)' => Seedling(r)' \notin sown
    BY <1>2, <1>5 DEF Sows, Seedling
  <2> QED
    BY <1>2, <1>5, <2>3, <2>4, QuietHatch DEF Silent, OnlyMints
<1>6. CASE HandlePlant(r)
  <2>1. /\ job[r].op = "plant" /\ pc[r] = "run" /\ canPlant(Self(r))
        /\ seedOf' = seedOf
    BY <1>6 DEF HandlePlant, Handling
  <2>2. PICK n \in Planting \ sown :
          sown' = sown \cup {n} /\ Return(r, SelfBecomes(r, plant(Self(r), n)))
    BY <1>6 DEF HandlePlant
  <2>3. plant(Self(r), n).plot = n
    BY <1>2, <2>1, Ready, PlantSound
  <2>4. ctx'[r][who] = plant(Self(r), n)
    BY <1>1, <1>3, <2>2 DEF Return, TypeOK, SelfBecomes
  <2> QED
    BY <1>5, <2>1, <2>2, <2>3, <2>4
<1>7. CASE HandleHarvest(r)
  <2>1. /\ job[r].op = "harvest" /\ pc[r] = "run" /\ canHarvest(Self(r))
        /\ sown' = sown
    BY <1>7 DEF HandleHarvest, Handling
  <2>2. PICK l \in Lumi :
          /\ seedOf[l] = Unminted /\ seedOf' = [seedOf EXCEPT ![l] = Self(r).plot]
          /\ Return(r, SelfBecomes(r, harvest(Self(r), l)))
    BY <1>7 DEF HandleHarvest
  <2>3. harvest(Self(r), l).lumi = Self(r).lumi \cup {l}
    BY <1>2, Ready, HarvestSound
  <2>4. Self(r).plot = plots[who] /\ Self(r).plot # NoPlanting
    BY <1>2, <2>1, Ready DEF Committed, canHarvest
  <2>5. ctx'[r] = SelfBecomes(r, harvest(Self(r), l))
    BY <1>1, <2>2 DEF Return, TypeOK
  <2> QED
    BY <1>4, <2>1, <2>2, <2>3, <2>4, <2>5
<1>8. CASE HandleBreed(r)
  <2>1. /\ job[r].op = "breed" /\ pc[r] = "run" /\ canBreed(Self(r))
        /\ sown' = sown
    BY <1>8 DEF HandleBreed, Handling
  <2>2. PICK l \in Lumi :
          /\ seedOf[l] = Unminted /\ seedOf' = [seedOf EXCEPT ![l] = Bred]
          /\ Return(r, SelfBecomes(r, breed(Self(r), l)))
    BY <1>8 DEF HandleBreed
  <2>3. breed(Self(r), l).lumi = Self(r).lumi \cup {l}
    BY <1>2, <2>1, Ready, BreedSound
  <2>5. ctx'[r] = SelfBecomes(r, breed(Self(r), l))
    BY <1>1, <2>2 DEF Return, TypeOK
  <2> QED
    BY <1>4, <2>1, <2>2, <2>3, <2>5
<1>9. CASE \/ HandleVisit(r) \/ HandleLock(r) \/ HandleCreate(r)
           \/ HandleAccept(r) \/ HandleCancel(r)
  <2>1. /\ job[r].op \in {"visit", "lock", "unlock", "create", "accept", "cancel"}
        /\ seedOf' = seedOf /\ sown' = sown
    BY <1>9 DEF HandleVisit, HandleLock, HandleCreate, HandleAccept, HandleCancel,
                Handling
  <2> QED
    BY <1>5, <2>1
<1>10. CASE HandleRedeem(r)
  <2>1. job[r].op = "redeem" /\ seedOf' = seedOf /\ sown' = sown
    BY <1>1, <1>10 DEF HandleRedeem, TypeInv, WellFormed, Kept
  <2> QED
    BY <1>5, <2>1
<1> QED
  BY <1>6, <1>7, <1>8, <1>9, <1>10 DEF Handle

LEMMA NextHatch ==
    ASSUME Inv, Inv', HatchInv, [Next]_vars
    PROVE  HatchInv'
<1>1. TypeOK
  BY DEF Inv, TypeInv
\* The steps that change neither the tables nor the history.
<1>2. ASSUME NEW r \in Req, UNCHANGED <<plots, owner, seedOf, sown>>,
             \A s \in Req \ {r} : SameRequest(s),
             \/ pc'[r] \notin Committing
             \/ /\ pc[r] \in Committing
                /\ job'[r] = job[r] /\ ctx'[r] = ctx[r]
      PROVE  HatchInv'
  <2>1. Hatching(r) /\ pc[r] \in Committing /\ pc'[r] \in Committing =>
          Carried(r)' = Carried(r)
    BY <1>2 DEF Carried, Hydrated
  <2>2. Hatching(r)'
    <3>1. CASE pc'[r] \notin Committing
      BY <3>1 DEF Hatching, Sows
    <3>2. CASE pc'[r] \in Committing
      BY <1>2, <2>1, <3>2 DEF HatchInv, Hatching, Sows, Seedling
    <3> QED
      BY <3>1, <3>2
  <2>3. Sows(r)' => Sows(r) /\ Seedling(r)' = Seedling(r)
    BY <1>2 DEF Sows, Seedling
  <2> QED
    BY <1>2, <2>2, <2>3, QuietHatch DEF OnlyMints
<1>3. ASSUME NEW r \in Req, Drop(r) PROVE HatchInv'
  <2>1. /\ UNCHANGED <<plots, owner, seedOf, sown>> /\ pc'[r] \notin Committing
        /\ \A s \in Req \ {r} : SameRequest(s)
    BY <1>1, <1>3 DEF Drop, End, Unlock, TypeOK, SameRequest, tables, Committing
  <2> QED
    BY <1>2, <2>1
<1>4. ASSUME NEW r \in Req, Arrive(r) PROVE HatchInv'
  <2>1. /\ UNCHANGED <<plots, owner, seedOf, sown>> /\ pc'[r] \notin Committing
        /\ \A s \in Req \ {r} : SameRequest(s)
    BY <1>1, <1>4, ArriveSubmits
       DEF Submit, TypeOK, SameRequest, tables, Committing
  <2> QED
    BY <1>2, <2>1
<1>5. ASSUME NEW r \in Req,
             \/ ReadPlayers(r) \/ ReadWallets(r) \/ ReadGardens(r) \/ ReadLumi(r)
             \/ ReadTrade(r)
      PROVE  HatchInv'
  <2>1. /\ UNCHANGED <<plots, owner, seedOf, sown>>
        /\ \A s \in Req \ {r} : SameRequest(s)
    BY <1>1, <1>5 DEF ReadPlayers, ReadWallets, ReadGardens, ReadLumi, Read,
       ReadTrade, TypeOK, SameRequest, tables, history
  <2>2. pc'[r] \notin Committing
    <3>1. CASE ReadLumi(r)
      BY <1>1, <3>1 DEF ReadLumi, Read, NextAwait, TypeOK, Committing
    <3>2. CASE ~ReadLumi(r)
      BY <1>1, <1>5, <3>2 DEF ReadPlayers, ReadWallets, ReadGardens, Read,
         ReadTrade, TypeOK, Committing
    <3> QED
      BY <3>1, <3>2
  <2> QED
    BY <1>2, <2>1, <2>2
<1>6. ASSUME NEW r \in Req, StartDelete(r) \/ FinishDelete(r) PROVE HatchInv'
  <2>1. /\ UNCHANGED <<plots, owner, seedOf, sown, job, ctx>>
        /\ pc[r] \in Committing
        /\ \A s \in Req \ {r} : SameRequest(s)
    BY <1>1, <1>6 DEF StartDelete, FinishDelete, TypeOK, SameRequest, tables,
       history, Committing
  <2> QED
    BY <1>2, <2>1
<1>7. ASSUME NEW r \in Req, Step(r) PROVE HatchInv'
  <2>1. Reject(r) \/ DuplicateKey(r) \/ DeadlockVictim(r) => Drop(r)
    BY DEF Reject, DuplicateKey, DeadlockVictim
  <2> QED
    BY <1>3, <1>5, <1>6, <1>7, <2>1, HandleHatch, CommitHatch DEF Step
<1>8. ASSUME UNCHANGED vars PROVE HatchInv'
  <2>1. /\ UNCHANGED <<plots, owner, seedOf, sown, pc, job, ctx>>
    BY <1>8 DEF vars, tables, request, history
  <2>2. \A r \in Req : /\ Sows(r)' = Sows(r) /\ Seedling(r)' = Seedling(r)
                       /\ Carried(r)' = Carried(r)
    BY <2>1 DEF Sows, Seedling, Carried, Hydrated
  <2>3. \A r \in Req : Hatching(r)'
    BY <2>1, <2>2 DEF HatchInv, Hatching
  <2> QED
    BY <2>1, <2>2, <2>3 DEF HatchInv, HatchedOnce
<1> QED
  BY <1>3, <1>4, <1>7, <1>8 DEF Next, Fail

\* While requests in flight touch different players, a planting hatches once:
\* no two Lumi that exist come from one planting, and none from a planting that
\* is still in a plot.
THEOREM SeedsHatchOnce ==
    ASSUME Workload = "isolated"
    PROVE  Spec => []HatchedOnce
<1>1. Inv /\ Inv' /\ HatchInv /\ [Next]_vars => HatchInv'
  BY NextHatch
<1>2. HatchInv => HatchedOnce
  BY DEF HatchInv
<1> QED
  BY <1>1, <1>2, InitHatch, Isolated, PTL DEF Spec

(***************************************************************************)
(* The serial game of module Game.  Its handlers are the handlers of       *)
(* module Handlers, and its objects are the committed ones.                *)
(***************************************************************************)
LEMMA SameCount == \A S : Promise!Cardinality(S) = Cardinality(S)
BY DEF Promise!Cardinality, Cardinality

LEMMA SameMoney ==
    /\ \A n : Promise!Petals(n) = Petals(n) /\ Promise!Lumen(n) = Lumen(n)
    /\ \A p, cost : Promise!canPay(p, cost) <=> canPay(p, cost)
    /\ \A p, cost : Promise!pay(p, cost) = pay(p, cost)
    /\ \A p, reward : Promise!grant(p, reward) = grant(p, reward)
    /\ Promise!NoEntries = NoEntries
BY DEF Promise!Petals, Petals, Promise!Lumen, Lumen, Promise!Currency, Currency,
       Promise!canPay, canPay, Promise!pay, pay, Promise!grant, grant,
       Promise!applied, applied, Promise!Lesser, Lesser, Promise!HardCap, HardCap,
       Promise!NoEntries, NoEntries

LEMMA SameHandlers ==
    /\ \A p : Promise!canPlant(p) <=> canPlant(p)
    /\ \A p : Promise!canHarvest(p) <=> canHarvest(p)
    /\ \A p : Promise!canBreed(p) <=> canBreed(p)
    /\ \A p, n : Promise!plant(p, n) = plant(p, n)
    /\ \A p, l : Promise!harvest(p, l) = harvest(p, l)
    /\ \A p, l : Promise!breed(p, l) = breed(p, l)
    /\ \A p, l, on : Promise!lock(p, l, on) = lock(p, l, on)
    /\ \A p : Promise!grantProduct(p) = grantProduct(p)
BY SameMoney
   DEF Promise!canPlant, canPlant, Promise!canHarvest, canHarvest,
       Promise!canBreed, canBreed, Promise!plant, plant, Promise!harvest, harvest,
       Promise!breed, breed, Promise!addLumi, addLumi, Promise!lock, lock,
       Promise!grantProduct, grantProduct

LEMMA SameVisit == \A p, q : Promise!visit(p, q) = visit(p, q)
BY SameMoney, SameCount
   DEF Promise!visit, visit, Promise!rewardedVisit, rewardedVisit

LEMMA SameTrade ==
    /\ \A from, to, t : Promise!validateTrade(from, to, t) <=> validateTrade(from, to, t)
    /\ \A from, t : Promise!tradeFrom(from, t) = tradeFrom(from, t)
    /\ \A to, t : Promise!tradeTo(to, t) = tradeTo(to, t)
BY SameMoney, SameCount
   DEF Promise!validateTrade, validateTrade, Promise!tradeFrom, tradeFrom,
       Promise!tradeTo, tradeTo, Promise!tradeTax, tradeTax

LEMMA SameObjects == \A p : Promise!Object(p) = Committed(p)
BY SameMoney DEF Promise!Object, Committed, Promise!Collection, Rows

\* A commit has the effect of Becomes, for the players D whose objects its
\* handler changed.
LEMMA CommitBecomes ==
    ASSUME Inv, NEW r \in Req, Commit(r),
           NEW D, D \subseteq Hydrated(r),
           \A p \in Hydrated(r) \ D : ctx[r][p] = Before(r)[p],
           NEW new, DOMAIN new = D, \A p \in D : new[p] = ctx[r][p]
    PROVE  Promise!Becomes(new)
<1> DEFINE Held == UNION {new[p].lumi : p \in D}
           Left == {l \in Lumi : owner[l] \in D} \ Held
           Marked == UNION {new[p].locked : p \in D}
           Holder(l) == CHOOSE p \in D : l \in new[p].lumi
<1>1. /\ TypeInv /\ TypeOK /\ IsoInv /\ pc[r] # "idle" /\ pc[r] \in Committing
      /\ TypeOK'
  <2>1. TypeInv /\ IsoInv /\ pc[r] = "save"
    BY DEF Inv, Commit
  <2>2. TypeInv'
    BY <2>1, CommitType
  <2> QED
    BY <2>1, <2>2 DEF TypeInv, Committing
<1>2. Hydrated(r) \subseteq Player /\ NoPlayer \notin Hydrated(r)
  BY <1>1, Standing
<1>3. \A p \in Player : /\ ctx[r][p] \in PlayerObject
                        /\ ctx[r][p].lumi \subseteq Lumi
                        /\ ctx[r][p].locked \subseteq ctx[r][p].lumi
  BY <1>1, Working DEF TypeOK, PlayerObject
<1>4. \A p \in Hydrated(r) \ D :
        /\ ctx[r][p].wallet = wallets[p] /\ ctx[r][p].visits = visitLog[p]
        /\ ctx[r][p].plot = plots[p] /\ ctx[r][p].ledger = NoEntries
        /\ ctx[r][p].lumi = Rows(p) /\ ctx[r][p].locked = Rows(p) \cap locked
  <2> TAKE p \in Hydrated(r) \ D
  <2>1. ctx[r][p] = Committed(p)
    BY <1>2 DEF Before
  <2> QED
    BY <2>1 DEF Committed
<1>5. \A p \in Player :
        /\ wallets'[p] = IF p \in D THEN new[p].wallet ELSE wallets[p]
        /\ visitLog'[p] = IF p \in D THEN new[p].visits ELSE visitLog[p]
        /\ plots'[p] = IF p \in D THEN new[p].plot ELSE plots[p]
  BY <1>4, CommitWrites DEF SameRows
<1>6. \A p \in Player : \A c \in Currency :
        journal'[p][c] = journal[p][c] + IF p \in D THEN new[p].ledger[c] ELSE 0
  <2> TAKE p \in Player
  <2> TAKE c \in Currency
  <2>1. journal'[p][c] = journal[p][c]
          + IF p \in Hydrated(r) THEN ctx[r][p].ledger[c] ELSE 0
    BY DEF Commit, Saved
  <2>2. p \in Hydrated(r) \ D => ctx[r][p].ledger[c] = 0
    BY <1>4 DEF NoEntries
  <2> QED
    BY <2>1, <2>2
\* Where a Lumi is: with one of D, with another player of the request, or
\* elsewhere.
<1>7. ASSUME NEW l \in Lumi, l \in Carried(r), owner'[l] \in D
      PROVE  /\ l \in Held
             /\ \A p \in D : l \in new[p].lumi <=> p = owner'[l]
             /\ l \in locked' <=> l \in Marked
  <2>1. PICK q \in D : owner'[l] = q
    BY <1>7
  <2>2. q \in Hydrated(r) /\ l \in ctx[r][q].lumi
    BY <1>7, <2>1, CommitWrites
  <2>3. \A p \in Hydrated(r) : l \in ctx[r][p].lumi => p = q
    BY <2>2 DEF Commit, PkConflict
  <2>4. l \in locked' <=> l \in ctx[r][q].locked
    <3>1. Rows(q)' \cap locked' = ctx[r][q].locked /\ l \in Rows(q)'
      BY <2>2, CommitWrites
    <3> QED
      BY <3>1
  <2>5. l \in Marked <=> l \in ctx[r][q].locked
    BY <1>2, <1>3, <2>1, <2>3
  <2> QED
    BY <2>1, <2>2, <2>3, <2>4, <2>5
<1>8. ASSUME NEW l \in Lumi, l \in Carried(r), owner'[l] \notin D
      PROVE  /\ l \notin Held /\ l \notin Left /\ owner'[l] = owner[l]
             /\ l \notin Marked /\ (l \in locked' <=> l \in locked)
  <2>1. PICK q \in Hydrated(r) \ D : owner'[l] = q
    BY <1>8, CommitWrites
  <2>2. l \in ctx[r][q].lumi
    BY <1>8, <2>1, CommitWrites
  <2>3. \A p \in Hydrated(r) : l \in ctx[r][p].lumi => p = q
    BY <2>1, <2>2 DEF Commit, PkConflict
  <2>4. l \notin Held
    BY <2>1, <2>3
  <2>5. owner[l] = q
    BY <1>4, <2>1, <2>2 DEF Rows
  <2>6. l \in locked' <=> l \in ctx[r][q].locked
    <3>1. Rows(q)' \cap locked' = ctx[r][q].locked /\ l \in Rows(q)'
      BY <2>1, <2>2, CommitWrites
    <3> QED
      BY <3>1
  <2>7. l \in ctx[r][q].locked <=> l \in locked
    BY <1>4, <2>1, <2>5 DEF Rows
  <2>8. l \notin Marked
    BY <1>2, <1>3, <2>1, <2>3
  <2> QED
    BY <2>1, <2>4, <2>5, <2>6, <2>7, <2>8
<1>9. ASSUME NEW l \in Lumi, l \notin Carried(r)
      PROVE  /\ l \notin Held /\ l \notin Left /\ owner'[l] = owner[l]
             /\ l \notin Marked /\ (l \in locked' <=> l \in locked)
  <2>1. \A p \in Hydrated(r) : l \notin ctx[r][p].lumi /\ l \notin ctx[r][p].locked
    BY <1>2, <1>3, <1>9 DEF Carried
  <2>2. owner[l] \notin Hydrated(r) /\ owner'[l] = owner[l]
        /\ (l \in locked' <=> l \in locked)
    BY <1>9, CommitWrites
  <2> QED
    BY <2>1, <2>2
<1>10. Held \subseteq Lumi /\ Marked \subseteq Held
  BY <1>2, <1>3
<1>11. ASSUME NEW l \in Lumi
       PROVE  owner'[l] = CASE l \in Held -> Holder(l)
                            [] l \in Left -> NoPlayer
                            [] OTHER      -> owner[l]
  <2>1. CASE l \in Carried(r) /\ owner'[l] \in D
    <3>1. PICK q \in D : owner'[l] = q
      BY <2>1
    <3>2. /\ l \in Held /\ l \notin Left
          /\ \A p \in D : l \in new[p].lumi <=> p = q
      BY <1>7, <2>1, <3>1
    <3>3. Holder(l) = q
      BY <3>1, <3>2
    <3> HIDE DEF Held, Left, Holder
    <3> QED
      BY <3>1, <3>2, <3>3
  <2>2. CASE ~(l \in Carried(r) /\ owner'[l] \in D)
    <3> HIDE DEF Held, Left
    <3> QED
      BY <1>8, <1>9, <2>2
  <2> QED
    BY <2>1, <2>2
<1>12. locked' = (locked \ (Held \cup Left)) \cup Marked
  <2>1. locked' \subseteq Lumi /\ locked \subseteq Lumi
    BY <1>1 DEF TypeOK
  <2>2. ASSUME NEW l \in Lumi
        PROVE  l \in locked' <=> (l \in locked /\ l \notin Held \cup Left) \/ l \in Marked
    <3> HIDE DEF Held, Left, Marked
    <3> QED
      BY <1>7, <1>8, <1>9
  <2> HIDE DEF Held, Left, Marked
  <2> QED
    BY <1>10, <2>1, <2>2
<1>13. /\ wallets' = [p \in Player |-> IF p \in D THEN new[p].wallet ELSE wallets[p]]
       /\ visitLog' = [p \in Player |-> IF p \in D THEN new[p].visits ELSE visitLog[p]]
       /\ plots' = [p \in Player |-> IF p \in D THEN new[p].plot ELSE plots[p]]
  BY <1>5 DEF Commit
<1>14. journal' = [p \in Player |-> [c \in Currency |->
                     journal[p][c] + IF p \in D THEN new[p].ledger[c] ELSE 0]]
  BY <1>6 DEF Commit
<1>15. owner' = [l \in Lumi |->
                   CASE l \in Held -> Holder(l)
                     [] l \in Left -> NoPlayer
                     [] OTHER      -> owner[l]]
  <2>1. owner' = [l \in Lumi |-> owner'[l]]
    BY <1>1 DEF TypeOK
  <2> HIDE DEF Held, Left
  <2> QED
    BY <1>11, <2>1
<1>16. Promise!Currency = Currency
  BY DEF Promise!Currency, Currency
<1> QED
  BY <1>12, <1>13, <1>14, <1>15, <1>16 DEF Promise!Becomes

\* A commit whose handler changed the actor's object alone.
LEMMA CommitOnly ==
    ASSUME Inv, NEW r \in Req, Commit(r), NEW object,
           ctx[r] = Put(Before(r), job[r].who, object)
    PROVE  Promise!Only(job[r].who, object)
<1> DEFINE who == job[r].who
           new == [q \in {who} |-> object]
<1>1. TypeInv /\ IsoInv /\ pc[r] # "idle"
  BY DEF Inv, Commit
<1>2. who \in Player /\ who \in Hydrated(r) /\ Hydrated(r) \subseteq Player
  BY <1>1, Standing
<1>3. /\ DOMAIN new = {who} /\ {who} \subseteq Hydrated(r)
      /\ \A p \in Hydrated(r) \ {who} : ctx[r][p] = Before(r)[p]
      /\ \A p \in {who} : new[p] = ctx[r][p]
  BY <1>2 DEF Put, Before
<1> HIDE DEF new
<1>4. Promise!Becomes(new)
  BY <1>3, CommitBecomes
<1> QED
  BY <1>4 DEF Promise!Only, new

\* A commit whose handler changed nothing.
LEMMA CommitNothing ==
    ASSUME Inv, NEW r \in Req, Commit(r), ctx[r] = Before(r)
    PROVE  UNCHANGED <<wallets, visitLog, plots, owner, locked, journal>>
<1>1. TypeInv /\ TypeOK /\ IsoInv /\ TypeOK' /\ pc[r] # "idle"
  <2>1. TypeInv /\ IsoInv /\ pc[r] # "idle"
    BY DEF Inv, Commit
  <2> QED
    BY <2>1, CommitType DEF TypeInv
<1>2. \A p \in Hydrated(r) :
        /\ p \in Player
        /\ ctx[r][p].wallet = wallets[p] /\ ctx[r][p].visits = visitLog[p]
        /\ ctx[r][p].plot = plots[p] /\ ctx[r][p].ledger = NoEntries
        /\ ctx[r][p].lumi = Rows(p) /\ ctx[r][p].locked = Rows(p) \cap locked
  <2> TAKE p \in Hydrated(r)
  <2>1. p \in Player
    BY <1>1, Standing
  <2>2. ctx[r][p] = Committed(p)
    BY <2>1 DEF Before
  <2> QED
    BY <2>1, <2>2 DEF Committed
<1>3. \A p \in Player : /\ wallets'[p] = wallets[p] /\ visitLog'[p] = visitLog[p]
                        /\ plots'[p] = plots[p]
  BY <1>2, CommitWrites DEF SameRows
<1>4. \A p \in Player : \A c \in Currency : journal'[p][c] = journal[p][c]
  <2> TAKE p \in Player
  <2> TAKE c \in Currency
  <2>1. journal'[p][c] = journal[p][c] + Saved(r, p, ctx[r][p].ledger[c], 0)
    BY DEF Commit
  <2>2. Saved(r, p, ctx[r][p].ledger[c], 0) = 0
    BY <1>2 DEF Saved, NoEntries
  <2>3. journal[p][c] \in Int
    BY <1>1 DEF TypeOK, Sums
  <2> QED
    BY <2>1, <2>2, <2>3
<1>5. \A l \in Lumi : owner'[l] = owner[l] /\ (l \in locked' <=> l \in locked)
  <2> TAKE l \in Lumi
  <2>1. CASE l \in Carried(r)
    <3>1. PICK q \in Hydrated(r) : owner'[l] = q
      BY <2>1, CommitWrites
    <3>2. l \in Rows(q) /\ owner[l] = q
      BY <1>2, <2>1, <3>1, CommitWrites DEF Rows
    <3>3. Rows(q)' \cap locked' = Rows(q) \cap locked
      BY <1>2, <3>1, CommitWrites
    <3>4. l \in Rows(q)'
      BY <3>1 DEF Rows
    <3> QED
      BY <3>1, <3>2, <3>3, <3>4
  <2>2. CASE l \notin Carried(r)
    BY <2>2, CommitWrites
  <2> QED
    BY <2>1, <2>2
<1>6. wallets' = wallets /\ visitLog' = visitLog /\ plots' = plots
  BY <1>1, <1>3 DEF TypeOK
<1>7. owner' = owner /\ locked' = locked
  BY <1>1, <1>5 DEF TypeOK
<1>8. journal' = journal
  <2>1. \A p \in Player : journal'[p] = journal[p]
    BY <1>1, <1>4 DEF TypeOK, Sums
  <2> QED
    BY <1>1, <2>1 DEF TypeOK
<1> QED
  BY <1>6, <1>7, <1>8

\* The rest of what a commit writes, and what its handler found.
LEMMA CommitFound ==
    ASSUME Inv, NEW r \in Req, Commit(r)
    PROVE  /\ UNCHANGED receipts
           /\ job[r].op \notin TradeRoutes => UNCHANGED trades
           /\ job[r].op # "redeem" \/ grants[r] = NoTx => UNCHANGED granted
           /\ Does(job[r], trd[r], grants[r], Before(r), ctx[r])
           /\ job[r] \in Job /\ job[r].op # "none" /\ job[r].who \in Player
           /\ Before(r)[job[r].who] = Committed(job[r].who)
           /\ job[r].op \notin {"visit", "create", "accept"} =>
                Hydrated(r) = {job[r].who}
<1>1. /\ TypeInv /\ TypeOK /\ IsoInv /\ Own(r) /\ pc[r] # "idle"
      /\ pc[r] \in Committing
  BY DEF Inv, IsoInv, TypeInv, Commit, Committing
<1>2. /\ job[r] \in Job /\ job[r].op # "none" /\ job[r].who \in Player
      /\ job[r].who \in Hydrated(r)
  BY <1>1, Standing
<1>3. Does(job[r], trd[r], grants[r], Before(r), ctx[r])
  BY <1>1, Working
<1>4. Before(r)[job[r].who] = Committed(job[r].who)
  BY <1>2 DEF Before
<1>5. job[r].op \notin {"visit", "create", "accept"} => Hydrated(r) = {job[r].who}
  BY <1>1, <1>2, PgStoreAssumption DEF Own, Placed, Hydrated
<1>6. job[r].op \notin TradeRoutes => UNCHANGED trades
  BY <1>1 DEF Own, Informed, Commit
<1>7. job[r].op # "redeem" => grants[r] = NoTx
  BY <1>1 DEF Own, Informed
<1>8. ASSUME grants[r] = NoTx PROVE UNCHANGED granted
  <2>1. \A x \in Tx : grants[r] # x
    BY <1>8, PgStoreAssumption
  <2>2. granted' = [x \in Tx |-> granted[x] + IF grants[r] = x THEN 1 ELSE 0]
    BY DEF Commit
  <2>3. \A x \in Tx : granted'[x] = granted[x]
    BY <1>1, <2>1, <2>2 DEF TypeOK
  <2> QED
    BY <1>1, <2>2, <2>3 DEF TypeOK
<1> QED
  BY <1>2, <1>3, <1>4, <1>5, <1>6, <1>7, <1>8 DEF Commit

(***************************************************************************)
(* Every commit is one step of the serial game, or none.                   *)
(***************************************************************************)
LEMMA SowingCommits ==
    ASSUME Inv, NEW r \in Req, Commit(r), job[r].op \in {"plant", "harvest", "breed"}
    PROVE  Promise!Plant(job[r].who) \/ Promise!Hatch(job[r].who)
<1> DEFINE who == job[r].who
           me == Committed(who)
<1>1. /\ UNCHANGED <<trades, receipts, granted>>
      /\ Does(job[r], trd[r], grants[r], Before(r), ctx[r])
      /\ Before(r)[who] = me /\ who \in Player /\ Hydrated(r) = {who}
  BY CommitFound DEF TradeRoutes
<1>2. me.lumi = Rows(who) /\ Promise!Object(who) = me
  BY SameObjects DEF Committed
<1> HIDE DEF who, me
<1>3. CASE job[r].op = "plant"
  <2>1. canPlant(me) /\ \E n \in Planting : ctx[r] = Put(Before(r), who, plant(me, n))
    BY <1>1, <1>3 DEF Does, who
  <2>2. \E n \in Planting : Promise!Only(who, plant(me, n))
    BY <2>1, CommitOnly DEF who
  <2>3. Promise!Plant(who)
    BY <1>1, <1>2, <2>1, <2>2, SameHandlers DEF Promise!Plant
  <2> QED
    BY <2>3 DEF who
\* A Lumi that a handler added has no owner yet.
<1>4. ASSUME NEW l \in Lumi \ me.lumi, NEW object, object.lumi = me.lumi \cup {l},
             ctx[r] = Put(Before(r), who, object)
      PROVE  owner[l] = NoPlayer /\ Promise!Only(who, object)
  <2>1. ctx[r][who] = object
    BY <1>1, <1>4 DEF Put, Before
  <2>2. owner[l] \in Hydrated(r) \cup {NoPlayer}
    BY <1>1, <1>4, <2>1 DEF Inv, IsoInv, Own, Carries
  <2>3. owner[l] # who
    BY <1>2, <1>4 DEF Rows
  <2> QED
    BY <1>1, <1>4, <2>2, <2>3, CommitOnly DEF who
<1>5. me \in PlayerObject /\ me.locked \subseteq me.lumi
  BY <1>1, CommittedType DEF Inv, me
<1>6. CASE job[r].op = "harvest"
  <2>1. canHarvest(me)
    BY <1>1, <1>6 DEF Does, who
  <2>2. PICK l \in Lumi \ me.lumi : ctx[r] = Put(Before(r), who, harvest(me, l))
    BY <1>1, <1>6 DEF Does, who
  <2>3. harvest(me, l).lumi = me.lumi \cup {l}
    BY <1>5, HarvestSound
  <2>4. owner[l] = NoPlayer /\ Promise!Only(who, harvest(me, l))
    BY <1>4, <2>2, <2>3
  <2>5. Promise!Hatch(who)
    BY <1>1, <1>2, <2>1, <2>4, SameHandlers DEF Promise!Hatch
  <2> QED
    BY <2>5 DEF who
<1>7. CASE job[r].op = "breed"
  <2>1. canBreed(me)
    BY <1>1, <1>7 DEF Does, who
  <2>2. PICK l \in Lumi \ me.lumi : ctx[r] = Put(Before(r), who, breed(me, l))
    BY <1>1, <1>7 DEF Does, who
  <2>3. breed(me, l).lumi = me.lumi \cup {l}
    BY <1>5, <2>1, BreedSound
  <2>4. owner[l] = NoPlayer /\ Promise!Only(who, breed(me, l))
    BY <1>4, <2>2, <2>3
  <2>5. Promise!Hatch(who)
    BY <1>1, <1>2, <2>1, <2>4, SameHandlers DEF Promise!Hatch
  <2> QED
    BY <2>5 DEF who
<1> QED
  BY <1>3, <1>6, <1>7

LEMMA VisitCommits ==
    ASSUME Inv, NEW r \in Req, Commit(r), job[r].op = "visit"
    PROVE  Promise!Visit(job[r].who)
<1>1. /\ UNCHANGED <<trades, receipts, granted>>
      /\ Does(job[r], trd[r], grants[r], Before(r), ctx[r])
      /\ Before(r)[job[r].who] = Committed(job[r].who)
  BY CommitFound DEF TradeRoutes
<1>2. job[r].other \in Player \ {job[r].who}
  BY Standing DEF Inv, Commit
<1>3. ctx[r] = Put(Before(r), job[r].who, visit(Committed(job[r].who), job[r].other))
  BY <1>1 DEF Does
<1>4. Promise!Only(job[r].who, visit(Committed(job[r].who), job[r].other))
  BY <1>3, CommitOnly
<1> QED
  BY <1>1, <1>2, <1>4, SameObjects, SameVisit DEF Promise!Visit

LEMMA LockCommits ==
    ASSUME Inv, NEW r \in Req, Commit(r), job[r].op \in {"lock", "unlock"}
    PROVE  Promise!Lock(job[r].who)
<1> DEFINE on == job[r].op = "lock"
           locking == lock(Committed(job[r].who), job[r].lumi, on)
<1>1. /\ UNCHANGED <<trades, receipts, granted>>
      /\ Does(job[r], trd[r], grants[r], Before(r), ctx[r])
      /\ Before(r)[job[r].who] = Committed(job[r].who)
  BY CommitFound DEF TradeRoutes
<1>2. job[r].lumi \in Promise!Collection(job[r].who)
  BY <1>1 DEF Does, canLock, Committed, Rows, Promise!Collection
<1>3. ctx[r] = Put(Before(r), job[r].who, locking)
  BY <1>1 DEF Does
<1> HIDE DEF locking
<1>4. Promise!Only(job[r].who, locking)
  BY <1>3, CommitOnly
<1>5. on \in BOOLEAN
  OBVIOUS
<1> QED
  BY <1>1, <1>2, <1>4, <1>5, SameObjects, SameHandlers DEF Promise!Lock, locking

LEMMA ProposalCommits ==
    ASSUME Inv, NEW r \in Req, Commit(r), job[r].op = "create"
    PROVE  Promise!Propose(job[r].who)
<1>1. /\ UNCHANGED <<receipts, granted>>
      /\ Does(job[r], trd[r], grants[r], Before(r), ctx[r])
      /\ Before(r)[job[r].who] = Committed(job[r].who)
  BY CommitFound DEF TradeRoutes
<1>2. /\ TypeInv /\ IsoInv /\ Own(r) /\ Proposing(r) /\ pc[r] # "idle"
      /\ pc[r] \in Committing
  BY DEF Inv, IsoInv, TradeInv, Commit, Committing
<1>3. job[r].other \in Player \ {job[r].who} /\ job[r].other \in Hydrated(r)
  BY <1>2, Standing, PgStoreAssumption DEF Hydrated
<1>4. Before(r)[job[r].other] = Committed(job[r].other)
  BY <1>3 DEF Before
<1>5. validateTrade(Committed(job[r].who), Committed(job[r].other), job[r].offer)
      /\ ctx[r] = Before(r)
  BY <1>1, <1>4 DEF Does
<1>6. job[r].offer \in Offers
  BY <1>2 DEF Own, Placed
<1>7. /\ job[r].trade \in Trade /\ trades[job[r].trade] = NoRow
      /\ trd[r] = createTrade(r)
  BY <1>2 DEF Own, Informed, Proposing
<1>8. trd[r] # NoRow
  <2>1. trd[r] \in TradeRow
    <3>1. job[r].who \in Player /\ job[r].offer \in Offer
      BY <1>2, Standing DEF Job
    <3> QED
      BY <1>3, <1>7, <3>1 DEF createTrade, TradeRow
  <2> QED
    BY <2>1, PgStoreAssumption
<1>9. trades' = [trades EXCEPT ![job[r].trade] =
                   [from |-> job[r].who, to |-> job[r].other,
                    offer |-> job[r].offer, status |-> "open"]]
  BY <1>7, <1>8 DEF Commit, createTrade
<1>10. UNCHANGED <<wallets, visitLog, plots, owner, locked, journal>>
  BY <1>5, CommitNothing
<1> QED
  BY <1>1, <1>3, <1>5, <1>6, <1>7, <1>9, <1>10, SameObjects, SameTrade
     DEF Promise!Propose

\* The row that an answer writes is the committed one, closed.
LEMMA AnswerCommits ==
    ASSUME Inv, NEW r \in Req, Commit(r), Answers(r)
    PROVE  /\ job[r].trade \in Trade /\ Promise!Open(job[r].trade)
           /\ trd[r].offer = trades[job[r].trade].offer
           /\ trades' = [trades EXCEPT ![job[r].trade].status =
                           IF job[r].op = "accept" THEN "accepted" ELSE "cancelled"]
<1>1. /\ TypeInv /\ TypeOK /\ IsoInv /\ Own(r) /\ pc[r] \in Committing
  BY DEF Inv, IsoInv, TypeInv, Commit, Committing
<1>2. /\ job[r].trade \in Trade /\ trades[job[r].trade] \in TradeRow
      /\ trades[job[r].trade] # NoRow /\ trades[job[r].trade].status = "open"
      /\ trd[r] # NoRow /\ trd[r].offer = trades[job[r].trade].offer
  BY <1>1, Settling
<1>3. trd[r] = resolve(trades[job[r].trade],
                       IF job[r].op = "accept" THEN "accepted" ELSE "cancelled")
  BY <1>1, <1>2 DEF Own, Informed
<1>4. trades' = [trades EXCEPT ![job[r].trade] = trd[r]]
  BY <1>2 DEF Commit
<1> QED
  BY <1>2, <1>3, <1>4 DEF resolve, Promise!Open

LEMMA AcceptanceCommits ==
    ASSUME Inv, NEW r \in Req, Commit(r), job[r].op = "accept"
    PROVE  Promise!Accept(job[r].trade)
<1> DEFINE to == job[r].who
           from == job[r].other
           offer == trades[job[r].trade].offer
           new == [p \in {from, to} |->
                     IF p = from THEN tradeFrom(Committed(from), offer)
                                 ELSE tradeTo(Committed(to), offer)]
<1>1. /\ TypeInv /\ IsoInv /\ pc[r] \in Committing /\ pc[r] # "idle" /\ Answers(r)
  BY DEF Inv, Commit, Committing, Answers
<1>2. /\ job[r].trade \in Trade /\ Promise!Open(job[r].trade)
      /\ trd[r].offer = offer
      /\ trades' = [trades EXCEPT ![job[r].trade].status = "accepted"]
  BY <1>1, AnswerCommits
<1>3. /\ from = trades[job[r].trade].from /\ to = trades[job[r].trade].to
      /\ from \in Player /\ to \in Player /\ from # to
  BY <1>1, Settling, Standing
<1>4. UNCHANGED <<receipts, granted>>
      /\ Does(job[r], trd[r], grants[r], Before(r), ctx[r])
  BY CommitFound
<1>5. Hydrated(r) = {from, to}
  BY <1>3, PgStoreAssumption DEF Hydrated
<1>6. Before(r)[from] = Committed(from) /\ Before(r)[to] = Committed(to)
  BY <1>3, <1>5 DEF Before
<1>7. /\ validateTrade(Committed(from), Committed(to), offer)
      /\ ctx[r] = [Put(Before(r), to, tradeTo(Committed(to), offer)) EXCEPT
                     ![from] = tradeFrom(Committed(from), offer)]
  BY <1>2, <1>4, <1>6 DEF Does
<1>8. /\ ctx[r][from] = tradeFrom(Committed(from), offer)
      /\ ctx[r][to] = tradeTo(Committed(to), offer)
  BY <1>3, <1>7 DEF Put, Before
<1>9. /\ DOMAIN new = {from, to} /\ {from, to} \subseteq Hydrated(r)
      /\ \A p \in Hydrated(r) \ {from, to} : ctx[r][p] = Before(r)[p]
      /\ \A p \in {from, to} : new[p] = ctx[r][p]
  BY <1>3, <1>5, <1>8
<1>10. Promise!Becomes(new)
  <2> HIDE DEF new
  <2> QED
    BY <1>9, CommitBecomes
<1>11. Promise!Becomes(
         [p \in {trades[job[r].trade].from, trades[job[r].trade].to} |->
            IF p = trades[job[r].trade].from
            THEN Promise!tradeFrom(Promise!Object(trades[job[r].trade].from), offer)
            ELSE Promise!tradeTo(Promise!Object(trades[job[r].trade].to), offer)])
  BY <1>3, <1>10, SameObjects, SameTrade
<1> QED
  BY <1>2, <1>3, <1>4, <1>7, <1>11, SameObjects, SameTrade DEF Promise!Accept

LEMMA CancelCommits ==
    ASSUME Inv, NEW r \in Req, Commit(r), job[r].op = "cancel"
    PROVE  Promise!Cancel(job[r].trade)
<1>1. /\ UNCHANGED <<receipts, granted>>
      /\ Does(job[r], trd[r], grants[r], Before(r), ctx[r])
  BY CommitFound
<1>2. ctx[r] = Before(r)
  BY <1>1 DEF Does
<1>3. UNCHANGED <<wallets, visitLog, plots, owner, locked, journal>>
  BY <1>2, CommitNothing
<1>4. Answers(r)
  BY DEF Answers
<1>5. /\ Promise!Open(job[r].trade)
      /\ trades' = [trades EXCEPT ![job[r].trade].status = "cancelled"]
  BY <1>4, AnswerCommits
<1> QED
  BY <1>1, <1>3, <1>5 DEF Promise!Cancel

\* A redeem whose transaction was claimed before commits nothing new.
LEMMA RedeemCommits ==
    ASSUME Inv, NEW r \in Req, Commit(r), job[r].op = "redeem"
    PROVE  \/ job[r].tx \in Tx /\ Promise!Grant(job[r].tx)
           \/ UNCHANGED Promise!vars
<1> DEFINE who == job[r].who
<1>1. /\ UNCHANGED <<receipts, trades>> /\ (grants[r] = NoTx => UNCHANGED granted)
      /\ Does(job[r], trd[r], grants[r], Before(r), ctx[r])
      /\ Before(r)[who] = Committed(who) /\ who \in Player
  BY CommitFound DEF TradeRoutes
<1>2. /\ Kept(r) /\ Granting(r) /\ grants[r] \in Tx \cup {NoTx} /\ granted \in [Tx -> Nat]
  BY DEF Inv, TypeInv, TypeOK, WellFormed, GrantInv
<1>3. CASE grants[r] = NoTx
  <2>1. job[r].tx # NoTx
    BY <1>2, PgStoreAssumption DEF Kept
  <2>2. ctx[r] = Before(r)
    BY <1>1, <1>3, <2>1 DEF Does
  <2>3. UNCHANGED <<wallets, visitLog, plots, owner, locked, journal>>
    BY <2>2, CommitNothing
  <2> QED
    BY <1>1, <1>3, <2>3 DEF Promise!vars
<1>4. CASE grants[r] # NoTx
  <2>1. /\ grants[r] = job[r].tx /\ job[r].tx \in Tx
        /\ ctx[r] = Put(Before(r), who, grantProduct(Committed(who)))
    BY <1>1, <1>2, <1>4 DEF Does, Kept
  <2>2. /\ receipts[job[r].tx] = who /\ receipts[job[r].tx] # NoPlayer
        /\ granted[job[r].tx] = 0
    BY <1>1, <1>2, <1>4, <2>1, PgStoreAssumption DEF Granting
  <2>3. Promise!Only(who, grantProduct(Committed(who)))
    BY <2>1, CommitOnly
  <2>4. granted' = [granted EXCEPT ![job[r].tx] = 1]
    <3>1. granted' = [x \in Tx |-> granted[x] + IF grants[r] = x THEN 1 ELSE 0]
      BY DEF Commit
    <3>2. \A x \in Tx : granted'[x] = IF x = job[r].tx THEN 1 ELSE granted[x]
      BY <1>2, <2>1, <2>2, <3>1
    <3> QED
      BY <1>2, <2>1, <3>1, <3>2
  <2>5. Promise!Grant(job[r].tx)
    BY <1>1, <2>2, <2>3, <2>4, SameObjects, SameHandlers DEF Promise!Grant
  <2> QED
    BY <2>1, <2>5
<1> QED
  BY <1>3, <1>4

LEMMA CommitTakesEffect ==
    ASSUME Inv, NEW r \in Req, Commit(r)
    PROVE  Promise!Next \/ UNCHANGED Promise!vars
<1>1. job[r] \in Job /\ job[r].op # "none" /\ job[r].who \in Player
  BY CommitFound
<1>2. CASE job[r].op \in {"plant", "harvest", "breed"}
  BY <1>1, <1>2, SowingCommits DEF Promise!Next
<1>3. CASE job[r].op = "visit"
  BY <1>1, <1>3, VisitCommits DEF Promise!Next
<1>4. CASE job[r].op \in {"lock", "unlock"}
  BY <1>1, <1>4, LockCommits DEF Promise!Next
<1>5. CASE job[r].op = "create"
  BY <1>1, <1>5, ProposalCommits DEF Promise!Next
<1>6. CASE job[r].op = "accept"
  BY <1>6, AnswerCommits, AcceptanceCommits DEF Promise!Next, Answers
<1>7. CASE job[r].op = "cancel"
  BY <1>7, AnswerCommits, CancelCommits DEF Promise!Next, Answers
<1>8. CASE job[r].op = "redeem"
  BY <1>8, RedeemCommits DEF Promise!Next
<1>9. job[r].op \in {"plant", "harvest", "breed", "visit", "lock", "unlock",
                     "create", "accept", "cancel", "redeem"}
  BY <1>1 DEF Job, Routes, TradeRoutes
<1> QED
  BY <1>2, <1>3, <1>4, <1>5, <1>6, <1>7, <1>8, <1>9

\* Receipts are the one table that is written before the commit, by the claim.
LEMMA OnlyRedeemsClaim ==
    ASSUME [Next]_vars
    PROVE  UNCHANGED receipts \/ \E r \in Req : HandleRedeem(r)
<1>1. ASSUME NEW r \in Req, Arrive(r) PROVE UNCHANGED receipts
  BY <1>1, ArriveSubmits DEF Submit, tables
<1>2. ASSUME NEW r \in Req, Drop(r) PROVE UNCHANGED receipts
  BY <1>2 DEF Drop, tables
<1>3. ASSUME NEW r \in Req, Handle(r), ~Reject(r), ~HandleRedeem(r)
      PROVE  UNCHANGED receipts
  BY <1>3 DEF Handle, HandlePlant, HandleHarvest, HandleBreed, HandleVisit,
     HandleLock, HandleCreate, HandleAccept, HandleCancel, Return, tables
<1>4. ASSUME NEW r \in Req, Step(r) PROVE UNCHANGED receipts \/ HandleRedeem(r)
  <2>1. Reject(r) \/ DuplicateKey(r) \/ DeadlockVictim(r) => Drop(r)
    BY DEF Reject, DuplicateKey, DeadlockVictim
  <2>2. ASSUME \/ ReadPlayers(r) \/ ReadWallets(r) \/ ReadGardens(r)
               \/ ReadLumi(r) \/ ReadTrade(r) \/ StartDelete(r)
               \/ FinishDelete(r) \/ Commit(r)
        PROVE  UNCHANGED receipts
    BY <2>2 DEF ReadPlayers, ReadWallets, ReadGardens, ReadLumi, Read, ReadTrade,
       StartDelete, FinishDelete, Commit, tables
  <2> QED
    BY <1>2, <1>3, <1>4, <2>1, <2>2 DEF Step
<1>5. UNCHANGED vars => UNCHANGED receipts
  BY DEF vars, tables
<1> QED
  BY <1>1, <1>2, <1>4, <1>5 DEF Next, Fail

LEMMA ClaimTakesEffect ==
    ASSUME Inv, NEW r \in Req, HandleRedeem(r)
    PROVE  Promise!Next \/ UNCHANGED Promise!vars
<1>1. UNCHANGED <<wallets, visitLog, plots, owner, locked, trades, journal, granted>>
  BY DEF HandleRedeem
<1>2. job[r].tx \in Tx /\ job[r].who \in Player
  BY DEF Inv, TypeInv, WellFormed, Kept, HandleRedeem
<1>3. CASE Claimed(r)
  <2>1. Promise!Claim(job[r].tx)
    BY <1>1, <1>2, <1>3 DEF Claimed, unclaimed, Promise!Claim
  <2> QED
    BY <1>2, <2>1 DEF Promise!Next
<1>4. CASE AlreadyClaimed(r)
  BY <1>1, <1>4 DEF AlreadyClaimed, Promise!vars
<1> QED
  BY <1>3, <1>4 DEF HandleRedeem

\* While requests in flight touch different players, the committed tables of the
\* store behave as the serial game does: whatever the requests interleave, and
\* wherever they fail, every commit is one whole move of one route on the
\* objects as they are, a claim is a move of its own, and nothing else shows.
THEOREM StoreKeepsItsPromise ==
    ASSUME Workload = "isolated"
    PROVE  Spec => TakesEffectAtOnce
<1>1. Init => Promise!Init
  BY SameMoney DEF Init, Promise!Init
<1>2. Inv /\ [Next]_vars => Promise!Next \/ UNCHANGED Promise!vars
  <2> SUFFICES ASSUME Inv, [Next]_vars
               PROVE  Promise!Next \/ UNCHANGED Promise!vars
    OBVIOUS
  <2>1. CASE \E r \in Req : Commit(r)
    BY <2>1, CommitTakesEffect
  <2>2. CASE \E r \in Req : HandleRedeem(r)
    BY <2>2, ClaimTakesEffect
  <2>3. CASE UNCHANGED Written /\ UNCHANGED receipts
    BY <2>3 DEF Written, Promise!vars
  <2> QED
    BY <2>1, <2>2, <2>3, OnlyCommitsWrite, OnlyRedeemsClaim
<1>3. Inv /\ [Next]_vars => [Promise!Next]_(Promise!vars)
  BY <1>2
<1> QED
  BY <1>1, <1>3, Isolated, PTL DEF Spec, TakesEffectAtOnce, Promise!Spec

(***************************************************************************)
(* Visits.  Petals come from the visits in today's log and from accepted   *)
(* trades; every other handler leaves at most the petals it found.         *)
(***************************************************************************)
Won(p) == {t \in Trade : trades[t] # NoRow /\ trades[t].status = "accepted"
                            /\ trades[t].to = p}

Existing == {t \in Trade : trades[t] # NoRow}

Prices == [t \in Trade |-> PetalsOf(t)]

\* What the invariant says of one player, by the sums of FiniteSums.
PaidOnce(p) ==
    /\ Cardinality(visitLog[p]) <= VisitCap
    /\ wallets[p]["petals"] <= Opening[p]["petals"]
           + VisitReward * Cardinality(visitLog[p]) + SumOver(Prices, Won(p))

LEMMA WonSum ==
    ASSUME NEW p, IsFiniteSet(Won(p))
    PROVE  MapThenSumSet(PetalsOf, Won(p)) = SumOver(Prices, Won(p))
<1> DEFINE S == Won(p)
           Eq(g) == g = [s \in SUBSET S |->
                           IF s = {} THEN 0 ELSE PetalsOf(Pick(s)) + g[s \ {Pick(s)}]]
<1>1. MapThenSumSet(PetalsOf, S) = (CHOOSE g : Eq(g))[S]
  BY DEF MapThenSumSet, MapThenFoldSet, Pick
<1>2. S \subseteq Trade
  BY DEF Won
<1>3. \A s \in SUBSET S : s # {} => Prices[Pick(s)] = PetalsOf(Pick(s))
  BY <1>2, PickIsIn DEF Prices
<1>4. \A g : Eq(g) <=> Solves(g, Prices, S)
  BY <1>3 DEF Solves
<1> HIDE DEF S, Eq
<1>5. PICK g : Solves(g, Prices, S)
  BY Solvable DEF S
<1>6. Eq(CHOOSE h : Eq(h))
  BY <1>4, <1>5
<1>7. Solves(CHOOSE h : Eq(h), Prices, S)
  BY <1>4, <1>6
<1>8. IsFiniteSet(S) /\ S \in SUBSET S
  BY DEF S
<1> QED
  BY <1>1, <1>7, <1>8, TotalSolves DEF S

\* A grant adds at most the reward to each balance.
LEMMA GrantBounded ==
    ASSUME NEW p \in PlayerObject, NEW reward \in Balance
    PROVE  \A c \in Currency :
             grant(p, reward).wallet[c] <= p.wallet[c] + reward[c]
<1> DEFINE given == [c \in Currency |-> IF reward[c] = 0 THEN 0
                                        ELSE applied(p.wallet, c, reward[c])]
<1>1. p.wallet \in Balance /\ HardCap \in [Currency -> Nat]
  BY HardCapType DEF PlayerObject
<1>2. \A c \in Currency : given[c] \in Int /\ given[c] <= reward[c]
  BY <1>1 DEF Balance, applied, Lesser
<1> HIDE DEF given
<1>3. grant(p, reward) =
        [p EXCEPT !.wallet = [c \in Currency |-> p.wallet[c] + given[c]],
                  !.ledger = [c \in Currency |-> p.ledger[c] + given[c]]]
  BY DEF grant, given
<1>4. \A c \in Currency : grant(p, reward).wallet[c] = p.wallet[c] + given[c]
  BY <1>3 DEF PlayerObject
<1> QED
  BY <1>1, <1>2, <1>4 DEF Balance

LEMMA PayBounded ==
    ASSUME NEW p \in PlayerObject, NEW cost \in Balance
    PROVE  \A c \in Currency : pay(p, cost).wallet[c] <= p.wallet[c]
<1>1. \A c \in Currency : pay(p, cost).wallet[c] = p.wallet[c] - cost[c]
  BY DEF pay, PlayerObject
<1> QED
  BY <1>1 DEF PlayerObject, Balance

\* No new visit, and at most `gain` petals more.
Visitless(old, new, gain) ==
    /\ new.visits = old.visits
    /\ new.wallet["petals"] <= old.wallet["petals"] + gain

LEMMA SpendsOnly ==
    ASSUME NEW p \in PlayerObject
    PROVE  /\ \A n \in Planting : Visitless(p, plant(p, n), 0)
           /\ \A l \in Lumi : Visitless(p, harvest(p, l), 0)
           /\ \A l \in Lumi : Visitless(p, breed(p, l), 0)
           /\ \A l, on : Visitless(p, lock(p, l, on), 0)
           /\ Visitless(p, grantProduct(p), 0)
           /\ \A t \in Offer : Visitless(p, tradeFrom(p, t), 0)
           /\ \A t \in Offer : Visitless(p, tradeTo(p, t), t.offerPetals)
<1>0. "petals" \in Currency /\ p.wallet["petals"] \in Nat
  BY DEF Currency, PlayerObject, Balance
<1>1. \A cost \in Balance : /\ pay(p, cost).visits = p.visits
                            /\ pay(p, cost).wallet["petals"] <= p.wallet["petals"]
  BY <1>0, PayBounded, MovesOnlyMoney
<1>2. ASSUME NEW n \in Planting PROVE Visitless(p, plant(p, n), 0)
  <2> DEFINE paid == pay(p, Petals(SeedCost))
  <2>1. paid.visits = p.visits /\ paid.wallet["petals"] <= p.wallet["petals"]
    BY <1>1, AmountType, CostType
  <2>2. plant(p, n).visits = paid.visits /\ plant(p, n).wallet = paid.wallet
    BY DEF plant, pay, PlayerObject
  <2> QED
    BY <1>0, <2>1, <2>2 DEF Visitless
<1>3. ASSUME NEW l \in Lumi PROVE Visitless(p, harvest(p, l), 0)
  BY <1>0 DEF Visitless, harvest, addLumi, PlayerObject
<1>4. ASSUME NEW l \in Lumi PROVE Visitless(p, breed(p, l), 0)
  <2> DEFINE paid == pay(p, Lumen(RitualCost))
  <2>1. paid.visits = p.visits /\ paid.wallet["petals"] <= p.wallet["petals"]
    BY <1>1, AmountType, CostType
  <2>2. breed(p, l).visits = paid.visits /\ breed(p, l).wallet = paid.wallet
    BY DEF breed, addLumi, pay, PlayerObject
  <2> QED
    BY <1>0, <2>1, <2>2 DEF Visitless
<1>5. ASSUME NEW l, NEW on PROVE Visitless(p, lock(p, l, on), 0)
  BY <1>0 DEF Visitless, lock, PlayerObject
<1>6. Visitless(p, grantProduct(p), 0)
  <2>1. Lumen(PackLumen) \in Balance /\ Lumen(PackLumen)["petals"] = 0
    BY <1>0, AmountType, CostType DEF Lumen
  <2> QED
    BY <1>0, <2>1, GrantBounded, MovesOnlyMoney DEF Visitless, grantProduct
<1>7. ASSUME NEW t \in Offer PROVE Visitless(p, tradeFrom(p, t), 0)
  <2> DEFINE paid == pay(p, Petals(tradeTax(t) + t.offerPetals))
  <2>1. paid.visits = p.visits /\ paid.wallet["petals"] <= p.wallet["petals"]
    BY <1>1, AmountType, TaxType DEF Offer
  <2>2. tradeFrom(p, t).visits = paid.visits /\ tradeFrom(p, t).wallet = paid.wallet
    BY DEF tradeFrom, pay, PlayerObject
  <2> QED
    BY <1>0, <2>1, <2>2 DEF Visitless
<1>8. ASSUME NEW t \in Offer PROVE Visitless(p, tradeTo(p, t), t.offerPetals)
  <2>1. t.offerPetals \in Nat /\ p.wallet \in [Currency -> Nat]
    BY DEF Offer, PlayerObject, Balance
  <2>2. tradeTo(p, t).visits = p.visits
    BY DEF tradeTo, PlayerObject
  <2>3. tradeTo(p, t).wallet = [p.wallet EXCEPT !["petals"] = @ + t.offerPetals]
    BY DEF tradeTo, PlayerObject
  <2>4. tradeTo(p, t).wallet["petals"] = p.wallet["petals"] + t.offerPetals
    BY <1>0, <2>1, <2>3
  <2> QED
    BY <1>0, <2>1, <2>2, <2>4 DEF Visitless
<1> QED
  BY <1>2, <1>3, <1>4, <1>5, <1>6, <1>7, <1>8

LEMMA VisitPays ==
    ASSUME NEW p \in PlayerObject, NEW q
    PROVE  \/ Visitless(p, visit(p, q), 0)
           \/ /\ rewardedVisit(p, q) /\ visit(p, q).visits = p.visits \cup {q}
              /\ visit(p, q).wallet["petals"] <= p.wallet["petals"] + VisitReward
<1> DEFINE paid == grant(p, Petals(VisitReward))
<1>1. "petals" \in Currency /\ p.wallet["petals"] \in Nat
  BY DEF Currency, PlayerObject, Balance
<1>2. Petals(VisitReward) \in Balance /\ Petals(VisitReward)["petals"] = VisitReward
  BY <1>1, AmountType, CostType DEF Petals
<1>3. paid.wallet["petals"] <= p.wallet["petals"] + VisitReward
  BY <1>1, <1>2, GrantBounded
<1>4. CASE rewardedVisit(p, q)
  <2>1. visit(p, q) = [paid EXCEPT !.visits = @ \cup {q}]
    BY <1>4 DEF visit
  <2>2. visit(p, q).wallet = paid.wallet
    BY <2>1 DEF grant, PlayerObject
  <2>3. visit(p, q).visits = p.visits \cup {q}
    BY <2>1 DEF grant, PlayerObject
  <2> QED
    BY <1>3, <1>4, <2>2, <2>3
<1>5. CASE ~rewardedVisit(p, q)
  <2>1. visit(p, q) = p
    BY <1>5 DEF visit
  <2> QED
    BY <1>1, <2>1 DEF Visitless
<1> QED
  BY <1>4, <1>5

\* What a unit of work leaves in the log and the wallet of each player.
LEMMA DoesPetals ==
    ASSUME TypeInv, IsoInv, NEW r \in Req, pc[r] \in Committing, NEW p \in Player
    PROVE  \/ Visitless(Before(r)[p], ctx[r][p], 0)
           \/ /\ job[r].op = "visit"
              /\ rewardedVisit(Before(r)[p], job[r].other)
              /\ ctx[r][p].visits = Before(r)[p].visits \cup {job[r].other}
              /\ ctx[r][p].wallet["petals"] <= Before(r)[p].wallet["petals"] + VisitReward
           \/ /\ job[r].op = "accept" /\ p = job[r].who
              /\ Visitless(Before(r)[p], ctx[r][p], trd[r].offer.offerPetals)
<1> DEFINE j == job[r]  old == Before(r)  new == ctx[r]  me == old[j.who]
<1>1. /\ pc[r] # "idle" /\ Does(j, trd[r], grants[r], old, new)
      /\ Tidy(old) /\ j.op # "none" /\ j \in Job
      /\ j.who \in Player /\ j.who # j.other
      /\ j.op \in {"visit", "create"} => j.other \in Player
      /\ j.op = "accept" => j.other \in Player /\ trd[r] \in TradeRow
  BY Standing, Settling, BeforeTidy, Working DEF Committing, Answers
<1>2. /\ old \in [Player -> PlayerObject] /\ me \in PlayerObject
      /\ old[p] \in PlayerObject /\ old[p].wallet["petals"] \in Nat
  BY <1>1 DEF Tidy, PlayerObject, Balance, Currency
<1> HIDE DEF old, new, me, j
<1>3. CASE new = old
  BY <1>2, <1>3 DEF Visitless, old, new
<1>4. ASSUME NEW object, new = Put(old, j.who, object)
      PROVE  new[p] = IF p = j.who THEN object ELSE old[p]
  BY <1>1, <1>2, <1>4 DEF Put
<1>5. ASSUME NEW object, new = Put(old, j.who, object), Visitless(me, object, 0)
      PROVE  Visitless(old[p], new[p], 0)
  BY <1>2, <1>4, <1>5 DEF me, Visitless
<1>6. CASE j.op \in {"plant", "harvest", "breed", "lock", "unlock"}
  <2>1. CASE j.op = "plant"
    BY <1>1, <1>2, <1>5, <2>1, SpendsOnly DEF Does, me, old, new
  <2>2. CASE j.op = "harvest"
    BY <1>1, <1>2, <1>5, <2>2, SpendsOnly DEF Does, me, old, new
  <2>3. CASE j.op = "breed"
    BY <1>1, <1>2, <1>5, <2>3, SpendsOnly DEF Does, me, old, new
  <2>4. CASE j.op \in {"lock", "unlock"}
    BY <1>1, <1>2, <1>5, <2>4, SpendsOnly DEF Does, me, old, new
  <2> QED
    BY <1>6, <2>1, <2>2, <2>3, <2>4
<1>7. CASE j.op = "visit"
  <2>1. new = Put(old, j.who, visit(me, j.other))
    BY <1>1, <1>7 DEF Does, me
  <2>2. new[p] = IF p = j.who THEN visit(me, j.other) ELSE old[p]
    BY <1>4, <2>1
  <2>3. CASE p = j.who
    BY <1>2, <1>7, <2>2, <2>3, VisitPays DEF me, old, new, j
  <2>4. CASE p # j.who
    BY <1>2, <2>2, <2>4 DEF Visitless, old, new
  <2> QED
    BY <2>3, <2>4
<1>8. CASE j.op \in {"create", "cancel"}
  BY <1>1, <1>3, <1>8 DEF Does
<1>9. CASE j.op = "redeem"
  <2>1. new = old \/ new = Put(old, j.who, grantProduct(me))
    BY <1>1, <1>9 DEF Does, me
  <2> QED
    BY <1>2, <1>3, <1>5, <2>1, SpendsOnly DEF old, new
<1>10. CASE j.op = "accept"
  <2> DEFINE offer == trd[r].offer  from == old[j.other]
             mine == tradeTo(me, offer)  theirs == tradeFrom(from, offer)
  <2>1. /\ j.other \in Player /\ offer \in Offer /\ from \in PlayerObject
        /\ new = [Put(old, j.who, mine) EXCEPT ![j.other] = theirs]
    BY <1>1, <1>2, <1>10 DEF Does, TradeRow, me
  <2>2. new[p] = IF p = j.other THEN theirs ELSE IF p = j.who THEN mine ELSE old[p]
    <3> HIDE DEF mine, theirs
    <3> QED
      BY <1>1, <1>2, <2>1 DEF Put
  <2>3. Visitless(me, mine, offer.offerPetals) /\ Visitless(from, theirs, 0)
    <3> HIDE DEF from, offer
    <3> QED
      BY <1>2, <2>1, SpendsOnly
  <2> HIDE DEF mine, theirs
  <2>4. CASE p = j.other
    BY <2>2, <2>3, <2>4 DEF old, new
  <2>5. CASE p = j.who
    BY <1>1, <1>10, <2>2, <2>3, <2>5 DEF old, new, me, j
  <2>6. CASE p \notin {j.who, j.other}
    BY <1>2, <2>2, <2>6 DEF Visitless, old, new
  <2> QED
    BY <2>4, <2>5, <2>6
<1>11. j.op \in {"plant", "harvest", "breed", "visit", "lock", "unlock", "create",
                 "accept", "cancel", "redeem"}
  BY <1>1 DEF Job, Routes, TradeRoutes
<1> QED
  BY <1>6, <1>7, <1>8, <1>9, <1>10, <1>11

\* A commit closes at most the trade of its request, and that of an accepted
\* one pays the player who accepts it.
LEMMA CommitWins ==
    ASSUME Inv, NEW r \in Req, Commit(r), NEW p \in Player
    PROVE  /\ Existing' \subseteq Existing \cup {job[r].trade}
           /\ \A t \in Won(p) : Prices'[t] = Prices[t]
           /\ IF job[r].op = "accept" /\ p = job[r].who
              THEN /\ job[r].trade \in Trade \ Won(p)
                   /\ Won(p)' = Won(p) \cup {job[r].trade}
                   /\ Prices'[job[r].trade] = trd[r].offer.offerPetals
                   /\ trd[r].offer.offerPetals \in Nat
              ELSE Won(p)' = Won(p)
<1> DEFINE t == job[r].trade
<1>1. /\ TypeInv /\ IsoInv /\ TypeOK /\ TradeInv /\ Own(r) /\ pc[r] \in Committing
      /\ trades' = IF trd[r] = NoRow THEN trades ELSE [trades EXCEPT ![t] = trd[r]]
      /\ trades \in [Trade -> TradeRow \cup {NoRow}]
  BY DEF Inv, IsoInv, TypeInv, TypeOK, Commit, Committing
<1>2. CASE trd[r] = NoRow
  <2>1. trades' = trades
    BY <1>1, <1>2
  <2>2. job[r].op # "accept"
    BY <1>1, <1>2, Settling DEF Answers
  <2> QED
    BY <2>1, <2>2 DEF Existing, Won, Prices, PetalsOf
<1>3. CASE trd[r] # NoRow /\ Answers(r)
  <2>1. /\ t \in Trade /\ trades[t] \in TradeRow /\ trades[t] # NoRow
        /\ trades[t].status = "open" /\ trd[r] \in TradeRow
        /\ trd[r].offer = trades[t].offer
        /\ job[r].op = "accept" => job[r].who = trades[t].to
    BY <1>1, <1>3, Settling
  <2>2. trd[r] = resolve(trades[t], IF job[r].op = "accept" THEN "accepted"
                                                            ELSE "cancelled")
    BY <1>1, <1>3 DEF Own, Informed
  <2>3. /\ trd[r].to = trades[t].to
        /\ trd[r].status = IF job[r].op = "accept" THEN "accepted" ELSE "cancelled"
    BY <2>1, <2>2 DEF resolve, TradeRow
  <2>4. \A s \in Trade : trades'[s] = IF s = t THEN trd[r] ELSE trades[s]
    BY <1>1, <1>3, <2>1
  <2>5. \A s \in Trade : Prices'[s] = Prices[s]
    BY <2>1, <2>4 DEF Prices, PetalsOf
  <2>6. Prices'[t] = trd[r].offer.offerPetals /\ trd[r].offer.offerPetals \in Nat
    BY <2>1, <2>4 DEF Prices, PetalsOf, TradeRow, Offer
  <2>7. Existing' \subseteq Existing
    BY <2>1, <2>4 DEF Existing
  <2>8. t \notin Won(p) /\ Won(p) \subseteq Trade
    BY <2>1 DEF Won
  <2>9. CASE job[r].op = "accept"
    BY <2>1, <2>3, <2>4, <2>5, <2>6, <2>7, <2>8, <2>9, PgStoreAssumption DEF Won
  <2>10. CASE job[r].op # "accept"
    BY <2>1, <2>3, <2>4, <2>5, <2>7, <2>8, <2>10 DEF Won
  <2> QED
    BY <2>9, <2>10
<1>4. CASE trd[r] # NoRow /\ ~Answers(r)
  <2>1. /\ job[r].op = "create" /\ trd[r] = createTrade(r)
        /\ t \in Trade /\ trades[t] = NoRow
    BY <1>1, <1>4 DEF TradeInv, Proposing, Answering, Answers, TradeRoutes, Own,
                      Informed
  <2>2. trd[r].status = "open"
    BY <2>1 DEF createTrade
  <2>3. \A s \in Trade : trades'[s] = IF s = t THEN trd[r] ELSE trades[s]
    BY <1>1, <1>4, <2>1
  <2>4. Won(p)' = Won(p) /\ t \notin Won(p)
    BY <2>1, <2>2, <2>3 DEF Won
  <2>5. \A s \in Won(p) : Prices'[s] = Prices[s]
    BY <2>3, <2>4 DEF Won, Prices, PetalsOf
  <2>6. Existing' \subseteq Existing \cup {t}
    BY <2>3 DEF Existing
  <2> QED
    BY <2>1, <2>4, <2>5, <2>6
<1> QED
  BY <1>2, <1>3, <1>4

VisitInv == IsFiniteSet(Existing) /\ \A p \in Player : PaidOnce(p)

LEMMA WonIsFinite ==
    ASSUME TypeOK, IsFiniteSet(Existing), NEW p
    PROVE  /\ IsFiniteSet(Won(p)) /\ \A t \in Won(p) : Prices[t] \in Nat
           /\ SumOver(Prices, Won(p)) \in Nat
<1>1. Won(p) \subseteq Existing
  BY DEF Won, Existing
<1>2. IsFiniteSet(Won(p))
  BY <1>1, FS_Subset
<1>3. \A t \in Won(p) : Prices[t] \in Nat
  BY DEF TypeOK, Won, Prices, PetalsOf, TradeRow, Offer
<1> QED
  BY <1>2, <1>3, TotalType

LEMMA CommitPays ==
    ASSUME Inv, VisitInv, NEW r \in Req, Commit(r), NEW p \in Player
    PROVE  PaidOnce(p)'
<1> DEFINE old == Before(r)[p]  new == ctx[r][p]
           sum == SumOver(Prices, Won(p))  next == SumOver(Prices', Won(p)')
           n == Cardinality(visitLog[p])
<1>1. /\ TypeInv /\ IsoInv /\ TypeOK /\ pc[r] \in Committing /\ pc[r] # "idle"
      /\ IsFiniteSet(Existing) /\ PaidOnce(p)
  BY DEF Inv, TypeInv, Commit, Committing, VisitInv
<1>2. /\ IsFiniteSet(visitLog[p]) /\ n \in Nat /\ VisitCap \in Nat
      /\ VisitReward \in Nat /\ wallets[p]["petals"] \in Nat
      /\ Opening[p]["petals"] \in Nat /\ sum \in Nat /\ n <= VisitCap
      /\ wallets[p]["petals"] <= Opening[p]["petals"] + VisitReward * n + sum
  <2>1. /\ visitLog[p] \subseteq Player /\ "petals" \in Currency
        /\ wallets[p] \in [Currency -> Nat] /\ Opening[p] \in [Currency -> Nat]
    BY <1>1, PgStoreAssumption DEF TypeOK, Balance, Currency
  <2>2. IsFiniteSet(visitLog[p]) /\ n \in Nat
    BY <2>1, FS_Subset, FS_CardinalityType, HandlersAssumption
  <2> QED
    BY <1>1, <2>1, <2>2, WonIsFinite, HandlersAssumption DEF PaidOnce
<1>3. IsFiniteSet(Won(p)) /\ \A t \in Won(p) : Prices[t] \in Nat
  BY <1>1, WonIsFinite
<1>4. CASE ~(job[r].op = "accept" /\ p = job[r].who)
  <2>1. Won(p)' = Won(p) /\ \A t \in Won(p) : Prices'[t] = Prices[t]
    BY <1>4, CommitWins
  <2>2. next = sum
    BY <1>3, <2>1, TotalSame
  <2>3. CASE p \notin Hydrated(r)
    <3>1. wallets'[p] = wallets[p] /\ visitLog'[p] = visitLog[p]
      BY <2>3, CommitWrites DEF SameRows
    <3> QED
      BY <1>1, <2>2, <3>1 DEF PaidOnce
  <2>4. CASE p \in Hydrated(r)
    <3>1. /\ wallets'[p] = new.wallet /\ visitLog'[p] = new.visits
          /\ old.wallet = wallets[p] /\ old.visits = visitLog[p]
      BY <2>4, CommitWrites DEF Before, Committed
    <3>2. new.wallet["petals"] \in Nat
      BY <1>1 DEF TypeOK, PlayerObject, Balance, Currency
    <3>3. CASE Visitless(old, new, 0)
      <4>1. visitLog'[p] = visitLog[p] /\ wallets'[p]["petals"] <= wallets[p]["petals"]
        BY <1>2, <3>1, <3>3 DEF Visitless
      <4> QED
        BY <1>2, <2>2, <3>1, <3>2, <4>1 DEF PaidOnce
    <3>4. ASSUME NEW q, rewardedVisit(old, q), new.visits = old.visits \cup {q},
                 new.wallet["petals"] <= old.wallet["petals"] + VisitReward
          PROVE  PaidOnce(p)'
      <4>1. q \notin visitLog[p] /\ n < VisitCap
        BY <3>1, <3>4 DEF rewardedVisit
      <4>2. Cardinality(visitLog[p] \cup {q}) = n + 1
        BY <1>2, <4>1, FS_AddElement
      <4>3. \A a, b \in Nat : a * (b + 1) = a * b + a
        OBVIOUS
      <4>4. VisitReward * (n + 1) = VisitReward * n + VisitReward /\ VisitReward * n \in Nat
        BY <1>2, <4>3
      <4>5. visitLog'[p] = visitLog[p] \cup {q}
            /\ wallets'[p]["petals"] <= wallets[p]["petals"] + VisitReward
            /\ wallets'[p]["petals"] \in Nat
        BY <3>1, <3>2, <3>4
      <4>6. Cardinality(visitLog'[p]) = n + 1
        BY <4>2, <4>5
      <4> HIDE DEF sum, next, n, old, new
      <4>7. n + 1 <= VisitCap
        BY <1>2, <4>1 DEF n
      <4>8. wallets'[p]["petals"] <= Opening[p]["petals"] + VisitReward * (n + 1) + next
        BY <1>2, <2>2, <4>4, <4>5
      <4> QED
        BY <4>6, <4>7, <4>8 DEF PaidOnce, next
    <3> QED
      BY <1>1, <1>4, <3>3, <3>4, DoesPetals
  <2> QED
    BY <2>3, <2>4
<1>5. CASE job[r].op = "accept" /\ p = job[r].who
  <2> DEFINE t == job[r].trade  price == trd[r].offer.offerPetals
  <2>1. /\ t \in Trade \ Won(p) /\ Won(p)' = Won(p) \cup {t}
        /\ Prices'[t] = price /\ price \in Nat
        /\ \A s \in Won(p) : Prices'[s] = Prices[s]
    BY <1>5, CommitWins
  <2>2. SumOver(Prices', Won(p)) = sum
    BY <1>3, <2>1, TotalSame
  <2>3. \A s \in Won(p) \cup {t} : Prices'[s] \in Int
    BY <1>3, <2>1
  <2>4. next = price + sum
    <3> HIDE DEF price
    <3>1. SumOver(Prices', Won(p) \cup {t}) = Prices'[t] + SumOver(Prices', Won(p))
      BY <1>3, <2>1, <2>3, TotalAdd
    <3> QED
      BY <2>1, <2>2, <3>1
  <2>5. p \in Hydrated(r)
    BY <1>1, <1>5, Standing
  <2>6. /\ wallets'[p] = new.wallet /\ visitLog'[p] = new.visits
        /\ old.wallet = wallets[p] /\ old.visits = visitLog[p]
    BY <2>5, CommitWrites DEF Before, Committed
  <2>7. new.wallet["petals"] \in Nat
    BY <1>1 DEF TypeOK, PlayerObject, Balance, Currency
  <2>8. Visitless(old, new, 0) \/ Visitless(old, new, price)
    BY <1>1, <1>5, DoesPetals
  <2>9. /\ visitLog'[p] = visitLog[p] /\ wallets'[p]["petals"] \in Nat
        /\ wallets'[p]["petals"] <= wallets[p]["petals"] + price
    BY <1>2, <2>1, <2>6, <2>7, <2>8 DEF Visitless
  <2> HIDE DEF sum, next, old, new, price
  <2>10. VisitReward * n \in Nat
    BY <1>2
  <2>11. wallets'[p]["petals"] <= Opening[p]["petals"] + VisitReward * n + next
    BY <1>2, <2>1, <2>4, <2>9, <2>10
  <2> QED
    BY <1>2, <2>9, <2>11 DEF PaidOnce, next
<1> QED
  BY <1>4, <1>5

\* While requests in flight touch different players, a neighbour in today's log
\* was paid for once, the log stops at the cap, and no petals come from anything
\* but visits and accepted trades.
THEOREM VisitsPayOnce ==
    ASSUME Workload = "isolated"
    PROVE  Spec => []VisitsPaidOnce
<1>1. Init => VisitInv
  <2> SUFFICES ASSUME Init PROVE VisitInv
    OBVIOUS
  <2>1. Existing = {} /\ \A p : Won(p) = {}
    BY DEF Init, Existing, Won
  <2>2. IsFiniteSet({}) /\ Cardinality({}) = 0
    BY FS_EmptySet
  <2>3. ASSUME NEW p \in Player PROVE PaidOnce(p)
    <3>1. SumOver(Prices, Won(p)) = 0
      BY <2>1, TotalEmpty
    <3>2. /\ visitLog[p] = {} /\ wallets[p]["petals"] = Opening[p]["petals"]
          /\ Opening[p]["petals"] \in Nat
      BY PgStoreAssumption DEF Init, Balance, Currency
    <3> QED
      BY <2>2, <3>1, <3>2, HandlersAssumption DEF PaidOnce
  <2> QED
    BY <2>1, <2>2, <2>3 DEF VisitInv
<1>2. Inv /\ VisitInv /\ [Next]_vars => VisitInv'
  <2> SUFFICES ASSUME Inv, VisitInv, [Next]_vars PROVE VisitInv'
    OBVIOUS
  <2>1. CASE UNCHANGED Written
    BY <2>1 DEF Written, VisitInv, PaidOnce, Existing, Won, Prices, PetalsOf
  <2>2. ASSUME NEW r \in Req, Commit(r) PROVE VisitInv'
    <3>1. IsFiniteSet(Existing')
      <4>1. IsFiniteSet(Existing \cup {job[r].trade})
        BY FS_AddElement DEF VisitInv
      <4>2. Player # {} => Existing' \subseteq Existing \cup {job[r].trade}
        BY <2>2, CommitWins
      <4>3. Player # {}
        BY <2>2, Standing DEF Inv, Commit
      <4> QED
        BY <4>1, <4>2, <4>3, FS_Subset
    <3> QED
      BY <2>2, <3>1, CommitPays DEF VisitInv
  <2> QED
    BY <2>1, <2>2, OnlyCommitsWrite
<1>3. Inv /\ VisitInv => VisitsPaidOnce
  <2> SUFFICES ASSUME Inv, VisitInv, NEW p \in Player
               PROVE  /\ Cardinality(visitLog[p]) <= VisitCap
                      /\ wallets[p]["petals"] <= Opening[p]["petals"]
                           + VisitReward * Cardinality(visitLog[p])
                           + MapThenSumSet(PetalsOf, Won(p))
    BY DEF VisitsPaidOnce, Won
  <2>1. IsFiniteSet(Won(p))
    BY WonIsFinite DEF Inv, TypeInv, VisitInv
  <2> QED
    BY <2>1, WonSum DEF VisitInv, PaidOnce
<1> QED
  BY <1>1, <1>2, <1>3, Isolated, PTL DEF Spec

=============================================================================
