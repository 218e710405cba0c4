-------------------------------- MODULE Game --------------------------------
(***************************************************************************)
(* What the routes promise: every request takes effect at once, on the     *)
(* objects as they are, or not at all.  Only a purchase is two steps, the  *)
(* claim of its receipt and the grant, because the claim is committed on   *)
(* its own (store.claimReceipt); the grant may be lost, not repeated.      *)
(***************************************************************************)
EXTENDS Handlers

CONSTANTS Trade, Tx, Offers, Opening, Owner0, Plot0, NoPlayer, NoRow

VARIABLES wallets, visitLog, plots, owner, locked, trades, receipts, journal,
          granted

vars == <<wallets, visitLog, plots, owner, locked, trades, receipts, journal,
          granted>>

Init ==
    /\ wallets = Opening
    /\ visitLog = [p \in Player |-> {}]
    /\ plots = Plot0
    /\ owner = Owner0
    /\ locked = {}
    /\ trades = [t \in Trade |-> NoRow]
    /\ receipts = [x \in Tx |-> NoPlayer]
    /\ journal = [p \in Player |-> NoEntries]
    /\ granted = [x \in Tx |-> 0]

Collection(p) == {l \in Lumi : owner[l] = p}

Object(p) ==
    [wallet |-> wallets[p], ledger |-> NoEntries, visits |-> visitLog[p],
     plot |-> plots[p], lumi |-> Collection(p),
     locked |-> Collection(p) \cap locked]

\* The players in the domain of `new` get the objects it gives them.
Becomes(new) ==
    LET Of(p, value, old) == IF p \in DOMAIN new THEN value ELSE old
        Held == UNION {new[p].lumi : p \in DOMAIN new}
        Left == {l \in Lumi : owner[l] \in DOMAIN new} \ Held
    IN  /\ wallets'  = [p \in Player |-> Of(p, new[p].wallet, wallets[p])]
        /\ visitLog' = [p \in Player |-> Of(p, new[p].visits, visitLog[p])]
        /\ plots'    = [p \in Player |-> Of(p, new[p].plot, plots[p])]
        /\ journal'  = [p \in Player |-> [c \in Currency |->
                          journal[p][c] + Of(p, new[p].ledger[c], 0)]]
        /\ owner' = [l \in Lumi |->
                       CASE l \in Held -> CHOOSE p \in DOMAIN new : l \in new[p].lumi
                         [] l \in Left -> NoPlayer
                         [] OTHER      -> owner[l]]
        /\ locked' = (locked \ (Held \cup Left))
                        \cup UNION {new[p].locked : p \in DOMAIN new}

Only(p, object) == Becomes([q \in {p} |-> object])

Plant(p) ==
    /\ canPlant(Object(p))
    /\ \E planting \in Planting : Only(p, plant(Object(p), planting))
    /\ UNCHANGED <<trades, receipts, granted>>

Hatch(p) ==
    /\ \E l \in Lumi :
        /\ owner[l] = NoPlayer
        /\ \/ canHarvest(Object(p)) /\ Only(p, harvest(Object(p), l))
           \/ canBreed(Object(p)) /\ Only(p, breed(Object(p), l))
    /\ UNCHANGED <<trades, receipts, granted>>

Visit(p) ==
    /\ \E q \in Player \ {p} : Only(p, visit(Object(p), q))
    /\ UNCHANGED <<trades, receipts, granted>>

Lock(p) ==
    /\ \E l \in Collection(p), on \in BOOLEAN : Only(p, lock(Object(p), l, on))
    /\ UNCHANGED <<trades, receipts, granted>>

Propose(p) ==
    /\ \E q \in Player \ {p}, f \in Offers, t \in Trade :
        /\ validateTrade(Object(p), Object(q), f)
        /\ trades[t] = NoRow
        /\ trades' = [trades EXCEPT ![t] =
                        [from |-> p, to |-> q, offer |-> f, status |-> "open"]]
    /\ UNCHANGED <<wallets, visitLog, plots, owner, locked, receipts, journal,
                   granted>>

Open(t) == trades[t] # NoRow /\ trades[t].status = "open"

Accept(t) ==
    /\ Open(t)
    /\ LET row  == trades[t]
           from == Object(row.from)
           to   == Object(row.to)
       IN  /\ validateTrade(from, to, row.offer)
           /\ Becomes([p \in {row.from, row.to} |->
                 IF p = row.from THEN tradeFrom(from, row.offer)
                                 ELSE tradeTo(to, row.offer)])
    /\ trades' = [trades EXCEPT ![t].status = "accepted"]
    /\ UNCHANGED <<receipts, granted>>

Cancel(t) ==
    /\ Open(t)
    /\ trades' = [trades EXCEPT ![t].status = "cancelled"]
    /\ UNCHANGED <<wallets, visitLog, plots, owner, locked, receipts, journal,
                   granted>>

Claim(x) ==
    /\ receipts[x] = NoPlayer
    /\ \E p \in Player : receipts' = [receipts EXCEPT ![x] = p]
    /\ UNCHANGED <<wallets, visitLog, plots, owner, locked, trades, journal,
                   granted>>

Grant(x) ==
    /\ receipts[x] # NoPlayer
    /\ granted[x] = 0
    /\ granted' = [granted EXCEPT ![x] = 1]
    /\ Only(receipts[x], grantProduct(Object(receipts[x])))
    /\ UNCHANGED <<trades, receipts>>

Next ==
    \/ \E p \in Player :
         Plant(p) \/ Hatch(p) \/ Visit(p) \/ Lock(p) \/ Propose(p)
    \/ \E t \in Trade : Accept(t) \/ Cancel(t)
    \/ \E x \in Tx : Claim(x) \/ Grant(x)

Spec == Init /\ [][Next]_vars

=============================================================================
