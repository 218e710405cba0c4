------------------------------ MODULE PgStore -------------------------------
(***************************************************************************)
(* Requests against the PostgreSQL store: the request loop of              *)
(* server/api.js over the per-request unit of work of server/pgStore.js.   *)
(*                                                                         *)
(* A POST request hydrates each player it touches with one query per       *)
(* table, every query an await, so that other requests run between two of  *)
(* them; its handler changes the hydrated copies; then the whole unit of   *)
(* work is written back in one transaction, rows that the handler never    *)
(* changed included.  Nothing checks that a row is still what was read.    *)
(*                                                                         *)
(* The transaction runs at READ COMMITTED.  Its first phase deletes the    *)
(* Lumi rows of every hydrated player; each DELETE takes a snapshot, then  *)
(* waits for the row locks of other transactions, and skips the rows they  *)
(* have replaced meanwhile.  Its second phase (all the upserts and the     *)
(* INSERTs of Lumi, then COMMIT) is one action: what it writes depends on  *)
(* the copies alone, and of its failures only the primary key of lumi      *)
(* depends on what the database holds.  (Upserts that wait for each other  *)
(* end as a failed query does.)                                            *)
(***************************************************************************)
EXTENDS Handlers, FiniteSetsExt

CONSTANTS
    Req,          \* requests in flight at one time
    Trade, Tx,    \* trade ids, payment transaction ids
    Ops,          \* the routes that clients call
    Offers,       \* the offers that clients propose
    Opening, Owner0, Plot0,   \* the database at the start
    Workload,     \* which requests clients may send at the same time
    Pooled,       \* TRUE: a pool of connections; FALSE: PGlite's single one
    Budget,       \* bound: how many requests arrive in a behaviour
    NoPlayer, NoLumi, NoTrade, NoTx, NoRow

TradeRoutes == {"create", "accept", "cancel"}
Routes == {"plant", "harvest", "breed", "visit", "lock", "unlock", "redeem"}
            \cup TradeRoutes

TradeRow == [from : Player, to : Player, offer : Offer,
             status : {"open", "accepted", "cancelled"}]

\* What a Lumi was hatched from, when it was no planting.
Unminted == "unminted"
Bred     == "bred"

\* A planting is the sowing of one seed: it is in one plot at most.
ASSUME PgStoreAssumption ==
    /\ Ops \subseteq Routes
    /\ Offers \subseteq Offer
    /\ Workload \in {"isolated", "perActor", "any"}
    /\ Pooled \in BOOLEAN
    /\ Budget \in Nat
    /\ Opening \in [Player -> Balance]
    /\ Owner0 \in [Lumi -> Player \cup {NoPlayer}]
    /\ Plot0 \in [Player -> Planting \cup {NoPlanting}]
    /\ \A p, q \in Player : p # q /\ Plot0[p] = Plot0[q] => Plot0[p] = NoPlanting
    /\ {Bred, Unminted} \cap Planting = {}
    /\ NoPlayer \notin Player /\ NoLumi \notin Lumi
    /\ NoTrade \notin Trade /\ NoTx \notin Tx /\ NoRow \notin TradeRow

VARIABLES
    (* The tables. *)
    wallets,    \* wallets
    visitLog,   \* players.flags.visitLog
    plots,      \* gardens.layout
    owner,      \* lumi.owner_id, NoPlayer when there is no such row
    locked,     \* the Lumi whose row is marked locked
    trades,     \* trades
    receipts,   \* iap_receipts: who claimed the transaction
    journal,    \* economy_ledger, summed per player and currency
    (* The requests. *)
    job,        \* the request: route, actor and body
    pc,         \* the next statement it awaits
    at,         \* the player that this statement is about
    ctx,        \* the identity map: its copies of the players
    trd,        \* its copy of the trade
    snap,       \* the snapshot of the DELETE under way
    cleared,    \* the Lumi rows its transaction has deleted and holds locked
    (* History. *)
    seedOf,     \* what each Lumi was hatched from
    sown,       \* the plantings that were ever made
    grants,     \* the transaction that a unit of work grants, not yet committed
    granted,    \* how many committed units of work granted a transaction
    swaps,      \* how many committed units of work executed a trade
    budget      \* how many requests may still arrive

tables  == <<wallets, visitLog, plots, owner, locked, trades, receipts, journal>>
request == <<job, pc, at, ctx, trd, snap, cleared>>
history == <<seedOf, sown, grants, granted, swaps, budget>>
vars    == <<tables, request, history>>

NoOffer == [offerLumi |-> {}, offerPetals |-> 0, requestLumi |-> {}]

Job == [op : Routes \cup {"none"}, who : Player \cup {NoPlayer},
        other : Player \cup {NoPlayer}, trade : Trade \cup {NoTrade},
        tx : Tx \cup {NoTx}, lumi : Lumi \cup {NoLumi}, offer : Offer]

NoJob == [op |-> "none", who |-> NoPlayer, other |-> NoPlayer,
          trade |-> NoTrade, tx |-> NoTx, lumi |-> NoLumi, offer |-> NoOffer]

Blank == [wallet |-> NoEntries, ledger |-> NoEntries, visits |-> {},
          plot |-> NoPlanting, lumi |-> {}, locked |-> {}]

Stages == {"idle", "players", "wallets", "gardens", "lumi", "trades", "claim",
           "run", "delete", "deleting", "save"}

TypeOK ==
    /\ wallets \in [Player -> Balance]
    /\ visitLog \in [Player -> SUBSET Player]
    /\ plots \in [Player -> Planting \cup {NoPlanting}]
    /\ owner \in [Lumi -> Player \cup {NoPlayer}]
    /\ locked \in SUBSET Lumi
    /\ trades \in [Trade -> TradeRow \cup {NoRow}]
    /\ receipts \in [Tx -> Player \cup {NoPlayer}]
    /\ journal \in [Player -> Sums]
    /\ job \in [Req -> Job]
    /\ pc \in [Req -> Stages]
    /\ at \in [Req -> Player \cup {NoPlayer}]
    /\ ctx \in [Req -> [Player -> PlayerObject]]
    /\ trd \in [Req -> TradeRow \cup {NoRow}]
    /\ snap \in [Req -> SUBSET Lumi]
    /\ cleared \in [Req -> SUBSET Lumi]
    /\ seedOf \in [Lumi -> Planting \cup {Bred, Unminted}]
    /\ sown \in SUBSET Planting
    /\ grants \in [Req -> Tx \cup {NoTx}]
    /\ granted \in [Tx -> Nat]
    /\ swaps \in [Trade -> Nat]
    /\ budget \in 0..Budget

Init ==
    /\ wallets = Opening
    /\ visitLog = [p \in Player |-> {}]
    /\ plots = Plot0
    /\ owner = Owner0
    /\ locked = {}
    /\ trades = [t \in Trade |-> NoRow]
    /\ receipts = [x \in Tx |-> NoPlayer]
    /\ journal = [p \in Player |-> NoEntries]
    /\ job = [r \in Req |-> NoJob]
    /\ pc = [r \in Req |-> "idle"]
    /\ at = [r \in Req |-> NoPlayer]
    /\ ctx = [r \in Req |-> [p \in Player |-> Blank]]
    /\ trd = [r \in Req |-> NoRow]
    /\ snap = [r \in Req |-> {}]
    /\ cleared = [r \in Req |-> {}]
    /\ seedOf = [l \in Lumi |-> IF Owner0[l] = NoPlayer THEN Unminted ELSE Bred]
    /\ sown = {Plot0[p] : p \in Player} \ {NoPlanting}
    /\ grants = [r \in Req |-> NoTx]
    /\ granted = [x \in Tx |-> 0]
    /\ swaps = [t \in Trade |-> 0]
    /\ budget = Budget

-----------------------------------------------------------------------------
(***************************************************************************)
(* Arrival.  A client learns a trade's id from the response that created   *)
(* it, so accept and cancel name a committed trade.                        *)
(***************************************************************************)
Busy == {r \in Req : pc[r] # "idle"}

\* The players whose rows a request reads, or whose trade it settles.
Footprint(j) ==
    IF j.op \in {"accept", "cancel"}
    THEN {j.who, trades[j.trade].from, trades[j.trade].to}
    ELSE {j.who, j.other} \ {NoPlayer}

\* What clients do not send at the same time: "any" excludes nothing,
\* "perActor" two requests of one player, "isolated" two requests that touch
\* one player.
Admitted(j) ==
    CASE Workload = "any"      -> TRUE
      [] Workload = "perActor" -> \A r \in Busy : job[r].who # j.who
      [] Workload = "isolated" ->
            \A r \in Busy : Footprint(job[r]) \cap Footprint(j) = {}

Submit(r, j) ==
    /\ pc[r] = "idle"
    /\ budget > 0
    /\ Admitted(j)
    /\ job' = [job EXCEPT ![r] = j]
    /\ at' = [at EXCEPT ![r] = j.who]
    /\ pc' = [pc EXCEPT ![r] = "players"]
    /\ budget' = budget - 1
    /\ UNCHANGED <<tables, ctx, trd, snap, cleared, seedOf, sown, grants,
                   granted, swaps>>

\* Bound: the trades that exist, and those about to.
Created == {t \in Trade : trades[t] # NoRow} \cup {s \in Busy : job[s].op = "create"}

Arrive(r) ==
    \E o \in Ops, p \in Player :
        \/ /\ o \in {"plant", "harvest", "breed"}
           /\ Submit(r, [NoJob EXCEPT !.op = o, !.who = p])
        \/ /\ o = "visit"
           /\ \E q \in Player \ {p} :
                Submit(r, [NoJob EXCEPT !.op = o, !.who = p, !.other = q])
        \/ /\ o \in {"lock", "unlock"}
           /\ \E l \in Lumi :
                Submit(r, [NoJob EXCEPT !.op = o, !.who = p, !.lumi = l])
        \/ /\ o = "redeem"
           /\ \E x \in Tx :
                Submit(r, [NoJob EXCEPT !.op = o, !.who = p, !.tx = x])
        \/ /\ o = "create"
           /\ Cardinality(Created) < Cardinality(Trade)
           /\ \E q \in Player \ {p}, f \in Offers :
                Submit(r, [NoJob EXCEPT !.op = o, !.who = p, !.other = q,
                                        !.offer = f])
        \/ /\ o \in {"accept", "cancel"}
           /\ \E t \in Trade :
                /\ trades[t] # NoRow
                /\ Submit(r, [NoJob EXCEPT !.op = o, !.who = p, !.trade = t])

-----------------------------------------------------------------------------
(***************************************************************************)
(* getPlayer: one query per table, each of them an await.                  *)
(***************************************************************************)
Read(r, table, next, copy) ==
    /\ pc[r] = table
    /\ pc' = [pc EXCEPT ![r] = next]
    /\ ctx' = [ctx EXCEPT ![r][at[r]] = copy]
    /\ UNCHANGED <<tables, job, trd, snap, cleared, history>>

ReadPlayers(r) ==
    /\ Read(r, "players", "wallets",
            [ctx[r][at[r]] EXCEPT !.visits = visitLog[at[r]]])
    /\ UNCHANGED at

ReadWallets(r) ==
    /\ Read(r, "wallets", "gardens",
            [ctx[r][at[r]] EXCEPT !.wallet = wallets[at[r]]])
    /\ UNCHANGED at

ReadGardens(r) ==
    /\ Read(r, "gardens", "lumi",
            [ctx[r][at[r]] EXCEPT !.plot = plots[at[r]]])
    /\ UNCHANGED at

Rows(p) == {l \in Lumi : owner[l] = p}

\* What the handler awaits once the player it was hydrating is complete.
NextAwait(r) ==
    IF at[r] = job[r].other THEN "run"
    ELSE CASE job[r].op \in {"visit", "create"}  -> "players"
           [] job[r].op \in {"accept", "cancel"} -> "trades"
           [] job[r].op = "redeem"               -> "claim"
           [] OTHER                              -> "run"

ReadLumi(r) ==
    /\ Read(r, "lumi", NextAwait(r),
            [ctx[r][at[r]] EXCEPT !.lumi = Rows(at[r]),
                                  !.locked = Rows(at[r]) \cap locked])
    /\ at' = IF NextAwait(r) = "players"
             THEN [at EXCEPT ![r] = job[r].other] ELSE at

\* Mutant of the next: the status is not checked.
mayAcceptClosed(r, row) == row.to = job[r].who

\* getTrade, and the checks of the accept and cancel handlers on it.
mayAccept(r, row) == row.status = "open" /\ row.to = job[r].who

mayCancel(r, row) == row.status = "open" /\ job[r].who \in {row.from, row.to}

ReadTrade(r) ==
    LET row == trades[job[r].trade]
    IN  /\ pc[r] = "trades"
        /\ trd' = [trd EXCEPT ![r] = row]
        /\ \/ /\ job[r].op = "accept" /\ mayAccept(r, row)
              /\ pc' = [pc EXCEPT ![r] = "players"]
              /\ at' = [at EXCEPT ![r] = row.from]
              /\ job' = [job EXCEPT ![r].other = row.from]
           \/ /\ job[r].op = "cancel" /\ mayCancel(r, row)
              /\ pc' = [pc EXCEPT ![r] = "run"]
              /\ UNCHANGED <<at, job>>
        /\ UNCHANGED <<tables, ctx, snap, cleared, history>>

-----------------------------------------------------------------------------
(***************************************************************************)
(* The handlers.                                                           *)
(***************************************************************************)
Self(r)  == ctx[r][job[r].who]
Other(r) == ctx[r][job[r].other]

\* The handler returns: the unit of work, with its new copies, is committed.
Return(r, copies) ==
    /\ ctx' = [ctx EXCEPT ![r] = copies]
    /\ pc' = [pc EXCEPT ![r] = "delete"]
    /\ at' = [at EXCEPT ![r] = job[r].who]
    /\ UNCHANGED <<tables, snap, cleared, granted, swaps, budget>>

Handling(r, ops) == pc[r] = "run" /\ job[r].op \in ops

SelfBecomes(r, copy) == [ctx[r] EXCEPT ![job[r].who] = copy]

HandlePlant(r) ==
    /\ Handling(r, {"plant"})
    /\ canPlant(Self(r))
    /\ \E planting \in Planting \ sown :
        /\ sown' = sown \cup {planting}
        /\ Return(r, SelfBecomes(r, plant(Self(r), planting)))
    /\ UNCHANGED <<job, trd, seedOf, grants>>

HandleHarvest(r) ==
    /\ Handling(r, {"harvest"})
    /\ canHarvest(Self(r))
    /\ \E l \in Lumi :
        /\ seedOf[l] = Unminted
        /\ seedOf' = [seedOf EXCEPT ![l] = Self(r).plot]
        /\ Return(r, SelfBecomes(r, harvest(Self(r), l)))
    /\ UNCHANGED <<job, trd, sown, grants>>

HandleBreed(r) ==
    /\ Handling(r, {"breed"})
    /\ canBreed(Self(r))
    /\ \E l \in Lumi :
        /\ seedOf[l] = Unminted
        /\ seedOf' = [seedOf EXCEPT ![l] = Bred]
        /\ Return(r, SelfBecomes(r, breed(Self(r), l)))
    /\ UNCHANGED <<job, trd, sown, grants>>

HandleVisit(r) ==
    /\ Handling(r, {"visit"})
    /\ Return(r, SelfBecomes(r, visit(Self(r), job[r].other)))
    /\ UNCHANGED <<job, trd, seedOf, sown, grants>>

HandleLock(r) ==
    /\ Handling(r, {"lock", "unlock"})
    /\ canLock(Self(r), job[r].lumi)
    /\ Return(r, SelfBecomes(r, lock(Self(r), job[r].lumi, job[r].op = "lock")))
    /\ UNCHANGED <<job, trd, seedOf, sown, grants>>

\* createTrade: the row of a proposal that passed.
createTrade(r) == [from |-> job[r].who, to |-> job[r].other,
                   offer |-> job[r].offer, status |-> "open"]

HandleCreate(r) ==
    /\ Handling(r, {"create"})
    /\ validateTrade(Self(r), Other(r), job[r].offer)
    /\ \E t \in Trade :
        /\ trades[t] = NoRow /\ \A s \in Req : job[s].trade # t
        /\ job' = [job EXCEPT ![r].trade = t]
    /\ trd' = [trd EXCEPT ![r] = createTrade(r)]
    /\ Return(r, ctx[r])
    /\ UNCHANGED <<seedOf, sown, grants>>

\* `to` is the actor, `from` the initiator.  When both copies hold one Lumi
\* (it moved between the two reads) the handler may pass, but its commit would
\* insert that Lumi twice and fail: such a request is left to Reject.
canAccept(r) ==
    /\ validateTrade(Other(r), Self(r), trd[r].offer)
    /\ Self(r).lumi \cap Other(r).lumi = {}

\* Mutant: a cancel does not set the status.
resolveAcceptedOnly(row, status) ==
    IF status = "accepted" THEN [row EXCEPT !.status = status] ELSE row

resolve(row, status) == [row EXCEPT !.status = status]

HandleAccept(r) ==
    /\ Handling(r, {"accept"})
    /\ canAccept(r)
    /\ Return(r, [SelfBecomes(r, tradeTo(Self(r), trd[r].offer)) EXCEPT
                    ![job[r].other] = tradeFrom(Other(r), trd[r].offer)])
    /\ trd' = [trd EXCEPT ![r] = resolve(trd[r], "accepted")]
    /\ UNCHANGED <<job, seedOf, sown, grants>>

HandleCancel(r) ==
    /\ Handling(r, {"cancel"})
    /\ Return(r, ctx[r])
    /\ trd' = [trd EXCEPT ![r] = resolve(trd[r], "cancelled")]
    /\ UNCHANGED <<job, seedOf, sown, grants>>

\* Mutant of the next: the receipt is not checked.
unclaimedAlways(x) == TRUE

\* claimReceipt is a statement of its own, committed at once; the handler goes
\* on to the grant in the same turn.  A transaction that was claimed before is
\* granted nothing, but its unit of work is committed all the same.  An event of
\* Stripe (processStripeEvent) is such a request too, for the player and the
\* payment that it names, so the two events of one checkout are two redeems of
\* one transaction; an event that is ignored changes nothing.
unclaimed(x) == receipts[x] = NoPlayer

Claimed(r) ==
    /\ unclaimed(job[r].tx)
    /\ receipts' = [receipts EXCEPT ![job[r].tx] = job[r].who]
    /\ grants' = [grants EXCEPT ![r] = job[r].tx]
    /\ ctx' = [ctx EXCEPT ![r] = SelfBecomes(r, grantProduct(Self(r)))]

AlreadyClaimed(r) ==
    /\ ~unclaimed(job[r].tx)
    /\ UNCHANGED <<receipts, grants, ctx>>

HandleRedeem(r) ==
    /\ pc[r] = "claim"
    /\ Claimed(r) \/ AlreadyClaimed(r)
    /\ pc' = [pc EXCEPT ![r] = "delete"]
    /\ at' = [at EXCEPT ![r] = job[r].who]
    /\ UNCHANGED <<wallets, visitLog, plots, owner, locked, trades, journal,
                   job, trd, snap, cleared, seedOf, sown, granted, swaps, budget>>

-----------------------------------------------------------------------------
(***************************************************************************)
(* The end of a request: what it held is released, the slot is free again. *)
(***************************************************************************)
\* Mutant of the next: the transaction is left open.
UnlockNever(r) == UNCHANGED cleared

\* COMMIT or ROLLBACK: the row locks are released.
Unlock(r) == cleared' = [cleared EXCEPT ![r] = {}]

End(r) ==
    /\ pc' = [pc EXCEPT ![r] = "idle"]
    /\ job' = [job EXCEPT ![r] = NoJob]
    /\ at' = [at EXCEPT ![r] = NoPlayer]
    /\ ctx' = [ctx EXCEPT ![r] = [p \in Player |-> Blank]]
    /\ trd' = [trd EXCEPT ![r] = NoRow]
    /\ Unlock(r)
    /\ grants' = [grants EXCEPT ![r] = NoTx]

Drop(r) ==
    /\ End(r)
    /\ snap' = [snap EXCEPT ![r] = {}]
    /\ UNCHANGED <<tables, seedOf, sown, granted, swaps, budget>>

\* The handler throws: a 4xx answer and no commit.  A harvest may also come
\* before the planting is ready, and a breed name a Lumi that is not owned.
Reject(r) ==
    /\ \/ /\ pc[r] = "trades"
          /\ job[r].op = "accept" => ~mayAccept(r, trades[job[r].trade])
          /\ job[r].op = "cancel" => ~mayCancel(r, trades[job[r].trade])
       \/ Handling(r, {"plant"}) /\ ~canPlant(Self(r))
       \/ Handling(r, {"harvest", "breed"})
       \/ Handling(r, {"lock", "unlock"}) /\ ~canLock(Self(r), job[r].lumi)
       \/ Handling(r, {"create"}) /\ ~validateTrade(Self(r), Other(r), job[r].offer)
       \/ Handling(r, {"accept"}) /\ ~canAccept(r)
    /\ Drop(r)

\* A query fails, a connection is lost, or the process dies (which is Fail of
\* every request in flight): 500, and the open transaction is rolled back.
Fail(r) == pc[r] # "idle" /\ Drop(r)

-----------------------------------------------------------------------------
(***************************************************************************)
(* _commit.                                                                *)
(***************************************************************************)
\* Mutant: only the actor is written back.
HydratedActor(r) == {job[r].who}

Hydrated(r) == {job[r].who, job[r].other} \ {NoPlayer}

Carried(r)  == UNION {ctx[r][p].lumi : p \in Hydrated(r)}

InTransaction(r) ==
    pc[r] \in {"deleting", "save"} \/ (pc[r] = "delete" /\ at[r] # job[r].who)

\* DELETE FROM lumi WHERE owner_id = p begins with the rows it can see.
StartDelete(r) ==
    /\ pc[r] = "delete"
    /\ Pooled \/ \A s \in Req \ {r} : ~InTransaction(s)
    /\ snap' = [snap EXCEPT ![r] = Rows(at[r])]
    /\ pc' = [pc EXCEPT ![r] = "deleting"]
    /\ UNCHANGED <<tables, job, at, ctx, trd, cleared, history>>

\* Whom r waits for: the transactions that hold a row it deletes or inserts.
Blockers(r) ==
    {s \in Req \ {r} :
        \/ pc[r] = "deleting" /\ snap[r] \cap cleared[s] # {}
        \/ pc[r] = "save" /\ Carried(r) \cap cleared[s] # {}}

\* It ends with the row locks of what was left of them; then the next player.
FinishDelete(r) ==
    /\ pc[r] = "deleting"
    /\ Blockers(r) = {}
    /\ cleared' = [cleared EXCEPT ![r] = @ \cup snap[r]]
    /\ snap' = [snap EXCEPT ![r] = {}]
    /\ IF at[r] = job[r].who /\ job[r].other # NoPlayer
       THEN /\ pc' = [pc EXCEPT ![r] = "delete"]
            /\ at' = [at EXCEPT ![r] = job[r].other]
       ELSE /\ pc' = [pc EXCEPT ![r] = "save"]
            /\ UNCHANGED at
    /\ UNCHANGED <<tables, job, ctx, trd, history>>

\* An INSERT INTO lumi meets a row with the same id that this transaction has
\* not deleted, or that it inserted itself for its other player.
PkConflict(r) ==
    \/ \E l \in Carried(r) \ cleared[r] : owner[l] # NoPlayer
    \/ \E p, q \in Hydrated(r) : p # q /\ ctx[r][p].lumi \cap ctx[r][q].lumi # {}

\* The object of p that the transaction writes, when it writes one.
Saved(r, p, new, old) == IF p \in Hydrated(r) THEN new ELSE old

SavedOwner(r, l) ==
    IF l \in Carried(r)
    THEN CHOOSE p \in Hydrated(r) : l \in ctx[r][p].lumi
    ELSE IF l \in cleared[r] THEN NoPlayer ELSE owner[l]

SavedLocks(r) ==
    (locked \ (cleared[r] \cup Carried(r)))
        \cup UNION {ctx[r][p].locked : p \in Hydrated(r)}

Commit(r) ==
    /\ pc[r] = "save"
    /\ Blockers(r) = {}
    /\ ~PkConflict(r)
    /\ wallets' = [p \in Player |-> Saved(r, p, ctx[r][p].wallet, wallets[p])]
    /\ visitLog' = [p \in Player |-> Saved(r, p, ctx[r][p].visits, visitLog[p])]
    /\ plots' = [p \in Player |-> Saved(r, p, ctx[r][p].plot, plots[p])]
    /\ owner' = [l \in Lumi |-> SavedOwner(r, l)]
    /\ locked' = SavedLocks(r)
    /\ journal' = [p \in Player |-> [c \in Currency |->
                     journal[p][c] + Saved(r, p, ctx[r][p].ledger[c], 0)]]
    /\ trades' = IF trd[r] = NoRow THEN trades
                 ELSE [trades EXCEPT ![job[r].trade] = trd[r]]
    /\ granted' = [x \in Tx |-> granted[x] + IF grants[r] = x THEN 1 ELSE 0]
    /\ swaps' = [t \in Trade |->
                   swaps[t] + IF job[r].op = "accept" /\ job[r].trade = t
                              THEN 1 ELSE 0]
    /\ snap' = [s \in Req |-> snap[s] \ cleared[r]]
    /\ End(r)
    /\ UNCHANGED <<receipts, seedOf, sown, budget>>

DuplicateKey(r) ==
    /\ pc[r] = "save"
    /\ Blockers(r) = {}
    /\ PkConflict(r)
    /\ Drop(r)

\* PostgreSQL aborts a transaction that is caught in a cycle of waits.
DeadlockVictim(r) ==
    /\ \E S \in SUBSET Req : r \in S /\ \A s \in S : Blockers(s) \cap S # {}
    /\ Drop(r)

-----------------------------------------------------------------------------
Handle(r) ==
    \/ HandlePlant(r)  \/ HandleHarvest(r) \/ HandleBreed(r)
    \/ HandleVisit(r)  \/ HandleLock(r)    \/ HandleCreate(r)
    \/ HandleAccept(r) \/ HandleCancel(r)  \/ HandleRedeem(r)
    \/ Reject(r)

Step(r) ==
    \/ ReadPlayers(r) \/ ReadWallets(r) \/ ReadGardens(r) \/ ReadLumi(r)
    \/ ReadTrade(r)
    \/ Handle(r)
    \/ StartDelete(r) \/ FinishDelete(r)
    \/ Commit(r) \/ DuplicateKey(r) \/ DeadlockVictim(r)

Next == \E r \in Req : Arrive(r) \/ Step(r) \/ Fail(r)

Spec == Init /\ [][Next]_vars

\* Node resumes every request whose query was answered, and PostgreSQL answers.
Fairness == \A r \in Req : WF_vars(Step(r))

FairSpec == Spec /\ Fairness

-----------------------------------------------------------------------------
(***************************************************************************)
(* What must hold whatever clients send at the same time.                  *)
(***************************************************************************)

\* A payment transaction is granted by at most one committed unit of work,
\* however often it is redeemed, replayed or interrupted, and only after its
\* receipt was claimed (claimReceipt and the redeem handler).
GrantedOnce ==
    \A x \in Tx : granted[x] <= 1 /\ (granted[x] = 1 => ~unclaimed(x))

\* A unit of work that is about to grant a transaction acts for the player the
\* receipt names: a purchase redeemed on two accounts pays the account whose
\* claim came first.
GrantsFollowReceipts ==
    \A r \in Req : grants[r] # NoTx => receipts[grants[r]] = job[r].who

\* A payment is granted once at most, to the player who claimed it first.
GrantsAreDue == GrantedOnce /\ GrantsFollowReceipts

\* A closed trade is never opened again, by a late commit of a request that
\* read it while it was open either, and a trade does not disappear.
TradesStayClosed ==
    [][\A t \in Trade :
         trades[t] # NoRow =>
            /\ trades'[t] # NoRow
            /\ trades[t].status # "open" => trades'[t].status # "open"]_vars

\* Every request ends, though the DELETEs of two trades may wait for each
\* other's row locks.
RequestsEnd == \A r \in Req : pc[r] # "idle" ~> pc[r] = "idle"

(***************************************************************************)
(* What must hold when requests in flight touch different players, and is  *)
(* examined below for wider workloads.                                     *)
(***************************************************************************)

\* The ledger accounts for every balance: what a player has is what the player
\* opened with plus the recorded movements, and nobody owes anything.
WalletsMatchJournal ==
    \A p \in Player : \A c \in Currency :
        wallets[p][c] = Opening[p][c] + journal[p][c] /\ wallets[p][c] >= 0

\* One planting hatches at most one of the Lumi that exist, and none while it
\* is still in a plot.
HatchedOnce ==
    \A l \in Lumi :
        (owner[l] # NoPlayer /\ seedOf[l] \in Planting) =>
            /\ \A k \in Lumi \ {l} : owner[k] # NoPlayer => seedOf[k] # seedOf[l]
            /\ \A p \in Player : plots[p] # seedOf[l]

\* No commit makes a Lumi disappear.
LumiConserved ==
    [][\A l \in Lumi : owner[l] # NoPlayer => owner'[l] # NoPlayer]_vars

\* A trade has been executed exactly once if its row says accepted, and not at
\* all if it is open or cancelled.
StatusTellsOutcome ==
    \A t \in Trade :
        swaps[t] = IF trades[t] # NoRow /\ trades[t].status = "accepted"
                   THEN 1 ELSE 0

\* A locked Lumi does not change hands.
LockedStays ==
    [][\A l \in Lumi : l \in locked => owner'[l] = owner[l]]_vars

PetalsOf(t) == trades[t].offer.offerPetals

\* Visits pay at most once for each neighbour in today's log and the log stops
\* at the cap: petals come from nowhere else but from accepted trades.
VisitsPaidOnce ==
    \A p \in Player :
        LET won == {t \in Trade : trades[t] # NoRow /\ trades[t].status = "accepted"
                                     /\ trades[t].to = p}
        IN  /\ Cardinality(visitLog[p]) <= VisitCap
            /\ wallets[p]["petals"] <= Opening[p]["petals"]
                   + VisitReward * Cardinality(visitLog[p]) + MapThenSumSet(PetalsOf, won)

=============================================================================
