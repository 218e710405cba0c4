------------------------------- MODULE World --------------------------------
(***************************************************************************)
(* The world counter.  A PgStore keeps the number of Lumi ever hatched in  *)
(* memory; a request raises it when it makes Lumi, long before it commits, *)
(* and every commit writes the number of that moment into the one row of   *)
(* world_state.  A restart reads the row back.                             *)
(*                                                                         *)
(* The bloom level moves with the same statements and is left out.         *)
(***************************************************************************)
EXTENDS Integers, FiniteSetsExt

CONSTANTS
    Req,          \* POST requests
    Makes         \* how many Lumi a request may make

VARIABLES
    pooled,     \* transactions overlap (node-postgres) or queue up (PGlite)
    total,      \* this.world.totalLumiHatched
    row,        \* world_state.total_lumi_hatched, as committed
    at,         \* how far each request is
    made,       \* how many Lumi it made, until they are committed
    value,      \* the number it sends to world_state
    lumi        \* history: the Lumi whose transactions were committed

vars == <<pooled, total, row, at, made, value, lumi>>

TypeOK ==
    /\ pooled \in BOOLEAN /\ total \in Nat /\ row \in Nat /\ lumi \in Nat
    /\ at \in [Req -> {"new", "made", "tx", "sent", "written", "done", "failed"}]
    /\ made \in [Req -> Makes \cup {0}] /\ value \in [Req -> Nat]

InTx == {r \in Req : at[r] \in {"tx", "sent", "written"}}
InFlight == {r \in Req : at[r] \notin {"new", "done", "failed"}}

Init ==
    /\ pooled \in BOOLEAN /\ total = 0 /\ row = 0 /\ lumi = 0
    /\ at = [r \in Req |-> "new"]
    /\ made = [r \in Req |-> 0] /\ value = [r \in Req |-> 0]

Goes(r, place) == at' = [at EXCEPT ![r] = place]

\* addLumi, once for each Lumi of the request; two starters for a new player.
Make(r) ==
    /\ at[r] = "new" /\ Goes(r, "made")
    /\ \E n \in Makes : made' = [made EXCEPT ![r] = n] /\ total' = total + n
    /\ UNCHANGED <<pooled, row, value, lumi>>

\* _commit opens the transaction.
Begin(r) ==
    /\ at[r] = "made" /\ Goes(r, "tx")
    /\ pooled \/ InTx = {}
    /\ UNCHANGED <<pooled, total, row, made, value, lumi>>

\* _saveWorld reads this.world and sends the statement.
Send(r) ==
    /\ at[r] = "tx" /\ Goes(r, "sent")
    /\ value' = [value EXCEPT ![r] = total]
    /\ UNCHANGED <<pooled, total, row, made, lumi>>

\* The upsert takes the lock of the row.
Write(r) ==
    /\ at[r] = "sent" /\ Goes(r, "written")
    /\ \A s \in Req : at[s] # "written"
    /\ UNCHANGED <<pooled, total, row, made, value, lumi>>

\* Mutant of the next: the upsert adds what it is given to the row.
upsertedAdded(r) == row + value[r]

\* The row of world_state after the upsert.
upserted(r) == value[r]

Commit(r) ==
    /\ at[r] = "written" /\ Goes(r, "done")
    /\ row' = upserted(r)
    /\ lumi' = lumi + made[r]
    /\ made' = [made EXCEPT ![r] = 0] /\ value' = [value EXCEPT ![r] = 0]
    /\ UNCHANGED <<pooled, total>>

\* A handler or a statement throws: this.world stays as it is.
Fail(r) ==
    /\ r \in InFlight /\ Goes(r, "failed")
    /\ value' = [value EXCEPT ![r] = 0]
    /\ UNCHANGED <<pooled, total, row, made, lumi>>

\* Mutant of the next: the counter starts from nothing.
reloadedEmpty == 0

\* _loadWorld.
reloaded == row

\* The process dies with the requests it was serving, and boots again.
Restart ==
    /\ total' = reloaded
    /\ at' = [r \in Req |-> IF r \in InFlight THEN "failed" ELSE at[r]]
    /\ value' = [r \in Req |-> 0]
    /\ UNCHANGED <<pooled, row, made, lumi>>

Next ==
    \/ \E r \in Req : Make(r) \/ Begin(r) \/ Send(r) \/ Write(r) \/ Commit(r) \/ Fail(r)
    \/ Restart

Spec == Init /\ [][Next]_vars

-----------------------------------------------------------------------------
(***************************************************************************)
(* Properties.                                                             *)
(***************************************************************************)

\* Where transactions queue up, the row counts every Lumi that was committed,
\* so that no restart forgets one.
Counted == ~pooled => lumi <= row

Lost == MapThenSumSet(LAMBDA r : made[r], {r \in Req : at[r] = "failed"})

\* Once nothing is in flight, the row counts the Lumi there are; what it counts
\* too many, requests have made that failed.
RowSettled == InFlight = {} => row <= lumi + Lost

=============================================================================
