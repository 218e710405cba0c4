------------------------------ MODULE Accounts ------------------------------
(***************************************************************************)
(* Who a player is: POST players, which takes a handle, and POST           *)
(* auth/guest, which finds the player of a device or makes one.  Both read *)
(* before their transaction what its unique keys decide in the end.        *)
(*                                                                         *)
(* A guest gets a handle of its own from randomUUID; it meets no other.    *)
(***************************************************************************)
EXTENDS Naturals, FiniteSets

CONSTANTS
    Req,                          \* requests
    Player, Device, Handle,
    NoPlayer, NoDevice, NoHandle

ASSUME AccountsAssumption ==
    /\ NoPlayer \notin Player /\ NoDevice \notin Device /\ NoHandle \notin Handle
    /\ IsFiniteSet(Player)

VARIABLES
    rows,       \* the players that are committed
    handle,     \* the handles given, NoHandle for a guest's own
    identity,   \* auth_identities
    at,         \* how far each request is
    device,     \* the device of a guest request
    wanted,     \* the handle of a request with a name
    player,     \* the player it found or made
    linkedAt    \* history: the player of the device when the request came in

stored == <<rows, handle, identity>>
asked == <<device, wanted, linkedAt>>
vars == <<stored, asked, at, player>>

\* Where a request is being served.
Working == {"lookup", "create", "begin", "inserted", "linked", "found"}

Places == Working \cup {"new", "answered", "taken", "failed"}

TypeOK ==
    /\ rows \subseteq Player /\ handle \in [Player -> Handle \cup {NoHandle}]
    /\ identity \in [Device -> Player \cup {NoPlayer}]
    /\ at \in [Req -> Places]
    /\ device \in [Req -> Device \cup {NoDevice}] /\ wanted \in [Req -> Handle \cup {NoHandle}]
    /\ player \in [Req -> Player \cup {NoPlayer}]
    /\ linkedAt \in [Req -> Player \cup {NoPlayer}]

Init ==
    /\ rows = {} /\ handle = [p \in Player |-> NoHandle]
    /\ identity = [d \in Device |-> NoPlayer]
    /\ at = [r \in Req |-> "new"]
    /\ device = [r \in Req |-> NoDevice] /\ wanted = [r \in Req |-> NoHandle]
    /\ player = [r \in Req |-> NoPlayer] /\ linkedAt = [r \in Req |-> NoPlayer]

Goes(r, place) == at' = [at EXCEPT ![r] = place]

\* The players whose handle is h, and the transactions about to commit one.
Holders(h) == {p \in rows : handle[p] = h}
Inserting(h) == {r \in Req : at[r] = "inserted" /\ wanted[r] = h}

-----------------------------------------------------------------------------

Register(r) ==
    /\ at[r] = "new" /\ Goes(r, "create")
    /\ \E h \in Handle : wanted' = [wanted EXCEPT ![r] = h]
    /\ UNCHANGED <<stored, device, linkedAt, player>>

Login(r) ==
    /\ at[r] = "new" /\ Goes(r, "lookup")
    /\ \E d \in Device :
          /\ device' = [device EXCEPT ![r] = d]
          /\ linkedAt' = [linkedAt EXCEPT ![r] = identity[d]]
    /\ UNCHANGED <<stored, wanted, player>>

\* getPlayerByIdentity.
LookUp(r) ==
    /\ at[r] = "lookup"
    /\ player' = [player EXCEPT ![r] = identity[device[r]]]
    /\ Goes(r, IF player'[r] = NoPlayer THEN "create" ELSE "found")
    /\ UNCHANGED <<stored, asked>>

\* createPlayer: the handle is looked up, and a new id drawn.
CreatePlayer(r) ==
    /\ at[r] = "create"
    /\ \/ /\ Holders(wanted[r]) # {} /\ wanted[r] # NoHandle
          /\ Goes(r, "taken") /\ UNCHANGED player
       \/ /\ Holders(wanted[r]) = {} \/ wanted[r] = NoHandle
          /\ \E p \in Player \ {player[s] : s \in Req} : player' = [player EXCEPT ![r] = p]
          /\ Goes(r, "begin")
    /\ UNCHANGED <<stored, asked>>

\* Mutant of the next: the handles of the table are not unique.
handleFreeAlways(h) == TRUE

\* The unique key of players.handle.
handleFree(h) == h = NoHandle \/ Holders(h) = {}

\* _savePlayer: the insert waits for a transaction with the same handle.
InsertPlayer(r) ==
    /\ at[r] = "begin"
    /\ wanted[r] = NoHandle \/ Inserting(wanted[r]) = {}
    /\ Goes(r, IF handleFree(wanted[r]) THEN "inserted" ELSE "failed")
    /\ UNCHANGED <<stored, asked, player>>

\* The insert of the identity waits for a transaction with the same device.
Link(r) ==
    /\ at[r] = "inserted" /\ device[r] # NoDevice
    /\ \A s \in Req : at[s] = "linked" => device[s] # device[r]
    /\ Goes(r, "linked")
    /\ UNCHANGED <<stored, asked, player>>

\* Mutant of the next: a conflict updates the row.
linksOver(r) == player[r]

\* ON CONFLICT DO NOTHING: what auth_identities holds for the device.
links(r) == IF identity[device[r]] = NoPlayer THEN player[r] ELSE identity[device[r]]

Commit(r) ==
    /\ at[r] = (IF device[r] = NoDevice THEN "inserted" ELSE "linked")
    /\ Goes(r, "answered")
    /\ rows' = rows \cup {player[r]}
    /\ handle' = [handle EXCEPT ![player[r]] = wanted[r]]
    /\ identity' = [d \in Device |-> IF d = device[r] THEN links(r) ELSE identity[d]]
    /\ UNCHANGED <<asked, player>>

\* A known guest: the transaction writes the player back.
Recover(r) ==
    /\ at[r] = "found" /\ Goes(r, "answered")
    /\ UNCHANGED <<stored, asked, player>>

\* A statement fails or the process dies: the transaction is rolled back.
Fail(r) ==
    /\ at[r] \in Working
    /\ Goes(r, "failed")
    /\ UNCHANGED <<stored, asked, player>>

Next ==
    \E r \in Req :
        \/ Register(r) \/ Login(r) \/ LookUp(r) \/ CreatePlayer(r)
        \/ InsertPlayer(r) \/ Link(r) \/ Commit(r) \/ Recover(r) \/ Fail(r)

Spec == Init /\ [][Next]_vars

-----------------------------------------------------------------------------
(***************************************************************************)
(* Properties.                                                             *)
(***************************************************************************)

\* However many requests want a handle at once, one player gets it.
OneHolder == \A h \in Handle : Cardinality(Holders(h)) <= 1

\* A guest who comes back to a device that has a player is that player, and one
\* that is stored: no identity outlives the transaction that made its player.
Recovered ==
    /\ \A d \in Device : identity[d] \in rows \cup {NoPlayer}
    /\ \A r \in Req : at[r] = "answered" /\ linkedAt[r] # NoPlayer => player[r] = linkedAt[r]

=============================================================================
