------------------------------ MODULE Realtime ------------------------------
(***************************************************************************)
(* The real-time hub beside the constellations: which sockets count as     *)
(* present, and which chat room each of them is in.  A socket is tracked   *)
(* as soon as it is upgraded, but its room is looked up in the member rows *)
(* of the database, and the handlers of its messages and of its closing    *)
(* are registered only after the answer.                                   *)
(*                                                                         *)
(* The requests and the rows are those of Guild, which this module         *)
(* composes with the hub: the handlers of create and join move the sockets *)
(* of a player before the request commits, the commit deletes and writes   *)
(* the member rows from a copy that may be old.                            *)
(*                                                                         *)
(* Of the messages only the online count is kept.                          *)
(***************************************************************************)
EXTENDS Guild

CONSTANTS
    Sock,
    Owner        \* the player whose token a socket presents

ASSUME RealtimeAssumption ==
    /\ Owner \in [Sock -> Player]
    /\ IsFiniteSet(Sock)

VARIABLES
    stage,     \* where the upgrade handler of a socket is
    open,      \* the sockets whose connection is up
    sockets,   \* the hub's set of sockets
    byPlayer,  \* the same sockets by player
    cid,       \* ws._cid, the room a socket was last put in
    rooms,     \* the sockets of each chat room
    answer,    \* the constellation the lookup of a socket found, until it is used
    seen,      \* the online count a client was last sent, while it is up
    mishaps    \* history: what has gone wrong so far

hub == <<sockets, byPlayer, cid, rooms>>
sides == <<stage, open, hub, answer, seen>>
realtimeVars == <<vars, sides, mishaps>>

\* A lookup or the commit of a join that failed; a connection made while the
\* join of its player awaited the commit; a join of a player who has a member
\* row, or another join in flight; a commit that changed a member row in any
\* other way than by giving the one who joins a first row.
Mishap == {"lookup", "commit", "overlap", "twice", "overwrite"}

Stage == {"new", "lookup", "answered", "ready", "gone"}

RealtimeTypeOK ==
    /\ TypeOK
    /\ stage \in [Sock -> Stage]
    /\ open \subseteq Sock
    /\ sockets \subseteq Sock
    /\ byPlayer \in [Player -> SUBSET Sock]
    /\ cid \in [Sock -> Con \cup {NoCon}]
    /\ rooms \in [Con -> SUBSET Sock]
    /\ answer \in [Sock -> Con \cup {NoCon}]
    /\ seen \in [Sock -> 0..Cardinality(Sock)]
    /\ mishaps \subseteq Mishap

-----------------------------------------------------------------------------

RealtimeInit ==
    /\ Init
    /\ stage = [s \in Sock |-> "new"]
    /\ open = {} /\ sockets = {}
    /\ byPlayer = [p \in Player |-> {}]
    /\ cid = [s \in Sock |-> NoCon]
    /\ rooms = [c \in Con |-> {}]
    /\ answer = cid
    /\ seen = [s \in Sock |-> 0]
    /\ mishaps = {}

\* The requests that have moved the sockets of a player and await the commit.
Entering(r) == pc[r] = "save" /\ job[r].op \in {"create", "join"}
Joins(p) == {r \in Req : Entering(r) /\ job[r].who = p}

\* Mutant of the next: the room that is left keeps the sockets.
roomsKept(moved, c) == [rooms EXCEPT ![c] = @ \cup moved]

\* joinRoom, of each of the sockets moved: a socket leaves its last room.
roomsAfter(moved, c) ==
    [d \in Con |-> IF d = c THEN rooms[d] \cup {s \in moved : cid[s] # c}
                   ELSE rooms[d] \ {s \in moved : cid[s] = d}]

joinRoom(moved, c) ==
    /\ rooms' = roomsAfter(moved, c)
    /\ cid' = [s \in Sock |-> IF s \in moved THEN c ELSE cid[s]]

\* Everyone who is tracked is sent the size of the hub; one that is closed cannot
\* be, and what it was told is forgotten.
presence(tracked) ==
    seen' = [s \in Sock |-> IF s \notin open' THEN 0
                            ELSE IF s \in tracked THEN Cardinality(tracked) ELSE seen[s]]

-----------------------------------------------------------------------------
(***************************************************************************)
(* The life of a socket.                                                   *)
(***************************************************************************)

\* handleUpgrade: track, and ask playerPublic.
Connect(s) ==
    /\ stage[s] = "new"
    /\ open' = open \cup {s}
    /\ sockets' = sockets \cup {s}
    /\ byPlayer' = [byPlayer EXCEPT ![Owner[s]] = @ \cup {s}]
    /\ stage' = [stage EXCEPT ![s] = "lookup"]
    /\ mishaps' = IF Joins(Owner[s]) = {} THEN mishaps ELSE mishaps \cup {"overlap"}
    /\ UNCHANGED <<cid, rooms, answer, seen>>

\* Mutant of the next: the flag is asked, and not the member row.
playerPublicOfFlag(p) == flag[p]

playerPublic(p) == guild[p]

\* A lookup that fails is answered with no constellation.
Lookup(s) ==
    /\ stage[s] = "lookup"
    /\ \/ answer' = [answer EXCEPT ![s] = playerPublic(Owner[s])] /\ UNCHANGED mishaps
       \/ answer' = [answer EXCEPT ![s] = NoCon] /\ mishaps' = mishaps \cup {"lookup"}
    /\ stage' = [stage EXCEPT ![s] = "answered"]
    /\ UNCHANGED <<open, hub, seen>>

\* The handler resumes: welcome, presence, and only now 'message' and 'close'.
Welcome(s) ==
    /\ stage[s] = "answered"
    /\ IF answer[s] # NoCon THEN joinRoom({s}, answer[s]) ELSE UNCHANGED <<cid, rooms>>
    /\ answer' = [answer EXCEPT ![s] = NoCon]
    /\ UNCHANGED <<open, sockets, byPlayer, mishaps>>
    /\ presence(sockets)
    /\ stage' = [stage EXCEPT ![s] = "ready"]

\* Mutant of the next: the closed socket is forgotten for its player only.
untrackedOfPlayer(s) == sockets

\* untrack, of a closed socket.
untracked(s) == sockets \ {s}

\* leaveRoom, of a closed socket.
left(s) == [c \in Con |-> IF c = cid[s] THEN rooms[c] \ {s} ELSE rooms[c]]

\* The close handler.
Close(s) ==
    /\ stage[s] = "ready"
    /\ s \in open
    /\ open' = open \ {s}
    /\ rooms' = left(s)
    /\ sockets' = untracked(s)
    /\ byPlayer' = [byPlayer EXCEPT ![Owner[s]] = @ \ {s}]
    /\ presence(sockets')
    /\ stage' = [stage EXCEPT ![s] = "gone"]
    /\ UNCHANGED <<cid, answer, mishaps>>

\* The connection closes before a handler listens: the event is lost.
HangUp(s) ==
    /\ stage[s] \in {"lookup", "answered"}
    /\ s \in open
    /\ open' = open \ {s}
    /\ seen' = [seen EXCEPT ![s] = 0]
    /\ UNCHANGED <<stage, hub, answer, mishaps>>

-----------------------------------------------------------------------------
(***************************************************************************)
(* Requests.  POST constellation/create and /join call setRoom as soon as  *)
(* the handler has joined its copy; no other step of a request touches the *)
(* hub.                                                                    *)
(***************************************************************************)

\* Mutant of the next: the sockets of all players are moved.
connectionsOfAll(p) == sockets

\* setRoom finds the sockets of the player.
connections(p) == byPlayer[p]

SetRoom(p, c) ==
    /\ joinRoom(connections(p), c)
    /\ mishaps' = IF guild[p] = NoCon /\ Joins(p) = {} THEN mishaps
                  ELSE mishaps \cup {"twice"}
    /\ UNCHANGED <<stage, open, sockets, byPlayer, answer, seen>>

Enter(r) ==
    /\ HandleCreate(r) \/ HandleJoin(r)
    /\ SetRoom(job[r].who, job[r].con)

\* Whose rows a commit may change without harm.
mayChange(r, p) == Entering(r) /\ p = job[r].who /\ guild[p] = NoCon

\* A commit, and whether it leaves alone what is not its own.
Commit(r) ==
    /\ SaveCon(r)
    /\ mishaps' = IF \A p \in Player : guild'[p] = guild[p] \/ mayChange(r, p)
                  THEN mishaps ELSE mishaps \cup {"overwrite"}
    /\ UNCHANGED sides

\* A commit that fails, a query that fails or a request that is given up.
Abort(r) ==
    /\ Fail(r) \/ DuplicateName(r)
    /\ mishaps' = IF Entering(r) THEN mishaps \cup {"commit"} ELSE mishaps
    /\ UNCHANGED sides

\* The steps that neither move sockets nor write member rows.
Elsewhere(r) ==
    /\ \/ Arrive(r)
       \/ ReadSelf(r) \/ ReadOther(r) \/ ReadName(r) \/ ReadCon(r) \/ ReadMembers(r)
       \/ HandleHatch(r) \/ SavePlayers(r) \/ Reject(r)
    /\ UNCHANGED <<sides, mishaps>>

RealtimeNext ==
    \/ \E s \in Sock : /\ Connect(s) \/ Lookup(s) \/ Welcome(s) \/ Close(s) \/ HangUp(s)
                       /\ UNCHANGED vars
    \/ \E r \in Req : Enter(r) \/ Commit(r) \/ Abort(r) \/ Elsewhere(r)

RealtimeSpec == RealtimeInit /\ [][RealtimeNext]_realtimeVars

-----------------------------------------------------------------------------
(***************************************************************************)
(* Properties.                                                             *)
(***************************************************************************)

\* The connections that closed before a handler listened: the hub never learns.
HungUp == {s \in Sock : stage[s] = "ready" /\ s \notin open}

\* While nobody is being looked up, every client was told how many are online,
\* and the count is wrong by those that hung up during their lookup only, each
\* counted once.
PresenceTrue ==
    (\A s \in Sock : stage[s] \notin {"lookup", "answered"}) =>
        \A s \in open : seen[s] = Cardinality(open) + Cardinality(HungUp)

Settled(s) == stage[s] = "ready" /\ s \in open /\ Joins(Owner[s]) = {}

\* A member whose sockets are all set up hears the chat of the constellation,
\* even after a commit that failed, unless a lookup failed, a connection was
\* made during a join, a player joined twice or a commit overwrote member rows.
NobodyMissing ==
    mishaps \subseteq {"commit"} =>
        \A s \in Sock :
            Settled(s) /\ guild[Owner[s]] # NoCon => s \in rooms[guild[Owner[s]]]

OnlyMembers ==
    \A c \in Con : \A s \in rooms[c] :
        c = guild[Owner[s]] \/ \E r \in Joins(Owner[s]) : job[r].con = c

\* Chat reaches co-members only: what is in a room belongs to one who has a
\* member row, or whose request to get one is still in flight, as long as no
\* join has failed to commit and no commit has overwritten member rows.
NobodyElse == mishaps \cap {"commit", "overwrite"} = {} => OnlyMembers

\* Whatever fails: a socket is in no room but the last it was put in, and one
\* that was closed by its handler is nowhere any more.
NobodyTwice ==
    \A s \in Sock :
        /\ \A c \in Con : s \in rooms[c] => c = cid[s]
        /\ stage[s] = "gone" => /\ s \notin sockets
                                /\ \A p \in Player : s \notin byPlayer[p]
                                /\ \A c \in Con : s \notin rooms[c]

=============================================================================
