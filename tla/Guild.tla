------------------------------- MODULE Guild --------------------------------
(***************************************************************************)
(* Constellations (guilds) on the PostgreSQL store: create, join, and the  *)
(* contribution of every hatch, among requests that write a player back    *)
(* for another reason.                                                     *)
(*                                                                         *)
(* Membership is kept twice.  players.flags.constellationId is what the    *)
(* handlers go by; the rows of constellation_members are what the cap, the *)
(* chat rooms and the ranking go by.  Both are written from copies, the    *)
(* member rows by DELETE and INSERT of the whole constellation.            *)
(*                                                                         *)
(* A commit is one action.  It upserts the row of the constellation before *)
(* it touches the member rows, and holds it until COMMIT, so that two      *)
(* commits of one constellation follow one another and the DELETE of the   *)
(* second sees every row the first has written.                            *)
(*                                                                         *)
(* The id of a new constellation is drawn at random.  Con are the ids that *)
(* may be drawn, each with the name it is drawn for.                       *)
(***************************************************************************)
EXTENDS Integers, FiniteSets, FiniteSetsExt

CONSTANTS
    Player, Con, Req,
    nameOf,            \* the name of each constellation
    Full,              \* members a constellation can have
    Amount,            \* what one hatch contributes
    Budget,            \* bound: how many requests arrive in a behaviour
    NoPlayer, NoCon

ASSUME GuildAssumption ==
    /\ IsFiniteSet(Player)
    /\ Full \in Nat \ {0} /\ Amount \in Nat /\ Budget \in Nat
    /\ NoPlayer \notin Player /\ NoCon \notin Con

VARIABLES
    flag,          \* players.flags.constellationId
    guild,         \* constellation_members: the constellation of a player's row
    contributed,   \* constellation_members.contributed
    founded,       \* the constellations that have a row
    score,         \* constellations.bloom_score
    job,           \* the request: route, actor, other player, constellation
    pc,            \* the next statement it awaits
    flags,         \* its copies of the players' flags
    con,           \* its copy of the constellation
    given,         \* history: what committed hatches gave to a constellation
    crossed,       \* history: requests in flight have touched the same rows
    budget         \* how many requests may still arrive

tables  == <<flag, guild, contributed, founded, score>>
vars    == <<tables, job, pc, flags, con, given, crossed, budget>>

Job == [op : {"create", "join", "hatch", "visit", "none"},
        who : Player \cup {NoPlayer}, other : Player \cup {NoPlayer},
        con : Con \cup {NoCon}]
NoJob == [op |-> "none", who |-> NoPlayer, other |-> NoPlayer, con |-> NoCon]

\* The object of a constellation: its score, its members, what each has given.
ConObject == [score : Nat, members : SUBSET Player, gave : [Player -> Nat]]
NewCon == [score |-> 0, members |-> {}, gave |-> [p \in Player |-> 0]]

Stages == {"idle", "self", "other", "name", "con", "members", "run", "save"}

\* A request that goes on to a constellation has one to go to.
TypeOK ==
    /\ flag \in [Player -> Con \cup {NoCon}]
    /\ guild \in [Player -> Con \cup {NoCon}]
    /\ contributed \in [Player -> Nat]
    /\ founded \in SUBSET Con
    /\ score \in [Con -> Nat]
    /\ job \in [Req -> Job]
    /\ pc \in [Req -> Stages]
    /\ flags \in [Req -> [Player -> Con \cup {NoCon}]]
    /\ con \in [Req -> ConObject]
    /\ given \in [Con -> Nat]
    /\ crossed \in BOOLEAN
    /\ budget \in 0..Budget
    /\ \A r \in Req : pc[r] \in {"name", "con", "members", "run"} => job[r].con \in Con

Init ==
    /\ flag = [p \in Player |-> NoCon]
    /\ guild = [p \in Player |-> NoCon]
    /\ contributed = [p \in Player |-> 0]
    /\ founded = {}
    /\ score = [c \in Con |-> 0]
    /\ job = [r \in Req |-> NoJob]
    /\ pc = [r \in Req |-> "idle"]
    /\ flags = [r \in Req |-> [p \in Player |-> NoCon]]
    /\ con = [r \in Req |-> NewCon]
    /\ given = [c \in Con |-> 0]
    /\ crossed = FALSE
    /\ budget = Budget

\* Ids nobody has drawn yet.
Undrawn == Con \ (founded \cup {job[r].con : r \in Req})

-----------------------------------------------------------------------------
Busy == {r \in Req : pc[r] # "idle"}

\* The players and the constellation that a request reads and writes back.
Players(j) == {j.who, j.other} \ {NoPlayer}
Cons(j) == (IF j.op = "hatch" THEN {flag[j.who]} ELSE {j.con}) \ {NoCon}

\* No request in flight touches the rows that this one does.
Apart(j) ==
    \A r \in Busy : /\ Players(job[r]) \cap Players(j) = {}
                    /\ Cons(job[r]) \cap Cons(j) = {}

Submit(r, j) ==
    /\ pc[r] = "idle"
    /\ budget > 0
    /\ job' = [job EXCEPT ![r] = j]
    /\ pc' = [pc EXCEPT ![r] = "self"]
    /\ crossed' = (crossed \/ ~Apart(j))
    /\ budget' = budget - 1
    /\ UNCHANGED <<tables, flags, con, given>>

Arrive(r) ==
    \E p \in Player :
        \/ \E c \in Undrawn :
             Submit(r, [NoJob EXCEPT !.op = "create", !.who = p, !.con = c])
        \/ \E c \in Con :
             Submit(r, [NoJob EXCEPT !.op = "join", !.who = p, !.con = c])
        \/ Submit(r, [NoJob EXCEPT !.op = "hatch", !.who = p])
        \/ \E q \in Player \ {p} :
             Submit(r, [NoJob EXCEPT !.op = "visit", !.who = p, !.other = q])

-----------------------------------------------------------------------------
(***************************************************************************)
(* The queries a request awaits, one after the other.                      *)
(***************************************************************************)
Advance(r, next) == pc' = [pc EXCEPT ![r] = next]

\* Mutant of the next: a player who is in a constellation may enter another.
mayAlwaysEnter(c) == TRUE

mayEnter(c) == c = NoCon

contributes(c) == c # NoCon

\* The flag that the handler finds decides how it goes on: nobody creates or
\* joins while in a constellation, and a hatch contributes to the player's own.
ReadSelf(r) ==
    LET p == job[r].who
        c == flag[p]
    IN  /\ pc[r] = "self"
        /\ flags' = [flags EXCEPT ![r][p] = c]
        /\ \/ /\ job[r].op \in {"create", "join"} /\ mayEnter(c)
              /\ Advance(r, IF job[r].op = "create" THEN "name" ELSE "con")
              /\ UNCHANGED job
           \/ /\ job[r].op = "hatch"
              /\ Advance(r, IF contributes(c) THEN "con" ELSE "save")
              /\ job' = [job EXCEPT ![r].con = c]
           \/ /\ job[r].op = "visit"
              /\ Advance(r, "other")
              /\ UNCHANGED job
        /\ UNCHANGED <<tables, con, given, crossed, budget>>

ReadOther(r) ==
    /\ pc[r] = "other"
    /\ flags' = [flags EXCEPT ![r][job[r].other] = flag[job[r].other]]
    /\ Advance(r, "save")
    /\ UNCHANGED <<tables, job, con, given, crossed, budget>>

nameTaken(c) == \E d \in founded : nameOf[d] = nameOf[c]

ReadName(r) ==
    /\ pc[r] = "name"
    /\ ~nameTaken(job[r].con)
    /\ Advance(r, "run")
    /\ UNCHANGED <<tables, job, flags, con, given, crossed, budget>>

ReadCon(r) ==
    /\ pc[r] = "con"
    /\ job[r].con \in founded
    /\ con' = [con EXCEPT ![r].score = score[job[r].con]]
    /\ Advance(r, "members")
    /\ UNCHANGED <<tables, job, flags, given, crossed, budget>>

Members(c) == {p \in Player : guild[p] = c}

ReadMembers(r) ==
    /\ pc[r] = "members"
    /\ con' = [con EXCEPT
                 ![r].members = Members(job[r].con),
                 ![r].gave = [p \in Player |->
                    IF guild[p] = job[r].con THEN contributed[p] ELSE 0]]
    /\ Advance(r, "run")
    /\ UNCHANGED <<tables, job, flags, given, crossed, budget>>

-----------------------------------------------------------------------------
(***************************************************************************)
(* The handlers, on the copies.                                            *)
(***************************************************************************)
addMember(c, p) == [c EXCEPT !.members = @ \cup {p}, !.gave[p] = 0]

\* Mutant of the next: one too many is admitted.
hasRoomForOneMore(c) == Cardinality(c.members) <= Full

hasRoom(c) == Cardinality(c.members) < Full

HandleCreate(r) ==
    /\ pc[r] = "run" /\ job[r].op = "create"
    /\ con' = [con EXCEPT ![r] = addMember(NewCon, job[r].who)]
    /\ flags' = [flags EXCEPT ![r][job[r].who] = job[r].con]
    /\ Advance(r, "save")
    /\ UNCHANGED <<tables, job, given, crossed, budget>>

HandleJoin(r) ==
    /\ pc[r] = "run" /\ job[r].op = "join"
    /\ hasRoom(con[r])
    /\ con' = [con EXCEPT ![r] = addMember(con[r], job[r].who)]
    /\ flags' = [flags EXCEPT ![r][job[r].who] = job[r].con]
    /\ Advance(r, "save")
    /\ UNCHANGED <<tables, job, given, crossed, budget>>

\* Mutants of the next: the player's own share is forgotten; the score counts
\* the hatch twice.
creditedShareless(c, p) == [c EXCEPT !.score = @ + Amount]

creditedTwice(c, p) ==
    [c EXCEPT !.score = @ + 2 * Amount,
              !.gave[p] = IF p \in c.members THEN @ + Amount ELSE @]

\* The score grows even when the player is not among the members.
credited(c, p) ==
    [c EXCEPT !.score = @ + Amount,
              !.gave[p] = IF p \in c.members THEN @ + Amount ELSE @]

HandleHatch(r) ==
    /\ pc[r] = "run" /\ job[r].op = "hatch"
    /\ con' = [con EXCEPT ![r] = credited(con[r], job[r].who)]
    /\ Advance(r, "save")
    /\ UNCHANGED <<tables, job, flags, given, crossed, budget>>

-----------------------------------------------------------------------------
End(r) ==
    /\ Advance(r, "idle")
    /\ job' = [job EXCEPT ![r] = NoJob]
    /\ flags' = [flags EXCEPT ![r] = [p \in Player |-> NoCon]]
    /\ con' = [con EXCEPT ![r] = NewCon]

Drop(r) == End(r) /\ UNCHANGED <<tables, given, crossed, budget>>

\* IN_GUILD, NAME_TAKEN, NOT_FOUND, GUILD_FULL.
Reject(r) ==
    /\ \/ /\ pc[r] = "self" /\ job[r].op \in {"create", "join"}
          /\ ~mayEnter(flag[job[r].who])
       \/ pc[r] = "name" /\ nameTaken(job[r].con)
       \/ pc[r] = "con" /\ job[r].con \notin founded
       \/ pc[r] = "run" /\ job[r].op = "join" /\ ~hasRoom(con[r])
    /\ Drop(r)

Fail(r) == pc[r] # "idle" /\ Drop(r)

\* Mutant of the next: only the actor's row is inserted again.
savedActor(r, p) ==
    IF p = job[r].who /\ p \in con[r].members THEN job[r].con
    ELSE IF guild[p] = job[r].con THEN NoCon ELSE guild[p]

\* Whose row a player's is after DELETE and INSERT ... ON CONFLICT (player_id).
savedMember(r, p) ==
    IF p \in con[r].members THEN job[r].con
    ELSE IF guild[p] = job[r].con THEN NoCon ELSE guild[p]

SaveFlags(r) ==
    flag' = [p \in Player |->
               IF p \in Players(job[r]) THEN flags[r][p] ELSE flag[p]]

\* Mutant of the next: the index on the names is not unique.
storableAlways(c) == TRUE

\* constellations.name is UNIQUE.
storable(c) == ~nameTaken(c)

\* A unit of work that holds a constellation.
SaveCon(r) ==
    /\ pc[r] = "save" /\ job[r].con # NoCon
    /\ job[r].op = "create" => storable(job[r].con)
    /\ SaveFlags(r)
    /\ founded' = founded \cup {job[r].con}
    /\ score' = [score EXCEPT ![job[r].con] = con[r].score]
    /\ guild' = [p \in Player |-> savedMember(r, p)]
    /\ contributed' = [p \in Player |->
         IF p \in con[r].members THEN con[r].gave[p]
         ELSE IF guild[p] = job[r].con THEN 0 ELSE contributed[p]]
    /\ given' = [given EXCEPT ![job[r].con] =
                    @ + IF job[r].op = "hatch" THEN Amount ELSE 0]
    /\ End(r)
    /\ UNCHANGED <<crossed, budget>>

\* A unit of work that holds players only.
SavePlayers(r) ==
    /\ pc[r] = "save" /\ job[r].con = NoCon
    /\ SaveFlags(r)
    /\ End(r)
    /\ UNCHANGED <<guild, contributed, founded, score, given, crossed, budget>>

\* The insert of a name that was taken since it was looked up fails.
DuplicateName(r) ==
    /\ pc[r] = "save" /\ job[r].op = "create" /\ ~storable(job[r].con)
    /\ Drop(r)

Next ==
    \E r \in Req :
        \/ Arrive(r)
        \/ ReadSelf(r) \/ ReadOther(r) \/ ReadName(r) \/ ReadCon(r)
        \/ ReadMembers(r)
        \/ HandleCreate(r) \/ HandleJoin(r) \/ HandleHatch(r)
        \/ SaveCon(r) \/ SavePlayers(r) \/ DuplicateName(r)
        \/ Reject(r) \/ Fail(r)

Spec == Init /\ [][Next]_vars

-----------------------------------------------------------------------------
(***************************************************************************)
(* What holds whatever clients send at the same time.                      *)
(***************************************************************************)

\* A constellation never has more than 30 members (GUILD_FULL), though two
\* players may join at once from copies that each have one place left.
NeverOverfull == \A c \in Con : Cardinality(Members(c)) <= Full

\* Two constellations have different names, though two players may both have
\* found a name free.
NamesUnique == \A c, d \in founded : nameOf[c] = nameOf[d] => c = d

\* A score may miss contributions that were lost, it never counts one twice.
NeverOvercounted == \A c \in Con : score[c] <= given[c]

(***************************************************************************)
(* What holds as long as requests in flight touch different rows.          *)
(***************************************************************************)

\* The two records of membership agree: who believes to be in a constellation
\* has a member row in it.
MembershipAgrees == ~crossed => \A p \in Player : flag[p] = guild[p]

\* There is no way out of a constellation: a member row stays where it is.
MembersStay ==
    [][~crossed => \A p \in Player : guild[p] # NoCon => guild'[p] = guild[p]]_vars

Share(p) == contributed[p]

\* A score is what its members gave, and every committed hatch is in it.
ScoreAddsUp ==
    ~crossed => \A c \in Con : /\ score[c] = MapThenSumSet(Share, Members(c))
                               /\ score[c] = given[c]

=============================================================================
