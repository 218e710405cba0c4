----------------------------- MODULE EdgeProofs -----------------------------
(***************************************************************************)
(* Theorems about Realtime and RateLimit, what a client meets before any   *)
(* handler of the game, for every value of their constants.                *)
(***************************************************************************)
EXTENDS Realtime, RateLimit, GuildProofs

-----------------------------------------------------------------------------
(***************************************************************************)
(* What the steps of requests do to the joins in flight.                   *)
(***************************************************************************)

\* The step of another request leaves a join alone.
Stands(q) ==
    /\ Entering(q)' <=> Entering(q)
    /\ Entering(q) => job'[q] = job[q] /\ con'[q] = con[q]

\* A request that enters a constellation has put its player in its copy.
Entered == \A r \in Req : Entering(r) => job[r].who \in con[r].members

\* The step of one request is seen in what that request has only.
LEMMA OthersStand ==
    ASSUME TypeInv, NEW r \in Req, Enter(r) \/ Commit(r) \/ Abort(r) \/ Elsewhere(r)
    PROVE  \A q \in Req : q # r => Stands(q)
<1> USE DEF TypeInv, TypeOK, Stands, Entering, Advance
<1>1. ASSUME Enter(r) PROVE \A q \in Req : q # r => Stands(q)
  BY <1>1 DEF Enter, HandleCreate, HandleJoin
<1>2. ASSUME End(r) PROVE \A q \in Req : q # r => Stands(q)
  BY <1>2 DEF End
<1>3. ASSUME Commit(r) \/ Abort(r) \/ SavePlayers(r) \/ Reject(r)
      PROVE  \A q \in Req : q # r => Stands(q)
  BY <1>2, <1>3 DEF Commit, Abort, SaveCon, Fail, DuplicateName, SavePlayers, Reject, Drop
<1>4. ASSUME Arrive(r) PROVE \A q \in Req : q # r => Stands(q)
  <2>1. PICK j : Submit(r, j)
    BY <1>4 DEF Arrive
  <2> QED BY <2>1 DEF Submit
<1>5. ASSUME ReadSelf(r) \/ ReadOther(r) \/ ReadName(r) \/ ReadCon(r) \/ ReadMembers(r)
             \/ HandleHatch(r)
      PROVE  \A q \in Req : q # r => Stands(q)
  BY <1>5 DEF ReadSelf, ReadOther, ReadName, ReadCon, ReadMembers, HandleHatch
<1> QED BY <1>1, <1>3, <1>4, <1>5 DEF Elsewhere

\* Only Enter begins a join, for a player whose sockets it moves.
LEMMA EnterBegins ==
    ASSUME TypeInv, NEW r \in Req, Enter(r)
    PROVE  /\ job[r].who \in Player /\ job[r].con \in Con
           /\ ~Entering(r) /\ Entering(r)' /\ job' = job /\ guild' = guild
           /\ job[r].who \in con'[r].members
           /\ SetRoom(job[r].who, job[r].con)
<1> USE DEF TypeInv, TypeOK, WellFormed
<1>1. /\ pc[r] = "run" /\ job[r].op \in {"create", "join"}
      /\ pc' = [pc EXCEPT ![r] = "save"]
      /\ UNCHANGED <<tables, job>>
      /\ SetRoom(job[r].who, job[r].con)
  BY DEF Enter, HandleCreate, HandleJoin, Advance
<1>2. job[r].who \in con'[r].members
  <2>1. \/ con' = [con EXCEPT ![r] = addMember(NewCon, job[r].who)]
        \/ con' = [con EXCEPT ![r] = addMember(con[r], job[r].who)]
    BY DEF Enter, HandleCreate, HandleJoin
  <2>2. \A c \in ConObject : job[r].who \in addMember(c, job[r].who).members
    BY DEF addMember, ConObject
  <2> QED BY <2>1, <2>2, NewConType
<1>3. ~Entering(r) /\ Entering(r)'
  BY <1>1 DEF Entering
<1> QED BY <1>1, <1>2, <1>3 DEF tables

\* Only a commit or a failure ends one, and only a commit writes rows.
LEMMA CommitEnds ==
    ASSUME TypeInv, Entered, NEW r \in Req, Commit(r)
    PROVE  /\ ~Entering(r)'
           /\ Entering(r) => job[r].who \in Player /\ guild'[job[r].who] = job[r].con
BY DEF Commit, SaveCon, End, Advance, savedMember, Entering, Entered, TypeInv, TypeOK, WellFormed

LEMMA AbortEnds ==
    ASSUME TypeInv, NEW r \in Req, Abort(r)
    PROVE  /\ ~Entering(r)' /\ guild' = guild
           /\ Entering(r) => "commit" \in mishaps'
BY DEF Abort, Fail, DuplicateName, Drop, End, Advance, Entering, TypeInv, TypeOK, tables

LEMMA ElsewhereKeeps ==
    ASSUME TypeInv, NEW r \in Req, Elsewhere(r)
    PROVE  /\ \A q \in Req : Stands(q)
           /\ guild' = guild
<1> USE DEF TypeInv, TypeOK, WellFormed, Entering, Advance
<1>1. ~Entering(r) /\ ~Entering(r)' /\ guild' = guild
  <2>1. CASE Arrive(r)
    <3>1. PICK j : Submit(r, j)
      BY <2>1 DEF Arrive
    <3> QED BY <3>1 DEF Submit, tables
  <2>2. CASE ReadSelf(r)
    <3>1. CASE job[r].op \in {"create", "join"}
      <4>1. pc[r] = "self" /\ pc'[r] \in {"name", "con"} /\ guild' = guild
        BY <2>2, <3>1 DEF ReadSelf, tables
      <4> QED BY <4>1
    <3>2. CASE job[r].op = "hatch"
      <4>1. pc[r] = "self" /\ job'[r].op = "hatch" /\ guild' = guild
        BY <2>2, <3>2 DEF ReadSelf, Job, tables
      <4> QED BY <4>1
    <3>3. CASE job[r].op = "visit"
      <4>1. pc[r] = "self" /\ pc'[r] = "other" /\ guild' = guild
        BY <2>2, <3>3 DEF ReadSelf, tables
      <4> QED BY <4>1
    <3> QED BY <2>2, <3>1, <3>2, <3>3 DEF ReadSelf
  <2>3. CASE ReadOther(r)
    BY <2>3 DEF ReadOther, tables
  <2>4. CASE ReadName(r) \/ ReadCon(r) \/ ReadMembers(r)
    BY <2>4 DEF ReadName, ReadCon, ReadMembers, tables
  <2>5. CASE HandleHatch(r)
    BY <2>5 DEF HandleHatch, tables
  <2>6. CASE SavePlayers(r)
    BY <2>6, GuildAssumption DEF SavePlayers, End, tables
  <2>7. CASE Reject(r)
    BY <2>7 DEF Reject, Drop, End, tables
  <2> QED BY <2>1, <2>2, <2>3, <2>4, <2>5, <2>6, <2>7 DEF Elsewhere
<1>2. Stands(r)
  BY <1>1 DEF Stands
<1> QED BY <1>1, <1>2, OthersStand

\* With the hub, requests go on as Guild says.
LEMMA RequestsAreGuild == [RealtimeNext]_realtimeVars => [Next]_vars
BY DEF RealtimeNext, realtimeVars, Enter, Commit, Abort, Elsewhere, Next

LEMMA EnteredStep ==
    ASSUME TypeInv, Entered, [RealtimeNext]_realtimeVars
    PROVE  Entered'
<1>1. ASSUME UNCHANGED vars PROVE Entered'
  BY <1>1 DEF vars, Entered, Entering
<1>2. ASSUME NEW r \in Req, Enter(r) PROVE Entered'
  <2>1. ASSUME NEW q \in Req, q # r, Entering(q)' PROVE job'[q].who \in con'[q].members
    BY <1>2, <2>1, OthersStand DEF Stands, Entered
  <2> QED BY <1>2, <2>1, EnterBegins DEF Entered
<1>3. ASSUME NEW r \in Req, Commit(r) \/ Abort(r) PROVE Entered'
  <2>1. ~Entering(r)'
    BY <1>3, CommitEnds, AbortEnds
  <2> QED BY <1>3, <2>1, OthersStand DEF Stands, Entered
<1>4. ASSUME NEW r \in Req, Elsewhere(r) PROVE Entered'
  BY <1>4, ElsewhereKeeps DEF Stands, Entered
<1> QED BY <1>1, <1>2, <1>3, <1>4 DEF RealtimeNext, realtimeVars

-----------------------------------------------------------------------------
(***************************************************************************)
(* Type correctness.                                                       *)
(***************************************************************************)

\* The types of everything but the counts.
Shape ==
    /\ TypeInv
    /\ stage \in [Sock -> Stage]
    /\ open \subseteq Sock
    /\ sockets \subseteq Sock
    /\ byPlayer \in [Player -> SUBSET Sock]
    /\ cid \in [Sock -> Con \cup {NoCon}]
    /\ rooms \in [Con -> SUBSET Sock]
    /\ answer \in [Sock -> Con \cup {NoCon}]

USE DEF Stage, hub, sides

LEMMA ShapeInit == RealtimeInit => Shape
BY TypeInit, RealtimeAssumption DEF RealtimeInit, Shape

\* joinRoom keeps the types of rooms and cid.
LEMMA JoinRoomType ==
    ASSUME Shape, NEW moved \in SUBSET Sock, NEW c \in Con, joinRoom(moved, c)
    PROVE  /\ rooms' \in [Con -> SUBSET Sock]
           /\ cid' \in [Sock -> Con \cup {NoCon}]
BY DEF Shape, joinRoom, roomsAfter

LEMMA EnterMoves ==
    ASSUME Shape, NEW r \in Req, Enter(r)
    PROVE  /\ joinRoom(byPlayer[job[r].who], job[r].con)
           /\ byPlayer[job[r].who] \in SUBSET Sock
           /\ job[r].who \in Player /\ job[r].con \in Con
           /\ UNCHANGED <<stage, open, sockets, byPlayer, answer, seen, job, guild>>
BY EnterBegins DEF Shape, SetRoom, connections

\* The steps of requests that do not touch the hub.
LEMMA HubStays ==
    ASSUME NEW r \in Req, Commit(r) \/ Abort(r) \/ Elsewhere(r)
    PROVE  UNCHANGED sides
BY DEF Commit, Abort, Elsewhere

LEMMA ShapeStep == Shape /\ [RealtimeNext]_realtimeVars => Shape'
<1> SUFFICES ASSUME Shape, [RealtimeNext]_realtimeVars PROVE Shape'
  OBVIOUS
<1>t. TypeInv'
  BY RequestsAreGuild, TypeStep DEF Shape
<1>r. ASSUME UNCHANGED sides PROVE Shape'
  BY <1>t, <1>r DEF Shape
<1> USE RealtimeAssumption
<1>1. ASSUME NEW s \in Sock, Connect(s) PROVE Shape'
  BY <1>t, <1>1 DEF Connect, Shape
<1>2. ASSUME NEW s \in Sock, Lookup(s) PROVE Shape'
  <2>1. guild[Owner[s]] \in Con \cup {NoCon}
    BY DEF Shape, TypeInv, TypeOK
  <2> QED BY <1>t, <1>2, <2>1 DEF Lookup, playerPublic, Shape
<1>3. ASSUME NEW s \in Sock, Welcome(s) PROVE Shape'
  <2>1. CASE answer[s] = NoCon
    BY <1>t, <1>3, <2>1 DEF Welcome, Shape
  <2>2. CASE answer[s] # NoCon
    <3>1. answer[s] \in Con /\ joinRoom({s}, answer[s])
      BY <1>3, <2>2 DEF Welcome, Shape
    <3>2. rooms' \in [Con -> SUBSET Sock] /\ cid' \in [Sock -> Con \cup {NoCon}]
      BY <3>1, JoinRoomType
    <3> QED BY <1>t, <1>3, <3>2 DEF Welcome, Shape
  <2> QED BY <2>1, <2>2
<1>4. ASSUME NEW s \in Sock, Close(s) PROVE Shape'
  BY <1>t, <1>4 DEF Close, left, untracked, Shape
<1>5. ASSUME NEW s \in Sock, HangUp(s) PROVE Shape'
  BY <1>t, <1>5 DEF HangUp, Shape
<1>6. ASSUME NEW r \in Req, Enter(r) PROVE Shape'
  BY <1>t, <1>6, EnterMoves, JoinRoomType DEF Shape
<1>7. ASSUME NEW r \in Req, Commit(r) \/ Abort(r) \/ Elsewhere(r) PROVE Shape'
  BY <1>r, <1>7, HubStays
<1>8. CASE UNCHANGED realtimeVars
  BY <1>r, <1>8 DEF realtimeVars
<1> QED BY <1>1, <1>2, <1>3, <1>4, <1>5, <1>6, <1>7, <1>8 DEF RealtimeNext

CountType ==
    /\ seen \in [Sock -> 0..Cardinality(Sock)]
    /\ mishaps \subseteq Mishap

LEMMA PresenceType ==
    ASSUME Shape, CountType, NEW tracked \in SUBSET Sock, presence(tracked)
    PROVE  seen' \in [Sock -> 0..Cardinality(Sock)]
<1>1. /\ Cardinality(tracked) \in Nat /\ Cardinality(Sock) \in Nat
      /\ Cardinality(tracked) <= Cardinality(Sock)
  BY RealtimeAssumption, FS_Subset, FS_CardinalityType
<1>2. /\ Cardinality(tracked) \in 0..Cardinality(Sock) /\ 0 \in 0..Cardinality(Sock)
      /\ \A s \in Sock : seen[s] \in 0..Cardinality(Sock)
  BY <1>1 DEF CountType
<1> QED BY <1>2 DEF presence

LEMMA CountTypeStep == Shape /\ CountType /\ [RealtimeNext]_realtimeVars => CountType'
<1> SUFFICES ASSUME Shape, CountType, [RealtimeNext]_realtimeVars PROVE CountType'
  OBVIOUS
<1>m. mishaps' \subseteq Mishap
  BY DEF CountType, Mishap, RealtimeNext, realtimeVars, Connect, Lookup, Welcome, Close, HangUp,
         Enter, SetRoom, Commit, Abort, Elsewhere
<1>1. ASSUME seen' = seen PROVE CountType'
  BY <1>1, <1>m DEF CountType
<1>2. ASSUME NEW s \in Sock, Connect(s) \/ Lookup(s) PROVE CountType'
  BY <1>1, <1>2 DEF Connect, Lookup
<1>3. ASSUME NEW s \in Sock, Welcome(s) \/ Close(s) PROVE CountType'
  <2>1. \E tracked \in SUBSET Sock : presence(tracked)
    BY <1>3 DEF Welcome, Close, untracked, Shape
  <2> QED BY <1>m, <2>1, PresenceType DEF CountType
<1>4. ASSUME NEW s \in Sock, HangUp(s) PROVE CountType'
  <2>1. Cardinality(Sock) \in Nat
    BY RealtimeAssumption, FS_CardinalityType
  <2> QED BY <1>m, <1>4, <2>1 DEF HangUp, CountType
<1>5. ASSUME NEW r \in Req, Enter(r) \/ Commit(r) \/ Abort(r) \/ Elsewhere(r) PROVE CountType'
  BY <1>1, <1>5, EnterMoves, HubStays
<1>6. CASE UNCHANGED realtimeVars
  BY <1>1, <1>6 DEF realtimeVars
<1> QED BY <1>2, <1>3, <1>4, <1>5, <1>6 DEF RealtimeNext

\* Hub, requests and member rows keep their types.
THEOREM RealtimeTypeCorrect == RealtimeSpec => []RealtimeTypeOK
<1>1. RealtimeInit => CountType
  <2>1. Cardinality(Sock) \in Nat
    BY RealtimeAssumption, FS_CardinalityType
  <2> QED BY <2>1 DEF RealtimeInit, CountType
<1>2. Shape /\ CountType => RealtimeTypeOK
  BY DEF Shape, TypeInv, CountType, RealtimeTypeOK
<1> QED BY ShapeInit, ShapeStep, CountTypeStep, <1>1, <1>2, PTL DEF RealtimeSpec

-----------------------------------------------------------------------------
(***************************************************************************)
(* Rooms and presence agree, whatever fails.                               *)
(***************************************************************************)

\* A socket is tracked for its owner only, and not before it connects.
Tracked ==
    /\ \A p \in Player : \A s \in byPlayer[p] : Owner[s] = p /\ stage[s] # "new"

TidyInv == Shape /\ Tracked /\ NobodyTwice

\* After joinRoom, the sockets moved are in the room c and no other, and the
\* others are where they were.
LEMMA JoinRoomMoves ==
    ASSUME TidyInv, NEW moved \in SUBSET Sock, NEW c \in Con, joinRoom(moved, c),
           NEW s \in Sock, NEW d \in Con, s \in rooms'[d]
    PROVE  d = cid'[s] /\ (s \notin moved => s \in rooms[d])
BY DEF TidyInv, Shape, NobodyTwice, joinRoom, roomsAfter

LEMMA TidyInit == RealtimeInit => TidyInv
BY ShapeInit DEF RealtimeInit, TidyInv, Tracked, NobodyTwice

LEMMA TidyStep == TidyInv /\ [RealtimeNext]_realtimeVars => TidyInv'
<1> SUFFICES ASSUME TidyInv, [RealtimeNext]_realtimeVars PROVE TidyInv'
  OBVIOUS
<1> USE RealtimeAssumption
<1>s. Shape'
  BY ShapeStep DEF TidyInv
<1>1. ASSUME NEW s \in Sock, Connect(s) PROVE TidyInv'
  <2>1. Tracked'
    BY <1>1 DEF Connect, TidyInv, Shape, Tracked
  <2>2. NobodyTwice'
    BY <1>1 DEF Connect, TidyInv, Shape, Tracked, NobodyTwice
  <2> QED BY <1>s, <2>1, <2>2 DEF TidyInv
<1>2. ASSUME NEW s \in Sock, Lookup(s) PROVE TidyInv'
  BY <1>s, <1>2 DEF Lookup, TidyInv, Shape, Tracked, NobodyTwice
<1>3. ASSUME NEW s \in Sock, Welcome(s) PROVE TidyInv'
  <2>1. Tracked'
    BY <1>3 DEF Welcome, TidyInv, Shape, Tracked
  <2>2. \A t \in Sock : stage'[t] = "gone" => t # s /\ stage[t] = "gone"
    BY <1>3 DEF Welcome, TidyInv, Shape
  <2>3. UNCHANGED <<sockets, byPlayer>>
    BY <1>3 DEF Welcome
  <2>4. CASE answer[s] = NoCon
    <3>1. UNCHANGED <<cid, rooms>>
      BY <1>3, <2>4 DEF Welcome
    <3> QED BY <1>s, <2>1, <2>2, <2>3, <3>1 DEF TidyInv, NobodyTwice
  <2>5. CASE answer[s] # NoCon
    <3>1. answer[s] \in Con /\ joinRoom({s}, answer[s])
      BY <1>3, <2>5 DEF Welcome, TidyInv, Shape
    <3>2. \A t \in Sock, c \in Con : t \in rooms'[c] => c = cid'[t] /\ (t # s => t \in rooms[c])
      <4> SUFFICES ASSUME NEW t \in Sock, NEW c \in Con, t \in rooms'[c]
                   PROVE  c = cid'[t] /\ (t # s => t \in rooms[c])
        OBVIOUS
      <4>1. {s} \in SUBSET Sock
        OBVIOUS
      <4> QED BY <3>1, <4>1, JoinRoomMoves
    <3>3. NobodyTwice'
      BY <2>2, <2>3, <3>2 DEF NobodyTwice, TidyInv
    <3> QED BY <1>s, <2>1, <3>3 DEF TidyInv
  <2> QED BY <2>4, <2>5
<1>4. ASSUME NEW s \in Sock, Close(s) PROVE TidyInv'
  <2>1. Tracked'
    BY <1>4 DEF Close, TidyInv, Shape, Tracked
  <2>2. \A c \in Con : rooms'[c] = rooms[c] \ {s}
    BY <1>4 DEF Close, left, TidyInv, Shape, NobodyTwice
  <2>3. \A p \in Player : byPlayer'[p] = byPlayer[p] \ {s}
    BY <1>4 DEF Close, TidyInv, Shape, Tracked
  <2>4. sockets' = sockets \ {s} /\ cid' = cid
    BY <1>4 DEF Close, untracked
  <2>5. \A t \in Sock : stage'[t] = "gone" => t = s \/ stage[t] = "gone"
    BY <1>4 DEF Close, TidyInv, Shape
  <2>6. NobodyTwice'
    BY <2>2, <2>3, <2>4, <2>5 DEF TidyInv, NobodyTwice
  <2> QED BY <1>s, <2>1, <2>6 DEF TidyInv
<1>5. ASSUME NEW s \in Sock, HangUp(s) PROVE TidyInv'
  BY <1>s, <1>5 DEF HangUp, TidyInv, Tracked, NobodyTwice
<1>6. ASSUME NEW r \in Req, Enter(r) PROVE TidyInv'
  <2>1. /\ joinRoom(byPlayer[job[r].who], job[r].con)
        /\ byPlayer[job[r].who] \in SUBSET Sock /\ job[r].con \in Con
        /\ UNCHANGED <<stage, sockets, byPlayer>>
    BY <1>6, EnterMoves DEF TidyInv
  <2>2. Tracked'
    BY <2>1 DEF TidyInv, Tracked
  <2>3. NobodyTwice'
    <3>1. \A t \in Sock, c \in Con : t \in rooms'[c] =>
              c = cid'[t] /\ (t \notin byPlayer[job[r].who] => t \in rooms[c])
      <4> SUFFICES ASSUME NEW t \in Sock, NEW c \in Con, t \in rooms'[c]
                   PROVE  c = cid'[t] /\ (t \notin byPlayer[job[r].who] => t \in rooms[c])
        OBVIOUS
      <4> QED BY <2>1, JoinRoomMoves
    <3>2. \A t \in byPlayer[job[r].who] : t \in Sock /\ stage[t] # "gone"
      BY <1>6, EnterMoves DEF TidyInv, NobodyTwice
    <3> QED BY <2>1, <3>1, <3>2 DEF NobodyTwice, TidyInv
  <2> QED BY <1>s, <2>2, <2>3 DEF TidyInv
<1>7. ASSUME NEW r \in Req, Commit(r) \/ Abort(r) \/ Elsewhere(r) PROVE TidyInv'
  BY <1>s, <1>7, HubStays DEF TidyInv, Tracked, NobodyTwice
<1>8. CASE UNCHANGED realtimeVars
  BY <1>s, <1>8 DEF realtimeVars, TidyInv, Tracked, NobodyTwice
<1> QED BY <1>1, <1>2, <1>3, <1>4, <1>5, <1>6, <1>7, <1>8 DEF RealtimeNext

\* Whatever overlaps, hangs up or fails, a socket is in one room at most, and a
\* socket whose close handler ran is nowhere in the hub.
THEOREM NobodyStays == RealtimeSpec => []NobodyTwice
<1>1. TidyInv => NobodyTwice
  BY DEF TidyInv
<1> QED BY TidyInit, TidyStep, <1>1, PTL DEF RealtimeSpec

-----------------------------------------------------------------------------
(***************************************************************************)
(* Everyone is told how many are online.                                   *)
(***************************************************************************)

\* The upgrade of the socket is under way or done, and its close handler has
\* not run.
Live(s) == stage[s] \in {"lookup", "answered", "ready"}

\* The hub tracks the live sockets, which those that are up are among; and while
\* nobody is looked up, who is up was told the size of the hub.
Told ==
    /\ sockets = {s \in Sock : Live(s)}
    /\ open \subseteq sockets
    /\ (\A s \in Sock : stage[s] \notin {"lookup", "answered"}) =>
           \A s \in open : seen[s] = Cardinality(sockets)

ToldInv == Shape /\ Told

LEMMA ToldInit == RealtimeInit => ToldInv
BY ShapeInit DEF RealtimeInit, ToldInv, Told, Live

\* Whom presence reaches.
LEMMA EveryoneIsSent ==
    ASSUME NEW tracked, presence(tracked), open' \subseteq tracked, tracked \subseteq Sock
    PROVE  \A s \in open' : seen'[s] = Cardinality(tracked)
BY DEF presence

\* A connection or a lookup leaves somebody to be welcomed; a welcome and a
\* closing send everyone the size of the hub; nothing else changes it.
LEMMA ToldStep == ToldInv /\ [RealtimeNext]_realtimeVars => ToldInv'
<1> SUFFICES ASSUME ToldInv, [RealtimeNext]_realtimeVars PROVE ToldInv'
  OBVIOUS
<1> USE RealtimeAssumption
<1>s. Shape /\ Shape' /\ Told
  BY ShapeStep DEF ToldInv
<1>1. ASSUME NEW s \in Sock, Connect(s) PROVE Told'
  <2>1. stage'[s] = "lookup" /\ \A t \in Sock : t # s => stage'[t] = stage[t]
    BY <1>1, <1>s DEF Connect, Shape
  <2>2. open' = open \cup {s} /\ sockets' = sockets \cup {s}
    BY <1>1 DEF Connect
  <2> QED BY <1>s, <2>1, <2>2 DEF Told, Live
<1>2. ASSUME NEW s \in Sock, Lookup(s) PROVE Told'
  <2>1. /\ stage[s] = "lookup" /\ stage'[s] = "answered"
        /\ \A t \in Sock : t # s => stage'[t] = stage[t]
        /\ UNCHANGED <<open, sockets>>
    BY <1>2, <1>s DEF Lookup, Shape
  <2> QED BY <1>s, <2>1 DEF Told, Live
<1>3. ASSUME NEW s \in Sock, Welcome(s) PROVE Told'
  <2>1. /\ stage[s] = "answered" /\ stage'[s] = "ready"
        /\ \A t \in Sock : t # s => stage'[t] = stage[t]
        /\ UNCHANGED <<open, sockets>>
    BY <1>3, <1>s DEF Welcome, Shape
  <2>2. \A t \in open' : seen'[t] = Cardinality(sockets')
    <3>1. presence(sockets)
      BY <1>3 DEF Welcome
    <3> QED BY <1>s, <2>1, <3>1, EveryoneIsSent DEF Told, Shape
  <2> QED BY <1>s, <2>1, <2>2 DEF Told, Live
<1>4. ASSUME NEW s \in Sock, Close(s) PROVE Told'
  <2>1. /\ stage'[s] = "gone"
        /\ \A t \in Sock : t # s => stage'[t] = stage[t]
        /\ open' = open \ {s} /\ sockets' = sockets \ {s}
    BY <1>4, <1>s DEF Close, untracked, Shape
  <2>2. \A t \in open' : seen'[t] = Cardinality(sockets')
    <3>1. presence(sockets')
      BY <1>4 DEF Close
    <3>2. open' \subseteq sockets' /\ sockets' \subseteq Sock
      BY <1>s, <2>1 DEF Told, Shape
    <3> QED BY <3>1, <3>2, EveryoneIsSent
  <2> QED BY <1>s, <2>1, <2>2 DEF Told, Live
<1>5. ASSUME NEW s \in Sock, HangUp(s) PROVE Told'
  <2>1. /\ stage[s] \in {"lookup", "answered"}
        /\ open' = open \ {s}
        /\ UNCHANGED <<stage, sockets>>
    BY <1>5 DEF HangUp
  <2> QED BY <1>s, <2>1 DEF Told, Live
<1>6. ASSUME UNCHANGED <<stage, open, sockets, seen>> PROVE Told'
  BY <1>s, <1>6 DEF Told, Live
<1>7. ASSUME NEW r \in Req, Enter(r) PROVE Told'
  BY <1>s, <1>6, <1>7, EnterMoves
<1>8. ASSUME NEW r \in Req, Commit(r) \/ Abort(r) \/ Elsewhere(r) PROVE Told'
  BY <1>6, <1>8, HubStays
<1>9. CASE UNCHANGED realtimeVars
  BY <1>s, <1>6, <1>9 DEF realtimeVars, ToldInv
<1> QED
  BY <1>s, <1>1, <1>2, <1>3, <1>4, <1>5, <1>7, <1>8, <1>9 DEF RealtimeNext, ToldInv

\* Who is tracked and not being looked up is up or has hung up.
LEMMA UpOrHungUp ==
    ASSUME ToldInv, \A s \in Sock : stage[s] \notin {"lookup", "answered"}
    PROVE  Cardinality(sockets) = Cardinality(open) + Cardinality(HungUp)
<1>1. sockets = open \cup HungUp /\ open \cap HungUp = {}
  BY DEF ToldInv, Told, Live, HungUp, Shape
<1>2. IsFiniteSet(open) /\ IsFiniteSet(HungUp)
  BY RealtimeAssumption, FS_Subset DEF ToldInv, Shape, HungUp
<1>3. Cardinality({}) = 0 /\ Cardinality(open) \in Nat /\ Cardinality(HungUp) \in Nat
  BY <1>2, FS_EmptySet, FS_CardinalityType
<1>4. Cardinality(open \cup HungUp)
        = Cardinality(open) + Cardinality(HungUp) - Cardinality(open \cap HungUp)
  BY <1>2, FS_Union
<1>5. /\ Cardinality(sockets) = Cardinality(open \cup HungUp)
      /\ Cardinality(open \cap HungUp) = 0
  BY <1>1, <1>3
<1> QED BY <1>3, <1>4, <1>5

\* Whatever fails, overlaps or hangs up, once all are welcomed every client
\* knows the online count; those who hung up during their lookup are in it for
\* ever, and nobody else is.
THEOREM CountIsTold == RealtimeSpec => []PresenceTrue
<1>1. ToldInv => PresenceTrue
  BY UpOrHungUp DEF PresenceTrue, ToldInv, Told
<1> QED BY ToldInit, ToldStep, <1>1, PTL DEF RealtimeSpec

-----------------------------------------------------------------------------
(***************************************************************************)
(* Chat is for co-members, as long as no commit fails or overwrites the    *)
(* member rows of others.                                                  *)
(***************************************************************************)

\* What went wrong stays in the history.
LEMMA MishapsStay == [RealtimeNext]_realtimeVars => mishaps \subseteq mishaps'
BY DEF RealtimeNext, realtimeVars, Connect, Lookup, Welcome, Close, HangUp, Enter, SetRoom,
       Commit, Abort, Elsewhere

\* A commit that overwrites nothing writes the row of the one who joins.
LEMMA CleanCommit ==
    ASSUME TypeInv, Entered, NEW r \in Req, Commit(r), "overwrite" \notin mishaps'
    PROVE  /\ \A p \in Player :
                guild'[p] = IF Entering(r) /\ p = job[r].who THEN job[r].con ELSE guild[p]
           /\ Entering(r) => guild[job[r].who] \in {NoCon, job[r].con}
<1>1. \A p \in Player : guild'[p] = guild[p] \/ mayChange(r, p)
  BY DEF Commit
<1>2. Entering(r) => job[r].who \in Player /\ guild'[job[r].who] = job[r].con
  BY CommitEnds
<1> QED BY <1>1, <1>2 DEF mayChange

\* The steps of requests that keep every join in flight, or begin or end one.
LEMMA JoinsMove ==
    ASSUME TypeInv, NEW r \in Req
    PROVE  /\ Enter(r) => \A q \in Req : q # r => Stands(q)
           /\ Commit(r) => ~Entering(r)' /\ \A q \in Req : q # r => Stands(q)
           /\ Abort(r) /\ "commit" \notin mishaps' => \A q \in Req : Stands(q)
           /\ Elsewhere(r) => \A q \in Req : Stands(q)
<1>1. Commit(r) => ~Entering(r)'
  BY DEF Commit, SaveCon, End, Advance, Entering, TypeInv, TypeOK
<1>2. ASSUME Abort(r), "commit" \notin mishaps' PROVE Stands(r)
  BY <1>2, AbortEnds DEF Stands
<1> QED BY <1>1, <1>2, OthersStand, ElsewhereKeeps

\* What a lookup found still holds.
Current == \A s \in Sock : answer[s] \in {NoCon, guild[Owner[s]]}

LEMMA CurrentStep ==
    ASSUME TidyInv, Entered, Current, [RealtimeNext]_realtimeVars, "overwrite" \notin mishaps'
    PROVE  Current'
<1> USE RealtimeAssumption DEF TidyInv, Shape, Current
<1>1. ASSUME NEW s \in Sock, Connect(s) \/ Close(s) \/ HangUp(s) \/ Welcome(s), UNCHANGED vars
      PROVE  Current'
  BY <1>1 DEF Connect, Close, HangUp, Welcome, vars, tables
<1>2. ASSUME NEW s \in Sock, Lookup(s), UNCHANGED vars PROVE Current'
  BY <1>2 DEF Lookup, playerPublic, vars, tables
<1>3. ASSUME NEW r \in Req, Enter(r) PROVE Current'
  BY <1>3, EnterMoves
<1>4. ASSUME NEW r \in Req, Commit(r) PROVE Current'
  <2>1. answer' = answer
    BY <1>4 DEF Commit
  <2>2. \A p \in Player : guild'[p] = guild[p] \/ guild[p] = NoCon
    BY <1>4, CleanCommit
  <2> QED BY <2>1, <2>2
<1>5. ASSUME NEW r \in Req, Abort(r) \/ Elsewhere(r) PROVE Current'
  BY <1>5, AbortEnds, ElsewhereKeeps, HubStays
<1>6. CASE UNCHANGED realtimeVars
  BY <1>6 DEF realtimeVars, vars, tables
<1> QED BY <1>1, <1>2, <1>3, <1>4, <1>5, <1>6 DEF RealtimeNext

\* What is in room c belongs there.
Belongs(s, c) == c = guild[Owner[s]] \/ \E r \in Joins(Owner[s]) : job[r].con = c

\* It still does after a step that keeps the owner's row and joins.
LEMMA BelongsStill ==
    ASSUME TypeInv, NEW s \in Sock, NEW c \in Con, Belongs(s, c),
           guild'[Owner[s]] = guild[Owner[s]] \/ guild[Owner[s]] = NoCon,
           \A r \in Joins(Owner[s]) : Stands(r) \/ guild'[Owner[s]] = job[r].con
    PROVE  Belongs(s, c)'
<1>1. CASE c = guild[Owner[s]]
  BY <1>1, GuildAssumption DEF Belongs
<1>2. ASSUME NEW r \in Joins(Owner[s]), job[r].con = c PROVE Belongs(s, c)'
  <2>1. CASE Stands(r)
    BY <1>2, <2>1 DEF Stands, Joins, Belongs
  <2>2. CASE guild'[Owner[s]] = job[r].con
    BY <1>2, <2>2 DEF Belongs
  <2> QED BY <1>2, <2>1, <2>2
<1> QED BY <1>1, <1>2 DEF Belongs

\* A step after which no commit has failed or overwritten rows lets no stranger
\* into a room.
LEMMA PrivateStep ==
    ASSUME TidyInv, Entered, Current, OnlyMembers, [RealtimeNext]_realtimeVars,
           mishaps' \cap {"commit", "overwrite"} = {}
    PROVE  OnlyMembers'
<1> USE RealtimeAssumption
<1>s. Shape /\ Shape' /\ TypeInv
  BY ShapeStep DEF TidyInv, Shape
<1> SUFFICES ASSUME NEW c \in Con, NEW s \in rooms'[c] PROVE Belongs(s, c)'
  BY DEF OnlyMembers, Belongs
<1>t. s \in Sock /\ Owner[s] \in Player
  BY <1>s DEF Shape
<1>b. s \in rooms[c] => Belongs(s, c)
  BY DEF OnlyMembers, Belongs
<1>k. ASSUME UNCHANGED vars, s \in rooms[c] PROVE Belongs(s, c)'
  <2>1. guild' = guild /\ \A r \in Req : Stands(r)
    BY <1>k DEF vars, tables, Stands, Entering
  <2> QED BY <1>b, <1>k, <1>s, <1>t, <2>1, BelongsStill DEF Joins
<1>1. ASSUME NEW t \in Sock, Connect(t) \/ Lookup(t) \/ HangUp(t), UNCHANGED vars
      PROVE  Belongs(s, c)'
  BY <1>1, <1>k DEF Connect, Lookup, HangUp
<1>2. ASSUME NEW t \in Sock, Welcome(t), UNCHANGED vars PROVE Belongs(s, c)'
  <2>1. CASE answer[t] = NoCon
    BY <1>2, <1>k, <2>1 DEF Welcome
  <2>2. CASE answer[t] # NoCon
    <3>1. answer[t] \in Con /\ answer[t] = guild[Owner[t]] /\ joinRoom({t}, answer[t])
      BY <1>2, <1>s, <2>2 DEF Welcome, Current, Shape
    <3>2. c = cid'[s] /\ (s # t => s \in rooms[c])
      BY <1>t, <3>1, JoinRoomMoves
    <3>3. CASE s = t
      <4>1. cid'[s] = answer[t]
        BY <1>t, <3>1, <3>3 DEF joinRoom
      <4> QED BY <1>2, <3>1, <3>2, <3>3, <4>1 DEF Belongs, vars, tables
    <3> QED BY <1>2, <1>k, <3>2, <3>3
  <2> QED BY <2>1, <2>2
<1>3. ASSUME NEW t \in Sock, Close(t), UNCHANGED vars PROVE Belongs(s, c)'
  <2>1. s \in rooms[c]
    BY <1>3, <1>s DEF Close, left, Shape
  <2> QED BY <1>3, <1>k, <2>1
<1>4. ASSUME NEW r \in Req, Enter(r) PROVE Belongs(s, c)'
  <2>1. /\ joinRoom(byPlayer[job[r].who], job[r].con)
        /\ byPlayer[job[r].who] \in SUBSET Sock /\ job[r].con \in Con
        /\ UNCHANGED <<job, guild>>
    BY <1>4, <1>s, EnterMoves
  <2>2. ~Entering(r) /\ Entering(r)'
    BY <1>4, <1>s, EnterBegins
  <2>3. c = cid'[s] /\ (s \notin byPlayer[job[r].who] => s \in rooms[c])
    BY <1>t, <2>1, JoinRoomMoves
  <2>4. CASE s \in byPlayer[job[r].who]
    <3>1. cid'[s] = job[r].con /\ Owner[s] = job[r].who
      BY <1>4, <1>s, <1>t, <2>1, <2>4, EnterMoves DEF joinRoom, TidyInv, Tracked
    <3> QED BY <2>1, <2>2, <2>3, <3>1 DEF Belongs, Joins
  <2>5. CASE s \notin byPlayer[job[r].who]
    <3>1. \A q \in Joins(Owner[s]) : Stands(q)
      BY <1>4, <1>s, <2>2, JoinsMove DEF Joins
    <3> QED BY <1>b, <1>s, <1>t, <2>1, <2>3, <2>5, <3>1, BelongsStill
  <2> QED BY <2>4, <2>5
<1>5. ASSUME NEW r \in Req, Commit(r) PROVE Belongs(s, c)'
  <2>1. rooms' = rooms /\ "overwrite" \notin mishaps'
    BY <1>5 DEF Commit
  <2>2. guild'[Owner[s]] = guild[Owner[s]] \/ guild[Owner[s]] = NoCon
    <3>1. "overwrite" \notin mishaps'
      OBVIOUS
    <3>2. \A p \in Player : guild'[p] = guild[p] \/ mayChange(r, p)
      BY <1>5, <3>1 DEF Commit
    <3> QED BY <1>t, <3>2 DEF mayChange
  <2>3. \A q \in Joins(Owner[s]) : Stands(q) \/ guild'[Owner[s]] = job[q].con
    <3> SUFFICES ASSUME NEW q \in Joins(Owner[s]) PROVE Stands(q) \/ guild'[Owner[s]] = job[q].con
      OBVIOUS
    <3>1. q \in Req /\ Entering(q) /\ job[q].who = Owner[s]
      BY DEF Joins
    <3>2. CASE q = r
      BY <1>5, <1>s, <3>1, <3>2, CommitEnds
    <3>3. CASE q # r
      BY <1>5, <1>s, <3>1, <3>3, OthersStand
    <3> QED BY <3>2, <3>3
  <2> QED BY <1>b, <1>s, <1>t, <2>1, <2>2, <2>3, BelongsStill
<1>6. ASSUME NEW r \in Req, Abort(r) \/ Elsewhere(r) PROVE Belongs(s, c)'
  <2>1. rooms' = rooms
    BY <1>6 DEF Abort, Elsewhere
  <2>2. guild' = guild
    BY <1>6, <1>s, AbortEnds, ElsewhereKeeps
  <2>3. \A q \in Req : Stands(q)
    BY <1>6, <1>s, JoinsMove
  <2> QED BY <1>b, <1>s, <1>t, <2>1, <2>2, <2>3, BelongsStill DEF Joins
<1>7. CASE UNCHANGED realtimeVars
  BY <1>7, <1>k DEF realtimeVars
<1> QED BY <1>1, <1>2, <1>3, <1>4, <1>5, <1>6, <1>7 DEF RealtimeNext

ChatInv ==
    /\ TidyInv /\ Entered
    /\ "overwrite" \notin mishaps => Current
    /\ NobodyElse

LEMMA ChatInit == RealtimeInit => ChatInv
<1> SUFFICES ASSUME RealtimeInit PROVE ChatInv
  OBVIOUS
<1>1. Entered /\ Current /\ OnlyMembers
  BY RealtimeAssumption DEF RealtimeInit, Init, Entered, Entering, Current, OnlyMembers
<1> QED BY <1>1, TidyInit DEF ChatInv, NobodyElse

LEMMA ChatStep == ChatInv /\ [RealtimeNext]_realtimeVars => ChatInv'
<1> SUFFICES ASSUME ChatInv, [RealtimeNext]_realtimeVars PROVE ChatInv'
  OBVIOUS
<1>1. mishaps \subseteq mishaps'
  BY MishapsStay
<1>2. TidyInv' /\ Entered' /\ TidyInv /\ Entered
  BY TidyStep, EnteredStep DEF ChatInv, TidyInv, Shape
<1>3. ASSUME "overwrite" \notin mishaps' PROVE Current /\ Current'
  BY <1>1, <1>2, <1>3, CurrentStep DEF ChatInv
<1>4. ASSUME mishaps' \cap {"commit", "overwrite"} = {} PROVE OnlyMembers'
  <2>1. OnlyMembers
    BY <1>1, <1>4 DEF ChatInv, NobodyElse
  <2>2. Current
    BY <1>3, <1>4
  <2> QED BY <1>2, <1>4, <2>1, <2>2, PrivateStep
<1> QED BY <1>2, <1>3, <1>4 DEF ChatInv, NobodyElse

\* As long as no join fails to commit and no commit overwrites member rows from
\* an old copy, chat reaches co-members only, whatever overlaps and whoever hangs
\* up.
THEOREM ChatIsPrivate == RealtimeSpec => []NobodyElse
<1>1. ChatInv => NobodyElse
  BY DEF ChatInv
<1> QED BY ChatInit, ChatStep, <1>1, PTL DEF RealtimeSpec

-----------------------------------------------------------------------------
(***************************************************************************)
(* Members hear the chat of their constellation.                           *)
(***************************************************************************)

\* A live socket is tracked for its owner, and is in the room it was last put
\* in, whatever fails; one that is not connected yet was put in none.
Found ==
    \A s \in Sock :
        /\ Live(s) => /\ s \in byPlayer[Owner[s]]
                      /\ cid[s] # NoCon => s \in rooms[cid[s]]
        /\ stage[s] = "new" => cid[s] = NoCon

\* joinRoom leaves the sockets it moves in the room c, and every other where it was.
LEMMA JoinRoomFinds ==
    ASSUME Shape, Found, NEW moved \in SUBSET Sock, NEW c \in Con, joinRoom(moved, c),
           NEW s \in Sock, Live(s), cid'[s] # NoCon
    PROVE  s \in rooms'[cid'[s]]
<1>1. cid'[s] = IF s \in moved THEN c ELSE cid[s]
  BY DEF joinRoom
<1>2. cid'[s] \in Con
  BY <1>1 DEF Shape
<1>3. rooms'[cid'[s]] = IF cid'[s] = c THEN rooms[c] \cup {t \in moved : cid[t] # c}
                        ELSE rooms[cid'[s]] \ {t \in moved : cid[t] = cid'[s]}
  BY <1>2 DEF joinRoom, roomsAfter
<1>4. cid[s] # NoCon => s \in rooms[cid[s]]
  BY DEF Found
<1>5. CASE s \in moved
  BY <1>1, <1>3, <1>4, <1>5, RealtimeAssumption
<1>6. CASE s \notin moved
  BY <1>1, <1>3, <1>4, <1>6
<1> QED BY <1>5, <1>6

LEMMA FoundStep == TidyInv /\ Found /\ [RealtimeNext]_realtimeVars => Found'
<1> SUFFICES ASSUME TidyInv, Found, [RealtimeNext]_realtimeVars PROVE Found'
  OBVIOUS
<1> USE RealtimeAssumption
<1>s. Shape
  BY DEF TidyInv
<1>1. ASSUME NEW s \in Sock, Connect(s) PROVE Found'
  BY <1>1, <1>s DEF Connect, Shape, Found, Live
<1>2. ASSUME NEW s \in Sock, Lookup(s) \/ HangUp(s) PROVE Found'
  BY <1>2, <1>s DEF Lookup, HangUp, Shape, Found, Live
<1>3. ASSUME NEW s \in Sock, Welcome(s) PROVE Found'
  <2>1. /\ UNCHANGED <<byPlayer>>
        /\ \A t \in Sock : /\ Live(t)' => Live(t)
                           /\ stage'[t] = "new" => stage[t] = "new" /\ t # s
    BY <1>3, <1>s DEF Welcome, Shape, Live
  <2>2. CASE answer[s] = NoCon
    <3>1. UNCHANGED <<cid, rooms>>
      BY <1>3, <2>2 DEF Welcome
    <3> QED BY <2>1, <3>1 DEF Found
  <2>3. CASE answer[s] # NoCon
    <3>1. answer[s] \in Con /\ joinRoom({s}, answer[s]) /\ {s} \in SUBSET Sock
      BY <1>3, <1>s, <2>3 DEF Welcome, Shape
    <3>2. \A t \in Sock : Live(t) /\ cid'[t] # NoCon => t \in rooms'[cid'[t]]
      BY <1>s, <3>1, JoinRoomFinds
    <3>3. \A t \in Sock : t # s => cid'[t] = cid[t]
      BY <3>1 DEF joinRoom
    <3> QED BY <2>1, <3>2, <3>3 DEF Found
  <2> QED BY <2>2, <2>3
<1>4. ASSUME NEW s \in Sock, Close(s) PROVE Found'
  <2>1. \A t \in Sock : /\ Live(t)' => Live(t) /\ t # s
                        /\ stage'[t] = "new" => stage[t] = "new"
    BY <1>4, <1>s DEF Close, Shape, Live
  <2>2. /\ cid' = cid
        /\ \A t \in Sock : t # s /\ t \in byPlayer[Owner[t]] => t \in byPlayer'[Owner[t]]
    BY <1>4, <1>s DEF Close, Shape
  <2>3. \A t \in Sock : t # s /\ cid[t] # NoCon /\ t \in rooms[cid[t]] => t \in rooms'[cid[t]]
    BY <1>4, <1>s DEF Close, left, Shape
  <2> QED BY <2>1, <2>2, <2>3 DEF Found
<1>5. ASSUME NEW r \in Req, Enter(r) PROVE Found'
  <2>1. /\ joinRoom(byPlayer[job[r].who], job[r].con)
        /\ UNCHANGED <<stage, byPlayer>>
        /\ byPlayer[job[r].who] \in SUBSET Sock
        /\ job[r].who \in Player /\ job[r].con \in Con
    BY <1>5, <1>s, EnterMoves
  <2>2. \A t \in Sock : Live(t) /\ cid'[t] # NoCon => t \in rooms'[cid'[t]]
    BY <1>s, <2>1, JoinRoomFinds
  <2>3. \A t \in Sock : stage[t] = "new" => cid'[t] = cid[t]
    BY <2>1 DEF joinRoom, TidyInv, Tracked
  <2> QED BY <2>1, <2>2, <2>3 DEF Found, Live
<1>6. ASSUME UNCHANGED sides PROVE Found'
  BY <1>6 DEF Found, Live
<1>7. ASSUME NEW r \in Req, Commit(r) \/ Abort(r) \/ Elsewhere(r) PROVE Found'
  BY <1>6, <1>7, HubStays
<1>8. CASE UNCHANGED realtimeVars
  BY <1>6, <1>8 DEF realtimeVars
<1> QED BY <1>1, <1>2, <1>3, <1>4, <1>5, <1>7, <1>8 DEF RealtimeNext

\* Only commits have failed.
Undisturbed == mishaps \subseteq {"commit"}

\* Who is joining has no member row, and no second join in flight.
Single ==
    \A r \in Req : Entering(r) =>
        /\ guild[job[r].who] = NoCon
        /\ \A q \in Req : Entering(q) /\ job[q].who = job[r].who => q = r

\* A live socket was put in the room its owner is joining; if the owner has a
\* member row, it was put in the room of that, or the lookup found it, or the
\* lookup is still to come.
Moved ==
    \A s \in Sock : Live(s) =>
        /\ \A r \in Joins(Owner[s]) : cid[s] = job[r].con
        /\ stage[s] = "answered" /\ guild[Owner[s]] # NoCon =>
               guild[Owner[s]] \in {cid[s], answer[s]}
        /\ stage[s] = "ready" /\ guild[Owner[s]] # NoCon => cid[s] = guild[Owner[s]]

LEMMA SingleStep ==
    ASSUME TypeInv, Entered, Single, [RealtimeNext]_realtimeVars, Undisturbed'
    PROVE  Single'
<1>1. ASSUME guild' = guild, \A q \in Req : Stands(q) PROVE Single'
  BY <1>1 DEF Single, Stands
<1>2. CASE UNCHANGED vars
  BY <1>1, <1>2 DEF vars, tables, Stands, Entering
<1>3. ASSUME NEW r \in Req, Enter(r) PROVE Single'
  <2>1. /\ job' = job /\ guild' = guild /\ ~Entering(r)
        /\ guild[job[r].who] = NoCon /\ Joins(job[r].who) = {}
    BY <1>3, EnterBegins DEF SetRoom, Undisturbed
  <2>2. \A q \in Req : q # r => (Entering(q)' <=> Entering(q))
    BY <1>3, OthersStand DEF Stands
  <2> QED BY <2>1, <2>2 DEF Single, Joins
<1>4. ASSUME NEW r \in Req, Commit(r) PROVE Single'
  <2>1. /\ ~Entering(r)'
        /\ \A q \in Req : q # r => Stands(q)
    BY <1>4, JoinsMove
  <2>2. \A p \in Player : guild'[p] = guild[p] \/ mayChange(r, p)
    BY <1>4 DEF Commit, Undisturbed
  <2>3. ASSUME NEW q \in Req, Entering(q)'
        PROVE  /\ q # r /\ Entering(q) /\ job'[q] = job[q]
               /\ guild'[job[q].who] = NoCon
    <3>1. q # r /\ Entering(q) /\ job'[q] = job[q]
      BY <2>1, <2>3 DEF Stands
    <3>2. job[q].who \in Player /\ guild[job[q].who] = NoCon
      BY <3>1 DEF Single, TypeInv, WellFormed, Entering
    <3>3. ~mayChange(r, job[q].who)
      BY <3>1 DEF mayChange, Single
    <3> QED BY <2>2, <3>1, <3>2, <3>3
  <2> QED BY <2>3 DEF Single
<1>5. ASSUME NEW r \in Req, Abort(r) PROVE Single'
  <2>1. /\ ~Entering(r)' /\ guild' = guild
        /\ \A q \in Req : q # r => Stands(q)
    BY <1>5, AbortEnds, OthersStand
  <2> QED BY <2>1 DEF Single, Stands
<1>6. ASSUME NEW r \in Req, Elsewhere(r) PROVE Single'
  BY <1>1, <1>6, ElsewhereKeeps
<1> QED BY <1>2, <1>3, <1>4, <1>5, <1>6 DEF RealtimeNext, realtimeVars

\* A step after which only commits have failed keeps the sockets of joiners and
\* members together.
LEMMA MovedStep ==
    ASSUME TidyInv, Entered, Current, Found, Single, Moved, [RealtimeNext]_realtimeVars,
           Undisturbed'
    PROVE  Moved'
<1> USE RealtimeAssumption
<1>s. Shape /\ TypeInv /\ Owner \in [Sock -> Player]
  BY DEF TidyInv, Shape
<1>k. ASSUME UNCHANGED vars
      PROVE  guild' = guild /\ \A p \in Player : Joins(p)' = Joins(p) /\ job' = job
  BY <1>k DEF vars, tables, Joins, Entering
<1>1. ASSUME NEW s \in Sock, Connect(s), UNCHANGED vars PROVE Moved'
  <2>1. Joins(Owner[s]) = {}
    BY <1>1 DEF Connect, Undisturbed
  <2>2. /\ stage' = [stage EXCEPT ![s] = "lookup"]
        /\ UNCHANGED <<cid, answer>>
    BY <1>1 DEF Connect
  <2> QED BY <1>1, <1>k, <1>s, <2>1, <2>2 DEF Shape, Moved, Live
<1>2. ASSUME NEW s \in Sock, Lookup(s), UNCHANGED vars PROVE Moved'
  <2>1. /\ stage[s] = "lookup"
        /\ answer' = [answer EXCEPT ![s] = guild[Owner[s]]]
        /\ stage' = [stage EXCEPT ![s] = "answered"]
        /\ UNCHANGED cid
    BY <1>2 DEF Lookup, playerPublic, Undisturbed
  <2> QED BY <1>2, <1>k, <1>s, <2>1 DEF Shape, Moved, Live
<1>3. ASSUME NEW s \in Sock, Welcome(s), UNCHANGED vars PROVE Moved'
  <2>1. /\ stage[s] = "answered"
        /\ stage' = [stage EXCEPT ![s] = "ready"]
        /\ \A t \in Sock : t # s => answer'[t] = answer[t]
    BY <1>3, <1>s DEF Welcome, Shape
  <2>2. CASE answer[s] = NoCon
    <3>1. UNCHANGED cid
      BY <1>3, <2>2 DEF Welcome
    <3> QED BY <1>3, <1>k, <1>s, <2>1, <2>2, <3>1 DEF Shape, Moved, Live
  <2>3. CASE answer[s] # NoCon
    <3>1. answer[s] = guild[Owner[s]] /\ Joins(Owner[s]) = {}
      BY <1>s, <2>3 DEF Current, Single, Joins
    <3>2. cid' = [t \in Sock |-> IF t = s THEN answer[s] ELSE cid[t]]
      BY <1>3, <2>3 DEF Welcome, joinRoom
    <3> QED BY <1>3, <1>k, <1>s, <2>1, <3>1, <3>2 DEF Shape, Moved, Live
  <2> QED BY <2>2, <2>3
<1>4. ASSUME NEW s \in Sock, Close(s), UNCHANGED vars PROVE Moved'
  BY <1>4, <1>k, <1>s DEF Close, Shape, Moved, Live
<1>5. ASSUME NEW s \in Sock, HangUp(s), UNCHANGED vars PROVE Moved'
  BY <1>5, <1>k, <1>s DEF HangUp, Moved, Live
<1>6. ASSUME NEW r \in Req, Enter(r) PROVE Moved'
  <2> DEFINE p == job[r].who
  <2>1. /\ guild[p] = NoCon /\ Joins(p) = {} /\ p \in Player
        /\ job' = job /\ guild' = guild
        /\ cid' = [t \in Sock |-> IF t \in byPlayer[p] THEN job[r].con ELSE cid[t]]
        /\ UNCHANGED <<stage, answer>>
    BY <1>6, <1>s, EnterBegins DEF SetRoom, connections, joinRoom, Undisturbed
  <2>2. \A t \in Sock : Live(t) => (t \in byPlayer[p] <=> Owner[t] = p)
    BY <2>1 DEF Found, TidyInv, Tracked
  <2>3. \A q \in Req : q # r => (Entering(q)' <=> Entering(q))
    BY <1>6, <1>s, OthersStand DEF Stands
  <2> SUFFICES ASSUME NEW t \in Sock, Live(t)'
      PROVE  /\ \A q \in Joins(Owner[t])' : cid'[t] = job'[q].con
             /\ stage'[t] = "answered" /\ guild'[Owner[t]] # NoCon =>
                    guild'[Owner[t]] \in {cid'[t], answer'[t]}
             /\ stage'[t] = "ready" /\ guild'[Owner[t]] # NoCon =>
                    cid'[t] = guild'[Owner[t]]
    BY DEF Moved
  <2>4. Live(t)
    BY <2>1 DEF Live
  <2>5. CASE Owner[t] = p
    <3>1. cid'[t] = job[r].con
      BY <2>1, <2>2, <2>4, <2>5
    <3>2. Joins(p)' \subseteq {r}
      BY <2>1, <2>3 DEF Joins
    <3> QED BY <2>1, <2>5, <3>1, <3>2
  <2>6. CASE Owner[t] # p
    <3>1. cid'[t] = cid[t]
      BY <2>1, <2>2, <2>4, <2>6
    <3>2. Joins(Owner[t])' = Joins(Owner[t])
      BY <2>1, <2>3, <2>6 DEF Joins
    <3> QED BY <2>1, <2>4, <3>1, <3>2 DEF Moved
  <2> QED BY <2>5, <2>6
<1>7. ASSUME NEW r \in Req, Commit(r) PROVE Moved'
  <2>1. /\ ~Entering(r)'
        /\ \A q \in Req : q # r => Stands(q)
        /\ UNCHANGED <<stage, cid, answer>>
    BY <1>7, <1>s, JoinsMove, HubStays
  <2>2. /\ \A p \in Player :
               guild'[p] = IF Entering(r) /\ p = job[r].who THEN job[r].con ELSE guild[p]
        /\ Entering(r) => guild[job[r].who] \in {NoCon, job[r].con}
    BY <1>7, <1>s, CleanCommit DEF Undisturbed
  <2> SUFFICES ASSUME NEW t \in Sock, Live(t)
      PROVE  /\ \A q \in Joins(Owner[t])' : cid[t] = job'[q].con
             /\ stage[t] = "answered" /\ guild'[Owner[t]] # NoCon =>
                    guild'[Owner[t]] \in {cid[t], answer[t]}
             /\ stage[t] = "ready" /\ guild'[Owner[t]] # NoCon =>
                    cid[t] = guild'[Owner[t]]
    BY <2>1 DEF Moved, Live
  <2>3. \A q \in Joins(Owner[t])' : q \in Joins(Owner[t]) /\ job'[q] = job[q]
    BY <2>1 DEF Joins, Stands
  <2>4. Entering(r) /\ Owner[t] = job[r].who => cid[t] = job[r].con
    BY DEF Joins, Moved
  <2> QED BY <1>s, <2>2, <2>3, <2>4 DEF Moved
<1>8. ASSUME NEW r \in Req, Abort(r) \/ Elsewhere(r) PROVE Moved'
  <2>1. /\ UNCHANGED <<stage, cid, answer>> /\ guild' = guild
        /\ \A q \in Req : Entering(q)' => Entering(q) /\ job'[q] = job[q]
    BY <1>8, <1>s, HubStays, AbortEnds, ElsewhereKeeps, OthersStand DEF Stands
  <2>2. \A p \in Player : \A q \in Joins(p)' : q \in Joins(p) /\ job'[q] = job[q]
    BY <2>1 DEF Joins
  <2> QED BY <1>s, <2>1, <2>2 DEF Moved, Live
<1>9. CASE UNCHANGED realtimeVars
  BY <1>9, <1>k, <1>s DEF realtimeVars, Moved, Live
<1> QED BY <1>1, <1>2, <1>3, <1>4, <1>5, <1>6, <1>7, <1>8, <1>9 DEF RealtimeNext

MemberInv ==
    /\ TidyInv /\ Entered /\ Found
    /\ Undisturbed => Current /\ Single /\ Moved

LEMMA MemberInit == RealtimeInit => MemberInv
<1> SUFFICES ASSUME RealtimeInit PROVE MemberInv
  OBVIOUS
<1>1. Entered /\ Single
  BY DEF RealtimeInit, Init, Entered, Single, Entering
<1>2. Current /\ Found /\ Moved
  BY RealtimeAssumption DEF RealtimeInit, Current, Found, Moved, Live
<1> QED BY <1>1, <1>2, TidyInit DEF MemberInv

LEMMA MemberStep == MemberInv /\ [RealtimeNext]_realtimeVars => MemberInv'
<1> SUFFICES ASSUME MemberInv, [RealtimeNext]_realtimeVars PROVE MemberInv'
  OBVIOUS
<1>1. TidyInv /\ TypeInv /\ Entered /\ Found
  BY DEF MemberInv, TidyInv, Shape
<1>2. TidyInv' /\ Entered' /\ Found'
  BY <1>1, TidyStep, EnteredStep, FoundStep
<1>3. ASSUME Undisturbed' PROVE Current' /\ Single' /\ Moved'
  <2>1. Undisturbed /\ "overwrite" \notin mishaps'
    BY <1>3, MishapsStay DEF Undisturbed
  <2>2. Current /\ Single /\ Moved
    BY <2>1 DEF MemberInv
  <2> QED BY <1>1, <1>3, <2>1, <2>2, CurrentStep, SingleStep, MovedStep
<1> QED BY <1>2, <1>3 DEF MemberInv

\* As long as no lookup fails, nobody connects during a join or joins twice, and
\* no commit overwrites member rows from an old copy, every socket of a member
\* that is set up is in the room of the constellation, even after a commit that
\* failed.
THEOREM MembersHear == RealtimeSpec => []NobodyMissing
<1>1. MemberInv => NobodyMissing
  BY RealtimeAssumption
  DEF MemberInv, Undisturbed, Found, Moved, Live, NobodyMissing, Settled, TidyInv, Shape,
      TypeInv, TypeOK
<1> QED BY MemberInit, MemberStep, <1>1, PTL DEF RealtimeSpec

-----------------------------------------------------------------------------
(***************************************************************************)
(* What keeps member rows from being overwritten.                          *)
(***************************************************************************)

\* No player has joined twice and no commit has overwritten member rows.
Tame == mishaps \cap {"twice", "overwrite"} = {}

TameInv == CalmInv /\ (~crossed => Tame)

\* A request that starts a join does so for a player outside, and alone.
LEMMA EnterTame ==
    ASSUME TypeInv, Calm, Tame, NEW r \in Req, Enter(r)
    PROVE  Tame'
<1>1. /\ pc[r] = "run" /\ job[r].op \in {"create", "join"} /\ job[r].who \in Player
      /\ SetRoom(job[r].who, job[r].con)
  BY Typed, EnterBegins DEF Enter, HandleCreate, HandleJoin
<1>2. guild[job[r].who] = NoCon
  BY <1>1 DEF Calm, Standing, Placed
<1>3. Joins(job[r].who) = {}
  <2> SUFFICES ASSUME NEW q \in Req, Entering(q), job[q].who = job[r].who PROVE FALSE
    BY DEF Joins
  <2>1. q # r /\ q \in Busy /\ r \in Busy
    BY <1>1 DEF Entering, Busy
  <2>2. job[r].who \in Players(job[r]) \cap Players(job[q])
    BY <1>1, GuildAssumption DEF Players
  <2> QED BY <2>1, <2>2 DEF Calm, Uncrossed
<1> QED BY <1>1, <1>2, <1>3 DEF SetRoom, Tame

\* A commit writes the row of its own player only, and for a join the first.
LEMMA CommitTame ==
    ASSUME TypeInv, Calm, Tame, NEW r \in Req, Commit(r)
    PROVE  Tame'
<1>1. SaveCon(r)
  BY DEF Commit
<1>2. /\ pc[r] = "save" /\ guild'[job[r].who] = job[r].con
      /\ \A q \in Player \ {job[r].who} : guild'[q] = guild[q]
      /\ guild[job[r].who] = IF job[r].op = "hatch" THEN job[r].con ELSE NoCon
  BY <1>1, SaveWrites
<1>3. job[r].op \in {"create", "join", "hatch"}
  BY <1>1, Typed DEF Calm, Placed, SaveCon, Job
<1>4. \A p \in Player : guild'[p] = guild[p] \/ mayChange(r, p)
  BY <1>2, <1>3 DEF mayChange, Entering
<1> QED BY <1>4 DEF Commit, Tame

\* Once requests have crossed, they have.
LEMMA CrossedStays == crossed /\ [RealtimeNext]_realtimeVars => crossed'
<1> SUFFICES ASSUME crossed, [RealtimeNext]_realtimeVars PROVE crossed'
  OBVIOUS
<1>1. CASE UNCHANGED vars
  BY <1>1 DEF vars
<1>2. ASSUME NEW r \in Req, Arrive(r) PROVE crossed'
  BY <1>2 DEF Arrive, Submit
<1>3. ASSUME NEW r \in Req, Enter(r) \/ Commit(r) \/ Abort(r) PROVE crossed'
  BY <1>3 DEF Enter, HandleCreate, HandleJoin, Commit, SaveCon, Abort, Fail, DuplicateName, Drop
<1>4. ASSUME NEW r \in Req, Elsewhere(r), ~Arrive(r) PROVE crossed'
  BY <1>4 DEF Elsewhere, ReadSelf, ReadOther, ReadName, ReadCon, ReadMembers, HandleHatch,
              SavePlayers, Reject, Drop
<1> QED BY <1>1, <1>2, <1>3, <1>4 DEF RealtimeNext, realtimeVars

LEMMA TameStep == TameInv /\ [RealtimeNext]_realtimeVars => TameInv'
<1> SUFFICES ASSUME TameInv, [RealtimeNext]_realtimeVars PROVE TameInv'
  OBVIOUS
<1>1. CalmInv'
  BY RequestsAreGuild, NextCalm DEF TameInv
<1> SUFFICES ASSUME ~crossed' PROVE Tame'
  BY <1>1 DEF TameInv
<1>2. TypeInv /\ Calm /\ Tame
  BY CrossedStays DEF TameInv, CalmInv
<1>3. ASSUME NEW s \in Sock, Connect(s) \/ Lookup(s) \/ Welcome(s) \/ Close(s) \/ HangUp(s)
      PROVE  Tame'
  BY <1>2, <1>3 DEF Connect, Lookup, Welcome, Close, HangUp, Tame
<1>4. ASSUME NEW r \in Req, Enter(r) \/ Commit(r) PROVE Tame'
  BY <1>2, <1>4, EnterTame, CommitTame
<1>5. ASSUME NEW r \in Req, Abort(r) \/ Elsewhere(r) PROVE Tame'
  BY <1>2, <1>5 DEF Abort, Elsewhere, Tame
<1>6. CASE UNCHANGED realtimeVars
  BY <1>2, <1>6 DEF realtimeVars, Tame
<1> QED BY <1>3, <1>4, <1>5, <1>6 DEF RealtimeNext

\* As long as no two requests in flight touch the same rows, nobody joins twice
\* and no commit overwrites the member rows of others: two of the conditions under
\* which members hear their chat, and one of those under which it is private, are
\* about overlapping requests only.
THEOREM ApartIsTame ==
    RealtimeSpec => [](~crossed => mishaps \cap {"twice", "overwrite"} = {})
<1>1. RealtimeInit => TameInv
  BY InitCalm DEF RealtimeInit, TameInv, Tame
<1>2. TameInv => (~crossed => mishaps \cap {"twice", "overwrite"} = {})
  BY DEF TameInv, Tame
<1> QED BY <1>1, <1>2, TameStep, PTL DEF RealtimeSpec

-----------------------------------------------------------------------------
(***************************************************************************)
(* The rate limiter.  A window that has ended leaves less than the limit   *)
(* in its length behind it; one that has not counts what it admits, and    *)
(* it and the window before it admit twice the limit.                      *)
(***************************************************************************)

\* The ticks from x on.
Since(x) == {t \in Tick : x <= t}

\* A bucket at time n with count c, reset R and limit m, whose client was served
\* h and asked for a.  A window that has ended leaves less than the limit in its
\* length; one that has not counts what it admits, and it and the window before
\* it admit twice the limit.
BucketAt(n, c, R, m, h, a) ==
    /\ R <= n + windowMs
    /\ \A t \in Tick : n < t => h[t] = 0 /\ a[t] = 0
    /\ n >= R => h[n] = 0 /\ SumOver(h, Since(n + 1 - windowMs)) <= m
    /\ n < R =>
         /\ SumOver(h, Since(R - windowMs)) <= c
         /\ SumOver(h, Since(R - windowMs)) <= m
         /\ SumOver(h, Since(R + 1 - 2 * windowMs)) <= m + c
         /\ SumOver(h, Since(R + 1 - 2 * windowMs)) <= 2 * m
         /\ c <= SumOver(a, Since(R - windowMs))

Bucket(l, i) ==
    BucketAt(now, count[l][i], reset[l][i], limit(l), served[l][i], asked[l][i])

\* Nothing is served that was not asked for.
Accounted ==
    \A l \in Limiter, i \in Ip, t \in Tick :
        served[l][i][t] <= asked[l][i][t] /\ asked[l][i][t] <= asked["all"][i][t]

LimiterInv == LimiterTypeOK /\ Accounted /\ \A l \in Limiter, i \in Ip : Bucket(l, i)

LEMMA TickFacts ==
    /\ IsFiniteSet(Tick) /\ Tick \subseteq Nat /\ Tick \subseteq Int
    /\ \A x : Since(x) \in SUBSET Tick /\ IsFiniteSet(Since(x))
<1> USE RateLimitAssumption
<1>1. IsFiniteSet(0..MaxTime)
  BY FS_Interval
<1>2. \A x : Since(x) \in SUBSET Tick
  BY DEF Since
<1> QED BY <1>1, <1>2, FS_Subset DEF Tick

\* The history g has one request more than h, at tick n.
Ticked(g, h, n) == \A t \in Tick : g[t] = IF t = n THEN h[t] + 1 ELSE h[t]

\* Its sum has one more, where that tick is counted.
LEMMA SumOfOneMore ==
    ASSUME NEW h \in [Tick -> Nat], NEW g, NEW n \in Tick, NEW x \in Int, Ticked(g, h, n)
    PROVE  /\ SumOver(h, Since(x)) \in Nat
           /\ SumOver(g, Since(x)) = IF x <= n THEN SumOver(h, Since(x)) + 1
                                     ELSE SumOver(h, Since(x))
<1>1. /\ IsFiniteSet(Since(x)) /\ Since(x) \in SUBSET Tick
      /\ \A t \in Since(x) : h[t] \in Nat /\ h[t] \in Int
  <2>1. IsFiniteSet(Since(x)) /\ Since(x) \in SUBSET Tick
    BY TickFacts
  <2> QED BY <2>1
<1>2. SumOver(h, Since(x)) \in Nat
  BY <1>1, TotalType
<1>3. CASE x <= n
  <2>1. n \in Since(x)
    BY <1>3 DEF Since
  <2>2. \A t \in Since(x) : g[t] = IF t = n THEN h[t] + 1 ELSE h[t]
    BY <1>1 DEF Ticked
  <2>3. SumOver(g, Since(x)) = SumOver(h, Since(x)) + 1
    BY <1>1, <2>1, <2>2, TotalChange
  <2> QED BY <1>2, <1>3, <2>3
<1>4. CASE ~ (x <= n)
  <2>1. \A t \in Since(x) : h[t] = g[t]
    BY <1>1, <1>4 DEF Since, Ticked
  <2>2. SumOver(h, Since(x)) = SumOver(g, Since(x))
    BY <1>1, <2>1, TotalSame
  <2> QED BY <1>2, <1>4, <2>2
<1> QED BY <1>3, <1>4

\* A later start counts no more.
LEMMA SinceLater ==
    ASSUME NEW h \in [Tick -> Nat], NEW x \in Int, NEW y \in Int, x <= y
    PROVE  /\ SumOver(h, Since(x)) \in Nat /\ SumOver(h, Since(y)) \in Nat
           /\ SumOver(h, Since(y)) <= SumOver(h, Since(x))
<1>1. /\ IsFiniteSet(Since(x)) /\ IsFiniteSet(Since(y))
      /\ \A t \in Since(x) \cup Since(y) : h[t] \in Nat
  <2>1. /\ IsFiniteSet(Since(x)) /\ Since(x) \in SUBSET Tick
        /\ IsFiniteSet(Since(y)) /\ Since(y) \in SUBSET Tick
    BY TickFacts
  <2> QED BY <2>1
<1>2. Since(y) \in SUBSET Since(x)
  <2>1. \A t \in Tick : t \in Int
    BY TickFacts
  <2> QED BY <2>1 DEF Since
<1> QED BY <1>1, <1>2, TotalType, TotalGrows

\* What a client has from now on is what it has now.
LEMMA SinceNow ==
    ASSUME NEW h \in [Tick -> Nat], NEW n \in Tick, \A t \in Tick : n < t => h[t] = 0
    PROVE  SumOver(h, Since(n)) = h[n]
<1>1. /\ IsFiniteSet(Since(n)) /\ \A t \in Since(n) : h[t] \in Nat /\ h[t] \in Int
      /\ n \in Since(n)
  <2>1. IsFiniteSet(Since(n)) /\ Since(n) \in SUBSET Tick /\ n \in Nat
    BY TickFacts
  <2>2. n \in Since(n)
    BY <2>1 DEF Since
  <2>3. ASSUME NEW t \in Since(n) PROVE h[t] \in Nat /\ h[t] \in Int
    <3>1. t \in Tick
      BY <2>1
    <3>2. h[t] \in Nat
      BY <3>1
    <3> QED BY <3>2
  <2> QED BY <2>1, <2>2, <2>3
<1>2. SumOver(h, Since(n)) = h[n] + SumOver(h, Since(n) \ {n})
  BY <1>1, TotalRemove
<1>3. IsFiniteSet(Since(n) \ {n}) /\ \A t \in Since(n) \ {n} : h[t] = 0
  BY <1>1, TickFacts, FS_Subset DEF Since
<1>4. SumOver(h, Since(n) \ {n}) = 0
  BY <1>3, TotalZero
<1> QED BY <1>2, <1>4

\* The sum of the last window.
Last == {t \in Tick : now < t + windowMs /\ t <= now}

LEMMA RecentSum == \A h : Recent(h) = SumOver(h, Last)
<1> TAKE h
<1> DEFINE Eq(g) == g = [s \in SUBSET Last |->
                           IF s = {} THEN 0 ELSE h[Pick(s)] + g[s \ {Pick(s)}]]
<1>1. Recent(h) = (CHOOSE g : Eq(g))[Last]
  BY DEF Recent, FoldFunctionOnSet, MapThenFoldSet, Pick, Last
<1>2. \A g : Eq(g) <=> Solves(g, h, Last)
  BY DEF Solves
<1>3. IsFiniteSet(Last) /\ Last \in SUBSET Last
  BY TickFacts, FS_Subset DEF Last
<1>4. PICK g : Solves(g, h, Last)
  BY <1>3, Solvable
<1> HIDE DEF Eq
<1>5. Eq(CHOOSE f : Eq(f))
  BY <1>2, <1>4
<1>6. Solves(CHOOSE f : Eq(f), h, Last)
  BY <1>2, <1>5
<1> QED BY <1>1, <1>3, <1>6, TotalSolves

Histories == [Limiter -> [Ip -> [Tick -> Nat]]]

\* The histories g have a request of i at tick n more than h, in the limiters of L.
Counts(g, h, L, i, n) ==
    \A l \in Limiter, j \in Ip, t \in Tick :
        g[l][j][t] = IF l \in L /\ j = i /\ t = n THEN h[l][j][t] + 1 ELSE h[l][j][t]

LEMMA OneMoreAt ==
    ASSUME NEW h \in Histories, NEW L \in SUBSET Limiter, NEW i \in Ip, now \in Tick
    PROVE  OneMore(h, L, i) \in Histories /\ Counts(OneMore(h, L, i), h, L, i, now)
<1> USE DEF Histories
<1>1. ASSUME NEW l \in Limiter
      PROVE  /\ OneMore(h, L, i)[l] \in [Ip -> [Tick -> Nat]]
             /\ \A j \in Ip, t \in Tick :
                  OneMore(h, L, i)[l][j][t] =
                    IF l \in L /\ j = i /\ t = now THEN h[l][j][t] + 1 ELSE h[l][j][t]
  <2>1. PICK k \in [Ip -> [Tick -> Nat]] : k = h[l]
    OBVIOUS
  <2>2. PICK e \in [Tick -> Nat] : e = [k[i] EXCEPT ![now] = @ + 1]
    <3>1. PICK b \in [Tick -> Nat] : b = k[i]
      OBVIOUS
    <3>2. [b EXCEPT ![now] = @ + 1] \in [Tick -> Nat]
      OBVIOUS
    <3> QED BY <3>1, <3>2
  <2>3. \A t \in Tick : e[t] = IF t = now THEN k[i][t] + 1 ELSE k[i][t]
    BY <2>2
  <2>4. OneMore(h, L, i)[l] = IF l \in L THEN [k EXCEPT ![i] = e] ELSE k
    BY <2>1, <2>2 DEF OneMore
  <2> QED BY <2>1, <2>3, <2>4
<1>2. OneMore(h, L, i) = [l \in Limiter |-> OneMore(h, L, i)[l]]
  BY DEF OneMore
<1> QED BY <1>1, <1>2 DEF Counts

-----------------------------------------------------------------------------

\* A hit, served or not.
LEMMA HitKeeps ==
    ASSUME NEW n \in Tick, NEW c \in Nat, NEW R \in Nat, NEW m \in Nat \ {0},
           NEW h \in [Tick -> Nat], NEW a \in [Tick -> Nat], BucketAt(n, c, R, m, h, a),
           NEW g \in [Tick -> Nat], NEW b \in [Tick -> Nat],
           NEW d, d = IF n >= R THEN 1 ELSE c + 1,
           NEW Q, Q = IF n >= R THEN n + windowMs ELSE R,
           Ticked(b, a, n),
           \/ g = h
           \/ d <= m /\ Ticked(g, h, n)
    PROVE  BucketAt(n, d, Q, m, g, b)
<1>1. n \in Nat /\ n \in Int /\ windowMs \in Nat /\ windowMs > 0
  BY TickFacts, RateLimitAssumption
<1>2. \A t \in Tick : n < t => g[t] = 0 /\ b[t] = 0
  BY <1>1 DEF BucketAt, Ticked
<1>3. n < Q /\ Q \in Nat /\ Q <= n + windowMs /\ Q - windowMs <= n /\ Q - windowMs \in Int
      /\ Q + 1 - 2 * windowMs <= n /\ Q + 1 - 2 * windowMs \in Int
  BY <1>1 DEF BucketAt
<1>4. /\ SumOver(a, Since(Q - windowMs)) \in Nat
      /\ SumOver(b, Since(Q - windowMs)) = SumOver(a, Since(Q - windowMs)) + 1
  <2>1. PICK x \in Int : x = Q - windowMs /\ x <= n
    BY <1>3
  <2>2. /\ SumOver(a, Since(x)) \in Nat
        /\ SumOver(b, Since(x)) = IF x <= n THEN SumOver(a, Since(x)) + 1
                                  ELSE SumOver(a, Since(x))
    BY SumOfOneMore
  <2> QED BY <2>1, <2>2
<1>5. ASSUME NEW x \in Int, x <= n
      PROVE  /\ SumOver(h, Since(x)) \in Nat
             /\ \/ SumOver(g, Since(x)) = SumOver(h, Since(x))
                \/ d <= m /\ SumOver(g, Since(x)) = SumOver(h, Since(x)) + 1
  <2>1. CASE g = h
    <3>1. SumOver(h, Since(x)) \in Nat
      BY SinceLater
    <3> QED BY <2>1, <3>1
  <2>2. CASE d <= m /\ Ticked(g, h, n)
    <3>1. Ticked(g, h, n)
      BY <2>2
    <3>2. /\ SumOver(h, Since(x)) \in Nat
          /\ SumOver(g, Since(x)) = IF x <= n THEN SumOver(h, Since(x)) + 1
                                    ELSE SumOver(h, Since(x))
      BY <3>1, SumOfOneMore
    <3> QED BY <1>5, <2>2, <3>2
  <2> QED BY <2>1, <2>2
<1>6. CASE n >= R
  <2>1. /\ Q - windowMs = n /\ d = 1 /\ Q + 1 - 2 * windowMs = n + 1 - windowMs
        /\ h[n] = 0 /\ SumOver(h, Since(n + 1 - windowMs)) <= m
    BY <1>1, <1>6 DEF BucketAt
  <2>2. SumOver(h, Since(n)) = 0
    BY <2>1, SinceNow DEF BucketAt
  <2>3. SumOver(g, Since(n)) <= 1
    BY <1>1, <1>5, <2>2
  <2>4. SumOver(g, Since(n + 1 - windowMs)) <= m + 1
    <3>1. n + 1 - windowMs \in Int /\ n + 1 - windowMs <= n
      BY <1>1
    <3>2. PICK x \in Int : x = n + 1 - windowMs /\ x <= n
      BY <3>1
    <3>3. SumOver(g, Since(x)) <= m + 1 /\ SumOver(g, Since(x)) \in Nat
      BY <1>5, <2>1, <3>2
    <3> QED BY <3>2, <3>3
  <2>5. PICK k \in Nat : k = SumOver(g, Since(n))
    BY <1>1, <1>5
  <2>6. PICK x \in Int : x = n + 1 - windowMs /\ x <= n
    BY <1>1
  <2>7. PICK w \in Nat : w = SumOver(g, Since(x))
    BY <1>5, <2>6
  <2>8. k <= 1 /\ k <= m /\ w <= m + 1 /\ m + 1 <= 2 * m /\ w <= 2 * m
    BY <2>3, <2>4, <2>5, <2>6, <2>7
  <2>9. 1 <= SumOver(b, Since(n))
    BY <1>4, <2>1
  <2>10. Q - windowMs = n /\ Q + 1 - 2 * windowMs = x
    BY <2>1, <2>6
  <2> QED BY <1>1, <1>2, <1>3, <2>1, <2>5, <2>7, <2>8, <2>9, <2>10 DEF BucketAt
<1>7. CASE n < R
  <2>1. /\ Q = R /\ d = c + 1
        /\ SumOver(h, Since(R - windowMs)) <= c
        /\ SumOver(h, Since(R - windowMs)) <= m
        /\ SumOver(h, Since(R + 1 - 2 * windowMs)) <= m + c
        /\ SumOver(h, Since(R + 1 - 2 * windowMs)) <= 2 * m
        /\ c <= SumOver(a, Since(R - windowMs))
    BY <1>1, <1>7 DEF BucketAt
  <2>2. PICK x \in Int : x = R - windowMs /\ x <= n
    BY <1>3, <2>1
  <2>3. PICK y \in Int : y = R + 1 - 2 * windowMs /\ y <= n /\ y <= x
    BY <1>1, <1>3, <2>1, <2>2
  <2>4. SumOver(g, Since(x)) <= d /\ SumOver(g, Since(x)) <= m
    BY <1>5, <2>1, <2>2
  <2>5. SumOver(g, Since(y)) <= 2 * m /\ SumOver(g, Since(y)) <= m + d
    <3>1. /\ SumOver(h, Since(y)) \in Nat
          /\ \/ SumOver(g, Since(y)) = SumOver(h, Since(y))
             \/ d <= m /\ SumOver(g, Since(y)) = SumOver(h, Since(y)) + 1
      BY <1>5, <2>3
    <3>2. SumOver(h, Since(y)) <= m + c /\ SumOver(h, Since(y)) <= 2 * m /\ d = c + 1
      BY <2>1, <2>3
    <3> QED BY <3>1, <3>2
  <2>6. d <= SumOver(b, Since(x))
    BY <1>4, <2>1, <2>2
  <2>7. Q - windowMs = x /\ Q + 1 - 2 * windowMs = y
    BY <2>1, <2>2, <2>3
  <2> QED BY <1>1, <1>2, <1>3, <2>4, <2>5, <2>6, <2>7 DEF BucketAt
<1> QED BY <1>1, <1>6, <1>7

\* A tick passes: a window may end with it.
LEMMA ElapseKeeps ==
    ASSUME NEW n \in Tick, NEW c \in Nat, NEW R \in Nat, NEW m \in Nat \ {0},
           NEW h \in [Tick -> Nat], NEW a \in [Tick -> Nat], BucketAt(n, c, R, m, h, a),
           n + 1 \in Tick
    PROVE  BucketAt(n + 1, c, R, m, h, a)
<1>1. n \in Nat /\ windowMs \in Nat /\ windowMs > 0
  BY TickFacts, RateLimitAssumption
<1>2. /\ R <= (n + 1) + windowMs /\ h[n + 1] = 0
      /\ \A t \in Tick : n + 1 < t => h[t] = 0 /\ a[t] = 0
  <2>1. \A t \in Tick : t \in Nat /\ (n + 1 < t => n < t)
    BY <1>1, TickFacts
  <2>2. n < n + 1
    BY <1>1
  <2> QED BY <1>1, <2>1, <2>2 DEF BucketAt
<1>3. CASE n + 1 < R
  BY <1>1, <1>2, <1>3 DEF BucketAt
<1>4. ASSUME n + 1 >= R
      PROVE  \E x \in Int : x <= (n + 1) + 1 - windowMs /\ SumOver(h, Since(x)) <= m
  <2>1. CASE n >= R
    <3>1. n + 1 - windowMs \in Int /\ n + 1 - windowMs <= (n + 1) + 1 - windowMs
      BY <1>1
    <3>2. SumOver(h, Since(n + 1 - windowMs)) <= m
      BY <2>1 DEF BucketAt
    <3> QED BY <3>1, <3>2
  <2>2. CASE n < R
    <3>1. R = n + 1 /\ R - windowMs \in Int /\ R - windowMs <= (n + 1) + 1 - windowMs
      BY <1>1, <1>4, <2>2
    <3>2. SumOver(h, Since(R - windowMs)) <= m
      BY <2>2 DEF BucketAt
    <3> QED BY <3>1, <3>2
  <2> QED BY <1>1, <2>1, <2>2
<1>5. CASE n + 1 >= R
  <2>1. PICK x \in Int : x <= (n + 1) + 1 - windowMs /\ SumOver(h, Since(x)) <= m
    BY <1>4, <1>5
  <2>2. PICK y \in Int : y = (n + 1) + 1 - windowMs /\ x <= y
    BY <1>1, <2>1
  <2>3. /\ SumOver(h, Since(x)) \in Nat /\ SumOver(h, Since(y)) \in Nat
        /\ SumOver(h, Since(y)) <= SumOver(h, Since(x))
    BY <2>2, SinceLater
  <2>4. SumOver(h, Since((n + 1) + 1 - windowMs)) <= m
    BY <2>1, <2>2, <2>3
  <2>5. ~ (n + 1 < R)
    BY <1>1, <1>5
  <2> QED BY <1>2, <2>4, <2>5 DEF BucketAt
<1> QED BY <1>1, <1>3, <1>5

\* A window that has ended is swept away.
LEMMA SweepKeeps ==
    ASSUME NEW n \in Tick, NEW c \in Nat, NEW R \in Nat, NEW m \in Nat \ {0},
           NEW h, NEW a, BucketAt(n, c, R, m, h, a), n >= R
    PROVE  BucketAt(n, 0, 0, m, h, a)
<1>1. n \in Nat /\ windowMs \in Nat
  BY TickFacts, RateLimitAssumption
<1>2. 0 <= n + windowMs /\ ~ (n < 0)
  BY <1>1
<1> QED BY <1>2 DEF BucketAt

-----------------------------------------------------------------------------

LEMMA LimitType == \A l \in Limiter : limit(l) \in Nat \ {0}
BY RateLimitAssumption DEF limit

\* The histories count natural numbers.
LEMMA HistoryType ==
    LimiterTypeOK => asked \in Histories /\ served \in Histories /\ now \in Tick
<1> SUFFICES ASSUME LimiterTypeOK
             PROVE  asked \in Histories /\ served \in Histories /\ now \in Tick
  OBVIOUS
<1>1. 0..MaxPerTick \subseteq Nat
  BY RateLimitAssumption
<1>2. [Tick -> 0..MaxPerTick] \subseteq [Tick -> Nat]
  BY <1>1
<1>3. [Ip -> [Tick -> 0..MaxPerTick]] \subseteq [Ip -> [Tick -> Nat]]
  BY <1>2
<1> QED BY <1>3 DEF LimiterTypeOK, Histories

\* What a request does to the histories.
LEMMA RequestHistories ==
    ASSUME LimiterTypeOK, NEW L \in {{"all"}, Limiter}, NEW i \in Ip, Request(L, i)
    PROVE  /\ asked' \in Histories /\ Counts(asked', asked, L, i, now)
           /\ served' \in Histories
           /\ \/ served' = served
              \/ (\A l \in L : allowed(l, i)) /\ Counts(served', served, L, i, now)
<1>1. /\ asked' = OneMore(asked, L, i)
      /\ served' = IF \A l \in L : allowed(l, i) THEN OneMore(served, L, i) ELSE served
  BY DEF Request
<1>2. L \in SUBSET Limiter
  BY DEF Limiter
<1>3. OneMore(asked, L, i) \in Histories /\ Counts(OneMore(asked, L, i), asked, L, i, now)
  BY <1>2, HistoryType, OneMoreAt
<1>4. OneMore(served, L, i) \in Histories /\ Counts(OneMore(served, L, i), served, L, i, now)
  BY <1>2, HistoryType, OneMoreAt
<1> QED BY <1>1, <1>3, <1>4, HistoryType

LEMMA RequestAccounted ==
    ASSUME LimiterTypeOK, Accounted, NEW L \in {{"all"}, Limiter}, NEW i \in Ip, Request(L, i)
    PROVE  /\ Accounted'
           /\ \A l \in Limiter, j \in Ip, t \in Tick : asked'["all"][j][t] <= MaxPerTick
<1>1. /\ asked' \in Histories /\ Counts(asked', asked, L, i, now) /\ served' \in Histories
      /\ served' = served \/ Counts(served', served, L, i, now)
  BY RequestHistories
<1>2. "all" \in L /\ "all" \in Limiter
  BY DEF Limiter
<1>3. asked["all"][i][now] < MaxPerTick
  BY DEF Request
<1>4. ASSUME NEW l \in Limiter, NEW j \in Ip, NEW t \in Tick
      PROVE  /\ served'[l][j][t] <= asked'[l][j][t] /\ asked'[l][j][t] <= asked'["all"][j][t]
             /\ asked'["all"][j][t] <= MaxPerTick
  <2>1. /\ served[l][j][t] \in Nat /\ asked[l][j][t] \in Nat /\ asked["all"][j][t] \in Nat
        /\ asked["all"][j][t] <= MaxPerTick
        /\ served[l][j][t] <= asked[l][j][t] /\ asked[l][j][t] <= asked["all"][j][t]
    <3>1. asked \in Histories /\ served \in Histories
      BY HistoryType
    <3>2. asked["all"][j][t] \in 0..MaxPerTick
      BY <1>2 DEF LimiterTypeOK
    <3> QED BY <1>2, <3>1, <3>2 DEF Histories, Accounted
  <2>2. /\ asked'[l][j][t] = IF l \in L /\ j = i /\ t = now THEN asked[l][j][t] + 1
                             ELSE asked[l][j][t]
        /\ asked'["all"][j][t] = IF j = i /\ t = now THEN asked["all"][j][t] + 1
                                 ELSE asked["all"][j][t]
    BY <1>1, <1>2 DEF Counts
  <2>3. \/ served'[l][j][t] = served[l][j][t]
        \/ served'[l][j][t] = IF l \in L /\ j = i /\ t = now THEN served[l][j][t] + 1
                              ELSE served[l][j][t]
    BY <1>1 DEF Counts
  <2>4. MaxPerTick \in Nat
    BY RateLimitAssumption
  <2> QED BY <1>3, <2>1, <2>2, <2>3, <2>4
<1> QED BY <1>4 DEF Accounted

\* A history within its bound.
LEMMA HistoryBound ==
    ASSUME NEW h \in Histories,
           \A l \in Limiter, i \in Ip, t \in Tick : h[l][i][t] <= MaxPerTick
    PROVE  h \in [Limiter -> [Ip -> [Tick -> 0..MaxPerTick]]]
<1> USE DEF Histories
<1>1. ASSUME NEW l \in Limiter, NEW i \in Ip PROVE h[l][i] \in [Tick -> 0..MaxPerTick]
  <2>1. \A t \in Tick : h[l][i][t] \in 0..MaxPerTick
    BY RateLimitAssumption
  <2> QED BY <2>1
<1>2. ASSUME NEW l \in Limiter PROVE h[l] \in [Ip -> [Tick -> 0..MaxPerTick]]
  BY <1>1
<1> QED BY <1>2

\* What a request does to the buckets of the limiters it hits.
LEMMA RequestBuckets ==
    ASSUME LimiterTypeOK, NEW L \in {{"all"}, Limiter}, NEW i \in Ip, Request(L, i),
           NEW l \in Limiter, NEW j \in Ip
    PROVE  /\ l \in L /\ j = i => count'[l][j] = counted(l, i) /\ reset'[l][j] = resetAfter(l, i)
           /\ l \notin L \/ j # i =>
                \/ count'[l][j] = count[l][j] /\ reset'[l][j] = reset[l][j]
                \/ over(l, j) /\ count'[l][j] = 0 /\ reset'[l][j] = 0
<1>1. Hit(L, i)
  BY DEF Request
<1>2. /\ count'[l] = IF l \notin L THEN count[l] ELSE
                       [k \in Ip |-> IF k = i THEN counted(l, i)
                                     ELSE IF k \in swept(l, i) THEN 0 ELSE count[l][k]]
      /\ reset'[l] = IF l \notin L THEN reset[l] ELSE
                       [k \in Ip |-> IF k = i THEN resetAfter(l, i)
                                     ELSE IF k \in swept(l, i) THEN 0 ELSE reset[l][k]]
  BY <1>1 DEF Hit
<1>3. j \in swept(l, i) => over(l, j)
  BY DEF swept, over
<1> QED BY <1>2, <1>3

LEMMA BucketType ==
    ASSUME LimiterTypeOK, NEW l \in Limiter, NEW j \in Ip
    PROVE  /\ now \in Tick /\ now \in Nat /\ now <= MaxTime
           /\ count[l][j] \in Nat /\ reset[l][j] \in Nat /\ reset[l][j] <= MaxTime + windowMs
           /\ limit(l) \in Nat \ {0} /\ windowMs \in Nat /\ MaxTime \in Nat
<1>1. count[l][j] \in Nat /\ reset[l][j] \in 0..(MaxTime + windowMs) /\ now \in 0..MaxTime
  BY DEF LimiterTypeOK, Tick
<1> QED BY <1>1, RateLimitAssumption, LimitType DEF Tick

LEMMA RequestType ==
    ASSUME LimiterTypeOK, Accounted, NEW L \in {{"all"}, Limiter}, NEW i \in Ip, Request(L, i)
    PROVE  LimiterTypeOK'
<1>1. now' = now
  BY DEF Request
<1>2. ASSUME NEW l \in Limiter, NEW j \in Ip
      PROVE  count'[l][j] \in Nat /\ reset'[l][j] \in 0..(MaxTime + windowMs)
  <2>1. counted(l, i) \in Nat /\ resetAfter(l, i) \in 0..(MaxTime + windowMs)
    BY BucketType DEF counted, resetAfter
  <2>2. count[l][j] \in Nat /\ reset[l][j] \in 0..(MaxTime + windowMs)
        /\ 0 \in 0..(MaxTime + windowMs)
    BY BucketType
  <2>3. /\ l \in L /\ j = i => count'[l][j] = counted(l, i) /\ reset'[l][j] = resetAfter(l, i)
        /\ l \notin L \/ j # i =>
             \/ count'[l][j] = count[l][j] /\ reset'[l][j] = reset[l][j]
             \/ over(l, j) /\ count'[l][j] = 0 /\ reset'[l][j] = 0
    BY RequestBuckets
  <2> QED BY <2>1, <2>2, <2>3
<1>3. /\ count' \in [Limiter -> [Ip -> Nat]]
      /\ reset' \in [Limiter -> [Ip -> 0..(MaxTime + windowMs)]]
  <2>1. \A l \in Limiter : count'[l] = [j \in Ip |-> count'[l][j]]
                           /\ reset'[l] = [j \in Ip |-> reset'[l][j]]
    BY DEF Request, Hit, LimiterTypeOK
  <2>2. /\ count' = [l \in Limiter |-> count'[l]]
        /\ reset' = [l \in Limiter |-> reset'[l]]
    BY DEF Request, Hit
  <2>3. \A l \in Limiter : /\ count'[l] \in [Ip -> Nat]
                           /\ reset'[l] \in [Ip -> 0..(MaxTime + windowMs)]
    BY <1>2, <2>1
  <2> QED BY <2>2, <2>3
<1>4. /\ asked' \in [Limiter -> [Ip -> [Tick -> 0..MaxPerTick]]]
      /\ served' \in [Limiter -> [Ip -> [Tick -> 0..MaxPerTick]]]
  <2>1. asked' \in Histories /\ served' \in Histories
    BY RequestHistories
  <2>2. \A l \in Limiter, j \in Ip, t \in Tick :
          asked'[l][j][t] <= MaxPerTick /\ served'[l][j][t] <= MaxPerTick
    <3>1. /\ \A l \in Limiter, j \in Ip, t \in Tick :
               served'[l][j][t] <= asked'[l][j][t] /\ asked'[l][j][t] <= asked'["all"][j][t]
          /\ \A l \in Limiter, j \in Ip, t \in Tick : asked'["all"][j][t] <= MaxPerTick
      BY RequestAccounted DEF Accounted
    <3>2. \A l \in Limiter, j \in Ip, t \in Tick :
            served'[l][j][t] \in Nat /\ asked'[l][j][t] \in Nat /\ asked'["all"][j][t] \in Nat
      BY <2>1 DEF Histories, Limiter
    <3> QED BY <3>1, <3>2, RateLimitAssumption
  <2> QED BY <2>1, <2>2, HistoryBound
<1> QED BY <1>1, <1>3, <1>4 DEF LimiterTypeOK

LEMMA RequestStep ==
    ASSUME LimiterInv, NEW L \in {{"all"}, Limiter}, NEW i \in Ip, Request(L, i)
    PROVE  LimiterInv'
<1>1. LimiterTypeOK' /\ Accounted'
  BY RequestType, RequestAccounted DEF LimiterInv
<1>2. ASSUME NEW l \in Limiter, NEW j \in Ip PROVE Bucket(l, j)'
  <2>1. /\ now' = now /\ now \in Tick /\ now \in Nat
        /\ count[l][j] \in Nat /\ reset[l][j] \in Nat /\ limit(l) \in Nat \ {0}
    BY BucketType DEF Request, LimiterInv
  <2>2. BucketAt(now, count[l][j], reset[l][j], limit(l), served[l][j], asked[l][j])
    BY DEF LimiterInv, Bucket
  <2>3. PICK h \in [Tick -> Nat] : h = served[l][j]
    BY HistoryType DEF LimiterInv, Histories
  <2>4. PICK a \in [Tick -> Nat] : a = asked[l][j]
    BY HistoryType DEF LimiterInv, Histories
  <2>5. /\ asked' \in Histories /\ Counts(asked', asked, L, i, now) /\ served' \in Histories
        /\ \/ served' = served
           \/ (\A k \in L : allowed(k, i)) /\ Counts(served', served, L, i, now)
    BY RequestHistories DEF LimiterInv
  <2>6. PICK g \in [Tick -> Nat] : g = served'[l][j]
    BY <2>5 DEF Histories
  <2>7. PICK b \in [Tick -> Nat] : b = asked'[l][j]
    BY <2>5 DEF Histories
  <2>8. PICK d, Q : d = count'[l][j] /\ Q = reset'[l][j]
    OBVIOUS
  <2>9. /\ l \in L /\ j = i => d = counted(l, i) /\ Q = resetAfter(l, i)
        /\ l \notin L \/ j # i =>
             \/ d = count[l][j] /\ Q = reset[l][j]
             \/ over(l, j) /\ d = 0 /\ Q = 0
    BY <2>8, RequestBuckets DEF LimiterInv
  <2>10. BucketAt(now, d, Q, limit(l), g, b)
    <3>1. CASE l \in L /\ j = i
      <4>1. d = (IF now >= reset[l][j] THEN 1 ELSE count[l][j] + 1)
            /\ Q = (IF now >= reset[l][j] THEN now + windowMs ELSE reset[l][j])
        BY <2>9, <3>1 DEF counted, resetAfter, over
      <4>2. Ticked(b, a, now)
        BY <2>4, <2>5, <2>7, <3>1 DEF Counts, Ticked
      <4>3. g = h \/ (d <= limit(l) /\ Ticked(g, h, now))
        <5>1. CASE served' = served
          BY <2>3, <2>6, <5>1
        <5>2. CASE (\A k \in L : allowed(k, i)) /\ Counts(served', served, L, i, now)
          <6>1. d <= limit(l)
            BY <2>9, <3>1, <5>2 DEF allowed
          <6>2. Ticked(g, h, now)
            BY <2>3, <2>6, <3>1, <5>2 DEF Counts, Ticked
          <6> QED BY <6>1, <6>2
        <5> QED BY <2>5, <5>1, <5>2
      <4>4. PICK n, c, R, m : n = now /\ c = count[l][j] /\ R = reset[l][j] /\ m = limit(l)
        OBVIOUS
      <4>5. BucketAt(n, c, R, m, h, a)
        BY <2>2, <2>3, <2>4, <4>4
      <4>6. /\ n \in Tick /\ c \in Nat /\ R \in Nat /\ m \in Nat \ {0}
            /\ d = (IF n >= R THEN 1 ELSE c + 1)
            /\ Q = (IF n >= R THEN n + windowMs ELSE R)
            /\ Ticked(b, a, n) /\ (g = h \/ (d <= m /\ Ticked(g, h, n)))
        BY <2>1, <4>1, <4>2, <4>3, <4>4
      <4>7. BucketAt(n, d, Q, m, g, b)
        BY <4>5, <4>6, HitKeeps
      <4> QED BY <4>4, <4>7
    <3>2. CASE l \notin L \/ j # i
      <4>1. b = a
        <5>1. \A t \in Tick : b[t] = a[t]
          BY <2>4, <2>5, <2>7, <3>2 DEF Counts
        <5> QED BY <5>1
      <4>2. g = h
        <5>1. \A t \in Tick : g[t] = h[t]
          BY <2>3, <2>5, <2>6, <3>2 DEF Counts
        <5> QED BY <5>1
      <4>3. CASE d = count[l][j] /\ Q = reset[l][j]
        BY <2>2, <2>3, <2>4, <4>1, <4>2, <4>3
      <4>4. CASE over(l, j) /\ d = 0 /\ Q = 0
        <5>1. PICK n, c, R, m : n = now /\ c = count[l][j] /\ R = reset[l][j] /\ m = limit(l)
          OBVIOUS
        <5>2. /\ n \in Tick /\ c \in Nat /\ R \in Nat /\ m \in Nat \ {0}
              /\ BucketAt(n, c, R, m, h, a) /\ n >= R
          BY <2>1, <2>2, <2>3, <2>4, <4>4, <5>1 DEF over
        <5>3. BucketAt(n, 0, 0, m, h, a)
          BY <5>2, SweepKeeps
        <5> QED BY <4>1, <4>2, <4>4, <5>1, <5>3
      <4> QED BY <2>9, <3>2, <4>3, <4>4
    <3> QED BY <3>1, <3>2
  <2>11. limit(l)' = limit(l)
    BY DEF limit
  <2> QED BY <2>1, <2>6, <2>7, <2>8, <2>10, <2>11 DEF Bucket
<1> QED BY <1>1, <1>2 DEF LimiterInv

LEMMA ElapseStep == ASSUME LimiterInv, Elapse PROVE LimiterInv'
<1>1. now < MaxTime /\ now' = now + 1 /\ UNCHANGED <<count, reset, asked, served>>
  BY DEF Elapse
<1>2. now' \in Tick
  BY <1>1, RateLimitAssumption DEF LimiterInv, LimiterTypeOK, Tick
<1>3. LimiterTypeOK' /\ Accounted'
  BY <1>1, <1>2 DEF LimiterInv, LimiterTypeOK, Accounted
<1>4. ASSUME NEW l \in Limiter, NEW j \in Ip PROVE Bucket(l, j)'
  <2>1. PICK n, c, R, m, h, a :
          /\ n = now /\ c = count[l][j] /\ R = reset[l][j] /\ m = limit(l)
          /\ h = served[l][j] /\ a = asked[l][j]
    OBVIOUS
  <2>2. /\ n \in Tick /\ n + 1 \in Tick /\ c \in Nat /\ R \in Nat /\ m \in Nat \ {0}
    BY <1>1, <1>2, <2>1, BucketType DEF LimiterInv
  <2>3. h \in [Tick -> Nat] /\ a \in [Tick -> Nat]
    BY <2>1, HistoryType DEF LimiterInv, Histories
  <2>4. BucketAt(n, c, R, m, h, a)
    BY <2>1 DEF LimiterInv, Bucket
  <2>5. BucketAt(n + 1, c, R, m, h, a)
    BY <2>2, <2>3, <2>4, ElapseKeeps
  <2>6. limit(l)' = limit(l)
    BY DEF limit
  <2> QED BY <1>1, <2>1, <2>5, <2>6 DEF Bucket
<1> QED BY <1>3, <1>4 DEF LimiterInv

LEMMA LimiterStart == LimiterInit => LimiterInv
<1> SUFFICES ASSUME LimiterInit PROVE LimiterInv
  OBVIOUS
<1>1. now = 0 /\ now \in Tick
  BY RateLimitAssumption DEF LimiterInit, Tick
<1>2. \A l \in Limiter, i \in Ip :
        /\ count[l][i] = 0 /\ reset[l][i] = 0
        /\ served[l][i] = [t \in Tick |-> 0] /\ asked[l][i] = [t \in Tick |-> 0]
  BY DEF LimiterInit
<1>3. 0 \in 0..MaxPerTick /\ 0 \in 0..(MaxTime + windowMs)
  BY RateLimitAssumption
<1>4. LimiterTypeOK
  <2>1. [t \in Tick |-> 0] \in [Tick -> 0..MaxPerTick]
    BY <1>3
  <2>2. [i \in Ip |-> [t \in Tick |-> 0]] \in [Ip -> [Tick -> 0..MaxPerTick]]
    BY <2>1
  <2>3. /\ asked \in [Limiter -> [Ip -> [Tick -> 0..MaxPerTick]]]
        /\ served \in [Limiter -> [Ip -> [Tick -> 0..MaxPerTick]]]
    BY <2>2 DEF LimiterInit
  <2>4. /\ count \in [Limiter -> [Ip -> Nat]]
        /\ reset \in [Limiter -> [Ip -> 0..(MaxTime + windowMs)]]
    BY <1>3 DEF LimiterInit
  <2> QED BY <1>1, <2>3, <2>4 DEF LimiterTypeOK
<1>5. Accounted
  <2>1. "all" \in Limiter
    BY DEF Limiter
  <2> QED BY <1>2, <2>1 DEF Accounted
<1>6. ASSUME NEW l \in Limiter, NEW i \in Ip PROVE Bucket(l, i)
  <2>1. PICK h : h = [t \in Tick |-> 0]
    OBVIOUS
  <2>2. SumOver(h, Since(0 + 1 - windowMs)) = 0
    <3>1. PICK S : S = Since(0 + 1 - windowMs)
      OBVIOUS
    <3>2. IsFiniteSet(S) /\ S \in SUBSET Tick
      BY <3>1, TickFacts
    <3>3. \A t \in S : h[t] = 0
      BY <2>1, <3>2
    <3> QED BY <3>1, <3>2, <3>3, TotalZero
  <2>3. BucketAt(0, 0, 0, limit(l), h, h)
    BY <1>1, <2>1, <2>2, LimitType, RateLimitAssumption DEF BucketAt
  <2> QED BY <1>1, <1>2, <2>1, <2>3 DEF Bucket
<1> QED BY <1>4, <1>5, <1>6 DEF LimiterInv

LEMMA LimiterHolds == LimiterSpec => []LimiterInv
<1>1. LimiterInv /\ [LimiterNext]_limiterVars => LimiterInv'
  <2>1. ASSUME LimiterInv, NEW i \in Ip, Request({"all"}, i) \/ Request(Limiter, i)
        PROVE  LimiterInv'
    BY <2>1, RequestStep
  <2>2. ASSUME LimiterInv, UNCHANGED limiterVars PROVE LimiterInv'
    BY <2>2 DEF limiterVars, LimiterInv, LimiterTypeOK, Accounted, Bucket, limit
  <2> QED BY <2>1, <2>2, ElapseStep DEF LimiterNext
<1> QED BY <1>1, LimiterStart, PTL DEF LimiterSpec

-----------------------------------------------------------------------------

\* The buckets of hit in src/server/ratelimit.js and the histories of what a
\* client asked for and was served keep to their types.
THEOREM LimiterTypeCorrect == LimiterSpec => []LimiterTypeOK
<1>1. LimiterInv => LimiterTypeOK
  BY DEF LimiterInv
<1> QED BY <1>1, LimiterHolds, PTL

\* However a client spreads its requests over two windows of the limiter, no
\* span of a window's length serves it more than twice the limit.
THEOREM TwiceAtMost == LimiterSpec => []AtMostTwice
<1>1. ASSUME LimiterInv, NEW l \in Limiter, NEW i \in Ip
      PROVE  Recent(served[l][i]) <= 2 * limit(l)
  <2>1. /\ now \in Nat /\ reset[l][i] \in Nat /\ limit(l) \in Nat \ {0}
        /\ windowMs \in Nat
    BY <1>1, BucketType DEF LimiterInv
  <2>2. BucketAt(now, count[l][i], reset[l][i], limit(l), served[l][i], asked[l][i])
    BY <1>1 DEF LimiterInv, Bucket
  <2>3. PICK h \in [Tick -> Nat] : h = served[l][i]
    BY <1>1, HistoryType DEF LimiterInv, Histories
  <2>4. \E x \in Int : x <= now + 1 - windowMs /\ SumOver(h, Since(x)) <= 2 * limit(l)
    <3>1. CASE now >= reset[l][i]
      <4>1. SumOver(h, Since(now + 1 - windowMs)) <= limit(l)
        BY <2>2, <2>3, <3>1 DEF BucketAt
      <4>2. PICK x \in Int : x = now + 1 - windowMs
        BY <2>1
      <4>3. SumOver(h, Since(x)) \in Nat
        BY SinceLater
      <4> QED BY <2>1, <4>1, <4>2, <4>3
    <3>2. CASE now < reset[l][i]
      <4>1. /\ SumOver(h, Since(reset[l][i] + 1 - 2 * windowMs)) <= 2 * limit(l)
            /\ reset[l][i] <= now + windowMs
        BY <2>2, <2>3, <3>2 DEF BucketAt
      <4>2. /\ reset[l][i] + 1 - 2 * windowMs \in Int
            /\ reset[l][i] + 1 - 2 * windowMs <= now + 1 - windowMs
        BY <2>1, <4>1
      <4> QED BY <4>1, <4>2
    <3> QED BY <2>1, <3>1, <3>2
  <2>5. PICK x \in Int : x <= now + 1 - windowMs /\ SumOver(h, Since(x)) <= 2 * limit(l)
    BY <2>4
  <2>6. Last \in SUBSET Since(x)
    <3>1. \A t \in Tick : t \in Nat
      BY TickFacts
    <3> QED BY <2>1, <2>5, <3>1 DEF Last, Since
  <2>7. SumOver(h, Last) <= SumOver(h, Since(x)) /\ SumOver(h, Last) \in Nat
        /\ SumOver(h, Since(x)) \in Nat
    <3>1. IsFiniteSet(Since(x)) /\ Since(x) \in SUBSET Tick
      BY TickFacts
    <3>2. \A t \in Since(x) : h[t] \in Nat
      BY <3>1
    <3>3. IsFiniteSet(Last) /\ \A t \in Last : h[t] \in Nat
      BY <2>6, <3>1, <3>2, FS_Subset
    <3> QED BY <2>6, <3>1, <3>2, <3>3, TotalGrows, TotalType
  <2> QED BY <2>1, <2>3, <2>5, <2>7, RecentSum
<1>2. LimiterInv => AtMostTwice
  BY <1>1 DEF AtMostTwice
<1> QED BY <1>2, LimiterHolds, PTL

\* A request that is turned away has its client's own requests of the last
\* window to blame, as many as the limit of one of the limiters it hits.
LEMMA DenialCounts ==
    ASSUME LimiterInv, NEW L \in {{"all"}, Limiter}, NEW i \in Ip, Request(L, i),
           served' = served
    PROVE  \E l \in L : Recent(asked[l][i]) >= limit(l)
<1>1. PICK l \in L : ~ allowed(l, i)
  <2>1. ASSUME \A l \in L : allowed(l, i) PROVE FALSE
    <3>1. served' = OneMore(served, L, i) /\ L \in SUBSET Limiter
      BY <2>1 DEF Request, Limiter
    <3>2. Counts(served', served, L, i, now) /\ now \in Tick /\ served \in Histories
      BY <3>1, OneMoreAt, HistoryType DEF LimiterInv
    <3>3. "all" \in L /\ "all" \in Limiter
      BY DEF Limiter
    <3>4. served["all"][i][now] \in Nat
          /\ served'["all"][i][now] = served["all"][i][now] + 1
      BY <3>2, <3>3 DEF Counts, Histories
    <3> QED BY <3>4
  <2> QED BY <2>1
<1>2. l \in Limiter
  BY DEF Limiter
<1>3. /\ now \in Nat /\ now \in Tick /\ reset[l][i] \in Nat /\ count[l][i] \in Nat
      /\ limit(l) \in Nat \ {0} /\ windowMs \in Nat \ {0}
  BY <1>2, BucketType, RateLimitAssumption DEF LimiterInv
<1>4. BucketAt(now, count[l][i], reset[l][i], limit(l), served[l][i], asked[l][i])
  BY <1>2 DEF LimiterInv, Bucket
<1>5. now < reset[l][i] /\ limit(l) <= count[l][i]
  BY <1>1, <1>3 DEF allowed, counted, over
<1>6. PICK a \in [Tick -> Nat] : a = asked[l][i]
  BY <1>2, HistoryType DEF LimiterInv, Histories
<1>7. PICK x \in Int : x = reset[l][i] - windowMs /\ now < x + windowMs /\ x <= now
  BY <1>3, <1>4, <1>5 DEF BucketAt
<1>8. count[l][i] <= SumOver(a, Since(x)) /\ SumOver(a, Since(x)) \in Nat
  <2>1. SumOver(a, Since(x)) \in Nat
    BY SinceLater
  <2> QED BY <1>4, <1>5, <1>6, <1>7, <2>1 DEF BucketAt
<1>9. SumOver(a, Since(x)) <= SumOver(a, Last) /\ SumOver(a, Last) \in Nat
  <2>1. \A t \in Tick : t \in Nat /\ (now < t => a[t] = 0)
    BY <1>4, <1>6, TickFacts DEF BucketAt
  <2>2. PICK T : T = Since(x) \cap Last
    OBVIOUS
  <2>3. /\ IsFiniteSet(Since(x)) /\ Since(x) \in SUBSET Tick
        /\ IsFiniteSet(Last) /\ Last \in SUBSET Tick
    BY TickFacts, FS_Subset DEF Last
  <2>4. /\ \A t \in Since(x) : a[t] \in Nat /\ a[t] \in Int
        /\ \A t \in Last : a[t] \in Nat
    BY <2>3
  <2>5. \A t \in Since(x) \ T : a[t] = 0
    <3>1. ASSUME NEW t \in Since(x), t \notin Last PROVE now < t
      <4>1. t \in Nat /\ t \in Tick /\ x <= t
        BY <2>1, <3>1 DEF Since
      <4>2. now < t + windowMs
        BY <1>3, <1>5, <1>7, <4>1
      <4> QED BY <1>3, <3>1, <4>1, <4>2 DEF Last
    <3> QED BY <2>1, <2>2, <2>3, <3>1
  <2>6. T \in SUBSET Since(x) /\ T \in SUBSET Last
    BY <2>2
  <2>7. SumOver(a, Since(x)) = SumOver(a, T)
    BY <2>3, <2>4, <2>5, <2>6, TotalPart
  <2>8. SumOver(a, T) <= SumOver(a, Last)
    BY <2>3, <2>4, <2>6, TotalGrows
  <2> QED BY <2>3, <2>4, <2>7, <2>8, TotalType
<1>10. Recent(asked[l][i]) = SumOver(a, Last)
  BY <1>6, RecentSum
<1>11. Recent(asked[l][i]) >= limit(l)
  BY <1>3, <1>5, <1>8, <1>9, <1>10
<1> QED BY <1>11

\* No one is turned away for what others ask or for what is older than a
\* window: a full bucket counts what its own client asked within it.
THEOREM DenialsAreDeserved == LimiterSpec => DenialsDeserved
<1>1. LimiterInv /\ [LimiterNext]_limiterVars =>
        [\A i \in Ip, L \in {{"all"}, Limiter} :
           Request(L, i) /\ served' = served =>
             \E l \in L : Recent(asked[l][i]) >= limit(l)]_limiterVars
  BY DenialCounts
<1> QED BY <1>1, LimiterHolds, PTL DEF LimiterSpec, DenialsDeserved

=============================================================================
