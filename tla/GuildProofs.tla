---------------------------- MODULE GuildProofs -----------------------------
(***************************************************************************)
(* Theorems about Guild, for every value of its constants.                 *)
(***************************************************************************)
EXTENDS Guild, FiniteSums

(***************************************************************************)
(* What a request's program counter promises about its job.                *)
(***************************************************************************)
WellFormed ==
    \A r \in Req :
        /\ pc[r] # "idle" => job[r].who \in Player
        /\ job[r].op \in {"create", "join"} => job[r].con \in Con
        /\ job[r].op = "visit" => job[r].other \in Player /\ job[r].con = NoCon
        /\ pc[r] = "other" => job[r].op = "visit"
        /\ pc[r] = "name" => job[r].op = "create"

Bound(j) == /\ j.who \in Player
            /\ j.op \in {"create", "join"} => j.con \in Con
            /\ j.op = "visit" => j.other \in Player /\ j.con = NoCon

TypeInv == TypeOK /\ WellFormed

USE DEF Job, NoJob, Stages, tables

LEMMA NewConType == NewCon \in ConObject
BY DEF NewCon, ConObject

LEMMA AddMemberType ==
    ASSUME NEW c \in ConObject, NEW p \in Player
    PROVE  addMember(c, p) \in ConObject
BY DEF addMember, ConObject

LEMMA CreditedType ==
    ASSUME NEW c \in ConObject, NEW p \in Player
    PROVE  credited(c, p) \in ConObject
<1> DEFINE gave == [c.gave EXCEPT ![p] = IF p \in c.members THEN @ + Amount ELSE @]
<1>1. gave \in [Player -> Nat] /\ c.score + Amount \in Nat
  BY GuildAssumption DEF ConObject
<1>2. credited(c, p) = [[c EXCEPT !.score = c.score + Amount] EXCEPT !.gave = gave]
  BY DEF credited, ConObject
<1> HIDE DEF gave
<1> QED
  BY <1>1, <1>2 DEF ConObject

LEMMA EndType ==
    ASSUME TypeInv, NEW r \in Req, End(r)
    PROVE  /\ job' \in [Req -> Job] /\ pc' \in [Req -> Stages]
           /\ flags' \in [Req -> [Player -> Con \cup {NoCon}]]
           /\ con' \in [Req -> ConObject]
           /\ WellFormed'
           /\ \A q \in Req : pc'[q] \in {"name", "con", "members", "run"}
                                => job'[q].con \in Con
<1>1. pc' = [pc EXCEPT ![r] = "idle"] /\ job' = [job EXCEPT ![r] = NoJob]
  BY DEF End, Advance
<1>2. job' \in [Req -> Job] /\ pc' \in [Req -> Stages]
  BY <1>1 DEF TypeInv, TypeOK
<1>3. flags' \in [Req -> [Player -> Con \cup {NoCon}]]
  BY DEF TypeInv, TypeOK, End
<1>4. con' \in [Req -> ConObject]
  BY NewConType DEF TypeInv, TypeOK, End
<1>5. \A q \in Req : q # r => pc'[q] = pc[q] /\ job'[q] = job[q]
  BY <1>1 DEF TypeInv, TypeOK
<1>6. pc'[r] = "idle" /\ job'[r] = NoJob
  BY <1>1 DEF TypeInv, TypeOK
<1>7. WellFormed'
  BY <1>5, <1>6 DEF TypeInv, WellFormed
<1>8. \A q \in Req : pc'[q] \in {"name", "con", "members", "run"} => job'[q].con \in Con
  BY <1>5, <1>6 DEF TypeInv, TypeOK
<1> QED
  BY <1>2, <1>3, <1>4, <1>7, <1>8

LEMMA DropType ==
    ASSUME TypeInv, NEW r \in Req, Drop(r)
    PROVE  TypeInv'
BY EndType DEF Drop, TypeInv, TypeOK

LEMMA SubmitType ==
    ASSUME TypeInv, NEW r \in Req, NEW j \in Job, Bound(j), Submit(r, j)
    PROVE  TypeInv'
<1>1. budget' \in 0..Budget
  BY GuildAssumption DEF TypeInv, TypeOK, Submit
<1>2. job' \in [Req -> Job] /\ pc' \in [Req -> Stages]
  BY DEF TypeInv, TypeOK, Submit
<1>3. \A q \in Req : q # r => pc'[q] = pc[q] /\ job'[q] = job[q]
  BY DEF TypeInv, TypeOK, Submit
<1>4. pc'[r] = "self" /\ job'[r] = j
  BY DEF TypeInv, TypeOK, Submit
<1>5. WellFormed'
  BY <1>3, <1>4 DEF TypeInv, WellFormed, Bound
<1> QED
  BY <1>1, <1>2, <1>3, <1>4, <1>5 DEF TypeInv, TypeOK, Submit

\* A request that keeps its job and goes on to its next statement.
LEMMA AdvanceType ==
    ASSUME TypeInv, NEW r \in Req, NEW next \in Stages \ {"idle", "other"},
           pc[r] # "idle", Advance(r, next), UNCHANGED job,
           next = "name" => job[r].op = "create",
           next \in {"name", "con", "members", "run"} => job[r].con \in Con
    PROVE  /\ pc' \in [Req -> Stages] /\ job' \in [Req -> Job]
           /\ WellFormed'
           /\ \A q \in Req : pc'[q] \in {"name", "con", "members", "run"}
                                => job'[q].con \in Con
<1>1. pc' \in [Req -> Stages]
  BY DEF Advance, TypeInv, TypeOK
<1>2. pc'[r] = next /\ \A q \in Req : q # r => pc'[q] = pc[q]
  BY DEF Advance, TypeInv, TypeOK
<1> QED
  BY <1>1, <1>2 DEF TypeInv, TypeOK, WellFormed

LEMMA TypeStep == TypeInv /\ [Next]_vars => TypeInv'
<1> SUFFICES ASSUME TypeInv, [Next]_vars PROVE TypeInv'
  OBVIOUS
<1>1. CASE UNCHANGED vars
  BY <1>1 DEF vars, TypeInv, TypeOK, WellFormed
<1>2. ASSUME NEW r \in Req, Arrive(r) PROVE TypeInv'
  <2>1. PICK p \in Player :
          \/ \E c \in Undrawn :
               Submit(r, [NoJob EXCEPT !.op = "create", !.who = p, !.con = c])
          \/ \E c \in Con :
               Submit(r, [NoJob EXCEPT !.op = "join", !.who = p, !.con = c])
          \/ Submit(r, [NoJob EXCEPT !.op = "hatch", !.who = p])
          \/ \E q \in Player \ {p} :
               Submit(r, [NoJob EXCEPT !.op = "visit", !.who = p, !.other = q])
    BY <1>2 DEF Arrive
  <2>2. PICK j \in Job : Bound(j) /\ Submit(r, j)
    <3>1. \A c \in Con : /\ [NoJob EXCEPT !.op = "create", !.who = p, !.con = c] \in Job
                         /\ Bound([NoJob EXCEPT !.op = "create", !.who = p, !.con = c])
      BY DEF Bound
    <3>2. \A c \in Con : /\ [NoJob EXCEPT !.op = "join", !.who = p, !.con = c] \in Job
                         /\ Bound([NoJob EXCEPT !.op = "join", !.who = p, !.con = c])
      BY DEF Bound
    <3>3. /\ [NoJob EXCEPT !.op = "hatch", !.who = p] \in Job
          /\ Bound([NoJob EXCEPT !.op = "hatch", !.who = p])
      BY DEF Bound
    <3>4. \A q \in Player : /\ [NoJob EXCEPT !.op = "visit", !.who = p, !.other = q] \in Job
                            /\ Bound([NoJob EXCEPT !.op = "visit", !.who = p, !.other = q])
      BY DEF Bound
    <3>5. Undrawn \subseteq Con
      BY DEF Undrawn
    <3> HIDE DEF Job, NoJob
    <3> QED
      BY <2>1, <3>1, <3>2, <3>3, <3>4, <3>5
  <2> QED
    BY <2>2, SubmitType
<1>3. ASSUME NEW r \in Req, ReadSelf(r) PROVE TypeInv'
  <2> DEFINE c == flag[job[r].who]
  <2>1. job[r].who \in Player /\ c \in Con \cup {NoCon} /\ pc[r] = "self"
    BY <1>3 DEF ReadSelf, TypeInv, TypeOK, WellFormed
  <2>2. flags' \in [Req -> [Player -> Con \cup {NoCon}]]
    BY <1>3, <2>1 DEF ReadSelf, TypeInv, TypeOK
  <2>3. CASE /\ job[r].op \in {"create", "join"} /\ UNCHANGED job
             /\ Advance(r, IF job[r].op = "create" THEN "name" ELSE "con")
    <3>1. job[r].con \in Con
      BY <2>3 DEF TypeInv, WellFormed
    <3> QED
      BY <1>3, <2>1, <2>2, <2>3, <3>1, AdvanceType DEF ReadSelf, TypeInv, TypeOK
  <2>4. CASE /\ job[r].op = "hatch" /\ job' = [job EXCEPT ![r].con = c]
             /\ Advance(r, IF contributes(c) THEN "con" ELSE "save")
    <3>1. job' \in [Req -> Job] /\ pc' \in [Req -> Stages]
      BY <2>1, <2>4 DEF Advance, TypeInv, TypeOK
    <3>2. /\ job'[r].con = c /\ job'[r].op = "hatch" /\ job'[r].who \in Player
          /\ pc'[r] \in {"con", "save"} /\ (pc'[r] = "con" => c \in Con)
      BY <2>1, <2>4 DEF Advance, contributes, TypeInv, TypeOK
    <3>3. \A q \in Req : q # r => job'[q] = job[q] /\ pc'[q] = pc[q]
      BY <2>4 DEF Advance, TypeInv, TypeOK
    <3>4. WellFormed'
      BY <3>2, <3>3 DEF TypeInv, WellFormed
    <3> QED
      BY <1>3, <2>2, <3>1, <3>2, <3>3, <3>4 DEF ReadSelf, TypeInv, TypeOK
  <2>5. CASE job[r].op = "visit" /\ Advance(r, "other") /\ UNCHANGED job
    <3>1. /\ pc' \in [Req -> Stages] /\ pc'[r] = "other"
          /\ \A q \in Req : q # r => pc'[q] = pc[q]
      BY <2>5 DEF Advance, TypeInv, TypeOK
    <3>2. WellFormed'
      BY <2>1, <2>5, <3>1 DEF TypeInv, WellFormed
    <3> QED
      BY <1>3, <2>2, <2>5, <3>1, <3>2 DEF ReadSelf, TypeInv, TypeOK
  <2> QED
    BY <1>3, <2>3, <2>4, <2>5 DEF ReadSelf
<1>4. ASSUME NEW r \in Req, ReadOther(r) PROVE TypeInv'
  <2>1. job[r].other \in Player
    BY <1>4 DEF ReadOther, TypeInv, WellFormed
  <2>2. flags' \in [Req -> [Player -> Con \cup {NoCon}]]
    BY <1>4, <2>1 DEF ReadOther, TypeInv, TypeOK
  <2> QED
    BY <1>4, <2>2, AdvanceType DEF ReadOther, TypeInv, TypeOK
<1>5. ASSUME NEW r \in Req, ReadName(r) PROVE TypeInv'
  <2>1. job[r].con \in Con
    BY <1>5 DEF ReadName, TypeInv, TypeOK
  <2> QED
    BY <1>5, <2>1, AdvanceType DEF ReadName, TypeInv, TypeOK
<1>6. ASSUME NEW r \in Req, ReadCon(r) PROVE TypeInv'
  <2>1. job[r].con \in Con
    BY <1>6 DEF ReadCon, TypeInv, TypeOK
  <2>2. con' \in [Req -> ConObject]
    BY <1>6, <2>1 DEF ReadCon, ConObject, TypeInv, TypeOK
  <2> QED
    BY <1>6, <2>1, <2>2, AdvanceType DEF ReadCon, TypeInv, TypeOK
<1>7. ASSUME NEW r \in Req, ReadMembers(r) PROVE TypeInv'
  <2>1. job[r].con \in Con
    BY <1>7 DEF ReadMembers, TypeInv, TypeOK
  <2>2. con' \in [Req -> ConObject]
    <3>1. Members(job[r].con) \in SUBSET Player
      BY DEF Members
    <3>2. [p \in Player |-> IF guild[p] = job[r].con THEN contributed[p] ELSE 0]
             \in [Player -> Nat]
      BY DEF TypeInv, TypeOK
    <3>3. con[r] \in ConObject
      BY DEF TypeInv, TypeOK
    <3>4. \A ms \in SUBSET Player, g \in [Player -> Nat] :
             [con[r] EXCEPT !.members = ms, !.gave = g] \in ConObject
      BY <3>3 DEF ConObject
    <3>5. con' = [con EXCEPT ![r] =
             [@ EXCEPT !.members = Members(job[r].con),
                       !.gave = [p \in Player |->
                          IF guild[p] = job[r].con THEN contributed[p] ELSE 0]]]
      BY <1>7 DEF ReadMembers, TypeInv, TypeOK
    <3> QED
      BY <3>1, <3>2, <3>4, <3>5 DEF TypeInv, TypeOK
  <2> QED
    BY <1>7, <2>1, <2>2, AdvanceType DEF ReadMembers, TypeInv, TypeOK
<1>8. ASSUME NEW r \in Req, HandleCreate(r) \/ HandleJoin(r) PROVE TypeInv'
  <2>1. job[r].who \in Player /\ job[r].con \in Con /\ con[r] \in ConObject
    BY <1>8 DEF HandleCreate, HandleJoin, TypeInv, TypeOK, WellFormed
  <2>2. PICK c \in ConObject : con' = [con EXCEPT ![r] = addMember(c, job[r].who)]
    BY <1>8, <2>1, NewConType DEF HandleCreate, HandleJoin
  <2>3. con' \in [Req -> ConObject]
    BY <2>1, <2>2, AddMemberType DEF TypeInv, TypeOK
  <2>4. flags' = [flags EXCEPT ![r][job[r].who] = job[r].con]
    BY <1>8 DEF HandleCreate, HandleJoin
  <2>5. flags' \in [Req -> [Player -> Con \cup {NoCon}]]
    BY <2>1, <2>4 DEF TypeInv, TypeOK
  <2>6. /\ pc[r] # "idle" /\ Advance(r, "save")
        /\ UNCHANGED <<tables, job, given, crossed, budget>>
    BY <1>8 DEF HandleCreate, HandleJoin
  <2> QED
    BY <2>3, <2>5, <2>6, AdvanceType DEF TypeInv, TypeOK
<1>9. ASSUME NEW r \in Req, HandleHatch(r) PROVE TypeInv'
  <2>1. job[r].who \in Player /\ con[r] \in ConObject
    BY <1>9 DEF HandleHatch, TypeInv, TypeOK, WellFormed
  <2>2. con' \in [Req -> ConObject]
    BY <1>9, <2>1, CreditedType DEF HandleHatch, TypeInv, TypeOK
  <2> QED
    BY <1>9, <2>2, AdvanceType DEF HandleHatch, TypeInv, TypeOK
<1>10. ASSUME NEW r \in Req, SaveCon(r) PROVE TypeInv'
  <2>1. job[r].con \in Con /\ con[r] \in ConObject
    BY <1>10 DEF SaveCon, TypeInv, TypeOK
  <2>2. flag' \in [Player -> Con \cup {NoCon}]
    BY <1>10 DEF SaveCon, SaveFlags, TypeInv, TypeOK
  <2>3. guild' \in [Player -> Con \cup {NoCon}]
    BY <1>10, <2>1 DEF SaveCon, savedMember, TypeInv, TypeOK
  <2>4. contributed' \in [Player -> Nat]
    BY <1>10, <2>1 DEF SaveCon, ConObject, TypeInv, TypeOK
  <2>5. founded' \in SUBSET Con /\ score' \in [Con -> Nat]
    BY <1>10, <2>1 DEF SaveCon, ConObject, TypeInv, TypeOK
  <2>6. given' \in [Con -> Nat]
    BY <1>10, <2>1, GuildAssumption DEF SaveCon, TypeInv, TypeOK
  <2> QED
    BY <1>10, <2>2, <2>3, <2>4, <2>5, <2>6, EndType DEF SaveCon, TypeInv, TypeOK
<1>11. ASSUME NEW r \in Req, SavePlayers(r) PROVE TypeInv'
  <2>1. flag' \in [Player -> Con \cup {NoCon}]
    BY <1>11 DEF SavePlayers, SaveFlags, TypeInv, TypeOK
  <2> QED
    BY <1>11, <2>1, EndType DEF SavePlayers, TypeInv, TypeOK
<1>12. ASSUME NEW r \in Req, DuplicateName(r) \/ Reject(r) \/ Fail(r) PROVE TypeInv'
  BY <1>12, DropType DEF DuplicateName, Reject, Fail
<1> QED
  BY <1>1, <1>2, <1>3, <1>4, <1>5, <1>6, <1>7, <1>8, <1>9, <1>10, <1>11, <1>12
  DEF Next

LEMMA TypeInit == Init => TypeInv
<1> SUFFICES ASSUME Init PROVE TypeInv
  OBVIOUS
<1>1. crossed \in BOOLEAN
  BY DEF Init
<1> QED
  BY <1>1, NewConType, GuildAssumption DEF Init, TypeInv, TypeOK, WellFormed

\* The tables and the copies of the requests in flight keep their types; a
\* request never goes on to the constellation of a player who has none.
THEOREM GuildTypeCorrect == Spec => []TypeOK
<1>1. TypeInv => TypeOK
  BY DEF TypeInv
<1> QED
  BY TypeInit, TypeStep, <1>1, PTL DEF Spec

-----------------------------------------------------------------------------
(***************************************************************************)
(* The cap.  Two requests may both find a place left, but the member rows  *)
(* after a commit are those of ONE copy: a constellation is never larger   *)
(* than the largest copy, and no copy is too large.                        *)
(***************************************************************************)
Lean(r) == Cardinality(con[r].members) <= Full

FullInv == TypeInv /\ NeverOverfull /\ \A r \in Req : Lean(r)

LEMMA MembersFinite ==
    ASSUME NEW S \in SUBSET Player
    PROVE  IsFiniteSet(S) /\ Cardinality(S) \in Nat
BY GuildAssumption, FS_Subset, FS_CardinalityType

LEMMA NewConLean ==
    /\ NewCon \in ConObject
    /\ Cardinality(NewCon.members) = 0
    /\ \A p \in Player : Cardinality(addMember(NewCon, p).members) <= Full
<1>1. NewCon.members = {} /\ NewCon \in ConObject
  BY NewConType DEF NewCon
<1>2. \A p \in Player : addMember(NewCon, p).members = {p}
  BY DEF addMember, NewCon
<1>3. Cardinality({}) = 0 /\ \A p \in Player : Cardinality({p}) = 1
  BY FS_EmptySet, FS_Singleton
<1> QED
  BY <1>1, <1>2, <1>3, GuildAssumption

LEMMA AddMemberLean ==
    ASSUME NEW c \in ConObject, NEW p \in Player, hasRoom(c)
    PROVE  Cardinality(addMember(c, p).members) <= Full
<1>1. c.members \in SUBSET Player /\ addMember(c, p).members = c.members \cup {p}
  BY DEF ConObject, addMember
<1>2. Cardinality(c.members) \in Nat /\ IsFiniteSet(c.members)
  BY <1>1, MembersFinite
<1>3. Cardinality(c.members \cup {p}) =
        IF p \in c.members THEN Cardinality(c.members) ELSE Cardinality(c.members) + 1
  BY <1>2, FS_AddElement, Zenon
<1>4. Cardinality(c.members \cup {p}) \in Nat
  BY <1>1, MembersFinite
<1> QED
  BY <1>1, <1>2, <1>3, <1>4, GuildAssumption DEF hasRoom

\* A step that changes one copy and leaves the member rows alone.
LEMMA CopyLean ==
    ASSUME FullInv, NEW r \in Req, NEW c \in ConObject, UNCHANGED guild,
           Cardinality(c.members) <= Full, con' = [con EXCEPT ![r] = c]
    PROVE  NeverOverfull' /\ \A q \in Req : Lean(q)'
<1>1. NeverOverfull'
  BY DEF FullInv, NeverOverfull, Members
<1>2. \A q \in Req : con'[q] = IF q = r THEN c ELSE con[q]
  BY DEF FullInv, TypeInv, TypeOK
<1> QED
  BY <1>1, <1>2 DEF FullInv, Lean

LEMMA EndLean ==
    ASSUME FullInv, NEW r \in Req, End(r)
    PROVE  \A q \in Req : Lean(q)'
<1>1. \A q \in Req : con'[q] = IF q = r THEN NewCon ELSE con[q]
  BY DEF FullInv, TypeInv, TypeOK, End
<1> QED
  BY <1>1, NewConLean, GuildAssumption DEF FullInv, Lean

LEMMA FullStep == FullInv /\ [Next]_vars => FullInv'
<1> SUFFICES ASSUME FullInv, [Next]_vars
             PROVE  NeverOverfull' /\ \A q \in Req : Lean(q)'
  BY TypeStep DEF FullInv
<1>0. TypeInv
  BY DEF FullInv
<1>1. CASE UNCHANGED <<guild, con>>
  BY <1>1 DEF FullInv, NeverOverfull, Members, Lean
<1>2. ASSUME NEW r \in Req, ReadCon(r) PROVE NeverOverfull' /\ \A q \in Req : Lean(q)'
  <2>1. con[r] \in ConObject /\ score[job[r].con] \in Nat
    BY <1>0, <1>2 DEF ReadCon, TypeInv, TypeOK
  <2>2. LET c == [con[r] EXCEPT !.score = score[job[r].con]]
        IN  /\ c \in ConObject /\ c.members = con[r].members
            /\ con' = [con EXCEPT ![r] = c]
    BY <1>2, <2>1 DEF ReadCon, ConObject
  <2> QED
    BY <1>2, <2>2, CopyLean DEF ReadCon, tables, FullInv, Lean
<1>3. ASSUME NEW r \in Req, ReadMembers(r)
      PROVE  NeverOverfull' /\ \A q \in Req : Lean(q)'
  <2>1. con'[r].members = Members(job[r].con) /\ \A q \in Req : q # r => con'[q] = con[q]
    BY <1>0, <1>3 DEF ReadMembers, TypeInv, TypeOK, ConObject
  <2>2. job[r].con \in Con
    BY <1>0, <1>3 DEF ReadMembers, TypeInv, TypeOK
  <2>3. NeverOverfull'
    BY <1>3 DEF ReadMembers, tables, FullInv, NeverOverfull, Members
  <2> QED
    BY <2>1, <2>2, <2>3 DEF FullInv, NeverOverfull, Lean
<1>4. ASSUME NEW r \in Req, HandleCreate(r) \/ HandleJoin(r)
      PROVE  NeverOverfull' /\ \A q \in Req : Lean(q)'
  <2>1. job[r].who \in Player /\ con[r] \in ConObject
    BY <1>0, <1>4 DEF HandleCreate, HandleJoin, TypeInv, TypeOK, WellFormed
  <2>2. PICK c \in ConObject :
          /\ Cardinality(addMember(c, job[r].who).members) <= Full
          /\ con' = [con EXCEPT ![r] = addMember(c, job[r].who)]
    BY <1>4, <2>1, NewConLean, AddMemberLean DEF HandleCreate, HandleJoin
  <2>3. addMember(c, job[r].who) \in ConObject
    BY <2>1, AddMemberType
  <2> QED
    BY <1>4, <2>2, <2>3, CopyLean DEF HandleCreate, HandleJoin, tables
<1>5. ASSUME NEW r \in Req, HandleHatch(r)
      PROVE  NeverOverfull' /\ \A q \in Req : Lean(q)'
  <2>1. job[r].who \in Player /\ con[r] \in ConObject /\ Lean(r)
    BY <1>0, <1>5 DEF HandleHatch, TypeInv, TypeOK, WellFormed, FullInv
  <2>2. credited(con[r], job[r].who) \in ConObject
    BY <2>1, CreditedType
  <2>3. credited(con[r], job[r].who).members = con[r].members
    BY <2>1 DEF credited, ConObject
  <2> QED
    BY <1>5, <2>1, <2>2, <2>3, CopyLean DEF HandleHatch, tables, Lean
<1>6. ASSUME NEW r \in Req, SaveCon(r) PROVE NeverOverfull' /\ \A q \in Req : Lean(q)'
  <2>1. job[r].con \in Con /\ con[r] \in ConObject /\ Lean(r)
    BY <1>0, <1>6 DEF SaveCon, TypeInv, TypeOK, FullInv
  <2>2. ASSUME NEW c \in Con PROVE Cardinality(Members(c)') <= Full
    <3>1. CASE c = job[r].con
      <4>1. Members(c)' = con[r].members
        BY <1>0, <1>6, <2>1, <3>1, GuildAssumption
        DEF SaveCon, savedMember, Members, ConObject, TypeInv, TypeOK
      <4> QED
        BY <2>1, <4>1 DEF Lean
    <3>2. CASE c # job[r].con
      <4>1. Members(c)' \subseteq Members(c) /\ Members(c) \in SUBSET Player
        BY <1>6, <3>2, GuildAssumption DEF SaveCon, savedMember, Members
      <4>2. Cardinality(Members(c)') <= Cardinality(Members(c))
        BY <4>1, MembersFinite, FS_Subset
      <4>3. Cardinality(Members(c)') \in Nat /\ Cardinality(Members(c)) \in Nat
        BY <4>1, MembersFinite
      <4> QED
        BY <4>2, <4>3, GuildAssumption DEF FullInv, NeverOverfull
    <3> QED
      BY <3>1, <3>2
  <2> QED
    BY <1>6, <2>2, EndLean DEF SaveCon, NeverOverfull
<1>7. ASSUME NEW r \in Req, End(r), UNCHANGED guild
      PROVE  NeverOverfull' /\ \A q \in Req : Lean(q)'
  BY <1>7, EndLean DEF FullInv, NeverOverfull, Members
<1>8. ASSUME NEW r \in Req,
             SavePlayers(r) \/ DuplicateName(r) \/ Reject(r) \/ Fail(r)
      PROVE  NeverOverfull' /\ \A q \in Req : Lean(q)'
  BY <1>7, <1>8 DEF SavePlayers, DuplicateName, Reject, Fail, Drop, tables
<1>9. ASSUME NEW r \in Req,
             Arrive(r) \/ ReadSelf(r) \/ ReadOther(r) \/ ReadName(r)
      PROVE  NeverOverfull' /\ \A q \in Req : Lean(q)'
  BY <1>1, <1>9 DEF Arrive, Submit, ReadSelf, ReadOther, ReadName, tables
<1> QED
  BY <1>1, <1>2, <1>3, <1>4, <1>5, <1>6, <1>8, <1>9 DEF Next, vars, tables

LEMMA FullInit == Init => FullInv
<1> SUFFICES ASSUME Init PROVE FullInv
  OBVIOUS
<1>1. \A c \in Con : Members(c) = {}
  BY GuildAssumption DEF Init, Members
<1>2. NeverOverfull
  BY <1>1, FS_EmptySet, GuildAssumption DEF NeverOverfull
<1>3. \A r \in Req : Lean(r)
  BY NewConLean, GuildAssumption DEF Init, Lean
<1> QED
  BY <1>2, <1>3, TypeInit DEF FullInv

\* Whatever requests overlap, a constellation never has more than Full members.
THEOREM CapHolds == Spec => []NeverOverfull
<1>1. FullInv => NeverOverfull
  BY DEF FullInv
<1> QED
  BY FullInit, FullStep, <1>1, PTL DEF Spec

-----------------------------------------------------------------------------
(***************************************************************************)
(* The score.  What a commit writes is what it has read, at some earlier   *)
(* moment, plus its own contribution.                                      *)
(***************************************************************************)
Own(r) == IF job[r].op = "hatch" THEN Amount ELSE 0

Counted(r) ==
    /\ pc[r] \in {"members", "run"} /\ job[r].op # "create" =>
          con[r].score <= given[job[r].con]
    /\ pc[r] = "save" /\ job[r].con # NoCon =>
          con[r].score <= given[job[r].con] + Own(r)

CountInv == TypeInv /\ NeverOvercounted /\ \A r \in Req : Counted(r)

\* A step of a request that leaves the scores and every other request alone.
LEMMA OthersCounted ==
    ASSUME CountInv, TypeInv', NEW r \in Req, UNCHANGED <<score, given>>,
           \A q \in Req \ {r} : /\ pc'[q] = pc[q] /\ job'[q] = job[q]
                                /\ con'[q] = con[q],
           Counted(r)'
    PROVE  NeverOvercounted' /\ \A q \in Req : Counted(q)'
BY DEF CountInv, NeverOvercounted, Counted, Own

LEMMA CountStep == CountInv /\ [Next]_vars => CountInv'
<1> SUFFICES ASSUME CountInv, [Next]_vars
             PROVE  NeverOvercounted' /\ \A q \in Req : Counted(q)'
  BY TypeStep DEF CountInv
<1>0. TypeInv /\ TypeInv'
  BY TypeStep DEF CountInv
<1>1. CASE UNCHANGED vars
  BY <1>1 DEF vars, tables, CountInv, NeverOvercounted, Counted, Own
<1>2. ASSUME NEW r \in Req, Arrive(r) \/ ReadSelf(r) \/ ReadOther(r) \/ ReadName(r)
      PROVE  NeverOvercounted' /\ \A q \in Req : Counted(q)'
  <2>1. UNCHANGED <<score, given, con>>
    BY <1>2 DEF Arrive, Submit, ReadSelf, ReadOther, ReadName, tables
  <2>2. \A q \in Req \ {r} : pc'[q] = pc[q] /\ job'[q] = job[q]
    BY <1>0, <1>2
    DEF Arrive, Submit, ReadSelf, ReadOther, ReadName, Advance, TypeInv, TypeOK
  <2>3. Counted(r)'
    <3>1. CASE Arrive(r)
      <4>1. pc'[r] = "self"
        BY <1>0, <3>1 DEF Arrive, Submit, TypeInv, TypeOK
      <4> QED
        BY <4>1 DEF Counted
    <3>2. CASE ReadSelf(r)
      <4>1. /\ pc'[r] \in {"name", "con", "other", "save"}
            /\ pc'[r] = "save" => job'[r].con = flag[job[r].who]
                                  /\ ~contributes(flag[job[r].who])
        BY <1>0, <3>2 DEF ReadSelf, Advance, TypeInv, TypeOK
      <4> QED
        BY <4>1 DEF Counted, contributes
    <3>3. CASE ReadOther(r)
      <4>1. pc'[r] = "save" /\ job'[r].con = NoCon
        BY <1>0, <3>3 DEF ReadOther, Advance, TypeInv, TypeOK, WellFormed
      <4> QED
        BY <4>1 DEF Counted
    <3>4. CASE ReadName(r)
      <4>1. pc'[r] = "run" /\ job'[r].op = "create"
        BY <1>0, <3>4 DEF ReadName, Advance, TypeInv, TypeOK, WellFormed
      <4> QED
        BY <4>1 DEF Counted
    <3> QED
      BY <1>2, <3>1, <3>2, <3>3, <3>4
  <2> QED
    BY <1>0, <2>1, <2>2, <2>3, OthersCounted
<1>3. ASSUME NEW r \in Req, ReadCon(r)
      PROVE  NeverOvercounted' /\ \A q \in Req : Counted(q)'
  <2>1. /\ job[r].con \in Con /\ con'[r].score = score[job[r].con]
        /\ pc'[r] = "members" /\ UNCHANGED <<score, given, job>>
    BY <1>0, <1>3 DEF ReadCon, Advance, tables, TypeInv, TypeOK, ConObject
  <2>2. \A q \in Req \ {r} : pc'[q] = pc[q] /\ con'[q] = con[q]
    BY <1>0, <1>3 DEF ReadCon, Advance, TypeInv, TypeOK
  <2>3. Counted(r)'
    BY <2>1 DEF Counted, CountInv, NeverOvercounted
  <2> QED
    BY <1>0, <2>1, <2>2, <2>3, OthersCounted
<1>4. ASSUME NEW r \in Req, ReadMembers(r)
      PROVE  NeverOvercounted' /\ \A q \in Req : Counted(q)'
  <2>1. /\ con'[r].score = con[r].score /\ pc[r] = "members" /\ pc'[r] = "run"
        /\ UNCHANGED <<score, given, job>>
    <3>1. con'[r].score = con[r].score
      <4>1. con[r] \in ConObject
        BY <1>0 DEF TypeInv, TypeOK
      <4>2. \A ms, g : [con[r] EXCEPT !.members = ms, !.gave = g].score = con[r].score
        BY <4>1 DEF ConObject
      <4>3. \E ms, g : con' = [con EXCEPT ![r] = [@ EXCEPT !.members = ms, !.gave = g]]
        BY <1>4 DEF ReadMembers
      <4> QED
        BY <1>0, <4>2, <4>3 DEF TypeInv, TypeOK
    <3> QED
      BY <1>0, <1>4, <3>1 DEF ReadMembers, Advance, tables, TypeInv, TypeOK
  <2>2. \A q \in Req \ {r} : pc'[q] = pc[q] /\ con'[q] = con[q]
    BY <1>0, <1>4 DEF ReadMembers, Advance, TypeInv, TypeOK
  <2>3. Counted(r)'
    BY <2>1 DEF Counted, CountInv
  <2> QED
    BY <1>0, <2>1, <2>2, <2>3, OthersCounted
<1>5. ASSUME NEW r \in Req, HandleCreate(r) \/ HandleJoin(r) \/ HandleHatch(r)
      PROVE  NeverOvercounted' /\ \A q \in Req : Counted(q)'
  <2>1. /\ job[r].who \in Player /\ job[r].con \in Con /\ con[r] \in ConObject
        /\ pc[r] = "run" /\ pc'[r] = "save" /\ UNCHANGED <<score, given, job>>
        /\ given[job[r].con] \in Nat
    BY <1>0, <1>5 DEF HandleCreate, HandleJoin, HandleHatch, Advance, tables,
                      TypeInv, TypeOK, WellFormed
  <2>2. \A q \in Req \ {r} : pc'[q] = pc[q] /\ con'[q] = con[q]
    <3>1. pc' = [pc EXCEPT ![r] = "save"]
      BY <1>5 DEF HandleCreate, HandleJoin, HandleHatch, Advance
    <3>2. \E c : con' = [con EXCEPT ![r] = c]
      BY <1>5 DEF HandleCreate, HandleJoin, HandleHatch
    <3> QED
      BY <1>0, <3>1, <3>2 DEF TypeInv, TypeOK
  <2>3. con'[r].score <= given[job[r].con] + Own(r)
    <3>1. CASE HandleCreate(r)
      <4>1. con'[r].score = 0 /\ Own(r) = 0
        BY <1>0, <3>1 DEF HandleCreate, addMember, NewCon, Own, TypeInv, TypeOK
      <4> QED
        BY <2>1, <4>1
    <3>2. CASE HandleJoin(r)
      <4>1. con'[r].score = con[r].score /\ Own(r) = 0
        BY <1>0, <2>1, <3>2 DEF HandleJoin, addMember, ConObject, Own, TypeInv, TypeOK
      <4>2. con[r].score <= given[job[r].con]
        BY <2>1, <3>2 DEF HandleJoin, CountInv, Counted
      <4> QED
        BY <2>1, <4>1, <4>2 DEF ConObject
    <3>3. CASE HandleHatch(r)
      <4>1. con'[r].score = con[r].score + Amount /\ Own(r) = Amount
        BY <1>0, <2>1, <3>3 DEF HandleHatch, credited, ConObject, Own, TypeInv, TypeOK
      <4>2. con[r].score <= given[job[r].con]
        BY <2>1, <3>3 DEF HandleHatch, CountInv, Counted
      <4> QED
        BY <2>1, <4>1, <4>2, GuildAssumption DEF ConObject
    <3> QED
      BY <1>5, <3>1, <3>2, <3>3
  <2>4. Counted(r)'
    BY <2>1, <2>3 DEF Counted, Own
  <2> QED
    BY <1>0, <2>1, <2>2, <2>4, OthersCounted
<1>6. ASSUME NEW r \in Req, SaveCon(r)
      PROVE  NeverOvercounted' /\ \A q \in Req : Counted(q)'
  <2> DEFINE c == job[r].con
  <2>1. c \in Con /\ con[r].score \in Nat /\ Own(r) \in Nat
    BY <1>0, <1>6, GuildAssumption DEF SaveCon, Own, ConObject, TypeInv, TypeOK
  <2>2. given' = [given EXCEPT ![c] = @ + Own(r)] /\ score' = [score EXCEPT ![c] = con[r].score]
    BY <1>6 DEF SaveCon, Own
  <2>3. con[r].score <= given[c] + Own(r)
    BY <1>6 DEF SaveCon, CountInv, Counted
  <2>4. given'[c] = given[c] + Own(r) /\ score'[c] = con[r].score
    BY <1>0, <2>1, <2>2 DEF TypeInv, TypeOK
  <2>5. \A d \in Con : d # c => given'[d] = given[d] /\ score'[d] = score[d]
    BY <1>0, <2>2 DEF TypeInv, TypeOK
  <2>6. NeverOvercounted'
    BY <2>3, <2>4, <2>5 DEF CountInv, NeverOvercounted
  <2>7. \A d \in Con : given[d] \in Nat /\ given'[d] \in Nat /\ given[d] <= given'[d]
    <3>1. \A d \in Con : given[d] \in Nat
      BY <1>0 DEF TypeInv, TypeOK
    <3> QED
      BY <2>1, <2>4, <2>5, <3>1
  <2>8. ASSUME NEW q \in Req PROVE Counted(q)'
    <3>1. CASE q = r
      <4>1. pc'[r] = "idle"
        BY <1>0, <1>6 DEF SaveCon, End, Advance, TypeInv, TypeOK
      <4> QED
        BY <3>1, <4>1 DEF Counted
    <3>2. CASE q # r
      <4>1. pc'[q] = pc[q] /\ job'[q] = job[q] /\ con'[q] = con[q]
        BY <1>0, <1>6, <3>2 DEF SaveCon, End, Advance, TypeInv, TypeOK
      <4>2. /\ Own(q)' = Own(q) /\ Own(q) \in Nat /\ con[q].score \in Nat
            /\ pc[q] \in {"members", "run"} => job[q].con \in Con
            /\ job[q].con \in Con \cup {NoCon}
        <5>1. Own(q)' = Own(q)
          BY <4>1 DEF Own
        <5>2. Own(q) \in Nat
          BY GuildAssumption DEF Own
        <5>3. con[q].score \in Nat /\ job[q].con \in Con \cup {NoCon}
          BY <1>0 DEF ConObject, TypeInv, TypeOK
        <5>4. pc[q] \in {"members", "run"} => job[q].con \in Con
          BY <1>0 DEF TypeInv, TypeOK
        <5> QED
          BY <5>1, <5>2, <5>3, <5>4
      <4>3. Counted(q)
        BY DEF CountInv
      <4>4. pc[q] \in {"members", "run"} /\ job[q].op # "create" =>
              con[q].score <= given'[job[q].con]
        BY <2>7, <4>2, <4>3 DEF Counted
      <4>5. pc[q] = "save" /\ job[q].con # NoCon =>
              con[q].score <= given'[job[q].con] + Own(q)
        BY <2>7, <4>2, <4>3 DEF Counted
      <4> QED
        BY <4>1, <4>2, <4>4, <4>5 DEF Counted
    <3> QED
      BY <3>1, <3>2
  <2> QED
    BY <2>6, <2>8
<1>7. ASSUME NEW r \in Req, End(r), UNCHANGED <<score, given>>
      PROVE  NeverOvercounted' /\ \A q \in Req : Counted(q)'
  <2>1. \A q \in Req \ {r} : pc'[q] = pc[q] /\ job'[q] = job[q] /\ con'[q] = con[q]
    BY <1>0, <1>7 DEF End, Advance, TypeInv, TypeOK
  <2>2. pc'[r] = "idle"
    BY <1>0, <1>7 DEF End, Advance, TypeInv, TypeOK
  <2> QED
    BY <1>0, <1>7, <2>1, <2>2, OthersCounted DEF Counted
<1>8. ASSUME NEW r \in Req,
             SavePlayers(r) \/ DuplicateName(r) \/ Reject(r) \/ Fail(r)
      PROVE  NeverOvercounted' /\ \A q \in Req : Counted(q)'
  BY <1>7, <1>8 DEF SavePlayers, DuplicateName, Reject, Fail, Drop, tables
<1> QED
  BY <1>1, <1>2, <1>3, <1>4, <1>5, <1>6, <1>8 DEF Next

LEMMA CountInit == Init => CountInv
<1> SUFFICES ASSUME Init PROVE CountInv
  OBVIOUS
<1>1. NeverOvercounted
  BY DEF Init, NeverOvercounted
<1>2. \A r \in Req : Counted(r)
  BY DEF Init, Counted
<1> QED
  BY <1>1, <1>2, TypeInit DEF CountInv

\* Whatever requests overlap, a score never exceeds what hatches contributed.
THEOREM ScoreNeverInflated == Spec => []NeverOvercounted
<1>1. CountInv => NeverOvercounted
  BY DEF CountInv
<1> QED
  BY CountInit, CountStep, <1>1, PTL DEF Spec

-----------------------------------------------------------------------------
(***************************************************************************)
(* Names.  A commit adds a row only for a name that is free at that        *)
(* moment, since every other commit writes a row that it has read.         *)
(***************************************************************************)
HasRow(r) ==
    pc[r] \in {"members", "run", "save"} /\ job[r].op # "create" /\ job[r].con # NoCon =>
       job[r].con \in founded

NameInv == TypeInv /\ NamesUnique /\ \A r \in Req : HasRow(r)

\* A step of a request that founds nothing and leaves every other request alone.
LEMMA OthersHaveRows ==
    ASSUME NameInv, NEW r \in Req, UNCHANGED founded,
           \A q \in Req \ {r} : pc'[q] = pc[q] /\ job'[q] = job[q],
           HasRow(r)'
    PROVE  NamesUnique' /\ \A q \in Req : HasRow(q)'
BY DEF NameInv, NamesUnique, HasRow

LEMMA NameStep == NameInv /\ [Next]_vars => NameInv'
<1> SUFFICES ASSUME NameInv, [Next]_vars
             PROVE  NamesUnique' /\ \A q \in Req : HasRow(q)'
  BY TypeStep DEF NameInv
<1>0. TypeInv
  BY DEF NameInv
<1>1. CASE UNCHANGED vars
  BY <1>1 DEF vars, tables, NameInv, NamesUnique, HasRow
<1>2. ASSUME NEW r \in Req,
             Arrive(r) \/ ReadSelf(r) \/ ReadOther(r) \/ ReadName(r) \/ ReadCon(r)
      PROVE  NamesUnique' /\ \A q \in Req : HasRow(q)'
  <2>1. UNCHANGED founded
    BY <1>2 DEF Arrive, Submit, ReadSelf, ReadOther, ReadName, ReadCon, tables
  <2>2. \A q \in Req \ {r} : pc'[q] = pc[q] /\ job'[q] = job[q]
    BY <1>0, <1>2
    DEF Arrive, Submit, ReadSelf, ReadOther, ReadName, ReadCon, Advance, TypeInv, TypeOK
  <2>3. HasRow(r)'
    <3>1. CASE Arrive(r)
      <4>1. pc'[r] = "self"
        BY <1>0, <3>1 DEF Arrive, Submit, TypeInv, TypeOK
      <4> QED
        BY <4>1 DEF HasRow
    <3>2. CASE ReadSelf(r)
      <4>1. /\ pc'[r] \in {"name", "con", "other", "save"}
            /\ pc'[r] = "save" => job'[r].con = flag[job[r].who]
                                  /\ ~contributes(flag[job[r].who])
        BY <1>0, <3>2 DEF ReadSelf, Advance, TypeInv, TypeOK
      <4> QED
        BY <4>1 DEF HasRow, contributes
    <3>3. CASE ReadOther(r)
      <4>1. job'[r].con = NoCon
        BY <1>0, <3>3 DEF ReadOther, TypeInv, WellFormed
      <4> QED
        BY <4>1 DEF HasRow
    <3>4. CASE ReadName(r)
      <4>1. job'[r].op = "create"
        BY <1>0, <3>4 DEF ReadName, TypeInv, WellFormed
      <4> QED
        BY <4>1 DEF HasRow
    <3>5. CASE ReadCon(r)
      BY <3>5 DEF ReadCon, HasRow, tables
    <3> QED
      BY <1>2, <3>1, <3>2, <3>3, <3>4, <3>5
  <2> QED
    BY <2>1, <2>2, <2>3, OthersHaveRows
<1>3. ASSUME NEW r \in Req,
             ReadMembers(r) \/ HandleCreate(r) \/ HandleJoin(r) \/ HandleHatch(r)
      PROVE  NamesUnique' /\ \A q \in Req : HasRow(q)'
  <2>1. pc[r] \in {"members", "run"} /\ UNCHANGED <<founded, job>>
    BY <1>3 DEF ReadMembers, HandleCreate, HandleJoin, HandleHatch, tables
  <2>2. \A q \in Req \ {r} : pc'[q] = pc[q]
    BY <1>0, <1>3
    DEF ReadMembers, HandleCreate, HandleJoin, HandleHatch, Advance, TypeInv, TypeOK
  <2>3. HasRow(r)'
    BY <2>1 DEF HasRow, NameInv
  <2> QED
    BY <2>1, <2>2, <2>3, OthersHaveRows
<1>4. ASSUME NEW r \in Req, SaveCon(r)
      PROVE  NamesUnique' /\ \A q \in Req : HasRow(q)'
  <2>1. founded' = founded \cup {job[r].con} /\ pc[r] = "save" /\ job[r].con # NoCon
    BY <1>4 DEF SaveCon
  <2>2. NamesUnique'
    <3>1. CASE job[r].op = "create"
      <4>1. \A d \in founded : nameOf[d] # nameOf[job[r].con]
        BY <1>4, <3>1 DEF SaveCon, storable, nameTaken
      <4> QED
        BY <2>1, <4>1 DEF NameInv, NamesUnique
    <3>2. CASE job[r].op # "create"
      <4>1. founded' = founded
        BY <2>1, <3>2 DEF NameInv, HasRow
      <4> QED
        BY <4>1 DEF NameInv, NamesUnique
    <3> QED
      BY <3>1, <3>2
  <2>3. /\ pc'[r] = "idle"
        /\ \A q \in Req \ {r} : pc'[q] = pc[q] /\ job'[q] = job[q]
    BY <1>0, <1>4 DEF SaveCon, End, Advance, TypeInv, TypeOK
  <2>4. \A q \in Req : HasRow(q)'
    BY <2>1, <2>3 DEF HasRow, NameInv
  <2> QED
    BY <2>2, <2>4
<1>5. ASSUME NEW r \in Req,
             SavePlayers(r) \/ DuplicateName(r) \/ Reject(r) \/ Fail(r)
      PROVE  NamesUnique' /\ \A q \in Req : HasRow(q)'
  <2>1. End(r) /\ UNCHANGED founded
    BY <1>5 DEF SavePlayers, DuplicateName, Reject, Fail, Drop, tables
  <2>2. /\ pc'[r] = "idle"
        /\ \A q \in Req \ {r} : pc'[q] = pc[q] /\ job'[q] = job[q]
    BY <1>0, <2>1 DEF End, Advance, TypeInv, TypeOK
  <2>3. HasRow(r)'
    BY <2>2 DEF HasRow
  <2> QED
    BY <2>1, <2>2, <2>3, OthersHaveRows
<1> QED
  BY <1>1, <1>2, <1>3, <1>4, <1>5 DEF Next

LEMMA NameInit == Init => NameInv
<1> SUFFICES ASSUME Init PROVE NameInv
  OBVIOUS
<1>1. NamesUnique /\ \A r \in Req : HasRow(r)
  BY DEF Init, NamesUnique, HasRow
<1> QED
  BY <1>1, TypeInit DEF NameInv

\* Whatever requests overlap, no two constellations have one name.
THEOREM NamesAreUnique == Spec => []NamesUnique
<1>1. NameInv => NamesUnique
  BY DEF NameInv
<1> QED
  BY NameInit, NameStep, <1>1, PTL DEF Spec

-----------------------------------------------------------------------------
(***************************************************************************)
(* Requests that do not cross.  As long as no two requests in flight touch *)
(* the same rows, what a request has copied is still what the tables say,  *)
(* and so the two records of membership, and the two of the score, agree.  *)
(***************************************************************************)
HIDE DEF Job, NoJob, Stages, tables

\* The object that getConstellation would build from the rows as they are now.
Copy(c) ==
    [score |-> score[c], members |-> Members(c),
     gave |-> [p \in Player |-> IF guild[p] = c THEN contributed[p] ELSE 0]]

\* Where a request stands: a player enters a constellation from outside, and
\* nobody else knows of one that is about to be founded.
Placed(r) ==
    LET j == job[r]
    IN  /\ pc[r] = "idle" => con[r] = NewCon /\ job[r] = NoJob
        /\ pc[r] # "idle" =>
             /\ j.op # "none" /\ j.who # j.other
             /\ j.op # "visit" => j.other = NoPlayer
        /\ j.op = "visit" => pc[r] \in {"self", "other", "save"}
        /\ j.op \in {"create", "join"} /\ pc[r] \notin {"idle", "self"} =>
             flag[j.who] = NoCon
        /\ j.op = "create" => j.con \notin founded

\* Its copies are faithful: what it has read is still so, and what the handler
\* has made of it is made of the rows as they are.
Faithful(r) ==
    LET j == job[r]
    IN  /\ j.op \in {"create", "join"} /\ pc[r] \notin {"idle", "self"} =>
             flags[r][j.who] = IF pc[r] = "save" THEN j.con ELSE NoCon
        /\ j.op \in {"hatch", "visit"} /\ pc[r] \notin {"idle", "self"} =>
             flags[r][j.who] = flag[j.who]
        /\ j.op = "visit" /\ pc[r] = "save" => flags[r][j.other] = flag[j.other]
        /\ j.op = "hatch" =>
             j.con = IF pc[r] = "self" THEN NoCon ELSE flag[j.who]
        /\ pc[r] \in {"self", "con", "name"} => con[r] = NewCon
        /\ pc[r] = "members" => con[r] = [NewCon EXCEPT !.score = score[j.con]]
        /\ pc[r] = "run" /\ j.op # "create" => con[r] = Copy(j.con)
        /\ pc[r] = "save" /\ j.con # NoCon =>
             con[r] = IF j.op = "hatch" THEN credited(Copy(j.con), j.who)
                                        ELSE addMember(Copy(j.con), j.who)

Uncrossed ==
    \A r, s \in Busy : r # s =>
        /\ Players(job[r]) \cap Players(job[s]) = {}
        /\ Cons(job[r]) \cap Cons(job[s]) = {}

Standing ==
    /\ \A p \in Player : flag[p] = guild[p] /\ (guild[p] # NoCon => guild[p] \in founded)
    /\ \A c \in Con : c \notin founded => score[c] = 0

Sums ==
    \A c \in Con : /\ score[c] = SumOver(contributed, Members(c))
                   /\ score[c] = given[c]

Calm == Standing /\ Sums /\ Uncrossed /\ \A r \in Req : Placed(r) /\ Faithful(r)

CalmInv == TypeInv /\ (~crossed => Calm)

\* A request is left alone.
Same(s) ==
    job'[s] = job[s] /\ pc'[s] = pc[s] /\ flags'[s] = flags[s] /\ con'[s] = con[s]

LEMMA Typed ==
    ASSUME TypeInv, NEW r \in Req
    PROVE  /\ job[r] \in Job /\ pc[r] \in Stages /\ con[r] \in ConObject
           /\ flags[r] \in [Player -> Con \cup {NoCon}]
           /\ pc[r] # "idle" => job[r].who \in Player
           /\ job[r].op \in {"create", "join"} => job[r].con \in Con
           /\ job[r].op = "visit" => job[r].other \in Player /\ job[r].con = NoCon
           /\ pc[r] = "other" => job[r].op = "visit"
           /\ pc[r] = "name" => job[r].op = "create"
           /\ pc[r] \in {"name", "con", "members", "run"} => job[r].con \in Con
BY DEF TypeInv, TypeOK, WellFormed

\* What a request knows stays so while its rows stay as they are.
LEMMA Frame ==
    ASSUME TypeInv, Calm, NEW s \in Req, Same(s), pc[s] # "idle",
           \A p \in Players(job[s]) : flag'[p] = flag[p],
           \A c \in Cons(job[s]) :
             score'[c] = score[c] /\ Copy(c)' = Copy(c) /\ (c \in founded' => c \in founded)
    PROVE  /\ Placed(s)' /\ Faithful(s)'
           /\ Players(job[s])' = Players(job[s]) /\ Cons(job[s])' = Cons(job[s])
<1>0. PICK j : j = job[s]
  OBVIOUS
<1>1. /\ j \in Job /\ j.who \in Player /\ pc[s] \in Stages
      /\ j.op \in {"create", "join"} => j.con \in Con
      /\ j.op = "visit" => j.other \in Player /\ j.con = NoCon
      /\ pc[s] \in {"name", "con", "members", "run"} => j.con \in Con
      /\ pc[s] = "other" => j.op = "visit"
      /\ pc[s] = "name" => j.op = "create"
  BY <1>0, Typed
<1>2. Placed(s) /\ Faithful(s) /\ job'[s] = j
  BY <1>0 DEF Calm, Same
<1>3. /\ j.who \in Players(j) /\ flag'[j.who] = flag[j.who]
      /\ j.op = "visit" => flag'[j.other] = flag[j.other]
  BY <1>0, <1>1, GuildAssumption DEF Players
<1>4. Cons(j)' = Cons(j) /\ Players(j)' = Players(j)
  BY <1>0, <1>2, <1>3 DEF Cons, Players
<1>5. j.op # "visit" /\ j.con # NoCon => j.con \in Cons(j)
  BY <1>0, <1>1, <1>2 DEF Cons, Faithful
<1>6. Placed(s)'
  <2>1. j.op = "create" => j.con \notin founded'
    BY <1>0, <1>1, <1>2, <1>5, GuildAssumption DEF Placed
  <2> QED
    BY <1>0, <1>2, <1>3, <2>1 DEF Placed, Same
<1>7. Faithful(s)'
  <2>1. pc[s] = "members" => con[s] = [NewCon EXCEPT !.score = score'[j.con]]
    BY <1>0, <1>1, <1>2, <1>5, GuildAssumption DEF Faithful, Placed
  <2>2. pc[s] = "run" /\ j.op # "create" => con[s] = Copy(j.con)'
    BY <1>0, <1>1, <1>2, <1>5, GuildAssumption DEF Faithful, Placed
  <2>3. pc[s] = "save" /\ j.con # NoCon => Copy(j.con)' = Copy(j.con)
    BY <1>0, <1>1, <1>5
  <2>4. pc[s] = "save" /\ j.con # NoCon =>
          con[s] = IF j.op = "hatch" THEN credited(Copy(j.con)', j.who)
                                     ELSE addMember(Copy(j.con)', j.who)
    BY <1>0, <1>2, <2>3 DEF Faithful
  <2>5. /\ pc'[s] = pc[s] /\ con'[s] = con[s] /\ flags'[s] = flags[s]
        /\ NewCon' = NewCon
    BY DEF Same, NewCon
  <2>6. /\ j.op \in {"create", "join"} /\ pc[s] \notin {"idle", "self"} =>
             flags[s][j.who] = IF pc[s] = "save" THEN j.con ELSE NoCon
        /\ j.op \in {"hatch", "visit"} /\ pc[s] \notin {"idle", "self"} =>
             flags[s][j.who] = flag'[j.who]
        /\ j.op = "visit" /\ pc[s] = "save" => flags[s][j.other] = flag'[j.other]
        /\ j.op = "hatch" =>
             j.con = IF pc[s] = "self" THEN NoCon ELSE flag'[j.who]
        /\ pc[s] \in {"self", "con", "name"} => con[s] = NewCon
    BY <1>0, <1>2, <1>3 DEF Faithful
  <2> QED
    BY <1>0, <1>2, <2>1, <2>2, <2>4, <2>5, <2>6 DEF Faithful, credited, addMember
<1> QED
  BY <1>0, <1>2, <1>4, <1>6, <1>7

\* A step of one request that leaves the tables alone.
LEMMA QuietStep ==
    ASSUME TypeInv, Calm, NEW r \in Req, UNCHANGED <<tables, given>>,
           \A s \in Req : s # r => Same(s),
           pc'[r] # "idle" =>
             \A s \in Busy : s # r =>
               /\ Players(job[s]) \cap Players(job[r])' = {}
               /\ Cons(job[s]) \cap Cons(job[r])' = {},
           Placed(r)', Faithful(r)'
    PROVE  Calm'
<1>1. \A c : Copy(c)' = Copy(c) /\ Members(c)' = Members(c)
  BY DEF Copy, Members, tables
<1>2. \A s \in Req : s # r /\ pc[s] # "idle" =>
        /\ Placed(s)' /\ Faithful(s)'
        /\ Players(job[s])' = Players(job[s]) /\ Cons(job[s])' = Cons(job[s])
  BY <1>1, Frame DEF tables
<1>3. \A s \in Req : s # r /\ pc[s] = "idle" => Placed(s)' /\ Faithful(s)'
  <2> TAKE s \in Req
  <2> SUFFICES ASSUME s # r, pc[s] = "idle" PROVE Placed(s)' /\ Faithful(s)'
    OBVIOUS
  <2>1. pc'[s] = "idle" /\ job'[s] = NoJob /\ con'[s] = NewCon
    BY DEF Calm, Placed, Same
  <2>2. NoJob.op = "none" /\ NewCon' = NewCon /\ NoJob' = NoJob
    BY DEF NoJob, NewCon
  <2> QED
    BY <2>1, <2>2 DEF Placed, Faithful
<1>4. Standing' /\ Sums'
  BY DEF Calm, Standing, Sums, Members, tables
<1>5. Uncrossed'
  <2> SUFFICES ASSUME NEW s \in Req, NEW t \in Req, s # t, pc'[s] # "idle", pc'[t] # "idle"
               PROVE  /\ Players(job[s])' \cap Players(job[t])' = {}
                      /\ Cons(job[s])' \cap Cons(job[t])' = {}
    BY DEF Uncrossed, Busy
  <2>1. CASE s # r /\ t # r
    <3>1. pc[s] # "idle" /\ pc[t] # "idle"
      BY <2>1 DEF Same
    <3> QED
      BY <1>2, <2>1, <3>1 DEF Calm, Uncrossed, Busy
  <2>2. CASE s = r
    <3>1. pc[t] # "idle" /\ t # r
      BY <2>2 DEF Same
    <3> QED
      BY <1>2, <2>2, <3>1 DEF Busy
  <2>3. CASE t = r
    <3>1. pc[s] # "idle" /\ s # r
      BY <2>3 DEF Same
    <3> QED
      BY <1>2, <2>3, <3>1 DEF Busy
  <2> QED
    BY <2>1, <2>2, <2>3
<1> QED
  BY <1>2, <1>3, <1>4, <1>5 DEF Calm

\* A step of a request in flight, for the rows that it was about before.
LEMMA OwnStep ==
    ASSUME TypeInv, Calm, NEW r \in Req, UNCHANGED <<tables, given>>,
           \A s \in Req : s # r => Same(s), pc[r] # "idle",
           \/ pc'[r] = "idle"
           \/ Players(job[r])' = Players(job[r]) /\ Cons(job[r])' = Cons(job[r]),
           Placed(r)', Faithful(r)'
    PROVE  Calm'
<1>1. pc'[r] # "idle" =>
        \A s \in Busy : s # r =>
          /\ Players(job[s]) \cap Players(job[r])' = {}
          /\ Cons(job[s]) \cap Cons(job[r])' = {}
  BY DEF Calm, Uncrossed, Busy
<1> QED
  BY <1>1, QuietStep

LEMMA NothingRead ==
    ASSUME NEW r \in Req, pc'[r] = "idle", job'[r] = NoJob, con'[r] = NewCon
    PROVE  Placed(r)' /\ Faithful(r)'
<1>1. NoJob.op = "none" /\ NewCon' = NewCon /\ NoJob' = NoJob
  BY DEF NoJob, NewCon
<1> QED
  BY <1>1 DEF Placed, Faithful

LEMMA EndsClean ==
    ASSUME TypeInv, NEW r \in Req, End(r)
    PROVE  /\ Placed(r)' /\ Faithful(r)' /\ pc'[r] = "idle"
           /\ \A s \in Req : s # r => Same(s)
<1>1. pc'[r] = "idle" /\ job'[r] = NoJob /\ con'[r] = NewCon
  BY DEF End, Advance, TypeInv, TypeOK
<1>2. \A s \in Req : s # r => Same(s)
  BY DEF End, Advance, TypeInv, TypeOK, Same
<1> QED
  BY <1>1, <1>2, NothingRead

LEMMA DropCalm ==
    ASSUME TypeInv, Calm, NEW r \in Req, pc[r] # "idle", Drop(r)
    PROVE  Calm'
BY EndsClean, OwnStep DEF Drop

\* What clients send.
Sendable(j) ==
    /\ j \in Job /\ j.who \in Player /\ j.op # "none" /\ j.who # j.other
    /\ j.op # "visit" => j.other = NoPlayer
    /\ j.op \in {"hatch", "visit"} => j.con = NoCon
    /\ j.op = "create" => j.con \in Undrawn

LEMMA ArriveCalm ==
    ASSUME TypeInv, Calm, NEW r \in Req, Arrive(r), ~crossed'
    PROVE  Calm'
<1>1. PICK j : Sendable(j) /\ Submit(r, j)
  <2>1. PICK p \in Player :
          \/ \E c \in Undrawn :
               Submit(r, [NoJob EXCEPT !.op = "create", !.who = p, !.con = c])
          \/ \E c \in Con :
               Submit(r, [NoJob EXCEPT !.op = "join", !.who = p, !.con = c])
          \/ Submit(r, [NoJob EXCEPT !.op = "hatch", !.who = p])
          \/ \E q \in Player \ {p} :
               Submit(r, [NoJob EXCEPT !.op = "visit", !.who = p, !.other = q])
    BY DEF Arrive
  <2> DEFINE Founds(c) == [NoJob EXCEPT !.op = "create", !.who = p, !.con = c]
             Joins(c)  == [NoJob EXCEPT !.op = "join", !.who = p, !.con = c]
             Hatches   == [NoJob EXCEPT !.op = "hatch", !.who = p]
             Visits(q) == [NoJob EXCEPT !.op = "visit", !.who = p, !.other = q]
  <2>2. p # NoPlayer /\ Undrawn \subseteq Con
    BY GuildAssumption DEF Undrawn
  <2>3. \A c \in Undrawn : Sendable(Founds(c))
    BY <2>2 DEF Sendable, Job, NoJob
  <2>4. \A c \in Con : Sendable(Joins(c))
    BY <2>2 DEF Sendable, Job, NoJob
  <2>5. Sendable(Hatches)
    BY <2>2 DEF Sendable, Job, NoJob
  <2>6. \A q \in Player \ {p} : Sendable(Visits(q))
    BY <2>2 DEF Sendable, Job, NoJob
  <2>7. \E j : Sendable(j) /\ Submit(r, j)
    BY <2>1, <2>3, <2>4, <2>5, <2>6, Zenon
  <2> QED
    BY <2>7
<1>2. /\ pc[r] = "idle" /\ pc'[r] = "self" /\ job'[r] = j
      /\ flags' = flags /\ con'[r] = con[r]
      /\ UNCHANGED <<tables, given>> /\ Apart(j)
      /\ \A s \in Req : s # r => Same(s)
  BY <1>1 DEF Submit, TypeInv, TypeOK, Same
<1>3. con[r] = NewCon /\ NewCon' = NewCon
  BY <1>2 DEF Calm, Placed, NewCon
<1>4. Placed(r)'
  <2>1. j.op = "create" => j.con \notin founded
    BY <1>1 DEF Sendable, Undrawn
  <2> QED
    BY <1>1, <1>2, <2>1 DEF Placed, Sendable, tables
<1>5. Faithful(r)'
  BY <1>1, <1>2, <1>3 DEF Faithful, Sendable
<1>6. Players(job[r])' = Players(j) /\ Cons(job[r])' = Cons(j)
  BY <1>2 DEF Players, Cons, tables
<1>7. \A s \in Busy : s # r =>
        /\ Players(job[s]) \cap Players(job[r])' = {}
        /\ Cons(job[s]) \cap Cons(job[r])' = {}
  BY <1>2, <1>6 DEF Apart
<1> QED
  BY <1>2, <1>4, <1>5, <1>7, QuietStep

LEMMA ReadSelfCalm ==
    ASSUME TypeInv, Calm, NEW r \in Req, ReadSelf(r)
    PROVE  Calm'
<1>0. PICK j, p, c : j = job[r] /\ p = j.who /\ c = flag[p]
  OBVIOUS
<1>1. /\ pc[r] = "self" /\ j \in Job /\ p \in Player /\ c \in Con \cup {NoCon}
      /\ j.op \in {"create", "join"} => j.con \in Con
      /\ j.op = "visit" => j.con = NoCon
      /\ Placed(r) /\ Faithful(r) /\ con[r] = NewCon
  BY <1>0, Typed DEF ReadSelf, TypeInv, TypeOK, Calm, Faithful
<1>2. /\ UNCHANGED <<tables, con, given>> /\ flags'[r][p] = c
      /\ \A s \in Req : s # r => flags'[s] = flags[s]
  BY <1>0, <1>1 DEF ReadSelf, TypeInv, TypeOK
<1>3. PICK k : /\ job'[r] = k /\ k.op = j.op /\ k.who = p /\ k.other = j.other
               /\ k.con = IF j.op = "hatch" THEN c ELSE j.con
               /\ \A s \in Req : s # r => Same(s)
               /\ j.op \in {"create", "join"} => c = NoCon
               /\ pc'[r] = CASE j.op = "create" -> "name" [] j.op = "join" -> "con"
                             [] j.op = "hatch" -> IF c = NoCon THEN "save" ELSE "con"
                             [] j.op = "visit" -> "other"
  <2>1. CASE /\ j.op \in {"create", "join"} /\ mayEnter(c) /\ UNCHANGED job
             /\ Advance(r, IF j.op = "create" THEN "name" ELSE "con")
    BY <1>0, <1>2, <2>1 DEF Advance, TypeInv, TypeOK, Same, mayEnter
  <2>2. CASE /\ j.op = "hatch" /\ job' = [job EXCEPT ![r].con = c]
             /\ Advance(r, IF contributes(c) THEN "con" ELSE "save")
    <3>1. /\ job'[r] = [j EXCEPT !.con = c]
          /\ pc'[r] = IF c = NoCon THEN "save" ELSE "con"
          /\ \A s \in Req : s # r => Same(s)
      BY <1>0, <1>2, <2>2 DEF Advance, TypeInv, TypeOK, Same, contributes
    <3> QED
      BY <1>0, <1>1, <2>2, <3>1 DEF Job
  <2>3. CASE j.op = "visit" /\ Advance(r, "other") /\ UNCHANGED job
    BY <1>0, <1>2, <2>3 DEF Advance, TypeInv, TypeOK, Same
  <2> QED
    BY <1>0, <2>1, <2>2, <2>3 DEF ReadSelf
<1>4. j.op \in {"create", "join", "hatch", "visit"}
  BY <1>0, <1>1 DEF Placed, Job
<1>5. /\ flag' = flag /\ founded' = founded /\ con'[r] = NewCon /\ NewCon' = NewCon
      /\ pc'[r] \in {"name", "con", "save", "other"}
  BY <1>1, <1>2, <1>3, <1>4 DEF tables, NewCon
<1>6. Placed(r)'
  BY <1>0, <1>1, <1>3, <1>4, <1>5 DEF Placed
<1>7. Faithful(r)'
  BY <1>0, <1>1, <1>2, <1>3, <1>4, <1>5, GuildAssumption DEF Faithful
<1>8. Players(job[r])' = Players(job[r]) /\ Cons(job[r])' = Cons(job[r])
  BY <1>0, <1>3, <1>5 DEF Players, Cons
<1> QED
  BY <1>1, <1>2, <1>3, <1>6, <1>7, <1>8, OwnStep

LEMMA QueriesCalm ==
    ASSUME TypeInv, Calm, NEW r \in Req,
           ReadOther(r) \/ ReadName(r) \/ ReadCon(r) \/ ReadMembers(r)
    PROVE  Calm'
<1>0. PICK j, p : j = job[r] /\ p = j.who
  OBVIOUS
<1>1. /\ pc[r] # "idle" /\ j \in Job /\ p \in Player /\ Placed(r) /\ Faithful(r)
      /\ pc[r] = "other" => j.op = "visit" /\ j.other \in Player
      /\ pc[r] = "name" => j.op = "create"
      /\ pc[r] \in {"name", "con", "members", "run"} => j.con \in Con
      /\ j.op = "visit" => j.con = NoCon
      /\ flags[r] \in [Player -> Con \cup {NoCon}] /\ con[r] \in ConObject
  BY <1>0, Typed DEF ReadOther, ReadName, ReadCon, ReadMembers, Calm
<1>2. /\ UNCHANGED <<tables, job, given>> /\ job'[r] = j
      /\ \A s \in Req : s # r => Same(s)
      /\ flag' = flag /\ founded' = founded /\ NewCon' = NewCon
  BY <1>0 DEF ReadOther, ReadName, ReadCon, ReadMembers, Advance, TypeInv, TypeOK,
              Same, tables, NewCon
<1>3. Players(job[r])' = Players(job[r]) /\ Cons(job[r])' = Cons(job[r])
  BY <1>2 DEF Players, Cons
<1>4. CASE ReadOther(r)
  <2>1. /\ pc'[r] = "save" /\ flags'[r] = [flags[r] EXCEPT ![j.other] = flag[j.other]]
        /\ j.op = "visit" /\ pc[r] = "other"
    BY <1>0, <1>1, <1>4 DEF ReadOther, Advance, TypeInv, TypeOK
  <2>2. /\ flags'[r][j.other] = flag[j.other] /\ flags'[r][p] = flags[r][p]
        /\ flags[r][p] = flag[p]
    BY <1>0, <1>1, <2>1 DEF Placed, Faithful
  <2>3. Placed(r)'
    BY <1>0, <1>1, <1>2, <2>1 DEF Placed
  <2>4. Faithful(r)'
    BY <1>0, <1>1, <1>2, <2>1, <2>2 DEF Faithful
  <2> QED
    BY <1>1, <1>2, <1>3, <2>3, <2>4, OwnStep
<1>5. CASE ReadName(r)
  <2>1. /\ pc'[r] = "run" /\ flags' = flags /\ con' = con /\ j.op = "create"
        /\ pc[r] = "name"
    BY <1>1, <1>5 DEF ReadName, Advance, TypeInv, TypeOK
  <2>2. Placed(r)'
    BY <1>0, <1>1, <1>2, <2>1 DEF Placed
  <2>3. Faithful(r)'
    BY <1>0, <1>1, <1>2, <2>1 DEF Faithful
  <2> QED
    BY <1>1, <1>2, <1>3, <2>2, <2>3, OwnStep
<1>6. CASE ReadCon(r)
  <2>1. /\ pc'[r] = "members" /\ flags' = flags /\ pc[r] = "con"
        /\ con'[r] = [con[r] EXCEPT !.score = score[j.con]]
        /\ con[r] = NewCon /\ j.op # "visit" /\ score' = score
    BY <1>0, <1>1, <1>6 DEF ReadCon, Advance, TypeInv, TypeOK, Faithful, Placed, tables
  <2>2. Placed(r)'
    BY <1>0, <1>1, <1>2, <2>1 DEF Placed
  <2>3. con'[r] = [NewCon EXCEPT !.score = score[j.con]]'
    BY <1>2, <2>1
  <2>4. Faithful(r)'
    BY <1>0, <1>1, <1>2, <2>1, <2>3 DEF Faithful
  <2> QED
    BY <1>1, <1>2, <1>3, <2>2, <2>4, OwnStep
<1>7. CASE ReadMembers(r)
  <2> DEFINE gave == [q \in Player |-> IF guild[q] = j.con THEN contributed[q] ELSE 0]
  <2>1. /\ pc'[r] = "run" /\ flags' = flags /\ pc[r] = "members"
        /\ con[r] = [NewCon EXCEPT !.score = score[j.con]]
        /\ j.op # "visit"
    BY <1>0, <1>1, <1>7 DEF ReadMembers, Advance, TypeInv, TypeOK, Faithful, Placed
  <2>2. con'[r] = [con[r] EXCEPT !.members = Members(j.con), !.gave = gave]
    BY <1>0, <1>7 DEF ReadMembers, TypeInv, TypeOK
  <2>3. con'[r] = Copy(j.con)
    <3> DEFINE ms == Members(j.con)
    <3>1. con[r] = [score |-> score[j.con], members |-> {}, gave |-> [q \in Player |-> 0]]
      BY <2>1 DEF NewCon
    <3> HIDE DEF gave, ms
    <3>2. PICK read : read = [con[r] EXCEPT !.members = ms]
      OBVIOUS
    <3>3. con'[r] = [read EXCEPT !.gave = gave]
      BY <2>2, <3>2 DEF ms
    <3>4. read = [score |-> score[j.con], members |-> ms, gave |-> [q \in Player |-> 0]]
      BY <3>1, <3>2
    <3>5. con'[r] = [score |-> score[j.con], members |-> ms, gave |-> gave]
      BY <3>3, <3>4
    <3> QED
      BY <3>5 DEF Copy, gave, ms
  <2>4. Copy(j.con) = Copy(j.con)'
    BY <1>2 DEF Copy, Members, tables
  <2>5. Placed(r)'
    BY <1>0, <1>1, <1>2, <2>1 DEF Placed
  <2>6. Faithful(r)'
    BY <1>0, <1>1, <1>2, <2>1, <2>3, <2>4 DEF Faithful
  <2> QED
    BY <1>1, <1>2, <1>3, <2>5, <2>6, OwnStep
<1> QED
  BY <1>4, <1>5, <1>6, <1>7

LEMMA HandlersCalm ==
    ASSUME TypeInv, Calm, NEW r \in Req,
           HandleCreate(r) \/ HandleJoin(r) \/ HandleHatch(r)
    PROVE  Calm'
<1>0. PICK j, p : j = job[r] /\ p = j.who
  OBVIOUS
<1>1. /\ pc[r] = "run" /\ j \in Job /\ p \in Player /\ Placed(r) /\ Faithful(r)
      /\ j.con \in Con /\ j.op \in {"create", "join", "hatch"}
      /\ flags[r] \in [Player -> Con \cup {NoCon}] /\ con[r] \in ConObject
  BY <1>0, Typed DEF HandleCreate, HandleJoin, HandleHatch, Calm
<1>2. /\ UNCHANGED <<tables, job, given>> /\ job'[r] = j /\ pc'[r] = "save"
      /\ \A s \in Req : s # r => Same(s)
      /\ flag' = flag /\ founded' = founded /\ NewCon' = NewCon
  BY <1>0 DEF HandleCreate, HandleJoin, HandleHatch, Advance, TypeInv, TypeOK,
              Same, tables, NewCon
<1>3. Players(job[r])' = Players(job[r]) /\ Cons(job[r])' = Cons(job[r])
  BY <1>2 DEF Players, Cons
<1>4. flags'[r][p] = IF j.op = "hatch" THEN flags[r][p] ELSE j.con
  BY <1>0, <1>1 DEF HandleCreate, HandleJoin, HandleHatch, TypeInv, TypeOK
<1>5. j.op = "create" => NewCon = Copy(j.con)
  <2> SUFFICES ASSUME j.op = "create" PROVE NewCon = Copy(j.con)
    OBVIOUS
  <2>1. j.con \notin founded
    BY <1>0, <1>1 DEF Placed
  <2>2. score[j.con] = 0 /\ \A q \in Player : guild[q] # j.con
    BY <1>1, <2>1, GuildAssumption DEF Calm, Standing
  <2>3. Members(j.con) = {}
    BY <2>2 DEF Members
  <2> QED
    BY <2>2, <2>3 DEF Copy, NewCon
<1>6. con'[r] = IF j.op = "hatch" THEN credited(Copy(j.con), p)
                                  ELSE addMember(Copy(j.con), p)
  <2>1. j.op # "create" => con[r] = Copy(j.con)
    BY <1>0, <1>1 DEF Faithful
  <2>2. con'[r] = CASE j.op = "create" -> addMember(NewCon, p)
                    [] j.op = "join"   -> addMember(con[r], p)
                    [] j.op = "hatch"  -> credited(con[r], p)
    BY <1>0, <1>1 DEF HandleCreate, HandleJoin, HandleHatch, TypeInv, TypeOK
  <2> QED
    BY <1>1, <1>5, <2>1, <2>2
<1>7. Copy(j.con) = Copy(j.con)'
  BY <1>2 DEF Copy, Members, tables
<1>8. Placed(r)'
  BY <1>0, <1>1, <1>2 DEF Placed
<1>9. Faithful(r)'
  <2>1. con'[r] = IF j.op = "hatch" THEN credited(Copy(j.con)', p)
                                    ELSE addMember(Copy(j.con)', p)
    BY <1>6, <1>7
  <2>2. j.op = "hatch" => flags'[r][p] = flag[p] /\ j.con = flag[p]
    BY <1>0, <1>1, <1>4 DEF Faithful
  <2> QED
    BY <1>0, <1>1, <1>2, <1>4, <2>1, <2>2 DEF Faithful, credited, addMember
<1> QED
  BY <1>1, <1>2, <1>3, <1>8, <1>9, OwnStep

\* What a commit that holds a constellation writes: its player enters it, or
\* has given to it, and every other row is as it was.
LEMMA SaveWrites ==
    ASSUME TypeInv, Calm, NEW r \in Req, SaveCon(r),
           NEW c, c = job[r].con, NEW p, p = job[r].who
    PROVE  /\ c \in Con /\ p \in Player /\ pc[r] = "save"
           /\ c \in Cons(job[r]) /\ Players(job[r]) = {p}
           /\ founded' = founded \cup {c}
           /\ flag'[p] = c /\ guild'[p] = c
           /\ \A q \in Player \ {p} : /\ flag'[q] = flag[q] /\ guild'[q] = guild[q]
                                      /\ contributed'[q] = contributed[q]
           /\ IF job[r].op = "hatch"
              THEN /\ guild[p] = c /\ contributed'[p] = contributed[p] + Amount
                   /\ \A d \in Con :
                        /\ score'[d] = score[d] + IF d = c THEN Amount ELSE 0
                        /\ given'[d] = given[d] + IF d = c THEN Amount ELSE 0
              ELSE /\ guild[p] = NoCon /\ contributed'[p] = 0
                   /\ \A d \in Con : score'[d] = score[d] /\ given'[d] = given[d]
<1>0. PICK j : j = job[r]
  OBVIOUS
<1>1. /\ pc[r] = "save" /\ j \in Job /\ p \in Player /\ c # NoCon /\ c \in Con
      /\ con[r] \in ConObject /\ Placed(r) /\ Faithful(r)
      /\ j.op \in {"create", "join", "hatch"} /\ j.other = NoPlayer
  <2>1. pc[r] = "save" /\ j \in Job /\ c # NoCon /\ p \in Player /\ con[r] \in ConObject
        /\ (j.op = "visit" => j.con = NoCon) /\ Placed(r) /\ Faithful(r)
    BY <1>0, Typed DEF SaveCon, Calm
  <2>2. c \in Con /\ j.op \in {"create", "join", "hatch"}
    BY <1>0, <2>1 DEF Job, Placed
  <2> QED
    BY <1>0, <2>1, <2>2 DEF Placed
<1>2. Players(j) = {p}
  BY <1>0, <1>1, GuildAssumption DEF Players
<1>3. c \in Cons(j)
  BY <1>0, <1>1 DEF Cons, Faithful
<1>4. /\ flags[r][p] = c
      /\ con[r] = IF j.op = "hatch" THEN credited(Copy(c), p) ELSE addMember(Copy(c), p)
      /\ guild[p] = IF j.op = "hatch" THEN c ELSE NoCon
  BY <1>0, <1>1 DEF Faithful, Placed, Calm, Standing
<1>5. /\ con[r].members = Members(c) \cup {p}
      /\ con[r].score = score[c] + IF j.op = "hatch" THEN Amount ELSE 0
      /\ \A q \in Members(c) \ {p} : con[r].gave[q] = contributed[q]
      /\ con[r].gave[p] = IF j.op = "hatch" THEN contributed[p] + Amount ELSE 0
  <2>1. /\ Copy(c).score = score[c] /\ Copy(c).members = Members(c)
        /\ Copy(c).gave = [q \in Player |-> IF guild[q] = c THEN contributed[q] ELSE 0]
    BY DEF Copy
  <2>2. score[c] \in Nat /\ Amount \in Nat /\ Members(c) \subseteq Player
    BY <1>1, GuildAssumption DEF TypeInv, TypeOK, Members
  <2>3. CASE j.op = "hatch"
    <3>1. p \in Members(c)
      BY <1>1, <1>4, <2>3 DEF Members
    <3>2. credited(Copy(c), p) =
            [Copy(c) EXCEPT !.score = @ + Amount, !.gave[p] = @ + Amount]
      BY <2>1, <3>1 DEF credited
    <3>3. /\ credited(Copy(c), p).members = Members(c)
          /\ credited(Copy(c), p).score = score[c] + Amount
      BY <3>2 DEF Copy
    <3>4. credited(Copy(c), p).gave = [Copy(c).gave EXCEPT ![p] = @ + Amount]
      BY <3>2 DEF Copy
    <3>5. \A q \in Members(c) : guild[q] = c
      BY DEF Members
    <3> QED
      BY <1>1, <1>4, <2>1, <2>2, <2>3, <3>1, <3>3, <3>4, <3>5
  <2>4. CASE j.op # "hatch"
    <3>1. /\ addMember(Copy(c), p).members = Members(c) \cup {p}
          /\ addMember(Copy(c), p).score = score[c]
          /\ addMember(Copy(c), p).gave = [Copy(c).gave EXCEPT ![p] = 0]
      BY DEF addMember, Copy
    <3>2. \A q \in Members(c) : guild[q] = c
      BY DEF Members
    <3> QED
      BY <1>1, <1>4, <2>1, <2>2, <2>4, <3>1, <3>2
  <2> QED
    BY <2>3, <2>4
<1>6. /\ founded' = founded \cup {c}
      /\ \A q \in Player :
           /\ flag'[q] = IF q = p THEN c ELSE flag[q]
           /\ guild'[q] = IF q \in con[r].members THEN c
                          ELSE IF guild[q] = c THEN NoCon ELSE guild[q]
           /\ contributed'[q] = IF q \in con[r].members THEN con[r].gave[q]
                                ELSE IF guild[q] = c THEN 0 ELSE contributed[q]
      /\ \A d \in Con :
           /\ score'[d] = IF d = c THEN con[r].score ELSE score[d]
           /\ given'[d] = IF d = c THEN given[c] + IF j.op = "hatch" THEN Amount ELSE 0
                          ELSE given[d]
  BY <1>0, <1>1, <1>2, <1>4 DEF SaveCon, SaveFlags, savedMember, TypeInv, TypeOK
<1>7. \A q \in Player : q \in Members(c) <=> guild[q] = c
  BY DEF Members
<1>8. flag'[p] = c /\ guild'[p] = c /\ contributed'[p] = con[r].gave[p]
  BY <1>1, <1>5, <1>6
<1>9. \A q \in Player \ {p} : /\ flag'[q] = flag[q] /\ guild'[q] = guild[q]
                              /\ contributed'[q] = contributed[q]
  BY <1>5, <1>6, <1>7
<1>10. \A d \in Con : score[d] \in Nat /\ given[d] \in Nat
  BY DEF TypeInv, TypeOK
<1> QED
  BY <1>0, <1>1, <1>2, <1>3, <1>4, <1>5, <1>6, <1>8, <1>9, <1>10, GuildAssumption

LEMMA MemberSum ==
    ASSUME TypeInv, NEW c
    PROVE  /\ Members(c) \subseteq Player /\ IsFiniteSet(Members(c))
           /\ \A q \in Members(c) : contributed[q] \in Nat
           /\ SumOver(contributed, Members(c)) \in Nat
<1>1. Members(c) \subseteq Player /\ \A q \in Members(c) : contributed[q] \in Nat
  BY DEF Members, TypeInv, TypeOK
<1>2. IsFiniteSet(Members(c))
  BY <1>1, MembersFinite
<1> QED
  BY <1>1, <1>2, TotalType

LEMMA SaveConCalm ==
    ASSUME TypeInv, Calm, NEW r \in Req, SaveCon(r)
    PROVE  Calm' /\ \A q \in Player : guild[q] # NoCon => guild'[q] = guild[q]
<1>0. PICK c, p : c = job[r].con /\ p = job[r].who
  OBVIOUS
<1>1. /\ c \in Con /\ p \in Player /\ pc[r] = "save"
      /\ c \in Cons(job[r]) /\ Players(job[r]) = {p}
      /\ founded' = founded \cup {c}
      /\ flag'[p] = c /\ guild'[p] = c
      /\ \A q \in Player \ {p} : /\ flag'[q] = flag[q] /\ guild'[q] = guild[q]
                                 /\ contributed'[q] = contributed[q]
  BY <1>0, SaveWrites
<1>2. PICK plus \in {0, Amount} :
        /\ guild[p] = IF job[r].op = "hatch" THEN c ELSE NoCon
        /\ contributed'[p] = IF job[r].op = "hatch" THEN contributed[p] + Amount ELSE 0
        /\ plus = IF job[r].op = "hatch" THEN Amount ELSE 0
        /\ \A d \in Con : /\ score'[d] = score[d] + IF d = c THEN plus ELSE 0
                          /\ given'[d] = given[d] + IF d = c THEN plus ELSE 0
  <2>1. \A d \in Con : score[d] \in Nat /\ given[d] \in Nat
    BY DEF TypeInv, TypeOK
  <2> QED
    BY <1>0, <2>1, SaveWrites
<1>3. /\ plus \in Nat /\ NoCon \notin Con /\ contributed[p] \in Nat
      /\ \A d \in Con : score[d] \in Nat /\ given[d] \in Nat
  BY <1>1, GuildAssumption DEF TypeInv, TypeOK
<1>4. Standing'
  BY <1>1, <1>2, <1>3 DEF Calm, Standing
<1>5. ASSUME NEW d \in Con, d # c
      PROVE  /\ Members(d)' = Members(d)
             /\ \A q \in Members(d) : contributed'[q] = contributed[q]
  BY <1>1, <1>2, <1>3, <1>5 DEF Members
<1>6. SumOver(contributed', Members(c)') = SumOver(contributed, Members(c)) + plus
  <2>1. /\ IsFiniteSet(Members(c)) /\ IsFiniteSet(Members(c) \ {p})
        /\ SumOver(contributed, Members(c)) \in Nat
        /\ \A q \in Members(c) : contributed[q] \in Nat /\ q \in Player
    BY MemberSum, FS_Subset
  <2>2. /\ Members(c)' = Members(c) \cup {p}
        /\ p \in Members(c) <=> job[r].op = "hatch"
    BY <1>1, <1>2, <1>3 DEF Members
  <2>3. /\ \A q \in Members(c) \cup {p} : contributed'[q] \in Nat
        /\ \A q \in Members(c) \ {p} : contributed'[q] = contributed[q]
    BY <1>1, <1>2, <1>3, <2>1, GuildAssumption
  <2>4. SumOver(contributed', Members(c) \ {p}) = SumOver(contributed, Members(c) \ {p})
    BY <2>1, <2>3, TotalSame
  <2>5. CASE job[r].op = "hatch"
    <3>1. Members(c)' = Members(c) /\ p \in Members(c)
      BY <2>2, <2>5
    <3>2. SumOver(contributed', Members(c)) =
            contributed'[p] + SumOver(contributed', Members(c) \ {p})
      BY <2>1, <2>3, <3>1, TotalRemove
    <3>3. SumOver(contributed, Members(c)) =
            contributed[p] + SumOver(contributed, Members(c) \ {p})
      BY <2>1, <3>1, TotalRemove
    <3>4. SumOver(contributed, Members(c) \ {p}) \in Nat
      BY <2>1, TotalType
    <3>5. contributed'[p] = contributed[p] + plus
      BY <1>2, <2>5
    <3>6. PICK b, x, y : /\ b = SumOver(contributed, Members(c) \ {p})
                         /\ x = SumOver(contributed, Members(c))
                         /\ y = SumOver(contributed', Members(c))
      OBVIOUS
    <3>7. b \in Nat /\ x = contributed[p] + b /\ y = (contributed[p] + plus) + b
      BY <2>4, <3>2, <3>3, <3>4, <3>5, <3>6
    <3>8. y = x + plus
      BY <1>3, <3>7
    <3> QED
      BY <3>1, <3>6, <3>8
  <2>6. CASE job[r].op # "hatch"
    <3>1. p \notin Members(c) /\ Members(c) \ {p} = Members(c)
      BY <2>2, <2>6
    <3>2. SumOver(contributed', Members(c) \cup {p}) =
            contributed'[p] + SumOver(contributed', Members(c))
      BY <2>1, <2>3, <3>1, TotalAdd
    <3>3. PICK x, y : x = SumOver(contributed, Members(c)) /\ y = SumOver(contributed', Members(c)')
      OBVIOUS
    <3>4. Members(c)' = Members(c) \cup {p} /\ contributed'[p] = 0 /\ plus = 0
      BY <1>2, <2>2, <2>6
    <3>5. y = 0 + x
      BY <2>4, <3>1, <3>2, <3>3, <3>4
    <3>6. x \in Nat
      BY <2>1, <3>3
    <3>7. y = x + plus
      BY <3>4, <3>5, <3>6
    <3> QED
      BY <3>3, <3>7
  <2> QED
    BY <2>5, <2>6
<1>7. Sums'
  <2> SUFFICES ASSUME NEW d \in Con
               PROVE  /\ score'[d] = SumOver(contributed', Members(d)')
                      /\ score'[d] = given'[d]
    BY DEF Sums, Members
  <2>1. /\ score[d] = SumOver(contributed, Members(d)) /\ score[d] = given[d]
        /\ score[d] \in Nat
    BY <1>3 DEF Calm, Sums
  <2>2. CASE d = c
    BY <1>2, <1>3, <1>6, <2>1, <2>2
  <2>3. CASE d # c
    <3>1. SumOver(contributed', Members(d)) = SumOver(contributed, Members(d))
      BY <1>5, <2>3, MemberSum, TotalSame
    <3> QED
      BY <1>2, <1>5, <2>1, <2>3, <3>1
  <2> QED
    BY <2>2, <2>3
<1>8. ASSUME NEW d \in Con, d # c
      PROVE  /\ score'[d] = score[d] /\ Copy(d)' = Copy(d)
             /\ d \in founded' => d \in founded
  <2>1. score'[d] = score[d] /\ (d \in founded' => d \in founded)
    BY <1>1, <1>2, <1>3, <1>8
  <2>2. Members(d)' = Members(d)
    BY <1>5, <1>8
  <2>3. \A q \in Player : (IF guild'[q] = d THEN contributed'[q] ELSE 0)
                           = (IF guild[q] = d THEN contributed[q] ELSE 0)
    BY <1>1, <1>2, <1>3, <1>8
  <2> QED
    BY <2>1, <2>2, <2>3 DEF Copy
<1>9. /\ Placed(r)' /\ Faithful(r)' /\ pc'[r] = "idle"
      /\ \A s \in Req : s # r => Same(s)
  BY EndsClean DEF SaveCon
<1>10. ASSUME NEW s \in Req, s # r, pc[s] # "idle"
       PROVE  /\ Placed(s)' /\ Faithful(s)'
              /\ Players(job[s])' = Players(job[s]) /\ Cons(job[s])' = Cons(job[s])
  <2>1. /\ p \notin Players(job[s]) /\ c \notin Cons(job[s])
    BY <1>1, <1>10 DEF Calm, Uncrossed, Busy
  <2>2. Players(job[s]) \subseteq Player /\ Cons(job[s]) \subseteq Con
    <3>1. job[s] \in Job /\ job[s].who \in Player
      BY <1>10, Typed
    <3> QED
      BY <3>1 DEF Players, Cons, Job, TypeInv, TypeOK
  <2>3. \A q \in Players(job[s]) : flag'[q] = flag[q]
    BY <1>1, <2>1, <2>2
  <2>4. \A d \in Cons(job[s]) :
          score'[d] = score[d] /\ Copy(d)' = Copy(d) /\ (d \in founded' => d \in founded)
    BY <1>8, <2>1, <2>2
  <2> QED
    BY <1>9, <1>10, <2>3, <2>4, Frame
<1>11. \A s \in Req : Placed(s)' /\ Faithful(s)'
  <2> TAKE s \in Req
  <2>1. CASE s # r /\ pc[s] = "idle"
    <3>1. pc'[s] = "idle" /\ job'[s] = NoJob /\ con'[s] = NewCon
      BY <1>9, <2>1 DEF Calm, Placed, Same
    <3> QED
      BY <3>1, NothingRead
  <2> QED
    BY <1>9, <1>10, <2>1
<1>12. Uncrossed'
  <2> SUFFICES ASSUME NEW s \in Req, NEW t \in Req, s # t, pc'[s] # "idle", pc'[t] # "idle"
               PROVE  /\ Players(job[s])' \cap Players(job[t])' = {}
                      /\ Cons(job[s])' \cap Cons(job[t])' = {}
    BY DEF Uncrossed, Busy
  <2>1. s # r /\ t # r /\ pc[s] # "idle" /\ pc[t] # "idle"
    BY <1>9 DEF Same
  <2> QED
    BY <1>10, <2>1 DEF Calm, Uncrossed, Busy
<1>13. \A q \in Player : guild[q] # NoCon => guild'[q] = guild[q]
  BY <1>1, <1>2
<1> QED
  BY <1>4, <1>7, <1>11, <1>12, <1>13 DEF Calm

LEMMA SavePlayersCalm ==
    ASSUME TypeInv, Calm, NEW r \in Req, SavePlayers(r)
    PROVE  Calm'
<1>0. PICK j : j = job[r]
  OBVIOUS
<1>1. /\ pc[r] = "save" /\ j \in Job /\ j.who \in Player /\ j.con = NoCon
      /\ Placed(r) /\ Faithful(r) /\ j.op \in {"hatch", "visit"}
      /\ j.op # "visit" => j.other = NoPlayer
      /\ j.op = "visit" => j.other \in Player
  BY <1>0, Typed, GuildAssumption DEF SavePlayers, Calm, Placed, Job
<1>2. \A q \in Players(j) : flags[r][q] = flag[q]
  BY <1>0, <1>1 DEF Players, Faithful
<1>3. flag' = flag
  <2>1. \A q \in Player : flag'[q] = flag[q]
    BY <1>0, <1>2 DEF SavePlayers, SaveFlags
  <2>2. flag' \in [Player -> {flag'[q] : q \in Player}] /\ flag \in [Player -> Con \cup {NoCon}]
    BY DEF SavePlayers, SaveFlags, TypeInv, TypeOK
  <2> QED
    BY <2>1, <2>2
<1> QED
  BY <1>1, <1>3, EndsClean, OwnStep DEF SavePlayers, tables

LEMMA InitCalm == Init => CalmInv
<1> SUFFICES ASSUME Init PROVE Calm
  BY TypeInit DEF CalmInv
<1>1. Standing /\ Uncrossed
  BY DEF Init, Standing, Uncrossed, Busy
<1>2. Sums
  <2>1. \A c \in Con : Members(c) = {}
    BY GuildAssumption DEF Init, Members
  <2> QED
    BY <2>1, TotalEmpty DEF Init, Sums
<1>3. \A r \in Req : Placed(r) /\ Faithful(r)
  BY DEF Init, Placed, Faithful, NoJob
<1> QED
  BY <1>1, <1>2, <1>3 DEF Calm

\* What no step does, except one that crosses another request.
Stays == \A p \in Player : guild[p] # NoCon => guild'[p] = guild[p]

LEMMA NextCalm ==
    CalmInv /\ [Next]_vars =>
        CalmInv' /\ [~crossed => \A p \in Player : guild[p] # NoCon
                                                    => guild'[p] = guild[p]]_vars
<1> SUFFICES ASSUME CalmInv, [Next]_vars
             PROVE  /\ ~crossed' => Calm'
                    /\ ~crossed => Stays
  BY TypeStep DEF CalmInv, Stays
<1>1. CASE UNCHANGED vars
  <2>1. \A s \in Req : Same(s)
    BY <1>1 DEF vars, Same
  <2>2. ASSUME Calm PROVE Calm'
    <3>1. Standing' /\ Sums' /\ Uncrossed'
      BY <1>1, <2>2 DEF vars, tables, Calm, Standing, Sums, Uncrossed, Busy, Players,
                        Cons, Members
    <3>2. ASSUME NEW s \in Req PROVE Placed(s)' /\ Faithful(s)'
      <4>1. CASE pc[s] = "idle"
        <5>1. pc'[s] = "idle" /\ job'[s] = NoJob /\ con'[s] = NewCon
          BY <2>1, <2>2, <4>1 DEF Calm, Placed, Same
        <5> QED
          BY <5>1, NothingRead
      <4>2. CASE pc[s] # "idle"
        <5>1. /\ TypeInv /\ flag' = flag /\ score' = score /\ founded' = founded
              /\ \A c : Copy(c)' = Copy(c)
          BY <1>1 DEF vars, tables, CalmInv, Copy, Members
        <5> QED
          BY <2>1, <2>2, <4>2, <5>1, Frame
      <4> QED
        BY <4>1, <4>2
    <3> QED
      BY <3>1, <3>2 DEF Calm
  <2> QED
    BY <1>1, <2>2 DEF CalmInv, vars, tables, Stays
<1>2. ASSUME NEW r \in Req, Arrive(r)
      PROVE  (~crossed' => Calm') /\ Stays
  <2>1. UNCHANGED guild /\ (crossed => crossed')
    BY <1>2 DEF Arrive, Submit, tables
  <2> QED
    BY <1>2, <2>1, ArriveCalm DEF CalmInv, Stays
<1>3. ASSUME NEW r \in Req,
             \/ ReadSelf(r) \/ ReadOther(r) \/ ReadName(r) \/ ReadCon(r)
             \/ ReadMembers(r) \/ HandleCreate(r) \/ HandleJoin(r) \/ HandleHatch(r)
             \/ SavePlayers(r)
      PROVE  (~crossed' => Calm') /\ Stays
  <2>1. UNCHANGED <<guild, crossed>>
    BY <1>3 DEF ReadSelf, ReadOther, ReadName, ReadCon, ReadMembers, HandleCreate,
                HandleJoin, HandleHatch, SavePlayers, tables
  <2> QED
    BY <1>3, <2>1, ReadSelfCalm, QueriesCalm, HandlersCalm, SavePlayersCalm
    DEF CalmInv, Stays
<1>4. ASSUME NEW r \in Req, DuplicateName(r) \/ Reject(r) \/ Fail(r)
      PROVE  (~crossed' => Calm') /\ Stays
  <2>1. Drop(r) /\ pc[r] # "idle" /\ UNCHANGED <<guild, crossed>>
    BY <1>4 DEF DuplicateName, Reject, Fail, Drop, tables
  <2> QED
    BY <2>1, DropCalm DEF CalmInv, Stays
<1>5. ASSUME NEW r \in Req, SaveCon(r)
      PROVE  (~crossed' => Calm') /\ (~crossed => Stays)
  <2>1. UNCHANGED crossed
    BY <1>5 DEF SaveCon
  <2> QED
    BY <1>5, <2>1, SaveConCalm DEF CalmInv, Stays
<1> QED
  BY <1>1, <1>2, <1>3, <1>4, <1>5 DEF Next

\* As long as no two requests in flight touch the same rows, the flag that the
\* handlers go by and the member row that the cap and the chat go by agree.
THEOREM MembershipIsOne == Spec => []MembershipAgrees
<1>1. CalmInv => MembershipAgrees
  BY DEF CalmInv, Calm, Standing, MembershipAgrees
<1> QED
  BY InitCalm, NextCalm, <1>1, PTL DEF Spec

\* As long as no two requests in flight touch the same rows, a member row stays
\* where it is: no commit moves or loses a member.
THEOREM MembersAreKept == Spec => MembersStay
<1> QED
  BY InitCalm, NextCalm, PTL DEF Spec, MembersStay

\* As long as no two requests in flight touch the same rows, the score of a
\* constellation is what its members gave, and no committed hatch is missing.
THEOREM ScoresAddUp == Spec => []ScoreAddsUp
<1>1. \A S : MapThenSumSet(Share, S) = SumOver(contributed, S)
  BY DEF MapThenSumSet, MapThenFoldSet, Share, SumOver, Pick
<1>2. CalmInv => ScoreAddsUp
  BY <1>1 DEF CalmInv, Calm, Sums, ScoreAddsUp
<1> QED
  BY InitCalm, NextCalm, <1>2, PTL DEF Spec

=============================================================================
