--------------------------- MODULE BrowserProofs ----------------------------
(***************************************************************************)
(* Theorems about SignUp, accounts and the tabs of a browser, and about    *)
(* Client, the page of a game, for every value of their constants.         *)
(***************************************************************************)
EXTENDS SignUp, Client, FiniteSums

(***************************************************************************)
(* Accounts.  A player that is being made is nobody else's, and what a     *)
(* transaction is about to commit has no rival.                            *)
(***************************************************************************)
Making == {"begin", "inserted", "linked"}

Request(r) ==
    /\ at[r] = "new" => device[r] = NoDevice /\ wanted[r] = NoHandle
    /\ at[r] \in {"lookup", "found", "linked"} => device[r] # NoDevice
    /\ device[r] # NoDevice => wanted[r] = NoHandle
    /\ linkedAt[r] # NoPlayer =>
         /\ device[r] # NoDevice /\ identity[device[r]] = linkedAt[r]
         /\ at[r] \in {"lookup", "found", "answered", "failed"}
    /\ at[r] = "found" => player[r] = identity[device[r]] /\ player[r] # NoPlayer
    /\ at[r] = "answered" =>
         /\ player[r] \in rows
         /\ linkedAt[r] # NoPlayer => player[r] = linkedAt[r]

Maker(r) ==
    at[r] \in Making =>
        /\ player[r] \in Player \ rows
        /\ \A s \in Req \ {r} : player[s] # player[r]

Unrivalled(r) ==
    at[r] \in {"inserted", "linked"} /\ wanted[r] # NoHandle =>
        /\ \A p \in rows : handle[p] # wanted[r]
        /\ \A s \in Req \ {r} : at[s] \in {"inserted", "linked"} => wanted[s] # wanted[r]

AccountsInv ==
    /\ \A r \in Req : Request(r) /\ Maker(r) /\ Unrivalled(r)
    /\ \A p \in rows : \E r \in Req : at[r] = "answered" /\ player[r] = p
    /\ \A p, q \in rows : handle[p] = handle[q] /\ handle[p] # NoHandle => p = q
    /\ \A d \in Device : identity[d] \in rows \cup {NoPlayer}

(***************************************************************************)
(* The world.                                                              *)
(***************************************************************************)
Ever == lumi + SumOver(made, Req)

\* What the counter may hold at most, and has to where transactions queue up.
High == total <= Ever /\ row <= Ever /\ \A r \in Req : value[r] <= Ever
Low ==
    ~ pooled =>
         /\ lumi + SumOver(made, W!InFlight) <= total
         /\ lumi <= row
         /\ \A r, s \in W!InTx : r = s
         /\ \A r \in Req : tx[r] \in {"sent", "written"} => lumi + made[r] <= value[r]

WorldInv == High /\ Low /\ \A r \in Req : tx[r] \in {"new", "done"} => made[r] = 0

(***************************************************************************)
(* The browser.                                                            *)
(***************************************************************************)
Recoverable(account) ==
    IF account.pid = NoPlayer THEN account.device = NoDevice
    ELSE /\ account.pid \in rows /\ account.device # NoDevice
         /\ identity[account.device] = account.pid

\* The request of a tab without an account: nobody else has its device.
First(r) ==
    IF at[r] = "answered" THEN identity[device[r]] = player[r]
    ELSE /\ identity[device[r]] = NoPlayer /\ device[r] \notin Chosen
         /\ \A s \in Req \ {r} : device[s] # device[r]

Waits(t) ==
    tab[t] = "waiting" =>
        /\ call[t] \in Req /\ at[call[t]] # "new" /\ device[call[t]] # NoDevice
        /\ IF me[t].pid = NoPlayer THEN First(call[t])
           ELSE device[call[t]] = me[t].device /\ linkedAt[call[t]] = me[t].pid

BrowserInv ==
    /\ Recoverable(kept)
    /\ \A t \in Tab : Recoverable(me[t]) /\ Waits(t)

SignUpInv == AllTypeOK /\ AccountsInv /\ WorldInv /\ BrowserInv

\* What a step may do to the accounts, and the restart among them.
Aborts ==
    /\ at' = [r \in Req |-> IF at[r] \in Working THEN "failed" ELSE at[r]]
    /\ UNCHANGED <<stored, asked, player>>

AccountStep == Next \/ Aborts \/ UNCHANGED vars

LEMMA StepSplits ==
    ASSUME [AllNext]_allVars
    PROVE  AccountStep /\ [W!Next]_(W!vars)
<1>1. CASE UNCHANGED allVars
  BY <1>1 DEF allVars, world, AccountStep, W!vars
<1>2. ASSUME NEW r \in Req,
             \/ Registers(r) \/ LogsIn(r) \/ Hatches(r) \/ Looks(r) \/ Creates(r)
             \/ Begins(r) \/ Inserts(r) \/ Links(r) \/ Sends(r) \/ Writes(r)
             \/ Commits(r) \/ Fails(r)
      PROVE  AccountStep /\ [W!Next]_(W!vars)
  <2>1. \/ Register(r) \/ Login(r) \/ LookUp(r) \/ CreatePlayer(r) \/ InsertPlayer(r)
        \/ Link(r) \/ Commit(r) \/ Recover(r) \/ Fail(r) \/ UNCHANGED vars
    BY <1>2 DEF Registers, LogsIn, Hatches, Looks, Creates, Begins, Inserts, Links, Sends,
                Writes, Commits, Fails
  <2>2. \/ W!Make(r) \/ W!Begin(r) \/ W!Send(r) \/ W!Write(r) \/ W!Commit(r) \/ W!Fail(r)
        \/ UNCHANGED W!vars
    BY <1>2 DEF Registers, LogsIn, Hatches, Looks, Creates, Begins, Inserts, Links, Sends,
                Writes, Commits, Fails, world, W!vars
  <2>3. AccountStep
    BY <2>1 DEF AccountStep, Next
  <2>4. [W!Next]_(W!vars)
    BY <2>2 DEF W!Next
  <2> QED BY <2>3, <2>4
<1>3. ASSUME NEW t \in Tab,
             \/ Open(t) \/ Resume(t) \/ TokenRefused(t) \/ NotResumed(t)
             \/ GuestLogin(t) \/ Answered(t) \/ NotAnswered(t)
      PROVE  AccountStep /\ [W!Next]_(W!vars)
  <2>1. (\E r \in Req : Login(r)) \/ UNCHANGED vars
    BY <1>3 DEF Open, Resume, TokenRefused, NotResumed, GuestLogin, Answered, NotAnswered
  <2>2. UNCHANGED W!vars
    BY <1>3 DEF Open, Resume, TokenRefused, NotResumed, GuestLogin, Answered, NotAnswered,
                world, W!vars
  <2> QED BY <2>1, <2>2 DEF AccountStep, Next
<1>4. CASE Restarts
  BY <1>4 DEF Restarts, Aborts, AccountStep, W!Next
<1> QED BY <1>1, <1>2, <1>3, <1>4 DEF AllNext

-----------------------------------------------------------------------------

LEMMA AccountsType == TypeOK /\ AccountsInv /\ AccountStep => TypeOK'
<1> USE AccountsAssumption DEF stored, asked, Places, Working
<1> SUFFICES ASSUME TypeOK, AccountsInv, AccountStep PROVE TypeOK'
  OBVIOUS
<1>1. ASSUME NEW r \in Req, Register(r) \/ Login(r) PROVE TypeOK'
  BY <1>1 DEF Register, Login, Goes, TypeOK
<1>2. ASSUME NEW r \in Req, LookUp(r) PROVE TypeOK'
  <2>1. device[r] \in Device /\ identity[device[r]] \in Player \cup {NoPlayer}
    BY <1>2 DEF TypeOK, LookUp, AccountsInv, Request
  <2> QED BY <1>2, <2>1 DEF LookUp, Goes, TypeOK
<1>3. ASSUME NEW r \in Req, CreatePlayer(r) PROVE TypeOK'
  BY <1>3 DEF CreatePlayer, Goes, TypeOK
<1>4. ASSUME NEW r \in Req, InsertPlayer(r) \/ Link(r) \/ Recover(r) \/ Fail(r) PROVE TypeOK'
  BY <1>4 DEF InsertPlayer, Link, Recover, Fail, Goes, TypeOK
<1>5. ASSUME NEW r \in Req, Commit(r) PROVE TypeOK'
  <2>1. player[r] \in Player
    BY <1>5 DEF Commit, AccountsInv, Maker, Making
  <2> QED BY <1>5, <2>1 DEF Commit, links, Goes, TypeOK
<1>6. CASE Aborts \/ UNCHANGED vars
  BY <1>6 DEF Aborts, vars, TypeOK
<1> QED BY <1>1, <1>2, <1>3, <1>4, <1>5, <1>6 DEF AccountStep, Next

\* Nothing is taken back, and no device is given to another player.
Keeps ==
    /\ rows \subseteq rows'
    /\ \A p \in rows : handle'[p] = handle[p]
    /\ \A d \in Device : identity[d] # NoPlayer => identity'[d] = identity[d]

\* Another request than the one that takes the step.
Untouched(s) ==
    /\ at'[s] = at[s] /\ device'[s] = device[s] /\ wanted'[s] = wanted[s]
    /\ player'[s] = player[s] /\ linkedAt'[s] = linkedAt[s]

\* A step of r that commits nothing.
LEMMA NoCommit ==
    ASSUME TypeOK, TypeOK', AccountsInv, NEW r \in Req, UNCHANGED stored,
           \A s \in Req \ {r} : Untouched(s), at[r] # "answered" \/ Untouched(r),
           Request(r)', Maker(r)', Unrivalled(r)',
           \A s \in Req \ {r} : at[s] \in Making => player'[r] # player[s],
           at'[r] \in {"inserted", "linked"} /\ wanted'[r] # NoHandle =>
               \A s \in Req \ {r} : at[s] \in {"inserted", "linked"} => wanted[s] # wanted'[r]
    PROVE  AccountsInv'
<1> USE DEF stored
<1>1. ASSUME NEW s \in Req \ {r} PROVE (Request(s) /\ Maker(s) /\ Unrivalled(s))'
  <2>1. Request(s) /\ Maker(s) /\ Unrivalled(s) /\ Untouched(s)
    BY DEF AccountsInv
  <2>2. Request(s)'
    BY <2>1 DEF Untouched, Request
  <2>3. Maker(s)'
    BY <2>1 DEF Untouched, Maker
  <2>4. Unrivalled(s)'
    BY <2>1 DEF Untouched, Unrivalled
  <2> QED BY <2>2, <2>3, <2>4
<1>2. \A p \in rows' : \E s \in Req : at'[s] = "answered" /\ player'[s] = p
  BY DEF AccountsInv, Untouched
<1> QED BY <1>1, <1>2 DEF AccountsInv

LEMMA CreateAccounts == ASSUME TypeOK, TypeOK', AccountsInv, NEW r \in Req, CreatePlayer(r) PROVE AccountsInv'
<1> USE AccountsAssumption DEF asked, stored
<1>1. at[r] = "create" /\ UNCHANGED <<stored, asked>> /\ Request(r)
  BY DEF CreatePlayer, AccountsInv
<1>2. \A s \in Req \ {r} : Untouched(s)
  BY DEF CreatePlayer, Goes, Untouched, TypeOK
<1>3. \/ at'[r] = "taken" /\ player'[r] = player[r]
      \/ at'[r] = "begin" /\ player'[r] \in Player \ {player[s] : s \in Req}
  <2>1. CASE Goes(r, "taken") /\ UNCHANGED player
    BY <2>1 DEF Goes, TypeOK
  <2>2. ASSUME NEW p \in Player \ {player[s] : s \in Req}, player' = [player EXCEPT ![r] = p],
               Goes(r, "begin")
        PROVE  at'[r] = "begin" /\ player'[r] \in Player \ {player[s] : s \in Req}
    BY <2>2 DEF Goes, TypeOK
  <2> QED BY <2>1, <2>2 DEF CreatePlayer
<1>4. Request(r)'
  BY <1>1, <1>3 DEF Request
<1>5. Maker(r)'
  BY <1>1, <1>2, <1>3 DEF Maker, Making, AccountsInv, Untouched
<1>6. Unrivalled(r)'
  BY <1>3 DEF Unrivalled
<1>7. \A s \in Req \ {r} : at[s] \in Making => player'[r] # player[s]
  BY <1>3 DEF AccountsInv, Maker
<1> QED BY <1>1, <1>2, <1>3, <1>4, <1>5, <1>6, <1>7, NoCommit

LEMMA StartAccounts ==
    ASSUME TypeOK, TypeOK', AccountsInv, NEW r \in Req, Register(r) \/ Login(r) \/ LookUp(r)
    PROVE  AccountsInv'
<1> USE AccountsAssumption DEF asked, stored
<1>1. at[r] \in {"new", "lookup"} /\ UNCHANGED stored /\ Request(r)
  BY DEF Register, Login, LookUp, AccountsInv
<1>2. \A s \in Req \ {r} : Untouched(s)
  BY DEF Register, Login, LookUp, Goes, Untouched, TypeOK
<1>3. at'[r] \in {"create", "lookup", "found"}
  BY DEF Register, Login, LookUp, Goes, TypeOK
<1>4. Request(r)'
  <2>1. CASE Register(r)
    BY <1>1, <2>1 DEF Register, Goes, TypeOK, Request
  <2>2. CASE Login(r)
    BY <1>1, <2>2 DEF Login, Goes, TypeOK, Request
  <2>3. CASE LookUp(r)
    <3>1. player' = [player EXCEPT ![r] = identity[device[r]]] /\ UNCHANGED asked
          /\ Goes(r, IF player'[r] = NoPlayer THEN "create" ELSE "found") /\ at[r] = "lookup"
      BY <2>3 DEF LookUp
    <3>2. player'[r] = identity[device[r]]
      BY <3>1 DEF TypeOK
    <3> QED BY <1>1, <3>1, <3>2 DEF Goes, TypeOK, Request
  <2> QED BY <2>1, <2>2, <2>3
<1>5. Maker(r)' /\ Unrivalled(r)'
  BY <1>3 DEF Maker, Making, Unrivalled
<1>6. \A s \in Req \ {r} : at[s] \in Making => player'[r] # player[s]
  <2>1. player'[r] = player[r] \/ player'[r] \in rows \cup {NoPlayer}
    <3>1. LookUp(r) => player'[r] = identity[device[r]] /\ device[r] \in Device
      BY <1>1 DEF LookUp, TypeOK, Request
    <3>2. ~ LookUp(r) => player'[r] = player[r]
      BY DEF Register, Login
    <3> QED BY <3>1, <3>2 DEF AccountsInv
  <2> QED BY <2>1 DEF AccountsInv, Maker, TypeOK
<1> QED BY <1>1, <1>2, <1>3, <1>4, <1>5, <1>6, NoCommit

\* What the unique key of players.handle has let through has no rival.
LEMMA InsertAccounts ==
    ASSUME TypeOK, TypeOK', AccountsInv, NEW r \in Req, InsertPlayer(r)
    PROVE  AccountsInv'
<1> USE AccountsAssumption DEF asked, stored
<1>1. /\ at[r] = "begin" /\ UNCHANGED <<stored, asked, player>> /\ Request(r) /\ Maker(r)
      /\ wanted[r] = NoHandle \/ Inserting(wanted[r]) = {}
  BY DEF InsertPlayer, AccountsInv
<1>2. \A s \in Req \ {r} : Untouched(s)
  BY DEF InsertPlayer, Goes, Untouched, TypeOK
<1>3. at'[r] = IF handleFree(wanted[r]) THEN "inserted" ELSE "failed"
  BY DEF InsertPlayer, Goes, TypeOK
<1>4. Request(r)' /\ Maker(r)'
  <2>1. Request(r)'
    BY <1>1, <1>3 DEF Request
  <2>2. Maker(r)'
    BY <1>1, <1>3 DEF Maker, Making
  <2> QED BY <2>1, <2>2
<1>5. ASSUME at'[r] = "inserted", wanted[r] # NoHandle
      PROVE  /\ \A p \in rows : handle[p] # wanted[r]
             /\ \A s \in Req \ {r} : at[s] \in {"inserted", "linked"} => wanted[s] # wanted[r]
  <2>1. \A p \in rows : handle[p] # wanted[r]
    BY <1>3, <1>5 DEF handleFree, Holders
  <2>2. ASSUME NEW s \in Req \ {r}, at[s] = "inserted" PROVE wanted[s] # wanted[r]
    BY <1>1, <1>5, <2>2 DEF Inserting
  <2>3. ASSUME NEW s \in Req \ {r}, at[s] = "linked" PROVE wanted[s] = NoHandle
    BY <2>3 DEF AccountsInv, Request
  <2> QED BY <1>5, <2>1, <2>2, <2>3
<1>6. Unrivalled(r)'
  BY <1>1, <1>2, <1>3, <1>5 DEF Unrivalled, Untouched
<1>7. \A s \in Req \ {r} : at[s] \in Making => player'[r] # player[s]
  BY <1>1 DEF AccountsInv, Maker
<1> QED BY <1>1, <1>2, <1>3, <1>4, <1>5, <1>6, <1>7, NoCommit

LEMMA LinkAccounts ==
    ASSUME TypeOK, TypeOK', AccountsInv, NEW r \in Req, Link(r) \/ Fail(r)
    PROVE  AccountsInv'
<1> USE AccountsAssumption DEF asked, stored
<1>1. /\ UNCHANGED <<stored, asked, player>> /\ Request(r) /\ Maker(r) /\ Unrivalled(r)
      /\ at[r] # "answered"
  BY DEF Link, Fail, Working, AccountsInv
<1>2. \A s \in Req \ {r} : Untouched(s)
  BY DEF Link, Fail, Goes, Untouched, TypeOK
<1>3. \/ at[r] = "inserted" /\ device[r] # NoDevice /\ at'[r] = "linked"
      \/ at'[r] = "failed"
  BY DEF Link, Fail, Goes, TypeOK
<1>4. Request(r)' /\ Maker(r)' /\ Unrivalled(r)'
  <2>1. Request(r)'
    BY <1>1, <1>3 DEF Request, Fail, Link
  <2>2. Maker(r)'
    BY <1>1, <1>2, <1>3 DEF Maker, Making
  <2>3. Unrivalled(r)'
    BY <1>1, <1>2, <1>3 DEF Unrivalled, Untouched
  <2> QED BY <2>1, <2>2, <2>3
<1>5. at'[r] \in {"inserted", "linked"} /\ wanted'[r] # NoHandle =>
               \A s \in Req \ {r} : at[s] \in {"inserted", "linked"} => wanted[s] # wanted'[r]
  BY <1>1, <1>3 DEF Unrivalled
<1>6. \A s \in Req \ {r} : at[s] \in Making => player'[r] # player[s]
  BY <1>1 DEF AccountsInv, Maker
<1> QED BY <1>1, <1>2, <1>4, <1>5, <1>6, NoCommit

LEMMA RecoverAccounts ==
    ASSUME TypeOK, TypeOK', AccountsInv, NEW r \in Req, Recover(r)
    PROVE  AccountsInv'
<1> USE AccountsAssumption DEF asked, stored
<1>1. at[r] = "found" /\ UNCHANGED <<stored, asked, player>> /\ Request(r)
  BY DEF Recover, AccountsInv
<1>2. \A s \in Req \ {r} : Untouched(s)
  BY DEF Recover, Goes, Untouched, TypeOK
<1>3. at'[r] = "answered"
  BY DEF Recover, Goes, TypeOK
<1>4. Request(r)'
  <2>1. device[r] \in Device /\ player[r] = identity[device[r]] /\ player[r] \in rows
    BY <1>1 DEF Request, TypeOK, AccountsInv
  <2>2. linkedAt[r] # NoPlayer => player[r] = linkedAt[r]
    BY <1>1, <2>1 DEF Request
  <2>3. \A x : linkedAt[r] # NoPlayer => device[r] # NoDevice /\ identity[device[r]] = linkedAt[r]
    BY <1>1 DEF Request
  <2> QED BY <1>1, <1>3, <2>1, <2>2, <2>3 DEF Request
<1>5. Maker(r)' /\ Unrivalled(r)'
  BY <1>3 DEF Maker, Making, Unrivalled
<1>6. \A s \in Req \ {r} : at[s] \in Making => player'[r] # player[s]
  BY <1>1 DEF AccountsInv, Maker
<1> QED BY <1>1, <1>2, <1>3, <1>4, <1>5, <1>6, NoCommit

LEMMA CommitKeeps ==
    ASSUME TypeOK, AccountsInv, NEW r \in Req, Commit(r)
    PROVE  /\ Keeps
           /\ at[r] \in {"inserted", "linked"} /\ at'[r] = "answered"
           /\ \A s \in Req \ {r} : Untouched(s)
           /\ player[r] \in Player \ rows /\ rows' = rows \cup {player[r]}
           /\ handle'[player[r]] = wanted[r]
           /\ \A d \in Device : identity'[d] \in {identity[d], player[r]}
<1> USE AccountsAssumption DEF asked
<1>1. at[r] = (IF device[r] = NoDevice THEN "inserted" ELSE "linked")
  BY DEF Commit
<1>2. player[r] \in Player \ rows
  BY <1>1 DEF AccountsInv, Maker, Making
<1>3. /\ rows' = rows \cup {player[r]} /\ handle' = [handle EXCEPT ![player[r]] = wanted[r]]
      /\ identity' = [d \in Device |-> IF d = device[r] THEN links(r) ELSE identity[d]]
      /\ Goes(r, "answered") /\ UNCHANGED <<asked, player>>
  BY DEF Commit
<1>4. handle'[player[r]] = wanted[r] /\ \A p \in rows : handle'[p] = handle[p]
  BY <1>2, <1>3 DEF TypeOK
<1>5. \A d \in Device : /\ identity'[d] \in {identity[d], player[r]}
                        /\ identity[d] # NoPlayer => identity'[d] = identity[d]
  BY <1>3 DEF links
<1>6. at'[r] = "answered" /\ \A s \in Req \ {r} : Untouched(s)
  BY <1>3 DEF Goes, Untouched, TypeOK
<1> QED BY <1>1, <1>2, <1>3, <1>4, <1>5, <1>6 DEF Keeps

LEMMA CommitAccounts ==
    ASSUME TypeOK, TypeOK', AccountsInv, NEW r \in Req, Commit(r)
    PROVE  AccountsInv'
<1> USE AccountsAssumption DEF asked
<1>1. /\ Keeps
      /\ at[r] \in {"inserted", "linked"} /\ at'[r] = "answered"
      /\ \A s \in Req \ {r} : Untouched(s)
      /\ player[r] \in Player \ rows /\ rows' = rows \cup {player[r]}
      /\ handle'[player[r]] = wanted[r]
      /\ \A d \in Device : identity'[d] \in {identity[d], player[r]}
  BY CommitKeeps
<1>2. UNCHANGED <<device, wanted, linkedAt, player>>
  BY DEF Commit
<1>3. \A s \in Req : Request(s) /\ Maker(s) /\ Unrivalled(s)
  BY DEF AccountsInv
<1>4. \A s \in Req : Request(s)'
  <2>1. Request(r)'
    BY <1>1, <1>2, <1>3 DEF Request
  <2>2. ASSUME NEW s \in Req \ {r} PROVE Request(s)'
    <3>1. device[s] # NoDevice => device[s] \in Device
      BY DEF TypeOK
    <3>2. device[s] # NoDevice /\ identity[device[s]] # NoPlayer =>
            identity'[device[s]] = identity[device[s]]
      BY <1>1, <3>1 DEF Keeps
    <3> QED BY <1>1, <1>2, <1>3, <3>2 DEF Request, Untouched
  <2> QED BY <2>1, <2>2
<1>5. \A s \in Req : Maker(s)'
  <2>1. ASSUME NEW s \in Req \ {r}, at[s] \in Making PROVE Maker(s)'
    BY <1>1, <1>2, <1>3, <2>1 DEF Maker
  <2> QED BY <1>1, <2>1 DEF Maker, Making, Untouched
<1>6. \A s \in Req : Unrivalled(s)'
  <2>1. ASSUME NEW s \in Req \ {r}, at[s] \in {"inserted", "linked"}, wanted[s] # NoHandle
        PROVE  Unrivalled(s)'
    <3>1. \A p \in rows : handle'[p] # wanted[s]
      BY <1>1, <1>3, <2>1 DEF Unrivalled, Keeps
    <3>2. wanted[r] # wanted[s]
      BY <1>1, <1>3, <2>1 DEF Unrivalled
    <3>3. \A q \in Req \ {s} : at'[q] \in {"inserted", "linked"} => wanted[q] # wanted[s]
      BY <1>1, <1>3, <2>1 DEF Unrivalled, Untouched
    <3> QED BY <1>1, <1>2, <3>1, <3>2, <3>3 DEF Unrivalled
  <2> QED BY <1>1, <1>2, <2>1 DEF Unrivalled, Untouched
<1>7. \A p \in rows' : \E s \in Req : at'[s] = "answered" /\ player'[s] = p
  BY <1>1, <1>2 DEF AccountsInv, Untouched
<1>8. \A p, q \in rows' : handle'[p] = handle'[q] /\ handle'[p] # NoHandle => p = q
  <2>1. \A p, q \in rows : handle'[p] = handle'[q] /\ handle'[p] # NoHandle => p = q
    BY <1>1 DEF AccountsInv, Keeps
  <2>2. \A p \in rows : wanted[r] # NoHandle => handle'[p] # wanted[r]
    BY <1>1, <1>3 DEF Unrivalled, Keeps
  <2> QED BY <1>1, <2>1, <2>2
<1>9. \A d \in Device : identity'[d] \in rows' \cup {NoPlayer}
  BY <1>1 DEF AccountsInv
<1> QED BY <1>4, <1>5, <1>6, <1>7, <1>8, <1>9 DEF AccountsInv

LEMMA AbortAccounts == TypeOK /\ AccountsInv /\ Aborts => AccountsInv'
<1> USE DEF asked, stored, Working
<1> SUFFICES ASSUME TypeOK, AccountsInv, Aborts PROVE AccountsInv'
  OBVIOUS
<1>1. /\ UNCHANGED <<stored, asked, player>>
      /\ \A r \in Req : at'[r] = IF at[r] \in Working THEN "failed" ELSE at[r]
  BY DEF Aborts
<1>2. \A r \in Req : at'[r] \notin {"begin", "inserted", "linked", "lookup", "found"}
  BY <1>1
<1>3. ASSUME NEW r \in Req PROVE (Request(r) /\ Maker(r) /\ Unrivalled(r))'
  <2>1. Request(r)
    BY DEF AccountsInv
  <2>2. Request(r)'
    BY <1>1, <2>1 DEF Request
  <2>3. Maker(r)' /\ Unrivalled(r)'
    BY <1>2 DEF Maker, Making, Unrivalled
  <2> QED BY <2>2, <2>3
<1>4. \A p \in rows' : \E r \in Req : at'[r] = "answered" /\ player'[r] = p
  BY <1>1 DEF AccountsInv
<1> QED BY <1>1, <1>3, <1>4 DEF AccountsInv

LEMMA AccountsStep == TypeOK /\ AccountsInv /\ AccountStep => TypeOK' /\ AccountsInv' /\ Keeps
<1> SUFFICES ASSUME TypeOK, AccountsInv, AccountStep PROVE TypeOK' /\ AccountsInv' /\ Keeps
  OBVIOUS
<1>1. TypeOK'
  BY AccountsType
<1>2. AccountsInv'
  <2>1. ASSUME NEW r \in Req,
               \/ Register(r) \/ Login(r) \/ LookUp(r) \/ CreatePlayer(r)
               \/ InsertPlayer(r) \/ Link(r) \/ Commit(r) \/ Recover(r) \/ Fail(r)
        PROVE  AccountsInv'
    BY <1>1, <2>1, StartAccounts, CreateAccounts, InsertAccounts, LinkAccounts,
       CommitAccounts, RecoverAccounts
  <2>2. CASE UNCHANGED vars
    BY <2>2 DEF vars, stored, asked, AccountsInv, Request, Maker, Making, Unrivalled
  <2> QED BY <2>1, <2>2, AbortAccounts DEF AccountStep, Next
<1>3. Keeps
  <2>1. ASSUME NEW r \in Req, Commit(r) PROVE Keeps
    BY <2>1, CommitKeeps
  <2>2. CASE UNCHANGED stored
    BY <2>2 DEF stored, Keeps
  <2>3. UNCHANGED stored \/ \E r \in Req : Commit(r)
    BY DEF AccountStep, Next, Register, Login, LookUp, CreatePlayer, InsertPlayer, Link,
           Recover, Fail, Aborts, vars
  <2> QED BY <2>1, <2>2, <2>3
<1> QED BY <1>1, <1>2, <1>3

-----------------------------------------------------------------------------

LEMMA WorldType == W!TypeOK /\ [W!Next]_(W!vars) => W!TypeOK'
<1> USE DEF Starters
<1> SUFFICES ASSUME W!TypeOK, [W!Next]_(W!vars) PROVE W!TypeOK'
  OBVIOUS
<1>1. ASSUME NEW r \in Req, W!Make(r) PROVE W!TypeOK'
  <2>1. PICK n \in {0, 1, Starters} : made' = [made EXCEPT ![r] = n] /\ total' = total + n
    BY <1>1 DEF W!Make
  <2> QED BY <1>1, <2>1 DEF W!Make, W!Goes, W!TypeOK
<1>2. ASSUME NEW r \in Req, W!Begin(r) \/ W!Send(r) \/ W!Write(r) PROVE W!TypeOK'
  BY <1>2 DEF W!Begin, W!Send, W!Write, W!Goes, W!TypeOK
<1>3. ASSUME NEW r \in Req, W!Commit(r) PROVE W!TypeOK'
  BY <1>3 DEF W!Commit, W!upserted, W!Goes, W!TypeOK
<1>4. ASSUME NEW r \in Req, W!Fail(r) PROVE W!TypeOK'
  BY <1>4 DEF W!Fail, W!Goes, W!TypeOK
<1>5. CASE W!Restart
  BY <1>5 DEF W!Restart, W!reloaded, W!InFlight, W!TypeOK
<1>6. CASE UNCHANGED W!vars
  BY <1>6 DEF W!vars, W!TypeOK
<1> QED BY <1>1, <1>2, <1>3, <1>4, <1>5, <1>6 DEF W!Next

\* The Lumi of some requests are a natural number of them.
LEMMA MadeSums ==
    ASSUME W!TypeOK, NEW T \in SUBSET Req
    PROVE  /\ IsFiniteSet(T) /\ SumOver(made, T) \in Nat /\ \A r \in Req : made[r] \in Nat
           /\ \A r \in T : /\ SumOver(made, T) = made[r] + SumOver(made, T \ {r})
                           /\ SumOver(made, T \ {r}) \in Nat
<1>1. \A r \in Req : made[r] \in Nat
  BY DEF W!TypeOK, Starters
<1>2. IsFiniteSet(T) /\ \A r \in T : made[r] \in Nat /\ made[r] \in Int
  BY <1>1, SignUpAssumption, FS_Subset
<1>3. SumOver(made, T) \in Nat
  BY <1>2, TotalType
<1>4. ASSUME NEW r \in T
      PROVE  /\ SumOver(made, T) = made[r] + SumOver(made, T \ {r})
             /\ SumOver(made, T \ {r}) \in Nat
  <2>1. IsFiniteSet(T \ {r}) /\ \A s \in T \ {r} : made[s] \in Nat
    BY <1>2, FS_Subset
  <2> QED BY <1>2, <2>1, TotalType, TotalRemove
<1> QED BY <1>1, <1>2, <1>3, <1>4

\* Where one request makes or commits Lumi, a sum over it changes as much.
LEMMA MadeChanges ==
    ASSUME W!TypeOK, NEW T \in SUBSET Req, NEW r \in Req, NEW n \in Nat,
           made' = [made EXCEPT ![r] = n]
    PROVE  SumOver(made', T) = IF r \in T THEN SumOver(made, T) - made[r] + n
                               ELSE SumOver(made, T)
<1>1. /\ IsFiniteSet(T) /\ SumOver(made, T) \in Nat /\ \A s \in T : made[s] \in Int
      /\ made[r] \in Nat
  BY MadeSums
<1>2. \A s \in T : made'[s] = IF s = r THEN n ELSE made[s]
  BY DEF W!TypeOK
<1>3. CASE r \in T
  <2>1. n - made[r] \in Int /\ \A s \in T : made'[s] = IF s = r THEN made[s] + (n - made[r]) ELSE made[s]
    BY <1>1, <1>2
  <2>2. PICK d \in Int : d = n - made[r]
    BY <2>1
  <2>3. PICK g : g = made'
    OBVIOUS
  <2>4. \A s \in T : g[s] = IF s = r THEN made[s] + d ELSE made[s]
    BY <2>1, <2>2, <2>3
  <2>5. SumOver(g, T) = SumOver(made, T) + d
    BY <1>1, <1>3, <2>4, TotalChange
  <2> QED BY <1>1, <1>3, <2>2, <2>3, <2>5
<1>4. CASE r \notin T
  <2>1. PICK g : g = made'
    OBVIOUS
  <2>2. \A s \in T : made[s] = g[s]
    BY <1>2, <1>4, <2>1
  <2>3. SumOver(made, T) = SumOver(g, T)
    BY <1>1, <2>2, TotalSame
  <2> QED BY <1>4, <2>1, <2>3
<1> QED BY <1>3, <1>4

LEMMA MakeWorld ==
    ASSUME W!TypeOK, WorldInv, NEW r \in Req, W!Make(r)
    PROVE  WorldInv'
<1> USE DEF Starters
<1>1. PICK n \in {0, 1, Starters} : made' = [made EXCEPT ![r] = n] /\ total' = total + n
  BY DEF W!Make
<1>2. /\ tx[r] = "new" /\ made[r] = 0 /\ tx' = [tx EXCEPT ![r] = "made"]
      /\ UNCHANGED <<pooled, row, value, lumi>>
  BY DEF W!Make, W!Goes, WorldInv
<1>3. n \in Nat /\ made'[r] = n /\ \A s \in Req \ {r} : made'[s] = made[s] /\ tx'[s] = tx[s]
  BY <1>1, <1>2 DEF W!TypeOK
<1>4. tx'[r] = "made"
  BY <1>2 DEF W!TypeOK
<1>5. W!InFlight' = W!InFlight \cup {r} /\ r \notin W!InFlight /\ W!InTx' = W!InTx
  BY <1>2, <1>3, <1>4 DEF W!InFlight, W!InTx
<1>6. Ever' = Ever + n /\ Ever \in Nat
  <2>1. SumOver(made', Req) = SumOver(made, Req) - made[r] + n /\ SumOver(made, Req) \in Nat
    BY <1>1, <1>3, MadeChanges, MadeSums
  <2> QED BY <1>2, <1>3, <2>1 DEF Ever, W!TypeOK
<1>7. SumOver(made', W!InFlight') = SumOver(made, W!InFlight) + n
  <2>1. PICK F : F = W!InFlight
    OBVIOUS
  <2>2. F \in SUBSET Req /\ F \cup {r} \in SUBSET Req /\ (F \cup {r}) \ {r} = F
    BY <1>5, <2>1 DEF W!InFlight
  <2>3. SumOver(made', F \cup {r}) = SumOver(made, F \cup {r}) - made[r] + n
    BY <1>1, <1>3, <2>2, MadeChanges
  <2>4. SumOver(made, F \cup {r}) = made[r] + SumOver(made, (F \cup {r}) \ {r})
        /\ SumOver(made, (F \cup {r}) \ {r}) \in Nat
    BY <2>2, MadeSums
  <2>5. SumOver(made, (F \cup {r}) \ {r}) = SumOver(made, F)
    BY <2>2
  <2>6. SumOver(made', F \cup {r}) = SumOver(made, F) + n
    BY <1>2, <1>3, <2>2, <2>3, <2>4, <2>5
  <2> QED BY <1>5, <2>1, <2>6
<1>8. High'
  BY <1>1, <1>2, <1>3, <1>6 DEF WorldInv, High, W!TypeOK
<1>9. Low'
  <2>1. SumOver(made, W!InFlight) \in Nat
    BY MadeSums DEF W!InFlight
  <2>2. \A s \in Req : tx'[s] \in {"sent", "written"} => s # r
    BY <1>4
  <2> QED BY <1>1, <1>2, <1>3, <1>5, <1>7, <2>1, <2>2 DEF WorldInv, Low, W!TypeOK
<1> QED BY <1>3, <1>4, <1>8, <1>9 DEF WorldInv

LEMMA CarryWorld ==
    ASSUME W!TypeOK, WorldInv, NEW r \in Req, W!Begin(r) \/ W!Send(r) \/ W!Write(r)
    PROVE  WorldInv'
<1>1. /\ UNCHANGED <<pooled, total, row, made, lumi>> /\ tx[r] \in {"made", "tx", "sent"}
      /\ tx'[r] \in {"tx", "sent", "written"} /\ \A s \in Req \ {r} : tx'[s] = tx[s]
  BY DEF W!Begin, W!Send, W!Write, W!Goes, W!TypeOK
<1>2. W!InFlight' = W!InFlight /\ W!InTx' = W!InTx \cup {r}
  BY <1>1 DEF W!InFlight, W!InTx
<1>3. r \in W!InTx \/ pooled \/ W!InTx = {}
  BY DEF W!Begin, W!Send, W!Write, W!InTx
<1>4. \A s \in Req : value'[s] = IF W!Send(r) /\ s = r THEN total ELSE value[s]
  <2>1. CASE W!Send(r)
    BY <2>1 DEF W!Send, W!TypeOK
  <2>2. CASE ~ W!Send(r)
    BY <2>2 DEF W!Begin, W!Write
  <2> QED BY <2>1, <2>2
<1>5. Ever' = Ever /\ High'
  <2>1. Ever' = Ever
    BY <1>1 DEF Ever
  <2> QED BY <1>1, <1>4, <2>1 DEF WorldInv, High
<1>6. Low'
  <2>1. SumOver(made', W!InFlight') = SumOver(made, W!InFlight)
    BY <1>1, <1>2
  <2>2. W!Send(r) /\ ~ pooled => lumi + made[r] <= total
    <3>1. W!InFlight \in SUBSET Req /\ r \in W!InFlight
      BY <1>1 DEF W!InFlight
    <3>2. /\ SumOver(made, W!InFlight) = made[r] + SumOver(made, W!InFlight \ {r})
          /\ SumOver(made, W!InFlight \ {r}) \in Nat /\ made[r] \in Nat
      BY <3>1, MadeSums
    <3> QED BY <3>2 DEF WorldInv, Low, W!TypeOK
  <2>3. tx'[r] \in {"sent", "written"} => W!Send(r) \/ tx[r] = "sent"
    BY DEF W!Begin, W!Send, W!Write, W!Goes, W!TypeOK
  <2>4. ~ pooled => \A s \in Req : tx'[s] \in {"sent", "written"} => lumi + made[s] <= value'[s]
    BY <1>1, <1>4, <2>2, <2>3 DEF WorldInv, Low
  <2> QED BY <1>1, <1>2, <1>3, <2>1, <2>4 DEF WorldInv, Low
<1> QED BY <1>1, <1>5, <1>6 DEF WorldInv

\* The counter of a commit is the row: it holds what was in it and what the
\* request made, since no other transaction came in between.
LEMMA CommitWorld ==
    ASSUME W!TypeOK, WorldInv, NEW r \in Req, W!Commit(r)
    PROVE  WorldInv'
<1>1. /\ tx[r] = "written" /\ row' = value[r] /\ lumi' = lumi + made[r]
      /\ UNCHANGED <<pooled, total>> /\ made' = [made EXCEPT ![r] = 0]
      /\ value' = [value EXCEPT ![r] = 0] /\ tx' = [tx EXCEPT ![r] = "done"]
  BY DEF W!Commit, W!upserted, W!Goes
<1>2. /\ tx'[r] = "done" /\ \A s \in Req \ {r} : tx'[s] = tx[s] /\ made'[s] = made[s]
      /\ made'[r] = 0 /\ \A s \in Req : value'[s] = IF s = r THEN 0 ELSE value[s]
  BY <1>1 DEF W!TypeOK
<1>3. /\ W!InFlight' = W!InFlight \ {r} /\ r \in W!InFlight
      /\ W!InTx' = W!InTx \ {r} /\ r \in W!InTx
  BY <1>1, <1>2 DEF W!InFlight, W!InTx
<1>4. Ever' = Ever /\ Ever \in Nat
  <2>1. SumOver(made', Req) = SumOver(made, Req) - made[r] + 0
        /\ SumOver(made, Req) \in Nat /\ made[r] \in Nat
    BY <1>1, MadeChanges, MadeSums
  <2> QED BY <1>1, <2>1 DEF Ever, W!TypeOK
<1>5. High'
  BY <1>1, <1>2, <1>4 DEF WorldInv, High, W!TypeOK
<1>6. SumOver(made', W!InFlight') = SumOver(made, W!InFlight) - made[r]
      /\ SumOver(made, W!InFlight) \in Nat /\ made[r] \in Nat
  <2>1. PICK F : F = W!InFlight
    OBVIOUS
  <2>2. F \in SUBSET Req /\ F \ {r} \in SUBSET Req /\ r \in F
    BY <1>3, <2>1 DEF W!InFlight
  <2>3. SumOver(made', F \ {r}) = SumOver(made, F \ {r})
    BY <1>1, <2>2, MadeChanges
  <2>4. /\ SumOver(made, F) = made[r] + SumOver(made, F \ {r}) /\ SumOver(made, F \ {r}) \in Nat
        /\ SumOver(made, F) \in Nat /\ made[r] \in Nat
    BY <2>2, MadeSums
  <2> QED BY <1>3, <2>1, <2>3, <2>4
<1>7. Low'
  <2>1. ASSUME ~ pooled
        PROVE  lumi' + SumOver(made', W!InFlight') <= total' /\ lumi' <= row'
    BY <1>1, <1>6, <2>1 DEF WorldInv, Low, W!TypeOK
  <2>2. ~ pooled => \A s \in Req : tx'[s] \notin {"sent", "written"}
    BY <1>1, <1>2 DEF WorldInv, Low, W!InTx
  <2> QED BY <1>1, <1>3, <2>1, <2>2 DEF WorldInv, Low
<1> QED BY <1>2, <1>5, <1>7 DEF WorldInv

LEMMA FailWorld ==
    ASSUME W!TypeOK, WorldInv, NEW r \in Req, W!Fail(r)
    PROVE  WorldInv'
<1>1. /\ r \in W!InFlight /\ UNCHANGED <<pooled, total, row, made, lumi>>
      /\ value' = [value EXCEPT ![r] = 0] /\ tx' = [tx EXCEPT ![r] = "failed"]
  BY DEF W!Fail, W!Goes
<1>2. /\ tx'[r] = "failed" /\ \A s \in Req \ {r} : tx'[s] = tx[s]
      /\ \A s \in Req : value'[s] = IF s = r THEN 0 ELSE value[s]
  BY <1>1 DEF W!TypeOK
<1>3. W!InFlight' = W!InFlight \ {r} /\ W!InTx' = W!InTx \ {r}
  BY <1>1, <1>2 DEF W!InFlight, W!InTx
<1>4. Ever' = Ever /\ Ever \in Nat
  <2>1. SumOver(made, Req) \in Nat
    BY MadeSums
  <2> QED BY <1>1, <2>1 DEF Ever, W!TypeOK
<1>5. High'
  BY <1>1, <1>2, <1>4 DEF WorldInv, High
<1>6. /\ SumOver(made', W!InFlight') = SumOver(made, W!InFlight) - made[r]
      /\ SumOver(made, W!InFlight) \in Nat /\ made[r] \in Nat
  <2>1. W!InFlight \in SUBSET Req
    BY DEF W!InFlight
  <2>2. /\ SumOver(made, W!InFlight) = made[r] + SumOver(made, W!InFlight \ {r})
        /\ SumOver(made, W!InFlight) \in Nat /\ made[r] \in Nat
        /\ SumOver(made, W!InFlight \ {r}) \in Nat
    BY <1>1, <2>1, MadeSums
  <2> QED BY <1>1, <1>3, <2>2
<1>7. Low'
  BY <1>1, <1>2, <1>3, <1>6 DEF WorldInv, Low, W!TypeOK
<1> QED BY <1>1, <1>2, <1>5, <1>7 DEF WorldInv

LEMMA RestartWorld ==
    ASSUME W!TypeOK, WorldInv, W!Restart
    PROVE  WorldInv'
<1>1. /\ total' = row /\ UNCHANGED <<pooled, row, made, lumi>>
      /\ \A r \in Req : /\ tx'[r] = IF r \in W!InFlight THEN "failed" ELSE tx[r]
                        /\ value'[r] = 0
  BY DEF W!Restart, W!reloaded
<1>2. W!InFlight' = {} /\ W!InTx' = {}
  BY <1>1 DEF W!InFlight, W!InTx
<1>3. Ever' = Ever /\ Ever \in Nat
  <2>1. SumOver(made, Req) \in Nat
    BY MadeSums
  <2> QED BY <1>1, <2>1 DEF Ever, W!TypeOK
<1>4. High'
  BY <1>1, <1>3 DEF WorldInv, High
<1>5. SumOver(made', W!InFlight') = 0
  BY <1>2, TotalEmpty
<1>6. \A r \in Req : tx'[r] \notin {"sent", "written"}
  BY <1>2 DEF W!InTx
<1>7. Low'
  BY <1>1, <1>2, <1>5, <1>6 DEF WorldInv, Low, W!TypeOK
<1>8. \A r \in Req : tx'[r] \in {"new", "done"} => tx[r] \in {"new", "done"}
  BY <1>1
<1> QED BY <1>1, <1>4, <1>7, <1>8 DEF WorldInv

LEMMA WorldStep == W!TypeOK /\ WorldInv /\ [W!Next]_(W!vars) => WorldInv'
<1> SUFFICES ASSUME W!TypeOK, WorldInv, [W!Next]_(W!vars) PROVE WorldInv'
  OBVIOUS
<1>1. CASE UNCHANGED W!vars
  BY <1>1 DEF W!vars, WorldInv, High, Low, Ever, W!InFlight, W!InTx
<1> QED BY <1>1, MakeWorld, CarryWorld, CommitWorld, FailWorld, RestartWorld DEF W!Next

-----------------------------------------------------------------------------

\* A device that a request brings: one of other clients, one with a player or
\* one that no request has.
Asks(r) ==
    \/ device'[r] \in Chosen
    \/ identity[device'[r]] # NoPlayer
    \/ \A s \in Req : device[s] # device'[r]

\* A request keeps what it was asked, and its answer.
LEMMA RequestsStay ==
    ASSUME TypeOK, AccountStep, NEW r \in Req, at[r] # "new"
    PROVE  /\ at'[r] # "new" /\ device'[r] = device[r] /\ linkedAt'[r] = linkedAt[r]
           /\ at[r] = "answered" => at'[r] = "answered" /\ player'[r] = player[r]
<1> USE DEF stored, asked, Working
<1>1. ASSUME NEW s \in Req,
             \/ Register(s) \/ Login(s) \/ LookUp(s) \/ CreatePlayer(s)
             \/ InsertPlayer(s) \/ Link(s) \/ Commit(s) \/ Recover(s) \/ Fail(s)
      PROVE  /\ at'[r] # "new" /\ device'[r] = device[r] /\ linkedAt'[r] = linkedAt[r]
             /\ at[r] = "answered" => at'[r] = "answered" /\ player'[r] = player[r]
  <2>1. CASE Register(s) \/ Login(s) \/ LookUp(s)
    BY <2>1 DEF Register, Login, LookUp, Goes, TypeOK
  <2>2. CASE CreatePlayer(s)
    BY <2>2 DEF CreatePlayer, Goes, TypeOK
  <2>3. CASE InsertPlayer(s) \/ Link(s) \/ Commit(s) \/ Recover(s) \/ Fail(s)
    BY <2>3 DEF InsertPlayer, Link, Commit, Recover, Fail, Goes, TypeOK
  <2> QED BY <1>1, <2>1, <2>2, <2>3
<1>2. CASE Aborts \/ UNCHANGED vars
  BY <1>2 DEF Aborts, vars
<1> QED BY <1>1, <1>2 DEF AccountStep, Next

LEMMA FirstStays ==
    ASSUME TypeOK, TypeOK', AccountsInv, AccountStep, Keeps,
           NEW c \in Req, at[c] # "new", device[c] # NoDevice, First(c),
           \A r \in Req : Login(r) => Asks(r)
    PROVE  First(c)'
<1> USE DEF stored, asked
<1>1. /\ at'[c] # "new" /\ device'[c] = device[c]
      /\ at[c] = "answered" => at'[c] = "answered" /\ player'[c] = player[c]
  BY RequestsStay
<1>2. device[c] \in Device
  BY DEF TypeOK
<1>3. CASE at[c] = "answered"
  <2>1. identity[device[c]] = player[c] /\ player[c] \in Player
    BY <1>3 DEF First, AccountsInv, Request, TypeOK
  <2> QED BY <1>1, <1>2, <1>3, <2>1, AccountsAssumption DEF First, Keeps
<1>4. CASE at[c] # "answered"
  <2>1. /\ identity[device[c]] = NoPlayer /\ device[c] \notin Chosen
        /\ \A s \in Req \ {c} : device[s] # device[c]
    BY <1>4 DEF First
  <2>2. ASSUME NEW r \in Req, Commit(r) PROVE First(c)'
    <3>1. /\ identity'[device[c]] = IF device[c] = device[r] THEN player[r] ELSE NoPlayer
          /\ device' = device /\ player' = player
      BY <1>2, <2>1, <2>2 DEF Commit, links
    <3>2. r = c => at'[c] = "answered"
      BY <2>2 DEF Commit, Goes, TypeOK
    <3>3. r # c => device[r] # device[c] /\ at'[c] = at[c]
      BY <2>1, <2>2 DEF Commit, Goes, TypeOK
    <3> QED BY <1>4, <2>1, <3>1, <3>2, <3>3 DEF First
  <2>3. ASSUME UNCHANGED identity, at'[c] # "answered",
               \A s \in Req \ {c} : device'[s] # device[c]
        PROVE  First(c)'
    BY <1>1, <2>1, <2>3 DEF First
  <2>4. ASSUME NEW r \in Req, Recover(r) PROVE First(c)'
    <3>1. r # c
      BY <2>1, <2>4 DEF Recover, AccountsInv, Request
    <3> QED BY <1>4, <2>1, <2>3, <2>4, <3>1 DEF Recover, Goes, TypeOK
  <2>5. ASSUME NEW r \in Req, Login(r) PROVE First(c)'
    <3>1. r # c /\ at'[c] = at[c] /\ UNCHANGED identity
          /\ \A s \in Req \ {r} : device'[s] = device[s]
      BY <2>5 DEF Login, Goes, TypeOK
    <3>2. device'[r] # device[c]
      BY <2>1, <2>5 DEF Asks
    <3> QED BY <1>4, <2>1, <2>3, <3>1, <3>2
  <2>6. ASSUME NEW r \in Req, Register(r) \/ LookUp(r) \/ InsertPlayer(r) \/ Link(r) \/ Fail(r)
        PROVE  First(c)'
    <3>1. UNCHANGED <<identity, device>> /\ at'[c] # "answered"
      BY <1>4, <2>6 DEF Register, LookUp, InsertPlayer, Link, Fail, Goes, TypeOK
    <3> QED BY <2>1, <2>3, <3>1
  <2>7. ASSUME NEW r \in Req, CreatePlayer(r) PROVE First(c)'
    <3>1. UNCHANGED <<identity, device>> /\ at'[c] # "answered"
      BY <1>4, <2>7 DEF CreatePlayer, Goes, TypeOK
    <3> QED BY <2>1, <2>3, <3>1
  <2>8. CASE Aborts \/ UNCHANGED vars
    <3>1. UNCHANGED <<identity, device>> /\ at'[c] # "answered"
      BY <1>4, <2>8 DEF Aborts, vars
    <3> QED BY <2>1, <2>3, <3>1
  <2> QED BY <2>2, <2>4, <2>5, <2>6, <2>7, <2>8 DEF AccountStep, Next
<1> QED BY <1>3, <1>4

\* A step changes nothing for a tab that it does not touch.
LEMMA TabStays ==
    ASSUME AllTypeOK, TypeOK', AccountsInv, AccountStep, Keeps,
           NEW t \in Tab, tab'[t] = tab[t], me'[t] = me[t], call'[t] = call[t],
           \A r \in Req : Login(r) => Asks(r), Recoverable(me[t]), Waits(t)
    PROVE  Recoverable(me[t])' /\ Waits(t)'
<1>1. me[t].device # NoDevice => me[t].device \in Device
  BY DEF AllTypeOK, TabTypeOK, Account
<1>2. Recoverable(me[t])'
  BY <1>1 DEF Recoverable, Keeps
<1>3. ASSUME tab[t] = "waiting" PROVE Waits(t)'
  <2>1. PICK c \in Req : c = call[t]
    BY <1>3 DEF Waits
  <2>2. /\ at[c] # "new" /\ device[c] # NoDevice
        /\ IF me[t].pid = NoPlayer THEN First(c)
           ELSE device[c] = me[t].device /\ linkedAt[c] = me[t].pid
    BY <1>3, <2>1 DEF Waits
  <2>3. at'[c] # "new" /\ device'[c] = device[c] /\ linkedAt'[c] = linkedAt[c]
    BY <2>2, RequestsStay DEF AllTypeOK
  <2>4. me[t].pid = NoPlayer => First(c)'
    BY <2>2, FirstStays DEF AllTypeOK
  <2>5. call'[t] = c
    BY <2>1
  <2>6. First(call[t])' <=> First(c)'
    BY <2>5 DEF First
  <2> QED BY <2>2, <2>3, <2>4, <2>5, <2>6 DEF Waits
<1> QED BY <1>2, <1>3 DEF Waits

\* What a step promises of the tab and of what localStorage holds.
Resumes(t) == tab'[t] = "ready" /\ me[t].pid # NoPlayer => me'[t].pid = me[t].pid

Browses == TabTypeOK' /\ BrowserInv' /\ \A t \in Tab : Resumes(t)

\* The server's own steps, and those of other clients.
LEMMA ServerStep ==
    ASSUME SignUpInv, TypeOK', AccountStep, Keeps, UNCHANGED browser,
           \A r \in Req : Login(r) => Asks(r)
    PROVE  Browses
<1>1. UNCHANGED <<kept, tab, me, call>>
  BY DEF browser
<1>2. TabTypeOK' /\ \A t \in Tab : Resumes(t)
  BY <1>1 DEF SignUpInv, AllTypeOK, TabTypeOK, Resumes
<1>3. Recoverable(kept)'
  <2>1. kept.device # NoDevice => kept.device \in Device
    BY DEF SignUpInv, AllTypeOK, TabTypeOK, Account
  <2> QED BY <1>1, <2>1 DEF SignUpInv, BrowserInv, Recoverable, Keeps
<1>4. ASSUME NEW t \in Tab PROVE Recoverable(me[t])' /\ Waits(t)'
  BY <1>1, TabStays DEF SignUpInv, BrowserInv
<1> QED BY <1>2, <1>3, <1>4 DEF Browses, BrowserInv

\* A step of tab t, in which the accounts stay as they are or a guest logs in.
LEMMA OneTab ==
    ASSUME SignUpInv, TypeOK', AccountStep, Keeps, NEW t \in Tab,
           \A s \in Tab \ {t} : tab'[s] = tab[s] /\ me'[s] = me[s] /\ call'[s] = call[s],
           \A r \in Req : Login(r) => Asks(r),
           TabTypeOK', Recoverable(kept)', Recoverable(me[t])', Waits(t)', Resumes(t)
    PROVE  Browses
<1>1. ASSUME NEW s \in Tab \ {t} PROVE Recoverable(me[s])' /\ Waits(s)' /\ Resumes(s)
  <2>1. Recoverable(me[s])' /\ Waits(s)'
    BY TabStays DEF SignUpInv, BrowserInv
  <2> QED BY <2>1 DEF Resumes
<1>2. \A s \in Tab : Recoverable(me[s])' /\ Waits(s)' /\ Resumes(s)
  BY <1>1
<1> QED BY <1>2 DEF Browses, BrowserInv

LEMMA OpenStep ==
    ASSUME SignUpInv, TypeOK', AccountStep, Keeps, NEW t \in Tab, Open(t)
    PROVE  Browses
<1>1. /\ me' = [me EXCEPT ![t] = kept] /\ call' = [call EXCEPT ![t] = NoReq]
      /\ UNCHANGED <<vars, kept>>
      /\ tab' = [tab EXCEPT ![t] = IF kept.pid # NoPlayer /\ kept.token # NoPlayer
                                   THEN "resume" ELSE "login"]
  BY DEF Open, Boots
<1>2. UNCHANGED <<rows, identity>> /\ \A r \in Req : ~ Login(r)
  BY <1>1 DEF vars, stored, asked, Login, Goes, SignUpInv, AllTypeOK, TypeOK
<1>3. \A s \in Tab \ {t} : tab'[s] = tab[s] /\ me'[s] = me[s] /\ call'[s] = call[s]
  BY <1>1 DEF SignUpInv, AllTypeOK, TabTypeOK
<1>4. me'[t] = kept /\ tab'[t] \in {"resume", "login"} /\ TabTypeOK'
  BY <1>1 DEF SignUpInv, AllTypeOK, TabTypeOK
<1>5. Recoverable(kept)' /\ Recoverable(me[t])' /\ Waits(t)' /\ Resumes(t)
  BY <1>1, <1>2, <1>4 DEF SignUpInv, BrowserInv, Recoverable, Waits, Resumes
<1> QED BY <1>2, <1>3, <1>4, <1>5, OneTab

\* The steps of a tab that leave its account alone.
LEMMA BootStep ==
    ASSUME SignUpInv, TypeOK', AccountStep, Keeps, NEW t \in Tab,
           Resume(t) \/ TokenRefused(t) \/ NotResumed(t) \/ NotAnswered(t)
    PROVE  Browses
<1>1. /\ UNCHANGED <<vars, kept>>
      /\ call' = call \/ call' = [call EXCEPT ![t] = NoReq]
      /\ me' = me \/ (TokenRefused(t) /\ me' = [me EXCEPT ![t].token = NoPlayer])
      /\ \E place \in {"ready", "login", "failed"} : tab' = [tab EXCEPT ![t] = place]
  BY DEF Resume, TokenRefused, NotResumed, NotAnswered, Boots
<1>2. UNCHANGED <<rows, identity>> /\ \A r \in Req : ~ Login(r)
  BY <1>1 DEF vars, stored, asked, Login, Goes, SignUpInv, AllTypeOK, TypeOK
<1>3. PICK old \in Account : old = me[t]
  BY DEF SignUpInv, AllTypeOK, TabTypeOK
<1>4. /\ me' \in [Tab -> Account] /\ \A s \in Tab \ {t} : me'[s] = me[s]
      /\ me'[t].pid = old.pid /\ me'[t].device = old.device
  <2>1. CASE me' = me
    BY <1>3, <2>1 DEF SignUpInv, AllTypeOK, TabTypeOK
  <2>2. CASE me' = [me EXCEPT ![t].token = NoPlayer]
    <3>1. PICK new : new = [old EXCEPT !.token = NoPlayer]
      OBVIOUS
    <3>2. new \in Account /\ new.pid = old.pid /\ new.device = old.device
      BY <3>1 DEF Account
    <3>3. me' = [me EXCEPT ![t] = new]
      BY <1>3, <2>2, <3>1
    <3> QED BY <3>2, <3>3 DEF SignUpInv, AllTypeOK, TabTypeOK
  <2> QED BY <1>1, <2>1, <2>2
<1>5. /\ \A s \in Tab \ {t} : tab'[s] = tab[s] /\ call'[s] = call[s]
      /\ tab'[t] # "waiting" /\ TabTypeOK'
  BY <1>1, <1>4 DEF SignUpInv, AllTypeOK, TabTypeOK
<1>6. Recoverable(kept)' /\ Recoverable(me[t])'
  BY <1>1, <1>2, <1>3, <1>4 DEF SignUpInv, BrowserInv, Recoverable
<1>7. Waits(t)' /\ Resumes(t)
  BY <1>3, <1>4, <1>5 DEF Waits, Resumes
<1> QED BY <1>2, <1>4, <1>5, <1>6, <1>7, OneTab

LEMMA GuestStep ==
    ASSUME SignUpInv, TypeOK', AccountStep, Keeps, NEW t \in Tab, GuestLogin(t)
    PROVE  Browses
<1>1. PICK r \in Req : /\ Login(r) /\ device'[r] \in subjects(me[t].device)
                       /\ call' = [call EXCEPT ![t] = r]
  BY DEF GuestLogin
<1>2. UNCHANGED <<kept, me>> /\ tab' = [tab EXCEPT ![t] = "waiting"]
  BY DEF GuestLogin, Boots
<1>3. /\ \A s \in Tab \ {t} : tab'[s] = tab[s] /\ call'[s] = call[s]
      /\ tab'[t] = "waiting" /\ call'[t] = r /\ TabTypeOK'
  BY <1>1, <1>2 DEF SignUpInv, AllTypeOK, TabTypeOK
<1>4. PICK d \in Device : /\ device' = [device EXCEPT ![r] = d]
                          /\ linkedAt' = [linkedAt EXCEPT ![r] = identity[d]]
  BY <1>1 DEF Login
<1>5. /\ device'[r] = d /\ linkedAt'[r] = identity[d] /\ at'[r] = "lookup"
      /\ \A s \in Req \ {r} : device'[s] = device[s]
      /\ at[r] = "new" /\ UNCHANGED <<rows, identity>> /\ d # NoDevice
  BY <1>1, <1>4, AccountsAssumption DEF Login, Goes, stored, SignUpInv, AllTypeOK, TypeOK
<1>6. Recoverable(me[t]) /\ Recoverable(kept)
  BY DEF SignUpInv, BrowserInv
<1>7. IF me[t].pid = NoPlayer THEN d \in Fresh
      ELSE d = me[t].device /\ identity[d] = me[t].pid
  BY <1>1, <1>5, <1>6 DEF Recoverable, subjects
<1>8. \A q \in Req : Login(q) => Asks(q)
  <2>1. ASSUME NEW q \in Req, Login(q) PROVE q = r
    BY <1>1, <1>5, <2>1 DEF Login, Goes, SignUpInv, AllTypeOK, TypeOK
  <2>2. Asks(r)
    BY <1>5, <1>7 DEF Asks, Fresh
  <2> QED BY <2>1, <2>2
<1>9. Recoverable(kept)' /\ Recoverable(me[t])' /\ Resumes(t)
  BY <1>2, <1>5, <1>6 DEF Recoverable, Resumes
<1>10. Waits(t)'
  <2>1. me[t].pid = NoPlayer => First(r)'
    BY <1>5, <1>7 DEF First, Fresh
  <2>2. First(call[t])' <=> First(r)'
    BY <1>3 DEF First
  <2>3. me[t].pid # NoPlayer => device'[r] = me[t].device /\ linkedAt'[r] = me[t].pid
    BY <1>5, <1>7
  <2> QED BY <1>2, <1>3, <1>5, <2>1, <2>2, <2>3 DEF Waits
<1> QED BY <1>2, <1>3, <1>8, <1>9, <1>10, OneTab

LEMMA AnswerStep ==
    ASSUME SignUpInv, TypeOK', AccountStep, Keeps, NEW t \in Tab, Answered(t)
    PROVE  Browses
<1>1. /\ tab[t] = "waiting" /\ at[call[t]] = "answered"
      /\ kept' = [pid |-> player[call[t]], token |-> sign(player[call[t]]), device |-> device[call[t]]]
      /\ me' = [me EXCEPT ![t] = kept'] /\ tab' = [tab EXCEPT ![t] = "ready"]
      /\ call' = [call EXCEPT ![t] = NoReq] /\ UNCHANGED vars
  BY DEF Answered, Boots
<1>2. Waits(t) /\ Recoverable(me[t])
  BY DEF SignUpInv, BrowserInv
<1>3. PICK r \in Req : r = call[t]
  BY <1>1, <1>2 DEF Waits
<1>4. /\ at[r] = "answered" /\ device[r] # NoDevice
      /\ IF me[t].pid = NoPlayer THEN First(r)
         ELSE device[r] = me[t].device /\ linkedAt[r] = me[t].pid
  BY <1>1, <1>2, <1>3 DEF Waits
<1>5. Request(r) /\ player[r] \in rows /\ player[r] \in Player /\ device[r] \in Device
  BY <1>4 DEF SignUpInv, AccountsInv, Request, AllTypeOK, TypeOK
<1>6. identity[device[r]] = player[r] /\ (me[t].pid # NoPlayer => player[r] = me[t].pid)
  BY <1>4, <1>5 DEF First, Request
<1>7. PICK a : a = [pid |-> player[r], token |-> player[r], device |-> device[r]]
  OBVIOUS
<1>8. kept' = a /\ me' = [me EXCEPT ![t] = a]
  BY <1>1, <1>3, <1>7 DEF sign
<1>9. a \in Account /\ a.pid = player[r] /\ a.device = device[r]
  BY <1>5, <1>7 DEF Account
<1>10. UNCHANGED <<rows, identity>> /\ \A q \in Req : ~ Login(q)
  BY <1>1 DEF vars, stored, asked, Login, Goes, SignUpInv, AllTypeOK, TypeOK
<1>11. /\ me'[t] = a /\ tab'[t] = "ready" /\ TabTypeOK'
       /\ \A s \in Tab \ {t} : tab'[s] = tab[s] /\ me'[s] = me[s] /\ call'[s] = call[s]
  BY <1>1, <1>8, <1>9 DEF SignUpInv, AllTypeOK, TabTypeOK
<1>12. Recoverable(kept)' /\ Recoverable(me[t])'
  BY <1>4, <1>5, <1>6, <1>8, <1>9, <1>10, <1>11, AccountsAssumption DEF Recoverable
<1>13. Waits(t)' /\ Resumes(t)
  BY <1>6, <1>9, <1>11 DEF Waits, Resumes
<1> QED BY <1>10, <1>11, <1>12, <1>13, OneTab

-----------------------------------------------------------------------------

LEMMA SignUpStep == SignUpInv /\ [AllNext]_allVars => SignUpInv' /\ Browses
<1> SUFFICES ASSUME SignUpInv, [AllNext]_allVars PROVE SignUpInv' /\ Browses
  OBVIOUS
<1>1. AccountStep /\ [W!Next]_(W!vars)
  BY StepSplits
<1>2. TypeOK' /\ AccountsInv' /\ Keeps
  BY <1>1, AccountsStep DEF SignUpInv, AllTypeOK
<1>3. W!TypeOK' /\ WorldInv'
  BY <1>1, WorldType, WorldStep DEF SignUpInv, AllTypeOK
<1>4. Browses
  <2>1. ASSUME NEW t \in Tab,
               \/ Open(t) \/ Resume(t) \/ TokenRefused(t) \/ NotResumed(t)
               \/ GuestLogin(t) \/ Answered(t) \/ NotAnswered(t)
        PROVE  Browses
    BY <1>1, <1>2, <2>1, OpenStep, BootStep, GuestStep, AnswerStep
  <2>2. ASSUME NEW r \in Req, LogsIn(r) PROVE Browses
    <3>1. UNCHANGED browser /\ Login(r) /\ device'[r] \in Chosen
      BY <2>2 DEF LogsIn
    <3>2. ASSUME NEW q \in Req, Login(q) PROVE q = r
      BY <3>1, <3>2 DEF Login, Goes, SignUpInv, AllTypeOK, TypeOK
    <3>3. \A q \in Req : Login(q) => Asks(q)
      BY <3>1, <3>2 DEF Asks
    <3> QED BY <1>1, <1>2, <3>1, <3>3, ServerStep
  <2>3. ASSUME UNCHANGED browser, UNCHANGED device PROVE Browses
    <3>1. \A q \in Req : Login(q) => Asks(q)
      <4>1. ASSUME NEW q \in Req, Login(q) PROVE Asks(q)
        <5>1. PICK d \in Device : device' = [device EXCEPT ![q] = d]
          BY <4>1 DEF Login
        <5>2. device'[q] = d /\ at[q] = "new"
          BY <4>1, <5>1 DEF Login, SignUpInv, AllTypeOK, TypeOK
        <5>3. device[q] = NoDevice
          BY <5>2 DEF SignUpInv, AccountsInv, Request
        <5> QED BY <2>3, <5>2, <5>3, AccountsAssumption
      <4> QED BY <4>1
    <3> QED BY <1>1, <1>2, <2>3, <3>1, ServerStep
  <2>4. ASSUME NEW r \in Req,
               \/ Registers(r) \/ Hatches(r) \/ Looks(r) \/ Creates(r)
               \/ Begins(r) \/ Inserts(r) \/ Links(r) \/ Sends(r) \/ Writes(r)
        PROVE  UNCHANGED browser /\ UNCHANGED device
    BY <2>4 DEF Registers, Hatches, Looks, Creates, Begins, Inserts, Links, Sends, Writes,
                Register, LookUp, CreatePlayer, InsertPlayer, Link, vars, stored, asked
  <2>5. ASSUME NEW r \in Req, Commits(r) \/ Fails(r)
        PROVE  UNCHANGED browser /\ UNCHANGED device
    BY <2>5 DEF Commits, Fails, Commit, Recover, Fail, vars, stored, asked
  <2>6. CASE Restarts
    BY <2>3, <2>6 DEF Restarts, asked
  <2>7. CASE UNCHANGED allVars
    BY <2>3, <2>7 DEF allVars, vars, asked
  <2> QED BY <2>1, <2>2, <2>3, <2>4, <2>5, <2>6, <2>7 DEF AllNext
<1> QED BY <1>2, <1>3, <1>4 DEF SignUpInv, AllTypeOK, Browses

LEMMA SignUpStart == AllInit => SignUpInv
<1> USE AccountsAssumption DEF stored, asked, Places
<1> SUFFICES ASSUME AllInit PROVE SignUpInv
  OBVIOUS
<1>1. TypeOK /\ AccountsInv
  BY DEF AllInit, Init, TypeOK, AccountsInv, Request, Maker, Making, Unrivalled
<1>2. W!TypeOK /\ WorldInv
  <2>1. W!TypeOK
    BY DEF AllInit, W!Init, W!TypeOK
  <2>2. W!InFlight = {} /\ W!InTx = {}
    BY DEF AllInit, W!Init, W!InFlight, W!InTx
  <2>3. SumOver(made, W!InFlight) = 0
    BY <2>2, TotalEmpty
  <2>4. Ever \in Nat
    BY <2>1, MadeSums DEF Ever, W!TypeOK
  <2>5. High
    BY <2>4 DEF AllInit, W!Init, High
  <2>6. Low
    BY <2>2, <2>3 DEF AllInit, W!Init, Low
  <2> QED BY <2>1, <2>5, <2>6 DEF AllInit, W!Init, WorldInv
<1>3. TabTypeOK /\ BrowserInv
  BY DEF AllInit, TabTypeOK, BrowserInv, Account, Nobody, Recoverable, Waits
<1> QED BY <1>1, <1>2, <1>3 DEF SignUpInv, AllTypeOK

LEMMA SignUpHolds == AllSpec => []SignUpInv
<1>1. AllInit => SignUpInv
  BY SignUpStart
<1>2. SignUpInv /\ [AllNext]_allVars => SignUpInv'
  BY SignUpStep
<1> QED BY <1>1, <1>2, PTL DEF AllSpec

\* At most one player of each handle.
LEMMA HoldersAreOne == SignUpInv => OneHolder
<1> SUFFICES ASSUME SignUpInv, NEW h \in Handle PROVE Cardinality(Holders(h)) <= 1
  BY DEF OneHolder
<1>1. h # NoHandle
  BY AccountsAssumption
<1>2. \A p, q \in Holders(h) : p = q
  BY <1>1 DEF SignUpInv, AccountsInv, Holders
<1>3. Holders(h) = {} \/ \E p : Holders(h) = {p}
  BY <1>2
<1>4. Cardinality(Holders(h)) = 0 \/ Cardinality(Holders(h)) = 1
  BY <1>3, FS_EmptySet, FS_Singleton
<1> QED BY <1>4

\* What the failed requests made, as a sum over the requests.
Failed == {r \in Req : tx[r] = "failed"}

LEMMA LostSum == W!TypeOK => W!Lost = SumOver(made, Failed)
<1> SUFFICES ASSUME W!TypeOK PROVE W!Lost = SumOver(made, Failed)
  OBVIOUS
<1> DEFINE Eq(g) == g = [s \in SUBSET Failed |->
                           IF s = {} THEN 0 ELSE made[Pick(s)] + g[s \ {Pick(s)}]]
<1>1. W!Lost = (CHOOSE g : Eq(g))[Failed]
  BY DEF W!Lost, W!MapThenSumSet, W!MapThenFoldSet, Pick, Failed
<1>2. \A g : Eq(g) <=> Solves(g, made, Failed)
  BY DEF Solves
<1>3. IsFiniteSet(Failed) /\ Failed \in SUBSET Failed
  BY SignUpAssumption, FS_Subset DEF Failed
<1>4. PICK g : Solves(g, made, Failed)
  BY <1>3, Solvable
<1> HIDE DEF Eq
<1>5. Eq(CHOOSE h : Eq(h))
  BY <1>2, <1>4
<1>6. Solves(CHOOSE h : Eq(h), made, Failed)
  BY <1>2, <1>5
<1> QED BY <1>1, <1>3, <1>6, TotalSolves

-----------------------------------------------------------------------------

\* Every variable of the accounts, the world counter and the browser keeps to
\* its type: what the handlers of src/server/api.js and the boot of
\* src/web/app.js store.
THEOREM SignUpTypeCorrect == AllSpec => []AllTypeOK
<1>1. SignUpInv => AllTypeOK
  BY DEF SignUpInv
<1> QED BY <1>1, SignUpHolds, PTL

\* However many requests race for a handle or a device, one player gets it, and
\* a guest who comes back is the player of its device: the unique keys of
\* players and auth_identities, and what POST auth/guest and createPlayer read
\* before them.
THEOREM PlayersAreOne == AllSpec => []AccountsAgree
<1>1. SignUpInv => AccountsAgree
  <2>1. SignUpInv => Recovered
    BY DEF SignUpInv, AccountsInv, Request, Recovered
  <2> QED BY <2>1, HoldersAreOne DEF AccountsAgree
<1> QED BY <1>1, SignUpHolds, PTL

\* The row of world_state counts every Lumi of a committed transaction where
\* transactions queue up, and at rest counts too many only what failed
\* requests made: addLumi raises this.world before _saveWorld writes it.
THEOREM WorldIsCounted == AllSpec => []WorldCounted
<1>1. SignUpInv => WorldCounted
  <2> SUFFICES ASSUME SignUpInv PROVE W!Counted /\ W!RowSettled
    BY DEF WorldCounted
  <2>1. W!Counted
    BY DEF SignUpInv, WorldInv, Low, W!Counted
  <2>2. ASSUME W!InFlight = {} PROVE row <= lumi + W!Lost
    <3>1. row <= Ever
      BY DEF SignUpInv, WorldInv, High
    <3>2. \A r \in Req \ Failed : made[r] = 0
      BY <2>2 DEF SignUpInv, AllTypeOK, WorldInv, W!InFlight, Failed
    <3>3. IsFiniteSet(Req) /\ Failed \in SUBSET Req /\ \A r \in Req : made[r] \in Int
      BY SignUpAssumption, MadeSums DEF SignUpInv, AllTypeOK, Failed
    <3>4. SumOver(made, Req) = SumOver(made, Failed)
      BY <3>2, <3>3, TotalPart
    <3>5. W!Lost = SumOver(made, Failed)
      BY LostSum DEF SignUpInv, AllTypeOK
    <3> QED BY <3>1, <3>4, <3>5 DEF Ever
  <2> QED BY <2>1, <2>2 DEF W!RowSettled
<1> QED BY <1>1, SignUpHolds, PTL

\* What localStorage holds is always a stored account that its device recovers,
\* and no boot changes who a tab is: boot of src/web/app.js and POST auth/guest.
THEOREM AccountIsKept == AllSpec => AccountKept
<1>1. SignUpInv => (kept.pid # NoPlayer => kept.pid \in rows /\ identity[kept.device] = kept.pid)
  BY DEF SignUpInv, BrowserInv, Recoverable
<1>2. SignUpInv /\ [AllNext]_allVars =>
        [\A t \in Tab :
           tab'[t] = "ready" /\ me[t].pid # NoPlayer => me'[t].pid = me[t].pid]_allVars
  BY SignUpStep DEF Browses, Resumes
<1> QED BY <1>1, <1>2, SignUpHolds, PTL DEF AllSpec, AccountKept

-----------------------------------------------------------------------------

(***************************************************************************)
(* Client.  What the page shows goes out of date with every click that is  *)
(* served, and each of them is followed by a load that mends it.           *)
(***************************************************************************)

Done(s) == calls[s] # NoCall /\ calls[s].to \in Click /\ calls[s].stage = "served"
Asking(s) == calls[s] # NoCall /\ calls[s].to = "load" /\ calls[s].stage = "sent"
Returning(s) == calls[s] # NoCall /\ calls[s].to = "load" /\ calls[s].stage = "served"

\* A garden that was read earlier and differs from the plots by age alone.
Current(garden, o) ==
    IF plot[o] = Bare THEN garden[o] = Bare
    ELSE /\ garden[o] # Bare /\ garden[o].watered = plot[o].watered
         /\ plot[o].left <= garden[o].left

Valid(s) == Returning(s) /\ \A o \in Plot : Current(calls[s].body, o)

\* A call that will bring the view up to date, unless it fails.
Mends(s) == Done(s) \/ Asking(s) \/ Valid(s)

\* Later than the load of s, there is such a call.
Superseded(s) ==
    \E f \in Slot : Done(f) \/ Asking(f) \/ (Valid(f) /\ s \in before[f])

Formed(s) ==
    /\ calls[s] # NoCall =>
         /\ calls[s].to = "load" => calls[s].stage # "refused"
         /\ calls[s].to \in Click => calls[s].on \in Plot
    /\ Returning(s) => calls[s].body \in Garden
    /\ s \in late => Returning(s)
    /\ \A q \in before[s] : Returning(q)

ViewInv ==
    /\ PageTypeOK
    /\ \A s \in Slot : Formed(s)
    /\ mishaps = {} =>
         /\ \A s \in Slot \ late : Returning(s) => Valid(s) \/ Superseded(s)
         /\ late # {} \/ (\E s \in Slot : Mends(s)) \/ (\A o \in Plot : Agrees(o))

LEMMA PageInitial == PageInit => ViewInv
<1> SUFFICES ASSUME PageInit PROVE ViewInv
  OBVIOUS
<1>1. PageTypeOK
  BY ClientAssumption DEF PageInit, PageTypeOK, Garden
<1>2. \A s \in Slot : Formed(s)
  BY DEF PageInit, Formed, Returning
<1>3. \A o \in Plot : Agrees(o)
  BY DEF PageInit, Agrees
<1>4. \A s \in Slot : ~ Returning(s)
  BY DEF PageInit, Returning
<1> QED BY <1>1, <1>2, <1>3, <1>4 DEF ViewInv

\* What is new to a call when the others are left alone.
Same(q) == calls'[q] = calls[q] /\ before'[q] = before[q]

\* A step that leaves the plots, the view and what is on its way as they were,
\* and does not turn s, the call it is about, away from mending the view.
LEMMA CallChanges ==
    ASSUME ViewInv, PageTypeOK', NEW s \in Slot, UNCHANGED <<plot, view, late, mishaps>>,
           \A q \in Slot \ {s} : Same(q), before'[s] = before[s],
           ~ Returning(s), ~ Returning(s)', Formed(s)',
           Mends(s) => Done(s)' \/ Asking(s)'
    PROVE  ViewInv'
<1>1. \A q \in Slot \ {s} : /\ Returning(q)' = Returning(q) /\ Done(q)' = Done(q)
                            /\ Asking(q)' = Asking(q) /\ Valid(q)' = Valid(q)
  BY DEF Same, Returning, Done, Asking, Valid, Current
<1>2. \A q \in Slot : before'[q] = before[q]
  BY DEF Same
<1>3. ~ Valid(s) /\ ~ Valid(s)'
  BY DEF Valid
<1>4. \A q \in Slot : Formed(q)'
  <2>1. \A q, p \in Slot : p \in before'[q] => Returning(p)'
    BY <1>1, <1>2 DEF ViewInv, Formed
  <2>2. \A q \in Slot : before'[q] \subseteq Slot
    BY DEF PageTypeOK
  <2>3. \A q \in Slot \ {s} : calls'[q] = calls[q]
    BY DEF Same
  <2> QED BY <1>1, <2>1, <2>2, <2>3 DEF ViewInv, Formed
<1>5. \A q \in Slot : Superseded(q) => Superseded(q)'
  <2> SUFFICES ASSUME NEW q \in Slot, NEW f \in Slot,
                      Done(f) \/ Asking(f) \/ (Valid(f) /\ q \in before[f])
               PROVE  Done(f)' \/ Asking(f)' \/ (Valid(f)' /\ q \in before'[f])
    BY DEF Superseded
  <2> QED BY <1>1, <1>2, <1>3 DEF Mends
<1>6. \A q \in Slot : Mends(q) => Mends(q)'
  BY <1>1, <1>3 DEF Mends
<1>7. \A o \in Plot : Agrees(o)' = Agrees(o)
  BY DEF Agrees
<1> QED BY <1>1, <1>3, <1>4, <1>5, <1>6, <1>7 DEF ViewInv

LEMMA SendView ==
    ASSUME ViewInv, NEW r \in Call, r.stage = "sent", r.to \in Click => r.on \in Plot, Send(r)
    PROVE  ViewInv'
<1>1. (CHOOSE q \in Free : TRUE) \in Free
  BY DEF Send
<1>2. PICK s \in Free : calls' = [calls EXCEPT ![s] = r]
  BY <1>1 DEF Send
<1>3. s \in Slot /\ calls[s] = NoCall /\ UNCHANGED <<server, view, before, late, mishaps>>
  BY <1>2 DEF Send, Free
<1>4. PageTypeOK' /\ calls'[s] = r /\ r # NoCall /\ \A q \in Slot \ {s} : Same(q)
  BY <1>2, <1>3, ClientAssumption DEF ViewInv, PageTypeOK, server, Same
<1>5. ~ Returning(s) /\ ~ Returning(s)' /\ ~ Mends(s)
  BY <1>3, <1>4 DEF Returning, Mends, Done, Asking, Valid
<1>6. Formed(s)'
  <2>1. before[s] \subseteq Slot /\ Formed(s)
    BY <1>3 DEF ViewInv, PageTypeOK
  <2>2. \A q \in before[s] : q # s /\ Returning(q)
    BY <1>5, <2>1 DEF Formed
  <2>3. \A q \in before'[s] : Returning(q)'
    BY <1>3, <1>4, <2>1, <2>2 DEF Same, Returning
  <2>4. s \notin late'
    BY <1>3, <1>5, <2>1 DEF Formed
  <2> QED BY <1>3, <1>4, <1>5, <2>3, <2>4 DEF Formed
<1> QED BY <1>2, <1>3, <1>4, <1>5, <1>6, CallChanges DEF server

\* A click that is served: whatever it did to the plots, a load will follow.
LEMMA ClickServed ==
    ASSUME ViewInv, PageTypeOK', NEW s \in Slot, UNCHANGED <<before, late, mishaps>>,
           \A q \in Slot \ {s} : calls'[q] = calls[q],
           ~ Returning(s), Formed(s), calls[s] # NoCall, calls'[s] # NoCall,
           calls[s].to \in Click, calls'[s].to = calls[s].to, calls'[s].on = calls[s].on,
           calls'[s].stage = "served"
    PROVE  ViewInv'
<1>1. Done(s)' /\ ~ Returning(s)'
  BY DEF Done, Returning, Click
<1>2. \A q \in Slot : Returning(q)' = Returning(q)
  BY <1>1 DEF Returning
<1>3. \A q \in Slot : Formed(q)'
  <2>1. \A q \in Slot : before[q] \subseteq Slot
    BY DEF ViewInv, PageTypeOK
  <2>2. \A q \in Slot \ {s} : Formed(q)'
    BY <1>2, <2>1 DEF ViewInv, Formed
  <2>3. Formed(s)'
    BY <1>1, <1>2, <2>1 DEF Formed, Click
  <2> QED BY <2>2, <2>3
<1>4. \A q \in Slot : Superseded(q)'
  BY <1>1 DEF Superseded
<1>5. \E q \in Slot : Mends(q)'
  BY <1>1 DEF Mends
<1> QED BY <1>3, <1>4, <1>5 DEF ViewInv

LEMMA CallTypes ==
    ASSUME ViewInv, NEW s \in Slot, calls[s] # NoCall
    PROVE  /\ calls[s] \in Call /\ Formed(s)
           /\ \A stage \in {"sent", "served", "refused"} :
                 /\ [calls[s] EXCEPT !.stage = stage] \in Call
                 /\ [calls[s] EXCEPT !.stage = stage] # NoCall
BY ClientAssumption DEF ViewInv, PageTypeOK, Call

\* What Answer does, field by field.
LEMMA AnswerOnly ==
    ASSUME ViewInv, NEW s \in Slot, calls[s] # NoCall,
           NEW stage \in {"sent", "served", "refused"}, Answer(s, stage)
    PROVE  /\ calls' \in [Slot -> Call \cup {NoCall}]
           /\ \A q \in Slot \ {s} : calls'[q] = calls[q]
           /\ calls'[s] # NoCall /\ calls'[s].stage = stage
           /\ calls'[s].to = calls[s].to /\ calls'[s].on = calls[s].on
           /\ UNCHANGED <<view, before, late, mishaps>>
<1>1. PICK c : c = [calls[s] EXCEPT !.stage = stage]
  OBVIOUS
<1>2. /\ calls' = [calls EXCEPT ![s] = c]
      /\ UNCHANGED <<view, before, late, mishaps>>
  BY <1>1 DEF Answer
<1>3. calls \in [Slot -> Call \cup {NoCall}]
  BY DEF ViewInv, PageTypeOK
<1>4. c \in Call /\ c # NoCall /\ c.stage = stage /\ c.to = calls[s].to /\ c.on = calls[s].on
  BY <1>1, CallTypes DEF Call
<1> QED BY <1>2, <1>3, <1>4

\* A click in the server's hands: it is refused, or served.
LEMMA ServeClick ==
    ASSUME ViewInv, NEW s \in Waiting, calls[s].to \in Click, plot' \in Garden, coins' \in 0..Seeds,
           NEW stage \in {"served", "refused"}, Answer(s, stage),
           stage = "refused" => UNCHANGED plot
    PROVE  ViewInv'
<1>1. s \in Slot /\ calls[s] # NoCall /\ calls[s].stage = "sent"
  BY DEF Waiting
<1>2. /\ calls' \in [Slot -> Call \cup {NoCall}]
      /\ \A q \in Slot \ {s} : calls'[q] = calls[q]
      /\ calls'[s] # NoCall /\ calls'[s].stage = stage
      /\ calls'[s].to = calls[s].to /\ calls'[s].on = calls[s].on
      /\ UNCHANGED <<view, before, late, mishaps>>
  BY <1>1, AnswerOnly
<1>3. PageTypeOK' /\ Formed(s)
  BY <1>1, <1>2 DEF ViewInv, PageTypeOK
<1>4. ~ Returning(s) /\ ~ Mends(s)
  BY <1>1 DEF Returning, Mends, Done, Asking, Valid, Click
<1>5. CASE stage = "served"
  BY <1>1, <1>2, <1>3, <1>4, <1>5, ClickServed
<1>6. CASE stage = "refused"
  <2>1. ~ Returning(s)'
    BY <1>2, <1>6 DEF Returning
  <2>2. Formed(s)'
    <3>1. before[s] \subseteq Slot
      BY <1>1 DEF ViewInv, PageTypeOK
    <3>2. \A q \in before[s] : Returning(q) /\ q # s
      BY <1>3, <1>4 DEF Formed
    <3>3. \A q \in before'[s] : Returning(q)'
      BY <1>2, <3>1, <3>2 DEF Returning
    <3>4. s \notin late'
      BY <1>2, <1>3, <1>4 DEF Formed
    <3>5. calls[s].to # "load"
      BY DEF Click
    <3> QED BY <1>1, <1>2, <1>3, <2>1, <3>3, <3>4, <3>5 DEF Formed
  <2> QED BY <1>1, <1>2, <1>3, <1>4, <1>6, <2>1, <2>2, CallChanges DEF Same
<1> QED BY <1>5, <1>6

LEMMA ClickedView == ASSUME ViewInv, NEW s \in Back, Clicked(s) PROVE ViewInv'
<1>1. s \in Slot /\ calls[s] # NoCall /\ calls[s].stage # "sent" /\ calls[s] \in Call /\ Formed(s)
  BY CallTypes DEF Back
<1>2. load \in Call /\ load.to = "load" /\ load.stage = "sent"
  BY DEF load, request, Call
<1>3. nextCall(calls[s]) = NoCall \/ nextCall(calls[s]) = load
  BY DEF nextCall
<1>4. /\ calls' = [calls EXCEPT ![s] = nextCall(calls[s])]
      /\ UNCHANGED <<server, view, before, late, mishaps>> /\ calls[s].to \in Click
  BY DEF Clicked
<1>5. PageTypeOK' /\ calls'[s] = nextCall(calls[s]) /\ \A q \in Slot \ {s} : Same(q)
  BY <1>1, <1>2, <1>3, <1>4 DEF ViewInv, PageTypeOK, server, Same
<1>6. ~ Returning(s) /\ ~ Returning(s)'
  BY <1>2, <1>3, <1>4, <1>5 DEF Returning, Click
<1>7. Mends(s) => Done(s)' \/ Asking(s)'
  <2>1. ASSUME Mends(s) PROVE calls[s].stage = "served"
    BY <1>4, <1>6, <2>1 DEF Mends, Done, Asking, Valid, Click
  <2>2. load # NoCall
    BY <1>2, ClientAssumption
  <2> QED BY <1>2, <1>5, <2>1, <2>2 DEF nextCall, Asking
<1>8. Formed(s)'
  <2>1. before[s] \subseteq Slot
    BY <1>1 DEF ViewInv, PageTypeOK
  <2>2. \A q \in before[s] : q # s /\ Returning(q)
    BY <1>1, <1>6 DEF Formed
  <2>3. \A q \in before'[s] : Returning(q)'
    BY <1>4, <1>5, <2>1, <2>2 DEF Same, Returning
  <2>4. s \notin late'
    BY <1>1, <1>4, <1>6 DEF Formed
  <2> QED BY <1>2, <1>3, <1>5, <1>6, <2>3, <2>4 DEF Formed, Click
<1> QED BY <1>1, <1>4, <1>5, <1>6, <1>7, <1>8, CallChanges DEF server

\* A load that is served brings the plots as they are.
LEMMA LoadsView == ASSUME ViewInv, NEW s \in Waiting, calls[s].to = "load", Loads(s) PROVE ViewInv'
<1>1. s \in Slot /\ calls[s] # NoCall /\ calls[s].stage = "sent" /\ calls[s] \in Call /\ Formed(s)
  BY CallTypes DEF Waiting
<1>2. PICK c : c = [calls[s] EXCEPT !.stage = "served", !.body = plot]
  OBVIOUS
<1>3. /\ calls' = [calls EXCEPT ![s] = c]
      /\ before' = [before EXCEPT ![s] = {q \in Back : calls[q].to = "load"}]
      /\ UNCHANGED <<server, view, late, mishaps>>
  BY <1>2 DEF Loads
<1>4. plot \in Garden
  BY DEF ViewInv, PageTypeOK
<1>5. c \in Call /\ c # NoCall /\ c.to = "load" /\ c.stage = "served" /\ c.body = plot
  <2>1. c.to = calls[s].to /\ c.on = calls[s].on /\ c.stage = "served" /\ c.body = plot /\ c \in Call
    BY <1>1, <1>2, <1>4 DEF Call
  <2> QED BY <2>1, ClientAssumption
<1>6. \A q \in Slot : calls'[q] = IF q = s THEN c ELSE calls[q]
  BY <1>1, <1>3 DEF ViewInv, PageTypeOK
<1>7. \A q \in Slot : before'[q] = IF q = s THEN {p \in Back : calls[p].to = "load"} ELSE before[q]
  BY <1>1, <1>3 DEF ViewInv, PageTypeOK
<1>8. PageTypeOK'
  BY <1>1, <1>3, <1>5 DEF ViewInv, PageTypeOK, server, Back
<1>9. Valid(s)' /\ ~ Returning(s) /\ Returning(s)'
  BY <1>1, <1>3, <1>5, <1>6 DEF Valid, Returning, Current, server, ViewInv, PageTypeOK, Garden, Planting
<1>10. \A q \in Slot \ {s} : Returning(q)' = Returning(q) /\ Valid(q)' = Valid(q)
  BY <1>3, <1>6 DEF Returning, Valid, Current, server
<1>11. \A q \in Slot : Returning(q) => q \in before'[s]
  BY <1>1, <1>7 DEF Returning, Back
<1>12. \A q \in Slot : Formed(q)'
  <2>1. \A q \in Slot : before[q] \subseteq Slot
    BY DEF ViewInv, PageTypeOK
  <2>2. \A q \in Slot \ {s} : Formed(q)'
    BY <1>3, <1>6, <1>7, <1>9, <1>10, <2>1 DEF ViewInv, Formed
  <2>3. \A q \in before'[s] : Returning(q)'
    <3> SUFFICES ASSUME NEW q \in Back, calls[q].to = "load" PROVE Returning(q)'
      BY <1>1, <1>7
    <3>1. q \in Slot /\ calls[q] # NoCall /\ calls[q].stage # "sent" /\ calls[q] \in Call /\ Formed(q)
      BY CallTypes DEF Back
    <3>2. Returning(q)
      BY <3>1 DEF Formed, Returning, Call
    <3> QED BY <1>9, <1>10, <3>1, <3>2
  <2>4. Formed(s)'
    BY <1>1, <1>4, <1>5, <1>6, <1>9, <2>3 DEF Formed, Click
  <2> QED BY <2>2, <2>4
<1>13. \A q \in Slot : Returning(q)' => Valid(q)' \/ Superseded(q)'
  BY <1>1, <1>9, <1>10, <1>11 DEF Superseded
<1>14. \E q \in Slot : Mends(q)'
  BY <1>1, <1>9 DEF Mends
<1> QED BY <1>3, <1>8, <1>12, <1>13, <1>14 DEF ViewInv

\* What is drawn from a garden that was read before.
LEMMA DrawnType == \A g \in Garden : drawn(g) \in [Plot -> Drawing \cup {Bare}]
BY ClientAssumption DEF drawn, Garden, Planting, Drawing

LEMMA DrawnAgrees ==
    ASSUME ViewInv, NEW g \in Garden, NEW o \in Plot, Current(g, o), view' = drawn(g), plot' = plot
    PROVE  Agrees(o)'
<1>1. view'[o] = IF g[o] = Bare THEN Bare ELSE
        [timer |-> g[o].left, watered |-> g[o].watered, ready |-> g[o].left = 0]
  BY DEF drawn
<1>2. plot[o] # Bare => plot[o] \in Planting /\ g[o] \in Planting
  BY DEF ViewInv, PageTypeOK, Garden, Current
<1>3. CASE plot[o] = Bare
  BY <1>1, <1>3 DEF Current, Agrees
<1>4. CASE plot[o] # Bare
  <2>1. g[o] # Bare /\ g[o].watered = plot[o].watered /\ plot[o].left <= g[o].left
    BY <1>4 DEF Current
  <2>2. view'[o].timer = g[o].left /\ view'[o].watered = g[o].watered
    BY <1>1, <2>1
  <2>3. view'[o].ready = (g[o].left = 0)
    BY <1>1, <2>1
  <2>6. view'[o] # Bare
    <3>1. PICK b \in BOOLEAN : b = (g[o].left = 0)
      OBVIOUS
    <3>2. [timer |-> g[o].left, watered |-> g[o].watered, ready |-> b] \in Drawing
      <4>1. g[o].left \in 0..Grow /\ g[o].watered \in 0..Waterings
        BY <1>2, <1>4 DEF Planting
      <4> QED BY <4>1 DEF Drawing
    <3> QED BY <1>1, <2>1, <3>1, <3>2, ClientAssumption
  <2>4. plot[o].left \in Nat /\ g[o].left \in Nat
    BY <1>2, <1>4, ClientAssumption DEF Planting
  <2>5. IF view'[o].ready THEN plot[o].left = 0 ELSE view'[o].timer >= plot[o].left
    <3>1. CASE g[o].left = 0
      <4>1. view'[o].ready = TRUE
        BY <2>3, <3>1
      <4>2. plot[o].left = 0
        BY <2>1, <2>4, <3>1
      <4> QED BY <4>1, <4>2
    <3>2. CASE g[o].left # 0
      <4>1. view'[o].ready = FALSE
        BY <2>3, <3>2
      <4> QED BY <2>1, <2>2, <2>4, <4>1
    <3> QED BY <3>1, <3>2
  <2> QED BY <1>4, <2>1, <2>2, <2>5, <2>6 DEF Agrees
<1> QED BY <1>3, <1>4

\* A call that leaves, loaded or lost.
LEMMA Leaves ==
    ASSUME ViewInv, NEW s \in Slot, calls' = [calls EXCEPT ![s] = NoCall], before' = Without(s)
    PROVE  /\ calls' \in [Slot -> Call \cup {NoCall}] /\ before' \in [Slot -> SUBSET Slot]
           /\ calls'[s] = NoCall /\ \A q \in Slot \ {s} : calls'[q] = calls[q]
           /\ before'[s] = {} /\ \A q \in Slot \ {s} : before'[q] = before[q] \ {s}
           /\ \A q \in Slot : Returning(q)' = (Returning(q) /\ q # s)
<1>1. /\ calls' \in [Slot -> Call \cup {NoCall}]
      /\ calls'[s] = NoCall /\ \A q \in Slot \ {s} : calls'[q] = calls[q]
  BY DEF ViewInv, PageTypeOK
<1>2. /\ before' \in [Slot -> SUBSET Slot]
      /\ before'[s] = {} /\ \A q \in Slot \ {s} : before'[q] = before[q] \ {s}
  BY DEF ViewInv, PageTypeOK, Without
<1>3. \A q \in Slot : Returning(q)' = (Returning(q) /\ q # s)
  BY <1>1 DEF Returning
<1> QED BY <1>1, <1>2, <1>3

LEMMA LeavesFormed ==
    ASSUME ViewInv, NEW s \in Slot, calls' = [calls EXCEPT ![s] = NoCall], before' = Without(s),
           \A q \in Slot \ {s} : q \in late' => Returning(q), s \notin late'
    PROVE  \A q \in Slot : Formed(q)'
<1>0. /\ calls'[s] = NoCall /\ \A q \in Slot \ {s} : calls'[q] = calls[q]
      /\ before'[s] = {} /\ \A q \in Slot \ {s} : before'[q] = before[q] \ {s}
      /\ \A q \in Slot : Returning(q)' = (Returning(q) /\ q # s)
  BY Leaves
<1>1. ASSUME NEW q \in Slot \ {s} PROVE Formed(q)'
  <2>1. Formed(q) /\ before[q] \subseteq Slot
    BY DEF ViewInv, PageTypeOK
  <2>2. \A p \in before'[q] : Returning(p)'
    BY <1>0, <2>1 DEF Formed
  <2> QED BY <1>0, <2>1, <2>2 DEF Formed
<1>2. Formed(s)'
  BY <1>0 DEF Formed
<1> QED BY <1>1, <1>2

LEMMA LoseView == ASSUME ViewInv, NEW s \in Slot, Lose(s) PROVE ViewInv'
<1>1. /\ calls' = [calls EXCEPT ![s] = NoCall] /\ before' = Without(s) /\ late' = late \ {s}
      /\ mishaps' = mishaps \cup {"lost"} /\ UNCHANGED <<server, view>>
  BY DEF Lose
<1>2. PageTypeOK'
  BY <1>1, Leaves DEF ViewInv, PageTypeOK, server
<1>3. \A q \in Slot : Formed(q)'
  BY <1>1, LeavesFormed DEF ViewInv, Formed
<1> QED BY <1>1, <1>2, <1>3 DEF ViewInv

LEMMA LoadedView == ASSUME ViewInv, NEW s \in Back, Loaded(s) PROVE ViewInv'
<1>1. s \in Slot /\ calls[s] # NoCall /\ calls[s].stage # "sent" /\ calls[s] \in Call /\ Formed(s)
  BY CallTypes DEF Back
<1>2. /\ calls' = [calls EXCEPT ![s] = NoCall] /\ before' = Without(s)
      /\ view' = drawn(calls[s].body) /\ late' = (late \cup before[s]) \ {s}
      /\ mishaps' = IF s \in late THEN mishaps \cup {"overtaken"} ELSE mishaps
      /\ UNCHANGED server /\ calls[s].to = "load"
  BY DEF Loaded
<1>3. Returning(s) /\ calls[s].body \in Garden
  BY <1>1, <1>2 DEF Returning, Formed, Call
<1>4. PageTypeOK'
  <2>1. before[s] \subseteq Slot
    BY <1>1 DEF ViewInv, PageTypeOK
  <2> QED BY <1>1, <1>2, <1>3, <2>1, Leaves, DrawnType DEF ViewInv, PageTypeOK, server
<1>5. \A q \in Slot : Formed(q)'
  <2>1. \A q \in Slot : q \in late => Returning(q)
    BY DEF ViewInv, Formed
  <2> QED BY <1>1, <1>2, <2>1, LeavesFormed DEF Formed
<1>6. ASSUME mishaps' = {}
      PROVE  /\ \A q \in Slot \ late' : Returning(q)' => Valid(q)' \/ Superseded(q)'
             /\ late' # {} \/ (\E q \in Slot : Mends(q)') \/ (\A o \in Plot : Agrees(o)')
  <2>1. mishaps = {} /\ s \notin late
    BY <1>2, <1>6
  <2>2. \A q \in Slot \ {s} : /\ Done(q)' = Done(q) /\ Asking(q)' = Asking(q)
                              /\ Valid(q)' = Valid(q)
    BY <1>1, <1>2, Leaves DEF Done, Asking, Valid, Returning, Current, server
  <2>3. ~ Done(s) /\ ~ Asking(s)
    BY <1>2, <1>3 DEF Done, Asking, Returning, Click
  <2>4. ASSUME NEW q \in Slot \ late', Returning(q)' PROVE Valid(q)' \/ Superseded(q)'
    <3>1. q # s /\ q \notin late /\ q \notin before[s] /\ Returning(q)
      BY <1>1, <1>2, <2>4, Leaves
    <3>2. CASE Valid(q)
      BY <2>2, <3>1, <3>2
    <3>3. CASE Superseded(q)
      <4>1. PICK f \in Slot : Done(f) \/ Asking(f) \/ (Valid(f) /\ q \in before[f])
        BY <3>3 DEF Superseded
      <4>2. f # s
        BY <2>3, <3>1, <4>1
      <4>3. q \in before[f] => q \in before'[f]
        <5>1. before'[f] = before[f] \ {s}
          BY <1>1, <1>2, <4>2, Leaves
        <5> QED BY <3>1, <5>1
      <4> QED BY <2>2, <4>1, <4>2, <4>3 DEF Superseded
    <3> QED BY <2>1, <3>1, <3>2, <3>3 DEF ViewInv
  <2>5. late' # {} \/ (\E q \in Slot : Mends(q)') \/ (\A o \in Plot : Agrees(o)')
    <3>1. CASE late # {}
      BY <1>2, <2>1, <3>1
    <3>2. CASE Valid(s)
      BY <1>2, <1>3, <3>2, DrawnAgrees DEF Valid, server
    <3>3. CASE \E q \in Slot \ {s} : Mends(q)
      BY <2>2, <3>3 DEF Mends
    <3>4. CASE Superseded(s)
      <4>1. PICK f \in Slot : Done(f) \/ Asking(f) \/ (Valid(f) /\ s \in before[f])
        BY <3>4 DEF Superseded
      <4> QED BY <2>3, <3>2, <3>3, <4>1 DEF Mends
    <3> QED BY <1>1, <1>3, <2>1, <3>1, <3>2, <3>3, <3>4 DEF ViewInv
  <2> QED BY <2>4, <2>5
<1> QED BY <1>4, <1>5, <1>6 DEF ViewInv

\* What grew is what it was, a tick older.
LEMMA AgedPlot ==
    ASSUME ViewInv, NEW o \in Plot, plot[o] # Bare,
           plot'[o] = IF plot[o] = Bare \/ plot[o].left = 0 THEN plot[o]
                      ELSE [plot[o] EXCEPT !.left = @ - 1]
    PROVE  /\ plot'[o] \in Planting /\ plot'[o] # Bare /\ plot'[o].watered = plot[o].watered
           /\ plot[o].left \in Nat
           /\ plot'[o].left = IF plot[o].left = 0 THEN 0 ELSE plot[o].left - 1
<1>1. plot[o] \in Planting /\ plot[o].left \in 0..Grow /\ plot[o].watered \in 0..Waterings
  BY DEF ViewInv, PageTypeOK, Garden, Planting
<1>2. CASE plot[o].left = 0
  BY <1>1, <1>2, ClientAssumption
<1>3. CASE plot[o].left # 0
  <2>1. PICK n : n = plot[o].left - 1
    OBVIOUS
  <2>2. n \in 0..Grow
    BY <1>1, <1>3, <2>1, ClientAssumption
  <2>3. plot'[o] = [plot[o] EXCEPT !.left = n]
    BY <1>3, <2>1
  <2>4. plot'[o] \in Planting /\ plot'[o].left = n /\ plot'[o].watered = plot[o].watered
    BY <1>1, <2>2, <2>3 DEF Planting
  <2> QED BY <1>1, <1>3, <2>1, <2>4, ClientAssumption
<1> QED BY <1>2, <1>3

LEMMA AgedView ==
    ASSUME ViewInv, NEW o \in Plot, view[o] # Bare,
           view'[o] = IF view[o] = Bare \/ view[o].timer = 0 THEN view[o]
                      ELSE [view[o] EXCEPT !.timer = @ - 1]
    PROVE  /\ view'[o] \in Drawing /\ view'[o] # Bare /\ view'[o].watered = view[o].watered
           /\ view'[o].ready = view[o].ready /\ view[o].timer \in Nat
           /\ view'[o].timer = IF view[o].timer = 0 THEN 0 ELSE view[o].timer - 1
<1>1. view[o] \in Drawing /\ view[o].timer \in 0..Grow
  BY DEF ViewInv, PageTypeOK, Drawing
<1>2. CASE view[o].timer = 0
  BY <1>1, <1>2, ClientAssumption
<1>3. CASE view[o].timer # 0
  <2>1. PICK n : n = view[o].timer - 1
    OBVIOUS
  <2>2. n \in 0..Grow
    BY <1>1, <1>3, <2>1, ClientAssumption
  <2>3. view'[o] = [view[o] EXCEPT !.timer = n]
    BY <1>3, <2>1
  <2>4. /\ view'[o] \in Drawing /\ view'[o].timer = n /\ view'[o].watered = view[o].watered
        /\ view'[o].ready = view[o].ready
    BY <1>1, <2>2, <2>3 DEF Drawing
  <2> QED BY <1>1, <1>3, <2>1, <2>4, ClientAssumption
<1> QED BY <1>2, <1>3

LEMMA ElapseView == ASSUME ViewInv, Elapse PROVE ViewInv'
<1>1. /\ plot' = [o \in Plot |-> IF plot[o] = Bare \/ plot[o].left = 0 THEN plot[o]
                                 ELSE [plot[o] EXCEPT !.left = @ - 1]]
      /\ view' = [o \in Plot |-> IF view[o] = Bare \/ view[o].timer = 0 THEN view[o]
                                 ELSE [view[o] EXCEPT !.timer = @ - 1]]
      /\ UNCHANGED <<coins, calls, before, late, mishaps>>
  BY DEF Elapse
<1>2. \A o \in Plot : plot[o] = Bare => plot'[o] = Bare
  BY <1>1
<1>3. \A o \in Plot : view[o] = Bare => view'[o] = Bare
  BY <1>1
<1>4. \A o \in Plot : plot[o] # Bare =>
           /\ plot'[o] \in Planting /\ plot'[o] # Bare /\ plot'[o].watered = plot[o].watered
           /\ plot[o].left \in Nat
           /\ plot'[o].left = IF plot[o].left = 0 THEN 0 ELSE plot[o].left - 1
  BY <1>1, AgedPlot
<1>5. \A o \in Plot : view[o] # Bare =>
           /\ view'[o] \in Drawing /\ view'[o] # Bare /\ view'[o].watered = view[o].watered
           /\ view'[o].ready = view[o].ready /\ view[o].timer \in Nat
           /\ view'[o].timer = IF view[o].timer = 0 THEN 0 ELSE view[o].timer - 1
  BY <1>1, AgedView
<1>6. PageTypeOK'
  BY <1>1, <1>2, <1>3, <1>4, <1>5 DEF ViewInv, PageTypeOK, Garden
<1>7. ASSUME NEW o \in Plot, Agrees(o) PROVE Agrees(o)'
  <2>1. CASE plot[o] = Bare
    BY <1>2, <1>3, <1>7, <2>1 DEF Agrees
  <2>2. CASE plot[o] # Bare
    <3>1. /\ view[o] # Bare /\ view[o].watered = plot[o].watered
          /\ IF view[o].ready THEN plot[o].left = 0 ELSE view[o].timer >= plot[o].left
      BY <1>7, <2>2 DEF Agrees
    <3>2. IF view'[o].ready THEN plot'[o].left = 0 ELSE view'[o].timer >= plot'[o].left
      <4>1. CASE view[o].ready
        BY <1>4, <1>5, <2>2, <3>1, <4>1
      <4>2. CASE ~ view[o].ready
        <5>1. view'[o].timer >= plot'[o].left
          BY <1>4, <1>5, <2>2, <3>1, <4>2
        <5> QED BY <1>5, <3>1, <4>2, <5>1
      <4> QED BY <4>1, <4>2
    <3> QED BY <1>4, <1>5, <2>2, <3>1, <3>2 DEF Agrees
  <2> QED BY <2>1, <2>2
<1>8. ASSUME NEW s \in Slot, Valid(s) PROVE Valid(s)'
  <2>1. calls[s].body \in Garden /\ Returning(s)
    BY <1>8 DEF ViewInv, Formed, Valid
  <2>2. ASSUME NEW o \in Plot PROVE Current(calls[s].body, o)'
    <3>1. CASE plot[o] = Bare
      BY <1>1, <1>2, <1>8, <3>1 DEF Valid, Current
    <3>2. CASE plot[o] # Bare
      <4>1. /\ calls[s].body[o] # Bare /\ calls[s].body[o].watered = plot[o].watered
            /\ plot[o].left <= calls[s].body[o].left
        BY <1>8, <3>2 DEF Valid, Current
      <4>2. calls[s].body[o].left \in Nat
        BY <2>1, <4>1, ClientAssumption DEF Garden, Planting
      <4>3. plot'[o].left <= calls[s].body[o].left
        BY <1>4, <3>2, <4>1, <4>2
      <4> QED BY <1>1, <1>4, <3>2, <4>1, <4>3 DEF Current
    <3> QED BY <3>1, <3>2
  <2>3. Returning(s)'
    BY <1>1, <2>1 DEF Returning
  <2> QED BY <2>2, <2>3 DEF Valid
<1>9. \A s \in Slot : /\ Done(s)' = Done(s) /\ Asking(s)' = Asking(s)
                      /\ Returning(s)' = Returning(s) /\ before'[s] = before[s]
  BY <1>1 DEF Done, Asking, Returning
<1>10. \A s \in Slot : Superseded(s) => Superseded(s)'
  BY <1>8, <1>9 DEF Superseded
<1>11. \A s \in Slot : Mends(s) => Mends(s)'
  BY <1>8, <1>9 DEF Mends
<1>12. \A s \in Slot : Formed(s)'
  <2>1. \A s \in Slot : before[s] \subseteq Slot
    BY DEF ViewInv, PageTypeOK
  <2> QED BY <1>1, <1>9, <2>1 DEF ViewInv, Formed
<1> QED BY <1>1, <1>6, <1>7, <1>8, <1>9, <1>10, <1>11, <1>12 DEF ViewInv

LEMMA ServeView == ASSUME ViewInv, NEW s \in Waiting, Serve(s) PROVE ViewInv'
<1>1. s \in Slot /\ calls[s] # NoCall /\ Formed(s)
  BY DEF Waiting, ViewInv
<1>2. plot \in Garden /\ coins \in 0..Seeds
  BY DEF ViewInv, PageTypeOK
<1>3. calls[s].to \in Click => calls[s].on \in Plot
  BY <1>1 DEF Formed
<1>4. [left |-> Grow, watered |-> 0] \in Planting
  BY ClientAssumption DEF Planting
<1>5. CASE calls[s].to = "plant" /\ Plants(s, calls[s].on)
  <2>1. \/ UNCHANGED <<plot, coins>> /\ Answer(s, "refused")
        \/ plot' \in Garden /\ coins' \in 0..Seeds /\ Answer(s, "served")
    BY <1>2, <1>4, <1>5, ClientAssumption DEF Plants, Refuse, server, Garden
  <2> QED BY <1>2, <1>5, <2>1, ServeClick DEF Click
<1>6. CASE calls[s].to = "water" /\ Waters(s, calls[s].on)
  <2> DEFINE o == calls[s].on
  <2>0. o \in Plot
    BY <1>3, <1>6 DEF Click
  <2>1. ASSUME plot[o] # Bare, plot[o].watered < Waterings, NEW n \in shaved(plot[o].left),
               plot' = [plot EXCEPT ![o] = [left |-> n, watered |-> @.watered + 1]]
        PROVE  plot' \in Garden
    <3>1. plot[o] \in Planting
      BY <1>2, <2>0, <2>1 DEF Garden
    <3>2. n \in 0..Grow /\ plot[o].watered + 1 \in 0..Waterings
      <4>1. plot[o].left \in 0..Grow /\ plot[o].watered \in 0..Waterings
        BY <3>1 DEF Planting
      <4>2. n \in Nat /\ n <= plot[o].left
        BY <2>1, <4>1, ClientAssumption DEF shaved
      <4> QED BY <2>1, <4>1, <4>2, ClientAssumption
    <3>3. PICK w : w = plot[o].watered + 1
      OBVIOUS
    <3>4. [left |-> n, watered |-> w] \in Planting
      BY <3>2, <3>3 DEF Planting
    <3> QED BY <1>2, <2>1, <3>3, <3>4 DEF Garden
  <2>2. \/ UNCHANGED <<plot, coins>> /\ Answer(s, "refused")
        \/ plot' \in Garden /\ coins' \in 0..Seeds /\ Answer(s, "served")
    BY <1>2, <1>6, <2>1 DEF Waters, Refuse, server
  <2> QED BY <1>2, <1>6, <2>2, ServeClick DEF Click
<1>7. CASE calls[s].to = "harvest" /\ Harvests(s, calls[s].on)
  <2>1. \/ UNCHANGED <<plot, coins>> /\ Answer(s, "refused")
        \/ plot' \in Garden /\ coins' \in 0..Seeds /\ Answer(s, "served")
    BY <1>2, <1>7 DEF Harvests, Refuse, server, Garden
  <2> QED BY <1>2, <1>7, <2>1, ServeClick DEF Click
<1>8. CASE calls[s].to = "load" /\ Loads(s)
  BY <1>8, LoadsView
<1> QED BY <1>5, <1>6, <1>7, <1>8 DEF Serve

LEMMA ViewStep == ViewInv /\ [PageNext]_pageVars => ViewInv'
<1> SUFFICES ASSUME ViewInv, [PageNext]_pageVars PROVE ViewInv'
  OBVIOUS
<1>1. \A to \in Click \cup {"load"}, on \in Plot \cup {Bare} :
         /\ request(to, on) \in Call /\ request(to, on).stage = "sent"
         /\ request(to, on).to = to /\ request(to, on).on = on
  BY DEF request, Call
<1>2. CASE PlantSeed
  BY <1>1, <1>2, SendView DEF PlantSeed, Click
<1>3. CASE OpenTab \/ Clock
  BY <1>1, <1>3, SendView DEF OpenTab, Clock, load, Click
<1>4. CASE \E o \in Plot : WaterPlot(o) \/ HarvestPlot(o)
  BY <1>1, <1>4, SendView DEF WaterPlot, HarvestPlot, Click
<1>5. ASSUME NEW s \in Slot, Serve(s) PROVE ViewInv'
  BY <1>5, ServeView DEF Serve
<1>6. ASSUME NEW s \in Slot, Deliver(s) PROVE ViewInv'
  BY <1>6, ClickedView, LoadedView DEF Deliver
<1>7. CASE UNCHANGED pageVars
  BY <1>7 DEF pageVars, server, ViewInv, PageTypeOK, Formed, Returning, Valid, Current,
              Superseded, Done, Asking, Mends, Agrees
<1> QED BY <1>2, <1>3, <1>4, <1>5, <1>6, <1>7, ElapseView, LoseView DEF PageNext

\* The page of src/web/app.js, its calls and the garden of the server keep their
\* types, whatever overlaps or is lost.
THEOREM PageTypeCorrect == PageSpec => []PageTypeOK
<1>1. ViewInv => PageTypeOK
  BY DEF ViewInv
<1> QED BY PageInitial, ViewStep, <1>1, PTL DEF PageSpec

\* A page that waits for nothing shows what the server has, unless an answer
\* was lost or overtaken: every click of src/web/app.js ends in loadGarden, which
\* is read after the click was served.
THEOREM PagesSettle == PageSpec => []ViewSettles
<1>1. ViewInv => ViewSettles
  <2> SUFFICES ASSUME ViewInv, Free = Slot, mishaps = {} PROVE \A o \in Plot : Agrees(o)
    BY DEF ViewSettles
  <2>1. \A s \in Slot : calls[s] = NoCall
    BY DEF Free
  <2>2. late = {}
    BY <2>1 DEF ViewInv, PageTypeOK, Formed, Returning
  <2>3. \A s \in Slot : ~ Mends(s)
    BY <2>1 DEF Mends, Done, Asking, Valid, Returning
  <2> QED BY <2>2, <2>3 DEF ViewInv
<1> QED BY PageInitial, ViewStep, <1>1, PTL DEF PageSpec

=============================================================================
