------------------------------- MODULE SignUp -------------------------------
(***************************************************************************)
(* Accounts, the world counter and the tabs of one browser together.  A    *)
(* tab boots with what localStorage holds: it resumes its session or logs  *)
(* in as a guest, and keeps the account the server answers with.  A new    *)
(* account comes with two starter Lumi, so its request raises the world    *)
(* counter too, and writes it last in the transaction that inserts the     *)
(* player.  Other clients register, log in with device ids of their own    *)
(* and hatch Lumi meanwhile.                                               *)
(*                                                                         *)
(* Of a token the model keeps its subject.  When it expires, and whether   *)
(* the server still has the key that signed it, is left open.              *)
(***************************************************************************)
EXTENDS Accounts

CONSTANTS
    Tab,          \* the tabs of the browser
    Chosen,       \* the device ids other clients send
    NoReq

ASSUME SignUpAssumption ==
    /\ IsFiniteSet(Req) /\ NoReq \notin Req
    /\ Chosen \subseteq Device

VARIABLES
    pooled, total, row, tx, made, value, lumi,   \* World, tx its at
    kept,     \* localStorage: lumora_pid, lumora_token and lumora_device
    tab,      \* how far the boot of each tab is
    me,       \* what its state holds of the same
    call      \* the guest request it waits for

Starters == 2

W == INSTANCE World WITH at <- tx, Makes <- {0, 1, Starters}

world == <<pooled, total, row, tx, made, value, lumi>>
browser == <<kept, tab, me, call>>
allVars == <<vars, world, browser>>

\* Who a browser is, and the token that a player is given.
Account == [pid : Player \cup {NoPlayer}, token : Player \cup {NoPlayer},
            device : Device \cup {NoDevice}]
Nobody == [pid |-> NoPlayer, token |-> NoPlayer, device |-> NoDevice]
sign(p) == p

TabTypeOK ==
    /\ kept \in Account /\ me \in [Tab -> Account]
    /\ tab \in [Tab -> {"closed", "resume", "login", "waiting", "ready", "failed"}]
    /\ call \in [Tab -> Req \cup {NoReq}]

AllTypeOK == TypeOK /\ W!TypeOK /\ TabTypeOK

AllInit ==
    /\ Init /\ W!Init
    /\ kept = Nobody /\ me = [t \in Tab |-> Nobody]
    /\ tab = [t \in Tab |-> "closed"] /\ call = [t \in Tab |-> NoReq]

Idle(r) == at[r] = "new" /\ tx[r] = "new"

-----------------------------------------------------------------------------
(***************************************************************************)
(* The server.  A request whose place in Accounts is "new" while it is     *)
(* under way in World hatches a Lumi for a player who plays already.       *)
(***************************************************************************)

Registers(r) == Idle(r) /\ Register(r) /\ UNCHANGED <<world, browser>>

\* A client with a device id of its own.
LogsIn(r) ==
    /\ Idle(r) /\ Login(r) /\ device'[r] \in Chosen
    /\ UNCHANGED <<world, browser>>

Hatches(r) ==
    /\ Idle(r) /\ W!Make(r) /\ made'[r] = 1
    /\ UNCHANGED <<vars, browser>>

\* A guest who is known goes on to the commit.
Looks(r) ==
    /\ LookUp(r)
    /\ \/ at'[r] = "create" /\ UNCHANGED world
       \/ at'[r] = "found" /\ W!Make(r) /\ made'[r] = 0
    /\ UNCHANGED browser

\* createPlayer adds the starters in memory, before there is a transaction.
Creates(r) ==
    /\ CreatePlayer(r)
    /\ \/ at'[r] = "taken" /\ UNCHANGED world
       \/ at'[r] = "begin" /\ W!Make(r) /\ made'[r] = Starters
    /\ UNCHANGED browser

Begins(r) == W!Begin(r) /\ UNCHANGED <<vars, browser>>

Inserts(r) ==
    /\ tx[r] = "tx" /\ InsertPlayer(r)
    /\ IF at'[r] = "failed" THEN W!Fail(r) ELSE UNCHANGED world
    /\ UNCHANGED browser

Links(r) == tx[r] = "tx" /\ Link(r) /\ UNCHANGED <<world, browser>>

\* What _commit writes before the world: nothing new for a known player.
Saved(r) ==
    at[r] \in {"new", "found", IF device[r] = NoDevice THEN "inserted" ELSE "linked"}

Sends(r) == Saved(r) /\ W!Send(r) /\ UNCHANGED <<vars, browser>>
Writes(r) == W!Write(r) /\ UNCHANGED <<vars, browser>>

Commits(r) ==
    /\ W!Commit(r)
    /\ Commit(r) \/ Recover(r) \/ (at[r] = "new" /\ UNCHANGED vars)
    /\ UNCHANGED browser

Fails(r) ==
    /\ \/ Fail(r) /\ IF r \in W!InFlight THEN W!Fail(r) ELSE UNCHANGED world
       \/ at[r] = "new" /\ W!Fail(r) /\ UNCHANGED vars
    /\ UNCHANGED browser

Restarts ==
    /\ W!Restart
    /\ at' = [r \in Req |-> IF at[r] \in Working THEN "failed" ELSE at[r]]
    /\ UNCHANGED <<stored, asked, player, browser>>

-----------------------------------------------------------------------------
(***************************************************************************)
(* The browser.                                                            *)
(***************************************************************************)

Boots(t, place) == tab' = [tab EXCEPT ![t] = place]

\* The page is loaded, for the first time or again: state is what localStorage
\* holds, and an answer the tab waited for is lost.
Open(t) ==
    /\ me' = [me EXCEPT ![t] = kept]
    /\ Boots(t, IF kept.pid # NoPlayer /\ kept.token # NoPlayer THEN "resume" ELSE "login")
    /\ call' = [call EXCEPT ![t] = NoReq]
    /\ UNCHANGED <<vars, world, kept>>

\* GET the player, and the answer: the token is valid and the player's own.
Resume(t) ==
    /\ tab[t] = "resume" /\ me[t].token = me[t].pid /\ me[t].pid \in rows
    /\ Boots(t, "ready")
    /\ UNCHANGED <<vars, world, kept, me, call>>

\* 401: the token has expired or was signed with another key.
TokenRefused(t) ==
    /\ tab[t] = "resume" /\ Boots(t, "login")
    /\ me' = [me EXCEPT ![t].token = NoPlayer]
    /\ UNCHANGED <<vars, world, kept, call>>

\* Any other error, or none at all.
NotResumed(t) ==
    /\ tab[t] = "resume" /\ Boots(t, "login")
    /\ UNCHANGED <<vars, world, kept, me, call>>

\* The device ids randomUUID may return.
Fresh == {d \in Device \ Chosen : identity[d] = NoPlayer /\ \A s \in Req : device[s] # d}

\* Mutant of the next: every login draws a device id.
subjectsDrawn(d) == Fresh

\* The device a guest request is served for: the one it names, or a new one.
subjects(d) == IF d # NoDevice THEN {d} ELSE Fresh

GuestLogin(t) ==
    /\ tab[t] = "login" /\ Boots(t, "waiting")
    /\ \E r \in Req :
          /\ Idle(r) /\ Login(r) /\ device'[r] \in subjects(me[t].device)
          /\ call' = [call EXCEPT ![t] = r]
    /\ UNCHANGED <<world, kept, me>>

\* The answer, for state and for localStorage, with nothing between.
Answered(t) ==
    LET r == call[t] IN
    /\ tab[t] = "waiting" /\ at[r] = "answered" /\ Boots(t, "ready")
    /\ kept' = [pid |-> player[r], token |-> sign(player[r]), device |-> device[r]]
    /\ me' = [me EXCEPT ![t] = kept']
    /\ call' = [call EXCEPT ![t] = NoReq]
    /\ UNCHANGED <<vars, world>>

\* "Failed to start": the request failed, or its answer is lost.
NotAnswered(t) ==
    /\ tab[t] = "waiting" /\ Boots(t, "failed")
    /\ call' = [call EXCEPT ![t] = NoReq]
    /\ UNCHANGED <<vars, world, kept, me>>

AllNext ==
    \/ \E r \in Req :
          \/ Registers(r) \/ LogsIn(r) \/ Hatches(r) \/ Looks(r) \/ Creates(r)
          \/ Begins(r) \/ Inserts(r) \/ Links(r) \/ Sends(r) \/ Writes(r)
          \/ Commits(r) \/ Fails(r)
    \/ \E t \in Tab :
          \/ Open(t) \/ Resume(t) \/ TokenRefused(t) \/ NotResumed(t)
          \/ GuestLogin(t) \/ Answered(t) \/ NotAnswered(t)
    \/ Restarts

AllSpec == AllInit /\ [][AllNext]_allVars

-----------------------------------------------------------------------------
(***************************************************************************)
(* Properties.                                                             *)
(***************************************************************************)

\* However many requests want a handle or a device at once, one player gets it,
\* and one that is stored: a guest who comes back is the same player.
AccountsAgree == OneHolder /\ Recovered

\* Where transactions queue up, the row of world_state forgets no Lumi that was
\* committed, starters included.  With a pool of connections too, once nothing is
\* in flight it counts too many only what failed requests made.
WorldCounted == W!Counted /\ W!RowSettled

\* What localStorage holds is an account that is stored and that its device
\* recovers, and a tab that boots with an account is ready with no other one,
\* whatever expires, fails or is lost meanwhile.
AccountKept ==
    /\ [](kept.pid # NoPlayer => kept.pid \in rows /\ identity[kept.device] = kept.pid)
    /\ [][\A t \in Tab :
          tab'[t] = "ready" /\ me[t].pid # NoPlayer => me'[t].pid = me[t].pid]_allVars

=============================================================================
