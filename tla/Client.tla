------------------------------- MODULE Client -------------------------------
(***************************************************************************)
(* The garden tab of the web client.  Everything stateful is asked of the  *)
(* server: a click sends a request, and the view is drawn anew from what a *)
(* load that is sent after the answer brings.  Loads of several clicks and *)
(* of the clock overlap; each may take its time, be overtaken or be lost.  *)
(*                                                                         *)
(* One tab plays the account.  Time is counted in the ticks of the clock,  *)
(* coins in seeds they buy.                                                *)
(***************************************************************************)
EXTENDS Integers, FiniteSets

CONSTANTS
    Plot, Slot,    \* the plots; room for calls, the bound of those in flight
    Grow,          \* ticks a seed grows
    Waterings,     \* how often a plant can be watered
    Seeds,         \* the seeds a player can pay for
    Bare, NoCall

Planting == [left : 0..Grow, watered : 0..Waterings]
Drawing == [timer : 0..Grow, watered : 0..Waterings, ready : BOOLEAN]
Garden == [Plot -> Planting \cup {Bare}]

Click == {"plant", "water", "harvest"}
Call == [to : Click \cup {"load"}, on : Plot \cup {Bare},
         stage : {"sent", "served", "refused"}, body : Garden \cup {Bare}]

ASSUME ClientAssumption ==
    /\ Plot \subseteq Nat /\ IsFiniteSet(Plot) /\ IsFiniteSet(Slot)
    /\ Grow \in Nat \ {0} /\ Waterings \in Nat /\ Seeds \in Nat
    /\ Bare \notin Planting \cup Drawing /\ NoCall \notin Call

VARIABLES
    plot, coins,      \* the server's garden and wallet
    view,             \* the plots as they are drawn
    calls,            \* the requests the page waits for
    before,           \* history: of each load on its way back, those served before it
    late, mishaps     \* history: loads that were overtaken, what has gone wrong

server == <<plot, coins>>
pageVars == <<server, view, calls, before, late, mishaps>>

PageTypeOK ==
    /\ plot \in Garden /\ coins \in 0..Seeds
    /\ view \in [Plot -> Drawing \cup {Bare}]
    /\ calls \in [Slot -> Call \cup {NoCall}]
    /\ before \in [Slot -> SUBSET Slot] /\ late \subseteq Slot
    /\ mishaps \subseteq {"lost", "overtaken"}

PageInit ==
    /\ plot = [o \in Plot |-> Bare] /\ coins = Seeds
    /\ view = plot
    /\ calls = [s \in Slot |-> NoCall]
    /\ before = [s \in Slot |-> {}] /\ late = {} /\ mishaps = {}

Free == {s \in Slot : calls[s] = NoCall}
Waiting == {s \in Slot : calls[s] # NoCall /\ calls[s].stage = "sent"}
Back == {s \in Slot : calls[s] # NoCall /\ calls[s].stage # "sent"}

request(to, on) == [to |-> to, on |-> on, stage |-> "sent", body |-> Bare]
load == request("load", Bare)

-----------------------------------------------------------------------------
(***************************************************************************)
(* The page.                                                               *)
(***************************************************************************)

Send(r) ==
    /\ Free # {}
    /\ calls' = [calls EXCEPT ![CHOOSE s \in Free : TRUE] = r]
    /\ UNCHANGED <<server, view, before, late, mishaps>>

\* The first plot that is shown empty.
PlantSeed ==
    \E o \in Plot :
        /\ view[o] = Bare /\ \A q \in Plot : q < o => view[q] # Bare
        /\ Send(request("plant", o))

\* Plots drawn with a timer.
counting == {o \in Plot : view[o] # Bare /\ ~ view[o].ready}

WaterPlot(o) == o \in counting /\ Send(request("water", o))

HarvestPlot(o) == view[o] # Bare /\ view[o].ready /\ Send(request("harvest", o))

OpenTab == Send(load)

\* Mutant of the next: a timer shows zero, and never less.
dueBelow == {o \in counting : view[o].timer < 0}

\* The timers that have run out.
due == {o \in counting : view[o].timer <= 0}

\* The clock ticks, whether a load is under way or not.
Clock == due # {} /\ Send(load)

\* renderPlots.
drawn(garden) ==
    [o \in Plot |-> IF garden[o] = Bare THEN Bare ELSE
        [timer |-> garden[o].left, watered |-> garden[o].watered,
         ready |-> garden[o].left = 0]]

\* Mutant of the next: a plot is drawn anew when it was planted or harvested.
nextCallDry(c) == IF c.stage = "refused" \/ c.to = "water" THEN NoCall ELSE load

\* What follows the answer to a click: a load if it did something, a toast if not.
nextCall(c) == IF c.stage = "refused" THEN NoCall ELSE load

Clicked(s) ==
    /\ calls[s].to \in Click
    /\ calls' = [calls EXCEPT ![s] = nextCall(calls[s])]
    /\ UNCHANGED <<server, view, before, late, mishaps>>

\* The loads on their way back, once that of s is not.
Without(s) == [q \in Slot |-> IF q = s THEN {} ELSE before[q] \ {s}]

\* loadGarden, when its answer is there.
Loaded(s) ==
    /\ calls[s].to = "load"
    /\ calls' = [calls EXCEPT ![s] = NoCall]
    /\ view' = drawn(calls[s].body)
    /\ before' = Without(s)
    /\ late' = (late \cup before[s]) \ {s}
    /\ mishaps' = IF s \in late THEN mishaps \cup {"overtaken"} ELSE mishaps
    /\ UNCHANGED server

Deliver(s) == s \in Back /\ (Clicked(s) \/ Loaded(s))

\* A request or its answer is lost, or the server fails.
Lose(s) ==
    /\ s \notin Free
    /\ calls' = [calls EXCEPT ![s] = NoCall]
    /\ before' = Without(s)
    /\ late' = late \ {s}
    /\ mishaps' = mishaps \cup {"lost"}
    /\ UNCHANGED <<server, view>>

-----------------------------------------------------------------------------
(***************************************************************************)
(* The server.                                                             *)
(***************************************************************************)

Answer(s, stage) ==
    /\ calls' = [calls EXCEPT ![s].stage = stage]
    /\ UNCHANGED <<view, before, late, mishaps>>

Refuse(s) == Answer(s, "refused") /\ UNCHANGED server

Plants(s, o) ==
    \/ (plot[o] # Bare \/ coins = 0) /\ Refuse(s)
    \/ /\ plot[o] = Bare /\ coins > 0
       /\ plot' = [plot EXCEPT ![o] = [left |-> Grow, watered |-> 0]]
       /\ coins' = coins - 1
       /\ Answer(s, "served")

\* 92 % of the remaining time is a tick less, or none.
shaved(n) == {n, n - 1} \cap Nat

Waters(s, o) ==
    \/ plot[o] = Bare /\ Refuse(s)
    \/ /\ plot[o] # Bare /\ plot[o].watered = Waterings
       /\ Answer(s, "served") /\ UNCHANGED server
    \/ /\ plot[o] # Bare /\ plot[o].watered < Waterings
       /\ \E n \in shaved(plot[o].left) :
             plot' = [plot EXCEPT ![o] = [left |-> n, watered |-> @.watered + 1]]
       /\ Answer(s, "served") /\ UNCHANGED coins

isReady(o) == plot[o] # Bare /\ plot[o].left = 0

Harvests(s, o) ==
    \/ ~ isReady(o) /\ Refuse(s)
    \/ /\ isReady(o)
       /\ plot' = [plot EXCEPT ![o] = Bare]
       /\ Answer(s, "served") /\ UNCHANGED coins

\* gardenView, as it is when the server comes to it.
Loads(s) ==
    /\ calls' = [calls EXCEPT ![s].stage = "served", ![s].body = plot]
    /\ before' = [before EXCEPT ![s] = {q \in Back : calls[q].to = "load"}]
    /\ UNCHANGED <<server, view, late, mishaps>>

Serve(s) ==
    /\ s \in Waiting
    /\ \/ calls[s].to = "plant" /\ Plants(s, calls[s].on)
       \/ calls[s].to = "water" /\ Waters(s, calls[s].on)
       \/ calls[s].to = "harvest" /\ Harvests(s, calls[s].on)
       \/ calls[s].to = "load" /\ Loads(s)

-----------------------------------------------------------------------------

\* A tick of time, for the server and for the timers on the page.
Elapse ==
    /\ \E o \in Plot : \/ plot[o] # Bare /\ plot[o].left > 0
                       \/ view[o] # Bare /\ view[o].timer > 0
    /\ plot' = [o \in Plot |-> IF plot[o] = Bare \/ plot[o].left = 0 THEN plot[o]
                               ELSE [plot[o] EXCEPT !.left = @ - 1]]
    /\ view' = [o \in Plot |-> IF view[o] = Bare \/ view[o].timer = 0 THEN view[o]
                               ELSE [view[o] EXCEPT !.timer = @ - 1]]
    /\ UNCHANGED <<coins, calls, before, late, mishaps>>

PageNext ==
    \/ PlantSeed \/ OpenTab \/ Clock \/ Elapse
    \/ \E o \in Plot : WaterPlot(o) \/ HarvestPlot(o)
    \/ \E s \in Slot : Serve(s) \/ Deliver(s) \/ Lose(s)

PageSpec == PageInit /\ [][PageNext]_pageVars

\* Time passes, the interval fires, and a server that is asked again and again
\* is heard some time.  Nobody has to click.
FairPageSpec ==
    /\ PageSpec
    /\ WF_pageVars(Elapse) /\ SF_pageVars(Clock)
    /\ \A s \in Slot : WF_pageVars(Serve(s)) /\ WF_pageVars(Deliver(s))
    /\ SF_pageVars(\E s \in Slot : Serve(s) /\ calls[s].to = "load")
    /\ SF_pageVars(\E s \in Slot : s \in Back /\ Loaded(s))

-----------------------------------------------------------------------------
(***************************************************************************)
(* Properties.                                                             *)
(***************************************************************************)

Agrees(o) ==
    IF plot[o] = Bare THEN view[o] = Bare
    ELSE /\ view[o] # Bare /\ view[o].watered = plot[o].watered
         /\ IF view[o].ready THEN plot[o].left = 0 ELSE view[o].timer >= plot[o].left

\* Once the page waits for nothing, it shows what the server has, unless an
\* answer was lost or overtaken by a later one.
ViewSettles ==
    Free = Slot /\ mishaps = {} => \A o \in Plot : Agrees(o)

\* A countdown comes to an end, in a harvest button or an empty plot, also when
\* loads are lost or arrive out of order.
CountdownEnds == \A o \in Plot : o \in counting ~> o \notin counting

=============================================================================
