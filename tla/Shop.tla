-------------------------------- MODULE Shop --------------------------------
(***************************************************************************)
(* One player's wallet over many requests: purchases of the catalogue,     *)
(* rewards and petals received in trades, and the report on sources and    *)
(* sinks that is drawn up from the ledger of all of them.                  *)
(***************************************************************************)
EXTENDS Economy, FiniteSets, Functions

CONSTANTS
    Plant, Decor, Biome,   \* what the catalogue sells, by kind
    Service,               \* what other routes charge for
    Starter,               \* the biome of a new garden
    cost,                  \* the price of each item
    Rewards, Gifts,        \* amounts rewarded, and of petals offered in trades
    Start,                 \* the wallet of a new player
    MaxBought, MaxGiven    \* bounds: purchases of an item, and petals received

Item == Plant \cup Decor \cup Biome \cup Service
Reason == Item \cup {"reward", "trade_petals_in"}

VARIABLES
    wallet, biome, decor,
    source, sink, byReason,   \* faucetSinkReport of the ledger so far
    bought                    \* history: how often each item was bought

report == <<source, sink, byReason>>
vars == <<wallet, biome, decor, report, bought>>

TypeOK ==
    /\ wallet \in Balance
    /\ biome \in Biome /\ decor \in [Decor -> Nat]
    /\ source \in Sums /\ sink \in Balance /\ byReason \in [Reason -> Sums]
    /\ bought \in [Item -> 0..MaxBought]

Init ==
    /\ wallet = Start
    /\ biome = Starter /\ decor = [d \in Decor |-> 0]
    /\ source = NoEntries /\ sink = NoEntries
    /\ byReason = [r \in Reason |-> NoEntries]
    /\ bought = [i \in Item |-> 0]

Plus(a, b) == [c \in Currency |-> a[c] + b[c]]
Minus(a) == [c \in Currency |-> - a[c]]

-----------------------------------------------------------------------------

\* pay looks at both currencies before it charges either.
canBuy(i) == \A c \in Currency : wallet[c] >= cost[i][c]

\* Mutant of the next: the second currency is not charged.
chargedPetals(i) == Petals(cost[i]["petals"])

charged(i) == cost[i]

\* POST shop/buy: purchase, and what the garden gets of it.  For a service the
\* debit is the same.
Buy(i) ==
    /\ bought[i] < MaxBought
    /\ canBuy(i)
    /\ wallet' = Plus(wallet, Minus(charged(i)))
    /\ sink' = Plus(sink, charged(i))
    /\ byReason' = [byReason EXCEPT ![i] = Plus(@, Minus(charged(i)))]
    /\ biome' = IF i \in Biome THEN i ELSE biome
    /\ decor' = [d \in Decor |-> IF d = i THEN decor[d] + 1 ELSE decor[d]]
    /\ bought' = [bought EXCEPT ![i] = @ + 1]
    /\ UNCHANGED source

Credited(r, delta) ==
    /\ wallet' = Plus(wallet, delta)
    /\ byReason' = [byReason EXCEPT ![r] = Plus(@, delta)]
    /\ UNCHANGED <<sink, biome, decor, bought>>

\* Mutant of the next: the caps of the currencies are mistaken for each other.
givenSwapped(reward) ==
    [c \in Currency |-> IF reward[c] = 0 THEN 0
                        ELSE Lesser(IF c = "petals" THEN LumenCap ELSE PetalsCap,
                                    wallet[c] + reward[c]) - wallet[c]]

\* What grant adds to the wallet.
given(reward) ==
    [c \in Currency |-> IF reward[c] = 0 THEN 0 ELSE applied(wallet, c, reward[c])]

\* Mutant of the next: the ledger is told the amount asked for.
recordedInFull(reward) == reward

\* The deltas of its ledger entries.
recorded(reward) == given(reward)

Grants(reward) ==
    /\ Credited("reward", given(reward))
    /\ source' = Plus(source, recorded(reward))

\* executeTrade adds the petals of an offer to the balance of the recipient.
Receive(n) ==
    /\ byReason["trade_petals_in"]["petals"] + n <= MaxGiven
    /\ Credited("trade_petals_in", Petals(n))
    /\ source' = Plus(source, Petals(n))

Next ==
    \/ \E i \in Item : Buy(i)
    \/ \E reward \in Rewards : Grants(reward)
    \/ \E n \in Gifts : Receive(n)

Spec == Init /\ [][Next]_vars

-----------------------------------------------------------------------------
(***************************************************************************)
(* Properties.                                                             *)
(***************************************************************************)

SumOver(f, S, c) == FoldFunctionOnSet(LAMBDA x, n : x[c] + n, 0, f, S)

\* The report accounts for the wallet: what came in and went out since the
\* start is what it holds, in all and reason by reason; and every purchase was
\* charged in full, in both currencies, and none on credit.
ReportAddsUp ==
    \A c \in Currency :
        /\ wallet[c] = Start[c] + source[c] - sink[c] /\ wallet[c] >= 0
        /\ SumOver(byReason, Reason, c) = source[c] - sink[c]
        /\ \A i \in Item : byReason[i][c] = - bought[i] * cost[i][c]

=============================================================================
