------------------------------ MODULE Economy ------------------------------
(***************************************************************************)
(* The wallet operations of core/economy.js, as operators on an account.   *)
(* An account is any record with a field `wallet` (the balance of each     *)
(* currency) and a field `ledger`.  The ledger of the code is an array of  *)
(* signed entries that is only appended to and summed, so it is            *)
(* represented by the sum of the deltas of each currency.                  *)
(*                                                                         *)
(* Each operation that can throw is a pair: a condition (what the code     *)
(* checks first) and the account it leaves when the condition holds.       *)
(***************************************************************************)
EXTENDS Integers

CONSTANTS PetalsCap, LumenCap

ASSUME CapAssumption == PetalsCap \in Nat /\ LumenCap \in Nat

Currency == {"petals", "lumen"}

HardCap == [c \in Currency |-> IF c = "petals" THEN PetalsCap ELSE LumenCap]

Balance == [Currency -> Nat]
Sums    == [Currency -> Int]
NoEntries == [c \in Currency |-> 0]

Lesser(a, b) == IF a <= b THEN a ELSE b

\* A transaction of one currency is an amount per currency, zero in the other.
Petals(n) == [c \in Currency |-> IF c = "petals" THEN n ELSE 0]
Lumen(n)  == [c \in Currency |-> IF c = "lumen" THEN n ELSE 0]

\* What `credit` adds: the amount, clamped so that the balance ends at the cap.
\* An account above its cap is brought down to it, so this can be negative.
applied(wallet, c, amount) ==
    Lesser(HardCap[c], wallet[c] + amount) - wallet[c]

\* `grant` credits each currency whose amount is not zero.
grant(account, reward) ==
    LET given == [c \in Currency |->
                    IF reward[c] = 0 THEN 0
                    ELSE applied(account.wallet, c, reward[c])]
    IN  [account EXCEPT
           !.wallet = [c \in Currency |-> account.wallet[c] + given[c]],
           !.ledger = [c \in Currency |-> account.ledger[c] + given[c]]]

\* `pay` checks both currencies before it charges either, so that a purchase
\* is never half charged.
canPay(account, cost) == \A c \in Currency : account.wallet[c] >= cost[c]

pay(account, cost) ==
    [account EXCEPT
       !.wallet = [c \in Currency |-> account.wallet[c] - cost[c]],
       !.ledger = [c \in Currency |-> account.ledger[c] - cost[c]]]

=============================================================================
