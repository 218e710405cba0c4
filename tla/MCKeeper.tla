------------------------------ MODULE MCKeeper ------------------------------
(***************************************************************************)
(* An instance of Keeper for TLC.  Levels and their XP are those of the    *)
(* game up to level five; tiers are shorter and fewer.  Petals are counted *)
(* in tens.                                                                *)
(***************************************************************************)
EXTENDS Keeper, TLC

Levels == "visiting" :> 3 @@ "breeding" :> 4

Pass == {<<1, "free">>, <<1, "premium">>, <<2, "premium">>, <<3, "free">>}

Price(p, l) == "petals" :> p @@ "lumen" :> l

Prices ==
    "gilded_arch" :> Price(3, 2) @@ "meadow" :> Price(0, 0)
    @@ "tide_pools" :> Price(6, 0)
    @@ "pass_premium" :> Price(0, 4) @@ "breed_ritual" :> Price(0, 1)

NewWallet == Price(8, 5)

PassRewards == [r \in Reward |-> CASE r = <<1, "free">> -> Price(2, 0)
                                   [] r = <<1, "premium">> -> Price(0, 3)
                                   [] r = <<3, "free">> -> Price(0, 2)
                                   [] OTHER -> Price(0, 0)]

DexRewards == 50 :> Price(5, 0) @@ 75 :> Price(0, 3)

Daily == {Price(4, 0)}

=============================================================================
