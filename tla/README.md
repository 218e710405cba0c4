# Lumi: a TLA+ model of the game server

The repository is a collection game. Players grow seeds in a garden, harvest
Lumi of random rarity, breed them, visit and trade with each other, form
constellations (guilds) and buy currency. The rules are pure functions in
`core/`; the server in `server/` runs them behind an HTTP API with either an
in-memory store or a PostgreSQL store, and a WebSocket hub beside it. A web
client in `web/` asks the server for everything.

This directory holds TLA+ modules that model the parts with state, TLC
configurations that check them on small instances, and proofs that TLAPS checks
for every value of the constants. Names follow the source where TLA+ allows.

To check a model: `tlc -workers 2 -config HatchRun.cfg MCHatch.tla`, and so on
for the runs in the table below. To check a proof: `tlapm HatchProofs.tla`.

## 1. Inventory

| Component (source) | State | Operations | What is hard |
|---|---|---|---|
| Request loop and unit of work (`server/api.js`, `server/pgStore.js`, `server/db.js`) | tables of `db/schema.sql`; per request the identity map `{players, cons, trades, identities}` | hydrate (one query per table), handler, `_commit` in one transaction | every query is an await, so requests interleave between queries; the commit writes back whole rows from copies, also rows the handler only read; lock order; retries and failures |
| Player rules (`core/garden.js`, `core/trade.js`, `core/economy.js`) | wallet, ledger, plots, collection, locks, visit log | plant, harvest, breed, visit, lock, trade, grant | caps, tax, two-sided swaps |
| Payments (`server/iap.js`, `iap_receipts`, webhook) | claimed transactions | redeem, Stripe event | the claim commits before the grant; replays |
| Constellations (`pgStore.js`) | `constellations`, `constellation_members`, `players.flags` | create, join, contribution of each hatch | membership is stored twice and both records are written from copies |
| Garden, luck (`core/garden.js`, `core/luck.js`) | plots, garden bloom, pity counters | plant, water, harvest, breed | when a roll is decided; two counters, two ways to hatch |
| Genome, seed codes (`core/genome.js`, `core/rng.js`) | the genomes in a collection | generate, breed, encode, decode | a child is drawn and then overlaid, over generations; the width of a code |
| Realtime hub (`server/realtime.js`) | `sockets`, `byPlayer`, `rooms`, `ws._cid` | upgrade, lookup, close, `setRoom` | an await in the middle of an upgrade; `setRoom` runs before the commit |
| Daily reward and subscription (`core/progression.js`, `core/subscription.js`) | streak, last day, expiry, last stipend | claim, purchase, stipend | days against ticks, grace, stacking |
| Levels, Bloom Pass, Bloomdex | XP, unlocks, claims | hatch, claim tier, upgrade, claim milestone | derived lists against stored claims |
| World counter (`pgStore.js`) | `this.world`, `world_state` | `addLumi`, `_saveWorld`, `_loadWorld` | memory runs ahead of commits; restart |
| Accounts (`api.js`, `pgStore.js`) | `players`, `auth_identities` | register, guest login | look-up before the transaction whose unique key decides |
| Rate limiter (`server/ratelimit.js`) | buckets | hit, sweep | window ends, sweeping live buckets |
| Shop (`core/economy.js`, `core/content.js`) | wallet, garden goods, ledger | buy, reward, receive | caps, two currencies |
| In-memory store (`server/store.js`) | maps | the same interface | none: handlers do no I/O between its operations |
| Sessions (`server/auth.js`) | the signing key; tokens, held by clients | sign, verify | tokens that expire, or whose key a restart replaced |
| Web client (`web/app.js`) | `localStorage`, `state`, the drawn plots and their timers | boot, load, plant, water, harvest, the clock | two tabs, lost answers, loads that overtake each other |
| Purchase verification, daily quests, tools, boot | none that changes | | see section 8 |

How they interact. A POST runs the rate limiter, then a handler inside
`withRequest`. Handlers call `core/` on hydrated copies and the store commits
when they return. A handler that founds or joins a constellation calls
`realtime.setRoom` before that commit; a new socket asks `store.playerPublic`,
which reads committed rows. Every hatch also moves the world counter, the
constellation score, XP and the pass; tiers and milestones pay into the wallet,
the premium lane and the Bloom Ritual are paid from it. The browser keeps an
account in `localStorage` and recovers it with its device id; its views are
drawn from what loads bring back.

What makes the parts correct is listed with the properties in section 4.

## 2. Modules

```
Economy <- Handlers <- PgStore <- PgGame (INSTANCE Game)     MCPgStore
                    <- Game                                   PgStoreProofs
Accounts <- SignUp (INSTANCE World)                           MCSignUp, BrowserProofs
Track <- Keeper (INSTANCE Shop; Economy <- Shop)              MCKeeper, ProgressProofs
Guild <- Realtime                                             MCGuild, GuildProofs,
                                                              MCRealtime, EdgeProofs
Hatch                                                         MCHatch, HatchProofs
Genome                                                        MCGenome, GenomeProofs
Calendar                                                      MCCalendar, ProgressProofs
RateLimit                                                     MCRateLimit, EdgeProofs
Client                                                        MCClient, BrowserProofs
FiniteSums <- PgStoreProofs, GuildProofs, ProgressProofs, EdgeProofs, BrowserProofs
GuildProofs <- EdgeProofs
```

**Economy, Handlers.** The pure rules as operators on a player object, the
record a request hydrates. `pay`, `grant`, `validateTrade`, `tradeFrom` and
`tradeTo` (the two halves of `executeTrade`), `plant`, `harvest`, `breed`,
`visit`, `lock`, `grantProduct`. Ledger entries are summed per currency.

**PgStore.** The PostgreSQL store under the request loop. `pc` says which
statement a request awaits; `ReadPlayers`, `ReadWallets`, `ReadGardens` and
`ReadLumi` are the four queries of `_loadPlayer`, `ReadTrade` is `getTrade`,
one `Handle...` action per route is the synchronous rest of the handler,
`StartDelete` and `FinishDelete` are the `DELETE FROM lumi` of each hydrated
player with its READ COMMITTED snapshot and lock wait, `Commit` writes
everything else. `Reject` is a 4xx, `Fail` a failed query, a lost connection or
a dying process, `DuplicateKey` the primary key of `lumi`, `DeadlockVictim`
PostgreSQL's deadlock resolution. `Workload` says what clients send at the same
time; it is an assumption about clients and not about the code.

**Game.** The abstract specification: each route takes effect at once on the
objects as they are, or not at all. Only a redemption is two steps, because
`claimReceipt` commits on its own. This is also what the in-memory store does,
whose operations are synchronous. `PgGame` states that `PgStore` implements it:
`Promise == INSTANCE Game WITH ...` maps the tables to the variables of `Game`,
and `TakesEffectAtOnce` says that every step of a request is a step of
`Promise` or none.

**Guild.** Create, join and the contribution of a hatch, among requests that
write a player back for another reason. Ids are drawn when a constellation is
founded; its name is looked up then and decided by the unique key at the
commit. A commit is one action: it upserts the row of the constellation first
and so excludes every other commit of the same one.

**Hatch.** Plots, watering, growth, bloom, the roll and the pity floor. A
rarity is an index, luck is counted in 1500ths so that the arithmetic of the
code stays in whole numbers, the first number drawn from a seed is one of
`Draws`, and time is the time left to grow.

**Genome.** `generateLumi`, `breedLumi` and the seed codes as operators, and a
population that hatches and breeds. Drawn traits are choices; `tier` keeps the
rarity a genome was drawn with, `line` its ancestors. A child is a drawing
overlaid with its parents' traits, of which `recomputed` derives some fields
anew, as the code does.

**Realtime.** The hub composed with `Guild`. `Connect`, `Lookup`, `Welcome`,
`Close` and `HangUp` are the life of a socket around the awaited
`playerPublic`, which reads a member row of `Guild`. Every step of a request is
the step of `Guild`: `Enter` is the handler of create or join together with the
`setRoom` it calls, `Commit` is `SaveCon` with its DELETE and INSERT of all the
member rows, `Abort` a request that fails, `Elsewhere` all others, which leave
hub and member rows alone.

**Calendar.** Daily claims and the subscription of one player in ticks,
`PerDay` to a UTC day. **RateLimit.** Both limiters and the sweep.

**Accounts, World, SignUp.** `Accounts` has registration and guest logins
against unique keys, `World` the counter in memory and in its row. `SignUp`
composes them: a new account comes with two starter Lumi, so its request runs
through both, and the row of the world is written last in the transaction that
inserts the player. It adds hatches, restarts and the tabs of one browser:
`Open` reads `localStorage`, `Resume`, `TokenRefused` and `NotResumed` are the
three outcomes of the first request, `GuestLogin` and `Answered` the second.

**Track, Shop, Keeper.** `Track` has XP, unlocks, both lanes of the pass and
the Bloomdex, `Shop` the wallet with purchases, rewards, received petals and
the report on sources and sinks. `Keeper` composes them: each route is one
action of both, so a tier is claimed and paid in one step, and the premium lane
is bought only by a player who can pay.

**FiniteSums.** What the proofs need to know of sums over finite sets; it
models no code.

**Client.** The garden tab. Every click is a call that is sent, served and
delivered or lost; `Clicked` sends the load that follows it, `Loaded` draws the
plots from what the server answered when it served it, `Clock` is the interval
that loads when a timer has run out. The server's side is the garden of one
player.

## 3. Abstractions worth knowing

- Amounts in `PgStore` are in units of 25, in `KeeperRun` in units of ten. Caps
  are constants and small.
- `PgStore` keeps one plot per player, one day of the visit log, and no clock:
  whether a planting is ready is a choice (`Reject` may refuse any harvest).
  Collections are sets of Lumi.
- The second phase of a commit is one action. What it writes depends on the
  copies alone; the rows that could make its failures depend on the database
  are those of `lumi`, and these are modelled. Upserts that wait for each other
  in a cycle end as a failed query does.
- `MemoryStore` has no module of its own beyond `Game`.
- `Pooled = FALSE` (and `pooled` in `World`) is PGlite, one connection on which
  transactions queue up.
- `Realtime`: messages carry nothing but the online count, and what a client
  was told is forgotten when it goes. A commit is one action, as in `Guild`.
- `World` leaves out the bloom level, which the same statements move. Every
  request is served once.
- `Accounts`: a guest's handle comes from `randomUUID` and meets no other.
- `SignUp`: a token is its subject; it may be refused at any time, which covers
  its expiry and a key that a restart replaced. A request is forgotten when the
  server restarts.
- `Genome` leaves out what nothing else depends on: names, patterns,
  temperament, size. Elements are drawn, inherited and named as forms are.
- `Keeper`: decor, seeds and cosmetics of a reward are answered and stored
  nowhere by the code, so they have no state. An account's daily reward stands
  for the rewards of all other routes.
- `Client` begins when the boot is through. One tab plays the account. Time is
  in ticks, and the half second by which a timer is rounded is left out; with a
  watering the remaining time loses a tick or none.
- `RateLimit` and `Calendar` count time in ticks; several events may fall into
  one.
- History variables (`seedOf`, `sown`, `granted`, `swaps`, `dry`, `claims`,
  `crossed`, `mishaps`, `linkedAt`, `asked`, `lumi` of World, `paid`, `dexPaid`,
  `parents`, `line`, `before`, `late`, `bought`, `paidFor`) record what happened
  for the properties; no guard of the code's reads them (`bought` and `paidFor`
  carry bounds).

## 4. Runs

All runs finish within two minutes or so on two workers. Every property has a
mutant: a plausible bug in one mapped definition that makes TLC report that
property.

| Run | Properties | What it shows |
|---|---|---|
| PgIsolated | `WalletsMatchJournal` `HatchedOnce` `VisitsPaidOnce` `StatusTellsOutcome` `LumiConserved` `LockedStays` `TakesEffectAtOnce` | All ten routes, two slots, three requests; those in flight touch different players. The tables change as `Game` says, through every interleaving of queries and commits, rejections and failures; balances are what the ledger says and never negative. |
| PgAny | `GrantsAreDue` `TradesStayClosed` `RequestsEnd` | Trades, redemptions and visits that overlap in any way, with fairness. |
| PgForeignWrite | `WalletsMatchJournal` (violated) | See section 5. |
| GuildRun | `NeverOverfull` `NamesUnique` `NeverOvercounted` `MembershipAgrees` `ScoreAddsUp` `MembersStay` | The first three hold whatever overlaps. The others hold as long as no two requests that share a player or a constellation were in flight together (`crossed`). |
| HatchRun | `HarvestsRescued` `TendingPays` | The pity floor reaches every run of harvests although breeding moves the same counters; watering and harvesting elsewhere never worsen or delay what grows. |
| GenomeRun | `CodesKeepSeeds` `TrophiesHaveOrigin` `LooksFollow` | Codes keep their seeds, a gated mutation goes back to an ancestor that was drawn rare enough, and the recomputed fields follow the inherited traits, over four births. |
| HubRun | `NobodyTwice` `PresenceTrue` `NobodyMissing` `NobodyElse` | The first two hold whatever happens: no socket is in two rooms, and the count is wrong by those that hung up during their look-up only. Rooms hold the sockets of the members and of nobody else as long as the `mishaps` they name have not happened, see 5.8. |
| CalendarRun | `StreakHonest` `KeystoneWeekly` `GoldenGives` | The streak updated claim by claim is what all claims define; stacking loses and gives no time, and a day with benefits pays one stipend. |
| KeeperRun | `UnlocksAgree` `ListIsHonest` `MilestonePaysOnce` `ReportAddsUp` `RewardsGive` | Unlocks and claims agree with what they are derived from, in any order of hatches, trades, claims and purchases; the report accounts for the wallet in both currencies, and a reward takes only what exceeds a cap. |
| SignUpRun | `AccountsAgree` `WorldCounted` `AccountKept` | Two tabs, other clients, three requests, failures and restarts: unique handles, a known device keeps its player; the row of the world forgets no committed Lumi where transactions queue up (`~pooled`), and with a pool too it overcounts at rest by lost ones only; and what `localStorage` holds is an account its device recovers. |
| RateRun | `AtMostTwice` `DenialsDeserved` | Fixed windows admit at most twice the limit in any span of a window; nobody pays for others, sweeps included. |
| ClientRun | `ViewSettles` `CountdownEnds` | A page at rest shows what the server has, unless an answer was lost or overtaken; every countdown ends, also if loads are lost or overtake each other. |

Why the bounds are enough:

- **PgIsolated**: two players and two slots give every pair of concurrent
  requests, three requests give every pair an effect of an earlier one to find
  (a created trade, a sown plot, a lock, a logged visit). A visit cap of one
  and an offer that only fits without its tax make the limits bite. Four Lumi
  let two be hatched.
- **PgAny**: two requests race over what a third one left. One trade and one
  transaction are enough, as no step looks at two of them.
- **GuildRun**: places for two and three players make the cap reachable; five
  requests, three at a time, let two constellations be founded, joined and
  contributed to, and the third find a name or a place taken.
- **HatchRun**: four tiers, thresholds of two and three, two plots, three
  hatches of which one is bred: a floor one hatch late is seen, as is a
  watering that lowers the care of another plot's roll. Weights keep the order
  of `RARITIES`; four draws suffice since the bloom is chosen so that care
  decides between tiers.
- **HubRun**: two sockets of one player tell a player's sockets from a socket;
  the other player acts by requests, which is how it reaches the first one's
  rows and rooms. Three requests, two at a time, and two constellations let one
  founding be followed by a join and a hatch that cross, so that the hatch
  deletes the new row, or a visit cross two joins: each kind of mishap occurs. A
  fourth request would let a row that was lost come back; there the properties
  rest on the theorems. Hatches contribute nothing, as only membership counts
  here.
- **CalendarRun**: days of two ticks, purchases of three, so that benefits
  begin and end within a day; seven days with a ladder of three cover keeping,
  gracing, breaking and completing it.
- **GenomeRun**: four births are two generations below two founders, or one
  child of a child. Two rarities suffice, as only their order counts; one
  mutation is gated, the other glows. Binary digits and a hundred seeds keep the
  code's proportion: seven digits hold more than the seeds need, six do not.
- **KeeperRun**: three tiers and a level formula as in the code, with XP gains
  that land on, below and beyond a level and a tier; two species, two
  milestones; each way to earn and to pay, a price in both currencies, rewards
  that reach the caps and petals above them.
- **SignUpRun**: three requests are two first logins of the same browser and
  somebody else, or one login and two Lumi; three players and devices let each
  of them get its own.
- **RateRun**: a window of two ticks within three, limits of two and one, and a
  sweep as soon as there are two buckets.
- **ClientRun**: two plots, so that a click on one and the countdown of the
  other overlap; two calls in flight, so that one load overtakes another; seeds
  to plant twice, one tick to grow and one watering.

Deadlock checking is off where the instance ends (a budget of requests, the
end of the calendar, the last birth), and on in KeeperRun, SignUpRun
and ClientRun.

Fairness. Two properties need it. `RequestsEnd`: `WF` of each request's `Step`.
Node resumes a handler once its query is answered, PostgreSQL answers queries,
wakes whoever waits for a released row lock, and aborts one of a cycle of
waiters. `CountdownEnds`: time passes and the interval of the page fires (`SF`,
since the model's call slots may be taken when it does, which bounds only the
model), requests that are not lost are served and delivered (`WF`), and of loads
that are sent again and again some are served and some come back (`SF`). No
fairness is assumed of clients (`Arrive`, clicks) or failures (`Fail`, `Lose`).

## 5. Where the code and its documents disagree

Found while modelling. The first has a run of its own (PgForeignWrite); the
others are the conditions of the properties above, or changes of an instance
that make a property fail.

1. **A visit undoes the visited player's progress.** `_commit`
   (`pgStore.js:359`) writes back every hydrated player, also the neighbour of a
   visit and the recipient of an offer. With one request per player at a time,
   a visit restores the neighbour's older balance while the ledger keeps the
   newer entries. `docs/11-TECH-ARCHITECTURE.md:168` admits lost updates only
   between two requests of the same player.
2. Two harvests of a plot, the second hydrated partly before and partly after
   the first commits, hatch one planting twice (`HatchedOnce` with
   `Workload = "any"`); two visits pay twice (`VisitsPaidOnce`); line 169 of
   that document promises never a double credit.
3. A cancel that read an open trade overwrites the status of the accept that
   committed meanwhile (`StatusTellsOutcome`, `"perActor"`), against
   `docs/07-ECONOMY.md:68`, an atomic transfer.
4. An accept that hydrated the owner before a lock committed moves a locked
   Lumi (`LockedStays`), against `docs/07-ECONOMY.md:72`.
5. Petals received in a trade pass the hard cap (`core/trade.js:85`), and the
   next reward then takes the excess away (`core/economy.js:53`); hence the
   wording of `RewardsGive`. `core/economy.js:8-9` says every mutation goes
   through `credit` and `debit`.
6. Members and contributions are lost between requests of different players
   that share a constellation (`MembersStay`, `ScoreAddsUp` without `~crossed`);
   `docs/05-SOCIAL.md:25` calls the score cumulative.
7. Breeding counts as a hatch without a rare but asks for no floor, so 18
   hatches without a rare are possible; `core/luck.js:21-23` says at least one
   every 18 hatches. `HarvestsRescued` counts harvests.
8. A client that hangs up while its socket is looked up is counted for good
   (`realtime.js:108`); `PresenceTrue` counts these. Chat rooms and member rows
   come apart in five ways, the `mishaps` of `Realtime`. `"lookup"`: a failed
   look-up is taken for no constellation (`realtime.js:94`). `"overlap"`: a
   socket that connects between `setRoom` and the commit joins no room.
   `"commit"`: a commit that fails leaves the player in the room
   (`api.js:498`, `api.js:505`). `"twice"`: a player who joins two
   constellations at once, or another one after a visit wrote the flag back, is
   moved to the room of the second while the rows follow the commits.
   `"overwrite"`: the join or hatch of another member, whose copy is older than
   a join, deletes the new row as it commits (`pgStore.js:435`); the sockets of
   who joined stay in the room and keep hearing the chat, while a new one finds
   no row and joins none, and a third copy can bring the row back. The last two
   need requests that cross (`ApartIsTame`).
9. A streak of seven kept alive by claiming every other day pays the Lumen of
   day seven each time (`progression.js:81`), hence the second case of
   `KeystoneWeekly`; `core/content.js:78` calls it a weekly reward.
10. The Bloomdex forgets a species whose last Lumi is traded away
    (`bloomdex.js:49`); `player.unlocks` gates no route (`progression.js:37-38`
    says it flips server-side gates).
11. A request that fails after `addLumi` leaves the world counter raised
    (`pgStore.js:154`); with pooled connections the older count may be written
    last, hence `~ pooled` in `Counted`.
12. Two first logins of a device make two players and link one
    (`api.js:222-229`); two registrations of a handle give the second a 500, not
    the documented 409 (`docs/openapi.yaml:93-95`).
13. Fixed windows admit twice the limit around a boundary; `server/index.js:61`
    says 300 a minute. Hence `AtMostTwice`.
14. A bought seed (`api.js:291`) is charged and given nowhere; a second biome
    replaces the first (`core/content.js:25-27` expects players to own several).
15. Mutations are inherited without the gate of their rarity, so a common Lumi
    may wear a halo; `core/genome.js:72-73` says they are gated so that one is
    a trophy. Hence the wording of `TrophiesHaveOrigin`.
16. `breedLumi` recomputes derived fields (`core/genome.js:405`), but not all:
    the body, the extras other than halo and crystalline, the eyes, the palette
    and the stats stay those of the drawing. `LooksFollow` asks for the others.
    For the same reason, and because the context is not part of it, a seed code
    does not always regenerate the exact Lumi (`core/genome.js:434-437`).
17. Two tabs that boot for the first time make two accounts, and the last to
    write `localStorage` wins; the answer of a first login that is lost leaves
    an account no device can reach (`web/app.js:62-68`).
18. After the boot a refused token is only reported; the page logs in again when
    it is reloaded, not before. A load that is lost or overtaken leaves old plots
    on the page until the next one (`web/app.js:208-213`), hence the condition
    of `ViewSettles`. If one of the first three loads fails, the clock is never
    started (`web/app.js:77-78`).

## 6. Proofs

Each proof module proves theorems for every value of the constants that its
component's `ASSUME`s admit. The assumptions are what the code's tables and
call sites give: disjoint model values, finite sets, balances that are natural
numbers, thresholds that are positive. Two are less obvious. `PgStoreAssumption`
asks that no two plots start with the same planting and that a planting is
neither a breeding nor nothing: a planting stands for a seed drawn by
`randomUUID`. `KeeperAssumption` asks that the goods of the shop are not called
as the two reasons without a purchase: an item stands for the reason
`shop:<kind>:<id>` that the code writes.

| Theorem | Statement | Argument |
|---|---|---|
| `TypeCorrect` (PgStoreProofs) | `Spec => []TypeOK` | with `WellFormed`: what a request's `pc` promises about its copies (whom `at` names, which trade it holds). Lemmas give the type of every rule's result, including that no balance becomes negative |
| `GrantsGoToTheClaimer` | `GrantsAreDue` | `GrantInv`: a grant in flight or committed belongs to one request and a claimed receipt, since only `HandleRedeem` starts one and only on an unclaimed transaction |
| `ClosedForGood` | `TradesStayClosed` | `TradeInv`: a copy that will be committed is either of a new id or already resolved |
| `MoneyIsAccountedFor`, `NoLumiIsLost`, `LocksHold`, `StatusIsTheOutcome` | `WalletsMatchJournal`, `LumiConserved`, `LockedStays`, `StatusTellsOutcome`, if `Workload = "isolated"` | `IsoInv`, see below |
| `StoreKeepsItsPromise` | `TakesEffectAtOnce`, the refinement of `Game`, if `Workload = "isolated"` | at the commit the copies are what the handler makes of the rows as they are, so the commit of each route is that route's action in `Game`; a claim is the first step of a redemption; every other step changes no table |
| `SeedsHatchOnce` | `HatchedOnce`, if isolated | `HatchInv`: a planting in a plot, or about to be put in one, has hatched nothing and is in no other plot; a commit brings one new Lumi at most, from the plot it empties |
| `VisitsPayOnce` | `VisitsPaidOnce`, if isolated | `VisitInv`: a visit adds one neighbour to the log and one reward; petals of an accepted trade enter the sum over the trades won, which grows by that trade |
| `GuildTypeCorrect`, `CapHolds`, `ScoreNeverInflated`, `NamesAreUnique` (GuildProofs) | `TypeOK`, `NeverOverfull`, `NeverOvercounted`, `NamesUnique` | the member rows after a commit are those of one copy and no copy is too large (`FullInv`); a copy's score is an earlier score plus the request's share (`CountInv`); a commit that founds stores a name no row has (`NameInv`) |
| `MembershipIsOne`, `MembersAreKept`, `ScoresAddUp` | `MembershipAgrees`, `MembersStay`, `ScoreAddsUp` | `Calm`, which holds until something crosses: no two requests share a player or a constellation, a copy differs from the rows only by what its request did (`Faithful`), and a score is the sum of its members' contributions (`Sums`) |
| `HatchTypeCorrect`, `EveryDroughtEnds` (HatchProofs) | `TypeOK`, `HarvestsRescued` | `RescueInv`: the counters the floor reads are never behind the harvests since the last rare or epic |
| `TendingIsWorthIt` | `TendingPays` | care and bloom raise the luck of a roll. `SumsExist` shows that the recursive `plain` and `slope` have the values their equations define; more luck moves the average rarity up (`AverageGrows`), so the share of the tiers below falls (`ShareFalls`), so fewer tiers are used up by the same draw (`MoreLuck`) |
| `CodesAreExact` (GenomeProofs) | every seed comes back from its code | what the decoder has read after a digit is what was left of the seed when the encoder wrote it; needs that seven digits hold all seeds |
| `GenomeTypeCorrect`, `PicturesFollow`, `TrophiesAreTrue`, `CodesAreKept` (GenomeProofs) | `TypeOK`, `LooksFollow`, `TrophiesHaveOrigin`, `CodesKeepSeeds` | a step appends one genome and leaves the others; a newborn's properties follow from its parents', which are older |
| `RealtimeTypeCorrect`, `NobodyStays` (EdgeProofs) | `RealtimeTypeOK`, `NobodyTwice` | `Shape` rests on the types of `Guild`, whose steps the requests take (`RequestsAreGuild`); rooms follow `ws._cid`, and a socket is tracked for its owner only (`Tracked`) |
| `CountIsTold` | `PresenceTrue` | the hub's set is that of the live sockets, and whoever enters or leaves it tells everyone (`Told`); live and welcomed is up or hung up (`UpOrHungUp`) |
| `ChatIsPrivate` | `NobodyElse` | what a look-up found still holds (`Current`), as a commit that overwrites nothing writes the first row of the one who joins (`CleanCommit`); so a room is entered by a member row or by a join in flight, and neither goes without the other coming |
| `MembersHear` | `NobodyMissing` | a live socket is in the room `ws._cid` names (`Found`), and that is the room its owner is joining, has a row in, or will have looked up (`Moved`); a player who joins has no row and no other join (`Single`) |
| `ApartIsTame` | while `~crossed`, nothing is joined twice or overwritten | by `CalmInv` of GuildProofs: a copy differs from the rows only by what its request did, so its commit changes one row, and requests in flight have different players |
| `CalendarTypeCorrect`, `StreakIsHonest`, `NoPaidTimeLost`, `StipendsAreEarned`, `GoldenIsKept` (ProgressProofs) | `CalendarTypeOK`, `StreakHonest`, `PaidTimeKept`, `StipendsEarned`, `GoldenGives` | the streak is one more than the number of neighbouring claims since the last break (`StreakInv`); enjoyed plus remaining equals paid for (`PaidInv`); paid stipends inject into days with benefits (`StipendInv`) |
| `KeystonesAreWeekly` | `KeystoneWeekly` | `Paced`: as long as no day was missed since a Lumen reward, the streak less the days since then is a multiple of the ladder, so the next reward is a whole ladder away |
| `TrackTypeCorrect`, `UnlocksFollowLevels`, `PassPaysOnce`, `DexPaysOnce` (ProgressProofs) | `TypeOK`, `UnlocksAgree`, `ListIsHonest`, `MilestonePaysOnce` | by actions; levels are monotone in XP, and list and claim ask for the same |
| `KeeperImplementsTrack`, `KeeperIsPaidOnce` (ProgressProofs) | `KeeperSpec => Spec`, and so the three of Track for `KeeperSpec` | every action of `Keeper` is one of `Track` or leaves its variables alone |
| `RewardsAreGiven` (ProgressProofs) | `RewardsGive` | balances and charges are natural numbers (`WalletInv`), so what is added is negative only where the cap cuts it; sums of rewards are rewards (`BothType`) |
| `ReportIsTrue` (ProgressProofs) | `ReportAddsUp` for `KeeperSpec` | each action changes the entry of one reason by what it changes of source and sink, so the sum over the reasons moves by the same amount (`ReportTotal`) |
| `KeeperTypeCorrect` | `KeeperTypeOK` | `ReportInv` types wallet and report, `SoldType` the garden; progress is that of `Track` |
| `SignUpTypeCorrect`, `PlayersAreOne` (BrowserProofs) | `AllTypeOK`, `AccountsAgree` | `AccountsInv`: a player being made is nobody else's (`Maker`), an insert that a unique key has let through has no rival (`Unrivalled`), and a request knows of a stored identity only what is stored (`Request`). A step of the composition is one of Accounts and one of World, or leaves theirs alone (`StepSplits`) |
| `WorldIsCounted` | `WorldCounted`, of which no committed Lumi being forgotten is promised for `~pooled` only | `WorldInv`: counter, row and the values requests carry never exceed what was ever made; where transactions queue up, the counter holds what is committed and in flight (`Low`). `LostSum` follows the fold over the requests |
| `AccountIsKept` | `AccountKept` | `BrowserInv`: `localStorage` and tabs hold accounts their device recovers; a tab that waits without one waits for the login of a device that is its own (`First`) |
| `PageTypeCorrect`, `PagesSettle` | `PageTypeOK`, `ViewSettles` | `ViewInv`: as long as nothing was lost or overtaken, a page that shows something else than the server has waits for a call whose answer, or the load after it, mends it |
| `LimiterTypeCorrect`, `TwiceAtMost`, `DenialsAreDeserved` (EdgeProofs) | `LimiterTypeOK`, `AtMostTwice`, `DenialsDeserved` | `BucketAt`: windows that have ended leave no more than the limit in any span of a window, an open one counts what it admits, and its count is at most what its client asked in it; a sweep drops only windows that have ended |

The isolated workload. `WalletsMatchJournal` and the six beside it are false of
arbitrary requests (section 5), so their theorems have the hypothesis under
which PgIsolated checks them: clients send no two requests at the same time
that touch the same player. The hypothesis speaks of what arrives and of
nothing else; queries, handlers, commits and failures still interleave in every
way. `IsoInv` is why isolation of the requests is isolation of their rows, which
the code does not check anywhere: the footprint a request has at its arrival,
the players its route will read, names all it ever hydrates (for a trade, whom
the row names, and the row's two sides do not change); what a request has
hydrated is still what the tables hold (`Own`); and two requests hold no Lumi in
common (`Apart`). A commit therefore writes over nothing but what its own
handler saw.

Sums. The code keeps totals beside what they are totals of, and the properties
that compare the two use the folds of the community modules, recursive
functions on subsets in the order of CHOOSE. FiniteSums proves that such a sum
exists, that it does not depend on the order, and how it changes with one
element. The induction theorems of the library take an operator as a parameter
and cannot be used here, so these lemmas, like `SumsExist`, go by the least
counterexample: `SmallestSet` picks a smallest subset without the property.

Every state machine has a type invariant, and all are proved; the runs do not
check them again.

Only model-checked are `RequestsEnd` and `CountdownEnds`: liveness and ENABLED
are beyond the prover. Every other property of a passing run is a theorem. The
theorems on `Client` are about `PageSpec`, which assumes no fairness, and so hold
of `FairPageSpec`.

## 7. Plan

Order in which the modules were written, most important first: Economy,
Handlers, PgStore with Game, Guild, Hatch, Realtime, Calendar, Track, World,
Accounts, RateLimit, Shop, Genome, SignUp, Client, Keeper. Next:

1. Realtime: shutdown of the hub.
2. Client: the collection and the breeding picks, which may name a Lumi that was
   traded away meanwhile.
3. The shuffle of daily quests against a reference definition.

## 8. Not modelled

- The keyed hash of a token (`server/auth.js`): what is signed is what is read,
  or the token is refused.
- Purchase verification (`server/iap.js`): signatures and calls to the stores. What
  follows a verified purchase is `HandleRedeem` of `PgStore`, for the redeem route and
  for a Stripe event alike: both load the player, claim the transaction, grant and save.
- Daily quests: generated from the day on every read; no route advances one.
- Names, palettes, sizes, stats and power of a Lumi: functions of drawn numbers.
- Leaderboards, previews, health: reads without effect.
- The limiter in front of the other routes: a request it turns away changes
  nothing, and composing its buckets with them multiplies states to no end.
- Of the web client: the generator, the collection, the breeding picks, the
  world view and the realtime notices; pictures and styling.
- Shutdown of the hub, the tools, the demo data, boot and static files.
