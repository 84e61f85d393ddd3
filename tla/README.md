# Verification of the hypermesh pricing engine

TLA+ modules, TLC runs and TLAPS proofs about the pricing engine of this repository: what a
round and a day-ahead block allocate and charge, how prices and the memory of an order move from
round to round, what becomes of a round that is sent again or priced without the service, how a
floor turns into a reserve and into token prices, and how the script that pins a release behaves in
a repository that others use. `PROJECT.json` lists, for every definition, the lines of code it
stands for, and for every run what it shows.

## The system

The repository is a stateless pricing engine for rented machine hours (`pricing_core`), an HTTP
service around it (`pricing_service`) and the scripts that pin a release in another repository.
Its caller, Panopticon, keeps all memory and calls it once per round of 15 minutes, and once per
day-ahead block.

| Component | State | Operations | Correct when |
|---|---|---|---|
| Real-time clearing (`clearing.py`) | chunks placed and seeking, demand counted, org cap flags; within one call | passes: allocate per pool, split, descend; result | no pool is oversold, no box stands idle that a refused renter would take, a refusal stays justified although what displaced it may be displaced, charges stay within the renter's max, passes end |
| Day-ahead clearing (`clearing.py`, tier loop in `engine.py`) | chunks, last prices; within one call | sealed-bid passes, uniform price, upgrade pass, supply that depends on the price | no pool is oversold, nobody pays above its bid or below the reserve, upgrades do not cost stayers their award |
| Pool preparation, controller, boost (`engine.py`, `controller.py`, `boost.py`, `floor.py`, `money.py`) | base, boost and ema of each pool, kept by the caller | a round, a degraded round | prices never below the reserve, the controller stays in its corridor and gets where it heads, the boost stays bounded, hosts net their floor |
| Floor quotes (`engine.py`, `floor.py`, `money.py`) | none; the caller keeps the answer | a quote, a round with what it answered | the host of a machine nets its floor, however often the price was rounded on the way |
| Pain thresholds (`orders.py`) | fallen-back rungs and counters of each order, kept by the caller | filter of a ladder before clearing | a rung falls back and returns with hysteresis, stop ends the ladder, the memory means what it says |
| Token prices (`token_pricing.py`) | none | two ceilings and a fee | the tokens of an hour pay for the hour |
| Rulesets (`ruleset.py`, `transparency.py`) | published files, immutable | load, validate, choose the active one | a round falls under the ruleset that its body asks for, whichever process answers |
| Calls for a round (`app.py`, `engine.py`; the caller) | requests and answers under way, replicas of different releases | attempts, timeouts, the local degraded round | a retry is priced the same, memory moves by one round at a time, every round is priced |
| HTTP service (`app.py`, `schemas.py`) | none | routing, token check, error mapping | - |
| Pin pull request (`bump_panopticon_pin.py`) | a branch and a pull request in another repository | read pins, write a commit, force the branch, open or update the pull request | one pull request, never a pin it did not mean to write |

How they interact: a round request carries pools (with the memory of the last round) and orders.
The engine prepares each pool (boost, reserve, cap, posted base, supply, ema), filters each ladder
by the pain thresholds, clears, and answers a row for each pool (with the next base, boost and
ema), fills, and the pain memory. The clearing reads the posted base and supply that preparation
made; the controller reads the demand that the clearing counted. The caller sends the answer back
with the next round, or prices the round itself, degraded, when the service did not answer in time.

The behaviours that are hard to test: displacement across passes (an hour placed early is
displaced late and displaces in turn, elsewhere); rounding to a cent as a fixed point or a
drift over many rounds; memory that travels through the caller, with rounds that are skipped,
degraded, repeated or answered too late, by processes that do not know the same rulesets; supply
that depends on the price it helps to make; limits (pass count, share cap, corridor) that bind in one step and not in the next.

## Modules

| Module | Models | Notes |
|---|---|---|
| `Ladder` | orders, rungs, pools, chunks; `_first_chunk`, `_descend`, `_split` | shared by both clearings |
| `DeferredAcceptance` | what both clearings promise, by hours | the abstract specification that they implement |
| `RealtimeClearing` | one real-time round | `ClearPass` is the body of the loop of `_finish_realtime`, `Settle` the code after it |
| `Loops` | the loops that both allocations are made of: sort, cut at the room of an organisation, take from what remains | |
| `RealtimeAllocation`, `DayAheadAllocation` | `_allocate_realtime` and `_allocate_day_ahead` as they are written | to compare with the sets of hours that the clearings use |
| `DayAheadClearing` | one clearing of a day-ahead block | `ClearPass` and `Settle` of `_finish_day_ahead` |
| `DayAheadMarket` | a day-ahead request: `_clear_prepared`, `commit_upgrade_pass` | extends `DayAheadClearing`, which it restarts |
| `Money`, `Quotes` | ceiling, half-even, clamp; where reserve and supply of a pool come from | fractions as numerator and denominator |
| `PoolRounds` | `_prepare_pool` and the pool rows of `_price_round` | `Round` is a full round, `DegradedRound` one priced with memory held |
| `Rulesets` | `active_version`, `load_ruleset`, `choose_active`, `_rules`, `_as_of` | |
| `RoundCalls` | a round of one pool as its caller calls for it | composes `Rulesets` with `PoolRounds`, which its memory implements |
| `HourQuotes` | `price_floor`, `_reserve_for_pool`, `price_tokens` | three calls, each with what the one before answered |
| `Pain` | `apply_pain` from round to round | `Round` is the call for one order |
| `PinBump` | `bump_panopticon_pin.py` and those it shares panopticon with | one action for each call of the GitHub API |
| `MC...` | small books, views, offers, ladders, repositories for TLC | |
| `CommonFacts` | lemmas: ranks, counting and choosing in finite sets, loops, rounding | what several proofs need |
| `RealtimeClearing_proofs`, `DayAhead_proofs`, `PoolRounds_proofs`, `Pain_proofs`, `HourQuotes_proofs`, `RoundCalls_proofs`, `PinBump_proofs` | theorems | one module for each module proved about |

### Real-time clearing

`book` and `view` are the arguments; `placed`, `seeking`, `seen`, `demand`, `orgCap`, `passes`
and `lastId` are the locals of `_finish_realtime`, `fills` its result. A chunk is a record with an
id, its order, its rung and its hours; what the code copies into a chunk from its order is read
from the order. One `ClearPass` does what one iteration does: it counts demand, lets every pool
allocate anew among `placed` and `seeking`, splits, and sends what was turned away down the
ladder. The iterations of one call cannot interleave with anything; they are separate steps
so that the properties can speak of what passes do to each other.

The loop of `_allocate_realtime` is a greedy walk over slices sorted by band and rank. The model
says the same hour by hour: an hour is accepted when fewer than `supply` hours are ahead of it.
`GreedyAgrees` says that in every reachable state the walk as written (in
`RealtimeAllocation`) and the set of hours agree, flag included; the run checks it, and `LoopsAgree`
proves it of any number of orders.

Hours are counted in a unit in which every supply, order and share is whole. The code computes
in exact decimals and takes 1e-9 for zero, so on such a grid it is exact too. Ids of chunks are
only compared within one order at one pool; the model gives them in the order in which the code
makes them there.

### A day-ahead block and its request

`DayAheadClearing` has the state of `RealtimeClearing` with the price and the hours bid of the
last pass in place of the demand. Both clearings share `Ladder`, with a flag for the one
difference (a bid is compared with the reserve instead of the base). The uniform price is that
of the slices within the cap; hours over the cap fill what is left at it. `DayAheadAllocation` is
the code's way to both: the first loop serves the slices within the cap and notes the bids that it
does not serve in full, the second passes over the bids below the price that they make.
`GreedyAgrees` says that both ways sell the same hours at the same price, and `LoopsAgree` proves it.

`DayAheadMarket` adds what surrounds it: `Reprice` is one turn of the loop that fits the supply
of boxes with reserves of their own to the prices (`turns` counts up to the sixteen of the code),
`StartUpgrade` builds the one-rung books of the upgrade pass and `ReturnUpgrade` names the rungs
of the ladders that the renters sent. Each restarts the clearing, as the code calls
`clear_day_ahead` again. Where supply and prices agree, the code clears once more on the same
input; that clearing ends as the last one did, and the model does not repeat it. The share that a
day-ahead block may sell is a whole number of hours in the instances.

### Deferred acceptance

`DeferredAcceptance` forgets chunks, ranks, tips, bands and prices. What is left is how many hours
of each order stand at each of its rungs (`stands`), how many of them the pool held in the last
pass (`held`), and what is sold. In a pass each pool holds as many hours as it has room for, of
those that stand there, and the others come down to the next rung that they can afford; in the end
what is held is sold. So no pool is oversold, none leaves an hour idle that was asked of it, no hour
is invented, lost, skipped past a rung or moved up, and nothing is sold that the last pass did not
hold. `KeepsItsPromise` says of `RealtimeClearing` and of `DayAheadClearing` that they implement it:
`stands` counts the chunks placed and seeking, `held` the placed ones, `sold` the fills. Which hours
a pool holds is where the two differ, and the abstract pass leaves it open. The property is the
specification of the promise under this mapping, `Init /\ [][Next]_vars`.

### A pool from round to round

`base`, `boost` and `ema` are what the caller keeps (`next_base_cents`, the boost object,
`next_ema_cents`); `row` is what the last round answered and the input it had. The demand that
meets the pool is any number of hours: the clearing decides it. Prices are cents, utilization
percent, and the boost counts units of its last decimal place. Products and quotients are exact
fractions; the code's decimals have 28 digits, so they agree except where a quotient that does
not terminate falls within 1e-26 of a tie. The reserve of a round comes from the exact stepped
boost, the boost the caller keeps from its rounding, as in the code.

### Calls for a round

`RoundCalls` puts a caller in front of `PoolRounds`. It sends the memory of the last round in a
body, to any replica, up to `MaxAttempts` times; an attempt ends with an answer, an error or a
timeout, and what comes after it is not read. When the attempts or its budget of time are spent it
prices the round in its own process (`degraded_round`). `Serve` answers a request although the
caller has given up, so answers race with timeouts and with the fallback; `TurnAway` is a replica
that refuses. Requests that are still under way when a round ends are forgotten: an answer to an
attempt of an earlier round is not read, as one to an earlier attempt is not.

A body names a ruleset, a start, or neither. A process has the rulesets of the release that it runs
(`known`), and the rulesets of a release are in order of publication; `Publish` announces the next
one before it takes effect, `Install` replaces one process, `Tick` lets a ruleset take effect.
`InStep` says that a release is installed everywhere, in the caller's library too, before a ruleset
in it takes effect. It is an assumption about deployments: the README asks that a rule change be
announced before its `effective_from`, and the code of a process has nothing but its own files to go
by; without it a process that lags behind dates a round by an older ruleset
(`MCRoundSkew.cfg`). A body may name a ruleset that the caller's library has not got; if the service
does not answer then, nothing can price the round (`Skip`), and `EveryRoundIsPriced` claims nothing
of it. Rulesets are labels here: which prices they make is no part of it, only which of them priced
what. The two that are shipped have one `effective_from`, which the calendar repeats.

`MemoryMovesByRounds` is a refinement: the caller's memory is the state of `PoolRounds`, and it
moves by that module's `Next` or not at all. The day-ahead request has no degraded form and no
memory of its own, so there is nothing to call again but the same body.

### Quotes of an hour

`HourQuotes` follows one price through three calls. `CallFloor` quotes the floor of a machine;
`CallRound` makes a reserve of the answer, sent in one of the three forms that a pool may carry
(`floor_usd`, `floor_cents`, `reserve_cents`), with a boost that may have moved on since; `CallTokens`
makes token prices of the reserve and base of that round. Money travels in places of a cent:
`floor_usd` is a decimal string of eight places, so `DecStr` rounds to the nearest place. The answer
of a call is what the caller keeps until it quotes anew, so a new quote takes the prices made from
the old one with it. Energy per hour and margin are one amount, since the code only adds them.

### Pain

`fallen` and `confirmed` are the memory (`PainState`), `seen` the ladder that the clearing is
given, by the numbers of the rungs in the ladder sent. `notify_count` grows without bound and
nothing depends on it; `notices` is what a round adds to it. A pool that a round does not price
keeps its ema in the caller's hands (`ema`) and has none in `apply_pain` (`Lagged`). An
order without any level skips the call; the call would keep every rung of it.

A level of 0 cents is allowed by the code and is not among the instances: an ema of 0 is at the
level and at its release, so the rung falls back and returns in turns. The fills of a round name
rungs by their number in the ladder that pain has shortened; no document says which number is
meant, so no property does either.

### The pin pull request

A commit is its parent and the two compose files; a file is its pin, the version that its comment
names, and the revision of all the rest. Between any two calls of the script the tag may move,
developers may edit, merge, close, delete the branch, or open a pull request by hand, and the run
may fail. A call that reads several objects by hash (`branch_state`) is one step, because what a
hash names does not change. Runs for one tag exclude each other (the concurrency group of the
workflow), runs for different tags do not; those meet in nothing but the default branch, which
developers move in the model as well, so one tag is enough. A dry run reads and stops, which is
what `Fail` does. GitHub is modelled as the script relies on it: one open pull request for each
branch, no pull request without a branch, merges in three ways.

## Runs

Twelve runs. Ten pass; two show a disagreement between the code and what a document, a comment
or a test says of it (see Findings, which also names the further configurations that are kept
beside these and are run by hand in the same way).

| Run | Module, cfg | Shows |
|---|---|---|
| `realtime_contention` | `MCRealtimeClearing`, `MCRealtimeContention` | 3 orders of 2 or 3 organisations, 2 pools, hours up to 3, share 1/2: supplies, splits, envy, org cap, charges, agreement with the literal loop, the abstract specification |
| `realtime_chain` | `MCRealtimeClearing`, `MCRealtimeChain` | 4 orders chained through 3 pools, every lottery order: displacement that travels, and ends before the pass limit |
| `realtime_scarce` | `MCRealtimeClearing`, `MCRealtimeScarce` | counterexample, finding 1 |
| `day_ahead_block` | `MCDayAheadClearing`, `MCDayAheadBlock` | 3 orders bid at 2 pools: who is sold what, one price for all, refusals stay right, agreement with the literal loops, the abstract specification |
| `market` | `MCDayAheadMarket`, `MCMarket` | boxes with reserves, the day-ahead share, sixteen turns, the upgrade pass |
| `market_tiers` | `MCDayAheadMarket`, `MCMarketTiers` | counterexample, finding 2 |
| `pool_prices` | `MCPoolRounds`, `MCPoolPrices` | moving reserve, cap, hosts, supply, boxes; demand none, half, full, overfull; degraded rounds |
| `pool_boost` | `MCPoolRounds`, `MCPoolBoost` | utilizations around the schedule and its shifted ends; liveness: a busy pool reaches its cap, the boost fades |
| `pain` | `MCPain`, `MCPain` | three ladders with every level; emas at the levels and at the edge of the shipped hysteresis of 5 %; rounds that leave a pool out; liveness: cheap pools bring the ladder back |
| `pin` | `MCPinBump`, `MCPinBump` | one tag, two digests, developers up to 3 commits, who open or close a pull request while there is at most one; liveness: a run that is started again repairs what failed |
| `calls` | `MCRoundCalls`, `MCRoundCalls` | 2 replicas and a library, 2 attempts, 3 rulesets of which two share a timestamp, one publication and one tick between any two steps: what retries, late answers and fallbacks do to prices, rulesets and memory; liveness: a round that was begun is priced |
| `hour` | `MCHourQuotes`, `MCHourQuotes` | machines with and without capital, fees and a fixed fee; loads of 1 to 40 tokens per second: the host nets its machine, tokens pay for the hour |

Bounds. Two pools and three orders are the least with which an order is displaced, displaces
another, and a third is displaced by the org cap; hours of 3 against supplies of 2 and 4 make
splits in both bands. The chain run needs three pools and four orders for a displacement to come
back to a pool that was quiet for a pass. The pass limit is 3 in `realtime_contention`, which cuts
some of its rounds short, so the result is also checked where hours still seek; it is 12 in
`realtime_chain`, where it must not bind, and a round of those books ends before it. The pool runs
have no bound on rounds: prices are bounded by the corridor, the boost by its schedule. The boost
counts in twentieths in `pool_boost` and in tenths in `pool_prices`, where only prices matter,
instead of 1e-8: coarser units make rounding effects larger, not rarer. Shares are such that every
cap is a whole number of hours; with two organisations and a share of one half no bid within the
cap is ever refused, so the books have three. The turns of the market are the sixteen of the code.
In `calls` two attempts are the least of which one may be late and one in time; the clock ticks once,
over the moment at which the third ruleset takes effect, since rulesets change at the boundaries of
rounds and a round under way sees one such moment. This calendar publishes rulesets in the order of their
dates; the code does not demand that (`choose_active` compares dates, and an entry may be followed by one
that takes effect before it), and such calendars are covered by the theorems about rulesets, which hold
for every `EffectiveFrom`, and by no run. (With two ticks and the dates 0, 0, 2, 1, TLC does not end within
the five minutes that every run here keeps to; with the busy hour as the only input it does, and finds
no error.) The pool has two inputs, since `pool_prices` and `pool_boost` have the others. In `hour`
a cent has 4 places instead of 10^6 and a life 7 hours, so that what is rounded away is large; no
fraction of the instances comes out even in all of its roundings.
In `pin` the bounds stop the developers only: three commits allow an edit, a merge and another edit
between the calls of a run.

`CHECK_DEADLOCK FALSE` stands in the configurations of a single call, which ends when it returns.

Fairness. Liveness is checked of four modules. A caller prices a round every 15 minutes, by itself
when the service does not answer: weak fairness of `Next` in `PoolRounds` and `Pain`. Which inputs
come, and whether a round is degraded, is never assumed; the properties state what they need as a
premise (`BusyPoolReachesItsCap` a pool that stays busy, `BoostFades` utilization past the
schedule, `LowPricesRestore` pools that stay cheap). A run of the pin job goes on to its end: weak
fairness of its steps, not of starting it, nor of the world coming to rest; `RerunsRepair` has both
as its premise. The caller of `RoundCalls` goes on with a round that it has begun: weak fairness of
`CallerStep`, its own timeouts, attempts and fallback, and nothing of the service, the network, the
clock or the deployment. The clearings are synchronous calls; that they end is the safety property
`ConvergesBeforeTheCap`.

## What is proved

Proofs hold for every set of orders and pools, every supply, every parameter within the named
assumptions of the modules (`LadderAssumption`, `RealtimeAssumption`, `DayAheadAssumption`,
`PoolAssumption`, `HourAssumption`, `PainAssumption`, `RulesetAssumption`, `CallsAssumption`,
`MarketAssumption`, `PinAssumption`). `PoolAssumption` takes a step of the controller of at most the whole price;
`validate_ruleset` would accept more, and no ruleset has it. Some theorems name one hypothesis more:

- `PostedCoversReserve` (`RoundsKeepThePromise`): no base of a view is below its reserve. The engine
  posts `at_least_reserve`, and `ReserveSafe` proves it of `PoolRounds`. Where it fails the clearing
  drops fills below the reserve and sells less than it holds.
- `InStep` (`RetriesAlwaysAgree`, `ReceiptsAlwaysStand`): see Calls for a round.
- a positive hysteresis and no level of zero (`RepeatsSafe`, `LowRestores`): see `Pain_proofs` below.
- `EffectiveFrom[1] = 0` (`RoundsAlwaysEndPriced`): time is counted from when the first ruleset
  takes effect, as in the run `calls`. The code refuses a round that starts before every ruleset, in
  the fallback as well.
- the boost of `UseAlwaysTakesBoost`: the mode is conditional, the schedule has a width and the
  smoothing is above zero. The loader demands the last only; it also accepts the static mode, whose boost stands,
  and a schedule without width, where the end of the schedule is still the point of the full boost.
- a limit of passes that is not below the hours of a book times its rungs (`PassesEnough`,
  `BlocksConverge`, `StayersKeepInAnyBook`). The code takes the limit from the ruleset
  (`market.max_passes`) and makes no check that it sufficed: what still seeks goes without.
- `InTime` (`StayersKeep`): a clearing of a request that has ended has left no order seeking. It holds
  throughout the run `market`. Where a limit cuts the first clearing short (with 1 or 2 passes TLC finds
  such a request), an order that was still seeking bids again in the upgrade pass, above somebody who
  stays, who then loses the rung held before.

`CommonFacts`. A rank in a strict order of a finite set is smaller than the size of the set, and the
first n of a strict order are n (or all, where there are fewer); what is greatest or first exists. A
sum of hours over a set of chunks is the size of the set of its hours, so that it is moved by a
bijection, split by a partition and renamed by an injection instead of by induction. The hours that a
pool serves are chosen in two bands, those within the share of their organisation first: who is chosen
is chosen again when others leave (`ChoosingAgain`, `LeavingOut`), nobody new fits in where those in
front have not become fewer (`NoRoomForMore`), and whoever held a place keeps it when those in front are
fewer than were served (`MoreByOwner`, `MoreByOwners`, `KeptInFront`). Half-even and ceiling are bounded
from the definition of division.

The loops are the one place where the code computes by a run through a sequence of any length. What
they do is shown without induction: of the turns that would contradict it the least is taken, and
the turn before it decides (`LoopRuns`, `RemainingIs`). A quantity of a chunk stands for a block of
hours, ranked as the chunk is and in one piece (`InBlocks`); what a turn takes of its block is the number of
its hours that have fewer than `room` hours in front of them (`TakesCount`), for one loop
(`RankedTakes`), for the loop of each organisation at its share (`InCapIs`) and for two loops one after the
other (`BandedTakes`).

`RealtimeClearing_proofs`. The inductive invariant is `IInv`: the types, chunks have distinct ids
not above `lastId`, each stands on a rung it can afford, and chunks that are placed and chunks
that seek are apart. Without ids that are distinct, two chunks could be one record and hours would
be lost in a set; without affordable rungs a fill could charge more than the max. From it follow
`SupplyNeverOversold` (the accepted hours of a pool are the first `supply` in a strict order),
`FullStaysFull`, `ScarceOnlyWhenFull` and `ChargesWithinLimits`. Five more arguments rest on it:

- `NoBoxStaysIdle`. The hours of an order on the rungs down to r decrease in a pass only where the
  pool of r was asked for more than it has (`RungHours`: what a pass puts on a set of rungs is what
  it held there and what came to it from above). Such a pool is full after the pass and stays full.
- `RoundsKeepThePromise`, the refinement of `DeferredAcceptance`. `InitIsInit`, `PassIsPass` and
  `SettleIsReturn` map the initial states, a pass and the end. A pass needs that the hours standing
  at each rung move as the abstract pass moves them (`StandMoves`: what was turned away at the rung
  above comes to the next one that can be afforded, and to no other), and that a pool holds the
  lesser of its supply and what stands there (`PoolSum` makes the hours of a pool out of those of
  the rungs). The end needs that a fill is a placed chunk under another name.
- `SharesYield` and `RefusedForGood`, who was turned away and by whom. Both follow from `FairTurns`: at
  a pool that has turned an order away, every hour held ranks above that order, save those of an
  organisation within its share while the order's own has reached its share; and no organisation is above
  its share there while that of the order is below. Ranks alone are not inductive: an hour over the share
  of its organisation may come within it when another hour of that organisation leaves, so the invariant
  speaks of both bands at once.
- `PassesEnough`. Hours only move down the ladder, and what has left the rungs grows in every pass that
  is not the last (`Climb`), so that the hours of a book times its rungs bound the passes.
- `LoopsAgree`. The ids are what makes the order of the chunks strict, so that sorting them means one
  thing; the hours of a chunk that are in the first band are those the loop of its organisation takes
  within the cap (`InCapCount`), and the walk over the slices of both bands takes those that
  `Accepted` has (`GrantedIs`).

`DayAhead_proofs` has the same `IInv`, whose pass differs in which hours are served, and `PriceInv`
for the prices: a price is not below the reserve, whoever holds hours bid at least the price of the
last pass, and the result sells all that is held. The price is the reserve or the bid of an hour
within the cap that found no room (`PriceIs`); that hour is ahead of every hour with a lower bid, so
nobody served bids less (`WinnersBid`). It is above the reserve only where the hours within the cap
are more than the supply, so the pool is full (`RoomInCap`, `ChosenCount`). The hours over the cap
are served only at that price; that they leave no box idle which was asked for is the part of
`ChosenCount` that the refinement, `BlocksKeepThePromise`, needs: where the price is the reserve,
everybody who stands there can pay it, because chunks stand on affordable rungs only.
The bids noted by the first loop are those of the hours that `PriceIs` speaks of (`FirstLoop`), and
both loops then serve the hours that `Accepted` has (`BothLoops`): that is `LoopsAgree`.
`RefusedBidsStay` and `BlocksConverge` have the arguments of real time, with `ClearingFair` for the
invariant: the bid takes the place of the rank, and hours below the price of the pass are in neither
band (`TwoBands`, `ChosenAre`).

The theorems of `DayAheadMarket` are in the same module. `BeginInv`, `PassInv` and `SettleInv` speak
of any clearing that begins with orders and pools of the right types, so they carry over to each one
that a request starts. `MarketInv` adds that no pool holds more than its supply, that the reserves
are those of the offer, that an order bids in the upgrade pass the rung chosen for it and nothing else
(`Asked`), and how that rung compares with the awards before: better than all of them for those who
move up, one of them for the others. `GainsAreReal` and `AgreedTiersArePaid` are then facts of the
step that returns the answer.

`StayersKeep` compares two clearings of a request, so its invariant (`StayersInv`) carries the awards of
the first through the second: `ClearingFair`, and that whoever stays has, after the one pass of the
upgrade, as many hours as it held before on the rung it asks for. The hours asked again at that rung are hours held
before; the others who come there are those who move up, and it had turned them away (`FairlyAt`), so they
rank below whoever held hours there. Fewer hours are in front of a stayer than were held, which was within
the supply (`HoldTheirPlace`). `StayersKeepInAnyBook` replaces the hypothesis `InTime` by the limit that
`BlocksConverge` has.

`PoolRounds_proofs`. `TypeOK` with the bounds of the boost is inductive; `ReserveHolds`,
`WithinCorridor`, `NoBoxBelowItsReserve` follow from what a round makes of any state.
`HostNetsTheFloor`, `EmaFollowsThePrice`, `BoostHeadsForThePlateau` and `ControllerMoves` are action
properties; they rest on the facts about half-even and ceiling. That the boost heads for its plateau needs
its bounds (`BoostWithinBounds`) besides: a step goes towards an end of the range, and the boost is
inside it. The proof made the property precise: the loader accepts a schedule without width
(`u_low` = `u_high`), and there the end of the schedule is still the point of the full boost.
Two more action properties are the measures of the liveness of a pool. `BusyClimbs`: in a full round
of a busy pool the base rises by a cent at least, or it is at its cap (rounding does not swallow the
step where half a cent is less than it, which is part of `Busy`). `UseTakesBoost`: past the schedule a
full round takes a unit at least off the boost, down to what half-even leaves at that smoothing
(`Faint`), and what is faint stays so; `FadeStep` is the arithmetic of it.

`Pain_proofs`. `DearerShowsNoMore` follows from the types: every level that a lower ema is at, a
higher one is at. `RepeatedRoundsAgree` needs more than types: that the memory is what the last
round would make of it once more (`Settled`), which is inductive where the release of a level is
below the level. The theorem assumes that, as a positive hysteresis and no level of zero; the code
accepts both, and the property fails with either (with a hysteresis of 0, or at a level of 0, an
ema at the level makes a rung fall and return in turns). Under the same hypotheses `LowRestores` proves
the liveness property `LowPricesRestore`, from an invariant: a round at emas below every release
leaves no rung fallen and hides none, whatever was remembered before it (`Restored`), so there is
nothing to wait for, and no fairness is used.

`HourQuotes_proofs`. `IInv` says besides the types that the quote in hand is what the code answers
for its machine and boost; without that nothing connects a reserve to the machine it was quoted for.
`HostNetsItsMachine` is then a fact of each form in which the floor travels: a ceiling of the exact
one, of one ceiled before, or of one that lost half a place at most. `TokensCoverTheHour` joins two
ceilings. Products of several unknowns are beyond the arithmetic of the provers, so each step that
multiplies an inequality is a lemma or a step of its own, with the products hidden behind names.

`RoundCalls_proofs`. `CallsInv` adds to the types that whatever is on the wire belongs to the round
under way (`Wired`) and that every answer is the full or the degraded round of the one memory that
was sent (`OneRound`); it is what makes a late or repeated answer harmless. With it the memory
implements `PoolRounds` (`MemoryImplementsRounds`), and the types of that module carry over. For
retries and receipts it takes `DueInv` as well: every process knows each ruleset that is in force
(`InForceIsKnown`, which is where `InStep` comes in), so that all choose the same latest one
(`LatestChosen`), and every answer names the ruleset that was due when the round began (`PricedAsDue`),
also after later rulesets have been published and have taken effect. `RoundsAlwaysEndPriced` counts the
steps that a round leaves to its caller (`Left`: two for each attempt not made, one for the one it waits
for). No step of anybody adds to them, each step of the caller takes one away, and the round is never
given up: the library has the ruleset of its start (`FirstIsKnown`), so the fallback prices it when all
attempts are used up (`LibraryPrices`).

`PinBump_proofs`. `PinInv` says what a run knows at each of its steps: it has read two files before
it reads the head, it has a base once it builds, its pull request is one of its tag and tells its
digest once it is handled, and the branch is what the run means wherever the run has written it or
has found it to be right (`Built`). Commits and pull requests are only added to, so that no step of
others takes it away (`OtherRun`), and a merge builds a new commit (`MergeKeeps`). `CalmRunsAlwaysRepair`
is about runs after the world has come to rest, while stale runs of other tags may still end. `Fresh`
says what a run that began on what is there still knows: the digest, the files and the head it has
read are the present ones, and what it has found out about branch and pull request is so. Each step of
such a run keeps that, never undoes a pin, and ends the run only where the tag is pinned: each way to
its end is a case (`ReadsRepair`, `WriteRepairs`, `PullRepairs`), and a run of another tag touches neither the
branch nor the pull requests of this one (`OtherTag`).

Proved, and in no run: `FullStaysFull`, `ScarceOnlyWhenFull`, `WithinCorridor`,
`BoostWithinBounds`, `EmaFollowsThePrice`, `NoBoxBelowItsReserve`, `BusyClimbs`, `UseTakesBoost`,
`RoundsEndPriced`, `CalmRunsRepair` and the types of `HourQuotes`, `DayAheadClearing` and `DayAheadMarket`.

Only model-checked: four liveness properties under fairness. What a single step does for each of them
is proved, and what is left to TLC is the way from there to "in the end", which takes the fairness of
a step that is enabled and an induction over the measure, both out of the prover's reach:

| checked by TLC | the step that it rests on, proved |
| --- | --- |
| `BusyPoolReachesItsCap` | `BusyClimbs` |
| `BoostFades` | `UseTakesBoost` |
| `EveryRoundIsPriced` | `RoundsEndPriced`, and `Left` is a number |
| `RerunsRepair` | `CalmRunsRepair` |

Every other property of the passing runs is stated by a theorem.

## Findings

Every counterexample was repeated with the code itself, those of the calls (12 and 13) with a third
ruleset dated later than the two that are shipped. Two are runs:

1. `realtime_scarce`: demand counts the first part of an order to reach a rung. Parts that are
   displaced later are not counted, so a full pool that turned paying hours away can report
   itself slack: no tip is charged and the controller sees too low a utilization.
2. `market_tiers`: where a smaller supply makes a price that pays for more boxes, and they make a
   price that does not pay for them, the loop stops after its turns and sells boxes below their
   own reserve.

Further disagreements, each with a configuration whose property TLC finds violated:

3. `MCPainAbsent.cfg`: a round that does not price the pool of a fallen-back rung takes its ema for
   0 and brings the rung back.
4. `MCPinEdit.cfg`: the compose files are read before the head of the default branch; an edit in
   between is taken back by the pull request.
5. `MCRealtimeFlag.cfg`: the org cap flag is that of the last pass.
6. `MCRealtimeShare.cfg`: leftover hours go to organisations over their share, so the public
   sentence "No org may take more than 25% of a scarce pool" does not hold (the wording of the
   repository's README does).
7. `MCDayAheadPrice.cfg`: the uniform price is the highest bid that the *last pass* rejected. A bid
   that an earlier pass rejected does not count any more, and winners may pay less than it.
8. `MCMarketUpgrade.cfg`: the upgrade pass makes lower prices and keeps the supply of the higher
   ones, with the effect of finding 2 although the loop had agreed.
9. `MCMarketStayers.cfg`: an order with hours on two rungs that does not move up bids only the
   better rung in the upgrade pass, and loses the other hours.
10. `MCMarketMovers.cfg`: an order that bids a better rung there, at a price that it could pay, may
   be outbid and is left with nothing.
11. `MCHourUsd.cfg`: a round that is sent `floor_usd` may have a reserve one cent below that of the
    floor that was quoted, because the string is rounded to the nearest eighth place and ceiled only
    after that (`money.py:5`: "Rounding a reserve or a payment never lands below the exact
    reserve"). A machine of 1 kW at a tariff of 0.300000001 is one.
12. `MCRoundRetry.cfg`: a body that names neither a ruleset nor a start is dated by the clock of the
    process (`engine.py:792`), so that the same request, sent again after a ruleset took effect, is
    answered differently; `engine.py:609`, `app.py:12` and the README promise the same response.
13. `MCRoundSkew.cfg`: without `InStep`, a process that has not got the ruleset in force answers a
    body that names a start by an older one, in the round that its neighbours price by the new one.
14. `MCPoolDelta.cfg`: rounding to a cent moves small prices by more than the published 2.5 %.
15. `MCPoolStuck.cfg`: a price of 20 cents or less does not rise however busy the pool.
16. `MCPoolFullBoost.cfg`: after a fall, the schedule begins to fade at 32 %, not at 35 %.

## Plan

1. Done: real-time clearing with its proofs; prices of a pool with their proofs; the day-ahead
   clearing and market; the abstract specification that both clearings implement; pain with its
   proofs; the calls for a round with rulesets, retries and the fallback; quotes of an hour and of
   tokens with their proofs; the pin pull request.
   The theorems that these parts rest on are proved, the refinements of both clearings and of
   the caller's memory among them, every safety invariant and action property of the runs, and the
   steps that the liveness properties rest on.
2. Next, to prove: the supply of a day-ahead block with a share that is a fraction of an hour.
3. Then, to model: the pain of a whole request, where several orders and their numbers of rungs
   meet; a second tag in `PinBump`.

## Not modelled

Parsing, validation and error texts of requests, among them the decimals that a request may not
have; HTTP routing and the comparison of tokens, the echo of the idempotency key; the hash of the
lottery and of a request; the files of the rulesets, their validation and the documents made of
them; totals of fills (`scale_cents`); helpers that nothing calls (the price per million tokens, the
implied hour, the equivalent utilization); the fixtures and the jobs. They keep no state and decide
nothing that the models do not take as an input.
