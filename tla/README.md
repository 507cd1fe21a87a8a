# ORYX backend: specifications, checks and proofs

TLA+ modules of the ORYX backend (the NestJS service of this repository, code
under `src/`), TLC configurations that check them on small instances, and
proofs that TLAPS checks for every value of the constants. `PROJECT.json` maps
every definition to the lines it models.

The service is an API in front of PostgreSQL and Redis. It runs in several
processes, awaits the database between almost any two lines, and uses the
default isolation of PostgreSQL, READ COMMITTED. Nearly every rule of its domain
(one sale per product, one squad per operator, no negative balance, one credit
per payment) is written as *read, check, then write*. The models therefore let
other calls run between a read and the write that relies on it, and ask of each
rule: does it hold anyway (an index, a row lock, a relative update protect it),
or only as long as no two calls meet there? In the first case the rule is an
invariant. In the second it is an invariant with the exact proviso, kept in a
history variable. Section 7 lists where a comment or a document says more than
the code does; for two of these places a run shows the violation.

## 1. Inventory

| Component | State | Operations | What is hard |
|---|---|---|---|
| Wallet (`modules/wallet`) | `wallet_accounts`, `wallet_transactions` | create lazily, deposit, withdraw, `credit`, `debit` | balance against ledger, two spends at once, creation race, 32-bit column |
| Payments (`modules/payments`) | none of its own; ledger lines with an external reference | Stripe and Pagar.me webhooks | at-least-once delivery, crashes, duplicates in parallel |
| Marketplace (`modules/marketplace`) | products, orders | list, edit, remove, order | one transaction over several wallets and products, row locks, deadlocks, resale |
| Auth (`modules/auth`) | users, refresh and reset tokens | register, login, refresh, logout, forgot, reset | rotation against logout and reset, hashing takes long |
| Battle pass (`modules/battle-pass`) | progress, claimed levels, premium | claim, buy premium, add experience | checks on rows read before the transaction, charge and grant apart |
| Cosmetics (`modules/cosmetics`) | owned and equipped cosmetics | buy, equip | one per slot against concurrent equips and acquisitions |
| Events, Teams, Squads (`modules/events`, `teams`, `squads`) | event status, teams, squads, members, leaders | lifecycle, deletion, membership | rules that span rows, checked before by-id writes, cascades |
| Missions, Zones (`modules/missions`, `zones`) | missions of an event, areas | create, change, delete | phase, name and zone are checked before by-id writes, areas under missions |
| Positions (`modules/positions`) | queue, dedup keys, position rows, live snapshot | ingest, process a job | deduplication before the insert, retries, last writer wins |
| Mission engine (`modules/mission-engine`) | progress per mission and operator, engine state | one tick per position | read-modify-write without a lock, out-of-order ticks, repeated publication |
| Anti-cheat (`modules/anti-cheat`) | suspicions, queue of inspections | inspect a fix | retry after a partial failure, clamped times |
| Reputation (`modules/reputation`) | log of entries | record, sum up | entries of a retried inspection |
| Notifications (`modules/notifications`) | rows with a status, queue | create, deliver, retry | row and queue are two writes, failure marks the row before the retry |
| Competitive (`modules/competitive`) | rounds, eliminations | create, complete, cancel, eliminate, correct; scoreboard, most valuable players | "one ACTIVE round" and "only ACTIVE can be changed" against calls in between, joins that multiply |
| Tactical training (`modules/tactical`) | units, instructors, classes, exercises | create, change, delete, assign | who may teach is checked a query before the write, times compared with older times |
| Social (`modules/social`) | friendships, posts, likes, comments | request, answer, post, like, comment | inverse pairs, counters beside rows |
| Referral (`modules/referral`) | codes, redemptions | create a code, redeem | check then insert |
| Operators (`modules/operators`) | profiles | create, patch | unique indexes do the work |
| Ranking, Analytics, After-action review (`modules/ranking`, `analytics`, `aar`) | none | read | joins over squads of several events, keyset cursor under inserts |
| Voice, MQTT (`modules/voice`, `mqtt`) | none | sign a grant | several queries before a grant that nothing takes back |
| Admin (`modules/admin`) | none; rows of other components | remove a product, set a status, resolve | writes by id |
| Realtime, Media, Health, Tactical reports, Deployment | none or sockets | forward, link, probe, render | transport and layout |

**Interactions.** Marketplace, Battle pass, Cosmetics, Referral and Payments call
`WalletService.credit`/`debit`, inside their own transaction (marketplace,
claims) or in one of the wallet's (the rest). Teams and Squads read the status
of their event and are deleted with it. MQTT and HTTP feed Positions; a position
job feeds the Mission engine and Anti-cheat; the engine publishes progress on
Redis, which Realtime and Notifications subscribe to; Anti-cheat changes
Reputation. Rounds, missions, zones and exercises hang on an event; Competitive,
Ranking, Analytics, Voice and MQTT read the roster. All of them meet in the
foreign keys of the schema, which say what a deletion takes along. Admin writes
rows of Marketplace and Operators directly.

## 2. Plan

1. *Money*: `Wallet` with the abstract `AccountBook`, then `Payments` on top of
   it, then `Marketplace`. (done)
2. *Sessions* (`Sessions`), *purchases and rewards* (`Rewards`, `Loadout`), and
   *the field organisation* (`Events`, `Roster`). (done)
3. *The position pipeline*: `JobQueue`, `Positions` on it, `MissionEngine` on the
   ticks of Positions, and `Notifications`. (done) Left: the composition in which
   the engine's messages become notifications, and the abstract specification
   that a mission completes once and is announced at least once.
4. *An event's day*: `Matches`, `Missions` (with the zones), `Training`, `Access`
   (voice and MQTT) over `Events` and `Roster`. (done)
5. *People and conduct*: `Social` (profiles, friends, feed, referrals), `Conduct`
   (anti-cheat and reputation). (done)
6. *Views*: `Standings` (ranking, analytics, the review's pages), and the
   scoreboard in `Matches`, computed by the code's joins and compared with each
   other. (done)
7. *The composition* of parts 4 to 6: `Platform`. (done)
8. *Proofs*: every component has its theorems (section 6); those of parts 4 to 7
   are theorems of the composition, `PlatformSpec`; every invariant that a run
   checks is one of them. Left: the abstract specification of part 3.

## 3. Modules

Calls are model values; each has a phase that says which await it has reached.
One action is one database statement or one transaction, with the code before
and after it that touches no shared state. `Crash` takes a process away between
two steps; the database rolls an open transaction back.

- **AccountBook** is the abstract specification of a ledger: one posting changes
  a balance and adds its line, lines are final.
- **Wallet** (`wallet.service.ts`). `FindWallet`/`CreateWallet` are `getOrCreate` with the
  unique `operator_id`; `WithWallet` is what each call does with the row it got,
  the stale check of `requestWithdrawal` included; `CheckBalance` and `Debit` are the two
  statements of `debit` (its read locks nothing, so others run between them);
  `Credit` and `Withdraw` begin with the UPDATE and are atomic. Balances are
  bounded by `MaxInt`; an overflow aborts the transaction as PostgreSQL does.
  The refinement `ImplementsBook` (`INSTANCE AccountBook WITH ...`) is the wallet's
  promise: with every line goes its change of the balance.
- **Payments** (`payments.service.ts`) EXTENDS Wallet: a delivery is a wallet request that
  first looks for the event's ledger line; an event that is not `Creditable` (no user, or no amount
  at Pagar.me) is acknowledged and has no effect. The providers are external: they
  repeat until acknowledged, may send duplicates at any time
  (`MaxDuplicates`), and handlers die (`MaxCrashes`).
- **Marketplace** (`marketplace.service.ts`) models row locks, private uncommitted changes, rollbacks
  and the database's deadlock detector, because one order writes several
  wallets and products. `ReadProducts` puts the prices it reads into the cart, and everything
  after it goes by these, whatever a PATCH (`WriteProduct`) does meanwhile. `Total`, `Shipping` and `SellerCut` are the code's roundings in
  integers. A transaction that waits takes its lock only when the holder ends.
- **Sessions** (`auth.service.ts`, `auth.repository.ts`). A call creates at most one token, so tokens are named
  by calls; `login` ties a chain of rotations to the login it began with. The
  cause of a revocation is kept next to the fact, to say which rule ended a
  session. `Expire` may happen to any token at any time.
- **Rewards** (`battle-pass.service.ts`, `cosmetics.service.ts` `buy`): what one operator claims and buys in a
  season. `ApplyRewards` is the claiming transaction; `Spend` and the grants are
  separate transactions, as in the code.
- **Loadout** (`cosmetics.service.ts` `equip`): `updateMany` fixes the rows it will write when it starts
  (`StartUnequip`), locks them one by one in any order (`LockRow`), and shows
  its writes at the commit. Acquisitions insert rows meanwhile.
- **CallSlots** is what the services below share: an API process handles calls in
  slots, which bound how many run at once, not how many run. A call is a record
  of what it was asked and of where it is; `about` is what it writes, `heeds` what it
  relies on. When two calls under way write the same thing, or one writes what
  the other relies on, it goes into `contended`, the history variable of the provisos.
- **Events** (`events.service.ts`) EXTENDS CallSlots: `Required` is the status each call insists on,
  `ReadEvent` checks it and `WriteEvent` writes by id.
- **Roster** (`teams.service.ts`, `squads.service.ts`) EXTENDS Events. `ReadSquad`, `CheckEvent`, `ReadMembers` are the awaits in
  their order; each write is an action; `DropTeams`/`DropSquads` are the ON
  DELETE CASCADE of the schema, and a write whose row or parent is gone fails.

- **JobQueue** is what `src/` uses of BullMQ (an external library): a job id is
  queued once, a job has `Attempts` attempts and at most one holder, a worker
  that pauses longer than its lock loses its job to another one and goes on
  nevertheless (`ReleasedBy`, and `FinishedBy` that then decides nothing). A job that stalls more
  often than `MaxStalled` (BullMQ's `maxStalledCount`, left at 1) fails for good.
- **Positions** (`positions.service.ts`, `positions.processor.ts`) EXTENDS JobQueue. The steps of a run are
  `Dedup` (SET NX and the job's start), `Insert`, `Show` and `FanOut`; `EnqueueTick` queues the
  engine's tick under the event, the operator and the adjusted time, so that two
  packets of one instant share a tick. `FailRun`, `LoseLock`, `LoseEnqueue`, `Expire`, `Purge`, `Fade` are what can go wrong.
- **MissionEngine** (`mission-engine.service.ts`) EXTENDS Positions. `TakeTick`, `FindProgress`, `Upsert` and `Publish` are the
  awaits of one tick, repeated for each mission that has something to say
  (`Decides`, for missions of the packet's event); `Cumulate` and `Complete` are what they write. `FailTick` and `LoseTick` end an attempt between
  any two of them. Which packets lie in a zone is a constant.
- **Notifications** (`notifications.service.ts`, `notifications.processor.ts`, the listener) EXTENDS JobQueue: row, job,
  the devices an audience has by then, the push, the pruning of dead tokens, and
  the settling of the row are separate steps, with registrations between them.

`Positions`, `MissionEngine` and `Notifications` share one kind of bound: `Fault` counts everything that goes
wrong, and `MaxFaults` says how often it may.

- **Matches** (`competitive.service.ts`) EXTENDS Roster: `AskRound`, `FindActive`, `FindLatest`, `CreateRound` are the
  awaits of a new round, and likewise for updates and eliminations. The unique
  index on event and number is in `CreateRound`, the one on round and victim in `Eliminate`.
  `TeamRow` and `PlayerRow` are the joins of the scoreboard, `Ahead` the order of the most
  valuable players.
- **Missions** (`missions.service.ts`, `zones.service.ts`) EXTENDS Events: both services' handlers have one
  shape, so both are "places". `CheckPhase`, `CheckName`, `CheckZone` in the code's order, `WritePlace` with
  what the indexes and foreign keys refuse.
- **Training** (`tactical.service.ts`) EXTENDS Events: units with their instructors, classes,
  exercises; `CheckAssoc` and `CheckDrill` stand between the first read and the write.
- **Access** (`voice.service.ts`, `mqtt.service.ts`) EXTENDS Roster: the queries before a grant, and the grant.
- **Standings** (`ranking.service.ts`, `analytics.service.ts`, `aar.service.ts`) EXTENDS Roster and Missions: each view is an
  operator that follows the rows its joins produce; `ReadPage` is one page of the
  review, `StoreFix` a fix that arrives between two pages.
- **Social** (`social.service.ts`, `operators.service.ts`, `referral.service.ts`) EXTENDS CallSlots. What is one insert or one
  transaction is one action.
- **Conduct** (`anti-cheat.service.ts`, `reputation.service.ts`) EXTENDS JobQueue: the three detectors in whole seconds and
  metres, the inspection job with its inserts and penalties, failures between
  and among them, and the score.
- **Platform** composes Matches, Training, Access, Standings, Social and Conduct
  (and below them Missions, Roster and Events). A step of one is joined with the
  cascade of the others (`MatchCascade`, `PlaceCascade`, `TrainingCascade`, `StandingCascade`), which is where
  the schema connects them. A behaviour plays one of the `Scenes`: which services
  (`parts`), which calls, about whom (`cast`), and how many at once (`slots`). A scene
  restricts what clients ask, never what the code does with it.

The `MC*` modules only give constants their values. Operators called *Mutant of
X* in the modules are wrong variants of a definition; each property is shown
to fail under one of them at least.

## 4. Runs

| Run | Bounds | Shows |
|---|---|---|
| `wallet` | 3 users (1 without profile), 3 calls, amounts 1-2, column limit 3 | the wallet refines the account book, only overlapping spends overdraw |
| `payments` | 5 events, 4 deliveries, 2 duplicates, 1 crash | sequential replays credit once; acknowledged means credited; every payment of an operator is credited in the end |
| `payments_race` | 1 event, 2 deliveries | parallel deliveries credit twice (finding) |
| `marketplace` | 3 users, 2 products, 2 orders, 1 edit at a time, 3 patches | orders are all or nothing, no lost increments, rounding never costs the platform, a double sale needs two open transactions or a relisting, crossing orders are answered |
| `sessions` | 2 users, 2 passwords, 4 calls | one live token per session, never none after a crash; logout and reset end sessions |
| `rewards` | 3 calls, 3 levels, 3 cosmetics | wallet, levels and goods add up, charges are granted; a level is paid out and a cosmetic is charged twice only if calls overlap |
| `rewards_forfeit` | 1 call | a premium reward forfeited instead of refused (finding) |
| `loadout` | 3 cosmetics, 2 of a kind, 3 equips | one equipped per kind, a slot never becomes empty, every equip is answered |
| `roster` | 1 event, 1 team, 2 squads, 1 operator, 2 slots | the event's lifecycle and locked footprint; one squad per event, leaders are members, DISBANDED is final, an ended event's roster is frozen; each unless two calls meet |
| `pipeline` | 3 packets of 1 operator, 1 event, 2 missions, 2 workers, 1 fault | a position is recorded once and tracked; completions are final and announced; added seconds are the time inside |
| `notifications` | 1 notification, 2 devices, 2 users, 2 workers, 2 requests, 2 faults | pushed once, a finished job has settled its row |
| `platform` | 25 scenes, 2 events, 3 teams, 3 squads, 3 operators, 1 instructor, 2 slots | rows keep their parents through every deletion; one ACTIVE round, results and ground that stay, lessons by the unit, grants that follow the roster, friends, each unless the subject was in dispute; views agree; pages miss only ties; the honest are not punished |

**Why these bounds are enough.** The races are between two calls on one row, so
two of a kind show them, and a third shows whether a proviso about pairs covers
chains of calls. Amounts 1 and 2 distinguish "enough for one, not for both";
`MaxInt = 3` puts the overflow within reach. Two products of two sellers and
buyers who are sellers give opposite lock orders; a third user tells buyer from
sellers; a PATCH lists a product again or lowers the price of the helmet, so that an order may pay what
it read before. Four session calls are a login, a refresh, a reset request and a reset, the
longest story the properties speak of. In Roster the number of
calls is unbounded; two slots are two calls at once, `Asked` and `Patches` are the requests
its clients make. The patches of Marketplace leave out DRAFT and EXPIRED, which the code
treats like REMOVED. Of the events of Payments, one names nobody, one a user without a
profile, and one of Pagar.me no amount. The deliveries of Payments take the request identities in
one order, since nothing depends on which is which. The three packets of the
pipeline are an arrival, a stay and a departure, the last one with a clock that
the server overrules; a zone to hold for as long as the stay and a window that the
arrival misses make every rule both apply and not apply. Two workers per
queue meet on one row; one fault reaches each single failure at each step, and
the theorems below cover any number, and any number of events where the run has one.
Notifications has two faults because a retry can fail as well, and a job that stalls
twice is not tried again; of the two devices one (`Movable`) changes hands meanwhile.

In `platform` the scenes add up instead of multiplying: each one brings together a
call and what it may race with, the deletion, the end or the activation of what
it relies on, and its own like. Scenes with one slot tell long stories, those
with two let calls meet. `MaxRounds = 2` lets a second creator find a number free or
taken, and `MaxOut = 3` gives a player a kill, a death, and a second death in another
round. An operator is in squads of two events, as the joins must cope with. The
fixes of Conduct have one that arrives late and is clamped, a fast one, and a mocked
one; `MaxFailures = 1` fails each insert and each penalty. `PageSize = 2` with two
operators and three times makes ties fall within a page and across its end. Ids
of deleted rows are not used again.

Symmetry is declared only
on interchangeable identities of calls (and slots, users), and never in runs with
liveness.

`CHECK_DEADLOCK FALSE` stands in the runs whose calls are each made once: when all
are answered, the modelled system is at rest.

## 5. Fairness

- Marketplace and Loadout: weak fairness on each transaction's next step. A
  statement that is not blocked is executed, and the database resolves a
  deadlock after its timeout; nothing promises that a *blocked* one proceeds, so
  the steps are guarded by the locks.
- Payments: weak fairness on every handler, and on the provider's repetition of
  an unacknowledged delivery. Both providers document retries; crashes are
  bounded, so some attempt is left alone. Nothing is assumed about duplicates,
  nor about events of users that have no profile: their handler fails each time.
- The pipeline and the notifications are checked for safety only: a queue that
  is paused, or a Redis that stays away, may stop them, and the code relies on
  nothing that would rule it out. Roster and Platform have no liveness either:
  their calls end by themselves and promise nothing after that.
- No fairness is assumed of clients, edits, crashes, expiry or acquisitions.

## 6. Proofs

All theorems hold for any sets of users, calls, products, cosmetics, packets,
missions, devices and workers, and any number of crashes and faults. Each
module's type invariant is a theorem; most are not listed in its run, because
the theorem says more.

- `LedgerProofs` (about Wallet and Payments together): `TypeCorrect`. `OverdraftTakesARace`, by the invariant `Covered`:
  a user outside `overlapped` has at most one call between check and decrement
  and a balance that covers it; a credit can only raise the balance, so a
  check stays valid until the one decrement. `WalletImplementsBook`: the initial
  state maps to an empty book, and each step is one posting or a stutter; it
  needs that a request with a line is done (`LinesAreFinal`), for otherwise a
  second posting could rewrite the line.
  `PayTypeCorrect`. `PaymentsUseWallet`, each step of the payments is a
  step of the wallet or leaves it alone. `ReplaySafeUnlessRacing`, by two invariants: a
  ledger line carries the event its delivery was for, and an event that is not
  racing has at most one running handler, which found no line. A handler that ends
  keeps its line, so the next one finds it. `AcknowledgedMeansCredited`, by `AnswersKept`: each answer
  a provider takes for an acknowledgement was given for a line that is there, and
  lines stay.
- `SumProofs` is about sums over finite sets: that `SumOver(g, S)` does not depend on
  the order of the summands, and what becomes of it when an element is added,
  removed or changed. Induction over a set is out of the prover's reach as a rule
  with an operator parameter, so each lemma argues by a smallest counterexample
  instead (`Smallest`): the inclusion of the subsets of a finite set is well-founded, so
  the sets for which a lemma fails have a minimal member, and taking an element out
  of it gives the contradiction. `MapThenSumSet` and `SumFunction` of the community modules pick a function by
  an equation; `SumTableUnique` says that whatever satisfies the equation is the sum. A second part has
  sums and sizes by key, the pairs of a join counted from both sides, and the first of a finite ordered set.
- `RowLockProofs` is about the two services whose transactions lock rows one after
  the other, each by itself.
  Marketplace: `TypeCorrect`. `SoldOnceUnlessContested`, by `SaleInv`: for a product
  neither contested nor relisted, at most one open transaction holds it, and once a sale
  is committed the status is SOLD and nobody holds it. `CutWithinSubtotal` bounds the
  rounded seller cut for every price. `WalletsAddUp`, by `BooksInv`: what a transaction
  has pending for each wallet is the cuts of the rows it has gone through (`Credited`) less
  its bill; its rows are the products of its cart, each once (`RowsAreTheCart`), so that
  at its commit it has credited the whole cart, and `CartAddsUp` bounds the cuts by the bill.
  Loadout: `LoadoutTypeCorrect`. `OneEquippedPerSlot`, by `SlotInv`: a transaction that reaches its
  commit holds the lock of every row of its kind (`RowsCover`), unless the kind
  has grown; two such transactions cannot both be there. `SlotNeverEmptied`: the rows a commit
  takes off are of the kind of the one it puts on (`RowsAlike`).
- `SessionsProofs`: `TypeCorrect`, which also says that a token's session began with a
  login that made a token. `RotationIsAtomic` and `LogoutIsFinal` from `Alone`: in a session that is not contended
  at most one call is past its check, at most one token is live, and the two are the same. `ResetReachesSessions` by following a password
  through the three states in which a reset could miss it: a call that is
  opening a session, one that is continuing it, and a live token. `ResetTokenIsSpent`, by `Rivalry`: two resets past
  the check of one token were both past it before either wrote, which marks it.
- `PlatformProofs`, first part (about Events and Roster together), for any number of
  events, teams, squads, operators and calls at once: `RosterTypeCorrect`, `OneSquadPerEvent`,
  `LeaderIsMember`, `EventLifecycle`, `OverIsFrozen`. None of them is inductive, because a call writes on
  the strength of what it read some steps ago. `RosterInv` adds what connects the two:
  `Rivals`, that two calls under way that are in each other's way are on record in
  `contended`; and `Facts`, that what a call past a check relied on is still so unless it
  is contended: the event has the status the call insists on (`EventFact`, `PastFact`), the
  squad is not disbanded (`SquadFact`), the one promoted is a member and the one
  removed leads only if the call knows (`LeadFact`), the one who joins is in no squad of
  the event (`JoinFact`). A step keeps the facts of every other call because, were it
  to touch them, `Rivals` would put them on record.
- `PlatformProofs`, second part (about the Platform and every module below it), for any
  scenes, rows, people and calls at once. `PlatformInv` is the conjunction of `RosterInv`
  and one invariant per service; each service's steps keep its own (`MatchInvNext`,
  `PlaceInvNext`, ...), the cascades that a roster step brings with it keep those of the
  others, and `PlatformInvNext` puts them together. The services share the slots, so
  `Rivals` is proved once for all of them: what a call is about and what it relies on is
  fixed when it begins, and whoever gets in its way is on record.
  - `EveryRowHasParents`: foreign keys and cascades, for instance that an exercise's class, its
    unit and its event exist. `RosterHoldsInPlatform`, `LifecycleHoldsInPlatform` carry the first part over.
  - `OneActiveRound`: a call that found no ACTIVE round still finds none when it writes;
    `ResultIsFinal` by the same facts about what an update and an elimination read.
  - `GroundIsKept`: the phase that `CheckPhase` saw is that of the event at the write.
    `ClassTimesInOrder`: the row a patch was compared with is the row it is written over.
    `TaughtByTheUnit`: the assignment is still there. `GrantsFollowTheRoster`: so is the squad of a grant.
  - `PagesMissNothingElse`: everything after the cursor and nothing before it is still to come; a fix
    that arrives behind the cursor, or shares its time, is the exception.
  - `FriendsOnce`: an inverse pair needs two requests under way at once.
  - `HonestNeverPunished`: a speed between two unclamped fixes is below every threshold, over windows of any
    length, and an inspection in progress has no grave hit on its list.
    `AuditExplainsPenalties`: what an inspection is about to punish is recorded as a suspicion.
- `ViewProofs` (about the Platform, on top of `PlatformProofs`): `ViewsAlwaysAgree`. The views are functions of
  the rows, so the state need only be well typed (`RosterTypeOK`, `MatchTypeOK`, and that the eliminated are
  operators, `VictimsKnown`); the work is in the joins. A view that joins two tables counts pairs, another one
  adds up what each row counted: `CountPairs` of `SumProofs` says that both are the same number, `SumByKey` and
  `SumRenamed` carry it from ranks to rows and from squads to teams, `SumOfSome` leaves out who has nothing.
  - `TeamKills`, `TeamDeaths`, `SurvivorsAddUp` for the scoreboard. `BestOfTheRound`: the order of the event's rows and that of
    the round's killers are one order (`Better`), total because callsigns are unique, and so have the same first (`OneIsBest`).
  - `SquadPointsAddUp`, `TeamPointsAddUp`, `RankedAreAnalysed`, `SquadCompletedElsewhere` for ranking and analytics: an operator in squads of
    several events has a row in each of them, and in no other. `CompletionsAddUp` for the export.
- `PipelineProofs` (about Positions and MissionEngine together):
  - `RecordedOnce`, by `FirstRecording`: a packet without a key is in nobody's hands and has no
    row, and whoever is about to insert it is alone. `ShownIsRecorded` follows from the
    order of the two writes.
  - `CompletionEarned` and `CompletionFinal`, by `GoodRow`: a row is dated exactly when it is completed, by a
    recorded position sent for that event, inside. It needs that an uncompleted zone is *below* its target:
    only then has the tick that reaches the target gained time, and a tick gains
    time only inside.
  - `EngineTypeCorrect`, by `JobInv`: a job that is not over has an attempt left, and its holder
    works on it. Every argument about retries rests on this.
  - `AcceptedTracked`, by `Tracked`: a packet with a key is held by a worker or has both its row and its tick.
  - `DoneIsCounted`, by `WorkerCounts`: what a tick speaks to is on its worker's list or counted.
  - `CompletionAnnounced`, by `Promised`: a completion nobody has announced was dated by a tick that is being
    published right now, that will be taken again, or whose holder has the
    mission still on its list. This is why the code may publish an already
    completed row again, and why it must.
  - `SecondsAddUp`, by `Accounts`: the seconds of a row are the sum over the visits of the positions that wrote
    it, and it remembers the last of them if that was inside. A later position adds at most one visit, with the last
    one before it (`VisitsGrow`); the same position, retried, adds none, because no two
    ticks in the queue have the same event, operator and time (`OneTick`).
- `OnceProofs` is about what may be asked for or tried again and is given once, in two services that share nothing else.
  Rewards: `TypeCorrect`. `RewardedOnce` and `PaidOnce` follow the calls that are past their
  check: unless two overlapped there is one, and no reward or charge is there
  yet. `NothingIsGivenAway` relates what is owned, claimed and premium. `NothingLost`, by `Purse`: every step
  adds one bonus or one cost to the two sums that the balance is made of, or leaves the three
  alone; what is due to a claim does not change once it is applied, since what it read is kept.
  Notifications: `NotificationTypeCorrect`. `PushedOnce` and `SentMeansReached`: a worker has its notification to itself unless it
  is `cut`, so that what was pushed is what it has in hand. `DoneMeansSettled`: a job is finished only by
  the worker that settled its row. `RemovedByOwner`: a request that found its user's device still finds
  it unless the token is `retaken`.

Some of these theorems have no property in a run: `ResetTokenIsSpent`, `NothingIsGivenAway`,
`ShownIsRecorded`, `CompletionEarned`, `DoneIsCounted`, `SentMeansReached`, `RemovedByOwner`. TLC checked each of their properties before
it was proved; the proof says more than a run, and the run's time went to
properties that have none.

**Model-checked only.** Liveness, since fairness and ENABLED are outside the prover:
`EventuallyCredited`, `EveryOrderAnswered`, `EveryEquipAnswered`.

**Assumptions on constants** are the named ASSUMEs of the modules: prices, levels
and times are natural numbers, targets are positive, attempts are at least
one, points are not negative (`missions.dto.ts`), sets that are summed over or counted (the users, products and
orders of Marketplace; the events, squads, missions and operators of the views) are finite, callsigns are unique as in the schema,
scored events are events, manual reputation entries have the kinds and
severities of `reputation.dto.ts`, the state in which Platform starts (`StartConstants`) obeys the
rules that the code checks and the keys of the schema, the placeholder values (`None`, `Nobody`, `NoRef`, ...) are no members of the sets they stand
outside of. Each is evaluated by a run.

**Assumptions.** PostgreSQL executes a single statement atomically, gives READ
COMMITTED reads, holds row locks to the end of the transaction and breaks
deadlocks; unique indexes and foreign keys hold. BullMQ keeps a queued job,
does not queue a kept id again, and gives a job to one worker at a time while
locks last. Redis executes one command atomically.

## 7. Findings

Two runs expect a violation of what a comment of the repository says;
`PROJECT.json` quotes the line.

- `payments_race`: "replay-safe via externalRef" holds for sequential replays only.
- `rewards_forfeit`: a premium reward is skipped silently instead of refused.

The provisos of the other invariants say what else two calls at once can do, and
each was seen in a counterexample when the invariant was stated without it:

- overlapping spends overdraw a wallet; overlapping orders sell a product twice,
  and so does one whose SOLD was overwritten by an edit or that was removed and
  relisted; overlapping claims pay a level twice, overlapping purchases charge
  a cosmetic twice;
- a refresh or a login that was under way during a reset keeps its session;
  two refreshes of one token fork the session;
- a cosmetic acquired during an equip ends in a shared slot;
- an ended event is reopened by a late activation, an operator ends in two
  squads of an event, a leader outside the squad, a disbanded squad active again;
- a position whose insert failed is lost, because its dedup key is already set
  when the job is tried again (`broken`);
- two workers on one progress row undo a completion (`overlapped`), and a completion
  that a stale row overwrote and a later tick restored may stay unannounced; a
  tick that was overtaken sets `lastInsideAt` back, and the interval counts twice (`misordered`);
- a worker that is cut off between the push and the settled row lets the next
  one push again (`cut`); an unregistration removes a device that changed hands since
  its check (`retaken`);
- two creators of rounds leave two ACTIVE (the second read its latest number after
  the first had written), a round that was cancelled meanwhile is completed, and a
  player is eliminated in a round that is over;
- a mission or an area is written into an event that ended, or deleted from one
  that was activated;
- two updates of a class leave it ending before it starts; an instructor who is
  unassigned during a call still writes it;
- a voice or MQTT grant is signed for a squad the operator has just left;
- two operators who ask each other at once have two friendships, one of which may
  be blocked and the other accepted;
- fixes that share their time may fall between two pages of the review: more
  than the "single dropped row" of `aar.service.ts:165` if three or more share it;
- a phone that was out of reach sends its backlog; what is older than five
  minutes gets the time of arrival, so that a long way seems covered at once, and
  costs an honest operator reputation (`Clamped`); an inspection that is retried
  records its suspicions and penalties again (`runs`).

Some hazards no property speaks about, because the code promises nothing there: a
withdrawal stays PENDING, as nothing in the repository settles it; a second
purchase of the premium pass is refused only by a check on an older row; a user
may hold several reset tokens at once; the listener creates one notification per
message, so a completion that was published twice is notified twice; a
notification whose process dies before it is queued stays PENDING.

Where the code does something else than its reader might expect, the models
follow the code:

- `missions.dto.ts:32` describes "continuous occupancy" for CAPTURE, where the engine adds
  up visits.
- The live snapshot is written without comparing times, so the last writer wins.
- The squad and team rankings count completions of a member in *any* event
  (`ranking.service.ts`, `COUNT(mp.id)`), though the views are "scoped to a single event"; the points are
  the event's. `StandingsAgree` states the one-sided relation.
- "An operator who is in a squad of a different event still appears" says the comment
  at `ranking.service.ts:34`; the WHERE clause at line 67 drops who is only in others.
- `issueForUser` of MQTT takes any membership the query finds first (`mqtt.service.ts:43`), so that an operator
  who is also in a squad of another event may be refused.
- A PATCH of a round without a status sets any team as its winner
  (`competitive.service.ts:110`), the event of the team is looked at for COMPLETED only.
- A spatial mission is created with an area, but loses it when the area is deleted.
- `likePost` catches the unique violation inside its transaction, which PostgreSQL has
  aborted by then, so the second like ends in an error instead of an answer; no row
  changes either way.
- `resolveSuspicion` of Admin writes columns that `cheat_suspicions` does not have; the reward of a referral is
  never paid (a TODO at `referral.service.ts:27`).

## 8. Not modelled

The components that `PROJECT.json` lists as not modelled have no rule over state of their
own: the rest of Admin (lists, and a status that no service reads), the CSV and PDF
reports, the Realtime gateway (its lost messages are part of MissionEngine), media
links, health probes, configuration, deployment. Inside modelled components:
text fields, paging other than the review's, the LIMIT of the rankings and the filters
of `getPositions`, the moment between the queries of one Prisma `include` (`AskVoice` and
its like read squad, team and event at once), the deletion of a zone that a mission of the
engine stands on (`Inside` is a constant), unique names of teams and squads,
a PATCH of a team's looks, the containment of a point in a zone (PostGIS), the
timeline of the review (formatted rows), the wording of notifications and the
stub mode that only marks them, how long BullMQ keeps finished ticks and
inspections, access tokens (stateless), e-mail verification (its tokens are created
nowhere) and identity verification (one insert nobody reads).
