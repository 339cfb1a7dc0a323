# TSION Market backend: TLA+ models, runs and proofs

The repository is the backend of TSION Market: a TypeScript server over one
MySQL database, with timers (workers) in the same process that may run in
several instances at once. Almost everything it must get right is of one form:
several requests, workers, webhooks and clients move the rows of one table
towards an end, and any of them may be late, repeated, or die in the middle.
These modules state what must hold then, check it with TLC on small instances
and prove part of it with TLAPS for all of them.

Paths below are relative to the repository's root (`src/` of this directory's
parent), so the code of the server is `src/...` there.

## 1. Inventory

| Component | State it keeps | Operations | What is hard | What makes it correct |
|---|---|---|---|---|
| **Arcade rounds and stakes** `arcade/RoundRepository, StakeRepository, lastMan, ArcadeWorker` | rounds, entries, moves, balances, ledger, settlements | open, join, commit, sweep (start, abort, resolve), refund, pay out, verify | commits race the deadline, two workers sweep one round, a crash in the middle of a batch | every stake is in escrow, returned, or in one pot paid once; the winner played; nothing finished changes; due rounds advance |
| **Arcade limits** `arcade/ArcadeLimits` | limits and self-exclusion of a user | set, exclude, assertMayJoin | counts read from the snapshot of the join; read, merge, write | joins and saves one after the other keep every limit and exclusion (overlapping ones do not) |
| **Arcade deposits** `arcade/DepositWatcher, DepositIntentService` | cursor, deposits | scan, record, credit | two watchers, crashes, transactions a node cannot give yet, more than a scan lists | a transfer is credited once, to the owner of its sender; the cursor passes none that was seen |
| Arcade catalogue `arcade/ArcadeRepository` | none | list | - | - |
| **Chess** `arcade/ChessRepository, chess, ChessWorker` | matches, versions, clocks, draw offers | invite, accept, move, resign, offer a draw, sweep | old boards in browser tabs, the sweep, two clocks | a move is made on the board it was meant for; clocks add up; a draw needs both; matches end |
| **Payment lifecycle** `payments/onswitch/repository, journeys, worker, payments, webhook` | quotes, operations, webhook events, leases, attempts | quote, create, initiate, refresh, bind and link a transfer, confirm, poll, webhooks | ambiguous posts, webhooks out of order, lapsed leases, ceilings, prices that move | one post per payment, one payment per quote, the cap, moves along the graph, instructions on the reviewed terms, every payment ends or is put before a person |
| **Payment catalogue**, client, secrets `payments/onswitch/catalogue, client, service, secureData` | cached provider data, loads under way | fetch, fall back | shared loads, older answers that overwrite newer ones | what is called fresh is recent; what is known is fallen back on |
| **Wallet transactions** `transactions/*` | transaction records | submit, reconcile, list | crash between claim and broadcast; stale batch; failed look-ups | one broadcast per transaction; the chain's verdict or none; look-ups end |
| **Trading, withdrawals** `trading/*` | quotes, intents | quote, build, simulate, withdraw, pay | awaits between look-up and insert, repeated and raced keys | one intent per key; one transfer per payout |
| **Authentication** `auth/*` | users, credentials, challenges, sessions | verify, log in, rotate, log out, reset, change the password | rotation retried, a reset against a log-in in flight | one working token per family; a session does not outlive its password; guesses are bounded |
| E-mail `auth/EmailService` | none | send | - | - |
| **Wallet ownership** `portfolio/Ownership*` | challenges, owners, answers by key | challenge, register | two registrations at once, challenges presented again | an owner has signed, with a challenge used once |
| Portfolio, valuation `portfolio/*` | snapshots | read balances and prices | partial failure of networks | - |
| RPC manager `portfolio/RpcManager` | cooldowns | request | all providers down | - |
| Markets `markets/*` | candle caches, registry | read, refresh | concurrent refresh | - |
| **Social floor**, profiles `social/*` | posts, replies, likes, counts; follows, reports | post, reply, like, remove | locks taken in two orders, repeated likes | stored counts are those of the rows |
| Database access `db/*` | pool, schema version | transaction, migrate | - | a transaction commits whole or not at all |
| Settings, HTTP interface, process start and stop, configuration, logging, metrics, schema | - | - | - | - |

In bold: modelled, in whole or in part.

How they interact. Requests call one repository operation inside one database
transaction (`db/transaction.ts`), which locks the rows it decides by; workers
run the same operations on a timer. Arcade deposits credit the balances that
arcade stakes spend, through one ledger. A payout (off-ramp) asks
withdrawals for a transfer intent, wallet transactions broadcast and confirm
it, and the payment worker links the confirmed transfer and tells the provider.
Wallet ownership decides whose deposit a transfer is and who may build intents.

`PROJECT.json` lists every component with its status, and under `hazards` what
is hard to test, each at its line.

## 2. Plan

Every row is done; the later ones were ordered by what the code puts at risk,
money first.

| # | Modules | Composes |
|---|---|---|
| 1 | `LastMan` (the tick rule), `StakeEscrow` (abstract), `ArcadeRounds`, `ArcadeRounds_proofs` with `SumTheorems` | LastMan; refines StakeEscrow |
| 2 | `PaymentStatus` (the graph), `PaymentOperations`, `PaymentOperations_proofs` | PaymentStatus |
| 3 | `TransferPromise` (abstract), `TransactionLifecycle`, `TransactionLifecycle_proofs` | refines TransferPromise |
| 4 | `ArcadeLimits` | the join of ArcadeRounds, under snapshot reads |
| 5 | `WalletOwnership`, `ArcadeDeposits` | ArcadeDeposits extends WalletOwnership |
| 6 | `AuthSessions` | - |
| 7 | `ChessMatches` | - |
| 8 | `TransactionIntents`, `PaymentTerms`, `PaymentCatalogue` | what rows 2 and 3 leave out of a payment |
| 9 | `FloorPosts` | - |
| 10 | `MCServices`, `MCWorkers` | the modules of rows 4 to 9; the workers of rows 1, 2, 3 and 7 |
| 11 | `ArcadeServices_proofs` (rows 4, 5, 7), `AccountServices_proofs` (6, 9), `PaymentServices_proofs` (8) | one module of theorems for several components |
| 12 | `Services_proofs` | `MCServices` and row 11: the composition |

What a continuation would take up: an abstract specification of a payment that
`PaymentOperations` implements; the two halves of a payment (`PaymentOperations`
and `PaymentTerms`) over one table; reports and blocks of the social floor.

## 3. How the modules stand for the code

**The unit of a step.** A transaction that takes a row lock first and decides
by what it then reads is one action: nothing another process does can come
between, and a transaction that fails or dies rolls back and is no step. Where
a transaction reads without a lock and writes later (`commit` of a move), or a
request makes several transactions and calls (a payment's journey, a worker's
claim, call and record), each piece is an action of its own and what was read
is kept in a variable until it is used.

**Time** is what the guards can tell. A tick's deadline is before, at or past
now; the join window is open, past for the database only, or closed; a lease is
in force or over. Nothing relates two timers to each other, so every order the
clock allows is covered, and some it does not.

### 3.1 Arcade: `LastMan`, `StakeEscrow`, `ArcadeRounds`

| Variables | In the code |
|---|---|
| `status, terms, window, tick, clock, winner` | columns of `arcade_rounds`; `window` and `clock` stand for `joins_close_at` and `tick_deadline` against now |
| `seat, outAt` | `arcade_entries.status`, `eliminated_tick` |
| `moves` | `arcade_moves` |
| `available, escrowed` | `arcade_balances` |
| `ledger, house, deposits, credits` | sums over `arcade_ledger`: a player's rows for a round, rake rows of a round, deposit rows |
| `settlement` | `arcade_settlements`, one row per round by its key |
| `commit` | a `commit` that has read and not yet inserted |
| `sweep` | what is left of a worker's batch |

Actions: `EnsureOpenRound`, `Join`, `CommitRead` and `CommitInsert` (or
`CommitLost`), `SweepDue`, then for each round of the batch one of `AbortShort`,
`Start`, `ResolveNone`, `ResolveWin`, `ResolveOn`, `AdvanceStale` (the guard
under the lock finds nothing to do) or `AdvanceFails`; `Crash`; `Credit`;
`WindowLapses`, `ClockRuns`. Amounts are integers in base units, as in the code.
`LastMan` is the rule of one tick (`resolveTick`): who is silent is out, and of
the others the minority stays; all of them stay when there is no minority.

`StakeEscrow` is what the stakes promise without ticks, sweeps, seats or
balances: a pact opens, takes members while there is room, is held if there are
enough, and is either returned whole or paid, once, to one member less the rake. `Pacts` in `ArcadeRounds` is the
refinement mapping and `EscrowIsImplemented` the property.

Left out: the account gate and the limits of `assertMayJoin` (any join may also
be refused, which removes behaviours and no state; the limits are `ArcadeLimits`),
the limit of 50 rounds a sweep takes (an instance has fewer), and
the views.

### 3.2 Payments: `PaymentStatus`, `PaymentOperations`

`PaymentStatus` is the graph of `payments.ts`, word for word. `PaymentOperations`
is one user's payments, named by idempotency keys. `row[k]` is what the code
decides by of a `payment_operations` row; `consumed` is `payment_quotes.consumed_at`;
`request` is where an HTTP request is between its transactions and its call;
`job` is a worker with a claimed row; `event` is each webhook event from the
provider's sending to `processed`; `remote` and `posts` are the provider's side.

- Start: `RequestReads`, `CreateOperation` (under the lock of the user: cap and
  quote), `BeginInitiation`, `PostInitiate` (taken with any first word, lost either way, rejected),
  `CompleteInitiation` or `RecordInitiationFailure`; `RequestEnds` at any point.
- `RefreshAsk` and `RefreshApply`; `DraftTransfer` and `BindTransfer`.
- Provider: `RemoteMoves`, `Deliver`, `ProcessEvent` (in any order, once each:
  the digest of the body is a unique key), `TransferConfirms`.
- Worker: `FindTransfer` and `LinkTransfer`; `ClaimConfirm`, `PostConfirm`,
  `RecordConfirm`; `ClaimPoll`, `AskStatus`, `RecordPoll`; `WorkerDies` between
  any two; `LeaseLapses` and `ConfirmLeaseLapses` also while the holder works.

Abstractions: a worker holds one claimed row at a time (the code claims a batch
and then works through it in order; two workers give the same interleavings on
one row); attempts saturate at the ceiling, where no guard tells them apart;
a status outside the table is the word UNLISTED; `AskStatus` takes the answer of the
call together with the look at the claimed row that decides whether it can be
used. The transaction of a transfer is one external step. Retry times and
back-off are a poll that is due whenever it is not leased.

### 3.3 Wallet transactions: `TransferPromise`, `TransactionLifecycle`

`intent[i]` is `transaction_intents.status` (`awaiting` stands for
`awaiting_signature` and `awaiting_approval`; `replaced` and `expired` are never
written here), `record[i]` what the code decides by of the row of
`transaction_records`, `request` a submission between its read, its claim, its
broadcast and its mark, `job` a look-up with the attempts it read and the answer
it holds, `chain` what the network has done with a hash, and `broadcasts` how
often an intent was sent.

- Submission: `SubmitReads`, `Claim` (one database transaction), `Broadcast`
  (taken or not, answered or not), then `MarkBroadcast`, `MarkUnknown`, or
  `MarkFails`, after which the handler marks it unknown; `RequestEnds` anywhere.
- Worker: `TakeDue` (a row is read and not leased), `Ask` and `AskInVain` through
  the steps of `one` for the family of the network (receipt, then transaction, then age
  for EVM; status, then age for Intertrain; status for Solana), `Reconcile`, or
  `ReconcileFails`, after which the handler that caught it goes on and may write
  something else; `WorkerDies` anywhere.
- `Expires` and `Ages` are the two clocks, `ChainDecides` the network.

A write that throws may have taken effect or not. A network that is not
configured throws at once. The time of the next look-up is any time. A worker
holds one row at a time, as for payments. Reorganisations of a chain and a user
who broadcasts by another way are left out, so a record whose claim was never
broadcast stays without a verdict.

`TransferPromise` is what is left without requests, workers and attempts: an
intent is committed to once, sent at most once, and concludes with the verdict
of the chain. `Promise` is the mapping and `PromiseIsKept` the property.

### 3.4 Limits of a player: `ArcadeLimits`

One player and one day. `limits` is his row of `arcade_limits`, `position[g]` the
sum of his ledger for a round he entered. The transactions are REPEATABLE READ:
`JoinOpens` is the first plain read of `RoundRepository.join` and takes the
snapshot (`joining[g]`) that the later plain reads of entries and losses are
answered from; `JoinSeats` is the rest, under the lock of the row of limits,
which is read as it is. `SaveReads` and `SaveWrites` are the read and the upsert of
`save`. `RoundPays` is a payout or a refund. The account gate, and the balance,
are `JoinRefused`.

### 3.5 Deposits and owners: `WalletOwnership`, `ArcadeDeposits`

`challenge`, `owner` and `answered` are the rows of `wallet_ownership_challenges`,
`wallet_account_ownership` and `wallet_registration_idempotency`. `Register` and
`ProofFails` are one database transaction each. `Signs` says which addresses a
user can sign for; two users may be one person.

`landed` is what the chain has of the house address; `cursor` its
`last_signature`, as a position; `scan[w]` a scan of the watcher of one process
between `ScanStarts`, `ScanLists` (the node may lack any of the transactions it
lists), `Record` for each transfer, newest first, and `ScanEnds`. `ScanFails` is an error or a
death at any point. The owner is looked up in the transaction that inserts the deposit.

### 3.6 Accounts: `AuthSessions`

One account. A password is the number of its setting. A log-in is `LoginReads`,
then `LoginRefused` or `LoginAccepted`, then `LoginOpens`: between them are awaits
and others run, so that `seen`, what the request read, may be out of date. A
change of password is two steps likewise; a wrong current password is refused, is
counted nowhere and is no step, so what is said of guesses is about log-ins. `Rotate`, `Reuse`, `ResetPassword`
and `VerifyEmail` lock the row they decide by. Expiry of sessions, links and locks is an
action that may come at any time. The fields `password`, `read` and `born` of a session and
the variables `latest`, `overlapped`, `reused` and `guesses` are history.

### 3.7 Chess: `ChessMatches`

`match` is the row of `chess_matches`; a position is its ply and which colours
can still give mate (the code asks chess.js; `Endings` says which ends are possible). `board[t]`
is the view a tab got last, whose version comes with its next move. `waited` is
the time since the invitation or since the turn began, up to the deadline that is next. Each
operation is one transaction under the lock of the match.

### 3.8 Intents: `TransactionIntents`

A call is `LookUp` (answered from the table, or begun), `PrepareSwap` or
`PrepareTransfer` (the nodes are asked, the transaction is built and simulated, and its kind
is known), `Insert` (the unique key) and, for a payout,
`Bind`; it may fail after any of them. `quote` and `payout` move by themselves:
quotes expire, and `PayoutMoves` is what `PaymentOperations` does to the payment
meanwhile: it leaves `awaiting_chain` and comes back, any number of times. `answers` are the intents that clients were given.

### 3.9 Terms and catalogue: `PaymentTerms`, `PaymentCatalogue`

`PaymentTerms` has the data `PaymentOperations` leaves out: `price` is what the provider would
say now, `reviewed` the stored quote, `held` what the provider took the payment
on, `payment[q].shown` the terms in `safe_instructions`. Requests and polls are
tasks that hold an answer from one step to the next, and any answer may be
garbled, lost or about other terms. `Learns` covers refresh and poll.

`PaymentCatalogue` is one key of the cache: `cached` is the row, `load[p]` the entry of a
process in `inFlight`, `caller[c]` a call. Time is in ticks: a request to the provider
with its storing takes at most one. `Release` is a release that can no longer parse the
stored row: it is neither used nor fallen back on, as if there were none. Processes of two
releases side by side are left out.

### 3.10 Social floor: `FloorPosts`

A transaction is `Begin`, which locks a visible post, and then `SetLiked`,
`Reply` or `Remove`, which comes by the locks it still needs (of replies, or of the post
above) and commits; or `RolledBack`. Two that wait for each other stand still until one is
rolled back, as the database does. `post` is the rows of `floor_posts`, `likes` those of `floor_post_likes`.

### 3.11 The compositions: `MCServices`, `MCWorkers`

No two of the modules of sections 3.4 to 3.10 share a variable. Two are about one
table: `TransactionIntents` and `PaymentTerms` each have the columns of a payment
that they decide by, and what the rest of the code does to those is an action of
the module (`PayoutMoves`, `WebhookMoves`). So what one does never depends on another. `MCServices` therefore extends them all (their names
differ for that) and looks at one of them, `part`, in each behaviour, while the others rest: the
reachable states are the sum of theirs and not the product. That a behaviour of the composition is one
of each part is a theorem (`PartsImplemented`). `MCWorkers` does the same for the
four workers of a process, over instances of `ArcadeRounds`,
`PaymentOperations`, `TransactionLifecycle` and `ChessMatches`. Since `part` never
changes, fair steps of different parts can share a fairness formula: in a behaviour it
speaks of one of them.

## 4. The runs

| Run | Question | Instance | Result |
|---|---|---|---|
| `arcade_money` | Is every stake accounted for? | 2 rounds (staked with rake or free), 2 players, 1 deposit each, 1 worker | holds |
| `arcade_play` | Can anyone win or move wrongly, is a tick resolved once and in time, do the rounds implement `StakeEscrow`? | 4 players for 3 seats with stakes, 2 workers, 3 played ticks | holds |
| `payment_starts` | One post per payment, one payment per quote, the cap; no status invented? | 2 requests, 3 keys, 2 quotes, cap 1, 3 words, a refresh for each key | holds |
| `payment_payout` | Moves along the graph; is a poll or a linked transfer forgotten? | payout, 2 workers, 2 attempts, 3 words | holds |
| `transfer_race` | Is a verdict not the chain's, is the promise of one broadcast and one verdict kept? | EVM, 2 intents with one payload, 2 requests, 2 workers, 2 attempts | holds |
| `services` | What each of the eight services keeps true under the races of its requests, tabs, watchers and processes | see Bounds | holds |
| `workers_live` | Do lobbies close, due ticks resolve, payments, confirmations, look-ups and matches end? | one part of each worker, with crashes and failures | holds under fairness |
| `arcade_replay` | Does a replay of the published moves name the winner? | 3 players | violated, see below |
| `payment_ceiling` | Is polling bounded? | payout that expires at the provider | violated, see below |
| `payment_unlinked` | Is a confirmed transfer linked? | the same | violated, see below |
| `transfer_overwrite` | Does a final record stay final? | EVM, 1 request, 2 workers | violated, see below |
| `limits_race` | Can two joins pass a limit that fits one? | the instance of `services` | violated, see below |

What `services` checks, by part: accounts `OneTokenPerFamily`,
`NoSessionOutlivesThePassword`, `GuessesAreBounded`; deposits
`CreditedOnceToTheSender`, `OwnersHaveProved`, `CursorPassesOnlyWhatWasSeen`;
limits `OnlyOverlapPassesALimit`, `OnlyOverlapShortensAnExclusion`; chess
`MovesFitTheBoard`, `ClocksAccountForEveryTurn`, `DrawNeedsBoth`; trading
`OneIntentPerKey`, `PaymentTransferIsBound`; catalogue `CatalogueIsRecent`; terms
`PaidOnReviewedTerms`; floor `CountsFollowTheRows`; and `TypesOK` of them all.

**Bounds.** `MaxTick`: the tick that opens at the bound is not played, so an
instance with `MaxTick = 4` plays three ticks: an elimination, a tie, and a tick
that decides. Three seats are the least for a minority of one against two, and
for a tie once one of them is out; the fourth player competes for the last seat,
which `EscrowIsImplemented` says is not sold twice. Two rounds are the least that share a
balance. `MaxDeposits` bounds the credits of a player: one deposit of 4 covers one
stake of 3 and not two, so that joins of two rounds compete for it, and a payout or a
refund makes room for another. The rake of 2500 basis points on a pot of 6 or 9 is rounded.

Payments: two requests race for a key, or two keys for a quote or for the cap;
two workers are the least for a lapsed lease; two attempts have one before and
one at the ceiling; `MaxRefreshes` bounds refreshes. The words of `payment_starts`
(none of the table, and a reversal) and of `payment_payout` (an expiry the graph
refuses after the link) are those the guards tell apart; BLOCKED, SCHEDULED and
FAILED, whose edges are like those of the others, are in no instance.

Transactions: two workers are the least for a write from a stale read, two
requests with two intents of one payload the least for a race of claims;
`MaxAttempts = 2` has one look-up before the last.

Services: three sessions (one rotated, its successor, and one of another log-in),
two links, two requests under way, two settings of the password, a lock after
two failures; one address, two users who can both sign for it, two challenges, two keys, two
transfers with scans of one, so that one may be beyond the list; two rounds and two saves
with limits of one; a match of three versions, with two tabs of one player and
one of the other, and a third player who tries to come in; two keys and three
calls for a quote, a withdrawal and a payout; three calls in two processes, and
a lifetime of three ticks, the least that `CatalogueAssumption` allows; one quote on two prices with three tasks;
three posts, two users and two transactions at once. `MaxVersion` bounds a match, `MaxTransfers` the
chain, `MaxPasswords` the settings, `Horizon` the clock of exclusions; sessions,
links, challenges, posts and keys are each used once.

Workers: two players and two workers for one round of one played tick, so that a worker
that fails or dies leaves the round to the other or to a later sweep (what one failing
round does to others of its batch is in no run with fairness: two rounds are too many
for a liveness check); one payout with one worker and
two attempts, one Solana transfer with one worker and three attempts, one match
of two versions. A second worker on a transfer can only set `attempts` back by what it
read before, which delays the end; its instance is too large for a liveness check.

**Deadlock** is not checked: the bounds stop the instances when all rounds are
over and every deposit, word, attempt, key and session is spent.

**Mutants.** Every property of a passing run has an operator, marked *Mutant*
in its module, that changes one definition the way a slip in the code would; the
run must then fail.

**Fairness.** Arcade: the timer calls `sweep` again and again in every instance
(weak fairness of `SweepDue`) and a sweep goes through its batch in order; a
worker may crash or a step may fail any number of times, but not each time it comes to
the same round (strong fairness of `Advance`); time passes. Payments:
as there, per worker and row, because rows are claimed in the order they fell due and a call is
bounded by its time-out; leases lapse, and a webhook that was received is
processed. Transactions: every instance sweeps again and
again and calls are bounded; neither process nor database fails at the same
step of the same record for ever (strong fairness of each step); the network
need never decide. Chess: the worker sweeps on its interval, and time passes (weak
fairness). Nothing is assumed of users, the
provider or the webhooks' arrival. `services` checks safety only and assumes nothing.

### What the violated runs show

- `arcade_replay`: `RoundRepository.commit` reads the round and inserts the
  move without a lock in between. A tick can be resolved in that gap; the move
  then lands in a tick that is already resolved and is published with it, so
  the replay that verification offers can differ from the declared result.
- `payment_ceiling`: at the last attempt an answer that is terminal does not go
  to manual review, and one that has no edge from the present status
  (EXPIRED after the transfer was linked) does not move the row either. The row is polled again for ever.
- `payment_unlinked`: the worker looks for confirmed transfers of payments that
  still await the chain; one that left that status a moment before is not found,
  so its transfer is neither linked nor confirmed to the provider.
- `transfer_overwrite`: `reconcile` writes whatever the record has become. A
  second worker that read the row before, or the handler that takes a write whose answer was
  lost for a failed look-up, turns a confirmed record into submitted or unknown.
  The intent keeps its verdict (`IntentVerdictIsFinal`, proved).
- `limits_race`: `join` and `assertMayJoin` say that two joins at once cannot
  both pass a limit only one of them fits (`RoundRepository.ts:186`,
  `ArcadeLimits.ts:64`). They can, when the rounds are of two games: their first locks are on
  different rounds, each counts entries in its own snapshot, and the lock of the
  row of limits comes too late to change what the snapshot shows.
  `OnlyOverlapPassesALimit` says that nothing but such an overlap does it.

Other disagreements were met while modelling and have no run of their own; the
properties name them as exceptions, or leave them room:

- The webhook path ends a payment without clearing its instructions, as the poll
  and the refresh do (`ProcessEvent` against `Following`, `WebhookMoves`), and a poll that heard
  its answer before the end writes instructions to the ended payment
  (`repository.ts:905`, the last case of `Learns`). They are on the reviewed terms all the same.
- A record is dropped by its age once two calls have not found the transaction,
  for whatever reason they failed, though it may still land (`ByAge`).
- A transfer that a node could not give when it was listed, or that more than a
  scan's worth of newer ones hid, is passed by the cursor and never credited: `unseen` in
  `CursorPassesOnlyWhatWasSeen`.
- `save` says an exclusion can only be extended (`ArcadeLimits.ts:42`); two saves at once
  can shorten it: `OnlyOverlapShortensAnExclusion`.
- A log-in that read the account before a reset opens its session after it. Its
  access token is refused, its refresh token works. If the hash it read was outdated it
  also writes the old password back (`AuthService.ts:120`): the two exceptions
  of `NoSessionOutlivesThePassword`.
- A flag that falls is a draw "when the opponent has no possible mating material"
  (`chess.ts:24`); the code draws only when neither side has any (`FlagOutcome`).
- A crash between the removal of a post and the closing of its reports leaves
  them open (`FloorService.ts:82`); reports are not modelled.

## 5. What is proved

Seventy-two theorems, in eight modules; PROJECT.json lists sixty, and `TypesHold` stands for
the types of each service. Every safety property that a passing run checks
is one of them, and so are the type invariants. What each part starts from is a named
assumption about the constants, an ASSUME of the module that declares them:
`ArcadeAssumption`, `LifecycleAssumption`, `PaymentAssumption`, `SessionsAssumption`,
`IntentsAssumption`, `TermsAssumption`, `CatalogueAssumption`, `LimitsAssumption`,
`ChessAssumption`, `FloorAssumption`, and `DepositsAssumption` with `OwnershipAssumption`. TLC
evaluates each in the runs that extend the module. They say that sets counted are finite, amounts
natural, that the account takes a failure before it locks, that a cached row lives longer than two
requests to the provider with their storing, and that a null is none of the values it stands for
the lack of. The one about the cache is true of the defaults (900 and 10 seconds) and of most of what
the environment allows, but not of all (60 and 30 seconds): there a call that found the row expired
may share a load that began before the row was stored, and be told that payments are unavailable;
with a lifetime of two ticks TLC finds this.

`ArcadeRounds_proofs`, for every number of players, rounds and workers, all
stake terms with a rake of at most 10000 basis points, and all bounds, from
`ArcadeAssumption` (finite sets of users and rounds, natural amounts, `Nobody` is no user and no settlement):

| Theorem | States |
|---|---|
| `Invariant`, `TypeCorrect` | `IInv` is inductive and holds, with it type correctness |
| `LedgerCorrect` | a player's ledger follows from where each round stands |
| `BalancesAddUp` | `MoneyInv`, the two columns of a balance as sums over the rounds, holds |
| `EscrowIsBacked` | a player's escrow is the sum of his stakes in the rounds in play |
| `BalancesFollowLedger` | what he has available is his credits and his ledger, and is not negative |
| `RoundsBalance` | what a finished round moved, house included, sums up to zero |
| `SettlesOnce` | a staked round is settled once, in the step that finishes it |
| `WinnerIsEarned` | who wins a round moved in the tick that decided it |
| `EliminatedStaySilent` | nobody has a move after the tick that eliminated them |
| `MovesAreFinal` | a move, once made, is not changed |
| `TicksAreKept` | a tick ends by one step, never before its deadline |
| `FinishedRoundsRest` | a finished round never changes |
| `RoundsImplementEscrow` | `ArcadeRounds` implements `StakeEscrow` |

The argument. `IInv` is inductive: `TypeOK`, `StageFits` (where a round stands
bounds its tick, seats and clock), `CommitsFit` (a commit in flight was let in
by a seat alive in its tick), `NoMovesFromTheEliminated`, `LedgerFollowsRound`,
`SettledExactlyOnce` and `WinnerPlayed`. The properties alone are not: that an
eliminated player has no later move needs `CommitsFit`, since the INSERT looks at
nothing; that the books of a round are right after a pay-out needs
the winner to sit in it, which needs the survivors to be among the alive; that a
settlement comes in the step that finishes a round needs that there is none
before. One lemma per action shows each part preserved, and `FinishedIsFinal`
and the refinement step follow from `IInv` and the shapes of the actions.

The balances are sums over all rounds, and rounds share them: `MoneyInv` is inductive given
`IInv`. `MoneyMoves` is its one step: when a single round's money moves, both
columns of each player move by the difference of that round's term, whatever the other rounds
hold. `Join`, `RefundAll` and `PayOut` are each shown to be of that form: a refund because
exactly the seated have a term there (`Held`), a pay-out because the stakes it
takes from escrow are the terms of the entrants and its payout is the winner's.
`RoundsBalance` needs no invariant of its own: by `LedgerFollowsRound` all entrants but one
have the same row, so the sum is their number times the stake (`SumConstant`, `SumSkipsZeros`), which
`SettledExactlyOnce` says is what the house and the winner got.

`SumTheorems` is about the sums of the community modules, for integers over finite sets of any
size: `SumSame`, `SumType`, `SumSplits`, `SumChanges`, `SumGains`, `SumConstant`,
`SumSkipsZeros`. The induction theorems of the library take an operator as a parameter and cannot be
instantiated here; the proofs take instead the least number that is a counterexample (`Least`, from the
library's theorem that `<` is well-founded on the naturals, which is about a set). That the
recursive table behind a sum exists at all is shown the same way (`TableExists`).
The order of the elements, which the definition leaves to CHOOSE, is shown not to matter by `SumSplits`.

`TransactionLifecycle_proofs`, for all sets of intents, hashes, requests and
workers, every family of networks and every ceiling of attempts, from
`LifecycleAssumption` (`HashOf` and `Family` are functions, `MaxAttempts` is positive, null is no
record):

| Theorem | States |
|---|---|
| `Invariant`, `TypeCorrect` | `IInv` is inductive and holds, with it type correctness |
| `SentOnceHolds` | a transaction goes to the network once |
| `VerdictsHold` | a confirmed or failed record or intent has its chain's verdict |
| `OneRecordHolds` | a record for each submitted intent, a transaction for each record |
| `VerdictsAreFinal` | an intent keeps its verdict |
| `PromiseKept` | `TransactionLifecycle` implements `TransferPromise` |

Here `IInv` adds to the properties `ClaimsFit` (one request holds the right to
broadcast, and has not yet used it), `AnswersFit` (the answer a worker still
holds is the chain's, though the record has changed since it was asked) and
`BroadcastsFit` (the chain has only what was broadcast; a record that says
broadcasting has an intent that does, so a late mark cannot undo a verdict).
That the promise is kept needs all of them: a step of the chain is one of the
promise only if exactly one intent with that hash was sent.

`PaymentOperations_proofs`, for all sets of keys, quotes, requests and workers,
every choice of the provider's words and all caps and ceilings, from
`PaymentAssumption` (finitely many keys, `QuoteOf` and `Kind` are functions, the
words are of the provider's, at least one attempt; the first word of a payment is any of them):

| Theorem | States |
|---|---|
| `Invariant`, `TypeCorrect` | `IInv` is inductive and holds, with it type correctness |
| `InitiatedOnceHolds` | a payment is posted to the provider once |
| `QuoteBacksOneHolds`, `CapHolds` | a quote is spent once, and the cap holds |
| `NothingSynthesizedHolds` | a status was announced; a lost answer fails nothing |
| `PollsHold`, `ConfirmsHold` | a poll is due until the end, a confirmation until it is acknowledged |
| `GraphHolds` | every status change is an edge of the graph |

To the properties `IInv` adds `RowsFit` (a payment has spent its quote and has
no reference before it is begun; the attempts of a confirmation that is due are
not spent, without which not even the types hold), `WorkFits` (one request
holds the right to post; requests and workers hold payments that exist and words
that were announced, however old) and `PostsFit` (the provider knows only
what was posted). The properties do not do without: that a payment is posted
once needs the uniqueness of the request that has begun it, and that a rejected
payment may be failed needs that the provider still has nothing of it.
`KeepsOrder` says what a write of one row must keep. One lemma per kind of write
shows it for `Following`, `Polled`, `NotConfirmed` and the others; `TableWrites`
and `TableGrows` carry it to the table, the cap and the quotes (the one place that counts);
`StepKept` puts the parts of a step together, and each action has a lemma by it.
Only `BeginInitiation` and `PostInitiate`, which pass the right to post on,
have proofs of their own.

The services, for all sets of their constants. Each has its inductive invariant and its types
(`SessionsInvariant`, `SessionsTypes`, and likewise `Deposits...`, `Limits...`, `Chess...`,
`Intents...`, `Terms...`, `Catalogue...`, `Floor...`), and:

| Theorem | States |
|---|---|
| `AccountServices_proofs` `OneTokenHolds`, `NoSessionOutlives`, `GuessesHold` | one refresh token of a family works, none after a reuse; sessions and password are of the last setting, but for the two overlaps; guesses are bounded |
| `CountsHold` | the stored counts of the floor are those of the rows |
| `ArcadeServices_proofs` `OwnersHaveProvedHolds`, `CreditedOnceHolds`, `CursorHolds` | owners have signed; a transfer is credited once to the owner of its sender; the cursor passes none that was seen |
| `LimitsHoldWithoutOverlap`, `ExclusionsLast` | nobody joins while excluded, and only what overlaps a join or a save can pass a limit or shorten an exclusion |
| `MovesHold`, `ClocksHold`, `DrawHolds` | moves fit the board; clocks account for every turn; a draw needs both, for any number of tabs, any budget and length of a match |
| `PaymentServices_proofs` `OneIntentHolds`, `TransferIsBoundHolds` | one intent per key, one transfer per payout |
| `ReviewedTermsHold` | deposit instructions are on the terms that were reviewed |
| `CatalogueRecentHolds` | what is called fresh is recent, and who knows a row is answered, for any number of processes and calls |
| `Services_proofs` `PartsImplemented`, `TypesHold`, `ServicesHold` | a behaviour of `MCServices` is one of each service, so all of the above hold of it together |

The arguments:

- *Sessions.* A family is a chain: its first row names it (`Founded`), and all but one of its rows are
  rotated, because a row is added to a family only by rotating one
  that works (`Chained`). For the password, `LoginsAreCurrent`: what a
  log-in has read is no newer than the account, and if it is of the same version
  it typed the password set last, unless a rehash wrote another back. Without it
  the session it opens later could be of any password.
- *Guesses.* `GuessesOK`: while the account is unlocked every guess is a recorded failure, and
  the last it takes locks; while it is locked the guesses and the log-ins that still count
  (`Counting`, which only falls then) stay below the bound.
- *Owners.* `ProofsConsume`: a challenge that has proved something is consumed, so
  that it proves nothing more; an address keeps its owner since `Register` takes it
  only for the same user.
- *Deposits.* `CreditsAddUp` needs that an insert that was ignored credits
  nothing, and a credited deposit is counted for one user. For the cursor,
  `ScansMissNothing`: up to where a scan will set the cursor, all that it was given is recorded
  or still to be recorded by it; since recorded transfers stay, that holds of a slow scan whose
  cursor is behind that of another as well (`CursorMissesNothing`).
- *Intents.* `AnswersAreStored`: what a client was told is the row under the key, and rows are never
  replaced. `BindersInserted`: a call about to bind a payout has its own intent in the table.
- *Limits.* Only `JoinSeats` takes a seat (`PaysTheEntered`: a round pays who entered it), and of a round
  its snapshot was outside of (`JoinsBeginOutside`). If nothing overlapped, the snapshot is the table;
  seating then adds one to the number entered and takes the stake from the sum
  (`SeatAdds`, by `SumGains`), which the two checks have allowed for.
- *Chess.* The properties speak of a record of all that was done (`chessLog`). `RowFitsRecord`: the version
  is its length and the ply the number of its moves, so that a tab whose version is the row's shows the
  position there is (`TabsLag`). `OfferIsOdd`: the standing offer is of the colour whose requests
  end the record in an odd number, since a second request withdraws the first: nobody can accept
  an offer of his own, and a draw needs a request by the other that still stands. `WaitsEnd`: no turn lasts beyond what is left on
  its clock, so that the clock, charged once per move, never goes below zero. `TimeAppended` and
  `MovesAppended` say what one more entry does to sums and counts over the record.
- *Catalogue.* `ReadersAgree`: a call or load that knows of no row read before there was one, so a row
  there is by now is at most a tick old, and nobody can have found it expired. Without it a caller who
  knew of a row could wait on a load that has nothing to fall back on.
- *Terms.* `ReviewComesFirst`: a payment that was created, and every task that goes on to
  post or learn of one, has a stored quote; `AgreedTerms` is the comparison.
- *Floor.* `Counted` of each visible post needs `Threads` (a visible reply has a visible post
  above it, which has none above) and `LocksHold` (what a transaction has locked is still
  visible when it writes), since the second action of a transaction does not look again. The likers
  and replies are finite sets; the library's theorems on cardinality say what one more or less does.

Only model-checked: liveness (`LobbiesClose`, `DueTicksResolve`, `PaymentsEnd`,
`ConfirmationsEnd`, `LookupsEnd`, `MatchesEnd`), which needs fairness and ENABLED, out of this
prover's reach, and the five violations. What TLC has
beyond the proofs is that the bounds let every action happen and every mutant fail.
Only proved, and in no run: type correctness of the
three large modules, `SettledExactlyOnce`, `FinishedIsFinal`, `MoveIsFinal`,
`SentOnce`, `OneRecordPerTransaction` and `IntentVerdictIsFinal`; most of them are in the
inductive invariants, and the refinements that are checked imply the rest of what matters
of them on the instances.

## 6. Not modelled

- **Reads and output**: portfolio and valuation, the arcade catalogue, markets
  and charts, settings, e-mail, history and event stream of transactions. They
  keep no state, or one row that is written whole, and nothing races for it that
  a property could tell apart.
- **RPC manager**: cooldowns in the memory of one process, which only choose the provider
  of a request. To the callers modelled here a call is answered or fails, by whichever.
- **Database access and migrations**: a transaction commits or rolls back as a whole, which
  every module takes as the unit of a step; migrations run once, before the server,
  under an advisory lock.
- **HTTP interface, process, configuration, logging**: each route validates and calls one
  operation that is an action here; a stop in the middle of a sweep is the crash
  that is allowed at any step.
- **Of the modelled components**: beneficiary references and `setProviderReference`, the
  audit table, encryption and wording of payments, the mapping of provider
  schemas and the signing of requests; amounts, routes and bytes of the
  transactions that withdrawals and swaps build; the registration of an account,
  hashing and access tokens' signatures; reports, blocks and profiles of the social
  floor, and who may remove a post; the rules of chess, which are a library's; the turn of the
  day for limits; serialisation failures of the database
  beyond "the transaction rolls back"; the overflow of the attempts column.
