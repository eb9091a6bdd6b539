# Crakbit pool: TLA+ models, model checking and proofs

Crakbit-Core is a Bitcoin-derived proof-of-work chain together with the tools
to mine it and to run a small pool: a Stratum server, a pool with share
accounting, an edge that limits and authenticates connections, miners, and a
ledger that pays the miners out of the blocks the pool found. Most of the node
is upstream code that the repository patches; the logic of its own is in
`scripts/*.py`, `src/miner` and `src/crakbit`, and that is what is modelled here.

To check everything by hand, in this directory:

    tlc -workers 2 -config PayoutFinal.cfg MCPayoutLedger.tla
    tlapm PayoutLedger_proofs.tla

and the same for the other rows of the tables below.

## 1. Inventory

| Component | State | Operations | What makes it correct |
|---|---|---|---|
| accounting pool (`crakpool-accounting.py`) | SQLite tables workers, shares, blocks, credits; per session: worker, difficulty, seen shares | authorize, submit (scanner, node, two commits), retarget, allocate a reward | a share is recorded once and rewarded once; recorded blocks are the node's; no satoshi is lost; difficulties stay in bounds |
| Stratum pool server (`crakpool.py`) | sessions, current job, last tip, job counter | connect, subscribe, authorize, poll the node, build a job, broadcast it | every miner works on the newest job; an overtaken broadcast does no harm |
| payout planner (`crakpool-payout.py`) | addresses, block verdicts, credits' status, batches, links | register, reconcile with the chain, plan, cancel | a credit is reserved by one batch, follows its block's fate, is paid once |
| payment lifecycle (`crakpool-paytx.py`) | payout transactions: PSBT, txid, confirmations | build-psbt, attach-txid, check, settle | a payment marked paid is proved by its own transaction |
| payout guard (`crakpool-payguard.py`) | preflight history, guard events | preflight, guarded attach, cancel an unbroadcast PSBT | nothing is signed on stale facts; cancelling never frees credits another batch holds |
| payout monitor (`crakpool-payops.py`) | none (read-only) | advise the next action | its advice can be followed |
| Stratum edge (`crakpool-edge.py`) | slots in use, failures and bans per address; per session: worker, token buckets | admit, relay, authenticate, submit, ban, release | slots are given back; a ban lasts; rates hold; one identity per connection |
| Stratum client (`crakminer-stratum.py`) | replies, current job and its generation, reader's error, extranonce and share counters | reader thread, request, scan, submit, stop | its counters agree with the pool's and the node's; only stale work is refused; it ends |
| native scanner (`crakminer_scan.cpp`) | atomics shared by threads, a result under a mutex | take a chunk, hash, report a hit, join | the exit status is true; no nonce is hashed twice; it ends |
| difficulty and emission (`asert.cpp`, `subsidy.cpp`) | none (pure) | next target, subsidy of a height | arithmetic stays in range; total emission is bounded |
| soak monitor (`crakbit-soak.py`) | a file of observations per node, a file of events | collect, event, evaluate | evidence that disqualifies is not forgotten; a restart drill counts only when the node answered after it |
| release trust and review gate (`release-trust.py`, `security-review-gate.py`, `package-linux.sh`) | archive, sidecar, manifest; review status and findings | package, manifest, launch gate, verify | a verified release is the one that was checked, and a mainnet one was reviewed |
| native miner and its wrapper (`crakminer-native.py`, `crakminer`) | accepted blocks | template, scan, submit | the header commits to the transactions |
| node, wallet, external signer | chain, UTXOs | external | modelled from how the scripts use them |
| statistics, bootstrap, source patching, build and verification scripts | none | reports and one-shot file processing | not modelled |

How they interact: miners talk to the pool (through the edge) over one TCP
connection each; the pool polls `crakbitd` for templates, submits blocks to it
and writes the ledger; the payout commands are separate processes that an
operator runs on the same SQLite file, and each first reads the chain from the
node, call by call; an external wallet signs and broadcasts what they prepared.
Apart from these run the soak monitor, which a timer starts once per node and minute,
and the release commands, which read the review's records and the bundle from files.

Where it is hard:

* **Interleaving at awaits.** One event loop runs all miners' handlers. Each
  awaits the scanner, the node and the sockets between reading state and using
  it.
* **A chain that moves while it is read.** The payout snapshot is `getblockcount`,
  then the tip's hash, then one `getblockhash` per recorded height; reorganisations
  and new pool blocks fall in between, and commands are killed in between.
* **Two records of one fact.** Credit status, batch state and payment state are
  updated by separate guarded statements in four scripts.
* **Reads before a transaction.** Every payout command reads the ledger, perhaps talks to the
  node, and only then writes; two operators may do so at once.
* **A reply that is late, or never comes.** The miner's request times out, its connection is
  lost at either end, its job is replaced while it scans.
* **Files read more than once.** An archive, its sidecar and the records of the review are read
  by one check after the other and may change in between; overlapping collections
  append their samples in any order.
* **Failures half-way.** A block that the node took and the ledger did not record
  yet; a transaction broadcast and not attached yet; a client lost in the middle
  of a broadcast.
* **Integer arithmetic** where every satoshi has to go somewhere.

`PROJECT.json` lists each of these hazards at its line with the properties that
cover it.

## 2. Modules

### PayoutLedger (and the abstract PayOnce)

`PayoutLedger.tla` is the ledger as the four payout scripts see it.

| Variable | In the code |
|---|---|
| `chain`, `final` | the node's active chain; the height no reorganisation goes below |
| `found` | rows of `blocks` that the pool recorded |
| `verdict`, `reconTip` | `block_reconciliation` (canonical or not, and at which tip) |
| `credit` | `credits.status` |
| `address` | `payout_addresses` |
| `batchState`, `plan` | `payout_batches.state`, and its items and links |
| `payState`, `txid`, `confs` | `payout_transactions` |
| `preflight` | the latest preflight row is valid and fresh |
| `sent`, `txConf` | what the wallet has broadcast and how deep it is |
| `snap` | what the running command has read of the chain so far |

Each database transaction of the scripts is one action: `Register`, `Reconcile`,
`CreatePlan`, `CancelBatch`, `PersistPsbt`, `AttachTxid`, `CheckPayment`, `Settle`,
`SettleUnchecked` (settling when `gettransaction` failed), `Preflight`,
`GuardedAttach`, `CancelUnbroadcast`. The chain snapshot that a command takes
first is split into what it reads, `SnapCount`, `SnapTip`, `SnapHeights` (of the `blocks` table) and one `SnapHash`
per height, and `EndCommand` is a command that stops after any of them: a refusal,
an error, a kill. Around it act the node (`ChainMoves`), the pool (`PoolRecords`),
the wallet (`SignAndBroadcast`, `TxConfirms`) and the clock (`PreflightAges`).
An operator may sign without a preflight and attach without the guard, before the broadcast or after it, and the
identifier of the wrong transaction; a preflight forbids nothing but `GuardedAttach`. Until the attached
transaction is broadcast, `gettransaction` does not know it (`WalletKnows`), and checks write nothing but an error.

`Advice` is what the monitor (`crakpool-payops.py`) tells the operator to do next with a batch, from the
state of its payment or, before there is one, its own (`EffectiveState`): a set of answers where they depend on when a preflight
or a check was stored, or on whether the stored preflight is a failed one, which the model does not tell from an old one. `AdviceHolds`
judges two of its answers: when it advises to sign, the batch is the one that reserves its credits and no
other transaction pays them; when it advises to settle, the settlement is not refused. Both need finality: the monitor reads no
credit, so when a reorganisation deeper than `Maturity` orphans a credit after the broadcast, it goes on advising
to settle what `settle` refuses.

What it assumes and leaves out: one operator, whose commands run one after the
other (two at once are `PayoutCommands`); a transaction stands
for the batch it was built from, because `build-psbt` funds one PSBT per batch;
a plan's identifier hashes its payload, so that the same payload finds the same
batch again; fee estimates, UTXO locks, formats and the preflight report's details
are not modelled, failures there end the command; the operator who cancels an
unbroadcast PSBT attests truthfully that it was neither signed nor broadcast,
which the command asks for. `Finality = TRUE` restricts `ChainMoves` to
reorganisations no deeper than `Maturity`, which docs/POOL.md sets to 100 blocks;
`Finality = FALSE` lifts the restriction.

`PayOnce.tla` says what all this is for, per credit: it is owed when the pool found
its block, reserved by one payout at a time, released only while no money has left,
and disbursed once. `PaysOnce` is the refinement: a credit counts as disbursed from
the broadcast on, before the ledger knows of it.

### AccountingPool

`AccountingPool.tla` is the accounting pool with the parts of `crakpool.py` it
inherits. `pc[s]` says where the handler of session `s` is: `scan` awaits the
scanner, `submit` awaits `submitblock`, `accepted` has the node's answer, `credit`
is between the commit of a block's share and the commit of the block, `adjust`
awaits the reply before `maybe_retarget`. `conn`, `worker`, `diff`, `seen` are the session's
fields, `held` the share its handler works on, `saved`, `shares` and `blocks` the
tables. `LoopFree` is the event loop: nothing else runs between the two commits,
where the code has no await. `Close` is the end of a connection or an exception at
any await or statement; `Restart` kills the process, perhaps to start it in the
other payout mode: sessions and jobs go, the tables stay.

Abstracted: a share is its connection's extranonce1 (a connection number here: the
code draws four random bytes, taken to be unique), the work of its template and
the miner's choice of extranonce2 and nonce; the scanner answers anything; a new
difficulty is any within the factor of four and the bounds that `next_vardiff`
keeps; templates may be applied late and may be served twice, so that two job
identifiers can share the same work, and the tip never returns to an earlier one; counters of accepted and rejected shares are
left out; jobs other than the current one are rejected, as in the code, so only the
current one is kept. The forced refresh after a block is `RefreshTemplate`, with
what it does to the miners in JobDelivery. A block that the node answers
"inconclusive" is rejected here as in the code, even if its branch wins later.

### PayoutCommands

`PayoutCommands.tla` is the same ledger when several operators run their commands at the same time.
Each command is cut where its transaction begins: `Plan`, `Cancel`, `Build`, `Attach`, `CancelPsbt`,
`Check` and `Settle` are what it reads (`check` reads twice, `ReadPayment`), the `Write...` actions its
transaction with the conditions of its own SQL, and `Die` a command that fails or is killed in between.
`command[o]` holds what operator `o` has read. SQLite runs transactions one after the other, so each
is one step.

Abstracted: the chain, which PayoutLedger has (every block is canonical and mature, every worker has an address); the operator
attaches the batch's own transaction, perhaps before it is broadcast. Preflights are left to PayoutLedger: since an
operator may sign and attach without one, they forbid nothing here. The operator who cancels a PSBT attests that it was not
broadcast and sees to it until the command ends.

`stale` remembers that a cancellation or a PSBT was written for a batch that had left the state the command
judged it by: `cancel_batch`, `cancel_unbroadcast` and `persist_psbt` do not check that state again in
their transactions. `ReservedOnce` says that this is the only way for two commands at once to reserve a
credit twice; with it they can, for instance when a cancellation meets a PSBT being built or a
txid being attached, or two cancellations meet with a new plan between them. `PaidForGood` needs no such
condition. A `record_check` that races a settlement leaves the paid payment as confirmed until it is settled once
more, and one that races a cancellation revives the payment; both properties speak of the credits only. So
`NothingReturns`, which PayoutLedger has of the payments too, is true of commands given one after the other and not of two at once.

### RewardSplit

`RewardSplit.tla` is `allocate_satoshis`, fed by `_score_rows`: floors of the exact
shares, the left-over satoshis by largest remainder, equal remainders by name. It is a machine
that adds one share or one satoshi of fee at a time, so that an action property can compare
two neighbouring windows. Scores and divisions are exact here; the code's decimals have 90 digits, which
decides every comparison of two different remainders rightly. Of two equal ones with different whole parts the 90th digit may differ
in the code and decide instead of the name; no property depends on who wins a tie.

### JobDelivery

`JobDelivery.tla` is `refresh_template`, `broadcast_job` and `template_loop`, with the handlers of the clients, cut at
their awaits. A handler is at `reply` or `writing` while it awaits the drain of what it writes to its client, at `submit` while
a share is with the scanner or the node, and at `accepted` while its client reads that it found a block; then
it refreshes. Each actor that refreshes (the loop, and such a handler) is at `asked`
(awaiting getblocktemplate), `served`, or `sending`, where it awaits the drain of one
client after the other. `Known` is the early return of an unforced refresh, `Apply`
is `build_job`, `Notify` and `Drained` one turn of the broadcast, `EndBroadcast` the
removal of the dead sessions. The code catches `ConnectionError` only: a client lost to another
`OSError`, such as a TCP timeout, ends the broadcast (`CutShort`); the variable `cut` remembers that
this happened to the current job's broadcast, and the properties say what still holds. Clients subscribe and authorize in
either order. One that authorizes first is not told a job then, and subscribing does not tell it either: it waits for the next
broadcast, at most until the tip changes. `early` remembers such clients, and the properties speak of the others (`Working`).
Not modelled: the retarget's extra notify, a second authorization or subscription on one connection,
and the reply and `set_difficulty` as two separate writes.

### ScanThreads

`ScanThreads.tla` is `main` of crakminer_scan.cpp: each thread is at the head of the outer
loop (`check`), at the `fetch_add` (`claim`), at the head of the inner loop (`loop`), hashing
(`hash`), or between the steps that end a scan: `hit` before the compare_exchange, `record`
before the result is written, `abort` between the two stores after a failed hash. `next`,
`found`, `failed`, `result` are the shared variables, `index` and `end` a thread's own, `exit` the
status of the process. `good` is the set of nonces that meet the target; what is hashed
is remembered in `tested`. One action per atomic operation is faithful for
the relaxed order, too: the flags only go up, a stale read of `found` only lets a thread
hash once more, which the model's interleavings contain (the read comes first); chunks are taken with an atomic read-modify-write,
and the joins order every write before the status is computed. The nonce is the index added to the start in 32 bits,
here modulo `MaxNonce + 1`; the duty cycle's sleep is left out.
A hash that fails makes the status 1, even when another thread has a hit.

### Edge

`Edge.tla` is `handle_client` with its two relay tasks. `pc` is where a handler is: `admitted`
between the admission and the `try` statement, `connecting` to the pool, `relay`, `closed`.
`total`, `perIp`, `failures`, `bannedUntil` are the fields of `AbuseGuard`, `bucket` and `globalBucket` the submission buckets,
`subscribed` and `worker` those of `EdgeSession`; `tasks` are the directions still relayed and `gone` the clients
that will not send again. `Authorize`, `Fail` and `Submit` handle one line each, up to what is relayed; a line that changes nothing is left
out, and a task may end at any time (`TaskEnds`: end of file, timeouts, a line too long, the message bucket,
an exception). `poolWorker`, `relayed`, `relayedAll`, `admittedAt`, `bans` and `leaked` only record what happened. The clock is an integer and
stands still between ticks; rates are whole tokens per tick.

`OpenLogged` can fail: the event `connection_open` is written to the security log after the slot was
taken and before the `try` statement whose `finally` gives it back. A log that cannot be
written costs a slot for good; `leaked` counts such slots, and `SlotsCounted` says that
nothing else loses one.

Left out: TLS, the credential file (any line may carry the right secret or a wrong one), checks of the
configuration, the order in which a session's objects are closed.

`ValidPolicy` is what `SecurityPolicy.validate` asks of the limits; the module's ASSUME contains it.

### StratumMining

`StratumMining.tla` is one worker (`crakminer-stratum.py`) at work for the plain pool's `handle_submit`
(`crakpool.py`), which the accounting pool replaces, over a connection that may be lost. The worker's main thread is at `pc`: `subscribe`, `subscribing`,
`authorize`, `authorizing` (waiting for the reply), `loop`, `scan`, `found`, `submitting`, `complete`, `failed`; its reader
(`reader`) takes replies and jobs off the connection at any time. The pool's handler (`at`) reads a
message, awaits the scanner (`verifying`), the node (`submitting`) and the refresh (`refreshing`), while
jobs change. `Lose` cuts the connection and what was under way, `HandlerFails` is an exception at any await,
`TimeOut` may come before or after the reply. `share` is what the handler holds, `credited`, `answered`, `refused`
and `taken` what became of it. Jobs are never removed: `Pool.jobs` keeps several, but a submission must be for the last.

A header is a record of the previous block and of the Merkle root, and a hash stands for what is hashed, so the
composition checks that both sides put the same header together: the pool makes a branch without knowing the coinbase
(`MerkleBranch`), worker and pool fold the coinbase into it (`FromCoinbase`), and the node compares the result with
the root of the whole tree (`MerkleRoot`, the native miner's own function). The two templates have two and
four other transactions, so that one tree is odd at its leaves and the other at its second level too. A wrong branch is a block
refused with reason "bad", which `OnlyStaleRefused` excludes.

Abstracted: nonces and extranonce2 are one choice per scan; number formats, passwords and TLS; two
templates on one tip are equal; the node's answer "duplicate", which the plain pool counts as accepted, cannot come before
the extranonces wrap and is left out; overlapping refreshes are JobDelivery's subject, here each is one step.

### ReleaseGate

`ReleaseGate.tla` is the path of a release: `package-linux.sh` (`Clean`, `Put`, `Checksum`), `release-trust.py manifest`
(`Make`, `MakeHash`, `MakeInspect`, `MakeWrite`), within it the launch gate of `security-review-gate.py`
(`GateStatus`, `GateFindings`), and `release-trust.py verify` (`Verify`, `VerifyHash`, `VerifySidecar`, `VerifyInspect`). Each
read of a file is a step; between them people edit the review's records (`Complete`, `Report`, `SetStatus`,
`Lapse` and so on) and replace the files of the bundle. The commands run one at a time. An archive is its commit and whether its files are those of its
checksums; a review is complete for a commit or not; there is one finding. `reviewed`, `flaw`, `settled` and `moved` only
remember.

Abstracted: `verify_sidecar` reads two files in one step; sizes; signing. `repro-manifest.py` and `finalize-genesis.py` are not modelled.

### Soak

`Soak.tla` is the soak monitor: `Collect` notes the time and starts to ask a node, `Collected` appends what came of
it, and the collections of one node may overlap and end in any order, or be killed. `Event` records restart and
reorganisation events. `evaluate` is `Passes(q)` with one operator per check; the code collects the errors of all of them, so their
order does not matter. `History` is the file sorted by time, samples of one second in the order of the file; `LongestRun` says which
number `longest_failure_run` finds, and TLC compares it with the code's loop on all histories of up to six samples (`LoopAssumption`).
The times are whole seconds, as in the files.

What the code does and a reader might not expect, all of it in the model: a sample is fit or healthy by what
the node answered, and a missing sample is no failed one, so a monitor that does not run leaves no outage; a healthy
sample between the announcement of a restart and the restart itself counts as recovery; `Progress` compares
the latest height of any node with the earliest of any other; `TipsAgree` compares hashes only when all heights are equal (see the
hazard at line 345; docs/TESTNET_SOAK.md, Failure handling, asks for more). A node disabled in the bootstrap file is
no longer judged; the file is constant here. The clock is assumed not to go back.

### MC modules

`MCPayoutLedger`, `MCPayoutCommands`, `MCAccountingPool`, `MCReleaseGate` and `MCSoak` define the chains,
amounts, commits, qualifications and symmetry sets of the instances. `MCSoak` also has TLC evaluate the loop of the failure runs, and
`MCStratumMining` what is proved of the Merkle tree (`TreesAgree`, `RootsTell`), and trees of up
to seventeen leaves. The other modules need none, and their .cfg files are run on them directly.

## 3. Runs

| Run | Instance | What it shows |
|---|---|---|
| `PayoutFinal` | two pool blocks, chains that replace or bury them, one worker, two batches, maturity 2 | with no reorganisation deeper than Maturity: `OneReservation`, `StatusMatchesBatches`, `NoDoublePayment`, `AdviceHolds`; the inductive invariant `LedgerSound`; the ledger implements `PayOnce` (`PaysOnce`) |
| `PayoutReorg` | one pool block that can be replaced, two workers, two batches | with reorganisations of any depth: `StatesAgree`, `CreditFollowsChain`, `PlannedOnCanonical`, `PaymentProven`, `NothingReturns` |
| `PayoutReplan` | one pool block, reorganisations of any depth | expected to fail: see Findings |
| `PayoutCommands` | two operators, two batches, two credits | any two commands at once: `ReservedOnce`, `PaidForGood` |
| `PoolAccounting` | two sessions, two connections, three shares, both payout modes, difficulties 1..2 and a default of 3 outside them, one change of the tip by others | `RewardedOnce`, `LedgerMatchesNode`, `NoShareTwice`, `ScoredAsVerified` over failures and restarts; the inductive invariant `PoolSound` |
| `RewardSplit` | three workers, difficulties 1 and 3, rewards up to 10 | `Conserved`, `Fairest` (no split of whole satoshis is nearer to the exact shares), `MoreWorkNeverPaysLess` |
| `JobDelivery` | two sessions, one change of the tip, fairness | `NobodyForgotten`, `NeverOlder`, `MinersFollowTip` |
| `StratumMining` | on `MCStratumMining`: a worker for two shares, three extranonces, one change of the tip (by its own block or another's), fairness | `CountsAgree`, `WorkOnce`, `OnlyStaleRefused`, `Ends` |
| `ScanThreads` | three threads, nonces 0..3, chunks of two, limits 1..4, every start, every set of good nonces, fairness | `StatusIsTrue`, `HashedOnce`, `ScanEnds`; the inductive invariant `ScanSound` |
| `Edge` | three connections of one address, two slots, one failure bans, one tick, fairness | `SlotsCounted`, `RatesHold`, `BanLasts`, `SlotsReturn` |
| `ReleaseGate` | two commits, the second with other code and enabling mainnet; two edits, three archives | `VerifiedWhole`, `ReleasedWasReviewed` |
| `Soak` | two nodes, three qualifications, two branches, heights 0 and 1, three seconds, four collections and events | `RestartAnswered`, `DisqualifiedForGood` |

Why the bounds are enough to be interesting: `PayoutFinal` has a batch built, released
and rebuilt while one block matures on top of another that is already final, and chain
moves between any two calls of a snapshot; two batches are what it takes to reserve a
credit twice. `PayoutReorg` loses and regains a block under every batch state and has two
recipients, so that a transaction can pay one and not the other. In `PayoutCommands` two
operators are what a race needs, and two credits let plans overlap without being equal. In `PoolAccounting`
three shares on two slots let a block's window end between, before and after another's,
with a restart in each mode; a slot may be used again by the second connection. Its instance starts in either mode, so that
an always proportional pool, for which `RewardedOnce` says more, is covered by the theorem alone. Two clients are what it takes to forget one while another is
served; the loop and a forced refresh can serve two templates in either order with one change of the tip, by one of the sessions'
own block or another's. In `StratumMining` three extranonces
come round once the worker has scanned three times, and the two shares it is to find let it be refused, time out or lose its connection
before, between and after them.
Four nonces in chunks of two make a range that ends inside a chunk, at its end, at the limit or at the last nonce; three
threads let one find, one fail and one run dry. In `Edge` one connection is banned, a second of the same address
goes on and authorizes, and a third tries to be admitted: the least a lifted ban needs; two submissions cost the global burst, so that a third is
refused until time passes. One edit can complete a review and another report a finding, or one report
and one settle it, between any two reads of `ReleaseGate`; three archives let one be replaced and come back. With two commits,
code equality already implies ancestry in `Covers`; that the ancestry is needed besides is left to the theorem. Four records make the two
failures of an outage, with a late healthy sample from before it and an event.
Every property has a mutant in `PROJECT.json`, a plausible slip in a modelled
definition that the run detects.

`CHECK_DEADLOCK FALSE`: the systems depend on an environment (miners, operator, node) that
may stop, and the bounds stop it.

Fairness is used in `JobDelivery`, `StratumMining`, `ScanThreads` and `Edge`. In `JobDelivery` the event loop runs every coroutine that can go on
(weak fairness of each coroutine's steps, of the loop's next poll after its sleep, and of
handlers); a call to the node may fail any number of times but not for ever (strong
fairness of the answer to the loop). A connected client reads what it is sent: the code puts no time limit on
a drain, and without this assumption the property does not hold, since a client that never reads holds up
the broadcast. In `StratumMining` the worker's two threads and the pool's coroutines go on, and a scan that is repeated with
every extranonce finds a share with each (strong fairness of `ScanFinds("share")` per extranonce): nothing
else ends a worker whose scans find nothing. `Ends` names two ends the code lacks: a worker that has no job yet
waits for one after the end of file, and one whose reader failed while it can still write goes on, counting refused
shares. In `ScanThreads` the operating system runs every thread. In `Edge` a handler
goes on (a connection to the pool is reached or times out, by `wait_for`), and reading from a client that is gone ends, with the end of file or
the idle timeout: weak fairness of these steps together, for each connection. Nothing is assumed of the other direction, which may go on for ever. A write to a client that is there and does not read has no
time limit in the code, so `gone` means clients that closed or vanished, whose writes TCP ends. `SlotsReturn` says that in the end
no client that is gone keeps a slot; connections are used once, so this is what giving back means here. Payouts, releases and the soak monitor have no liveness property: they are commands an operator may never
give. AccountingPool has none: nothing promises that a miner finds a share.

## 4. Proofs

| Theorem | Module | For every value of the constants |
|---|---|---|
| `TypeCorrect` | PayoutLedger_proofs | types, for reorganisations of any depth |
| `RecordsAlwaysSound`, `RecordsAgree`, `CreditsFollowChain`, `PlansAreCanonical`, `PaymentsAreProven`, `TerminalForGood` | PayoutLedger_proofs | the inductive invariant `RecordsSound`; `StatesAgree`, `CreditFollowsChain`, `PlannedOnCanonical`, `PaymentProven`, `NothingReturns`, for reorganisations of any depth |
| `Sound` | PayoutLedger_proofs | the inductive invariant `LedgerSound`, given finality |
| `Reservations`, `StatusesMatch`, `PaidAtMostOnce`, `AdviceIsSound` | PayoutLedger_proofs | `OneReservation`, `StatusMatchesBatches`, `NoDoublePayment`, `AdviceHolds`, given finality |
| `LedgerPaysOnce`, `PromiseAtMostOnce`, `RowsPaidOnce` | PayoutLedger_proofs | the ledger implements PayOnce, given finality; PayOnce pays a credit at most once; hence the ledger does |
| `SplitAlwaysTyped`, `AlwaysConserved`, `AlwaysFairest`, `MoreWorkAlwaysPays` | Credits_proofs | types; `Conserved`, `Fairest`, `MoreWorkNeverPaysLess` |
| `CommandsAlwaysTyped`, `CommandsAlwaysSound` | Credits_proofs | types and the inductive invariant `CommandsSound` |
| `CreditsReservedOnce`, `PaidStaysPaid` | Credits_proofs | `ReservedOnce`, `PaidForGood` |
| `PoolAlwaysSound` | AccountingPool_proofs | types and the inductive invariant `PoolSound` |
| `EveryShareRewardedOnce`, `LedgerAgreesWithNode`, `SharesCountOnce`, `DifficultySound`, `NeverWithoutShares` | AccountingPool_proofs | `RewardedOnce`, `LedgerMatchesNode`, `NoShareTwice`, `ScoredAsVerified` with `DifficultyBounded`, `Allocatable` |
| `DeliveryTyped`, `DeliveryAlwaysSound` | JobDelivery_proofs | types and the inductive invariant `DeliverySound` |
| `NobodyIsForgotten`, `JobsOnlyAdvance` | JobDelivery_proofs | `NobodyForgotten`, `NeverOlder` |
| `MiningTyped` | StratumMining_proofs | types |
| `BranchLeadsToRoot`, `TreesAlwaysAgree`, `RootsAlwaysTell` | StratumMining_proofs | of any coinbase and any other transactions, the branch leads to the Merkle root; `TreesAgree`; `RootsTell` |
| `CountsAlwaysAgree`, `WorkCreditedOnce`, `OnlyStaleIsRefused` | StratumMining_proofs | `CountsAgree`, `WorkOnce`, `OnlyStaleRefused` |
| `ScanAlwaysSound`, `ExitStatusTrue`, `NoNonceTwice` | ScanThreads_proofs | types and the inductive invariant `ScanSound`; `StatusIsTrue`, `HashedOnce` |
| `SlotsAlwaysCounted`, `RatesAlwaysHold`, `BansLast`, `OneIdentityAlways` | Edge_proofs | types and `SlotsCounted`; `RatesHold`, `BanLasts`, `OneIdentity` |
| `WhatIsVerified`, `MainnetReviewed` | Release_proofs | `VerifiedWhole`, `ReleasedWasReviewed` |
| `SoakAlwaysSound` | Release_proofs | types and the inductive invariant `DrillSound` of Soak |
| `RestartsAnswered`, `DisqualificationLasts` | Release_proofs | `RestartAnswered`, `DisqualifiedForGood` |

Assumptions: the named ASSUMEs of the modules (constants are of their kinds,
the chains are sequences of blocks with each pool block at its height, bounds are naturals), which TLC evaluates on
the instances. Finality, `Finality = TRUE`, is stated in each of the seven theorems that need it: `Sound`, `Reservations`,
`StatusesMatch`, `PaidAtMostOnce`, `AdviceIsSound`, `LedgerPaysOnce` and `RowsPaidOnce`. No other theorem has a hypothesis
about the system.

**RecordsSound.** It joins `CreditFollowsChain`, `PlannedOnCanonical`, `StatesAgree` and `PaymentProven` to what makes
them inductive: only recorded blocks have credits and verdicts (`SourcesFound`); a reserved credit's block was canonical when last reconciled, so
that a plan is invalidated in the transaction that learns otherwise (`ReservedOnCanonical`); a transaction is attached to one payment at most
(`TxidsSound`). All of it relates the ledger's tables to each other and to the last snapshot, never to where the chain is now, so it needs no finality.

**LedgerSound.** `OneReservation` alone is not inductive: a batch is planned from verdicts
that may be old. The argument is about what a command knows. A block Maturity deep on the
chain is final (`ChainSound` and `Buries`); what a running snapshot matched at such a depth
is final even though the chain moved since (`SnapshotSound`), and it has seen or will see
every block a live batch pays for; a stored verdict that says mature is therefore right for
good (`VerdictSound`); so the credits of live batches lie on final blocks (`LinksSound`), are
never orphaned, hence never revived under a batch, and `OneReservation` and
`StatusMatchesBatches` are kept by every step.

**CommandsSound.** It is claimed until `stale` is set. A payment and its batch are at the same point (`RowsAgree`), although a late check may
have put the payment back from paid; what a running command read and its transaction does not check again is still so (`ReadsHold`): a PSBT that is being
cancelled is not sent, a payment being checked or settled has its txid. Then the credits of a live or sent batch
are planned or paid and in no other such batch (`KeptOnce`), because a plan takes only credits that are pending in
its own transaction. `PaidForGood` follows from the conditions of the single statements and needs nothing of this.

**RewardSplit.** The sums are folds over the workers, so their laws are proved by induction over the subsets of a finite set: the
smallest set for which a law fails has subsets for which it holds (`SubsetInduction`). Remainders add up to fewer whole satoshis than there are
workers, and the ranking of the workers is a strict order, in which the first k are k: hence `Conserved`. For `Fairest` the fraction of the last worker
served is a threshold, which serves as a weight: nobody served has a smaller fraction, nobody else a greater one, and
a weighted comparison with any other split of the same sum is a sum of terms that are not negative. For
`MoreWorkNeverPaysLess`: had the worker whose score grew lost a satoshi, somebody would have overtaken him,
although no other exact share grew.

**PoolSound.** A share is recorded once because its session remembers it before it awaits
(`SessionsSound`, `SharesSound`) and connections differ. Windows are disjoint because ends
grow: a handler between its two commits holds the last share of the table, which no window
has reached (`WindowsSound`); this is where `LoopFree`, the missing await, is needed. What the
node took is recorded, on its way or lost (`BlocksSound`).

**DeliverySound.** Nobody has heard of a job that does not exist yet (`ToldMade`). Until a broadcast is cut short, a working session
has been told the current job, is about to be told it by its own authorization, or is in the list that the current job's own broadcast
still goes through (`Reached`); one that is authorized and not subscribed is at its reply or among the `early` ones (`Waiting`), so that
subscribing makes nobody a working session without a job; what an overtaken broadcast has left does not count, since it may be dropped.

**StratumMining.** One request of the worker is under way at a time, or being handled, or its reply is under way
(`OneRequest`, `EndsAgree`). So the counters agree with the pool and the node up to the one yes that is still due
(`CountsSound`). A share is handled once, and remembered with its job and extranonce (`HandledOnce`); extranonces grow until
they come round (`ExtranoncesRise`), so that no submission is a duplicate; an equal header would have an equal root, hence an equal
extranonce (`RootsTell`). A Merkle branch leads to the root because the pool's tree and the node's differ only in the first hash of each level, and that
hash is what the coinbase and the branch so far give (`Alike`, one level at a time). Folds are computed as the
community modules define them, over sets of indices, and `FoldSteps` turns them into steps along the sequence, by the same induction over subsets.

**ScanSound.** The chunks of the threads are apart and below `next` (`ChunksSound`); every index below `next` was hashed or
is some thread's to hash as long as nobody raised `found` (`NothingSkipped`); whoever raised it has a result, is about to write it, or failed
(`HitsKept`). `ScanSound` and `SlotsCounted` contain their module's type invariant.

**Edge.** A bucket's account: what was relayed and what is left in the bucket are together no more than the burst and
what has flowed in up to the bucket's last update (`Tokens`). A ban's account: `bannedUntil` is at least as late as every ban imposed
requires, because the clock does not go back (`Bans`). A connection that told the pool a worker has that worker (`Bound`).
A slot is counted from the admission to the release (`Counted`).

**ReleaseGate.** What the manifest's maker holds was true when it was read: the hash is that of a whole
archive of the named commit, and the gate's copies of the review are of a moment since it began. What the verifier compares
next joins this to the bundle: until it moves, equal hashes mean equal archives.

**Soak.** A collection that began after a restart event knows of it, and a node healthy in such a collection has been drilled
(`DrillSound`). Sorting keeps the samples and orders them by time, since each sample's place counts those before it in a strict order; so the
samples of an outage are next to each other, however late they came, and make a run at least as long as they are many
(`OutageCounts`). No collection can add one among them, as none is under way for that time.

Only model-checked: the refutation in `PayoutReplan`, which is a counterexample; and the liveness
properties `MinersFollowTip`, `Ends`, `ScanEnds` and `SlotsReturn`, which are out of the prover's reach. Every other property of the runs is the
statement of a theorem.

## 5. Findings

`PayoutReplan` shows that a credit can be reserved by two live batches after a
reorganisation deeper than the maturity gate: reconciliation orphans the credit, but a batch
already in `psbt_ready` is not invalidated; when the block comes back,
`reconcile_snapshot` sets the credit to `pending` again although that batch still links it, and the next
plan takes it into a second batch. docs/POOL.md says that a planned credit is kept out of
any other concurrent plan. `PayoutFinal` and the theorems show that it cannot happen without such
a reorganisation.

## 6. Not modelled

Statistics are read-only. Bootstrap, source patching, verification scripts and CI are one-shot file processing
without state across calls, and so are signing, `repro-manifest.py` and `finalize-genesis.py`. Difficulty adjustment and
emission compute with 256-bit targets and 63-bit amounts, wider than TLC's integers, and the repository checks
them against vectors; the rounding of `next_vardiff` to twelve digits is left out with them. Of the native
miner only the Merkle tree is modelled: its loop, and that of the wrapper around the node's own
miner, keep nothing but a counter.

## 7. Plan

Done, in this order: PayoutLedger with PayOnce and their proofs; AccountingPool with its
proofs; RewardSplit; JobDelivery; ScanThreads and Edge with their proofs; StratumMining; ReleaseGate
with its proofs; Soak; the monitor's advice in PayoutLedger, with its proof; PayoutCommands; then the proofs of the payout properties
without finality, of PayoutCommands, JobDelivery, StratumMining with its Merkle trees, RewardSplit and Soak.

Next: what the models say beyond the properties. That a batch of `PayoutCommands` is a batch of `PayoutLedger` (the commands as a
refinement of the ledger's single-step ones), and that the pool's credited blocks of `AccountingPool` are those the ledger imports.
