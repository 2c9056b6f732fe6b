# merona — specifications of the index, the evidence and the servers

merona indexes x402 payments (gasless USDC transfers on EVM chains, SPL
transfers paid by facilitator relayers on Solana), publishes one immutable
snapshot a day, anchors it, and serves trust records derived from it. This
directory holds TLA+ modules for it, TLC configurations for small instances, and
proofs that hold for every instance.

## 1. Inventory

Everything runs as ordinary operating-system processes: one nightly timer job
(`indexer/daily_snapshot.py`), operators' manual commands, and two long-running
HTTP servers. They share one database (SQLite or Postgres), a directory of dated
snapshots and a few JSON/CSV files. There is no lock between processes: what
protects the data are primary keys, single transactions and the order of writes.

| Component | State it keeps | Operations | Hard behaviours | What makes it correct |
|---|---|---|---|---|
| Settlement store (`indexer/storage.py`) | tables `settlements`, `indexed_ranges`, `solana_cursors`, `meta`, measurement tables | `commit_range`, `covered_frontier`, `find_gaps`, cursor and meta upserts | concurrent writers; crash between transactions; overlapping ranges | a recorded range is complete; one settlement, one row |
| EVM indexer (`index_base.py`, `chain.py`, `decode.py`) | the plan and the subrange of a run, none of it persisted | bootstrap, plan, scan, commit, to-head, backfill | reorganisations between two scans, refused or throttled requests, null answers, dying at any step | exact ledger below the tip; every final block gets indexed |
| Solana indexer (`index_solana.py`) | per-relayer cursors, coverage stamp | rotate, list, fetch in chunks, commit in order, stamp | missing transactions, time budgets, rejected key, overlapping sweeps | nothing missing behind a cursor; no relayer starves |
| Permit2 indexer (`index_permit2.py`) | ranges under `<chain>_permit2` | same plan and commit | same table and primary key as the above | as the EVM indexer |
| Nightly run (`daily_snapshot.py`) | `data/indexer/snapshots/<day>/` | index all chains, gap check, write the day, enrich, measure, score, publish | partial days, wiped database and recovery, one stage failing | a day is written once, over no gap; a stage's failure stays its own |
| Attestation (`attest/anchor_attest.py`, `eas.py`) | append-only ledger of attestations | pending days, send, wait, append | crash after send, late receipt, revocation | what the ledger calls live is live, of a finished day, one a day; every day is attested in the end |
| Enrichment (`enrich_relayers.py`, `enrich_facilitators.py`) | `settlements.facilitator` | fill the submitting relayer | two writers of one column | a known relayer is never lost |
| Wash filter, scores (`wash.py`, `wash_cycles.py`, `scores.py`, `payer_scores.py`) | `wash_signals`, `wash_cycles`, `*_scores` | scan, flag, cap, grade | which night's flags are joined; a failed section | a night without a failure grades exactly what the settlements show |
| Instrumentation (`instrumentation.py`, `payto_watch.py`) | probe tables, watch ledger | probes in isolated collectors | a poisoned transaction after an isolated error | a failure costs its own block of stages; the feed says what was listed and answered |
| Trust API (`serving/trust_api.py`), paid lane (`x402pay.py`) | token buckets, in-flight permits, cached files | look-ups, evaluate, pay-per-call | threads, time-outs of the payment facilitator, stale caches | permits balance, rates hold, no charge goes unaccounted, answers are fresh |
| Stats server (`serving/stats_server.py`) | cached metrics, a copy on disk, use counters | refresh, seed, save | failing refreshes, restarts, carried-forward figures | what a night publishes is served at last, with its notes |
| Conformance tools (`conformance/`) | none | verify an envelope, a snapshot, an attestation | days that change behind their hash, revocations | the evidence verifier accepts exactly what was attested |
| Registry builder, canary, reconciliation, self-declaration, canonical JSON, dashboards, docs | files | one-shot | pure or I/O | not modelled, see section 8 |

Interactions: the nightly run calls the EVM and Solana indexers over the store,
reads the store to write the day, and the measuring stages read the day and write
their own tables; the attestation reads finished days; the servers read tables
and files that the nightly run replaces. `solana_chain.py` is imported but not
part of the repository: its client is modelled from its calls.

The hazards that guide the properties, each with its line, are in
`PROJECT.json`.

## 2. Modules

    SettlementLedger        what storage.py promises: final blocks recorded whole
        ^ implemented by
    SettlementIndex         EVM indexer + store + chain, several processes
        | Frontier, Uncovered, IsNextSubrange are definitions there and
        v the code's own loops here
    GapPlan                 covered_frontier, find_gaps, run, get_logs_chunked
    SolanaSweep             Solana indexer + cursors + coverage stamp
    SnapshotNight           nightly run over several chains + snapshots; a chain
                            is indexed in one step (SettlementIndex has the detail)
    VerifyEvidence <-- AnchorAttest     day directories, anchors, Base, verifier
    ScoreRules <-- TrustRules <-- WashNight   letters, answers, and the nights
                                        that produce the evidence behind them
    TrustServe              connections, buckets, paid lane, receipts cache
    PaytoFeed <-- InstrumentNight       legs and feed, and the row of stages that
                                        shares one Postgres transaction
    DashboardBlob <-- StatsServer       publish step, and the server of its blob

    MC<module>              small instances      <module>Proofs   TLAPS proofs

An arrow points from a module to the one it extends: pure rules to the left, the
processes that run them to the right.

### SettlementIndex and SettlementLedger

One chain, its RPC and the database; `Runner` processes run the indexer on it.
Each of `StartRun`, `StoreStart`, `ReadTip`, `Plan`, `Backfill`, `ReadAuths`,
`ScanTransfers`, `FetchReceipts`, `CommitRange` is what one process does between
two points where another process, the chain or a kill can intervene: a database
transaction or one logical answer of the RPC. `Die` is every way a run ends early:
an RpcError, the refusal to write rows without a timestamp, a rolled-back commit,
a kill. `Mine`, `Finalize`, `Reorg` are the chain (external): the suffix above
the finalized block, at most `MaxReorgDepth` deep, may be rebuilt at any time,
also between the two scans of a subrange.

| Model | Code |
|---|---|
| `rows`, `ranges`, `startMeta` | tables `settlements`, `indexed_ranges`, `meta.start_block*` |
| `pc`, `boot`, `tip`, `todo`, `lo`, `hi`, `auths`, `batch` | locals of `main`, `run`, `index_subrange` |
| `TipSources` | which of the two answers of `finalized_end` can occur |
| `StartBlocks` | what operators give `--start-block` on a database that has no start block |
| `BackfillTip` | how far beyond (or below) the head an operator's `--to` goes |
| `UseReceipts`, `ReceiptsMayBeNull` | `chain.use_receipts`, and a null answer for a mined transaction |

A transaction carries one authorised transfer; parties, amounts and timestamps
are left out since no property tells them apart.

`SettlementLedger` states the promise in the header of `storage.py` without runs
and ranges: blocks settle, sets of final blocks are recorded with exactly their
settlements. `SettlementIndex` implements it with the refinement mapping
`recorded <- Covered`, `ledger <- rows`, `final <- FinalBlock`.

The promise needs a deployment that `SafeDeployment` describes: the fallback tip
is used only where no reorganisation is deeper than `confirmations`, operators
backfill only what is deep enough, the RPC never answers null for the receipt of
a mined transaction. `IndexDeepReorg` and `IndexNullReceipt` drop the first and the
last clause and break the ledger. What an operator's `--to` above the tip does is
therefore assumed away, not shown to be harmless, by `LedgerExact`.

### GapPlan

The four nested loops one iteration a step: `WalkRow`/`StopWalk`
(`covered_frontier`), `SkipRow`/`TakeRow`/`LastGap` (`find_gaps`),
`NextGap`/`NextBatch`/`Commit` (`run`), `Fetch`/`Refuse`/`Fail`
(`get_logs_chunked`, with the request size that shrinks and never grows back).
It justifies the three definitions by which `SettlementIndex` abstracts them. One
log scan stands for the two of a subrange.

### SolanaSweep

`Sweep` processes over a history of finalised signatures, each a slot with a
relayer. `StartSweep` orders the relayers by `updated_at` (kept as the relation
`behind`, so that time needs no bound), `ReadCursor`, `List`, `Fetch`,
`WriteRows`, `WriteCursor` and `StopAtMissing` are `index_relayer`; `OutOfTime`,
`KeyRejected`, `RelayerFailed` and `Die` the ways a relayer or a sweep ends
early; `StampSlot` and `StampDate` the two transactions of
`_stamp_coverage_start`. `base` and `listed` are history variables: the page a
cursor started from, and the first slot any sweep listed for the relayer.

### SnapshotNight

The nightly run over the EVM chains, up to the snapshot: `StartNight` reads the
heads of the newest `snapshot_meta.json`, `OpenChain` is `bootstrap_start_block`,
`IndexAll` and `IndexSome` are `run` with its fallback to the public RPC,
`ReadMax` and `CheckGaps` the two halves of the primary chain's hard gap check,
`WriteSellers` and `WriteMeta` the two files of a day. `Backfill` and
`OperatorOpens` are other processes (`index_base.py`) and can come between any two
of these steps: nothing in the code excludes them. `Die`, `TearSellers` and `TearMeta` are kills
between and inside these steps.

| Model | Code |
|---|---|
| `covered`, `start` | `indexed_ranges` and the start blocks in `meta`, lost by `Wipe` |
| `taken`, `archived`, `heads` | the day directories, which survive: today's file, what all files count, `max_block` of each chain in the newest meta |
| `cur`, `end`, `max_blk`, `left`, `anchors` | locals of `main`: the chain, its finalized block, what the gap check goes up to, the chains to come, `snapshot_heads` |
| `first`, `recorded`, `jumped` | history variables the properties compare with: the first start block, the highest recorded head, the settlements above `max_blk` that a backfill passed while a night went on |

A chain's future is fixed in the first state (`busy`) and revealed by `Finalize`;
reorganisations are left to `SettlementIndex`. `Kinds` are the mishaps that can
happen, once each, and `MaxMishaps` says how many of them do. Historical rows
that a loader marks as not witnessed are never in a snapshot and left out. Only
the primary chain is backfilled (`Backfilled`): a hole of an additive chain is
only a warning in the code, and a head above it would be trusted by a recovery.
Between the gap check (`daily_snapshot.py:1348`-`1358`) and the snapshot (1396) all
additive chains are indexed. A backfill that lands above `max_blk` in that window,
and leaves a hole below, gets into the snapshot unchecked. `NeverOverGap` and
`NothingLost` say exactly that: the check is good for everything up to `max_blk`,
however late the backfill, and whatever a snapshot misses was passed by a backfill
of this kind. Without the exception both fail (section 3). An operator's
`--start-block` is in `SettlementIndex` only; here an operator who opens a database
gives none.
Behind the properties stand the parts of `NightInv`: what the chains cover is one
stretch from their start (`Contiguous`), heads are no lie (`HeadsTrue`), the
snapshots hold what is below them (`Archived`), and behind the check the primary
chain stays whole up to `max_blk` (`GapChecked`).

### AnchorAttest and VerifyEvidence

Day directories that are written file by file (`StartDay`, `WriteFile`,
`KillWriter`), the public `anchors.jsonl` (`GitAnchor`), Base (`Mine`), and the
attester between them: `StartAttest` picks the newest pending days up to the cap,
`NextDay` hashes a directory, `Send`/`NotSent`/`SentUnknown` are the three ways
`send_tx` ends, `Receipt`/`Reverted`/`LeaveAlone` those of `wait_receipt`,
`AppendLedger` the line of the local ledger. `Correct` is the runbook's rewrite
with a revocation. A uid is the place of a transaction in `txs`; hashes do not
collide, so a hash is the content it is taken of. `deploy/run.sh` runs writer,
anchor and attester one behind the other, which `WritesAlone` relies on.
`VerifyEvidence.Verify` is `verify_evidence.py` from the hash of a file to its
answer, `--no-chain` included; `VerifierAgrees` compares it with the truth in every
reachable state.
`StraysCounted` and `EvidenceWhole` are what the two proofs about strays and the
verifier rest on.

### ScoreRules, TrustRules, WashNight

`ScoreRules` has the formulas of `scores.py` and `payer_scores.py` with gates,
caps, penalties and letters; the logarithmic components enter as one number
`points`. `TrustRules` has `_delivery_states`, the answer of a lookup,
`_suggested_action` and the evaluate decision with its reason codes; a finding has a
`grade_override` or, as `"bare"`, none.
`WashNight` runs the sections of `run_wash` one by one (`Reciprocal`, `Cycles`,
`Lookback`, `Concentration`, `Clean`), then `Scores`, night after night over
settlements that stand still, so that only the sections and their failures change
an answer. `signals`, `cycles`, `clean` and `scores` are the tables by date, and
the joins take dates as the code does (`SignalDate`, `CycleDate`).
`SignalsOfRecord` compares what a score rests on with what the settlements and the
failures of that night imply (`FoundOn`, `FoundDate`): that a night has stopped
short of a chain, that its funding look-ups gave up, or that the concentration scan
overwrote a row of the lookback. The past `wash_flags_<chain>.csv` files that
`wash.py` and `scores.py` both read are the traits `batch` and `history`: what is in
the file a night excludes (`batch`) is a flag of the past (`history`). `Settlements`
and `SelfPayments` are the rows that the `COUNT(*)` of the clean metrics counts, so
that subtracting one twice shows. `WashInv` says that the recorded evidence is true
and that a section that has been passed did its work or failed on record;
`CleanInv` says the same to the last seller, which is what the counts need, and
`SignalsInv` says of every night's table of signals that it is what that night had
to find.

### TrustServe

`Accept`, `Shed`, `NoThread` are `_BoundedServer`; `Take` is the token bucket with
its pruning and the lane that answers (`Lane`: health, static pages, pro, trust
lookups, evaluate, the MCP tool); `Stat` to `SetMtime` are the unlocked steps of
`_delivery_map`; `Use`, `Verify`, `Settle` the answer and the paid lane.
`Paysweep` is the nightly job that grows the receipts file. A worker is a record
with the place it has come to; the steps are those between which another thread
can run. `Escapes` is an exception: it ends the worker and the connection on GET,
while the MCP tool catches it. `config` is a deployment chosen in the first state
with the traffic it gets: keys or none, free or paid, permits, bucket size.

### PaytoFeed and InstrumentNight

`InstrumentNight.Order` is the row of stages of `main`; for the stages that the
feed or the watch ledger depends on there is an action with what it writes, the
others are `PlainStage`. `txn` is the transaction of the one connection, and
`ClearsFirst` and `RollsBack` say who cleans up. `Breaks` is a failed statement,
`Errs` a failure that leaves the transaction alone, `Spoiled` a stage that finds
it aborted. Two statements fail without anybody's handler seeing it and leave the
transaction aborted (`Swallows`): the note of the catalog fetch (`FetchUnnoted`),
inside its block, and the on-chain sightings of the feed (`WriteFeedUnseen`,
`payto_watch.py:83`-`89`), which `run_wash` then finds. `Costs` says which stages a
failure may cost: its own block, and of the feed the wash stage behind it. The other
failures that are swallowed stay inside their block or stage (`enrich_relayers.py:96`,
`wash.py:201`, `scores.py:309`, `scores.py:449`). The stage `additive` stands for
`daily_snapshot.py:1360`-`1380`, Solana included. `PaytoFeed` is the data: what the census keeps of a listing, what a
probe keeps of an answer, and `compute_feed`, with the two different tables of
network dialects. `Updated` is an upsert, `LegDays` to `Rotation` the query and the
timeline of `payto_rotation`; `Recorded` ties the tables to the history of what was
listed and answered (`listed`, `answered`, `sighted`), and `SpillInv` a lost stage to
the failure that explains it.

### DashboardBlob and StatsServer

`Program` lists the queries of `store_dashboard_metrics` in order. A query
succeeds, fails by itself or finds the transaction aborted; `Guarded` and
`Swallowed` are the two kinds of handler. A figure is the night on which it was
measured, which is all that staleness needs. `StatsServer` adds the refresher
(`Seed`, `Compute`, `Save`), its failures and `Restart`, whose copy on disk may
be torn. `FailuresIsolated` compares a stored blob with the failures of its night,
chain by chain, tier by tier and section by section (`RowIsolated`, `TierIsolated`,
`SectionIsolated`). `PublishInv` says the same of a draft in the middle of the row of
queries; `PriorAt`, `KindsAt`, `CountsAt` and `WitnessedAt` are the places in that row
at which its parts change.

## 3. Runs

| Run | Question | Properties |
|---|---|---|
| `IndexConcurrent` | Do two processes with backfills, deaths and reorganisations keep the ledger exact? | `LedgerExact`, `ImplementsLedger` |
| `IndexProgress` | Does every final block reach the ledger when a run may die at any step? | `EventuallyIndexed` |
| `GapPlan` | Do the loops fetch exactly the missing blocks, once, for every table, target and refusal? | `TypeOK`, `FrontierExact`, `FetchedExactly`, `NeverFetchedTwice`, `Terminates` |
| `SolanaSweep` | Do two overlapping, failing sweeps ever pass a settlement? | `NoSkip` |
| `SolanaProgress` | Does the rotation serve every relayer when each night ends after one chunk? | `EventuallyIndexed` |
| `SnapshotNight` | Does one lost database, outage, torn file or early operator make the snapshots lose a settlement? | `TypeOK`, `ResumesAtHead`, `NothingLost`, `NeverOverGap` |
| `AnchorAttest` | Does the ledger tell the truth, is only final content attested, and every day in the end? | `TypeOK`, `LedgerTrue`, `AttestedIsFinal`, `StraysExplained`, `VerifierAgrees`, `EventuallyAttested` |
| `WashNight` | What do failed sections do to letters, clean metrics and answers? | `TypeOK`, `HealthyNightIsExact`, `SignalsOfRecord`, `CleanExact`, `GateIsSound`, `NoInventedLetter` |
| `TrustServe` | Do permits, rates, payments and cached answers survive threads, prunes and a facilitator that does not answer? | `TypeOK`, `PermitsBalanced`, `RateBound`, `PaymentsAccounted`, `FreshUnlessRaced`, `EveryConnectionEnds` |
| `InstrumentNight` | How far does one failure reach, and do ledger and feed record the facts? | `TypeOK`, `SpillContained`, `WatchTrue`, `FeedTrue` |
| `StatsServer` | What does a failing query cost, and is what is published served? | `StatsTypeOK`, `AlwaysPublished`, `FailuresIsolated`, `EventuallyServed` |
| `IndexNullReceipt` (violation) | Is a recorded range complete? | `NothingSilentlyMissing` |

Bounds, and why they are enough.

* `IndexConcurrent`: two runners, one transaction with two possible log indices,
  blocks 0..3, subrange 2, one confirmation, reorganisations of depth 1, and an
  operator who starts at block 2, ahead of the chain. Two
  runners give every interleaving of two plans, commits and bootstraps; a
  settlement that moves has another block and another log index, which is what
  the primary key can and cannot see; four blocks give a plan of two subranges
  with a hole between two committed ones. Runners and transactions are
  interchangeable (symmetry).
* `IndexProgress`: one runner, blocks 0..4, subrange 1, so that a plan has
  several commits and a death leaves a hole that a backfill can jump over; the
  start block is the operator's 0 or 3 or the one behind the lookback. Two first
  runs that bootstrap at once, which move the published start block, are in
  `IndexConcurrent`, whose properties do not depend on it.
  No symmetry, as liveness demands.
* `GapPlan`: blocks 0..3, every table of up to three ranges in every order the
  query allows (adjacent, nested, repeated, overlapping), every target, both
  modes, subrange 3, requests of up to two blocks: a subrange shorter and longer
  than a gap, a request shorter and longer than a subrange, and one that is
  refused and split. A run ends, so deadlock is not checked.
* `SolanaSweep`: two relayers, two sweeps, three signatures, of which any may
  have failed, pages and chunks of two: a page leaves an older signature out, a
  list has two chunks. `SolanaProgress` has one sweep and chunks of one, so that
  the budget can end a night after every signature.
* `SnapshotNight`: a primary and an additive chain, three blocks, of which one is
  final at the start and the lookback is zero, so that a chain that is anchored
  wrongly jumps over two blocks; each chain carries settlements in its first, its
  last or all blocks (`Traffic`), so that a head is below, at or above what is
  final; a backfill covers any blocks up to one above the final one, at any step,
  which is what it takes to leave a hole before or behind the check; any one of the
  four mishaps. 2.2 million states.
* `AnchorAttest`: two days of two files, one day a run, three transactions, two
  versions, one revocation. Two days are what it takes to prefer the newest and
  come back to the older; two files make a day that is half written; the third
  transaction is the second try for a day whose first is still pending.
* `WashNight`: four sellers on three chains (two share a chain, one chain has
  cycles only), six hand-picked populations in which every trait that a section
  looks for occurs alone and next to honest sellers, the own payTo and a relayer
  among them, three nights and two
  failures: one night to build evidence, one to lose part of it, one behind.
* `TrustServe`: two connections and five deployments, each with the traffic that
  its hazards need: a payment by GET and by MCP at once, a file that grows twice,
  four requests of three identities over a table that holds one. Two threads
  are enough for a race of two refreshes and for two uses of one payment.
* `InstrumentNight`: three days, one failure or death, one change of a listing or
  an answer; the listings have two legs, a moved payout, two dialects of one
  network and two spellings of one address.
* `StatsServer`: two nights, a chain of the seller index and one that is only
  watched, two failing queries or deaths, one failed refresh or restart: a night
  that carries the figures of an earlier one forward, served by a new process.

Bounded counters: `MaxBlock` and `MaxSlot` end the chain and the history, `MaxDay`
and `MaxNight` the calendar, `MaxTx`, `MaxVersion`, `MaxRevoked`, `MaxFail`,
`MaxFault`, `MaxChange`, `MaxOutage`, `MaxTrouble` and a deployment's `requests`,
`ticks` and `versions` count what happens from outside. `MaxTx` is also in the
guard of `Send`: a run that may not send any more takes `NotSent`. Runs whose
bounds end every behaviour do not check deadlock and say so in their
configuration.

### What does not hold

`IndexNullReceipt` is a run: `index_base.py:98` skips a null receipt and the range
is recorded as complete (`storage.py:10` promises the opposite). The other
counterexamples have a configuration of their own, to be replayed with
`tlc -config <name>.cfg <module>`:

| Configuration, module | Violated | What happens |
|---|---|---|
| `IndexDeepReorg`, `MCSettlementIndex` | `NoDoubleCount` | With the fallback tip and a reorganisation deeper than `confirmations`, a re-scan finds a transfer again under another log index (`storage.py:6`) |
| `SolanaBootstrap`, `MCSolanaSweep` | `ResumesWhereItStopped` | A relayer without a cursor restarts from its newest page (`index_solana.py:71`); what a stopped first sweep had listed is skipped once it is off that page |
| `SolanaStamp`, `MCSolanaSweep` | `StartSlotIsEarliest` | The start slot is stamped once (`index_solana.py:167`); a relayer that comes later brings older slots |
| `SnapshotOutage`, `MCSnapshotNight` | `NothingLost` | An additive chain that is out of reach on the night after the database was lost has no head in that snapshot and starts near the tip on the next (`daily_snapshot.py:75`); one mishap alone is harmless, as `SnapshotNight` shows |
| `SnapshotOverGap`, `MCSnapshotNight` | `NeverOverAnyGap` | A backfill lands above `max_blk` between the gap check and the snapshot (`daily_snapshot.py:1358`, `1396`): the day is written over a hole (`daily_snapshot.py:5`) |
| `SnapshotGapLost`, `MCSnapshotNight` | `NothingEverLost` | The head of such a snapshot is above the hole; when the database is lost, the chain resumes behind that head (`daily_snapshot.py:301`) |
| `AnchorTwice`, `MCAnchorAttest` | `OneAttestationPerDay` | A receipt comes after 120 s: the day is attested again, and both count (`anchor_attest.py:160`); `StraysExplained` is what holds |
| `WashBlindSpots`, `MCWashNight` | `BlindSpotsShown` | The newest cycle night of any chain is taken (`wash_cycles.py:271`): where a chain's pass failed its flags are gone and the row carries that night's date |
| `TrustCache`, `MCTrustServe` | `CacheIsTheFile` | Two refreshes interleave: old lines stay under the new mtime until the file changes again (`trust_api.py:495`); `FreshUnlessRaced` is what holds |
| `PaytoMasked`, `MCInstrumentNight` | `MismatchShown` | A misspelt genesis (`instrumentation.py:79`) and one network per address hide a mismatch; `FeedTrue` names these blind spots (`PairsUp`, `AsksOnce`) and holds outside them |
| `PaytoRotation`, `MCInstrumentNight` | `RotationIsChange` | Two wallets listed side by side, never changed, are a rotation (`payto_watch.py:195`) |
| `CollectorsSpoiled`, `MCInstrumentNight` | `CollectorsIndependent` | `_isolate` does not roll back (`instrumentation.py:734`); `SpillContained` says how far it reaches |
| `CollectorsSpoiled` again, with `-continue` | `FeedIsolated` | A failed sighting query of the feed is swallowed without a rollback (`payto_watch.py:88`), and the wash stage runs into the aborted transaction (`daily_snapshot.py:1463`); `SpillContained` says that it goes no further |
| `StatsStale`, `MCStatsServer` | `StaleShown` | `compute` leaves `stale_chains` out (`stats_server.py:399`) |
| `StatsSections`, `MCStatsServer` | `SectionsIsolated` | The sections of `build_instr_metrics` swallow without a rollback (`daily_snapshot.py:446`) |

Five more disagreements of code and documents were met while translating, where
the model follows the code: the lower-cased Solana relayers of the merchant tier,
the witnessed filter that only one of two counts has, the F of a monoculture
seller, the D of a clean seller with a low score, and the POST routes that draw
from the free bucket. All are in `PROJECT.json` with the lines they quote.

## 4. Fairness

`SettlementIndex`: the chain grows and finalises (weak); the timer starts a run
again and again (weak on `StartRun`); the steps of a run get strong fairness,
because `Die` may interrupt each of them, and the assumption is that a run that
is retried every night does not die at the same step every night. Nothing is
assumed of backfills and reorganisations.

`GapPlan`: weak fairness of the next step; the loops are sequential code.

`SolanaSweep`: a sweep's next step (weak), and for each relayer that is asked
again and again: reading, listing, fetching and committing succeed some time
(strong). Reading and fetching are assumed only in sweeps that have not spent
their time yet, for the budget may always end a sweep after its first chunk
(`index_solana.py:87`, `137`). Without the rotation the property fails.

`AnchorAttest`: the timer starts a run every night with the newest pending days
(strong: the writer holds the attester up again and again); reading a reverted
receipt and ending a run are weak; hashing, sending, seeing the receipt and writing
the ledger are strong, since a run may be killed or time out at each of them, and a
day that is tried every night gets through some night. A sent transaction is mined
(weak). Nothing is assumed of corrections. `EventuallyAttested` excepts a batch that
consists of empty day directories alone, which no later run gets past
(`anchor_attest.py:143`), and the end of the bound `MaxTx`.

`TrustServe`: per connection, weak fairness of the accept loop, of the worker's
next step and of hanging up. A thread runs on, a call of the facilitator ends by
its 12-second timeout, and a silent client is hung up on by the 30-second socket
timeout; no client must ever ask.

`StatsServer`: weak fairness of `Seed \/ Compute \/ Save`: the refresher is a loop
that catches every exception and sleeps for a fixed time. Failures and restarts
have none; neither does the publish step, about which the property only assumes
that it has stored a blob.

`WashNight`, `InstrumentNight` and `SnapshotNight` state safety only: a night that
may be killed promises nothing about when it ends.

## 5. Proofs

All theorems are checked by TLAPS for every value of the constants that the
named assumptions allow: `IndexAssumption`, `PlanAssumption`, `SolanaAssumption`,
`AttestAssumption`, `ServeAssumption`, the two `NightAssumption`s of `SnapshotNight`
and `InstrumentNight`, `WashAssumption`, `RulesAssumption`, `FeedAssumption`,
`BlobAssumption` and `ServerAssumption`. They give the constants their kinds. The
ones that say more take it from the code or the data: no chain stands twice in
`WASH_CHAINS` or in the cycle pass (the tuples of `wash.py:86` and `357`), self-payments are among a seller's settlements, the cap of
flagged sellers is a natural number, no chain stands twice in the order of the blob,
the seller index has a chain (`_SELLER_INDEX_CHAINS`, `daily_snapshot.py:726`), there is
at least one night, every catalog entry has a leg, writing an address
in lower case twice is writing it once, and a bucket that is idle long enough to be
pruned has had the time to fill (`trust_api.py:144`).

Each theorem is proved by an inductive invariant, which TLC has checked on the
instances of section 3 before; the strengthenings themselves (`IndexInv`, `PlanInv`,
`SweepInv`, `NightInv`, `AttestInv`, `ServeInv`, `WashInv`, `CleanInv`, `SignalsInv`,
`InstrumentInv`, `PublishInv` and the parts named below) are not listed in the runs,
being proved.

* `SettlementIndexProofs`: `TypeCorrect`; `IndexInvariant`, under
  `SafeDeployment`; from it `LedgerIsExact` and `IndexImplementsLedger`.
  `LedgerExact` alone is not inductive: a commit is right only if the batch a run
  carries is right, which depends on the authorisations it read, on its subrange
  being inside the plan, and on the plan lying below a tip that no
  reorganisation reaches. `IndexInv` states these for every runner
  (`RunExact`), with `Stable` for the blocks already covered. The refinement
  maps `CommitRange` to `Record`, `Mine` and `Finalize` to `Settle`, and
  everything else to stuttering.
* `GapPlanProofs`: `PlanInvariant`, the conjunction of the loops' invariants,
  and from it `TypeCorrect`, `FrontierIsExact`, `FetchedIsExact` and the action
  property `FetchedOnce`. The walk over the rows needs that rows left behind end at or
  before the frontier or the cursor, and that `ORDER BY` makes the rows ahead
  start no earlier than the current one.
* `SolanaSweepProofs`: `TypeCorrect`, `SweepInvariant`, `NothingSkipped`.
  `NoSkip` is about cursors; its strengthening `SweepExact` says of every sweep in
  flight that what is due below each signature on its list is indexed or still
  on the list, counted from the page the sweep or the relayer started from.
  Overlapping sweeps may move a cursor back; `base` never moves down, which is
  what makes the step of one sweep harmless for the others.

* `SnapshotNightProofs`: `TypeCorrect`; `CheckedStaysChecked` and from it
  `SnapshotsOverNoGap`, for any mishaps and any backfills at any step, up to what a
  backfill passes behind the reading of `max_blk` (`jumped`). The check is made of a
  set that only grows (`Whole`), and a row above `max_blk` can only come from a
  backfill that `jumped` has noted (`Accounted`). `NightInvariant` and from it
  `StartsBehindHead` and `NoSettlementLost`, with the same exception, for deployments
  in which at most one
  mishap happens and only the primary chain is backfilled (`OneMishap`). Two mishaps
  do lose settlements, as `SnapshotOutage` shows, so the condition is needed. Before
  a lost database every head is the highest recorded one; behind it the second
  mishap that could hide a chain from the next snapshot is spent.

  The second part of the module is the end of the same night: the publish step and the
  server of its blob (the module extends `StatsServer` too, whose specification is
  `StatsSpec`). `PublishInvariant`, and from it `BlobIsPublished`, the action
  property `FailuresStayIsolated` and `StatsTypeCorrect`, for any chains, ladder,
  sections, nights and faults. What is stored depends on the whole row of queries, so
  the invariant says for every place in it what the draft holds there: the chains'
  own counts (`ScopedDone`), what was carried from the last blob and noted
  (`CarriedDone`), the merchants (`MerchantDone`), the sections and the tiers
  (`SectionsDone`, `TiersDone`). Two parts explain the figures that are missing without
  a failure of their own: an aborted transaction lives only from a handler that does
  not roll back to the next one that does, and a failure in between is on record
  (`AbortedWhere`); and nothing has failed before its turn (`FailedInTurn`). Which query
  stands at which place is a lemma of its own (`ProgramIs`).
* `AnchorAttestProofs`: `AttestInvariant`, and from it `TypeCorrect`,
  `LedgerIsTrue` and `AttestedStaysFinal`, for any number of days, files, versions,
  transactions and any cap. `AttestedIsFinal` needs that nobody writes a day that
  is attested or about to be: `WritesAlone` (a day in writing has no live anchor,
  and the attester rests meanwhile), `TodoUnattested` and `DayUnattested` (what the
  attester holds has no live anchor yet), and `UidOfDay` (the transaction it waits
  for attests the day and the hash it holds). `LedgerTrue`'s second half, one anchor
  a day, follows from the same. `StraysAreExplained` counts: every live attestation
  outside the ledger was left alone by a run once (`StraysCounted`).
  `VerifierAgreesAlways` needs that a directory with files has the aggregates and
  that a public row is of one reading (`EvidenceWhole`).
* `WashNightProofs`: `WashInvariant`, and from it `HealthyNightsAreExact`,
  `GateHolds` and `LettersAreEarned`, for any populations,
  thresholds, orders of chains, nights and failures. One direction of
  `HealthyNightIsExact` needs that no recorded evidence is invented
  (`EvidenceTrue`), the other that every section has found what was to be found or
  stands in `failed` (`ReciprocalDone`, `CyclesDone`, `LookbackDone`,
  `ConcentrationDone`), down to the chain it is at; `RowsSound` ties a row's letter
  to its evidence, which is all the gate reads. `CleanInvariant`, from it
  `TypeCorrect` and `CleanMetricsExact`: the flags of a night are
  characterised seller by seller (`RecipExact`, `FlagsExact`, `ConcExact`), which
  rests on no section having failed before its turn (`InTurn`); the counts are
  cardinalities of finite sets of rows that are disjoint or nested (`CountIsExact`).
  `SignalsInvariant`, from it `SignalsAreOfRecord`: the table of signals of every
  night behind the scans is exactly what that night had to find, seller by seller
  (`SignalsExact`), and a row of scores exists only for such a night
  (`ScoredSince`), so that a later night can change neither side.
* `InstrumentNightProofs`: `NightInvariant`, and from it `TypeCorrect`,
  `SpillIsContained`, `LedgerRemembers` and the action property `FeedIsOfRecord`, for
  any endpoints, wallets, listings, answers, days and failures. `SpillContained` needs
  that an aborted transaction stems from a failure of the block in work, or of the
  feed while the wash stage is next (`Poisoned`),
  and that a run past the fetch has its catalog (`Fetched`). A ledger entry counts
  its days because a day that is sighted again adds nothing. The feed is true because
  the tables are the history (`Recorded`): what the newest census and offers say of an
  endpoint is one listing and one answer, and outside the blind spots a canonical
  network of the feed is a network of the world.
* `TrustServeProofs`: `ServeInvariant`, and from it `PermitsAddUp`,
  `NoSilentCharge`, `AnswersAreFresh` and, with `InVersions`, `TypeCorrect`, for any
  number of connections, identities, authorisations and deployments. Permits are a
  sum over finitely many connections, kept by one lemma about a worker that joins or
  leaves. A payment is accounted because the only step that settles also answers
  (`SettleAccounts`). Freshness needs that no number runs ahead of the file
  (`NotNewer`), that without a race at most one worker refreshes (`OneRefresh`), and
  that whoever is past the comparison finds lines at least as new as the file was
  when it asked (`NewEnough`). `RateIsBounded` is proved by `Paced`: of every moment,
  what was granted since and what is left in the bucket together are at most a burst
  for each time the identity was forgotten and once more, and the time that has
  passed.

Only model-checked: the liveness properties (`EventuallyIndexed` twice, `Terminates`,
`EventuallyAttested`, `EveryConnectionEnds`, `EventuallyServed`), which are out of
the prover's reach, and the counterexample of `IndexNullReceipt` together with those
described in section 3. Every invariant and every other action property of the passing
runs has its theorem.
The least and the last element of a set of days or nights exist by the well-founded
order of the natural numbers (`WFMin`), which is as far as induction goes here: what
a recursive definition computes is not proved, and no module that is proved about
has one.

## 6. Plan

Done, in order of what the data depends on: the store and its indexers, the
nightly run up to the snapshot, attestation and verifier, scoring with the wash
filter and the evaluate decision, the Trust API with its paid lane, the
collectors with the payTo feed, the publish step with the stats server.

Next:

1. The Permit2 label: two indexers that share the primary key of `settlements`.
2. Enrichment as a second writer of `settlements.facilitator`.
3. Use counters and rate buckets of the stats server.

## 7. Running

    tlc -workers 2 -config IndexConcurrent.cfg MCSettlementIndex
    tlapm SettlementIndexProofs.tla

Each run finishes within three minutes on two workers.

## 8. Not modelled

* Decoding of logs and instructions (a settlement is taken as decoded), ABI and
  Keccak encoding, canonical JSON and signatures: character- and bit-level,
  covered by the repository's vectors.
* `conformance/check.py`: probes of one live endpoint, one request after the other,
  without state. The self-declaration check: one signed file.
* The registry builder, the coverage canary's ratio and the reconciliation script:
  one-shot generation and measurement. The canary's place in the row of stages and
  its rollback are in `InstrumentNight`.
* The Permit2 indexer repeats the planner and the commit of the EVM indexer over
  another contract's events; that a transfer of both labels shares one primary key
  (`storage.py:65`) is listed as a hazard and has no model yet.
* Enrichment: it fills `settlements.facilitator`, which no other model reads.
* Of the Trust API the signed envelopes, request parsing, spec documents, outreach
  pages and the pro history; of the stats server the probe lookups, feeds and
  static pages; of the instrumentation the collectors that only measure (hourly
  counts, facilitator health, tracker reconciliation, unit economics, domain facts),
  which are stages that get through or fail.
* The detector of `wash_cycles.py` (a ring is a trait of a seller) and the scores'
  logarithmic components (one number).
* Dashboards, RSS, registry listings and prose.
