# RiftSense (coaching_lol): a verification development

This directory models the core of the repository in TLA+, checks the models with
TLC and proves what matters most with TLAPS. Paths below are relative to the root
of the repository.

## 1. Inventory

RiftSense coaches League of Legends players. A Cloudflare Worker (`web/cf/src`)
serves the site from Workers KV, a Cloud Run service (`service/`) collects a
player's games from Riot and publishes them to KV and R2, and the owner's computer
(`src/`) runs the same data pipeline in batches, trains the models the service
scores with, coaches from a terminal, and synchronises its results to the same KV.

| component | state | operations | hard part | what makes it correct |
|---|---|---|---|---|
| Collection queue, `web/cf/src/ingest_queue.ts` (Durable Object, one instance) | storage `queue`, `job:{slug}`, one alarm | `enqueue`, `statusOf`, `alarm` | requests run while `alarm` awaits the service; the instance is lost between two writes; alarms come at least once | one collection at a time, first come first served, nobody forgotten, cooldowns kept |
| Registration API, `register.ts`, `ingest_client.ts` | reads `account:{slug}` | `apiRegister`, `apiRefresh`, `callIngest` | KV is eventually consistent, the answer of a collection may be lost | two fences of one cooldown |
| Coaching gate, `coach_gate.ts` (Durable Object per player), `coach.ts`, `game_coach.ts` | boolean in memory, `active_until`, alarm; reviews in KV | `fetch`, `alarm`, `pull`, `cancel`, the flows | streams cancelled or unread, the model's timeouts against the lock's TTL, storage failures | one flow per player, no review lost, never blocked for ever |
| Collection service, `service/riot_ingest.py`, `app.py`, `storage.py` | temporary files of the job | `run` | many puts and no transaction, state read minutes before it is put | raw before visible, bundle before games, later runs repair |
| Collection from Riot, `src/core/riotlib.py`, `collect_role_window` | scan index in KV | `_get`, `fetch_match_timeline`, the search for a role's games | retries, budgets, deadline, an index that outlives its run | the index pays and never lies, failures are not blamed on the player |
| Registry, `seed_accounts.py`, `backfill_summoner_profiles.py`, end of `run` | `accounts:index`, `account:{slug}` | `run`, `seed`, `backfill` | read-modify-write by three programs | no account without record, fields of the service kept |
| Synchronisation, `sync_cloudflare.py`, `refresh_*.py` | local silver and gold | `sync_account`, `push_coaching` | the second writer of the service's keys | does not undo what the service published |
| Feedback and JSONL documents, `feedback.ts`, `readers.ts` | counters, reviews, answers, in KV and in files | `apiFeedback`, `appendJsonl`, merges | whole values put by three writers | an answer is about a review, the last answer stays, the limit holds |
| Local layers, `build_referential.py`, `densify_players.py`, `pipeline.py`, `pipeline_ops/` | raw, silver, gold, `sources.json` | collections, `reextract_silver`, `compress_raw`, `archive_patch`, `rebuild_gold` | several files per match, no lock, kills | rows and raw kept, patches apart, gold follows silver |
| Model pipeline, `Makefile`, `01_data_engineering`, `02_data_science`, `role_readiness.py` | datasets, models, metrics, exports | make targets, trainings, certification | mtimes, identity skips, two writes per training | what is served was certified, what make calls current is |
| Ladder, windows, trainings: `fetch_ladder.py`, `build_role_player_dataset.py`, `train_role_ensemble.py` | snapshot and manifest, tables, sidecar | capture, windows, purge, folds | pages that shift, games shared by both sides of an evaluation | a fair snapshot, a clean evaluation |
| Game record, `riotlib.extract_game`, `game_rows.py` | none | one record per participant | three time bases, roles Riot repeats or leaves out | the records of a game agree |
| Game journal, `game_journal.py`, `journal_signals.py`, `turrets.py` | none | `game_journal` | frames a minute apart, undone purchases, hindsight | the journal is true and has no hindsight |
| Coaching CLI, `src/04_coaching` | `reviews.jsonl`, `feedback.jsonl`, reports | `coach`, `annotate`, `counterfactual`, `retry_errors` | kills between writes, two terminals, retries within retries, stamps of a second | a game counts once, joins are true, runs tell their cost |
| Grounding, `grounding.py` | none | `check_review` | units carried by a sentence | a number is read in the unit its words give it |
| Refresh button `ingest-sync.ts`; chat; router, auth, HTTP; site readings; pages | token and timers of a page, or none | | | not modelled, section 8 |

The components meet in KV. The queue calls the service, which publishes games and
stamps the account; the synchronisation and the seeding put the same keys; the
gate's flows, the feedback route and `push_coaching` put the coaching documents;
the computer's layers feed the datasets, those the trainings, and those the image
the service is built from.

## 2. Plan

Built, in this order: `IngestQueue` with `SerialFifo`; `CoachGate`; `Publication`;
`Registration`, which extends `IngestQueue`; `ModelPipeline`; `LocalLayers`;
`Registry`; `CoachingDocs`; `RiotCollect`; then the programs of the owner's
computer `GameJournal`, `Grounding`, `Generation`, `CoachCommands`,
`LadderSnapshot`, `TrainingWindows`, `GameRecord`, composed in `MCReviews`.

Left:

1. `apiRegisterStatus`: a purged status is answered "done" when the account
   exists (`register.ts:195`).
2. The perturbations of `counterfactual.py` and their verdicts as functions of a
   payload; sequence channels; positioning.
3. Proofs: the liveness properties, if the prover ever takes fairness.

## 3. The modules

Each state machine has a module of its own; `MC...` modules extend it with what a
run needs, `...Proofs` modules with the theorems.

### IngestQueue (`web/cf/src/ingest_queue.ts`)

| variable | code |
|---|---|
| `queue` | storage key `queue` |
| `job` | storage keys `job:{slug}`; `NoJob` for an absent key |
| `alarm` | the alarm slot (always set to `Date.now()`, so set is due) |
| `serving` | `alarm()` is at `await callIngest` for this slug |
| `up` | the instance is in memory |
| `now` | `Date.now()` |
| `ended`, `cuts` | history: last outcome of each slug, losses so far |

`Enqueue` is the whole of `enqueue` past its early returns (`Refused`); a refused
request changes nothing and is no action. `AlarmStarts`, `AlarmFindsNothing` and
`AlarmFinishes` are the two halves of `alarm`. While a handler awaits its own
storage the object receives no event (input gate of Durable Objects), so these
are single steps; `callIngest` is an outgoing fetch, during which it does. The
purge is part of `AlarmStarts`, as in the code. The instance may be lost between
any two storage writes: `EnqueueCut`, `PurgeCut`, `FinishCut` write a prefix of
their handler's writes and take it down, `Cut` is a loss at any other time, and
`Restart` brings it back, with the alarm delivered again when its handler had not
completed. The result of `callIngest` is any outcome.

`Shape` joins what the rest stands on: a slug is stored once, the running job is
the head, who is told "queued" is in the queue. `StatusExplained` says the
converse: an entry without status is old or was cut, one with an outcome is
replayed after a loss.

`SerialFifo` is what the queue promises: a line without duplicates, served one at
a time in order, an interrupted service first in line again. `IngestQueue` maps
the stored queue, less the head being collected, to the line; `ImplementsFairFifo`
is that mapping, and the fairness of the server when the object is never lost.

### CoachGate (`coach_gate.ts`, `coach.ts`, `game_coach.ts`, `readers.ts:202-210`)

| variable | code |
|---|---|
| `holder` | `this.active`, with the request that set it (`NoFlow` is false) |
| `untilLeft`, `alarmLeft` | `active_until` and the alarm, as time left |
| `phase` | where a request is between `fetch` and the end of its stream |
| `open` | its guarded response has not called `release` |
| `attempt`, `genLeft` | calls to the model so far, time left of the present one |
| `snapshot`, `reviews` | what `appendJsonl` has read; the value in KV |
| `loose` | history: flows that lost the lock before their end |

`Fetch` takes the lock, `FetchFails` is each failure of its storage calls,
`Throws` the exception path, `Answers` the responses without a call to the model,
`Starts`/`Retries`/`GivesUp` the attempts, `Reads`/`Writes` the two halves of
`appendJsonl`, `Drains` and `Cancels` the two ends of the stream, `Alarm` the TTL,
`Evict` a loss of the instance, `Tick` the clock. Deadlines are kept as what is
left of them, which makes the state space finite without a bound on the clock.
A cancelled stream does not stop the flow: it goes on until its next event.
`LEGACY_TTL` is the 30-minute deadline an older version may have left in storage
(the comment at `coach_gate.ts:25-28`).

### Publication (`service/riot_ingest.py`, `sync_cloudflare.py`, `payload.py`)

One player. Games are numbered as they are played; the value of a KV key is the
set of games it reflects.

| variable | code |
|---|---|
| `kv` | `game_payloads`, `games`, `gold`, `account`, `role_shap` keys (`kv_keys.py`) |
| `r2` | raw documents in R2 |
| `job` | the `run()` under way: games read from KV (`base`), games collected (`new`), payloads built (`items`), the next put (`step`), the owner's puts before it (`since`) |
| `pc`, `sync` | the owner's silver and raw files; `sync_account` under way |
| `played`, `failures`, `puts` | Riot's history; history counters |

`Collects` is `run()` from its read of the games to the end of its collection,
`PushesRaw` the push of the raw and the incremental `build_game_bundle`, `Puts`
one `kv.put` after another in `RunOrder`, `Fails` an exception or a kill anywhere.
`PcCollects`, `SyncStarts`, `SyncPuts`, `SyncStops` are the owner's side. The gold
scopes are put in a row and are one key; the rank and the scan index carry no
game and are left out. The account stands for its `last_ingest_ts`. A payload can
be built whenever the raw is available (a missing referential or a game that is
not eligible are left out). The service handles one request at a time: one
gunicorn worker with one thread (`Dockerfile`), and one collection at a time by
the queue; two containers at once are out of the model.

### Registration (`register.ts`, `ingest_client.ts`, the end of `run()`)

Composes the routes, the queue and the service: it extends `IngestQueue`, whose
actions it guards and whose calls it fills in. `ingests` holds the values
`last_ingest_ts` of each account has had in KV, `work` what the run `alarm()`
awaits has done, `late` (history) the slugs with a run whose call is over and
which may still stamp. `ApiRegister` and `ApiRefresh` are the routes that get past
their own refusal (`MayRegister`, `MayRefresh`) and past the queue's; `ApiCut` the
same with the queue lost between its writes. `CallStarts`, `Stamps`, `CallEnds`
are the call of the service: it answers "ok" only after its stamp; a call that
ends before the stamp (a lost answer, a loss of the queue) may leave the run at
work, to stamp later (`StampsLate`). `Readable` is what an eventually consistent
KV may answer: any value not yet replaced for `STALENESS`. `CooldownKept` joins
the spacing of the requests let into the queue and that of the stamps. Every route
on every account is possible at all times; the slug, its conflicts (409) and the
formats of the input are left out.

### RiotCollect (`riotlib.py`, `service/riot_ingest.py`, `main_role.py`, `role_scoring.py`)

One account. `history` is Riot's list of games with the position of each,
`scanIndex` the index in KV, `run` the collection under way (its step, games to
look at, harvest, failures, clock and its own copy of the index), `analysis` and
`told` the last published analysis and the last answer. A run reads the profile,
detects the role, searches deeper for games of that role until it has enough, the
deadline passes or too many fetches failed, puts its index, and publishes or
answers an error; every attempt of `_get` may succeed, be refused or be slow.
Time is counted in the deep phase only, where the deadline is. The raw cache of
the job is left out; a failure of KV or a kill is `Breaks`. The order of games
with the same count is arbitrary.

A hole in the window: when more than `PROFILE_GAMES` games were played between
two runs, or a fetch failed in a published run, the window of the role misses
games that Riot has, despite "Agrégat des n dernières parties du rôle, identique
à l'entraînement" (`role_scoring.py:87`); `WindowIsNewest` excepts exactly these.
`DeadlineHeld` gives the overrun: the calls of one game, 2 calls of 6 attempts.
With the code's constants that is 480 s and up to 2 × 150 s, beyond the 600 s of
gunicorn that `Dockerfile:36-38` holds to cover the worst case.

### Registry (`seed_accounts.py`, `backfill_summoner_profiles.py`, end of `run()`)

`index` and `account` are KV; `job`, `seed` and `fill` the three programs, call by
call, each holding what it read; `unlisted` (history) the accounts a stop or a
crossed put left out of the index. An account is its source, creation, stamp and
profile. One `run()` at a time, KV linearizable; seeding and backfill at any
moment, stopped anywhere. The next collection of a slug heals its listing.

### CoachingDocs (`feedback.ts`, `readers.ts`, `sync_cloudflare.py`, `04_coaching/feedback.py`)

`reviews` and `answers` of one player in KV and in the files of the computer, the
counter of one visitor in one hour, the requests in their steps (find the review,
count, read, put), the flow's append, the annotation in the terminal and the two
halves of a push. A review is its unique `ts`, an answer the time it was given; the
order of rows is abstracted. `DocumentsKept` excepts what the merge does on
purpose or by its crossing: the docstrings "préservés" of the seeding and "le local,
plus récent … gagne" of the merge are wrong when two puts cross, or when the file
holds an older answer.

### LocalLayers (`src/collection`, `src/pipeline_ops`)

A match is its two raw documents and its rows, named by player and patch. One
rank collection, one personal collection and one maintenance command at a time,
interleaved file by file without lock. Writes of a raw `.zst` and of
`sources.json` open and close (torn between); JSONL, gold and densify's sources
are atomic. A file moved by the archive while it is written counts as written
after the move. The sampling takes any players. The histories `ever`,
`overlapped`, `interrupted`, `gap`, `twice` serve the properties only.

### ModelPipeline (`Makefile`, trainings, `role_readiness.py`, `service/role_scoring.py`)

A file is the set of `<<source, version, population>>` it was made from; `newer`
stands for the mtimes make compares. Each script reads its inputs when it starts
and writes its outputs one by one; sources and code may change meanwhile; kills
anywhere; `--force` and deletion by hand. `model_id` is a function of provenance
(taken as injective). The image copies the files at any moment. One role of
five; the gold and SHAP targets are left out.

### GameJournal (`core/game_journal.py`, `journal_signals.py`, `turrets.py`)

The environment is the timeline: `Pass` writes a frame every minute, `Happen` adds
an event the rules of the game allow (a monster dies when it is up, a tower once,
one undoes a purchase one holds), `Finish` writes the last frame. The journal is a
function of it (`Deaths`, `Known`, `Consequences`, `Recalls`, and the signals they
call); `told` (history) keeps the entries of the deaths as of their instants. The grid
is half a minute, timers are brought forward, a position is a zone and a depth, the
recap of damage is left out.

Two observations the properties except: the gold state and the support of a death
are read from frames filed by the nearest minute, so the last frame of a game may
replace the one the death was entitled to (less than a minute of hindsight,
against the header at `game_journal.py:7-11`); and a recall's cost may be measured
over 90 s to 150 s instead of 120 s when the last frame of the game is the one filed
under its second minute. (The longer side is beyond the bounds of the run: the proof
found it, and `VisitsAreFair` says both.)

A purchase is its place among the events, a visit a set of places; the undos and
the grouping of the visits are folds over sets of places, in their order.
`JournalAssumption` says that what is recorded is dated, of a type the journal reads and
signed, and that the timers are those of distinct monsters.

### GameRecord (`riotlib.extract_game`, `game_rows.py`)

A game as it is recorded: `RecordInit` and `RecordNext`. A lineup (roles may be missing or repeated), frames and events as above, and
`ExtractAllGames`, which makes one record per participant; `GameToRow` is a row.
Gold, experience and creeps are one quantity; zones, champions, items and
positioning features are left out.

Observations: "early" ends at minute 14 after rounding for the deaths' phases
(`PHASES`), before minute 14 after rounding for `support_deaths_early` and the frames
in base, and before 14:00 in milliseconds for plates and jungle, although the
comment of `EARLY_END_MINUTE` calls it the bound of the phase; `EarlyAgrees` holds for
what is clear of these boundaries. A monster without a team is nobody's ally in
`_objectives_timeline`, while `_jungle_metrics` falls back on the killer's team.
`_jungle_pathing` takes the last jungler of a team, `find_pid` the first. An execution
counts as a solo death nobody made.

### Grounding (`grounding.py`)

A text is a sequence of words (numbers, clocks, unit keywords, breaks, names), which
`WriteWord` extends; `AddInsight` closes an insight. `CitedNumbers` is the scan of the
numbers with one cursor over the unit states, a fold over their positions: a state is a
place of the text (word `i` begins at `2i`, `2i + 1` is within it) and the cursor the
place of the last state passed. `PayloadIndex` is the walk of the payload,
`InheritedUnit` what its nodes hand down a path; `ClassifyNumber` and
`CheckReview` are the verdicts. `index` is the payload's index, built once as in
`check_review`. `GroundingAssumption` is what the spelling of numbers and
the dictionaries of a payload allow. Values are in thousandths; the windows of 8 and 24
characters, accents and the spelling of the expressions are abstracted. Seen on
the way: a decimal *point* inside a number resets the unit in force
(`grounding.py:145-156` excepts only the comma), and a leaf's own key name beats the
unit its parent declares.

### Generation (`coach.py`, `llm_client.py`, `schema.py`)

`stage` holds the calls of each stage of a review: attempts of the call inside attempts of
the schema, two specialists in parallel and a chief, or one author. `Post`,
`Written`, `Unusable`, `Refused` and `Tick` are the call; `Gather` and `Conclude` what is
made of the answers. The properties: what is published was written by the
specialists and chosen by the chief, the run tells every call paid, and time and
posts are bounded. With the code's constants the worst case of a specialised
review is 2 × 3 × (4 × 180 + 12) s, over an hour. An identifier is a triple (axis,
section, place), and `GenerationAssumption` is what the schemas say of the types. Attempts of a call that ends in
`LLMError` leave no trace in a run.

### CoachCommands (`coach.py`, `feedback.py`, `payload.py`, `counterfactual.py`)

`job` is what each terminal runs: a batch, a game, a synthesis, annotations, a
counterfactual experiment, a retry of its errors; `reviews`, `feedback`, `failed`,
`report` are the files, appended or replaced one write at a time, with `CommandKilled` at any
moment. The lists the code sorts and truncates (the games a batch owes, the sample of a
synthesis) are sets of rows and their order (`Newer`, `Later`), a batch's choice a fold
over them from the newest on. `judged` (history) is what was last answered about each review. Counters,
texts and tags are left out; an answer is a function from items to Booleans; the
verdict on a perturbation is the model's choice. Two commands that stamp a review
in one second share a timestamp, and with it their answers: `Twin` is the excuse.

Observations: `_review_matches_scope` (`payload.py:164-176`) keeps a review in its
recorded scope even when its role is known and differs, although its docstring
speaks of a fallback for old lines; `pipeline.run_coach` hands the tuple of
`generate_review` to `persist`; the reports of `counterfactual.py` are not written
atomically; menu choice 0 of the annotations is the last tag.

### LadderSnapshot (`fetch_ladder.py`)

Two captures of one day over a ladder whose players climb, fall and leave:
`ReadApex` and `ReadPage` are calls, `Invalidate`, `WriteBlob`, `MarkComplete` the three
writes, `Killed` anywhere. A page is the set of the players whose places lie between two
`PageEnds`; `LadderAssumption` says that a player has one place on the ladder and that
`_MAX_PAGES` pages reach past its end. A player whose division shifted between two pages may be
missing; of one read twice the first rank is kept. Two captures that cross may leave
the rows of one under the time of the other, when their counts agree.

### TrainingWindows (`build_role_player_dataset.py`, `train_role_ensemble.py`, `cv_common.py`, `sequence_data.py`, `audit_leakage.py`)

Players play and are collected, the per-game table and the windows are built, the
ladder is captured again, builds are killed; a training is then looked at:
`TrainRole` with its held-out players and purge, `TrainEnsemble`, `TrainSequence` and
`AuditLeakage` with the sides they compare. One table stands for the three per-game
tables. A training ends the behaviour. Seen: the sidecar is written after the table,
and a kill between the two leaves that of another table (`torn`); an empty result
leaves a full table in place; the features of the training side are computed anew
from the present table while held-out players are scored on stored windows.

### MCReviews

The last seven modules share no state and are bounded explorations of one program
each. `MCReviews` extends all seven and puts them side by side: `subject` chooses
which one a behaviour is about, the variables of the others stay as they begin, in one
of their initial states, and each step of `Next` is one whole next-state relation. TLC reports these seven steps; run alone under
the same constants, every action of every one of them fires.

## 4. The runs

| run | question | answer |
|---|---|---|
| `ingest_queue` | Two players, a clock that outlasts the purge, a loss anywhere: are storage and statuses explained, cooldowns kept, does the object implement the first-come-first-served server, a fair one if never lost, and does every armed entry leave? | yes |
| `coach_gate` | While no flow was left at work or outlived its lock, is there one flow and is no review lost? Is a blocked player unblocked, whatever clients, KV and storage do? | yes |
| `coach_gate_close` | Is the lock kept until the stream that took it closes (`coach_gate.ts:6-8`)? | no: an older flow's release drops it |
| `publication` | Both writers, failures anywhere: raw durable, bundle and order of puts right, nothing hidden by a collection nobody crossed, the newest games visible for good? | yes |
| `registration` | Stale reads, lost answers and a loss of the queue: is a slug let in only a cooldown after its last stamp, and stamped at most once per cooldown? | yes, but for runs that outlived their call |
| `model_pipeline` | Do make, trainings, kills and hand edits leave a served model that was certified, a set of models that belong together, and targets that make rightly calls current? | yes, with the excuses of section 7 |
| `local_layers` | Do collections and maintenance without a lock keep rows and raw, keep patches apart, and bring gold back to silver? | yes, but for what overlapped or was interrupted |
| `registry` | Do `run`, `seed` and `backfill`, crossed and stopped anywhere, leave index and records in agreement and keep each other's fields? | yes, but for crossed puts |
| `coaching_docs` | Do site, terminal and push keep the reviews, the last answers, their joins and the limit of votes? | yes, but for crossed puts |
| `riot_collect` | Failures, slow calls, runs that break: does the index pay, is the blame true, is the window the newest, is the deadline held? | yes |
| `riot_collect_role` | Is the role of the analysis the most played (`service/main_role.py:25`)? | no: games of a support count for no role |
| `reviews` | Is the journal true and without hindsight; are units and verdicts those of the sentence; is a review its authors'; do games count once and answers join; is a snapshot fair, a training clean; do records agree? | yes |

The two findings are explained in `PROJECT.json`. Other disagreements with comments
and docs that the models met, not run here:

- A running slug is still in the stored queue, unlike `ingest_queue.ts:110-111`.
- The gate does not keep two calls from overwriting the same JSONL
  (`web/README.md:122-123`) once a flow was cancelled or outlived its lock: what
  `ReviewsKeptUntilLoose` leaves open.
- The oldest game of the window is for a moment visible without its payload, against
  `web/README.md:92-93`; `BundleFollows` says how far it goes. The synchronisation replaces
  the whole list of games (`sync_cloudflare.py:161`), against `web/README.md:85-86`.
- A role's training is skipped when its identity did not change, and the identity does
  not see values, labels or protocol (`train_role_ensemble.py:476` against
  `Makefile:11-14`): what `MakeIsCurrent` excepts. `make plan` is then never clean.
- A torn raw document ends the collection that reads it (`riotlib.py:322`), against the
  docstring at `riotlib.py:358-359`.

### Bounds

- Queue: two slugs make every pairwise interleaving (the mapping to the server is
  proved for any number). `JOB_TTL` 4, cooldown 3, short window 1 and a clock up to 6
  let a job settle, be refused, be accepted and be purged; one loss falls anywhere.
  `MaxNow` stops the clock, and with every job refused for good the system may
  really stop: `CHECK_DEADLOCK FALSE`.
- Gate: TTL 4 against a call timeout of 3 keeps the order of the real 4 and 3 minutes;
  three attempts outlast the lock by far. Two flows are one that lost the lock
  and one that holds it. `LEGACY_TTL` 6 is beyond the TTL, as 30 minutes are.
- Publication: a profile of 1 and a bundle of 2 games with 3 played let a game leave
  the profile and then the bundle; one failure and three puts of the owner's computer
  make one full synchronisation and any partial one.
- Registration: a public and a curated account, cooldown 2, fresh window 3, staleness 1,
  a clock up to 3 (4 with two accounts and 8 with one were run too).
- Model pipeline: two changes from outside, goal `pipeline` (both goals were run too,
  4.3 million states).
- Local layers: three commands, each stopped anywhere.
- Registry: three slugs of each origin, three collections, two scripts, one stop.
- Documents: two requests at a time, two reviews, two answers, five votes, two pushes.
- Riot: two positions, a profile of 1, 2 games wanted, 3 scanned, a deadline of 1, two
  attempts, 4 games played (13 million states and positions "?" and off the map were
  run too).
- Reviews: three events in three and a half minutes; two insights; two attempts of
  either kind and a delay of 1 (2 was run too); two terminals with a batch of 2; two captures of a
  ladder; four games and four commands around a training (five games were run too);
  two events in three minutes of a record (three were run too). Every mutant of these
  modules is found within these bounds.

Bounds on commands, votes and clocks end behaviours the programs would continue: the
runs that have them say `CHECK_DEADLOCK FALSE`. Time is a counter of units: what
matters is the order of the windows, which the theorems do not fix beyond the named
assumptions of each module.

### Fairness

- Queue: the runtime delivers a due alarm and reloads a lost object; a call of
  the service ends (Cloud Run kills a request at gunicorn's `--timeout 600`).
  Visitors owe nothing.
- Gate: time passes, a due alarm is delivered, a call of the model ends by its
  `AbortSignal` timeout. Neither the client, nor KV, nor the model's answer is kind.
- Publication: a player is refreshed time and again (the claim is about what
  refreshes achieve), and a `run()` that does not fail goes on. Failures and the owner's
  puts are finitely many by their bounds; the claim is about what follows them.

## 5. What is proved

All proofs hold for every value of the constants that satisfies the modules'
assumptions; TLAPS checks them (SMT, Zenon, LS4) to the last leaf. Type invariants are
theorems and not properties of the runs.

**RegistrationProofs, the queue.** `TypeCorrect`. `ShapeCorrect`: its three parts are inductive
together. `AlarmPendingCorrect`: an idle object with work has its alarm set, or an
instance was lost. `RunningNeverRequeuedCorrect`. `SpacingCorrect` is an action
property and says nothing between its two moments; `SpacedInv` does: a slug in the
queue is past its window, and one that is not either still has the status of its
last outcome or is past its window. A purge keeps it because the windows are at most
`JOB_TTL`, a request because it is accepted only when `Refused` is false.
`FifoRefinement`: every step, cut or not, maps to a step of `SerialFifo` or to a
stutter: the mapped line of `AlarmStarts` is the tail of the previous one, `Without` of
a head is its tail, and a loss during the call is the abstract interrupt.
`StatusExplainedCorrect`: what a missing status says of the age of an entry is not
inductive; `AgeInv` adds that no entry is asked after now, and that without a loss it
was asked no later than its status was last written, so that the purge of a status,
which looks at `updated_at`, only leaves entries older than `JOB_TTL`.

**SiteProofs, the gate.** `GateTypeCorrect`; `LockIsFreeableCorrect`: the boolean belongs to an
open response and its alarm is set; `ExclusionCorrect`; `ReviewsKeptCorrect`. The
invariant `GateInvCorrect` proves is
`LockIsFreeable`, which flows are open (`Streams`), `HolderAlone`, and
`FreshSnapshot`: while no flow is loose, whoever appends has read what is stored.
Exclusion alone is not inductive: it takes `Streams` to know that dropping the
lock ends the flow that dropped it.

**PublicationProofs.** `TypeCorrect`; `VisibleHasRawCorrect`, from `RawInv`: what a
collection or a synchronisation holds has its raw; `ServiceInOrderCorrect` and
`ServiceKeepsGamesCorrect`, from `PublishInv`: a collection that nothing crossed still
finds the games it read (`BaseInv`), and what it has put are its games (`OrderInv`). `BundleFollowsCorrect`,
from `JournalInv` (as long as the owner's computer has put nothing, every game is in R2
before it is visible, and the bundle is the whole window of the games that will be) and
`RepairInv` (what R2 holds of the window is in the bundle a collection puts). The
window is the newest games of a finite set of numbers: lemmas on its cardinality say
that a union reaches no further back than its parts.

**RegistrationProofs, the composition.** `QueueCarriesOver`: this system is an `IngestQueue`, so the
theorems above hold of it. `RegTypeCorrect`. `RequestSpacingCorrect`,
`StampSpacingCorrect` and, from both, `CooldownKeptCorrect`. `KnownInv`: a stamp of an
account that is not in the queue is either known to the queue, whose job was settled
after it, or old enough to be seen by every read, unless a run outlived its call; a
route that did not see the stamp then asks a queue that refuses, for the cooldown after
a success and after a failure for the short window, which is longer than the staleness.
`WaitsInv`: a slug in the queue has no stamp within the cooldown, except between the
stamp and the end of the call that awaits it.

**ModelPipelineProofs.** `ServedCorrect`: a model the service accepts is the one its
certification was written for, whatever was killed, forced or deleted.
`MakeIsCurrentCorrect` and `ModelsCoherentCorrect`, from `PipelineInv`. Neither
property is inductive: both speak of the end of a make, and a make skips what is not
older than its prerequisites, so what it leaves depends on what was on the disk before.
`FileInv` says what dates mean there. While nothing a file depends on is newer, it holds
the versions of its prerequisites (`Linked`); a source that make does not
see as newer was read, or changed under the script that was reading it (`Based`, `Silvered`); the
metrics name the dataset present, or the code has moved (`Named`); the files of one
training carry one identity (`Trained`, `Measured`). `Progress` says that the order of a
make is sorted for the graph (a fact about how `Order` concatenates the prerequisites of a
goal) and that the targets it is through with are good as long as nothing changes.
At the end no target is left and every one is good (`EndFacts`).

**LocalLayersProofs.** `RowsKeptCorrect`, `PatchesApartCorrect`, from the types and from what
each command holds between its read and its write. `RawKeptCorrect`: `RawInv` says that
a document is safe for the rows on the disk and for those a command still has to
write, and that the one `compress` removes has its compressed twin whole.
`GoldFollowsCorrect`: between two commands the gold is that of the silver; during one,
`UpToDate` says which of the two the command will still bring in line with the other.
`SnapshotIsFairCorrect` is about `LadderSnapshot`: a run keeps every rank
each player held since it started and gave one of them (`Holds`); in a division
nobody has left, a player it has not read is below the page it is at (`Passes`); the file
of a complete day is one run's (`BlobIsWhole`, `WritesInOrder`).

**CoachingDocsProofs.** `TypeCorrect`. `NoOrphansCorrect`, from `OrphanInv`: what a request
or a push holds between its read and its put is about reviews that are known, and the
known reviews only grow. `VoteBudgetCorrect`, from `VotesInv`: a put that drops counts of
others drops at most a limit of them. `DocumentsKeptCorrect` needs `GivenInv`: no copy
of an answer is ahead of the last one given, so the answer of a request that put what it
read last is newer than what it replaces. `GenerationIsTrueCorrect` is about `Generation`.
The cost of a review is not inductive by itself: `Clocks` says that a stage under way
has added up the time of its finished calls and ends the present one
within what its attempts allow, that a finished one is as late as it says, and that the
chief starts when the slower specialist ends; `Counts` that posts and outputs are those
the stages account for; `Chosen` that the result is what the chief chose. That each
insight is quoted once rests on `RanksAreOnto`: the first places of a sequence have the
ranks 1, 2, ... up to their number (an injection between finite sets of one size).
`NoHindsightCorrect` is about `GameJournal`: until the game is over every entry is still what
it was (`Remembered`), because no field of `Known(e)` reads an event or a frame later than
`e` (`KnownStays`, one lemma per field); when the last frame is written the two fields
read by the minute may change, and only if that frame is filed under the death's
(`FinishRemembers`).

**CoachingDocsProofs, the journal.** `JournalIsTrueCorrect`. The invariant `JournalShape`
says that events are in order and no shop makes two moves at one instant
(`InOrder`), that the frames are a minute apart but for the last (`Regular`), and that no
monster died before its first spawn (`Played`). The rest is about the operators.
`KeptIsRemaining`: taking back, undo after undo, the last purchase left of an item leaves
exactly the purchases after which no prefix of the moves holds more undos than
purchases of the item (a counting argument, one undo at a time). `VisitsAreVisited`: the
visits are an ordered partition of what is left, cut exactly where two neighbours
are too far apart. `CostIsFair`, `SpikeIsNear`, `DeathIsFirst`, `AnnouncedUp` and `ClueIsLast` are the
facts told of a visit or a death.

**SiteProofs, the registry.** `TypeCorrect`; `IndexMatchesCorrect`, from what each program has read in the
index or put (`Inv`); `IndexKeptCorrect`: an account leaves the index only by a put of a
program that had read the index before; `FieldsKeptCorrect`.

**RiotCollectProofs.** `TypeCorrect`; `IndexPaysCorrect`; `DeadlineHeldCorrect`. The
invariant joins the types, the truth of both indexes, which games a run may dismiss,
the calls of a step, and the clock. `BlameIsTrueCorrect` and `WindowIsNewestCorrect` take a
second invariant, `SeenInv`, above the first: the games of a run span the history from
its top down to where it looks (`Span`, `Phases`), the ones it passed over are known not
to be of the role or were cut by a failure it remembers (`Profiled`, `Scanned`, `Hurts`), what
it counts is what it has (`Counted`, `Done`, `Closed`, `Mapped`); the answers follow when
it closes.

**ReviewsProofs.** Seven properties of four programs that `reviews` explores.
`RecordsAgreeCorrect` (assumption `RecordAssumption`): a state has one record per participant,
made of the frames and events there are (`RecordInv`); that the sums of the rows
agree is then about sums: the sizes of disjoint sets add up to the size of their union
(`SumOfSizes`). `TrainingIsCleanCorrect` (`TrainingAssumption`), from `TrainingInv`: windows
hold games that were read and ranks that were captured, and the sidecar of a build under
way is that of its windows. The groups of the audit come out of a union-find forest:
a root joins exactly the rows that a chain of shared games and players connects.
`GamesCountOnceCorrect` and `JoinsAreTrueCorrect` (`CommandsAssumption`), from
`CommandsInv`: a batch has before it games it owes, disjoint from those it wrote, and
what a command owes is named by the files as they were when it began; two reviews of
one command have different seconds; an answer is found under the second of its review;
every row of a report names a review that is there. That a batch takes the newest games is an
induction on the sets its choice folds over. `UnitsFollowSentenceCorrect` and
`VerdictsAreFairCorrect` (`GroundingAssumption`), from `GroundingInv`: the index is that of the
payload, read once, and the words are the payload's. The cursor of the scan is always on
the last state before the number read, so one pass gives each number the unit a search
of its own would; the unit handed down a path is the last one declared on it.

**Induction.** What a fold computes is proved without a theorem that takes an operator: the
claim is the membership of each subset in a set `Good`, and `SubsetInduction` rests on
the strict order of the subsets of a finite set being well-founded. `FoldExists` gives
the fold as a function on the subsets; from there a proof about a fold has one step,
an element more.

The assumptions named are on constants only; TLC evaluates each one in the run of its
module, those of the last seven programs in `reviews`.

## 6. Only model-checked

Every safety invariant and action property of the passing runs is a theorem. Only
model-checked is everything with fairness (`QueueDrains`, the fair half of
`ImplementsFairFifo`, `Unblocks`, `ProfileBecomesVisible`): liveness and ENABLED are out
of the prover's reach. The provers also do not expand `SelectSeq` and `SortSeq`: what
a theorem speaks of is stated with sets and folds over them, and the two that are left
(what is lost and taken after a death, and the median of the creeps, in
`GameJournal`) are values no
theorem looks into.

## 7. Excuses

Properties name the circumstances in which the code does less. They are histories of the
modules, and each is a hole a reader should know: `cuts` (a loss of the queue between two
writes), `loose` (a flow left at work), `late` (a run that outlived its call),
`unlisted`, `orphaned`, `crossings` and `CrossedPut` (two programs read before either
put), `overlapped`, `interrupted` (two commands on one file, a kill), `gap` (in
`RiotCollect` a published run that left a hole, in `LocalLayers` a kill between silver
and its first `sources.json`), `crossed` (sources that changed under a script that had
read them), `cut` (a training killed between its files), `torn` (windows without their sidecar), `Twin` (two reviews of
one second), `FiledLate` (a frame of the next minute).

## 8. Not modelled

- The refresh button (`ingest-sync.ts`): its tokens are for a page that changes its
  account, and `client/App.vue:307` gives every account a page of its own (`:key`).
  There the watcher of the slug (`ingest-sync.ts:180`) never fires, and what an
  unmounted page still does nobody sees. A page that kept its instance would show the
  connection error of an earlier account: the `catch` of `ingest-sync.ts:170` does not
  compare its token.
- `apiRegisterStatus`: a purged status is answered "done" when the account exists
  (`register.ts:195`); planned, section 2.
- The consistency of KV beyond `Registration`: elsewhere KV is a register.
- More than one instance of the service at a time.
- Router, authentication, HTTP helpers, evaluation reads, curation, positioning:
  functions of their input, no state.
- Chat: streams one answer, and has nothing to race with.
- Prompts, the aggregates of payloads, the perturbations of the counterfactuals.
- Calibration, SHAP, experiments, reporting, proof of concept: statistics.
- Pages and components of the site: rendering.
