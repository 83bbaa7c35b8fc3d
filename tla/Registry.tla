-------------------------------- MODULE Registry --------------------------------
(***************************************************************************)
(* The registry of accounts in Workers KV: the key accounts:index and one  *)
(* key account:{slug} per player.  Three programs read it and put it back, *)
(* without a lock: the collection service at the end of run()              *)
(* (service/riot_ingest.py), seed() of seed_accounts.py, which publishes   *)
(* the configured accounts, and backfill() of                              *)
(* backfill_summoner_profiles.py, which completes icons and levels.  Each  *)
(* may stop between any two calls, and any of the three may write what     *)
(* another has read.                                                       *)
(*                                                                         *)
(* A put is called crossed when the value it replaces is no longer the one *)
(* its program has read.                                                   *)
(***************************************************************************)
EXTENDS Naturals, FiniteSets

CONSTANTS
    Slug,          \* the players
    Curated,       \* those of config/accounts.json
    WithIcon,      \* of these, those the file gives an icon and a level
    MaxRuns,       \* bound of the collections
    MaxScripts,    \* bound of the runs of seed() and backfill() together
    MaxStops       \* bound of the programs stopped half way

ASSUME RegistryAssumption ==
    /\ Curated \subseteq Slug
    /\ WithIcon \subseteq Curated
    /\ MaxRuns \in Nat
    /\ MaxScripts \in Nat
    /\ MaxStops \in Nat

VARIABLES
    index,       \* accounts:index
    account,     \* account:{slug}, NoAccount when the key is absent
    job,         \* where run() is at the registry
    seed,        \* where seed() is
    fill,        \* where backfill() is
    runs,        \* collections so far: the date of last_ingest_ts
    scripts,     \* runs of seed() and backfill() so far
    stops,       \* programs stopped so far
    unlisted     \* history: accounts a stop or a crossed put left out of the index

vars == <<index, account, job, seed, fill, runs, scripts, stops, unlisted>>
bounds == <<runs, scripts, stops>>
-----------------------------------------------------------------------------
(* The icon and level of an account: none, those of the configuration, or  *)
(* those of a game.                                                        *)
Profile == {"none", "seeded", "read"}

(* The fields some program owns: source is everybody's, created and stamp  *)
(* (created_at, and last_ingest_ts with puuid) are the service's.          *)
Account == [source : {"curated", "public"}, created : Nat, stamp : Nat,
            profile : Profile]

NoAccount == [source |-> "none", created |-> 0, stamp |-> 0, profile |-> "none"]

Accounts == {s \in Slug : account[s] # NoAccount}

Idle == "idle"
NoJob == [step |-> Idle, slug |-> Idle, read |-> NoAccount, slugs |-> {}]
NoSeed == [step |-> Idle, slug |-> Idle, read |-> NoAccount, slugs |-> {},
           todo |-> {}, index |-> {}]
NoFill == [step |-> Idle, slug |-> Idle, read |-> NoAccount, todo |-> {},
           force |-> FALSE]

(* The account of run(): the existing fields, and over them what it saw.   *)
(* The icon and level of the newest game are kept from before when the     *)
(* player is not among its participants.                                   *)
Collected(existing, seen) ==
    [source  |-> IF existing = NoAccount THEN "public" ELSE existing.source,
     created |-> IF existing.created = 0 THEN runs ELSE existing.created,
     stamp   |-> runs,
     profile |-> IF seen THEN "read" ELSE existing.profile]

(* Mutant: SEED_ONLY_FIELDS put over those of the account.                 *)
MutSeeded(s, existing) ==
    [existing EXCEPT
        !.source = "curated",
        !.profile = IF s \in WithIcon THEN "seeded" ELSE @]

(* The account of seed(): the record of the configuration over the         *)
(* existing fields, but for an icon and a level already there.             *)
Seeded(s, existing) ==
    [existing EXCEPT
        !.source = "curated",
        !.profile = IF @ = "none" /\ s \in WithIcon THEN "seeded" ELSE @]
-----------------------------------------------------------------------------
Init ==
    /\ index = {}
    /\ account = [s \in Slug |-> NoAccount]
    /\ job = NoJob
    /\ seed = NoSeed
    /\ fill = NoFill
    /\ runs = 0
    /\ scripts = 0
    /\ stops = 0
    /\ unlisted = {}

(* run() has published the games of s and reads its account.               *)
RunReads(s) ==
    /\ job = NoJob
    /\ runs < MaxRuns
    /\ runs' = runs + 1
    /\ job' = [NoJob EXCEPT !.step = "put", !.slug = s, !.read = account[s]]
    /\ UNCHANGED <<index, account, seed, fill, scripts, stops, unlisted>>

RunPuts(seen) ==
    /\ job.step = "put"
    /\ account' = [account EXCEPT ![job.slug] = Collected(job.read, seen)]
    /\ job' = [job EXCEPT !.step = "index"]
    /\ UNCHANGED <<index, seed, fill, bounds, unlisted>>

(* It reads the index, and is done when the index lists the account.       *)
RunReadsIndex ==
    /\ job.step = "index"
    /\ job' = IF job.slug \in index THEN NoJob
              ELSE [job EXCEPT !.step = "put index", !.slugs = index]
    /\ unlisted' = IF job.slug \in index THEN unlisted \ {job.slug} ELSE unlisted
    /\ UNCHANGED <<index, account, seed, fill, bounds>>

(* Mutant: the index is built from nothing.                                *)
MutRunPutsIndex ==
    /\ job.step = "put index"
    /\ index' = {job.slug}
    /\ unlisted' = unlisted \ {job.slug}
    /\ job' = NoJob
    /\ UNCHANGED <<account, seed, fill, bounds>>

RunPutsIndex ==
    /\ job.step = "put index"
    /\ index' = job.slugs \cup {job.slug}
    /\ unlisted' = (unlisted \cup (index \ job.slugs)) \ {job.slug}
    /\ job' = NoJob
    /\ UNCHANGED <<account, seed, fill, bounds>>

(* An exception or a kill: an account that is put may not be listed yet.   *)
RunStops ==
    /\ job # NoJob
    /\ stops < MaxStops
    /\ stops' = stops + 1
    /\ job' = NoJob
    /\ unlisted' = IF account[job.slug] # NoAccount /\ job.slug \notin index
                   THEN unlisted \cup {job.slug} ELSE unlisted
    /\ UNCHANGED <<index, account, seed, fill, runs, scripts>>
-----------------------------------------------------------------------------
(* Mutant: the configured accounts are listed before they are put.         *)
MutSeedReadsIndex ==
    /\ seed = NoSeed
    /\ scripts < MaxScripts
    /\ scripts' = scripts + 1
    /\ index' = index \cup Curated
    /\ seed' = [NoSeed EXCEPT !.step = "read", !.slugs = index', !.index = index',
                              !.todo = Curated]
    /\ UNCHANGED <<account, job, fill, runs, stops, unlisted>>

(* seed() reads the index, once, before its loop.                          *)
SeedReadsIndex ==
    /\ seed = NoSeed
    /\ scripts < MaxScripts
    /\ scripts' = scripts + 1
    /\ seed' = [NoSeed EXCEPT !.step = "read", !.slugs = index, !.index = index,
                              !.todo = Curated]
    /\ UNCHANGED <<index, account, job, fill, runs, stops, unlisted>>

SeedReads(s) ==
    /\ seed.step = "read"
    /\ s \in seed.todo
    /\ seed' = [seed EXCEPT !.step = "put", !.slug = s, !.read = account[s]]
    /\ UNCHANGED <<index, account, job, fill, bounds, unlisted>>

(* Mutant: a new slug is not appended.                                     *)
MutSeedPuts ==
    /\ seed.step = "put"
    /\ account' = [account EXCEPT ![seed.slug] = Seeded(seed.slug, seed.read)]
    /\ seed' = [seed EXCEPT !.step = "read", !.todo = @ \ {seed.slug}]
    /\ UNCHANGED <<index, job, fill, bounds, unlisted>>

SeedPuts ==
    /\ seed.step = "put"
    /\ account' = [account EXCEPT ![seed.slug] = Seeded(seed.slug, seed.read)]
    /\ seed' = [seed EXCEPT !.step = "read", !.slugs = @ \cup {seed.slug},
                            !.todo = @ \ {seed.slug}]
    /\ UNCHANGED <<index, job, fill, bounds, unlisted>>

(* Every record is put: the index read at the start and the new slugs.     *)
SeedPutsIndex ==
    /\ seed.step = "read"
    /\ seed.todo = {}
    /\ index' = seed.slugs
    /\ unlisted' = (unlisted \cup (index \ seed.slugs)) \ seed.slugs
    /\ seed' = NoSeed
    /\ UNCHANGED <<account, job, fill, bounds>>

SeedStops ==
    /\ seed # NoSeed
    /\ stops < MaxStops
    /\ stops' = stops + 1
    /\ seed' = NoSeed
    /\ unlisted' = unlisted \cup (seed.slugs \ index)
    /\ UNCHANGED <<index, account, job, fill, runs, scripts>>
-----------------------------------------------------------------------------
(* backfill() reads the index.                                             *)
FillReadsIndex(force) ==
    /\ fill = NoFill
    /\ scripts < MaxScripts
    /\ index # {}
    /\ scripts' = scripts + 1
    /\ fill' = [NoFill EXCEPT !.step = "read", !.todo = index, !.force = force]
    /\ UNCHANGED <<index, account, job, seed, runs, stops, unlisted>>

(* It reads an account, which it leaves alone when it has no record or is  *)
(* complete, and goes on to its newest game, at Riot if need be.           *)
FillReads(s) ==
    /\ fill.step = "read"
    /\ s \in fill.todo
    /\ fill' = IF account[s] # NoAccount /\ (account[s].profile = "none" \/ fill.force)
               THEN [fill EXCEPT !.step = "put", !.slug = s, !.read = account[s]]
               ELSE [fill EXCEPT !.todo = @ \ {s}]
    /\ UNCHANGED <<index, account, job, seed, bounds, unlisted>>

(* No game of the player is published, or none that shows it.              *)
FillSkips ==
    /\ fill.step = "put"
    /\ fill' = [fill EXCEPT !.step = "read", !.todo = @ \ {fill.slug}]
    /\ UNCHANGED <<index, account, job, seed, bounds, unlisted>>

FillPuts ==
    /\ fill.step = "put"
    /\ account' = [account EXCEPT ![fill.slug] = [fill.read EXCEPT !.profile = "read"]]
    /\ fill' = [fill EXCEPT !.step = "read", !.todo = @ \ {fill.slug}]
    /\ UNCHANGED <<index, job, seed, bounds, unlisted>>

(* Its loop is over, or it was stopped: it holds nothing either way.       *)
FillEnds ==
    /\ fill # NoFill
    /\ fill' = NoFill
    /\ UNCHANGED <<index, account, job, seed, bounds, unlisted>>
-----------------------------------------------------------------------------
Run ==
    \/ \E s \in Slug : RunReads(s)
    \/ \E seen \in BOOLEAN : RunPuts(seen)
    \/ RunReadsIndex
    \/ RunPutsIndex
    \/ RunStops

Seed ==
    \/ SeedReadsIndex
    \/ \E s \in Curated : SeedReads(s)
    \/ SeedPuts
    \/ SeedPutsIndex
    \/ SeedStops

Fill ==
    \/ \E force \in BOOLEAN : FillReadsIndex(force)
    \/ \E s \in Slug : FillReads(s)
    \/ FillSkips
    \/ FillPuts
    \/ FillEnds

Next == Run \/ Seed \/ Fill

Spec == Init /\ [][Next]_vars
-----------------------------------------------------------------------------
Value == Account \cup {NoAccount}

JobState == [step : {Idle, "put", "index", "put index"}, slug : Slug \cup {Idle},
             read : Value, slugs : SUBSET Slug]

SeedState == [step : {Idle, "read", "put"}, slug : Slug \cup {Idle}, read : Value,
              slugs : SUBSET Slug, todo : SUBSET Slug, index : SUBSET Slug]

FillState == [step : {Idle, "read", "put"}, slug : Slug \cup {Idle}, read : Value,
              todo : SUBSET Slug, force : BOOLEAN]

(* Types of the variables. *)
RegistryTypeOK ==
    /\ index \in SUBSET Slug
    /\ account \in [Slug -> Value]
    /\ job \in JobState
    /\ seed \in SeedState
    /\ fill \in FillState
    /\ runs \in Nat
    /\ scripts \in Nat
    /\ stops \in Nat
    /\ unlisted \in SUBSET Slug

(* No interleaving and no stop makes the index name an account without its *)
(* record: every program puts the record first, and what it lists it has   *)
(* read in the index or put.                                               *)
IndexedHaveAccount == index \subseteq Accounts

(* An account missing from the index is on its way there, or a stop or a   *)
(* crossed put left it out; the next collection that goes through lists it *)
(* again.                                                                  *)
Listed ==
    Accounts \ index \subseteq
        unlisted \cup (IF job.step \in {"index", "put index"} THEN {job.slug} ELSE {})
                 \cup seed.slugs

(* The index and the records agree, up to that. *)
IndexMatches == IndexedHaveAccount /\ Listed

(* An account leaves the index only by a put whose program read the index  *)
(* before the account was in it.                                           *)
IndexKept ==
    [][\A s \in index \ index' :
          \/ job.step = "put index" /\ job' = NoJob /\ s \notin job.slugs
          \/ seed # NoSeed /\ seed' = NoSeed /\ s \notin seed.index]_vars

(* What b keeps of a: last_ingest_ts does not go back, created_at and the  *)
(* curated source stay, an icon and level stay, those of a game over those *)
(* of the configuration.                                                   *)
Keeps(a, b) ==
    /\ b.stamp >= a.stamp
    /\ a.created # 0 => b.created = a.created
    /\ a.source = "curated" => b.source = "curated"
    /\ a.profile # "none" => b.profile # "none"
    /\ a.profile = "read" => b.profile = "read"

(* A program puts back the account of s, and it has changed since its read. *)
CrossedPut(s) ==
    \/ job.step = "put" /\ job' # job /\ job.slug = s /\ job.read # account[s]
    \/ seed.step = "put" /\ seed' # seed /\ seed.slug = s /\ seed.read # account[s]
    \/ fill.step = "put" /\ fill' # fill /\ fill.slug = s /\ fill.read # account[s]

(* The programs preserve each other's fields, but for a crossed put: the   *)
(* seeding is idempotent, and what it reapplies does not hide what a       *)
(* collection saw.                                                         *)
FieldsKept == [][\A s \in Slug : Keeps(account[s], account'[s]) \/ CrossedPut(s)]_vars
=============================================================================
