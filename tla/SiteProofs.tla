------------------------------ MODULE SiteProofs ------------------------------
(***************************************************************************)
(* What TLAPS proves of two components of the site, Registry and CoachGate.*)
(*                                                                         *)
(* Of Registry, for any players, any configuration and any number of runs: *)
(* the types, that the index and the records agree (IndexMatches), and     *)
(* what no put undoes unless it is crossed (IndexKept, FieldsKept).        *)
(*                                                                         *)
(* Of CoachGate, for every number of requests, TTL, timeout and number of  *)
(* attempts: the inductive invariant says who can be past the gate while   *)
(* no flow is loose: the holder of the lock only, and what a flow that     *)
(* appends has read is what is stored.                                     *)
(***************************************************************************)
EXTENDS Registry, CoachGate, TLAPS

(* No run() is at work between two of its puts unless it holds a player,   *)
(* and what it has put is in the registry.                                 *)
JobInv ==
    /\ job # NoJob => job.slug \in Slug
    /\ job.slugs \subseteq Accounts
    /\ job.step \in {"index", "put index"} => job.slug \in Accounts

(* seed() lists what it read in the index and what it has put. *)
SeedInv ==
    /\ seed.step = "put" => seed.slug \in Slug
    /\ seed.index \subseteq seed.slugs
    /\ seed.slugs \subseteq Accounts

(* backfill() puts an account it has found. *)
FillInv ==
    fill.step = "put" => fill.slug \in Accounts /\ fill.read \in Account

(* No stamp is from the future, in an account or in a copy of one. *)
StampInv ==
    /\ \A s \in Slug : account[s].stamp <= runs
    /\ seed.read.stamp <= runs
    /\ fill.read.stamp <= runs

Filed == RegistryTypeOK /\ JobInv /\ SeedInv /\ FillInv

IInv == Filed /\ StampInv /\ IndexMatches

-----------------------------------------------------------------------------
LEMMA AbsentNotAccount == NoAccount \notin Account
BY DEF NoAccount, Account

(* What a collection, a seeding and a completion make of an account.       *)
LEMMA CollectedType ==
    ASSUME runs \in Nat, NEW e \in Value, NEW seen \in BOOLEAN
    PROVE  Collected(e, seen) \in Account
BY DEF Collected, Account, NoAccount, Profile, Value

LEMMA SeededType ==
    ASSUME NEW s, NEW e \in Value
    PROVE  /\ Seeded(s, e) \in Account
           /\ Seeded(s, e).created = e.created
           /\ Seeded(s, e).stamp = e.stamp
           /\ Seeded(s, e).source = "curated"
           /\ Seeded(s, e).profile =
                  IF e.profile = "none" /\ s \in WithIcon THEN "seeded" ELSE e.profile
<1>1. CASE e \in Account
  BY <1>1 DEF Seeded, Account, Profile
<1>2. CASE e = NoAccount
  BY <1>2 DEF Seeded, Account, NoAccount, Profile
<1>3. QED
  BY <1>1, <1>2 DEF Value

LEMMA FilledType ==
    ASSUME NEW e \in Account
    PROVE  [e EXCEPT !.profile = "read"] \in Account
BY DEF Account, Profile
-----------------------------------------------------------------------------
(* The programs are at work where their steps say. *)
LEMMA IdleStates ==
    /\ NoJob \in JobState /\ NoJob.step = Idle /\ NoJob.slugs = {}
    /\ NoSeed \in SeedState /\ NoSeed.step = Idle /\ NoSeed.slugs = {}
    /\ NoFill \in FillState /\ NoFill.step = Idle
BY DEF NoJob, JobState, NoSeed, SeedState, NoFill, FillState, Value, Idle

(* A run() that reaches the registry, call by call. *)
LEMMA RunTypes == RegistryTypeOK /\ JobInv /\ Run => RegistryTypeOK'
<1> SUFFICES ASSUME RegistryTypeOK, JobInv, Run
             PROVE  RegistryTypeOK'
  OBVIOUS
<1>1. ASSUME NEW s \in Slug, RunReads(s)
      PROVE  RegistryTypeOK'
  <2>1. job' \in JobState
    BY <1>1 DEF RunReads, NoJob, JobState, RegistryTypeOK
  <2>2. runs' \in Nat /\ UNCHANGED <<index, account, seed, fill, scripts, stops, unlisted>>
    BY <1>1 DEF RunReads, RegistryTypeOK
  <2>3. QED
    BY <2>1, <2>2 DEF RegistryTypeOK
<1>2. ASSUME NEW seen \in BOOLEAN, RunPuts(seen)
      PROVE  RegistryTypeOK'
  <2>1. job.slug \in Slug /\ job.read \in Value
    BY <1>2, IdleStates DEF RunPuts, RegistryTypeOK, JobInv, JobState, Idle
  <2>2. Collected(job.read, seen) \in Account
    BY <2>1, CollectedType DEF RegistryTypeOK
  <2>3. account' \in [Slug -> Value]
    BY <1>2, <2>1, <2>2 DEF RunPuts, RegistryTypeOK, Value
  <2>4. job' \in JobState
    BY <1>2 DEF RunPuts, RegistryTypeOK, JobState
  <2>5. UNCHANGED <<index, seed, fill, bounds, unlisted>>
    BY <1>2 DEF RunPuts
  <2>6. QED
    BY <2>3, <2>4, <2>5 DEF RegistryTypeOK, bounds
<1>3. CASE RunReadsIndex
  <2>1. job' \in JobState
    BY <1>3, IdleStates DEF RunReadsIndex, RegistryTypeOK, JobState
  <2>2. unlisted' \in SUBSET Slug /\ UNCHANGED <<index, account, seed, fill, bounds>>
    BY <1>3 DEF RunReadsIndex, RegistryTypeOK
  <2>3. QED
    BY <2>1, <2>2 DEF RegistryTypeOK, bounds
<1>4. CASE RunPutsIndex
  <2>1. job.slug \in Slug /\ job.slugs \in SUBSET Slug
    BY <1>4, IdleStates DEF RunPutsIndex, RegistryTypeOK, JobInv, JobState, Idle
  <2>2. QED
    BY <1>4, <2>1, IdleStates DEF RunPutsIndex, RegistryTypeOK, bounds
<1>5. CASE RunStops
  <2>1. unlisted' \in SUBSET Slug
    BY <1>5 DEF RunStops, RegistryTypeOK, JobInv
  <2>2. QED
    BY <1>5, <2>1, IdleStates DEF RunStops, RegistryTypeOK
<1>6. QED
  BY <1>1, <1>2, <1>3, <1>4, <1>5 DEF Run

(* seed(), call by call. *)
LEMMA SeedTypes == RegistryTypeOK /\ SeedInv /\ Seed => RegistryTypeOK'
<1> SUFFICES ASSUME RegistryTypeOK, SeedInv, Seed
             PROVE  RegistryTypeOK'
  OBVIOUS
<1>1. CASE SeedReadsIndex
  <2>1. seed' \in SeedState
    BY <1>1, RegistryAssumption
       DEF SeedReadsIndex, NoSeed, SeedState, RegistryTypeOK, Value
  <2>2. scripts' \in Nat /\ UNCHANGED <<index, account, job, fill, runs, stops, unlisted>>
    BY <1>1 DEF SeedReadsIndex, RegistryTypeOK
  <2>3. QED
    BY <2>1, <2>2 DEF RegistryTypeOK
<1>2. ASSUME NEW s \in Curated, SeedReads(s)
      PROVE  RegistryTypeOK'
  <2>1. seed' \in SeedState
    BY <1>2, RegistryAssumption DEF SeedReads, SeedState, RegistryTypeOK
  <2>2. UNCHANGED <<index, account, job, fill, bounds, unlisted>>
    BY <1>2 DEF SeedReads
  <2>3. QED
    BY <2>1, <2>2 DEF RegistryTypeOK, bounds
<1>3. CASE SeedPuts
  <2>1. seed.slug \in Slug /\ seed.read \in Value
    BY <1>3 DEF SeedPuts, RegistryTypeOK, SeedInv, SeedState
  <2>2. Seeded(seed.slug, seed.read) \in Account
    BY <2>1, SeededType
  <2>3. account' \in [Slug -> Value]
    BY <1>3, <2>1, <2>2 DEF SeedPuts, RegistryTypeOK, Value
  <2>4. seed' \in SeedState
    BY <1>3, <2>1 DEF SeedPuts, RegistryTypeOK, SeedState
  <2>5. UNCHANGED <<index, job, fill, bounds, unlisted>>
    BY <1>3 DEF SeedPuts
  <2>6. QED
    BY <2>3, <2>4, <2>5 DEF RegistryTypeOK, bounds
<1>4. CASE SeedPutsIndex
  <2>1. seed.slugs \in SUBSET Slug
    BY DEF RegistryTypeOK, SeedState
  <2>2. QED
    BY <1>4, <2>1, IdleStates DEF SeedPutsIndex, RegistryTypeOK, bounds
<1>5. CASE SeedStops
  <2>1. seed.slugs \in SUBSET Slug
    BY DEF RegistryTypeOK, SeedState
  <2>2. QED
    BY <1>5, <2>1, IdleStates DEF SeedStops, RegistryTypeOK
<1>6. QED
  BY <1>1, <1>2, <1>3, <1>4, <1>5 DEF Seed

(* backfill(), call by call. *)
LEMMA FillTypes == RegistryTypeOK /\ FillInv /\ Fill => RegistryTypeOK'
<1> SUFFICES ASSUME RegistryTypeOK, FillInv, Fill
             PROVE  RegistryTypeOK'
  OBVIOUS
<1>1. ASSUME NEW force \in BOOLEAN, FillReadsIndex(force)
      PROVE  RegistryTypeOK'
  <2>1. fill' \in FillState
    BY <1>1 DEF FillReadsIndex, NoFill, FillState, RegistryTypeOK, Value
  <2>2. scripts' \in Nat /\ UNCHANGED <<index, account, job, seed, runs, stops, unlisted>>
    BY <1>1 DEF FillReadsIndex, RegistryTypeOK
  <2>3. QED
    BY <2>1, <2>2 DEF RegistryTypeOK
<1>2. ASSUME NEW s \in Slug, FillReads(s)
      PROVE  RegistryTypeOK'
  <2>1. fill' \in FillState
    BY <1>2 DEF FillReads, FillState, RegistryTypeOK
  <2>2. UNCHANGED <<index, account, job, seed, bounds, unlisted>>
    BY <1>2 DEF FillReads
  <2>3. QED
    BY <2>1, <2>2 DEF RegistryTypeOK, bounds
<1>3. CASE FillSkips
  <2>1. fill' \in FillState
    BY <1>3 DEF FillSkips, FillState, RegistryTypeOK
  <2>2. UNCHANGED <<index, account, job, seed, bounds, unlisted>>
    BY <1>3 DEF FillSkips
  <2>3. QED
    BY <2>1, <2>2 DEF RegistryTypeOK, bounds
<1>4. CASE FillPuts
  <2>1. fill.slug \in Slug /\ fill.read \in Account
    BY <1>4 DEF FillPuts, FillInv, Accounts
  <2>2. [fill.read EXCEPT !.profile = "read"] \in Account
    BY <2>1, FilledType
  <2>3. account' \in [Slug -> Value]
    BY <1>4, <2>1, <2>2 DEF FillPuts, RegistryTypeOK, Value
  <2>4. fill' \in FillState
    BY <1>4 DEF FillPuts, FillState, RegistryTypeOK
  <2>5. UNCHANGED <<index, job, seed, bounds, unlisted>>
    BY <1>4 DEF FillPuts
  <2>6. QED
    BY <2>3, <2>4, <2>5 DEF RegistryTypeOK, bounds
<1>5. CASE FillEnds
  BY <1>5, IdleStates DEF FillEnds, RegistryTypeOK, bounds
<1>6. QED
  BY <1>1, <1>2, <1>3, <1>4, <1>5 DEF Fill
-----------------------------------------------------------------------------
(* A put of an account writes one: what each of the three puts, and where. *)
LEMMA PutTypes ==
    ASSUME Filed
    PROVE  /\ \A seen \in BOOLEAN : RunPuts(seen) =>
                 job.slug \in Slug /\ Collected(job.read, seen) \in Account
           /\ SeedPuts => seed.slug \in Slug /\ Seeded(seed.slug, seed.read) \in Account
           /\ FillPuts => fill.slug \in Slug /\ [fill.read EXCEPT !.profile = "read"] \in Account
<1>1. ASSUME NEW seen \in BOOLEAN, RunPuts(seen)
      PROVE  job.slug \in Slug /\ Collected(job.read, seen) \in Account
  <2>1. job.slug \in Slug /\ job.read \in Value
    BY <1>1, IdleStates DEF RunPuts, Filed, RegistryTypeOK, JobInv, JobState, Idle
  <2>2. QED
    BY <2>1, CollectedType DEF Filed, RegistryTypeOK
<1>2. ASSUME SeedPuts
      PROVE  seed.slug \in Slug /\ Seeded(seed.slug, seed.read) \in Account
  <2>1. seed.slug \in Slug /\ seed.read \in Value
    BY <1>2 DEF SeedPuts, Filed, RegistryTypeOK, SeedInv, SeedState
  <2>2. QED
    BY <2>1, SeededType
<1>3. ASSUME FillPuts
      PROVE  fill.slug \in Slug /\ [fill.read EXCEPT !.profile = "read"] \in Account
  <2>1. fill.slug \in Slug /\ fill.read \in Account
    BY <1>3 DEF FillPuts, Filed, FillInv, Accounts
  <2>2. QED
    BY <2>1, FilledType
<1>4. QED
  BY <1>1, <1>2, <1>3

(* No step removes an account; only a put adds one, its own. *)
LEMMA AccountStep ==
    ASSUME Filed, Next
    PROVE  \/ account' = account
           \/ /\ \E seen \in BOOLEAN : RunPuts(seen)
              /\ job.slug \in Slug
              /\ Accounts' = Accounts \cup {job.slug}
           \/ /\ SeedPuts
              /\ seed.slug \in Slug
              /\ Accounts' = Accounts \cup {seed.slug}
           \/ /\ FillPuts
              /\ fill.slug \in Accounts
              /\ Accounts' = Accounts
<1>1. ASSUME NEW seen \in BOOLEAN, RunPuts(seen)
      PROVE  job.slug \in Slug /\ Accounts' = Accounts \cup {job.slug}
  BY <1>1, PutTypes, AbsentNotAccount DEF RunPuts, Accounts, Filed, RegistryTypeOK
<1>2. ASSUME SeedPuts
      PROVE  seed.slug \in Slug /\ Accounts' = Accounts \cup {seed.slug}
  BY <1>2, PutTypes, AbsentNotAccount DEF SeedPuts, Accounts, Filed, RegistryTypeOK
<1>3. ASSUME FillPuts
      PROVE  fill.slug \in Accounts /\ Accounts' = Accounts
  <2>1. fill.slug \in Accounts
    BY <1>3 DEF FillPuts, Filed, FillInv
  <2>2. Accounts' = Accounts \cup {fill.slug}
    BY <1>3, PutTypes, AbsentNotAccount DEF FillPuts, Accounts, Filed, RegistryTypeOK
  <2>3. QED
    BY <2>1, <2>2
<1>4. CASE Run
  BY <1>1, <1>4 DEF Run, RunReads, RunReadsIndex, RunPutsIndex, RunStops
<1>5. CASE Seed
  BY <1>2, <1>5 DEF Seed, SeedReadsIndex, SeedReads, SeedPutsIndex, SeedStops
<1>6. CASE Fill
  BY <1>3, <1>6 DEF Fill, FillReadsIndex, FillReads, FillSkips, FillEnds
<1>7. QED
  BY <1>4, <1>5, <1>6 DEF Next

LEMMA AccountsGrow ==
    ASSUME Filed, Next
    PROVE  Accounts \subseteq Accounts'
<1>1. CASE account' = account
  BY <1>1 DEF Accounts
<1>2. QED
  BY <1>1, AccountStep
-----------------------------------------------------------------------------
(* Each program keeps what it knows. *)
LEMMA JobStep == IInv /\ Next => JobInv'
<1> SUFFICES ASSUME IInv, Next
             PROVE  JobInv'
  OBVIOUS
<1>1. Filed /\ JobInv /\ index \subseteq Accounts /\ Accounts \subseteq Accounts'
  BY AccountsGrow DEF IInv, Filed, IndexMatches, IndexedHaveAccount
<1>2. CASE job' = job
  BY <1>1, <1>2 DEF JobInv
<1>3. CASE job' = NoJob
  BY <1>3, IdleStates DEF JobInv, Idle
<1>4. ASSUME NEW s \in Slug, RunReads(s)
      PROVE  JobInv'
  BY <1>4 DEF RunReads, NoJob, JobInv
<1>5. ASSUME NEW seen \in BOOLEAN, RunPuts(seen)
      PROVE  JobInv'
  <2>1. job.slug \in Slug /\ job.slug \in Accounts'
    BY <1>1, <1>5, PutTypes, AbsentNotAccount DEF RunPuts, Accounts, Filed, RegistryTypeOK
  <2>2. job'.slug = job.slug /\ job'.slugs = job.slugs
    BY <1>1, <1>5 DEF RunPuts, Filed, RegistryTypeOK, JobState
  <2>3. QED
    BY <1>1, <2>1, <2>2 DEF JobInv
<1>6. CASE RunReadsIndex /\ job.slug \notin index
  <2>1. job.slug \in Slug /\ job.slug \in Accounts
    BY <1>1, <1>6 DEF RunReadsIndex, JobInv, Accounts
  <2>2. job'.slug = job.slug /\ job'.slugs = index
    BY <1>1, <1>6 DEF RunReadsIndex, Filed, RegistryTypeOK, JobState
  <2>3. QED
    BY <1>1, <2>1, <2>2 DEF JobInv
<1>7. QED
  BY <1>2, <1>3, <1>4, <1>5, <1>6
     DEF Next, Run, Seed, Fill, RunReadsIndex, RunPutsIndex, RunStops,
         SeedReadsIndex, SeedReads, SeedPuts, SeedPutsIndex, SeedStops,
         FillReadsIndex, FillReads, FillSkips, FillPuts, FillEnds

LEMMA SeedStep == IInv /\ Next => SeedInv'
<1> SUFFICES ASSUME IInv, Next
             PROVE  SeedInv'
  OBVIOUS
<1>1. Filed /\ SeedInv /\ index \subseteq Accounts /\ Accounts \subseteq Accounts'
  BY AccountsGrow DEF IInv, Filed, IndexMatches, IndexedHaveAccount
<1>2. CASE seed' = seed
  BY <1>1, <1>2 DEF SeedInv
<1>3. CASE seed' = NoSeed
  BY <1>3 DEF NoSeed, SeedInv, Idle
<1>4. CASE SeedReadsIndex
  BY <1>1, <1>4 DEF SeedReadsIndex, NoSeed, SeedInv
<1>5. ASSUME NEW s \in Curated, SeedReads(s)
      PROVE  SeedInv'
  BY <1>1, <1>5, RegistryAssumption DEF SeedReads, SeedInv, Filed, RegistryTypeOK, SeedState
<1>6. CASE SeedPuts
  <2>1. seed.slug \in Accounts'
    BY <1>1, <1>6, PutTypes, AbsentNotAccount DEF SeedPuts, Accounts, Filed, RegistryTypeOK
  <2>2. /\ seed'.step = "read" /\ seed'.index = seed.index
        /\ seed'.slugs = seed.slugs \cup {seed.slug}
    BY <1>1, <1>6 DEF SeedPuts, Filed, RegistryTypeOK, SeedState
  <2>3. QED
    BY <1>1, <2>1, <2>2 DEF SeedInv
<1>7. QED
  BY <1>2, <1>3, <1>4, <1>5, <1>6
     DEF Next, Run, Seed, Fill, RunReads, RunPuts, RunReadsIndex, RunPutsIndex, RunStops,
         SeedPutsIndex, SeedStops, FillReadsIndex, FillReads, FillSkips, FillPuts, FillEnds

LEMMA FillStep == IInv /\ Next => FillInv'
<1> SUFFICES ASSUME IInv, Next
             PROVE  FillInv'
  OBVIOUS
<1>1. Filed /\ FillInv /\ Accounts \subseteq Accounts'
  BY AccountsGrow DEF IInv, Filed
<1>2. CASE fill' = fill
  BY <1>1, <1>2 DEF FillInv
<1>3. CASE fill' = NoFill
  BY <1>3 DEF NoFill, FillInv, Idle
<1>4. ASSUME NEW force \in BOOLEAN, FillReadsIndex(force)
      PROVE  FillInv'
  BY <1>4 DEF FillReadsIndex, NoFill, FillInv
<1>5. ASSUME NEW s \in Slug, FillReads(s)
      PROVE  FillInv'
  <2>1. CASE account[s] # NoAccount /\ (account[s].profile = "none" \/ fill.force)
    <3>1. s \in Accounts /\ account[s] \in Account
      BY <1>1, <2>1 DEF Accounts, Filed, RegistryTypeOK, Value
    <3>2. fill'.slug = s /\ fill'.read = account[s]
      BY <1>1, <1>5, <2>1 DEF FillReads, Filed, RegistryTypeOK, FillState
    <3>3. QED
      BY <1>1, <3>1, <3>2 DEF FillInv
  <2>2. CASE ~(account[s] # NoAccount /\ (account[s].profile = "none" \/ fill.force))
    BY <1>1, <1>5, <2>2 DEF FillReads, FillInv, Filed, RegistryTypeOK, FillState
  <2>3. QED
    BY <2>1, <2>2
<1>6. CASE FillSkips \/ FillPuts
  BY <1>1, <1>6 DEF FillSkips, FillPuts, FillInv, Filed, RegistryTypeOK, FillState
<1>7. QED
  BY <1>2, <1>3, <1>4, <1>5, <1>6
     DEF Next, Run, Seed, Fill, RunReads, RunPuts, RunReadsIndex, RunPutsIndex, RunStops,
         SeedReadsIndex, SeedReads, SeedPuts, SeedPutsIndex, SeedStops, FillEnds
-----------------------------------------------------------------------------
LEMMA StampStep == IInv /\ Next => StampInv'
<1> SUFFICES ASSUME IInv, Next
             PROVE  StampInv'
  OBVIOUS
<1>1. /\ Filed /\ StampInv /\ RegistryTypeOK /\ runs \in Nat
      /\ \A s \in Slug : account[s].stamp \in Nat
  BY DEF IInv, Filed, RegistryTypeOK, Value, Account, NoAccount
<1>2. runs' \in Nat /\ runs <= runs'
  <2>1. runs' = runs \/ runs' = runs + 1
    <3>1. CASE Run
      BY <3>1 DEF Run, RunReads, RunPuts, RunReadsIndex, RunPutsIndex, RunStops, bounds
    <3>2. CASE Seed
      BY <3>2 DEF Seed, SeedReadsIndex, SeedReads, SeedPuts, SeedPutsIndex, SeedStops, bounds
    <3>3. CASE Fill
      BY <3>3 DEF Fill, FillReadsIndex, FillReads, FillSkips, FillPuts, FillEnds, bounds
    <3>4. QED
      BY <3>1, <3>2, <3>3 DEF Next
  <2>2. QED
    BY <1>1, <2>1
<1>3. seed.read.stamp \in Nat /\ fill.read.stamp \in Nat
  BY <1>1 DEF RegistryTypeOK, SeedState, FillState, Value, Account, NoAccount
<1>4. \A s \in Slug : account'[s].stamp <= runs'
  <2>1. CASE account' = account
    BY <1>1, <1>2, <2>1 DEF StampInv
  <2>2. ASSUME NEW seen \in BOOLEAN, RunPuts(seen)
        PROVE  \A s \in Slug : account'[s].stamp <= runs'
    BY <1>1, <1>2, <2>2 DEF RunPuts, Collected, StampInv, RegistryTypeOK
  <2>3. CASE SeedPuts
    <3>1. Seeded(seed.slug, seed.read).stamp = seed.read.stamp
      BY <1>1, SeededType DEF RegistryTypeOK, SeedState
    <3>2. QED
      BY <1>1, <1>2, <1>3, <2>3, <3>1 DEF SeedPuts, StampInv, RegistryTypeOK
  <2>4. CASE FillPuts
    <3>1. fill.read \in Account
      BY <1>1, <2>4 DEF FillPuts, Filed, FillInv
    <3>2. [fill.read EXCEPT !.profile = "read"].stamp = fill.read.stamp
      BY <3>1 DEF Account
    <3>3. QED
      BY <1>1, <1>2, <1>3, <2>4, <3>2 DEF FillPuts, StampInv, RegistryTypeOK
  <2>5. QED
    BY <1>1, <2>1, <2>2, <2>3, <2>4, AccountStep
<1>5. seed'.read.stamp <= runs'
  <2>1. CASE seed' = seed
    BY <1>1, <1>2, <1>3, <2>1 DEF StampInv
  <2>2. CASE seed'.read = NoAccount
    BY <1>2, <2>2 DEF NoAccount
  <2>3. ASSUME NEW s \in Curated, SeedReads(s)
        PROVE  seed'.read.stamp <= runs'
    <3>1. s \in Slug /\ seed'.read = account[s]
      BY <1>1, <2>3, RegistryAssumption DEF SeedReads, RegistryTypeOK, SeedState
    <3>2. QED
      BY <1>1, <1>2, <3>1 DEF StampInv
  <2>4. CASE SeedPuts
    <3>1. seed'.read = seed.read
      BY <1>1, <2>4 DEF SeedPuts, RegistryTypeOK, SeedState
    <3>2. QED
      BY <1>1, <1>2, <1>3, <3>1 DEF StampInv
  <2>5. NoSeed.read = NoAccount
    BY DEF NoSeed
  <2>6. SeedReadsIndex => seed'.read = NoAccount
    BY DEF SeedReadsIndex, NoSeed
  <2>7. QED
    BY <2>1, <2>2, <2>3, <2>4, <2>5, <2>6
       DEF Next, Run, Seed, Fill, RunReads, RunPuts, RunReadsIndex, RunPutsIndex, RunStops,
           SeedPutsIndex, SeedStops, FillReadsIndex, FillReads, FillSkips, FillPuts, FillEnds
<1>6. fill'.read.stamp <= runs'
  <2>1. CASE fill' = fill
    BY <1>1, <1>2, <1>3, <2>1 DEF StampInv
  <2>2. CASE fill'.read = NoAccount
    BY <1>2, <2>2 DEF NoAccount
  <2>3. ASSUME NEW s \in Slug, FillReads(s)
        PROVE  fill'.read.stamp <= runs'
    <3>1. fill'.read = account[s] \/ fill'.read = fill.read
      BY <1>1, <2>3 DEF FillReads, RegistryTypeOK, FillState
    <3>2. QED
      BY <1>1, <1>2, <1>3, <3>1 DEF StampInv
  <2>4. CASE FillSkips \/ FillPuts
    <3>1. fill'.read = fill.read
      BY <1>1, <2>4 DEF FillSkips, FillPuts, RegistryTypeOK, FillState
    <3>2. QED
      BY <1>1, <1>2, <1>3, <3>1 DEF StampInv
  <2>5. NoFill.read = NoAccount
    BY DEF NoFill
  <2>6. \A force \in BOOLEAN : FillReadsIndex(force) => fill'.read = NoAccount
    BY DEF FillReadsIndex, NoFill
  <2>7. QED
    BY <2>1, <2>2, <2>3, <2>4, <2>5, <2>6
       DEF Next, Run, Seed, Fill, RunReads, RunPuts, RunReadsIndex, RunPutsIndex, RunStops,
           SeedReadsIndex, SeedReads, SeedPuts, SeedPutsIndex, SeedStops, FillEnds
<1>7. QED
  BY <1>4, <1>5, <1>6 DEF StampInv

(* What is listed has been put or read in the index. *)
LEMMA IndexedStep == IInv /\ Next => IndexedHaveAccount'
<1> SUFFICES ASSUME IInv, Next
             PROVE  index' \subseteq Accounts'
  BY DEF IndexedHaveAccount
<1>1. /\ Filed /\ JobInv /\ SeedInv /\ index \subseteq Accounts
      /\ Accounts \subseteq Accounts'
  BY AccountsGrow DEF IInv, Filed, IndexMatches, IndexedHaveAccount
<1>2. CASE index' = index
  BY <1>1, <1>2
<1>3. CASE RunPutsIndex
  BY <1>1, <1>3 DEF RunPutsIndex, JobInv
<1>4. CASE SeedPutsIndex
  BY <1>1, <1>4 DEF SeedPutsIndex, SeedInv
<1>5. QED
  BY <1>2, <1>3, <1>4
     DEF Next, Run, Seed, Fill, RunReads, RunPuts, RunReadsIndex, RunStops,
         SeedReadsIndex, SeedReads, SeedPuts, SeedStops,
         FillReadsIndex, FillReads, FillSkips, FillPuts, FillEnds

(* An account outside the index is accounted for. *)
LEMMA ListedStep == IInv /\ Next => Listed'
<1> SUFFICES ASSUME IInv, Next
             PROVE  Listed'
  OBVIOUS
<1> DEFINE underway == IF job.step \in {"index", "put index"} THEN {job.slug} ELSE {}
<1>1. /\ Filed /\ RegistryTypeOK /\ JobInv /\ SeedInv
      /\ Accounts \ index \subseteq unlisted \cup underway \cup seed.slugs
  BY DEF IInv, Filed, IndexMatches, Listed
<1>2. job \in JobState /\ seed \in SeedState
  BY <1>1 DEF RegistryTypeOK
<1>3. ASSUME NEW s \in Slug, RunReads(s)
      PROVE  Listed'
  <2>1. Accounts' = Accounts /\ underway = {}
    BY <1>3, IdleStates DEF RunReads, Accounts, Idle
  <2>2. QED
    BY <1>1, <1>3, <2>1 DEF RunReads, Listed
<1>4. ASSUME NEW seen \in BOOLEAN, RunPuts(seen)
      PROVE  Listed'
  <2>1. Accounts' = Accounts \cup {job.slug}
    BY <1>1, <1>4, PutTypes, AbsentNotAccount DEF RunPuts, Accounts, RegistryTypeOK
  <2>2. job'.step = "index" /\ job'.slug = job.slug /\ underway = {}
    BY <1>2, <1>4 DEF RunPuts, JobState
  <2>3. QED
    BY <1>1, <1>4, <2>1, <2>2 DEF RunPuts, Listed
<1>5. CASE RunReadsIndex
  <2>1. Accounts' = Accounts /\ underway = {job.slug}
    BY <1>5 DEF RunReadsIndex, Accounts
  <2>2. CASE job.slug \in index
    BY <1>1, <1>5, <2>1, <2>2, IdleStates DEF RunReadsIndex, Listed, Idle
  <2>3. CASE job.slug \notin index
    <3>1. job'.step = "put index" /\ job'.slug = job.slug
      BY <1>2, <1>5, <2>3 DEF RunReadsIndex, JobState
    <3>2. QED
      BY <1>1, <1>5, <2>1, <2>3, <3>1 DEF RunReadsIndex, Listed
  <2>4. QED
    BY <2>2, <2>3
<1>6. CASE RunPutsIndex
  <2>1. Accounts' = Accounts /\ underway = {job.slug}
    BY <1>6 DEF RunPutsIndex, Accounts
  <2>2. QED
    BY <1>1, <1>6, <2>1, IdleStates DEF RunPutsIndex, Listed, Idle
<1>7. CASE RunStops
  <2>1. Accounts' = Accounts
    BY <1>7 DEF RunStops, Accounts
  <2>2. \A s \in underway : s \in Accounts /\ account[s] # NoAccount
    BY <1>1 DEF JobInv, Accounts
  <2>3. QED
    BY <1>1, <1>7, <2>1, <2>2, IdleStates DEF RunStops, Listed, Idle
<1>8. CASE SeedReadsIndex
  <2>1. Accounts' = Accounts /\ seed.slugs = {}
    BY <1>8, IdleStates DEF SeedReadsIndex, Accounts
  <2>2. QED
    BY <1>1, <1>8, <2>1 DEF SeedReadsIndex, Listed
<1>9. ASSUME NEW s \in Curated, SeedReads(s)
      PROVE  Listed'
  <2>1. Accounts' = Accounts /\ seed'.slugs = seed.slugs
    BY <1>2, <1>9 DEF SeedReads, Accounts, SeedState
  <2>2. QED
    BY <1>1, <1>9, <2>1 DEF SeedReads, Listed
<1>10. CASE SeedPuts
  <2>1. Accounts' = Accounts \cup {seed.slug}
    BY <1>1, <1>10, PutTypes, AbsentNotAccount DEF SeedPuts, Accounts, RegistryTypeOK
  <2>2. seed'.slugs = seed.slugs \cup {seed.slug}
    BY <1>2, <1>10 DEF SeedPuts, SeedState
  <2>3. QED
    BY <1>1, <1>10, <2>1, <2>2 DEF SeedPuts, Listed
<1>11. CASE SeedPutsIndex
  <2>1. Accounts' = Accounts
    BY <1>11 DEF SeedPutsIndex, Accounts
  <2>2. QED
    BY <1>1, <1>11, <2>1 DEF SeedPutsIndex, Listed
<1>12. CASE SeedStops
  <2>1. Accounts' = Accounts
    BY <1>12 DEF SeedStops, Accounts
  <2>2. QED
    BY <1>1, <1>12, <2>1 DEF SeedStops, Listed
<1>13. CASE Fill
  <2>1. Accounts' = Accounts
    <3>1. CASE FillPuts
      <4>1. fill.slug \in Accounts
        BY <1>1, <3>1 DEF FillPuts, Filed, FillInv
      <4>2. Accounts' = Accounts \cup {fill.slug}
        BY <1>1, <3>1, PutTypes, AbsentNotAccount DEF FillPuts, Accounts, RegistryTypeOK
      <4>3. QED
        BY <4>1, <4>2
    <3>2. CASE account' = account
      BY <3>2 DEF Accounts
    <3>3. QED
      BY <1>13, <3>1, <3>2 DEF Fill, FillReadsIndex, FillReads, FillSkips, FillEnds
  <2>2. UNCHANGED <<index, job, seed, unlisted>>
    BY <1>13 DEF Fill, FillReadsIndex, FillReads, FillSkips, FillPuts, FillEnds
  <2>3. QED
    BY <1>1, <2>1, <2>2 DEF Listed
<1>14. QED
  BY <1>3, <1>4, <1>5, <1>6, <1>7, <1>8, <1>9, <1>10, <1>11, <1>12, <1>13
     DEF Next, Run, Seed
-----------------------------------------------------------------------------
(* Every state satisfies the invariant. *)
THEOREM InvCorrect == Spec => []IInv
<1>1. Init => IInv
  <2> SUFFICES ASSUME Init
               PROVE  IInv
    OBVIOUS
  <2>1. RegistryTypeOK
    BY IdleStates DEF Init, RegistryTypeOK, Value
  <2>2. Accounts = {}
    BY DEF Init, Accounts
  <2>3. JobInv /\ SeedInv /\ FillInv
    BY <2>2 DEF Init, JobInv, SeedInv, FillInv, NoJob, NoSeed, NoFill, Idle
  <2>4. StampInv
    BY DEF Init, StampInv, NoAccount, NoSeed, NoFill
  <2>5. IndexMatches
    BY <2>2 DEF Init, IndexMatches, IndexedHaveAccount, Listed
  <2>6. QED
    BY <2>1, <2>3, <2>4, <2>5 DEF IInv, Filed
<1>2. IInv /\ [Next]_vars => IInv'
  <2> SUFFICES ASSUME IInv, [Next]_vars
               PROVE  IInv'
    OBVIOUS
  <2>1. CASE Next
    <3>1. RegistryTypeOK'
      BY <2>1, RunTypes, SeedTypes, FillTypes DEF Next, IInv, Filed
    <3>2. IndexMatches'
      BY <2>1, IndexedStep, ListedStep DEF IndexMatches
    <3>3. QED
      BY <2>1, <3>1, <3>2, JobStep, SeedStep, FillStep, StampStep DEF IInv, Filed
  <2>2. CASE UNCHANGED vars
    BY <2>2 DEF vars, bounds, IInv, Filed, RegistryTypeOK, JobInv, SeedInv, FillInv,
                StampInv, IndexMatches, IndexedHaveAccount, Listed, Accounts
  <2>3. QED
    BY <2>1, <2>2
<1>3. QED
  BY <1>1, <1>2, PTL DEF Spec

(* The types of the registry and of its three programs. *)
THEOREM TypeCorrect == Spec => []RegistryTypeOK
<1>1. IInv => RegistryTypeOK
  BY DEF IInv, Filed
<1>2. QED
  BY <1>1, InvCorrect, PTL

(* No listed account is without its record, and an account missing from    *)
(* the index is on its way there or was left out by a stop or a crossed put. *)
THEOREM IndexMatchesCorrect == Spec => []IndexMatches
<1>1. IInv => IndexMatches
  BY DEF IInv
<1>2. QED
  BY <1>1, InvCorrect, PTL

(* Only a put whose program read the index before drops an account from it. *)
THEOREM IndexKeptCorrect == Spec => IndexKept
<1>1. IInv /\ [Next]_vars =>
        [\A s \in index \ index' :
            \/ job.step = "put index" /\ job' = NoJob /\ s \notin job.slugs
            \/ seed # NoSeed /\ seed' = NoSeed /\ s \notin seed.index]_vars
  <2> SUFFICES ASSUME IInv, Next, NEW s \in index, s \notin index'
               PROVE  \/ job.step = "put index" /\ job' = NoJob /\ s \notin job.slugs
                      \/ seed # NoSeed /\ seed' = NoSeed /\ s \notin seed.index
    BY DEF vars
  <2>1. CASE index' = index
    BY <2>1
  <2>2. CASE RunPutsIndex
    BY <2>2 DEF RunPutsIndex
  <2>3. CASE SeedPutsIndex
    BY <2>3, IdleStates DEF SeedPutsIndex, IInv, Filed, SeedInv, Idle
  <2>4. QED
    BY <2>1, <2>2, <2>3
       DEF Next, Run, Seed, Fill, RunReads, RunPuts, RunReadsIndex, RunStops,
           SeedReadsIndex, SeedReads, SeedPuts, SeedStops,
           FillReadsIndex, FillReads, FillSkips, FillPuts, FillEnds
<1>2. QED
  BY <1>1, InvCorrect, PTL DEF Spec, IndexKept

(* Only a crossed put takes a field of another program back: the last      *)
(* collection, the creation, the curated source, an icon that was seen.    *)
THEOREM FieldsKeptCorrect == Spec => FieldsKept
<1>1. IInv /\ [Next]_vars =>
        [\A s \in Slug : Keeps(account[s], account'[s]) \/ CrossedPut(s)]_vars
  <2> SUFFICES ASSUME IInv, Next, NEW s \in Slug
               PROVE  Keeps(account[s], account'[s]) \/ CrossedPut(s)
    BY DEF vars
  <2>1. /\ Filed /\ StampInv /\ RegistryTypeOK /\ runs \in Nat /\ account[s] \in Value
        /\ account[s].stamp \in Nat /\ account[s].stamp <= runs
    BY DEF IInv, Filed, StampInv, RegistryTypeOK, Value, Account, NoAccount
  <2>2. CASE account'[s] = account[s]
    BY <2>1, <2>2 DEF Keeps
  <2>3. ASSUME NEW seen \in BOOLEAN, RunPuts(seen), job.slug = s
        PROVE  Keeps(account[s], account'[s]) \/ CrossedPut(s)
    <3>1. account'[s] = Collected(job.read, seen) /\ job' # job /\ job.step = "put"
      <4>1. job'.step = "index"
        BY <2>1, <2>3 DEF RunPuts, RegistryTypeOK, JobState
      <4>2. QED
        BY <2>1, <2>3, <4>1 DEF RunPuts, RegistryTypeOK
    <3>2. CASE job.read # account[s]
      BY <2>3, <3>1, <3>2 DEF CrossedPut
    <3>3. CASE job.read = account[s]
      BY <2>1, <3>1, <3>3 DEF Keeps, Collected, NoAccount
    <3>4. QED
      BY <3>2, <3>3
  <2>4. ASSUME SeedPuts, seed.slug = s
        PROVE  Keeps(account[s], account'[s]) \/ CrossedPut(s)
    <3>1. account'[s] = Seeded(s, seed.read) /\ seed' # seed /\ seed.step = "put"
      <4>1. seed'.step = "read"
        BY <2>1, <2>4 DEF SeedPuts, RegistryTypeOK, SeedState
      <4>2. QED
        BY <2>1, <2>4, <4>1 DEF SeedPuts, RegistryTypeOK
    <3>2. CASE seed.read # account[s]
      BY <2>4, <3>1, <3>2 DEF CrossedPut
    <3>3. CASE seed.read = account[s]
      BY <2>1, <3>1, <3>3, SeededType DEF Keeps
    <3>4. QED
      BY <3>2, <3>3
  <2>5. ASSUME FillPuts, fill.slug = s
        PROVE  Keeps(account[s], account'[s]) \/ CrossedPut(s)
    <3>1. /\ account'[s] = [fill.read EXCEPT !.profile = "read"]
          /\ fill' # fill /\ fill.step = "put"
      <4>1. fill'.step = "read"
        BY <2>1, <2>5 DEF FillPuts, RegistryTypeOK, FillState
      <4>2. QED
        BY <2>1, <2>5, <4>1 DEF FillPuts, RegistryTypeOK
    <3>2. CASE fill.read # account[s]
      BY <2>5, <3>1, <3>2 DEF CrossedPut
    <3>3. CASE fill.read = account[s]
      <4>1. account[s] \in Account
        BY <2>1, <2>5, <3>3 DEF FillPuts, Filed, FillInv
      <4>2. QED
        BY <2>1, <3>1, <3>3, <4>1 DEF Keeps, Account
    <3>4. QED
      BY <3>2, <3>3
  <2>6. QED
    <3>1. \A seen \in BOOLEAN : RunPuts(seen) /\ job.slug # s => account'[s] = account[s]
      BY <2>1 DEF RunPuts, RegistryTypeOK
    <3>2. SeedPuts /\ seed.slug # s => account'[s] = account[s]
      BY <2>1 DEF SeedPuts, RegistryTypeOK
    <3>3. FillPuts /\ fill.slug # s => account'[s] = account[s]
      BY <2>1 DEF FillPuts, RegistryTypeOK
    <3>4. QED
      BY <2>1, <2>2, <2>3, <2>4, <2>5, <3>1, <3>2, <3>3, AccountStep
<1>2. QED
  BY <1>1, InvCorrect, PTL DEF Spec, FieldsKept
-----------------------------------------------------------------------------

-----------------------------------------------------------------------------
(* The coaching gate. *)

(* An open response belongs to a flow under way, and a flow that has not   *)
(* called the model, or only has its stream left, is open.                 *)
Streams ==
    \A f \in Flows :
        /\ f \in open => phase[f] \in {"preparing", "generating", "appending", "closing"}
        /\ phase[f] \in {"preparing", "closing"} => f \in open

(* While no flow is loose, the holder alone is past the gate. *)
HolderAlone == loose = {} => \A f \in Working \cup open : f = holder

(* While no flow is loose, an append starts from the stored reviews. *)
FreshSnapshot ==
    loose = {} =>
        \A f \in Flows : phase[f] = "appending" => snapshot[f] = reviews

GateInv == LockIsFreeable /\ Streams /\ HolderAlone /\ FreshSnapshot
-----------------------------------------------------------------------------
(* Type correctness: every action keeps the variables in their types. *)
THEOREM GateTypeCorrect == GateSpec => []TypeOK
<1>. USE GateAssumption
<1>1. GateInit => TypeOK
  BY DEF GateInit, TypeOK, Phase, NoAlarm
<1>2. TypeOK /\ [GateNext]_gateVars => TypeOK'
  <2>. SUFFICES ASSUME TypeOK, [GateNext]_gateVars PROVE TypeOK'
    OBVIOUS
  <2>. USE DEF TypeOK, Phase
  <2>1. ASSUME NEW f \in Flows, Fetch(f) PROVE TypeOK'
    BY <2>1 DEF Fetch, flowVars
  <2>2. ASSUME NEW f \in Flows, FetchFails(f) PROVE TypeOK'
    BY <2>2 DEF FetchFails, flowVars
  <2>3. ASSUME NEW f \in Flows, Throws(f) PROVE TypeOK'
    BY <2>3 DEF Throws, Unlock, flowVars
  <2>4. ASSUME NEW f \in Flows, Answers(f) PROVE TypeOK'
    BY <2>4 DEF Answers, lockVars, flowVars
  <2>5. ASSUME NEW f \in Flows, Starts(f) PROVE TypeOK'
    BY <2>5 DEF Starts, lockVars
  <2>6. ASSUME NEW f \in Flows, Retries(f) PROVE TypeOK'
    BY <2>6 DEF Retries, lockVars
  <2>7. ASSUME NEW f \in Flows, GivesUp(f) PROVE TypeOK'
    BY <2>7 DEF GivesUp, Finished, lockVars, flowVars
  <2>8. ASSUME NEW f \in Flows, Reads(f) PROVE TypeOK'
    BY <2>8 DEF Reads, lockVars
  <2>9. ASSUME NEW f \in Flows, Writes(f) PROVE TypeOK'
    BY <2>9 DEF Writes, Finished, lockVars
  <2>10. ASSUME NEW f \in Flows, Drains(f) PROVE TypeOK'
    BY <2>10 DEF Drains, Unlock, flowVars
  <2>11. ASSUME NEW f \in Flows, Cancels(f) PROVE TypeOK'
    BY <2>11 DEF Cancels, Unlock, flowVars
  <2>12. CASE Alarm
    BY <2>12 DEF Alarm, Unlock, flowVars
  <2>13. CASE Evict
    BY <2>13 DEF Evict, flowVars
  <2>14. CASE Tick
    BY <2>14 DEF Tick, NoAlarm
  <2>15. CASE UNCHANGED gateVars
    BY <2>15 DEF gateVars
  <2>. QED
    BY <2>1, <2>2, <2>3, <2>4, <2>5, <2>6, <2>7, <2>8, <2>9, <2>10, <2>11,
       <2>12, <2>13, <2>14, <2>15 DEF GateNext, Serves
<1>. QED
  BY <1>1, <1>2, PTL DEF GateSpec
-----------------------------------------------------------------------------
(* The lock is always held by an open response with its alarm set, and as  *)
(* long as no flow is loose the holder is alone past the gate and appends  *)
(* to what is stored.                                                      *)
THEOREM GateInvCorrect == GateSpec => []GateInv
<1>. USE GateAssumption
<1>1. GateInit => GateInv
  BY DEF GateInit, GateInv, LockIsFreeable, Streams, HolderAlone, FreshSnapshot, Working
<1>2. TypeOK /\ GateInv /\ [GateNext]_gateVars => GateInv'
  <2>. SUFFICES ASSUME TypeOK, GateInv, [GateNext]_gateVars PROVE GateInv'
    OBVIOUS
  <2>. USE DEF TypeOK, Phase, GateInv, LockIsFreeable, Streams, HolderAlone,
               FreshSnapshot, Working
  <2>1. ASSUME NEW f \in Flows, Fetch(f) PROVE GateInv'
    BY <2>1 DEF Fetch, Blocked, flowVars
  <2>2. ASSUME NEW f \in Flows, FetchFails(f) PROVE GateInv'
    BY <2>2 DEF FetchFails, Blocked, flowVars
  <2>3. ASSUME NEW f \in Flows, Throws(f) PROVE GateInv'
    BY <2>3 DEF Throws, Unlock, flowVars
  <2>4. ASSUME NEW f \in Flows, Answers(f) PROVE GateInv'
    BY <2>4 DEF Answers, lockVars, flowVars
  <2>5. ASSUME NEW f \in Flows, Starts(f) PROVE GateInv'
    BY <2>5 DEF Starts, lockVars
  <2>6. ASSUME NEW f \in Flows, Retries(f) PROVE GateInv'
    BY <2>6 DEF Retries, lockVars
  <2>7. ASSUME NEW f \in Flows, GivesUp(f) PROVE GateInv'
    BY <2>7 DEF GivesUp, Finished, lockVars, flowVars
  <2>8. ASSUME NEW f \in Flows, Reads(f) PROVE GateInv'
    BY <2>8 DEF Reads, lockVars
  <2>9. ASSUME NEW f \in Flows, Writes(f) PROVE GateInv'
    BY <2>9 DEF Writes, Finished, lockVars
  <2>10. ASSUME NEW f \in Flows, Drains(f) PROVE GateInv'
    BY <2>10 DEF Drains, Unlock, flowVars
  <2>11. ASSUME NEW f \in Flows, Cancels(f) PROVE GateInv'
    BY <2>11 DEF Cancels, Unlock, flowVars
  <2>12. CASE Alarm
    BY <2>12 DEF Alarm, Unlock, flowVars
  <2>13. CASE Evict
    BY <2>13 DEF Evict, flowVars
  <2>14. CASE Tick
    BY <2>14 DEF Tick, NoAlarm
  <2>15. CASE UNCHANGED gateVars
    BY <2>15 DEF gateVars
  <2>. QED
    BY <2>1, <2>2, <2>3, <2>4, <2>5, <2>6, <2>7, <2>8, <2>9, <2>10, <2>11,
       <2>12, <2>13, <2>14, <2>15 DEF GateNext, Serves
<1>. QED
  BY <1>1, <1>2, GateTypeCorrect, PTL DEF GateSpec

(* The boolean of the gate never outlives what frees it. *)
THEOREM LockIsFreeableCorrect == GateSpec => []LockIsFreeable
<1>1. GateInv => LockIsFreeable
  BY DEF GateInv
<1>. QED
  BY <1>1, GateInvCorrect, PTL

(* One flow at a time is past the gate, as long as none has outlived its   *)
(* lock or was left at work by its client.                                 *)
THEOREM ExclusionCorrect == GateSpec => []ExclusiveUntilLoose
<1>1. GateInv => ExclusiveUntilLoose
  BY DEF GateInv, HolderAlone, ExclusiveUntilLoose
<1>. QED
  BY <1>1, GateInvCorrect, PTL

(* And then no append drops a review. *)
THEOREM ReviewsKeptCorrect == GateSpec => ReviewsKeptUntilLoose
<1>1. GateInv /\ [GateNext]_gateVars => (loose = {} => reviews \subseteq reviews')
  <2>. SUFFICES ASSUME GateInv, [GateNext]_gateVars, loose = {}
               PROVE  reviews \subseteq reviews'
    OBVIOUS
  <2>1. ASSUME NEW f \in Flows, Writes(f) PROVE reviews \subseteq reviews'
    BY <2>1 DEF Writes, GateInv, FreshSnapshot
  <2>2. CASE UNCHANGED reviews
    BY <2>2
  <2>. QED
    BY <2>1, <2>2 DEF GateNext, Serves, Fetch, FetchFails, Throws, Answers, Starts,
       Retries, GivesUp, Reads, Drains, Cancels, Alarm, Evict, Tick, gateVars, flowVars
<1>. QED
  BY <1>1, GateInvCorrect, PTL DEF GateSpec, ReviewsKeptUntilLoose
=============================================================================
