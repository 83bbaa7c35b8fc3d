------------------------------ MODULE Registration ------------------------------
(***************************************************************************)
(* How often a player is collected: the two routes of                      *)
(* web/cf/src/register.ts that ask for a collection, the collection queue  *)
(* they share, and the service, which stamps the account in Workers KV     *)
(* with last_ingest_ts before it answers.  Each side has its own window:   *)
(* the routes read last_ingest_ts, from a KV that may show an old value;   *)
(* the queue goes by the outcome it was told, which may be wrong.          *)
(*                                                                         *)
(* What KV shows is kept as the set of all stamps; the value of a stamp is *)
(* the time it was put.  The time between the read of a route and its      *)
(* request to the queue counts as staleness of the read.                   *)
(***************************************************************************)
EXTENDS IngestQueue

CONSTANTS
    Curated,           \* accounts of config/accounts.json; the others register
    FRESH_WINDOW,      \* FRESH_WINDOW_MS: 6 hours
    STALENESS          \* how long KV may show a value after it was replaced

ASSUME RegistrationAssumption ==
    /\ Curated \subseteq Slugs
    /\ FRESH_WINDOW \in Nat
    /\ REFRESH_COOLDOWN <= FRESH_WINDOW
    /\ STALENESS \in Nat
    /\ STALENESS <= RETRY_AFTER_ERROR

VARIABLES
    ingests,     \* the values last_ingest_ts of each account has had
    work,        \* what the run of the service that alarm() awaits has done
    late         \* history: slugs with a run that outlived the call

regVars == <<vars, ingests, work, late>>
serviceVars == <<ingests, work, late>>
-----------------------------------------------------------------------------
Work == {"none", "collecting", "stamped"}

(* No last_ingest_ts, or no account. *)
Never == -1

(* What a read of the account may show. *)
Settled(s) == {v \in ingests[s] : v + STALENESS <= now}

Readable(s) ==
    {v \in ingests[s] \cup {Never} : \A w \in Settled(s) : w <= v}

Recent(last, window) == last # Never /\ now - last < window

(* Mutant: apiRegister() without the fresh window. *)
MutMayRegister(s) == s \notin Curated

(* apiRegister() asks the queue; a tracked account is refused. *)
MayRegister(s) ==
    /\ s \notin Curated
    /\ \E last \in Readable(s) : ~Recent(last, FRESH_WINDOW)

(* Mutant: apiRefresh() without cooldownLeft(). *)
MutMayRefresh(s) == \E last \in Readable(s) : s \in Curated \/ last # Never

(* apiRefresh() asks the queue for an account it can read. *)
MayRefresh(s) ==
    \E last \in Readable(s) :
        /\ s \in Curated \/ last # Never
        /\ ~Recent(last, REFRESH_COOLDOWN)

(* The call of the service is over for alarm(), if there was one, with an  *)
(* answer or without; a run that has not stamped the account may go on.    *)
CallOver ==
    /\ work' = "none"
    /\ UNCHANGED ingests
    /\ late' \in IF work = "collecting" THEN {late, late \cup {serving}} ELSE {late}
-----------------------------------------------------------------------------
RegInit ==
    /\ Init
    /\ ingests = [s \in Slugs |-> {}]
    /\ work = "none"
    /\ late = {}

(* POST /api/register and POST /api/c/{slug}/refresh, let through. *)
ApiRegister(s) == MayRegister(s) /\ Enqueue(s) /\ UNCHANGED serviceVars

ApiRefresh(s) == MayRefresh(s) /\ Enqueue(s) /\ UNCHANGED serviceVars

ApiCut(s) ==
    /\ MayRegister(s) \/ MayRefresh(s)
    /\ EnqueueCut(s)
    /\ CallOver

(* alarm() calls the service. *)
CallStarts ==
    /\ AlarmStarts
    /\ work' = "collecting"
    /\ UNCHANGED <<ingests, late>>

(* datetime.now() of the service. *)
Stamp == now

(* run() puts the account; it may still fail after that. *)
Stamps ==
    /\ work = "collecting"
    /\ ingests' = [ingests EXCEPT ![serving] = @ \cup {Stamp}]
    /\ work' = "stamped"
    /\ UNCHANGED <<vars, late>>

(* A run that outlived its call puts the account. *)
StampsLate(s) ==
    /\ s \in late
    /\ ingests' = [ingests EXCEPT ![s] = @ \cup {Stamp}]
    /\ UNCHANGED <<vars, work, late>>

(* callIngest returns: "ok" only after the account was put. *)
CallEnds(outcome) ==
    /\ outcome = "done" => work = "stamped"
    /\ AlarmFinishes(outcome)
    /\ CallOver

(* The queue is lost, in a call, after it, or with none under way. *)
QueueLost ==
    /\ \/ Cut
       \/ \E outcome \in Outcome :
             (outcome = "done" => work = "stamped") /\ FinishCut(outcome)
       \/ \E S \in SUBSET StaleJobs : PurgeCut(S)
    /\ CallOver

(* What the queue does by itself. *)
QueueAlone ==
    /\ AlarmFindsNothing \/ Tick \/ Restart
    /\ UNCHANGED serviceVars
-----------------------------------------------------------------------------
RegNext ==
    \/ \E s \in Slugs : ApiRegister(s)
    \/ \E s \in Slugs : ApiRefresh(s)
    \/ \E s \in Slugs : ApiCut(s)
    \/ CallStarts
    \/ Stamps
    \/ \E s \in Slugs : StampsLate(s)
    \/ \E outcome \in Outcome : CallEnds(outcome)
    \/ QueueLost
    \/ QueueAlone

RegSpec == RegInit /\ [][RegNext]_regVars
-----------------------------------------------------------------------------
(* Types; and a run is awaited only while alarm() serves. *)
RegTypeOK ==
    /\ ingests \in [Slugs -> SUBSET Nat]
    /\ work \in Work
    /\ late \in SUBSET Slugs
    /\ work # "none" => serving # NoSlug

(* The two windows cover for one another: a slug joins the queue only when *)
(* its account was stamped longer than the cooldown ago, though the read   *)
(* was stale and the queue was told of a failure.  Only a run that         *)
(* outlived its call can have stamped more recently, and less than the     *)
(* staleness ago.                                                          *)
RequestSpacing ==
    [][\A s \in Slugs : ~InQueue(s) /\ InQueue(s)' =>
          \A v \in ingests[s] :
              \/ now - v >= REFRESH_COOLDOWN
              \/ s \in late /\ now - v < STALENESS]_regVars

(* So a player is stamped at most once per cooldown, as long as no run     *)
(* outlived its call and the queue was not lost.                           *)
StampSpacing ==
    [][\A s \in Slugs : ingests'[s] # ingests[s] /\ s \notin late /\ cuts = 0 =>
          \A v \in ingests[s] : now - v >= REFRESH_COOLDOWN]_regVars

(* Together: the cooldown of a player is kept at both its ends. *)
CooldownKept == RequestSpacing /\ StampSpacing
=============================================================================
