------------------------------ MODULE Publication ------------------------------
(***************************************************************************)
(* The published data of one player: the keys of Workers KV and the raw    *)
(* documents of R2, and their two writers, which share no transaction and  *)
(* no lock.  The collection service (run() of service/riot_ingest.py)      *)
(* reads the games in KV, collects from Riot for minutes, and puts key     *)
(* after key.  The synchronisation of the owner's computer (sync_account() *)
(* of src/collection/sync_cloudflare.py) puts its own games and what it    *)
(* computes from them.  Either may stop between any two puts.              *)
(*                                                                         *)
(* Games are numbered as they are played.  A key's value is the set of     *)
(* games it reflects.  The service handles one request at a time (the one  *)
(* gunicorn worker and thread of the Dockerfile).                          *)
(***************************************************************************)
EXTENDS Integers, FiniteSets, Sequences

CONSTANTS
    PROFILE_GAMES,     \* newest games a collection examines: 20
    BUNDLE_GAMES,      \* GAME_PAYLOAD_GAMES, games with a coaching payload: 50
    MaxPlayed,         \* bound of the games the player plays
    MaxFailures,       \* bound of the failures of the service
    MaxPuts            \* bound of the puts of the synchronisation

ASSUME PublicationAssumption ==
    /\ PROFILE_GAMES \in Nat \ {0}
    /\ BUNDLE_GAMES \in Nat
    /\ PROFILE_GAMES <= BUNDLE_GAMES
    /\ MaxPlayed \in Nat
    /\ MaxFailures \in Nat
    /\ MaxPuts \in Nat

VARIABLES
    played,      \* games 1..played are in Riot's history
    kv,          \* the games each key of KV reflects
    r2,          \* the games whose raw documents are in R2
    job,         \* the collection the service is at, or NoJob
    pc,          \* the games of the owner's silver layer, raw on its disk
    sync,        \* the synchronisation under way, or NoSync
    failures,    \* history: failures of the service
    puts         \* history: puts of the synchronisation

vars == <<played, kv, r2, job, pc, sync, failures, puts>>
serviceVars == <<r2, job, failures>>
ownerVars == <<pc, sync, puts>>
-----------------------------------------------------------------------------
Games == Nat \ {0}

Key == {"payloads", "games", "gold", "account", "role_shap"}

(* Mutants: the games before their payloads; the account before the games. *)
MutRunOrderGames == <<"games", "payloads", "gold", "account", "role_shap">>
MutRunOrderAccount == <<"payloads", "account", "games", "gold", "role_shap">>

(* The keys in the order run() and sync_account() put them. *)
RunOrder == <<"payloads", "games", "gold", "account", "role_shap">>
SyncOrder == <<"games", "gold", "payloads">>

NoJob == [step |-> -1, base |-> {}, new |-> {}, items |-> {}, since |-> 0]
NoSync == [step |-> 0, snapshot |-> {}]

(* The n newest games of S. *)
Newest(S, n) == {g \in S : Cardinality({h \in S : h > g}) < n}

(* The history the service examines at each collection. *)
Profile == Newest(1..played, PROFILE_GAMES)

(* Mutant: only what was just collected is kept. *)
MutMerged(j) == IF j.new = {} THEN j.base ELSE j.new

(* The games read from KV and those collected. *)
Merged(j) == j.base \cup j.new

(* A put of the synchronisation fell within the collection. *)
Crossed(j) == puts # j.since

(* The service is past its put of key k. *)
Past(k) == \E i \in 1..Len(RunOrder) : RunOrder[i] = k /\ job.step > i
-----------------------------------------------------------------------------
Init ==
    /\ played = 0
    /\ kv = [k \in Key |-> {}]
    /\ r2 = {}
    /\ job = NoJob
    /\ pc = {}
    /\ sync = NoSync
    /\ failures = 0
    /\ puts = 0

Plays ==
    /\ played < MaxPlayed
    /\ played' = played + 1
    /\ UNCHANGED <<kv, serviceVars, ownerVars>>

(* Mutant: nothing collected for a player that has games. *)
MutCollectsOnce(new) ==
    /\ job = NoJob
    /\ played > 0
    /\ kv["games"] = {}
    /\ new \in SUBSET (1..played)
    /\ new \cap Profile # {}
    /\ job' = [step |-> 0, base |-> {}, new |-> new, items |-> {}, since |-> puts]
    /\ failures' = IF Profile \subseteq new THEN failures ELSE failures + 1
    /\ failures' <= MaxFailures
    /\ UNCHANGED <<played, kv, r2, ownerVars>>

(* run() collects: of the profile what KV does not have, less what failed  *)
(* or was filtered, and, for the window of the role, older games.  When    *)
(* there is nothing to publish it raises, and leaves everything as it was. *)
Collects(new) ==
    /\ job = NoJob
    /\ played > 0
    /\ new \in SUBSET ((1..played) \ kv["games"])
    /\ new \cap Profile # {} \/ kv["games"] # {}
    /\ job' = [step |-> 0, base |-> kv["games"], new |-> new, items |-> {},
               since |-> puts]
    /\ failures' = IF Profile \subseteq kv["games"] \cup new
                   THEN failures ELSE failures + 1
    /\ failures' <= MaxFailures
    /\ UNCHANGED <<played, kv, r2, ownerVars>>

(* Mutants: the bundle made of new payloads only; the raw not pushed. *)
MutPushesRawNew ==
    /\ job.step = 0
    /\ r2' = r2 \cup job.new
    /\ job' = [job EXCEPT !.step = 1,
                          !.items = {g \in Newest(Merged(job), BUNDLE_GAMES) :
                                        g \in job.new}]
    /\ UNCHANGED <<played, kv, failures, ownerVars>>

MutPushesRawNot ==
    /\ job.step = 0
    /\ job' = [job EXCEPT !.step = 1,
                          !.items = {g \in Newest(Merged(job), BUNDLE_GAMES) :
                                        g \in kv["payloads"] \cup r2 \cup job.new}]
    /\ UNCHANGED <<played, kv, r2, failures, ownerVars>>

(* run() has pushed the raw documents of what it collected and builds the  *)
(* payloads: those of the bundle in KV, and those it has raw for.          *)
PushesRaw ==
    /\ job.step = 0
    /\ r2' = r2 \cup job.new
    /\ job' = [job EXCEPT !.step = 1,
                          !.items = {g \in Newest(Merged(job), BUNDLE_GAMES) :
                                        g \in kv["payloads"] \cup r2 \cup job.new}]
    /\ UNCHANGED <<played, kv, failures, ownerVars>>

(* run() puts its next key; the last put ends it. *)
Puts ==
    /\ job.step \in 1..Len(RunOrder)
    /\ LET k == RunOrder[job.step]
       IN  kv' = [kv EXCEPT ![k] = IF k = "payloads" THEN job.items ELSE Merged(job)]
    /\ job' = IF job.step = Len(RunOrder) THEN NoJob ELSE [job EXCEPT !.step = @ + 1]
    /\ UNCHANGED <<played, r2, failures, ownerVars>>

(* An exception, or the container killed: what was put stays, and of the   *)
(* raw documents those pushed so far.                                      *)
Fails(pushed) ==
    /\ job # NoJob
    /\ failures < MaxFailures
    /\ pushed \in SUBSET (IF job.step = 0 THEN job.new ELSE {})
    /\ r2' = r2 \cup pushed
    /\ job' = NoJob
    /\ failures' = failures + 1
    /\ UNCHANGED <<played, kv, ownerVars>>

(* fetch_games() of the owner's computer. *)
PcCollects(new) ==
    /\ sync = NoSync
    /\ new \in SUBSET (1..played)
    /\ ~(new \subseteq pc)
    /\ pc' = pc \cup new
    /\ UNCHANGED <<played, kv, serviceVars, sync, puts>>

(* sync_account() reads the silver games. *)
SyncStarts ==
    /\ sync = NoSync
    /\ pc # {}
    /\ puts < MaxPuts
    /\ sync' = [step |-> 1, snapshot |-> pc]
    /\ UNCHANGED <<played, kv, serviceVars, pc, puts>>

(* sync_account() puts its next key. *)
SyncPuts ==
    /\ sync.step \in 1..Len(SyncOrder)
    /\ puts < MaxPuts
    /\ LET k == SyncOrder[sync.step]
       IN  kv' = [kv EXCEPT ![k] = IF k = "payloads"
                                   THEN Newest(sync.snapshot, BUNDLE_GAMES)
                                   ELSE sync.snapshot]
    /\ sync' = IF sync.step = Len(SyncOrder) THEN NoSync ELSE [sync EXCEPT !.step = @ + 1]
    /\ puts' = puts + 1
    /\ UNCHANGED <<played, serviceVars, pc>>

(* It fails, or was told to skip the payloads. *)
SyncStops ==
    /\ sync # NoSync
    /\ sync' = NoSync
    /\ UNCHANGED <<played, kv, serviceVars, pc, puts>>
-----------------------------------------------------------------------------
Service ==
    \/ \E new \in SUBSET (1..played) : Collects(new)
    \/ PushesRaw
    \/ Puts
    \/ \E pushed \in SUBSET job.new : Fails(pushed)

Owner ==
    \/ \E new \in SUBSET (1..played) : PcCollects(new)
    \/ SyncStarts
    \/ SyncPuts
    \/ SyncStops

Next == Plays \/ Service \/ Owner

Spec == Init /\ [][Next]_vars

(* The player is refreshed time and again, and run() goes on unless it     *)
(* fails, which it does at most MaxFailures times.                         *)
FairSpec ==
    /\ Spec
    /\ WF_vars(\E new \in SUBSET (1..played) : Collects(new))
    /\ WF_vars(PushesRaw \/ Puts)
-----------------------------------------------------------------------------
(* Types of the variables. *)
TypeOK ==
    /\ played \in Nat
    /\ kv \in [Key -> SUBSET Games]
    /\ r2 \in SUBSET Games
    /\ job \in [step : -1..Len(RunOrder), base : SUBSET Games, new : SUBSET Games,
                items : SUBSET Games, since : Nat]
    /\ pc \in SUBSET Games
    /\ sync \in [step : 0..Len(SyncOrder), snapshot : SUBSET Games]
    /\ failures \in Nat
    /\ puts \in Nat

(* run() makes a game visible only when its raw documents are durable: a   *)
(* visible game is in R2, or on the owner's disk.                          *)
VisibleHasRaw == kv["games"] \subseteq r2 \cup pc

(* As long as the owner's computer has put nothing, a partial publication  *)
(* leaves no visible game without its payload, but for those that the      *)
(* payloads in advance push out of the bundle's window.                    *)
ServiceJournals ==
    puts = 0 =>
        kv["games"] \cap Newest(kv["games"] \cup kv["payloads"], BUNDLE_GAMES)
            \subseteq kv["payloads"]

(* Then no key reflects a game that the keys before it do not: what the    *)
(* account says was collected is aggregated, and what is aggregated is     *)
(* visible.                                                                *)
ServiceInOrder ==
    puts = 0 =>
        /\ kv["role_shap"] \subseteq kv["account"]
        /\ kv["account"] \subseteq kv["gold"]
        /\ kv["gold"] \subseteq kv["games"]

(* A collection that no put of the owner's computer fell into hides no     *)
(* game, though it overwrites what it read minutes before.                 *)
ServiceKeepsGames ==
    [][puts' = puts /\ ~Crossed(job) => kv["games"] \subseteq kv'["games"]]_vars

(* Such a collection repairs the bundle: once it is put, every visible     *)
(* game of the window whose raw documents are in R2 has its payload, and   *)
(* the games collected are there whatever was put before.                  *)
ServiceRepairs ==
    Past("games") /\ ~Crossed(job) =>
        /\ Newest(kv["games"], BUNDLE_GAMES) \cap r2 \subseteq kv["payloads"]
        /\ job.new \subseteq kv["games"]

(* The bundle follows the visible games, ahead of them and repaired. *)
BundleFollows == ServiceJournals /\ ServiceRepairs

(* Whatever failed or was overwritten before, the newest games of the      *)
(* player are visible in the end, for good.                                *)
ProfileBecomesVisible == <>[](Profile \subseteq kv["games"])
=============================================================================
