------------------------------ MODULE RiotCollect ------------------------------
(***************************************************************************)
(* The collection of one player from Riot: what run() of                   *)
(* service/riot_ingest.py asks, in which order, what it does with a call   *)
(* that fails, and what it tells the player.  The profile phase takes the  *)
(* newest games; the deep phase, when the main role is served by a model,  *)
(* looks further back for games of that role until the window of the model *)
(* is full, a deadline or too many failures.  The index of scanned games   *)
(* keeps what a later run need not pay for again.                          *)
(*                                                                         *)
(* Games are numbered as they are played, history[g] is the player's       *)
(* position in g.  The puts of a run are Publication's: here they are two, *)
(* the index and the rest.  The cache of the job's temporary directory is  *)
(* empty of every game a phase asks for, and left out.                     *)
(***************************************************************************)
EXTENDS Integers, FiniteSets, Sequences

CONSTANTS
    Position,             \* positions of the games the player plays
    OpenRole,             \* the product's roles whose model is open
    PROFILE_GAMES,        \* newest games a run examines: 20
    TARGET_ROLE_GAMES,    \* games of the role a model scores: 20
    MAX_HISTORY_SCANNED,  \* games a run may look back on: 100
    MAX_FETCH_FAILURES,   \* failures the deep phase goes on after: 5
    DEADLINE,             \* DEEP_PHASE_DEADLINE_S
    ATTEMPTS,             \* attempts of _get: 6
    SLOW,                 \* longest attempt, with its throttle and its wait
    MaxPlayed             \* bound of the games played

ASSUME RiotAssumption ==
    /\ PROFILE_GAMES \in Nat \ {0}
    /\ TARGET_ROLE_GAMES \in Nat \ {0}
    /\ MAX_HISTORY_SCANNED \in Nat
    /\ PROFILE_GAMES <= MAX_HISTORY_SCANNED
    /\ MAX_FETCH_FAILURES \in Nat
    /\ DEADLINE \in Nat \ {0}
    /\ ATTEMPTS \in Nat \ {0}
    /\ SLOW \in Nat
    /\ MaxPlayed \in Nat

VARIABLES
    history,    \* Riot's history: the player's position in each game
    stored,     \* the games of the games key
    scanIndex,  \* the scan_index key: the role of games examined and kept out
    analysis,   \* the role_shap key
    run,        \* the collection under way
    told,       \* what the last run answered, and whether Riot failed it
    seen,       \* history: the newest game at the last published run
    gap,        \* history: a published run has left a hole behind
    dismissed,  \* history: games examined for another role, index put
    again       \* history: games examined and dismissed once more

vars == <<history, stored, scanIndex, analysis, run, told, seen, gap, dismissed, again>>
keys == <<stored, scanIndex, analysis>>
past == <<seen, gap, dismissed, again>>
-----------------------------------------------------------------------------
NoRole == "none"
NoPosition == "?"    \* Riot gives no teamPosition
OffMap == "off"      \* extract_game keeps nothing of the game

(* UTILITY is Riot's name of the product's SUPPORT. *)
normalize_role(p) == IF p = "UTILITY" THEN "SUPPORT" ELSE p
riot_role(r) == IF r = "SUPPORT" THEN "UTILITY" ELSE r

(* The keys of ROLE_TO_SCOPE. *)
ScopeRole == {"TOP", "JUNGLE", "MIDDLE", "BOTTOM", "UTILITY"}

Games == 1..Len(history)
Newest(S, n) == {g \in S : Cardinality({h \in S : h > g}) < n}
MaxOf(S) == CHOOSE g \in S : \A h \in S : h <= g

role_games(S, r) == {g \in S : normalize_role(history[g]) = r}

(* What detect may return for the games S: a role among the most played of *)
(* those that have a scope.  The order of the file decides between equals. *)
detect(S) ==
    LET count(r) == Cardinality(role_games(S, r))
        known == {r \in ScopeRole : count(r) > 0}
    IN  IF known = {} THEN {NoRole}
        ELSE {r \in known : \A q \in known : count(q) <= count(r)}

profile_ids(top) == Newest(1..top, PROFILE_GAMES)
match_ids(top) == Newest(1..top, MAX_HISTORY_SCANNED)

NoRun == [step |-> "idle", call |-> "none", tries |-> 0, game |-> 0, todo |-> {},
          top |-> 0, base |-> {}, got |-> {}, ranked |-> FALSE, role |-> NoRole,
          reason |-> "none", needed |-> 0, index |-> <<>>, failed |-> 0,
          deepFailed |-> 0, clock |-> 0, late |-> FALSE, hurt |-> FALSE,
          dropped |-> {}]

NoAnalysis == [reason |-> "absent", role |-> NoRole, window |-> {}, voters |-> {},
               top |-> 0]

Merged == run.base \cup run.got
Voters == Merged \cap profile_ids(run.top)

(* The client is asked, or has nothing more to answer. *)
Asks(r, c) == [r EXCEPT !.call = c, !.tries = ATTEMPTS]
Rests(r) == [r EXCEPT !.call = "none", !.tries = 0, !.game = 0]

(* Time only matters to the deep phase, from its start. *)
Spends(d) == [run EXCEPT !.clock = IF run.step = "deep" THEN @ + d ELSE 0]
Calling(c) == run.call = c

Ends(code) ==
    /\ told' = [code |-> code, hurt |-> run.hurt]
    /\ run' = NoRun
    /\ UNCHANGED <<history, keys, past>>

Goes(r) ==
    /\ run' = r
    /\ UNCHANGED <<history, keys, told, past>>
-----------------------------------------------------------------------------
Init ==
    /\ history = <<>>
    /\ stored = {}
    /\ scanIndex = <<>>
    /\ analysis = NoAnalysis
    /\ run = NoRun
    /\ told = [code |-> "none", hurt |-> FALSE]
    /\ seen = 0
    /\ gap = FALSE
    /\ dismissed = {}
    /\ again = {}

Plays(p) ==
    /\ Len(history) < MaxPlayed
    /\ history' = Append(history, p)
    /\ UNCHANGED <<keys, run, told, past>>

Requested ==
    /\ run.step = "idle"
    /\ Goes(Asks([NoRun EXCEPT !.step = "lookup"], "account"))

(* One more attempt of _get: the network, a 429 or a 5xx, with its wait. *)
Retries(d) ==
    /\ run.call # "none"
    /\ run.tries > 1
    /\ Goes([Spends(d) EXCEPT !.tries = @ - 1])

(* The lookups: a call that raises ends the run, and so does a Riot ID or  *)
(* a history that Riot does not know.                                      *)
LookupRaises ==
    /\ run.step = "lookup"
    /\ told' = [code |-> "riot_unavailable", hurt |-> TRUE]
    /\ run' = NoRun
    /\ UNCHANGED <<history, keys, past>>

AccountFound == Calling("account") /\ Goes(Asks(run, "league"))
AccountUnknown == Calling("account") /\ Ends("riot_id_not_found")

LeagueRead(covered) ==
    /\ Calling("league")
    /\ Goes(Asks([run EXCEPT !.ranked = covered], "ids"))

NoIds == Calling("ids") /\ Ends("no_ranked_games")

(* The list is there: the games of KV are read and the profile phase takes *)
(* the newest of the list that are not among them.                         *)
IdsListed ==
    /\ Calling("ids")
    /\ history # <<>>
    /\ LET top == Len(history)
       IN  Goes([Rests(run) EXCEPT !.step = "profile", !.top = top, !.base = stored,
                                   !.todo = profile_ids(top) \ stored])
-----------------------------------------------------------------------------
(* fetch_match_timeline and the loops around it. *)
ProfileTakes ==
    /\ run.step = "profile" /\ Calling("none") /\ run.todo # {}
    /\ LET g == MaxOf(run.todo)
       IN  Goes(Asks([run EXCEPT !.game = g, !.todo = @ \ {g}], "match"))

(* Mutant: the game is put back instead of being counted. *)
MutFetchFails(d) ==
    /\ run.call \in {"match", "timeline"}
    /\ Goes([Rests(Spends(d)) EXCEPT !.hurt = TRUE, !.todo = @ \cup {run.game}])

(* A call that raises, or a document Riot does not have. *)
FetchFails(d) ==
    /\ run.call \in {"match", "timeline"}
    /\ LET r == [Rests(Spends(d)) EXCEPT !.hurt = TRUE]
       IN  Goes(IF run.step = "deep" THEN [r EXCEPT !.deepFailed = @ + 1]
                                     ELSE [r EXCEPT !.failed = @ + 1])

(* The match is there; the deep phase looks at the role before it pays for *)
(* the timeline.                                                           *)
MatchFound(d) ==
    /\ Calling("match")
    /\ run.step = "deep" => history[run.game] = riot_role(run.role)
    /\ Goes(Asks(Spends(d), "timeline"))

(* Mutant: the role looked for is recorded, not the one observed. *)
MutRoleMismatchTarget(d) ==
    /\ Calling("match") /\ run.step = "deep"
    /\ history[run.game] # riot_role(run.role)
    /\ run' = [Rests(Spends(d)) EXCEPT
                  !.index = [h \in DOMAIN run.index \cup {run.game} |->
                                IF h = run.game THEN run.role ELSE run.index[h]],
                  !.dropped = @ \cup {run.game}]
    /\ again' = again \cup ({run.game} \cap dismissed)
    /\ UNCHANGED <<history, keys, told, seen, gap, dismissed>>

RoleMismatch(d) ==
    /\ Calling("match") /\ run.step = "deep"
    /\ history[run.game] # riot_role(run.role)
    /\ LET g == run.game
           observed == history[g] \notin {NoPosition, OffMap}
       IN  /\ run' = [Rests(Spends(d)) EXCEPT
                         !.index = IF ~observed THEN @
                                   ELSE [h \in DOMAIN run.index \cup {g} |->
                                           IF h = g THEN normalize_role(history[g])
                                                    ELSE run.index[h]],
                         !.dropped = @ \cup {g}]
           /\ again' = again \cup ({g} \cap dismissed)
    /\ UNCHANGED <<history, keys, told, seen, gap, dismissed>>

TimelineFound(d) ==
    /\ Calling("timeline")
    /\ LET g == run.game
           kept == {g} \ {h \in {g} : history[h] = OffMap}
           r == [Rests(Spends(d)) EXCEPT !.got = @ \cup kept]
       IN  Goes(IF run.step # "deep" THEN r
                ELSE [r EXCEPT !.needed = @ - Cardinality(kept),
                               !.index = [h \in DOMAIN run.index \cup {g} |->
                                            IF h = g THEN run.role ELSE run.index[h]]])
-----------------------------------------------------------------------------
(* Mutant: a history whose games all failed is told as empty. *)
MutNothingCollected ==
    /\ run.step = "profile" /\ Calling("none") /\ run.todo = {}
    /\ run.got = {}
    /\ run.base = {} \/ run.failed > 0
    /\ Ends(IF run.base # {} THEN "riot_unavailable" ELSE "no_ranked_games")

(* The end of the profile phase, when there is nothing to publish. *)
NothingCollected ==
    /\ run.step = "profile" /\ Calling("none") /\ run.todo = {}
    /\ run.got = {}
    /\ run.base = {} \/ run.failed > 0
    /\ Ends(IF run.failed > 0 THEN "riot_unavailable" ELSE "no_ranked_games")

preflight(role) ==
    IF role = NoRole THEN "window_too_short"
    ELSE IF role \notin OpenRole THEN "role_closed"
    ELSE IF ~run.ranked THEN "rank_out_of_scope" ELSE "none"

(* The end of the profile phase: the role is decided on its games, and the *)
(* deep phase has games to look at when the window of an open role is not  *)
(* full.                                                                   *)
ProfileEnds(role) ==
    /\ run.step = "profile" /\ Calling("none") /\ run.todo = {}
    /\ run.got # {} \/ (run.base # {} /\ run.failed = 0)
    /\ role \in detect(Voters)
    /\ LET reason == preflight(role)
           missing == TARGET_ROLE_GAMES - Cardinality(role_games(Merged, role))
       IN  Goes([run EXCEPT
               !.step = "deep", !.role = role, !.reason = reason, !.index = scanIndex,
               !.needed = IF reason = "none" /\ missing > 0 THEN missing ELSE 0,
               !.todo = IF reason = "none" /\ missing > 0
                        THEN (match_ids(run.top) \ profile_ids(run.top)) \ run.base
                        ELSE {}])

(* collect_role_window: the stops, in the order of the loop. *)
AtLoop == run.step = "deep" /\ Calling("none")
Enough == run.needed = 0 \/ run.todo = {}
MutTooLate == run.clock > DEADLINE   \* mutant
TooLate == run.clock >= DEADLINE
TooManyFailures == run.deepFailed > MAX_FETCH_FAILURES

MutKnownOther(g) == g \in DOMAIN run.index   \* mutant: skips the role's own games
KnownOther(g) == g \in DOMAIN run.index /\ run.index[g] # run.role

DeepSkips ==
    /\ AtLoop /\ ~Enough /\ ~TooLate /\ ~TooManyFailures
    /\ KnownOther(MaxOf(run.todo))
    /\ Goes([run EXCEPT !.todo = @ \ {MaxOf(run.todo)}])

DeepTakes ==
    /\ AtLoop /\ ~Enough /\ ~TooLate /\ ~TooManyFailures
    /\ LET g == MaxOf(run.todo)
       IN  /\ ~KnownOther(g)
           /\ Goes(Asks([run EXCEPT !.game = g, !.todo = @ \ {g}], "match"))

DeepEnds ==
    /\ AtLoop /\ (Enough \/ TooLate \/ TooManyFailures)
    /\ Goes([run EXCEPT !.step = "collected", !.todo = {},
                        !.late = ~Enough /\ TooLate])
-----------------------------------------------------------------------------
PutsIndex ==
    /\ run.step = "collected"
    /\ scanIndex' = run.index
    /\ dismissed' = dismissed \cup run.dropped
    /\ run' = [run EXCEPT !.step = "indexed"]
    /\ UNCHANGED <<history, stored, analysis, told, seen, gap, again>>

(* Mutant: a run cut short is told like one that saw everything. *)
Mut_role_analysis(scores) ==
    LET window == role_games(Merged, run.role)
    IN  IF run.reason # "none" THEN run.reason
        ELSE IF Cardinality(window) < TARGET_ROLE_GAMES
             THEN IF run.failed + run.deepFailed > 0
                  THEN "collection_incomplete" ELSE "window_too_short"
        ELSE IF scores THEN "available" ELSE "scoring_failed"

(* The reason the analysis gives for being absent, or "available". *)
_role_analysis(scores) ==
    LET window == role_games(Merged, run.role)
    IN  IF run.reason # "none" THEN run.reason
        ELSE IF Cardinality(window) < TARGET_ROLE_GAMES
             THEN IF run.failed + run.deepFailed > 0 \/ run.late
                  THEN "collection_incomplete" ELSE "window_too_short"
        ELSE IF scores THEN "available" ELSE "scoring_failed"

(* The puts after the index (Publication has them one by one). *)
Publishes(scores) ==
    /\ run.step = "indexed"
    /\ stored' = Merged
    /\ LET reason == _role_analysis(scores)
       IN  analysis' = [reason |-> reason, role |-> run.role,
                        window |-> IF reason = "available"
                                   THEN Newest(role_games(Merged, run.role),
                                               TARGET_ROLE_GAMES)
                                   ELSE {},
                        voters |-> Voters, top |-> run.top]
    /\ told' = [code |-> "ok", hurt |-> run.hurt]
    /\ seen' = run.top
    /\ gap' = (gap \/ run.hurt \/ (seen > 0 /\ run.top - seen > PROFILE_GAMES))
    /\ run' = NoRun
    /\ UNCHANGED <<history, scanIndex, dismissed, again>>

(* The run is killed (gunicorn's timeout, the container) or a put raises. *)
Breaks ==
    /\ run.step # "idle"
    /\ Ends("internal")

RunStep ==
    \/ \E d \in 0..SLOW : Retries(d)
    \/ LookupRaises
    \/ AccountFound
    \/ AccountUnknown
    \/ \E covered \in BOOLEAN : LeagueRead(covered)
    \/ NoIds
    \/ IdsListed
    \/ ProfileTakes
    \/ \E d \in 0..SLOW : FetchFails(d)
    \/ \E d \in 0..SLOW : MatchFound(d)
    \/ \E d \in 0..SLOW : RoleMismatch(d)
    \/ \E d \in 0..SLOW : TimelineFound(d)
    \/ NothingCollected
    \/ \E role \in ScopeRole \cup {NoRole} : ProfileEnds(role)
    \/ DeepSkips
    \/ DeepTakes
    \/ DeepEnds
    \/ PutsIndex
    \/ \E scores \in BOOLEAN : Publishes(scores)

Next ==
    \/ \E p \in Position : Plays(p)
    \/ Requested
    \/ RunStep
    \/ Breaks

(* A run goes on: every call of the client has a timeout of its own. *)
Spec == Init /\ [][Next]_vars /\ WF_vars(RunStep)
-----------------------------------------------------------------------------
(***************************************************************************)
(* Properties                                                              *)
(***************************************************************************)
MainRole == (ScopeRole \ {"UTILITY"}) \cup {NoRole}
Reason == {"none", "window_too_short", "role_closed", "rank_out_of_scope"}

(* A scan index of the games S. *)
IndexOver(S) ==
    UNION {[D -> {normalize_role(p) : p \in Position} \cup ScopeRole] : D \in SUBSET S}

Runs ==
    [step : {"idle", "lookup", "profile", "deep", "collected", "indexed"},
     call : {"none", "account", "league", "ids", "match", "timeline"},
     tries : 0..ATTEMPTS, game : Games \cup {0}, todo : SUBSET Games,
     top : Games \cup {0}, base : SUBSET Games, got : SUBSET Games,
     ranked : BOOLEAN, role : MainRole, reason : Reason, needed : Nat,
     index : IndexOver(Games), failed : Nat, deepFailed : Nat, clock : Nat,
     late : BOOLEAN, hurt : BOOLEAN, dropped : SUBSET Games]

RiotTypeOK ==
    /\ history \in Seq(Position)
    /\ stored \in SUBSET Games
    /\ scanIndex \in IndexOver(Games)
    /\ run \in Runs
    /\ dismissed \in SUBSET Games
    /\ again \in SUBSET Games

(* The scan index never lies, neither in KV nor in the run under way, and  *)
(* it pays: a game examined for another role by a run that put its index   *)
(* is not examined and dismissed again, unless Riot gives it no position.  *)
IndexPays ==
    /\ \A g \in DOMAIN scanIndex : scanIndex[g] = normalize_role(history[g])
    /\ \A g \in DOMAIN run.index : run.index[g] = normalize_role(history[g])
    /\ \A g \in again : history[g] \in {NoPosition, OffMap}

(* Nobody is told that the account or its games are at fault when it was   *)
(* Riot that failed, and "window_too_short" for a role is true of Riot's   *)
(* own history, whatever the runs before have collected or missed.         *)
BlameIsTrue ==
    /\ told.code \in {"riot_id_not_found", "no_ranked_games"} => ~told.hurt
    /\ analysis.reason = "window_too_short" /\ analysis.role # NoRole =>
           Cardinality(role_games(match_ids(analysis.top), analysis.role))
               < TARGET_ROLE_GAMES

(* The window a score was computed on holds the newest games of the role   *)
(* Riot has, unless a fetch failed in a published run or more games than a *)
(* profile were played between two of them.                                *)
WindowIsNewest ==
    analysis.reason = "available" /\ ~gap =>
        analysis.window = Newest(role_games(1..analysis.top, analysis.role),
                                 TARGET_ROLE_GAMES)

(* The deep phase overruns its deadline by the calls of one game at most.  *)
DeadlineHeld == run.clock < DEADLINE + 2 * ATTEMPTS * SLOW

(* A run ends, with an answer. *)
RunEnds == run.step # "idle" ~> run.step = "idle"

(* The role of the analysis is the most played of the profile (docstring   *)
(* of detect, service/main_role.py:29: "Role Riot le plus joue, ou None si *)
(* aucun role n'est exploitable").                                         *)
RoleIsMostPlayed ==
    \A p \in ScopeRole :
        Cardinality({g \in analysis.voters : history[g] = p})
            <= Cardinality(role_games(analysis.voters, analysis.role))
=============================================================================
