--------------------------- MODULE CoachCommands ---------------------------
(***************************************************************************)
(* The coaching commands on the owner's computer (src/src/04_coaching:     *)
(* coach.py, feedback.py, counterfactual.py, payload.py) and the files     *)
(* they share without a lock: reviews.jsonl, feedback.jsonl,               *)
(* counterfactual.json and the failed outputs.  Every file but the first   *)
(* refers to a review by the second it was started in; the clock is the    *)
(* one the commands stamp with.  What a call of the model does is left to  *)
(* Generation: here a game yields a review or fails.                       *)
(***************************************************************************)
EXTENDS Integers, FiniteSets, Sequences, FiniteSetsExt, Functions, NoValue

CONSTANTS
    Records,        \* the silver rows, in the order of the file: [match, role, win, at]
    SCOPES,         \* the roles of each scope
    Spiked,         \* the matches whose journal has a spike of the opponent
    Commands,       \* the terminals
    Sessions,       \* what is run: how many commands of each kind, the scopes, the games and
                    \* the categories they are given
    Answers,        \* what one may answer of a review: functions from some items to BOOLEAN
    BATCH, MAX_PER_OUTCOME, BASELINES, PERTURBATIONS,
    MaxClock

VARIABLES
    session,
    clock,
    reviews,    \* reviews.jsonl, in the order of the file
    feedback,   \* feedback.jsonl: timestamp -> items
    failed,     \* failed/<timestamp>.json -> the match it is about
    report,     \* counterfactual.json
    job,        \* what each terminal runs
    left,       \* the commands still to be run
    judged      \* history: the last answers given about each review (and, in a job or a line of
                \* reviews, since and run: what it had read and which command it is)

commandVars == <<session, clock, reviews, feedback, failed, report, job, left, judged>>

InScope(role, scope) == role \in SCOPES[scope]
Games == {i \in DOMAIN reviews : reviews[i].kind = "game"}

-----------------------------------------------------------------------------
(* What a command reads. *)

(* Mutant: a row repeated in the silver is taken twice. *)
MutTakes(out, m) == Len(out) < BATCH /\ m \notin {reviews[i].match : i \in Games}

Takes(out, m) == /\ Len(out) < BATCH
                 /\ m \notin Range(out)
                 /\ m \notin {reviews[i].match : i \in Games}

(* The newest games of the scope nobody reviewed; a row without a time is  *)
(* as old as can be, and equal rows go by their place in the file.         *)
Newer(i, j) == Records[i].at > Records[j].at \/ (Records[i].at = Records[j].at /\ i > j)
Oldest(rows) == CHOOSE i \in rows : \A j \in rows \ {i} : Newer(j, i)
Pending(scope) ==
    LET take(m, out) == IF Takes(out, m) THEN Append(out, m) ELSE out
    IN  MapThenFoldSet(take, <<>>, LAMBDA i : Records[i].match, Oldest,
                       {i \in DOMAIN Records : InScope(Records[i].role, scope)})

(* The game asked for, whatever its role, or the last row of the scope. *)
SelectGame(scope, match) ==
    LET rows == {i \in DOMAIN Records : IF match = None THEN InScope(Records[i].role, scope)
                                                       ELSE Records[i].match = match}
    IN  IF rows = {} THEN None ELSE Records[Max(rows)].match

(* A review belongs to the scope of its game's role and to the one it was  *)
(* made under, even when they differ.                                      *)
ReviewMatchesScope(r, scope) == InScope(r.role, scope) \/ r.scope = scope

(* The reviews a synthesis may quote: the newest of each game, as many     *)
(* wins as losses when there are both, and one review otherwise.           *)
Later(i, j) == \/ reviews[i].ts > reviews[j].ts
               \/ reviews[i].ts = reviews[j].ts /\ reviews[i].match > reviews[j].match
               \/ reviews[i].ts = reviews[j].ts /\ reviews[i].match = reviews[j].match /\ i < j

Top(n, S) == {i \in S : Cardinality({j \in S : Later(j, i)}) < n}

Eligible(scope) == {i \in Games : ReviewMatchesScope(reviews[i], scope)}
LatestOfGame(scope) ==
    LET eligible == Eligible(scope)
    IN  {i \in eligible : ~\E j \in eligible : Later(j, i) /\ reviews[j].match = reviews[i].match}

GameReviewSample(scope) ==
    LET latest == LatestOfGame(scope)
        wins == {i \in latest : reviews[i].win = TRUE}
        losses == {i \in latest : reviews[i].win = FALSE}
        each == Min({Cardinality(wins), Cardinality(losses), MAX_PER_OUTCOME})
    IN  [available |-> <<Cardinality(wins), Cardinality(losses)>>,
         causes |-> IF wins # {} /\ losses # {} THEN Top(each, wins) \cup Top(each, losses)
                    ELSE Top(1, latest)]

(* The reviews an experiment takes as its baselines, newest first. *)
Newest(i, j) == reviews[i].ts > reviews[j].ts \/ (reviews[i].ts = reviews[j].ts /\ i < j)
Baselines == {i \in Games : Cardinality({j \in Games : Newest(j, i)}) < BASELINES}

(* The reviews nobody answered about, taken oldest first. *)
PendingReviews == {i \in DOMAIN reviews : reviews[i].ts \notin DOMAIN feedback}
OldestOf(todo) ==
    CHOOSE i \in todo : \A j \in todo \ {i} :
       reviews[i].ts < reviews[j].ts \/ (reviews[i].ts = reviews[j].ts /\ i < j)

-----------------------------------------------------------------------------
(* coach.py: one review, or a batch of them. *)

Idle == [kind |-> None]
Put(c, j) == job' = [job EXCEPT ![c] = j]
Free(c, kind) == kind \in DOMAIN left /\ left[kind] > 0 /\ job[c] = Idle

(* A line of a file of what each timestamp has. *)
Replaced(file, ts, value) == [t \in DOMAIN file \cup {ts} |-> IF t = ts THEN value ELSE file[t]]

Begins(c, j) == Put(c, j) /\ left' = [left EXCEPT ![j.kind] = @ - 1]

(* A second, in tenths: microseconds are added to the stamp of a game of   *)
(* the batch when another of its games already has this second.            *)
Second == clock * 10
Stamps == UNION {DOMAIN feedback, DOMAIN failed, {reviews[i].ts : i \in DOMAIN reviews},
                 UNION {job[d].seen : d \in {e \in Commands : job[e].kind = "batch"}}}
MutStamp(seen) == Second   \* mutant: two games of one second share their stamp

Stamp(seen) == IF Second \notin seen THEN Second
               ELSE Min((Second + 1 .. Second + 1 + Cardinality(Stamps)) \ Stamps)

StartBatch(c) ==
    /\ Free(c, "batch")
    /\ \E scope \in session.scopes :
         Begins(c, [kind |-> "batch", scope |-> scope, todo |-> Pending(scope), match |-> None, ts |-> None,
                    seen |-> {}, owed |-> Pending(scope), since |-> Len(reviews), run |-> left])
    /\ UNCHANGED <<session, clock, reviews, feedback, failed, report, judged>>

NextGame(c) ==
    /\ job[c].kind = "batch" /\ job[c].match = None /\ job[c].todo # <<>>
    /\ LET ts == Stamp(job[c].seen)
       IN  Put(c, [job[c] EXCEPT !.match = Head(job[c].todo), !.todo = Tail(job[c].todo),
                                 !.ts = ts, !.seen = @ \cup {ts}])
    /\ UNCHANGED <<session, clock, reviews, feedback, failed, report, left, judged>>

EndBatch(c) ==
    /\ job[c].kind = "batch" /\ job[c].match = None /\ job[c].todo = <<>>
    /\ Put(c, Idle)
    /\ UNCHANGED <<session, clock, reviews, feedback, failed, report, left, judged>>

StartGame(c) ==
    /\ Free(c, "game")
    /\ \E scope \in session.scopes, m \in session.games :
         /\ SelectGame(scope, m) # None
         /\ Begins(c, [kind |-> "game", scope |-> scope, match |-> SelectGame(scope, m), ts |-> Second,
                       since |-> Len(reviews), run |-> left])
    /\ UNCHANGED <<session, clock, reviews, feedback, failed, report, judged>>

(* The synthesis quotes the sample of its scope. *)
StartSynthesis(c) ==
    /\ Free(c, "synthesis")
    /\ \E scope \in session.scopes :
         Begins(c, [kind |-> "synthesis", scope |-> scope, match |-> None, ts |-> Second, since |-> Len(reviews), run |-> left])
    /\ UNCHANGED <<session, clock, reviews, feedback, failed, report, judged>>

Generating(c) == \/ job[c].kind \in {"game", "synthesis"}
                 \/ job[c].kind = "batch" /\ job[c].match # None

RecordOf(match) == CHOOSE r \in Range(Records) : r.match = match

(* The line persisted: the category of its mistake is the model's choice. *)
Line(c, category) ==
    [ts |-> job[c].ts, scope |-> job[c].scope, match |-> job[c].match,
     category |-> IF job[c].kind = "synthesis" THEN None ELSE category,
     kind |-> IF job[c].kind = "synthesis" THEN "synthesis" ELSE "game",
     role |-> IF job[c].match = None THEN None ELSE RecordOf(job[c].match).role,
     win |-> job[c].match # None /\ RecordOf(job[c].match).win,
     by |-> job[c].kind, since |-> job[c].since, run |-> job[c].run]

After(c) == IF job[c].kind # "batch" THEN Idle ELSE [job[c] EXCEPT !.match = None]

Persist(c) ==
    /\ Generating(c)
    /\ \E category \in session.categories : reviews' = Append(reviews, Line(c, category))
    /\ judged' = Append(judged, None)
    /\ Put(c, After(c))
    /\ UNCHANGED <<session, clock, feedback, failed, report, left>>

(* Documents or benchmark missing, a call of the model that failed. *)
Fails(c) ==
    /\ Generating(c)
    /\ Put(c, After(c))
    /\ UNCHANGED <<session, clock, reviews, feedback, failed, report, left, judged>>

(* An output that never fits the schema is saved under its timestamp. *)
SaveFailed(c) ==
    /\ Generating(c)
    /\ failed' = Replaced(failed, job[c].ts, job[c].match)
    /\ Put(c, After(c))
    /\ UNCHANGED <<session, clock, reviews, feedback, report, left, judged>>

-----------------------------------------------------------------------------
(* feedback.py: answers about one review, or about all that wait. *)

StartAnnotate(c) ==
    /\ Free(c, "annotate")
    /\ reviews # <<>>
    /\ \E todo \in {PendingReviews} \cup {{i} : i \in DOMAIN reviews} :
         Begins(c, [kind |-> "annotate", todo |-> todo])
    /\ UNCHANGED <<session, clock, reviews, feedback, failed, report, judged>>

(* The items answered replace what was said under that timestamp; a review *)
(* all of whose items are skipped is left as it was.                       *)
Rate(c) ==
    /\ job[c].kind = "annotate" /\ job[c].todo # {}
    /\ LET i == OldestOf(job[c].todo) IN
       /\ Put(c, [job[c] EXCEPT !.todo = @ \ {i}])
       /\ \E a \in Answers :
            IF DOMAIN a = {} THEN UNCHANGED <<feedback, judged>>
            ELSE /\ feedback' = Replaced(feedback, reviews[i].ts, a)
                 /\ judged' = [judged EXCEPT ![i] = a]
    /\ UNCHANGED <<session, clock, reviews, failed, report, left>>

EndAnnotate(c) ==
    /\ job[c].kind = "annotate" /\ job[c].todo = {}
    /\ Put(c, Idle)
    /\ UNCHANGED <<session, clock, reviews, feedback, failed, report, left, judged>>

(* The measures published: annotations are joined to reviews by timestamp. *)
GameStamps == {reviews[i].ts : i \in Games}
Items(field, kind, ok) == Cardinality({t \in DOMAIN field : kind \in DOMAIN field[t] /\ field[t][kind] \in ok})

Objective ==
    LET mine == Restrict(feedback, DOMAIN feedback \cap GameStamps)
    IN  [annotated |-> Cardinality(DOMAIN mine), mistakes |-> Items(mine, "mistake", BOOLEAN),
         useful |-> Items(mine, "mistake", {TRUE})]

(* The last review of a timestamp tells the category of its mistake. *)
CategoryOf(t) ==
    LET at == {i \in DOMAIN reviews : reviews[i].ts = t}
    IN  IF at = {} THEN None ELSE reviews[Max(at)].category
ByCategory(category) ==
    Items(Restrict(feedback, {t \in DOMAIN feedback : CategoryOf(t) = category}), "mistake", BOOLEAN)

-----------------------------------------------------------------------------
(* counterfactual.py: the model is asked again about a payload with one    *)
(* thing changed.                                                          *)

Row(i, name, verdict) == [ts |-> reviews[i].ts, match |-> reviews[i].match, name |-> name, verdict |-> verdict, base |-> i]
Applicable(i, name) == ~(name = "no_opponent_spike" /\ reviews[i].match \notin Spiked)
Verdicts(i, name) == IF Applicable(i, name) THEN {"passed", "failed", "error"} ELSE {"skipped"}

(* Baseline by baseline, perturbation by perturbation. *)
NextRun(todo) ==
    CHOOSE t \in todo : \A u \in todo \ {t} : Newest(t[1], u[1]) \/ (t[1] = u[1] /\ t[2] < u[2])

StartExperiment(c) ==
    /\ Free(c, "experiment")
    /\ Begins(c, [kind |-> "experiment", rows |-> <<>>, todo |-> Baselines \X DOMAIN PERTURBATIONS])
    /\ UNCHANGED <<session, clock, reviews, feedback, failed, report, judged>>

RunOne(c) ==
    /\ job[c].kind = "experiment" /\ job[c].todo # {}
    /\ LET t == NextRun(job[c].todo)  name == PERTURBATIONS[t[2]] IN
       \E verdict \in Verdicts(t[1], name) :
         Put(c, [job[c] EXCEPT !.todo = @ \ {t}, !.rows = Append(@, Row(t[1], name, verdict))])
    /\ UNCHANGED <<session, clock, reviews, feedback, failed, report, left, judged>>

EndExperiment(c) ==
    /\ job[c].kind \in {"experiment", "retry"} /\ job[c].todo = {}
    /\ report' = job[c].rows
    /\ Put(c, Idle)
    /\ UNCHANGED <<session, clock, reviews, feedback, failed, left, judged>>

(* Only the technical errors of the report are tried again, each on the    *)
(* review its row names.                                                   *)
StartRetry(c) ==
    /\ Free(c, "retry")
    /\ report # None
    /\ Begins(c, [kind |-> "retry", rows |-> report, read |-> report, known |-> Len(reviews),
                  todo |-> {k \in DOMAIN report : report[k].verdict = "error"}])
    /\ UNCHANGED <<session, clock, reviews, feedback, failed, report, judged>>

Named(row, known) == {i \in Games : i <= known /\ reviews[i].ts = row.ts /\ reviews[i].match = row.match}

RetryOne(c) ==
    /\ job[c].kind = "retry" /\ job[c].todo # {}
    /\ LET k == Min(job[c].todo)
           row == job[c].rows[k]
           i == Max(Named(row, job[c].known))
       IN  \E verdict \in Verdicts(i, row.name) :
             Put(c, [job[c] EXCEPT !.todo = @ \ {k}, !.rows[k] = Row(i, row.name, verdict)])
    /\ UNCHANGED <<session, clock, reviews, feedback, failed, report, left, judged>>

(* Interrupted: what it had not written is lost. *)
CommandKilled(c) ==
    /\ job[c] # Idle
    /\ Put(c, Idle)
    /\ UNCHANGED <<session, clock, reviews, feedback, failed, report, left, judged>>

-----------------------------------------------------------------------------
(* Stamps and matches are numbers, None is no number, no kind of command   *)
(* and no answer; a synthesis may quote one review of each outcome.        *)
CommandsAssumption ==
    /\ None \notin Int /\ None \notin Answers
    /\ None \notin {"batch", "game", "synthesis", "annotate", "experiment", "retry"}
    /\ Len(Records) \in Nat /\ DOMAIN Records = 1..Len(Records)
    /\ \A i \in DOMAIN Records : Records[i].match \in Int /\ Records[i].at \in Int /\ Records[i].win \in BOOLEAN
    /\ Len(PERTURBATIONS) \in Nat /\ DOMAIN PERTURBATIONS = 1..Len(PERTURBATIONS)
    /\ BATCH \in Nat /\ BASELINES \in Nat /\ MAX_PER_OUTCOME \in Nat \ {0}
    /\ IsFiniteSet(Commands)
    /\ \A s \in Sessions : s.commands \in [DOMAIN s.commands -> Nat]

CommandsInit ==
    /\ session \in Sessions
    /\ clock = 0
    /\ reviews = <<>>
    /\ feedback = << >>
    /\ failed = << >>
    /\ report = None
    /\ job = [c \in Commands |-> Idle]
    /\ left = session.commands
    /\ judged = <<>>

ClockTicks ==
    /\ clock < MaxClock
    /\ clock' = clock + 1
    /\ UNCHANGED <<session, reviews, feedback, failed, report, job, left, judged>>

CommandsNext ==
    \/ \E c \in Commands :
         \/ StartBatch(c) \/ NextGame(c) \/ EndBatch(c) \/ StartGame(c) \/ StartSynthesis(c)
         \/ Persist(c) \/ Fails(c) \/ SaveFailed(c)
         \/ StartAnnotate(c) \/ Rate(c) \/ EndAnnotate(c)
         \/ StartExperiment(c) \/ RunOne(c) \/ EndExperiment(c) \/ StartRetry(c) \/ RetryOne(c)
         \/ CommandKilled(c)
    \/ ClockTicks

CommandsSpec == CommandsInit /\ [][CommandsNext]_commandVars

-----------------------------------------------------------------------------
(* Properties. *)

(* A batch never reviews a game twice, and reviews one that was reviewed   *)
(* already only if that review was written after the batch had read them.  *)
ReviewedOnce ==
    \A i, j \in Games :
       i < j /\ reviews[j].by = "batch" /\ reviews[i].match = reviews[j].match =>
         reviews[j].since < i /\ reviews[i].run # reviews[j].run

(* A batch takes the newest games of its scope without a review, and none  *)
(* with one: no game it leaves aside is newer than one it takes.           *)
BatchIsOwed ==
    \A c \in {d \in Commands : job[d].kind = "batch"} :
       LET had == {reviews[i].match : i \in Games \cap 1 .. job[c].since}
           rows == {r \in Range(Records) : InScope(r.role, job[c].scope)}
           at(m) == Max({r.at : r \in {x \in rows : x.match = m}})
           scoped == {r.match : r \in rows}
           owed == Range(job[c].owed)
       IN  /\ owed \subseteq scoped \ had
           /\ Cardinality(owed) = Min({BATCH, Cardinality(scoped \ had)})
           /\ \A m \in scoped \ (had \cup owed), n \in owed : at(m) <= at(n)

(* A synthesis quotes a game once, through its newest review, as many wins *)
(* as losses as soon as it has both, and never more than it may; when it   *)
(* has one outcome only, it quotes one game.                               *)
SampleIsFair ==
    \A scope \in DOMAIN SCOPES :
       LET sample == GameReviewSample(scope)
           causes == sample.causes
           eligible == Eligible(scope)
           games(win) == {reviews[i].match : i \in {k \in eligible : reviews[k].win = win}}
           quoted(win) == {i \in causes : reviews[i].win = win}
           both == games(TRUE) # {} /\ games(FALSE) # {}
       IN  /\ causes \subseteq eligible
           /\ \A i \in causes, j \in eligible :
                i # j /\ reviews[j].match = reviews[i].match => j \notin causes /\ reviews[j].ts <= reviews[i].ts
           /\ sample.available = <<Cardinality(games(TRUE)), Cardinality(games(FALSE))>>
           /\ IF both THEN \A win \in BOOLEAN : Cardinality(quoted(win)) =
                             Min({MAX_PER_OUTCOME, Cardinality(games(TRUE)), Cardinality(games(FALSE))})
              ELSE Cardinality(causes) = Min({1, Cardinality(eligible)})

(* A game counts once, for the batches as for the synthesis. *)
GamesCountOnce == ReviewedOnce /\ BatchIsOwed /\ SampleIsFair

(* Two reviews of one second, by two commands: the only timestamps shared. *)
Twin(i) == \E j \in DOMAIN reviews : reviews[j].run # reviews[i].run /\ reviews[j].ts = reviews[i].ts

(* What is published about the annotations is what was answered about the  *)
(* games, and a review waits for an answer until it has one, unless two    *)
(* commands stamped a review in the same second.                           *)
MetricIsTrue ==
    LET answered == {i \in DOMAIN reviews : judged[i] # None}
        games == answered \cap Games
        mistakes(S, ok) == Cardinality({i \in S : "mistake" \in DOMAIN judged[i] /\ judged[i]["mistake"] \in ok})
    IN  /\ \A i \in DOMAIN reviews : ~Twin(i) => (i \in answered <=> i \notin PendingReviews)
        /\ (\A i \in answered : ~Twin(i)) =>
             /\ Objective = [annotated |-> Cardinality(games), mistakes |-> mistakes(games, BOOLEAN),
                             useful |-> mistakes(games, {TRUE})]
             /\ \A category \in session.categories \cup {None} :
                  ByCategory(category) = mistakes({i \in answered : reviews[i].category = category}, BOOLEAN)

(* Trying the errors of a report again changes no verdict, and pronounces  *)
(* the missing ones on the baseline of the first attempt, unless a twin    *)
(* review of the same game took its name.                                  *)
RetryKeepsVerdicts ==
    \A c \in {d \in Commands : job[d].kind = "retry"} :
       \A k \in DOMAIN job[c].read :
          LET before == job[c].read[k]  after == job[c].rows[k] IN
          /\ before.verdict # "error" => after = before
          /\ after.name = before.name /\ after.match = before.match
          /\ after.verdict # "skipped" \/ before.verdict = "skipped"
          /\ after.base # before.base => reviews[after.base].ts = reviews[before.base].ts

(* What refers to a review by its timestamp refers to the right one. *)
JoinsAreTrue == MetricIsTrue /\ RetryKeepsVerdicts
=============================================================================
