----------------------------- MODULE Generation -----------------------------
(***************************************************************************)
(* One review written by the language model (src/src/04_coaching/coach.py, *)
(* llm_client.py, schema.py): either one call that writes the whole review *)
(* or two specialists asked in parallel, then a chief who may only choose  *)
(* among their insights by identifier.  A stage is a loop of SCHEMA        *)
(* attempts, each of them a loop of posts; time is counted in units of the *)
(* shortest wait, so that the telemetry kept with the review can be        *)
(* compared with the time that passed.                                     *)
(***************************************************************************)
EXTENDS NoValue, Integers, FiniteSets, Sequences, FiniteSetsExt, Functions

CONSTANTS
    ATTEMPTS,           \* posts of one call
    SCHEMA_ATTEMPTS,    \* calls of one stage
    MaxDelay,           \* the longest a post takes
    Drafts,             \* what a stage may write: [strengths, mistakes], the numbers of insights
    Selections          \* what a chief may write: [summary, mistakes, strengths, focus]

AXES == <<"death_positioning", "economy_build">>
Stages == Range(AXES) \cup {"chief", "whole"}

VARIABLES
    specialized,    \* the review is written by specialists
    stage,          \* the calls of each stage
    time,
    result,         \* the review and its run, or the error raised
    posts, received \* history: posts sent, outputs received

generationVars == <<specialized, stage, time, result, posts, received>>

-----------------------------------------------------------------------------
(* The schemas. *)

ValidDraft(o) == o.strengths <= 2 /\ o.mistakes \in 1 .. 5
ValidSelection(o) == Len(o.mistakes) \in 1 .. 5 /\ Len(o.strengths) <= 2

Conforms(s, o) == IF s = "chief" THEN ValidSelection(o) ELSE ValidDraft(o)
Outputs(s) == IF s = "chief" THEN Selections ELSE Drafts

(* The identifiers given to the insights of the specialists. *)
Ids(section) == UNION {{<<AXES[a], section, i>> : i \in 0 .. stage[AXES[a]].output[section] - 1} : a \in DOMAIN AXES}

(* What a run may be given: attempts, a timeout, answers of the schemas'    *)
(* types, whose identifiers name an insight.                               *)
Id == STRING \X STRING \X Nat
GenerationAssumption ==
    /\ ATTEMPTS \in Nat \ {0} /\ SCHEMA_ATTEMPTS \in Nat \ {0}
    /\ MaxDelay \in Nat \ {0}
    /\ Drafts \subseteq [strengths : Nat, mistakes : Nat]
    /\ Selections \subseteq [summary : Id, mistakes : Seq(Id), strengths : Seq(Id), focus : Id]

-----------------------------------------------------------------------------
(* A stage. *)

NotAsked == [status |-> "idle", try |-> 0, attempt |-> 0, due |-> 0, began |-> 0, latency |-> 0, output |-> None]
Ready(began) == [NotAsked EXCEPT !.status = "ready", !.began = began]
Ended == {"done", "llm", "invalid"}

Sets(s, changes) == stage' = [stage EXCEPT ![s] = changes]

Post(s) ==
    /\ stage[s].status = "ready" \/ (stage[s].status = "resting" /\ stage[s].due = time)
    /\ \E d \in 1 .. MaxDelay : Sets(s, [stage[s] EXCEPT !.status = "calling", !.due = time + d])
    /\ posts' = posts + 1
    /\ UNCHANGED <<specialized, time, result, received>>

Replied(s) == stage[s].status = "calling" /\ stage[s].due = time

(* 401 and the other rejections of the request are final. *)
Refused(s) ==
    /\ Replied(s)
    /\ Sets(s, [stage[s] EXCEPT !.status = "llm"])
    /\ UNCHANGED <<specialized, time, result, posts, received>>

(* A network error, 429, 5xx or a 200 whose content does not parse: again  *)
(* after a rest that grows, unless it was the last attempt.                *)
Again(s) ==
    LET now == stage[s]
    IN  IF now.attempt < ATTEMPTS - 1
        THEN [now EXCEPT !.status = "resting", !.attempt = @ + 1, !.due = time + now.attempt + 1]
        ELSE [now EXCEPT !.status = "llm"]

Unusable(s) ==
    /\ Replied(s)
    /\ Sets(s, Again(s))
    /\ UNCHANGED <<specialized, time, result, posts, received>>

(* An output.  The time of its call is added to the stage's; one that does *)
(* not conform to the schema is asked for again.                           *)
Read(s, o) ==
    LET now == [stage[s] EXCEPT !.latency = @ + time - stage[s].began]
    IN  IF Conforms(s, o) THEN [now EXCEPT !.status = "done", !.output = o]
        ELSE IF now.try < SCHEMA_ATTEMPTS - 1
             THEN [now EXCEPT !.status = "ready", !.try = @ + 1, !.attempt = 0, !.began = time]
             ELSE [now EXCEPT !.status = "invalid"]

Written(s) ==
    /\ Replied(s)
    /\ \E o \in Outputs(s) : Sets(s, Read(s, o))
    /\ received' = received + 1
    /\ UNCHANGED <<specialized, time, result, posts>>

-----------------------------------------------------------------------------
(* The review. *)

RunOf(s) == [latency |-> stage[s].latency, retries |-> stage[s].try, outputs |-> stage[s].try + 1]

Total(field) == RunOf(AXES[1])[field] + RunOf(AXES[2])[field] + RunOf("chief")[field]

(* Mutant: the specialists are counted one after the other. *)
MutCombinedRun ==
    [latency |-> Total("latency"), retries |-> Total("retries"), outputs |-> Total("outputs")]

(* The specialists run side by side, the chief after them. *)
CombinedRun ==
    [latency |-> Max({stage[AXES[1]].latency, stage[AXES[2]].latency}) + stage["chief"].latency,
     retries |-> Total("retries"), outputs |-> Total("outputs")]

Raised(s) == [error |-> stage[s].status]

(* Both specialists have ended: the error of the first that failed, or the *)
(* chief is asked.                                                         *)
Gather ==
    LET failed == {a \in DOMAIN AXES : stage[AXES[a]].status # "done"}
    IN  /\ specialized /\ result = None
        /\ stage["chief"].status = "idle"
        /\ \A a \in DOMAIN AXES : stage[AXES[a]].status \in Ended
        /\ IF failed # {} THEN result' = Raised(AXES[Min(failed)]) /\ UNCHANGED stage
           ELSE Sets("chief", Ready(time)) /\ UNCHANGED result
        /\ UNCHANGED <<specialized, time, posts, received>>

(* Each identifier once, in the order of their first places.               *)
Once(ids) ==
    LET firsts == {i \in DOMAIN ids : \A j \in 1 .. i - 1 : ids[j] # ids[i]}
        nth(k) == CHOOSE i \in firsts : Cardinality({j \in firsts : j <= i}) = k
    IN  [k \in 1 .. Cardinality(firsts) |-> ids[nth(k)]]

ValidChoice(o) ==
    /\ {o.summary, o.focus} \subseteq Range(o.mistakes)
    /\ Range(o.mistakes) \subseteq Ids("mistakes")
    /\ Range(o.strengths) \subseteq Ids("strengths")

Selected ==
    LET o == stage["chief"].output
    IN  IF stage["chief"].status # "done" THEN Raised("chief")
        ELSE IF ~ValidChoice(o) THEN [error |-> "invalid"]
        ELSE [review |-> [o EXCEPT !.mistakes = Once(@), !.strengths = Once(@)], run |-> CombinedRun]

Conclude ==
    /\ result = None
    /\ \/ /\ stage["chief"].status \in Ended
          /\ result' = Selected
       \/ /\ stage["whole"].status \in Ended
          /\ result' = IF stage["whole"].status = "done"
                       THEN [review |-> stage["whole"].output, run |-> RunOf("whole")]
                       ELSE Raised("whole")
    /\ UNCHANGED <<specialized, stage, time, posts, received>>

GenerationInit ==
    /\ specialized \in BOOLEAN
    /\ stage = [s \in Stages |-> IF s \in (IF specialized THEN Range(AXES) ELSE {"whole"}) THEN Ready(0) ELSE NotAsked]
    /\ time = 0
    /\ result = None
    /\ posts = 0
    /\ received = 0

(* Nothing but the answers and the rests takes time. *)
Waiting == {s \in Stages : stage[s].status \in {"calling", "resting"}}
Tick ==
    /\ Waiting # {}
    /\ \A s \in Waiting : stage[s].due > time
    /\ \A s \in Stages : stage[s].status # "ready"
    /\ time' = time + 1
    /\ UNCHANGED <<specialized, stage, result, posts, received>>

GenerationNext ==
    \/ \E s \in Stages : Post(s) \/ Refused(s) \/ Unusable(s) \/ Written(s)
    \/ Gather
    \/ Conclude
    \/ Tick

GenerationSpec == GenerationInit /\ [][GenerationNext]_generationVars

-----------------------------------------------------------------------------
(* Properties. *)

Delivered == result # None /\ "review" \in DOMAIN result

(* A review of the specialists is made of their insights alone: each one   *)
(* under the section its author put it in, none twice, its summary and its *)
(* focus among the mistakes it shows, and only when all three stages       *)
(* succeeded.                                                              *)
QuotesItsAuthors ==
    Delivered /\ specialized =>
       LET r == result.review
           wrote(id, section) == id[2] = section /\ id[3] < stage[id[1]].output[section]
       IN  /\ \A s \in Stages \ {"whole"} : stage[s].status = "done"
           /\ \A i \in DOMAIN r.mistakes : wrote(r.mistakes[i], "mistakes")
           /\ \A i \in DOMAIN r.strengths : wrote(r.strengths[i], "strengths")
           /\ Cardinality(Range(r.mistakes)) = Len(r.mistakes)
           /\ Cardinality(Range(r.strengths)) = Len(r.strengths)
           /\ {r.summary, r.focus} \subseteq Range(r.mistakes)

(* The run kept with a review tells what it cost: its latency is the time  *)
(* that passed, rests and rejected outputs included, and every output the  *)
(* model was asked for is counted.                                         *)
RunTellsTheCost ==
    Delivered => /\ result.run.latency = time
                 /\ result.run.outputs = received
                 /\ result.run.retries = received - Cardinality({s \in Stages : stage[s].status = "done"})

(* No review, whatever the model answers, costs more posts or more time    *)
(* than the attempts allow: stages in parallel count once.                 *)
CostIsBounded ==
    LET stages == IF specialized THEN 3 ELSE 1
        turns == IF specialized THEN 2 ELSE 1
        rests == (ATTEMPTS * (ATTEMPTS - 1)) \div 2
    IN  /\ posts <= stages * SCHEMA_ATTEMPTS * ATTEMPTS
        /\ time <= turns * SCHEMA_ATTEMPTS * (ATTEMPTS * MaxDelay + rests)

(* What the model is asked is paid for and quoted as it was written. *)
GenerationIsTrue == QuotesItsAuthors /\ RunTellsTheCost /\ CostIsBounded
=============================================================================
