------------------------------ MODULE CoachingDocs ------------------------------
(***************************************************************************)
(* The reviews and the answers (feedback) of one player, kept twice: in    *)
(* files of the owner's computer (coach.py, feedback.py) and under two     *)
(* keys of Workers KV, which the site writes (appendJsonl, upsertJsonl)    *)
(* and push_coaching of sync_cloudflare.py merges the files into.  Every   *)
(* writer of KV reads a whole document and puts it back, without a lock.   *)
(* The site also counts the votes of a visitor, by reading and putting a   *)
(* counter.                                                                *)
(*                                                                         *)
(* A review is its ts; reviews are numbered as they are written.  An       *)
(* answer is when it was given, 0 for none: a document holds at most one   *)
(* answer per review.                                                      *)
(***************************************************************************)
EXTENDS Naturals, FiniteSets

CONSTANTS
    MAX_FEEDBACK,   \* MAX_FEEDBACK_PER_HOUR of the site: 30
    Requests,       \* requests of one visitor under way at a time
    MaxReviews,     \* bound of the reviews written
    MaxAnswers,     \* bound of the answers given
    MaxVotes,       \* bound of the requests let through
    MaxPushes       \* bound of the runs of the synchronisation

ASSUME DocsAssumption ==
    /\ MAX_FEEDBACK \in Nat \ {0}
    /\ MaxReviews \in Nat
    /\ MaxAnswers \in Nat
    /\ MaxVotes \in Nat
    /\ MaxPushes \in Nat

VARIABLES
    reviews,    \* the reviews of the files ("pc") and of KV ("kv")
    answers,    \* the answer to each review, in the files and in KV
    votes,      \* the counter of the visitor in KV
    flow,       \* the reviews a coaching flow of the site is appending to
    request,    \* where each request of /api/feedback is
    push,       \* where the synchronisation is
    written,    \* reviews written so far
    given,      \* answers given so far
    pushes,     \* synchronisations so far
    passed,     \* history: requests the counter let through
    crossings,  \* history: puts of the counter over a count not read
    orphaned    \* history: reviews a put has dropped, or not brought before their answer

kvDocs == <<reviews, answers>>
vars == <<reviews, answers, votes, flow, request, push, written, given, pushes,
          passed, crossings, orphaned>>
-----------------------------------------------------------------------------
Review == 1..MaxReviews
NoAnswers == [t \in Review |-> 0]
Answered(doc) == {t \in Review : doc[t] # 0}

Idle == "idle"
NoFlow == [step |-> Idle, read |-> {}]
NoRequest == [step |-> Idle, ts |-> 0, count |-> 0, read |-> NoAnswers]
NoPush == [step |-> Idle, reviews |-> {}, local |-> {}, answers |-> NoAnswers,
           rows |-> NoAnswers]

(* Mutant: the rows KV has and the file has not are left out.              *)
MutMergedAnswers(remote, local) == local

(* merge_jsonl on the answers: the local row of a review replaces the      *)
(* remote one, and the rest of both is kept.                               *)
MergedAnswers(remote, local) ==
    [t \in Review |-> IF local[t] # 0 THEN local[t] ELSE remote[t]]
-----------------------------------------------------------------------------
Init ==
    /\ reviews = [pc |-> {}, kv |-> {}]
    /\ answers = [pc |-> NoAnswers, kv |-> NoAnswers]
    /\ votes = 0
    /\ flow = NoFlow
    /\ request = [r \in Requests |-> NoRequest]
    /\ push = NoPush
    /\ written = 0
    /\ given = 0
    /\ pushes = 0
    /\ passed = 0
    /\ crossings = 0
    /\ orphaned = {}
-----------------------------------------------------------------------------
(* coach.py: a review passed its validation and is appended to the file.   *)
Persists ==
    /\ written < MaxReviews
    /\ written' = written + 1
    /\ reviews' = [reviews EXCEPT !.pc = @ \cup {written + 1}]
    /\ UNCHANGED <<answers, votes, flow, request, push, given, pushes, passed,
                   crossings, orphaned>>

(* feedback.py: the owner judges a review of the file; persist_feedback    *)
(* rewrites the file with one answer to it.  A review all of whose items   *)
(* are skipped gets none.                                                  *)
Annotates(t) ==
    /\ given < MaxAnswers
    /\ t \in reviews.pc
    /\ given' = given + 1
    /\ answers' = [answers EXCEPT !.pc[t] = given + 1]
    /\ UNCHANGED <<reviews, votes, flow, request, push, written, pushes, passed,
                   crossings, orphaned>>
-----------------------------------------------------------------------------
(* appendJsonl at the end of a coaching flow: it reads the reviews.        *)
FlowReads ==
    /\ flow = NoFlow
    /\ written < MaxReviews
    /\ flow' = [step |-> "put", read |-> reviews.kv]
    /\ UNCHANGED <<kvDocs, votes, request, push, written, given, pushes, passed,
                   crossings, orphaned>>

(* It puts them with the new one, or the Worker is gone.                   *)
FlowPuts ==
    /\ flow.step = "put"
    /\ written < MaxReviews
    /\ written' = written + 1
    /\ reviews' = [reviews EXCEPT !.kv = flow.read \cup {written + 1}]
    /\ orphaned' = orphaned \cup (reviews.kv \ flow.read)
    /\ flow' = NoFlow
    /\ UNCHANGED <<answers, votes, request, push, given, pushes, passed, crossings>>

FlowStops ==
    /\ flow # NoFlow
    /\ flow' = NoFlow
    /\ UNCHANGED <<kvDocs, votes, request, push, written, given, pushes, passed,
                   crossings, orphaned>>
-----------------------------------------------------------------------------
(* Mutant: the review is not looked for.                                   *)
MutRequestFinds(r, t) ==
    /\ request[r] = NoRequest
    /\ request' = [request EXCEPT ![r] = [NoRequest EXCEPT !.step = "count", !.ts = t]]
    /\ UNCHANGED <<kvDocs, votes, flow, push, written, given, pushes, passed,
                   crossings, orphaned>>

(* apiFeedback: a well-formed request about a review that KV has.          *)
RequestFinds(r, t) ==
    /\ request[r] = NoRequest
    /\ t \in reviews.kv
    /\ request' = [request EXCEPT ![r] = [NoRequest EXCEPT !.step = "count", !.ts = t]]
    /\ UNCHANGED <<kvDocs, votes, flow, push, written, given, pushes, passed,
                   crossings, orphaned>>

(* Mutant: one vote too many.                                              *)
MutRequestCounts(r) ==
    /\ request[r].step = "count"
    /\ request' = [request EXCEPT ![r] =
           IF votes > MAX_FEEDBACK THEN NoRequest
           ELSE [@ EXCEPT !.step = "vote", !.count = votes]]
    /\ UNCHANGED <<kvDocs, votes, flow, push, written, given, pushes, passed,
                   crossings, orphaned>>

(* feedbackRateLimited reads the counter: the request is refused, or goes  *)
(* on with the count it read.                                              *)
RequestCounts(r) ==
    /\ request[r].step = "count"
    /\ request' = [request EXCEPT ![r] =
           IF votes >= MAX_FEEDBACK THEN NoRequest
           ELSE [@ EXCEPT !.step = "vote", !.count = votes]]
    /\ UNCHANGED <<kvDocs, votes, flow, push, written, given, pushes, passed,
                   crossings, orphaned>>

(* Mutant: the counter is not put.                                         *)
MutRequestVotes(r, tagged) ==
    /\ request[r].step = "vote"
    /\ passed < MaxVotes
    /\ passed' = passed + 1
    /\ request' = [request EXCEPT ![r] =
           IF tagged THEN [@ EXCEPT !.step = "read"] ELSE NoRequest]
    /\ UNCHANGED <<kvDocs, votes, flow, push, written, given, pushes, crossings,
                   orphaned>>

(* It puts the count it read and one.  An answer that says why not is then *)
(* refused when it lacks its tag: the vote is spent.                       *)
RequestVotes(r, tagged) ==
    /\ request[r].step = "vote"
    /\ passed < MaxVotes
    /\ votes' = request[r].count + 1
    /\ passed' = passed + 1
    /\ crossings' = IF votes = request[r].count THEN crossings ELSE crossings + 1
    /\ request' = [request EXCEPT ![r] =
           IF tagged THEN [@ EXCEPT !.step = "read"] ELSE NoRequest]
    /\ UNCHANGED <<kvDocs, flow, push, written, given, pushes, orphaned>>

(* upsertJsonl reads the answers.                                          *)
RequestReads(r) ==
    /\ request[r].step = "read"
    /\ request' = [request EXCEPT ![r] = [@ EXCEPT !.step = "put", !.read = answers.kv]]
    /\ UNCHANGED <<kvDocs, votes, flow, push, written, given, pushes, passed,
                   crossings, orphaned>>

(* It puts them with the answer in the place of an earlier one.            *)
RequestPuts(r) ==
    /\ request[r].step = "put"
    /\ given < MaxAnswers
    /\ given' = given + 1
    /\ answers' = [answers EXCEPT !.kv =
                      [request[r].read EXCEPT ![request[r].ts] = given + 1]]
    /\ request' = [request EXCEPT ![r] = NoRequest]
    /\ UNCHANGED <<reviews, votes, flow, push, written, pushes, passed, crossings,
                   orphaned>>

RequestStops(r) ==
    /\ request[r] # NoRequest
    /\ request' = [request EXCEPT ![r] = NoRequest]
    /\ UNCHANGED <<kvDocs, votes, flow, push, written, given, pushes, passed,
                   crossings, orphaned>>
-----------------------------------------------------------------------------
(* push_coaching: the reviews of KV, then those of the file, are read.     *)
(* Without the file it goes on to the answers.                             *)
PushReadsReviews ==
    /\ push = NoPush
    /\ pushes < MaxPushes
    /\ pushes' = pushes + 1
    /\ push' = IF reviews.pc = {} THEN [NoPush EXCEPT !.step = "read answers"]
               ELSE [NoPush EXCEPT !.step = "put reviews", !.reviews = reviews.kv,
                                   !.local = reviews.pc]
    /\ UNCHANGED <<kvDocs, votes, flow, request, written, given, passed, crossings,
                   orphaned>>

(* merge_jsonl of the two, whose rows of one ts are the same review.       *)
PushPutsReviews ==
    /\ push.step = "put reviews"
    /\ reviews' = [reviews EXCEPT !.kv = push.reviews \cup push.local]
    /\ orphaned' = orphaned \cup (reviews.kv \ (push.reviews \cup push.local))
    /\ push' = [push EXCEPT !.step = "read answers"]
    /\ UNCHANGED <<answers, votes, flow, request, written, given, pushes, passed,
                   crossings>>

(* The answers likewise; without a file there is nothing left to do.       *)
PushReadsAnswers ==
    /\ push.step = "read answers"
    /\ push' = IF answers.pc = NoAnswers THEN NoPush
               ELSE [push EXCEPT !.step = "put answers", !.answers = answers.kv,
                                 !.rows = answers.pc]
    /\ UNCHANGED <<kvDocs, votes, flow, request, written, given, pushes, passed,
                   crossings, orphaned>>

PushPutsAnswers ==
    /\ push.step = "put answers"
    /\ answers' = [answers EXCEPT !.kv = MergedAnswers(push.answers, push.rows)]
    /\ orphaned' = orphaned \cup (Answered(push.rows) \ push.local)
    /\ push' = NoPush
    /\ UNCHANGED <<reviews, votes, flow, request, written, given, pushes, passed,
                   crossings>>

(* sync_account with --seed-reviews instead: it reads the key, and puts    *)
(* the file when there is none.                                            *)
SeedReads ==
    /\ push = NoPush
    /\ pushes < MaxPushes
    /\ reviews.pc # {}
    /\ reviews.kv = {}
    /\ pushes' = pushes + 1
    /\ push' = [NoPush EXCEPT !.step = "seed"]
    /\ UNCHANGED <<kvDocs, votes, flow, request, written, given, passed, crossings,
                   orphaned>>

SeedPuts ==
    /\ push.step = "seed"
    /\ reviews' = [reviews EXCEPT !.kv = reviews.pc]
    /\ orphaned' = orphaned \cup (reviews.kv \ reviews.pc)
    /\ push' = NoPush
    /\ UNCHANGED <<answers, votes, flow, request, written, given, pushes, passed,
                   crossings>>

(* The owner, the network or KV stops it between two calls.                *)
PushStops ==
    /\ push # NoPush
    /\ push' = NoPush
    /\ UNCHANGED <<kvDocs, votes, flow, request, written, given, pushes, passed,
                   crossings, orphaned>>
-----------------------------------------------------------------------------
Owner ==
    \/ Persists
    \/ \E t \in Review : Annotates(t)
    \/ PushReadsReviews
    \/ PushPutsReviews
    \/ PushReadsAnswers
    \/ PushPutsAnswers
    \/ SeedReads
    \/ SeedPuts
    \/ PushStops

Site ==
    \/ FlowReads
    \/ FlowPuts
    \/ FlowStops
    \/ \E r \in Requests :
          \/ \E t \in Review : RequestFinds(r, t)
          \/ RequestCounts(r)
          \/ \E tagged \in BOOLEAN : RequestVotes(r, tagged)
          \/ RequestReads(r)
          \/ RequestPuts(r)
          \/ RequestStops(r)

Next == Owner \/ Site

Spec == Init /\ [][Next]_vars
-----------------------------------------------------------------------------
Answers == [Review -> Nat]
FlowState == [step : {Idle, "put"}, read : SUBSET Review]
RequestState == [step : {Idle, "count", "vote", "read", "put"}, ts : Review \cup {0},
                 count : Nat, read : Answers]
PushState == [step : {Idle, "put reviews", "read answers", "put answers", "seed"},
              reviews : SUBSET Review, local : SUBSET Review,
              answers : Answers, rows : Answers]

(* Types of the variables. *)
DocsTypeOK ==
    /\ reviews \in [pc : SUBSET Review, kv : SUBSET Review]
    /\ answers \in [pc : Answers, kv : Answers]
    /\ votes \in 0..MAX_FEEDBACK
    /\ flow \in FlowState
    /\ request \in [Requests -> RequestState]
    /\ push \in PushState
    /\ written \in 0..MaxReviews
    /\ given \in Nat
    /\ pushes \in Nat
    /\ passed \in Nat
    /\ crossings \in Nat
    /\ orphaned \in SUBSET Review

(* A review leaves KV only by a put whose writer had read the key before   *)
(* the review was in it.                                                   *)
ReviewsStay ==
    [][\A t \in reviews.kv \ reviews'.kv :
          \/ flow # NoFlow /\ flow' = NoFlow /\ t \notin flow.read
          \/ push.step = "put reviews" /\ push' # push /\ t \notin push.reviews
          \/ push.step = "seed" /\ push' = NoPush]_vars

(* The answer to a review gives way to an older one, or to none, only by a *)
(* put whose writer read the key before the answer was there, or by the    *)
(* push of an older answer of the file, which merge_jsonl takes for the    *)
(* newer one.                                                              *)
LastAnswerStays ==
    [][\A t \in Review : answers'.kv[t] < answers.kv[t] =>
          \/ \E r \in Requests :
                /\ request[r].step = "put" /\ request'[r] # request[r]
                /\ request[r].read[t] # answers.kv[t]
          \/ /\ push.step = "put answers" /\ push' # push
             /\ \/ push.answers[t] # answers.kv[t]
                \/ push.rows[t] = answers'.kv[t] /\ push.rows[t] # 0]_vars

(* So what the site and the files bring to KV stays there, but for what    *)
(* two writers read before either put.                                     *)
DocumentsKept == ReviewsStay /\ LastAnswerStays

(* An answer in KV is about a review in KV: every join by ts finds it.     *)
(* But for reviews that a crossed put has dropped, or that were written    *)
(* and judged between the two halves of a push.                            *)
NoOrphans == Answered(answers.kv) \subseteq reviews.kv \cup orphaned

(* The limit of the votes holds as far as the counter is not crossed: a    *)
(* crossed put lets through at most as many again.                         *)
VoteBudget == passed <= MAX_FEEDBACK * (1 + crossings)
=============================================================================
