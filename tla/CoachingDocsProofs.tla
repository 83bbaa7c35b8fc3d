-------------------------- MODULE CoachingDocsProofs --------------------------
(***************************************************************************)
(* What the writers of the reviews and answers of a player may lose, for   *)
(* any number of requests at a time, of reviews, answers and pushes, and   *)
(* any limit of the votes; then what is kept of a review the language      *)
(* model wrote, whatever it answers and however it fails                   *)
(* (GenerationIsTrue); and last that the journal a review is written from  *)
(* has no hindsight (NoHindsight), and that its visits, spikes and clues   *)
(* are those of the events (JournalIsTrue), whatever the game.             *)
(***************************************************************************)
EXTENDS CoachingDocs, GameJournal, Generation, Integers, Sequences, FiniteSetTheorems, SequenceTheorems, WellFoundedInduction, TLAPS

(* A request that will count has found the counter under its limit. *)
CountsUnderLimit ==
    \A r \in Requests : request[r].step = "vote" => request[r].count < MAX_FEEDBACK

DocsTypes == DocsTypeOK /\ CountsUnderLimit

(* The reviews that are in KV, or are accounted for. *)
KnownReviews == reviews.kv \cup orphaned

(* Whatever a put may bring to the answers of KV is about a known review.  *)
OrphanInv ==
    /\ NoOrphans
    /\ \A r \in Requests :
          /\ request[r].step # Idle => request[r].ts \in KnownReviews
          /\ request[r].step = "put" => Answered(request[r].read) \subseteq KnownReviews
    /\ push.step \in {"read answers", "put answers"} => push.local \subseteq KnownReviews
    /\ push.step = "put answers" => Answered(push.answers) \subseteq KnownReviews

(* The requests let through are the count, and a limit for each crossing.  *)
VotesInv == passed <= votes + MAX_FEEDBACK * crossings

(* No copy of the answers is ahead of the last one given. *)
AtMost(doc, n) == \A t \in Review : doc[t] <= n

GivenInv ==
    /\ AtMost(answers.pc, given) /\ AtMost(answers.kv, given)
    /\ \A r \in Requests : AtMost(request[r].read, given)
    /\ AtMost(push.answers, given) /\ AtMost(push.rows, given)

LEMMA NothingTypes ==
    /\ NoAnswers \in Answers
    /\ NoRequest \in RequestState
    /\ NoPush \in PushState
    /\ NoFlow \in FlowState
BY DEF NoAnswers, Answers, NoRequest, RequestState, NoPush, PushState, NoFlow, FlowState, Idle

LEMMA MergedType ==
    ASSUME NEW a \in Answers, NEW b \in Answers
    PROVE  MergedAnswers(a, b) \in Answers
BY DEF MergedAnswers, Answers

LEMMA TypesInit == Init => DocsTypes
BY NothingTypes, DocsAssumption
DEF Init, DocsTypes, DocsTypeOK, CountsUnderLimit, NoRequest, Idle

(* The steps of the owner keep the types. *)
LEMMA TypesOwner == DocsTypes /\ Owner => DocsTypes'
<1> SUFFICES ASSUME DocsTypes, Owner
             PROVE  DocsTypes'
  OBVIOUS
<1> USE DocsAssumption DEF DocsTypes, DocsTypeOK, CountsUnderLimit
<1>1. CASE Persists
  <2>1. written + 1 \in Review
    BY <1>1 DEF Persists, Review
  <2>2. reviews' \in [pc : SUBSET Review, kv : SUBSET Review]
    BY <1>1, <2>1 DEF Persists
  <2>3. written' \in 0..MaxReviews
    BY <1>1 DEF Persists
  <2>4. QED
    BY <1>1, <2>2, <2>3 DEF Persists
<1>2. ASSUME NEW t \in Review, Annotates(t)
      PROVE  DocsTypes'
  <2>1. answers.pc \in Answers /\ given + 1 \in Nat
    OBVIOUS
  <2>2. [answers.pc EXCEPT ![t] = given + 1] \in Answers
    BY <2>1 DEF Answers
  <2>3. answers' = [answers EXCEPT !.pc = [answers.pc EXCEPT ![t] = given + 1]]
    BY <1>2 DEF Annotates
  <2>4. answers' \in [pc : Answers, kv : Answers]
    BY <2>2, <2>3
  <2>5. QED
    BY <1>2, <2>1, <2>4 DEF Annotates
<1>3. CASE PushReadsReviews
  <2>1. push' \in PushState
    <3>1. [NoPush EXCEPT !.step = "read answers"] \in PushState
      BY NothingTypes DEF PushState
    <3>2. ASSUME NEW X \in SUBSET Review, NEW Y \in SUBSET Review
          PROVE  [NoPush EXCEPT !.step = "put reviews", !.reviews = X, !.local = Y]
                 \in PushState
      BY NothingTypes DEF PushState
    <3>3. reviews.kv \in SUBSET Review /\ reviews.pc \in SUBSET Review
      OBVIOUS
    <3>4. QED
      BY <1>3, <3>1, <3>2, <3>3 DEF PushReadsReviews
  <2>2. pushes' = pushes + 1
    BY <1>3, Zenon DEF PushReadsReviews
  <2>3. UNCHANGED <<kvDocs, votes, flow, request, written, given, passed, crossings,
                    orphaned>>
    BY <1>3 DEF PushReadsReviews
  <2>4. QED
    BY <2>1, <2>2, <2>3 DEF kvDocs
<1>4. CASE PushPutsReviews
  <2>1. push' \in PushState
    BY <1>4 DEF PushPutsReviews, PushState
  <2>2. push.reviews \in SUBSET Review /\ push.local \in SUBSET Review
    BY DEF PushState
  <2>3. reviews' \in [pc : SUBSET Review, kv : SUBSET Review]
    BY <1>4, <2>2 DEF PushPutsReviews
  <2>4. orphaned' \in SUBSET Review
    BY <1>4 DEF PushPutsReviews
  <2>5. QED
    BY <1>4, <2>1, <2>3, <2>4 DEF PushPutsReviews
<1>5. CASE PushReadsAnswers
  <2>1. ASSUME NEW X \in Answers, NEW Y \in Answers
        PROVE  [push EXCEPT !.step = "put answers", !.answers = X, !.rows = Y]
               \in PushState
    BY DEF PushState
  <2>2. push' \in PushState
    BY <1>5, <2>1, NothingTypes DEF PushReadsAnswers
  <2>3. QED
    BY <1>5, <2>2 DEF PushReadsAnswers, kvDocs
<1>6. CASE PushPutsAnswers
  <2>1. push.answers \in Answers /\ push.rows \in Answers
    BY DEF PushState
  <2>2. MergedAnswers(push.answers, push.rows) \in Answers
    BY <2>1, MergedType
  <2>3. Answered(push.rows) \in SUBSET Review
    BY DEF Answered
  <2>4. answers' \in [pc : Answers, kv : Answers]
    BY <1>6, <2>2 DEF PushPutsAnswers
  <2>5. orphaned' \in SUBSET Review
    BY <1>6, <2>3 DEF PushPutsAnswers
  <2>6. QED
    BY <1>6, <2>4, <2>5, NothingTypes DEF PushPutsAnswers
<1>7. CASE SeedReads
  <2>1. [NoPush EXCEPT !.step = "seed"] \in PushState
    BY NothingTypes DEF PushState
  <2>2. QED
    BY <1>7, <2>1 DEF SeedReads, kvDocs
<1>8. CASE SeedPuts
  <2>1. reviews' \in [pc : SUBSET Review, kv : SUBSET Review]
    BY <1>8 DEF SeedPuts
  <2>2. orphaned' \in SUBSET Review
    BY <1>8 DEF SeedPuts
  <2>3. QED
    BY <1>8, <2>1, <2>2, NothingTypes DEF SeedPuts
<1>9. CASE PushStops
  BY <1>9, NothingTypes DEF PushStops, kvDocs
<1>10. QED
  BY <1>1, <1>2, <1>3, <1>4, <1>5, <1>6, <1>7, <1>8, <1>9 DEF Owner

(* A request that is typed, and under the limit once it counts, keeps the  *)
(* types when it takes the place of another.                               *)
LEMMA RequestTyped ==
    ASSUME DocsTypes, NEW r \in Requests, NEW q \in RequestState,
           request' = [request EXCEPT ![r] = q],
           q.step = "vote" => q.count < MAX_FEEDBACK
    PROVE  request' \in [Requests -> RequestState] /\ CountsUnderLimit'
BY DEF DocsTypes, DocsTypeOK, CountsUnderLimit

(* The steps of the site keep the types. *)
LEMMA TypesSite == DocsTypes /\ Site => DocsTypes'
<1> SUFFICES ASSUME DocsTypes, Site
             PROVE  DocsTypes'
  OBVIOUS
<1> USE DocsAssumption DEF DocsTypes, DocsTypeOK
<1>1. CASE FlowReads
  <2>1. flow' \in FlowState
    BY <1>1 DEF FlowReads, FlowState
  <2>2. QED
    BY <1>1, <2>1 DEF FlowReads, kvDocs, CountsUnderLimit
<1>2. CASE FlowPuts
  <2>1. written + 1 \in Review /\ flow.read \in SUBSET Review
    BY <1>2 DEF FlowPuts, Review, FlowState
  <2>2. reviews' \in [pc : SUBSET Review, kv : SUBSET Review]
    BY <1>2, <2>1 DEF FlowPuts
  <2>3. written' \in 0..MaxReviews /\ orphaned' \in SUBSET Review
    BY <1>2 DEF FlowPuts
  <2>4. QED
    BY <1>2, <2>2, <2>3, NothingTypes DEF FlowPuts, CountsUnderLimit
<1>3. CASE FlowStops
  BY <1>3, NothingTypes DEF FlowStops, kvDocs, CountsUnderLimit
<1>4. ASSUME NEW r \in Requests, NEW t \in Review, RequestFinds(r, t)
      PROVE  DocsTypes'
  <2> DEFINE q == [NoRequest EXCEPT !.step = "count", !.ts = t]
  <2>1. q \in RequestState /\ q.step = "count"
    BY NothingTypes DEF NoRequest, RequestState
  <2>2. request' = [request EXCEPT ![r] = q]
    BY <1>4 DEF RequestFinds
  <2> HIDE DEF q
  <2>3. request' \in [Requests -> RequestState] /\ CountsUnderLimit'
    BY <2>1, <2>2, RequestTyped
  <2>4. QED
    BY <1>4, <2>3 DEF RequestFinds, kvDocs
<1>5. ASSUME NEW r \in Requests, RequestCounts(r)
      PROVE  DocsTypes'
  <2> DEFINE q == IF votes >= MAX_FEEDBACK THEN NoRequest
                  ELSE [request[r] EXCEPT !.step = "vote", !.count = votes]
  <2>1. request[r] \in RequestState /\ votes \in Nat
    OBVIOUS
  <2>2. q \in RequestState
    BY <2>1, NothingTypes DEF RequestState
  <2>3. q.step = "vote" => q.count < MAX_FEEDBACK
    BY <2>1 DEF NoRequest, Idle, RequestState
  <2>4. request' = [request EXCEPT ![r] = q]
    BY <1>5 DEF RequestCounts
  <2> HIDE DEF q
  <2>5. request' \in [Requests -> RequestState] /\ CountsUnderLimit'
    BY <2>2, <2>3, <2>4, RequestTyped
  <2>6. QED
    BY <1>5, <2>5 DEF RequestCounts, kvDocs
<1>6. ASSUME NEW r \in Requests, NEW tagged \in BOOLEAN, RequestVotes(r, tagged)
      PROVE  DocsTypes'
  <2> DEFINE q == IF tagged THEN [request[r] EXCEPT !.step = "read"] ELSE NoRequest
  <2>1. request[r] \in RequestState
    OBVIOUS
  <2>2. q \in RequestState /\ q.step # "vote"
    BY <2>1, NothingTypes DEF RequestState, NoRequest, Idle
  <2>3. request' = [request EXCEPT ![r] = q]
    BY <1>6 DEF RequestVotes
  <2> HIDE DEF q
  <2>4. request' \in [Requests -> RequestState] /\ CountsUnderLimit'
    BY <2>2, <2>3, RequestTyped
  <2>5. request[r].count \in Nat
    BY <2>1 DEF RequestState
  <2>6. votes' \in 0..MAX_FEEDBACK
    BY <1>6, <2>5 DEF RequestVotes, CountsUnderLimit
  <2>7. passed' \in Nat /\ crossings' \in Nat
    BY <1>6 DEF RequestVotes
  <2>8. QED
    BY <1>6, <2>4, <2>6, <2>7 DEF RequestVotes, kvDocs
<1>7. ASSUME NEW r \in Requests, RequestReads(r)
      PROVE  DocsTypes'
  <2> DEFINE q == [request[r] EXCEPT !.step = "put", !.read = answers.kv]
  <2>1. request[r] \in RequestState
    OBVIOUS
  <2>2. q \in RequestState /\ q.step # "vote"
    BY <2>1 DEF RequestState
  <2>3. request' = [request EXCEPT ![r] = q]
    BY <1>7 DEF RequestReads
  <2> HIDE DEF q
  <2>4. request' \in [Requests -> RequestState] /\ CountsUnderLimit'
    BY <2>2, <2>3, RequestTyped
  <2>5. QED
    BY <1>7, <2>4 DEF RequestReads, kvDocs
<1>8. ASSUME NEW r \in Requests, RequestPuts(r)
      PROVE  DocsTypes'
  <2>1. request[r].read \in Answers /\ given + 1 \in Nat
    BY DEF RequestState
  <2>2. [request[r].read EXCEPT ![request[r].ts] = given + 1] \in Answers
    BY <2>1 DEF Answers
  <2>3. answers' \in [pc : Answers, kv : Answers]
    BY <1>8, <2>2 DEF RequestPuts
  <2>4. NoRequest.step # "vote"
    BY DEF NoRequest, Idle
  <2>5. request' \in [Requests -> RequestState] /\ CountsUnderLimit'
    BY <1>8, <2>4, NothingTypes, RequestTyped DEF RequestPuts
  <2>6. QED
    BY <1>8, <2>1, <2>3, <2>5 DEF RequestPuts
<1>9. ASSUME NEW r \in Requests, RequestStops(r)
      PROVE  DocsTypes'
  <2>1. NoRequest.step # "vote"
    BY DEF NoRequest, Idle
  <2>2. request' \in [Requests -> RequestState] /\ CountsUnderLimit'
    BY <1>9, <2>1, NothingTypes, RequestTyped DEF RequestStops
  <2>3. QED
    BY <1>9, <2>2 DEF RequestStops, kvDocs
<1>10. QED
  BY <1>1, <1>2, <1>3, <1>4, <1>5, <1>6, <1>7, <1>8, <1>9 DEF Site

(* Types, for any numbers of reviews, answers and requests. *)
THEOREM TypeCorrect == Spec => []DocsTypes
<1>1. DocsTypes /\ UNCHANGED vars => DocsTypes'
  BY DEF DocsTypes, DocsTypeOK, CountsUnderLimit, vars
<1>2. DocsTypes /\ [Next]_vars => DocsTypes'
  BY <1>1, TypesOwner, TypesSite DEF Next
<1>3. QED
  BY <1>2, TypesInit, PTL DEF Spec
-----------------------------------------------------------------------------
LEMMA OrphansInit == Init => OrphanInv
BY DEF Init, OrphanInv, NoOrphans, KnownReviews, Answered, NoAnswers, NoRequest, NoPush, Idle

(* What is known stays known: a put that drops a review accounts for it.   *)
LEMMA KnownGrows ==
    ASSUME DocsTypes, Next
    PROVE  KnownReviews \subseteq KnownReviews'
<1>1. CASE Owner
  BY <1>1 DEF KnownReviews, Owner, Persists, Annotates, PushReadsReviews, PushPutsReviews,
     PushReadsAnswers, PushPutsAnswers, SeedReads, SeedPuts, PushStops, kvDocs,
     DocsTypes, DocsTypeOK
<1>2. CASE Site
  BY <1>2 DEF KnownReviews, Site, FlowReads, FlowPuts, FlowStops, RequestFinds, RequestCounts,
     RequestVotes, RequestReads, RequestPuts, RequestStops, kvDocs, DocsTypes, DocsTypeOK
<1>3. QED
  BY <1>1, <1>2 DEF Next

(* The part of the invariant about the requests. *)
RequestsKnow ==
    \A r \in Requests :
       /\ request[r].step # Idle => request[r].ts \in KnownReviews
       /\ request[r].step = "put" => Answered(request[r].read) \subseteq KnownReviews

(* And the part about the push. *)
PushKnows ==
    /\ push.step \in {"read answers", "put answers"} => push.local \subseteq KnownReviews
    /\ push.step = "put answers" => Answered(push.answers) \subseteq KnownReviews

LEMMA OrphansOwner == DocsTypes /\ OrphanInv /\ Owner => OrphanInv'
<1> SUFFICES ASSUME DocsTypes, OrphanInv, Owner
             PROVE  OrphanInv'
  OBVIOUS
<1>a. KnownReviews \subseteq KnownReviews'
  BY KnownGrows DEF Next
<1>b. NoOrphans /\ RequestsKnow /\ PushKnows
  BY DEF OrphanInv, RequestsKnow, PushKnows
<1>c. UNCHANGED request
  BY DEF Owner, Persists, Annotates, PushReadsReviews, PushPutsReviews,
     PushReadsAnswers, PushPutsAnswers, SeedReads, SeedPuts, PushStops
<1>d. RequestsKnow'
  BY <1>a, <1>b, <1>c DEF RequestsKnow, Answered
<1>e. ASSUME answers'.kv = answers.kv
      PROVE  NoOrphans'
  BY <1>a, <1>b, <1>e DEF NoOrphans, KnownReviews
<1>f. ASSUME UNCHANGED push
      PROVE  PushKnows'
  BY <1>a, <1>b, <1>f DEF PushKnows, Answered
<1>g. ASSUME push'.step \notin {"read answers", "put answers"}
      PROVE  PushKnows'
  BY <1>g DEF PushKnows
<1>h. NoPush.step = "idle" /\ NoPush.local = {}
  BY DEF NoPush, Idle
<1>i. push \in PushState /\ answers \in [pc : Answers, kv : Answers]
  BY DEF DocsTypes, DocsTypeOK
<1>1. ASSUME Persists
      PROVE  NoOrphans' /\ PushKnows'
  BY <1>1, <1>e, <1>f DEF Persists
<1>2. ASSUME NEW t \in Review, Annotates(t)
      PROVE  NoOrphans' /\ PushKnows'
  <2>1. answers'.kv = answers.kv
    BY <1>2, <1>i DEF Annotates
  <2>2. QED
    BY <1>2, <2>1, <1>e, <1>f DEF Annotates
<1>3. ASSUME PushReadsReviews
      PROVE  NoOrphans' /\ PushKnows'
  <2>1. answers' = answers
    BY <1>3 DEF PushReadsReviews, kvDocs
  <2>2. CASE reviews.pc = {}
    <3>1. push' = [NoPush EXCEPT !.step = "read answers"]
      BY <1>3, <2>2 DEF PushReadsReviews
    <3>2. push'.step = "read answers" /\ push'.local = {}
      BY <3>1 DEF NoPush
    <3>3. QED
      BY <2>1, <3>2, <1>e DEF PushKnows
  <2>3. CASE reviews.pc # {}
    <3>1. push' = [NoPush EXCEPT !.step = "put reviews", !.reviews = reviews.kv,
                                 !.local = reviews.pc]
      BY <1>3, <2>3 DEF PushReadsReviews
    <3>2. push'.step = "put reviews"
      BY <3>1 DEF NoPush
    <3>3. QED
      BY <2>1, <3>2, <1>e, <1>g
  <2>4. QED
    BY <2>2, <2>3
<1>4. ASSUME PushPutsReviews
      PROVE  NoOrphans' /\ PushKnows'
  <2>1. push'.step = "read answers" /\ push'.local = push.local
    BY <1>4, <1>i DEF PushPutsReviews, PushState
  <2>2. push.local \subseteq reviews'.kv
    BY <1>4 DEF PushPutsReviews, DocsTypes, DocsTypeOK
  <2>3. PushKnows'
    BY <2>1, <2>2 DEF PushKnows, KnownReviews
  <2>4. QED
    BY <1>4, <2>3, <1>e DEF PushPutsReviews
<1>5. ASSUME PushReadsAnswers
      PROVE  NoOrphans' /\ PushKnows'
  <2>1. answers' = answers
    BY <1>5 DEF PushReadsAnswers, kvDocs
  <2>2. CASE answers.pc = NoAnswers
    BY <1>5, <2>1, <2>2, <1>e, <1>g, <1>h DEF PushReadsAnswers
  <2>3. CASE answers.pc # NoAnswers
    <3>1. push' = [push EXCEPT !.step = "put answers", !.answers = answers.kv,
                               !.rows = answers.pc]
      BY <1>5, <2>3 DEF PushReadsAnswers
    <3>2. push'.step = "put answers" /\ push'.local = push.local
          /\ push'.answers = answers.kv
      BY <3>1, <1>i DEF PushState
    <3>3. push.local \subseteq KnownReviews /\ Answered(answers.kv) \subseteq KnownReviews
      BY <1>5, <1>b DEF PushReadsAnswers, PushKnows, NoOrphans, KnownReviews
    <3>4. PushKnows'
      BY <3>2, <3>3, <1>a DEF PushKnows, Answered
    <3>5. QED
      BY <2>1, <3>4, <1>e
  <2>4. QED
    BY <2>2, <2>3
<1>6. ASSUME PushPutsAnswers
      PROVE  NoOrphans' /\ PushKnows'
  <2>1. answers'.kv = MergedAnswers(push.answers, push.rows)
    BY <1>6, <1>i DEF PushPutsAnswers
  <2>2. Answered(answers'.kv) \subseteq Answered(push.answers) \cup Answered(push.rows)
    BY <2>1 DEF Answered, MergedAnswers
  <2>3. Answered(push.answers) \subseteq KnownReviews /\ push.local \subseteq KnownReviews
    BY <1>6, <1>b DEF PushPutsAnswers, PushKnows
  <2>4. Answered(push.rows) \ push.local \subseteq orphaned'
    BY <1>6 DEF PushPutsAnswers
  <2>5. Answered(answers'.kv) \subseteq KnownReviews'
    BY <2>2, <2>3, <2>4, <1>a DEF KnownReviews
  <2>6. NoOrphans'
    BY <2>5 DEF NoOrphans, KnownReviews, Answered
  <2>7. QED
    BY <1>6, <2>6, <1>g, <1>h DEF PushPutsAnswers
<1>7. ASSUME SeedReads
      PROVE  NoOrphans' /\ PushKnows'
  <2>1. push'.step = "seed"
    BY <1>7 DEF SeedReads, NoPush
  <2>2. QED
    BY <1>7, <2>1, <1>e, <1>g DEF SeedReads, kvDocs
<1>8. ASSUME SeedPuts
      PROVE  NoOrphans' /\ PushKnows'
  BY <1>8, <1>e, <1>g, <1>h DEF SeedPuts
<1>9. ASSUME PushStops
      PROVE  NoOrphans' /\ PushKnows'
  BY <1>9, <1>e, <1>g, <1>h DEF PushStops, kvDocs
<1>10. NoOrphans' /\ PushKnows'
  BY <1>1, <1>2, <1>3, <1>4, <1>5, <1>6, <1>7, <1>8, <1>9 DEF Owner
<1>11. QED
  BY <1>d, <1>10 DEF OrphanInv, RequestsKnow, PushKnows

(* A request in the place of another has to know what it will write. *)
LEMMA RequestKnows ==
    ASSUME DocsTypes, RequestsKnow, KnownReviews \subseteq KnownReviews',
           NEW r \in Requests, NEW q, request' = [request EXCEPT ![r] = q],
           q.step # Idle => q.ts \in KnownReviews,
           q.step = "put" => Answered(q.read) \subseteq KnownReviews
    PROVE  RequestsKnow'
<1> SUFFICES ASSUME NEW s \in Requests
             PROVE  /\ request'[s].step # Idle => request'[s].ts \in KnownReviews'
                    /\ request'[s].step = "put" => Answered(request'[s].read) \subseteq KnownReviews'
  BY DEF RequestsKnow, Answered
<1>1. request \in [Requests -> RequestState]
  BY DEF DocsTypes, DocsTypeOK
<1>2. CASE s = r
  BY <1>1, <1>2
<1>3. CASE s # r
  BY <1>1, <1>3 DEF RequestsKnow
<1>4. QED
  BY <1>2, <1>3

LEMMA OrphansSite == DocsTypes /\ OrphanInv /\ Site => OrphanInv'
<1> SUFFICES ASSUME DocsTypes, OrphanInv, Site
             PROVE  OrphanInv'
  OBVIOUS
<1>a. KnownReviews \subseteq KnownReviews'
  BY KnownGrows DEF Next
<1>b. NoOrphans /\ RequestsKnow /\ PushKnows
  BY DEF OrphanInv, RequestsKnow, PushKnows
<1>c. UNCHANGED push
  BY DEF Site, FlowReads, FlowPuts, FlowStops, RequestFinds, RequestCounts,
     RequestVotes, RequestReads, RequestPuts, RequestStops
<1>d. PushKnows'
  BY <1>a, <1>b, <1>c DEF PushKnows, Answered
<1>e. ASSUME answers' = answers
      PROVE  NoOrphans'
  BY <1>a, <1>b, <1>e DEF NoOrphans, KnownReviews
<1>f. ASSUME UNCHANGED request
      PROVE  RequestsKnow'
  BY <1>a, <1>b, <1>f DEF RequestsKnow, Answered
<1>g. NoRequest.step = Idle /\ Idle # "put"
  BY DEF NoRequest, Idle
<1>h. ASSUME NEW r \in Requests
      PROVE  request[r] \in RequestState
  BY DEF DocsTypes, DocsTypeOK
<1>1. ASSUME FlowReads \/ FlowPuts \/ FlowStops
      PROVE  NoOrphans' /\ RequestsKnow'
  BY <1>1, <1>e, <1>f DEF FlowReads, FlowPuts, FlowStops, kvDocs
<1>2. ASSUME NEW r \in Requests, NEW t \in Review, RequestFinds(r, t)
      PROVE  NoOrphans' /\ RequestsKnow'
  <2> DEFINE q == [NoRequest EXCEPT !.step = "count", !.ts = t]
  <2>1. q.step = "count" /\ q.ts = t
    BY DEF NoRequest
  <2>2. request' = [request EXCEPT ![r] = q] /\ t \in KnownReviews
    BY <1>2 DEF RequestFinds, KnownReviews
  <2> HIDE DEF q
  <2>3. RequestsKnow'
    BY <2>1, <2>2, <1>a, <1>b, RequestKnows
  <2>4. QED
    BY <1>2, <2>3, <1>e DEF RequestFinds, kvDocs
<1>3. ASSUME NEW r \in Requests, RequestCounts(r)
      PROVE  NoOrphans' /\ RequestsKnow'
  <2> DEFINE q == IF votes >= MAX_FEEDBACK THEN NoRequest
                  ELSE [request[r] EXCEPT !.step = "vote", !.count = votes]
  <2>1. request[r].step # Idle /\ request[r].ts \in KnownReviews
    BY <1>3, <1>b DEF RequestCounts, RequestsKnow, Idle
  <2>2. q.step # "put" /\ (q.step # Idle => q.ts \in KnownReviews)
    BY <2>1, <1>g, <1>h DEF RequestState
  <2>3. request' = [request EXCEPT ![r] = q]
    BY <1>3 DEF RequestCounts
  <2> HIDE DEF q
  <2>4. RequestsKnow'
    BY <2>2, <2>3, <1>a, <1>b, RequestKnows
  <2>5. QED
    BY <1>3, <2>4, <1>e DEF RequestCounts, kvDocs
<1>4. ASSUME NEW r \in Requests, NEW tagged \in BOOLEAN, RequestVotes(r, tagged)
      PROVE  NoOrphans' /\ RequestsKnow'
  <2> DEFINE q == IF tagged THEN [request[r] EXCEPT !.step = "read"] ELSE NoRequest
  <2>1. request[r].step # Idle /\ request[r].ts \in KnownReviews
    BY <1>4, <1>b DEF RequestVotes, RequestsKnow, Idle
  <2>2. q.step # "put" /\ (q.step # Idle => q.ts \in KnownReviews)
    BY <2>1, <1>g, <1>h DEF RequestState
  <2>3. request' = [request EXCEPT ![r] = q]
    BY <1>4 DEF RequestVotes
  <2> HIDE DEF q
  <2>4. RequestsKnow'
    BY <2>2, <2>3, <1>a, <1>b, RequestKnows
  <2>5. QED
    BY <1>4, <2>4, <1>e DEF RequestVotes, kvDocs
<1>5. ASSUME NEW r \in Requests, RequestReads(r)
      PROVE  NoOrphans' /\ RequestsKnow'
  <2> DEFINE q == [request[r] EXCEPT !.step = "put", !.read = answers.kv]
  <2>1. request[r].ts \in KnownReviews /\ Answered(answers.kv) \subseteq KnownReviews
    BY <1>5, <1>b DEF RequestReads, RequestsKnow, Idle, NoOrphans, KnownReviews
  <2>2. q.ts = request[r].ts /\ q.read = answers.kv
    BY <1>h DEF RequestState
  <2>3. request' = [request EXCEPT ![r] = q]
    BY <1>5 DEF RequestReads
  <2> HIDE DEF q
  <2>4. RequestsKnow'
    BY <2>1, <2>2, <2>3, <1>a, <1>b, RequestKnows
  <2>5. QED
    BY <1>5, <2>4, <1>e DEF RequestReads, kvDocs
<1>6. ASSUME NEW r \in Requests, RequestPuts(r)
      PROVE  NoOrphans' /\ RequestsKnow'
  <2>1. request[r].ts \in KnownReviews /\ Answered(request[r].read) \subseteq KnownReviews
    BY <1>6, <1>b DEF RequestPuts, RequestsKnow, Idle
  <2>2. answers'.kv = [request[r].read EXCEPT ![request[r].ts] = given + 1]
    BY <1>6 DEF RequestPuts, DocsTypes, DocsTypeOK
  <2>3. request[r].read \in [Review -> Nat]
    BY <1>h DEF RequestState, Answers
  <2>4. Answered(answers'.kv) \subseteq Answered(request[r].read) \cup {request[r].ts}
    BY <2>2, <2>3 DEF Answered
  <2>5. Answered(answers'.kv) \subseteq KnownReviews'
    BY <2>1, <2>4, <1>a
  <2>6. NoOrphans'
    BY <2>5 DEF NoOrphans, KnownReviews, Answered
  <2>7. request' = [request EXCEPT ![r] = NoRequest]
    BY <1>6 DEF RequestPuts
  <2>8. QED
    BY <2>6, <2>7, <1>a, <1>b, <1>g, RequestKnows
<1>7. ASSUME NEW r \in Requests, RequestStops(r)
      PROVE  NoOrphans' /\ RequestsKnow'
  <2>1. request' = [request EXCEPT ![r] = NoRequest] /\ answers' = answers
    BY <1>7 DEF RequestStops, kvDocs
  <2>2. QED
    BY <2>1, <1>a, <1>b, <1>e, <1>g, RequestKnows
<1>8. NoOrphans' /\ RequestsKnow'
  BY <1>1, <1>2, <1>3, <1>4, <1>5, <1>6, <1>7 DEF Site
<1>9. QED
  BY <1>d, <1>8 DEF OrphanInv, RequestsKnow, PushKnows

(* Every answer of KV is about a review of KV, but for the reviews a       *)
(* crossed put dropped or a push left behind: the joins by ts hold for any *)
(* number of requests crossing any flow, push or seed.                     *)
THEOREM NoOrphansCorrect == Spec => []NoOrphans
<1>1. OrphanInv /\ UNCHANGED vars => OrphanInv'
  BY DEF OrphanInv, NoOrphans, KnownReviews, Answered, vars
<1>2. DocsTypes /\ OrphanInv /\ [Next]_vars => OrphanInv'
  BY <1>1, OrphansOwner, OrphansSite DEF Next
<1>3. OrphanInv => NoOrphans
  BY DEF OrphanInv
<1>4. QED
  BY <1>2, <1>3, OrphansInit, TypeCorrect, PTL DEF Spec
-----------------------------------------------------------------------------
LEMMA VotesInit == Init => VotesInv
BY DocsAssumption DEF Init, VotesInv

(* A vote adds one to the counter, or what it takes off the counter is no  *)
(* more than a limit, and the crossing is counted.                         *)
LEMMA VotesStep == DocsTypes /\ VotesInv /\ Next => VotesInv'
<1> SUFFICES ASSUME DocsTypes, VotesInv, Next
             PROVE  VotesInv'
  OBVIOUS
<1>1. votes \in 0..MAX_FEEDBACK /\ MAX_FEEDBACK \in Nat /\ passed \in Nat
      /\ crossings \in Nat
  BY DocsAssumption DEF DocsTypes, DocsTypeOK
<1>2. ASSUME NEW r \in Requests, NEW tagged \in BOOLEAN, RequestVotes(r, tagged)
      PROVE  VotesInv'
  <2>1. request[r].count \in Nat
    BY DEF DocsTypes, DocsTypeOK, RequestState
  <2>2. passed' = passed + 1 /\ votes' = request[r].count + 1
    BY <1>2 DEF RequestVotes
  <2>3. CASE votes = request[r].count
    <3>1. crossings' = crossings
      BY <1>2, <2>3 DEF RequestVotes
    <3>2. QED
      BY <1>1, <2>2, <2>3, <3>1 DEF VotesInv
  <2>4. CASE votes # request[r].count
    <3>1. crossings' = crossings + 1
      BY <1>2, <2>4 DEF RequestVotes
    <3>2. MAX_FEEDBACK * (crossings + 1) = MAX_FEEDBACK * crossings + MAX_FEEDBACK
          /\ MAX_FEEDBACK * crossings \in Nat
      BY <1>1
    <3>3. passed <= MAX_FEEDBACK + MAX_FEEDBACK * crossings
      BY <1>1, <3>2 DEF VotesInv
    <3>4. votes' >= 1
      BY <2>1, <2>2
    <3>5. QED
      BY <1>1, <2>1, <2>2, <3>1, <3>2, <3>3, <3>4 DEF VotesInv
  <2>5. QED
    BY <2>3, <2>4
<1>3. CASE Owner
  BY <1>3 DEF VotesInv, Owner, Persists, Annotates, PushReadsReviews, PushPutsReviews,
     PushReadsAnswers, PushPutsAnswers, SeedReads, SeedPuts, PushStops
<1>4. CASE UNCHANGED <<votes, passed, crossings>>
  BY <1>4 DEF VotesInv
<1>5. CASE Site
  BY <1>2, <1>4, <1>5 DEF Site, FlowReads, FlowPuts, FlowStops, RequestFinds,
     RequestCounts, RequestReads, RequestPuts, RequestStops
<1>6. QED
  BY <1>3, <1>5 DEF Next

(* The limit of the votes holds but for one limit per crossed put of the   *)
(* counter, whatever the limit and the number of requests at a time.       *)
THEOREM VoteBudgetCorrect == Spec => []VoteBudget
<1>1. VotesInv /\ UNCHANGED vars => VotesInv'
  BY DEF VotesInv, vars
<1>2. DocsTypes /\ VotesInv /\ [Next]_vars => VotesInv'
  BY <1>1, VotesStep DEF Next
<1>3. DocsTypes /\ VotesInv => VoteBudget
  <2> SUFFICES ASSUME DocsTypes, VotesInv
               PROVE  VoteBudget
    OBVIOUS
  <2>1. votes \in 0..MAX_FEEDBACK /\ MAX_FEEDBACK \in Nat /\ passed \in Nat
        /\ crossings \in Nat
    BY DocsAssumption DEF DocsTypes, DocsTypeOK
  <2>2. MAX_FEEDBACK * (1 + crossings) = MAX_FEEDBACK + MAX_FEEDBACK * crossings
        /\ MAX_FEEDBACK * crossings \in Nat
    BY <2>1
  <2>3. QED
    BY <2>1, <2>2 DEF VotesInv, VoteBudget
<1>4. QED
  BY <1>2, <1>3, VotesInit, TypeCorrect, PTL DEF Spec
-----------------------------------------------------------------------------
LEMMA GivenInit == Init => GivenInv
BY DEF Init, GivenInv, AtMost, NoAnswers, NoRequest, NoPush

LEMMA AtMostGrows ==
    ASSUME NEW doc \in Answers, NEW n \in Nat, AtMost(doc, n)
    PROVE  AtMost(doc, n + 1)
BY DEF AtMost, Answers

LEMMA AtMostUpdated ==
    ASSUME NEW doc \in Answers, NEW n \in Nat, AtMost(doc, n), NEW t
    PROVE  AtMost([doc EXCEPT ![t] = n + 1], n + 1)
BY DEF AtMost, Answers

LEMMA AtMostMerged ==
    ASSUME NEW a \in Answers, NEW b \in Answers, NEW n \in Nat, AtMost(a, n), AtMost(b, n)
    PROVE  AtMost(MergedAnswers(a, b), n)
BY DEF AtMost, MergedAnswers, Answers

LEMMA AtMostNothing == \A n \in Nat : AtMost(NoAnswers, n)
BY DEF AtMost, NoAnswers

(* The copies of the answers, wherever they are. *)
LEMMA CopiesTyped ==
    ASSUME DocsTypes
    PROVE  /\ answers \in [pc : Answers, kv : Answers] /\ given \in Nat
           /\ push \in PushState
           /\ answers.pc \in Answers /\ answers.kv \in Answers
           /\ push.answers \in Answers /\ push.rows \in Answers
           /\ request \in [Requests -> RequestState]
           /\ \A r \in Requests : request[r] \in RequestState /\ request[r].read \in Answers
BY DEF DocsTypes, DocsTypeOK, PushState, RequestState

(* The two halves of the invariant: the copies of the push, of a request.  *)
PushAtMost(n) == AtMost(push.answers, n) /\ AtMost(push.rows, n)
ReadsAtMost(n) == \A r \in Requests : AtMost(request[r].read, n)

LEMMA GivenOwner == DocsTypes /\ GivenInv /\ Owner => GivenInv'
<1> SUFFICES ASSUME DocsTypes, GivenInv, Owner
             PROVE  GivenInv'
  OBVIOUS
<1> USE CopiesTyped
<1>a. /\ AtMost(answers.pc, given) /\ AtMost(answers.kv, given)
      /\ ReadsAtMost(given) /\ PushAtMost(given)
  BY DEF GivenInv, ReadsAtMost, PushAtMost
<1>b. NoPush.answers = NoAnswers /\ NoPush.rows = NoAnswers
  BY DEF NoPush
<1>c. ASSUME push'.answers \in {push.answers, answers.kv, NoAnswers},
             push'.rows \in {push.rows, answers.pc, NoAnswers}
      PROVE  AtMost(push'.answers, given) /\ AtMost(push'.rows, given)
  BY <1>a, <1>c, AtMostNothing DEF PushAtMost
<1>d. ASSUME UNCHANGED <<answers, request, given>>,
             AtMost(push'.answers, given) /\ AtMost(push'.rows, given)
      PROVE  GivenInv'
  BY <1>a, <1>d DEF GivenInv, AtMost, ReadsAtMost
<1>1. CASE Persists
  BY <1>1, <1>a, <1>d DEF Persists, PushAtMost
<1>2. ASSUME NEW t \in Review, Annotates(t)
      PROVE  GivenInv'
  <2>1. answers'.pc = [answers.pc EXCEPT ![t] = given + 1] /\ answers'.kv = answers.kv
    BY <1>2 DEF Annotates
  <2>2. AtMost(answers'.pc, given + 1)
    <3>1. AtMost([answers.pc EXCEPT ![t] = given + 1], given + 1)
      BY <1>a, AtMostUpdated
    <3>2. QED
      BY <2>1, <3>1
  <2>3. AtMost(answers'.kv, given + 1)
    BY <1>a, <2>1, AtMostGrows
  <2>4. ReadsAtMost(given + 1) /\ PushAtMost(given + 1)
    BY <1>a, AtMostGrows DEF ReadsAtMost, PushAtMost
  <2>5. given' = given + 1 /\ UNCHANGED <<request, push>>
    BY <1>2 DEF Annotates
  <2>6. QED
    BY <2>2, <2>3, <2>4, <2>5 DEF GivenInv, AtMost, ReadsAtMost, PushAtMost
<1>3. CASE PushReadsReviews
  <2>1. push'.answers = NoAnswers /\ push'.rows = NoAnswers
    <3>1. CASE push' = [NoPush EXCEPT !.step = "read answers"]
      BY <3>1, <1>b DEF NoPush
    <3>2. CASE push' = [NoPush EXCEPT !.step = "put reviews", !.reviews = reviews.kv,
                                      !.local = reviews.pc]
      BY <3>2, <1>b DEF NoPush
    <3>3. QED
      BY <1>3, <3>1, <3>2 DEF PushReadsReviews
  <2>2. UNCHANGED <<answers, request, given>>
    BY <1>3 DEF PushReadsReviews, kvDocs
  <2>3. QED
    BY <2>1, <2>2, <1>c, <1>d
<1>4. CASE PushPutsReviews
  <2>1. push'.answers = push.answers /\ push'.rows = push.rows
    BY <1>4 DEF PushPutsReviews, PushState
  <2>2. QED
    BY <1>4, <2>1, <1>c, <1>d DEF PushPutsReviews
<1>5. CASE PushReadsAnswers
  <2>1. /\ push'.answers \in {push.answers, answers.kv, NoAnswers}
        /\ push'.rows \in {push.rows, answers.pc, NoAnswers}
    BY <1>5, <1>b DEF PushReadsAnswers, PushState
  <2>2. QED
    BY <1>5, <2>1, <1>c, <1>d DEF PushReadsAnswers, kvDocs
<1>6. CASE PushPutsAnswers
  <2>1. answers'.kv = MergedAnswers(push.answers, push.rows) /\ answers'.pc = answers.pc
    BY <1>6 DEF PushPutsAnswers
  <2>2. AtMost(answers'.kv, given)
    BY <1>a, <2>1, AtMostMerged DEF PushAtMost
  <2>3. AtMost(answers'.pc, given)
    BY <1>a, <2>1
  <2>4. AtMost(push'.answers, given) /\ AtMost(push'.rows, given)
    BY <1>6, <1>b, <1>c DEF PushPutsAnswers
  <2>5. UNCHANGED <<request, given>>
    BY <1>6 DEF PushPutsAnswers
  <2>6. QED
    BY <1>a, <2>2, <2>3, <2>4, <2>5 DEF GivenInv, AtMost, ReadsAtMost
<1>7. CASE SeedReads
  <2>1. push'.answers = NoAnswers /\ push'.rows = NoAnswers
    BY <1>7 DEF SeedReads, NoPush
  <2>2. QED
    BY <1>7, <2>1, <1>c, <1>d DEF SeedReads, kvDocs
<1>8. CASE SeedPuts
  BY <1>8, <1>b, <1>c, <1>d DEF SeedPuts
<1>9. CASE PushStops
  BY <1>9, <1>b, <1>c, <1>d DEF PushStops, kvDocs
<1>10. QED
  BY <1>1, <1>2, <1>3, <1>4, <1>5, <1>6, <1>7, <1>8, <1>9 DEF Owner

LEMMA GivenSite == DocsTypes /\ GivenInv /\ Site => GivenInv'
<1> SUFFICES ASSUME DocsTypes, GivenInv, Site
             PROVE  GivenInv'
  OBVIOUS
<1> USE CopiesTyped
<1>a. /\ AtMost(answers.pc, given) /\ AtMost(answers.kv, given)
      /\ ReadsAtMost(given) /\ PushAtMost(given)
  BY DEF GivenInv, ReadsAtMost, PushAtMost
<1>b. NoRequest.read = NoAnswers
  BY DEF NoRequest
<1>c. ASSUME NEW r \in Requests, NEW q, request' = [request EXCEPT ![r] = q],
             q.read \in {request[r].read, answers.kv, NoAnswers},
             UNCHANGED <<answers, push, given>>
      PROVE  GivenInv'
  <2>1. AtMost(q.read, given)
    BY <1>a, <1>c, AtMostNothing DEF ReadsAtMost
  <2>2. \A s \in Requests : request'[s].read = IF s = r THEN q.read ELSE request[s].read
    BY <1>c
  <2>3. \A s \in Requests : AtMost(request'[s].read, given)
    BY <1>a, <2>1, <2>2 DEF ReadsAtMost
  <2>4. QED
    BY <1>a, <1>c, <2>3 DEF GivenInv, AtMost, PushAtMost
<1>1. CASE FlowReads \/ FlowPuts \/ FlowStops
  <2>1. UNCHANGED <<answers, request, push, given>>
    BY <1>1 DEF FlowReads, FlowPuts, FlowStops, kvDocs
  <2>2. QED
    BY <2>1 DEF GivenInv, AtMost
<1>2. ASSUME NEW r \in Requests, NEW t \in Review, RequestFinds(r, t)
      PROVE  GivenInv'
  <2> DEFINE q == [NoRequest EXCEPT !.step = "count", !.ts = t]
  <2>1. q.read = NoAnswers
    BY DEF NoRequest
  <2>2. request' = [request EXCEPT ![r] = q] /\ UNCHANGED <<answers, push, given>>
    BY <1>2 DEF RequestFinds, kvDocs
  <2> HIDE DEF q
  <2>3. QED
    BY <2>1, <2>2, <1>c
<1>3. ASSUME NEW r \in Requests, RequestCounts(r)
      PROVE  GivenInv'
  <2> DEFINE q == IF votes >= MAX_FEEDBACK THEN NoRequest
                  ELSE [request[r] EXCEPT !.step = "vote", !.count = votes]
  <2>1. q.read \in {request[r].read, NoAnswers}
    BY <1>b DEF RequestState
  <2>2. request' = [request EXCEPT ![r] = q] /\ UNCHANGED <<answers, push, given>>
    BY <1>3 DEF RequestCounts, kvDocs
  <2> HIDE DEF q
  <2>3. QED
    BY <2>1, <2>2, <1>c
<1>4. ASSUME NEW r \in Requests, NEW tagged \in BOOLEAN, RequestVotes(r, tagged)
      PROVE  GivenInv'
  <2> DEFINE q == IF tagged THEN [request[r] EXCEPT !.step = "read"] ELSE NoRequest
  <2>1. q.read \in {request[r].read, NoAnswers}
    BY <1>b DEF RequestState
  <2>2. request' = [request EXCEPT ![r] = q] /\ UNCHANGED <<answers, push, given>>
    BY <1>4 DEF RequestVotes, kvDocs
  <2> HIDE DEF q
  <2>3. QED
    BY <2>1, <2>2, <1>c
<1>5. ASSUME NEW r \in Requests, RequestReads(r)
      PROVE  GivenInv'
  <2> DEFINE q == [request[r] EXCEPT !.step = "put", !.read = answers.kv]
  <2>1. q.read = answers.kv
    BY DEF RequestState
  <2>2. request' = [request EXCEPT ![r] = q] /\ UNCHANGED <<answers, push, given>>
    BY <1>5 DEF RequestReads, kvDocs
  <2> HIDE DEF q
  <2>3. QED
    BY <2>1, <2>2, <1>c
<1>6. ASSUME NEW r \in Requests, RequestPuts(r)
      PROVE  GivenInv'
  <2>1. answers'.kv = [request[r].read EXCEPT ![request[r].ts] = given + 1]
        /\ answers'.pc = answers.pc
    BY <1>6 DEF RequestPuts
  <2>2. AtMost(answers'.kv, given + 1)
    <3>1. AtMost(request[r].read, given)
      BY <1>a DEF ReadsAtMost
    <3>2. AtMost([request[r].read EXCEPT ![request[r].ts] = given + 1], given + 1)
      BY <3>1, AtMostUpdated
    <3>3. QED
      BY <2>1, <3>2
  <2>3. AtMost(answers'.pc, given + 1)
    BY <1>a, <2>1, AtMostGrows
  <2>4. \A s \in Requests : request'[s].read \in {request[s].read, NoAnswers}
    BY <1>6, <1>b DEF RequestPuts
  <2>5. \A s \in Requests : AtMost(request'[s].read, given + 1)
    BY <1>a, <2>4, AtMostGrows, AtMostNothing DEF ReadsAtMost
  <2>6. PushAtMost(given + 1)
    BY <1>a, AtMostGrows DEF PushAtMost
  <2>7. given' = given + 1 /\ UNCHANGED push
    BY <1>6 DEF RequestPuts
  <2>8. QED
    BY <2>2, <2>3, <2>5, <2>6, <2>7 DEF GivenInv, AtMost, PushAtMost
<1>7. ASSUME NEW r \in Requests, RequestStops(r)
      PROVE  GivenInv'
  <2>1. request' = [request EXCEPT ![r] = NoRequest] /\ UNCHANGED <<answers, push, given>>
    BY <1>7 DEF RequestStops, kvDocs
  <2>2. QED
    BY <2>1, <1>b, <1>c
<1>8. QED
  BY <1>1, <1>2, <1>3, <1>4, <1>5, <1>6, <1>7 DEF Site

THEOREM GivenCorrect == Spec => []GivenInv
<1>1. GivenInv /\ UNCHANGED vars => GivenInv'
  BY DEF GivenInv, AtMost, vars
<1>2. DocsTypes /\ GivenInv /\ [Next]_vars => GivenInv'
  BY <1>1, GivenOwner, GivenSite DEF Next
<1>3. QED
  BY <1>2, GivenInit, TypeCorrect, PTL DEF Spec
-----------------------------------------------------------------------------
(* What a step may take from the reviews of KV, and from the answers. *)
ReviewsStep ==
    \A t \in reviews.kv \ reviews'.kv :
       \/ flow # NoFlow /\ flow' = NoFlow /\ t \notin flow.read
       \/ push.step = "put reviews" /\ push' # push /\ t \notin push.reviews
       \/ push.step = "seed" /\ push' = NoPush

AnswersStep ==
    \A t \in Review : answers'.kv[t] < answers.kv[t] =>
       \/ \E r \in Requests :
             /\ request[r].step = "put" /\ request'[r] # request[r]
             /\ request[r].read[t] # answers.kv[t]
       \/ /\ push.step = "put answers" /\ push' # push
          /\ \/ push.answers[t] # answers.kv[t]
             \/ push.rows[t] = answers'.kv[t] /\ push.rows[t] # 0

LEMMA ReviewsKept == DocsTypes /\ [Next]_vars => ReviewsStep
<1> SUFFICES ASSUME DocsTypes, [Next]_vars
             PROVE  ReviewsStep
  OBVIOUS
<1>1. reviews \in [pc : SUBSET Review, kv : SUBSET Review] /\ push \in PushState
  BY DEF DocsTypes, DocsTypeOK
<1>2. CASE reviews'.kv = reviews.kv
  BY <1>2 DEF ReviewsStep
<1>3. CASE FlowPuts
  <2>1. reviews'.kv = flow.read \cup {written + 1} /\ flow' = NoFlow
    BY <1>1, <1>3 DEF FlowPuts
  <2>2. flow # NoFlow
    BY <1>3 DEF FlowPuts, NoFlow, Idle
  <2>3. QED
    BY <2>1, <2>2 DEF ReviewsStep
<1>4. CASE PushPutsReviews
  <2>1. reviews'.kv = push.reviews \cup push.local
    BY <1>1, <1>4 DEF PushPutsReviews
  <2>2. push.step = "put reviews" /\ push'.step = "read answers"
    BY <1>1, <1>4 DEF PushPutsReviews, PushState
  <2>3. QED
    BY <2>1, <2>2 DEF ReviewsStep
<1>5. CASE SeedPuts
  BY <1>5 DEF SeedPuts, ReviewsStep
<1>6. CASE Persists
  BY <1>1, <1>2, <1>6 DEF Persists
<1>7. CASE Owner
  BY <1>2, <1>4, <1>5, <1>6, <1>7 DEF Owner, Annotates, PushReadsReviews,
     PushReadsAnswers, PushPutsAnswers, SeedReads, PushStops, kvDocs
<1>8. CASE Site
  BY <1>2, <1>3, <1>8 DEF Site, FlowReads, FlowStops, RequestFinds, RequestCounts,
     RequestVotes, RequestReads, RequestPuts, RequestStops, kvDocs
<1>9. CASE UNCHANGED vars
  BY <1>2, <1>9 DEF vars
<1>10. QED
  BY <1>7, <1>8, <1>9 DEF Next

LEMMA AnswersKept == DocsTypes /\ GivenInv /\ [Next]_vars => AnswersStep
<1> SUFFICES ASSUME DocsTypes, GivenInv, [Next]_vars
             PROVE  AnswersStep
  OBVIOUS
<1> USE CopiesTyped
<1>1. \A t \in Review : answers.kv[t] \in Nat /\ answers.kv[t] <= given
  BY DEF GivenInv, AtMost, Answers
<1>2. CASE answers'.kv = answers.kv
  <2>1. \A t \in Review : ~ (answers.kv[t] < answers.kv[t])
    BY <1>1
  <2>2. QED
    BY <1>2, <2>1 DEF AnswersStep
<1>3. ASSUME NEW r \in Requests, RequestPuts(r)
      PROVE  AnswersStep
  <2>1. answers'.kv = [request[r].read EXCEPT ![request[r].ts] = given + 1]
    BY <1>3 DEF RequestPuts
  <2>2. request[r].step = "put" /\ request'[r].step = Idle
    BY <1>3 DEF RequestPuts, NoRequest
  <2>3. request'[r] # request[r]
    BY <2>2 DEF Idle
  <2>4. ASSUME NEW t \in Review, answers'.kv[t] < answers.kv[t]
        PROVE  request[r].read[t] # answers.kv[t]
    <3>1. answers'.kv[t] = IF t = request[r].ts THEN given + 1 ELSE request[r].read[t]
      BY <2>1 DEF Answers
    <3>2. QED
      BY <1>1, <2>4, <3>1
  <2>5. QED
    BY <2>2, <2>3, <2>4 DEF AnswersStep
<1>4. CASE PushPutsAnswers
  <2>1. answers'.kv = MergedAnswers(push.answers, push.rows)
    BY <1>4 DEF PushPutsAnswers
  <2>2. push.step = "put answers" /\ push' # push
    <3>1. NoPush.step = "idle"
      BY DEF NoPush, Idle
    <3>2. push.step = "put answers" /\ push' = NoPush
      BY <1>4 DEF PushPutsAnswers
    <3>3. QED
      BY <3>1, <3>2
  <2>3. ASSUME NEW t \in Review, answers'.kv[t] < answers.kv[t]
        PROVE  \/ push.answers[t] # answers.kv[t]
               \/ push.rows[t] = answers'.kv[t] /\ push.rows[t] # 0
    BY <1>1, <2>1, <2>3 DEF MergedAnswers
  <2>4. QED
    BY <2>2, <2>3 DEF AnswersStep
<1>5. ASSUME NEW t \in Review, Annotates(t)
      PROVE  AnswersStep
  BY <1>2, <1>5 DEF Annotates
<1>6. CASE Owner
  BY <1>2, <1>4, <1>5, <1>6 DEF Owner, Persists, PushReadsReviews, PushPutsReviews,
     PushReadsAnswers, SeedReads, SeedPuts, PushStops, kvDocs
<1>7. CASE Site
  BY <1>2, <1>3, <1>7 DEF Site, FlowReads, FlowPuts, FlowStops, RequestFinds,
     RequestCounts, RequestVotes, RequestReads, RequestStops, kvDocs
<1>8. CASE UNCHANGED vars
  BY <1>2, <1>8 DEF vars
<1>9. QED
  BY <1>6, <1>7, <1>8 DEF Next

(* What the site and the files bring to KV stays there, but for what two   *)
(* writers read before either put, and for an older answer of the file:    *)
(* for any number of writers, of reviews and of answers.                   *)
THEOREM DocumentsKeptCorrect == Spec => DocumentsKept
<1>1. DocsTypes /\ GivenInv /\ [Next]_vars => [ReviewsStep /\ AnswersStep]_vars
  BY ReviewsKept, AnswersKept
<1>2. Spec => [][ReviewsStep /\ AnswersStep]_vars
  BY <1>1, TypeCorrect, GivenCorrect, PTL DEF Spec
<1>3. [][ReviewsStep /\ AnswersStep]_vars => [][ReviewsStep]_vars /\ [][AnswersStep]_vars
  BY PTL
<1>4. QED
  BY <1>2, <1>3 DEF DocumentsKept, ReviewsStay, LastAnswerStays, ReviewsStep, AnswersStep

-----------------------------------------------------------------------------
(* One review of the language model (Generation).  A stage under way has   *)
(* added up the time of its finished calls, and the call it is at began    *)
(* when they ended and ends within what its attempts allow: so the chief   *)
(* is always as late as the slower specialist and its own calls, a finished*)
(* review is exactly as late as its run says, and no answer, refusal or    *)
(* rest brings a stage over its budget.                                    *)

Fields == {"idle", "ready", "calling", "resting", "done", "llm", "invalid"}
StageRecord ==
    [status : Fields, try : 0..SCHEMA_ATTEMPTS - 1, attempt : 0..ATTEMPTS - 1,
     due : Nat, began : Nat, latency : Nat, output : Drafts \cup Selections \cup {None}]

GenTypes ==
    /\ specialized \in BOOLEAN
    /\ stage \in [Stages -> StageRecord]
    /\ time \in Nat /\ posts \in Nat /\ received \in Nat

Active == {"ready", "calling", "resting"}
First == "death_positioning"
Second == "economy_build"
Axes == {First, Second}

(* The longest a call takes when its attempts all fail, and a stage.       *)
Spent(a) == a * MaxDelay + (a * (a + 1)) \div 2
PerTry == ATTEMPTS * MaxDelay + (ATTEMPTS * (ATTEMPTS - 1)) \div 2
PerStage == SCHEMA_ATTEMPTS * PerTry

Longest(a, b) == IF a >= b THEN a ELSE b
Specialists == Longest(stage[First].latency, stage[Second].latency)
Begins(s) == IF s = "chief" THEN Specialists ELSE 0

(* Which stages may be under way. *)
Staged ==
    /\ specialized =>
          /\ stage["whole"].status = "idle"
          /\ \A s \in Axes : stage[s].status # "idle"
          /\ stage["chief"].status # "idle" => \A s \in Axes : stage[s].status = "done"
    /\ ~specialized => stage["whole"].status # "idle" /\ \A s \in Axes \cup {"chief"} : stage[s].status = "idle"
    /\ result # None => \A s \in Stages : stage[s].status \notin Active

(* The clock of a stage under way: what it has added up and the call it is at. *)
Timely(st, start) ==
    /\ st.status = "ready" => time = st.began /\ st.attempt = 0
    /\ st.status \in Active => st.began <= time /\ st.began = start + st.latency /\ st.latency <= st.try * PerTry
    /\ st.status = "calling" => time <= st.due /\ st.due <= st.began + Spent(st.attempt) + MaxDelay
    /\ st.status = "resting" => time <= st.due /\ st.due <= st.began + Spent(st.attempt)

(* The latency of a stage that has ended. *)
Closes ==
    /\ \A s \in {"chief", "whole"} : stage[s].status = "done" => time = Begins(s) + stage[s].latency
    /\ \A s \in Axes : stage[s].status = "done" => stage[s].latency <= time /\ stage[s].latency <= PerStage
    /\ specialized /\ stage["chief"].status = "idle" /\ (\A s \in Axes : stage[s].status = "done") =>
          time = Specialists

Clocks ==
    /\ \A s \in Stages : Timely(stage[s], Begins(s))
    /\ Closes
    /\ time <= IF stage["chief"].status = "idle" THEN PerStage ELSE 2 * PerStage

(* The posts a stage may have sent, the outputs it was given. *)
Paid(st) ==
    IF st.status = "idle" THEN 0
    ELSE IF st.status \in {"ready", "resting"} THEN st.try * ATTEMPTS + st.attempt
    ELSE IF st.status = "calling" THEN st.try * ATTEMPTS + st.attempt + 1
    ELSE SCHEMA_ATTEMPTS * ATTEMPTS
Got(st) ==
    IF st.status = "idle" THEN 0
    ELSE IF st.status \in {"done", "invalid"} THEN st.try + 1 ELSE st.try

Counts ==
    /\ posts <= Paid(stage[First]) + Paid(stage[Second]) + Paid(stage["chief"]) + Paid(stage["whole"])
    /\ received = Got(stage[First]) + Got(stage[Second]) + Got(stage["chief"]) + Got(stage["whole"])
    /\ stage["chief"].status = "idle" => stage["chief"].try = 0

(* What a stage that is done wrote conforms, and a review is what was chosen of it. *)
Conforming ==
    \A s \in Stages : stage[s].status = "done" =>
        stage[s].output \in Outputs(s) /\ Conforms(s, stage[s].output)

Chosen ==
    Delivered =>
       IF specialized
       THEN /\ stage["chief"].status = "done"
            /\ ValidChoice(stage["chief"].output)
            /\ result.review = [stage["chief"].output EXCEPT !.mistakes = Once(@), !.strengths = Once(@)]
            /\ result.run = CombinedRun
       ELSE /\ stage["whole"].status = "done"
            /\ result.run = RunOf("whole")

GenInv == GenTypes /\ Staged /\ Clocks /\ Counts /\ Conforming /\ Chosen

-----------------------------------------------------------------------------
LEMMA Multiples ==
    ASSUME NEW a \in Nat, NEW b \in Nat, NEW c \in Nat, a <= b
    PROVE  a * c \in Nat /\ b * c \in Nat /\ a * c <= b * c /\ (a + 1) * c = a * c + c
<1>1. a * c \in Nat /\ b * c \in Nat
  OBVIOUS
<1>2. b * c - a * c = (b - a) * c
  OBVIOUS
<1>3. (b - a) \in Nat
  OBVIOUS
<1>4. (b - a) * c \in Nat
  BY <1>3
<1>5. QED
  BY <1>1, <1>2, <1>4

LEMMA Halves ==
    ASSUME NEW x \in Nat, NEW y \in Nat
    PROVE  /\ x \div 2 \in Nat
           /\ (x + 2 * y) \div 2 = x \div 2 + y
           /\ x <= y => x \div 2 <= y \div 2
  OBVIOUS

LEMMA SpentFacts ==
    ASSUME GenerationAssumption, NEW a \in Nat
    PROVE  /\ Spent(a) \in Nat /\ Spent(0) = 0
           /\ Spent(a + 1) = Spent(a) + MaxDelay + (a + 1)
           /\ a < ATTEMPTS => Spent(a) + MaxDelay <= PerTry
<1>1. MaxDelay \in Nat /\ ATTEMPTS \in Nat
  BY DEF GenerationAssumption
<1>2. a * (a + 1) \in Nat /\ a * MaxDelay \in Nat
  BY <1>1
<1>3. (a * (a + 1)) \div 2 \in Nat
  BY <1>2, Halves
<1>4. Spent(a) \in Nat
  BY <1>2, <1>3 DEF Spent
<1>5. Spent(0) = 0
  BY <1>1 DEF Spent
<1>6. (a + 1) * (a + 1 + 1) = a * (a + 1) + 2 * (a + 1)
  OBVIOUS
<1>7. ((a + 1) * (a + 1 + 1)) \div 2 = (a * (a + 1)) \div 2 + (a + 1)
  BY <1>2, <1>6, Halves
<1>8. (a + 1) * MaxDelay = a * MaxDelay + MaxDelay
  BY <1>1, Multiples
<1>9. Spent(a + 1) = Spent(a) + MaxDelay + (a + 1)
  BY <1>1, <1>2, <1>3, <1>7, <1>8 DEF Spent
<1>10. ASSUME a < ATTEMPTS PROVE Spent(a) + MaxDelay <= PerTry
  <2>1. a + 1 \in Nat /\ a + 1 <= ATTEMPTS /\ ATTEMPTS - 1 \in Nat /\ a <= ATTEMPTS - 1
    BY <1>1, <1>10
  <2>2. (a + 1) * MaxDelay <= ATTEMPTS * MaxDelay /\ ATTEMPTS * MaxDelay \in Nat
    BY <1>1, <2>1, Multiples
  <2>3. a * (a + 1) <= (ATTEMPTS - 1) * (a + 1)
    BY <2>1, Multiples
  <2>4. (a + 1) * (ATTEMPTS - 1) <= ATTEMPTS * (ATTEMPTS - 1) /\ ATTEMPTS * (ATTEMPTS - 1) \in Nat
    BY <1>1, <2>1, Multiples
  <2>5. (ATTEMPTS - 1) * (a + 1) = (a + 1) * (ATTEMPTS - 1)
    BY <1>1
  <2>6. a * (a + 1) <= ATTEMPTS * (ATTEMPTS - 1)
    BY <1>2, <2>1, <2>3, <2>4, <2>5
  <2>7. (a * (a + 1)) \div 2 <= (ATTEMPTS * (ATTEMPTS - 1)) \div 2 /\ (ATTEMPTS * (ATTEMPTS - 1)) \div 2 \in Nat
    BY <1>2, <2>4, <2>6, Halves
  <2>8. QED
    BY <1>1, <1>2, <1>3, <1>8, <2>2, <2>7 DEF Spent, PerTry
<1>11. QED
  BY <1>4, <1>5, <1>9, <1>10

LEMMA BudgetFacts ==
    ASSUME GenerationAssumption
    PROVE  /\ PerTry \in Nat /\ PerStage \in Nat
           /\ \A t \in 0..SCHEMA_ATTEMPTS - 1 :
                 /\ t * PerTry \in Nat /\ t * ATTEMPTS \in Nat
                 /\ (t + 1) * PerTry = t * PerTry + PerTry
                 /\ t * PerTry + PerTry <= PerStage
                 /\ (t + 1) * ATTEMPTS = t * ATTEMPTS + ATTEMPTS
                 /\ t * ATTEMPTS + ATTEMPTS <= SCHEMA_ATTEMPTS * ATTEMPTS
           /\ SCHEMA_ATTEMPTS * ATTEMPTS \in Nat
<1>1. MaxDelay \in Nat /\ ATTEMPTS \in Nat /\ ATTEMPTS - 1 \in Nat /\ SCHEMA_ATTEMPTS \in Nat
  BY DEF GenerationAssumption
<1>2. ATTEMPTS * MaxDelay \in Nat /\ ATTEMPTS * (ATTEMPTS - 1) \in Nat
  BY <1>1
<1>3. PerTry \in Nat
  BY <1>2, Halves DEF PerTry
<1>4. ASSUME NEW t \in 0..SCHEMA_ATTEMPTS - 1, NEW c \in Nat
      PROVE  t * c \in Nat /\ (t + 1) * c = t * c + c /\ t * c + c <= SCHEMA_ATTEMPTS * c
  <2>1. t \in Nat /\ t + 1 \in Nat /\ t + 1 <= SCHEMA_ATTEMPTS
    BY <1>1
  <2>2. (t + 1) * c <= SCHEMA_ATTEMPTS * c
    BY <1>1, <2>1, Multiples
  <2>3. t * c \in Nat /\ (t + 1) * c = t * c + c
    BY <2>1, Multiples
  <2>4. QED
    BY <2>2, <2>3
<1>5. SCHEMA_ATTEMPTS * PerTry \in Nat /\ SCHEMA_ATTEMPTS * ATTEMPTS \in Nat
  BY <1>1, <1>3
<1>6. QED
  BY <1>1, <1>3, <1>4, <1>5 DEF PerStage

LEMMA StageNames ==
    /\ AXES[1] = First /\ AXES[2] = Second /\ DOMAIN AXES = {1, 2}
    /\ Range(AXES) = Axes
    /\ Stages = {First, Second, "chief", "whole"}
<1>1. AXES[1] = First /\ AXES[2] = Second /\ DOMAIN AXES = {1, 2}
  BY DEF AXES, First, Second
<1>2. Range(AXES) = Axes
  BY <1>1 DEF Range, Axes
<1>3. QED
  BY <1>1, <1>2 DEF Stages, Axes

LEMMA SlowestOfTwo ==
    ASSUME NEW a \in Nat, NEW b \in Nat
    PROVE  Max({a, b}) = Longest(a, b)
  BY DEF Max, Longest

(* The calls of one stage go on: what it now is, what it has cost. *)
Went(s, new) ==
    /\ new \in StageRecord
    /\ new.status # "idle"
    /\ Timely(new, Begins(s))
    /\ new.status = "done" =>
          /\ time = Begins(s) + new.latency
          /\ new.latency <= PerStage
          /\ new.output \in Outputs(s) /\ Conforms(s, new.output)

StageGoesOn(s, new) ==
    /\ stage[s].status \in Active
    /\ Went(s, new)
    /\ stage' = [stage EXCEPT ![s] = new]
    /\ posts' \in Nat /\ posts' - posts <= Paid(new) - Paid(stage[s])
    /\ received' \in Nat /\ received' - received = Got(new) - Got(stage[s])
    /\ specialized' = specialized /\ time' = time /\ result' = result

LEMMA CostTypes ==
    ASSUME GenerationAssumption, NEW st \in StageRecord
    PROVE  Paid(st) \in Nat /\ Got(st) \in Nat
<1>1. ATTEMPTS \in Nat /\ SCHEMA_ATTEMPTS \in Nat
  BY DEF GenerationAssumption
<1>2. st.try \in 0..SCHEMA_ATTEMPTS - 1 /\ st.attempt \in 0..ATTEMPTS - 1
  BY DEF StageRecord
<1>3. st.try * ATTEMPTS \in Nat /\ SCHEMA_ATTEMPTS * ATTEMPTS \in Nat
  BY <1>2, BudgetFacts
<1>4. QED
  BY <1>1, <1>2, <1>3 DEF Paid, Got

(* A step of one stage leaves the others, and the chief waits for the specialists. *)
LEMMA GoesOnAlone ==
    ASSUME GenerationAssumption, GenInv, NEW s \in Stages, NEW new, StageGoesOn(s, new)
    PROVE  /\ stage' \in [Stages -> StageRecord]
           /\ stage'[s] = new
           /\ \A t \in Stages : t # s => stage'[t] = stage[t]
           /\ result = None
           /\ stage[s].status # "idle"
           /\ s \in Axes => stage["chief"].status = "idle" /\ specialized
           /\ s = "chief" => specialized
           /\ s = "whole" => ~specialized
           /\ s \notin Axes => Specialists' = Specialists
           /\ Begins(s)' = Begins(s)
<1> USE StageNames
<1>1. /\ stage' \in [Stages -> StageRecord]
      /\ stage'[s] = new
      /\ \A t \in Stages : t # s => stage'[t] = stage[t]
  BY DEF GenInv, GenTypes, StageGoesOn, Went
<1>2. stage[s].status # "idle" /\ result = None
  BY DEF GenInv, Staged, StageGoesOn, Active
<1>3. s \in Axes => stage["chief"].status = "idle" /\ specialized
  BY <1>2 DEF GenInv, GenTypes, Staged, StageGoesOn, Active
<1>4. (s = "chief" => specialized) /\ (s = "whole" => ~specialized)
  BY <1>2 DEF GenInv, GenTypes, Staged
<1>5. s \notin Axes => stage'[First] = stage[First] /\ stage'[Second] = stage[Second]
  BY <1>1 DEF Axes
<1>6. s \notin Axes => Specialists' = Specialists
  BY <1>5 DEF Specialists
<1>7. Begins(s)' = Begins(s)
  BY <1>6 DEF Begins, Axes, First, Second
<1>8. QED
  BY <1>1, <1>2, <1>3, <1>4, <1>6, <1>7

LEMMA GoesOnStaged ==
    ASSUME GenerationAssumption, GenInv, NEW s \in Stages, NEW new, StageGoesOn(s, new)
    PROVE  GenTypes' /\ Staged' /\ Conforming' /\ Chosen'
<1> USE StageNames
<1>1. GenTypes'
  BY GoesOnAlone DEF GenInv, GenTypes, StageGoesOn
<1>2. stage'[s].status # "idle"
  BY GoesOnAlone DEF StageGoesOn, Went
<1>3. result' = None /\ specialized' = specialized
  BY GoesOnAlone DEF StageGoesOn
<1>4. Staged'
  <2>1. \A t \in Stages : t # s => stage'[t] = stage[t]
    BY GoesOnAlone
  <2>2. CASE s \in Axes
    BY <1>2, <1>3, <2>1, <2>2, GoesOnAlone DEF GenInv, Staged, Axes, First, Second
  <2>3. CASE s = "chief"
    BY <1>2, <1>3, <2>1, <2>3, GoesOnAlone DEF GenInv, Staged, Axes, First, Second
  <2>4. CASE s = "whole"
    BY <1>2, <1>3, <2>1, <2>4, GoesOnAlone DEF GenInv, Staged, Axes, First, Second
  <2>5. QED
    BY <2>2, <2>3, <2>4 DEF Axes
<1>5. Conforming'
  <2> SUFFICES ASSUME NEW t \in Stages, stage'[t].status = "done"
               PROVE  stage'[t].output \in Outputs(t) /\ Conforms(t, stage'[t].output)
    BY DEF Conforming, Outputs, Conforms, ValidSelection, ValidDraft
  <2>1. CASE t = s
    BY <2>1, GoesOnAlone DEF StageGoesOn, Went
  <2>2. CASE t # s
    BY <2>2, GoesOnAlone DEF GenInv, Conforming
  <2>3. QED
    BY <2>1, <2>2
<1>6. Chosen'
  BY <1>3 DEF Chosen, Delivered
<1>7. QED
  BY <1>1, <1>4, <1>5, <1>6

LEMMA GoesOnCounts ==
    ASSUME GenerationAssumption, GenInv, NEW s \in Stages, NEW new, StageGoesOn(s, new)
    PROVE  Counts'
<1> USE StageNames
<1>1. \A t \in Stages : stage[t] \in StageRecord /\ stage'[t] \in StageRecord
  BY GoesOnAlone DEF GenInv, GenTypes
<1>2. \A t \in Stages : /\ Paid(stage[t]) \in Nat /\ Got(stage[t]) \in Nat
                            /\ Paid(stage'[t]) \in Nat /\ Got(stage'[t]) \in Nat
  BY <1>1, CostTypes
<1>3. stage'[s] = new /\ \A t \in Stages : t # s => stage'[t] = stage[t]
  BY GoesOnAlone
<1>4. \A t \in Stages : t # s => Paid(stage'[t]) = Paid(stage[t]) /\ Got(stage'[t]) = Got(stage[t])
  BY <1>3
<1>5. posts' - posts <= Paid(stage'[s]) - Paid(stage[s]) /\ received' - received = Got(stage'[s]) - Got(stage[s])
  BY <1>3 DEF StageGoesOn
<1>6. posts \in Nat /\ received \in Nat /\ posts' \in Nat /\ received' \in Nat
  BY DEF GenInv, GenTypes, StageGoesOn
<1>7. /\ posts <= Paid(stage[First]) + Paid(stage[Second]) + Paid(stage["chief"]) + Paid(stage["whole"])
      /\ received = Got(stage[First]) + Got(stage[Second]) + Got(stage["chief"]) + Got(stage["whole"])
  BY DEF GenInv, Counts
<1>8. /\ posts' <= Paid(stage'[First]) + Paid(stage'[Second]) + Paid(stage'["chief"]) + Paid(stage'["whole"])
      /\ received' = Got(stage'[First]) + Got(stage'[Second]) + Got(stage'["chief"]) + Got(stage'["whole"])
  <2>1. CASE s = First
    <3>1. /\ Paid(stage'[Second]) = Paid(stage[Second]) /\ Got(stage'[Second]) = Got(stage[Second])
          /\ Paid(stage'["chief"]) = Paid(stage["chief"]) /\ Got(stage'["chief"]) = Got(stage["chief"])
          /\ Paid(stage'["whole"]) = Paid(stage["whole"]) /\ Got(stage'["whole"]) = Got(stage["whole"])
      BY <1>4, <2>1 DEF First, Second
    <3>2. QED
      BY <1>2, <1>5, <1>6, <1>7, <2>1, <3>1
  <2>2. CASE s = Second
    BY <1>2, <1>4, <1>5, <1>6, <1>7, <2>2 DEF First, Second
  <2>3. CASE s = "chief"
    BY <1>2, <1>4, <1>5, <1>6, <1>7, <2>3 DEF First, Second
  <2>4. CASE s = "whole"
    BY <1>2, <1>4, <1>5, <1>6, <1>7, <2>4 DEF First, Second
  <2>5. QED
    BY <2>1, <2>2, <2>3, <2>4
<1>9. stage'["chief"].status = "idle" => stage'["chief"].try = 0
  BY GoesOnAlone DEF GenInv, Counts, StageGoesOn, Went
<1>10. QED
  BY <1>8, <1>9 DEF Counts, Paid, Got

LEMMA GoesOnClocks ==
    ASSUME GenerationAssumption, GenInv, NEW s \in Stages, NEW new, StageGoesOn(s, new)
    PROVE  Clocks'
<1> USE StageNames
<1>1. time' = time /\ time \in Nat /\ specialized' = specialized
  BY DEF StageGoesOn, GenInv, GenTypes
<1>2. stage'[s] = new /\ \A t \in Stages : t # s => stage'[t] = stage[t]
  BY GoesOnAlone
<1>3. \A t \in Stages : stage[t].latency \in Nat /\ stage'[t].latency \in Nat
  BY GoesOnAlone DEF GenInv, GenTypes, StageRecord
<1>4. \A t \in Stages : Timely(stage[t], Begins(t))'
  <2> SUFFICES ASSUME NEW t \in Stages PROVE Timely(stage[t], Begins(t))'
    OBVIOUS
  <2>1. CASE t = s
    BY <1>1, <1>2, <2>1, GoesOnAlone DEF StageGoesOn, Went, Timely
  <2>2. CASE t # s /\ Begins(t)' = Begins(t)
    BY <1>1, <1>2, <2>2 DEF GenInv, Clocks, Timely
  <2>3. CASE t # s /\ Begins(t)' # Begins(t)
    <3>1. t = "chief" /\ s \in Axes
      BY <2>3, GoesOnAlone DEF Begins, Axes
    <3>2. stage'[t].status = "idle"
      BY <1>2, <2>3, <3>1, GoesOnAlone
    <3>3. QED
      BY <3>2 DEF Timely, Active
  <2>4. QED
    BY <2>1, <2>2, <2>3
<1>5. Closes'
  <2>1. ASSUME NEW t \in {"chief", "whole"}, stage'[t].status = "done"
        PROVE  time' = Begins(t)' + stage'[t].latency
    <3>1. CASE t = s
      BY <1>1, <1>2, <2>1, <3>1, GoesOnAlone DEF StageGoesOn, Went
    <3>2. CASE t # s
      <4>1. stage[t].status = "done" /\ stage'[t] = stage[t] /\ time = Begins(t) + stage[t].latency
        BY <1>2, <2>1, <3>2 DEF GenInv, Clocks, Closes
      <4>2. s \in Axes => t = "whole"
        BY <4>1, GoesOnAlone
      <4>3. Begins(t)' = Begins(t)
        BY <4>2, GoesOnAlone DEF Begins
      <4>4. QED
        BY <1>1, <4>1, <4>3
    <3>3. QED
      BY <3>1, <3>2
  <2>2. ASSUME NEW t \in Axes, stage'[t].status = "done"
        PROVE  stage'[t].latency <= time' /\ stage'[t].latency <= PerStage
    <3>1. CASE t = s
      <4>1. Begins(t) = 0
        BY DEF Begins, Axes, First, Second
      <4>2. QED
        BY <1>1, <1>2, <1>3, <2>2, <3>1, <4>1 DEF StageGoesOn, Went, Axes
    <3>2. CASE t # s
      BY <1>1, <1>2, <2>2, <3>2 DEF GenInv, Clocks, Closes, Axes
    <3>3. QED
      BY <3>1, <3>2
  <2>3. ASSUME specialized', stage'["chief"].status = "idle", \A t \in Axes : stage'[t].status = "done"
        PROVE  time' = Specialists'
    <3>1. s \in Axes
      <4>1. s # "chief"
        BY <1>2, <2>3 DEF StageGoesOn, Went
      <4>2. s # "whole"
        BY <1>1, <2>3, GoesOnAlone
      <4>3. QED
        BY <4>1, <4>2 DEF Axes
    <3>2. Begins(s) = 0
      BY <3>1 DEF Begins, Axes, First, Second
    <3>3. time = new.latency
      BY <1>2, <1>3, <2>3, <3>1, <3>2 DEF StageGoesOn, Went, Axes
    <3>4. \A t \in Axes : stage'[t].latency <= time /\ stage'[t].latency \in Nat
      BY <1>1, <1>3, <2>2, <2>3 DEF Axes
    <3>5. stage'[First].latency = time \/ stage'[Second].latency = time
      BY <1>2, <3>1, <3>3 DEF Axes
    <3>6. QED
      BY <1>1, <3>4, <3>5 DEF Specialists, Longest, Axes
  <2>4. QED
    BY <2>1, <2>2, <2>3 DEF Closes, PerStage, PerTry, Begins, Specialists, Longest
<1>6. time' <= IF stage'["chief"].status = "idle" THEN PerStage ELSE 2 * PerStage
  <2>1. stage'["chief"].status = "idle" <=> stage["chief"].status = "idle"
    BY <1>2, GoesOnAlone DEF StageGoesOn, Went
  <2>2. QED
    BY <1>1, <2>1 DEF GenInv, Clocks
<1>7. QED
  BY <1>4, <1>5, <1>6 DEF Clocks, Timely, Begins, Specialists, Longest, PerStage, PerTry, Spent, Active

LEMMA GoesOnKeeps ==
    ASSUME GenerationAssumption, GenInv, NEW s \in Stages, NEW new, StageGoesOn(s, new)
    PROVE  GenInv'
  BY GoesOnStaged, GoesOnCounts, GoesOnClocks DEF GenInv

(* What is known of a stage, of its clock and of the budget it lives on. *)
LEMMA StageFacts ==
    ASSUME GenerationAssumption, GenInv, NEW s \in Stages
    PROVE  /\ stage[s] \in StageRecord /\ Timely(stage[s], Begins(s))
           /\ Begins(s) \in Nat
           /\ time \in Nat /\ posts \in Nat /\ received \in Nat
           /\ stage[s].try \in 0..SCHEMA_ATTEMPTS - 1 /\ stage[s].attempt \in 0..ATTEMPTS - 1
           /\ stage[s].due \in Nat /\ stage[s].began \in Nat /\ stage[s].latency \in Nat
           /\ ATTEMPTS \in Nat /\ SCHEMA_ATTEMPTS \in Nat /\ MaxDelay \in Nat
           /\ PerTry \in Nat /\ PerStage \in Nat
           /\ stage[s].try * PerTry \in Nat /\ stage[s].try * ATTEMPTS \in Nat
           /\ stage[s].try * PerTry + PerTry <= PerStage
           /\ (stage[s].try + 1) * PerTry = stage[s].try * PerTry + PerTry
           /\ (stage[s].try + 1) * ATTEMPTS = stage[s].try * ATTEMPTS + ATTEMPTS
           /\ stage[s].try * ATTEMPTS + ATTEMPTS <= SCHEMA_ATTEMPTS * ATTEMPTS
           /\ SCHEMA_ATTEMPTS * ATTEMPTS \in Nat
           /\ Spent(stage[s].attempt) \in Nat /\ Spent(0) = 0
           /\ Spent(stage[s].attempt + 1) = Spent(stage[s].attempt) + MaxDelay + (stage[s].attempt + 1)
           /\ Spent(stage[s].attempt) + MaxDelay <= PerTry
<1>1. /\ stage[s] \in StageRecord /\ Timely(stage[s], Begins(s))
      /\ time \in Nat /\ posts \in Nat /\ received \in Nat
  BY DEF GenInv, GenTypes, Clocks
<1>2. /\ ATTEMPTS \in Nat /\ SCHEMA_ATTEMPTS \in Nat /\ MaxDelay \in Nat
  BY DEF GenerationAssumption
<1>3. /\ stage[s].try \in 0..SCHEMA_ATTEMPTS - 1 /\ stage[s].attempt \in 0..ATTEMPTS - 1
      /\ stage[s].due \in Nat /\ stage[s].began \in Nat /\ stage[s].latency \in Nat
  BY <1>1 DEF StageRecord
<1>4. Begins(s) \in Nat
  <2>1. stage[First].latency \in Nat /\ stage[Second].latency \in Nat
    BY StageNames DEF GenInv, GenTypes, StageRecord
  <2>2. QED
    BY <2>1 DEF Begins, Specialists, Longest
<1>5. stage[s].attempt \in Nat /\ stage[s].attempt < ATTEMPTS
  BY <1>2, <1>3
<1>6. /\ Spent(stage[s].attempt) \in Nat /\ Spent(0) = 0
      /\ Spent(stage[s].attempt + 1) = Spent(stage[s].attempt) + MaxDelay + (stage[s].attempt + 1)
      /\ Spent(stage[s].attempt) + MaxDelay <= PerTry
  BY <1>5, SpentFacts
<1>7. /\ PerTry \in Nat /\ PerStage \in Nat
      /\ stage[s].try * PerTry \in Nat /\ stage[s].try * ATTEMPTS \in Nat
      /\ stage[s].try * PerTry + PerTry <= PerStage
      /\ (stage[s].try + 1) * PerTry = stage[s].try * PerTry + PerTry
      /\ (stage[s].try + 1) * ATTEMPTS = stage[s].try * ATTEMPTS + ATTEMPTS
      /\ stage[s].try * ATTEMPTS + ATTEMPTS <= SCHEMA_ATTEMPTS * ATTEMPTS
      /\ SCHEMA_ATTEMPTS * ATTEMPTS \in Nat
  BY <1>3, BudgetFacts
<1>8. QED
  BY <1>1, <1>2, <1>3, <1>4, <1>6, <1>7

LEMMA PostKeeps ==
    ASSUME GenerationAssumption, GenInv, NEW s \in Stages, Post(s)
    PROVE  GenInv'
<1>1. PICK d \in 1..MaxDelay :
         stage' = [stage EXCEPT ![s] = [stage[s] EXCEPT !.status = "calling", !.due = time + d]]
  BY DEF Post, Sets
<1> DEFINE new == [stage[s] EXCEPT !.status = "calling", !.due = time + d]
<1>2. /\ new.status = "calling" /\ new.due = time + d /\ new.try = stage[s].try
      /\ new.attempt = stage[s].attempt /\ new.began = stage[s].began /\ new.latency = stage[s].latency
      /\ new \in StageRecord
  <2>1. time + d \in Nat /\ stage[s] \in StageRecord
    BY StageFacts
  <2>2. QED
    BY <2>1 DEF StageRecord, Fields
<1>3. \/ stage[s].status = "ready"
      \/ stage[s].status = "resting" /\ stage[s].due = time
  BY DEF Post
<1>4. Timely(new, Begins(s))
  <2>1. time <= stage[s].began + Spent(stage[s].attempt)
    BY <1>3, StageFacts DEF Timely
  <2>2. /\ stage[s].began = Begins(s) + stage[s].latency /\ stage[s].latency <= stage[s].try * PerTry
        /\ stage[s].began <= time
    BY <1>3, StageFacts DEF Timely, Active
  <2> HIDE DEF new
  <2>3. QED
    BY <1>2, <2>1, <2>2, StageFacts DEF Timely, Active
<1>5. Paid(new) = Paid(stage[s]) + 1 /\ Got(new) = Got(stage[s])
  <2> HIDE DEF new
  <2>1. QED
    BY <1>2, <1>3, StageFacts DEF Paid, Got
<1>6. Paid(stage[s]) \in Nat /\ Got(stage[s]) \in Nat
  BY StageFacts, CostTypes
<1>7. StageGoesOn(s, new)
  <2>1. Went(s, new)
    BY <1>2, <1>4 DEF Went
  <2>2. stage[s].status \in Active
    BY <1>3 DEF Active
  <2>3. /\ posts' = posts + 1 /\ received' = received
        /\ specialized' = specialized /\ time' = time /\ result' = result
    BY DEF Post
  <2>4. stage' = [stage EXCEPT ![s] = new]
    BY <1>1
  <2> HIDE DEF new
  <2>5. QED
    BY <1>5, <1>6, <2>1, <2>2, <2>3, <2>4, StageFacts DEF StageGoesOn
<1> HIDE DEF new
<1>8. QED
  BY <1>7, GoesOnKeeps

(* A call that failed for good. *)
LEMMA FailureGoesOn ==
    ASSUME GenerationAssumption, GenInv, NEW s \in Stages, Replied(s),
           stage' = [stage EXCEPT ![s] = [stage[s] EXCEPT !.status = "llm"]],
           UNCHANGED <<specialized, time, result, posts, received>>
    PROVE  GenInv'
<1> DEFINE new == [stage[s] EXCEPT !.status = "llm"]
<1>1. /\ new.status = "llm" /\ new.try = stage[s].try
      /\ new \in StageRecord
  BY StageFacts DEF StageRecord, Fields
<1>2. stage[s].status = "calling"
  BY DEF Replied
<1>3. Went(s, new)
  BY <1>1 DEF Went, Timely, Active
<1> HIDE DEF new
<1>4. Paid(new) >= Paid(stage[s]) /\ Got(new) = Got(stage[s])
  BY <1>1, <1>2, StageFacts DEF Paid, Got
<1>5. Paid(stage[s]) \in Nat /\ Got(stage[s]) \in Nat /\ Paid(new) \in Nat /\ Got(new) \in Nat
  BY <1>1, StageFacts, CostTypes
<1>6. stage' = [stage EXCEPT ![s] = new]
  BY DEF new
<1>7. /\ posts' = posts /\ received' = received /\ posts \in Nat /\ received \in Nat
      /\ specialized' = specialized /\ time' = time /\ result' = result
  BY StageFacts
<1>8. StageGoesOn(s, new)
  <2>1. posts' - posts <= Paid(new) - Paid(stage[s]) /\ received' - received = Got(new) - Got(stage[s])
    BY <1>4, <1>5, <1>7
  <2>2. stage[s].status \in Active
    BY <1>2 DEF Active
  <2>3. QED
    BY <1>3, <1>6, <1>7, <2>1, <2>2 DEF StageGoesOn
<1>9. QED
  BY <1>8, GoesOnKeeps

LEMMA RefusedKeeps ==
    ASSUME GenerationAssumption, GenInv, NEW s \in Stages, Refused(s)
    PROVE  GenInv'
  BY FailureGoesOn DEF Refused, Sets

LEMMA UnusableKeeps ==
    ASSUME GenerationAssumption, GenInv, NEW s \in Stages, Unusable(s)
    PROVE  GenInv'
<1>1. /\ Replied(s) /\ stage' = [stage EXCEPT ![s] = Again(s)]
      /\ UNCHANGED <<specialized, time, result, posts, received>>
  BY DEF Unusable, Sets
<1>2. CASE ~(stage[s].attempt < ATTEMPTS - 1)
  <2>1. Again(s) = [stage[s] EXCEPT !.status = "llm"]
    BY <1>2 DEF Again
  <2>2. QED
    BY <1>1, <2>1, FailureGoesOn
<1>3. CASE stage[s].attempt < ATTEMPTS - 1
  <2> DEFINE new == [stage[s] EXCEPT !.status = "resting", !.attempt = stage[s].attempt + 1, !.due = time + stage[s].attempt + 1]
  <2>1. Again(s) = new
    BY <1>3 DEF Again
  <2>2. stage[s].attempt + 1 \in 0..ATTEMPTS - 1 /\ time + stage[s].attempt + 1 \in Nat
    BY <1>3, StageFacts
  <2>3. /\ new.status = "resting" /\ new.attempt = stage[s].attempt + 1 /\ new.due = time + stage[s].attempt + 1
        /\ new.try = stage[s].try /\ new.began = stage[s].began /\ new.latency = stage[s].latency
        /\ new \in StageRecord
    BY <2>2, StageFacts DEF StageRecord, Fields
  <2> HIDE DEF new
  <2>4. stage[s].status = "calling" /\ stage[s].due = time
    BY <1>1 DEF Replied
  <2>5. Timely(new, Begins(s))
    <3>1. time <= stage[s].began + Spent(stage[s].attempt) + MaxDelay
      BY <2>4, StageFacts DEF Timely
    <3>2. /\ stage[s].began = Begins(s) + stage[s].latency /\ stage[s].latency <= stage[s].try * PerTry
          /\ stage[s].began <= time
      BY <2>4, StageFacts DEF Timely, Active
    <3>3. new.due <= new.began + Spent(new.attempt)
      BY <2>3, <3>1, StageFacts
    <3>4. QED
      BY <2>3, <3>2, <3>3, StageFacts DEF Timely, Active
  <2>6. Paid(new) = Paid(stage[s]) /\ Got(new) = Got(stage[s])
    BY <2>3, <2>4, StageFacts DEF Paid, Got
  <2>7. Paid(stage[s]) \in Nat /\ Got(stage[s]) \in Nat
    BY StageFacts, CostTypes
  <2>8. Went(s, new)
    BY <2>3, <2>5 DEF Went
  <2>9. StageGoesOn(s, new)
    BY <1>1, <2>1, <2>4, <2>6, <2>7, <2>8, StageFacts DEF StageGoesOn, Active
  <2>10. QED
    BY <2>9, GoesOnKeeps
<1>4. QED
  BY <1>2, <1>3

LEMMA WrittenKeeps ==
    ASSUME GenerationAssumption, GenInv, NEW s \in Stages, Written(s)
    PROVE  GenInv'
<1>1. PICK o \in Outputs(s) : stage' = [stage EXCEPT ![s] = Read(s, o)]
  BY DEF Written, Sets
<1>2. stage[s].status = "calling" /\ stage[s].due = time
  BY DEF Written, Replied
<1> DEFINE new == Read(s, o)
           took == stage[s].latency + time - stage[s].began
<1>3. o \in Drafts \cup Selections \cup {None}
  BY DEF Outputs
<1>4. /\ stage[s].began = Begins(s) + stage[s].latency /\ stage[s].latency <= stage[s].try * PerTry
      /\ stage[s].began <= time /\ time <= stage[s].began + Spent(stage[s].attempt) + MaxDelay
  BY <1>2, StageFacts DEF Timely, Active
<1>5. took \in Nat /\ Begins(s) + took = time /\ took <= stage[s].try * PerTry + PerTry
  BY <1>4, StageFacts
<1> HIDE DEF took
<1>6. new = IF Conforms(s, o) THEN [stage[s] EXCEPT !.latency = took, !.status = "done", !.output = o]
            ELSE IF stage[s].try < SCHEMA_ATTEMPTS - 1
                 THEN [stage[s] EXCEPT !.latency = took, !.status = "ready", !.try = stage[s].try + 1, !.attempt = 0, !.began = time]
                 ELSE [stage[s] EXCEPT !.latency = took, !.status = "invalid"]
  BY StageFacts DEF Read, took, StageRecord
<1> HIDE DEF new
<1>7. Went(s, new) /\ Paid(stage[s]) <= Paid(new) /\ Got(new) = Got(stage[s]) + 1 /\ new \in StageRecord
  <2>1. CASE Conforms(s, o)
    <3>1. /\ new.status = "done" /\ new.latency = took /\ new.output = o /\ new.try = stage[s].try
          /\ new \in StageRecord
      BY <1>3, <1>5, <1>6, <2>1, StageFacts DEF StageRecord, Fields
    <3>2. Went(s, new)
      BY <1>5, <2>1, <3>1, StageFacts DEF Went, Timely, Active
    <3>3. Paid(stage[s]) <= Paid(new) /\ Got(new) = Got(stage[s]) + 1
      BY <1>2, <3>1, StageFacts DEF Paid, Got
    <3>4. QED
      BY <3>1, <3>2, <3>3
  <2>2. CASE ~Conforms(s, o) /\ stage[s].try < SCHEMA_ATTEMPTS - 1
    <3>1. stage[s].try + 1 \in 0..SCHEMA_ATTEMPTS - 1 /\ 0 \in 0..ATTEMPTS - 1
      <4>1. stage[s].try \in 0..SCHEMA_ATTEMPTS - 1 /\ stage[s].attempt \in 0..ATTEMPTS - 1
            /\ SCHEMA_ATTEMPTS \in Nat /\ ATTEMPTS \in Nat
        BY StageFacts
      <4>2. QED
        BY <2>2, <4>1
    <3>2. /\ new.status = "ready" /\ new.latency = took /\ new.try = stage[s].try + 1
          /\ new.attempt = 0 /\ new.began = time
          /\ new \in StageRecord
      BY <1>5, <1>6, <2>2, <3>1, StageFacts DEF StageRecord, Fields
    <3>3. Went(s, new)
      <4>1. time = Begins(s) + took /\ took <= (stage[s].try + 1) * PerTry /\ time <= time
        BY <1>5, StageFacts
      <4>2. QED
        BY <3>2, <4>1 DEF Went, Timely, Active
    <3>4. Paid(stage[s]) <= Paid(new) /\ Got(new) = Got(stage[s]) + 1
      <4>1. stage[s].attempt + 1 <= ATTEMPTS
        BY StageFacts
      <4>2. Paid(new) = stage[s].try * ATTEMPTS + ATTEMPTS
        BY <3>2, StageFacts DEF Paid
      <4>3. Paid(stage[s]) = stage[s].try * ATTEMPTS + stage[s].attempt + 1
        BY <1>2 DEF Paid
      <4>4. Got(new) = stage[s].try + 1 /\ Got(stage[s]) = stage[s].try
        BY <1>2, <3>2 DEF Got
      <4>5. QED
        BY <4>1, <4>2, <4>3, <4>4, StageFacts
    <3>5. QED
      BY <3>2, <3>3, <3>4
  <2>3. CASE ~Conforms(s, o) /\ ~(stage[s].try < SCHEMA_ATTEMPTS - 1)
    <3>1. /\ new.status = "invalid" /\ new.latency = took /\ new.try = stage[s].try
          /\ new \in StageRecord
      BY <1>5, <1>6, <2>3, StageFacts DEF StageRecord, Fields
    <3>2. Went(s, new)
      BY <3>1 DEF Went, Timely, Active
    <3>3. Paid(stage[s]) <= Paid(new) /\ Got(new) = Got(stage[s]) + 1
      BY <1>2, <3>1, StageFacts DEF Paid, Got
    <3>4. QED
      BY <3>1, <3>2, <3>3
  <2>4. QED
    BY <2>1, <2>2, <2>3
<1>8. Paid(stage[s]) \in Nat /\ Got(stage[s]) \in Nat /\ Paid(new) \in Nat /\ Got(new) \in Nat
  BY <1>7, StageFacts, CostTypes
<1>9. /\ posts' = posts /\ received' = received + 1 /\ posts \in Nat /\ received \in Nat
      /\ specialized' = specialized /\ time' = time /\ result' = result
  BY StageFacts DEF Written
<1>10. StageGoesOn(s, new)
  <2>1. posts' - posts <= Paid(new) - Paid(stage[s]) /\ received' - received = Got(new) - Got(stage[s])
    BY <1>7, <1>8, <1>9
  <2>2. stage[s].status \in Active
    BY <1>2 DEF Active
  <2>3. stage' = [stage EXCEPT ![s] = new]
    BY <1>1 DEF new
  <2>4. QED
    BY <1>7, <1>9, <2>1, <2>2, <2>3 DEF StageGoesOn
<1>11. QED
  BY <1>10, GoesOnKeeps

(* Nothing of the stages moves: only the result is new. *)
LEMMA ResultKeeps ==
    ASSUME GenerationAssumption, GenInv,
           \A s \in Stages : stage[s].status \notin Active,
           UNCHANGED <<specialized, stage, time, posts, received>>, Chosen'
    PROVE  GenInv'
<1>1. GenTypes'
  BY DEF GenInv, GenTypes
<1>2. Staged'
  BY DEF GenInv, Staged
<1>3. Clocks'
  BY DEF GenInv, Clocks, Closes, Timely, Begins, Specialists
<1>4. Counts' /\ Conforming'
  BY DEF GenInv, Counts, Conforming, Paid, Got, Outputs, Conforms, ValidSelection, ValidDraft
<1>5. QED
  BY <1>1, <1>2, <1>3, <1>4 DEF GenInv

LEMMA RestAtEnd ==
    ASSUME GenInv
    PROVE  /\ stage["chief"].status \in Ended => \A s \in Stages : stage[s].status \notin Active
           /\ stage["whole"].status \in Ended => \A s \in Stages : stage[s].status \notin Active
           /\ stage["chief"].status \in Ended => specialized
           /\ stage["whole"].status \in Ended => ~specialized
           /\ specialized /\ stage["chief"].status = "idle" /\ (\A s \in Axes : stage[s].status \in Ended) =>
                 \A s \in Stages : stage[s].status \notin Active
<1> USE StageNames
<1>1. (stage["chief"].status \in Ended => specialized) /\ (stage["whole"].status \in Ended => ~specialized)
  BY DEF GenInv, GenTypes, Staged, Ended
<1>2. stage["chief"].status \in Ended => \A s \in Stages : stage[s].status \notin Active
  BY <1>1 DEF GenInv, Staged, Ended, Active, Axes
<1>3. stage["whole"].status \in Ended => \A s \in Stages : stage[s].status \notin Active
  BY <1>1 DEF GenInv, Staged, Ended, Active, Axes
<1>4. specialized /\ stage["chief"].status = "idle" /\ (\A s \in Axes : stage[s].status \in Ended) =>
         \A s \in Stages : stage[s].status \notin Active
  BY DEF GenInv, Staged, Ended, Active, Axes
<1>5. QED
  BY <1>1, <1>2, <1>3, <1>4

LEMMA ConcludeKeeps ==
    ASSUME GenerationAssumption, GenInv, Conclude
    PROVE  GenInv'
<1>1. UNCHANGED <<specialized, stage, time, posts, received>>
  BY DEF Conclude
<1>2. CASE stage["chief"].status \in Ended /\ result' = Selected
  <2>1. specialized /\ \A s \in Stages : stage[s].status \notin Active
    BY <1>2, RestAtEnd
  <2>2. Chosen'
    <3>1. CASE stage["chief"].status # "done" \/ ~ValidChoice(stage["chief"].output)
      <4>1. "review" \notin DOMAIN result'
        BY <1>2, <3>1 DEF Selected, Raised
      <4>2. QED
        BY <4>1 DEF Chosen, Delivered
    <3>2. CASE stage["chief"].status = "done" /\ ValidChoice(stage["chief"].output)
      <4>1. /\ result'.review = [stage["chief"].output EXCEPT !.mistakes = Once(@), !.strengths = Once(@)]
            /\ result'.run = CombinedRun
        BY <1>2, <3>2 DEF Selected
      <4>2. ValidChoice(stage["chief"].output)' /\ CombinedRun' = CombinedRun
        BY <1>1, <3>2 DEF ValidChoice, Ids, CombinedRun, Total, RunOf
      <4>3. QED
        BY <1>1, <2>1, <3>2, <4>1, <4>2 DEF Chosen
    <3>3. QED
      BY <3>1, <3>2
  <2>3. QED
    BY <1>1, <2>1, <2>2, ResultKeeps
<1>3. CASE /\ stage["whole"].status \in Ended
           /\ result' = IF stage["whole"].status = "done"
                        THEN [review |-> stage["whole"].output, run |-> RunOf("whole")]
                        ELSE Raised("whole")
  <2>1. ~specialized /\ \A s \in Stages : stage[s].status \notin Active
    BY <1>3, RestAtEnd
  <2>2. Chosen'
    <3>1. CASE stage["whole"].status # "done"
      <4>1. "review" \notin DOMAIN result'
        BY <1>3, <3>1 DEF Raised
      <4>2. QED
        BY <4>1 DEF Chosen, Delivered
    <3>2. CASE stage["whole"].status = "done"
      <4>1. result'.run = RunOf("whole") /\ RunOf("whole")' = RunOf("whole")
        BY <1>1, <1>3, <3>2 DEF RunOf
      <4>2. QED
        BY <1>1, <2>1, <3>2, <4>1 DEF Chosen
    <3>3. QED
      BY <3>1, <3>2
  <2>3. QED
    BY <1>1, <2>1, <2>2, ResultKeeps
<1>4. QED
  BY <1>2, <1>3 DEF Conclude

LEMMA GatherKeeps ==
    ASSUME GenerationAssumption, GenInv, Gather
    PROVE  GenInv'
<1> USE StageNames
<1> DEFINE failed == {a \in DOMAIN AXES : stage[AXES[a]].status # "done"}
<1>1. /\ specialized /\ result = None /\ stage["chief"].status = "idle"
      /\ \A s \in Axes : stage[s].status \in Ended
      /\ UNCHANGED <<specialized, time, posts, received>>
  BY DEF Gather, Axes
<1>2. \A s \in Stages : stage[s].status \notin Active
  BY <1>1, RestAtEnd
<1>3. CASE failed # {}
  <2>1. result' = Raised(AXES[Min(failed)]) /\ UNCHANGED stage
    BY <1>3 DEF Gather
  <2>2. "review" \notin DOMAIN result'
    BY <2>1 DEF Raised
  <2>3. Chosen'
    BY <2>2 DEF Chosen, Delivered
  <2>4. QED
    BY <1>1, <1>2, <2>1, <2>3, ResultKeeps
<1>4. CASE failed = {}
  <2> DEFINE new == Ready(time)
  <2>1. stage' = [stage EXCEPT !["chief"] = new] /\ result' = None
    BY <1>1, <1>4 DEF Gather, Sets
  <2>2. \A s \in Axes : stage[s].status = "done"
    BY <1>4 DEF Axes
  <2>3. 0 \in 0..SCHEMA_ATTEMPTS - 1 /\ 0 \in 0..ATTEMPTS - 1
    BY DEF GenerationAssumption
  <2>4. time \in Nat /\ stage \in [Stages -> StageRecord]
    BY DEF GenInv, GenTypes
  <2>5. /\ new.status = "ready" /\ new.try = 0 /\ new.attempt = 0 /\ new.began = time /\ new.latency = 0
        /\ new \in StageRecord
    BY <2>3, <2>4 DEF Ready, NotAsked, StageRecord, Fields
  <2> HIDE DEF new
  <2>6. /\ stage' \in [Stages -> StageRecord] /\ stage'["chief"] = new
        /\ stage'[First] = stage[First] /\ stage'[Second] = stage[Second] /\ stage'["whole"] = stage["whole"]
    BY <2>1, <2>4, <2>5 DEF First, Second
  <2>7. GenTypes'
    BY <1>1, <2>6 DEF GenInv, GenTypes
  <2>8. Staged'
    BY <1>1, <2>1, <2>2, <2>5, <2>6 DEF GenInv, Staged, Axes
  <2>9. Specialists' = Specialists
    BY <2>6 DEF Specialists
  <2>10. time = Specialists
    BY <1>1, <2>2 DEF GenInv, Clocks, Closes
  <2>11. \A s \in Stages : Timely(stage[s], Begins(s))'
    <3>1. ASSUME NEW s \in Stages PROVE Timely(stage[s], Begins(s))'
      <4>1. time' = time
        BY <1>1
      <4>2. CASE s = "chief"
        <5>1. 0 * PerTry = 0
          BY BudgetFacts
        <5>2. Begins(s)' = time /\ stage'[s] = new
          BY <2>6, <2>9, <2>10, <4>2 DEF Begins
        <5>3. QED
          BY <2>4, <2>5, <4>1, <5>1, <5>2 DEF Timely, Active
      <4>3. CASE s # "chief"
        <5>1. Begins(s)' = Begins(s) /\ stage'[s] = stage[s]
          BY <2>6, <4>3 DEF Begins
        <5>2. QED
          BY <4>1, <5>1 DEF GenInv, Clocks, Timely
      <4>4. QED
        BY <4>2, <4>3
    <3>2. QED
      BY <3>1
  <2>12. Closes'
    <3>1. ASSUME NEW t \in {"chief", "whole"}, stage'[t].status = "done" PROVE time' = Begins(t)' + stage'[t].latency
      <4>1. t = "whole"
        BY <2>5, <2>6, <3>1
      <4>2. Begins(t)' = Begins(t) /\ stage'[t] = stage[t]
        BY <2>6, <4>1 DEF Begins
      <4>3. QED
        BY <1>1, <3>1, <4>2 DEF GenInv, Clocks, Closes
    <3>2. ASSUME NEW t \in Axes, stage'[t].status = "done"
          PROVE  stage'[t].latency <= time' /\ stage'[t].latency <= PerStage
      BY <1>1, <2>6, <3>2 DEF GenInv, Clocks, Closes, Axes
    <3>3. stage'["chief"].status # "idle"
      BY <2>5, <2>6
    <3>4. QED
      BY <3>1, <3>2, <3>3 DEF Closes, PerStage, PerTry, Begins, Specialists, Longest
  <2>13. time' <= IF stage'["chief"].status = "idle" THEN PerStage ELSE 2 * PerStage
    <3>1. time <= PerStage
      BY <1>1 DEF GenInv, Clocks
    <3>2. QED
      BY <1>1, <2>4, <2>5, <2>6, <3>1, BudgetFacts
  <2>14. Clocks'
    BY <2>11, <2>12, <2>13 DEF Clocks, PerStage, PerTry
  <2>15. Counts'
    <3>1. Paid(stage'["chief"]) = 0 /\ Got(stage'["chief"]) = 0
      <4>1. 0 * ATTEMPTS = 0
        BY DEF GenerationAssumption
      <4>2. QED
        BY <2>5, <2>6, <4>1 DEF Paid, Got
    <3>2. Paid(stage["chief"]) = 0 /\ Got(stage["chief"]) = 0
      BY <1>1 DEF Paid, Got
    <3>3. /\ Paid(stage'[First]) = Paid(stage[First]) /\ Got(stage'[First]) = Got(stage[First])
          /\ Paid(stage'[Second]) = Paid(stage[Second]) /\ Got(stage'[Second]) = Got(stage[Second])
          /\ Paid(stage'["whole"]) = Paid(stage["whole"]) /\ Got(stage'["whole"]) = Got(stage["whole"])
      BY <2>6
    <3>4. /\ posts' <= Paid(stage'[First]) + Paid(stage'[Second]) + Paid(stage'["chief"]) + Paid(stage'["whole"])
          /\ received' = Got(stage'[First]) + Got(stage'[Second]) + Got(stage'["chief"]) + Got(stage'["whole"])
      BY <1>1, <3>1, <3>2, <3>3 DEF GenInv, Counts
    <3>5. QED
      BY <2>5, <2>6, <3>4 DEF Counts, Paid, Got
  <2>16. Conforming'
    <3> SUFFICES ASSUME NEW t \in Stages, stage'[t].status = "done"
                 PROVE  stage'[t].output \in Outputs(t) /\ Conforms(t, stage'[t].output)
      BY DEF Conforming, Outputs, Conforms, ValidSelection, ValidDraft
    <3>1. t # "chief"
      BY <2>5, <2>6
    <3>2. stage'[t] = stage[t]
      BY <2>6, <3>1
    <3>3. QED
      BY <3>2 DEF GenInv, Conforming
  <2>17. Chosen'
    BY <2>1 DEF Chosen, Delivered
  <2>18. QED
    BY <2>7, <2>8, <2>14, <2>15, <2>16, <2>17 DEF GenInv
<1>5. QED
  BY <1>3, <1>4

(* A stage that waits is due before its budget is spent. *)
LEMMA TickKeeps ==
    ASSUME GenerationAssumption, GenInv, Tick
    PROVE  GenInv'
<1> USE StageNames
<1>1. PICK w \in Stages : stage[w].status \in {"calling", "resting"} /\ stage[w].due > time
  BY DEF Tick, Waiting
<1>2. /\ time' = time + 1 /\ time \in Nat
      /\ UNCHANGED <<specialized, stage, result, posts, received>>
      /\ \A s \in Stages : stage[s].status # "ready"
      /\ \A s \in Stages : stage[s].status \in {"calling", "resting"} => stage[s].due > time
  BY DEF Tick, Waiting, GenInv, GenTypes
<1>3. result = None /\ stage[w].status \in Active
  BY <1>1 DEF GenInv, Staged, Active
<1>4. GenTypes' /\ Staged' /\ Counts' /\ Conforming' /\ Chosen'
  <2>1. GenTypes'
    BY <1>2 DEF GenInv, GenTypes
  <2>2. Staged' /\ Chosen'
    BY <1>2, <1>3 DEF GenInv, Staged, Chosen, Delivered
  <2>3. Counts' /\ Conforming'
    BY <1>2 DEF GenInv, Counts, Conforming, Paid, Got, Outputs, Conforms, ValidSelection, ValidDraft
  <2>4. QED
    BY <2>1, <2>2, <2>3
<1>5. \A s \in Stages : Begins(s)' = Begins(s)
  BY <1>2 DEF Begins, Specialists
<1>6. \A s \in Stages : Timely(stage[s], Begins(s))'
  <2> SUFFICES ASSUME NEW s \in Stages PROVE Timely(stage[s], Begins(s))'
    OBVIOUS
  <2>1. stage'[s] = stage[s] /\ Begins(s)' = Begins(s)
    BY <1>2, <1>5
  <2>2. stage[s].status \in {"calling", "resting"} => time + 1 <= stage[s].due
    BY <1>2, StageFacts
  <2>3. QED
    BY <1>2, <2>1, <2>2, StageFacts DEF Timely, Active
<1>7. Closes'
  <2>1. stage["chief"].status # "done" /\ stage["whole"].status # "done"
    BY <1>3, RestAtEnd DEF Ended
  <2>2. \A s \in Axes : stage[s].status = "done" => stage[s].latency <= time + 1 /\ stage[s].latency <= PerStage
    <3>1. ASSUME NEW s \in Axes, stage[s].status = "done"
          PROVE  stage[s].latency <= time + 1 /\ stage[s].latency <= PerStage
      <4>1. s \in Stages
        BY DEF Axes
      <4>2. stage[s].latency \in Nat
        BY <4>1, StageFacts
      <4>3. stage[s].latency <= time /\ stage[s].latency <= PerStage
        BY <3>1 DEF GenInv, Clocks, Closes
      <4>4. QED
        BY <1>2, <4>2, <4>3
    <3>2. QED
      BY <3>1
  <2>3. ~(specialized /\ stage["chief"].status = "idle" /\ \A s \in Axes : stage[s].status = "done")
    BY <1>3, RestAtEnd DEF Ended
  <2>4. QED
    BY <1>2, <2>1, <2>2, <2>3 DEF Closes, PerStage, PerTry
<1>8. time' <= IF stage'["chief"].status = "idle" THEN PerStage ELSE 2 * PerStage
  <2>1. time + 1 <= stage[w].due
    BY <1>1, <1>2, StageFacts
  <2>2. stage[w].due <= stage[w].began + Spent(stage[w].attempt) + MaxDelay
    BY <1>1, StageFacts DEF Timely
  <2>3. stage[w].began = Begins(w) + stage[w].latency /\ stage[w].latency <= stage[w].try * PerTry
    BY <1>3, StageFacts DEF Timely
  <2>4. time + 1 <= Begins(w) + PerStage
    BY <2>1, <2>2, <2>3, <1>2, StageFacts
  <2>5. CASE w = "chief"
    <3>1. stage["chief"].status # "idle" /\ stage["whole"].status # "ready" /\ specialized
      BY <1>1, <1>2, <2>5 DEF GenInv, GenTypes, Staged
    <3>2. \A s \in Axes : stage[s].status = "done"
      BY <3>1 DEF GenInv, Staged
    <3>3. stage[First].latency <= PerStage /\ stage[Second].latency <= PerStage
      BY <3>2 DEF GenInv, Clocks, Closes, Axes
    <3>4. Begins(w) <= PerStage
      BY <2>5, <3>3 DEF Begins, Specialists, Longest
    <3>5. Begins(w) \in Nat /\ PerStage \in Nat
      BY StageFacts
    <3>6. QED
      BY <1>2, <2>4, <3>1, <3>4, <3>5
  <2>6. CASE w # "chief"
    <3>1. Begins(w) = 0
      BY <2>6 DEF Begins
    <3>2. PerStage \in Nat
      BY StageFacts
    <3>3. QED
      BY <1>2, <2>4, <3>1, <3>2
  <2>7. QED
    BY <2>5, <2>6
<1>9. Clocks'
  BY <1>6, <1>7, <1>8 DEF Clocks, PerStage, PerTry
<1>10. QED
  BY <1>4, <1>9 DEF GenInv

LEMMA GenInit ==
    ASSUME GenerationAssumption, GenerationInit
    PROVE  GenInv
<1> USE StageNames
<1>1. specialized \in BOOLEAN /\ time = 0 /\ result = None /\ posts = 0 /\ received = 0
  BY DEF GenerationInit
<1>2. stage = [s \in Stages |-> IF s \in (IF specialized THEN Axes ELSE {"whole"}) THEN Ready(0) ELSE NotAsked]
  BY DEF GenerationInit
<1>3. 0 \in 0..SCHEMA_ATTEMPTS - 1 /\ 0 \in 0..ATTEMPTS - 1 /\ 0 * PerTry = 0 /\ 0 * ATTEMPTS = 0
      /\ PerStage \in Nat
  BY BudgetFacts DEF GenerationAssumption
<1>4. \A s \in Stages :
         /\ stage[s] \in StageRecord
         /\ stage[s].status \in {"ready", "idle"} /\ stage[s].try = 0 /\ stage[s].attempt = 0
         /\ stage[s].began = 0 /\ stage[s].latency = 0
  BY <1>2, <1>3 DEF StageRecord, Fields, Ready, NotAsked
<1>5. /\ specialized => \A s \in Stages : stage[s].status = IF s \in Axes THEN "ready" ELSE "idle"
      /\ ~specialized => \A s \in Stages : stage[s].status = IF s = "whole" THEN "ready" ELSE "idle"
  BY <1>2 DEF Ready, NotAsked
<1>6. GenTypes
  BY <1>1, <1>2, <1>4 DEF GenTypes
<1>7. Staged
  BY <1>1, <1>5 DEF Staged, Axes, First, Second
<1>8. Specialists = 0
  BY <1>4 DEF Specialists, Longest
<1>9. Clocks
  <2>1. \A s \in Stages : Begins(s) = 0
    BY <1>8 DEF Begins
  <2>2. \A s \in Stages : Timely(stage[s], Begins(s))
    BY <1>1, <1>3, <1>4, <2>1 DEF Timely, Active
  <2>3. \A s \in Stages : stage[s].status # "done"
    BY <1>4
  <2>4. Closes
    BY <1>1, <1>8, <2>3 DEF Closes, Axes
  <2>5. QED
    BY <1>1, <1>3, <2>2, <2>4 DEF Clocks
<1>10. Counts
  <2>1. \A s \in Stages : Paid(stage[s]) = 0 /\ Got(stage[s]) = 0
    BY <1>3, <1>4 DEF Paid, Got
  <2>2. QED
    BY <1>1, <1>4, <2>1 DEF Counts
<1>11. Conforming
  BY <1>4 DEF Conforming
<1>12. Chosen
  BY <1>1 DEF Chosen, Delivered
<1>13. QED
  BY <1>6, <1>7, <1>9, <1>10, <1>11, <1>12 DEF GenInv

LEMMA GenNext ==
    ASSUME GenerationAssumption, GenInv, [GenerationNext]_generationVars
    PROVE  GenInv'
<1>1. CASE \E s \in Stages : Post(s) \/ Refused(s) \/ Unusable(s) \/ Written(s)
  BY <1>1, PostKeeps, RefusedKeeps, UnusableKeeps, WrittenKeeps
<1>2. CASE Gather
  BY <1>2, GatherKeeps
<1>3. CASE Conclude
  BY <1>3, ConcludeKeeps
<1>4. CASE Tick
  BY <1>4, TickKeeps
<1>5. CASE UNCHANGED generationVars
  <2>1. UNCHANGED <<specialized, stage, time, result, posts, received>>
    BY <1>5 DEF generationVars
  <2>2. GenTypes' /\ Staged' /\ Counts'
    BY <2>1 DEF GenInv, GenTypes, Staged, Counts, Paid, Got
  <2>3. Clocks'
    BY <2>1 DEF GenInv, Clocks, Closes, Timely, Begins, Specialists
  <2>4. Conforming'
    BY <2>1 DEF GenInv, Conforming, Outputs, Conforms, ValidSelection, ValidDraft
  <2>5. Chosen'
    BY <2>1 DEF GenInv, Chosen, Delivered, ValidChoice, Ids, CombinedRun, Total, RunOf
  <2>6. QED
    BY <2>2, <2>3, <2>4, <2>5 DEF GenInv
<1>6. QED
  BY <1>1, <1>2, <1>3, <1>4, <1>5 DEF GenerationNext

(* The first places of the members of a sequence, and their rank. *)
Firsts(ids) == {i \in DOMAIN ids : \A j \in 1..i - 1 : ids[j] # ids[i]}
Rank(ids, i) == Cardinality({j \in Firsts(ids) : j <= i})

LEMMA FirstsAreFinite ==
    ASSUME NEW S, NEW ids \in Seq(S)
    PROVE  /\ Firsts(ids) \subseteq 1..Len(ids) /\ DOMAIN ids = 1..Len(ids) /\ Len(ids) \in Nat
           /\ IsFiniteSet(Firsts(ids)) /\ Cardinality(Firsts(ids)) \in Nat
           /\ \A i \in Firsts(ids) : IsFiniteSet({j \in Firsts(ids) : j <= i})
<1>1. DOMAIN ids = 1..Len(ids) /\ Len(ids) \in Nat
  OBVIOUS
<1>2. Firsts(ids) \subseteq 1..Len(ids)
  BY <1>1 DEF Firsts
<1>3. IsFiniteSet(1..Len(ids))
  BY <1>1, FS_Interval
<1>4. IsFiniteSet(Firsts(ids))
  BY <1>2, <1>3, FS_Subset
<1>5. \A i \in Firsts(ids) : IsFiniteSet({j \in Firsts(ids) : j <= i})
  <2> TAKE i \in Firsts(ids)
  <2>1. {j \in Firsts(ids) : j <= i} \in SUBSET Firsts(ids)
    OBVIOUS
  <2>2. QED
    BY <1>4, <2>1, FS_Subset
<1>6. QED
  BY <1>1, <1>2, <1>4, <1>5, FS_CardinalityType

(* Each first place has a rank of its own: 1, 2, ... up to their number.   *)
LEMMA RanksAreOnto ==
    ASSUME NEW S, NEW ids \in Seq(S), NEW k \in 1..Cardinality(Firsts(ids))
    PROVE  \E i \in Firsts(ids) : Rank(ids, i) = k
<1> DEFINE F == Firsts(ids)
           n == Cardinality(F)
           rank == [i \in F |-> Rank(ids, i)]
<1>1. F \subseteq Nat /\ IsFiniteSet(F) /\ n \in Nat
  BY FirstsAreFinite
<1>2. \A i \in F : Rank(ids, i) \in 1..n
  <2> TAKE i \in F
  <2> DEFINE low == {j \in F : j <= i}
  <2>1. IsFiniteSet(low) /\ low \in SUBSET F
    BY FirstsAreFinite
  <2>2. Cardinality(low) \in Nat /\ Cardinality(low) <= n
    BY <1>1, <2>1, FS_CardinalityType, FS_Subset
  <2>3. i \in low
    BY <1>1
  <2>4. Cardinality(low) # 0
    BY <2>1, <2>3, FS_EmptySet
  <2>5. Rank(ids, i) = Cardinality(low)
    BY DEF Rank
  <2> HIDE DEF low, n
  <2>6. QED
    BY <1>1, <2>2, <2>4, <2>5
<1>3. ASSUME NEW i \in F, NEW j \in F, i < j PROVE Rank(ids, i) # Rank(ids, j)
  <2> DEFINE low(x) == {y \in F : y <= x}
  <2>1. IsFiniteSet(low(j)) /\ low(i) \in SUBSET low(j)
    BY <1>1, <1>3, FirstsAreFinite
  <2>2. j \in low(j) /\ j \notin low(i)
    BY <1>1, <1>3
  <2>3. Cardinality(low(i)) # Cardinality(low(j))
    BY <2>1, <2>2, FS_Subset
  <2>4. QED
    BY <2>3 DEF Rank
<1>4. \A i \in F, j \in F : rank[i] = rank[j] => i = j
  <2>1. SUFFICES ASSUME NEW i \in F, NEW j \in F, i # j PROVE Rank(ids, i) # Rank(ids, j)
    OBVIOUS
  <2>2. i < j \/ j < i
    BY <1>1, <2>1
  <2>3. QED
    BY <1>3, <2>2
<1>5. rank \in Injection(F, 1..n)
  <2>1. rank \in [F -> 1..n]
    BY <1>2
  <2> HIDE DEF rank, F, n
  <2>2. QED
    BY <1>4, <2>1 DEF Injection, IsInjective
<1>6. IsFiniteSet(1..n) /\ Cardinality(1..n) = n
  BY <1>1, FS_Interval
<1>7. rank \in Surjection(F, 1..n)
  BY <1>5, <1>6, FS_Injection
<1>8. QED
  BY <1>7 DEF Surjection

(* A member of a sequence has a first place. *)
LEMMA FirstPlace ==
    ASSUME NEW S, NEW ids \in Seq(S), NEW j \in DOMAIN ids
    PROVE  \E i \in Firsts(ids) : ids[i] = ids[j]
<1> DEFINE R == OpToRel(<, Nat)
           T == {i \in DOMAIN ids : ids[i] = ids[j]}
<1>1. DOMAIN ids = 1..Len(ids) /\ Len(ids) \in Nat /\ T # {} /\ T \subseteq Nat
  BY FirstsAreFinite
<1>2. PICK i \in T : \A k \in T : ~ (<<k, i>> \in R)
  <2> HIDE DEF T, R
  <2>1. IsWellFoundedOn(R, Nat)
    BY NatLessThanWellFounded DEF R
  <2>2. QED
    BY <1>1, <2>1, WFMin
<1>3. \A k \in T : ~(k < i)
  BY <1>1, <1>2 DEF OpToRel
<1>4. \A k \in 1..i - 1 : k \in DOMAIN ids /\ k < i
  BY <1>1
<1>5. i \in Firsts(ids)
  BY <1>3, <1>4 DEF Firsts
<1>6. QED
  BY <1>5

(* The identifiers of a choice, each once, are the same identifiers. *)
LEMMA OnceFacts ==
    ASSUME NEW S, NEW ids \in Seq(S)
    PROVE  /\ DOMAIN Once(ids) = 1..Cardinality(Firsts(ids))
           /\ Len(Once(ids)) = Cardinality(Firsts(ids))
           /\ Range(Once(ids)) = Range(ids)
           /\ Cardinality(Range(Once(ids))) = Cardinality(Firsts(ids))
<1> DEFINE n == Cardinality(Firsts(ids))
           place(k) == CHOOSE i \in Firsts(ids) : Rank(ids, i) = k
           once == [k \in 1..n |-> ids[place(k)]]
<1>1. Once(ids) = once
  <2>1. n = Cardinality(Firsts(ids))
    OBVIOUS
  <2>2. Once(ids) = [k \in 1..Cardinality(Firsts(ids)) |-> ids[place(k)]]
    BY DEF Once, Firsts, Rank
  <2>3. QED
    BY <2>1, <2>2
<1>2. n \in Nat /\ Firsts(ids) \subseteq DOMAIN ids /\ DOMAIN ids = 1..Len(ids) /\ Len(ids) \in Nat
  BY FirstsAreFinite
<1>3. \A k \in 1..n : place(k) \in Firsts(ids) /\ Rank(ids, place(k)) = k
  BY RanksAreOnto
<1>4. \A i \in Firsts(ids) : \E k \in 1..n : place(k) = i
  <2>1. \A a \in 1..n, b \in 1..n : place(a) = place(b) => a = b
    BY <1>3
  <2> DEFINE places == [k \in 1..n |-> place(k)]
  <2>2. places \in [1..n -> Firsts(ids)] /\ IsFiniteSet(Firsts(ids))
    BY <1>3, FirstsAreFinite
  <2>3. \A a \in 1..n, b \in 1..n : places[a] = places[b] => a = b
    BY <2>1
  <2>4. IsFiniteSet(1..n) /\ Cardinality(1..n) = n
    BY <1>2, FS_Interval
  <2>5. places \in Surjection(1..n, Firsts(ids))
    <3> HIDE DEF places
    <3>1. places \in Injection(1..n, Firsts(ids))
      BY <2>2, <2>3 DEF Injection, IsInjective
    <3>2. QED
      BY <2>2, <2>4, <3>1, FS_Injection
  <2>6. \A i \in Firsts(ids) : \E k \in 1..n : places[k] = i
    <3> HIDE DEF places
    <3>1. QED
      BY <2>5 DEF Surjection
  <2>7. QED
    BY <2>6
<1>5. \A a \in 1..n, b \in 1..n : once[a] = once[b] => a = b
  <2> SUFFICES ASSUME NEW a \in 1..n, NEW b \in 1..n, ids[place(a)] = ids[place(b)]
               PROVE  a = b
    OBVIOUS
  <2>1. place(a) \in Firsts(ids) /\ place(b) \in Firsts(ids)
    BY <1>3
  <2> DEFINE pa == place(a)
             pb == place(b)
  <2>2. ~(pa < pb) /\ ~(pb < pa)
    <3> HIDE DEF pa, pb
    <3>1. pa \in 1..Len(ids) /\ pb \in 1..Len(ids) /\ ids[pa] = ids[pb]
      BY <1>2, <2>1 DEF pa, pb
    <3>2. \A j \in 1..pa - 1 : ids[j] # ids[pa]
      BY <2>1 DEF pa, Firsts
    <3>3. \A j \in 1..pb - 1 : ids[j] # ids[pb]
      BY <2>1 DEF pb, Firsts
    <3>4. QED
      BY <1>2, <3>1, <3>2, <3>3
  <2>3. pa = pb
    BY <1>2, <2>1, <2>2
  <2>4. QED
    BY <1>3, <2>3
<1>6. Range(once) = Range(ids)
  <2>1. Range(once) = {ids[place(k)] : k \in 1..n}
    BY DEF Range
  <2>2. ASSUME NEW k \in 1..n PROVE ids[place(k)] \in Range(ids)
    BY <1>2, <1>3 DEF Range
  <2>3. ASSUME NEW v \in Range(ids) PROVE \E k \in 1..n : v = ids[place(k)]
    <3>1. PICK j \in DOMAIN ids : ids[j] = v
      BY DEF Range
    <3>2. PICK i \in Firsts(ids) : ids[i] = v
      BY <3>1, FirstPlace
    <3>3. PICK k \in 1..n : place(k) = i
      BY <1>4
    <3>4. QED
      BY <3>2, <3>3
  <2>4. Range(once) \subseteq Range(ids)
    BY <2>1, <2>2
  <2>5. Range(ids) \subseteq Range(once)
    BY <2>1, <2>3
  <2>6. QED
    BY <2>4, <2>5
<1>7. Cardinality(Range(once)) = n
  <2>1. DOMAIN once = 1..n
    OBVIOUS
  <2>2. Range(once) = {once[k] : k \in 1..n}
    BY <2>1 DEF Range
  <2> HIDE DEF once
  <2>3. IsFiniteSet(1..n) /\ Cardinality(1..n) = n
    BY <1>2, FS_Interval
  <2>4. [k \in 1..n |-> once[k]] \in Bijection(1..n, Range(once))
    BY <1>5, <2>2 DEF Bijection, Injection, Surjection, IsInjective
  <2>5. QED
    BY <2>3, <2>4, FS_Bijection DEF ExistsBijection
<1>8. Len(once) = n
  BY <1>2
<1>9. QED
  BY <1>1, <1>6, <1>7, <1>8

(* An identifier the chief may name is one of an insight that was written. *)
Wrote(id, section) == id[2] = section /\ id[3] < stage[id[1]].output[section]

LEMMA IdsAreWritten ==
    ASSUME GenerationAssumption, GenInv, \A s \in Axes : stage[s].status = "done",
           NEW section \in {"mistakes", "strengths"}, NEW id \in Ids(section)
    PROVE  Wrote(id, section)
<1> USE StageNames
<1>1. PICK a \in DOMAIN AXES :
         \E i \in 0..stage[AXES[a]].output[section] - 1 : id = <<AXES[a], section, i>>
  BY DEF Ids
<1>2. PICK i \in 0..stage[AXES[a]].output[section] - 1 : id = <<AXES[a], section, i>>
  BY <1>1
<1> DEFINE s == AXES[a]
<1>3. s \in Axes /\ s \in Stages /\ s # "chief"
  BY DEF Axes, First, Second
<1>4. stage[s].output \in Drafts
  BY <1>3 DEF GenInv, Conforming, Outputs
<1>5. stage[s].output[section] \in Nat
  BY <1>4 DEF GenerationAssumption
<1>6. id[1] = s /\ id[2] = section /\ id[3] = i
  BY <1>2
<1>7. i < stage[s].output[section]
  BY <1>5
<1>8. QED
  BY <1>6, <1>7 DEF Wrote

LEMMA QuotesFollows ==
    ASSUME GenerationAssumption, GenInv
    PROVE  QuotesItsAuthors
<1> USE StageNames
<1> SUFFICES ASSUME Delivered, specialized
             PROVE  /\ \A s \in Stages \ {"whole"} : stage[s].status = "done"
                    /\ \A i \in DOMAIN result.review.mistakes : Wrote(result.review.mistakes[i], "mistakes")
                    /\ \A i \in DOMAIN result.review.strengths : Wrote(result.review.strengths[i], "strengths")
                    /\ Cardinality(Range(result.review.mistakes)) = Len(result.review.mistakes)
                    /\ Cardinality(Range(result.review.strengths)) = Len(result.review.strengths)
                    /\ {result.review.summary, result.review.focus} \subseteq Range(result.review.mistakes)
  BY DEF QuotesItsAuthors, Wrote
<1> DEFINE o == stage["chief"].output
           r == result.review
<1>1. /\ stage["chief"].status = "done" /\ ValidChoice(o)
      /\ r = [o EXCEPT !.mistakes = Once(@), !.strengths = Once(@)]
  BY DEF GenInv, Chosen
<1>2. \A s \in Stages \ {"whole"} : stage[s].status = "done"
  BY <1>1 DEF GenInv, Staged, Axes
<1>3. o \in Selections
  BY <1>1 DEF GenInv, Conforming, Outputs
<1>4. /\ o \in [summary : Id, mistakes : Seq(Id), strengths : Seq(Id), focus : Id]
  BY <1>3 DEF GenerationAssumption
<1> HIDE DEF o
<1>5. o.mistakes \in Seq(Id) /\ o.strengths \in Seq(Id)
  BY <1>4
<1>6. /\ r.mistakes = Once(o.mistakes) /\ r.strengths = Once(o.strengths)
      /\ r.summary = o.summary /\ r.focus = o.focus
  BY <1>1, <1>4
<1> HIDE DEF r
<1>7. /\ Range(r.mistakes) = Range(o.mistakes) /\ Range(r.strengths) = Range(o.strengths)
      /\ Cardinality(Range(r.mistakes)) = Len(r.mistakes)
      /\ Cardinality(Range(r.strengths)) = Len(r.strengths)
  BY <1>5, <1>6, OnceFacts
<1>8. /\ {o.summary, o.focus} \subseteq Range(o.mistakes)
      /\ Range(o.mistakes) \subseteq Ids("mistakes")
      /\ Range(o.strengths) \subseteq Ids("strengths")
  BY <1>1 DEF ValidChoice
<1>9. \A s \in Axes : stage[s].status = "done"
  BY <1>2 DEF Axes, First, Second
<1>10. \A i \in DOMAIN r.mistakes : Wrote(r.mistakes[i], "mistakes")
  <2>1. \A i \in DOMAIN r.mistakes : r.mistakes[i] \in Ids("mistakes")
    BY <1>7, <1>8 DEF Range
  <2>2. QED
    BY <1>9, <2>1, IdsAreWritten
<1>11. \A i \in DOMAIN r.strengths : Wrote(r.strengths[i], "strengths")
  <2>1. \A i \in DOMAIN r.strengths : r.strengths[i] \in Ids("strengths")
    BY <1>7, <1>8 DEF Range
  <2>2. QED
    BY <1>9, <2>1, IdsAreWritten
<1>12. {r.summary, r.focus} \subseteq Range(r.mistakes)
  BY <1>6, <1>7, <1>8
<1>13. QED
  BY <1>2, <1>7, <1>10, <1>11, <1>12 DEF r

LEMMA RunFollows ==
    ASSUME GenerationAssumption, GenInv
    PROVE  RunTellsTheCost
<1> USE StageNames
<1> DEFINE done == {s \in Stages : stage[s].status = "done"}
<1> SUFFICES ASSUME Delivered
             PROVE  /\ result.run.latency = time
                    /\ result.run.outputs = received
                    /\ result.run.retries = received - Cardinality(done)
  BY DEF RunTellsTheCost
<1>1. \A s \in Stages : stage[s].try \in Nat /\ stage[s].latency \in Nat
  BY StageFacts
<1>2. received = Got(stage[First]) + Got(stage[Second]) + Got(stage["chief"]) + Got(stage["whole"])
  BY DEF GenInv, Counts
<1>3. CASE specialized
  <2>1. /\ stage["chief"].status = "done" /\ result.run = CombinedRun
        /\ stage[First].status = "done" /\ stage[Second].status = "done" /\ stage["whole"].status = "idle"
    BY <1>3 DEF GenInv, Chosen, Staged, Axes
  <2>2. time = Specialists + stage["chief"].latency
    BY <2>1 DEF GenInv, Clocks, Closes, Begins
  <2>3. Max({stage[First].latency, stage[Second].latency}) = Specialists
    BY <1>1, SlowestOfTwo DEF Specialists
  <2>4. result.run.latency = time
    BY <2>1, <2>2, <2>3 DEF CombinedRun
  <2>5. /\ result.run.retries = stage[First].try + stage[Second].try + stage["chief"].try
        /\ result.run.outputs = (stage[First].try + 1) + (stage[Second].try + 1) + (stage["chief"].try + 1)
    BY <2>1 DEF CombinedRun, Total, RunOf
  <2>6. received = (stage[First].try + 1) + (stage[Second].try + 1) + (stage["chief"].try + 1) + 0
    BY <1>2, <2>1 DEF Got
  <2>7. Cardinality(done) = 3
    <3>1. done = ({First} \cup {Second}) \cup {"chief"}
      BY <2>1
    <3>2. IsFiniteSet({First}) /\ Cardinality({First}) = 1
      BY FS_Singleton
    <3>3. IsFiniteSet({First} \cup {Second}) /\ Cardinality({First} \cup {Second}) = 2
      BY <3>2, FS_AddElement DEF First, Second
    <3>4. "chief" \notin {First} \cup {Second}
      BY DEF First, Second
    <3>5. Cardinality(({First} \cup {Second}) \cup {"chief"}) = 3
      BY <3>3, <3>4, FS_AddElement
    <3>6. QED
      BY <3>1, <3>5
  <2>8. QED
    BY <1>1, <2>4, <2>5, <2>6, <2>7
<1>4. CASE ~specialized
  <2>1. /\ stage["whole"].status = "done" /\ result.run = RunOf("whole")
        /\ stage[First].status = "idle" /\ stage[Second].status = "idle" /\ stage["chief"].status = "idle"
    BY <1>4 DEF GenInv, Chosen, Staged, Axes
  <2>2. time = 0 + stage["whole"].latency
    BY <2>1 DEF GenInv, Clocks, Closes, Begins
  <2>3. /\ result.run.latency = stage["whole"].latency /\ result.run.retries = stage["whole"].try
        /\ result.run.outputs = stage["whole"].try + 1
    BY <2>1 DEF RunOf
  <2>4. received = 0 + 0 + 0 + (stage["whole"].try + 1)
    BY <1>2, <2>1 DEF Got
  <2>5. done = {"whole"}
    BY <2>1
  <2>6. Cardinality(done) = 1
    BY <2>5, FS_Singleton
  <2>7. QED
    BY <1>1, <2>2, <2>3, <2>4, <2>6
<1>5. QED
  BY <1>3, <1>4

LEMMA CostFollows ==
    ASSUME GenerationAssumption, GenInv
    PROVE  CostIsBounded
<1> USE StageNames
<1> DEFINE all == SCHEMA_ATTEMPTS * ATTEMPTS
<1>1. /\ all \in Nat /\ PerStage \in Nat /\ PerTry \in Nat /\ SCHEMA_ATTEMPTS \in Nat /\ ATTEMPTS \in Nat
      /\ specialized \in BOOLEAN /\ posts \in Nat /\ time \in Nat
  BY StageFacts DEF GenInv, GenTypes
<1>2. \A s \in Stages : Paid(stage[s]) \in Nat /\ Paid(stage[s]) <= all
  <2> TAKE s \in Stages
  <2>1. Paid(stage[s]) \in Nat
    BY StageFacts, CostTypes
  <2>2. QED
    BY <2>1, StageFacts DEF Paid
<1>3. posts <= Paid(stage[First]) + Paid(stage[Second]) + Paid(stage["chief"]) + Paid(stage["whole"])
  BY DEF GenInv, Counts
<1>4. time <= IF stage["chief"].status = "idle" THEN PerStage ELSE 2 * PerStage
  BY DEF GenInv, Clocks
<1>5. CASE specialized
  <2>1. Paid(stage["whole"]) = 0
    BY <1>5 DEF GenInv, Staged, Paid
  <2> HIDE DEF all
  <2>2. posts <= 3 * all
    BY <1>1, <1>2, <1>3, <2>1
  <2>3. time <= 2 * PerStage
    BY <1>1, <1>4
  <2>4. 3 * SCHEMA_ATTEMPTS * ATTEMPTS = 3 * all
    BY <1>1 DEF all
  <2>5. 2 * SCHEMA_ATTEMPTS * PerTry = 2 * PerStage
    BY <1>1 DEF PerStage
  <2>6. QED
    BY <1>5, <2>2, <2>3, <2>4, <2>5 DEF CostIsBounded, PerTry
<1>6. CASE ~specialized
  <2>1. /\ stage["chief"].status = "idle"
        /\ Paid(stage[First]) = 0 /\ Paid(stage[Second]) = 0 /\ Paid(stage["chief"]) = 0
    BY <1>6 DEF GenInv, Staged, Paid, Axes
  <2> HIDE DEF all
  <2>2. posts <= all
    BY <1>1, <1>2, <1>3, <2>1
  <2>3. time <= PerStage
    BY <1>4, <2>1
  <2>4. 1 * SCHEMA_ATTEMPTS * ATTEMPTS = all
    BY <1>1 DEF all
  <2>5. 1 * SCHEMA_ATTEMPTS * PerTry = PerStage
    BY <1>1 DEF PerStage
  <2>6. QED
    BY <1>6, <2>2, <2>3, <2>4, <2>5 DEF CostIsBounded, PerTry
<1>7. QED
  BY <1>1, <1>5, <1>6

(* The review written by the language model: it quotes its authors, its    *)
(* run tells the time and the outputs it took, and the posts and the time  *)
(* stay under the bound of the attempts (coach.py, llm_client.py).  For    *)
(* any answers of the model, any failures, delays and attempts.            *)
THEOREM GenerationIsTrueCorrect == GenerationAssumption /\ GenerationSpec => []GenerationIsTrue
<1> DEFINE Inv == GenerationAssumption /\ GenInv
<1>1. GenerationAssumption' = GenerationAssumption
  BY DEF GenerationAssumption, Id
<1>2. GenerationAssumption /\ GenerationInit => Inv
  BY GenInit
<1>3. Inv /\ [GenerationNext]_generationVars => Inv'
  BY <1>1, GenNext
<1>4. Inv => GenerationIsTrue
  BY QuotesFollows, RunFollows, CostFollows DEF GenerationIsTrue
<1>5. QED
  BY <1>2, <1>3, <1>4, PTL DEF GenerationSpec

-----------------------------------------------------------------------------
(* A timeline: a sequence of what is dated, of whatever fields.            *)
Dated(seq) == (\E X : seq \in Seq(X)) /\ \A i \in 1..Len(seq) : seq[i].at \in Nat

(* What a sequence becomes after t: nothing is added, or what is later.    *)
Later(seq, next, t) ==
    next = seq \/ \E x : next = Append(seq, x) /\ x.at \in Nat /\ x.at > t

LEMMA Appended ==
    ASSUME NEW seq, Dated(seq), NEW x
    PROVE  /\ \E X : seq \in Seq(X) /\ Append(seq, x) \in Seq(X)
           /\ Len(seq) \in Nat /\ DOMAIN seq = 1..Len(seq)
           /\ Len(Append(seq, x)) = Len(seq) + 1
           /\ DOMAIN Append(seq, x) = 1..Len(seq) + 1
           /\ \A i \in 1..Len(seq) : Append(seq, x)[i] = seq[i]
           /\ Append(seq, x)[Len(seq) + 1] = x
<1>1. PICK X : seq \in Seq(X)
  BY DEF Dated
<1>2. seq \in Seq(X \cup {x}) /\ x \in X \cup {x}
  BY <1>1, SeqMonotonic
<1>3. QED
  BY <1>2, AppendProperties, LenProperties

LEMMA DatedAppended ==
    ASSUME NEW seq, Dated(seq), NEW x, x.at \in Nat
    PROVE  Dated(Append(seq, x))
<1> DEFINE longer == Append(seq, x)
<1>1. /\ \E X : longer \in Seq(X)
      /\ Len(seq) \in Nat /\ Len(longer) = Len(seq) + 1
      /\ \A i \in 1..Len(seq) : longer[i] = seq[i]
      /\ longer[Len(seq) + 1] = x
  BY Appended
<1> HIDE DEF longer
<1>2. \A i \in 1..Len(seq) : seq[i].at \in Nat
  BY DEF Dated
<1>3. ASSUME NEW i \in 1..Len(longer) PROVE longer[i].at \in Nat
  <2>1. i \in 1..Len(seq) \/ i = Len(seq) + 1
    BY <1>1
  <2>2. QED
    BY <1>1, <1>2, <2>1
<1>4. Dated(longer)
  BY <1>1, <1>3 DEF Dated
<1>5. QED
  BY <1>4 DEF longer

(* The elements as old as t stay where they are.                           *)
LEMMA OldStay ==
    ASSUME NEW seq, NEW next, NEW t \in Int, Dated(seq), Later(seq, next, t)
    PROVE  /\ {i \in DOMAIN next : next[i].at <= t} = {i \in DOMAIN seq : seq[i].at <= t}
           /\ \A i \in DOMAIN seq : i \in DOMAIN next /\ next[i] = seq[i]
           /\ \A i \in DOMAIN next \ DOMAIN seq : next[i].at \in Nat /\ next[i].at > t
<1>1. CASE next = seq
  BY <1>1
<1>2. ASSUME NEW x, next = Append(seq, x), x.at \in Nat, x.at > t
      PROVE  /\ \A i \in DOMAIN seq : i \in DOMAIN next /\ next[i] = seq[i]
             /\ \A i \in DOMAIN next \ DOMAIN seq : next[i] = x
  BY <1>2, Appended
<1>3. CASE \E x : next = Append(seq, x) /\ x.at \in Nat /\ x.at > t
  <2>1. PICK x : next = Append(seq, x) /\ x.at \in Nat /\ x.at > t
    BY <1>3
  <2>2. /\ \A i \in DOMAIN seq : i \in DOMAIN next /\ next[i] = seq[i]
        /\ \A i \in DOMAIN next \ DOMAIN seq : next[i] = x
    BY <1>2, <2>1
  <2>3. ~(x.at <= t)
    BY <2>1
  <2>4. ASSUME NEW i PROVE (i \in DOMAIN next /\ next[i].at <= t) <=> (i \in DOMAIN seq /\ seq[i].at <= t)
    BY <2>2, <2>3
  <2>5. QED
    BY <2>1, <2>2, <2>4
<1>4. QED
  BY <1>1, <1>3 DEF Later

LEMMA CountStays ==
    ASSUME NEW seq, NEW next, NEW t \in Int, Dated(seq), Later(seq, next, t)
    PROVE  UpTo(next, t) = UpTo(seq, t) /\ UpTo(seq, t) \in 0..Len(seq)
<1>1. Len(seq) \in Nat /\ DOMAIN seq = 1..Len(seq)
  BY Appended
<1>2. IsFiniteSet(1..Len(seq)) /\ Cardinality(1..Len(seq)) = Len(seq)
  <2> DEFINE n == Len(seq)
  <2> SUFFICES IsFiniteSet(1..n) /\ Cardinality(1..n) = n
    OBVIOUS
  <2>1. n \in Nat
    BY <1>1
  <2> HIDE DEF n
  <2>2. Cardinality(1..n) = IF 1 > n THEN 0 ELSE n - 1 + 1
    BY <2>1, FS_Interval
  <2>3. QED
    BY <2>1, <2>2, FS_Interval
<1>3. UpTo(seq, t) \in Nat /\ UpTo(seq, t) <= Len(seq)
  <2>1. {i \in DOMAIN seq : seq[i].at <= t} \subseteq 1..Len(seq)
    BY <1>1
  <2>2. QED
    BY <1>2, <2>1, FS_Subset, FS_CardinalityType DEF UpTo
<1>4. UpTo(next, t) = UpTo(seq, t)
  BY OldStay DEF UpTo
<1>5. QED
  BY <1>1, <1>3, <1>4

LEMMA LaterThanEarlier ==
    ASSUME NEW seq, NEW next, NEW t \in Int, NEW u \in Int, u <= t, Later(seq, next, t)
    PROVE  Later(seq, next, u)
  BY DEF Later

LEMMA OldElementsStay ==
    ASSUME NEW seq, NEW next, NEW t \in Int, Dated(seq), Later(seq, next, t)
    PROVE  {e \in ToSet(next) : e.at <= t} = {e \in ToSet(seq) : e.at <= t}
<1>1. ASSUME NEW i \in DOMAIN next, next[i].at <= t
      PROVE  i \in DOMAIN seq /\ next[i] = seq[i]
  BY <1>1, OldStay
<1>2. \A i \in DOMAIN seq : i \in DOMAIN next /\ next[i] = seq[i]
  BY OldStay
<1>3. QED
  BY <1>1, <1>2 DEF ToSet

-----------------------------------------------------------------------------
(* What a later event cannot change of what is said of the instant t. *)

LEMMA SpawnStays ==
    ASSUME NEW t \in Nat, Dated(events), Later(events, events', t), NEW o
    PROVE  NextSpawn(o, t)' = NextSpawn(o, t)
<1>1. {e \in ToSet(events') : e.at <= t} = {e \in ToSet(events) : e.at <= t}
  BY OldElementsStay
<1>2. {k \in ObjectiveKills(o.name) : k <= t} =
        {e.at : e \in {e \in {e \in ToSet(events) : e.at <= t} :
                         e.type = "ELITE_MONSTER_KILL" /\ e.monster = o.name}}
  BY DEF ObjectiveKills, Happened
<1>3. {k \in ObjectiveKills(o.name) : k <= t}' =
        {e.at : e \in {e \in {e \in ToSet(events') : e.at <= t} :
                         e.type = "ELITE_MONSTER_KILL" /\ e.monster = o.name}}
  BY DEF ObjectiveKills, Happened
<1>4. {k \in ObjectiveKills(o.name) : k <= t}' = {k \in ObjectiveKills(o.name) : k <= t}
  BY <1>1, <1>2, <1>3
<1>5. QED
  BY <1>4 DEF NextSpawn

LEMMA ObjectiveStays ==
    ASSUME NEW t \in Nat, Dated(events), Later(events, events', t)
    PROVE  ObjectiveAt(t)' = ObjectiveAt(t)
<1>1. \A i \in DOMAIN OBJECTIVES : NextSpawn(OBJECTIVES[i], t)' = NextSpawn(OBJECTIVES[i], t)
  BY SpawnStays
<1>2. [i \in DOMAIN OBJECTIVES |-> NextSpawn(OBJECTIVES[i], t)]'
        = [i \in DOMAIN OBJECTIVES |-> NextSpawn(OBJECTIVES[i], t)]
  BY <1>1
<1>3. QED
  BY <1>2 DEF ObjectiveAt

LEMMA TurretsStay ==
    ASSUME NEW t \in Nat, Dated(events), Later(events, events', t)
    PROVE  DestroyedAt(t)' = DestroyedAt(t)
<1>1. {e \in ToSet(events') : e.at <= t} = {e \in ToSet(events) : e.at <= t}
  BY OldElementsStay
<1>2. {k \in Happened("BUILDING_KILL") : k.at <= t /\ k.tier # None} =
        {e \in {e \in ToSet(events) : e.at <= t} : e.type = "BUILDING_KILL" /\ e.tier # None}
  BY DEF Happened
<1>3. {k \in Happened("BUILDING_KILL") : k.at <= t /\ k.tier # None}' =
        {e \in {e \in ToSet(events') : e.at <= t} : e.type = "BUILDING_KILL" /\ e.tier # None}
  BY DEF Happened
<1>4. QED
  BY <1>1, <1>2, <1>3 DEF DestroyedAt

LEMMA AlliesStay ==
    ASSUME NEW t \in Nat, Dated(events), Later(events, events', t), game' = game, NEW place
    PROVE  AllyContext(t, place)' = AllyContext(t, place)
<1>1. DestroyedAt(t)' = DestroyedAt(t)
  BY TurretsStay
<1>2. OwnOuter(DestroyedAt(t))' = OwnOuter(DestroyedAt(t))
  BY <1>1 DEF OwnOuter
<1>3. QED
  BY <1>1, <1>2 DEF AllyContext

-----------------------------------------------------------------------------
(* What a later frame cannot change of it. *)

LEMMA MaxIn ==
    ASSUME NEW n \in Nat, NEW S \in SUBSET (0..n), S # {}
    PROVE  Max(S) \in S /\ \A h \in S : h <= Max(S)
<1> DEFINE T == {n - g : g \in S}
<1>1. T \subseteq Nat /\ T # {}
  <2>1. \A g \in S : n - g \in Nat
    OBVIOUS
  <2>2. PICK g \in S : TRUE
    OBVIOUS
  <2>3. n - g \in T
    OBVIOUS
  <2>4. QED
    BY <2>1, <2>3
<1>2. PICK x \in T : \A y \in T : ~ (<<y, x>> \in OpToRel(<, Nat))
  BY <1>1, NatLessThanWellFounded, WFMin
<1>3. \A y \in T : ~ (y < x)
  BY <1>1, <1>2 DEF OpToRel
<1>4. PICK g \in S : x = n - g
  OBVIOUS
<1>5. ASSUME NEW h \in S PROVE h <= g
  <2>1. n - h \in T
    OBVIOUS
  <2>2. ~(n - h < n - g)
    BY <1>3, <1>4, <2>1
  <2>3. g \in Nat /\ h \in Nat
    OBVIOUS
  <2>4. QED
    BY <2>2, <2>3
<1>6. \A h \in S : g >= h
  BY <1>5
<1>7. Max(S) \in S /\ \A h \in S : Max(S) >= h
  BY <1>6 DEF Max
<1>8. Max(S) \in 0..n
  BY <1>7
<1>9. \A h \in S : h <= Max(S)
  BY <1>7, <1>8
<1>10. QED
  BY <1>7, <1>9

LEMMA ClueStays ==
    ASSUME NEW t \in Nat, Dated(events), Later(events, events', t), game' = game, NEW zone
    PROVE  JungleSignals(t, zone)' = JungleSignals(t, zone)
<1> DEFINE clues == {i \in DOMAIN events : events[i].at <= t - 1 /\ IsPublicClue(events[i])}
           after == {i \in DOMAIN events' : events'[i].at <= t - 1 /\ IsPublicClue(events'[i])}
<1>1. Later(events, events', t - 1)
  BY LaterThanEarlier
<1>2. /\ {i \in DOMAIN events' : events'[i].at <= t - 1} = {i \in DOMAIN events : events[i].at <= t - 1}
      /\ \A i \in DOMAIN events : i \in DOMAIN events' /\ events'[i] = events[i]
  BY <1>1, OldStay
<1>3. after = clues
  <2>1. \A i \in DOMAIN events : events[i].at <= t - 1 => i \in DOMAIN events' /\ events'[i] = events[i]
    BY <1>2
  <2>2. \A i \in DOMAIN events' : events'[i].at <= t - 1 => i \in DOMAIN events /\ events'[i] = events[i]
    BY <1>2
  <2>3. QED
    BY <2>1, <2>2
<1>4. clues # {} => events'[Max(clues)] = events[Max(clues)]
  <2>1. Len(events) \in Nat /\ clues \subseteq 0..Len(events)
    BY Appended
  <2>2. clues # {} => Max(clues) \in clues
    BY <2>1, MaxIn
  <2>3. QED
    BY <1>2, <2>2
<1> HIDE DEF clues, after
<1>5. JungleSignals(t, zone) = IF ~game.lineup.jungler THEN None
        ELSE IF clues = {} THEN [age |-> t, last |-> None]
        ELSE [age |-> t - events[Max(clues)].at,
              last |-> [type |-> events[Max(clues)].type, zone |-> events[Max(clues)].place.zone,
                        same_side |-> SameSide(events[Max(clues)].place.zone, zone)]]
  BY DEF JungleSignals, clues
<1>6. JungleSignals(t, zone)' = IF ~game'.lineup.jungler THEN None
        ELSE IF after = {} THEN [age |-> t, last |-> None]
        ELSE [age |-> t - events'[Max(after)].at,
              last |-> [type |-> events'[Max(after)].type, zone |-> events'[Max(after)].place.zone,
                        same_side |-> SameSide(events'[Max(after)].place.zone, zone)]]
  BY DEF JungleSignals, after
<1>7. QED
  BY <1>3, <1>4, <1>5, <1>6

LEMMA FiledFacts ==
    ASSUME NEW at \in Nat
    PROVE  /\ Filed(at) \in Nat /\ Filed(at) >= at \div MINUTE
           /\ at % MINUTE = 0 => Filed(at) = at \div MINUTE
           /\ Filed(0) = 0
  BY DEF Filed, MINUTE

(* The frames of a game begin with it. *)
Filmed == Dated(frames) /\ Len(frames) >= 1 /\ frames[1].at = 0

(* Nothing is filed under the minutes up to m from now on. *)
FiledLater(m) ==
    frames' = frames \/ \E x : frames' = Append(frames, x) /\ x.at \in Nat /\ Filed(x.at) > m

LEMMA PurseStays ==
    ASSUME NEW t \in Nat, Filmed, Later(frames, frames', t)
    PROVE  FrameBefore(t)' = FrameBefore(t)
<1>1. UpTo(frames', t) = UpTo(frames, t) /\ UpTo(frames, t) \in 0..Len(frames)
  BY CountStays DEF Filmed
<1>2. Len(frames) \in Nat /\ DOMAIN frames = 1..Len(frames)
  BY Appended DEF Filmed
<1>3. UpTo(frames, t) # 0
  <2> DEFINE old == {i \in DOMAIN frames : frames[i].at <= t}
  <2>1. 1 \in old
    BY <1>2 DEF Filmed
  <2>2. IsFiniteSet(old)
    <3>1. old \subseteq 1..Len(frames)
      BY <1>2
    <3>2. IsFiniteSet(1..Len(frames))
      BY <1>2, FS_Interval
    <3>3. QED
      BY <3>1, <3>2, FS_Subset
  <2>3. Cardinality(old) # 0
    BY <2>1, <2>2, FS_EmptySet
  <2>4. QED
    BY <2>3 DEF UpTo
<1>4. UpTo(frames, t) \in DOMAIN frames
  BY <1>1, <1>2, <1>3
<1>5. \A i \in DOMAIN frames : frames'[i] = frames[i]
  BY OldStay DEF Filmed
<1>6. QED
  BY <1>1, <1>4, <1>5 DEF FrameBefore

LEMMA MinutesStay ==
    ASSUME NEW m \in Nat, Filmed, FiledLater(m)
    PROVE  /\ {k \in Minutes : k <= m}' = {k \in Minutes : k <= m}
           /\ {k \in Minutes : k <= m} \in SUBSET (0..m)
           /\ 0 \in Minutes /\ Minutes \subseteq Nat /\ Minutes' \subseteq Nat
           /\ \A k \in Minutes : k <= m => ByMinute(k)' = ByMinute(k)
<1>1. Len(frames) \in Nat /\ DOMAIN frames = 1..Len(frames)
  BY Appended DEF Filmed
<1>2. \A i \in DOMAIN frames : frames[i].at \in Nat /\ Filed(frames[i].at) \in Nat
  BY <1>1, FiledFacts DEF Filmed, Dated
<1>3. Minutes \subseteq Nat
  BY <1>2 DEF Minutes
<1>4. 0 \in Minutes
  <2>1. 1 \in DOMAIN frames /\ Filed(frames[1].at) = 0
    BY <1>1, FiledFacts DEF Filmed
  <2>2. QED
    BY <2>1 DEF Minutes
<1>5. /\ \A i \in DOMAIN frames : i \in DOMAIN frames' /\ frames'[i] = frames[i]
      /\ \A i \in DOMAIN frames' \ DOMAIN frames : Filed(frames'[i].at) \in Nat /\ Filed(frames'[i].at) > m
  <2>1. CASE frames' = frames
    BY <2>1
  <2>2. ASSUME NEW x, frames' = Append(frames, x), x.at \in Nat, Filed(x.at) > m
        PROVE  /\ \A i \in DOMAIN frames : i \in DOMAIN frames' /\ frames'[i] = frames[i]
               /\ \A i \in DOMAIN frames' \ DOMAIN frames : frames'[i] = x
    BY <2>2, Appended DEF Filmed
  <2>3. ASSUME NEW x, frames' = Append(frames, x), x.at \in Nat, Filed(x.at) > m
        PROVE  Filed(x.at) \in Nat
    BY <2>3, FiledFacts
  <2>4. QED
    BY <2>1, <2>2, <2>3 DEF FiledLater
<1>6. Minutes' \subseteq Nat
  <2>1. \A i \in DOMAIN frames' : Filed(frames'[i].at) \in Nat
    BY <1>2, <1>5
  <2>2. QED
    BY <2>1 DEF Minutes, Filed
<1>7. ASSUME NEW k, k \in Nat, k <= m
      PROVE  {i \in DOMAIN frames : Filed(frames[i].at) = k}' = {i \in DOMAIN frames : Filed(frames[i].at) = k}
  <2>1. \A i \in DOMAIN frames' \ DOMAIN frames : Filed(frames'[i].at) # k
    BY <1>5, <1>7
  <2>2. QED
    BY <1>5, <2>1 DEF Filed
<1>8. {k \in Minutes : k <= m}' = {k \in Minutes : k <= m}
  <2>1. ASSUME NEW k \in Minutes, k <= m PROVE k \in Minutes'
    <3>1. PICK i \in DOMAIN frames : k = Filed(frames[i].at)
      BY DEF Minutes
    <3>2. QED
      BY <1>5, <3>1 DEF Minutes, Filed
  <2>2. ASSUME NEW k \in Minutes', k <= m PROVE k \in Minutes
    <3>1. PICK i \in DOMAIN frames' : k = Filed(frames'[i].at)
      BY DEF Minutes, Filed
    <3>2. ~(Filed(frames'[i].at) > m) \/ ~(Filed(frames'[i].at) \in Nat)
      BY <2>2, <3>1
    <3>3. i \in DOMAIN frames
      BY <1>5, <3>2
    <3>4. QED
      BY <1>5, <3>1, <3>3 DEF Minutes
  <2>3. QED
    BY <2>1, <2>2
<1>9. ASSUME NEW k \in Minutes, k <= m PROVE ByMinute(k)' = ByMinute(k)
  <2> DEFINE S == {i \in DOMAIN frames : Filed(frames[i].at) = k}
  <2>1. S' = S
    BY <1>3, <1>7, <1>9
  <2>2. Max(S) \in S
    <3>1. S # {}
      BY DEF Minutes
    <3>2. S \in SUBSET (0..Len(frames))
      BY <1>1
    <3>3. QED
      BY <1>1, <3>1, <3>2, MaxIn
  <2>3. Max(S)' = Max(S)
    BY <2>1
  <2>4. frames'[Max(S)] = frames[Max(S)]
    BY <1>5, <2>2
  <2>5. QED
    BY <2>3, <2>4 DEF ByMinute
<1>10. {k \in Minutes : k <= m} \in SUBSET (0..m)
  <2>1. ASSUME NEW k \in Minutes, k <= m PROVE k \in 0..m
    <3>1. k \in Nat
      BY <1>3
    <3>2. QED
      BY <2>1, <3>1
  <2>2. QED
    BY <2>1
<1>11. QED
  BY <1>3, <1>4, <1>8, <1>9, <1>10, <1>6

LEMMA GoldStays ==
    ASSUME NEW m \in Nat, Filmed, FiledLater(m), game' = game
    PROVE  GoldStateAt(m)' = GoldStateAt(m)
<1> DEFINE S == {k \in Minutes : k <= m}
<1>1. S' = S /\ S \in SUBSET (0..m) /\ 0 \in S
  BY MinutesStay
<1>2. Max(S) \in S
  BY <1>1, MaxIn
<1>3. Max(S)' = Max(S) /\ ByMinute(Max(S))' = ByMinute(Max(S))
  <2> DEFINE last == Max(S)
  <2>1. ByMinute(last)' = ByMinute(last)
    <3>1. \A k \in S : ByMinute(k)' = ByMinute(k)
      BY MinutesStay
    <3>2. Max(S') = Max(S)
      BY <1>1
    <3>3. QED
      BY <1>2, <3>1, <3>2 DEF ByMinute
  <2>2. QED
    BY <1>1, <2>1
<1>4. QED
  BY <1>3 DEF GoldStateAt

LEMMA SupportStays ==
    ASSUME NEW t \in Nat, NEW place, Filmed, FiledLater(t \div MINUTE), game' = game
    PROVE  SupportContext(t, place)' = SupportContext(t, place)
<1> DEFINE S == {k \in Minutes : k * MINUTE <= t}
           U == {k \in S : ByMinute(k).support.zone = place.zone}
<1>1. t \div MINUTE \in Nat /\ \A k \in Nat : k * MINUTE <= t <=> k <= t \div MINUTE
  BY DEF MINUTE
<1> DEFINE m == t \div MINUTE
           P == {k \in Minutes : k <= m}
<1>2. P' = P /\ P \in SUBSET (0..m) /\ 0 \in P /\ \A k \in P : ByMinute(k)' = ByMinute(k)
  BY <1>1, MinutesStay
<1>3. S = P /\ S' = P'
  BY <1>1, MinutesStay
<1>4. Max(S) \in S
  BY <1>1, <1>2, <1>3, MaxIn
<1>5. S' = S /\ U' = U
  BY <1>2, <1>3
<1>6. ByMinute(Max(S))' = ByMinute(Max(S))
  <2>1. \A k \in S : ByMinute(k)' = ByMinute(k)
    BY <1>2, <1>3
  <2>2. Max(S') = Max(S)
    BY <1>5
  <2> HIDE DEF S, P, m
  <2>3. QED
    BY <1>4, <2>1, <2>2 DEF ByMinute
<1>7. QED
  BY <1>5, <1>6 DEF SupportContext

-----------------------------------------------------------------------------
(* The entry of a death. *)

LEMMA KnownStays ==
    ASSUME NEW e, e.at \in Nat, Dated(events), Filmed, game' = game,
           Later(events, events', e.at), Later(frames, frames', e.at)
    PROVE  /\ DOMAIN Known(e)' = DOMAIN Known(e)
           /\ \A field \in DOMAIN Known(e) :
                field \notin {"gold", "support"} => Known(e)'[field] = Known(e)[field]
           /\ FiledLater(e.at \div MINUTE) => Known(e)' = Known(e)
<1>1. ObjectiveAt(e.at)' = ObjectiveAt(e.at)
  BY ObjectiveStays
<1>2. JungleSignals(e.at, e.place.zone)' = JungleSignals(e.at, e.place.zone)
  BY ClueStays
<1>3. AllyContext(e.at, e.place)' = AllyContext(e.at, e.place)
  BY AlliesStay
<1>4. FrameBefore(e.at)' = FrameBefore(e.at)
  BY PurseStays
<1>5. ASSUME FiledLater(e.at \div MINUTE)
      PROVE  /\ GoldStateAt(e.at \div MINUTE)' = GoldStateAt(e.at \div MINUTE)
             /\ SupportContext(e.at, e.place)' = SupportContext(e.at, e.place)
  <2>1. e.at \div MINUTE \in Nat
    BY DEF MINUTE
  <2>2. QED
    BY <1>5, <2>1, GoldStays, SupportStays
<1>6. /\ DOMAIN Known(e)' = {"solo", "ganked", "gold", "purse", "objective", "clue", "ally", "support"}
      /\ DOMAIN Known(e) = {"solo", "ganked", "gold", "purse", "objective", "clue", "ally", "support"}
  BY DEF Known
<1>7. /\ Known(e)'.solo = Known(e).solo /\ Known(e)'.ganked = Known(e).ganked
      /\ Known(e)'.purse = Known(e).purse /\ Known(e)'.objective = Known(e).objective
      /\ Known(e)'.clue = Known(e).clue /\ Known(e)'.ally = Known(e).ally
  BY <1>1, <1>2, <1>3, <1>4 DEF Known
<1>8. ASSUME FiledLater(e.at \div MINUTE) PROVE Known(e)' = Known(e)
  <2>1. Known(e).ganked' = Known(e).ganked /\ Known(e).purse' = Known(e).purse
    BY <1>4 DEF Known
  <2>2. QED
    BY <1>1, <1>2, <1>3, <1>4, <1>5, <1>8 DEF Known
<1>9. QED
  BY <1>6, <1>7, <1>8

-----------------------------------------------------------------------------
(* What is recorded is dated, and until the game is over the entries of    *)
(* the deaths are still what they were.                                    *)

Recorded ==
    /\ JournalAssumption /\ game \in GamesPlayed
    /\ now \in Nat
    /\ Dated(events) /\ Filmed

Remembered ==
    \A entry \in told :
       /\ entry.death.at \in Nat
       /\ ~over => entry.death.at < now /\ Known(entry.death) = entry.known

JournalInv == Recorded /\ Remembered /\ (over => NoHindsight)

LEMMA JournalInvInit == JournalAssumption /\ JournalInit => JournalInv
<1> SUFFICES ASSUME JournalAssumption, JournalInit PROVE JournalInv
  OBVIOUS
<1>1. PICK c \in game.frames : frames = <<[c EXCEPT !.at = 0]>>
  BY DEF JournalInit
<1> DEFINE f == [c EXCEPT !.at = 0]
<1>2. f.at = 0
  BY DEF JournalAssumption, JournalInit
<1> HIDE DEF f
<1>3. frames \in Seq({f}) /\ Len(frames) = 1 /\ frames[1] = f
  BY <1>1 DEF f
<1>4. Filmed
  <2>1. \A i \in 1..Len(frames) : frames[i].at \in Nat
    <3>1. \A i \in 1..Len(frames) : i = 1
      BY <1>3
    <3>2. QED
      BY <1>2, <1>3, <3>1
  <2>2. QED
    BY <1>2, <1>3, <2>1 DEF Filmed, Dated
<1>5. Dated(events)
  BY EmptySeq DEF JournalInit, Dated
<1>6. QED
  BY <1>4, <1>5 DEF JournalInit, JournalInv, Recorded, Remembered

LEMMA FramesRecorded ==
    ASSUME Recorded, NEW c \in game.frames, NEW t \in Nat, frames' = Append(frames, Frame(c, t))
    PROVE  Frame(c, t).at = t /\ Filmed' /\ Last(frames') = Frame(c, t)
<1>1. Frame(c, t).at = t
  BY DEF Recorded, JournalAssumption, Frame
<1> DEFINE x == Frame(c, t)
<1>2. Dated(frames')
  BY <1>1, DatedAppended DEF Recorded, Filmed
<1>3. /\ Len(frames) \in Nat /\ Len(frames') = Len(frames) + 1
      /\ \A i \in 1..Len(frames) : frames'[i] = frames[i]
      /\ frames'[Len(frames) + 1] = x
  BY Appended DEF Recorded, Filmed
<1> HIDE DEF x
<1>4. frames'[1] = frames[1]
  BY <1>3 DEF Recorded, Filmed
<1>5. Len(frames') >= 1
  BY <1>3
<1>6. Last(frames') = x
  BY <1>3 DEF Last
<1>7. QED
  BY <1>1, <1>2, <1>4, <1>5, <1>6 DEF Filmed, Dated, Recorded, x

LEMMA PassRemembers ==
    ASSUME JournalInv, Pass
    PROVE  JournalInv'
<1>1. /\ now' = now + 1 /\ ~over /\ over' = over /\ game' = game /\ events' = events
      /\ now \in Nat /\ now' \in Nat
  BY DEF Pass, JournalInv, Recorded
<1>2. Filmed' /\ \A t \in Nat : t <= now => Later(frames, frames', t) /\ FiledLater(t \div MINUTE)
  <2>1. CASE now' % MINUTE = 0
    <3>1. PICK c \in game.frames : frames' = Append(frames, Frame(c, now'))
      BY <2>1 DEF Pass
    <3>2. Frame(c, now').at = now' /\ Filmed'
      BY <1>1, <3>1, FramesRecorded DEF JournalInv
    <3>3. Filed(now') = now' \div MINUTE
      BY <1>1, <2>1, FiledFacts
    <3>4. ASSUME NEW t \in Nat, t <= now
          PROVE  now' > t /\ Filed(now') > t \div MINUTE
      BY <1>1, <2>1, <3>3, <3>4 DEF MINUTE
    <3>5. QED
      BY <1>1, <3>1, <3>2, <3>4 DEF Later, FiledLater
  <2>2. CASE now' % MINUTE # 0
    <3>1. frames' = frames
      BY <2>2 DEF Pass
    <3>2. QED
      BY <3>1 DEF Later, FiledLater, Filmed, Dated, JournalInv, Recorded
  <2>3. QED
    BY <2>1, <2>2
<1>3. Recorded'
  BY <1>1, <1>2 DEF Recorded, JournalInv, JournalAssumption, Dated
<1>4. ASSUME NEW e, e.at \in Nat, e.at <= now
      PROVE  Known(e)' = Known(e)
  <2>1. Later(events, events', e.at)
    BY <1>1 DEF Later
  <2>2. QED
    BY <1>1, <1>2, <1>4, <2>1, KnownStays DEF JournalInv, Recorded
<1>5. ASSUME NEW entry \in told'
      PROVE  entry.death.at \in Nat /\ entry.death.at <= now /\ Known(entry.death) = entry.known
  <2>1. CASE entry \in told
    BY <1>1, <2>1 DEF JournalInv, Remembered
  <2>2. CASE entry \notin told
    <3>1. PICK e \in ToSet(events) : e.at = now /\ entry = [death |-> e, known |-> Known(e)]
      BY <2>2 DEF Pass, Tell
    <3>2. entry.death = e /\ entry.known = Known(e)
      BY <3>1
    <3>3. QED
      BY <1>1, <3>1, <3>2
  <2>3. QED
    BY <2>1, <2>2
<1>6. Remembered'
  BY <1>1, <1>4, <1>5 DEF Remembered
<1>7. QED
  BY <1>1, <1>3, <1>6 DEF JournalInv

LEMMA HappenRemembers ==
    ASSUME JournalInv, Happen
    PROVE  JournalInv'
<1>1. /\ ~over /\ over' = over /\ game' = game /\ frames' = frames /\ now' = now /\ told' = told
      /\ now \in Nat
  BY DEF Happen, JournalInv, Recorded
<1>2. PICK e \in game.events : events' = Append(events, [e EXCEPT !.at = now])
  BY DEF Happen
<1> DEFINE x == [e EXCEPT !.at = now]
<1>3. x.at = now
  BY DEF JournalInv, Recorded, JournalAssumption
<1> HIDE DEF x
<1>4. events' = Append(events, x)
  BY <1>2 DEF x
<1>5. Dated(events)'
  <2>1. Dated(events')
    BY <1>1, <1>3, <1>4, DatedAppended DEF JournalInv, Recorded
  <2>2. QED
    BY <2>1 DEF Dated
<1>6. Recorded'
  BY <1>1, <1>5 DEF Recorded, JournalInv, JournalAssumption, Filmed, Dated
<1>7. ASSUME NEW entry \in told
      PROVE  Known(entry.death)' = Known(entry.death)
  <2>1. entry.death.at \in Nat /\ entry.death.at < now
    BY <1>1 DEF JournalInv, Remembered
  <2>2. Later(events, events', entry.death.at)
    BY <1>1, <1>3, <1>4, <2>1 DEF Later
  <2>3. Later(frames, frames', entry.death.at) /\ FiledLater(entry.death.at \div MINUTE)
    BY <1>1 DEF Later, FiledLater
  <2>4. QED
    BY <1>1, <2>1, <2>2, <2>3, KnownStays DEF JournalInv, Recorded
<1>8. Remembered'
  BY <1>1, <1>7 DEF Remembered, JournalInv
<1>9. QED
  BY <1>1, <1>6, <1>8 DEF JournalInv

LEMMA FinishRemembers ==
    ASSUME JournalInv, Finish
    PROVE  JournalInv'
<1>1. /\ ~over /\ over' /\ game' = game /\ events' = events /\ now' = now /\ told' = told
      /\ now \in Nat
  BY DEF Finish, JournalInv, Recorded
<1>2. frames' = frames \/ \E c \in game.frames : frames' = Append(frames, Frame(c, now))
  BY DEF Finish
<1>3. Filmed' /\ (frames' = frames \/ \E x : frames' = Append(frames, x) /\ x.at = now /\ Last(frames') = x)
  <2>1. CASE frames' = frames
    BY <2>1 DEF Filmed, Dated, JournalInv, Recorded
  <2>2. ASSUME NEW c \in game.frames, frames' = Append(frames, Frame(c, now))
        PROVE  Filmed' /\ Frame(c, now).at = now /\ Last(frames') = Frame(c, now)
    BY <1>1, <2>2, FramesRecorded DEF JournalInv
  <2>3. QED
    BY <1>2, <2>1, <2>2
<1>4. Recorded'
  BY <1>1, <1>3 DEF Recorded, JournalInv, JournalAssumption, Dated
<1>5. ASSUME NEW entry \in told, NEW field \in DOMAIN Known(entry.death)',
             Known(entry.death)'[field] # entry.known[field]
      PROVE  field \in {"gold", "support"} /\ FiledLate(entry.death)'
  <2> DEFINE e == entry.death
  <2>1. e.at \in Nat /\ e.at < now /\ Known(e) = entry.known
    BY <1>1 DEF JournalInv, Remembered
  <2> HIDE DEF e
  <2>2. Later(events, events', e.at) /\ Later(frames, frames', e.at)
    BY <1>1, <1>3, <2>1 DEF Later
  <2>3. /\ DOMAIN Known(e)' = DOMAIN Known(e)
        /\ \A f \in DOMAIN Known(e) : f \notin {"gold", "support"} => Known(e)'[f] = Known(e)[f]
        /\ FiledLater(e.at \div MINUTE) => Known(e)' = Known(e)
    BY <1>1, <2>1, <2>2, KnownStays DEF JournalInv, Recorded
  <2>4. ~FiledLater(e.at \div MINUTE) /\ field \in {"gold", "support"}
    BY <1>5, <2>1, <2>3 DEF e
  <2>5. PICK x : frames' = Append(frames, x) /\ x.at = now /\ Last(frames') = x
    BY <1>3, <2>4 DEF FiledLater
  <2>6. ~(Filed(now) > e.at \div MINUTE)
    BY <1>1, <2>4, <2>5 DEF FiledLater
  <2>7. Filed(now) = e.at \div MINUTE
    <3>1. Filed(now) \in Nat /\ Filed(now) >= now \div MINUTE
      BY <1>1, FiledFacts
    <3>2. now \div MINUTE >= e.at \div MINUTE
      BY <1>1, <2>1 DEF MINUTE
    <3>3. now \div MINUTE \in Nat /\ e.at \div MINUTE \in Nat
      BY <1>1, <2>1 DEF MINUTE
    <3>4. QED
      BY <2>6, <3>1, <3>2, <3>3
  <2>8. Last(frames').at > e.at
    BY <1>1, <2>1, <2>5
  <2>9. QED
    BY <1>1, <2>4, <2>5, <2>7, <2>8 DEF FiledLate, Filed, e
<1>6. NoHindsight'
  BY <1>1, <1>5 DEF NoHindsight
<1>7. Remembered'
  BY <1>1 DEF Remembered, JournalInv
<1>8. QED
  BY <1>4, <1>6, <1>7 DEF JournalInv

LEMMA StutterRemembers ==
    ASSUME JournalInv, UNCHANGED journalVars
    PROVE  JournalInv'
<1>1. /\ game' = game /\ now' = now /\ frames' = frames /\ events' = events
      /\ over' = over /\ told' = told
  BY DEF journalVars
<1>2. Recorded'
  BY <1>1 DEF JournalInv, Recorded, JournalAssumption, Dated, Filmed
<1>3. ASSUME NEW entry \in told
      PROVE  Known(entry.death)' = Known(entry.death)
  <2>1. /\ entry.death.at \in Nat
        /\ Later(events, events', entry.death.at) /\ Later(frames, frames', entry.death.at)
        /\ FiledLater(entry.death.at \div MINUTE)
    BY <1>1 DEF JournalInv, Remembered, Later, FiledLater
  <2>2. QED
    BY <1>1, <2>1, KnownStays DEF JournalInv, Recorded
<1>4. \A entry \in told : FiledLate(entry.death)' <=> FiledLate(entry.death)
  BY <1>1 DEF FiledLate, Last, Filed
<1>5. Remembered'
  BY <1>1, <1>3 DEF Remembered, JournalInv
<1>6. NoHindsight => NoHindsight'
  BY <1>1, <1>3, <1>4 DEF NoHindsight
<1>7. QED
  BY <1>1, <1>2, <1>5, <1>6 DEF JournalInv

(* No hindsight, for any games, events and lengths: what the entry of a    *)
(* death says the player knew is what could be said as its instant ended,  *)
(* but for the gold state and the support when the frame that ends the     *)
(* game is filed under the minute of the death (game_journal.py).          *)
THEOREM NoHindsightCorrect == JournalAssumption /\ JournalSpec => []NoHindsight
<1>1. JournalAssumption /\ JournalInit => JournalInv
  BY JournalInvInit
<1>2. JournalInv /\ [JournalNext]_journalVars => JournalInv'
  BY PassRemembers, HappenRemembers, FinishRemembers, StutterRemembers DEF JournalNext
<1>3. JournalInv => NoHindsight
  <2>1. ASSUME JournalInv, ~over PROVE NoHindsight
    BY <2>1 DEF JournalInv, Remembered, NoHindsight
  <2>2. QED
    BY <2>1 DEF JournalInv
<1>4. QED
  BY <1>1, <1>2, <1>3, PTL DEF JournalSpec

-----------------------------------------------------------------------------
(* Folds and extremes over finite sets, as in ReviewsProofs. *)

(* Induction over the subsets of a finite set, stated with a set of the    *)
(* subsets for which the goal holds.                                       *)
LEMMA SubsetInduction ==
    ASSUME NEW S, IsFiniteSet(S), NEW Good,
           \A T \in SUBSET S : (\A U \in SUBSET T : U # T => U \in Good) => T \in Good
    PROVE  \A T \in SUBSET S : T \in Good
<1>1. SUFFICES ASSUME \E T \in SUBSET S : T \notin Good PROVE FALSE
  OBVIOUS
<1>. DEFINE Bad == {T \in SUBSET S : T \notin Good}
            R == StrictSubsetOrdering(S)
<1>2. IsWellFoundedOn(R, SUBSET S)
  BY FS_StrictSubsetOrderingWellFounded, FS_FiniteSubsetsOfFinite
<1>3. Bad # {} /\ Bad \subseteq SUBSET S
  BY <1>1
<1>4. \E T \in Bad : \A U \in Bad : <<U, T>> \notin R
  <2>. HIDE DEF R, Bad
  <2>. QED
    BY <1>2, <1>3, WFMin
<1>4a. PICK T \in Bad : \A U \in Bad : <<U, T>> \notin R
  BY <1>4
<1>4b. T \in SUBSET S /\ T \notin Good
  OBVIOUS
<1>5. \A U \in SUBSET T : U # T => <<U, T>> \in R
  BY DEF R, StrictSubsetOrdering
<1>6. ASSUME NEW U \in SUBSET T, U # T, U \notin Good PROVE FALSE
  <2>1. <<U, T>> \in R
    BY <1>5, <1>6
  <2>2. U \in Bad
    BY <1>4b, <1>6
  <2>. QED
    BY <1>4a, <2>1, <2>2
<1>. QED
  BY <1>4b, <1>6

(* A fold over the subsets of a finite set has a value: each value comes   *)
(* from the one of the set less the element chosen in it.                  *)
FoldsBy(F, T, V, base, op, pick) ==
    /\ F \in [SUBSET T -> V]
    /\ \A s \in SUBSET T : F[s] = IF s = {} THEN base ELSE op[<<pick[s], F[s \ {pick[s]}]>>]

(* Two folds agree on the subsets they share. *)
LEMMA FoldIsOne ==
    ASSUME NEW S, IsFiniteSet(S), NEW V, NEW base, NEW op, NEW pick,
           \A s \in SUBSET S : s # {} => pick[s] \in s,
           NEW T \in SUBSET S, NEW U \in SUBSET S, NEW F, NEW G,
           FoldsBy(F, T, V, base, op, pick), FoldsBy(G, U, V, base, op, pick)
    PROVE  \A s \in SUBSET (T \cap U) : F[s] = G[s]
<1>. DEFINE Good == {s \in SUBSET S : s \subseteq T /\ s \subseteq U => F[s] = G[s]}
<1>1. ASSUME NEW s \in SUBSET S, \A r \in SUBSET s : r # s => r \in Good PROVE s \in Good
  <2>1. CASE s = {}
    <3>1. s \in SUBSET T /\ s \in SUBSET U
      BY <2>1
    <3>2. F[s] = base /\ G[s] = base
      BY <2>1, <3>1 DEF FoldsBy
    <3>. QED
      BY <3>2
  <2>2. CASE s # {} /\ s \subseteq T /\ s \subseteq U
    <3>1. pick[s] \in s
      BY <2>2
    <3>2. s \ {pick[s]} \in Good
      BY <1>1, <3>1
    <3>3. F[s] = op[<<pick[s], F[s \ {pick[s]}]>>]
      BY <2>2 DEF FoldsBy
    <3>4. G[s] = op[<<pick[s], G[s \ {pick[s]}]>>]
      BY <2>2 DEF FoldsBy
    <3>5. F[s \ {pick[s]}] = G[s \ {pick[s]}]
      BY <2>2, <3>2
    <3>. QED
      BY <3>3, <3>4, <3>5
  <2>. QED
    BY <2>1, <2>2
<1>2. \A s \in SUBSET S : s \in Good
  <2>. HIDE DEF Good
  <2>. QED
    BY <1>1, SubsetInduction
<1>. QED
  BY <1>2

(* There is one of the whole set, by induction over its subsets. *)
LEMMA FoldExists ==
    ASSUME NEW S, IsFiniteSet(S), NEW V, NEW base \in V, NEW op \in [S \X V -> V], NEW pick,
           \A s \in SUBSET S : s # {} => pick[s] \in s
    PROVE  \E F : FoldsBy(F, S, V, base, op, pick)
<1>. DEFINE Good == {T \in SUBSET S : \E F : FoldsBy(F, T, V, base, op, pick)}
            part == [s \in SUBSET S |-> CHOOSE F : FoldsBy(F, s, V, base, op, pick)]
<1>1. ASSUME NEW T \in SUBSET S, \A s \in SUBSET T : s # T => s \in Good PROVE T \in Good
  <2>. DEFINE next(s, r) == IF s = {} THEN base ELSE op[<<pick[s], r>>]
              F == [s \in SUBSET T |->
                      IF s # T THEN part[s][s] ELSE next(T, part[T \ {pick[T]}][T \ {pick[T]}])]
  <2>1. ASSUME NEW s \in SUBSET T, s # T PROVE FoldsBy(part[s], s, V, base, op, pick)
    <3>1. \E G : FoldsBy(G, s, V, base, op, pick)
      BY <1>1, <2>1
    <3>. QED
      BY <3>1
  <2>. HIDE DEF part
  <2>2. ASSUME NEW s \in SUBSET T, s # T
        PROVE  part[s][s] \in V /\ part[s][s] = next(s, part[s \ {pick[s]}][s \ {pick[s]}])
    <3>0. FoldsBy(part[s], s, V, base, op, pick) /\ s \in SUBSET s
      BY <2>1, <2>2
    <3>1. part[s][s] \in V /\ part[s][s] = next(s, part[s][s \ {pick[s]}])
      BY <3>0 DEF FoldsBy
    <3>2. CASE s = {}
      BY <3>1, <3>2
    <3>3. CASE s # {}
      <4>. DEFINE r == s \ {pick[s]}
      <4>1. r \in SUBSET T /\ r # T /\ r \in SUBSET s
        BY <3>3
      <4>2. FoldsBy(part[r], r, V, base, op, pick)
        BY <2>1, <4>1
      <4>3. r \in SUBSET (s \cap r) /\ s \in SUBSET S /\ r \in SUBSET S
        BY <4>1
      <4>. HIDE DEF r, next
      <4>4. part[s][r] = part[r][r]
        BY <3>0, <4>2, <4>3, FoldIsOne
      <4>. QED
        BY <3>1, <4>4 DEF r
    <3>. QED
      BY <3>2, <3>3
  <2>3. ASSUME NEW s \in SUBSET T PROVE F[s] \in V /\ F[s] = next(s, F[s \ {pick[s]}])
    <3>1. CASE s # T /\ s = {}
      BY <2>2, <3>1
    <3>2. CASE s # T /\ s # {}
      <4>1. s \ {pick[s]} \in SUBSET T /\ s \ {pick[s]} # T
        BY <3>2
      <4>. QED
        BY <2>2, <3>2, <4>1
    <3>3. CASE s = T /\ T = {}
      BY <3>3
    <3>4. CASE s = T /\ T # {}
      <4>. DEFINE r == T \ {pick[T]}
      <4>1. pick[T] \in S /\ r \in SUBSET T /\ r # T
        BY <3>4
      <4>2. part[r][r] \in V
        BY <2>2, <4>1
      <4>3. F[T] = op[<<pick[T], part[r][r]>>] /\ F[r] = part[r][r]
        BY <3>4, <4>1
      <4>4. F[T] \in V
        BY <4>1, <4>2, <4>3
      <4>. QED
        BY <3>4, <4>3, <4>4
    <3>. QED
      BY <3>1, <3>2, <3>3, <3>4
  <2>4. FoldsBy(F, T, V, base, op, pick)
    <3>1. F \in [SUBSET T -> V]
      BY <2>3
    <3>. HIDE DEF F
    <3>. QED
      BY <2>3, <3>1 DEF FoldsBy
  <2>. QED
    BY <2>4
<1>2. \A T \in SUBSET S : T \in Good
  <2>. HIDE DEF Good
  <2>. QED
    BY <1>1, SubsetInduction
<1>3. S \in Good
  BY <1>2
<1>. QED
  BY <1>3

(* The greatest and the least of some naturals up to n. *)
LEMMA Extremes ==
    ASSUME NEW n \in Nat, NEW S, S \subseteq 0..n, S # {}
    PROVE  /\ Max(S) \in S /\ \A m \in S : m <= Max(S)
           /\ Min(S) \in S /\ \A m \in S : Min(S) <= m
<1>0. S \subseteq Nat /\ S # {}
  OBVIOUS
<1>1. PICK x \in S : \A y \in S : ~ (<<y, x>> \in OpToRel(<, Nat))
  BY <1>0, NatLessThanWellFounded, WFMin
<1>2. ASSUME NEW y \in S PROVE x <= y
  <2>1. x \in Nat /\ y \in Nat /\ ~ (<<y, x>> \in OpToRel(<, Nat))
    BY <1>0, <1>1
  <2>2. x \in Nat /\ y \in Nat => (y < x \/ x <= y)
    OBVIOUS
  <2>3. ~ (y < x)
    BY <2>1 DEF OpToRel
  <2>. QED
    BY <2>1, <2>2, <2>3
<1>. DEFINE T == {n - g : g \in S}
<1>3. T \subseteq Nat /\ T # {}
  <2>1. \A g \in S : n - g \in Nat
    OBVIOUS
  <2>2. PICK g \in S : TRUE
    OBVIOUS
  <2>3. n - g \in T
    OBVIOUS
  <2>. QED
    BY <2>1, <2>3
<1>4. PICK t \in T : \A y \in T : ~ (<<y, t>> \in OpToRel(<, Nat))
  BY <1>3, NatLessThanWellFounded, WFMin
<1>5. PICK g \in S : t = n - g
  OBVIOUS
<1>6. ASSUME NEW h \in S PROVE h <= g
  <2>1. n - h \in T
    OBVIOUS
  <2>2. ~ (n - h < n - g)
    BY <1>3, <1>4, <1>5, <2>1 DEF OpToRel
  <2>3. g \in Nat /\ h \in Nat
    OBVIOUS
  <2>. QED
    BY <2>2, <2>3
<1>7. Max(S) \in S /\ \A m \in S : Max(S) >= m
  <2>1. \A m \in S : g >= m
    BY <1>0, <1>6
  <2>. QED
    BY <2>1 DEF Max
<1>8. Min(S) \in S /\ \A m \in S : Min(S) <= m
  <2>1. \A m \in S : x <= m
    BY <1>2
  <2>. QED
    BY <2>1 DEF Min
<1>. QED
  BY <1>0, <1>7, <1>8

(* A finite set has a least element in a total order of it. *)
LEMMA LeastExists ==
    ASSUME NEW S, IsFiniteSet(S), S # {}, NEW R,
           \A x, y, z \in S : <<x, y>> \in R /\ <<y, z>> \in R => <<x, z>> \in R,
           \A x, y \in S : x # y => <<x, y>> \in R \/ <<y, x>> \in R
    PROVE  \E x \in S : \A y \in S \ {x} : <<x, y>> \in R
<1>. DEFINE Good == {T \in SUBSET S : T = {} \/ \E x \in T : \A y \in T \ {x} : <<x, y>> \in R}
<1>1. ASSUME NEW T \in SUBSET S, \A U \in SUBSET T : U # T => U \in Good PROVE T \in Good
  <2>1. CASE T = {}
    BY <2>1
  <2>2. CASE T # {}
    <3>1. PICK t \in T : TRUE
      BY <2>2
    <3>2. T \ {t} \in Good
      <4>1. T \ {t} \in SUBSET T /\ T \ {t} # T
        BY <3>1
      <4>. HIDE DEF Good
      <4>. QED
        BY <1>1, <4>1
    <3>3. CASE T \ {t} = {}
      <4>1. \A y \in T \ {t} : <<t, y>> \in R
        BY <3>3
      <4>. QED
        BY <3>1, <4>1
    <3>4. CASE T \ {t} # {}
      <4>1. PICK x \in T \ {t} : \A y \in (T \ {t}) \ {x} : <<x, y>> \in R
        BY <3>2, <3>4
      <4>2. CASE <<x, t>> \in R
        <5>1. \A y \in T \ {x} : <<x, y>> \in R
          BY <4>1, <4>2
        <5>. QED
          BY <4>1, <5>1
      <4>3. CASE <<t, x>> \in R
        <5>1. \A y \in T \ {t} : <<t, y>> \in R
          BY <3>1, <4>1, <4>3
        <5>. QED
          BY <3>1, <5>1
      <4>. QED
        BY <3>1, <4>1, <4>2, <4>3
    <3>. QED
      BY <3>3, <3>4
  <2>. QED
    BY <2>1, <2>2
<1>2. \A T \in SUBSET S : T \in Good
  <2>. HIDE DEF Good
  <2>. QED
    BY <1>1, SubsetInduction
<1>3. S \in Good
  BY <1>2
<1>. QED
  BY <1>3

-----------------------------------------------------------------------------
(* The journal: undos, and the purchases nobody took back. *)

(* How many of a set of places are after i and up to j. *)
Since(T, i, j) == Cardinality(T \cap (i + 1 .. j))

(* It is a number. *)
LEMMA SinceIsNatural ==
    ASSUME NEW T, NEW i \in Nat, NEW j \in Nat
    PROVE  IsFiniteSet(T \cap (i + 1 .. j)) /\ Since(T, i, j) \in Nat
<1>1. IsFiniteSet(i + 1 .. j)
  BY FS_Interval
<1>. QED
  BY <1>1, FS_Intersection, FS_CardinalityType DEF Since

(* Counts of consecutive spans add up. *)
LEMMA SinceAdds ==
    ASSUME NEW T, NEW i \in Nat, NEW k \in Nat, NEW j \in Nat, i <= k, k <= j
    PROVE  Since(T, i, j) = Since(T, i, k) + Since(T, k, j)
<1>. DEFINE A == T \cap (i + 1 .. k)
            B == T \cap (k + 1 .. j)
<1>1. T \cap (i + 1 .. j) = A \cup B /\ A \cap B = {}
  OBVIOUS
<1>2. IsFiniteSet(A) /\ IsFiniteSet(B) /\ Cardinality(A) \in Nat /\ Cardinality(B) \in Nat
  BY SinceIsNatural DEF Since
<1>. HIDE DEF A, B
<1>3. Cardinality(A \cup B) = Cardinality(A) + Cardinality(B) - Cardinality(A \cap B)
  BY <1>2, FS_Union
<1>4. Cardinality(A \cap B) = 0
  BY <1>1, FS_EmptySet
<1>5. Cardinality(A \cup B) = Cardinality(A) + Cardinality(B)
  BY <1>2, <1>3, <1>4
<1>. QED
  BY <1>1, <1>5 DEF Since, A, B

(* A span without such a place counts none, *)
LEMMA SinceNone ==
    ASSUME NEW T, NEW i, NEW j, T \cap (i + 1 .. j) = {}
    PROVE  Since(T, i, j) = 0
  BY FS_EmptySet DEF Since

(* and a place more counts one more. *)
LEMMA SinceOne ==
    ASSUME NEW T, NEW i \in Nat
    PROVE  Since(T, i, i + 1) = (IF i + 1 \in T THEN 1 ELSE 0) /\ Since(T, i, i) = 0
<1>1. i + 1 .. i + 1 = {i + 1} /\ i + 1 .. i = {}
  OBVIOUS
<1>2. CASE i + 1 \in T
  <2>1. T \cap (i + 1 .. i + 1) = {i + 1}
    BY <1>1, <1>2
  <2>. QED
    BY <1>1, <1>2, <2>1, FS_Singleton, SinceNone DEF Since
<1>3. CASE i + 1 \notin T
  <2>1. T \cap (i + 1 .. i + 1) = {} /\ T \cap (i + 1 .. i) = {}
    BY <1>1, <1>3
  <2>. QED
    BY <1>3, <2>1, SinceNone
<1>. QED
  BY <1>2, <1>3

(* A purchase is taken back when more is undone since than bought. *)
TakenBack(P, U, b, n) == \E j \in b + 1 .. n : Since(U, b, j) > Since(P, b, j)

(* Where every later purchase is taken back, as much is undone as bought. *)
LEMMA EvenUndos ==
    ASSUME NEW n \in Nat, NEW P, P \subseteq 1..n, NEW u \in 1..n, NEW U, U \subseteq 1 .. u - 1,
           NEW x \in 0 .. u - 1, \A b \in P : x < b /\ b < u => TakenBack(P, U, b, n)
    PROVE  Since(P, x, u - 1) <= Since(U, x, u - 1)
<1>. DEFINE Bad == {y \in x .. u - 1 : ~ (Since(P, y, u - 1) <= Since(U, y, u - 1))}
<1>0. U \subseteq 1..n /\ u - 1 \in Nat /\ u \in Nat /\ n \in Nat /\ x \in Nat /\ \A y \in x .. u - 1 : y \in Nat
  OBVIOUS
<1>1. SUFFICES ASSUME Bad # {} PROVE FALSE
  OBVIOUS
<1>2. Max(Bad) \in Bad /\ \A y \in Bad : y <= Max(Bad)
  <2>1. Bad \subseteq 0..n
    OBVIOUS
  <2>. HIDE DEF Bad
  <2>. QED
    BY <1>1, <2>1, Extremes
<1>3. PICK y \in Bad : \A z \in Bad : z <= y
  BY <1>2
<1>4. /\ y \in Nat /\ x <= y /\ y <= u - 1
      /\ Since(P, y, u - 1) \in Nat /\ Since(U, y, u - 1) \in Nat /\ Since(P, y, u - 1) > Since(U, y, u - 1)
  <2>1. Since(P, y, u - 1) \in Nat /\ Since(U, y, u - 1) \in Nat
    BY <1>0, SinceIsNatural, SinceAdds, SinceNone, SinceOne
  <2>. QED
    BY <1>0, <2>1
<1>5. y + 1 \in Nat /\ y + 1 <= u - 1
  <2>1. y = u - 1 => Since(P, y, u - 1) = 0 /\ Since(U, y, u - 1) = 0
    BY <1>0, <1>4, SinceIsNatural, SinceAdds, SinceNone, SinceOne
  <2>. QED
    BY <1>0, <1>4, <2>1
<1>6. \A z \in y + 1 .. u - 1 : Since(P, z, u - 1) <= Since(U, z, u - 1)
  <2>1. ASSUME NEW z \in y + 1 .. u - 1, ~ (Since(P, z, u - 1) <= Since(U, z, u - 1)) PROVE FALSE
    <3>1. z \in Bad
      BY <1>0, <1>4, <2>1
    <3>. QED
      BY <1>0, <1>3, <1>4, <2>1, <3>1
  <2>. QED
    BY <2>1
<1>7. /\ Since(P, y, u - 1) = Since(P, y, y + 1) + Since(P, y + 1, u - 1)
      /\ Since(U, y, u - 1) = Since(U, y, y + 1) + Since(U, y + 1, u - 1)
  <2>1. y + 1 \in y .. u - 1
    BY <1>0, <1>4, <1>5
  <2>. QED
    BY <1>0, <1>4, <2>1, SinceIsNatural, SinceAdds, SinceNone, SinceOne
<1>8. /\ Since(P, y + 1, u - 1) \in Nat /\ Since(U, y + 1, u - 1) \in Nat
      /\ Since(P, y, y + 1) \in Nat /\ Since(U, y, y + 1) \in Nat
      /\ Since(P, y, y + 1) = IF y + 1 \in P THEN 1 ELSE 0
  BY <1>0, <1>4, <1>5, SinceIsNatural, SinceAdds, SinceNone, SinceOne
<1>9. Since(P, y + 1, u - 1) <= Since(U, y + 1, u - 1)
  BY <1>0, <1>5, <1>6
<1>10. y + 1 \in P
  BY <1>4, <1>7, <1>8, <1>9
<1>. DEFINE b == y + 1
<1>11. TakenBack(P, U, b, n)
  BY <1>0, <1>4, <1>5, <1>10
<1>12. PICK j \in b + 1 .. n : Since(U, b, j) > Since(P, b, j)
  BY <1>11 DEF TakenBack
<1>13. b \in Nat /\ j \in Nat /\ b < j /\ j <= n
  BY <1>0, <1>5
<1>14. Since(U, y, j) >= Since(P, y, j) /\ Since(U, y, j) \in Nat /\ Since(P, y, j) \in Nat
  <2>1. b \in y..j
    BY <1>4, <1>13
  <2>2. /\ Since(P, y, j) = Since(P, y, b) + Since(P, b, j)
        /\ Since(U, y, j) = Since(U, y, b) + Since(U, b, j)
    BY <1>0, <1>4, <1>13, <2>1, SinceIsNatural, SinceAdds, SinceNone, SinceOne
  <2>3. Since(P, b, j) \in Nat /\ Since(U, b, j) \in Nat
    BY <1>0, <1>13, SinceIsNatural, SinceAdds, SinceNone, SinceOne
  <2>4. Since(P, y, b) = 1 /\ Since(U, y, b) \in Nat
    BY <1>8, <1>10
  <2>. QED
    BY <1>12, <2>2, <2>3, <2>4
<1>15. CASE j <= u - 1
  <2>1. j \in y .. u - 1 /\ j \in y + 1 .. u - 1
    BY <1>0, <1>4, <1>13, <1>15
  <2>2. /\ Since(P, y, u - 1) = Since(P, y, j) + Since(P, j, u - 1)
        /\ Since(U, y, u - 1) = Since(U, y, j) + Since(U, j, u - 1)
    BY <1>0, <1>4, <2>1, SinceIsNatural, SinceAdds, SinceNone, SinceOne
  <2>3. Since(P, j, u - 1) <= Since(U, j, u - 1) /\ Since(P, j, u - 1) \in Nat /\ Since(U, j, u - 1) \in Nat
    BY <1>0, <1>6, <1>13, <2>1, SinceIsNatural, SinceAdds, SinceNone, SinceOne
  <2>. QED
    BY <1>4, <1>14, <2>2, <2>3
<1>16. CASE j > u - 1
  <2>1. u - 1 \in y .. j
    BY <1>0, <1>4, <1>13, <1>16
  <2>2. /\ Since(P, y, j) = Since(P, y, u - 1) + Since(P, u - 1, j)
        /\ Since(U, y, j) = Since(U, y, u - 1) + Since(U, u - 1, j)
    BY <1>0, <1>4, <1>13, <2>1, SinceIsNatural, SinceAdds, SinceNone, SinceOne
  <2>3. U \cap (u - 1 + 1 .. j) = {}
    BY <1>0
  <2>4. Since(U, u - 1, j) = 0 /\ Since(P, u - 1, j) \in Nat
    <3>1. Since(U, u - 1, j) = 0
      BY <2>3, SinceNone
    <3>2. Since(P, u - 1, j) \in Nat
      BY <1>0, <1>13, SinceIsNatural
    <3>. QED
      BY <3>1, <3>2
  <2>. QED
    BY <1>4, <1>14, <2>2, <2>4
<1>. QED
  BY <1>0, <1>13, <1>15, <1>16

(* One more undo, later than the others, takes back the last purchase *)
(* before it that is not taken back yet.                              *)
LEMMA LastTakenBack ==
    ASSUME NEW n \in Nat, NEW P, P \subseteq 1..n, NEW u \in 1..n, u \notin P,
           NEW U, U \subseteq 1 .. u - 1, U \cap P = {},
           NEW M, M = {b \in P : b < u /\ ~ TakenBack(P, U, b, n)}, NEW b \in P
    PROVE  TakenBack(P, U \cup {u}, b, n) <=> TakenBack(P, U, b, n) \/ (M # {} /\ b = Max(M))
<1>. DEFINE V == U \cup {u}
<1>0. /\ U \subseteq 1..n /\ V \subseteq 1..n /\ u - 1 \in Nat /\ u \in Nat /\ n \in Nat /\ b \in Nat /\ b <= n /\ 1 <= u /\ u <= n
      /\ b # u /\ b \notin V
  OBVIOUS
<1>0a. M \subseteq 0..n
  <2>1. M \subseteq P /\ P \subseteq 1..n
    OBVIOUS
  <2>2. 1..n \subseteq 0..n
    OBVIOUS
  <2>. QED
    BY ONLY <2>1, <2>2
<1>. HIDE DEF V
(* The undo counts from its place on. *)
<1>1. ASSUME NEW i \in Nat, NEW j \in Nat, i < u
      PROVE  Since(V, i, j) = Since(U, i, j) + IF u <= j THEN 1 ELSE 0
  <2>1. CASE u <= j
    <3>1. V \cap (i + 1 .. j) = (U \cap (i + 1 .. j)) \cup {u} /\ u \notin U \cap (i + 1 .. j)
      BY <1>0, <1>1, <2>1 DEF V
    <3>2. IsFiniteSet(U \cap (i + 1 .. j))
      <4>1. IsFiniteSet(i + 1 .. j)
        BY FS_Interval
      <4>. QED
        BY <4>1, FS_Intersection
    <3>. QED
      BY <2>1, <3>1, <3>2, FS_AddElement DEF Since
  <2>2. CASE ~ (u <= j)
    <3>1. V \cap (i + 1 .. j) = U \cap (i + 1 .. j)
      BY <1>0, <2>2 DEF V
    <3>2. Since(U, i, j) \in Nat
      BY <1>0, SinceIsNatural, SinceAdds, SinceNone, SinceOne
    <3>. QED
      BY <2>2, <3>1, <3>2 DEF Since
  <2>. QED
    BY <2>1, <2>2
<1>2. CASE u < b
  <2>1. ASSUME NEW j \in b + 1 .. n PROVE Since(V, b, j) = Since(U, b, j)
    <3>1. V \cap (b + 1 .. j) = U \cap (b + 1 .. j)
      BY <1>0, <1>2 DEF V
    <3>. QED
      BY <3>1 DEF Since
  <2>2. b \notin M
    BY <1>0, <1>2
  <2>3. M # {} => Max(M) \in M
    BY <1>0a, Extremes
  <2>. QED
    BY <2>1, <2>2, <2>3 DEF TakenBack, V
<1>3. CASE b < u
  <2>0. b <= u - 1 /\ b \in 0 .. u - 1
    BY <1>0, <1>3
  <2>1. TakenBack(P, U, b, n) => TakenBack(P, V, b, n)
    <3>1. ASSUME NEW j \in b + 1 .. n, Since(U, b, j) > Since(P, b, j) PROVE Since(V, b, j) > Since(P, b, j)
      <4>1. j \in Nat
        BY <1>0
      <4>2. Since(V, b, j) = Since(U, b, j) + IF u <= j THEN 1 ELSE 0
        BY <1>0, <1>1, <1>3, <4>1
      <4>3. Since(U, b, j) \in Nat /\ Since(P, b, j) \in Nat
        BY <1>0, <4>1, SinceIsNatural, SinceAdds, SinceNone, SinceOne
      <4>. QED
        BY <3>1, <4>2, <4>3
    <3>. QED
      BY <3>1 DEF TakenBack
  (* What the new undo may take back, it takes back at its own place. *)
  <2>2. ~ TakenBack(P, U, b, n) => (TakenBack(P, V, b, n) <=> Since(P, b, u - 1) <= Since(U, b, u - 1))
    <3>0. ASSUME NEW j \in u .. n
          PROVE  /\ Since(U, b, j) = Since(U, b, u - 1) /\ Since(P, b, j) = Since(P, b, u - 1) + Since(P, u - 1, j)
                 /\ Since(P, u - 1, j) \in Nat /\ Since(U, b, u - 1) \in Nat /\ Since(P, b, u - 1) \in Nat
                 /\ Since(V, b, j) = Since(U, b, u - 1) + 1
                 /\ j = u => Since(P, u - 1, j) = 0
      <4>1. j \in Nat /\ u - 1 \in b .. j
        BY <1>0, <2>0
      <4>2. /\ Since(U, b, j) = Since(U, b, u - 1) + Since(U, u - 1, j)
            /\ Since(P, b, j) = Since(P, b, u - 1) + Since(P, u - 1, j)
        BY <1>0, <4>1, SinceIsNatural, SinceAdds, SinceNone, SinceOne
      <4>3. U \cap (u - 1 + 1 .. j) = {}
        BY <1>0
      <4>4. Since(U, u - 1, j) = 0
        BY <1>0, <4>1, <4>3, SinceIsNatural, SinceAdds, SinceNone, SinceOne
      <4>5. Since(P, u - 1, j) \in Nat /\ Since(U, b, u - 1) \in Nat /\ Since(P, b, u - 1) \in Nat
        BY <1>0, <4>1, SinceIsNatural, SinceAdds, SinceNone, SinceOne
      <4>6. Since(V, b, j) = Since(U, b, j) + 1
        BY <1>0, <1>1, <1>3, <4>1
      <4>7. j = u => Since(P, u - 1, j) = 0
        <5>1. u = u - 1 + 1
          BY <1>0
        <5>. QED
          BY <1>0, <5>1, SinceIsNatural, SinceAdds, SinceNone, SinceOne
      <4>. QED
        BY <4>2, <4>4, <4>5, <4>6, <4>7
    <3>1. ASSUME ~ TakenBack(P, U, b, n), NEW j \in b + 1 .. n, Since(V, b, j) > Since(P, b, j)
          PROVE  Since(P, b, u - 1) <= Since(U, b, u - 1)
      <4>0. j \in Nat
        BY <1>0
      <4>1. j \in Nat /\ Since(U, b, j) \in Nat /\ Since(P, b, j) \in Nat
        BY <1>0, <4>0, SinceIsNatural
      <4>2. Since(U, b, j) <= Since(P, b, j)
        BY <3>1, <4>1 DEF TakenBack
      <4>3. u <= j
        BY <1>0, <1>1, <1>3, <3>1, <4>1, <4>2
      <4>4. j \in u .. n
        BY <1>0, <4>1, <4>3
      <4>. QED
        BY <3>0, <3>1, <4>4
    <3>2. ASSUME Since(P, b, u - 1) <= Since(U, b, u - 1) PROVE TakenBack(P, V, b, n)
      <4>1. u \in u .. n /\ u \in b + 1 .. n
        BY <1>0, <1>3
      <4>2. Since(V, b, u) > Since(P, b, u)
        BY <3>0, <3>2, <4>1
      <4>. QED
        BY <4>1, <4>2 DEF TakenBack
    <3>. QED
      BY <3>1, <3>2 DEF TakenBack
  <2>3. CASE TakenBack(P, U, b, n)
    BY <2>1, <2>3 DEF V
  <2>4. CASE ~ TakenBack(P, U, b, n)
    <3>1. b \in M /\ M \subseteq 0..n /\ M # {}
      <4>1. b \in M
        BY <1>3, <2>4
      <4>. QED
        BY <1>0a, <4>1
    <3>2. Max(M) \in M /\ \A c \in M : c <= Max(M)
      BY <3>1, Extremes
    <3>. DEFINE m == Max(M)
    <3>3. m \in P /\ m \in Nat /\ m < u /\ ~ TakenBack(P, U, m, n) /\ b <= m /\ m <= u - 1 /\ m >= 1
      BY <1>0, <3>1, <3>2
    <3>3a. \A c \in M : c <= m
      BY <3>2
    <3>. HIDE DEF m
    <3>4. Since(P, m, u - 1) <= Since(U, m, u - 1)
      <4>1. ASSUME NEW c \in P, m < c, c < u PROVE TakenBack(P, U, c, n)
        <5>1. c \notin M
          BY <3>3, <3>3a, <4>1
        <5>. QED
          BY <4>1, <5>1
      <4>2. m \in 0 .. u - 1
        BY <1>0, <3>3
      <4>. QED
        BY <4>1, <4>2, EvenUndos
    <3>5. CASE b = m
      BY <2>2, <2>4, <3>1, <3>4, <3>5 DEF V, m
    <3>6. CASE b < m
      <4>1. m - 1 \in Nat /\ m - 1 \in b .. m /\ m \in b .. u - 1 /\ m = m - 1 + 1
        BY <1>0, <3>3, <3>6
      <4>2. /\ Since(P, b, u - 1) = Since(P, b, m) + Since(P, m, u - 1)
            /\ Since(U, b, u - 1) = Since(U, b, m) + Since(U, m, u - 1)
        BY <1>0, <4>1, SinceIsNatural, SinceAdds, SinceNone, SinceOne
      <4>3. /\ Since(P, b, m) = Since(P, b, m - 1) + Since(P, m - 1, m)
            /\ Since(U, b, m) = Since(U, b, m - 1) + Since(U, m - 1, m)
        BY <1>0, <3>3, <4>1, SinceIsNatural, SinceAdds, SinceNone, SinceOne
      <4>4. Since(P, m - 1, m) = 1 /\ Since(U, m - 1, m) = 0
        <5>1. m \in P /\ m \notin U
          BY <3>3
        <5>2. /\ Since(P, m - 1, m - 1 + 1) = IF m - 1 + 1 \in P THEN 1 ELSE 0
              /\ Since(U, m - 1, m - 1 + 1) = IF m - 1 + 1 \in U THEN 1 ELSE 0
          BY <4>1, SinceOne
        <5>. QED
          BY <4>1, <5>1, <5>2
      <4>5. Since(U, b, m - 1) <= Since(P, b, m - 1)
        <5>1. CASE m - 1 = b
          BY <1>0, <5>1, SinceIsNatural, SinceAdds, SinceNone, SinceOne
        <5>2. CASE m - 1 # b
          <6>1. m - 1 \in b + 1 .. n
            BY <1>0, <3>3, <4>1, <5>2
          <6>2. ~ (Since(U, b, m - 1) > Since(P, b, m - 1))
            BY <2>4, <6>1 DEF TakenBack
          <6>3. Since(U, b, m - 1) \in Nat /\ Since(P, b, m - 1) \in Nat
            BY <1>0, <4>1, SinceIsNatural, SinceAdds, SinceNone, SinceOne
          <6>. QED
            BY <6>2, <6>3
        <5>. QED
          BY <5>1, <5>2
      <4>6. Since(U, m, u - 1) <= Since(P, m, u - 1)
        <5>1. CASE m = u - 1
          BY <1>0, <3>3, <5>1, SinceIsNatural, SinceAdds, SinceNone, SinceOne
        <5>2. CASE m # u - 1
          <6>1. u - 1 \in m + 1 .. n
            BY <1>0, <3>3, <5>2
          <6>2. ~ (Since(U, m, u - 1) > Since(P, m, u - 1))
            BY <3>3, <6>1 DEF TakenBack
          <6>3. Since(U, m, u - 1) \in Nat /\ Since(P, m, u - 1) \in Nat
            BY <1>0, <3>3, SinceIsNatural, SinceAdds, SinceNone, SinceOne
          <6>. QED
            BY <6>2, <6>3
        <5>. QED
          BY <5>1, <5>2
      <4>7. /\ Since(P, b, m - 1) \in Nat /\ Since(U, b, m - 1) \in Nat
            /\ Since(P, m, u - 1) \in Nat /\ Since(U, m, u - 1) \in Nat
        BY <1>0, <3>3, <4>1, SinceIsNatural, SinceAdds, SinceNone, SinceOne
      <4>8. ~ (Since(P, b, u - 1) <= Since(U, b, u - 1))
        BY <4>2, <4>3, <4>4, <4>5, <4>6, <4>7
      <4>9. ~ TakenBack(P, V, b, n)
        BY <2>2, <2>4, <4>8
      <4>10. b # Max(M)
        BY <3>3, <3>6 DEF m
      <4>. QED
        BY <2>4, <4>9, <4>10 DEF V
    <3>. QED
      BY <1>0, <3>3, <3>5, <3>6
  <2>. QED
    BY <2>3, <2>4
<1>. QED
  BY <1>0, <1>2, <1>3

-----------------------------------------------------------------------------
(* The order of the moves, and what is left of a shop. *)

(* A shop's move: a purchase, or an undo. *)
IsMove(e) == e.type \in {"ITEM_PURCHASED", "ITEM_UNDO"}

(* The events are in the order of their timestamps, none of them to come;  *)
(* two moves of one shop are not simultaneous.                             *)
InOrder ==
    /\ Len(events) \in Nat /\ DOMAIN events = 1 .. Len(events)
    /\ now \in Nat
    /\ \A i \in DOMAIN events : events[i].at \in Nat /\ events[i].at <= now
    /\ \A i, j \in DOMAIN events : i <= j => events[i].at <= events[j].at
    /\ \A i, j \in DOMAIN events :
          i < j /\ IsMove(events[i]) /\ IsMove(events[j]) /\ events[i].by = events[j].by => events[i].at < events[j].at

(* Those of some places where the item is x. *)
OfItem(s, x) == {i \in s : events[i].item = x}

(* The purchases that some undos leave. *)
Left(who, s) ==
    {b \in BuysOf(who) : ~ TakenBack(OfItem(BuysOf(who), events[b].item), OfItem(s, events[b].item), b, Len(events))}

(* What the events in order say of the moves of one shop. *)
LEMMA MovesAre ==
    ASSUME InOrder, NEW who
    PROVE  /\ BuysOf(who) \subseteq 1 .. Len(events) /\ UndosOf(who) \subseteq 1 .. Len(events)
           /\ BuysOf(who) \cap UndosOf(who) = {}
           /\ \A i, j \in BuysOf(who) \cup UndosOf(who) : i < j => events[i].at < events[j].at
           /\ \A i, j \in BuysOf(who) \cup UndosOf(who) : i # j => (events[i].at <= events[j].at <=> i < j)
<1>1. /\ BuysOf(who) \subseteq DOMAIN events /\ UndosOf(who) \subseteq DOMAIN events
      /\ \A i \in BuysOf(who) : events[i].type = "ITEM_PURCHASED" /\ events[i].by = who
      /\ \A i \in UndosOf(who) : events[i].type = "ITEM_UNDO" /\ events[i].by = who
  BY DEF BuysOf, UndosOf
<1>2. \A i \in BuysOf(who) \cup UndosOf(who) : i \in DOMAIN events /\ IsMove(events[i]) /\ events[i].by = who
  BY <1>1 DEF IsMove
<1>3. ASSUME NEW i \in BuysOf(who) \cup UndosOf(who), NEW j \in BuysOf(who) \cup UndosOf(who), i < j
      PROVE  events[i].at < events[j].at
  BY <1>2, <1>3 DEF InOrder
<1>4. \A i \in BuysOf(who) \cup UndosOf(who) : i \in Nat /\ events[i].at \in Nat
  BY <1>2 DEF InOrder
<1>5. ASSUME NEW i \in BuysOf(who) \cup UndosOf(who), NEW j \in BuysOf(who) \cup UndosOf(who), i # j
      PROVE  events[i].at <= events[j].at <=> i < j
  BY <1>3, <1>4, <1>5
<1>6. BuysOf(who) \subseteq 1 .. Len(events) /\ UndosOf(who) \subseteq 1 .. Len(events)
  BY <1>1 DEF InOrder
<1>7. BuysOf(who) \cap UndosOf(who) = {}
  BY <1>1
<1>. QED
  BY <1>3, <1>5, <1>6, <1>7

(* The last undo of some takes one purchase more back. *)
LEMMA OneMoreUndo ==
    ASSUME InOrder, NEW who, NEW s, s \subseteq UndosOf(who), NEW u \in s, \A i \in s : i <= u
    PROVE  Undone(u, Left(who, s \ {u})) = Left(who, s)
<1>. DEFINE n == Len(events)
            B == BuysOf(who)
            r == s \ {u}
            x == events[u].item
            P == OfItem(B, x)
            U == OfItem(r, x)
            M == {b \in P : b < u /\ ~ TakenBack(P, U, b, n)}
<1>1. /\ n \in Nat /\ B \subseteq 1..n /\ s \subseteq 1..n /\ u \in 1..n /\ u \notin B
      /\ \A i \in r : i \notin B
      /\ \A i \in B : events[i].at <= events[u].at <=> i < u
  <2>1. u \in UndosOf(who)
    OBVIOUS
  <2>2. /\ BuysOf(who) \subseteq 1 .. Len(events) /\ UndosOf(who) \subseteq 1 .. Len(events)
        /\ BuysOf(who) \cap UndosOf(who) = {}
        /\ \A i, j \in BuysOf(who) \cup UndosOf(who) : i # j => (events[i].at <= events[j].at <=> i < j)
    BY MovesAre
  <2>3. n \in Nat
    BY DEF InOrder
  <2>4. \A i \in B : i # u
    BY <2>1, <2>2
  <2>. QED
    BY <2>1, <2>2, <2>3, <2>4
<1>2. P \subseteq 1..n /\ u \notin P /\ U \subseteq 1 .. u - 1 /\ U \cap P = {}
  <2>1. P \subseteq B /\ U \subseteq r
    BY DEF OfItem
  <2>2. \A i \in r : i \in 1 .. u - 1
    <3>1. \A i \in r : i \in 1..n /\ i <= u /\ i # u
      BY <1>1
    <3>2. u \in Nat /\ n \in Nat
      BY <1>1
    <3>. HIDE DEF r, n
    <3>. QED
      BY <3>1, <3>2
  <2>. HIDE DEF P, U, r, B
  <2>. QED
    BY <1>1, <2>1, <2>2
<1>3. OfItem(s, x) = U \cup {u} /\ \A y : y # x => OfItem(s, y) = OfItem(r, y)
  BY DEF OfItem
<1>4. ASSUME NEW b \in P
      PROVE  TakenBack(P, U \cup {u}, b, n) <=> TakenBack(P, U, b, n) \/ (M # {} /\ b = Max(M))
  <2>. HIDE DEF P, U, n
  <2>. QED
    BY <1>1, <1>2, LastTakenBack
<1>5. MatchingBuys(u, Left(who, r)) = M
  <2>1. ASSUME NEW b \in B PROVE b \in MatchingBuys(u, Left(who, r)) <=> b \in M
    <3>1. b \in MatchingBuys(u, Left(who, r)) <=> b \in Left(who, r) /\ events[b].item = x /\ events[b].at <= events[u].at
      BY DEF MatchingBuys
    <3>2. b \in Left(who, r) <=> ~ TakenBack(OfItem(B, events[b].item), OfItem(r, events[b].item), b, n)
      BY DEF Left
    <3>3. b \in P <=> events[b].item = x
      BY DEF OfItem
    <3>4. events[b].at <= events[u].at <=> b < u
      BY <1>1
    <3>. QED
      BY <3>1, <3>2, <3>3, <3>4
  <2>2. MatchingBuys(u, Left(who, r)) \subseteq B /\ M \subseteq B
    BY DEF MatchingBuys, Left, OfItem
  <2>. HIDE DEF M, B, r
  <2>. QED
    BY <2>1, <2>2
<1>6. Undone(u, Left(who, r)) = IF M = {} THEN Left(who, r) ELSE Left(who, r) \ {Max(M)}
  <2>. HIDE DEF M, r
  <2>. QED
    BY <1>5 DEF Undone
<1>7. M # {} => Max(M) \in M
  <2>1. M \subseteq 0..n
    <3>1. \A b \in 1..n : b \in 0..n
      OBVIOUS
    <3>2. M \subseteq P
      OBVIOUS
    <3>. HIDE DEF M, P, n
    <3>. QED
      BY <1>2, <3>1, <3>2
  <2>. HIDE DEF M, n
  <2>. QED
    BY <1>1, <2>1, Extremes
<1>8. ASSUME NEW b \in B
      PROVE  b \in Left(who, s) <=> b \in Left(who, r) /\ ~ (M # {} /\ b = Max(M))
  <2>1. /\ b \in Left(who, r) <=> ~ TakenBack(OfItem(B, events[b].item), OfItem(r, events[b].item), b, n)
        /\ b \in Left(who, s) <=> ~ TakenBack(OfItem(B, events[b].item), OfItem(s, events[b].item), b, n)
    BY DEF Left
  <2>2. CASE events[b].item = x
    <3>1. b \in P
      BY <2>2 DEF OfItem
    <3>2. /\ b \in Left(who, r) <=> ~ TakenBack(P, U, b, n)
          /\ b \in Left(who, s) <=> ~ TakenBack(P, U \cup {u}, b, n)
      BY <1>3, <2>1, <2>2
    <3>. HIDE DEF M, P, U, r, n
    <3>. QED
      BY <1>4, <3>1, <3>2
  <2>3. CASE events[b].item # x
    <3>1. b \in Left(who, s) <=> b \in Left(who, r)
      BY <1>3, <2>1, <2>3
    <3>2. M # {} => b # Max(M)
      <4>1. \A m \in M : events[m].item = x
        BY DEF OfItem
      <4>. HIDE DEF M, x
      <4>. QED
        BY <1>7, <2>3, <4>1
    <3>. HIDE DEF M, r
    <3>. QED
      BY <3>1, <3>2
  <2>. QED
    BY <2>2, <2>3
<1>9. Left(who, s) \subseteq B /\ Left(who, r) \subseteq B
  BY DEF Left
<1>. HIDE DEF M, B
<1>10. Left(who, s) = IF M = {} THEN Left(who, r) ELSE Left(who, r) \ {Max(M)}
  <2>. HIDE DEF r
  <2>. QED
    BY <1>8, <1>9
<1>. QED
  BY <1>6, <1>10

(* Undone one after the other, the undos leave what no later move takes back. *)
LEMMA KeptIsRemaining ==
    ASSUME InOrder, NEW who
    PROVE  Kept(who) = Remaining(who)
<1>. DEFINE S == UndosOf(who)
            V == SUBSET BuysOf(who)
            Body(h) == [s \in SUBSET S |->
                          IF s = {} THEN BuysOf(who) ELSE Undone(Max(s), h[s \ {Max(s)}])]
            iter == CHOOSE h : h = Body(h)
            op == [p \in S \X V |-> Undone(p[1], p[2])]
            pick == [s \in SUBSET S |-> Max(s)]
<1>1. Kept(who) = iter[S]
  BY DEF Kept, MapThenFoldSet
<1>2. IsFiniteSet(S) /\ S \subseteq 0 .. Len(events) /\ Len(events) \in Nat
  <2>1. S \subseteq 1 .. Len(events)
    BY MovesAre
  <2>2. Len(events) \in Nat
    BY DEF InOrder
  <2>3. IsFiniteSet(1 .. Len(events))
    BY <2>2, FS_Interval
  <2>4. \A i \in 1 .. Len(events) : i \in 0 .. Len(events)
    BY <2>2
  <2>. HIDE DEF S
  <2>. QED
    BY <2>1, <2>2, <2>3, <2>4, FS_Subset
<1>3. \A s \in SUBSET S : s # {} => Max(s) \in s /\ \A i \in s : i <= Max(s)
  <2>1. ASSUME NEW s \in SUBSET S, s # {} PROVE Max(s) \in s /\ \A i \in s : i <= Max(s)
    <3>1. s \subseteq 0 .. Len(events)
      BY <1>2
    <3>. QED
      BY <1>2, <2>1, <3>1, Extremes
  <2>. QED
    BY <2>1
<1>. HIDE DEF S
<1>4. op \in [S \X V -> V] /\ BuysOf(who) \in V
  <2>1. ASSUME NEW x \in S, NEW out \in V PROVE Undone(x, out) \in V
    BY DEF Undone
  <2>2. \A p \in S \X V : p[1] \in S /\ p[2] \in V
    OBVIOUS
  <2>3. BuysOf(who) \in V
    OBVIOUS
  <2>. HIDE DEF V
  <2>. QED
    BY <2>1, <2>2, <2>3
<1>5. \A s \in SUBSET S : s # {} => pick[s] \in s
  BY <1>3
<1>6. \E F : FoldsBy(F, S, V, BuysOf(who), op, pick)
  <2>. HIDE DEF V, op, pick
  <2>. QED
    BY <1>2, <1>4, <1>5, FoldExists
<1>7. PICK F : FoldsBy(F, S, V, BuysOf(who), op, pick)
  BY <1>6
<1>8. F = Body(F)
  <2>1. ASSUME NEW s \in SUBSET S PROVE F[s] = Body(F)[s]
    <3>1. F[s] = IF s = {} THEN BuysOf(who) ELSE op[<<pick[s], F[s \ {pick[s]}]>>]
      <4>. HIDE DEF V, op, pick
      <4>. QED
        BY <1>7 DEF FoldsBy
    <3>2. s # {} => pick[s] \in S /\ F[s \ {pick[s]}] \in V
      <4>1. s # {} => pick[s] \in S
        BY <1>5
      <4>. HIDE DEF V, op, pick
      <4>. QED
        BY <1>7, <4>1 DEF FoldsBy
    <3>3. s # {} => op[<<pick[s], F[s \ {pick[s]}]>>] = Undone(pick[s], F[s \ {pick[s]}])
      <4>. HIDE DEF V, pick
      <4>. QED
        BY <3>2
    <3>4. pick[s] = Max(s)
      OBVIOUS
    <3>. HIDE DEF V, op, pick
    <3>. QED
      BY <3>1, <3>3, <3>4
  <2>2. F = [s \in SUBSET S |-> F[s]]
    <3>. HIDE DEF V, op, pick
    <3>. QED
      BY <1>7 DEF FoldsBy
  <2>. HIDE DEF V, op, pick
  <2>. QED
    BY <2>1, <2>2
<1>9. iter = Body(iter)
  <2>. HIDE DEF Body
  <2>. QED
    BY <1>8
<1>. HIDE DEF iter
<1>. DEFINE Good == {s \in SUBSET S : iter[s] = Left(who, s)}
<1>10. ASSUME NEW s \in SUBSET S, \A r \in SUBSET s : r # s => r \in Good PROVE s \in Good
  <2>0. iter[s] = Body(iter)[s]
    BY <1>9
  <2>1. CASE s = {}
    <3>1. iter[s] = BuysOf(who)
      BY <2>0, <2>1
    <3>2. ASSUME NEW b \in BuysOf(who), NEW P, TakenBack(P, {}, b, Len(events)) PROVE FALSE
      <4>0. b \in Nat
        BY MovesAre
      <4>1. PICK j \in b + 1 .. Len(events) : Since({}, b, j) > Since(P, b, j)
        BY <3>2 DEF TakenBack
      <4>2. Since({}, b, j) = 0
        BY SinceNone
      <4>3. j \in Nat
        BY <1>2, <4>0
      <4>4. Since(P, b, j) \in Nat
        BY <4>0, <4>3, SinceIsNatural
      <4>. QED
        BY <4>1, <4>2, <4>4
    <3>3. \A x : OfItem({}, x) = {}
      BY DEF OfItem
    <3>4. Left(who, {}) = BuysOf(who)
      BY <3>2, <3>3 DEF Left
    <3>. QED
      BY <2>1, <3>1, <3>4
  <2>2. CASE s # {}
    <3>. DEFINE x == Max(s)
    <3>1. x \in s /\ \A j \in s : j <= x
      BY <1>3, <2>2
    <3>2. iter[s] = Undone(x, iter[s \ {x}])
      BY <2>0, <2>2
    <3>. HIDE DEF x
    <3>3. s \ {x} \in Good
      BY <1>10, <3>1
    <3>4. iter[s \ {x}] = Left(who, s \ {x})
      BY <3>3
    <3>5. s \subseteq UndosOf(who)
      BY DEF S
    <3>6. iter[s] = Left(who, s)
      BY <3>1, <3>2, <3>4, <3>5, OneMoreUndo
    <3>. QED
      BY <3>6
  <2>. QED
    BY <2>1, <2>2
<1>11. iter[S] = Left(who, S)
  <2>1. \A s \in SUBSET S : s \in Good
    <3>. HIDE DEF Good
    <3>. QED
      BY <1>2, <1>10, SubsetInduction
  <2>. QED
    BY <2>1
<1>12. ASSUME NEW b \in BuysOf(who)
       PROVE  Reversed(b) <=> TakenBack(OfItem(BuysOf(who), events[b].item), OfItem(UndosOf(who), events[b].item), b, Len(events))
  <2>1. ASSUME NEW j \in b + 1 .. Len(events)
        PROVE  /\ {k \in b + 1 .. j : events[k].type = "ITEM_UNDO" /\ events[k].by = events[b].by /\ events[k].item = events[b].item}
                    = OfItem(UndosOf(who), events[b].item) \cap (b + 1 .. j)
               /\ {k \in b + 1 .. j : events[k].type = "ITEM_PURCHASED" /\ events[k].by = events[b].by /\ events[k].item = events[b].item}
                    = OfItem(BuysOf(who), events[b].item) \cap (b + 1 .. j)
    <3>1. b \in DOMAIN events /\ events[b].by = who /\ events[b].at >= OPENING_BUY
      BY DEF BuysOf
    <3>2. \A k \in b + 1 .. j : k \in DOMAIN events /\ b <= k
      BY <3>1 DEF InOrder
    <3>3. \A k \in b + 1 .. j : events[k].at >= OPENING_BUY
      BY <3>1, <3>2 DEF InOrder, OPENING_BUY
    <3>. QED
      BY <3>1, <3>2, <3>3 DEF OfItem, BuysOf, UndosOf
  <2>. QED
    BY <2>1 DEF Reversed, TakenBack, Since
<1>. QED
  BY <1>1, <1>11, <1>12 DEF Left, Remaining, S

-----------------------------------------------------------------------------
(* Visits: the purchases grouped where they are close. *)

(* The purchase j is the next of s after i. *)
Next2(i, j, s) == i < j /\ \A k \in s : k <= i \/ j <= k

(* No more than half a minute is between the purchases i and j. *)
CloseBuys(i, j) == events[j].at - events[i].at <= RECALL_CLUSTER_GAP

(* What the visits are of the purchases s. *)
Visited(visits, s) ==
    /\ visits \in Seq(SUBSET Nat)
    /\ \A i : i \in s <=> \E v \in 1 .. Len(visits) : i \in visits[v]
    /\ \A v \in 1 .. Len(visits) : visits[v] # {}
    /\ \A v, w \in 1 .. Len(visits) : v < w => \A i \in visits[v], j \in visits[w] : i < j
    /\ \A i, j \in s : Next2(i, j, s) =>
         ((\E v \in 1 .. Len(visits) : {i, j} \subseteq visits[v]) <=> CloseBuys(i, j))

(* One purchase more, filed with the visit it is close to or in one of its *)
(* own. *)
LEMMA OneMoreBuy ==
    ASSUME NEW n \in Nat, NEW s, s \subseteq 1..n, NEW b \in s, \A i \in s : i <= b,
           NEW visits, Visited(visits, s \ {b})
    PROVE  Visited(Grouped(b, visits), s)
<1>. DEFINE r == s \ {b}
            L == Len(visits)
<1>1. /\ visits \in Seq(SUBSET Nat) /\ L \in Nat
      /\ \A i : i \in r <=> \E v \in 1 .. L : i \in visits[v]
      /\ \A v \in 1 .. L : visits[v] # {} /\ visits[v] \in SUBSET Nat
      /\ \A v, w \in 1 .. L : v < w => \A i \in visits[v], j \in visits[w] : i < j
      /\ \A i, j \in r : Next2(i, j, r) =>
           ((\E v \in 1 .. L : {i, j} \subseteq visits[v]) <=> CloseBuys(i, j))
  <2>1. visits \in Seq(SUBSET Nat)
    BY DEF Visited
  <2>2. L \in Nat /\ \A v \in 1 .. L : visits[v] \in SUBSET Nat
    BY <2>1
  <2>3. \A i : i \in r <=> \E v \in 1 .. L : i \in visits[v]
    BY DEF Visited
  <2>4. \A v \in 1 .. L : visits[v] # {}
    BY DEF Visited
  <2>5. \A v, w \in 1 .. L : v < w => \A i \in visits[v], j \in visits[w] : i < j
    BY DEF Visited
  <2>6. \A i, j \in r : Next2(i, j, r) => ((\E v \in 1 .. L : {i, j} \subseteq visits[v]) <=> CloseBuys(i, j))
    BY DEF Visited
  <2>. HIDE DEF r, L
  <2>. QED
    BY <2>1, <2>2, <2>3, <2>4, <2>5, <2>6
<1>2. b \in Nat /\ \A i \in r : i \in Nat /\ i < b /\ i \in s
  <2>1. \A i \in s : i \in Nat
    OBVIOUS
  <2>2. ASSUME NEW i \in r PROVE i \in Nat /\ i < b /\ i \in s
    <3>1. i \in s /\ i # b /\ i <= b
      OBVIOUS
    <3>2. i \in Nat /\ b \in Nat
      BY <2>1, <3>1
    <3>. QED
      BY ONLY <3>1, <3>2
  <2>. QED
    BY <2>1, <2>2
<1>3. ASSUME NEW i \in r, NEW j \in r PROVE Next2(i, j, s) <=> Next2(i, j, r)
  BY <1>2 DEF Next2
<1>4. ASSUME NEW j \in s PROVE ~ Next2(b, j, s)
  BY <1>2 DEF Next2
<1>5. CASE visits = <<>>
  <2>1. L = 0 /\ r = {}
    <3>1. L = 0
      BY <1>5
    <3>. HIDE DEF L, r
    <3>. QED
      BY <1>1, <3>1
  <2>2. s = {b}
    BY <2>1
  <2>3. Grouped(b, visits) = <<{b}>>
    BY <1>5 DEF Grouped
  <2>4. Visited(<<{b}>>, {b})
    BY <1>2 DEF Visited, Next2
  <2>. QED
    BY <2>2, <2>3, <2>4
<1>6. CASE visits # <<>>
  <2>1. L >= 1 /\ Last(visits) = visits[L] /\ L \in 1 .. L
    BY <1>1, <1>6 DEF Last
  <2>. DEFINE p == Max(Last(visits))
  <2>2. p \in visits[L] /\ \A i \in visits[L] : i <= p
    <3>1. visits[L] # {} /\ \A i \in visits[L] : i \in r
      BY <1>1, <2>1
    <3>2. visits[L] \subseteq 0 .. b /\ b \in Nat
      <4>. HIDE DEF r, L
      <4>1. \A i \in visits[L] : i \in Nat /\ i < b
        BY <1>2, <3>1
      <4>. QED
        BY <1>2, <4>1
    <3>. HIDE DEF L, r
    <3>. QED
      BY <2>1, <3>1, <3>2, Extremes
  <2>. HIDE DEF p
  <2>3. p \in r /\ p \in Nat /\ p < b /\ \A i \in r : i <= p
    <3>1. p \in r
      BY <1>1, <2>1, <2>2
    <3>2. ASSUME NEW i \in r PROVE i <= p
      <4>1. PICK v \in 1 .. L : i \in visits[v]
        BY <1>1
      <4>2. CASE v = L
        BY <2>2, <4>1, <4>2
      <4>3. CASE v # L
        <5>1. v < L
          BY <1>1, <4>3
        <5>2. i < p
          BY <1>1, <2>1, <2>2, <4>1, <5>1
        <5>. QED
          BY <1>2, <3>1, <5>2
      <4>. QED
        BY <4>2, <4>3
    <3>. QED
      BY <1>2, <3>1, <3>2
  (* The purchase before the new one is the last of the last visit. *)
  <2>4. ASSUME NEW i \in s, Next2(i, b, s) PROVE i = p
    <3>1. i # b /\ i \in r
      BY <1>2, <2>4 DEF Next2
    <3>2. p <= i \/ b <= p
      BY <2>3, <2>4, <1>2 DEF Next2
    <3>. QED
      BY <1>2, <2>3, <3>1, <3>2
  <2>5. CASE CloseBuys(p, b)
    <3>. DEFINE more == [visits EXCEPT ![L] = @ \cup {b}]
    <3>1. Grouped(b, visits) = more
      BY <1>6, <2>5 DEF Grouped, CloseBuys, p
    <3>2. /\ more \in Seq(SUBSET Nat) /\ Len(more) = L
          /\ \A v \in 1 .. L : more[v] = IF v = L THEN visits[L] \cup {b} ELSE visits[v]
      <4>1. visits[L] \cup {b} \in SUBSET Nat
        BY <1>1, <1>2, <2>1
      <4>. QED
        BY <1>1, <2>1, <4>1
    <3>. HIDE DEF more
    <3>3. \A i : i \in s <=> \E v \in 1 .. L : i \in more[v]
      <4>1. ASSUME NEW i, i \in s PROVE \E v \in 1 .. L : i \in more[v]
        <5>1. CASE i = b
          BY <2>1, <3>2, <5>1
        <5>2. CASE i # b
          <6>1. PICK v \in 1 .. L : i \in visits[v]
            BY <1>1, <4>1, <5>2
          <6>2. i \in more[v]
            BY <3>2, <6>1
          <6>. QED
            BY <6>2
        <5>. QED
          BY <5>1, <5>2
      <4>2. ASSUME NEW v \in 1 .. L, NEW i \in more[v] PROVE i \in s
        <5>1. i = b \/ i \in visits[v]
          BY <3>2
        <5>2. i = b \/ i \in r
          BY <1>1, <5>1
        <5>. QED
          BY <5>2
      <4>. QED
        BY <4>1, <4>2
    <3>4. \A v \in 1 .. L : more[v] # {}
      BY <1>1, <3>2
    <3>5. ASSUME NEW v \in 1 .. L, NEW w \in 1 .. L, v < w, NEW i \in more[v], NEW j \in more[w] PROVE i < j
      <4>1. v # L /\ more[v] = visits[v]
        BY <1>1, <3>2, <3>5
      <4>2. i \in visits[v] /\ i \in r
        BY <1>1, <4>1
      <4>3. j = b \/ j \in visits[w]
        BY <3>2
      <4>. QED
        BY <1>1, <1>2, <3>5, <4>2, <4>3
    <3>6. ASSUME NEW i \in s, NEW j \in s, Next2(i, j, s)
          PROVE  (\E v \in 1 .. L : {i, j} \subseteq more[v]) <=> CloseBuys(i, j)
      <4>1. i # b /\ i \in r
        BY <1>4, <3>6
      <4>2. CASE j = b
        <5>1. i = p
          BY <2>4, <3>6, <4>2
        <5>2. {i, j} \subseteq more[L]
          BY <2>1, <2>2, <3>2, <4>2, <5>1
        <5>. QED
          BY <2>1, <2>5, <4>2, <5>1, <5>2
      <4>3. CASE j # b
        <5>1. j \in r /\ Next2(i, j, r)
          BY <1>3, <3>6, <4>1, <4>3
        <5>2. \A v \in 1 .. L : {i, j} \subseteq more[v] <=> {i, j} \subseteq visits[v]
          BY <3>2, <4>1, <4>3
        <5>3. (\E v \in 1 .. L : {i, j} \subseteq visits[v]) <=> CloseBuys(i, j)
          BY <1>1, <4>1, <5>1
        <5>. HIDE DEF r, L
        <5>. QED
          BY <5>2, <5>3
      <4>. QED
        BY <4>2, <4>3
    <3>. QED
      BY <3>1, <3>2, <3>3, <3>4, <3>5, <3>6 DEF Visited
  <2>6. CASE ~ (CloseBuys(p, b))
    <3>. DEFINE more == Append(visits, {b})
    <3>1. Grouped(b, visits) = more
      BY <2>6 DEF Grouped, CloseBuys, p
    <3>2. /\ more \in Seq(SUBSET Nat) /\ Len(more) = L + 1
          /\ \A v \in 1 .. L : more[v] = visits[v]
          /\ more[L + 1] = {b}
      BY <1>1, <1>2
    <3>. HIDE DEF more
    <3>2a. \A v \in 1 .. L + 1 : v \in 1 .. L \/ v = L + 1
      BY <1>1
    <3>2b. L + 1 \in 1 .. L + 1 /\ \A v \in 1 .. L : v \in 1 .. L + 1 /\ v # L + 1
      BY <1>1
    <3>3. \A i : i \in s <=> \E v \in 1 .. L + 1 : i \in more[v]
      <4>1. ASSUME NEW i, i \in s PROVE \E v \in 1 .. L + 1 : i \in more[v]
        <5>1. CASE i = b
          BY <3>2, <3>2b, <5>1
        <5>2. CASE i # b
          <6>1. PICK v \in 1 .. L : i \in visits[v]
            BY <1>1, <4>1, <5>2
          <6>. QED
            BY <3>2, <3>2b, <6>1
        <5>. QED
          BY <5>1, <5>2
      <4>2. ASSUME NEW v \in 1 .. L + 1, NEW i \in more[v] PROVE i \in s
        <5>1. i = b \/ (v \in 1 .. L /\ i \in visits[v])
          BY <3>2, <3>2a
        <5>2. i = b \/ i \in r
          BY <1>1, <5>1
        <5>. QED
          BY <5>2
      <4>. QED
        BY <4>1, <4>2
    <3>4. \A v \in 1 .. L + 1 : more[v] # {}
      BY <1>1, <3>2, <3>2a
    <3>5. ASSUME NEW v \in 1 .. L + 1, NEW w \in 1 .. L + 1, v < w, NEW i \in more[v], NEW j \in more[w] PROVE i < j
      <4>1. v \in 1 .. L
        BY <1>1, <3>5
      <4>2. i \in visits[v] /\ i \in r
        BY <1>1, <3>2, <4>1
      <4>3. CASE w = L + 1
        BY <1>2, <3>2, <4>2, <4>3
      <4>4. CASE w \in 1 .. L
        BY <1>1, <3>2, <3>5, <4>1, <4>2, <4>4
      <4>. QED
        BY <3>2a, <4>3, <4>4
    <3>6. ASSUME NEW i \in s, NEW j \in s, Next2(i, j, s)
          PROVE  (\E v \in 1 .. L + 1 : {i, j} \subseteq more[v]) <=> CloseBuys(i, j)
      <4>1. i # b /\ i \in r
        BY <1>4, <3>6
      <4>2. CASE j = b
        <5>1. i = p
          BY <2>4, <3>6, <4>2
        <5>2. ASSUME NEW v \in 1 .. L + 1, {i, j} \subseteq more[v] PROVE FALSE
          <6>1. CASE v = L + 1
            BY <3>2, <4>1, <5>2, <6>1
          <6>2. CASE v \in 1 .. L
            <7>1. b \in visits[v]
              BY <3>2, <4>2, <5>2, <6>2
            <7>. QED
              BY <1>1, <6>2, <7>1
          <6>. QED
            BY <3>2a, <6>1, <6>2
        <5>. QED
          BY <2>6, <4>2, <5>1, <5>2
      <4>3. CASE j # b
        <5>1. j \in r /\ Next2(i, j, r)
          BY <1>3, <3>6, <4>1, <4>3
        <5>2. \A v \in 1 .. L + 1 : {i, j} \subseteq more[v] <=> (v \in 1 .. L /\ {i, j} \subseteq visits[v])
          BY <3>2, <3>2a, <3>2b, <4>1, <4>3
        <5>3. (\E v \in 1 .. L + 1 : {i, j} \subseteq more[v]) <=> (\E v \in 1 .. L : {i, j} \subseteq visits[v])
          BY <3>2b, <5>2
        <5>. QED
          BY <1>1, <4>1, <5>1, <5>3
      <4>. QED
        BY <4>2, <4>3
    <3>. QED
      BY <3>1, <3>2, <3>3, <3>4, <3>5, <3>6 DEF Visited
  <2>. QED
    BY <2>5, <2>6
<1>. QED
  BY <1>5, <1>6

(* Grouped one after the other, the purchases left are visits. *)
LEMMA VisitsAreVisited ==
    ASSUME InOrder, NEW who
    PROVE  Visited(VisitsOf(who), Remaining(who))
<1>. DEFINE S == Kept(who)
            V == Seq(SUBSET Nat)
            Body(h) == [s \in SUBSET S |->
                          IF s = {} THEN <<>> ELSE Grouped(Max(s), h[s \ {Max(s)}])]
            iter == CHOOSE h : h = Body(h)
            op == [p \in S \X V |-> Grouped(p[1], p[2])]
            pick == [s \in SUBSET S |-> Max(s)]
<1>1. VisitsOf(who) = iter[S]
  BY DEF VisitsOf, MapThenFoldSet
<1>2. IsFiniteSet(S) /\ S \subseteq 1 .. Len(events) /\ Len(events) \in Nat
  <2>1. S \subseteq 1 .. Len(events)
    BY KeptIsRemaining, MovesAre DEF Remaining
  <2>2. Len(events) \in Nat
    BY DEF InOrder
  <2>3. IsFiniteSet(1 .. Len(events))
    BY <2>2, FS_Interval
  <2>. HIDE DEF S
  <2>. QED
    BY <2>1, <2>2, <2>3, FS_Subset
<1>. HIDE DEF S
<1>3. \A s \in SUBSET S : s # {} => Max(s) \in s /\ \A i \in s : i <= Max(s)
  <2>1. ASSUME NEW s \in SUBSET S, s # {} PROVE Max(s) \in s /\ \A i \in s : i <= Max(s)
    <3>1. s \subseteq 0 .. Len(events)
      BY <1>2
    <3>. QED
      BY <1>2, <2>1, <3>1, Extremes
  <2>. QED
    BY <2>1
<1>4. op \in [S \X V -> V] /\ <<>> \in V
  <2>1. ASSUME NEW x \in S, NEW out \in V PROVE Grouped(x, out) \in V
    <3>1. {x} \in SUBSET Nat
      BY <1>2
    <3>2. Append(out, {x}) \in V
      BY <3>1
    <3>3. CASE out # <<>>
      <4>1. Len(out) \in 1 .. Len(out) /\ out[Len(out)] \cup {x} \in SUBSET Nat
        BY <3>1, <3>3
      <4>2. [out EXCEPT ![Len(out)] = @ \cup {x}] \in V
        BY <4>1
      <4>. QED
        BY <3>2, <4>2 DEF Grouped
    <3>. QED
      BY <3>2, <3>3 DEF Grouped
  <2>2. \A p \in S \X V : p[1] \in S /\ p[2] \in V
    OBVIOUS
  <2>3. <<>> \in V
    OBVIOUS
  <2>. HIDE DEF V
  <2>. QED
    BY <2>1, <2>2, <2>3
<1>5. \A s \in SUBSET S : s # {} => pick[s] \in s
  BY <1>3
<1>6. \E F : FoldsBy(F, S, V, <<>>, op, pick)
  <2>. HIDE DEF V, op, pick
  <2>. QED
    BY <1>2, <1>4, <1>5, FoldExists
<1>7. PICK F : FoldsBy(F, S, V, <<>>, op, pick)
  BY <1>6
<1>8. F = Body(F)
  <2>1. ASSUME NEW s \in SUBSET S PROVE F[s] = Body(F)[s]
    <3>1. F[s] = IF s = {} THEN <<>> ELSE op[<<pick[s], F[s \ {pick[s]}]>>]
      <4>. HIDE DEF V, op, pick
      <4>. QED
        BY <1>7 DEF FoldsBy
    <3>2. s # {} => pick[s] \in S /\ F[s \ {pick[s]}] \in V
      <4>1. s # {} => pick[s] \in S
        BY <1>5
      <4>. HIDE DEF V, op, pick
      <4>. QED
        BY <1>7, <4>1 DEF FoldsBy
    <3>3. s # {} => op[<<pick[s], F[s \ {pick[s]}]>>] = Grouped(pick[s], F[s \ {pick[s]}])
      <4>. HIDE DEF V, pick
      <4>. QED
        BY <3>2
    <3>4. pick[s] = Max(s)
      OBVIOUS
    <3>. HIDE DEF V, op, pick
    <3>. QED
      BY <3>1, <3>3, <3>4
  <2>2. F = [s \in SUBSET S |-> F[s]]
    <3>. HIDE DEF V, op, pick
    <3>. QED
      BY <1>7 DEF FoldsBy
  <2>. HIDE DEF V, op, pick
  <2>. QED
    BY <2>1, <2>2
<1>9. iter = Body(iter)
  <2>. HIDE DEF Body
  <2>. QED
    BY <1>8
<1>. HIDE DEF iter
<1>. DEFINE Good == {s \in SUBSET S : Visited(iter[s], s)}
<1>10. ASSUME NEW s \in SUBSET S, \A r \in SUBSET s : r # s => r \in Good PROVE s \in Good
  <2>0. iter[s] = Body(iter)[s]
    BY <1>9
  <2>1. CASE s = {}
    <3>1. iter[s] = <<>>
      BY <2>0, <2>1
    <3>2. Visited(<<>>, {})
      BY DEF Visited
    <3>. QED
      BY <2>1, <3>1, <3>2
  <2>2. CASE s # {}
    <3>. DEFINE x == Max(s)
    <3>1. x \in s /\ \A j \in s : j <= x
      BY <1>3, <2>2
    <3>2. iter[s] = Grouped(x, iter[s \ {x}])
      BY <2>0, <2>2
    <3>. HIDE DEF x
    <3>3. s \ {x} \in Good
      BY <1>10, <3>1
    <3>4. Visited(iter[s \ {x}], s \ {x})
      BY <3>3
    <3>5. s \subseteq 1 .. Len(events)
      BY <1>2
    <3>6. Visited(iter[s], s)
      <4>1. Len(events) \in Nat
        BY <1>2
      <4>2. Visited(Grouped(x, iter[s \ {x}]), s)
        BY ONLY <3>1, <3>4, <3>5, <4>1, OneMoreBuy
      <4>. QED
        BY <3>2, <4>2
    <3>. QED
      BY <3>6
  <2>. QED
    BY <2>1, <2>2
<1>11. Visited(iter[S], S)
  <2>1. \A s \in SUBSET S : s \in Good
    <3>. HIDE DEF Good
    <3>. QED
      BY <1>2, <1>10, SubsetInduction
  <2>. QED
    BY <2>1
<1>12. S = Remaining(who)
  BY KeptIsRemaining DEF S
<1>. QED
  BY <1>1, <1>11, <1>12

(* The visits hold the purchases nobody took back, each once, in order, *)
(* grouped by closeness. *)
LEMMA VisitsArePurchasesHolds ==
    ASSUME InOrder
    PROVE  VisitsArePurchases
<1>1. SUFFICES ASSUME NEW who \in {"me", "laner"}
      PROVE  LET visits == VisitsOf(who)
                 kept == Remaining(who)
                 next(i, j) == i < j /\ \A k \in kept : k <= i \/ j <= k
                 together(i, j) == \E v \in DOMAIN visits : {i, j} \subseteq visits[v]
             IN  /\ UNION ToSet(visits) = kept
                 /\ {} \notin ToSet(visits)
                 /\ \A v, w \in DOMAIN visits : v < w => \A i \in visits[v], j \in visits[w] : i < j
                 /\ \A i, j \in kept : next(i, j) =>
                      (together(i, j) <=> events[j].at - events[i].at <= RECALL_CLUSTER_GAP)
  BY DEF VisitsArePurchases
<1>. DEFINE visits == VisitsOf(who)
            kept == Remaining(who)
<1>2. Visited(visits, kept)
  BY VisitsAreVisited
<1>. HIDE DEF visits, kept
<1>3. DOMAIN visits = 1 .. Len(visits) /\ ToSet(visits) = {visits[v] : v \in 1 .. Len(visits)}
  BY <1>2 DEF Visited, ToSet
<1>4. UNION ToSet(visits) = kept
  <2>1. \A i : i \in kept <=> \E v \in 1 .. Len(visits) : i \in visits[v]
    BY <1>2 DEF Visited
  <2>. QED
    BY <1>3, <2>1
<1>5. {} \notin ToSet(visits)
  BY <1>2, <1>3 DEF Visited
<1>6. \A v, w \in DOMAIN visits : v < w => \A i \in visits[v], j \in visits[w] : i < j
  BY <1>2, <1>3 DEF Visited
<1>7. ASSUME NEW i \in kept, NEW j \in kept, i < j /\ \A k \in kept : k <= i \/ j <= k
      PROVE  (\E v \in DOMAIN visits : {i, j} \subseteq visits[v]) <=> events[j].at - events[i].at <= RECALL_CLUSTER_GAP
  <2>1. Next2(i, j, kept)
    BY <1>7 DEF Next2
  <2>. QED
    BY <1>2, <1>3, <2>1 DEF Visited, CloseBuys
<1>. QED
  BY <1>4, <1>5, <1>6, <1>7 DEF visits, kept

-----------------------------------------------------------------------------
(* What is said of a visit is around it. *)

(* A frame was written at every minute; the one that ends the game is at   *)
(* its last instant.                                                       *)
Regular ==
    /\ Len(frames) \in Nat \ {0} /\ DOMAIN frames = 1 .. Len(frames)
    /\ \A i \in 1 .. Len(frames) : i = Len(frames) \/ frames[i].at = 2 * (i - 1)
    /\ ~over => frames[Len(frames)].at = 2 * (Len(frames) - 1)
                /\ (now = 2 * (Len(frames) - 1) \/ now = 2 * (Len(frames) - 1) + 1)
    /\ over => frames[Len(frames)].at = now
               /\ (now = 2 * (Len(frames) - 1) \/ now = 2 * (Len(frames) - 1) - 1)

(* A frame is filed under a minute half a minute away at most. *)
LEMMA FiledNear ==
    ASSUME NEW at \in Nat
    PROVE  /\ Filed(at) \in Nat
           /\ at = 2 * Filed(at) - 1 \/ at = 2 * Filed(at) \/ at = 2 * Filed(at) + 1
  BY DEF Filed, MINUTE

(* Two minutes after another, minutes hold their own frames, but that the  *)
(* frame that ends the game may stand for the later one.                   *)
LEMMA MinutesApart ==
    ASSUME Regular, now \in Nat, NEW m \in Nat, m + 2 \in Minutes, m \in Minutes
    PROVE  /\ ByMinute(m).at = 2 * m
           /\ ByMinute(m + 2).at \in {2 * m + 3, 2 * m + 4, 2 * m + 5}
           /\ ByMinute(m + 2).at # 2 * m + 4 => over /\ ByMinute(m + 2).at = Last(frames).at
<1>. DEFINE L == Len(frames)
            F(k) == {i \in DOMAIN frames : Filed(frames[i].at) = k}
<1>1. /\ L \in Nat /\ L >= 1 /\ DOMAIN frames = 1 .. L
      /\ \A i \in 1 .. L : frames[i].at \in Nat
      /\ \A i \in 1 .. L : i = L \/ frames[i].at = 2 * (i - 1)
      /\ frames[L].at = 2 * (L - 1) \/ frames[L].at = 2 * (L - 1) - 1
      /\ frames[L].at # 2 * (L - 1) => over
  <2>1. /\ L \in Nat /\ L >= 1 /\ DOMAIN frames = 1 .. L
        /\ \A i \in 1 .. L : i = L \/ frames[i].at = 2 * (i - 1)
        /\ frames[L].at = 2 * (L - 1) \/ frames[L].at = 2 * (L - 1) - 1
        /\ frames[L].at # 2 * (L - 1) => over
    <3>1. L \in Nat /\ L >= 1 /\ DOMAIN frames = 1 .. L
      <4>1. L \in Nat \ {0} /\ DOMAIN frames = 1 .. L
        BY DEF Regular
      <4>. HIDE DEF L
      <4>. QED
        BY <4>1
    <3>2. \A i \in 1 .. L : i = L \/ frames[i].at = 2 * (i - 1)
      BY DEF Regular
    <3>3. ~over => frames[L].at = 2 * (L - 1)
      BY DEF Regular
    <3>4. over => frames[L].at = 2 * (L - 1) \/ frames[L].at = 2 * (L - 1) - 1
      <4>1. over => frames[L].at = now /\ (now = 2 * (L - 1) \/ now = 2 * (L - 1) - 1)
        BY DEF Regular
      <4>. HIDE DEF L
      <4>. QED
        BY <4>1
    <3>. HIDE DEF L
    <3>. QED
      BY <3>1, <3>2, <3>3, <3>4
  <2>2. frames[L].at \in Nat
    <3>1. over => frames[L].at = now
      BY DEF Regular
    <3>2. ~over => frames[L].at = 2 * (L - 1)
      BY DEF Regular
    <3>. HIDE DEF L
    <3>. QED
      BY <2>1, <3>1, <3>2
  <2>3. ASSUME NEW i \in 1 .. L PROVE frames[i].at \in Nat
    <3>1. CASE i = L
      BY <2>2, <3>1
    <3>2. CASE i # L
      <4>1. frames[i].at = 2 * (i - 1)
        BY <2>1, <3>2
      <4>. HIDE DEF L
      <4>. QED
        BY <2>1, <4>1
    <3>. QED
      BY <3>1, <3>2
  <2>. QED
    BY <2>1, <2>3
<1>2. ASSUME NEW i \in 1 .. L
      PROVE  /\ Filed(frames[i].at) \in Nat /\ Filed(frames[i].at) <= L - 1
             /\ i # L => Filed(frames[i].at) = i - 1
             /\ i = L => Filed(frames[i].at) >= L - 2
  <2>1. /\ Filed(frames[i].at) \in Nat
        /\ \/ frames[i].at = 2 * Filed(frames[i].at) - 1
           \/ frames[i].at = 2 * Filed(frames[i].at)
           \/ frames[i].at = 2 * Filed(frames[i].at) + 1
    BY <1>1, FiledNear
  <2>. HIDE DEF L
  <2>2. CASE i = L
    BY <1>1, <2>1, <2>2
  <2>3. CASE i # L
    BY <1>1, <2>1, <2>3
  <2>. QED
    BY <2>2, <2>3
<1>3. PICK i \in 1 .. L : Filed(frames[i].at) = m + 2
  BY <1>1 DEF Minutes
<1>4. m + 2 <= L - 1
  BY <1>2, <1>3
<1>5. F(m) = {m + 1} /\ m + 1 \in 1 .. L /\ m + 1 # L
  <2>1. m + 1 \in 1 .. L /\ m + 1 # L
    <3>. HIDE DEF L
    <3>. QED
      BY <1>1, <1>4
  <2>2. Filed(frames[m + 1].at) = m
    BY <1>2, <2>1
  <2>3. ASSUME NEW j \in 1 .. L, Filed(frames[j].at) = m PROVE j = m + 1
    <3>1. j # L
      <4>1. ~ (m >= L - 2)
        <5>. HIDE DEF L, F
        <5>. QED
          BY <1>1, <1>4
      <4>. QED
        BY <1>2, <2>3, <4>1
    <3>2. m = j - 1
      BY <1>2, <2>3, <3>1
    <3>. QED
      BY <3>2
  <2>. HIDE DEF L
  <2>. QED
    BY <1>1, <2>1, <2>2, <2>3
<1>6. ByMinute(m).at = 2 * m
  <2>1. Max({m + 1}) = m + 1
    BY Extremes
  <2>2. frames[m + 1].at = 2 * m
    <3>1. frames[m + 1].at = 2 * (m + 1 - 1)
      <4>. HIDE DEF L, F
      <4>. QED
        BY <1>1, <1>5
    <3>. QED
      BY <3>1
  <2>. QED
    BY <1>5, <2>1, <2>2 DEF ByMinute
<1>. DEFINE k == Max(F(m + 2))
<1>7. k \in 1 .. L /\ Filed(frames[k].at) = m + 2 /\ ByMinute(m + 2) = frames[k]
  <2>1. F(m + 2) # {} /\ F(m + 2) \subseteq 0 .. L
    <3>1. i \in F(m + 2)
      BY <1>1, <1>3
    <3>2. F(m + 2) \subseteq 1 .. L
      BY <1>1
    <3>3. \A j \in 1 .. L : j \in 0 .. L
      OBVIOUS
    <3>. HIDE DEF F, L
    <3>. QED
      BY <3>1, <3>2, <3>3
  <2>2. Max(F(m + 2)) \in F(m + 2)
    <3>. HIDE DEF F, L
    <3>. QED
      BY <1>1, <2>1, Extremes
  <2>. QED
    BY <1>1, <2>2 DEF ByMinute
<1>. HIDE DEF k
<1>8. /\ frames[k].at \in Nat
      /\ frames[k].at = 2 * (m + 2) - 1 \/ frames[k].at = 2 * (m + 2) \/ frames[k].at = 2 * (m + 2) + 1
  <2>1. frames[k].at \in Nat
    BY <1>1, <1>7
  <2>. QED
    BY <1>7, <2>1, FiledNear
<1>9. frames[k].at # 2 * m + 4 => over /\ k = L
  <2>1. CASE k = L
    <3>1. ASSUME frames[k].at = 2 * (L - 1) PROVE frames[k].at = 2 * m + 4
      <4>. HIDE DEF L
      <4>. QED
        BY <1>1, <1>8, <3>1
    <3>. QED
      BY <1>1, <2>1, <3>1
  <2>2. CASE k # L
    <3>1. frames[k].at = 2 * (k - 1)
      BY <1>1, <1>7, <2>2
    <3>2. k \in Nat
      BY <1>7
    <3>. QED
      BY <1>8, <3>1, <3>2
  <2>. QED
    BY <2>1, <2>2
<1>10. ByMinute(m + 2).at = frames[k].at /\ Last(frames) = frames[L]
  BY <1>7 DEF Last
<1>11. frames[k].at \in {2 * m + 3, 2 * m + 4, 2 * m + 5}
  BY <1>8
<1>. QED
  BY <1>6, <1>9, <1>10, <1>11

(* The first purchase of a visit is one of those left. *)
LEMMA VisitStarts ==
    ASSUME InOrder, NEW who, NEW v \in DOMAIN VisitsOf(who)
    PROVE  /\ Min(VisitsOf(who)[v]) \in Remaining(who)
           /\ Start(VisitsOf(who)[v]) \in Nat /\ Start(VisitsOf(who)[v]) <= now
<1>. DEFINE visit == VisitsOf(who)[v]
<1>1. visit # {} /\ visit \subseteq Remaining(who)
  <2>1. Visited(VisitsOf(who), Remaining(who))
    BY VisitsAreVisited
  <2>2. v \in 1 .. Len(VisitsOf(who))
    BY <2>1 DEF Visited
  <2>3. \A i : i \in Remaining(who) <=> \E w \in 1 .. Len(VisitsOf(who)) : i \in VisitsOf(who)[w]
    BY <2>1 DEF Visited
  <2>4. visit # {}
    BY <2>1, <2>2 DEF Visited
  <2>. QED
    BY <2>2, <2>3, <2>4
<1>2. Remaining(who) \subseteq 1 .. Len(events) /\ Len(events) \in Nat
  <2>1. Remaining(who) \subseteq BuysOf(who) /\ BuysOf(who) \subseteq 1 .. Len(events)
    BY MovesAre DEF Remaining
  <2>. QED
    BY <2>1 DEF InOrder
<1>. HIDE DEF visit
<1>3. Min(visit) \in visit
  <2>1. visit \subseteq 0 .. Len(events)
    BY <1>1, <1>2
  <2>. QED
    BY <1>1, <1>2, <2>1, Extremes
<1>4. Min(visit) \in DOMAIN events
  BY <1>1, <1>2, <1>3 DEF InOrder
<1>5. events[Min(visit)].at \in Nat /\ events[Min(visit)].at <= now
  BY <1>4 DEF InOrder
<1>. QED
  BY <1>1, <1>3, <1>5 DEF Start, visit

(* The cost of a visit is measured over its two minutes. *)
LEMMA CostIsFair ==
    ASSUME Regular, now \in Nat, NEW t \in Nat, CsCost(t) # None
    PROVE  /\ CsCost(t).from <= t /\ t < CsCost(t).to
           /\ CsCost(t).to - CsCost(t).from \in {3, 4, 5}
           /\ CsCost(t).to - CsCost(t).from # 4 => over /\ CsCost(t).to = Last(frames).at
<1>. DEFINE m == t \div MINUTE
<1>1. {m, m + CS_WINDOW_MIN} \subseteq Minutes
  BY DEF CsCost
<1>2. m \in Nat /\ (t = 2 * m \/ t = 2 * m + 1) /\ CS_WINDOW_MIN = 2
  BY DEF MINUTE, CS_WINDOW_MIN
<1>3. CsCost(t).from = ByMinute(m).at /\ CsCost(t).to = ByMinute(m + CS_WINDOW_MIN).at
  BY DEF CsCost
<1>. HIDE DEF m
<1>4. /\ ByMinute(m).at = 2 * m
      /\ ByMinute(m + 2).at \in {2 * m + 3, 2 * m + 4, 2 * m + 5}
      /\ ByMinute(m + 2).at # 2 * m + 4 => over /\ ByMinute(m + 2).at = Last(frames).at
  BY <1>1, <1>2, MinutesApart
<1>. QED
  BY <1>2, <1>3, <1>4

(* The nearest of finitely many, the first of them on equal distances. *)
LEMMA NearestExists ==
    ASSUME NEW n \in Nat, NEW S, S \subseteq 1..n, S # {}, NEW far \in [S -> Int]
    PROVE  \E i \in S : \A j \in S : far[i] < far[j] \/ (far[i] = far[j] /\ i <= j)
<1>. DEFINE before(i, j) == far[i] < far[j] \/ (far[i] = far[j] /\ i <= j)
            R == {p \in S \X S : before(p[1], p[2])}
<1>1. IsFiniteSet(S)
  <2>1. IsFiniteSet(1..n)
    BY FS_Interval
  <2>. QED
    BY <2>1, FS_Subset
<1>2. \A i, j \in S : <<i, j>> \in R <=> before(i, j)
  OBVIOUS
<1>3. \A i \in S : i \in Nat /\ far[i] \in Int
  OBVIOUS
<1>4. \A x, y, z \in S : <<x, y>> \in R /\ <<y, z>> \in R => <<x, z>> \in R
  BY <1>2, <1>3
<1>5. \A x, y \in S : x # y => <<x, y>> \in R \/ <<y, x>> \in R
  BY <1>2, <1>3
<1>6. \A x \in S : before(x, x)
  BY <1>3
<1>. HIDE DEF R
<1>7. PICK x \in S : \A y \in S \ {x} : <<x, y>> \in R
  BY ONLY S # {}, <1>1, <1>4, <1>5, LeastExists
<1>8. \A y \in S : before(x, y)
  <2>. HIDE DEF before
  <2>. QED
    BY <1>2, <1>6, <1>7
<1>. QED
  BY <1>8

(* The spike told of the opponent is one of their visits, near enough. *)
LEMMA SpikeIsNear ==
    ASSUME InOrder, NEW t \in Nat, OpponentSpike(t) # None
    PROVE  /\ Apart(OpponentSpike(t).at, t) <= SPIKE_WINDOW
           /\ \E b \in Remaining("laner") : events[b].at = OpponentSpike(t).at
<1>. DEFINE theirs == IF game.lineup.laner THEN VisitsOf("laner") ELSE <<>>
            far(i) == Apart(Start(theirs[i]), t)
            spikes == {i \in DOMAIN theirs : /\ far(i) <= SPIKE_WINDOW
                                             /\ Outcome(theirs[i]) # None
                                             /\ Outcome(theirs[i]).finished # {}}
            best == CHOOSE i \in spikes : \A j \in spikes : far(i) < far(j) \/ (far(i) = far(j) /\ i <= j)
<1>1. spikes # {} /\ OpponentSpike(t) = [at |-> Start(theirs[best]), items |-> Outcome(theirs[best]).finished]
  BY DEF OpponentSpike
<1>2. OpponentSpike(t).at = Start(theirs[best])
  <2>. HIDE DEF theirs, best, spikes
  <2>. QED
    BY <1>1
<1>3. /\ Len(theirs) \in Nat /\ DOMAIN theirs = 1 .. Len(theirs)
      /\ \A i \in DOMAIN theirs : game.lineup.laner /\ theirs = VisitsOf("laner")
  <2>1. CASE game.lineup.laner
    <3>1. Visited(VisitsOf("laner"), Remaining("laner"))
      BY VisitsAreVisited
    <3>. QED
      BY <2>1, <3>1 DEF Visited
  <2>2. CASE ~ game.lineup.laner
    BY <2>2
  <2>. QED
    BY <2>1, <2>2
<1>4. ASSUME NEW i \in DOMAIN theirs
      PROVE  /\ i \in Nat /\ far(i) \in Nat
             /\ \E b \in Remaining("laner") : events[b].at = Start(theirs[i])
  <2>1. theirs = VisitsOf("laner")
    BY <1>3
  <2>2. /\ Min(VisitsOf("laner")[i]) \in Remaining("laner")
        /\ Start(VisitsOf("laner")[i]) \in Nat
    BY <1>4, <2>1, VisitStarts
  <2>3. far(i) \in Nat
    <3>1. Start(theirs[i]) \in Nat
      BY <2>1, <2>2
    <3>. HIDE DEF theirs
    <3>. QED
      BY <3>1 DEF Apart
  <2>. HIDE DEF theirs
  <2>. QED
    BY <1>3, <2>1, <2>2, <2>3 DEF Start
<1>5. \E i \in spikes : \A j \in spikes : far(i) < far(j) \/ (far(i) = far(j) /\ i <= j)
  <2>1. spikes \subseteq 1 .. Len(theirs) /\ spikes # {}
    BY <1>1, <1>3
  <2>. HIDE DEF spikes, theirs
  <2>2. [i \in spikes |-> far(i)] \in [spikes -> Int]
    <3>1. \A i \in spikes : far(i) \in Int
      <4>. HIDE DEF far
      <4>. QED
        BY <1>3, <1>4, <2>1
    <3>. HIDE DEF far
    <3>. QED
      BY <3>1
  <2>. HIDE DEF far
  <2>3. \E i \in spikes : \A j \in spikes :
          \/ [k \in spikes |-> far(k)][i] < [k \in spikes |-> far(k)][j]
          \/ ([k \in spikes |-> far(k)][i] = [k \in spikes |-> far(k)][j] /\ i <= j)
    BY <1>3, <2>1, <2>2, NearestExists
  <2>. QED
    BY <2>3
<1>6. best \in spikes
  <2>. HIDE DEF spikes, far
  <2>. QED
    BY <1>5
<1>7. best \in DOMAIN theirs /\ Apart(Start(theirs[best]), t) <= SPIKE_WINDOW
  <2>. HIDE DEF best, theirs
  <2>. QED
    BY <1>6
<1>. HIDE DEF best, theirs
<1>. QED
  BY <1>2, <1>4, <1>7

(* The death a visit is charged with is the first after it. *)
LEMMA DeathIsFirst ==
    ASSUME InOrder, NEW t \in Nat, DeathAfterVisit(t) # None
    PROVE  \A d \in DeathTimes : d <= t \/ d >= DeathAfterVisit(t)[1]
<1>. DEFINE after == {d \in DeathTimes : t < d /\ d <= t + RECALL_DEATH_WINDOW}
<1>1. after # {} /\ DeathAfterVisit(t) = <<Min(after)>>
  BY DEF DeathAfterVisit
<1>2. \A d \in DeathTimes : d \in Nat
  BY DEF DeathTimes, ToSet, InOrder
<1>3. after \subseteq 0 .. t + RECALL_DEATH_WINDOW /\ t + RECALL_DEATH_WINDOW \in Nat
  BY <1>2 DEF RECALL_DEATH_WINDOW
<1>4. Min(after) \in after /\ \A d \in after : Min(after) <= d
  <2>. HIDE DEF after
  <2>. QED
    BY <1>1, <1>3, Extremes
<1>5. ASSUME NEW d \in DeathTimes PROVE d <= t \/ d >= Min(after)
  <2>1. d \in Nat /\ Min(after) \in Nat /\ Min(after) <= t + RECALL_DEATH_WINDOW
    BY <1>2, <1>4
  <2>2. CASE d \in after
    BY <1>4, <2>1, <2>2
  <2>3. CASE d \notin after
    <3>1. ~ (t < d /\ d <= t + RECALL_DEATH_WINDOW)
      BY <2>3
    <3>. HIDE DEF after
    <3>. QED
      BY <1>3, <2>1, <3>1
  <2>. QED
    BY <2>2, <2>3
<1>6. DeathAfterVisit(t)[1] = Min(after)
  BY <1>1
<1>. QED
  BY <1>5, <1>6

(* The cost of a visit is read around it, and its spike is near. *)
LEMMA VisitsAreFairHolds ==
    ASSUME InOrder, Regular
    PROVE  VisitsAreFair
<1>1. ASSUME NEW r \in ToSet(Recalls)
      PROVE  /\ r.cost # None => /\ r.cost.from <= r.at /\ r.at < r.cost.to
                                 /\ r.cost.to - r.cost.from \in {3, 4, 5}
                                 /\ r.cost.to - r.cost.from # 4 => over /\ r.cost.to = Last(frames).at
             /\ r.spike # None => /\ Apart(r.spike.at, r.at) <= SPIKE_WINDOW
                                  /\ \E b \in Remaining("laner") : events[b].at = r.spike.at
             /\ r.death # None => \A d \in DeathTimes : d <= r.at \/ d >= r.death[1]
  <2>1. PICK v \in DOMAIN VisitsOf("me") : r = VisitEntry(VisitsOf("me")[v])
    BY <1>1 DEF ToSet, Recalls
  <2>. DEFINE t == Start(VisitsOf("me")[v])
  <2>2. t \in Nat
    BY VisitStarts
  <2>3. r.at = t /\ r.cost = CsCost(t) /\ r.spike = OpponentSpike(t) /\ r.death = DeathAfterVisit(t)
    BY <2>1 DEF VisitEntry
  <2>4. now \in Nat
    BY DEF InOrder
  <2>. HIDE DEF t
  <2>5. r.cost # None => /\ r.cost.from <= r.at /\ r.at < r.cost.to
                         /\ r.cost.to - r.cost.from \in {3, 4, 5}
                         /\ r.cost.to - r.cost.from # 4 => over /\ r.cost.to = Last(frames).at
    BY <2>2, <2>3, <2>4, CostIsFair
  <2>6. r.spike # None => /\ Apart(r.spike.at, r.at) <= SPIKE_WINDOW
                          /\ \E b \in Remaining("laner") : events[b].at = r.spike.at
    BY <2>2, <2>3, SpikeIsNear
  <2>7. r.death # None => \A d \in DeathTimes : d <= r.at \/ d >= r.death[1]
    BY <2>2, <2>3, DeathIsFirst
  <2>. QED
    BY <2>5, <2>6, <2>7
<1>. QED
  BY <1>1 DEF VisitsAreFair

-----------------------------------------------------------------------------
(* Objectives and clues of the deaths. *)

(* Events are of the types the journal reads, and no monster dies before   *)
(* its first spawn.                                                        *)
Played ==
    \A k \in DOMAIN events :
       /\ events[k].type \in EventTypes
       /\ events[k].type = "ELITE_MONSTER_KILL" =>
            \A i \in DOMAIN OBJECTIVES : OBJECTIVES[i].name = events[k].monster => OBJECTIVES[i].first <= events[k].at

(* An objective is on the map from its next spawn. *)
LEMMA SpawnIsThere ==
    ASSUME JournalAssumption, InOrder, Played, NEW i \in DOMAIN OBJECTIVES, NEW t \in Nat
    PROVE  /\ NextSpawn(OBJECTIVES[i], t) \in Nat
           /\ t >= NextSpawn(OBJECTIVES[i], t) <=>
                /\ OBJECTIVES[i].first <= t
                /\ \A k \in ObjectiveKills(OBJECTIVES[i].name) : k > t \/ k + OBJECTIVES[i].respawn <= t
<1>. DEFINE o == OBJECTIVES[i]
            past == {k \in ObjectiveKills(o.name) : k <= t}
<1>1. o.first \in Nat /\ o.respawn \in Nat
  BY DEF JournalAssumption
<1>2. \A k \in ObjectiveKills(o.name) : k \in Nat /\ o.first <= k
  <2>1. ASSUME NEW k \in ObjectiveKills(o.name) PROVE k \in Nat /\ o.first <= k
    <3>1. PICK j \in DOMAIN events : events[j].type = "ELITE_MONSTER_KILL" /\ events[j].monster = o.name /\ k = events[j].at
      BY <2>1 DEF ObjectiveKills, Happened, ToSet
    <3>. QED
      BY <3>1 DEF InOrder, Played
  <2>. QED
    BY <2>1
<1>3. NextSpawn(o, t) = IF past = {} THEN o.first ELSE Max(past) + o.respawn
  BY DEF NextSpawn
<1>4. past \subseteq 0..t
  BY <1>2
<1>. HIDE DEF o
<1>5. CASE past = {}
  <2>1. \A k \in ObjectiveKills(o.name) : k > t
    <3>1. \A k \in ObjectiveKills(o.name) : ~ (k <= t)
      BY <1>5
    <3>. QED
      BY <1>2, <3>1
  <2>. HIDE DEF past
  <2>. QED
    BY <1>1, <1>3, <1>5, <2>1 DEF o
<1>6. CASE past # {}
  <2>1. Max(past) \in past /\ \A k \in past : k <= Max(past)
    <3>. HIDE DEF past
    <3>. QED
      BY <1>4, <1>6, Extremes
  <2>2. Max(past) \in Nat /\ o.first <= Max(past) /\ Max(past) <= t /\ Max(past) \in ObjectiveKills(o.name)
    BY <1>2, <2>1
  <2>3. \A k \in ObjectiveKills(o.name) : k \in Nat /\ (k > t \/ k <= Max(past))
    <3>1. ASSUME NEW k \in ObjectiveKills(o.name) PROVE k \in Nat /\ (k > t \/ k <= Max(past))
      <4>1. CASE k <= t
        BY <1>2, <2>1, <4>1
      <4>2. CASE ~ (k <= t)
        BY <1>2, <4>2
      <4>. QED
        BY <4>1, <4>2
    <3>. QED
      BY <3>1
  <2>. HIDE DEF past
  <2>4. NextSpawn(o, t) = Max(past) + o.respawn
    BY <1>3, <1>6
  <2>5. t >= Max(past) + o.respawn
          <=> \A k \in ObjectiveKills(o.name) : k > t \/ k + o.respawn <= t
    BY <1>1, <2>2, <2>3
  <2>6. t >= Max(past) + o.respawn => o.first <= t
    BY <1>1, <2>2
  <2>. QED
    BY <1>1, <2>2, <2>4, <2>5, <2>6 DEF o
<1>. QED
  BY <1>5, <1>6

(* What is announced is up exactly when something is. *)
LEMMA AnnouncedUp ==
    ASSUME JournalAssumption, NEW t \in Nat, NEW spawn \in [DOMAIN OBJECTIVES -> Nat]
    PROVE  (Announced(spawn, t) # None /\ Announced(spawn, t).status = "up")
             <=> \E i \in DOMAIN OBJECTIVES : t >= spawn[i]
<1>. DEFINE away(i) == IF t >= spawn[i] THEN t - spawn[i] ELSE spawn[i] - t
            up == {i \in DOMAIN OBJECTIVES : t >= spawn[i]}
            imminent == {i \in DOMAIN OBJECTIVES \ up : away(i) <= IMMINENT_WINDOW}
            nearest(S) == CHOOSE i \in S : \A j \in S : away(i) < away(j) \/ (away(i) = away(j) /\ i <= j)
            tell(S, status) == [type |-> OBJECTIVES[nearest(S)].name, status |-> status, delta |-> away(nearest(S))]
<1>1. Announced(spawn, t) = IF up # {} THEN tell(up, "up")
                            ELSE IF imminent # {} THEN tell(imminent, "imminent") ELSE None
  BY DEF Announced
<1>2. \A i \in DOMAIN OBJECTIVES : away(i) \in Int
  OBVIOUS
<1>3. CASE up # {}
  <2>1. Len(OBJECTIVES) \in Nat /\ up \subseteq 1 .. Len(OBJECTIVES)
    BY DEF JournalAssumption
  <2>2. [i \in up |-> away(i)] \in [up -> Int]
    BY <1>2
  <2>3. \E i \in up : \A j \in up : away(i) < away(j) \/ (away(i) = away(j) /\ i <= j)
    <3>. HIDE DEF up, away
    <3>1. \E i \in up : \A j \in up : \/ [k \in up |-> away(k)][i] < [k \in up |-> away(k)][j]
                                      \/ ([k \in up |-> away(k)][i] = [k \in up |-> away(k)][j] /\ i <= j)
      BY <1>3, <2>1, <2>2, NearestExists
    <3>. QED
      BY <3>1
  <2>4. nearest(up) \in up
    <3>. HIDE DEF up, away
    <3>. QED
      BY <2>3
  <2>5. nearest(up) \in DOMAIN OBJECTIVES
    <3>. HIDE DEF nearest
    <3>. QED
      BY <2>4
  <2>. HIDE DEF nearest, away
  <2>6. tell(up, "up") \in [type : {OBJECTIVES[i].name : i \in DOMAIN OBJECTIVES}, status : {"up"}, delta : Int]
    <3>1. away(nearest(up)) \in Int
      BY <1>2, <2>5
    <3>. HIDE DEF up
    <3>. QED
      BY <2>5, <3>1
  <2>7. tell(up, "up") # None /\ tell(up, "up").status = "up"
    <3>1. tell(up, "up").status = "up"
      OBVIOUS
    <3>. HIDE DEF tell
    <3>. QED
      BY <2>6, <3>1 DEF JournalAssumption
  <2>8. Announced(spawn, t) = tell(up, "up")
    <3>. HIDE DEF tell, up, imminent
    <3>. QED
      BY <1>1, <1>3
  <2>9. \E i \in DOMAIN OBJECTIVES : t >= spawn[i]
    BY <1>3
  <2>. HIDE DEF tell, up
  <2>. QED
    BY <2>7, <2>8, <2>9
<1>4. CASE up = {}
  <2>1. tell(imminent, "imminent").status = "imminent"
    OBVIOUS
  <2>2. ~ \E i \in DOMAIN OBJECTIVES : t >= spawn[i]
    BY <1>4
  <2>3. Announced(spawn, t) \in {tell(imminent, "imminent"), None}
    <3>. HIDE DEF tell, up, imminent
    <3>. QED
      BY <1>1, <1>4
  <2>. HIDE DEF tell, imminent, up
  <2>. QED
    BY <2>1, <2>2, <2>3
<1>. QED
  BY <1>3, <1>4

(* What the kill feed or an announcement shows of the jungler. *)
Shown(t) ==
    {k \in ToSet(events) :
       /\ k.at < t
       /\ k.type \notin {"WARD_KILL", "ITEM_PURCHASED", "ITEM_UNDO"}
       /\ \/ k.by = "jungler"
          \/ k.type = "CHAMPION_KILL" /\ "jungler" \in {k.victim} \cup k.assists}

(* The clue told of a death is the last there was. *)
LEMMA ClueIsLast ==
    ASSUME InOrder, Played, NEW t \in Nat, NEW zone, JungleSignals(t, zone) # None
    PROVE  JungleSignals(t, zone).age = t - Max({0} \cup {k.at : k \in Shown(t)})
<1>. DEFINE clues == {i \in DOMAIN events : events[i].at <= t - 1 /\ IsPublicClue(events[i])}
            ats == {k.at : k \in Shown(t)}
<1>1. JungleSignals(t, zone).age = IF clues = {} THEN t ELSE t - events[Max(clues)].at
  BY DEF JungleSignals
<1>2. ASSUME NEW i \in DOMAIN events PROVE i \in clues <=> events[i] \in Shown(t)
  <2>1. events[i].at \in Nat /\ events[i].type \in EventTypes
    BY DEF InOrder, Played
  <2>2. events[i].at <= t - 1 <=> events[i].at < t
    BY <2>1
  <2>3. IsPublicClue(events[i]) <=>
          /\ events[i].type \notin {"WARD_KILL", "ITEM_PURCHASED", "ITEM_UNDO"}
          /\ \/ events[i].by = "jungler"
             \/ events[i].type = "CHAMPION_KILL" /\ "jungler" \in {events[i].victim} \cup events[i].assists
    BY <2>1 DEF IsPublicClue, EventTypes
  <2>. QED
    BY <2>2, <2>3 DEF Shown, ToSet
<1>3. ats = {events[i].at : i \in clues}
  <2>1. \A k \in Shown(t) : \E i \in DOMAIN events : k = events[i]
    BY DEF Shown, ToSet
  <2>2. clues \subseteq DOMAIN events
    OBVIOUS
  <2>. HIDE DEF clues
  <2>. QED
    BY <1>2, <2>1, <2>2
<1>4. clues \subseteq DOMAIN events /\ \A i \in clues : events[i].at \in Nat /\ events[i].at < t
  BY DEF InOrder
<1>5. Max({0} \cup ats) \in {0} \cup ats /\ \A m \in {0} \cup ats : m <= Max({0} \cup ats)
  <2>1. {0} \cup ats \subseteq 0 .. t /\ {0} \cup ats # {}
    <3>. HIDE DEF clues, ats
    <3>. QED
      BY <1>3, <1>4
  <2>. HIDE DEF ats
  <2>. QED
    BY <2>1, Extremes
<1>. HIDE DEF clues, ats
<1>6. CASE clues = {}
  <2>1. ats = {}
    BY <1>3, <1>6
  <2>2. Max({0} \cup ats) = 0
    BY <1>5, <2>1
  <2>. QED
    BY <1>1, <1>6, <2>2 DEF ats
<1>7. CASE clues # {}
  <2>1. Max(clues) \in clues /\ \A i \in clues : i <= Max(clues)
    <3>1. Len(events) \in Nat /\ DOMAIN events = 1 .. Len(events)
      BY DEF InOrder
    <3>2. clues \subseteq 0 .. Len(events)
      BY <1>4, <3>1
    <3>. QED
      BY <1>7, <3>1, <3>2, Extremes
  <2>2. \A i \in clues : events[i].at <= events[Max(clues)].at
    BY <1>4, <2>1 DEF InOrder
  <2>3. events[Max(clues)].at \in ats /\ events[Max(clues)].at \in Nat
    BY <1>3, <1>4, <2>1
  <2>4. \A m \in {0} \cup ats : m \in Nat /\ m <= events[Max(clues)].at
    BY <1>3, <1>4, <2>2, <2>3
  <2>5. Max({0} \cup ats) = events[Max(clues)].at
    <3>1. /\ Max({0} \cup ats) \in Nat /\ Max({0} \cup ats) <= events[Max(clues)].at
          /\ events[Max(clues)].at \in Nat /\ events[Max(clues)].at <= Max({0} \cup ats)
      BY <1>5, <2>3, <2>4
    <3>. QED
      BY ONLY <3>1
  <2>. QED
    BY <1>1, <1>7, <2>5 DEF ats
<1>. QED
  BY <1>6, <1>7

(* What is told of the deaths is what the events and the timers say. *)
LEMMA DeathsAreExplainedHolds ==
    ASSUME JournalAssumption, InOrder, Played
    PROVE  DeathsAreExplained
<1>. DEFINE There(o, t) == o.first <= t /\ \A k \in ObjectiveKills(o.name) : k > t \/ k + o.respawn <= t
<1>1. ASSUME NEW e \in {events[i] : i \in Deaths}
      PROVE  /\ (Known(e).objective # None /\ Known(e).objective.status = "up")
                  <=> \E i \in DOMAIN OBJECTIVES : There(OBJECTIVES[i], e.at)
             /\ Known(e).clue # None => Known(e).clue.age = e.at - Max({0} \cup {k.at : k \in Shown(e.at)})
  <2>1. e.at \in Nat
    BY DEF Deaths, InOrder
  <2>2. Known(e).objective = ObjectiveAt(e.at) /\ Known(e).clue = JungleSignals(e.at, e.place.zone)
    BY DEF Known
  <2>. DEFINE spawn == [i \in DOMAIN OBJECTIVES |-> NextSpawn(OBJECTIVES[i], e.at)]
  <2>3. spawn \in [DOMAIN OBJECTIVES -> Nat]
    BY <2>1, SpawnIsThere
  <2>4. ObjectiveAt(e.at) = Announced(spawn, e.at)
    BY DEF ObjectiveAt
  <2>5. \A i \in DOMAIN OBJECTIVES : e.at >= spawn[i] <=> There(OBJECTIVES[i], e.at)
    BY <2>1, SpawnIsThere
  <2>. HIDE DEF spawn, There
  <2>6. (Announced(spawn, e.at) # None /\ Announced(spawn, e.at).status = "up")
          <=> \E i \in DOMAIN OBJECTIVES : e.at >= spawn[i]
    BY <2>1, <2>3, AnnouncedUp
  <2>7. JungleSignals(e.at, e.place.zone) # None
          => JungleSignals(e.at, e.place.zone).age = e.at - Max({0} \cup {k.at : k \in Shown(e.at)})
    BY <2>1, ClueIsLast
  <2>. QED
    BY <2>2, <2>4, <2>5, <2>6, <2>7
<1>. QED
  BY <1>1 DEF DeathsAreExplained, Shown

-----------------------------------------------------------------------------
(* The journal's inductive invariant, and its theorem. *)

(* A journal is kept of a game whose events and frames are in order: the   *)
(* inductive invariant.                                                    *)
JournalShape ==
    /\ JournalAssumption /\ game \in GamesPlayed /\ over \in BOOLEAN
    /\ \E X : events \in Seq(X)
    /\ \E X : frames \in Seq(X)
    /\ InOrder /\ Regular /\ Played

(* A sequence one longer. *)
LEMMA LongerSeq ==
    ASSUME NEW s, \E X : s \in Seq(X), NEW x
    PROVE  /\ \E X : Append(s, x) \in Seq(X)
           /\ Len(s) \in Nat /\ DOMAIN s = 1 .. Len(s)
           /\ Len(Append(s, x)) = Len(s) + 1 /\ DOMAIN Append(s, x) = 1 .. Len(s) + 1
           /\ \A i \in 1 .. Len(s) : Append(s, x)[i] = s[i]
           /\ Append(s, x)[Len(s) + 1] = x
<1>1. PICK X : s \in Seq(X)
  OBVIOUS
<1>2. s \in Seq(X \cup {x}) /\ x \in X \cup {x}
  <2>1. Len(s) \in Nat /\ DOMAIN s = 1 .. Len(s) /\ s = [i \in 1 .. Len(s) |-> s[i]] /\ \A i \in 1 .. Len(s) : s[i] \in X
    BY <1>1
  <2>. QED
    BY <1>1
<1>3. Append(s, x) \in Seq(X \cup {x})
  BY <1>2
<1>. QED
  BY <1>2, <1>3

(* A game begins in order, *)
LEMMA JournalBegins == ASSUME JournalAssumption, JournalInit PROVE JournalShape
<1>1. game \in GamesPlayed /\ now = 0 /\ events = <<>> /\ over = FALSE
  BY DEF JournalInit
<1>2. PICK c \in game.frames : frames = <<[c EXCEPT !.at = 0]>>
  BY DEF JournalInit
<1>3. [c EXCEPT !.at = 0].at = 0
  BY <1>1 DEF JournalAssumption
<1>. DEFINE x == [c EXCEPT !.at = 0]
<1>. HIDE DEF x
<1>4. frames = <<x>> /\ x.at = 0
  BY <1>2, <1>3 DEF x
<1>5. frames \in Seq({x}) /\ Len(frames) = 1 /\ DOMAIN frames = 1..1 /\ frames[1] = x
  BY <1>4
<1>6. events \in Seq({}) /\ Len(events) = 0 /\ DOMAIN events = 1..0
  BY <1>1
<1>7. InOrder /\ Played
  BY <1>1, <1>6 DEF InOrder, Played
<1>8. Regular
  BY <1>1, <1>4, <1>5 DEF Regular
<1>9. (\E X : events \in Seq(X)) /\ (\E X : frames \in Seq(X))
  BY <1>5, <1>6
<1>. QED
  BY <1>1, <1>7, <1>8, <1>9 DEF JournalShape

(* A frame more keeps those there are. *)
LEMMA FrameAdded ==
    ASSUME JournalShape, NEW c \in game.frames, NEW t \in Nat, frames' = Append(frames, Frame(c, t))
    PROVE  /\ \E X : frames' \in Seq(X)
           /\ Len(frames) \in Nat /\ Len(frames) >= 1 /\ Len(frames') = Len(frames) + 1
           /\ DOMAIN frames' = 1 .. Len(frames) + 1
           /\ \A i \in 1 .. Len(frames) : frames'[i] = frames[i]
           /\ frames'[Len(frames) + 1].at = t
<1>1. Frame(c, t).at = t
  <2>1. "at" \in DOMAIN c
    BY DEF JournalShape, JournalAssumption
  <2>. QED
    BY <2>1 DEF Frame
<1>. DEFINE x == Frame(c, t)
<1>. HIDE DEF x
<1>2. frames' = Append(frames, x) /\ x.at = t
  BY <1>1 DEF x
<1>3. (\E X : frames \in Seq(X)) /\ Len(frames) \in Nat /\ Len(frames) >= 1
  <2>1. Len(frames) \in Nat \ {0}
    BY DEF JournalShape, Regular
  <2>. QED
    BY <2>1 DEF JournalShape
<1>4. /\ \E X : Append(frames, x) \in Seq(X)
      /\ Len(frames) \in Nat /\ DOMAIN frames = 1 .. Len(frames)
      /\ Len(Append(frames, x)) = Len(frames) + 1 /\ DOMAIN Append(frames, x) = 1 .. Len(frames) + 1
      /\ \A i \in 1 .. Len(frames) : Append(frames, x)[i] = frames[i]
      /\ Append(frames, x)[Len(frames) + 1] = x
  <2>1. \E X : frames \in Seq(X)
    BY <1>3
  <2>. QED
    BY ONLY <2>1, LongerSeq, Zenon
<1>. DEFINE longer == Append(frames, x)
<1>5. frames' = longer
  BY <1>2
<1>6. /\ \E X : longer \in Seq(X)
      /\ Len(longer) = Len(frames) + 1 /\ DOMAIN longer = 1 .. Len(frames) + 1
      /\ \A i \in 1 .. Len(frames) : longer[i] = frames[i]
      /\ longer[Len(frames) + 1] = x
  BY ONLY <1>4, Zenon
<1>. HIDE DEF longer
<1>. QED
  BY <1>2, <1>3, <1>5, <1>6

(* time passing keeps it so, *)
LEMMA PassShape == ASSUME JournalShape, Pass PROVE JournalShape'
<1>1. now' = now + 1 /\ ~over /\ game' = game /\ events' = events /\ over' = over /\ now \in Nat
  BY DEF Pass, JournalShape, InOrder
<1>2. InOrder' /\ Played'
  <2>1. /\ Len(events) \in Nat /\ DOMAIN events = 1 .. Len(events)
        /\ \A i \in DOMAIN events : events[i].at \in Nat /\ events[i].at <= now
        /\ \A i, j \in DOMAIN events : i <= j => events[i].at <= events[j].at
        /\ \A i, j \in DOMAIN events :
              i < j /\ IsMove(events[i]) /\ IsMove(events[j]) /\ events[i].by = events[j].by => events[i].at < events[j].at
    BY DEF JournalShape, InOrder
  <2>2. \A i \in DOMAIN events : events[i].at <= now + 1
    BY <1>1, <2>1
  <2>3. InOrder'
    BY <1>1, <2>1, <2>2 DEF InOrder, IsMove
  <2>4. Played'
    BY <1>1 DEF JournalShape, Played
  <2>. QED
    BY <2>3, <2>4
<1>. DEFINE L == Len(frames)
<1>3. /\ L \in Nat /\ L >= 1 /\ DOMAIN frames = 1 .. L
      /\ \A i \in 1 .. L : frames[i].at = 2 * (i - 1)
      /\ now = 2 * (L - 1) \/ now = 2 * (L - 1) + 1
  <2>1. L \in Nat \ {0} /\ DOMAIN frames = 1 .. L
    BY DEF JournalShape, Regular
  <2>2. /\ \A i \in 1 .. L : i = L \/ frames[i].at = 2 * (i - 1)
        /\ frames[L].at = 2 * (L - 1)
        /\ now = 2 * (L - 1) \/ now = 2 * (L - 1) + 1
    BY <1>1 DEF JournalShape, Regular
  <2>. HIDE DEF L
  <2>. QED
    BY <2>1, <2>2
<1>4. Regular' /\ \E X : frames' \in Seq(X)
  <2>1. CASE now' % MINUTE = 0
    <3>1. PICK c \in game.frames : frames' = Append(frames, Frame(c, now'))
      BY <2>1 DEF Pass
    <3>2. /\ \E X : frames' \in Seq(X)
          /\ Len(frames') = L + 1 /\ DOMAIN frames' = 1 .. L + 1
          /\ \A i \in 1 .. L : frames'[i] = frames[i]
          /\ frames'[L + 1].at = now'
      <4>1. now' \in Nat
        BY <1>1
      <4>. QED
        BY <3>1, <4>1, FrameAdded
    <3>. HIDE DEF L
    <3>3. now = 2 * (L - 1) + 1
      BY <1>1, <1>3, <2>1 DEF MINUTE
    <3>4. now' = 2 * L
      BY <1>1, <1>3, <3>3
    <3>5. \A i \in 1 .. L + 1 : i = L + 1 \/ frames'[i].at = 2 * (i - 1)
      BY <1>3, <3>2
    <3>6. Regular'
      <4>1. Len(frames') \in Nat \ {0} /\ DOMAIN frames' = 1 .. Len(frames')
        BY <1>3, <3>2
      <4>2. frames'[Len(frames')].at = 2 * (Len(frames') - 1) /\ now' = 2 * (Len(frames') - 1)
        BY <1>3, <3>2, <3>4
      <4>. QED
        BY <1>1, <3>2, <3>5, <4>1, <4>2 DEF Regular
    <3>. QED
      BY <3>2, <3>6
  <2>2. CASE now' % MINUTE # 0
    <3>1. frames' = frames
      BY <2>2 DEF Pass
    <3>2. now = 2 * (L - 1)
      <4>. HIDE DEF L
      <4>. QED
        BY <1>1, <1>3, <2>2 DEF MINUTE
    <3>3. Regular'
      <4>1. Len(frames) \in Nat \ {0}
        <5>. HIDE DEF L
        <5>1. L \in Nat \ {0}
          BY <1>3
        <5>. QED
          BY <5>1 DEF L
      <4>2. now' = 2 * (L - 1) + 1 /\ L \in 1 .. L
        <5>. HIDE DEF L
        <5>. QED
          BY <1>1, <1>3, <3>2
      <4>. QED
        BY <1>1, <1>3, <3>1, <4>1, <4>2 DEF Regular
    <3>. QED
      BY <3>1, <3>3 DEF JournalShape
  <2>. QED
    BY <2>1, <2>2
<1>. QED
  BY <1>1, <1>2, <1>4 DEF JournalShape, JournalAssumption

(* What the rules allow keeps the order of the moves and the spawns. *)
LEMMA HappenShape == ASSUME JournalShape, Happen PROVE JournalShape'
<1>1. now' = now /\ ~over /\ game' = game /\ frames' = frames /\ over' = over /\ now \in Nat
  BY DEF Happen, JournalShape, InOrder
<1>2. PICK e \in game.events : Allowed(e) /\ events' = Append(events, [e EXCEPT !.at = now])
  BY DEF Happen
<1>3. /\ {"at", "type", "by"} \subseteq DOMAIN e /\ e.type \in EventTypes
      /\ e.type = "ELITE_MONSTER_KILL" => "monster" \in DOMAIN e
  BY DEF JournalShape, JournalAssumption
<1>. DEFINE x == [e EXCEPT !.at = now]
            n == Len(events)
<1>4. /\ x.at = now /\ x.type = e.type /\ x.by = e.by
      /\ e.type = "ELITE_MONSTER_KILL" => x.monster = e.monster
  BY <1>3
<1>. HIDE DEF x
<1>5. /\ n \in Nat /\ DOMAIN events = 1 .. n
      /\ \A i \in DOMAIN events : events[i].at \in Nat /\ events[i].at <= now
      /\ \A i, j \in DOMAIN events : i <= j => events[i].at <= events[j].at
      /\ \A i, j \in DOMAIN events :
            i < j /\ IsMove(events[i]) /\ IsMove(events[j]) /\ events[i].by = events[j].by => events[i].at < events[j].at
  BY DEF JournalShape, InOrder
<1>6. /\ \E X : events' \in Seq(X)
      /\ Len(events') = n + 1 /\ DOMAIN events' = 1 .. n + 1
      /\ \A i \in 1 .. n : events'[i] = events[i]
      /\ events'[n + 1] = x
  <2>1. events' = Append(events, x)
    BY <1>2 DEF x
  <2>2. \E X : events \in Seq(X)
    BY DEF JournalShape
  <2>. DEFINE longer == Append(events, x)
  <2>3. /\ \E X : longer \in Seq(X)
        /\ Len(longer) = n + 1 /\ DOMAIN longer = 1 .. n + 1
        /\ \A i \in 1 .. n : longer[i] = events[i]
        /\ longer[n + 1] = x
    BY ONLY <2>2, LongerSeq
  <2>4. events' = longer
    BY <2>1
  <2>. HIDE DEF longer
  <2>. QED
    BY <2>3, <2>4
<1>7. ASSUME IsMove(x), NEW i \in DOMAIN events, IsMove(events[i]), events[i].by = x.by
      PROVE  events[i].at < now
  <2>1. e.type \in {"ITEM_PURCHASED", "ITEM_UNDO"}
    BY <1>4, <1>7 DEF IsMove
  <2>2. \A k \in {k \in DOMAIN events : events[k].type \in {"ITEM_PURCHASED", "ITEM_UNDO"}
                                        /\ events[k].by = e.by} : events[k].at < now
    BY <1>2, <2>1 DEF Allowed
  <2>. QED
    BY <1>4, <1>7, <2>2 DEF IsMove
<1>8. ASSUME x.type = "ELITE_MONSTER_KILL", NEW i \in DOMAIN OBJECTIVES, OBJECTIVES[i].name = x.monster
      PROVE  OBJECTIVES[i].first <= now
  <2>1. e.type = "ELITE_MONSTER_KILL"
    BY <1>4, <1>8
  <2>2. PICK j \in DOMAIN OBJECTIVES : OBJECTIVES[j].name = e.monster /\ now >= NextSpawn(OBJECTIVES[j], now)
    BY <1>2, <2>1 DEF Allowed
  <2>3. JournalAssumption /\ InOrder /\ Played
    BY DEF JournalShape
  <2>4. i = j
    BY <1>4, <1>8, <2>1, <2>2, <2>3 DEF JournalAssumption
  <2>. QED
    BY <1>1, <2>2, <2>3, <2>4, SpawnIsThere
<1>. HIDE DEF n
<1>9. \A i \in 1 .. n + 1 : i \in 1 .. n \/ i = n + 1
  BY <1>5
<1>10. InOrder'
  <2>1. \A i \in DOMAIN events' : events'[i].at \in Nat /\ events'[i].at <= now
    BY <1>1, <1>4, <1>5, <1>6, <1>9
  <2>2. ASSUME NEW i \in DOMAIN events', NEW j \in DOMAIN events', i <= j
        PROVE  events'[i].at <= events'[j].at
    <3>1. CASE j = n + 1
      BY <1>4, <1>6, <2>1, <3>1
    <3>2. CASE j # n + 1
      <4>1. j \in 1 .. n /\ i \in 1 .. n
        BY <1>5, <1>6, <1>9, <2>2, <3>2
      <4>. QED
        BY <1>5, <1>6, <2>2, <4>1
    <3>. QED
      BY <3>1, <3>2
  <2>3. ASSUME NEW i \in DOMAIN events', NEW j \in DOMAIN events',
               i < j, IsMove(events'[i]), IsMove(events'[j]), events'[i].by = events'[j].by
        PROVE  events'[i].at < events'[j].at
    <3>0. i \in 1 .. n
      BY <1>5, <1>6, <1>9, <2>3
    <3>1. CASE j = n + 1
      BY <1>4, <1>5, <1>6, <1>7, <2>3, <3>0, <3>1
    <3>2. CASE j # n + 1
      <4>1. j \in 1 .. n
        BY <1>6, <1>9, <3>2
      <4>. QED
        BY <1>5, <1>6, <2>3, <3>0, <4>1
    <3>. QED
      BY <3>1, <3>2
  <2>4. Len(events') \in Nat /\ DOMAIN events' = 1 .. Len(events')
    BY <1>5, <1>6
  <2>. QED
    BY <1>1, <2>1, <2>2, <2>3, <2>4 DEF InOrder, IsMove
<1>11. Played'
  <2>1. ASSUME NEW k \in DOMAIN events'
        PROVE  /\ events'[k].type \in EventTypes
               /\ events'[k].type = "ELITE_MONSTER_KILL" =>
                    \A i \in DOMAIN OBJECTIVES : OBJECTIVES[i].name = events'[k].monster => OBJECTIVES[i].first <= events'[k].at
    <3>1. CASE k = n + 1
      BY <1>3, <1>4, <1>6, <1>8, <3>1
    <3>2. CASE k # n + 1
      <4>1. k \in DOMAIN events /\ events'[k] = events[k]
        BY <1>5, <1>6, <1>9, <3>2
      <4>. QED
        BY <4>1 DEF JournalShape, Played
    <3>. QED
      BY <3>1, <3>2
  <2>. QED
    BY <2>1 DEF Played
<1>12. Regular'
  BY <1>1 DEF JournalShape, Regular
<1>. QED
  BY <1>1, <1>6, <1>10, <1>11, <1>12 DEF JournalShape, JournalAssumption

(* and so does the last frame, *)
LEMMA FinishShape == ASSUME JournalShape, Finish PROVE JournalShape'
<1>1. now' = now /\ ~over /\ over' = TRUE /\ game' = game /\ events' = events /\ now \in Nat
  BY DEF Finish, JournalShape, InOrder
<1>. DEFINE L == Len(frames)
<1>2. /\ L \in Nat /\ L >= 1 /\ DOMAIN frames = 1 .. L
      /\ \A i \in 1 .. L : frames[i].at = 2 * (i - 1)
      /\ now = 2 * (L - 1) \/ now = 2 * (L - 1) + 1
      /\ Last(frames).at = 2 * (L - 1)
  <2>1. L \in Nat \ {0} /\ DOMAIN frames = 1 .. L
    BY DEF JournalShape, Regular
  <2>2. /\ \A i \in 1 .. L : i = L \/ frames[i].at = 2 * (i - 1)
        /\ frames[L].at = 2 * (L - 1)
        /\ now = 2 * (L - 1) \/ now = 2 * (L - 1) + 1
    BY <1>1 DEF JournalShape, Regular
  <2>3. Last(frames) = frames[L]
    BY DEF Last
  <2>. HIDE DEF L
  <2>. QED
    BY <2>1, <2>2, <2>3
<1>3. Regular' /\ \E X : frames' \in Seq(X)
  <2>1. CASE Last(frames).at = now
    <3>1. frames' = frames
      BY <2>1 DEF Finish
    <3>2. Len(frames) \in Nat \ {0} /\ now = 2 * (Len(frames) - 1) /\ frames[Len(frames)].at = now
      <4>1. Last(frames) = frames[L]
        BY DEF Last
      <4>2. L \in Nat \ {0} /\ now = 2 * (L - 1) /\ frames[L].at = now
        <5>. HIDE DEF L
        <5>. QED
          BY <1>2, <2>1, <4>1
      <4>. QED
        BY <4>2
    <3>3. Regular'
      BY <1>1, <1>2, <3>1, <3>2 DEF Regular
    <3>. QED
      BY <3>1, <3>3 DEF JournalShape
  <2>2. CASE Last(frames).at # now
    <3>1. PICK c \in game.frames : frames' = Append(frames, Frame(c, now))
      BY <2>2 DEF Finish
    <3>2. /\ \E X : frames' \in Seq(X)
          /\ Len(frames') = L + 1 /\ DOMAIN frames' = 1 .. L + 1
          /\ \A i \in 1 .. L : frames'[i] = frames[i]
          /\ frames'[L + 1].at = now
      BY <1>1, <3>1, FrameAdded
    <3>. HIDE DEF L
    <3>3. now = 2 * (L + 1 - 1) - 1
      BY <1>2, <2>2
    <3>4. \A i \in 1 .. L + 1 : i = L + 1 \/ frames'[i].at = 2 * (i - 1)
      BY <1>2, <3>2
    <3>5. Regular'
      <4>1. Len(frames') \in Nat \ {0} /\ DOMAIN frames' = 1 .. Len(frames')
        BY <1>2, <3>2
      <4>2. frames'[Len(frames')].at = now' /\ now' = 2 * (Len(frames') - 1) - 1
        <5>1. L \in Nat /\ Len(frames') = L + 1 /\ now' = now /\ now = 2 * (L + 1 - 1) - 1 /\ frames'[L + 1].at = now
          BY <1>1, <1>2, <3>2, <3>3
        <5>. QED
          BY <5>1
      <4>. QED
        BY <1>1, <3>2, <3>4, <4>1, <4>2 DEF Regular
    <3>. QED
      BY <3>2, <3>5
  <2>. QED
    BY <2>1, <2>2
<1>4. InOrder' /\ Played'
  BY <1>1 DEF JournalShape, InOrder, IsMove, Played
<1>. QED
  BY <1>1, <1>3, <1>4 DEF JournalShape, JournalAssumption

(* so every step does. *)
LEMMA JournalSteps == ASSUME JournalShape, [JournalNext]_journalVars PROVE JournalShape'
<1>1. CASE Pass
  BY <1>1, PassShape
<1>2. CASE Happen
  BY <1>2, HappenShape
<1>3. CASE Finish
  BY <1>3, FinishShape
<1>4. CASE UNCHANGED journalVars
  BY <1>4 DEF journalVars, JournalShape, JournalAssumption, InOrder, IsMove, Regular, Played
<1>. QED
  BY <1>1, <1>2, <1>3, <1>4 DEF JournalNext

(* What the journal says agrees with the events: visits are the purchases  *)
(* nobody took back, grouped where they are close; what is said of a visit *)
(* is around it; an objective is told up when it is on the map, and a clue *)
(* is the last one (game_journal.py, journal_signals.py), for every game.  *)
THEOREM JournalIsTrueCorrect == ASSUME JournalAssumption PROVE JournalSpec => []JournalIsTrue
<1>1. JournalInit => JournalShape
  BY JournalBegins
<1>2. JournalShape /\ [JournalNext]_journalVars => JournalShape'
  BY JournalSteps
<1>3. JournalShape => JournalIsTrue
  <2>1. ASSUME JournalShape PROVE JournalIsTrue
    <3>1. JournalAssumption /\ InOrder /\ Regular /\ Played
      BY <2>1 DEF JournalShape
    <3>. QED
      BY <3>1, VisitsArePurchasesHolds, VisitsAreFairHolds, DeathsAreExplainedHolds DEF JournalIsTrue
  <2>. QED
    BY <2>1
<1>. QED
  BY <1>1, <1>2, <1>3, PTL DEF JournalSpec
=============================================================================
