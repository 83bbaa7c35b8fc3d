------------------------------ MODULE IngestQueue ------------------------------
(***************************************************************************)
(* The collection queue of the web application: the Durable Object         *)
(* `IngestQueue` of web/cf/src/ingest_queue.ts, of which one instance      *)
(* named "global" exists.  Visitors enqueue slugs; the object's alarm      *)
(* takes the head of the queue, calls the Cloud Run service, records the   *)
(* outcome and drops the head.                                             *)
(*                                                                         *)
(* Granularity.  While a handler awaits its own storage the runtime        *)
(* delivers no other event to the object (input gate), so `enqueue` is one *)
(* step and `alarm` is two, on either side of `await callIngest`, an       *)
(* outgoing fetch during which requests are delivered.  A loss of the      *)
(* instance, on the other hand, can fall between any two storage writes:   *)
(* the ...Cut actions write a prefix of their handler's writes and take    *)
(* the instance down.                                                      *)
(***************************************************************************)
EXTENDS Integers, Sequences

CONSTANTS
    Slugs,                 \* players that can be registered
    NoSlug,                \* no collection in progress
    RETRY_AFTER_ERROR,     \* RETRY_AFTER_ERROR_MS: 5 minutes
    REFRESH_COOLDOWN,      \* REFRESH_COOLDOWN_MS: 15 minutes
    JOB_TTL,               \* JOB_TTL_MS: 24 hours
    SECOND,                \* clock units per second, for retry_after
    MaxNow,                \* bound of the clock
    MaxCuts                \* bound of the losses of the instance

ASSUME QueueAssumption ==
    /\ NoSlug \notin Slugs
    /\ RETRY_AFTER_ERROR \in Nat
    /\ REFRESH_COOLDOWN \in Nat
    /\ JOB_TTL \in Nat
    /\ RETRY_AFTER_ERROR <= JOB_TTL
    /\ REFRESH_COOLDOWN <= JOB_TTL
    /\ SECOND \in Nat \ {0}
    /\ MaxNow \in Nat
    /\ MaxCuts \in Nat

VARIABLES
    now,       \* Date.now(), shared by the handlers of the one object
    queue,     \* storage "queue": the entries, head first
    job,       \* storage "job:{slug}"
    alarm,     \* the alarm slot is set (and due: it is always set to now)
    serving,   \* the slug alarm() awaits callIngest for
    up,        \* the instance is in memory
    ended,     \* history: the outcome with which each slug last left the queue
    cuts       \* history: losses of the instance so far

vars == <<now, queue, job, alarm, serving, up, ended, cuts>>
-----------------------------------------------------------------------------
JobState == {"none", "queued", "running", "done", "error"}
Entry == [slug : Slugs, requested_at : Nat]
JobStatus == [state : JobState, updated_at : Nat]

NoJob == [state |-> "none", updated_at |-> 0]
Status(state) == [state |-> state, updated_at |-> now]

InQueue(s) == \E i \in 1..Len(queue) : queue[i].slug = s

IsHead(s) == queue # <<>> /\ queue[1].slug = s

(* Position of s in the queue, counted from 1; 0 when s is not in it. *)
Position(s) ==
    IF InQueue(s) THEN CHOOSE i \in 1..Len(queue) : queue[i].slug = s ELSE 0

(* The queue filtered by slug.  enqueue never stores a slug twice, so the  *)
(* filter removes at most one entry.                                       *)
Without(q, s) ==
    IF \E i \in 1..Len(q) : q[i].slug = s
    THEN LET k == CHOOSE i \in 1..Len(q) : q[i].slug = s
         IN  [j \in 1..(Len(q) - 1) |-> IF j < k THEN q[j] ELSE q[j + 1]]
    ELSE q

(* How long a settled job refuses a new request. *)
Window(state) ==
    CASE state = "done" -> REFRESH_COOLDOWN
      [] state = "error" -> RETRY_AFTER_ERROR
      [] OTHER -> 0

(* The early returns of enqueue, which leave the storage alone. *)
Refused(s) ==
    \/ job[s].state = "running"
    \/ job[s].state = "done" /\ now - job[s].updated_at < REFRESH_COOLDOWN
    \/ job[s].state = "error" /\ now - job[s].updated_at < RETRY_AFTER_ERROR

(* Mutant: the remaining seconds rounded down. *)
MutRetryAfterFloor(since, window) ==
    LET left == window - (now - since)
    IN  IF left < SECOND THEN 1 ELSE left \div SECOND

(* retryAfter(): whole seconds left of a window opened at `since`. *)
RetryAfter(since, window) ==
    LET left == window - (now - since)
        ceil == (left + SECOND - 1) \div SECOND
    IN  IF ceil < 1 THEN 1 ELSE ceil

(* Mutants: the purge one unit early; the purge with the wrong constant. *)
MutStaleInclusive(s) == job[s].state # "none" /\ job[s].updated_at <= now - JOB_TTL

MutStaleShort(s) ==
    job[s].state # "none" /\ job[s].updated_at < now - RETRY_AFTER_ERROR

(* purgeStaleJobs(): jobs untouched for longer than the TTL. *)
Stale(s) == job[s].state # "none" /\ job[s].updated_at < now - JOB_TTL

Purge(S) == [s \in Slugs |-> IF s \in S THEN NoJob ELSE job[s]]

StaleJobs == {s \in Slugs : Stale(s)}

(* statusOf(): what a poller of /status is told; position 1 by default. *)
StatusOf(s) ==
    IF job[s].state = "queued"
    THEN [state |-> "queued", position |-> IF InQueue(s) THEN Position(s) ELSE 1]
    ELSE [state |-> job[s].state, position |-> 0]
-----------------------------------------------------------------------------
Init ==
    /\ now = 0
    /\ queue = <<>>
    /\ job = [s \in Slugs |-> NoJob]
    /\ alarm = FALSE
    /\ serving = NoSlug
    /\ up = TRUE
    /\ ended = [s \in Slugs |-> NoJob]
    /\ cuts = 0

(* Mutant: a push at the front. *)
MutPushFront(s) ==
    IF InQueue(s)
    THEN queue
    ELSE <<[slug |-> s, requested_at |-> now]>> \o queue

(* The queue with s in it, pushed at the end unless it is there already.   *)
Pushed(s) ==
    IF InQueue(s)
    THEN queue
    ELSE Append(queue, [slug |-> s, requested_at |-> now])

(* POST /enqueue, when it is not refused. *)
Enqueue(s) ==
    /\ up
    /\ ~Refused(s)
    /\ queue' = Pushed(s)
    /\ job' = [job EXCEPT ![s] = Status("queued")]
    /\ alarm' = TRUE
    /\ UNCHANGED <<now, serving, up, ended, cuts>>

(* Mutant: the last entry served first. *)
MutAlarmStartsLast ==
    /\ up
    /\ alarm
    /\ serving = NoSlug
    /\ queue # <<>>
    /\ alarm' = FALSE
    /\ serving' = queue[Len(queue)].slug
    /\ job' = [Purge(StaleJobs) EXCEPT ![queue[Len(queue)].slug] = Status("running")]
    /\ UNCHANGED <<now, queue, up, ended, cuts>>

(* alarm(), up to `await callIngest`: purge, then mark the head running. *)
AlarmStarts ==
    /\ up
    /\ alarm
    /\ serving = NoSlug
    /\ queue # <<>>
    /\ alarm' = FALSE
    /\ serving' = Head(queue).slug
    /\ job' = [Purge(StaleJobs) EXCEPT ![Head(queue).slug] = Status("running")]
    /\ UNCHANGED <<now, queue, up, ended, cuts>>

(* alarm() on an empty queue: only the purge. *)
AlarmFindsNothing ==
    /\ up
    /\ alarm
    /\ serving = NoSlug
    /\ queue = <<>>
    /\ alarm' = FALSE
    /\ job' = Purge(StaleJobs)
    /\ UNCHANGED <<now, queue, serving, up, ended, cuts>>

(* Mutants of the end of alarm(): no alarm for the rest of the queue; a    *)
(* failed head kept.                                                       *)
MutFinishesUnarmed(outcome) ==
    /\ up
    /\ serving # NoSlug
    /\ job' = [job EXCEPT ![serving] = Status(outcome)]
    /\ ended' = [ended EXCEPT ![serving] = Status(outcome)]
    /\ queue' = Without(queue, serving)
    /\ serving' = NoSlug
    /\ UNCHANGED <<now, alarm, up, cuts>>

MutFinishesKeepFailed(outcome) ==
    /\ up
    /\ serving # NoSlug
    /\ job' = [job EXCEPT ![serving] = Status(outcome)]
    /\ ended' = [ended EXCEPT ![serving] = Status(outcome)]
    /\ queue' = IF outcome = "done" THEN Without(queue, serving) ELSE queue
    /\ alarm' = (alarm \/ queue' # <<>>)
    /\ serving' = NoSlug
    /\ UNCHANGED <<now, up, cuts>>

(* alarm(), after callIngest: any result, or an exception, is an outcome. *)
AlarmFinishes(outcome) ==
    /\ up
    /\ serving # NoSlug
    /\ job' = [job EXCEPT ![serving] = Status(outcome)]
    /\ ended' = [ended EXCEPT ![serving] = Status(outcome)]
    /\ queue' = Without(queue, serving)
    /\ alarm' = (alarm \/ Without(queue, serving) # <<>>)
    /\ serving' = NoSlug
    /\ UNCHANGED <<now, up, cuts>>

Tick ==
    /\ now < MaxNow
    /\ now' = now + 1
    /\ UNCHANGED <<queue, job, alarm, serving, up, ended, cuts>>
-----------------------------------------------------------------------------
(* The instance is lost: what its handlers had not written is forgotten.   *)
Lost ==
    /\ up
    /\ cuts < MaxCuts
    /\ up' = FALSE
    /\ cuts' = cuts + 1
    /\ UNCHANGED now

(* Lost between events, or while alarm() awaits callIngest. *)
Cut ==
    /\ Lost
    /\ UNCHANGED <<queue, job, alarm, serving, ended>>

(* Lost in enqueue, after the entry is stored and before its alarm is set; *)
(* the status may or may not be written.                                   *)
EnqueueCut(s) ==
    /\ Lost
    /\ ~Refused(s)
    /\ queue' = Pushed(s)
    /\ job' \in {job, [job EXCEPT ![s] = Status("queued")]}
    /\ UNCHANGED <<alarm, serving, ended>>

(* Lost in purgeStaleJobs, with some of the stale jobs deleted. *)
PurgeCut(S) ==
    /\ Lost
    /\ alarm
    /\ serving = NoSlug
    /\ S # {}
    /\ job' = Purge(S)
    /\ UNCHANGED <<queue, alarm, serving, ended>>

(* Lost in alarm() after the outcome is stored, before the queue is, or    *)
(* after the queue is stored too but before alarm() returns: then only the *)
(* redelivery of the alarm is left of it.                                  *)
FinishCut(outcome) ==
    /\ Lost
    /\ serving # NoSlug
    /\ job' = [job EXCEPT ![serving] = Status(outcome)]
    /\ \/ UNCHANGED <<queue, alarm, serving, ended>>
       \/ /\ queue' = Without(queue, serving)
          /\ ended' = [ended EXCEPT ![serving] = Status(outcome)]
          /\ alarm' = TRUE
          /\ serving' = NoSlug

(* The object is loaded again.  An alarm whose handler did not complete is *)
(* delivered again.                                                        *)
Restart ==
    /\ ~up
    /\ up' = TRUE
    /\ serving' = NoSlug
    /\ alarm' = (alarm \/ serving # NoSlug)
    /\ UNCHANGED <<now, queue, job, ended, cuts>>
-----------------------------------------------------------------------------
(* The states alarm() can end a job in. *)
Outcome == {"done", "error"}

Alarm == AlarmStarts \/ AlarmFindsNothing

Next ==
    \/ \E s \in Slugs : Enqueue(s)
    \/ Alarm
    \/ \E o \in Outcome : AlarmFinishes(o)
    \/ Tick
    \/ Cut
    \/ \E s \in Slugs : EnqueueCut(s)
    \/ \E S \in SUBSET StaleJobs : PurgeCut(S)
    \/ \E o \in Outcome : FinishCut(o)
    \/ Restart

Spec == Init /\ [][Next]_vars

(* The runtime delivers a due alarm and reloads a lost object, and         *)
(* callIngest ends: Cloud Run answers or kills the request (gunicorn       *)
(* --timeout 600).  Visitors owe nothing.                                  *)
Fairness ==
    /\ WF_vars(Alarm)
    /\ WF_vars(\E o \in Outcome : AlarmFinishes(o))
    /\ WF_vars(Restart)

FairSpec == Spec /\ Fairness
-----------------------------------------------------------------------------
(* Types of the variables. *)
TypeOK ==
    /\ now \in Nat
    /\ queue \in Seq(Entry)
    /\ job \in [Slugs -> JobStatus]
    /\ alarm \in BOOLEAN
    /\ serving \in Slugs \cup {NoSlug}
    /\ up \in BOOLEAN
    /\ ended \in [Slugs -> JobStatus]
    /\ cuts \in Nat

(* enqueue's findIndex test is enough for a slug never to be stored twice, *)
(* wherever the instance was lost before.                                  *)
UniqueEntries ==
    \A i, j \in 1..Len(queue) : queue[i].slug = queue[j].slug => i = j

(* The one job shown as "running" is the head of the queue: at most one    *)
(* collection is announced, across all players, and alarm() filters out    *)
(* the entry it called the service for and no other.                       *)
RunningIsHead ==
    /\ \A s \in Slugs : job[s].state = "running" => IsHead(s)
    /\ serving # NoSlug => IsHead(serving)

(* A visitor told "queued" is in the queue: the entry is stored before the *)
(* status, and leaves after the status has changed.                        *)
QueuedIsInQueue ==
    \A s \in Slugs : job[s].state = "queued" => InQueue(s)

(* The shape of the queue and of the jobs: these three hold together,      *)
(* wherever the instance is lost, and everything else rests on them.       *)
Shape == UniqueEntries /\ RunningIsHead /\ QueuedIsInQueue

(* The converse: an entry whose status is missing (statusOf answers 404)   *)
(* waited for longer than JOB_TTL and was purged, or its enqueue was cut.  *)
MissingStatusIsOld ==
    \A i \in 1..Len(queue) :
        job[queue[i].slug].state = "none" =>
            now - queue[i].requested_at > JOB_TTL \/ cuts > 0

(* No lost wake-up: an idle object with work has its alarm set, unless an  *)
(* enqueue was cut between its writes.                                     *)
AlarmPending ==
    queue # <<>> /\ serving = NoSlug => alarm \/ cuts > 0

(* An entry of a slug whose status is an outcome is there because the      *)
(* instance was lost: in alarm(), and then it is the head and the alarm is *)
(* due or being delivered, or in an enqueue that was not refused.          *)
SettledEntryIsReplayed ==
    \A i \in 1..Len(queue) :
        job[queue[i].slug].state \in {"done", "error"} =>
            /\ cuts > 0
            /\ \/ i = 1 /\ (alarm \/ serving # NoSlug)
               \/ ~Refused(queue[i].slug)

(* So the status of an entry is queued or running, or one of the two says  *)
(* why it is not.                                                          *)
StatusExplained == MissingStatusIsOld /\ SettledEntryIsReplayed

(* A client that waits the retry_after it was given is not refused again,  *)
(* and is not made to wait a full second more than needed.                 *)
RetryAfterIsEnough ==
    \A s \in Slugs :
        Refused(s) /\ job[s].state = "done" =>
            LET wait == RetryAfter(job[s].updated_at, REFRESH_COOLDOWN) * SECOND
                left == REFRESH_COOLDOWN - (now - job[s].updated_at)
            IN  left <= wait /\ wait < left + SECOND

(* The cooldowns hold across purges, cuts and repeated requests: a slug    *)
(* that left the queue is not collected again before the window of its     *)
(* last outcome has passed.                                                *)
Spaced(s) == now - ended[s].updated_at >= Window(ended[s].state)

CollectionSpacing ==
    [][\A s \in Slugs : serving' = s /\ serving # s => Spaced(s)]_vars

(* First come, first served: the position a visitor polls never grows.     *)
PositionNeverGrows ==
    [][\A s \in Slugs :
          StatusOf(s).state = "queued" /\ StatusOf(s)'.state = "queued"
              => StatusOf(s)'.position <= StatusOf(s).position]_vars

(* The status a visitor polls never goes back from "running" to "queued".  *)
RunningNeverRequeued ==
    [][\A s \in Slugs : job[s].state = "running" => job'[s].state # "queued"]_vars

(* Whatever the outcomes and however often the instance is lost, an entry  *)
(* whose object has its alarm set, or is collecting, leaves the queue, and *)
(* a job shown as "running" does not stay so for ever.                     *)
QueueDrains ==
    \A s \in Slugs :
        /\ InQueue(s) /\ (alarm \/ serving # NoSlug) ~> ~InQueue(s)
        /\ job[s].state = "running" ~> job[s].state # "running"
-----------------------------------------------------------------------------
(* The abstract queue this module implements: the stored queue holds the   *)
(* entry that is being collected at its head, the abstract line does not.  *)
Waiting ==
    IF serving = NoSlug
    THEN [i \in 1..Len(queue) |-> queue[i].slug]
    ELSE [i \in 1..(Len(queue) - 1) |-> queue[i + 1].slug]

Fifo == INSTANCE SerialFifo WITH
            Customers <- Slugs, Nobody <- NoSlug,
            line <- Waiting, current <- serving

(* The object is a serial first-come-first-served server of slugs, through *)
(* every loss of the instance.                                             *)
ImplementsFifo == Fifo!FifoSpec

(* And, if the instance is never lost, a server that works.                *)
ImplementsFairFifo == ImplementsFifo /\ ([](cuts = 0) => Fifo!FifoFairness)
=============================================================================
