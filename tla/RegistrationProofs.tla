-------------------------- MODULE RegistrationProofs --------------------------
(***************************************************************************)
(* First the collection queue on its own: its safety for every set of      *)
(* slugs, every length of the windows that QueueAssumption allows, and any *)
(* number of losses of the instance.  Then the queue with the service and  *)
(* the registration around it: how often a player is collected, for every  *)
(* set of accounts and every staleness of KV the assumptions allow.        *)
(***************************************************************************)
EXTENDS Registration, SequenceTheorems, TLAPS

(* In a queue without duplicates, filtering out the slug of the head is    *)
(* dropping the head.                                                      *)
LEMMA WithoutHead ==
    ASSUME NEW q \in Seq(Entry), q # <<>>,
           \A i, j \in 1..Len(q) : q[i].slug = q[j].slug => i = j
    PROVE  Without(q, q[1].slug) = Tail(q)
<1> DEFINE s == q[1].slug
           k == CHOOSE i \in 1..Len(q) : q[i].slug = s
<1>1. 1 \in 1..Len(q)
  BY LenProperties
<1>2. k \in 1..Len(q) /\ q[k].slug = s
  BY <1>1
<1>3. k = 1
  BY <1>1, <1>2
<1>4. Without(q, s) = [j \in 1..(Len(q) - 1) |-> IF j < k THEN q[j] ELSE q[j + 1]]
  BY <1>1 DEF Without
<1>5. /\ Tail(q) \in Seq(Entry)
      /\ Len(Tail(q)) = Len(q) - 1
      /\ \A i \in 1..Len(Tail(q)) : Tail(q)[i] = q[i + 1]
  BY HeadTailProperties
<1>6. Tail(q) = [j \in 1..(Len(q) - 1) |-> Tail(q)[j]]
  <2> DEFINE t == Tail(q)
             n == Len(q) - 1
  <2>1. t \in [1..n -> Entry]
    BY <1>5, LenProperties
  <2> HIDE DEF t, n
  <2>2. t = [j \in 1..n |-> t[j]]
    BY <2>1
  <2>3. QED
    BY <2>2 DEF t, n
<1> HIDE DEF k
<1>7. \A j \in 1..(Len(q) - 1) : (IF j < k THEN q[j] ELSE q[j + 1]) = Tail(q)[j]
  BY <1>3, <1>5
<1>8. QED
  BY <1>4, <1>6, <1>7

(* What the filter returns is a queue. *)
LEMMA WithoutType ==
    ASSUME NEW q \in Seq(Entry), NEW s
    PROVE  Without(q, s) \in Seq(Entry)
<1> DEFINE k == CHOOSE i \in 1..Len(q) : q[i].slug = s
           f == [j \in 1..(Len(q) - 1) |-> IF j < k THEN q[j] ELSE q[j + 1]]
<1>1. CASE \E i \in 1..Len(q) : q[i].slug = s
  <2>1. Len(q) - 1 \in Nat
    BY <1>1, LenProperties
  <2>2. \A j \in 1..(Len(q) - 1) : f[j] \in Entry
    BY LenProperties, ElementOfSeq
  <2>3. f \in Seq(Entry)
    BY <2>1, <2>2
  <2>4. QED
    BY <1>1, <2>3 DEF Without
<1>2. QED
  BY <1>1 DEF Without

(* Pushing a slug. *)
LEMMA PushedType ==
    ASSUME TypeOK, NEW s \in Slugs
    PROVE  Pushed(s) \in Seq(Entry)
BY AppendProperties DEF TypeOK, Pushed, Entry

LEMMA PurgeType ==
    ASSUME TypeOK, NEW S \in SUBSET Slugs
    PROVE  Purge(S) \in [Slugs -> JobStatus]
BY DEF TypeOK, Purge, JobStatus, JobState, NoJob

LEMMA StatusType ==
    ASSUME TypeOK, NEW state \in JobState
    PROVE  Status(state) \in JobStatus
BY DEF TypeOK, Status, JobStatus

(* Losing the instance. *)
LEMMA LostFacts ==
    ASSUME TypeOK, Lost
    PROVE  /\ up' = FALSE /\ cuts' = cuts + 1 /\ now' = now
           /\ cuts' \in Nat /\ cuts' > 0
<1>1. up' = FALSE /\ cuts' = cuts + 1 /\ now' = now
  BY Zenon DEF Lost
<1>2. QED
  BY <1>1 DEF TypeOK

(* Every handler, interrupted anywhere, leaves well-formed storage. *)
THEOREM TypeCorrect == Spec => []TypeOK
<1>1. Init => TypeOK
  <2>1. NoJob \in JobStatus
    BY DEF NoJob, JobStatus, JobState
  <2>2. <<>> \in Seq(Entry)
    BY EmptySeq
  <2>3. Init => alarm \in BOOLEAN /\ up \in BOOLEAN
    BY Zenon DEF Init
  <2>4. QED
    BY <2>1, <2>2, <2>3 DEF Init, TypeOK
<1>2. TypeOK /\ [Next]_vars => TypeOK'
  <2> SUFFICES ASSUME TypeOK, [Next]_vars
               PROVE  TypeOK'
    OBVIOUS
  <2> USE DEF TypeOK
  <2>1. ASSUME NEW s \in Slugs, Enqueue(s)
        PROVE  TypeOK'
    <3>1. Status("queued") \in JobStatus
      BY StatusType DEF JobState
    <3>2. QED
      BY <2>1, <3>1, PushedType DEF Enqueue
  <2>2. CASE AlarmStarts
    <3>1. Status("running") \in JobStatus
      BY StatusType DEF JobState
    <3>2. Head(queue) \in Entry
      BY <2>2, HeadTailProperties DEF AlarmStarts
    <3>3. Purge(StaleJobs) \in [Slugs -> JobStatus]
      BY PurgeType DEF StaleJobs
    <3>4. QED
      BY <2>2, <3>1, <3>2, <3>3 DEF AlarmStarts, Entry
  <2>3. CASE AlarmFindsNothing
    BY <2>3, PurgeType DEF AlarmFindsNothing, StaleJobs
  <2>4. ASSUME NEW o \in Outcome, AlarmFinishes(o)
        PROVE  TypeOK'
    <3>1. Status(o) \in JobStatus
      BY StatusType DEF JobState, Outcome
    <3>2. QED
      BY <2>4, <3>1, WithoutType DEF AlarmFinishes
  <2>5. CASE Tick
    BY <2>5 DEF Tick
  <2>6. CASE Cut
    BY <2>6, LostFacts DEF Cut
  <2>7. ASSUME NEW s \in Slugs, EnqueueCut(s)
        PROVE  TypeOK'
    <3>1. Status("queued") \in JobStatus
      BY StatusType DEF JobState
    <3>2. QED
      BY <2>7, <3>1, PushedType, LostFacts DEF EnqueueCut
  <2>8. ASSUME NEW S \in SUBSET StaleJobs, PurgeCut(S)
        PROVE  TypeOK'
    <3>1. Purge(S) \in [Slugs -> JobStatus]
      BY PurgeType DEF StaleJobs
    <3>2. QED
      BY <2>8, <3>1, LostFacts DEF PurgeCut
  <2>9. ASSUME NEW o \in Outcome, FinishCut(o)
        PROVE  TypeOK'
    <3>1. Status(o) \in JobStatus
      BY StatusType DEF JobState, Outcome
    <3>2. /\ job' \in [Slugs -> JobStatus]
          /\ up' \in BOOLEAN
          /\ cuts' \in Nat
          /\ now' \in Nat
      BY <2>9, <3>1, LostFacts DEF FinishCut
    <3>3. CASE UNCHANGED <<queue, alarm, serving, ended>>
      BY <3>2, <3>3
    <3>4. CASE /\ queue' = Without(queue, serving)
               /\ ended' = [ended EXCEPT ![serving] = Status(o)]
               /\ alarm' = TRUE
               /\ serving' = NoSlug
      <4>1. queue' \in Seq(Entry)
        BY <3>4, WithoutType
      <4>2. ended' \in [Slugs -> JobStatus]
        BY <3>4, <3>1
      <4>3. QED
        BY <3>2, <3>4, <4>1, <4>2
    <3>5. QED
      BY <2>9, <3>3, <3>4 DEF FinishCut
  <2>10. CASE Restart
    BY <2>10 DEF Restart
  <2>11. CASE UNCHANGED vars
    BY <2>11 DEF vars
  <2>12. QED
    BY <2>1, <2>2, <2>3, <2>4, <2>5, <2>6, <2>7, <2>8, <2>9, <2>10, <2>11
    DEF Next, Alarm
<1>3. QED
  BY <1>1, <1>2, PTL DEF Spec
-----------------------------------------------------------------------------
(* What the push does to the entries, position by position. *)
LEMMA PushedFacts ==
    ASSUME TypeOK, UniqueEntries, NEW s \in Slugs
    PROVE  LET q == Pushed(s) IN
           /\ Len(queue) \in Nat /\ Len(q) \in Nat /\ Len(queue) <= Len(q)
           /\ \A i \in 1..Len(queue) : q[i] = queue[i]
           /\ \A i \in 1..Len(q) :
                 i > Len(queue) => /\ q[i] = [slug |-> s, requested_at |-> now]
                                   /\ ~InQueue(s)
           /\ \E i \in 1..Len(q) : q[i].slug = s
           /\ \A i, j \in 1..Len(q) : q[i].slug = q[j].slug => i = j
           /\ q # <<>>
<1> DEFINE e == [slug |-> s, requested_at |-> now]
<1>1. queue \in Seq(Entry) /\ e \in Entry
  BY DEF TypeOK, Entry
<1>2. Len(queue) \in Nat
  BY <1>1, LenProperties
<1>3. CASE InQueue(s)
  <2>1. Pushed(s) = queue
    BY <1>3 DEF Pushed
  <2>2. queue # <<>>
    BY <1>3, <1>1, <1>2, EmptySeq DEF InQueue
  <2>3. QED
    BY <1>2, <1>3, <2>1, <2>2 DEF InQueue, UniqueEntries
<1>4. CASE ~InQueue(s)
  <2> DEFINE q == Append(queue, e)
  <2>1. Pushed(s) = q
    BY <1>4 DEF Pushed
  <2>2. /\ q # <<>>
        /\ Len(q) = Len(queue) + 1
        /\ \A i \in 1..Len(queue) : q[i] = queue[i]
        /\ q[Len(queue) + 1] = e
    BY <1>1, AppendProperties
  <2>3. \A i \in 1..Len(queue) : queue[i].slug # s
    BY <1>4 DEF InQueue
  <2>4. e.slug = s
    OBVIOUS
  <2> HIDE DEF q, e
  <2>5. \A i, j \in 1..Len(q) : q[i].slug = q[j].slug => i = j
    BY <1>2, <2>2, <2>3, <2>4 DEF UniqueEntries
  <2>6. \E i \in 1..Len(q) : q[i].slug = s
    BY <1>2, <2>2, <2>4
  <2>7. QED
    BY <1>2, <1>4, <2>1, <2>2, <2>5, <2>6 DEF e
<1>5. QED
  BY <1>3, <1>4

(* What dropping the head does to the entries, position by position. *)
LEMMA DropFacts ==
    ASSUME TypeOK, UniqueEntries, NEW s, IsHead(s)
    PROVE  LET q == Without(queue, s) IN
           /\ Len(queue) \in Nat /\ Len(q) = Len(queue) - 1 /\ Len(q) \in Nat
           /\ \A i \in 1..Len(q) : q[i] = queue[i + 1]
           /\ \A i \in 1..Len(q) : q[i].slug # s
           /\ \A i, j \in 1..Len(q) : q[i].slug = q[j].slug => i = j
           /\ (q = <<>>) <=> (Len(q) = 0)
<1>1. queue \in Seq(Entry) /\ queue # <<>> /\ s = queue[1].slug
  BY DEF TypeOK, IsHead
<1>2. \A i, j \in 1..Len(queue) : queue[i].slug = queue[j].slug => i = j
  BY DEF UniqueEntries
<1>3. Without(queue, s) = Tail(queue)
  BY <1>1, <1>2, WithoutHead
<1> DEFINE q == Tail(queue)
<1>4. /\ q \in Seq(Entry)
      /\ Len(q) = Len(queue) - 1
      /\ \A i \in 1..Len(q) : q[i] = queue[i + 1]
  BY <1>1, HeadTailProperties
<1>5. Len(queue) \in Nat /\ Len(q) \in Nat
  BY <1>1, <1>4, LenProperties
<1>6. (q = <<>>) <=> (Len(q) = 0)
  BY <1>4, EmptySeq
<1> HIDE DEF q
<1>7. \A i \in 1..Len(q) : q[i].slug # s
  BY <1>1, <1>2, <1>4, <1>5
<1>8. \A i, j \in 1..Len(q) : q[i].slug = q[j].slug => i = j
  BY <1>2, <1>4, <1>5
<1>9. QED
  BY <1>3, <1>4, <1>5, <1>6, <1>7, <1>8 DEF q
-----------------------------------------------------------------------------
LEMMA ShapePushed ==
    ASSUME TypeOK, Shape, NEW s \in Slugs, ~Refused(s),
           queue' = Pushed(s), serving' = serving,
           \/ job' = job
           \/ job' = [job EXCEPT ![s] = Status("queued")]
    PROVE  Shape'
<1> USE DEF Shape
<1>1. /\ Len(queue) \in Nat /\ Len(queue') \in Nat /\ Len(queue) <= Len(queue')
      /\ \A i \in 1..Len(queue) : queue'[i] = queue[i]
      /\ \E i \in 1..Len(queue') : queue'[i].slug = s
      /\ \A i, j \in 1..Len(queue') : queue'[i].slug = queue'[j].slug => i = j
      /\ queue' # <<>>
  <2>1. UniqueEntries
    OBVIOUS
  <2> DEFINE q == Pushed(s)
  <2>2. /\ Len(queue) \in Nat /\ Len(q) \in Nat /\ Len(queue) <= Len(q)
        /\ \A i \in 1..Len(queue) : q[i] = queue[i]
        /\ \E i \in 1..Len(q) : q[i].slug = s
        /\ \A i, j \in 1..Len(q) : q[i].slug = q[j].slug => i = j
        /\ q # <<>>
    BY <2>1, PushedFacts, Zenon
  <2>3. queue' = q
    OBVIOUS
  <2> HIDE DEF q
  <2>4. QED
    BY <2>2, <2>3
<1>2. \A t \in Slugs : InQueue(t) => InQueue(t)'
  BY <1>1 DEF InQueue
<1>3. InQueue(s)'
  BY <1>1 DEF InQueue
<1>4. \A t : IsHead(t) => IsHead(t)'
  <2>1. queue # <<>> => Len(queue) > 0
    BY <1>1, EmptySeq DEF TypeOK
  <2>2. QED
    BY <1>1, <2>1 DEF IsHead
<1>5. \A t \in Slugs : /\ job'[t].state = "running" => job[t].state = "running"
                       /\ job'[t].state = "queued" => job[t].state = "queued" \/ t = s
  BY DEF TypeOK, Status
<1>6. UniqueEntries'
  BY <1>1 DEF UniqueEntries
<1>7. RunningIsHead'
  BY <1>4, <1>5 DEF RunningIsHead
<1>8. QueuedIsInQueue'
  BY <1>2, <1>3, <1>5 DEF QueuedIsInQueue
<1>9. QED
  BY <1>6, <1>7, <1>8

LEMMA ShapeDropped ==
    ASSUME TypeOK, Shape, serving # NoSlug, NEW o \in Outcome,
           queue' = Without(queue, serving), serving' = NoSlug,
           job' = [job EXCEPT ![serving] = Status(o)]
    PROVE  Shape'
<1> USE DEF Shape
<1>1. IsHead(serving) /\ serving \in Slugs
  BY DEF RunningIsHead, TypeOK
<1>2. /\ Len(queue) \in Nat /\ Len(queue') = Len(queue) - 1 /\ Len(queue') \in Nat
      /\ \A i \in 1..Len(queue') : queue'[i] = queue[i + 1]
      /\ \A i, j \in 1..Len(queue') : queue'[i].slug = queue'[j].slug => i = j
  BY <1>1, DropFacts
<1>3. \A t \in Slugs \ {serving} : job'[t] = job[t]
  BY DEF TypeOK
<1>4. job'[serving].state = o
  BY <1>1 DEF TypeOK, Status
<1>5. \A t \in Slugs : job'[t].state # "running"
  BY <1>1, <1>3, <1>4 DEF RunningIsHead, IsHead, Outcome
<1>6. \A t \in Slugs \ {serving} : InQueue(t) => InQueue(t)'
  <2> SUFFICES ASSUME NEW t \in Slugs \ {serving}, InQueue(t)
               PROVE  InQueue(t)'
    OBVIOUS
  <2>1. PICK i \in 1..Len(queue) : queue[i].slug = t
    BY DEF InQueue
  <2>2. i # 1
    BY <1>1, <2>1 DEF IsHead
  <2>3. i - 1 \in 1..Len(queue') /\ queue'[i - 1] = queue[i]
    BY <1>2, <2>1, <2>2
  <2>4. QED
    BY <2>1, <2>3 DEF InQueue
<1>7. UniqueEntries'
  BY <1>2 DEF UniqueEntries
<1>8. RunningIsHead'
  BY <1>5 DEF RunningIsHead
<1>9. QueuedIsInQueue'
  BY <1>3, <1>4, <1>6 DEF QueuedIsInQueue, Outcome
<1>10. QED
  BY <1>7, <1>8, <1>9

(* The entry alarm() takes. *)
LEMMA HeadFacts ==
    ASSUME TypeOK, queue # <<>>
    PROVE  Head(queue) = queue[1] /\ Head(queue).slug \in Slugs
<1>1. queue \in Seq(Entry)
  BY DEF TypeOK
<1>2. Head(queue) \in Entry
  BY <1>1, HeadTailProperties
<1>3. Head(queue) = queue[1]
  BY <1>1
<1>4. QED
  BY <1>2, <1>3 DEF Entry

(* Purging statuses announces nothing new. *)
LEMMA PurgeFacts ==
    ASSUME NEW S \in SUBSET Slugs, NEW t \in Slugs
    PROVE  Purge(S)[t] = IF t \in S THEN NoJob ELSE job[t]
BY DEF Purge

LEMMA ShapeStep == TypeOK /\ Shape /\ [Next]_vars => Shape'
<1> SUFFICES ASSUME TypeOK, Shape, [Next]_vars
             PROVE  Shape'
  OBVIOUS
<1>1. ASSUME NEW s \in Slugs, Enqueue(s)
      PROVE  Shape'
  BY <1>1, ShapePushed DEF Enqueue
<1>2. CASE AlarmStarts
  <2> DEFINE h == Head(queue).slug
  <2>1. h \in Slugs /\ h = queue[1].slug /\ queue # <<>>
    BY <1>2, HeadFacts DEF AlarmStarts
  <2>2. IsHead(h)
    BY <2>1 DEF IsHead
  <2> HIDE DEF h
  <2>3. job' = [Purge(StaleJobs) EXCEPT ![h] = Status("running")]
    BY <1>2 DEF AlarmStarts, h
  <2>4. Purge(StaleJobs) \in [Slugs -> JobStatus]
    BY PurgeType DEF StaleJobs
  <2>5. \A t \in Slugs \ {h} : job'[t] = NoJob \/ job'[t] = job[t]
    BY <2>3, <2>4, PurgeFacts DEF StaleJobs
  <2>6. job'[h].state = "running"
    BY <2>1, <2>3, <2>4 DEF Status
  <2>7. queue' = queue /\ serving' = h
    BY <1>2 DEF AlarmStarts, h
  <2>8. RunningIsHead'
    BY <2>1, <2>2, <2>5, <2>7 DEF Shape, RunningIsHead, IsHead, NoJob
  <2>9. QueuedIsInQueue'
    BY <2>1, <2>5, <2>6, <2>7 DEF Shape, QueuedIsInQueue, InQueue, NoJob
  <2>10. QED
    BY <2>7, <2>8, <2>9 DEF Shape, UniqueEntries
<1>3. ASSUME NEW S \in SUBSET Slugs, job' = Purge(S), UNCHANGED <<queue, serving>>
      PROVE  Shape'
  <2>1. \A t \in Slugs : job'[t] = NoJob \/ job'[t] = job[t]
    BY <1>3, PurgeFacts
  <2>2. QED
    BY <1>3, <2>1
    DEF Shape, UniqueEntries, RunningIsHead, QueuedIsInQueue, InQueue, IsHead, NoJob
<1>4. ASSUME NEW o \in Outcome, AlarmFinishes(o)
      PROVE  Shape'
  BY <1>4, ShapeDropped DEF AlarmFinishes
<1>5. ASSUME NEW s \in Slugs, EnqueueCut(s)
      PROVE  Shape'
  BY <1>5, ShapePushed DEF EnqueueCut
<1>6. ASSUME NEW o \in Outcome, FinishCut(o)
      PROVE  Shape'
  <2>1. serving # NoSlug /\ job' = [job EXCEPT ![serving] = Status(o)]
    BY <1>6 DEF FinishCut
  <2>2. CASE UNCHANGED <<queue, alarm, serving, ended>>
    <3>1. serving \in Slugs
      BY <2>1 DEF TypeOK
    <3>2. \A t \in Slugs \ {serving} : job'[t] = job[t]
      BY <2>1 DEF TypeOK
    <3>3. job'[serving].state = o
      BY <2>1, <3>1 DEF TypeOK, Status
    <3>4. QED
      BY <2>2, <3>1, <3>2, <3>3
      DEF Shape, UniqueEntries, RunningIsHead, QueuedIsInQueue, InQueue, IsHead, Outcome
  <2>3. CASE queue' = Without(queue, serving) /\ serving' = NoSlug
    BY <2>1, <2>3, ShapeDropped
  <2>4. QED
    BY <1>6, <2>2, <2>3 DEF FinishCut
<1>7. CASE UNCHANGED <<queue, job>> /\ serving' \in {serving, NoSlug}
  BY <1>7 DEF Shape, UniqueEntries, RunningIsHead, QueuedIsInQueue, InQueue, IsHead
<1>8. AlarmFindsNothing => Shape'
  BY <1>3 DEF AlarmFindsNothing, StaleJobs
<1>9. ASSUME NEW S \in SUBSET StaleJobs, PurgeCut(S)
      PROVE  Shape'
  BY <1>3, <1>9 DEF PurgeCut, StaleJobs
<1>10. QED
  BY <1>1, <1>2, <1>4, <1>5, <1>6, <1>7, <1>8, <1>9
  DEF Next, Alarm, Tick, Cut, Restart, vars

(* Wherever the instance is lost: no slug is stored twice, the only        *)
(* "running" job is the head, and a slug told "queued" is in the queue.    *)
THEOREM ShapeCorrect == Spec => []Shape
<1>1. Init => Shape
  BY DEF Init, Shape, UniqueEntries, RunningIsHead, QueuedIsInQueue, NoJob
<1>2. QED
  BY <1>1, ShapeStep, TypeCorrect, PTL DEF Spec
-----------------------------------------------------------------------------
(* Who is in the queue after a push and after a drop. *)
LEMMA PushedMembers ==
    ASSUME TypeOK, UniqueEntries, NEW s \in Slugs, queue' = Pushed(s)
    PROVE  \A t : InQueue(t)' <=> InQueue(t) \/ t = s
<1> DEFINE q == Pushed(s)
<1>1. /\ Len(queue) \in Nat /\ Len(q) \in Nat /\ Len(queue) <= Len(q)
      /\ \A i \in 1..Len(queue) : q[i] = queue[i]
      /\ \A i \in 1..Len(q) : i > Len(queue) => q[i] = [slug |-> s, requested_at |-> now]
      /\ \E i \in 1..Len(q) : q[i].slug = s
  BY PushedFacts, Zenon
<1>2. queue' = q
  OBVIOUS
<1> HIDE DEF q
<1>3. \A i \in 1..Len(q) : i > Len(queue) => q[i].slug = s
  BY <1>1
<1>4. QED
  BY <1>1, <1>2, <1>3 DEF InQueue

LEMMA DroppedMembers ==
    ASSUME TypeOK, Shape, serving # NoSlug, queue' = Without(queue, serving)
    PROVE  \A t : InQueue(t)' <=> InQueue(t) /\ t # serving
<1>1. UniqueEntries /\ IsHead(serving)
  BY DEF Shape, RunningIsHead
<1> DEFINE q == Without(queue, serving)
<1>2. /\ Len(queue) \in Nat /\ Len(q) = Len(queue) - 1 /\ Len(q) \in Nat
      /\ \A i \in 1..Len(q) : q[i] = queue[i + 1]
      /\ \A i \in 1..Len(q) : q[i].slug # serving
  BY <1>1, DropFacts
<1>3. queue' = q
  OBVIOUS
<1> HIDE DEF q
<1>4. ASSUME NEW t, InQueue(t)'
      PROVE  InQueue(t) /\ t # serving
  <2>1. PICK i \in 1..Len(q) : q[i].slug = t
    BY <1>3, <1>4 DEF InQueue
  <2>2. i + 1 \in 1..Len(queue) /\ queue[i + 1].slug = t
    BY <1>2, <2>1
  <2>3. QED
    BY <1>2, <2>1, <2>2 DEF InQueue
<1>5. ASSUME NEW t, InQueue(t), t # serving
      PROVE  InQueue(t)'
  <2>1. PICK i \in 1..Len(queue) : queue[i].slug = t
    BY <1>5 DEF InQueue
  <2>2. i # 1
    BY <1>1, <1>5, <2>1 DEF IsHead
  <2>3. i - 1 \in 1..Len(q) /\ q[i - 1].slug = t
    BY <1>2, <2>1, <2>2
  <2>4. QED
    BY <1>3, <2>3 DEF InQueue
<1>6. QED
  BY <1>4, <1>5
-----------------------------------------------------------------------------
(* CollectionSpacing is not inductive: between the moment a slug leaves    *)
(* the queue and the moment it is collected again, what protects it is     *)
(* first its stored status, then, once that is purged, its age.            *)
SpacedInv ==
    \A s \in Slugs :
        /\ ended[s].updated_at <= now
        /\ InQueue(s) => Spaced(s)
        /\ ~InQueue(s) => job[s] = ended[s] \/ Spaced(s)

(* A request that is not refused comes after the window. *)
LEMMA AcceptedIsSpaced ==
    ASSUME TypeOK, SpacedInv, NEW s \in Slugs, ~Refused(s)
    PROVE  Spaced(s)
<1>1. CASE InQueue(s)
  BY <1>1 DEF SpacedInv
<1>2. CASE ~InQueue(s) /\ job[s] = ended[s]
  <2>1. /\ ended[s].updated_at <= now /\ now \in Nat
        /\ ended[s].updated_at \in Nat
    BY DEF SpacedInv, TypeOK, JobStatus
  <2>2. CASE ended[s].state = "done"
    BY <1>2, <2>1, <2>2, QueueAssumption DEF Refused, Spaced, Window
  <2>3. CASE ended[s].state = "error"
    BY <1>2, <2>1, <2>3, QueueAssumption DEF Refused, Spaced, Window
  <2>4. CASE ended[s].state \notin {"done", "error"}
    BY <2>1, <2>4 DEF Spaced, Window
  <2>5. QED
    BY <2>2, <2>3, <2>4
<1>3. QED
  BY <1>1, <1>2 DEF SpacedInv

(* A status old enough to be purged protects nothing any more. *)
LEMMA StaleIsSpaced ==
    ASSUME TypeOK, SpacedInv, NEW s \in Slugs, Stale(s), job[s] = ended[s]
    PROVE  Spaced(s)
<1>1. now \in Nat /\ ended[s].updated_at \in Nat
  BY DEF TypeOK, JobStatus
<1>2. ended[s].updated_at < now - JOB_TTL
  BY DEF Stale
<1>3. Window(ended[s].state) <= JOB_TTL /\ Window(ended[s].state) \in Nat
  BY QueueAssumption DEF Window
<1>4. QED
  BY <1>1, <1>2, <1>3, QueueAssumption DEF Spaced

LEMMA SpacedStep == TypeOK /\ Shape /\ SpacedInv /\ [Next]_vars => SpacedInv'
<1> SUFFICES ASSUME TypeOK, Shape, SpacedInv, [Next]_vars, NEW t \in Slugs
             PROVE  /\ (ended[t].updated_at <= now)'
                    /\ (InQueue(t) => Spaced(t))'
                    /\ (~InQueue(t) => job[t] = ended[t] \/ Spaced(t))'
  BY DEF SpacedInv
<1> DEFINE P == /\ (ended[t].updated_at <= now)'
                /\ (InQueue(t) => Spaced(t))'
                /\ (~InQueue(t) => job[t] = ended[t] \/ Spaced(t))'
<1>a. /\ ended[t].updated_at <= now
      /\ InQueue(t) => Spaced(t)
      /\ ~InQueue(t) => job[t] = ended[t] \/ Spaced(t)
  BY DEF SpacedInv
<1>1. ASSUME NEW s \in Slugs, ~Refused(s), queue' = Pushed(s),
             UNCHANGED <<now, ended>>,
             job' \in {job, [job EXCEPT ![s] = Status("queued")]}
      PROVE  P
  <2>1. InQueue(t)' <=> InQueue(t) \/ t = s
    BY <1>1, PushedMembers DEF Shape
  <2>2. t # s => job'[t] = job[t]
    BY <1>1 DEF TypeOK
  <2>3. Spaced(s)
    BY <1>1, AcceptedIsSpaced
  <2>4. Spaced(t)' <=> Spaced(t)
    BY <1>1 DEF Spaced
  <2>5. QED
    BY <1>1, <1>a, <2>1, <2>2, <2>3, <2>4
<1>2. ASSUME UNCHANGED <<now, queue, ended>>,
             job'[t] = job[t] \/ InQueue(t) \/ Stale(t)
      PROVE  P
  <2>1. InQueue(t)' <=> InQueue(t)
    BY <1>2 DEF InQueue
  <2>2. Spaced(t)' <=> Spaced(t)
    BY <1>2 DEF Spaced
  <2>3. QED
    BY <1>2, <1>a, <2>1, <2>2, StaleIsSpaced
<1>3. ASSUME NEW o \in Outcome, serving # NoSlug,
             job' = [job EXCEPT ![serving] = Status(o)],
             ended' = [ended EXCEPT ![serving] = Status(o)],
             queue' = Without(queue, serving), UNCHANGED now
      PROVE  P
  <2>1. InQueue(t)' <=> InQueue(t) /\ t # serving
    BY <1>3, DroppedMembers
  <2>2. CASE t = serving
    <3>1. job'[t] = Status(o) /\ ended'[t] = Status(o)
      BY <1>3, <2>2 DEF TypeOK
    <3>2. Status(o).updated_at = now /\ now \in Nat
      BY DEF Status, TypeOK
    <3>3. QED
      BY <1>3, <2>1, <2>2, <3>1, <3>2
  <2>3. CASE t # serving
    <3>1. job'[t] = job[t] /\ ended'[t] = ended[t]
      BY <1>3, <2>3 DEF TypeOK
    <3>2. Spaced(t)' <=> Spaced(t)
      BY <1>3, <3>1 DEF Spaced
    <3>3. QED
      BY <1>3, <1>a, <2>1, <2>3, <3>1, <3>2
  <2>4. QED
    BY <2>2, <2>3
<1>4. CASE AlarmStarts
  <2> DEFINE h == Head(queue).slug
  <2>1. queue # <<>> /\ job' = [Purge(StaleJobs) EXCEPT ![h] = Status("running")]
    BY <1>4 DEF AlarmStarts
  <2>2. InQueue(h)
    <3>1. h = queue[1].slug
      BY <2>1, HeadFacts
    <3>2. 1 \in 1..Len(queue)
      BY <2>1, LenProperties, EmptySeq DEF TypeOK
    <3>3. QED
      BY <3>1, <3>2 DEF InQueue
  <2>3. Purge(StaleJobs) \in [Slugs -> JobStatus]
    BY PurgeType DEF StaleJobs
  <2> HIDE DEF h
  <2>4. t # h => job'[t] = Purge(StaleJobs)[t]
    BY <2>1, <2>3
  <2>5. job'[t] = job[t] \/ InQueue(t) \/ Stale(t)
    BY <2>2, <2>4, PurgeFacts DEF StaleJobs
  <2>6. UNCHANGED <<now, queue, ended>>
    BY <1>4 DEF AlarmStarts
  <2>7. QED
    BY <1>2, <2>5, <2>6
<1>5. CASE AlarmFindsNothing
  <2>1. job'[t] = job[t] \/ Stale(t)
    BY <1>5, PurgeFacts DEF AlarmFindsNothing, StaleJobs
  <2>2. QED
    BY <1>2, <1>5, <2>1 DEF AlarmFindsNothing
<1>6. CASE Tick
  <2>1. InQueue(t)' <=> InQueue(t)
    BY <1>6 DEF Tick, InQueue
  <2>2. /\ now' = now + 1 /\ UNCHANGED <<ended, job>>
        /\ now \in Nat /\ ended[t].updated_at \in Nat
        /\ Window(ended[t].state) \in Nat
    BY <1>6, QueueAssumption DEF Tick, TypeOK, JobStatus, Window
  <2>3. Spaced(t) => Spaced(t)'
    BY <2>2 DEF Spaced
  <2>4. QED
    BY <1>a, <2>1, <2>2, <2>3
<1>7. ASSUME NEW S \in SUBSET StaleJobs, PurgeCut(S)
      PROVE  P
  <2>1. job'[t] = job[t] \/ Stale(t)
    BY <1>7, PurgeFacts DEF PurgeCut, StaleJobs
  <2>2. QED
    BY <1>2, <1>7, <2>1 DEF PurgeCut, Lost
<1>8. ASSUME NEW o \in Outcome, FinishCut(o)
      PROVE  P
  <2>1. CASE UNCHANGED <<queue, alarm, serving, ended>>
    <3>1. serving \in Slugs /\ InQueue(serving)
      <4>1. serving \in Slugs /\ IsHead(serving)
        BY <1>8 DEF FinishCut, TypeOK, Shape, RunningIsHead
      <4>2. 1 \in 1..Len(queue)
        BY <4>1, LenProperties, EmptySeq DEF TypeOK, IsHead
      <4>3. QED
        BY <4>1, <4>2 DEF IsHead, InQueue
    <3>2. job'[t] = job[t] \/ InQueue(t)
      BY <1>8, <3>1 DEF FinishCut, TypeOK
    <3>3. QED
      BY <1>2, <1>8, <2>1, <3>2 DEF FinishCut, Lost
  <2>2. CASE /\ queue' = Without(queue, serving)
             /\ ended' = [ended EXCEPT ![serving] = Status(o)]
    BY <1>3, <1>8, <2>2 DEF FinishCut, Lost
  <2>3. QED
    BY <1>8, <2>1, <2>2 DEF FinishCut
<1>9. ASSUME NEW s \in Slugs, Enqueue(s)
      PROVE  P
  BY <1>1, <1>9 DEF Enqueue
<1>10. ASSUME NEW s \in Slugs, EnqueueCut(s)
       PROVE  P
  BY <1>1, <1>10 DEF EnqueueCut, Lost
<1>11. ASSUME NEW o \in Outcome, AlarmFinishes(o)
       PROVE  P
  BY <1>3, <1>11 DEF AlarmFinishes
<1>12. CASE Cut
  BY <1>2, <1>12 DEF Cut, Lost
<1>13. CASE Restart
  BY <1>2, <1>13 DEF Restart
<1>14. CASE UNCHANGED vars
  BY <1>2, <1>14 DEF vars
<1>15. QED
  BY <1>4, <1>5, <1>6, <1>7, <1>8, <1>9, <1>10, <1>11, <1>12, <1>13, <1>14
  DEF Next, Alarm

(* Whenever alarm() starts to collect a slug, the window opened by the     *)
(* last outcome with which the slug left the queue has passed: the 15 and  *)
(* 5 minute cooldowns survive every purge, re-enqueue and loss of the      *)
(* instance, because neither is longer than the purge's TTL.               *)
THEOREM SpacingCorrect == Spec => CollectionSpacing
<1>1. Init => SpacedInv
  <2> SUFFICES ASSUME Init, NEW s \in Slugs
               PROVE  /\ ended[s].updated_at <= now
                      /\ Spaced(s)
                      /\ job[s] = ended[s]
    BY DEF SpacedInv
  <2>1. ended[s] = NoJob /\ job[s] = NoJob /\ now = 0
    BY DEF Init
  <2>2. NoJob.updated_at = 0 /\ Window(NoJob.state) = 0
    BY DEF NoJob, Window
  <2>3. QED
    BY <2>1, <2>2 DEF Spaced
<1>2. TypeOK /\ Shape /\ SpacedInv /\ [Next]_vars
      => [\A s \in Slugs : serving' = s /\ serving # s => Spaced(s)]_vars
  <2> SUFFICES ASSUME TypeOK, SpacedInv, [Next]_vars,
                      NEW s \in Slugs, serving' = s, serving # s
               PROVE  Spaced(s)
    OBVIOUS
  <2>1. s # NoSlug
    BY QueueAssumption
  <2>2. AlarmStarts
    BY <2>1 DEF Next, Enqueue, Alarm, AlarmFindsNothing, AlarmFinishes, Tick, Cut,
                EnqueueCut, PurgeCut, FinishCut, Restart, vars
  <2>3. queue # <<>> /\ s = queue[1].slug
    BY <2>2, HeadFacts DEF AlarmStarts
  <2>4. 1 \in 1..Len(queue)
    BY <2>3, LenProperties, EmptySeq DEF TypeOK
  <2>5. QED
    BY <2>3, <2>4 DEF SpacedInv, InQueue
<1>3. Init => Shape
  BY DEF Init, Shape, UniqueEntries, RunningIsHead, QueuedIsInQueue, NoJob
<1>4. QED
  BY <1>1, <1>2, <1>3, ShapeStep, SpacedStep, TypeCorrect, PTL DEF Spec, CollectionSpacing
-----------------------------------------------------------------------------
(* No lost wake-up: work left by an idle object has an alarm, unless the   *)
(* instance was lost at least once.                                        *)
THEOREM AlarmPendingCorrect == Spec => []AlarmPending
<1>1. Init => AlarmPending
  BY DEF Init, AlarmPending
<1>2. TypeOK /\ TypeOK' /\ AlarmPending /\ [Next]_vars => AlarmPending'
  <2> SUFFICES ASSUME TypeOK, TypeOK', AlarmPending, [Next]_vars
               PROVE  AlarmPending'
    OBVIOUS
  <2>1. ASSUME Lost
        PROVE  AlarmPending'
    BY <2>1, LostFacts DEF AlarmPending
  <2>2. ASSUME NEW s \in Slugs, Enqueue(s)
        PROVE  AlarmPending'
    BY <2>2 DEF Enqueue, AlarmPending
  <2>3. CASE AlarmStarts
    BY <2>3, HeadFacts, QueueAssumption DEF AlarmStarts, AlarmPending
  <2>4. CASE AlarmFindsNothing
    BY <2>4 DEF AlarmFindsNothing, AlarmPending
  <2>5. ASSUME NEW o \in Outcome, AlarmFinishes(o)
        PROVE  AlarmPending'
    <3>1. queue' # <<>> => alarm'
      BY <2>5, Zenon DEF AlarmFinishes
    <3>2. QED
      BY <3>1 DEF AlarmPending
  <2>6. CASE Restart
    <3>1. (alarm' <=> (alarm \/ serving # NoSlug)) /\ queue' = queue /\ cuts' = cuts
      BY <2>6, Zenon DEF Restart
    <3>2. QED
      BY <3>1 DEF AlarmPending
  <2>7. CASE UNCHANGED <<queue, serving, alarm, cuts>>
    BY <2>7 DEF AlarmPending
  <2>8. QED
    BY <2>1, <2>2, <2>3, <2>4, <2>5, <2>6, <2>7
    DEF Next, Alarm, Tick, Cut, EnqueueCut, PurgeCut, FinishCut, vars
<1>3. QED
  BY <1>1, <1>2, TypeCorrect, PTL DEF Spec

(* The status a visitor polls never goes back from running to queued.      *)
THEOREM RunningNeverRequeuedCorrect == Spec => RunningNeverRequeued
<1>1. TypeOK /\ [Next]_vars
      => [\A s \in Slugs : job[s].state = "running" => job'[s].state # "queued"]_vars
  <2> SUFFICES ASSUME TypeOK, [Next]_vars, NEW s \in Slugs,
                      job[s].state = "running", job'[s].state = "queued"
               PROVE  FALSE
    OBVIOUS
  <2>1. ASSUME NEW t \in Slugs, ~Refused(t),
               job' \in {job, [job EXCEPT ![t] = Status("queued")]}
        PROVE  FALSE
    BY <2>1 DEF TypeOK, Refused
  <2>2. ASSUME NEW o \in Outcome, serving # NoSlug,
               job' = [job EXCEPT ![serving] = Status(o)]
        PROVE  FALSE
    BY <2>2 DEF TypeOK, Outcome, Status
  <2>3. ASSUME NEW S \in SUBSET Slugs, job' = Purge(S)
        PROVE  FALSE
    BY <2>3, PurgeFacts DEF NoJob
  <2>4. CASE AlarmStarts
    <3>1. Purge(StaleJobs) \in [Slugs -> JobStatus]
      BY PurgeType DEF StaleJobs
    <3>2. job'[s] \in {Purge(StaleJobs)[s], Status("running")}
      BY <2>4, <3>1 DEF AlarmStarts
    <3>3. QED
      BY <3>2, PurgeFacts DEF StaleJobs, NoJob, Status
  <2>5. CASE UNCHANGED job
    BY <2>5
  <2>6. ~(\E t \in Slugs : Enqueue(t)) /\ ~(\E t \in Slugs : EnqueueCut(t))
    BY <2>1 DEF Enqueue, EnqueueCut
  <2>7. ~(\E o \in Outcome : AlarmFinishes(o)) /\ ~(\E o \in Outcome : FinishCut(o))
    BY <2>2 DEF AlarmFinishes, FinishCut
  <2>8. ~AlarmFindsNothing /\ ~(\E S \in SUBSET StaleJobs : PurgeCut(S))
    BY <2>3 DEF AlarmFindsNothing, PurgeCut, StaleJobs
  <2>9. QED
    BY <2>4, <2>5, <2>6, <2>7, <2>8 DEF Next, Alarm, Tick, Cut, Restart, vars
<1>2. QED
  BY <1>1, TypeCorrect, PTL DEF Spec, RunningNeverRequeued
-----------------------------------------------------------------------------
(***************************************************************************)
(* The collection queue implements SerialFifo: every step of the object is *)
(* a step of one serial first-come-first-served server, or a stutter.      *)
(***************************************************************************)

(* The slugs of a queue, and of a queue without its head. *)
LEMMA SlugsOf ==
    ASSUME NEW q \in Seq(Entry)
    PROVE  /\ [i \in 1..Len(q) |-> q[i].slug] \in Seq(Slugs)
           /\ q # <<>> => [i \in 1..(Len(q) - 1) |-> q[i + 1].slug] \in Seq(Slugs)
<1>1. Len(q) \in Nat /\ (q # <<>> => Len(q) - 1 \in Nat)
  BY LenProperties, EmptySeq
<1>2. \A i \in 1..Len(q) : q[i].slug \in Slugs
  <2>1. \A i \in 1..Len(q) : q[i] \in Entry
    BY LenProperties
  <2>2. QED
    BY <2>1 DEF Entry
<1>3. QED
  BY <1>1, <1>2

(* The line, position by position, of an idle and of a busy object. *)
LineShape ==
    /\ Waiting \in Seq(Slugs)
    /\ serving = NoSlug =>
          /\ Len(Waiting) = Len(queue)
          /\ \A i \in 1..Len(queue) : Waiting[i] = queue[i].slug
    /\ serving # NoSlug =>
          /\ queue # <<>> /\ queue[1].slug = serving
          /\ Len(queue) \in Nat \ {0}
          /\ Len(Waiting) = Len(queue) - 1
          /\ \A i \in 1..(Len(queue) - 1) : Waiting[i] = queue[i + 1].slug

LEMMA LineNow == TypeOK /\ Shape => LineShape
<1> SUFFICES ASSUME TypeOK, Shape
             PROVE  LineShape
  OBVIOUS
<1>1. queue \in Seq(Entry) /\ Len(queue) \in Nat
  BY LenProperties DEF TypeOK
<1>2. CASE serving = NoSlug
  <2>1. Waiting = [i \in 1..Len(queue) |-> queue[i].slug]
    BY <1>2 DEF Waiting
  <2>2. Waiting \in Seq(Slugs)
    BY <1>1, <2>1, SlugsOf
  <2>3. Len(Waiting) = Len(queue)
    <3>1. DOMAIN Waiting = 1..Len(queue)
      BY <2>1
    <3>2. DOMAIN Waiting = 1..Len(Waiting) /\ Len(Waiting) \in Nat
      BY <2>2, LenProperties
    <3>3. QED
      BY <1>1, <3>1, <3>2
  <2>4. QED
    BY <1>2, <2>1, <2>2, <2>3 DEF LineShape
<1>3. CASE serving # NoSlug
  <2>1. queue # <<>> /\ queue[1].slug = serving
    BY <1>3 DEF Shape, RunningIsHead, IsHead
  <2>2. Len(queue) \in Nat \ {0}
    BY <1>1, <2>1, EmptySeq
  <2>3. Waiting = [i \in 1..(Len(queue) - 1) |-> queue[i + 1].slug]
    BY <1>3 DEF Waiting
  <2>4. Waiting \in Seq(Slugs)
    BY <1>1, <2>1, <2>3, SlugsOf
  <2>5. Len(Waiting) = Len(queue) - 1
    <3>1. DOMAIN Waiting = 1..(Len(queue) - 1)
      BY <2>3
    <3>2. DOMAIN Waiting = 1..Len(Waiting) /\ Len(Waiting) \in Nat
      BY <2>4, LenProperties
    <3>3. QED
      BY <2>2, <3>1, <3>2
  <2>6. QED
    BY <1>3, <2>1, <2>2, <2>3, <2>4, <2>5 DEF LineShape
<1>4. QED
  BY <1>2, <1>3

LEMMA LineNext == TypeOK' /\ Shape' => LineShape'
BY LineNow, PTL

(* Putting a customer back in front of the line. *)
LEMMA ConsFacts ==
    ASSUME NEW e \in Slugs, NEW w \in Seq(Slugs)
    PROVE  LET c == <<e>> \o w IN
           /\ c \in Seq(Slugs)
           /\ Len(c) = Len(w) + 1
           /\ c[1] = e
           /\ \A i \in 1..Len(w) : c[i + 1] = w[i]
<1> DEFINE h == <<e>>
<1>1. h \in Seq(Slugs) /\ Len(h) = 1 /\ h[1] = e
  OBVIOUS
<1> HIDE DEF h
<1>2. /\ h \o w \in Seq(Slugs)
      /\ Len(h \o w) = Len(h) + Len(w)
      /\ \A i \in 1..(Len(h) + Len(w)) :
            (h \o w)[i] = IF i <= Len(h) THEN h[i] ELSE w[i - Len(h)]
  BY <1>1, ConcatProperties, Zenon
<1>3. Len(w) \in Nat
  BY LenProperties
<1>4. \A i \in 1..Len(w) : (h \o w)[i + 1] = w[i]
  <2> SUFFICES ASSUME NEW i \in 1..Len(w)
               PROVE  (h \o w)[i + 1] = w[i]
    OBVIOUS
  <2>1. i + 1 \in 1..(Len(h) + Len(w)) /\ ~(i + 1 <= Len(h)) /\ (i + 1) - Len(h) = i
    BY <1>1, <1>3
  <2>2. QED
    BY <1>2, <2>1
<1>5. (h \o w)[1] = e
  BY <1>1, <1>2, <1>3
<1>6. QED
  BY <1>1, <1>2, <1>3, <1>4, <1>5 DEF h

LEMMA MapsToStutter ==
    ASSUME UNCHANGED <<queue, serving>>
    PROVE  UNCHANGED <<Waiting, serving>>
BY DEF Waiting

(* A slug that is pushed joins the line; one that was there changes nothing. *)
LEMMA MapsToJoin ==
    ASSUME TypeOK, Shape, TypeOK', Shape', NEW s \in Slugs, queue' = Pushed(s), serving' = serving
    PROVE  Fifo!Join(s) \/ UNCHANGED <<Waiting, serving>>
<1>1. CASE InQueue(s)
  BY <1>1, MapsToStutter DEF Pushed
<1>2. CASE ~InQueue(s)
  <2> DEFINE e == [slug |-> s, requested_at |-> now]
  <2>1. queue \in Seq(Entry) /\ e \in Entry /\ queue' = Append(queue, e) /\ e.slug = s
    BY <1>2 DEF TypeOK, Entry, Pushed
  <2> HIDE DEF e
  <2>2. /\ Len(queue) \in Nat
        /\ Len(queue') = Len(queue) + 1
        /\ \A i \in 1..Len(queue) : queue'[i] = queue[i]
        /\ queue'[Len(queue) + 1] = e
    BY <2>1, AppendProperties, LenProperties
  <2>3. \A i \in 1..Len(queue) : queue[i].slug # s
    BY <1>2 DEF InQueue
  <2> DEFINE w == Waiting
             v == Waiting'
  <2>4. w \in Seq(Slugs) /\ v \in Seq(Slugs)
    BY LineNow, LineNext DEF LineShape
  <2>5. /\ Append(w, s) \in Seq(Slugs)
        /\ Len(Append(w, s)) = Len(w) + 1
        /\ \A i \in 1..Len(w) : Append(w, s)[i] = w[i]
        /\ Append(w, s)[Len(w) + 1] = s
        /\ Len(w) \in Nat
    BY <2>4, AppendProperties, LenProperties
  <2>6. CASE serving = NoSlug
    <3>1. /\ Len(w) = Len(queue)
          /\ \A i \in 1..Len(queue) : w[i] = queue[i].slug
          /\ Len(v) = Len(queue')
          /\ \A i \in 1..Len(queue') : v[i] = queue'[i].slug
      BY <2>6, LineNow, LineNext DEF LineShape
    <3> HIDE DEF w, v
    <3>2. v = Append(w, s)
      <4>1. \A i \in 1..Len(v) : v[i] = Append(w, s)[i]
        BY <2>1, <2>2, <2>5, <3>1
      <4>2. QED
        BY <2>2, <2>4, <2>5, <3>1, <4>1, SeqEqual
    <3>3. \A i \in DOMAIN w : w[i] # s
      BY <2>3, <2>4, <3>1, LenProperties
    <3>4. QED
      BY <2>6, <3>2, <3>3, QueueAssumption DEF Fifo!Join, Fifo!Waits, w, v
  <2>7. CASE serving # NoSlug
    <3>1. /\ queue[1].slug = serving
          /\ Len(queue) \in Nat \ {0}
          /\ Len(w) = Len(queue) - 1
          /\ \A i \in 1..(Len(queue) - 1) : w[i] = queue[i + 1].slug
          /\ Len(v) = Len(queue') - 1
          /\ \A i \in 1..(Len(queue') - 1) : v[i] = queue'[i + 1].slug
      BY <2>7, LineNow, LineNext DEF LineShape
    <3> HIDE DEF w, v
    <3>2. v = Append(w, s)
      <4>a. ASSUME NEW i \in 1..Len(w)
            PROVE  v[i] = Append(w, s)[i]
        <5>1. i \in 1..(Len(queue') - 1) /\ i + 1 \in 1..Len(queue)
          BY <2>2, <2>5, <3>1
        <5>2. v[i] = queue[i + 1].slug
          BY <2>2, <3>1, <5>1
        <5>3. w[i] = queue[i + 1].slug
          BY <3>1
        <5>4. QED
          BY <2>5, <5>2, <5>3
      <4>b. v[Len(w) + 1] = Append(w, s)[Len(w) + 1]
        <5>1. Len(w) + 1 \in 1..(Len(queue') - 1) /\ Len(w) + 1 + 1 = Len(queue) + 1
          BY <2>2, <2>5, <3>1
        <5>2. QED
          BY <2>1, <2>2, <2>5, <3>1, <5>1
      <4>1. \A i \in 1..Len(v) : v[i] = Append(w, s)[i]
        <5>1. Len(v) = Len(w) + 1 /\ Len(w) \in Nat
          BY <2>2, <2>5, <3>1
        <5>2. \A i \in 1..Len(v) : i \in 1..Len(w) \/ i = Len(w) + 1
          BY <5>1
        <5>3. QED
          BY <4>a, <4>b, <5>2
      <4>2. QED
        BY <2>2, <2>4, <2>5, <3>1, <4>1, SeqEqual
    <3>3. \A i \in DOMAIN w : w[i] # s
      BY <2>3, <2>4, <3>1, LenProperties
    <3>4. serving # s
      BY <2>3, <3>1
    <3>5. QED
      BY <3>2, <3>3, <3>4 DEF Fifo!Join, Fifo!Waits, w, v
  <2>8. QED
    BY <2>6, <2>7
<1>3. QED
  BY <1>1, <1>2

(* alarm() taking the head serves the first in line. *)
LEMMA MapsToServe ==
    ASSUME TypeOK, Shape, TypeOK', Shape', AlarmStarts
    PROVE  Fifo!Serve
<1>1. /\ serving = NoSlug /\ queue # <<>> /\ queue' = queue
      /\ serving' = queue[1].slug /\ serving' # NoSlug
  BY HeadFacts, QueueAssumption DEF AlarmStarts
<1> DEFINE w == Waiting
           v == Waiting'
<1>2. /\ w \in Seq(Slugs) /\ v \in Seq(Slugs)
      /\ Len(w) = Len(queue)
      /\ \A i \in 1..Len(queue) : w[i] = queue[i].slug
      /\ Len(queue) \in Nat \ {0}
      /\ Len(v) = Len(queue) - 1
      /\ \A i \in 1..(Len(queue) - 1) : v[i] = queue[i + 1].slug
  BY <1>1, LineNow, LineNext DEF LineShape
<1> HIDE DEF w, v
<1>3. w # <<>>
  BY <1>2
<1>4. /\ Tail(w) \in Seq(Slugs) /\ Len(Tail(w)) = Len(w) - 1
      /\ \A i \in 1..Len(Tail(w)) : Tail(w)[i] = w[i + 1]
  BY <1>2, <1>3, HeadTailProperties
<1>5. v = Tail(w)
  <2>1. \A i \in 1..Len(v) : v[i] = Tail(w)[i]
    BY <1>2, <1>4
  <2>2. QED
    BY <1>2, <1>4, <2>1, SeqEqual
<1>6. Head(w) = queue[1].slug
  BY <1>2, <1>3
<1>7. QED
  BY <1>1, <1>3, <1>5, <1>6 DEF Fifo!Serve, w, v

(* alarm() dropping the head lets the customer leave. *)
LEMMA MapsToLeave ==
    ASSUME TypeOK, Shape, TypeOK', Shape',
           serving # NoSlug, serving' = NoSlug, queue' = Without(queue, serving)
    PROVE  Fifo!Leave
<1>1. IsHead(serving) /\ UniqueEntries
  BY DEF Shape, RunningIsHead
<1> DEFINE w == Waiting
           v == Waiting'
           q == Without(queue, serving)
<1>2. /\ Len(queue) \in Nat /\ Len(q) = Len(queue) - 1 /\ Len(q) \in Nat
      /\ \A i \in 1..Len(q) : q[i] = queue[i + 1]
  BY <1>1, DropFacts
<1>3. /\ w \in Seq(Slugs) /\ v \in Seq(Slugs)
      /\ Len(w) = Len(queue) - 1
      /\ \A i \in 1..(Len(queue) - 1) : w[i] = queue[i + 1].slug
      /\ Len(v) = Len(queue')
      /\ \A i \in 1..Len(queue') : v[i] = queue'[i].slug
  BY LineNow, LineNext DEF LineShape
<1>4. queue' = q
  OBVIOUS
<1> HIDE DEF w, v, q
<1>5. v = w
  <2>1. Len(v) = Len(w) /\ \A i \in 1..Len(v) : v[i] = w[i]
    BY <1>2, <1>3, <1>4
  <2>2. QED
    BY <1>3, <2>1, SeqEqual
<1>6. QED
  BY <1>5 DEF Fifo!Leave, w, v

(* Reloading an object that was collecting puts the customer back first.   *)
LEMMA MapsToInterrupt ==
    ASSUME TypeOK, Shape, TypeOK', Shape',
           serving # NoSlug, serving' = NoSlug, queue' = queue
    PROVE  Fifo!Interrupt
<1> DEFINE w == Waiting
           v == Waiting'
<1>1. /\ w \in Seq(Slugs) /\ v \in Seq(Slugs) /\ serving \in Slugs
      /\ queue[1].slug = serving /\ Len(queue) \in Nat \ {0}
      /\ Len(w) = Len(queue) - 1
      /\ \A i \in 1..(Len(queue) - 1) : w[i] = queue[i + 1].slug
      /\ Len(v) = Len(queue)
      /\ \A i \in 1..Len(queue) : v[i] = queue[i].slug
  BY LineNow, LineNext DEF LineShape, TypeOK
<1> HIDE DEF w, v
<1> DEFINE c == <<serving>> \o w
<1>2. w \in Seq(Slugs) /\ serving \in Slugs
  BY <1>1
<1>3. /\ c \in Seq(Slugs) /\ Len(c) = Len(w) + 1
      /\ c[1] = serving
      /\ \A i \in 1..Len(w) : c[i + 1] = w[i]
  BY <1>2, ConsFacts, Zenon
<1> HIDE DEF c
<1>6. v = c
  <2>1. v[1] = c[1]
    BY <1>1, <1>3
  <2>2. ASSUME NEW i \in 2..Len(v)
        PROVE  v[i] = c[i]
    <3>1. i - 1 \in 1..Len(w) /\ i - 1 \in 1..(Len(queue) - 1) /\ (i - 1) + 1 = i
      BY <1>1, <2>2
    <3>2. c[i] = w[i - 1] /\ w[i - 1] = queue[i].slug
      BY <1>1, <1>3, <3>1
    <3>3. QED
      BY <1>1, <3>2
  <2>3. \A i \in 1..Len(v) : v[i] = c[i]
    BY <1>1, <2>1, <2>2
  <2>4. QED
    BY <1>1, <1>3, <2>3, SeqEqual
<1>7. QED
  BY <1>6 DEF Fifo!Interrupt, w, v, c

LEMMA MapsToNext ==
    TypeOK /\ Shape /\ TypeOK' /\ Shape' /\ [Next]_vars
    => Fifo!FifoNext \/ UNCHANGED <<Waiting, serving>>
<1> SUFFICES ASSUME TypeOK, Shape, TypeOK', Shape', [Next]_vars
             PROVE  Fifo!FifoNext \/ UNCHANGED <<Waiting, serving>>
  OBVIOUS
<1> DEFINE P == Fifo!FifoNext \/ UNCHANGED <<Waiting, serving>>
<1>1. ASSUME NEW s \in Slugs, Enqueue(s) \/ EnqueueCut(s)
      PROVE  P
  <2>1. queue' = Pushed(s) /\ serving' = serving
    BY <1>1 DEF Enqueue, EnqueueCut
  <2>2. QED
    BY <2>1, MapsToJoin DEF Fifo!FifoNext
<1>2. CASE AlarmStarts
  BY <1>2, MapsToServe DEF Fifo!FifoNext
<1>3. ASSUME NEW o \in Outcome, AlarmFinishes(o)
      PROVE  P
  BY <1>3, MapsToLeave DEF AlarmFinishes, Fifo!FifoNext
<1>4. ASSUME NEW o \in Outcome, FinishCut(o)
      PROVE  P
  <2>1. CASE UNCHANGED <<queue, alarm, serving, ended>>
    BY <2>1, MapsToStutter
  <2>2. CASE queue' = Without(queue, serving) /\ serving' = NoSlug
    BY <1>4, <2>2, MapsToLeave DEF FinishCut, Fifo!FifoNext
  <2>3. QED
    BY <1>4, <2>1, <2>2 DEF FinishCut
<1>5. CASE Restart
  <2>1. queue' = queue /\ serving' = NoSlug
    BY <1>5 DEF Restart
  <2>2. QED
    BY <2>1, MapsToInterrupt, MapsToStutter DEF Fifo!FifoNext
<1>6. CASE UNCHANGED <<queue, serving>>
  BY <1>6, MapsToStutter
<1>7. QED
  BY <1>1, <1>2, <1>3, <1>4, <1>5, <1>6
  DEF Next, Alarm, AlarmFindsNothing, Tick, Cut, PurgeCut, vars

(* Through every interleaving of requests, alarms, purges and losses of    *)
(* the instance, slugs are collected one at a time, in the order in which  *)
(* they were queued, and an interrupted collection starts over first.      *)
THEOREM FifoRefinement == Spec => ImplementsFifo
<1>1. Init => Fifo!FifoInit
  <2> SUFFICES ASSUME Init
               PROVE  Waiting = <<>> /\ serving = NoSlug
    BY DEF Fifo!FifoInit
  <2>1. queue = <<>> /\ serving = NoSlug
    BY DEF Init
  <2>2. QED
    BY <2>1 DEF Waiting
<1>2. Init => Shape
  BY DEF Init, Shape, UniqueEntries, RunningIsHead, QueuedIsInQueue, NoJob
<1>3. TypeOK /\ Shape /\ TypeOK' /\ Shape' /\ [Next]_vars => [Fifo!FifoNext]_(Fifo!fifoVars)
  BY MapsToNext DEF Fifo!fifoVars
<1>4. QED
  BY <1>1, <1>2, <1>3, ShapeStep, TypeCorrect, PTL
  DEF Spec, ImplementsFifo, Fifo!FifoSpec
-----------------------------------------------------------------------------
(* The entries after a push and after a drop, by their position. *)
LEMMA PushedEntries ==
    ASSUME TypeOK, Shape, NEW s \in Slugs, queue' = Pushed(s), NEW i \in 1..Len(queue')
    PROVE  \/ i \in 1..Len(queue) /\ queue'[i] = queue[i]
           \/ queue'[i].slug = s /\ queue'[i].requested_at = now
<1> DEFINE q == Pushed(s)
<1>1. UniqueEntries
  BY DEF Shape
<1>2. /\ Len(queue) \in Nat /\ Len(q) \in Nat /\ Len(queue) <= Len(q)
      /\ \A k \in 1..Len(queue) : q[k] = queue[k]
      /\ \A k \in 1..Len(q) : k > Len(queue) => q[k] = [slug |-> s, requested_at |-> now]
  BY <1>1, PushedFacts, Zenon
<1>3. queue' = q
  OBVIOUS
<1> HIDE DEF q
<1>4. CASE i <= Len(queue)
  BY <1>2, <1>3, <1>4
<1>5. CASE i > Len(queue)
  BY <1>2, <1>3, <1>5
<1>6. QED
  BY <1>2, <1>4, <1>5

LEMMA DroppedEntries ==
    ASSUME TypeOK, Shape, serving # NoSlug, queue' = Without(queue, serving),
           NEW i \in 1..Len(queue')
    PROVE  /\ i + 1 \in 1..Len(queue) /\ i + 1 > 1 /\ queue'[i] = queue[i + 1]
           /\ queue'[i].slug # serving
<1>1. UniqueEntries /\ IsHead(serving)
  BY DEF Shape, RunningIsHead
<1> DEFINE q == Without(queue, serving)
<1>2. /\ Len(queue) \in Nat /\ Len(q) = Len(queue) - 1 /\ Len(q) \in Nat
      /\ \A k \in 1..Len(q) : q[k] = queue[k + 1]
      /\ \A k \in 1..Len(q) : q[k].slug # serving
  BY <1>1, DropFacts
<1>3. queue' = q
  OBVIOUS
<1> HIDE DEF q
<1>4. QED
  BY <1>2, <1>3

LEMMA EntryTyped ==
    ASSUME TypeOK, NEW i \in 1..Len(queue)
    PROVE  /\ queue[i].slug \in Slugs /\ queue[i].requested_at \in Nat
           /\ job[queue[i].slug].updated_at \in Nat /\ now \in Nat
           /\ queue[1] = queue[i] => queue[i] = Head(queue)
<1>1. queue[i] \in Entry
  BY DEF TypeOK
<1>2. queue # <<>>
  BY EmptySeq DEF TypeOK
<1>3. queue[i].slug \in Slugs
  BY <1>1 DEF Entry
<1>4. job[queue[i].slug] \in JobStatus
  BY <1>3 DEF TypeOK
<1>5. QED
  BY <1>1, <1>2, <1>3, <1>4 DEF Entry, TypeOK, JobStatus

LEMMA EntryTypedNext ==
    ASSUME TypeOK', NEW i \in 1..Len(queue')
    PROVE  queue'[i].slug \in Slugs
<1>1. queue'[i] \in Entry
  BY DEF TypeOK
<1>2. QED
  BY <1>1 DEF Entry

(* An accepted request stays acceptable until the status changes. *)
LEMMA RefusedFades ==
    ASSUME TypeOK, TypeOK', NEW s \in Slugs, ~Refused(s), job'[s] = job[s], now <= now'
    PROVE  ~Refused(s)'
<1>1. job[s] \in JobStatus /\ now \in Nat /\ now' \in Nat
  BY DEF TypeOK
<1>2. job[s].updated_at \in Int
  BY <1>1 DEF JobStatus
<1>3. QED
  BY <1>1, <1>2, QueueAssumption DEF Refused
-----------------------------------------------------------------------------
(* Why an entry may be settled: as it stands, this is inductive. *)
Replayed(i, t) == \/ i = 1 /\ (alarm \/ serving # NoSlug)
                  \/ ~Refused(t)

LEMMA SettledStep ==
    TypeOK /\ TypeOK' /\ Shape /\ SettledEntryIsReplayed /\ [Next]_vars
        => SettledEntryIsReplayed'
<1> SUFFICES ASSUME TypeOK, TypeOK', Shape, SettledEntryIsReplayed, [Next]_vars
             PROVE  SettledEntryIsReplayed'
  OBVIOUS
<1> SUFFICES ASSUME NEW i \in 1..Len(queue'), NEW t \in Slugs, t = queue'[i].slug,
                    job'[t].state \in {"done", "error"}
             PROVE  cuts' > 0 /\ Replayed(i, t)'
  <2>1. \A k \in 1..Len(queue') : queue'[k].slug \in Slugs
    BY EntryTypedNext
  <2>2. QED
    BY <2>1 DEF SettledEntryIsReplayed, Replayed
<1>a. cuts \in Nat /\ now \in Nat
  BY DEF TypeOK
<1>b. ASSUME NEW k \in 1..Len(queue), queue[k].slug = t, job[t].state \in {"done", "error"}
      PROVE  cuts > 0 /\ Replayed(k, t)
  BY <1>b DEF SettledEntryIsReplayed, Replayed
(* The steps that leave the entry and its status where they are. *)
<1>c. ASSUME i \in 1..Len(queue), queue[i].slug = t, job'[t] = job[t], now <= now',
             cuts <= cuts', cuts' \in Nat,
             alarm \/ serving # NoSlug => alarm' \/ serving' # NoSlug
      PROVE  cuts' > 0 /\ Replayed(i, t)'
  <2>1. cuts > 0 /\ Replayed(i, t)
    BY <1>b, <1>c
  <2>2. CASE i = 1 /\ (alarm \/ serving # NoSlug)
    BY <1>a, <1>c, <2>1, <2>2 DEF Replayed
  <2>3. CASE ~Refused(t)
    <3>1. ~Refused(t)'
      BY <1>a, <1>c, <2>3, RefusedFades
    <3>2. QED
      BY <1>a, <1>c, <2>1, <3>1 DEF Replayed
  <2>4. QED
    BY <2>1, <2>2, <2>3 DEF Replayed
(* The steps that drop the head: what follows was replayed by a request.   *)
<1>d. ASSUME NEW o \in Outcome, serving # NoSlug, queue' = Without(queue, serving),
             job' = [job EXCEPT ![serving] = Status(o)], now' = now, cuts <= cuts',
             cuts' \in Nat
      PROVE  cuts' > 0 /\ Replayed(i, t)'
  <2>1. i + 1 \in 1..Len(queue) /\ i + 1 > 1 /\ queue'[i] = queue[i + 1] /\ t # serving
    BY <1>d, DroppedEntries
  <2>2. job'[t] = job[t]
    BY <1>a, <1>d, <2>1 DEF TypeOK
  <2>3. cuts > 0 /\ Replayed(i + 1, t)
    BY <1>b, <2>1, <2>2
  <2>4. ~Refused(t)
    BY <2>1, <2>3 DEF Replayed
  <2>5. ~Refused(t)'
    BY <1>a, <1>d, <2>2, <2>4, RefusedFades DEF TypeOK
  <2>6. QED
    BY <1>a, <1>d, <2>3, <2>5 DEF Replayed
(* The steps that push an entry, or find it there already. *)
<1>e. ASSUME NEW s \in Slugs, ~Refused(s), queue' = Pushed(s), now' = now,
             job' \in {job, [job EXCEPT ![s] = Status("queued")]},
             serving' = serving, alarm => alarm', cuts <= cuts', cuts' \in Nat,
             job' = job => cuts' > 0
      PROVE  cuts' > 0 /\ Replayed(i, t)'
  <2>1. CASE t = s
    <3>1. job' = job
      BY <1>a, <1>e, <2>1 DEF Status, TypeOK
    <3>2. ~Refused(s)'
      BY <1>e, <3>1, RefusedFades DEF TypeOK
    <3>3. QED
      BY <1>e, <2>1, <3>1, <3>2 DEF Replayed
  <2>2. CASE t # s
    <3>1. i \in 1..Len(queue) /\ queue'[i] = queue[i]
      BY <1>e, <2>2, PushedEntries
    <3>2. job'[t] = job[t]
      BY <1>e, <2>2 DEF TypeOK
    <3>3. QED
      BY <1>a, <1>c, <1>e, <3>1, <3>2 DEF TypeOK
  <2>3. QED
    BY <2>1, <2>2
(* The steps of the alarm that purge. *)
<1>f. ASSUME NEW S \in SUBSET Slugs, job' = Purge(S), UNCHANGED <<now, queue>>,
             cuts <= cuts', cuts' \in Nat,
             alarm \/ serving # NoSlug => alarm' \/ serving' # NoSlug
      PROVE  cuts' > 0 /\ Replayed(i, t)'
  <2>1. job'[t] = job[t]
    BY <1>a, <1>f, PurgeFacts DEF NoJob
  <2>2. QED
    BY <1>c, <1>f, <2>1 DEF TypeOK
<1>1. ASSUME NEW s \in Slugs, Enqueue(s)
      PROVE  cuts' > 0 /\ Replayed(i, t)'
  <2>1. /\ ~Refused(s) /\ queue' = Pushed(s) /\ now' = now /\ cuts' = cuts
        /\ serving' = serving /\ alarm' = TRUE
        /\ job' = [job EXCEPT ![s] = Status("queued")]
    BY <1>1 DEF Enqueue
  <2>2. CASE t = s
    BY <1>a, <2>1, <2>2 DEF Status, TypeOK
  <2>3. CASE t # s
    <3>1. i \in 1..Len(queue) /\ queue'[i] = queue[i]
      BY <2>1, <2>3, PushedEntries
    <3>2. job'[t] = job[t]
      BY <1>a, <2>1, <2>3 DEF TypeOK
    <3>3. QED
      BY <1>a, <1>c, <2>1, <3>1, <3>2 DEF TypeOK
  <2>4. QED
    BY <2>2, <2>3
<1>2. CASE AlarmStarts
  <2> DEFINE h == Head(queue).slug
  <2>1. h \in Slugs /\ h = queue[1].slug /\ queue # <<>>
    BY <1>2, HeadFacts DEF AlarmStarts
  <2>2. job' = [Purge(StaleJobs) EXCEPT ![h] = Status("running")]
    BY <1>2 DEF AlarmStarts
  <2> HIDE DEF h
  <2>3. Purge(StaleJobs) \in [Slugs -> JobStatus]
    BY PurgeType DEF StaleJobs
  <2>4. UNCHANGED <<now, queue, cuts>> /\ serving' = h
    BY <1>2 DEF AlarmStarts, h
  <2>5. t # h
    BY <2>1, <2>2, <2>3 DEF Status
  <2>6. job'[t] = Purge(StaleJobs)[t]
    BY <1>a, <2>2, <2>3, <2>5
  <2>7. job'[t] = job[t]
    BY <1>a, <2>6, PurgeFacts DEF NoJob, StaleJobs
  <2>8. serving' # NoSlug
    BY <2>1, <2>4, QueueAssumption
  <2>9. QED
    BY <1>a, <1>c, <2>4, <2>7, <2>8 DEF TypeOK
<1>3. CASE AlarmFindsNothing
  <2>1. queue' = <<>>
    BY <1>3 DEF AlarmFindsNothing
  <2>2. QED
    BY <2>1, EmptySeq
<1>4. ASSUME NEW o \in Outcome, AlarmFinishes(o)
      PROVE  cuts' > 0 /\ Replayed(i, t)'
  <2>1. /\ serving # NoSlug /\ queue' = Without(queue, serving)
        /\ job' = [job EXCEPT ![serving] = Status(o)] /\ now' = now /\ cuts' = cuts
    BY <1>4 DEF AlarmFinishes
  <2>2. cuts <= cuts' /\ cuts' \in Nat
    BY <2>1, <1>a
  <2>3. QED
    BY <2>1, <2>2, <1>d
<1>5. CASE Tick
  BY <1>a, <1>c, <1>5 DEF Tick, TypeOK
<1>6. CASE Cut
  <2>1. Lost /\ UNCHANGED <<queue, job, alarm, serving>>
    BY <1>6 DEF Cut
  <2>2. now' = now /\ cuts' = cuts + 1
    BY <2>1, LostFacts
  <2>3. QED
    BY <1>a, <1>c, <2>1, <2>2
<1>7. ASSUME NEW s \in Slugs, EnqueueCut(s)
      PROVE  cuts' > 0 /\ Replayed(i, t)'
  BY <1>a, <1>e, <1>7, LostFacts DEF EnqueueCut
<1>8. ASSUME NEW S \in SUBSET StaleJobs, PurgeCut(S)
      PROVE  cuts' > 0 /\ Replayed(i, t)'
  BY <1>a, <1>f, <1>8, LostFacts DEF PurgeCut, StaleJobs
<1>9. ASSUME NEW o \in Outcome, FinishCut(o)
      PROVE  cuts' > 0 /\ Replayed(i, t)'
  <2>1. /\ serving # NoSlug /\ job' = [job EXCEPT ![serving] = Status(o)]
        /\ now' = now /\ cuts' > 0 /\ cuts <= cuts' /\ cuts' \in Nat
    BY <1>a, <1>9, LostFacts DEF FinishCut
  <2>2. CASE UNCHANGED <<queue, alarm, serving, ended>>
    <3>1. CASE t = serving
      <4>1. queue[1].slug = serving /\ queue # <<>>
        BY <2>1 DEF Shape, RunningIsHead, IsHead
      <4>2. 1 \in 1..Len(queue) /\ i \in 1..Len(queue)
        BY <2>2, <4>1, EmptySeq, LenProperties DEF TypeOK
      <4>3. i = 1
        BY <2>2, <3>1, <4>1, <4>2 DEF Shape, UniqueEntries
      <4>4. QED
        BY <2>1, <2>2, <4>3 DEF Replayed
    <3>2. CASE t # serving
      <4>1. job'[t] = job[t]
        BY <1>a, <2>1, <3>2 DEF TypeOK
      <4>2. QED
        BY <1>a, <1>c, <2>1, <2>2, <4>1 DEF TypeOK
    <3>3. QED
      BY <3>1, <3>2
  <2>3. CASE queue' = Without(queue, serving)
    BY <1>d, <2>1, <2>3
  <2>4. QED
    BY <1>9, <2>2, <2>3 DEF FinishCut
<1>10. CASE Restart
  <2>1. UNCHANGED <<now, queue, job, cuts>> /\ alarm' = (alarm \/ serving # NoSlug)
    BY <1>10 DEF Restart
  <2>2. alarm \/ serving # NoSlug => alarm'
    BY <2>1, Zenon
  <2>3. QED
    BY <1>a, <1>c, <2>1, <2>2
<1>11. CASE UNCHANGED vars
  BY <1>a, <1>c, <1>11 DEF vars, TypeOK
<1>12. QED
  BY <1>1, <1>2, <1>3, <1>4, <1>5, <1>6, <1>7, <1>8, <1>9, <1>10, <1>11
  DEF Next, Alarm

(* While the instance was never lost, a status is no older than the entry  *)
(* it is about: it was written with it, or later.                          *)
AskedBefore == \A i \in 1..Len(queue) : queue[i].requested_at <= now

StatusFollows ==
    cuts = 0 =>
        \A i \in 1..Len(queue) :
            job[queue[i].slug].state # "none" =>
                queue[i].requested_at <= job[queue[i].slug].updated_at

AgeInv == AskedBefore /\ StatusFollows /\ MissingStatusIsOld

(* What AgeInv says of an entry e of slug s whose status is j. *)
AskedInTime(e, j, time, losses) ==
    /\ e.requested_at <= time
    /\ losses = 0 =>
          /\ j.state # "none" => e.requested_at <= j.updated_at
          /\ j.state = "none" => time - e.requested_at > JOB_TTL

LEMMA AgeByEntry ==
    ASSUME TypeOK
    PROVE  AgeInv <=> \A i \in 1..Len(queue) :
                          AskedInTime(queue[i], job[queue[i].slug], now, cuts)
BY DEF AgeInv, AskedBefore, StatusFollows, MissingStatusIsOld, AskedInTime, TypeOK

LEMMA AgeByEntryNext ==
    ASSUME TypeOK'
    PROVE  AgeInv' <=> \A i \in 1..Len(queue') :
                           AskedInTime(queue'[i], job'[queue'[i].slug], now', cuts')
BY DEF AgeInv, AskedBefore, StatusFollows, MissingStatusIsOld, AskedInTime, TypeOK

LEMMA AgeStep == TypeOK /\ TypeOK' /\ Shape /\ AgeInv /\ [Next]_vars => AgeInv'
<1> SUFFICES ASSUME TypeOK, TypeOK', Shape, AgeInv, [Next]_vars
             PROVE  AgeInv'
  OBVIOUS
<1> SUFFICES ASSUME NEW i \in 1..Len(queue'), NEW t \in Slugs, t = queue'[i].slug
             PROVE  AskedInTime(queue'[i], job'[t], now', cuts')
  <2>1. \A k \in 1..Len(queue') : queue'[k].slug \in Slugs
    BY EntryTypedNext
  <2>2. QED
    BY <2>1, AgeByEntryNext
<1>a. /\ cuts \in Nat /\ now \in Nat /\ cuts' \in Nat /\ now' \in Nat /\ JOB_TTL \in Nat
      /\ job \in [Slugs -> JobStatus] /\ queue'[i].requested_at \in Nat
  <2>1. queue'[i] \in Entry
    BY DEF TypeOK
  <2>2. QED
    BY <2>1, QueueAssumption DEF TypeOK, Entry
<1>b. ASSUME NEW k \in 1..Len(queue)
      PROVE  AskedInTime(queue[k], job[queue[k].slug], now, cuts)
  BY <1>b, AgeByEntry
(* The entry was there, at position k, and its status is unchanged, new or *)
(* purged; or it is about to be pushed.                                    *)
<1>c. ASSUME NEW k \in 1..Len(queue), queue'[i] = queue[k], job'[t] = job[t],
             now <= now', cuts <= cuts'
      PROVE  AskedInTime(queue'[i], job'[t], now', cuts')
  BY <1>a, <1>b, <1>c DEF AskedInTime
<1>d. ASSUME NEW k \in 1..Len(queue), queue'[i] = queue[k], NEW st \in JobState \ {"none"},
             job'[t] = Status(st), now' = now
      PROVE  AskedInTime(queue'[i], job'[t], now', cuts')
  BY <1>a, <1>b, <1>d DEF AskedInTime, Status
<1>e. ASSUME NEW S \in SUBSET StaleJobs, queue' = queue, job'[t] = Purge(S)[t], now' = now,
             cuts' = cuts
      PROVE  AskedInTime(queue'[i], job'[t], now', cuts')
  <2>1. CASE t \in S
    <3>1. job'[t] = NoJob
      BY <1>e, <2>1 DEF Purge
    <3>2. job[t].state # "none" /\ job[t].updated_at < now - JOB_TTL
      BY <1>e, <2>1 DEF StaleJobs, Stale
    <3>3. job[t].updated_at \in Nat
      BY <1>a DEF JobStatus
    <3>4. AskedInTime(queue'[i], job[t], now, cuts)
      BY <1>b, <1>e
    <3>5. QED
      BY <1>a, <1>e, <3>1, <3>2, <3>3, <3>4 DEF AskedInTime, NoJob
  <2>2. CASE t \notin S
    <3>1. job'[t] = job[t]
      BY <1>e, <2>2 DEF Purge
    <3>2. QED
      BY <1>a, <1>c, <1>e, <3>1
  <2>3. QED
    BY <2>1, <2>2
(* The steps that lose the instance leave the times of the entries alone.  *)
<1>f. ASSUME Lost, queue' = queue \/ (\E s \in Slugs : queue' = Pushed(s))
                   \/ (serving # NoSlug /\ queue' = Without(queue, serving))
      PROVE  AskedInTime(queue'[i], job'[t], now', cuts')
  <2>1. cuts' > 0 /\ now' = now
    BY <1>f, LostFacts
  <2>2. queue'[i].requested_at <= now
    <3>1. CASE queue' = queue
      BY <1>b, <3>1 DEF AskedInTime
    <3>2. ASSUME NEW s \in Slugs, queue' = Pushed(s)
          PROVE  queue'[i].requested_at <= now
      BY <1>a, <1>b, <3>2, PushedEntries DEF AskedInTime
    <3>3. CASE serving # NoSlug /\ queue' = Without(queue, serving)
      BY <1>b, <3>3, DroppedEntries DEF AskedInTime
    <3>4. QED
      BY <1>f, <3>1, <3>2, <3>3
  <2>3. QED
    BY <1>a, <2>1, <2>2 DEF AskedInTime
<1>1. ASSUME NEW s \in Slugs, Enqueue(s)
      PROVE  AskedInTime(queue'[i], job'[t], now', cuts')
  <2>1. /\ queue' = Pushed(s) /\ now' = now /\ cuts' = cuts
        /\ job' = [job EXCEPT ![s] = Status("queued")]
    BY <1>1 DEF Enqueue
  <2>2. job'[t] = IF t = s THEN Status("queued") ELSE job[t]
    BY <1>a, <2>1
  <2>3. CASE i \in 1..Len(queue) /\ queue'[i] = queue[i]
    <3>1. CASE t = s
      BY <2>1, <2>2, <2>3, <3>1, <1>d DEF JobState
    <3>2. CASE t # s
      BY <1>a, <2>1, <2>2, <2>3, <3>2, <1>c
    <3>3. QED
      BY <3>1, <3>2
  <2>4. CASE queue'[i].slug = s /\ queue'[i].requested_at = now
    BY <1>a, <2>1, <2>2, <2>4 DEF AskedInTime, Status
  <2>5. QED
    BY <2>1, <2>3, <2>4, PushedEntries
<1>2. CASE AlarmStarts
  <2> DEFINE h == Head(queue).slug
  <2>1. job' = [Purge(StaleJobs) EXCEPT ![h] = Status("running")]
        /\ UNCHANGED <<now, queue, cuts>>
    BY <1>2 DEF AlarmStarts
  <2> HIDE DEF h
  <2>2. Purge(StaleJobs) \in [Slugs -> JobStatus]
    BY PurgeType DEF StaleJobs
  <2>3. CASE t = h
    <3>1. job'[t] = Status("running")
      BY <2>1, <2>2, <2>3
    <3>2. QED
      BY <2>1, <3>1, <1>d DEF JobState
  <2>4. CASE t # h
    <3>1. job'[t] = Purge(StaleJobs)[t]
      BY <2>1, <2>2, <2>4
    <3>2. QED
      BY <2>1, <3>1, <1>e
  <2>5. QED
    BY <2>3, <2>4
<1>3. CASE AlarmFindsNothing
  BY <1>3, EmptySeq DEF AlarmFindsNothing
<1>4. ASSUME NEW o \in Outcome, AlarmFinishes(o)
      PROVE  AskedInTime(queue'[i], job'[t], now', cuts')
  <2>1. /\ serving # NoSlug /\ queue' = Without(queue, serving)
        /\ job' = [job EXCEPT ![serving] = Status(o)] /\ now' = now /\ cuts' = cuts
    BY <1>4 DEF AlarmFinishes
  <2>2. i + 1 \in 1..Len(queue) /\ queue'[i] = queue[i + 1] /\ t # serving
    BY <2>1, DroppedEntries
  <2>3. job'[t] = job[t]
    BY <1>a, <2>1, <2>2
  <2>4. QED
    BY <1>a, <1>c, <2>1, <2>2, <2>3
<1>5. CASE Tick
  BY <1>a, <1>c, <1>5 DEF Tick
<1>6. CASE Cut
  BY <1>f, <1>6 DEF Cut
<1>7. ASSUME NEW s \in Slugs, EnqueueCut(s)
      PROVE  AskedInTime(queue'[i], job'[t], now', cuts')
  BY <1>f, <1>7 DEF EnqueueCut
<1>8. ASSUME NEW S \in SUBSET StaleJobs, PurgeCut(S)
      PROVE  AskedInTime(queue'[i], job'[t], now', cuts')
  BY <1>f, <1>8 DEF PurgeCut
<1>9. ASSUME NEW o \in Outcome, FinishCut(o)
      PROVE  AskedInTime(queue'[i], job'[t], now', cuts')
  BY <1>f, <1>9 DEF FinishCut
<1>10. CASE Restart \/ UNCHANGED vars
  BY <1>a, <1>c, <1>10 DEF Restart, vars
<1>11. QED
  BY <1>1, <1>2, <1>3, <1>4, <1>5, <1>6, <1>7, <1>8, <1>9, <1>10 DEF Next, Alarm

(* An entry that shows no status waited for longer than the purge allows,  *)
(* or its enqueue was cut; and one that shows an outcome is the head being *)
(* replayed after a loss, or was asked for again: for every number of      *)
(* players, every length of the windows, and any number of losses.         *)
THEOREM StatusExplainedCorrect == Spec => []StatusExplained
<1>1. Init => AgeInv /\ SettledEntryIsReplayed
  BY EmptySeq DEF Init, AgeInv, AskedBefore, StatusFollows, MissingStatusIsOld,
     SettledEntryIsReplayed
<1>2. AgeInv /\ SettledEntryIsReplayed => StatusExplained
  BY DEF AgeInv, StatusExplained
<1>3. QED
  BY <1>1, <1>2, AgeStep, SettledStep, TypeCorrect, ShapeCorrect, PTL DEF Spec
-----------------------------------------------------------------------------
(* What the service does leaves the queue alone, and every other step is   *)
(* a step of the queue.                                                    *)
LEMMA QueueStep == RegNext => [Next]_vars
<1> SUFFICES ASSUME RegNext
             PROVE  [Next]_vars
  OBVIOUS
<1>1. ASSUME NEW s \in Slugs, ApiRegister(s) \/ ApiRefresh(s)
      PROVE  Next
  BY <1>1 DEF ApiRegister, ApiRefresh, Next
<1>2. ASSUME NEW s \in Slugs, ApiCut(s)
      PROVE  Next
  BY <1>2 DEF ApiCut, Next
<1>3. CallStarts => Next
  BY DEF CallStarts, Next, Alarm
<1>4. ASSUME Stamps \/ \E s \in Slugs : StampsLate(s)
      PROVE  UNCHANGED vars
  BY <1>4 DEF Stamps, StampsLate
<1>5. ASSUME NEW outcome \in Outcome, CallEnds(outcome)
      PROVE  Next
  BY <1>5 DEF CallEnds, Next
<1>6. QueueLost => Next
  BY DEF QueueLost, Next
<1>7. QueueAlone => Next
  BY DEF QueueAlone, Next, Alarm
<1>8. QED
  BY <1>1, <1>2, <1>3, <1>4, <1>5, <1>6, <1>7 DEF RegNext

(* So whatever holds of the queue alone holds of it here.                  *)
THEOREM QueueCarriesOver == RegSpec => Spec
<1>1. RegInit => Init
  BY DEF RegInit
<1>2. [RegNext]_regVars => [Next]_vars
  BY QueueStep DEF regVars
<1>3. QED
  BY <1>1, <1>2, PTL DEF RegSpec, Spec
-----------------------------------------------------------------------------
(* A run is awaited by a live instance only. *)
Awaited == work # "none" => serving # NoSlug /\ up

LEMMA StampType == TypeOK => Stamp \in Nat
BY DEF TypeOK, Stamp

LEMMA CallOverFacts ==
    ASSUME CallOver
    PROVE  /\ work' = "none"
           /\ ingests' = ingests
           /\ \/ late' = late
              \/ work = "collecting" /\ late' = late \cup {serving}
BY DEF CallOver

(* The awaited run is that of the slug being served. *)
LEMMA AwaitedStep == TypeOK /\ Awaited /\ [RegNext]_regVars => Awaited'
<1> SUFFICES ASSUME TypeOK, Awaited, [RegNext]_regVars
             PROVE  Awaited'
  OBVIOUS
<1>1. ASSUME work' = "none"
      PROVE  Awaited'
  BY <1>1 DEF Awaited
<1>2. ASSUME NEW s \in Slugs, ApiRegister(s) \/ ApiRefresh(s)
      PROVE  Awaited'
  BY <1>2, Zenon DEF ApiRegister, ApiRefresh, Enqueue, serviceVars, Awaited
<1>3. ASSUME NEW s \in Slugs, ApiCut(s)
      PROVE  Awaited'
  BY <1>1, <1>3 DEF ApiCut, CallOver
<1>4. CASE CallStarts
  <2>1. serving' \in Slugs
    BY <1>4, HeadFacts DEF CallStarts, AlarmStarts
  <2>2. serving' # NoSlug
    BY <2>1, QueueAssumption
  <2>3. up'
    BY <1>4, Zenon DEF CallStarts, AlarmStarts
  <2>4. QED
    BY <2>2, <2>3, Zenon DEF Awaited
<1>5. CASE Stamps
  <2>1. serving # NoSlug /\ up
    BY <1>5, Zenon DEF Stamps, Awaited
  <2>2. QED
    BY <1>5, <2>1, Zenon DEF Stamps, vars, Awaited
<1>6. ASSUME NEW s \in Slugs, StampsLate(s)
      PROVE  Awaited'
  BY <1>6, Zenon DEF StampsLate, vars, Awaited
<1>7. ASSUME NEW outcome \in Outcome, CallEnds(outcome)
      PROVE  Awaited'
  BY <1>1, <1>7 DEF CallEnds, CallOver
<1>8. CASE QueueLost
  BY <1>1, <1>8 DEF QueueLost, CallOver
<1>9. CASE QueueAlone
  <2>1. CASE Restart
    BY <1>9, <2>1, Zenon DEF QueueAlone, Restart, serviceVars, Awaited
  <2>2. CASE AlarmFindsNothing \/ Tick
    BY <1>9, <2>2, Zenon DEF QueueAlone, AlarmFindsNothing, Tick, serviceVars, Awaited
  <2>3. QED
    BY <1>9, <2>1, <2>2 DEF QueueAlone
<1>10. CASE UNCHANGED regVars
  BY <1>10, Zenon DEF regVars, vars, Awaited
<1>11. QED
  BY <1>2, <1>3, <1>4, <1>5, <1>6, <1>7, <1>8, <1>9, <1>10 DEF RegNext

(* The types, for every value of the constants. *)
THEOREM RegTypeCorrect == RegSpec => []RegTypeOK
<1> DEFINE Inv == RegTypeOK /\ Awaited
<1>1. RegInit => Inv
  BY DEF RegInit, RegTypeOK, Awaited, Work
<1>2. TypeOK /\ Inv /\ [RegNext]_regVars => Inv'
  <2> SUFFICES ASSUME TypeOK, RegTypeOK, Awaited, [RegNext]_regVars
               PROVE  RegTypeOK' /\ Awaited'
    OBVIOUS
  <2>1. Awaited'
    BY AwaitedStep
  <2>2. (work # "none" => serving # NoSlug)'
    BY <2>1, Zenon DEF Awaited
  <2>3. work \in Work /\ late \in SUBSET Slugs /\ ingests \in [Slugs -> SUBSET Nat]
        /\ serving \in Slugs \cup {NoSlug}
    BY DEF RegTypeOK, TypeOK
  <2>4. ASSUME UNCHANGED serviceVars
        PROVE  RegTypeOK'
    BY <2>2, <2>3, <2>4 DEF serviceVars, RegTypeOK
  <2>5. ASSUME CallOver
        PROVE  RegTypeOK'
    <3>1. work = "collecting" => serving \in Slugs
      BY <2>3 DEF RegTypeOK
    <3>2. QED
      BY <2>2, <2>3, <2>5, <3>1, CallOverFacts DEF RegTypeOK, Work
  <2>6. ASSUME NEW s, work' \in Work, late' = late,
               ingests' = [ingests EXCEPT ![s] = @ \cup {Stamp}]
        PROVE  RegTypeOK'
    BY <2>2, <2>3, <2>6, StampType DEF RegTypeOK
  <2>7. CASE CallStarts
    BY <2>1, <2>2, <2>3, <2>7 DEF CallStarts, RegTypeOK, Work
  <2>8. CASE Stamps
    <3>1. /\ work' \in Work /\ late' = late
          /\ ingests' = [ingests EXCEPT ![serving] = @ \cup {Stamp}]
      BY <2>8 DEF Stamps, Work
    <3>2. QED
      BY <2>1, <2>6, <3>1
  <2>9. ASSUME NEW s \in Slugs, StampsLate(s)
        PROVE  RegTypeOK'
    BY <2>3, <2>6, <2>9 DEF StampsLate
  <2>10. QED
    BY <2>1, <2>4, <2>5, <2>7, <2>8, <2>9
    DEF RegNext, ApiRegister, ApiRefresh, ApiCut, CallEnds, QueueLost, QueueAlone,
        regVars, serviceVars
<1>3. QED
  BY <1>1, <1>2, QueueCarriesOver, TypeCorrect, PTL DEF RegSpec
-----------------------------------------------------------------------------
(* The outcome the queue was told comes after the stamp. *)
Told(s, v) == job[s].state \in {"done", "error"} /\ v <= job[s].updated_at

(* A stamp of an account that is not in the queue is known to the queue,   *)
(* or visible to every read; but not that of a run that outlived its call. *)
Known(s) ==
    \A v \in ingests[s] :
        /\ v <= now
        /\ InQueue(s) \/ s \in late \/ Told(s, v) \/ now - v >= STALENESS

KnownInv == \A s \in Slugs : Known(s)

(* Then a request that neither the route nor the queue refuses is spaced:  *)
(* a stamp the read did not show is less than the staleness old, and the   *)
(* queue refuses for longer than that, even after a failure.               *)
LEMMA RequestIsSpaced ==
    ASSUME TypeOK, RegTypeOK, NEW s \in Slugs, Known(s),
           ~InQueue(s), ~Refused(s), MayRegister(s) \/ MayRefresh(s),
           NEW v \in ingests[s]
    PROVE  \/ now - v >= REFRESH_COOLDOWN
           \/ s \in late /\ now - v < STALENESS
<1>1. /\ now \in Nat /\ v \in Nat /\ v <= now
      /\ \A w \in ingests[s] : w \in Nat
      /\ s \in late \/ Told(s, v) \/ now - v >= STALENESS
      /\ job[s].updated_at \in Nat
  BY DEF TypeOK, RegTypeOK, Known, JobStatus
<1>2. PICK last \in Readable(s) : ~Recent(last, REFRESH_COOLDOWN)
  <2>1. ASSUME NEW last \in Readable(s), ~Recent(last, FRESH_WINDOW)
        PROVE  ~Recent(last, REFRESH_COOLDOWN)
    BY <1>1, <2>1, RegistrationAssumption, QueueAssumption DEF Recent, Never, Readable
  <2>2. QED
    BY <2>1 DEF MayRegister, MayRefresh
<1>3. CASE v + STALENESS <= now
  <2>1. v <= last
    BY <1>2, <1>3 DEF Readable, Settled
  <2>2. last \in Nat
    BY <1>1, <1>2, <2>1 DEF Readable, Never
  <2>3. QED
    BY <1>1, <1>2, <2>1, <2>2, QueueAssumption DEF Recent, Never
<1>4. CASE ~(v + STALENESS <= now)
  <2>1. now - v < STALENESS
    BY <1>1, <1>4, RegistrationAssumption
  <2>2. CASE Told(s, v)
    <3>1. CASE job[s].state = "done"
      BY <1>1, <2>2, <3>1, QueueAssumption DEF Told, Refused
    <3>2. CASE job[s].state = "error"
      BY <1>1, <2>1, <2>2, <3>2, QueueAssumption, RegistrationAssumption DEF Told, Refused
    <3>3. QED
      BY <2>2, <3>1, <3>2 DEF Told
  <2>3. QED
    BY <1>1, <2>1, <2>2, RegistrationAssumption
<1>5. QED
  BY <1>3, <1>4
-----------------------------------------------------------------------------
(* What the steps of the queue do to one slug. *)
Joins(s) ==
    /\ MayRegister(s) \/ MayRefresh(s)
    /\ ~Refused(s)
    /\ queue' = Pushed(s)
    /\ job' \in {job, [job EXCEPT ![s] = Status("queued")]}
    /\ UNCHANGED <<now, serving, ingests>>

Leaves(outcome) ==
    /\ serving # NoSlug
    /\ job' = [job EXCEPT ![serving] = Status(outcome)]
    /\ queue' \in {queue, Without(queue, serving)}
    /\ UNCHANGED <<now, ingests>>

Stays ==
    /\ UNCHANGED queue
    /\ now' \in {now, now + 1}
    /\ \A t \in Slugs : job'[t] = job[t] \/ InQueue(t) \/ Stale(t)

(* Every step is one of them. *)
LEMMA StepKinds ==
    ASSUME TypeOK, Shape, [RegNext]_regVars
    PROVE  /\ late \subseteq late'
           /\ \/ \E s \in Slugs : Joins(s)
              \/ \E outcome \in Outcome : Leaves(outcome)
              \/ Stays /\ ingests' = ingests
              \/ Stays /\ Stamps
              \/ Stays /\ \E s \in Slugs : StampsLate(s)
<1> DEFINE Kind == \/ \E s \in Slugs : Joins(s)
                   \/ \E outcome \in Outcome : Leaves(outcome)
                   \/ Stays /\ ingests' = ingests
                   \/ Stays /\ Stamps
                   \/ Stays /\ \E s \in Slugs : StampsLate(s)
           Goal == late \subseteq late' /\ Kind
<1>1. now \in Nat
  BY DEF TypeOK
<1>2. ASSUME UNCHANGED vars
      PROVE  Stays
  BY <1>2 DEF vars, Stays
<1>3. ASSUME CallOver
      PROVE  ingests' = ingests /\ late \subseteq late'
  BY <1>3, CallOverFacts
<1>4. ASSUME NEW s \in Slugs, ApiRegister(s) \/ ApiRefresh(s)
      PROVE  Goal
  <2>1. Joins(s) /\ late' = late
    BY <1>4, Zenon DEF ApiRegister, ApiRefresh, Enqueue, Joins, serviceVars
  <2>2. QED
    BY <2>1
<1>5. ASSUME NEW s \in Slugs, ApiCut(s)
      PROVE  Goal
  <2>1. CallOver /\ EnqueueCut(s) /\ (MayRegister(s) \/ MayRefresh(s))
    BY <1>5 DEF ApiCut
  <2>2. Joins(s)
    BY <1>3, <2>1 DEF EnqueueCut, Lost, Joins
  <2>3. QED
    BY <1>3, <2>1, <2>2
<1>6. ASSUME AlarmStarts
      PROVE  Stays
  <2> DEFINE h == Head(queue).slug
  <2>1. queue # <<>> /\ job' = [Purge(StaleJobs) EXCEPT ![h] = Status("running")]
    BY <1>6 DEF AlarmStarts
  <2>2. InQueue(h)
    <3>1. h = queue[1].slug
      BY <2>1, HeadFacts
    <3>2. 1 \in 1..Len(queue)
      BY <2>1, LenProperties, EmptySeq DEF TypeOK
    <3>3. QED
      BY <3>1, <3>2 DEF InQueue
  <2>3. Purge(StaleJobs) \in [Slugs -> JobStatus]
    BY PurgeType DEF StaleJobs
  <2> HIDE DEF h
  <2>4. ASSUME NEW t \in Slugs
        PROVE  job'[t] = job[t] \/ InQueue(t) \/ Stale(t)
    <3>1. t # h => job'[t] = Purge(StaleJobs)[t]
      BY <2>1, <2>3
    <3>2. QED
      BY <2>2, <3>1, PurgeFacts DEF StaleJobs
  <2>5. QED
    BY <1>6, <2>4 DEF AlarmStarts, Stays
<1>7. ASSUME NEW S \in SUBSET StaleJobs, job' = Purge(S), UNCHANGED <<queue, now>>
      PROVE  Stays
  BY <1>7, PurgeFacts DEF Stays, StaleJobs
<1>8. CASE CallStarts
  <2>1. Stays /\ ingests' = ingests /\ late' = late
    BY <1>6, <1>8 DEF CallStarts
  <2>2. QED
    BY <2>1
<1>9. CASE Stamps
  BY <1>2, <1>9 DEF Stamps
<1>10. ASSUME NEW s \in Slugs, StampsLate(s)
       PROVE  Goal
  <2>1. Stays /\ late' = late
    BY <1>2, <1>10 DEF StampsLate
  <2>2. QED
    BY <1>10, <2>1
<1>11. ASSUME NEW outcome \in Outcome, CallEnds(outcome)
       PROVE  Goal
  <2>1. Leaves(outcome)
    BY <1>3, <1>11 DEF CallEnds, AlarmFinishes, Leaves
  <2>2. late \subseteq late'
    BY <1>3, <1>11 DEF CallEnds
  <2>3. QED
    BY <2>1, <2>2
<1>12. CASE QueueLost
  <2>1. CallOver
    BY <1>12 DEF QueueLost
  <2>2. CASE Cut
    BY <1>3, <2>1, <2>2 DEF Cut, Lost, Stays
  <2>3. ASSUME NEW outcome \in Outcome, FinishCut(outcome)
        PROVE  Goal
    <3>1. Leaves(outcome)
      BY <1>3, <2>1, <2>3 DEF FinishCut, Lost, Leaves
    <3>2. late \subseteq late'
      BY <1>3, <2>1
    <3>3. QED
      BY <3>1, <3>2
  <2>4. ASSUME NEW S \in SUBSET StaleJobs, PurgeCut(S)
        PROVE  Goal
    <3>1. job' = Purge(S) /\ UNCHANGED <<queue, now>>
      BY <2>4, Zenon DEF PurgeCut, Lost
    <3>2. Stays
      BY <1>7, <3>1
    <3>3. QED
      BY <1>3, <2>1, <3>2
  <2>5. QED
    BY <1>12, <2>2, <2>3, <2>4 DEF QueueLost
<1>13. CASE QueueAlone
  <2>1. late' = late /\ ingests' = ingests
    BY <1>13 DEF QueueAlone, serviceVars
  <2>2. CASE AlarmFindsNothing
    BY <1>7, <2>1, <2>2 DEF AlarmFindsNothing
  <2>3. CASE Tick \/ Restart
    BY <2>1, <2>3 DEF Tick, Restart, Stays
  <2>4. QED
    BY <1>13, <2>2, <2>3 DEF QueueAlone
<1>14. CASE UNCHANGED regVars
  BY <1>2, <1>14 DEF regVars
<1>15. QED
  BY <1>4, <1>5, <1>8, <1>9, <1>10, <1>11, <1>12, <1>13, <1>14 DEF RegNext
-----------------------------------------------------------------------------
(* What a step of each kind means for who is in the queue. *)
LEMMA JoinsMembers ==
    ASSUME TypeOK, Shape, NEW s \in Slugs, Joins(s)
    PROVE  /\ \A t : InQueue(t)' <=> InQueue(t) \/ t = s
           /\ \A t \in Slugs : t # s => job'[t] = job[t]
<1>1. \A t : InQueue(t)' <=> InQueue(t) \/ t = s
  BY PushedMembers DEF Joins, Shape
<1>2. \A t \in Slugs : t # s => job'[t] = job[t]
  BY DEF Joins, TypeOK
<1>3. QED
  BY <1>1, <1>2

LEMMA LeavesMembers ==
    ASSUME TypeOK, Shape, NEW outcome \in Outcome, Leaves(outcome)
    PROVE  /\ serving \in Slugs
           /\ job'[serving] = Status(outcome)
           /\ \A t \in Slugs : t # serving => job'[t] = job[t]
           /\ \A t : t # serving => (InQueue(t)' <=> InQueue(t))
           /\ \A t : InQueue(t)' => InQueue(t)
<1>1. serving \in Slugs
  BY DEF Leaves, TypeOK
<1>2. /\ job'[serving] = Status(outcome)
      /\ \A t \in Slugs : t # serving => job'[t] = job[t]
  BY <1>1 DEF Leaves, TypeOK
<1>3. CASE queue' = queue
  BY <1>1, <1>2, <1>3 DEF InQueue
<1>4. CASE queue' = Without(queue, serving)
  <2>1. \A t : InQueue(t)' <=> InQueue(t) /\ t # serving
    BY <1>4, DroppedMembers DEF Leaves
  <2>2. QED
    BY <1>1, <1>2, <2>1
<1>5. QED
  BY <1>3, <1>4 DEF Leaves

LEMMA ServingInQueue ==
    ASSUME TypeOK, Shape, serving # NoSlug
    PROVE  InQueue(serving)
<1>1. IsHead(serving)
  BY DEF Shape, RunningIsHead
<1>2. 1 \in 1..Len(queue)
  BY <1>1, LenProperties, EmptySeq DEF TypeOK, IsHead
<1>3. QED
  BY <1>1, <1>2 DEF IsHead, InQueue

LEMMA ClockFacts ==
    ASSUME NEW m \in Nat, NEW n \in Nat, NEW v \in Nat, n = m \/ n = m + 1
    PROVE  /\ m <= n
           /\ v <= m => v <= n
           /\ \A d \in Nat : m - v >= d => n - v >= d
OBVIOUS

LEMMA KnownStep ==
    ASSUME TypeOK, TypeOK', RegTypeOK, RegTypeOK', Shape, Awaited, KnownInv,
           [RegNext]_regVars
    PROVE  KnownInv'
<1> SUFFICES ASSUME NEW t \in Slugs, NEW v \in ingests'[t]
             PROVE  /\ v <= now'
                    /\ \/ InQueue(t)' \/ t \in late'
                       \/ Told(t, v)' \/ now' - v >= STALENESS
  BY DEF KnownInv, Known
<1> DEFINE Goal == /\ v <= now'
                   /\ \/ InQueue(t)' \/ t \in late'
                      \/ Told(t, v)' \/ now' - v >= STALENESS
<1>1. /\ now \in Nat /\ now' \in Nat /\ v \in Nat
      /\ job[t].updated_at \in Nat
      /\ STALENESS \in Nat /\ JOB_TTL \in Nat /\ STALENESS <= JOB_TTL
  BY RegistrationAssumption, QueueAssumption DEF TypeOK, RegTypeOK, JobStatus
<1>2. v \in ingests[t]
      => v <= now /\ (InQueue(t) \/ t \in late \/ Told(t, v) \/ now - v >= STALENESS)
  BY DEF KnownInv, Known
<1>3. late \subseteq late'
  BY StepKinds
<1>4. ASSUME NEW s \in Slugs, Joins(s)
      PROVE  Goal
  <2>1. v \in ingests[t] /\ now' = now
    BY <1>4 DEF Joins
  <2>2. InQueue(t)' \/ (~InQueue(t) /\ job'[t] = job[t])
    BY <1>4, JoinsMembers
  <2>3. QED
    BY <1>2, <1>3, <2>1, <2>2 DEF Told
<1>5. ASSUME NEW outcome \in Outcome, Leaves(outcome)
      PROVE  Goal
  <2>1. v \in ingests[t] /\ now' = now
    BY <1>5 DEF Leaves
  <2>2. CASE t = serving
    <3>1. job'[t] = Status(outcome)
      BY <1>5, <2>2, LeavesMembers
    <3>2. Told(t, v)'
      BY <1>2, <2>1, <3>1 DEF Told, Status, Outcome
    <3>3. QED
      BY <1>2, <2>1, <3>2
  <2>3. CASE t # serving
    <3>1. (InQueue(t)' <=> InQueue(t)) /\ job'[t] = job[t]
      BY <1>5, <2>3, LeavesMembers
    <3>2. QED
      BY <1>2, <1>3, <2>1, <3>1 DEF Told
  <2>4. QED
    BY <2>2, <2>3
<1>6. ASSUME Stays, v \in ingests[t]
      PROVE  Goal
  <2>1. /\ InQueue(t)' <=> InQueue(t)
        /\ now' \in {now, now + 1}
        /\ job'[t] = job[t] \/ InQueue(t) \/ Stale(t)
    BY <1>6 DEF Stays, InQueue
  <2>2. v <= now' /\ (now - v >= STALENESS => now' - v >= STALENESS)
    <3>1. v <= now /\ (now' = now \/ now' = now + 1)
      BY <1>2, <1>6 DEF Stays
    <3>2. QED
      BY <1>1, <3>1, ClockFacts
  <2>3. CASE Told(t, v) /\ Stale(t)
    <3>1. v < now - JOB_TTL /\ (now' = now \/ now' = now + 1)
      BY <1>1, <1>6, <2>3 DEF Told, Stale, Stays
    <3>2. now - v >= STALENESS
      BY <1>1, <3>1
    <3>3. QED
      BY <2>2, <3>2
  <2>4. CASE Told(t, v) /\ job'[t] = job[t]
    BY <2>2, <2>4 DEF Told
  <2>5. QED
    BY <1>2, <1>3, <1>6, <2>1, <2>2, <2>3, <2>4
<1>7. ASSUME Stays, NEW s \in Slugs, s \in late' \/ InQueue(s)',
             ingests' = [ingests EXCEPT ![s] = @ \cup {Stamp}]
      PROVE  Goal
  <2>1. CASE v \in ingests[t]
    BY <1>6, <1>7, <2>1
  <2>2. CASE v \notin ingests[t]
    <3>1. t = s /\ v = now
      BY <1>7, <2>2 DEF RegTypeOK, Stamp
    <3>2. now <= now'
      BY <1>1, <1>7 DEF Stays
    <3>3. QED
      BY <1>7, <3>1, <3>2
  <2>3. QED
    BY <2>1, <2>2
<1>8. ASSUME Stays, Stamps
      PROVE  Goal
  <2>1. serving # NoSlug /\ serving \in Slugs
    BY <1>8 DEF Stamps, RegTypeOK, TypeOK
  <2>2. InQueue(serving)'
    BY <1>8, <2>1, ServingInQueue DEF Stays, Stamps, vars, InQueue
  <2>3. InQueue(serving)' /\ ingests' = [ingests EXCEPT ![serving] = @ \cup {Stamp}]
    BY <1>8, <2>2 DEF Stamps
  <2>4. ASSUME NEW s, s = serving
        PROVE  InQueue(s)'
    BY <1>8, <2>1, <2>4, ServingInQueue DEF Stays, InQueue
  <2>5. QED
    BY <1>7, <1>8, <2>1, <2>3, <2>4
<1>9. ASSUME Stays, NEW s \in Slugs, StampsLate(s)
      PROVE  Goal
  <2>1. s \in late' /\ ingests' = [ingests EXCEPT ![s] = @ \cup {Stamp}]
    BY <1>9 DEF StampsLate
  <2>2. QED
    BY <1>7, <1>9, <2>1
<1>10. QED
  BY StepKinds, <1>4, <1>5, <1>6, <1>8, <1>9

(* What the three lemmas need of the queue, and the two facts above. *)
RegInv == TypeOK /\ Shape /\ RegTypeOK /\ Awaited /\ KnownInv

THEOREM RegInvCorrect == RegSpec => []RegInv
<1>1. RegInit => Shape /\ Awaited /\ KnownInv
  BY DEF RegInit, Init, Shape, UniqueEntries, RunningIsHead, QueuedIsInQueue, NoJob,
         Awaited, KnownInv, Known
<1>2. TypeOK /\ Shape /\ [RegNext]_regVars => Shape'
  BY ShapeStep, QueueStep DEF regVars
<1>3. TypeOK /\ TypeOK' /\ RegTypeOK /\ RegTypeOK' /\ Shape /\ Awaited /\ KnownInv
         /\ [RegNext]_regVars
      => KnownInv'
  BY KnownStep
<1>4. QED
  BY <1>1, <1>2, <1>3, AwaitedStep, RegTypeCorrect, TypeCorrect, QueueCarriesOver, PTL
  DEF RegSpec, RegInv

(* The two windows, of the routes and of the queue, cover for one another: *)
(* apiRegister() and apiRefresh() bring a slug into the queue no sooner    *)
(* than the cooldown after its last stamp, whatever KV showed and whatever *)
(* the queue had been told, but for runs that outlived their call.         *)
THEOREM RequestSpacingCorrect == RegSpec => RequestSpacing
<1>1. RegInv /\ [RegNext]_regVars
      => [\A s \in Slugs : ~InQueue(s) /\ InQueue(s)' =>
             \A v \in ingests[s] :
                \/ now - v >= REFRESH_COOLDOWN
                \/ s \in late /\ now - v < STALENESS]_regVars
  <2> SUFFICES ASSUME RegInv, [RegNext]_regVars, NEW t \in Slugs,
                      ~InQueue(t), InQueue(t)', NEW v \in ingests[t]
               PROVE  \/ now - v >= REFRESH_COOLDOWN
                      \/ t \in late /\ now - v < STALENESS
    OBVIOUS
  <2> USE DEF RegInv
  <2>1. ASSUME NEW s \in Slugs, Joins(s)
        PROVE  t = s
    BY <2>1, JoinsMembers
  <2>2. ASSUME NEW outcome \in Outcome, Leaves(outcome)
        PROVE  FALSE
    BY <2>2, LeavesMembers
  <2>3. ~Stays
    BY DEF Stays, InQueue
  <2>4. Joins(t)
    BY <2>1, <2>2, <2>3, StepKinds
  <2>5. Known(t)
    BY DEF KnownInv
  <2>6. QED
    BY <2>4, <2>5, RequestIsSpaced DEF Joins
<1>2. QED
  BY <1>1, RegInvCorrect, PTL DEF RegSpec, RequestSpacing
-----------------------------------------------------------------------------
(* A slug waits in the queue only if its last stamp is older than the      *)
(* cooldown; once the run it waited for has stamped it, the call has only  *)
(* to end.                                                                 *)
WaitsSpaced(s) ==
    cuts = 0 /\ s \notin late /\ InQueue(s) /\ ~(serving = s /\ work = "stamped")
        => \A v \in ingests[s] : now - v >= REFRESH_COOLDOWN

WaitsInv == \A s \in Slugs : WaitsSpaced(s)

LEMMA WaitsStep ==
    ASSUME RegInv, RegTypeOK', TypeOK', WaitsInv, [RegNext]_regVars
    PROVE  WaitsInv'
<1> USE DEF RegInv
<1> SUFFICES ASSUME NEW t \in Slugs, cuts' = 0, t \notin late', InQueue(t)',
                    ~(serving' = t /\ work' = "stamped"), NEW v \in ingests'[t]
             PROVE  now' - v >= REFRESH_COOLDOWN
  BY DEF WaitsInv, WaitsSpaced
<1>1. /\ now \in Nat /\ now' \in Nat /\ v \in Nat /\ REFRESH_COOLDOWN \in Nat
  BY QueueAssumption DEF TypeOK, RegTypeOK
<1>2. t \notin late
  BY StepKinds
<1>3. ASSUME cuts = 0, InQueue(t), ~(serving = t /\ work = "stamped"),
             v \in ingests[t], now' = now \/ now' = now + 1
      PROVE  now' - v >= REFRESH_COOLDOWN
  <2>1. now - v >= REFRESH_COOLDOWN
    BY <1>2, <1>3 DEF WaitsInv, WaitsSpaced
  <2>2. QED
    BY <1>1, <1>3, <2>1, ClockFacts
<1>4. ~Lost
  BY LostFacts
<1>5. ASSUME NEW s \in Slugs, ApiRegister(s) \/ ApiRefresh(s)
      PROVE  now' - v >= REFRESH_COOLDOWN
  <2>1. Joins(s)
    BY <1>5, Zenon DEF ApiRegister, ApiRefresh, Enqueue, Joins, serviceVars
  <2>2. UNCHANGED <<now, serving, cuts, ingests, work, late>>
    BY <1>5, Zenon DEF ApiRegister, ApiRefresh, Enqueue, serviceVars
  <2>3. CASE InQueue(t)
    BY <1>3, <2>2, <2>3
  <2>4. CASE ~InQueue(t)
    <3>1. t = s
      BY <2>1, <2>4, JoinsMembers
    <3>2. Known(t) /\ v \in ingests[t]
      BY <2>2 DEF KnownInv
    <3>3. QED
      BY <1>2, <2>1, <2>2, <2>4, <3>1, <3>2, RequestIsSpaced DEF Joins
  <2>5. QED
    BY <2>3, <2>4
<1>6. ASSUME NEW s \in Slugs
      PROVE  ~ApiCut(s)
  BY <1>4 DEF ApiCut, EnqueueCut
<1>7. ~QueueLost
  BY <1>4 DEF QueueLost, Cut, FinishCut, PurgeCut
<1>8. CASE CallStarts
  <2>1. /\ UNCHANGED <<now, queue, cuts, ingests>>
        /\ serving = NoSlug
    BY <1>8, Zenon DEF CallStarts, AlarmStarts
  <2>2. InQueue(t) /\ serving # t
    BY <2>1, QueueAssumption DEF InQueue
  <2>3. QED
    BY <1>3, <2>1, <2>2
<1>9. CASE Stamps
  <2>1. UNCHANGED <<now, queue, cuts, serving>> /\ work' = "stamped"
    BY <1>9 DEF Stamps, vars
  <2>2. InQueue(t) /\ serving # t
    BY <2>1 DEF InQueue
  <2>3. v \in ingests[t]
    BY <1>9, <2>2 DEF Stamps, RegTypeOK
  <2>4. QED
    BY <1>3, <2>1, <2>2, <2>3
<1>10. ASSUME NEW s \in Slugs, StampsLate(s)
       PROVE  now' - v >= REFRESH_COOLDOWN
  <2>1. UNCHANGED <<now, queue, cuts, serving, work>>
    BY <1>10 DEF StampsLate, vars
  <2>2. InQueue(t)
    BY <2>1 DEF InQueue
  <2>3. v \in ingests[t]
    BY <1>2, <1>10 DEF StampsLate, RegTypeOK
  <2>4. QED
    BY <1>3, <2>1, <2>2, <2>3
<1>11. ASSUME NEW outcome \in Outcome, CallEnds(outcome)
       PROVE  now' - v >= REFRESH_COOLDOWN
  <2>1. /\ UNCHANGED <<now, cuts, ingests>>
        /\ serving # NoSlug /\ queue' = Without(queue, serving)
    BY <1>11, Zenon DEF CallEnds, AlarmFinishes, CallOver
  <2>2. InQueue(t) /\ t # serving
    BY <2>1, DroppedMembers
  <2>3. QED
    BY <1>3, <2>1, <2>2
<1>12. CASE QueueAlone
  <2>1. UNCHANGED <<queue, cuts, ingests, work>>
    BY <1>12, Zenon DEF QueueAlone, AlarmFindsNothing, Tick, Restart, serviceVars
  <2>2. now' = now \/ now' = now + 1
    BY <1>12, Zenon DEF QueueAlone, AlarmFindsNothing, Tick, Restart
  <2>3. serving' = serving \/ ~up
    BY <1>12, Zenon DEF QueueAlone, AlarmFindsNothing, Tick, Restart
  <2>4. ~up => work # "stamped"
    BY Zenon DEF Awaited
  <2>5. InQueue(t)
    BY <2>1 DEF InQueue
  <2>6. QED
    BY <1>3, <2>1, <2>2, <2>3, <2>4, <2>5
<1>13. CASE UNCHANGED regVars
  BY <1>3, <1>13 DEF regVars, vars, InQueue
<1>14. QED
  BY <1>5, <1>6, <1>7, <1>8, <1>9, <1>10, <1>11, <1>12, <1>13 DEF RegNext

(* run() stamps an account at most once per cooldown, as long as no run    *)
(* outlived its call for that account and the queue was not lost.          *)
THEOREM StampSpacingCorrect == RegSpec => StampSpacing
<1>1. RegInit => WaitsInv
  BY DEF RegInit, WaitsInv, WaitsSpaced
<1>2. RegInv /\ RegInv' /\ WaitsInv /\ [RegNext]_regVars => WaitsInv'
  BY WaitsStep DEF RegInv
<1>3. RegInv /\ WaitsInv /\ [RegNext]_regVars
      => [\A s \in Slugs : ingests'[s] # ingests[s] /\ s \notin late /\ cuts = 0 =>
             \A v \in ingests[s] : now - v >= REFRESH_COOLDOWN]_regVars
  <2> SUFFICES ASSUME RegInv, WaitsInv, [RegNext]_regVars, NEW t \in Slugs,
                      ingests'[t] # ingests[t], t \notin late, cuts = 0,
                      NEW v \in ingests[t]
               PROVE  now - v >= REFRESH_COOLDOWN
    OBVIOUS
  <2> USE DEF RegInv
  <2>1. ASSUME NEW s \in Slugs, StampsLate(s)
        PROVE  FALSE
    BY <2>1 DEF StampsLate, RegTypeOK
  <2>2. Stamps
    BY <2>1, StepKinds DEF Joins, Leaves
  <2>3. t = serving /\ work = "collecting"
    BY <2>2 DEF Stamps, RegTypeOK
  <2>4. InQueue(t)
    BY <2>3, ServingInQueue DEF RegTypeOK
  <2>5. QED
    BY <2>3, <2>4 DEF WaitsInv, WaitsSpaced
<1>4. QED
  BY <1>1, <1>2, <1>3, RegInvCorrect, PTL DEF RegSpec, StampSpacing

(* The two windows, of the routes and of the queue, keep the cooldown. *)
THEOREM CooldownKeptCorrect == RegSpec => CooldownKept
BY RequestSpacingCorrect, StampSpacingCorrect DEF CooldownKept
=============================================================================
