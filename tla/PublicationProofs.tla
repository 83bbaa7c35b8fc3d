--------------------------- MODULE PublicationProofs ---------------------------
(***************************************************************************)
(* What the publication of a player's data guarantees for every size of    *)
(* the windows, and however often either writer fails.  Two inductive      *)
(* invariants: where the raw documents of what a collection holds are, and *)
(* what a collection that nothing crossed has put so far.                  *)
(***************************************************************************)
EXTENDS Publication, FiniteSetTheorems, WellFoundedInduction, TLAPS

(* The games of a collection and of a synchronisation have raw documents.  *)
RawInv ==
    /\ VisibleHasRaw
    /\ job.base \subseteq r2 \cup pc
    /\ job.step > 0 => job.new \subseteq r2
    /\ sync.snapshot \subseteq pc

(* A collection that no put of the owner's computer fell into finds the    *)
(* games it read until it puts its own.                                    *)
BaseInv ==
    /\ job.since <= puts
    /\ job.step >= 0 /\ ~Crossed(job) =>
        kv["games"] = IF job.step <= 2 THEN job.base ELSE Merged(job)

(* As long as the owner's computer has put nothing, what the collection    *)
(* has put so far are its games.                                           *)
OrderInv ==
    /\ ServiceInOrder
    /\ puts = 0 /\ job.step > 3 => kv["gold"] = Merged(job)
    /\ puts = 0 /\ job.step > 4 => kv["account"] = Merged(job)

PublishInv == BaseInv /\ OrderInv
-----------------------------------------------------------------------------
LEMMA RunOrderLength == Len(RunOrder) = 5
  BY DEF RunOrder

LEMMA SyncOrderLength == Len(SyncOrder) = 3
  BY DEF SyncOrder

LEMMA RunKeys ==
    /\ RunOrder[1] = "payloads"
    /\ RunOrder[2] = "games"
    /\ RunOrder[3] = "gold"
    /\ RunOrder[4] = "account"
    /\ RunOrder[5] = "role_shap"
  BY DEF RunOrder

LEMMA SyncKeys ==
    /\ SyncOrder[1] = "games"
    /\ SyncOrder[2] = "gold"
    /\ SyncOrder[3] = "payloads"
  BY DEF SyncOrder

(* The newest games of a set are in it. *)
LEMMA NewestSubset == ASSUME NEW S, NEW n PROVE Newest(S, n) \subseteq S
  BY DEF Newest
-----------------------------------------------------------------------------
(* Type correctness: both writers, stopped anywhere, keep the types. *)
THEOREM TypeCorrect == Spec => []TypeOK
<1>. USE PublicationAssumption, RunOrderLength, SyncOrderLength DEF TypeOK
<1>1. Init => TypeOK
  BY DEF Init, NoJob, NoSync, Games
<1>2. TypeOK /\ [Next]_vars => TypeOK'
  <2>. SUFFICES ASSUME TypeOK, [Next]_vars PROVE TypeOK'
    OBVIOUS
  <2>. 1..played \subseteq Games
    BY DEF Games
  <2>1. CASE Plays
    BY <2>1 DEF Plays, serviceVars, ownerVars
  <2>2. ASSUME NEW new \in SUBSET (1..played), Collects(new) PROVE TypeOK'
    <3>1. kv["games"] \in SUBSET Games /\ new \in SUBSET Games
      BY <2>2 DEF Key
    <3>2. job' \in [step : -1..5, base : SUBSET Games, new : SUBSET Games,
                    items : SUBSET Games, since : Nat]
      BY <2>2, <3>1 DEF Collects
    <3>3. failures' \in Nat
      BY <2>2 DEF Collects
    <3>. QED
      BY <2>2, <3>2, <3>3 DEF Collects, ownerVars
  <2>3. CASE PushesRaw
    <3>. DEFINE Items == {g \in Newest(Merged(job), BUNDLE_GAMES) :
                             g \in kv["payloads"] \cup r2 \cup job.new}
    <3>1. Items \in SUBSET Games
      BY NewestSubset DEF Merged
    <3>2. job' = [job EXCEPT !.step = 1, !.items = Items]
      BY <2>3 DEF PushesRaw
    <3>3. job' \in [step : -1..5, base : SUBSET Games, new : SUBSET Games,
                    items : SUBSET Games, since : Nat]
      <4>1. PICK items \in SUBSET Games :
                job' = [job EXCEPT !.step = 1, !.items = items]
        BY <3>1, <3>2
      <4>2. job \in [step : -1..5, base : SUBSET Games, new : SUBSET Games,
                     items : SUBSET Games, since : Nat]
        OBVIOUS
      <4>3. job' = [step |-> 1, base |-> job.base, new |-> job.new,
                    items |-> items, since |-> job.since]
        BY <4>1, <4>2
      <4>. QED
        BY <4>2, <4>3
    <3>4. r2' \in SUBSET Games
      BY <2>3 DEF PushesRaw
    <3>. QED
      BY <2>3, <3>3, <3>4 DEF PushesRaw, ownerVars
  <2>4. CASE Puts
    <3>1. job' \in [step : -1..5, base : SUBSET Games, new : SUBSET Games,
                    items : SUBSET Games, since : Nat]
      BY <2>4 DEF Puts, NoJob
    <3>. DEFINE k == RunOrder[job.step]
                v == IF k = "payloads" THEN job.items ELSE Merged(job)
    <3>2. kv' = [kv EXCEPT ![k] = v]
      BY <2>4 DEF Puts
    <3>3. v \in SUBSET Games
      BY DEF Merged
    <3>4. kv' \in [Key -> SUBSET Games]
      <4>. HIDE DEF k, v
      <4>. QED
        BY <3>2, <3>3
    <3>. QED
      BY <2>4, <3>1, <3>4 DEF Puts, ownerVars
  <2>5. ASSUME NEW pushed \in SUBSET job.new, Fails(pushed) PROVE TypeOK'
    BY <2>5 DEF Fails, NoJob, ownerVars
  <2>6. ASSUME NEW new \in SUBSET (1..played), PcCollects(new) PROVE TypeOK'
    BY <2>6 DEF PcCollects, serviceVars
  <2>7. CASE SyncStarts
    BY <2>7 DEF SyncStarts, serviceVars
  <2>8. CASE SyncPuts
    <3>1. sync' \in [step : 0..3, snapshot : SUBSET Games]
      BY <2>8 DEF SyncPuts, NoSync
    <3>2. Newest(sync.snapshot, BUNDLE_GAMES) \in SUBSET Games
      BY NewestSubset
    <3>. DEFINE k == SyncOrder[sync.step]
                v == IF k = "payloads" THEN Newest(sync.snapshot, BUNDLE_GAMES)
                                       ELSE sync.snapshot
    <3>3. kv' = [kv EXCEPT ![k] = v] /\ v \in SUBSET Games
      BY <2>8, <3>2 DEF SyncPuts
    <3>4. kv' \in [Key -> SUBSET Games]
      <4>. HIDE DEF k, v
      <4>. QED
        BY <3>3
    <3>. QED
      BY <2>8, <3>1, <3>4 DEF SyncPuts, serviceVars
  <2>9. CASE SyncStops
    BY <2>9 DEF SyncStops, NoSync, serviceVars
  <2>10. CASE UNCHANGED vars
    BY <2>10 DEF vars
  <2>. QED
    BY <2>1, <2>2, <2>3, <2>4, <2>5, <2>6, <2>7, <2>8, <2>9, <2>10
    DEF Next, Service, Owner
<1>. QED
  BY <1>1, <1>2, PTL DEF Spec
-----------------------------------------------------------------------------
(* A visible game has durable raw documents. *)
THEOREM VisibleHasRawCorrect == Spec => []VisibleHasRaw
<1>. USE RunOrderLength, SyncOrderLength DEF TypeOK, RawInv, VisibleHasRaw
<1>1. Init => RawInv
  BY DEF Init, NoJob, NoSync, Key
<1>2. TypeOK /\ RawInv /\ [Next]_vars => RawInv'
  <2>. SUFFICES ASSUME TypeOK, RawInv, [Next]_vars PROVE RawInv'
    OBVIOUS
  <2>. "games" \in Key
    BY DEF Key
  <2>1. CASE Plays
    BY <2>1 DEF Plays, serviceVars, ownerVars
  <2>2. ASSUME NEW new \in SUBSET (1..played), Collects(new) PROVE RawInv'
    BY <2>2 DEF Collects, ownerVars
  <2>3. CASE PushesRaw
    BY <2>3 DEF PushesRaw, ownerVars
  <2>4. CASE Puts
    <3>1. kv'["games"] \in {kv["games"], Merged(job)}
      BY <2>4, RunKeys DEF Puts
    <3>2. Merged(job) \subseteq r2 \cup pc
      BY <2>4 DEF Puts, Merged
    <3>. QED
      BY <2>4, <3>1, <3>2 DEF Puts, NoJob, ownerVars
  <2>5. ASSUME NEW pushed \in SUBSET job.new, Fails(pushed) PROVE RawInv'
    BY <2>5 DEF Fails, NoJob, ownerVars
  <2>6. ASSUME NEW new \in SUBSET (1..played), PcCollects(new) PROVE RawInv'
    BY <2>6 DEF PcCollects, serviceVars
  <2>7. CASE SyncStarts
    BY <2>7 DEF SyncStarts, serviceVars
  <2>8. CASE SyncPuts
    <3>1. kv'["games"] \in {kv["games"], sync.snapshot}
      BY <2>8, SyncKeys DEF SyncPuts
    <3>. QED
      BY <2>8, <3>1 DEF SyncPuts, NoSync, serviceVars
  <2>9. CASE SyncStops
    BY <2>9 DEF SyncStops, NoSync, serviceVars
  <2>10. CASE UNCHANGED vars
    BY <2>10 DEF vars
  <2>. QED
    BY <2>1, <2>2, <2>3, <2>4, <2>5, <2>6, <2>7, <2>8, <2>9, <2>10
    DEF Next, Service, Owner
<1>3. RawInv => VisibleHasRaw
  OBVIOUS
<1>. QED
  BY <1>1, <1>2, <1>3, TypeCorrect, PTL DEF Spec
-----------------------------------------------------------------------------
(* What a collection finds and has put, at every step. *)
THEOREM PublishInvCorrect == Spec => []PublishInv
<1>. USE RunOrderLength, SyncOrderLength
     DEF TypeOK, PublishInv, BaseInv, OrderInv, ServiceInOrder, Crossed, Merged
<1>1. Init => PublishInv
  BY DEF Init, NoJob, NoSync, Key
<1>2. TypeOK /\ PublishInv /\ [Next]_vars => PublishInv'
  <2>. SUFFICES ASSUME TypeOK, PublishInv, [Next]_vars PROVE PublishInv'
    OBVIOUS
  <2>1. CASE Plays
    BY <2>1 DEF Plays, serviceVars, ownerVars
  <2>2. ASSUME NEW new \in SUBSET (1..played), Collects(new) PROVE PublishInv'
    BY <2>2 DEF Collects, ownerVars
  <2>3. CASE PushesRaw
    BY <2>3 DEF PushesRaw, ownerVars
  <2>4. CASE Puts
    <3>. job.step \in 1..5 /\ puts' = puts
      BY <2>4 DEF Puts, ownerVars
    <3>1. CASE job.step = 1
      BY <2>4, <3>1, RunKeys DEF Puts, Key
    <3>2. CASE job.step = 2
      BY <2>4, <3>2, RunKeys DEF Puts, Key
    <3>3. CASE job.step = 3
      BY <2>4, <3>3, RunKeys DEF Puts, Key
    <3>4. CASE job.step = 4
      BY <2>4, <3>4, RunKeys DEF Puts, Key
    <3>5. CASE job.step = 5
      BY <2>4, <3>5, RunKeys DEF Puts, Key, NoJob
    <3>. QED
      BY <3>1, <3>2, <3>3, <3>4, <3>5
  <2>5. ASSUME NEW pushed \in SUBSET job.new, Fails(pushed) PROVE PublishInv'
    BY <2>5 DEF Fails, NoJob, ownerVars
  <2>6. ASSUME NEW new \in SUBSET (1..played), PcCollects(new) PROVE PublishInv'
    BY <2>6 DEF PcCollects, serviceVars
  <2>7. CASE SyncStarts
    BY <2>7 DEF SyncStarts, serviceVars
  <2>8. CASE SyncPuts
    <3>1. puts' = puts + 1 /\ job' = job
      BY <2>8 DEF SyncPuts, serviceVars
    <3>. QED
      BY <3>1
  <2>9. CASE SyncStops
    BY <2>9 DEF SyncStops, serviceVars
  <2>10. CASE UNCHANGED vars
    BY <2>10 DEF vars
  <2>. QED
    BY <2>1, <2>2, <2>3, <2>4, <2>5, <2>6, <2>7, <2>8, <2>9, <2>10
    DEF Next, Service, Owner
<1>. QED
  BY <1>1, <1>2, TypeCorrect, PTL DEF Spec

(* What the account says was collected is aggregated, and what is          *)
(* aggregated is visible, wherever the service stopped.                    *)
THEOREM ServiceInOrderCorrect == Spec => []ServiceInOrder
<1>1. PublishInv => ServiceInOrder
  BY DEF PublishInv, OrderInv
<1>. QED
  BY <1>1, PublishInvCorrect, PTL

(* A collection that nothing crossed hides no game. *)
THEOREM ServiceKeepsGamesCorrect == Spec => ServiceKeepsGames
<1>1. TypeOK /\ PublishInv /\ [Next]_vars =>
        (puts' = puts /\ ~Crossed(job) => kv["games"] \subseteq kv'["games"])
  <2>. SUFFICES ASSUME TypeOK, PublishInv, [Next]_vars, puts' = puts, ~Crossed(job)
               PROVE  kv["games"] \subseteq kv'["games"]
    OBVIOUS
  <2>1. CASE Puts
    <3>1. job.step \in 1..5 /\ (job.step # 2 => kv'["games"] = kv["games"])
      BY <2>1, RunOrderLength, RunKeys DEF Puts, TypeOK
    <3>2. CASE job.step = 2
      BY <2>1, <3>2, RunKeys DEF Puts, TypeOK, Key, PublishInv, BaseInv, Merged
    <3>. QED
      BY <3>1, <3>2
  <2>2. CASE UNCHANGED kv
    BY <2>2
  <2>3. ~SyncPuts
    BY DEF SyncPuts, TypeOK
  <2>. QED
    BY <2>1, <2>2, <2>3 DEF Next, Service, Owner, Plays, Collects, PushesRaw, Fails,
       PcCollects, SyncStarts, SyncStops, serviceVars, ownerVars, vars
<1>. QED
  BY <1>1, TypeCorrect, PublishInvCorrect, PTL DEF Spec, ServiceKeepsGames
-----------------------------------------------------------------------------
(* A set of games played has a last one. *)
LEMMA LastGame ==
    ASSUME NEW n \in Nat, NEW S \in SUBSET (1..n), S # {}
    PROVE  \E g \in S : \A h \in S : h <= g
<1> DEFINE T == {n - g : g \in S}
<1>1. T \subseteq Nat /\ T # {}
  <2>1. \A g \in S : n - g \in Nat
    OBVIOUS
  <2>2. QED
    BY <2>1
<1>2. PICK d \in T : \A e \in T : ~(<<e, d>> \in OpToRel(<, Nat))
  BY <1>1, NatLessThanWellFounded, WFMin
<1>3. \A e \in T : ~(e < d)
  BY <1>1, <1>2 DEF OpToRel
<1>4. PICK g \in S : d = n - g
  OBVIOUS
<1>5. ASSUME NEW h \in S
      PROVE  h <= g
  <2>1. ~(n - h < n - g)
    BY <1>3, <1>4
  <2>2. QED
    BY <2>1
<1>6. QED
  BY <1>5

LEMMA FinitelyPlayed ==
    ASSUME NEW n \in Nat, NEW S \in SUBSET (1..n)
    PROVE  IsFiniteSet(S)
<1>1. 1 \in Int /\ n \in Int
  OBVIOUS
<1>2. IsFiniteSet(1..n)
  BY <1>1, FS_Interval
<1>3. QED
  BY <1>2, FS_Subset

(* A game that is not among the n newest has n of them after it. *)
LEMMA WindowIsFull ==
    ASSUME NEW p \in Nat, NEW M \in SUBSET (1..p), NEW n \in Nat,
           NEW g \in M, g \notin Newest(M, n)
    PROVE  Cardinality({h \in Newest(M, n) : h > g}) >= n
<1> DEFINE After(x) == {h \in M : h > x}
           W == {h \in Newest(M, n) : h > g}
           Old == {x \in M : x \notin Newest(M, n)}
<1>0. IsFiniteSet(M)
  BY FinitelyPlayed
<1>1. Old \in SUBSET (1..p) /\ Old # {} /\ g \in Old
  OBVIOUS
<1>2. PICK x \in Old : \A y \in Old : y <= x
  BY <1>1, LastGame
<1>3. ~(Cardinality(After(x)) < n)
  BY <1>2 DEF Newest
<1>4. After(x) \subseteq W
  <2> SUFFICES ASSUME NEW h \in M, h > x
               PROVE  h \in Newest(M, n) /\ h > g
    OBVIOUS
  <2>1. g <= x /\ x \in 1..p /\ h \in 1..p /\ g \in 1..p
    BY <1>1, <1>2
  <2>2. h \notin Old
    BY <1>2, <2>1
  <2>3. QED
    BY <2>1, <2>2
<1>5. W \subseteq M
  BY NewestSubset
<1>6. IsFiniteSet(W)
  BY <1>0, <1>5, FS_Subset
<1>7. Cardinality(After(x)) <= Cardinality(W) /\ IsFiniteSet(After(x))
  BY <1>4, <1>6, FS_Subset
<1>8. Cardinality(After(x)) \in Nat /\ Cardinality(W) \in Nat
  BY <1>6, <1>7, FS_CardinalityType
<1>9. QED
  BY <1>3, <1>7, <1>8

(* Whatever part of a set of games is seen besides its n newest, those     *)
(* that count as the newest of what is seen are among them.                *)
LEMMA WindowKept ==
    ASSUME NEW p \in Nat, NEW M \in SUBSET (1..p), NEW n \in Nat, NEW S \in SUBSET M,
           NEW g \in Newest(S \cup Newest(M, n), n)
    PROVE  g \in Newest(M, n)
<1> SUFFICES ASSUME g \notin Newest(M, n)
             PROVE  FALSE
  OBVIOUS
<1> DEFINE V == S \cup Newest(M, n)
           W == {h \in Newest(M, n) : h > g}
           U == {h \in V : h > g}
<1>1. g \in V /\ V \subseteq M
  BY NewestSubset DEF Newest
<1>2. Cardinality(W) >= n
  BY <1>1, WindowIsFull
<1>3. Cardinality(U) < n
  BY DEF Newest
<1>4. W \subseteq U /\ U \subseteq M
  BY <1>1
<1>5. IsFiniteSet(M)
  BY FinitelyPlayed
<1>6. IsFiniteSet(U)
  BY <1>4, <1>5, FS_Subset
<1>7. Cardinality(W) <= Cardinality(U) /\ IsFiniteSet(W)
  BY <1>4, <1>6, FS_Subset
<1>8. Cardinality(W) \in Nat /\ Cardinality(U) \in Nat
  BY <1>6, <1>7, FS_CardinalityType
<1>9. QED
  BY <1>2, <1>3, <1>7, <1>8
-----------------------------------------------------------------------------
(* As long as the owner's computer has put nothing, every game is in R2    *)
(* before it is visible, so the bundle that is put is the whole window of  *)
(* the games that will be.                                                 *)
JournalInv ==
    puts = 0 =>
        /\ ServiceJournals
        /\ kv["games"] \subseteq r2 \cap (1..played)
        /\ job.step >= 0 =>
              /\ job.base \subseteq r2 \cap (1..played)
              /\ job.new \subseteq 1..played
        /\ job.step >= 1 =>
              /\ job.new \subseteq r2
              /\ job.items = Newest(Merged(job), BUNDLE_GAMES)
        /\ job.step >= 2 => kv["payloads"] = job.items

(* A collection takes into its bundle what is in R2, and what it puts      *)
(* stays as long as nothing crosses it.                                    *)
RepairInv ==
    /\ job.step >= 1 => Newest(Merged(job), BUNDLE_GAMES) \cap r2 \subseteq job.items
    /\ job.step >= 2 /\ ~Crossed(job) => kv["payloads"] = job.items

BundleInv == JournalInv /\ RepairInv

LEMMA BundleInit == Init => BundleInv
BY DEF Init, BundleInv, JournalInv, RepairInv, ServiceJournals, NoJob, Key

LEMMA BundleStep == TypeOK /\ PublishInv /\ BundleInv /\ [Next]_vars => BundleInv'
<1> SUFFICES ASSUME TypeOK, PublishInv, BundleInv, [Next]_vars
             PROVE  BundleInv'
  OBVIOUS
<1> USE RunOrderLength, SyncOrderLength DEF BundleInv
<1>a. /\ played \in Nat /\ puts \in Nat /\ job.since \in Nat /\ job.since <= puts
      /\ BUNDLE_GAMES \in Nat /\ job.step \in -1..5
  BY PublicationAssumption DEF TypeOK, PublishInv, BaseInv
<1>b. puts = 0 => ~Crossed(job)
  BY <1>a DEF Crossed
<1>c. NoJob.step = -1
  BY DEF NoJob
<1>d. /\ kv \in [Key -> SUBSET Games]
      /\ job \in [step : -1..5, base : SUBSET Games, new : SUBSET Games,
                  items : SUBSET Games, since : Nat]
  BY DEF TypeOK
(* The steps that leave KV, R2 and the collection alone. *)
<1>e. ASSUME UNCHANGED <<kv, r2, job, puts>>, played' \in Nat, played <= played'
      PROVE  BundleInv'
  <2>1. 1..played \subseteq 1..played'
    BY <1>a, <1>e
  <2>2. JournalInv'
    BY <1>e, <2>1 DEF JournalInv, ServiceJournals, Merged
  <2>3. RepairInv'
    BY <1>e DEF RepairInv, Merged, Crossed
  <2>4. QED
    BY <2>2, <2>3
(* The steps that end the collection and leave KV alone. *)
<1>f. ASSUME UNCHANGED <<kv, puts, played>>, r2 \subseteq r2', job' = NoJob
      PROVE  BundleInv'
  <2>1. JournalInv'
    BY <1>c, <1>f DEF JournalInv, ServiceJournals
  <2>2. RepairInv'
    BY <1>c, <1>f DEF RepairInv
  <2>3. QED
    BY <2>1, <2>2
<1>1. CASE Plays
  BY <1>a, <1>e, <1>1 DEF Plays, serviceVars, ownerVars
<1>2. ASSUME NEW new \in SUBSET (1..played), Collects(new)
      PROVE  BundleInv'
  <2>1. job'.step = 0 /\ job'.base = kv["games"] /\ job'.new = new
    BY <1>2 DEF Collects
  <2>2. UNCHANGED <<kv, r2, puts, played>>
    BY <1>2 DEF Collects, ownerVars
  <2>3. JournalInv'
    BY <2>1, <2>2 DEF JournalInv, ServiceJournals
  <2>4. RepairInv'
    BY <2>1 DEF RepairInv
  <2>5. QED
    BY <2>3, <2>4
<1>3. CASE PushesRaw
  <2> DEFINE M == Merged(job)
             I == {g \in Newest(M, BUNDLE_GAMES) : g \in kv["payloads"] \cup r2 \cup job.new}
  <2>1. r2' = r2 \cup job.new /\ job.step = 0 /\ UNCHANGED <<kv, puts, played>>
    BY <1>3 DEF PushesRaw, ownerVars
  <2>2. job' = [job EXCEPT !.step = 1, !.items = I]
    BY <1>3 DEF PushesRaw
  <2>3. Newest(M, BUNDLE_GAMES) \cap r2' \subseteq I /\ I \subseteq Newest(M, BUNDLE_GAMES)
    BY <2>1
  <2>4. Newest(M, BUNDLE_GAMES) \subseteq M
    BY NewestSubset
  <2> HIDE DEF I
  <2>5. job'.step = 1 /\ job'.items = I /\ job'.base = job.base /\ job'.new = job.new
    BY <1>d, <2>2
  <2>6. Merged(job') = M
    BY <2>5 DEF Merged
  <2>7. RepairInv'
    BY <2>3, <2>5, <2>6 DEF RepairInv
  <2>8. ASSUME puts = 0
        PROVE  M \subseteq r2'
    BY <2>1, <2>8 DEF JournalInv, Merged
  <2>9. puts = 0 => I = Newest(M, BUNDLE_GAMES)
    BY <2>3, <2>4, <2>8
  <2> HIDE DEF M
  <2>10. JournalInv'
    BY <2>1, <2>5, <2>6, <2>9 DEF JournalInv, ServiceJournals
  <2>11. QED
    BY <2>7, <2>10
<1>4. CASE Puts
  <2> DEFINE M == Merged(job)
  <2>1. job.step \in 1..5 /\ UNCHANGED <<puts, played, r2>>
    BY <1>4 DEF Puts, ownerVars
  <2>2. job.step < 5 => /\ job'.step = job.step + 1 /\ job'.base = job.base
                        /\ job'.new = job.new /\ job'.items = job.items
                        /\ job'.since = job.since
    BY <1>4, <1>d DEF Puts
  <2>3. job.step = 5 => job' = NoJob
    BY <1>4 DEF Puts
  <2>4. kv'["payloads"] = IF job.step = 1 THEN job.items ELSE kv["payloads"]
    BY <1>4, <1>d, <2>1, RunKeys DEF Puts, Key
  <2>5. kv'["games"] = IF job.step = 2 THEN M ELSE kv["games"]
    BY <1>4, <1>d, <2>1, RunKeys DEF Puts, Key
  <2>6. job.step < 5 => Merged(job') = M
    BY <2>2 DEF Merged
  <2>7. RepairInv'
    BY <1>a, <1>c, <2>1, <2>2, <2>3, <2>4, <2>6 DEF RepairInv, Crossed
  <2>8. ASSUME puts = 0
        PROVE  /\ M \in SUBSET (r2 \cap (1..played)) /\ M \in SUBSET (1..played)
               /\ job.items = Newest(M, BUNDLE_GAMES)
               /\ kv["games"] \subseteq r2 \cap (1..played)
               /\ job.step <= 2 => kv["games"] \subseteq M
               /\ job.step >= 2 => kv["payloads"] = job.items
    <3>1. /\ M \in SUBSET (r2 \cap (1..played))
          /\ job.items = Newest(M, BUNDLE_GAMES)
          /\ kv["games"] \subseteq r2 \cap (1..played)
          /\ job.step >= 2 => kv["payloads"] = job.items
      BY <2>1, <2>8 DEF JournalInv, Merged
    <3>2. job.step <= 2 => kv["games"] \subseteq M
      BY <1>b, <2>1, <2>8 DEF PublishInv, BaseInv, Merged
    <3>3. QED
      BY <3>1, <3>2
  <2> HIDE DEF M
  <2>9. ServiceJournals'
    <3> SUFFICES ASSUME puts = 0
                 PROVE  kv'["games"] \cap Newest(kv'["games"] \cup kv'["payloads"], BUNDLE_GAMES)
                            \subseteq kv'["payloads"]
      BY <2>1 DEF ServiceJournals
    <3>1. CASE job.step <= 2
      <4>1. kv'["payloads"] = Newest(M, BUNDLE_GAMES) /\ kv'["games"] \in SUBSET M
        BY <2>1, <2>4, <2>5, <2>8, <3>1
      <4>2. \A S \in SUBSET M : Newest(S \cup Newest(M, BUNDLE_GAMES), BUNDLE_GAMES)
                                   \subseteq Newest(M, BUNDLE_GAMES)
        BY <1>a, <2>8, WindowKept
      <4>3. Newest(kv'["games"] \cup kv'["payloads"], BUNDLE_GAMES)
                \subseteq kv'["payloads"]
        BY <4>1, <4>2
      <4>4. QED
        BY <4>3
    <3>2. CASE job.step > 2
      BY <2>4, <2>5, <3>2 DEF JournalInv, ServiceJournals
    <3>3. QED
      BY <2>1, <3>1, <3>2
  <2>10. JournalInv'
    <3> SUFFICES ASSUME puts = 0
                 PROVE  JournalInv'
      BY <2>1 DEF JournalInv
    <3>1. kv'["games"] \subseteq r2' \cap (1..played')
      BY <2>1, <2>5, <2>8
    <3>2. CASE job.step = 5
      BY <1>c, <2>3, <2>9, <3>1, <3>2 DEF JournalInv
    <3>3. CASE job.step < 5
      <4>1. kv'["payloads"] = job.items
        BY <2>1, <2>4, <2>8
      <4>2. /\ job.base \subseteq r2 \cap (1..played) /\ job.new \subseteq 1..played
            /\ job.new \subseteq r2
        BY <2>1 DEF JournalInv
      <4>3. QED
        BY <2>1, <2>2, <2>6, <2>8, <2>9, <3>1, <3>3, <4>1, <4>2 DEF JournalInv
    <3>4. QED
      BY <2>1, <3>2, <3>3
  <2>11. QED
    BY <2>7, <2>10
<1>5. ASSUME NEW pushed \in SUBSET job.new, Fails(pushed)
      PROVE  BundleInv'
  BY <1>f, <1>5 DEF Fails, ownerVars
<1>6. ASSUME NEW new \in SUBSET (1..played), PcCollects(new)
      PROVE  BundleInv'
  BY <1>a, <1>e, <1>6 DEF PcCollects, serviceVars
<1>7. CASE SyncStarts
  BY <1>a, <1>e, <1>7 DEF SyncStarts, serviceVars
<1>8. CASE SyncPuts
  <2>1. puts' = puts + 1 /\ UNCHANGED <<job, r2>>
    BY <1>8 DEF SyncPuts, serviceVars
  <2>2. Crossed(job)'
    BY <1>a, <2>1 DEF Crossed
  <2>3. JournalInv'
    BY <1>a, <2>1 DEF JournalInv
  <2>4. RepairInv'
    BY <2>1, <2>2 DEF RepairInv, Merged
  <2>5. QED
    BY <2>3, <2>4
<1>9. CASE SyncStops
  BY <1>a, <1>e, <1>9 DEF SyncStops, serviceVars
<1>10. CASE UNCHANGED vars
  BY <1>a, <1>e, <1>10 DEF vars
<1>11. QED
  BY <1>1, <1>2, <1>3, <1>4, <1>5, <1>6, <1>7, <1>8, <1>9, <1>10
  DEF Next, Service, Owner

(* Wherever the service fails, the bundle is ahead of the visible games    *)
(* and never behind, until the owner's computer puts something; and a      *)
(* collection that nothing crosses repairs what was put before: for every  *)
(* size of the windows and any number of games, failures and puts.         *)
THEOREM BundleFollowsCorrect == Spec => []BundleFollows
<1>1. TypeOK /\ PublishInv /\ BundleInv => BundleFollows
  <2> SUFFICES ASSUME TypeOK, PublishInv, BundleInv
               PROVE  BundleFollows
    OBVIOUS
  <2> USE RunOrderLength DEF BundleInv
  <2>1. ASSUME Past("games"), ~Crossed(job)
        PROVE  /\ Newest(kv["games"], BUNDLE_GAMES) \cap r2 \subseteq kv["payloads"]
               /\ job.new \subseteq kv["games"]
    <3>1. job.step > 2
      <4>1. PICK i \in 1..5 : RunOrder[i] = "games" /\ job.step > i
        BY <2>1 DEF Past
      <4>2. i = 2
        BY <4>1, RunKeys
      <4>3. QED
        BY <4>1, <4>2
    <3>2. job.step \in -1..5
      BY DEF TypeOK
    <3>3. kv["games"] = Merged(job)
      BY <2>1, <3>1, <3>2 DEF PublishInv, BaseInv
    <3>4. QED
      BY <2>1, <3>1, <3>2, <3>3 DEF RepairInv, Merged
  <2>2. ServiceJournals
    BY DEF JournalInv, ServiceJournals
  <2>3. QED
    BY <2>1, <2>2 DEF BundleFollows, ServiceRepairs
<1>2. QED
  BY <1>1, BundleInit, BundleStep, TypeCorrect, PublishInvCorrect, PTL DEF Spec
=============================================================================
