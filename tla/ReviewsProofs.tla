----------------------------- MODULE ReviewsProofs -----------------------------
(***************************************************************************)
(* What TLAPS proves of GameRecord, TrainingWindows, CoachCommands and     *)
(* Grounding, for any games, frames, events, phases, ladders, sessions and *)
(* payloads: what the records of one game say of the lanes, the kills, the *)
(* early game, the objectives and the sums of the rows agrees              *)
(* (RecordsAgree); what a training learns shares no game with what it is   *)
(* scored on (TrainingIsClean); a game counts once for a batch and for a   *)
(* synthesis (GamesCountOnce), and answers and verdicts join the review    *)
(* they are about (JoinsAreTrue); a number is read in the unit of its      *)
(* sentence (UnitsFollowSentence), and is called invented exactly when     *)
(* nothing of the payload grounds it (VerdictsAreFair).  Sums, union-find, *)
(* the choice of a batch, the scan of a text and the unit handed down a    *)
(* path are folds over sets: what they compute is proved by induction over *)
(* the subsets of a finite set.                                            *)
(***************************************************************************)
EXTENDS GameRecord, TrainingWindows, CoachCommands, Grounding, FiniteSetTheorems, TLAPS

-----------------------------------------------------------------------------
(* Sums over finite sets. *)

(* Induction over the subsets of a finite set, stated with a set of the    *)
(* subsets for which the goal holds.                                       *)
LEMMA SubsetInduction ==
    ASSUME NEW S, IsFiniteSet(S), NEW Good,
           \A T \in SUBSET S : (\A U \in SUBSET T : U # T => U \in Good) => T \in Good
    PROVE  \A T \in SUBSET S : T \in Good
<1>1. SUFFICES ASSUME \E T \in SUBSET S : T \notin Good PROVE FALSE
  OBVIOUS
<1>. DEFINE Bad == {T \in SUBSET S : T \notin Good}
            R == StrictSubsetOrdering(S)
<1>2. IsWellFoundedOn(R, SUBSET S)
  BY FS_StrictSubsetOrderingWellFounded, FS_FiniteSubsetsOfFinite
<1>3. Bad # {} /\ Bad \subseteq SUBSET S
  BY <1>1
<1>4. \E T \in Bad : \A U \in Bad : <<U, T>> \notin R
  <2>. HIDE DEF R, Bad
  <2>. QED
    BY <1>2, <1>3, WFMin
<1>4a. PICK T \in Bad : \A U \in Bad : <<U, T>> \notin R
  BY <1>4
<1>4b. T \in SUBSET S /\ T \notin Good
  OBVIOUS
<1>5. \A U \in SUBSET T : U # T => <<U, T>> \in R
  BY DEF R, StrictSubsetOrdering
<1>6. ASSUME NEW U \in SUBSET T, U # T, U \notin Good PROVE FALSE
  <2>1. <<U, T>> \in R
    BY <1>5, <1>6
  <2>2. U \in Bad
    BY <1>4b, <1>6
  <2>. QED
    BY <1>4a, <2>1, <2>2
<1>. QED
  BY <1>4b, <1>6

(* A sum of sizes is the size of the union, when nothing is in two of them.*)
LEMMA SumOfSizes ==
    ASSUME NEW S, IsFiniteSet(S), NEW f, NEW A,
           \A x \in S : IsFiniteSet(A[x]) /\ f[x] = Cardinality(A[x]),
           \A x, y \in S : x # y => A[x] \cap A[y] = {}
    PROVE  SumFunctionOnSet(f, S) = Cardinality(UNION {A[x] : x \in S})
<1>. DEFINE Body(g) == [s \in SUBSET S |->
                          IF s = {} THEN 0 ELSE f[CHOOSE x \in s : TRUE] + g[s \ {CHOOSE x \in s : TRUE}]]
            All(s) == UNION {A[x] : x \in s}
            Sizes == [s \in SUBSET S |-> Cardinality(All(s))]
            iter == CHOOSE g : g = Body(g)
<1>1. SumFunctionOnSet(f, S) = iter[S]
  BY DEF SumFunctionOnSet, FoldFunctionOnSet, MapThenFoldSet
<1>2. ASSUME NEW s \in SUBSET S, s # {}
      PROVE  LET x == CHOOSE x \in s : TRUE
             IN  /\ x \in s /\ s \ {x} \in SUBSET S /\ s \ {x} # s
                 /\ Cardinality(All(s)) = f[x] + Cardinality(All(s \ {x}))
  <2>. DEFINE x == CHOOSE x \in s : TRUE
  <2>1. x \in s
    BY <1>2
  <2>. HIDE DEF x
  <2>2. IsFiniteSet(s \ {x})
    BY FS_Subset
  <2>3. IsFiniteSet(All(s \ {x}))
    <3>. DEFINE F == {A[y] : y \in s \ {x}}
    <3>. DEFINE h == [y \in s \ {x} |-> A[y]]
    <3>0. h \in Surjection(s \ {x}, F)
      BY DEF Surjection
    <3>1. IsFiniteSet(F)
      <4>. HIDE DEF h, F
      <4>. QED
        BY <2>2, <3>0, FS_Surjection
    <3>2. \A T \in F : IsFiniteSet(T)
      OBVIOUS
    <3>. QED
      BY <3>1, <3>2, FS_UNION
  <2>4. All(s) = A[x] \cup All(s \ {x})
    BY <2>1
  <2>5. A[x] \cap All(s \ {x}) = {}
    BY <2>1
  <2>6. IsFiniteSet(A[x]) /\ f[x] = Cardinality(A[x])
    BY <2>1
  <2>. HIDE DEF All
  <2>6a. Cardinality(A[x] \cup All(s \ {x})) =
           Cardinality(A[x]) + Cardinality(All(s \ {x})) - Cardinality(A[x] \cap All(s \ {x}))
    BY <2>3, <2>6, FS_Union
  <2>7. Cardinality(All(s)) = Cardinality(A[x]) + Cardinality(All(s \ {x})) - Cardinality({})
    BY <2>4, <2>5, <2>6a
  <2>8. /\ Cardinality(A[x]) \in Nat /\ Cardinality(All(s \ {x})) \in Nat
        /\ Cardinality({}) = 0
    BY <2>3, <2>6, FS_CardinalityType, FS_EmptySet
  <2>. QED
    BY <2>1, <2>6, <2>7, <2>8 DEF x
<1>3. Sizes = Body(Sizes)
  <2>1. ASSUME NEW s \in SUBSET S PROVE Sizes[s] = Body(Sizes)[s]
    <3>1. CASE s = {}
      <4>1. All({}) = {}
        OBVIOUS
      <4>. QED
        BY <3>1, <4>1, FS_EmptySet
    <3>2. CASE s # {}
      BY <3>2, <1>2
    <3>. QED
      BY <3>1, <3>2
  <2>. QED
    BY <2>1
<1>4. iter = Body(iter)
  BY <1>3
<1>. HIDE DEF iter
<1>. DEFINE Good == {s \in SUBSET S : iter[s] = Cardinality(All(s))}
<1>5. ASSUME NEW T \in SUBSET S, \A U \in SUBSET T : U # T => U \in Good PROVE T \in Good
  <2>0. iter[T] = Body(iter)[T]
    BY <1>4
  <2>1. CASE T = {}
    <3>1. All({}) = {}
      OBVIOUS
    <3>. QED
      BY <2>0, <2>1, <3>1, FS_EmptySet
  <2>2. CASE T # {}
    <3>. DEFINE x == CHOOSE x \in T : TRUE
    <3>1. /\ x \in T /\ T \ {x} \in SUBSET S /\ T \ {x} # T
          /\ Cardinality(All(T)) = f[x] + Cardinality(All(T \ {x}))
      BY <1>2, <2>2
    <3>2. iter[T] = f[x] + iter[T \ {x}]
      BY <2>0, <2>2
    <3>3. T \ {x} \in Good
      BY <1>5, <3>1
    <3>. QED
      BY <3>1, <3>2, <3>3
  <2>. QED
    BY <2>1, <2>2
<1>6. S \in Good
  <2>. HIDE DEF Good
  <2>1. \A T \in SUBSET S : T \in Good
    BY <1>5, SubsetInduction
  <2>. QED
    BY <2>1
<1>. QED
  BY <1>1, <1>6

(* The same, of any set with those members and no other. *)
LEMMA SumCounts ==
    ASSUME NEW S, IsFiniteSet(S), NEW f, NEW A, NEW whole,
           \A x \in S : IsFiniteSet(A[x]),
           \A x \in S : f[x] = Cardinality(A[x]),
           \A x, y \in S : \A u : u \in A[x] /\ u \in A[y] => x = y,
           \A u : u \in whole <=> \E x \in S : u \in A[x]
    PROVE  SumFunctionOnSet(f, S) = Cardinality(whole)
<1>1. whole = UNION {A[x] : x \in S}
  OBVIOUS
<1>2. \A x \in S : IsFiniteSet(A[x]) /\ f[x] = Cardinality(A[x])
  OBVIOUS
<1>3. \A x, y \in S : x # y => A[x] \cap A[y] = {}
  OBVIOUS
<1>. QED
  BY <1>1, <1>2, <1>3, SumOfSizes

-----------------------------------------------------------------------------
(* The records of one game. *)

(* What may have been recorded: frames and events of the game, dated. *)
RecordShape ==
    /\ match \in Matches
    /\ half \in Nat
    /\ shots \in Seq([at : Nat, of : match.frames])
    /\ Len(shots) >= 1 /\ shots[1].at = 0
    /\ story \in Seq({[e EXCEPT !.at = h] : e \in match.events, h \in Nat})

(* And what is extracted is read from all of it. *)
RecordInv == RecordShape /\ (records # None => records = [p \in Pids |-> Record(p)])

(* A game begins with its first frame and no record. *)
LEMMA RecordInitStep == RecordAssumption /\ RecordInit => RecordInv
<1>. SUFFICES ASSUME RecordAssumption, RecordInit PROVE RecordInv
  OBVIOUS
<1>1. PICK f \in match.frames : shots = <<[at |-> 0, of |-> f]>>
  BY DEF RecordInit
<1>2. shots \in Seq([at : Nat, of : match.frames]) /\ Len(shots) = 1 /\ shots[1].at = 0
  BY <1>1
<1>. QED
  BY <1>2 DEF RecordInit, RecordInv, RecordShape

(* The records are read from the game, its frames and its events. *)
LEMMA SameRecords ==
    ASSUME match' = match, shots' = shots, story' = story
    PROVE  [p \in Pids |-> Record(p)]' = [p \in Pids |-> Record(p)]
<1>. USE DEF Pids, SideOf, RoleOf
<1>1. Pids' = Pids /\ Kills' = Kills /\ FiledMinutes' = FiledMinutes
  BY DEF Kills, FiledMinutes
<1>2. \A t, r : FindPid(t, r)' = FindPid(t, r)
  BY DEF FindPid
<1>3. \A t : BotOf(t)' = BotOf(t)
  BY <1>2 DEF BotOf
<1>4. \A p : OppOf(p)' = OppOf(p)
  BY <1>2 DEF OppOf
<1>5. \A p, m : At(p, m)' = At(p, m)
  BY DEF At
<1>6. \A p, q, m : Diff(p, q, m)' = Diff(p, q, m) /\ GoldStateFrom(p, q, m)' = GoldStateFrom(p, q, m)
  BY <1>1, <1>5 DEF Diff, GoldStateFrom
<1>7. \A p : DeathsOf(p)' = DeathsOf(p)
  BY <1>1, <1>2, <1>3, <1>4, <1>6 DEF DeathsOf
<1>8. \A p : KillsOf(p)' = KillsOf(p) /\ AssistsOf(p)' = AssistsOf(p)
  BY <1>1, <1>2, <1>3 DEF KillsOf, AssistsOf, Takedowns, TwoByTwo, Pair
<1>9. \A p : SupportDeathsEarly(p)' = SupportDeathsEarly(p) /\ PlateDiffEarly(p)' = PlateDiffEarly(p)
  BY <1>1, <1>2 DEF SupportDeathsEarly, PlateDiffEarly
<1>10. \A p : FramesInBaseEarly(p)' = FramesInBaseEarly(p) /\ DragonProximity(p)' = DragonProximity(p)
  BY <1>1, <1>5 DEF FramesInBaseEarly, DragonProximity
<1>11. \A p : Sides(p)' = Sides(p)
  BY <1>1 DEF Sides, StartOf
<1>12. \A p : Objectives(p)' = Objectives(p) /\ SelfAdc(p)' = SelfAdc(p)
  BY <1>2 DEF Objectives, SelfAdc
<1>13. \A p : Jungle(p)' = Jungle(p)
  BY <1>1, <1>4, <1>5 DEF Jungle
<1>14. \A p : Lane(p)' = Lane(p)
  BY <1>4, <1>6 DEF Lane
<1>. QED
  BY <1>1, <1>7, <1>8, <1>9, <1>10, <1>11, <1>12, <1>13, <1>14 DEF Record

(* Events, frames and the extraction keep what is recorded so. *)
LEMMA RecordNextStep == RecordInv /\ [RecordNext]_recordVars => RecordInv'
<1>. SUFFICES ASSUME RecordInv, [RecordNext]_recordVars PROVE RecordInv'
  OBVIOUS
<1>. DEFINE E == {[e EXCEPT !.at = h] : e \in match.events, h \in Nat}
            F == [at : Nat, of : match.frames]
<1>0. /\ match \in Matches /\ half \in Nat
      /\ shots \in Seq(F) /\ Len(shots) >= 1 /\ shots[1].at = 0
      /\ story \in Seq(E)
  BY DEF RecordInv, RecordShape
<1>. DEFINE Longer(f, t) == Append(shots, [at |-> t, of |-> f])
<1>1. ASSUME NEW f \in match.frames, NEW t \in Nat
      PROVE  Longer(f, t) \in Seq(F) /\ Len(Longer(f, t)) >= 1 /\ Longer(f, t)[1].at = 0
  <2>. DEFINE shot == [at |-> t, of |-> f]
  <2>1. shot \in F
    OBVIOUS
  <2>. HIDE DEF shot, F
  <2>. QED
    BY <1>0, <2>1 DEF shot
<1>2. CASE Occurs
  <2>1. PICK e \in match.events : story' = Append(story, [e EXCEPT !.at = half])
    BY <1>2 DEF Occurs
  <2>2. [e EXCEPT !.at = half] \in E
    BY <1>0
  <2>3. story' \in Seq(E)
    <3>. HIDE DEF E
    <3>. QED
      BY <1>0, <2>1, <2>2
  <2>4. records' = None /\ match' = match /\ half' = half /\ shots' = shots
    BY <1>2 DEF Occurs
  <2>. QED
    BY <1>0, <2>3, <2>4 DEF RecordInv, RecordShape
<1>3. CASE HalfPasses
  <2>1. records' = None /\ match' = match /\ half' = half + 1 /\ story' = story
    BY <1>3 DEF HalfPasses
  <2>2. shots' = shots \/ \E f \in match.frames : shots' = Longer(f, half')
    BY <1>3 DEF HalfPasses
  <2>3. half' \in Nat
    BY <1>0, <2>1
  <2>4. shots' \in Seq(F) /\ Len(shots') >= 1 /\ shots'[1].at = 0
    <3>. HIDE DEF Longer, F
    <3>. QED
      BY <1>0, <1>1, <2>2, <2>3
  <2>. QED
    BY <1>0, <2>1, <2>3, <2>4 DEF RecordInv, RecordShape
<1>4. CASE ExtractAllGames
  <2>1. match' = match /\ half' = half /\ story' = story
    BY <1>4 DEF ExtractAllGames
  <2>2. shots' = shots \/ \E f \in match.frames : shots' = Longer(f, half)
    BY <1>4 DEF ExtractAllGames
  <2>3. shots' \in Seq(F) /\ Len(shots') >= 1 /\ shots'[1].at = 0
    <3>. HIDE DEF Longer, F
    <3>. QED
      BY <1>0, <1>1, <2>2
  <2>4. records' = [p \in Pids |-> Record(p)]'
    BY <1>4 DEF ExtractAllGames
  <2>. QED
    BY <1>0, <2>1, <2>3, <2>4 DEF RecordInv, RecordShape
<1>5. CASE UNCHANGED recordVars
  <2>1. /\ match' = match /\ half' = half /\ shots' = shots /\ story' = story /\ records' = records
    BY <1>5 DEF recordVars
  <2>2. [p \in Pids |-> Record(p)]' = [p \in Pids |-> Record(p)]
    BY <2>1, SameRecords
  <2>. QED
    BY <2>1, <2>2 DEF RecordInv, RecordShape
<1>. QED
  BY <1>2, <1>3, <1>4, <1>5 DEF RecordNext

(* The greatest and the least of some naturals up to n. *)
LEMMA Extremes ==
    ASSUME NEW n \in Nat, NEW S, S \subseteq 0..n, S # {}
    PROVE  /\ Max(S) \in S /\ \A m \in S : m <= Max(S)
           /\ Min(S) \in S /\ \A m \in S : Min(S) <= m
<1>0. S \subseteq Nat /\ S # {}
  OBVIOUS
<1>1. PICK x \in S : \A y \in S : ~ (<<y, x>> \in OpToRel(<, Nat))
  BY <1>0, NatLessThanWellFounded, WFMin
<1>2. ASSUME NEW y \in S PROVE x <= y
  <2>1. x \in Nat /\ y \in Nat /\ ~ (<<y, x>> \in OpToRel(<, Nat))
    BY <1>0, <1>1
  <2>2. x \in Nat /\ y \in Nat => (y < x \/ x <= y)
    OBVIOUS
  <2>3. ~ (y < x)
    BY <2>1 DEF OpToRel
  <2>. QED
    BY <2>1, <2>2, <2>3
<1>. DEFINE T == {n - g : g \in S}
<1>3. T \subseteq Nat /\ T # {}
  <2>1. \A g \in S : n - g \in Nat
    OBVIOUS
  <2>2. PICK g \in S : TRUE
    OBVIOUS
  <2>3. n - g \in T
    OBVIOUS
  <2>. QED
    BY <2>1, <2>3
<1>4. PICK t \in T : \A y \in T : ~ (<<y, t>> \in OpToRel(<, Nat))
  BY <1>3, NatLessThanWellFounded, WFMin
<1>5. PICK g \in S : t = n - g
  OBVIOUS
<1>6. ASSUME NEW h \in S PROVE h <= g
  <2>1. n - h \in T
    OBVIOUS
  <2>2. ~ (n - h < n - g)
    BY <1>3, <1>4, <1>5, <2>1 DEF OpToRel
  <2>3. g \in Nat /\ h \in Nat
    OBVIOUS
  <2>. QED
    BY <2>2, <2>3
<1>7. Max(S) \in S /\ \A m \in S : Max(S) >= m
  <2>1. \A m \in S : g >= m
    BY <1>0, <1>6
  <2>. QED
    BY <2>1 DEF Max
<1>8. Min(S) \in S /\ \A m \in S : Min(S) <= m
  <2>1. \A m \in S : x <= m
    BY <1>2
  <2>. QED
    BY <2>1 DEF Min
<1>. QED
  BY <1>0, <1>7, <1>8

(* The participants and their sides. *)
LEMMA SideFacts ==
    ASSUME RecordAssumption, RecordShape
    PROVE  /\ \E n \in Nat : Pids = 1..n
           /\ Pids \subseteq Int /\ 0 \notin Pids /\ None \notin Pids /\ IsFiniteSet(Pids)
           /\ \A p \in Pids : SideOf(p) \in {100, 200}
           /\ \A t \in {100, 200} : EnemyOf(t) \in {100, 200} /\ EnemyOf(t) # t /\ EnemyOf(EnemyOf(t)) = t
<1>1. PICK n \in Nat : Pids = 1..n
  BY DEF RecordAssumption, RecordShape, Pids
<1>2. IsFiniteSet(Pids)
  BY <1>1, FS_Interval
<1>3. Pids \subseteq Int /\ 0 \notin Pids /\ None \notin Pids
  BY <1>1 DEF RecordAssumption
<1>4. \A p \in Pids : SideOf(p) \in {100, 200}
  BY DEF RecordAssumption, RecordShape, Pids, SideOf
<1>5. \A t \in {100, 200} : EnemyOf(t) \in {100, 200} /\ EnemyOf(t) # t /\ EnemyOf(EnemyOf(t)) = t
  BY DEF EnemyOf
<1>. QED
  BY <1>1, <1>2, <1>3, <1>4, <1>5

(* Who is found in a role is of the side and of the role. *)
LEMMA FindFacts ==
    ASSUME RecordAssumption, RecordShape, NEW t, NEW r
    PROVE  \/ FindPid(t, r) = None /\ \A p \in Pids : ~ (SideOf(p) = t /\ RoleOf(p) = r)
           \/ FindPid(t, r) \in Pids /\ SideOf(FindPid(t, r)) = t /\ RoleOf(FindPid(t, r)) = r
<1>. DEFINE found == {p \in Pids : SideOf(p) = t /\ RoleOf(p) = r}
<1>1. PICK n \in Nat : Pids = 1..n
  BY SideFacts
<1>2. CASE found = {}
  BY <1>2 DEF FindPid
<1>3. CASE found # {}
  <2>1. found \subseteq 0..n
    BY <1>1
  <2>2. Min(found) \in found
    <3>. HIDE DEF found
    <3>. QED
      BY <1>3, <2>1, Extremes
  <2>. QED
    BY <1>3, <2>2 DEF FindPid
<1>. QED
  BY <1>2, <1>3

(* The pair of a side is of that side. *)
LEMMA PairFacts ==
    ASSUME RecordAssumption, RecordShape, NEW t
    PROVE  \A p \in BotOf(t) : p \in Pids /\ SideOf(p) = t
  BY FindFacts DEF BotOf

(* Two participants who face one another are of the two sides and of one   *)
(* role.                                                                   *)
LEMMA FacingFacts ==
    ASSUME RecordAssumption, RecordShape, NEW p \in Pids, NEW q \in Pids, Facing(p, q)
    PROVE  /\ SideOf(q) = EnemyOf(SideOf(p)) /\ SideOf(p) = EnemyOf(SideOf(q))
           /\ RoleOf(p) = RoleOf(q)
           /\ OppOf(p) = q /\ OppOf(q) = p /\ p # None /\ q # None
<1>1. OppOf(p) = q /\ OppOf(q) = p /\ p # None /\ q # None
  BY SideFacts DEF Facing
<1>2. q = FindPid(EnemyOf(SideOf(p)), RoleOf(p))
  BY <1>1 DEF OppOf
<1>3. p = FindPid(EnemyOf(SideOf(q)), RoleOf(q))
  BY <1>1 DEF OppOf
<1>4. SideOf(q) = EnemyOf(SideOf(p)) /\ RoleOf(p) = RoleOf(q)
  BY <1>1, <1>2, FindFacts
<1>5. SideOf(p) = EnemyOf(SideOf(q))
  BY <1>1, <1>3, FindFacts
<1>. QED
  BY <1>1, <1>4, <1>5

(* Minutes go with the instants they are of. *)
LEMMA MinuteFacts ==
    ASSUME NEW h \in Nat
    PROVE  /\ Minute(h) \in Nat
           /\ 2 * Minute(h) \in h - 1 .. h + 1
  BY DEF Minute

(* What is filed under a minute is a frame. *)
LEMMA FrameFacts ==
    ASSUME RecordAssumption, RecordShape
    PROVE  /\ FiledMinutes \subseteq Nat /\ 0 \in FiledMinutes
           /\ \A m \in FiledMinutes : \A p \in Pids : At(p, m).worth \in Int /\ At(p, m).camps \in Int
<1>. DEFINE F == [at : Nat, of : match.frames]
            n == Len(shots)
<1>1. shots \in Seq(F) /\ n \in Nat /\ DOMAIN shots = 1..n /\ n >= 1 /\ shots[1].at = 0
  BY DEF RecordShape
<1>2. \A i \in DOMAIN shots : shots[i] \in F /\ shots[i].at \in Nat /\ shots[i].of \in match.frames
  <2>1. \A i \in DOMAIN shots : shots[i] \in F
    <3>. HIDE DEF F
    <3>. QED
      BY <1>1
  <2>. QED
    BY <2>1
<1>. HIDE DEF n
<1>3. FiledMinutes \subseteq Nat
  BY <1>2, MinuteFacts DEF FiledMinutes
<1>4. 0 \in FiledMinutes
  <2>1. Minute(0) = 0
    BY DEF Minute
  <2>. QED
    BY <1>1, <2>1 DEF FiledMinutes
<1>5. ASSUME NEW m \in FiledMinutes, NEW p \in Pids PROVE At(p, m).worth \in Int /\ At(p, m).camps \in Int
  <2>. DEFINE under == {i \in DOMAIN shots : Minute(shots[i].at) = m}
  <2>1. under # {} /\ under \subseteq 0..n
    BY <1>1, <1>5 DEF FiledMinutes
  <2>2. Max(under) \in under
    <3>. HIDE DEF under
    <3>. QED
      BY <1>1, <2>1, Extremes
  <2>3. PICK i \in DOMAIN shots : At(p, m) = shots[i].of[p]
    BY <2>2 DEF At
  <2>4. shots[i].of \in match.frames
    BY <1>2
  <2>5. shots[i].of[p].worth \in Int /\ shots[i].of[p].camps \in Int
    BY <2>4 DEF RecordAssumption, RecordShape, Pids
  <2>. QED
    BY <2>3, <2>5
<1>. QED
  BY <1>3, <1>4, <1>5

(* Some minute is filed at or before each. *)
LEMMA FiledFacts ==
    ASSUME RecordAssumption, RecordShape, NEW minute \in Nat
    PROVE  Max({m \in FiledMinutes : m <= minute}) \in FiledMinutes
<1>. DEFINE S == {m \in FiledMinutes : m <= minute}
<1>1. S # {} /\ S \subseteq 0..minute
  BY FrameFacts
<1>2. Max(S) \in S
  <2>. HIDE DEF S
  <2>. QED
    BY <1>1, Extremes
<1>. QED
  BY <1>2

(* What the events of the game are. *)
LEMMA StoryFacts ==
    ASSUME RecordAssumption, RecordShape
    PROVE  /\ \E n \in Nat : DOMAIN story = 1..n
           /\ IsFiniteSet(DOMAIN story) /\ DOMAIN story \subseteq Int
           /\ \A i \in DOMAIN story :
                /\ story[i].at \in Nat
                /\ story[i].type = "CHAMPION_KILL" =>
                     /\ story[i].victim \in Pids
                     /\ IF story[i].by = 0 THEN story[i].assists = {}
                        ELSE \A p \in Involved(story[i]) :
                               p \in Pids /\ SideOf(p) = EnemyOf(SideOf(story[i].victim))
                /\ story[i].type = "BUILDING_KILL" => story[i].team \in {100, 200}
<1>. DEFINE E == {[e EXCEPT !.at = h] : e \in match.events, h \in Nat}
            n == Len(story)
<1>1. story \in Seq(E) /\ n \in Nat /\ DOMAIN story = 1..n
  BY DEF RecordShape
<1>2. \A i \in DOMAIN story : story[i] \in E
  <2>. HIDE DEF E
  <2>. QED
    BY <1>1
<1>3. IsFiniteSet(DOMAIN story)
  <2>. HIDE DEF n
  <2>. QED
    BY <1>1, FS_Interval
<1>4. ASSUME NEW i \in DOMAIN story
      PROVE  /\ story[i].at \in Nat
             /\ story[i].type = "CHAMPION_KILL" =>
                  /\ story[i].victim \in Pids
                  /\ IF story[i].by = 0 THEN story[i].assists = {}
                     ELSE \A p \in Involved(story[i]) :
                            p \in Pids /\ SideOf(p) = EnemyOf(SideOf(story[i].victim))
             /\ story[i].type = "BUILDING_KILL" => story[i].team \in {100, 200}
  <2>1. PICK e \in match.events, h \in Nat : story[i] = [e EXCEPT !.at = h]
    BY <1>2
  <2>2. EventIsFair(match, e)
    BY DEF RecordAssumption, RecordShape
  <2>3. story[i].at \in Nat /\ story[i].type = e.type
    BY <2>1, <2>2 DEF EventIsFair
  <2>4. ASSUME e.type = "CHAMPION_KILL"
        PROVE  /\ story[i].victim \in Pids
               /\ IF story[i].by = 0 THEN story[i].assists = {}
                  ELSE \A p \in Involved(story[i]) :
                         p \in Pids /\ SideOf(p) = EnemyOf(SideOf(story[i].victim))
    <3>1. story[i].victim = e.victim /\ story[i].by = e.by /\ story[i].assists = e.assists
      BY <2>1, <2>2, <2>4 DEF EventIsFair
    <3>2. e.victim \in Pids
      BY <2>2, <2>4 DEF EventIsFair, Pids
    <3>3. e.by = 0 => e.assists = {}
      BY <2>2, <2>4 DEF EventIsFair
    <3>4. ASSUME e.by # 0, NEW p \in Involved(e)
          PROVE  p \in Pids /\ SideOf(p) = EnemyOf(SideOf(e.victim))
      <4>1. p \in Pids /\ SideOf(p) # SideOf(e.victim)
        BY <2>2, <2>4, <3>4 DEF EventIsFair, Pids, SideOf
      <4>. QED
        BY <3>2, <4>1, SideFacts DEF EnemyOf
    <3>. QED
      BY <3>1, <3>2, <3>3, <3>4 DEF Involved
  <2>5. e.type = "BUILDING_KILL" => story[i].team \in {100, 200}
    BY <2>1, <2>2 DEF EventIsFair
  <2>. QED
    BY <2>3, <2>4, <2>5
<1>5. DOMAIN story \subseteq Int /\ \E k \in Nat : DOMAIN story = 1..k
  <2>. HIDE DEF n, E
  <2>. QED
    BY <1>1
<1>. QED
  BY <1>3, <1>4, <1>5

(* A record has the deaths, the kills and the assists of its participant,  *)
(* each told as the event is.                                              *)
LEMMA DeathsTold ==
    ASSUME NEW p, NEW i \in DOMAIN DeathsOf(p)
    PROVE  /\ i \in Kills /\ story[i].victim = p
           /\ DeathsOf(p)[i].minute = Minute(story[i].at)
           /\ DeathsOf(p)[i].phase = PhaseOf(Minute(story[i].at))
           /\ DeathsOf(p)[i].gold_state = GoldStateFrom(p, OppOf(p), Minute(story[i].at))
  BY DEF DeathsOf

(* Whether a death was solo, and the work of the two of the lane.          *)
LEMMA DeathsJudged ==
    ASSUME NEW p, NEW i \in DOMAIN DeathsOf(p)
    PROVE  /\ DeathsOf(p)[i].solo \in BOOLEAN /\ DeathsOf(p)[i].two \in BOOLEAN
           /\ DeathsOf(p)[i].solo <=> story[i].assists = {}
           /\ DeathsOf(p)[i].two <=> Involved(story[i]) \subseteq BotOf(EnemyOf(SideOf(p)))
  BY DEF DeathsOf

(* The deaths of a record are those of its participant. *)
LEMMA DeathsDomain ==
    ASSUME NEW p
    PROVE  DOMAIN DeathsOf(p) = {i \in Kills : story[i].victim = p}
  BY DEF DeathsOf

(* A kill or an assist is told as the event is. *)
LEMMA TakedownsTold ==
    ASSUME NEW p, NEW S, NEW i \in S
    PROVE  /\ Takedowns(p, S)[i].minute = Minute(story[i].at)
           /\ Takedowns(p, S)[i].phase = PhaseOf(Minute(story[i].at))
           /\ Takedowns(p, S)[i].victim = story[i].victim
  BY DEF Takedowns

(* Whether it was solo, and the work of the two of the lane.               *)
LEMMA TakedownsJudged ==
    ASSUME NEW p, NEW S, NEW i \in S
    PROVE  /\ Takedowns(p, S)[i].solo \in BOOLEAN /\ Takedowns(p, S)[i].two \in BOOLEAN
           /\ Takedowns(p, S)[i].solo <=> story[i].assists = {}
           /\ Takedowns(p, S)[i].two <=> TwoByTwo(p, story[i])
  BY DEF Takedowns, TwoByTwo

(* No takedown is added or lost. *)
LEMMA TakedownsDomain ==
    ASSUME NEW p, NEW S
    PROVE  DOMAIN Takedowns(p, S) = S
  BY DEF Takedowns

(* What the fields of a record are read from. *)
LEMMA RecordFacts ==
    ASSUME RecordInv, records # None, NEW p \in Pids
    PROVE  /\ records[p].lane = Lane(p) /\ records[p].deaths = DeathsOf(p)
           /\ records[p].kills = KillsOf(p) /\ records[p].assists = AssistsOf(p)
           /\ records[p].support_deaths_early = SupportDeathsEarly(p)
           /\ records[p].plates_diff_early = PlateDiffEarly(p)
           /\ records[p].sides = Sides(p) /\ records[p].objectives = Objectives(p)
           /\ records[p].jungle = Jungle(p)
<1>1. records[p] = Record(p)
  BY DEF RecordInv
<1>. QED
  BY <1>1 DEF Record

(* Gold is ahead on one side when it is behind on the other. *)
LEMMA OppositeGold ==
    ASSUME RecordAssumption, RecordShape, NEW p \in Pids, NEW q \in Pids, NEW m
    PROVE  /\ Opposite(Diff(p, q, m), Diff(q, p, m))
           /\ m \in FiledMinutes => (GoldState(Diff(p, q, m)) = "ahead" <=> GoldState(Diff(q, p, m)) = "behind")
<1>1. p # None /\ q # None
  BY SideFacts
<1>2. CASE m \in FiledMinutes
  <2>. DEFINE a == At(p, m).worth
              b == At(q, m).worth
  <2>1. a \in Int /\ b \in Int
    BY <1>2, FrameFacts
  <2>2. Diff(p, q, m) = a - b /\ Diff(q, p, m) = b - a
    BY <1>1, <1>2 DEF Diff
  <2>. HIDE DEF a, b
  <2>3. a - b \in Int /\ b - a \in Int /\ a - b = -(b - a)
    BY <2>1
  <2>4. None # a - b /\ None # b - a /\ MARGIN \in Nat
    BY <2>3 DEF RecordAssumption
  <2>5. GoldState(a - b) = "ahead" <=> a - b > MARGIN
    BY DEF GoldState
  <2>6. GoldState(b - a) = "behind" <=> b - a < -MARGIN
    BY <2>1, <2>4 DEF GoldState
  <2>7. a - b > MARGIN <=> b - a < -MARGIN
    BY <2>1, <2>4
  <2>. QED
    BY <2>2, <2>3, <2>4, <2>5, <2>6, <2>7 DEF Opposite
<1>3. CASE m \notin FiledMinutes
  BY <1>3 DEF Diff, Opposite
<1>. QED
  BY <1>2, <1>3

(* Two opponents read the same differences, with the other sign. *)
LEMMA LanesMirrorHolds ==
    ASSUME RecordAssumption, RecordInv, records # None
    PROVE  LanesMirror
<1>0. RecordShape
  BY DEF RecordInv
<1>. SUFFICES ASSUME NEW p \in Pids, NEW q \in Pids, Facing(p, q)
     PROVE  /\ \A m \in MILESTONES : Opposite(records[p].lane[m], records[q].lane[m])
            /\ Opposite(records[p].plates_diff_early, records[q].plates_diff_early)
            /\ \A i \in DOMAIN records[p].deaths, k \in DOMAIN records[q].deaths :
                 LET d == records[p].deaths[i]
                     e == records[q].deaths[k]
                 IN  d.minute = e.minute => (d.gold_state = "ahead" <=> e.gold_state = "behind")
            /\ RoleOf(p) = "JUNGLE" =>
                 /\ records[p].jungle.epic_diff = -records[q].jungle.epic_diff
                 /\ \A m \in MILESTONES : Opposite(records[p].jungle.camp_diff[m], records[q].jungle.camp_diff[m])
  BY DEF LanesMirror
<1>1. /\ SideOf(q) = EnemyOf(SideOf(p)) /\ SideOf(p) = EnemyOf(SideOf(q))
      /\ RoleOf(p) = RoleOf(q)
      /\ OppOf(p) = q /\ OppOf(q) = p /\ p # None /\ q # None
  BY <1>0, FacingFacts
<1>2. ASSUME NEW m \in MILESTONES PROVE Opposite(records[p].lane[m], records[q].lane[m])
  <2>0. records[p].lane = Lane(p) /\ records[q].lane = Lane(q)
    BY RecordFacts
  <2>1. records[p].lane[m] = Diff(p, q, m) /\ records[q].lane[m] = Diff(q, p, m)
    BY <1>1, <2>0 DEF Lane
  <2>. QED
    BY <1>0, <2>1, OppositeGold
<1>3. Opposite(records[p].plates_diff_early, records[q].plates_diff_early)
  <2>. DEFINE lost(team) == Cardinality({k \in DOMAIN story :
                               /\ story[k].type = "TURRET_PLATE_DESTROYED" /\ story[k].lane = LaneOf(RoleOf(p))
                               /\ story[k].at < 2 * EARLY_END /\ story[k].team = team})
  <2>1. \A team : lost(team) \in Nat
    BY <1>0, StoryFacts, FS_Subset, FS_CardinalityType
  <2>2. records[p].plates_diff_early = IF LaneOf(RoleOf(p)) = None THEN None ELSE lost(SideOf(q)) - lost(SideOf(p))
    BY <1>1, RecordFacts DEF PlateDiffEarly
  <2>3. records[q].plates_diff_early = IF LaneOf(RoleOf(p)) = None THEN None ELSE lost(SideOf(p)) - lost(SideOf(q))
    BY <1>1, RecordFacts DEF PlateDiffEarly
  <2>. HIDE DEF lost
  <2>4. lost(SideOf(q)) \in Nat /\ lost(SideOf(p)) \in Nat
    BY <2>1
  <2>5. \A a, b \in Nat : a - b # None /\ b - a # None /\ a - b = -(b - a)
    BY DEF RecordAssumption
  <2>. QED
    BY <2>2, <2>3, <2>4, <2>5 DEF Opposite
<1>4. ASSUME NEW i \in DOMAIN records[p].deaths, NEW k \in DOMAIN records[q].deaths,
             records[p].deaths[i].minute = records[q].deaths[k].minute
      PROVE  records[p].deaths[i].gold_state = "ahead" <=> records[q].deaths[k].gold_state = "behind"
  <2>. DEFINE t == Minute(story[i].at)
              m == Max({n \in FiledMinutes : n <= t})
  <2>0. records[p].deaths = DeathsOf(p) /\ records[q].deaths = DeathsOf(q)
    BY RecordFacts
  <2>0a. /\ i \in Kills /\ records[p].deaths[i].minute = Minute(story[i].at)
         /\ records[p].deaths[i].gold_state = GoldStateFrom(p, OppOf(p), Minute(story[i].at))
    <3>1. i \in DOMAIN DeathsOf(p)
      BY <1>4, <2>0
    <3>. QED
      BY <2>0, <3>1, DeathsTold
  <2>0b. /\ records[q].deaths[k].minute = Minute(story[k].at)
         /\ records[q].deaths[k].gold_state = GoldStateFrom(q, OppOf(q), Minute(story[k].at))
    <3>1. k \in DOMAIN DeathsOf(q)
      BY <1>4, <2>0
    <3>. QED
      BY <2>0, <3>1, DeathsTold
  <2>1. i \in DOMAIN story /\ t \in Nat
    <3>1. i \in DOMAIN story
      BY <2>0a DEF Kills
    <3>2. story[i].at \in Nat
      BY <1>0, <3>1, StoryFacts
    <3>. QED
      BY <3>1, <3>2, MinuteFacts
  <2>2. m \in FiledMinutes
    BY <1>0, <2>1, FiledFacts
  <2>3. records[p].deaths[i].gold_state = GoldStateFrom(p, q, t)
    BY <1>1, <2>0a
  <2>4. records[q].deaths[k].gold_state = GoldStateFrom(q, p, t)
    BY <1>1, <1>4, <2>0a, <2>0b
  <2>5. GoldStateFrom(p, q, t) = GoldState(Diff(p, q, m)) /\ GoldStateFrom(q, p, t) = GoldState(Diff(q, p, m))
    BY <1>1 DEF GoldStateFrom
  <2>. HIDE DEF m, t
  <2>. QED
    BY <1>0, <2>2, <2>3, <2>4, <2>5, OppositeGold
<1>5. ASSUME RoleOf(p) = "JUNGLE"
      PROVE  /\ records[p].jungle.epic_diff = -records[q].jungle.epic_diff
             /\ \A m \in MILESTONES : Opposite(records[p].jungle.camp_diff[m], records[q].jungle.camp_diff[m])
  <2>. DEFINE teamOf(e) == IF e.killer_team # None THEN e.killer_team ELSE IF e.by \in Pids THEN SideOf(e.by) ELSE None
              epics(team) == Cardinality({k \in {j \in DOMAIN story : story[j].at < 2 * EARLY_END} :
                                            /\ story[k].type = "ELITE_MONSTER_KILL"
                                            /\ story[k].monster \in {"DRAGON", "HORDE"}
                                            /\ teamOf(story[k]) = team})
              camps(x, m) == IF m \in FiledMinutes THEN At(x, m).camps ELSE None
  <2>1. \A team : epics(team) \in Nat
    BY <1>0, StoryFacts, FS_Subset, FS_CardinalityType
  <2>2. records[p].jungle = Jungle(p) /\ records[q].jungle = Jungle(q)
    BY RecordFacts
  <2>3. Jungle(p).epic_diff = epics(SideOf(p)) - epics(SideOf(q)) /\ Jungle(q).epic_diff = epics(SideOf(q)) - epics(SideOf(p))
    BY <1>1, <1>5 DEF Jungle
  <2>4. ASSUME NEW m \in MILESTONES PROVE Opposite(Jungle(p).camp_diff[m], Jungle(q).camp_diff[m])
    <3>1. /\ Jungle(p).camp_diff[m] = IF camps(p, m) = None THEN None ELSE camps(p, m) - At(q, m).camps
          /\ Jungle(q).camp_diff[m] = IF camps(q, m) = None THEN None ELSE camps(q, m) - At(p, m).camps
      BY <1>1, <1>5 DEF Jungle
    <3>2. CASE m \in FiledMinutes
      <4>1. At(p, m).camps \in Int /\ At(q, m).camps \in Int
        BY <1>0, <3>2, FrameFacts
      <4>2. \A a, b \in Int : a # None /\ a - b # None /\ b - a # None /\ a - b = -(b - a)
        BY DEF RecordAssumption
      <4>. QED
        BY <3>1, <3>2, <4>1, <4>2 DEF Opposite
    <3>3. CASE m \notin FiledMinutes
      BY <3>1, <3>3 DEF Opposite
    <3>. QED
      BY <3>2, <3>3
  <2>. HIDE DEF epics
  <2>5. epics(SideOf(q)) \in Nat /\ epics(SideOf(p)) \in Nat
    BY <2>1
  <2>6. Jungle(p).epic_diff = -Jungle(q).epic_diff
    BY <2>3, <2>5
  <2>. QED
    BY <2>2, <2>4, <2>6
<1>. QED
  BY <1>2, <1>3, <1>4, <1>5

(* A death is a kill, or an assist, of each who was involved. *)
LEMMA SameTelling ==
    ASSUME RecordAssumption, RecordShape, NEW i \in Kills, NEW p \in Pids, p \in Involved(story[i]),
           NEW S, i \in S
    PROVE  LET v == story[i].victim
               d == DeathsOf(v)[i]
               t == Takedowns(p, S)[i]
           IN  /\ t.minute = d.minute /\ t.phase = d.phase /\ t.solo = d.solo /\ t.victim = v
               /\ t.two = (d.two /\ v \in BotOf(SideOf(v)))
<1>. DEFINE v == story[i].victim
            d == DeathsOf(v)[i]
            t == Takedowns(p, S)[i]
<1>1. v \in Pids /\ i \in DOMAIN DeathsOf(v)
  <2>1. i \in DOMAIN story /\ story[i].type = "CHAMPION_KILL"
    BY DEF Kills
  <2>2. v \in Pids
    BY <2>1, StoryFacts
  <2>. QED
    BY <2>2, DeathsDomain
<1>2. SideOf(p) = EnemyOf(SideOf(v)) /\ SideOf(v) = EnemyOf(SideOf(p))
  <2>1. i \in DOMAIN story /\ story[i].type = "CHAMPION_KILL"
    BY DEF Kills
  <2>2. SideOf(p) = EnemyOf(SideOf(v))
    <3>1. story[i].by # 0
      <4>1. 0 \notin Pids
        BY SideFacts
      <4>. QED
        BY <2>1, <4>1, StoryFacts DEF Involved
    <3>. QED
      BY <2>1, <3>1, StoryFacts
  <2>. QED
    BY <1>1, <2>2, SideFacts
<1>3. d.minute = Minute(story[i].at) /\ d.phase = PhaseOf(Minute(story[i].at))
  BY <1>1, DeathsTold
<1>4. /\ d.solo \in BOOLEAN /\ d.two \in BOOLEAN
      /\ d.solo <=> story[i].assists = {}
      /\ d.two <=> Involved(story[i]) \subseteq BotOf(EnemyOf(SideOf(v)))
  BY <1>1, DeathsJudged
<1>5. t.minute = Minute(story[i].at) /\ t.phase = PhaseOf(Minute(story[i].at)) /\ t.victim = v
  BY TakedownsTold
<1>6. /\ t.solo \in BOOLEAN /\ t.two \in BOOLEAN
      /\ t.solo <=> story[i].assists = {}
      /\ t.two <=> TwoByTwo(p, story[i])
  BY TakedownsJudged
<1>7. TwoByTwo(p, story[i]) <=> (Involved(story[i]) \subseteq BotOf(EnemyOf(SideOf(v))) /\ v \in BotOf(SideOf(v)))
  BY <1>2 DEF TwoByTwo, Pair
<1>. HIDE DEF d, t
<1>8. t.solo = d.solo
  BY <1>4, <1>6, Zenon
<1>9. t.two = (d.two /\ v \in BotOf(SideOf(v)))
  BY <1>4, <1>6, <1>7
<1>. QED
  BY <1>3, <1>5, <1>8, <1>9 DEF d, t

(* A kill is told alike by all who were in it, and by nobody else. *)
LEMMA KillsMatchHolds ==
    ASSUME RecordAssumption, RecordInv, records # None
    PROVE  KillsMatch
<1>0. RecordShape
  BY DEF RecordInv
<1>. SUFFICES ASSUME NEW i \in Kills, NEW p \in Pids
     PROVE  LET e == story[i]
                d == records[e.victim].deaths[i]
                same(t) == t.minute = d.minute /\ t.phase = d.phase /\ t.solo = d.solo /\ t.victim = e.victim
                           /\ t.two = (d.two /\ e.victim \in BotOf(SideOf(e.victim)))
            IN  /\ IF p = e.by THEN i \in DOMAIN records[p].kills /\ same(records[p].kills[i])
                   ELSE i \notin DOMAIN records[p].kills
                /\ IF p \in e.assists \ {e.by} THEN i \in DOMAIN records[p].assists /\ same(records[p].assists[i])
                   ELSE i \notin DOMAIN records[p].assists
                /\ p # e.victim => i \notin DOMAIN records[p].deaths
  BY DEF KillsMatch
<1>. DEFINE v == story[i].victim
<1>1. v \in Pids
  BY <1>0, StoryFacts DEF Kills
<1>2. records[v].deaths = DeathsOf(v)
  BY <1>1, RecordFacts
<1>3. /\ records[p].kills = Takedowns(p, {k \in Kills : story[k].by = p})
      /\ records[p].assists = Takedowns(p, {k \in Kills : story[k].by # p /\ p \in story[k].assists})
      /\ records[p].deaths = DeathsOf(p)
  BY RecordFacts DEF KillsOf, AssistsOf
<1>4. /\ i \in DOMAIN records[p].kills <=> p = story[i].by
      /\ i \in DOMAIN records[p].assists <=> p \in story[i].assists \ {story[i].by}
  BY <1>3, TakedownsDomain
<1>5. p # v => i \notin DOMAIN records[p].deaths
  BY <1>3, DeathsDomain
<1>. DEFINE d == DeathsOf(v)[i]
            same(t) == t.minute = d.minute /\ t.phase = d.phase /\ t.solo = d.solo /\ t.victim = v
                       /\ t.two = (d.two /\ v \in BotOf(SideOf(v)))
<1>6. ASSUME p = story[i].by PROVE same(records[p].kills[i])
  <2>1. p \in Involved(story[i]) /\ i \in {k \in Kills : story[k].by = p}
    BY <1>6 DEF Involved
  <2>2. same(Takedowns(p, {k \in Kills : story[k].by = p})[i])
    BY <1>0, <2>1, SameTelling
  <2>. QED
    BY <1>3, <2>2
<1>7. ASSUME p \in story[i].assists \ {story[i].by} PROVE same(records[p].assists[i])
  <2>1. p \in Involved(story[i]) /\ i \in {k \in Kills : story[k].by # p /\ p \in story[k].assists}
    BY <1>7 DEF Involved
  <2>2. same(Takedowns(p, {k \in Kills : story[k].by # p /\ p \in story[k].assists})[i])
    BY <1>0, <2>1, SameTelling
  <2>. QED
    BY <1>3, <2>2
<1>. QED
  BY <1>2, <1>4, <1>5, <1>6, <1>7

(* Who was involved in a kill is of the killer's side. *)
LEMMA InvolvedFacts ==
    ASSUME RecordAssumption, RecordShape, NEW i \in Kills
    PROVE  /\ i \in DOMAIN story /\ story[i].at \in Nat /\ story[i].victim \in Pids
           /\ story[i].by = 0 => story[i].assists = {}
           /\ \A p \in Pids : p \in Involved(story[i]) =>
                /\ story[i].by \in Pids /\ SideOf(story[i].by) = SideOf(p)
                /\ SideOf(p) = EnemyOf(SideOf(story[i].victim)) /\ SideOf(story[i].victim) = EnemyOf(SideOf(p))
           /\ story[i].by # 0 => story[i].by \in Pids /\ Involved(story[i]) \subseteq Pids
           /\ Involved(story[i]) \subseteq Pids \cup {0}
<1>1. i \in DOMAIN story /\ story[i].type = "CHAMPION_KILL"
  BY DEF Kills
<1>2. /\ story[i].at \in Nat /\ story[i].victim \in Pids
      /\ story[i].by = 0 => story[i].assists = {}
      /\ story[i].by # 0 => \A p \in Involved(story[i]) : p \in Pids /\ SideOf(p) = EnemyOf(SideOf(story[i].victim))
  BY <1>1, StoryFacts
<1>3. story[i].by \in Involved(story[i])
  BY DEF Involved
<1>4. story[i].by = 0 => Involved(story[i]) = {0}
  BY <1>2 DEF Involved
<1>5. 0 \notin Pids
  BY SideFacts
<1>6. ASSUME NEW p \in Pids, p \in Involved(story[i])
      PROVE  /\ story[i].by \in Pids /\ SideOf(story[i].by) = SideOf(p)
             /\ SideOf(p) = EnemyOf(SideOf(story[i].victim)) /\ SideOf(story[i].victim) = EnemyOf(SideOf(p))
  <2>1. story[i].by # 0
    BY <1>4, <1>5, <1>6
  <2>2. SideOf(p) = EnemyOf(SideOf(story[i].victim)) /\ story[i].by \in Pids /\ SideOf(story[i].by) = SideOf(p)
    BY <1>2, <1>3, <1>6, <2>1
  <2>. QED
    BY <1>2, <2>2, SideFacts
<1>. QED
  BY <1>1, <1>2, <1>3, <1>4, <1>6

(* The two readings of "early", in minutes and in milliseconds. *)
LEMMA EarlyFacts ==
    ASSUME RecordAssumption, NEW h \in Nat
    PROVE  /\ PhaseOf(Minute(h)) = "early" <=> Minute(h) <= EARLY_END
           /\ h < 2 * EARLY_END => Minute(h) <= EARLY_END
           /\ Minute(h) <= EARLY_END /\ Minute(h) # EARLY_END => h < 2 * EARLY_END
           /\ Minute(h) <= EARLY_END /\ Minute(h) # EARLY_END <=> Minute(h) < EARLY_END
<1>1. EARLY_END \in Nat /\ Minute(h) \in Nat /\ 2 * Minute(h) \in h - 1 .. h + 1
  BY MinuteFacts DEF RecordAssumption
<1>2. PhaseOf(Minute(h)) = "early" <=> Minute(h) <= EARLY_END
  BY DEF PhaseOf
<1>. QED
  BY <1>1, <1>2

(* The features of the early game agree but for the boundary. *)
LEMMA EarlyAgreesHolds ==
    ASSUME RecordAssumption, RecordInv, records # None
    PROVE  EarlyAgrees
<1>0. RecordShape
  BY DEF RecordInv
<1>. SUFFICES ASSUME NEW p \in Pids
     PROVE  LET support == FindPid(SideOf(p), "UTILITY")
                takedowns == DOMAIN records[p].kills \cup DOMAIN records[p].assists
                early == {i \in takedowns : PhaseOf(Minute(story[i].at)) = "early"}
                boundary(i) == Minute(story[i].at) = EARLY_END
            IN  /\ support \notin {None, p} =>
                     LET told == {i \in DOMAIN records[support].deaths : records[support].deaths[i].phase = "early"}
                     IN  records[p].support_deaths_early = Cardinality({i \in told : ~boundary(i)})
                /\ RoleOf(p) = "JUNGLE" =>
                     LET j == records[p].jungle
                     IN  /\ j.takedowns \in Cardinality({i \in early : ~boundary(i)})..Cardinality(early)
                         /\ j.takedowns <= j.team_kills
  BY DEF EarlyAgrees
<1>. DEFINE support == FindPid(SideOf(p), "UTILITY")
            boundary(i) == Minute(story[i].at) = EARLY_END
            takedowns == DOMAIN records[p].kills \cup DOMAIN records[p].assists
            early == {i \in takedowns : PhaseOf(Minute(story[i].at)) = "early"}
            told == {i \in DOMAIN records[support].deaths : records[support].deaths[i].phase = "early"}
<1>1. \A i \in Kills : /\ PhaseOf(Minute(story[i].at)) = "early" <=> Minute(story[i].at) <= EARLY_END
                       /\ story[i].at < 2 * EARLY_END => Minute(story[i].at) <= EARLY_END
                       /\ Minute(story[i].at) <= EARLY_END /\ ~boundary(i) => story[i].at < 2 * EARLY_END
                       /\ Minute(story[i].at) <= EARLY_END /\ ~boundary(i) <=> Minute(story[i].at) < EARLY_END
  BY <1>0, InvolvedFacts, EarlyFacts
<1>2. ASSUME support \notin {None, p}
      PROVE  records[p].support_deaths_early = Cardinality({i \in told : ~boundary(i)})
  <2>1. support \in Pids
    BY <1>0, <1>2, FindFacts
  <2>2. records[support].deaths = DeathsOf(support) /\ records[p].support_deaths_early = SupportDeathsEarly(p)
    BY <2>1, RecordFacts
  <2>3. \A i : i \in told <=> i \in Kills /\ story[i].victim = support /\ PhaseOf(Minute(story[i].at)) = "early"
    <3>1. told = {i \in DOMAIN DeathsOf(support) : DeathsOf(support)[i].phase = "early"}
      BY <2>2
    <3>2. \A i \in DOMAIN DeathsOf(support) : DeathsOf(support)[i].phase = PhaseOf(Minute(story[i].at))
      BY DeathsTold
    <3>3. DOMAIN DeathsOf(support) = {i \in Kills : story[i].victim = support}
      BY DeathsDomain
    <3>. HIDE DEF told, support
    <3>. QED
      BY <3>1, <3>2, <3>3
  <2>4. SupportDeathsEarly(p) = Cardinality({k \in Kills : /\ story[k].victim = support
                                                           /\ story[k].victim # p
                                                           /\ Minute(story[k].at) < EARLY_END})
    BY DEF SupportDeathsEarly
  <2>. HIDE DEF told, support
  <2>5. {k \in Kills : story[k].victim = support /\ story[k].victim # p /\ Minute(story[k].at) < EARLY_END}
          = {i \in told : ~boundary(i)}
    BY <1>1, <1>2, <2>3
  <2>. QED
    BY <2>2, <2>4, <2>5
<1>3. ASSUME RoleOf(p) = "JUNGLE"
      PROVE  /\ records[p].jungle.takedowns \in Cardinality({i \in early : ~boundary(i)})..Cardinality(early)
             /\ records[p].jungle.takedowns <= records[p].jungle.team_kills
  <2>. DEFINE ours == {k \in {j \in DOMAIN story : story[j].at < 2 * EARLY_END} \cap Kills :
                         story[k].by \in Pids /\ SideOf(story[k].by) = SideOf(p)}
              mine == {k \in ours : p \in Involved(story[k])}
  <2>1. /\ records[p].jungle.takedowns = Cardinality(mine)
        /\ records[p].jungle.team_kills = Cardinality(ours)
    <3>1. records[p].jungle = Jungle(p)
      BY RecordFacts
    <3>2. Jungle(p).takedowns = Cardinality(mine) /\ Jungle(p).team_kills = Cardinality(ours)
      <4>. HIDE DEF early, takedowns
      <4>. QED
        BY <1>3 DEF Jungle
    <3>. QED
      BY <3>1, <3>2
  <2>2. /\ records[p].kills = Takedowns(p, {k \in Kills : story[k].by = p})
        /\ records[p].assists = Takedowns(p, {k \in Kills : story[k].by # p /\ p \in story[k].assists})
    BY RecordFacts DEF KillsOf, AssistsOf
  <2>3. takedowns = {k \in Kills : p \in Involved(story[k])}
    BY <2>2, TakedownsDomain DEF Involved
  <2>4. Kills \subseteq DOMAIN story /\ IsFiniteSet(DOMAIN story)
    BY <1>0, StoryFacts DEF Kills
  <2>5. mine \subseteq early /\ {i \in early : ~boundary(i)} \subseteq mine /\ mine \subseteq ours
    <3>1. \A k \in takedowns : story[k].by \in Pids /\ SideOf(story[k].by) = SideOf(p)
      BY <1>0, <2>3, InvolvedFacts
    <3>2. early = {i \in takedowns : Minute(story[i].at) <= EARLY_END}
      BY <1>1, <2>3
    <3>. QED
      BY <1>1, <2>3, <2>4, <3>1, <3>2
  <2>6. IsFiniteSet(ours) /\ IsFiniteSet(early) /\ IsFiniteSet(mine) /\ IsFiniteSet({i \in early : ~boundary(i)})
    BY <2>3, <2>4, FS_Subset
  <2>. HIDE DEF ours, mine, early
  <2>7. /\ Cardinality({i \in early : ~boundary(i)}) <= Cardinality(mine)
        /\ Cardinality(mine) <= Cardinality(early)
        /\ Cardinality(mine) <= Cardinality(ours)
    BY <2>5, <2>6, FS_Subset
  <2>8. /\ Cardinality({i \in early : ~boundary(i)}) \in Nat /\ Cardinality(mine) \in Nat
        /\ Cardinality(early) \in Nat
    BY <2>6, FS_CardinalityType
  <2>. QED
    BY <2>1, <2>7, <2>8
<1>. QED
  BY <1>2, <1>3

(* Whose an objective is said to be. *)
LEMMA ObjectivesTold ==
    ASSUME NEW p, NEW i \in DOMAIN Objectives(p)
    PROVE  /\ i \in DOMAIN story /\ story[i].type \in {"ELITE_MONSTER_KILL", "BUILDING_KILL"}
           /\ Objectives(p)[i].is_ally \in BOOLEAN
           /\ story[i].type = "ELITE_MONSTER_KILL" => (Objectives(p)[i].is_ally <=> story[i].killer_team = SideOf(p))
           /\ story[i].type = "BUILDING_KILL" => (Objectives(p)[i].is_ally <=> story[i].team # SideOf(p))
  BY DEF Objectives

(* The two teams tell the same starts and the same objectives. *)
LEMMA TeamsMirrorHolds ==
    ASSUME RecordAssumption, RecordInv, records # None
    PROVE  TeamsMirror
<1>0. RecordShape
  BY DEF RecordInv
<1>. DEFINE given(i) == story[i].type = "BUILDING_KILL" \/ story[i].killer_team \in {100, 200}
<1>. SUFFICES ASSUME NEW p \in Pids, NEW q \in Pids, SideOf(p) # SideOf(q)
     PROVE  /\ records[p].sides.ally = records[q].sides.enemy
            /\ records[p].sides.ally_strong = records[q].sides.enemy_strong
            /\ \A i \in DOMAIN records[p].objectives :
                 IF given(i) THEN records[p].objectives[i].is_ally # records[q].objectives[i].is_ally
                 ELSE ~records[p].objectives[i].is_ally
  BY DEF TeamsMirror
<1>1. SideOf(p) \in {100, 200} /\ SideOf(q) \in {100, 200} /\ EnemyOf(SideOf(q)) = SideOf(p)
  BY <1>0, SideFacts DEF EnemyOf
<1>2. records[p].sides = Sides(p) /\ records[q].sides = Sides(q)
  BY RecordFacts
<1>3. records[p].objectives = Objectives(p) /\ records[q].objectives = Objectives(q)
  BY RecordFacts
<1>4. /\ records[p].sides.ally = records[q].sides.enemy
      /\ records[p].sides.ally_strong = records[q].sides.enemy_strong
  BY <1>1, <1>2 DEF Sides
<1>5. ASSUME NEW i \in DOMAIN Objectives(p)
      PROVE  IF given(i) THEN Objectives(p)[i].is_ally # Objectives(q)[i].is_ally
             ELSE ~Objectives(p)[i].is_ally
  <2>1. i \in DOMAIN Objectives(q)
    BY DEF Objectives
  <2>. DEFINE a == Objectives(p)[i].is_ally
              b == Objectives(q)[i].is_ally
  <2>2. /\ i \in DOMAIN story /\ story[i].type \in {"ELITE_MONSTER_KILL", "BUILDING_KILL"}
        /\ a \in BOOLEAN
        /\ story[i].type = "ELITE_MONSTER_KILL" => (a <=> story[i].killer_team = SideOf(p))
        /\ story[i].type = "BUILDING_KILL" => (a <=> story[i].team # SideOf(p))
    BY ObjectivesTold
  <2>3. /\ b \in BOOLEAN
        /\ story[i].type = "ELITE_MONSTER_KILL" => (b <=> story[i].killer_team = SideOf(q))
        /\ story[i].type = "BUILDING_KILL" => (b <=> story[i].team # SideOf(q))
    BY <2>1, ObjectivesTold
  <2>4. story[i].type = "BUILDING_KILL" => story[i].team \in {100, 200}
    BY <1>0, <2>2, StoryFacts
  <2>. HIDE DEF a, b
  <2>5. given(i) => (a <=> ~b)
    BY <1>1, <2>2, <2>3, <2>4
  <2>6. ~given(i) => ~a
    BY <1>1, <2>2
  <2>7. given(i) => a # b
    <3>. SUFFICES ASSUME given(i), a = b PROVE FALSE
      OBVIOUS
    <3>1. a <=> ~b
      BY <2>5
    <3>2. a <=> b
      OBVIOUS
    <3>. QED
      BY <3>1, <3>2
  <2>. QED
    BY <2>6, <2>7 DEF a, b
<1>. QED
  BY <1>3, <1>4, <1>5

(* The pairs of two sets of pairs, counted by their right and their left.  *)
LEMMA CountedBothWays ==
    ASSUME NEW S, IsFiniteSet(S), NEW I, IsFiniteSet(I), NEW f, NEW g, NEW Left, NEW Right,
           \A p \in S : f[p] = Cardinality(Left[p]) /\ Left[p] \subseteq I,
           \A i \in I : g[i] = Cardinality(Right[i]) /\ Right[i] \subseteq S,
           \A p \in S, i \in I : i \in Left[p] <=> p \in Right[i]
    PROVE  SumFunctionOnSet(f, S) = SumFunctionOnSet(g, I)
<1>. DEFINE Holds == {h \in I \X S : h[1] \in Left[h[2]]}
            A == [p \in S |-> {h \in Holds : h[2] = p}]
            B == [i \in I |-> {h \in Holds : h[1] = i}]
<1>0. \A h \in Holds : h[1] \in I /\ h[2] \in S /\ h = <<h[1], h[2]>>
  OBVIOUS
<1>1. ASSUME NEW p \in S PROVE IsFiniteSet(A[p]) /\ f[p] = Cardinality(A[p])
  <2>. DEFINE J == Left[p]
  <2>1. IsFiniteSet(J)
    BY FS_Subset
  <2>2. f[p] = Cardinality(J)
    OBVIOUS
  <2>3. [y \in J |-> <<y, p>>] \in Bijection(J, A[p])
    <3>1. \A y \in J : <<y, p>> \in A[p]
      BY <1>0
    <3>2. \A h \in A[p] : \E y \in J : h = <<y, p>>
      BY <1>0
    <3>3. \A y, z \in J : <<y, p>> = <<z, p>> => y = z
      OBVIOUS
    <3>. HIDE DEF J, A, B
    <3>. QED
      BY <3>1, <3>2, <3>3 DEF Bijection, Injection, Surjection, IsInjective
  <2>. HIDE DEF J, A, B
  <2>4. ExistsBijection(J, A[p])
    BY <2>3 DEF ExistsBijection
  <2>. QED
    BY <2>1, <2>2, <2>4, FS_Bijection
<1>2. ASSUME NEW i \in I PROVE IsFiniteSet(B[i]) /\ g[i] = Cardinality(B[i])
  <2>. DEFINE J == Right[i]
  <2>1. IsFiniteSet(J)
    BY FS_Subset
  <2>2. g[i] = Cardinality(J)
    OBVIOUS
  <2>3. [y \in J |-> <<i, y>>] \in Bijection(J, B[i])
    <3>1. \A y \in J : <<i, y>> \in B[i]
      BY <1>0
    <3>2. \A h \in B[i] : \E y \in J : h = <<i, y>>
      BY <1>0
    <3>3. \A y, z \in J : <<i, y>> = <<i, z>> => y = z
      OBVIOUS
    <3>. HIDE DEF J, A, B
    <3>. QED
      BY <3>1, <3>2, <3>3 DEF Bijection, Injection, Surjection, IsInjective
  <2>. HIDE DEF J, A, B
  <2>4. ExistsBijection(J, B[i])
    BY <2>3 DEF ExistsBijection
  <2>. QED
    BY <2>1, <2>2, <2>4, FS_Bijection
<1>3. \A p, q \in S : \A u : u \in A[p] /\ u \in A[q] => p = q
  OBVIOUS
<1>4. \A i, k \in I : \A u : u \in B[i] /\ u \in B[k] => i = k
  OBVIOUS
<1>5. \A u : u \in Holds <=> \E p \in S : u \in A[p]
  BY <1>0
<1>6. \A u : u \in Holds <=> \E i \in I : u \in B[i]
  BY <1>0
<1>. HIDE DEF A, B, Holds
<1>7. \A p \in S : IsFiniteSet(A[p])
  BY <1>1
<1>8. \A p \in S : f[p] = Cardinality(A[p])
  BY <1>1
<1>9. SumFunctionOnSet(f, S) = Cardinality(Holds)
  BY ONLY IsFiniteSet(S), <1>3, <1>5, <1>7, <1>8, SumCounts
<1>10. \A i \in I : IsFiniteSet(B[i])
  BY <1>2
<1>11. \A i \in I : g[i] = Cardinality(B[i])
  BY <1>2
<1>12. SumFunctionOnSet(g, I) = Cardinality(Holds)
  BY ONLY IsFiniteSet(I), <1>4, <1>6, <1>10, <1>11, SumCounts
<1>. QED
  BY <1>9, <1>12

(* The counts of a row, said of the events of the game. *)
LEMMA RowFacts ==
    ASSUME RecordAssumption, RecordInv, records # None, NEW p \in Pids
    PROVE  /\ GameToRow(records[p]).deaths_solo =
                Cardinality({i \in Kills : story[i].victim = p /\ story[i].assists = {}})
           /\ GameToRow(records[p]).kills_solo =
                Cardinality({i \in Kills : story[i].by = p /\ story[i].assists = {}})
           /\ GameToRow(records[p]).takedowns_2v2 =
                Cardinality({i \in Kills : p \in Involved(story[i]) /\ TwoByTwo(p, story[i])})
<1>. DEFINE mine == {k \in Kills : story[k].by = p}
            helped == {k \in Kills : story[k].by # p /\ p \in story[k].assists}
            row == GameToRow(records[p])
<1>0. RecordShape
  BY DEF RecordInv
<1>1. /\ records[p].deaths = DeathsOf(p)
      /\ records[p].kills = Takedowns(p, mine)
      /\ records[p].assists = Takedowns(p, helped)
  BY RecordFacts DEF KillsOf, AssistsOf
<1>2. row.deaths_solo = Cardinality({i \in DOMAIN DeathsOf(p) : DeathsOf(p)[i].solo})
  BY <1>1 DEF GameToRow, Count
<1>3. row.kills_solo = Cardinality({i \in DOMAIN Takedowns(p, mine) : Takedowns(p, mine)[i].solo})
  BY <1>1 DEF GameToRow, Count
<1>4. row.takedowns_2v2 = Cardinality({i \in DOMAIN Takedowns(p, mine) : Takedowns(p, mine)[i].two})
                            + Cardinality({i \in DOMAIN Takedowns(p, helped) : Takedowns(p, helped)[i].two})
  BY <1>1 DEF GameToRow, Count
<1>. HIDE DEF row, mine, helped
<1>5. {i \in DOMAIN DeathsOf(p) : DeathsOf(p)[i].solo} = {i \in Kills : story[i].victim = p /\ story[i].assists = {}}
  <2>1. \A i \in DOMAIN DeathsOf(p) : DeathsOf(p)[i].solo <=> story[i].assists = {}
    BY DeathsJudged
  <2>. QED
    BY <2>1, DeathsDomain
<1>6. {i \in DOMAIN Takedowns(p, mine) : Takedowns(p, mine)[i].solo} = {i \in mine : story[i].assists = {}}
  <2>1. \A i \in mine : Takedowns(p, mine)[i].solo <=> story[i].assists = {}
    BY TakedownsJudged
  <2>. QED
    BY <2>1, TakedownsDomain
<1>7. {i \in DOMAIN Takedowns(p, mine) : Takedowns(p, mine)[i].two} = {i \in mine : TwoByTwo(p, story[i])}
  <2>1. \A i \in mine : Takedowns(p, mine)[i].two <=> TwoByTwo(p, story[i])
    BY TakedownsJudged
  <2>. QED
    BY <2>1, TakedownsDomain
<1>8. {i \in DOMAIN Takedowns(p, helped) : Takedowns(p, helped)[i].two} = {i \in helped : TwoByTwo(p, story[i])}
  <2>1. \A i \in helped : Takedowns(p, helped)[i].two <=> TwoByTwo(p, story[i])
    BY TakedownsJudged
  <2>. QED
    BY <2>1, TakedownsDomain
<1>9. row.takedowns_2v2 = Cardinality({i \in Kills : p \in Involved(story[i]) /\ TwoByTwo(p, story[i])})
  <2>. DEFINE U == {i \in mine : TwoByTwo(p, story[i])}
              V == {i \in helped : TwoByTwo(p, story[i])}
              W == {i \in Kills : p \in Involved(story[i]) /\ TwoByTwo(p, story[i])}
  <2>1. IsFiniteSet(Kills)
    BY <1>0, StoryFacts, FS_Subset DEF Kills
  <2>2. IsFiniteSet(U) /\ IsFiniteSet(V)
    BY <2>1, FS_Subset DEF mine, helped
  <2>3. U \cup V = W /\ U \cap V = {}
    BY DEF mine, helped, Involved
  <2>. HIDE DEF U, V, W
  <2>4. Cardinality(U \cup V) = Cardinality(U) + Cardinality(V) - Cardinality(U \cap V)
    BY <2>2, FS_Union
  <2>5. Cardinality(U) \in Nat /\ Cardinality(V) \in Nat /\ Cardinality({}) = 0
    BY <2>2, FS_CardinalityType, FS_EmptySet
  <2>6. row.takedowns_2v2 = Cardinality(U) + Cardinality(V)
    BY <1>4, <1>7, <1>8 DEF U, V
  <2>7. Cardinality(W) = Cardinality(U) + Cardinality(V)
    <3>1. Cardinality(W) = Cardinality(U) + Cardinality(V) - 0
      BY <2>3, <2>4, <2>5
    <3>2. \A a, b \in Nat : a + b - 0 = a + b
      OBVIOUS
    <3>. QED
      BY <2>5, <3>1, <3>2
  <2>. QED
    BY <2>6, <2>7 DEF W
<1>10. {i \in mine : story[i].assists = {}} = {i \in Kills : story[i].by = p /\ story[i].assists = {}}
  BY DEF mine
<1>. QED
  BY <1>2, <1>3, <1>5, <1>6, <1>9, <1>10 DEF row

(* What a side's rows count of deaths, the other side's count of kills.    *)
LEMMA RowsAddUpHolds ==
    ASSUME RecordAssumption, RecordInv, records # None
    PROVE  RowsAddUp
<1>0. RecordShape
  BY DEF RecordInv
<1>. DEFINE row == [p \in Pids |-> GameToRow(records[p])]
            side(team) == {p \in Pids : SideOf(p) = team}
            died == [p \in Pids |-> row[p].deaths_solo]
            slew == [p \in Pids |-> row[p].kills_solo]
            took == [p \in Pids |-> row[p].takedowns_2v2]
<1>. SUFFICES ASSUME NEW team \in {100, 200}
     PROVE  LET solo == Cardinality({i \in Kills : story[i].by = 0 /\ SideOf(story[i].victim) = team})
                twos == {i \in Kills : LET v == story[i].victim
                                       IN  SideOf(v) = team /\ v \in BotOf(team) /\ records[v].deaths[i].two}
            IN  /\ SumFunctionOnSet(died, side(team)) = solo + SumFunctionOnSet(slew, side(EnemyOf(team)))
                /\ SumFunctionOnSet(took, side(EnemyOf(team))) =
                       SumFunction([i \in twos |-> Cardinality(Involved(story[i]))])
  BY DEF RowsAddUp
<1>. DEFINE ours == side(team)
            theirs == side(EnemyOf(team))
            alone == {i \in Kills : story[i].by = 0 /\ SideOf(story[i].victim) = team}
            twos == {i \in Kills : LET v == story[i].victim
                                   IN  SideOf(v) = team /\ v \in BotOf(team) /\ records[v].deaths[i].two}
            size == [i \in twos |-> Cardinality(Involved(story[i]))]
<1>1. IsFiniteSet(Kills) /\ IsFiniteSet(ours) /\ IsFiniteSet(theirs)
  BY <1>0, StoryFacts, SideFacts, FS_Subset DEF Kills
<1>2. ours \subseteq Pids /\ theirs \subseteq Pids /\ 0 \notin Pids
  BY <1>0, SideFacts
<1>3. EnemyOf(team) \in {100, 200} /\ EnemyOf(EnemyOf(team)) = team
  BY <1>0, SideFacts
<1>4. \A p \in Pids : /\ died[p] = Cardinality({i \in Kills : story[i].victim = p /\ story[i].assists = {}})
                      /\ slew[p] = Cardinality({i \in Kills : story[i].by = p /\ story[i].assists = {}})
                      /\ took[p] = Cardinality({i \in Kills : p \in Involved(story[i]) /\ TwoByTwo(p, story[i])})
  BY RowFacts
<1>. HIDE DEF died, slew, took
<1>5. SumFunctionOnSet(died, ours) = Cardinality({i \in Kills : story[i].victim \in ours /\ story[i].assists = {}})
  <2>. DEFINE A == [p \in ours |-> {i \in Kills : story[i].victim = p /\ story[i].assists = {}}]
              all == {i \in Kills : story[i].victim \in ours /\ story[i].assists = {}}
  <2>. HIDE DEF ours
  <2>1. \A p \in ours : A[p] = {i \in Kills : story[i].victim = p /\ story[i].assists = {}}
    OBVIOUS
  <2>2. \A p \in ours : IsFiniteSet(A[p])
    BY <1>1, FS_Subset
  <2>3. ASSUME NEW p \in ours PROVE died[p] = Cardinality(A[p])
    <3>1. p \in Pids
      BY <1>2
    <3>2. died[p] = Cardinality({i \in Kills : story[i].victim = p /\ story[i].assists = {}})
      BY <1>4, <3>1
    <3>3. {i \in Kills : story[i].victim = p /\ story[i].assists = {}} = A[p]
      OBVIOUS
    <3>. QED
      BY <3>2, <3>3, Zenon
  <2>4. \A p, q \in ours : \A u : u \in A[p] /\ u \in A[q] => p = q
    OBVIOUS
  <2>5. \A u : u \in all <=> \E p \in ours : u \in A[p]
    OBVIOUS
  <2>. HIDE DEF A, all
  <2>6. SumFunctionOnSet(died, ours) = Cardinality(all)
    BY <1>1, <2>2, <2>3, <2>4, <2>5, SumCounts
  <2>. QED
    BY <2>6 DEF all
<1>6. SumFunctionOnSet(slew, theirs) = Cardinality({i \in Kills : story[i].by \in theirs /\ story[i].assists = {}})
  <2>. DEFINE A == [p \in theirs |-> {i \in Kills : story[i].by = p /\ story[i].assists = {}}]
              all == {i \in Kills : story[i].by \in theirs /\ story[i].assists = {}}
  <2>. HIDE DEF theirs
  <2>1. \A p \in theirs : A[p] = {i \in Kills : story[i].by = p /\ story[i].assists = {}}
    OBVIOUS
  <2>2. \A p \in theirs : IsFiniteSet(A[p])
    BY <1>1, FS_Subset
  <2>3. ASSUME NEW p \in theirs PROVE slew[p] = Cardinality(A[p])
    <3>1. p \in Pids
      BY <1>2
    <3>2. slew[p] = Cardinality({i \in Kills : story[i].by = p /\ story[i].assists = {}})
      BY <1>4, <3>1
    <3>3. {i \in Kills : story[i].by = p /\ story[i].assists = {}} = A[p]
      OBVIOUS
    <3>. QED
      BY <3>2, <3>3, Zenon
  <2>4. \A p, q \in theirs : \A u : u \in A[p] /\ u \in A[q] => p = q
    OBVIOUS
  <2>5. \A u : u \in all <=> \E p \in theirs : u \in A[p]
    OBVIOUS
  <2>. HIDE DEF A, all
  <2>6. SumFunctionOnSet(slew, theirs) = Cardinality(all)
    BY <1>1, <2>2, <2>3, <2>4, <2>5, SumCounts
  <2>. QED
    BY <2>6 DEF all
<1>7. SumFunctionOnSet(died, ours) = Cardinality(alone) + SumFunctionOnSet(slew, theirs)
  <2>. DEFINE U == {i \in Kills : story[i].victim \in ours /\ story[i].assists = {}}
              V == {i \in Kills : story[i].by \in theirs /\ story[i].assists = {}}
  <2>1. \A i \in Kills : /\ story[i].victim \in Pids
                         /\ story[i].by = 0 => story[i].assists = {}
                         /\ story[i].by # 0 => /\ story[i].by \in Pids
                                               /\ SideOf(story[i].by) = EnemyOf(SideOf(story[i].victim))
                                               /\ SideOf(story[i].victim) = EnemyOf(SideOf(story[i].by))
    BY <1>0, InvolvedFacts DEF Involved
  <2>2. U = alone \cup V
    BY <1>2, <1>3, <2>1
  <2>3. alone \cap V = {}
    BY <1>2
  <2>4. IsFiniteSet(alone) /\ IsFiniteSet(V)
    BY <1>1, FS_Subset
  <2>. HIDE DEF U, V, alone, ours, theirs
  <2>5. Cardinality(alone \cup V) = Cardinality(alone) + Cardinality(V) - Cardinality(alone \cap V)
    BY <2>4, FS_Union
  <2>6. Cardinality(alone) \in Nat /\ Cardinality(V) \in Nat /\ Cardinality({}) = 0
    BY <2>4, FS_CardinalityType, FS_EmptySet
  <2>7. Cardinality(U) = Cardinality(alone) + Cardinality(V)
    <3>1. Cardinality(U) = Cardinality(alone) + Cardinality(V) - 0
      BY <2>2, <2>3, <2>5, <2>6
    <3>2. \A a, b \in Nat : a + b - 0 = a + b
      OBVIOUS
    <3>. QED
      BY <2>6, <3>1, <3>2
  <2>. QED
    BY <1>5, <1>6, <2>7 DEF U, V
<1>8. SumFunctionOnSet(took, theirs) = SumFunctionOnSet(size, twos)
  <2>. DEFINE Left == [p \in theirs |-> {i \in twos : p \in Involved(story[i])}]
              Right == [i \in twos |-> Involved(story[i])]
  <2>1. IsFiniteSet(twos)
    BY <1>1, FS_Subset
  <2>2. ASSUME NEW i \in Kills
        PROVE  i \in twos <=> /\ SideOf(story[i].victim) = team /\ story[i].victim \in BotOf(team)
                              /\ Involved(story[i]) \subseteq BotOf(EnemyOf(team))
    <3>1. story[i].victim \in Pids
      BY <1>0, InvolvedFacts
    <3>2. records[story[i].victim].deaths = DeathsOf(story[i].victim)
      BY <3>1, RecordFacts
    <3>3. i \in DOMAIN DeathsOf(story[i].victim)
      BY DEF DeathsOf
    <3>4. records[story[i].victim].deaths[i].two <=> Involved(story[i]) \subseteq BotOf(EnemyOf(SideOf(story[i].victim)))
      BY <3>2, <3>3, DeathsJudged
    <3>. QED
      BY <3>4
  <2>3. ASSUME NEW p \in theirs
        PROVE  took[p] = Cardinality(Left[p]) /\ Left[p] \subseteq twos
    <3>1. p \in Pids /\ SideOf(p) = EnemyOf(team)
      OBVIOUS
    <3>2. \A i \in Kills : TwoByTwo(p, story[i]) <=> /\ Involved(story[i]) \subseteq BotOf(EnemyOf(team))
                                                     /\ story[i].victim \in BotOf(team)
      BY <1>3, <3>1 DEF TwoByTwo, Pair
    <3>3. \A i \in Kills : story[i].victim \in BotOf(team) => SideOf(story[i].victim) = team
      BY <1>0, PairFacts
    <3>4. {i \in Kills : p \in Involved(story[i]) /\ TwoByTwo(p, story[i])} = Left[p]
      <4>1. \A i : i \in Left[p] <=> i \in twos /\ p \in Involved(story[i])
        OBVIOUS
      <4>2. \A i \in twos : i \in Kills
        OBVIOUS
      <4>. HIDE DEF twos, Left
      <4>. QED
        BY <2>2, <3>2, <3>3, <4>1, <4>2
    <3>5. took[p] = Cardinality({i \in Kills : p \in Involved(story[i]) /\ TwoByTwo(p, story[i])})
      BY <1>4, <3>1
    <3>6. Left[p] \subseteq twos
      OBVIOUS
    <3>. HIDE DEF Left, twos
    <3>. QED
      BY <3>4, <3>5, <3>6
  <2>4. ASSUME NEW i \in twos
        PROVE  size[i] = Cardinality(Right[i]) /\ Right[i] \subseteq theirs
    <3>1. Involved(story[i]) \subseteq BotOf(EnemyOf(team))
      BY <2>2
    <3>. QED
      BY <1>0, <3>1, PairFacts
  <2>5. \A p \in theirs, i \in twos : i \in Left[p] <=> p \in Right[i]
    OBVIOUS
  <2>6. /\ \A p \in theirs : took[p] = Cardinality(Left[p]) /\ Left[p] \subseteq twos
        /\ \A i \in twos : size[i] = Cardinality(Right[i]) /\ Right[i] \subseteq theirs
    BY <2>3, <2>4
  <2>. HIDE DEF Left, Right, twos, theirs, size
  <2>. QED
    BY <1>1, <2>1, <2>5, <2>6, CountedBothWays
<1>9. SumFunction(size) = SumFunctionOnSet(size, twos)
  BY DEF SumFunction
<1>. QED
  BY <1>7, <1>8, <1>9

(* Whatever the games, what the records of a game say agrees.              *)
THEOREM RecordsAgreeCorrect ==
    ASSUME RecordAssumption
    PROVE  RecordSpec => []RecordsAgree
<1>1. RecordInit => RecordInv
  BY RecordInitStep
<1>2. RecordInv /\ [RecordNext]_recordVars => RecordInv'
  BY RecordNextStep
<1>3. RecordInv => RecordsAgree
  BY LanesMirrorHolds, KillsMatchHolds, EarlyAgreesHolds, TeamsMirrorHolds, RowsAddUpHolds DEF RecordsAgree
<1>. QED
  BY <1>1, <1>2, <1>3, PTL DEF RecordSpec

-----------------------------------------------------------------------------
(* TrainingWindows: the union-find of the audit, then the trainings. *)

(* A fold over the subsets of a finite set has a value: each value comes   *)
(* from the one of the set less the element chosen in it.                  *)
FoldsBy(F, T, V, base, op, pick) ==
    /\ F \in [SUBSET T -> V]
    /\ \A s \in SUBSET T : F[s] = IF s = {} THEN base ELSE op[<<pick[s], F[s \ {pick[s]}]>>]

(* Two folds agree on the subsets they share. *)
LEMMA FoldIsOne ==
    ASSUME NEW S, IsFiniteSet(S), NEW V, NEW base, NEW op, NEW pick,
           \A s \in SUBSET S : s # {} => pick[s] \in s,
           NEW T \in SUBSET S, NEW U \in SUBSET S, NEW F, NEW G,
           FoldsBy(F, T, V, base, op, pick), FoldsBy(G, U, V, base, op, pick)
    PROVE  \A s \in SUBSET (T \cap U) : F[s] = G[s]
<1>. DEFINE Good == {s \in SUBSET S : s \subseteq T /\ s \subseteq U => F[s] = G[s]}
<1>1. ASSUME NEW s \in SUBSET S, \A r \in SUBSET s : r # s => r \in Good PROVE s \in Good
  <2>1. CASE s = {}
    <3>1. s \in SUBSET T /\ s \in SUBSET U
      BY <2>1
    <3>2. F[s] = base /\ G[s] = base
      BY <2>1, <3>1 DEF FoldsBy
    <3>. QED
      BY <3>2
  <2>2. CASE s # {} /\ s \subseteq T /\ s \subseteq U
    <3>1. pick[s] \in s
      BY <2>2
    <3>2. s \ {pick[s]} \in Good
      BY <1>1, <3>1
    <3>3. F[s] = op[<<pick[s], F[s \ {pick[s]}]>>]
      BY <2>2 DEF FoldsBy
    <3>4. G[s] = op[<<pick[s], G[s \ {pick[s]}]>>]
      BY <2>2 DEF FoldsBy
    <3>5. F[s \ {pick[s]}] = G[s \ {pick[s]}]
      BY <2>2, <3>2
    <3>. QED
      BY <3>3, <3>4, <3>5
  <2>. QED
    BY <2>1, <2>2
<1>2. \A s \in SUBSET S : s \in Good
  <2>. HIDE DEF Good
  <2>. QED
    BY <1>1, SubsetInduction
<1>. QED
  BY <1>2

(* There is one of the whole set, by induction over its subsets. *)
LEMMA FoldExists ==
    ASSUME NEW S, IsFiniteSet(S), NEW V, NEW base \in V, NEW op \in [S \X V -> V], NEW pick,
           \A s \in SUBSET S : s # {} => pick[s] \in s
    PROVE  \E F : FoldsBy(F, S, V, base, op, pick)
<1>. DEFINE Good == {T \in SUBSET S : \E F : FoldsBy(F, T, V, base, op, pick)}
            part == [s \in SUBSET S |-> CHOOSE F : FoldsBy(F, s, V, base, op, pick)]
<1>1. ASSUME NEW T \in SUBSET S, \A s \in SUBSET T : s # T => s \in Good PROVE T \in Good
  <2>. DEFINE next(s, r) == IF s = {} THEN base ELSE op[<<pick[s], r>>]
              F == [s \in SUBSET T |->
                      IF s # T THEN part[s][s] ELSE next(T, part[T \ {pick[T]}][T \ {pick[T]}])]
  <2>1. ASSUME NEW s \in SUBSET T, s # T PROVE FoldsBy(part[s], s, V, base, op, pick)
    <3>1. \E G : FoldsBy(G, s, V, base, op, pick)
      BY <1>1, <2>1
    <3>. QED
      BY <3>1
  <2>. HIDE DEF part
  <2>2. ASSUME NEW s \in SUBSET T, s # T
        PROVE  part[s][s] \in V /\ part[s][s] = next(s, part[s \ {pick[s]}][s \ {pick[s]}])
    <3>0. FoldsBy(part[s], s, V, base, op, pick) /\ s \in SUBSET s
      BY <2>1, <2>2
    <3>1. part[s][s] \in V /\ part[s][s] = next(s, part[s][s \ {pick[s]}])
      BY <3>0 DEF FoldsBy
    <3>2. CASE s = {}
      BY <3>1, <3>2
    <3>3. CASE s # {}
      <4>. DEFINE r == s \ {pick[s]}
      <4>1. r \in SUBSET T /\ r # T /\ r \in SUBSET s
        BY <3>3
      <4>2. FoldsBy(part[r], r, V, base, op, pick)
        BY <2>1, <4>1
      <4>3. r \in SUBSET (s \cap r) /\ s \in SUBSET S /\ r \in SUBSET S
        BY <4>1
      <4>. HIDE DEF r, next
      <4>4. part[s][r] = part[r][r]
        BY <3>0, <4>2, <4>3, FoldIsOne
      <4>. QED
        BY <3>1, <4>4 DEF r
    <3>. QED
      BY <3>2, <3>3
  <2>3. ASSUME NEW s \in SUBSET T PROVE F[s] \in V /\ F[s] = next(s, F[s \ {pick[s]}])
    <3>1. CASE s # T /\ s = {}
      BY <2>2, <3>1
    <3>2. CASE s # T /\ s # {}
      <4>1. s \ {pick[s]} \in SUBSET T /\ s \ {pick[s]} # T
        BY <3>2
      <4>. QED
        BY <2>2, <3>2, <4>1
    <3>3. CASE s = T /\ T = {}
      BY <3>3
    <3>4. CASE s = T /\ T # {}
      <4>. DEFINE r == T \ {pick[T]}
      <4>1. pick[T] \in S /\ r \in SUBSET T /\ r # T
        BY <3>4
      <4>2. part[r][r] \in V
        BY <2>2, <4>1
      <4>3. F[T] = op[<<pick[T], part[r][r]>>] /\ F[r] = part[r][r]
        BY <3>4, <4>1
      <4>4. F[T] \in V
        BY <4>1, <4>2, <4>3
      <4>. QED
        BY <3>4, <4>3, <4>4
    <3>. QED
      BY <3>1, <3>2, <3>3, <3>4
  <2>4. FoldsBy(F, T, V, base, op, pick)
    <3>1. F \in [SUBSET T -> V]
      BY <2>3
    <3>. HIDE DEF F
    <3>. QED
      BY <2>3, <3>1 DEF FoldsBy
  <2>. QED
    BY <2>4
<1>2. \A T \in SUBSET S : T \in Good
  <2>. HIDE DEF Good
  <2>. QED
    BY <1>1, SubsetInduction
<1>3. S \in Good
  BY <1>2
<1>. QED
  BY <1>3

(* Parents, their roots, and a depth that decreases on the way up: the     *)
(* forest of a union-find.                                                 *)
Forest(f, root, depth) ==
    /\ f \in [rows -> rows] /\ root \in [rows -> rows] /\ depth \in [rows -> Nat]
    /\ \A r \in rows : /\ f[root[r]] = root[r]
                       /\ f[r] = r => root[r] = r
                       /\ f[r] # r => root[r] = root[f[r]] /\ depth[f[r]] < depth[r]

(* Find climbs to the root. *)
LEMMA FindsRoot ==
    ASSUME NEW f, NEW root, NEW depth, Forest(f, root, depth)
    PROVE  Find(f) = root
<1>. DEFINE Body(g) == [r \in DOMAIN f |-> IF f[r] = r THEN r ELSE g[f[r]]]
            up == CHOOSE g : g = Body(g)
<1>1. Find(f) = up
  BY DEF Find
<1>2. root = Body(root)
  BY DEF Forest
<1>3. up = Body(up)
  BY <1>2
<1>. HIDE DEF up
<1>4. ASSUME NEW bad \in rows, up[bad] # root[bad] PROVE FALSE
  <2>. DEFINE D == {depth[r] : r \in {r \in rows : up[r] # root[r]}}
  <2>1. D \subseteq Nat /\ D # {}
    BY <1>4 DEF Forest
  <2>2. PICK d \in D : \A e \in D : ~(e < d)
    <3>1. \E d \in D : \A e \in D : <<e, d>> \notin OpToRel(<, Nat)
      <4>. HIDE DEF D
      <4>. QED
        BY <2>1, NatLessThanWellFounded, WFMin
    <3>. QED
      BY <2>1, <3>1 DEF OpToRel
  <2>3. PICK r \in rows : depth[r] = d /\ up[r] # root[r]
    BY <2>2
  <2>4. f[r] # r
    BY <1>3, <2>3 DEF Forest
  <2>5. f[r] \in rows /\ up[r] = up[f[r]] /\ root[r] = root[f[r]] /\ depth[f[r]] < d
    BY <1>3, <2>3, <2>4 DEF Forest
  <2>6. depth[f[r]] \in D
    BY <2>3, <2>5
  <2>. QED
    BY <2>2, <2>5, <2>6
<1>5. DOMAIN up = rows /\ DOMAIN root = rows
  BY <1>3 DEF Forest
<1>6. up = [r \in rows |-> up[r]] /\ root = [r \in rows |-> root[r]]
  BY <1>2, <1>3 DEF Forest
<1>. QED
  BY <1>1, <1>4, <1>6

(* A set of rows which nothing links to the rest. *)
Unlinked(T) == T \subseteq rows /\ \A r \in T, x \in rows : <<r, x>> \in Linked(rows) => x \in T

(* Some pairs share their root, and no root is shared by rows that nothing *)
(* links.                                                                  *)
RootsJoin(root, pairs) ==
    /\ \A pair \in pairs : root[pair[1]] = root[pair[2]]
    /\ \A T : Unlinked(T) => \A r \in T, x \in rows : root[r] = root[x] => x \in T

(* One union: the two classes of a pair become one. *)
LEMMA UnionJoins ==
    ASSUME NEW f, NEW root, NEW depth, Forest(f, root, depth),
           NEW pairs \in SUBSET Linked(rows), RootsJoin(root, pairs), NEW pair \in Linked(rows)
    PROVE  \E newRoot, newDepth : /\ Forest(Union(pair, f), newRoot, newDepth)
                                  /\ RootsJoin(newRoot, pairs \cup {pair})
<1>. DEFINE a == root[pair[1]]
            b == root[pair[2]]
            g == Union(pair, f)
<1>0. PICK s \in rows, r \in rows : pair = <<s, r>>
  BY DEF Linked
<1>1. <<r, s>> \in Linked(rows) /\ pair[1] = s /\ pair[2] = r
  BY <1>0 DEF Linked
<1>2. g = IF a = b THEN f ELSE [f EXCEPT ![a] = b]
  BY FindsRoot DEF Union
<1>3. a \in rows /\ b \in rows /\ f[a] = a /\ f[b] = b /\ root[a] = a /\ root[b] = b
  BY <1>0, <1>1 DEF Forest
<1>. HIDE DEF g
<1>4. CASE a = b
  <2>1. g = f
    BY <1>2, <1>4
  <2>2. RootsJoin(root, pairs \cup {pair})
    BY <1>4 DEF RootsJoin
  <2>. QED
    BY <2>1, <2>2 DEF g
<1>5. CASE a # b
  <2>. DEFINE R == [x \in rows |-> IF root[x] = a THEN b ELSE root[x]]
              D == [x \in rows |-> IF root[x] = a THEN depth[x] + depth[b] + 1 ELSE depth[x]]
  <2>0. g = [f EXCEPT ![a] = b]
    BY <1>2, <1>5
  <2>1. g \in [rows -> rows] /\ R \in [rows -> rows] /\ D \in [rows -> Nat]
    BY <1>3, <2>0 DEF Forest
  <2>2. ASSUME NEW x \in rows
        PROVE  /\ g[R[x]] = R[x]
               /\ g[x] = x => R[x] = x
               /\ g[x] # x => R[x] = R[g[x]] /\ D[g[x]] < D[x]
    <3>0. /\ f[x] \in rows /\ root[x] \in rows /\ depth[x] \in Nat /\ depth[a] \in Nat /\ depth[b] \in Nat
          /\ f[root[x]] = root[x]
          /\ f[x] = x => root[x] = x
          /\ f[x] # x => root[x] = root[f[x]] /\ depth[f[x]] < depth[x] /\ depth[f[x]] \in Nat
      BY <1>3 DEF Forest
    <3>1. g[R[x]] = R[x]
      BY <1>3, <1>5, <2>0, <3>0 DEF Forest
    <3>2. CASE x = a
      <4>1. g[x] = b /\ R[x] = b /\ R[b] = b /\ D[b] = depth[b] /\ D[x] = depth[a] + depth[b] + 1
        BY <1>3, <1>5, <2>0, <3>2 DEF Forest
      <4>. QED
        BY <1>5, <3>0, <3>1, <3>2, <4>1
    <3>3. CASE x # a
      <4>1. g[x] = f[x]
        BY <2>0, <3>3 DEF Forest
      <4>2. f[x] = x => R[x] = x
        BY <3>0, <3>3
      <4>3. ASSUME f[x] # x PROVE R[x] = R[f[x]] /\ D[f[x]] < D[x]
        <5>1. root[x] = root[f[x]] /\ depth[f[x]] < depth[x] /\ depth[f[x]] \in Nat
          BY <3>0, <4>3
        <5>. QED
          BY <3>0, <5>1
      <4>. QED
        BY <3>1, <4>1, <4>2, <4>3
    <3>. QED
      BY <3>2, <3>3
  <2>3. Forest(g, R, D)
    <3>. HIDE DEF R, D
    <3>. QED
      BY <2>1, <2>2 DEF Forest
  <2>4. ASSUME NEW p \in pairs \cup {pair} PROVE R[p[1]] = R[p[2]]
    <3>1. p \in Linked(rows)
      OBVIOUS
    <3>2. p[1] \in rows /\ p[2] \in rows
      BY <3>1 DEF Linked
    <3>3. CASE p \in pairs
      BY <3>2, <3>3 DEF RootsJoin
    <3>4. CASE p = pair
      BY <1>1, <1>3, <1>5, <3>2, <3>4
    <3>. QED
      BY <3>3, <3>4
  <2>5. ASSUME NEW T, Unlinked(T), NEW x \in T, NEW y \in rows, R[x] = R[y] PROVE y \in T
    <3>1. x \in rows
      BY <2>5 DEF Unlinked
    <3>2. \A u \in T, v \in rows : root[u] = root[v] => v \in T
      BY <2>5 DEF RootsJoin
    <3>3. s \in T <=> r \in T
      BY <1>0, <1>1, <2>5 DEF Unlinked
    <3>4. CASE root[x] = root[y]
      BY <3>2, <3>4
    <3>5. CASE root[x] = a /\ root[y] = b
      <4>1. s \in T
        BY <1>1, <3>2, <3>5
      <4>. QED
        BY <1>1, <3>2, <3>3, <3>5, <4>1
    <3>6. CASE root[x] = b /\ root[y] = a
      <4>1. r \in T
        BY <1>1, <3>2, <3>6
      <4>. QED
        BY <1>1, <3>2, <3>3, <3>6, <4>1
    <3>. QED
      BY <2>5, <3>1, <3>4, <3>5, <3>6
  <2>6. RootsJoin(R, pairs \cup {pair})
    <3>. HIDE DEF R
    <3>. QED
      BY <2>4, <2>5 DEF RootsJoin
  <2>. QED
    BY <2>3, <2>6 DEF g
<1>. QED
  BY <1>4, <1>5

(* The groups are the classes of roots that join every linked pair. *)
LEMMA GroupsJoin ==
    ASSUME IsFiniteSet(rows)
    PROVE  \E root \in [rows -> rows] :
              /\ LeakGroups(rows) = {{r \in rows : root[r] = g} : g \in {root[r] : r \in rows}}
              /\ RootsJoin(root, Linked(rows))
<1>. DEFINE Self == [r \in rows |-> r]
            Body(h) == [s \in SUBSET Linked(rows) |->
                          IF s = {} THEN Self
                          ELSE Union(CHOOSE x \in s : TRUE, h[s \ {CHOOSE x \in s : TRUE}])]
            iter == CHOOSE h : h = Body(h)
            Sound(f, s) == \E root, depth : Forest(f, root, depth) /\ RootsJoin(root, s)
            V == {f \in [rows -> rows] : Sound(f, {})}
            op == [p \in Linked(rows) \X V |-> Union(p[1], p[2])]
            pick == [s \in SUBSET Linked(rows) |-> CHOOSE x \in s : TRUE]
<1>1. FoldSet(Union, Self, Linked(rows)) = iter[Linked(rows)]
  BY DEF FoldSet, MapThenFoldSet
<1>2. IsFiniteSet(Linked(rows))
  <2>1. IsFiniteSet(rows \X rows)
    BY FS_Product
  <2>. QED
    BY <2>1, FS_Subset DEF Linked
<1>3. Sound(Self, {}) /\ Self \in V
  <2>. DEFINE level == [r \in rows |-> 0]
  <2>1. Forest(Self, Self, level)
    BY DEF Forest
  <2>2. RootsJoin(Self, {})
    BY DEF RootsJoin, Unlinked
  <2>3. Self \in [rows -> rows]
    OBVIOUS
  <2>4. Sound(Self, {})
    BY <2>1, <2>2
  <2>. QED
    BY <2>3, <2>4
<1>4. ASSUME NEW f, NEW s \in SUBSET Linked(rows), Sound(f, s), NEW x \in Linked(rows)
      PROVE  Sound(Union(x, f), s \cup {x})
  BY <1>4, UnionJoins
<1>5. ASSUME NEW f, NEW s \in SUBSET Linked(rows), Sound(f, s)
      PROVE  f \in V
  <2>1. PICK root, depth : Forest(f, root, depth) /\ RootsJoin(root, s)
    BY <1>5
  <2>2. RootsJoin(root, {})
    BY <2>1 DEF RootsJoin
  <2>3. f \in [rows -> rows]
    BY <2>1 DEF Forest
  <2>. QED
    BY <2>1, <2>2, <2>3
<1>6. op \in [Linked(rows) \X V -> V]
  <2>1. ASSUME NEW x \in Linked(rows), NEW f \in V PROVE Union(x, f) \in V
    <3>1. Sound(f, {})
      OBVIOUS
    <3>2. Sound(Union(x, f), {} \cup {x})
      <4>. HIDE DEF Sound, V
      <4>. QED
        BY <1>4, <3>1
    <3>3. {} \cup {x} \in SUBSET Linked(rows)
      OBVIOUS
    <3>. HIDE DEF Sound, V
    <3>. QED
      BY <1>5, <3>2, <3>3
  <2>. HIDE DEF V, Sound
  <2>. QED
    BY <2>1
<1>7. \A s \in SUBSET Linked(rows) : s # {} => pick[s] \in s
  OBVIOUS
<1>8. \E F : FoldsBy(F, Linked(rows), V, Self, op, pick)
  <2>. HIDE DEF V, Self, op, pick, Sound
  <2>. QED
    BY <1>2, <1>3, <1>6, <1>7, FoldExists
<1>9. PICK F : FoldsBy(F, Linked(rows), V, Self, op, pick)
  BY <1>8
<1>10. F = Body(F)
  <2>1. ASSUME NEW s \in SUBSET Linked(rows) PROVE F[s] = Body(F)[s]
    <3>1. F[s] = IF s = {} THEN Self ELSE op[<<pick[s], F[s \ {pick[s]}]>>]
      <4>. HIDE DEF V, Self, op, pick, Sound
      <4>. QED
        BY <1>9 DEF FoldsBy
    <3>2. s # {} => pick[s] \in Linked(rows) /\ F[s \ {pick[s]}] \in V
      <4>1. s # {} => pick[s] \in Linked(rows)
        BY <1>7
      <4>. HIDE DEF V, Self, op, pick, Sound
      <4>. QED
        BY <1>9, <4>1 DEF FoldsBy
    <3>3. s # {} => op[<<pick[s], F[s \ {pick[s]}]>>] = Union(pick[s], F[s \ {pick[s]}])
      <4>. HIDE DEF V, Self, pick, Sound
      <4>. QED
        BY <3>2
    <3>. HIDE DEF V, Self, op, Sound
    <3>. QED
      BY <3>1, <3>3
  <2>2. F = [s \in SUBSET Linked(rows) |-> F[s]]
    <3>. HIDE DEF V, Self, op, pick, Sound
    <3>. QED
      BY <1>9 DEF FoldsBy
  <2>. HIDE DEF V, Self, op, pick, Sound
  <2>. QED
    BY <2>1, <2>2
<1>11. iter = Body(iter)
  <2>. HIDE DEF Body
  <2>. QED
    BY <1>10
<1>. HIDE DEF iter
<1>. DEFINE Good == {s \in SUBSET Linked(rows) : Sound(iter[s], s)}
<1>12. ASSUME NEW s \in SUBSET Linked(rows), \A r \in SUBSET s : r # s => r \in Good PROVE s \in Good
  <2>0. iter[s] = Body(iter)[s]
    BY <1>11
  <2>1. CASE s = {}
    <3>1. iter[s] = Self
      <4>. HIDE DEF Self
      <4>. QED
        BY <2>0, <2>1
    <3>. HIDE DEF Sound, Self
    <3>. QED
      BY <1>3, <2>1, <3>1
  <2>2. CASE s # {}
    <3>. DEFINE x == CHOOSE x \in s : TRUE
    <3>1. x \in s
      BY <2>2
    <3>2. iter[s] = Union(x, iter[s \ {x}])
      BY <2>0, <2>2
    <3>. HIDE DEF x
    <3>3. s \ {x} \in Good /\ s \ {x} \in SUBSET Linked(rows) /\ x \in Linked(rows)
      BY <1>12, <3>1
    <3>4. (s \ {x}) \cup {x} = s
      BY <3>1
    <3>5. Sound(iter[s \ {x}], s \ {x})
      BY <3>3
    <3>. HIDE DEF Sound
    <3>6. Sound(iter[s], s)
      BY <1>4, <3>2, <3>3, <3>4, <3>5
    <3>. QED
      BY <3>6
  <2>. QED
    BY <2>1, <2>2
<1>13. Sound(iter[Linked(rows)], Linked(rows))
  <2>1. \A s \in SUBSET Linked(rows) : s \in Good
    <3>. HIDE DEF Good
    <3>. QED
      BY <1>2, <1>12, SubsetInduction
  <2>. QED
    BY <2>1
<1>14. PICK root, depth : Forest(iter[Linked(rows)], root, depth) /\ RootsJoin(root, Linked(rows))
  BY <1>13
<1>15. root \in [rows -> rows] /\ Find(iter[Linked(rows)]) = root
  BY <1>14, FindsRoot DEF Forest
<1>16. LeakGroups(rows) = {{r \in rows : root[r] = g} : g \in {root[r] : r \in rows}}
  BY <1>1, <1>15 DEF LeakGroups
<1>. QED
  BY <1>14, <1>15, <1>16

(* Games that were played and collected, and a table of some of them.     *)
GamesRead ==
    /\ history \in Histories
    /\ day \in Nat /\ day <= Len(history)
    /\ collected \subseteq 1..day
    /\ \E read \in SUBSET (1..day) : rows = Seats(read)

(* The ladder is one of the captures, and so is the rank of a window. *)
RanksCaptured ==
    /\ snapshot # None => snapshot \in captures /\ snapshot.as_of \in Nat
    /\ \A p \in DOMAIN windows : \E c \in captures :
         c.as_of = windows[p].as_of /\ p \in DOMAIN c.ranks /\ c.ranks[p] = windows[p].tier

(* What every step keeps. *)
TrainingInv ==
    /\ TrainingAssumption
    /\ GamesRead
    /\ RanksCaptured
    /\ building # None => building = Provenance(windows)
    /\ training # None => building = None
    /\ TrainingIsClean

(* A row is the seat of a player in a game read. *)
LEMMA RowsAre ==
    ASSUME TrainingAssumption, GamesRead
    PROVE  /\ IsFiniteSet(rows)
           /\ \A r \in rows : r = <<r[1], r[2]>> /\ r[1] \in 1..Len(history) /\ Plays(r[2], r[1])
           /\ \A r \in rows : \A q : Plays(q, r[1]) => <<r[1], q>> \in rows
<1>1. PICK read \in SUBSET (1..day) : rows = Seats(read)
  BY DEF GamesRead
<1>. DEFINE who == UNION {DOMAIN history[m] : m \in read}
            all == UNION {DOMAIN history[m] : m \in DOMAIN history}
<1>2. /\ DOMAIN history = 1..Len(history) /\ IsFiniteSet(all)
      /\ Len(history) \in Nat /\ day \in Nat /\ day <= Len(history)
  BY DEF TrainingAssumption, GamesRead
<1>3. read \subseteq DOMAIN history
  BY <1>2
<1>4. rows = {s \in read \X who : Plays(s[2], s[1])}
  BY <1>1 DEF Seats
<1>5. IsFiniteSet(rows)
  <2>1. IsFiniteSet(1..day)
    BY <1>2, FS_Interval
  <2>2. IsFiniteSet(read)
    BY <2>1, FS_Subset
  <2>3. who \in SUBSET all
    BY <1>3
  <2>. HIDE DEF who, all
  <2>4. IsFiniteSet(who)
    BY <1>2, <2>3, FS_Subset
  <2>5. IsFiniteSet(read \X who)
    BY <2>2, <2>4, FS_Product
  <2>. QED
    BY <1>4, <2>5, FS_Subset
<1>6. ASSUME NEW r \in rows
      PROVE  /\ r = <<r[1], r[2]>> /\ r[1] \in 1..Len(history) /\ Plays(r[2], r[1])
             /\ r[1] \in read
  <2>1. r \in read \X who /\ Plays(r[2], r[1])
    BY <1>4
  <2>. HIDE DEF who, all
  <2>2. r = <<r[1], r[2]>> /\ r[1] \in read
    BY <2>1
  <2>3. r[1] \in DOMAIN history
    BY <1>3, <2>2
  <2>. QED
    BY <1>2, <2>1, <2>2, <2>3
<1>7. ASSUME NEW m \in read, NEW q, Plays(q, m) PROVE <<m, q>> \in rows
  <2>1. q \in who
    BY <1>7 DEF Plays
  <2>. HIDE DEF who
  <2>. QED
    BY <1>4, <1>7, <2>1
<1>. QED
  BY <1>5, <1>6, <1>7

(* The games of a player are those of the rows that he is in. *)
LEMMA RowsOfAre ==
    ASSUME TrainingAssumption, GamesRead, NEW p
    PROVE  /\ RowsOf(p) \subseteq 1..Len(history) /\ Len(history) \in Nat
           /\ \A m : m \in RowsOf(p) <=> <<m, p>> \in rows
           /\ \A m \in RowsOf(p) : Plays(p, m)
           /\ \A m \in RowsOf(p) : \A q : Plays(q, m) => m \in RowsOf(q)
<1>0. /\ \A r \in rows : r = <<r[1], r[2]>> /\ r[1] \in 1..Len(history) /\ Plays(r[2], r[1])
      /\ \A r \in rows : \A q : Plays(q, r[1]) => <<r[1], q>> \in rows
  BY RowsAre
<1>1. ASSUME NEW q, NEW m PROVE m \in RowsOf(q) <=> <<m, q>> \in rows
  <2>1. ASSUME m \in RowsOf(q) PROVE <<m, q>> \in rows
    <3>1. PICK r \in rows : r[2] = q /\ r[1] = m
      BY <2>1 DEF RowsOf
    <3>. QED
      BY <1>0, <3>1
  <2>2. ASSUME <<m, q>> \in rows PROVE m \in RowsOf(q)
    <3>1. <<m, q>> \in {x \in rows : x[2] = q}
      BY <2>2
    <3>. QED
      BY <3>1 DEF RowsOf
  <2>. QED
    BY <2>1, <2>2
<1>2. ASSUME NEW m \in RowsOf(p)
      PROVE  m \in 1..Len(history) /\ Plays(p, m) /\ \A q : Plays(q, m) => <<m, q>> \in rows
  <2>1. <<m, p>> \in rows
    BY <1>1
  <2>. QED
    BY <1>0, <2>1
<1>3. Len(history) \in Nat
  BY DEF TrainingAssumption, GamesRead
<1>. QED
  BY <1>1, <1>2, <1>3

(* What is learnt is of no game of the role that a held player is in. *)
LearntApart(held, learnt) ==
    /\ DOMAIN learnt \cap held = {}
    /\ \A p \in DOMAIN learnt : \A m \in learnt[p] :
         Plays(p, m) /\ \A q \in held : ~Plays(q, m)

(* No game of a held player is left when the shared ones are out. *)
LEMMA SharedIsOut ==
    ASSUME TrainingAssumption, GamesRead, NEW held, NEW p, NEW m \in RowsOf(p) \ Shared(held)
    PROVE  Plays(p, m) /\ \A q \in held : ~Plays(q, m)
<1>1. Plays(p, m) /\ \A q : Plays(q, m) => m \in RowsOf(q)
  BY RowsOfAre
<1>2. \A q \in held : m \notin RowsOf(q)
  BY DEF Shared
<1>. QED
  BY <1>1, <1>2

(* The fixed windows of a role keep nothing of a held player. *)
LEMMA RoleIsClean ==
    ASSUME TrainingAssumption, GamesRead, NEW sample, NEW held
    PROVE  LearntApart(held, FixedWindows(sample \ held, held))
<1>. DEFINE w(p) == NewestOf(N_WINDOW, {m \in RowsOf(p) \ Shared(held) : m <= windows[p].as_of})
            learnt == FixedWindows(sample \ held, held)
<1>1. /\ DOMAIN learnt = {q \in sample \ held : Cardinality(w(q)) = N_WINDOW}
      /\ \A p \in DOMAIN learnt : learnt[p] = w(p)
  BY DEF FixedWindows
<1>2. \A p : w(p) \subseteq RowsOf(p) \ Shared(held)
  BY DEF NewestOf
<1>. HIDE DEF w, learnt
<1>3. DOMAIN learnt \cap held = {}
  BY <1>1
<1>4. ASSUME NEW p \in DOMAIN learnt, NEW m \in learnt[p]
      PROVE  Plays(p, m) /\ \A q \in held : ~Plays(q, m)
  <2>1. m \in RowsOf(p) \ Shared(held)
    BY <1>1, <1>2, <1>4
  <2>. QED
    BY <2>1, SharedIsOut
<1>5. LearntApart(held, learnt)
  BY <1>3, <1>4 DEF LearntApart
<1>. QED
  BY <1>5 DEF learnt

(* The windows of a role: full, dated by their rank, with no gap that the  *)
(* games of a held player do not explain.                                  *)
LEMMA RoleIsFull ==
    ASSUME TrainingAssumption, GamesRead, RanksCaptured, NEW sample \in SUBSET DOMAIN windows, NEW held,
           NEW p \in DOMAIN FixedWindows(sample \ held, held)
    PROVE  LET games == FixedWindows(sample \ held, held)[p]
           IN  /\ Cardinality(games) = N_WINDOW
               /\ \E c \in captures : c.as_of = windows[p].as_of /\ p \in DOMAIN c.ranks /\ c.ranks[p] = windows[p].tier
               /\ \A m \in games : m <= windows[p].as_of
               /\ \A m \in RowsOf(p) : m > Min(games) /\ m <= windows[p].as_of =>
                    m \in games \/ \E q \in held : Plays(q, m)
<1>. DEFINE S == {m \in RowsOf(p) \ Shared(held) : m <= windows[p].as_of}
            games == NewestOf(N_WINDOW, S)
<1>1. p \in sample /\ Cardinality(games) = N_WINDOW /\ FixedWindows(sample \ held, held)[p] = games
  BY DEF FixedWindows
<1>2. RowsOf(p) \subseteq 1..Len(history) /\ Len(history) \in Nat
  BY RowsOfAre
<1>3. S \subseteq 1..Len(history) /\ games \subseteq S /\ games \subseteq 0..Len(history)
  BY <1>2 DEF NewestOf
<1>4. N_WINDOW \in Nat \ {0}
  BY DEF TrainingAssumption
<1>5. games # {}
  BY <1>1, <1>4, FS_EmptySet
<1>6. Min(games) \in games
  <2>. HIDE DEF games, S
  <2>. QED
    BY <1>2, <1>3, <1>5, Extremes
<1>7. \E c \in captures : c.as_of = windows[p].as_of /\ p \in DOMAIN c.ranks /\ c.ranks[p] = windows[p].tier
  BY <1>1 DEF RanksCaptured
<1>8. \A m \in games : m <= windows[p].as_of
  BY <1>3
<1>9. ASSUME NEW m \in RowsOf(p), m > Min(games), m <= windows[p].as_of
      PROVE  m \in games \/ \E q \in held : Plays(q, m)
  <2>1. CASE m \in Shared(held)
    <3>1. PICK q \in held : m \in RowsOf(q)
      BY <2>1 DEF Shared
    <3>2. Plays(q, m)
      BY <3>1, RowsOfAre
    <3>. QED
      BY <3>2
  <2>2. CASE m \notin Shared(held)
    <3>. DEFINE x == Min(games)
                later(y) == {k \in S : k > y}
    <3>1. m \in S /\ x \in S /\ m > x
      BY <1>3, <1>6, <1>9, <2>2
    <3>2. Cardinality(later(x)) < N_WINDOW
      BY <1>6 DEF NewestOf
    <3>3. IsFiniteSet(later(x))
      <4>1. IsFiniteSet(1..Len(history))
        BY <1>2, FS_Interval
      <4>2. later(x) \in SUBSET (1..Len(history))
        BY <1>3
      <4>. HIDE DEF later
      <4>. QED
        BY <4>1, <4>2, FS_Subset
    <3>4. later(m) \in SUBSET later(x)
      <4>1. S \subseteq Int
        BY <1>2, <1>3
      <4>. HIDE DEF S, x
      <4>2. ASSUME NEW k \in S, k > m PROVE k > x
        BY <3>1, <4>1, <4>2
      <4>. QED
        BY <4>2
    <3>5. /\ Cardinality(later(m)) \in Nat /\ Cardinality(later(x)) \in Nat
          /\ Cardinality(later(m)) <= Cardinality(later(x))
      <4>. HIDE DEF later
      <4>. QED
        BY <3>3, <3>4, FS_Subset, FS_CardinalityType
    <3>6. Cardinality(later(m)) < N_WINDOW
      BY <1>4, <3>2, <3>5
    <3>. QED
      BY <3>1, <3>6 DEF NewestOf
  <2>. QED
    BY <2>1, <2>2
<1>. HIDE DEF games
<1>. QED
  BY <1>1, <1>7, <1>8, <1>9

(* Nor do the games of the ensemble, *)
LEMMA EnsembleIsClean ==
    ASSUME TrainingAssumption, GamesRead, NEW players, NEW held
    PROVE  LearntApart(held, PurgedGames(players \ held, held))
<1>. DEFINE learnt == PurgedGames(players \ held, held)
<1>1. /\ DOMAIN learnt = {q \in players \ held : ~(RowsOf(q) \subseteq Shared(held))}
      /\ \A p \in DOMAIN learnt : learnt[p] = RowsOf(p) \ Shared(held)
  BY DEF PurgedGames
<1>. HIDE DEF learnt
<1>2. ASSUME NEW p \in DOMAIN learnt, NEW m \in learnt[p]
      PROVE  Plays(p, m) /\ \A q \in held : ~Plays(q, m)
  BY <1>1, <1>2, SharedIsOut
<1>3. LearntApart(held, learnt)
  BY <1>1, <1>2 DEF LearntApart
<1>. QED
  BY <1>3 DEF learnt

(* nor those of the sequences. *)
LEMMA SequenceIsClean ==
    ASSUME TrainingAssumption, GamesRead, NEW players, NEW held
    PROVE  LearntApart(held, MirrorPurge(players \ held, held))
<1>. DEFINE learnt == MirrorPurge(players \ held, held)
            mine(p) == {m \in RowsOf(p) : ~\E r \in rows : r[1] = m /\ r[2] # p /\ r[2] \in held}
<1>1. /\ DOMAIN learnt = {q \in players \ held : mine(q) # {}}
      /\ \A p \in DOMAIN learnt : learnt[p] = mine(p)
  BY DEF MirrorPurge
<1>. HIDE DEF learnt
<1>2. ASSUME NEW p \in DOMAIN learnt, NEW m \in learnt[p], NEW q \in held
      PROVE  Plays(p, m) /\ ~Plays(q, m)
  <2>1. m \in mine(p) /\ p \notin held
    BY <1>1, <1>2
  <2>2. /\ Plays(p, m)
        /\ \A x : x \in RowsOf(q) <=> <<x, q>> \in rows
        /\ Plays(q, m) => m \in RowsOf(q)
    BY <2>1, RowsOfAre
  <2>3. ASSUME Plays(q, m) PROVE FALSE
    <3>1. <<m, q>> \in rows /\ q # p
      BY <1>2, <2>1, <2>2, <2>3
    <3>2. <<m, q>>[1] = m /\ <<m, q>>[2] = q
      OBVIOUS
    <3>. QED
      BY <1>2, <2>1, <3>1, <3>2
  <2>. QED
    BY <2>2, <2>3
<1>2a. ASSUME NEW p \in DOMAIN learnt, NEW m \in learnt[p] PROVE Plays(p, m)
  <2>1. m \in RowsOf(p)
    BY <1>1, <1>2a
  <2>. QED
    BY <2>1, RowsOfAre
<1>3. LearntApart(held, learnt)
  BY <1>1, <1>2, <1>2a DEF LearntApart
<1>. QED
  BY <1>3 DEF learnt

(* The groups of the audit are those of a root that rows of a player or of *)
(* a game share, and that no rows share which nothing links.               *)
Grouped(root) ==
    /\ root \in [rows -> rows]
    /\ LeakGroups(rows) = {{r \in rows : root[r] = g} : g \in {root[r] : r \in rows}}
    /\ \A r, x \in rows : r[1] = x[1] \/ r[2] = x[2] => root[r] = root[x]
    /\ \A T : Unlinked(T) => \A r \in T, x \in rows : root[r] = root[x] => x \in T

LEMMA GroupsAre ==
    ASSUME TrainingAssumption, GamesRead
    PROVE  \E root : Grouped(root)
<1>1. IsFiniteSet(rows)
  BY RowsAre
<1>2. PICK root \in [rows -> rows] :
         /\ LeakGroups(rows) = {{r \in rows : root[r] = g} : g \in {root[r] : r \in rows}}
         /\ RootsJoin(root, Linked(rows))
  BY <1>1, GroupsJoin
<1>3. ASSUME NEW r \in rows, NEW x \in rows, r[1] = x[1] \/ r[2] = x[2]
      PROVE  root[r] = root[x]
  <2>1. CASE r # x
    <3>1. <<r, x>> \in Linked(rows)
      BY <1>3, <2>1 DEF Linked
    <3>2. <<r, x>>[1] = r /\ <<r, x>>[2] = x
      OBVIOUS
    <3>. QED
      BY <1>2, <3>1, <3>2 DEF RootsJoin
  <2>. QED
    BY <2>1
<1>4. \A T : Unlinked(T) => \A r \in T, x \in rows : root[r] = root[x] => x \in T
  BY <1>2 DEF RootsJoin
<1>5. Grouped(root)
  BY ONLY <1>2, <1>3, <1>4 DEF Grouped
<1>. QED
  BY <1>5

(* Rows that share their root are in the same groups. *)
LEMMA SameGroup ==
    ASSUME NEW root, Grouped(root), NEW fold \in SUBSET LeakGroups(rows),
           NEW r \in rows, NEW x \in rows, root[r] = root[x], r \in UNION fold
    PROVE  x \in UNION fold
<1>1. PICK g \in fold : r \in g
  OBVIOUS
<1>2. PICK k \in {root[y] : y \in rows} : g = {y \in rows : root[y] = k}
  BY DEF Grouped
<1>3. x \in g
  BY <1>1, <1>2
<1>. QED
  BY <1>1, <1>3

(* No group could be split: a part that nothing links to the rest is all. *)
LEMMA GroupsAreFineHolds ==
    ASSUME TrainingAssumption, GamesRead, NEW g \in LeakGroups(rows), NEW s \in Parts(g)
    PROVE  \E r \in s, x \in g \ s : r[1] = x[1] \/ r[2] = x[2]
<1>1. PICK root : Grouped(root)
  BY GroupsAre
<1>2. PICK k \in {root[y] : y \in rows} : g = {y \in rows : root[y] = k}
  BY <1>1 DEF Grouped
<1>3. s \subseteq g /\ s # {} /\ s # g
  BY DEF Parts
<1>4. SUFFICES ASSUME \A r \in s, x \in g \ s : ~(r[1] = x[1] \/ r[2] = x[2]) PROVE FALSE
  OBVIOUS
<1>5. ASSUME NEW r \in s, NEW x \in rows, <<r, x>> \in Linked(rows) PROVE x \in s
  <2>1. r \in rows /\ (r[1] = x[1] \/ r[2] = x[2])
    BY <1>5 DEF Linked
  <2>2. root[r] = root[x]
    BY <1>1, <2>1 DEF Grouped
  <2>3. x \in g
    BY <1>2, <1>3, <2>2
  <2>. QED
    BY <1>4, <2>1, <2>3
<1>6. Unlinked(s)
  BY <1>2, <1>3, <1>5 DEF Unlinked
<1>7. PICK r \in s, x \in g : x \notin s
  BY <1>3
<1>8. r \in rows /\ x \in rows /\ root[r] = root[x]
  BY <1>2, <1>3, <1>7
<1>9. \A T : Unlinked(T) => \A u \in T, v \in rows : root[u] = root[v] => v \in T
  BY <1>1 DEF Grouped
<1>. QED
  BY <1>6, <1>7, <1>8, <1>9

(* A fold of groups leaves no row of its players or of its games. *)
LEMMA AuditIsClean ==
    ASSUME TrainingAssumption, GamesRead, NEW fold \in SUBSET LeakGroups(rows)
    PROVE  LET learnt == rows \ UNION fold
           IN  LearntApart(PlayersOf(UNION fold),
                     [p \in PlayersOf(learnt) |-> {m \in RowsOf(p) : <<m, p>> \in learnt}])
<1>. DEFINE learnt == rows \ UNION fold
            held == PlayersOf(UNION fold)
            table == [p \in PlayersOf(learnt) |-> {m \in RowsOf(p) : <<m, p>> \in learnt}]
<1>1. PICK root : Grouped(root)
  BY GroupsAre
<1>2. \A r, x \in rows : (r[1] = x[1] \/ r[2] = x[2]) /\ r \in UNION fold => x \in UNION fold
  <2>1. ASSUME NEW r \in rows, NEW x \in rows, r[1] = x[1] \/ r[2] = x[2], r \in UNION fold
        PROVE  x \in UNION fold
    <3>1. root[r] = root[x]
      BY <1>1, <2>1 DEF Grouped
    <3>. QED
      BY <1>1, <2>1, <3>1, SameGroup
  <2>. QED
    BY <2>1
<1>3. ASSUME NEW q \in held PROVE \E r \in rows : r \in UNION fold /\ r[2] = q
  <2>1. PICK r \in UNION fold : r[2] = q
    BY DEF PlayersOf
  <2>2. PICK g \in fold : r \in g
    BY <2>1
  <2>3. g \subseteq rows
    BY <1>1 DEF Grouped
  <2>. QED
    BY <2>1, <2>2, <2>3
<1>4. ASSUME NEW p \in DOMAIN table, p \in held PROVE FALSE
  <2>1. PICK r \in learnt : r[2] = p
    BY DEF PlayersOf
  <2>2. PICK x \in rows : x \in UNION fold /\ x[2] = p
    BY <1>3, <1>4
  <2>. QED
    BY <1>2, <2>1, <2>2
<1>5. ASSUME NEW p \in DOMAIN table, NEW m \in table[p]
      PROVE  Plays(p, m) /\ \A q \in held : ~Plays(q, m)
  <2>1. m \in RowsOf(p) /\ <<m, p>> \in learnt
    OBVIOUS
  <2>2. Plays(p, m) /\ \A q : Plays(q, m) => <<m, q>> \in rows
    BY <2>1, RowsOfAre
  <2>3. ASSUME NEW q \in held, Plays(q, m) PROVE FALSE
    <3>1. <<m, q>> \in rows
      BY <2>2, <2>3
    <3>2. PICK r \in rows : r \in UNION fold /\ r[2] = q
      BY <1>3
    <3>3. <<m, q>>[2] = r[2] /\ <<m, q>>[1] = <<m, p>>[1]
      BY <3>2
    <3>4. <<m, q>> \in UNION fold
      BY <1>2, <3>1, <3>2, <3>3
    <3>5. <<m, p>> \in UNION fold
      <4>1. <<m, p>> \in rows
        BY <2>1
      <4>. HIDE DEF learnt, held, table
      <4>. QED
        BY <1>2, <3>1, <3>3, <3>4, <4>1
    <3>. QED
      BY <2>1, <3>5
  <2>. QED
    BY <2>2, <2>3
<1>6. LearntApart(held, table)
  <2>. HIDE DEF held, table
  <2>. QED
    BY <1>4, <1>5 DEF LearntApart
<1>. QED
  BY <1>6

(* The windows of a capture have a provenance: none is without a game. *)
LEMMA ProvenanceIsFound ==
    ASSUME TrainingAssumption, GamesRead, snapshot.as_of \in Nat, Windows # << >>
    PROVE  Provenance(Windows) # None
<1>. DEFINE n == Len(history)
            upTo(p) == {m \in RowsOf(p) : m <= snapshot.as_of}
            players == DOMAIN Windows
            games(p) == Windows[p].games
<1>0. N_WINDOW \in Nat \ {0} /\ None \notin [rows : Nat, ages : SUBSET Int, oldest : Int]
  BY DEF TrainingAssumption
<1>1. /\ players = {p \in PlayersOf(rows) \cap DOMAIN snapshot.ranks : Cardinality(upTo(p)) >= N_WINDOW}
      /\ \A p \in players : games(p) = NewestOf(N_WINDOW, upTo(p)) /\ Windows[p].as_of = snapshot.as_of
  BY DEF Windows
<1>2. players # {}
  <2>1. ASSUME players = {} PROVE Windows = << >>
    BY <2>1 DEF Windows
  <2>. QED
    BY <2>1
<1>3. Cardinality(players) \in Nat
  <2>1. IsFiniteSet(rows)
    BY RowsAre
  <2>. DEFINE f == [r \in rows |-> r[2]]
  <2>2. f \in Surjection(rows, PlayersOf(rows))
    BY DEF Surjection, PlayersOf
  <2>. HIDE DEF f
  <2>3. IsFiniteSet(PlayersOf(rows))
    BY <2>1, <2>2, FS_Surjection
  <2>4. players \in SUBSET PlayersOf(rows)
    BY <1>1
  <2>. HIDE DEF players
  <2>. QED
    BY <2>3, <2>4, FS_Subset, FS_CardinalityType
<1>4. ASSUME NEW p \in players PROVE games(p) # {} /\ games(p) \subseteq 0..n /\ n \in Nat
  <2>1. RowsOf(p) \subseteq 1..n /\ n \in Nat
    BY RowsOfAre
  <2>2. upTo(p) \subseteq 0..n /\ Cardinality(upTo(p)) >= N_WINDOW
    BY <1>1, <2>1
  <2>. DEFINE U == upTo(p)
  <2>3. U # {}
    <3>1. Cardinality(U) >= N_WINDOW
      BY <2>2
    <3>. HIDE DEF U
    <3>2. U = {} => Cardinality(U) = 0
      BY FS_EmptySet
    <3>. QED
      BY <1>0, <3>1, <3>2
  <2>. HIDE DEF n
  <2>4. U \subseteq 0..n
    BY <2>2
  <2>5. games(p) = NewestOf(N_WINDOW, U)
    BY <1>1
  <2>. HIDE DEF U, games
  <2>6. Max(U) \in U /\ \A m \in U : m <= Max(U)
    BY <2>1, <2>3, <2>4, Extremes
  <2>7. {k \in U : k > Max(U)} = {}
    <3>1. ASSUME NEW k \in U, k > Max(U) PROVE FALSE
      <4>1. \A x \in 0..n : x \in Int
        BY <2>1
      <4>2. PICK x \in U : x = Max(U) /\ k <= x
        BY <2>6
      <4>3. k \in Int /\ x \in Int
        BY <2>4, <4>1
      <4>. QED
        BY <3>1, <4>2, <4>3
    <3>. QED
      BY <3>1
  <2>8. Max(U) \in NewestOf(N_WINDOW, U) /\ NewestOf(N_WINDOW, U) \subseteq U
    <3>1. Cardinality({k \in U : k > Max(U)}) < N_WINDOW
      <4>1. Cardinality({k \in U : k > Max(U)}) = 0
        BY <2>7, FS_EmptySet
      <4>. QED
        BY <1>0, <4>1
    <3>. QED
      BY <2>6, <3>1 DEF NewestOf
  <2>. QED
    BY <2>1, <2>4, <2>5, <2>8
<1>. HIDE DEF games, n
<1>5. ASSUME NEW p \in players PROVE Windows[p].as_of - Max(games(p)) \in Int
  <2>1. Max(games(p)) \in 0..n
    BY <1>4, Extremes
  <2>2. Windows[p].as_of \in Nat
    BY <1>1
  <2>. QED
    BY <1>4, <2>1, <2>2
<1>6. Min(UNION {games(p) : p \in players}) \in Int
  <2>. DEFINE all == UNION {games(p) : p \in players}
  <2>1. PICK p \in players : TRUE
    BY <1>2
  <2>2. n \in Nat /\ all # {} /\ all \subseteq 0..n
    BY <1>4, <2>1
  <2>. HIDE DEF all
  <2>3. Min(all) \in 0..n
    BY <2>2, Extremes
  <2>4. Min(all) \in Int
    BY <2>2, <2>3
  <2>. QED
    BY <2>4 DEF all
<1>7. Provenance(Windows) = [rows |-> Cardinality(players),
                             ages |-> {Windows[p].as_of - Max(games(p)) : p \in players},
                             oldest |-> Min(UNION {games(p) : p \in players})]
  BY DEF Provenance, games
<1>8. Provenance(Windows) \in [rows : Nat, ages : SUBSET Int, oldest : Int]
  <2>1. {Windows[p].as_of - Max(games(p)) : p \in players} \in SUBSET Int
    BY <1>5
  <2>. HIDE DEF players
  <2>. QED
    BY <1>3, <1>6, <1>7, <2>1
<1>. QED
  BY <1>0, <1>8

(* A table of the games read. *)
LEMMA BuildsGames ==
    ASSUME GamesRead, NEW unread \in SUBSET collected, rows' = Seats(collected \ unread),
           UNCHANGED <<history, day, collected>>
    PROVE  GamesRead'
<1>1. collected \ unread \in SUBSET (1..day)
  BY DEF GamesRead
<1>2. \A read : Seats(read)' = Seats(read)
  BY DEF Seats, Plays
<1>3. \E read \in SUBSET (1..day') : rows' = Seats(read)'
  BY <1>1, <1>2
<1>. QED
  BY <1>3 DEF GamesRead

(* The same table of the same games. *)
LEMMA KeepsGames ==
    ASSUME GamesRead, UNCHANGED <<history, day, collected, rows>>
    PROVE  GamesRead'
<1>2. \A read : Seats(read)' = Seats(read)
  BY DEF Seats, Plays
<1>. QED
  BY <1>2 DEF GamesRead

(* One more game, played or collected. *)
LEMMA MoreGames ==
    ASSUME TrainingAssumption, GamesRead, Play \/ Collect
    PROVE  GamesRead'
<1>0. UNCHANGED <<history, rows>>
  BY DEF Play, Collect, tables
<1>1. \A read : Seats(read)' = Seats(read)
  BY <1>0 DEF Seats, Plays
<1>2. Len(history) \in Nat
  BY DEF TrainingAssumption, GamesRead
<1>3. day' \in Nat /\ day' <= Len(history') /\ 1..day \subseteq 1..day'
  BY <1>0, <1>2 DEF Play, Collect, GamesRead
<1>4. collected' \subseteq 1..day'
  BY <1>3 DEF Play, Collect, GamesRead
<1>5. \E read \in SUBSET (1..day') : rows' = Seats(read)'
  BY <1>0, <1>1, <1>3 DEF GamesRead
<1>. QED
  BY <1>0, <1>3, <1>4, <1>5 DEF GamesRead

(* Nothing was played, nothing was built. *)
LEMMA TrainingInitStep ==
    ASSUME TrainingAssumption, TrainingInit
    PROVE  TrainingInv
<1>1. GamesRead
  <2>1. Len(history) \in Nat
    BY DEF TrainingAssumption, TrainingInit
  <2>2. Seats({}) = {}
    BY DEF Seats
  <2>. QED
    BY <2>1, <2>2 DEF GamesRead, TrainingInit
<1>2. DOMAIN windows = {}
  BY DEF TrainingInit
<1>3. RanksCaptured
  BY <1>2 DEF RanksCaptured, TrainingInit
<1>4. TrainingIsClean
  BY DEF TrainingIsClean, SidecarIsTheirs, TrainingInit
<1>. QED
  BY <1>1, <1>3, <1>4 DEF TrainingInv, TrainingInit

(* A training is looked at, and nothing else changes. *)
LEMMA LookStep ==
    ASSUME TrainingInv, AtRest, NEW kind, NEW held, NEW learnt, Look(kind, held, learnt),
           LearntApart(held, learnt),
           kind = "role" => \A p \in DOMAIN learnt :
              /\ Cardinality(learnt[p]) = N_WINDOW
              /\ \E c \in captures : c.as_of = windows[p].as_of /\ p \in DOMAIN c.ranks /\ c.ranks[p] = windows[p].tier
              /\ \A m \in learnt[p] : m <= windows[p].as_of
              /\ \A m \in RowsOf(p) : m > Min(learnt[p]) /\ m <= windows[p].as_of =>
                   m \in learnt[p] \/ \E q \in held : Plays(q, m)
    PROVE  TrainingInv'
<1>1. /\ training' = [kind |-> kind, held |-> held, learnt |-> learnt]
      /\ UNCHANGED <<history, day, collected, rows, snapshot, captures, windows, sidecar, building, torn>>
  BY DEF Look, tables
<1>2. training'.kind = kind /\ training'.held = held /\ training'.learnt = learnt
  BY <1>1
<1>3. /\ \A p, m : Plays(p, m)' = Plays(p, m)
      /\ \A p : RowsOf(p)' = RowsOf(p)
  BY <1>1 DEF Plays, RowsOf
<1>4. GamesRead' /\ TrainingAssumption
  BY <1>1, KeepsGames DEF TrainingInv
<1>5. RanksCaptured'
  BY <1>1 DEF TrainingInv, RanksCaptured
<1>6. NoGameOnBothSides'
  BY <1>2, <1>3 DEF NoGameOnBothSides, LearntApart
<1>7. WindowsAreFull'
  <2>1. CASE kind = "role"
    BY <1>1, <1>2, <1>3, <2>1 DEF WindowsAreFull
  <2>2. CASE kind # "role"
    BY <1>2, <2>2 DEF WindowsAreFull
  <2>. QED
    BY <2>1, <2>2
<1>8. GroupsAreFine'
  <2>1. LeakGroups(rows)' = LeakGroups(rows)
    BY <1>1
  <2>2. \A g \in LeakGroups(rows) : \A s \in Parts(g) : \E r \in s, x \in g \ s : r[1] = x[1] \/ r[2] = x[2]
    BY GroupsAreFineHolds DEF TrainingInv
  <2>. QED
    BY <2>1, <2>2 DEF GroupsAreFine
<1>9. SidecarIsTheirs'
  BY <1>1 DEF TrainingInv, TrainingIsClean, SidecarIsTheirs, Provenance
<1>10. building' = None
  BY <1>1 DEF AtRest
<1>. QED
  BY <1>4, <1>5, <1>6, <1>7, <1>8, <1>9, <1>10 DEF TrainingInv, TrainingIsClean, TrainingAssumption

(* Every step keeps the invariant. *)
LEMMA TrainingNextStep == TrainingInv /\ [TrainingNext]_trainingVars => TrainingInv'
<1> SUFFICES ASSUME TrainingInv, [TrainingNext]_trainingVars PROVE TrainingInv'
  OBVIOUS
<1>0. TrainingAssumption /\ TrainingAssumption' /\ GamesRead /\ RanksCaptured
  BY DEF TrainingInv, TrainingAssumption
<1>1. ASSUME Play \/ Collect PROVE TrainingInv'
  <2>1. GamesRead'
    BY <1>0, <1>1, MoreGames
  <2>2. /\ UNCHANGED <<snapshot, captures, windows, sidecar, building, torn, training>>
        /\ training = None /\ building = None
    BY <1>1 DEF Play, Collect, tables, AtRest
  <2>3. RanksCaptured' /\ SidecarIsTheirs'
    BY <2>2 DEF TrainingInv, TrainingIsClean, RanksCaptured, SidecarIsTheirs, Provenance
  <2>. QED
    BY <1>0, <2>1, <2>2, <2>3 DEF TrainingInv, TrainingIsClean
<1>2. CASE BuildRows
  <2>1. GamesRead'
    <3>1. PICK unread \in SUBSET collected : rows' = Seats(collected \ unread)
      BY <1>2 DEF BuildRows
    <3>2. UNCHANGED <<history, day, collected>>
      BY <1>2 DEF BuildRows, Spend
    <3>. QED
      BY <1>0, <3>1, <3>2, BuildsGames
  <2>2. /\ UNCHANGED <<snapshot, captures, windows, sidecar, building, torn, training>>
        /\ training = None /\ building = None
    BY <1>2 DEF BuildRows, Spend, AtRest
  <2>3. RanksCaptured' /\ SidecarIsTheirs'
    BY <2>2 DEF TrainingInv, TrainingIsClean, RanksCaptured, SidecarIsTheirs, Provenance
  <2>. QED
    BY <1>0, <2>1, <2>2, <2>3 DEF TrainingInv, TrainingIsClean
<1>3. CASE Capture
  <2>1. /\ UNCHANGED <<history, day, collected, rows, windows, sidecar, building, torn, training>>
        /\ training = None /\ building = None
    BY <1>3 DEF Capture, Spend, AtRest
  <2>2. GamesRead'
    BY <1>0, <2>1, KeepsGames
  <2>3. captures \subseteq captures' /\ snapshot' \in captures' /\ snapshot'.as_of = day
    BY <1>3 DEF Capture
  <2>4. RanksCaptured'
    BY <1>0, <2>1, <2>3 DEF RanksCaptured, GamesRead
  <2>5. SidecarIsTheirs'
    BY <2>1 DEF TrainingInv, TrainingIsClean, SidecarIsTheirs, Provenance
  <2>. QED
    BY <1>0, <2>1, <2>2, <2>4, <2>5 DEF TrainingInv, TrainingIsClean
<1>4. CASE WriteWindows
  <2>1. /\ UNCHANGED <<history, day, collected, rows, snapshot, captures, sidecar, torn, training>>
        /\ training = None /\ snapshot # None
        /\ windows' = Windows
        /\ building' = IF Windows = << >> THEN None ELSE Provenance(Windows)
    BY <1>4 DEF WriteWindows, Spend, AtRest
  <2>2. GamesRead'
    BY <1>0, <2>1, KeepsGames
  <2>3. snapshot \in captures /\ snapshot.as_of \in Nat
    BY <1>0, <2>1 DEF RanksCaptured
  <2>4. \A p \in DOMAIN Windows : /\ p \in DOMAIN snapshot.ranks
                                  /\ Windows[p].as_of = snapshot.as_of
                                  /\ Windows[p].tier = snapshot.ranks[p]
    BY DEF Windows
  <2>5. RanksCaptured'
    BY <2>1, <2>3, <2>4 DEF RanksCaptured
  <2>6. CASE Windows = << >>
    <3>1. windows' = << >> /\ building' = None
      BY <2>1, <2>6
    <3>2. SidecarIsTheirs'
      BY <3>1 DEF SidecarIsTheirs
    <3>. QED
      BY <1>0, <2>1, <2>2, <2>5, <3>1, <3>2 DEF TrainingInv, TrainingIsClean
  <2>7. CASE Windows # << >>
    <3>1. building' # None
      BY <1>0, <2>1, <2>3, <2>7, ProvenanceIsFound
    <3>2. building' = Provenance(Windows)
      BY <2>1, <2>7
    <3>3. Provenance(windows)' = Provenance(Windows)
      BY <2>1 DEF Provenance
    <3>4. SidecarIsTheirs'
      BY <3>1 DEF SidecarIsTheirs
    <3>. QED
      BY <1>0, <2>1, <2>2, <2>5, <3>2, <3>3, <3>4 DEF TrainingInv, TrainingIsClean
  <2>. QED
    BY <2>6, <2>7
<1>5. CASE WriteSidecar \/ BuildKilled
  <2>1. /\ UNCHANGED <<history, day, collected, rows, snapshot, captures, windows, training>>
        /\ building' = None
        /\ torn' \/ sidecar' = building
        /\ building = Provenance(windows) /\ training = None
    BY <1>5 DEF WriteSidecar, BuildKilled, TrainingInv
  <2>2. GamesRead'
    BY <1>0, <2>1, KeepsGames
  <2>3. RanksCaptured'
    BY <1>0, <2>1 DEF RanksCaptured
  <2>4. SidecarIsTheirs'
    BY <2>1 DEF SidecarIsTheirs, Provenance
  <2>. QED
    BY <1>0, <2>1, <2>2, <2>3, <2>4 DEF TrainingInv, TrainingIsClean
<1>6. CASE TrainRole
  <2>1. PICK sample \in Balanced : \E holdout \in HoldOuts(sample) :
          \E fold \in Parts(sample \ holdout) \cup {{}} :
            Look("role", holdout \cup fold, FixedWindows(sample \ (holdout \cup fold), holdout \cup fold))
    BY <1>6 DEF TrainRole
  <2>2. PICK held : Look("role", held, FixedWindows(sample \ held, held))
    BY <2>1
  <2>3. sample \in SUBSET DOMAIN windows
    BY <2>1 DEF Balanced, ClassOf, kSubset
  <2>4. LearntApart(held, FixedWindows(sample \ held, held))
    BY <1>0, RoleIsClean
  <2>5. AtRest
    BY <1>6 DEF TrainRole
  <2>6. \A p \in DOMAIN FixedWindows(sample \ held, held) :
          LET games == FixedWindows(sample \ held, held)[p]
          IN  /\ Cardinality(games) = N_WINDOW
              /\ \E c \in captures : c.as_of = windows[p].as_of /\ p \in DOMAIN c.ranks /\ c.ranks[p] = windows[p].tier
              /\ \A m \in games : m <= windows[p].as_of
              /\ \A m \in RowsOf(p) : m > Min(games) /\ m <= windows[p].as_of =>
                   m \in games \/ \E q \in held : Plays(q, m)
    BY <1>0, <2>3, RoleIsFull
  <2>. DEFINE learnt == FixedWindows(sample \ held, held)
  <2>. HIDE DEF learnt
  <2>7. Look("role", held, learnt) /\ LearntApart(held, learnt)
    BY <2>2, <2>4 DEF learnt
  <2>8. \A p \in DOMAIN learnt :
          /\ Cardinality(learnt[p]) = N_WINDOW
          /\ \E c \in captures : c.as_of = windows[p].as_of /\ p \in DOMAIN c.ranks /\ c.ranks[p] = windows[p].tier
          /\ \A m \in learnt[p] : m <= windows[p].as_of
          /\ \A m \in RowsOf(p) : m > Min(learnt[p]) /\ m <= windows[p].as_of =>
               m \in learnt[p] \/ \E q \in held : Plays(q, m)
    BY <2>6 DEF learnt
  <2>. QED
    BY <2>5, <2>7, <2>8, LookStep
<1>7. CASE TrainEnsemble
  <2>1. PICK players, held : Look("ensemble", held, PurgedGames(players \ held, held))
    BY <1>7 DEF TrainEnsemble
  <2>2. LearntApart(held, PurgedGames(players \ held, held)) /\ AtRest
    BY <1>0, <1>7, EnsembleIsClean DEF TrainEnsemble
  <2>. QED
    BY <2>1, <2>2, LookStep
<1>8. CASE TrainSequence
  <2>1. PICK held : Look("sequence", held, MirrorPurge(PlayersOf(rows) \ held, held))
    BY <1>8 DEF TrainSequence
  <2>2. LearntApart(held, MirrorPurge(PlayersOf(rows) \ held, held)) /\ AtRest
    BY <1>0, <1>8, SequenceIsClean DEF TrainSequence
  <2>. QED
    BY <2>1, <2>2, LookStep
<1>9. CASE AuditLeakage
  <2>. DEFINE learnt(fold) == [p \in PlayersOf(rows \ UNION fold) |->
                                 {m \in RowsOf(p) : <<m, p>> \in rows \ UNION fold}]
  <2>1. PICK fold \in Parts(LeakGroups(rows)) : Look("audit", PlayersOf(UNION fold), learnt(fold))
    BY <1>9 DEF AuditLeakage
  <2>2. fold \in SUBSET LeakGroups(rows)
    BY <2>1 DEF Parts
  <2>3. LearntApart(PlayersOf(UNION fold), learnt(fold)) /\ AtRest
    BY <1>0, <1>9, <2>2, AuditIsClean DEF AuditLeakage
  <2>. HIDE DEF learnt
  <2>. QED
    BY <2>1, <2>3, LookStep
<1>10. CASE UNCHANGED trainingVars
  <2>1. UNCHANGED <<history, day, collected, rows, snapshot, captures, windows, sidecar, building, torn, training>>
    BY <1>10 DEF trainingVars, tables
  <2>2. GamesRead'
    BY <1>0, <2>1, KeepsGames
  <2>3. RanksCaptured' /\ SidecarIsTheirs'
    BY <1>0, <2>1 DEF TrainingInv, TrainingIsClean, RanksCaptured, SidecarIsTheirs, Provenance
  <2>4. \A p, m : Plays(p, m)' = Plays(p, m)
    BY <2>1 DEF Plays
  <2>5. \A p : RowsOf(p)' = RowsOf(p)
    BY <2>1 DEF RowsOf
  <2>6. LeakGroups(rows)' = LeakGroups(rows)
    BY <2>1
  <2>7. training # None => NoGameOnBothSides' /\ WindowsAreFull' /\ GroupsAreFine'
    <3>1. NoGameOnBothSides' = NoGameOnBothSides
      BY <2>1, <2>4 DEF NoGameOnBothSides
    <3>2. WindowsAreFull' = WindowsAreFull
      BY <2>1, <2>4, <2>5 DEF WindowsAreFull
    <3>3. GroupsAreFine' = GroupsAreFine
      BY <2>1, <2>6 DEF GroupsAreFine
    <3>. QED
      BY <3>1, <3>2, <3>3 DEF TrainingInv, TrainingIsClean
  <2>8. training' # None => training # None
    BY <2>1
  <2>9. TrainingIsClean'
    BY <2>3, <2>7, <2>8 DEF TrainingIsClean
  <2>10. /\ building' # None => building' = Provenance(windows)'
         /\ training' # None => building' = None
    BY <2>1 DEF TrainingInv, Provenance
  <2>. QED
    BY <1>0, <2>2, <2>3, <2>9, <2>10 DEF TrainingInv
<1>. QED
  BY <1>1, <1>2, <1>3, <1>4, <1>5, <1>6, <1>7, <1>8, <1>9, <1>10 DEF TrainingNext

(* Whatever was played, collected, lost or rebuilt between the tables of a *)
(* role, and whatever is held back: nothing learnt is of a game that a     *)
(* scored player was in, the windows of a role are full and dated, the     *)
(* groups of the audit are no coarser than they must be, and the sidecar   *)
(* describes the table it lies beside.                                     *)
THEOREM TrainingIsCleanCorrect ==
    ASSUME TrainingAssumption
    PROVE  TrainingSpec => []TrainingIsClean
<1>1. TrainingInit => TrainingInv
  BY TrainingInitStep
<1>2. TrainingInv /\ [TrainingNext]_trainingVars => TrainingInv'
  BY TrainingNextStep
<1>3. TrainingInv => TrainingIsClean
  BY DEF TrainingInv
<1>. QED
  BY <1>1, <1>2, <1>3, PTL DEF TrainingSpec

-----------------------------------------------------------------------------
(* The commands of the owner. *)

(* The reviews of games. *)
GamesOf(lines) == {i \in DOMAIN lines : lines[i].kind = "game"}

(* The matches a review may be about. *)
RecordedMatches == {Records[i].match : i \in DOMAIN Records}

(* A command is named by the commands left when it began: as beginning     *)
(* takes one of them, no two commands have one name.                       *)
RunIds == UNION {[DOMAIN s.commands -> Nat] : s \in Sessions}

(* A command that began before. *)
Past(run, rest) == run # rest /\ run \in [DOMAIN rest -> Nat] /\ \A k \in DOMAIN rest : rest[k] <= run[k]

(* The scopes a session asks for. *)
ScopesGiven == UNION {s.scopes : s \in Sessions}

(* What an experiment may have to run: a baseline and a perturbation. *)
Pairs == Nat \X (1 .. Len(PERTURBATIONS))

(* The rows of the report of an experiment. *)
RunRows == [ts : Nat, match : RecordedMatches, name : Range(PERTURBATIONS),
            verdict : {"passed", "failed", "error", "skipped"}, base : Nat]

(* The jobs a terminal may run, by kind. *)
Batches == [kind : {"batch"}, scope : ScopesGiven, todo : Seq(RecordedMatches), match : RecordedMatches \cup {None},
            ts : Nat \cup {None}, seen : SUBSET Nat, owed : Seq(RecordedMatches), since : Nat, run : RunIds]

(* One game that is reviewed. *)
Single == [kind : {"game"}, scope : ScopesGiven, match : RecordedMatches, ts : Nat, since : Nat, run : RunIds]

(* A synthesis, about no game. *)
Syntheses == [kind : {"synthesis"}, scope : ScopesGiven, match : {None}, ts : Nat, since : Nat, run : RunIds]

(* The reviews that wait for an answer. *)
Annotations == [kind : {"annotate"}, todo : SUBSET Nat]

(* The runs that are done, and those to do. *)
Experiments == [kind : {"experiment"}, rows : Seq(RunRows), todo : SUBSET Pairs]

(* The rows read and the rows as they are now, with those to run again. *)
Retries == [kind : {"retry"}, rows : Seq(RunRows), read : Seq(RunRows), known : Nat, todo : SUBSET Nat]

(* A terminal runs one job or none. *)
Jobs == {Idle} \cup Batches \cup Single \cup Syntheses \cup Annotations \cup Experiments \cup Retries

(* The commands that write a review. *)
Writes(j) == j.kind \in {"batch", "game", "synthesis"}

(* The types of the variables. *)
CommandsTypes ==
    /\ session \in Sessions
    /\ clock \in Nat
    /\ reviews \in Seq(Range(reviews))
    /\ judged \in Seq(Answers \cup {None}) /\ Len(judged) = Len(reviews)
    /\ IsFiniteSet(DOMAIN failed)
    /\ report = None \/ report \in Seq(RunRows)
    /\ job \in [Commands -> Jobs]
    /\ left \in [DOMAIN session.commands -> Nat]

(* What the lines say of themselves. *)
LinesOk(lines, rest) ==
    \A i \in DOMAIN lines :
       /\ lines[i].ts \in Nat /\ lines[i].since \in Nat
       /\ Past(lines[i].run, rest)
       /\ lines[i].kind = "game" => lines[i].match \in RecordedMatches /\ lines[i].win = RecordOf(lines[i].match).win

(* One command does not stamp two reviews with one second.                 *)
OneStamp(lines) ==
    \A i, j \in DOMAIN lines : i # j /\ lines[i].run = lines[j].run => lines[i].ts # lines[j].ts

(* The games reviewed when a command read the lines. *)
Had(lines, since) == {lines[i].match : i \in GamesOf(lines) \cap 1 .. since}

(* The silver of a scope, and the time and the matches it tells. *)
RowsInScope(scope) == {r \in Range(Records) : InScope(r.role, scope)}

(* The time of a match of the scope. *)
AtOf(scope, m) == Max({r.at : r \in {x \in RowsInScope(scope) : x.match = m}})

(* The matches of a scope. *)
ScopedMatches(scope) == {r.match : r \in RowsInScope(scope)}

(* What a batch owes: the newest games of the scope that have no review. *)
Owes(owed, had, scope) ==
    /\ owed \subseteq ScopedMatches(scope) \ had
    /\ Cardinality(owed) = Min({BATCH, Cardinality(ScopedMatches(scope) \ had)})
    /\ \A m \in ScopedMatches(scope) \ (had \cup owed), n \in owed : AtOf(scope, m) <= AtOf(scope, n)

(* A batch has before it games it owes, each once, and the lines it wrote  *)
(* have seconds it saw and games it no longer has before it.               *)
BatchOk(j, lines) ==
    /\ j.since \in Nat /\ j.since <= Len(lines)
    /\ Owes(Range(j.owed), Had(lines, j.since), j.scope)
    /\ Range(j.todo) \subseteq Range(j.owed)
    /\ \A p, q \in DOMAIN j.todo : p # q => j.todo[p] # j.todo[q]
    /\ IsFiniteSet(j.seen)
    /\ j.match # None => j.match \in Range(j.owed) /\ j.match \notin Range(j.todo) /\ j.ts \in j.seen
    /\ \A i \in DOMAIN lines : lines[i].run = j.run =>
         /\ lines[i].ts \in j.seen /\ (j.match # None => lines[i].ts # j.ts)
         /\ lines[i].kind = "game" => lines[i].match # j.match /\ lines[i].match \notin Range(j.todo)

(* A row of a report has the second and the match of its baseline, and is  *)
(* an error only where its perturbation applies.                           *)
RowOk(row, lines) ==
    /\ row.base \in GamesOf(lines)
    /\ row.ts = lines[row.base].ts /\ row.match = lines[row.base].match
    /\ row.verdict = "error" => ~ (row.name = "no_opponent_spike" /\ row.match \notin Spiked)

(* All the rows of a report. *)
RowsOk(runs, lines) == \A k \in DOMAIN runs : RowOk(runs[k], lines)

(* A retry replaces the rows that failed, each by a row of that name and   *)
(* that match.                                                             *)
RetryOk(j, lines) ==
    /\ RowsOk(j.read, lines) /\ RowsOk(j.rows, lines)
    /\ Len(j.rows) = Len(j.read)
    /\ j.known \in Nat /\ j.known <= Len(lines)
    /\ j.todo \subseteq DOMAIN j.read
    /\ \A k \in DOMAIN j.read :
         LET before == j.read[k]  after == j.rows[k] IN
         /\ before.base <= j.known
         /\ k \in j.todo => before.verdict = "error"
         /\ before.verdict # "error" \/ k \in j.todo => after = before
         /\ after.ts = before.ts /\ after.name = before.name /\ after.match = before.match
         /\ after.verdict # "skipped" \/ before.verdict = "skipped"

(* What is true of the job of a terminal, given the lines and what is left. *)
JobOk(j, lines, rest) ==
    /\ Writes(j) => Past(j.run, rest)
    /\ j.kind = "batch" => BatchOk(j, lines)
    /\ j.kind \in {"game", "synthesis"} => \A i \in DOMAIN lines : lines[i].run # j.run
    /\ j.kind = "annotate" => j.todo \subseteq DOMAIN lines
    /\ j.kind = "experiment" => j.todo \subseteq GamesOf(lines) \X DOMAIN PERTURBATIONS /\ RowsOk(j.rows, lines)
    /\ j.kind = "retry" => RetryOk(j, lines)

(* Two commands stamped a review with this second. *)
TwinOf(i, lines) == \E j \in DOMAIN lines : lines[j].run # lines[i].run /\ lines[j].ts = lines[i].ts

(* What is answered is answered about a review, and the answers of a       *)
(* review are found under its second unless another command used it.       *)
Answered ==
    /\ \A t \in DOMAIN feedback : \E i \in DOMAIN reviews : reviews[i].ts = t /\ judged[i] # None
    /\ \A i \in DOMAIN reviews : judged[i] # None =>
         reviews[i].ts \in DOMAIN feedback /\ (~ TwinOf(i, reviews) => feedback[reviews[i].ts] = judged[i])

(* The jobs of the terminals: no two of them are the same command. *)
JobsOk(jobs, lines, rest) ==
    /\ \A c \in Commands : JobOk(jobs[c], lines, rest)
    /\ \A c, d \in Commands : c # d /\ Writes(jobs[c]) /\ Writes(jobs[d]) => jobs[c].run # jobs[d].run

(* The inductive invariant.  That a batch wrote each game once follows     *)
(* from what it still has before it; that an answer is about its review,   *)
(* from the seconds one command gives its lines; that a retry finds the    *)
(* baseline of a row, from what every row of the report says of its own.   *)
CommandsInv ==
    /\ CommandsTypes
    /\ LinesOk(reviews, left)
    /\ OneStamp(reviews)
    /\ ReviewedOnce
    /\ JobsOk(job, reviews, left)
    /\ report # None => RowsOk(report, reviews)
    /\ Answered

(* A finite set has a least element in a total order of it. *)
LEMMA LeastExists ==
    ASSUME NEW S, IsFiniteSet(S), S # {}, NEW R,
           \A x, y, z \in S : <<x, y>> \in R /\ <<y, z>> \in R => <<x, z>> \in R,
           \A x, y \in S : x # y => <<x, y>> \in R \/ <<y, x>> \in R
    PROVE  \E x \in S : \A y \in S \ {x} : <<x, y>> \in R
<1>. DEFINE Good == {T \in SUBSET S : T = {} \/ \E x \in T : \A y \in T \ {x} : <<x, y>> \in R}
<1>1. ASSUME NEW T \in SUBSET S, \A U \in SUBSET T : U # T => U \in Good PROVE T \in Good
  <2>1. CASE T = {}
    BY <2>1
  <2>2. CASE T # {}
    <3>1. PICK t \in T : TRUE
      BY <2>2
    <3>2. T \ {t} \in Good
      <4>1. T \ {t} \in SUBSET T /\ T \ {t} # T
        BY <3>1
      <4>. HIDE DEF Good
      <4>. QED
        BY <1>1, <4>1
    <3>3. CASE T \ {t} = {}
      <4>1. \A y \in T \ {t} : <<t, y>> \in R
        BY <3>3
      <4>. QED
        BY <3>1, <4>1
    <3>4. CASE T \ {t} # {}
      <4>1. PICK x \in T \ {t} : \A y \in (T \ {t}) \ {x} : <<x, y>> \in R
        BY <3>2, <3>4
      <4>2. CASE <<x, t>> \in R
        <5>1. \A y \in T \ {x} : <<x, y>> \in R
          BY <4>1, <4>2
        <5>. QED
          BY <4>1, <5>1
      <4>3. CASE <<t, x>> \in R
        <5>1. \A y \in T \ {t} : <<t, y>> \in R
          BY <3>1, <4>1, <4>3
        <5>. QED
          BY <3>1, <5>1
      <4>. QED
        BY <3>1, <4>1, <4>2, <4>3
    <3>. QED
      BY <3>3, <3>4
  <2>. QED
    BY <2>1, <2>2
<1>2. \A T \in SUBSET S : T \in Good
  <2>. HIDE DEF Good
  <2>. QED
    BY <1>1, SubsetInduction
<1>3. S \in Good
  BY <1>2
<1>. QED
  BY <1>3

(* Sets matched one to one have one size. *)
LEMMA OneToOne ==
    ASSUME NEW S, NEW T, IsFiniteSet(S), NEW f \in [S -> T],
           \A x, y \in S : x # y => f[x] # f[y], \A t \in T : \E x \in S : f[x] = t
    PROVE  IsFiniteSet(T) /\ Cardinality(T) = Cardinality(S)
<1>1. f \in Bijection(S, T)
  BY DEF Bijection, Injection, Surjection, IsInjective
<1>2. ExistsBijection(S, T)
  BY <1>1 DEF ExistsBijection
<1>. QED
  BY <1>2, FS_Bijection

(* How many come before an element of a finite total order tells its place,*)
(* and the first n of it are n, or all.                                    *)
Before(S, R, x) == {y \in S : <<y, x>> \in R}
LEMMA FirstOnes ==
    ASSUME NEW S, IsFiniteSet(S), NEW n \in Nat, NEW R,
           \A x \in S : <<x, x>> \notin R,
           \A x, y, z \in S : <<x, y>> \in R /\ <<y, z>> \in R => <<x, z>> \in R,
           \A x, y \in S : x # y => <<x, y>> \in R \/ <<y, x>> \in R
    PROVE  LET first == {x \in S : Cardinality(Before(S, R, x)) < n}
           IN  /\ IsFiniteSet(first)
               /\ n <= Cardinality(S) => Cardinality(first) = n
               /\ Cardinality(S) <= n => first = S
<1>. DEFINE k == Cardinality(S)
            rank == [x \in S |-> Cardinality(Before(S, R, x))]
            first == {x \in S : Cardinality(Before(S, R, x)) < n}
<1>1. k \in Nat
  BY FS_CardinalityType
<1>2. ASSUME NEW x \in S PROVE rank[x] \in 0 .. k - 1
  <2>1. Before(S, R, x) \subseteq S \ {x}
    BY DEF Before
  <2>2. IsFiniteSet(S \ {x}) /\ Cardinality(S \ {x}) = k - 1
    BY FS_RemoveElement
  <2>3. IsFiniteSet(Before(S, R, x)) /\ Cardinality(Before(S, R, x)) <= k - 1
    BY <2>1, <2>2, FS_Subset
  <2>4. Cardinality(Before(S, R, x)) \in Nat
    BY <2>3, FS_CardinalityType
  <2>. QED
    BY <1>1, <2>3, <2>4
<1>3. ASSUME NEW x \in S, NEW y \in S, <<x, y>> \in R PROVE rank[x] < rank[y]
  <2>1. Before(S, R, x) \subseteq Before(S, R, y) /\ x \in Before(S, R, y) /\ x \notin Before(S, R, x)
    BY <1>3 DEF Before
  <2>2. IsFiniteSet(Before(S, R, y))
    BY FS_Subset DEF Before
  <2>3. IsFiniteSet(Before(S, R, x)) /\ Cardinality(Before(S, R, x)) <= Cardinality(Before(S, R, y))
        /\ (Cardinality(Before(S, R, x)) = Cardinality(Before(S, R, y)) => Before(S, R, x) = Before(S, R, y))
    BY <2>1, <2>2, FS_Subset
  <2>4. rank[x] \in Nat /\ rank[y] \in Nat
    BY <1>1, <1>2
  <2>. QED
    BY <2>1, <2>3, <2>4
<1>4. \A x, y \in S : x # y => rank[x] # rank[y]
  <2>1. \A x \in S : rank[x] \in Int
    BY <1>1, <1>2
  <2>2. \A x, y \in S : <<x, y>> \in R => rank[x] < rank[y]
    BY <1>3
  <2>. HIDE DEF rank
  <2>3. ASSUME NEW x \in S, NEW y \in S, x # y PROVE rank[x] # rank[y]
    <3>1. <<x, y>> \in R \/ <<y, x>> \in R
      BY <2>3
    <3>2. rank[x] < rank[y] \/ rank[y] < rank[x]
      BY <3>1, <2>2
    <3>3. rank[x] \in Int /\ rank[y] \in Int
      BY <2>1
    <3>. QED
      BY <3>2, <3>3
  <2>. QED
    BY <2>3
<1>5. IsFiniteSet(0 .. k - 1) /\ Cardinality(0 .. k - 1) = k
  <2>1. 0 \in Int /\ k - 1 \in Int
    BY <1>1
  <2>2. IsFiniteSet(0 .. k - 1) /\ Cardinality(0 .. k - 1) = IF 0 > k - 1 THEN 0 ELSE k - 1 - 0 + 1
    BY <2>1, FS_Interval
  <2>. QED
    BY <1>1, <2>2
<1>6. \A i \in 0 .. k - 1 : \E x \in S : rank[x] = i
  <2>. DEFINE image == {rank[x] : x \in S}
  <2>1. rank \in [S -> image] /\ \A t \in image : \E x \in S : rank[x] = t
    OBVIOUS
  <2>2. IsFiniteSet(image) /\ Cardinality(image) = k
    <3>. HIDE DEF rank, image
    <3>. QED
      BY <1>4, <2>1, OneToOne
  <2>3. image \subseteq 0 .. k - 1
    BY <1>2
  <2>4. image = 0 .. k - 1
    <3>. HIDE DEF image
    <3>. QED
      BY <1>5, <2>2, <2>3, FS_Subset
  <2>. HIDE DEF rank
  <2>. QED
    BY <2>4
<1>7. IsFiniteSet(first)
  BY FS_Subset
<1>8. ASSUME k <= n PROVE first = S
  <2>1. \A x \in S : rank[x] < n
    <3>. HIDE DEF rank
    <3>. QED
      BY <1>1, <1>2, <1>8
  <2>. QED
    BY <2>1
<1>9. ASSUME n <= k PROVE Cardinality(first) = n
  <2>. DEFINE g == [x \in first |-> rank[x]]
  <2>1. \A x \in first : x \in S /\ rank[x] < n
    OBVIOUS
  <2>2. \A x \in S : rank[x] < n => x \in first
    OBVIOUS
  <2>3. Cardinality(0 .. n - 1) = Cardinality(first)
    <3>0. \A x \in S : rank[x] \in Nat
      BY <1>1, <1>2
    <3>. HIDE DEF rank, first
    <3>1. \A x \in first : g[x] \in 0 .. n - 1 /\ g[x] = rank[x]
      BY <2>1, <3>0
    <3>2. \A x, y \in first : x # y => g[x] # g[y]
      BY <2>1, <1>4, <3>1
    <3>3. \A i \in 0 .. n - 1 : \E x \in first : g[x] = i
      <4>1. ASSUME NEW i \in 0 .. n - 1 PROVE \E x \in first : g[x] = i
        <5>1. i \in 0 .. k - 1
          BY <1>1, <1>9
        <5>2. PICK x \in S : rank[x] = i
          BY <1>6, <5>1
        <5>3. rank[x] < n
          BY <5>2
        <5>. QED
          BY <2>2, <3>1, <5>2, <5>3
      <4>. QED
        BY <4>1
    <3>4. g \in [first -> 0 .. n - 1]
      BY <3>1
    <3>. HIDE DEF g
    <3>. QED
      BY <1>7, <3>2, <3>3, <3>4, OneToOne
  <2>5. Cardinality(0 .. n - 1) = n
    <3>1. 0 \in Int /\ n - 1 \in Int
      OBVIOUS
    <3>2. Cardinality(0 .. n - 1) = IF 0 > n - 1 THEN 0 ELSE n - 1 - 0 + 1
      BY <3>1, FS_Interval
    <3>. QED
      BY <3>2
  <2>. QED
    BY <2>3, <2>5
<1>. QED
  BY <1>7, <1>8, <1>9

(* Lines appended to a file. *)
Grown(lines, more) ==
    /\ Len(lines) \in Nat /\ DOMAIN lines = 1 .. Len(lines)
    /\ Len(more) \in Nat /\ DOMAIN more = 1 .. Len(more)
    /\ Len(lines) <= Len(more)
    /\ \A i \in DOMAIN lines : more[i] = lines[i]

(* A file a line is added to. *)
LEMMA AppendGrows ==
    ASSUME NEW S, NEW lines \in Seq(S), NEW line
    PROVE  LET more == Append(lines, line)
           IN  /\ Grown(lines, more) /\ Len(more) = Len(lines) + 1
               /\ DOMAIN more = DOMAIN lines \cup {Len(lines) + 1}
               /\ more[Len(lines) + 1] = line
               /\ more \in Seq(Range(more))
<1>. DEFINE T == S \cup {line}  more == Append(lines, line)
<1>1. lines \in Seq(T) /\ line \in T
  OBVIOUS
<1>2. Len(lines) \in Nat /\ DOMAIN lines = 1 .. Len(lines)
  OBVIOUS
<1>3. /\ more \in Seq(T) /\ Len(more) = Len(lines) + 1
      /\ \A i \in 1 .. Len(lines) : more[i] = lines[i]
      /\ more[Len(lines) + 1] = line
  BY <1>1
<1>4. DOMAIN more = 1 .. Len(lines) + 1
  BY <1>3
<1>5. more \in Seq(Range(more))
  <2>1. \A i \in 1 .. Len(more) : more[i] \in Range(more)
    BY <1>3, <1>4 DEF Range
  <2>. HIDE DEF more
  <2>. QED
    BY <1>3, <2>1
<1>. QED
  BY <1>2, <1>3, <1>4, <1>5 DEF Grown

(* The head of a sequence without repetitions is not in its tail. *)
LEMMA HeadAndTail ==
    ASSUME NEW S, NEW s \in Seq(S), s # <<>>, \A p, q \in DOMAIN s : p # q => s[p] # s[q]
    PROVE  /\ Head(s) \in S /\ Tail(s) \in Seq(S)
           /\ Head(s) \in Range(s) /\ Head(s) \notin Range(Tail(s))
           /\ Range(Tail(s)) \subseteq Range(s)
           /\ \A p, q \in DOMAIN Tail(s) : p # q => Tail(s)[p] # Tail(s)[q]
<1>1. Len(s) \in Nat /\ Len(s) > 0 /\ DOMAIN s = 1 .. Len(s) /\ Head(s) = s[1] /\ Head(s) \in S
  OBVIOUS
<1>2. Tail(s) \in Seq(S) /\ Len(Tail(s)) = Len(s) - 1 /\ DOMAIN Tail(s) = 1 .. Len(s) - 1
  OBVIOUS
<1>3. \A p \in DOMAIN Tail(s) : Tail(s)[p] = s[p + 1] /\ p + 1 \in DOMAIN s /\ p + 1 # 1
  BY <1>1, <1>2
<1>4. 1 \in DOMAIN s
  BY <1>1
<1>5. Head(s) \in Range(s) /\ Range(Tail(s)) \subseteq Range(s) /\ Head(s) \notin Range(Tail(s))
  BY <1>1, <1>3, <1>4 DEF Range
<1>6. \A p, q \in DOMAIN Tail(s) : p # q => Tail(s)[p] # Tail(s)[q]
  <2>1. \A p, q \in DOMAIN Tail(s) : p \in Nat /\ q \in Nat /\ (p # q => p + 1 # q + 1)
    BY <1>2
  <2>. QED
    BY <1>3, <2>1
<1>. QED
  BY <1>1, <1>2, <1>5, <1>6

(* The greatest and the least of finitely many integers. *)
LEMMA IntegerExtremes ==
    ASSUME NEW S, S \subseteq Int, IsFiniteSet(S), S # {}
    PROVE  /\ Max(S) \in S /\ \A m \in S : m <= Max(S)
           /\ Min(S) \in S /\ \A m \in S : Min(S) <= m
<1>. DEFINE R == {p \in S \X S : p[1] < p[2]}
            Q == {p \in S \X S : p[2] < p[1]}
<1>1. \A x, y \in S : x \in Int /\ y \in Int /\ (<<x, y>> \in R <=> x < y) /\ (<<x, y>> \in Q <=> y < x)
  OBVIOUS
<1>. HIDE DEF R, Q
<1>2. \E x \in S : \A y \in S \ {x} : <<x, y>> \in R
  <2>1. \A x, y, z \in S : <<x, y>> \in R /\ <<y, z>> \in R => <<x, z>> \in R
    BY <1>1
  <2>2. \A x, y \in S : x # y => <<x, y>> \in R \/ <<y, x>> \in R
    BY <1>1
  <2>. QED
    BY ONLY S # {}, IsFiniteSet(S), <2>1, <2>2, LeastExists, Zenon
<1>3. \E x \in S : \A y \in S \ {x} : <<x, y>> \in Q
  <2>1. \A x, y, z \in S : <<x, y>> \in Q /\ <<y, z>> \in Q => <<x, z>> \in Q
    BY <1>1
  <2>2. \A x, y \in S : x # y => <<x, y>> \in Q \/ <<y, x>> \in Q
    BY <1>1
  <2>. QED
    BY ONLY S # {}, IsFiniteSet(S), <2>1, <2>2, LeastExists, Zenon
<1>4. PICK x \in S : \A y \in S : x <= y
  <2>1. PICK x \in S : \A y \in S \ {x} : <<x, y>> \in R
    BY <1>2
  <2>2. \A y \in S : x = y \/ x < y
    BY <1>1, <2>1
  <2>. QED
    BY <1>1, <2>2
<1>5. PICK z \in S : \A y \in S : y <= z
  <2>1. PICK z \in S : \A y \in S \ {z} : <<z, y>> \in Q
    BY <1>3
  <2>2. \A y \in S : z = y \/ y < z
    BY <1>1, <2>1
  <2>. QED
    BY <1>1, <2>2
<1>6. Max(S) \in S /\ \A m \in S : Max(S) >= m
  BY <1>1, <1>5 DEF Max
<1>7. Min(S) \in S /\ \A m \in S : Min(S) <= m
  BY <1>1, <1>4 DEF Min
<1>. QED
  BY <1>1, <1>6, <1>7

-----------------------------------------------------------------------------
(* The sample of a synthesis. *)

(* The order in which a synthesis reads the reviews. *)
LaterPairs == {p \in (DOMAIN reviews) \X (DOMAIN reviews) : Later(p[1], p[2])}

(* The reviews of games are in a total order. *)
LEMMA LaterOrders ==
    ASSUME CommandsAssumption, Len(reviews) \in Nat, DOMAIN reviews = 1 .. Len(reviews), LinesOk(reviews, left)
    PROVE  /\ IsFiniteSet(Games)
           /\ \A i, j \in Games : <<i, j>> \in LaterPairs <=> Later(i, j)
           /\ \A i \in Games : <<i, i>> \notin LaterPairs
           /\ \A i, j, k \in Games : <<i, j>> \in LaterPairs /\ <<j, k>> \in LaterPairs => <<i, k>> \in LaterPairs
           /\ \A i, j \in Games : i # j => <<i, j>> \in LaterPairs \/ <<j, i>> \in LaterPairs
<1>0. \A i \in Games : i \in DOMAIN reviews /\ i \in Int /\ reviews[i].ts \in Int /\ reviews[i].match \in Int
  BY DEF Games, LinesOk, RecordedMatches, CommandsAssumption
<1>1. \A i, j \in Games : <<i, j>> \in LaterPairs <=> Later(i, j)
  <2>1. ASSUME NEW i \in Games, NEW j \in Games PROVE <<i, j>> \in LaterPairs <=> Later(i, j)
    <3>1. i \in DOMAIN reviews /\ j \in DOMAIN reviews
      BY <1>0, <2>1
    <3>2. <<i, j>> \in (DOMAIN reviews) \X (DOMAIN reviews)
      BY ONLY <3>1
    <3>3. <<i, j>>[1] = i /\ <<i, j>>[2] = j
      OBVIOUS
    <3>. QED
      BY <3>2, <3>3 DEF LaterPairs, Later
  <2>. QED
    BY <2>1
<1>2. IsFiniteSet(Games)
  <2>1. IsFiniteSet(1 .. Len(reviews)) /\ Games \subseteq 1 .. Len(reviews)
    BY FS_Interval DEF Games
  <2>. QED
    BY <2>1, FS_Subset
<1>3. \A i \in Games : ~ Later(i, i)
  BY <1>0 DEF Later
<1>4. \A i, j, k \in Games : Later(i, j) /\ Later(j, k) => Later(i, k)
  BY <1>0 DEF Later
<1>5. \A i, j \in Games : i # j => Later(i, j) \/ Later(j, i)
  BY <1>0 DEF Later
<1>. QED
  BY <1>1, <1>2, <1>3, <1>4, <1>5

(* The first ones of some reviews of games. *)
LEMMA TopOnes ==
    ASSUME CommandsAssumption, Len(reviews) \in Nat, DOMAIN reviews = 1 .. Len(reviews), LinesOk(reviews, left),
           NEW S, S \subseteq Games, NEW n \in Nat
    PROVE  /\ Top(n, S) \subseteq S /\ IsFiniteSet(S)
           /\ n <= Cardinality(S) => Cardinality(Top(n, S)) = n
           /\ Cardinality(S) <= n => Top(n, S) = S
<1>1. IsFiniteSet(S)
  BY LaterOrders, FS_Subset
<1>2. \A x \in S : Before(S, LaterPairs, x) = {j \in S : Later(j, x)}
  BY LaterOrders DEF Before
<1>3. Top(n, S) = {x \in S : Cardinality(Before(S, LaterPairs, x)) < n}
  BY <1>2 DEF Top
<1>4. /\ \A x \in S : <<x, x>> \notin LaterPairs
      /\ \A x, y, z \in S : <<x, y>> \in LaterPairs /\ <<y, z>> \in LaterPairs => <<x, z>> \in LaterPairs
      /\ \A x, y \in S : x # y => <<x, y>> \in LaterPairs \/ <<y, x>> \in LaterPairs
  BY LaterOrders
<1>. DEFINE first == {x \in S : Cardinality(Before(S, LaterPairs, x)) < n}
<1>5. (n <= Cardinality(S) => Cardinality(first) = n) /\ (Cardinality(S) <= n => first = S)
  BY <1>1, <1>4, FirstOnes
<1>. QED
  BY <1>1, <1>3, <1>5

(* A game has one latest review, and it tells the outcome of all.          *)
LEMMA LatestOnes ==
    ASSUME CommandsAssumption, Len(reviews) \in Nat, DOMAIN reviews = 1 .. Len(reviews), LinesOk(reviews, left),
           NEW scope
    PROVE  /\ LatestOfGame(scope) \subseteq Eligible(scope) /\ Eligible(scope) \subseteq Games
           /\ \A i \in Eligible(scope) : \E k \in LatestOfGame(scope) : reviews[k].match = reviews[i].match
           /\ \A i \in LatestOfGame(scope), j \in Eligible(scope) :
                i # j /\ reviews[j].match = reviews[i].match => j \notin LatestOfGame(scope) /\ reviews[j].ts <= reviews[i].ts
           /\ \A i, j \in Games : reviews[i].match = reviews[j].match => reviews[i].win = reviews[j].win
<1>. DEFINE E == Eligible(scope)  L == LatestOfGame(scope)
<1>1. E \subseteq Games /\ L \subseteq E
  BY DEF Eligible, LatestOfGame
<1>2. \A i \in E : i \in L <=> ~ \E j \in E : Later(j, i) /\ reviews[j].match = reviews[i].match
  BY DEF LatestOfGame
<1>3. \A i \in Games : reviews[i].ts \in Nat /\ reviews[i].win = RecordOf(reviews[i].match).win
  BY DEF Games, LinesOk
<1>. HIDE DEF E, L
<1>4. ASSUME NEW i \in E PROVE \E k \in L : reviews[k].match = reviews[i].match
  <2>. DEFINE S == {j \in E : reviews[j].match = reviews[i].match}
  <2>1. IsFiniteSet(S) /\ S # {} /\ S \subseteq Games
    <3>1. S \subseteq Games /\ i \in S
      BY <1>1
    <3>. QED
      BY <3>1, LaterOrders, FS_Subset
  <2>2. \E k \in S : \A y \in S \ {k} : <<k, y>> \in LaterPairs
    <3>. HIDE DEF S
    <3>1. /\ \A x, y, z \in S : <<x, y>> \in LaterPairs /\ <<y, z>> \in LaterPairs => <<x, z>> \in LaterPairs
          /\ \A x, y \in S : x # y => <<x, y>> \in LaterPairs \/ <<y, x>> \in LaterPairs
      BY <2>1, LaterOrders
    <3>. QED
      BY ONLY <2>1, <3>1, LeastExists
  <2>3. PICK k \in S : \A y \in S \ {k} : <<k, y>> \in LaterPairs
    BY <2>2
  <2>4. \A j \in S : ~ Later(j, k)
    <3>1. ASSUME NEW j \in S, Later(j, k) PROVE FALSE
      <4>1. j \in Games /\ k \in Games
        BY <2>1
      <4>2. <<j, k>> \in LaterPairs /\ <<j, j>> \notin LaterPairs /\ <<k, k>> \notin LaterPairs
        BY <3>1, <4>1, LaterOrders
      <4>3. j # k
        BY <4>2
      <4>4. <<k, j>> \in LaterPairs
        BY <2>3, <4>3
      <4>. QED
        BY <4>1, <4>2, <4>4, LaterOrders
    <3>. QED
      BY <3>1
  <2>5. k \in E /\ reviews[k].match = reviews[i].match
    OBVIOUS
  <2>6. k \in L
    BY <1>2, <2>4, <2>5
  <2>. QED
    BY <2>5, <2>6
<1>5. ASSUME NEW i \in L, NEW j \in E, i # j, reviews[j].match = reviews[i].match
      PROVE  j \notin L /\ reviews[j].ts <= reviews[i].ts
  <2>1. i \in Games /\ j \in Games /\ i \in E
    BY <1>1
  <2>2. ~ Later(j, i)
    BY <1>2, <1>5, <2>1
  <2>3. Later(i, j)
    BY <1>5, <2>1, <2>2, LaterOrders
  <2>4. reviews[j].ts <= reviews[i].ts
    BY <1>3, <2>1, <2>3 DEF Later
  <2>5. j \notin L
    BY <1>2, <1>5, <2>1, <2>3
  <2>. QED
    BY <2>4, <2>5
<1>6. \A i, j \in Games : reviews[i].match = reviews[j].match => reviews[i].win = reviews[j].win
  BY <1>3
<1>. QED
  BY <1>1, <1>4, <1>5, <1>6 DEF E, L

(* One outcome: as many latest reviews as games. *)
LEMMA OutcomeCounts ==
    ASSUME CommandsAssumption, Len(reviews) \in Nat, DOMAIN reviews = 1 .. Len(reviews), LinesOk(reviews, left),
           NEW scope, NEW win
    PROVE  LET of == {i \in LatestOfGame(scope) : reviews[i].win = win}
               games == {reviews[i].match : i \in {k \in Eligible(scope) : reviews[k].win = win}}
           IN  /\ IsFiniteSet(of) /\ Cardinality(of) \in Nat /\ Cardinality(games) = Cardinality(of)
               /\ (games = {} <=> of = {}) /\ (of # {} => Cardinality(of) >= 1)
<1>. DEFINE of == {i \in LatestOfGame(scope) : reviews[i].win = win}
            games == {reviews[i].match : i \in {k \in Eligible(scope) : reviews[k].win = win}}
            f == [i \in of |-> reviews[i].match]
<1>1. of \subseteq Games /\ of \subseteq LatestOfGame(scope) /\ of \subseteq Eligible(scope)
  BY LatestOnes
<1>2. IsFiniteSet(of)
  BY <1>1, LaterOrders, FS_Subset
<1>3. f \in [of -> games]
  BY <1>1
<1>4. \A t \in games : \E x \in of : f[x] = t
  <2>1. ASSUME NEW t \in games PROVE \E x \in of : f[x] = t
    <3>1. PICK i \in Eligible(scope) : reviews[i].win = win /\ reviews[i].match = t
      OBVIOUS
    <3>2. PICK k \in LatestOfGame(scope) : reviews[k].match = t
      BY <3>1, LatestOnes
    <3>3. reviews[k].win = win
      BY <3>1, <3>2, LatestOnes
    <3>4. k \in of
      BY <3>3
    <3>. QED
      BY <3>2, <3>4
  <2>. QED
    BY <2>1
<1>5. \A x, y \in of : x # y => f[x] # f[y]
  <2>1. \A x, y \in of : x # y => reviews[x].match # reviews[y].match
    BY <1>1, LatestOnes
  <2>. QED
    BY <2>1
<1>6. Cardinality(games) = Cardinality(of)
  <2>. HIDE DEF f, of, games
  <2>. QED
    BY <1>2, <1>3, <1>4, <1>5, OneToOne
<1>7. games = {} <=> of = {}
  <2>. HIDE DEF games, of
  <2>1. of # {} => games # {}
    BY <1>3
  <2>2. games # {} => of # {}
    BY <1>4
  <2>. QED
    BY <2>1, <2>2
<1>8. Cardinality(of) \in Nat /\ (of # {} => Cardinality(of) >= 1)
  <2>. HIDE DEF of
  <2>1. Cardinality(of) \in Nat /\ (Cardinality(of) = 0 <=> of = {})
    BY <1>2, FS_CardinalityType, FS_EmptySet
  <2>. QED
    BY <2>1
<1>. QED
  BY <1>2, <1>6, <1>7, <1>8

(* The least of three. *)
LEMMA LeastOfThree ==
    ASSUME NEW a \in Nat, NEW b \in Nat, NEW c \in Nat
    PROVE  Min({a, b, c}) \in Nat /\ Min({a, b, c}) <= a /\ Min({a, b, c}) <= b
<1>. DEFINE S == {a, b, c}
<1>1. IsFiniteSet({a}) /\ IsFiniteSet({b}) /\ IsFiniteSet({c})
  BY FS_Singleton
<1>2. IsFiniteSet({a} \cup {b})
  BY <1>1, FS_Union
<1>3. IsFiniteSet(({a} \cup {b}) \cup {c})
  BY <1>1, <1>2, FS_Union
<1>4. ({a} \cup {b}) \cup {c} = S
  OBVIOUS
<1>5. IsFiniteSet(S)
  BY <1>3, <1>4
<1>6. S \subseteq Int /\ S # {} /\ a \in S /\ b \in S /\ S \subseteq Nat
  OBVIOUS
<1>. HIDE DEF S
<1>7. Min(S) \in S /\ Min(S) <= a /\ Min(S) <= b
  BY <1>5, <1>6, IntegerExtremes
<1>. QED
  BY <1>6, <1>7 DEF S

(* The least of one and a size. *)
LEMMA LeastOfOne ==
    ASSUME NEW a \in Nat
    PROVE  Min({1, a}) = IF a = 0 THEN 0 ELSE 1
<1>1. \A m \in {1, a} : m \in Nat
  OBVIOUS
<1>2. CASE a = 0
  <2>1. 0 \in {1, a} /\ \A m \in {1, a} : 0 <= m
    BY <1>2
  <2>2. \A x \in {1, a} : (\A m \in {1, a} : x <= m) => x = 0
    BY <1>2
  <2>. QED
    BY <1>2, <2>1, <2>2 DEF Min
<1>3. CASE a # 0
  <2>1. 1 \in {1, a} /\ \A m \in {1, a} : 1 <= m
    BY <1>3
  <2>2. \A x \in {1, a} : (\A m \in {1, a} : x <= m) => x = 1
    BY <1>3
  <2>. QED
    BY <1>3, <2>1, <2>2 DEF Min
<1>. QED
  BY <1>2, <1>3

(* What a synthesis quotes, of any reviews (payload.py). *)
LEMMA SampleIsFairHolds ==
    ASSUME CommandsAssumption, Len(reviews) \in Nat, DOMAIN reviews = 1 .. Len(reviews), LinesOk(reviews, left)
    PROVE  SampleIsFair
<1>1. ASSUME NEW scope \in DOMAIN SCOPES
      PROVE  LET sample == GameReviewSample(scope)
                 causes == sample.causes
                 eligible == Eligible(scope)
                 games(win) == {reviews[i].match : i \in {k \in eligible : reviews[k].win = win}}
                 quoted(win) == {i \in causes : reviews[i].win = win}
                 both == games(TRUE) # {} /\ games(FALSE) # {}
             IN  /\ causes \subseteq eligible
                 /\ \A i \in causes, j \in eligible :
                      i # j /\ reviews[j].match = reviews[i].match => j \notin causes /\ reviews[j].ts <= reviews[i].ts
                 /\ sample.available = <<Cardinality(games(TRUE)), Cardinality(games(FALSE))>>
                 /\ IF both THEN \A win \in BOOLEAN : Cardinality(quoted(win)) =
                                   Min({MAX_PER_OUTCOME, Cardinality(games(TRUE)), Cardinality(games(FALSE))})
                    ELSE Cardinality(causes) = Min({1, Cardinality(eligible)})
  <2>. DEFINE sample == GameReviewSample(scope)
              eligible == Eligible(scope)
              L == LatestOfGame(scope)
              games(win) == {reviews[i].match : i \in {k \in eligible : reviews[k].win = win}}
              of(win) == {i \in L : reviews[i].win = win}
              a == Cardinality(of(TRUE))
              b == Cardinality(of(FALSE))
              each == Min({a, b, MAX_PER_OUTCOME})
              both == of(TRUE) # {} /\ of(FALSE) # {}
              quoted(win) == {i \in sample.causes : reviews[i].win = win}
  <2>1. /\ sample.available = <<a, b>>
        /\ sample.causes = IF both THEN Top(each, of(TRUE)) \cup Top(each, of(FALSE)) ELSE Top(1, L)
    BY DEF GameReviewSample
  <2>2. \A win : /\ IsFiniteSet(of(win)) /\ Cardinality(of(win)) \in Nat
                 /\ Cardinality(games(win)) = Cardinality(of(win))
                 /\ (games(win) = {} <=> of(win) = {}) /\ (of(win) # {} => Cardinality(of(win)) >= 1)
    BY OutcomeCounts
  <2>3. /\ L \subseteq eligible /\ eligible \subseteq Games
        /\ \A i \in eligible : \E k \in L : reviews[k].match = reviews[i].match
        /\ \A i \in L, j \in eligible :
             i # j /\ reviews[j].match = reviews[i].match => j \notin L /\ reviews[j].ts <= reviews[i].ts
    BY LatestOnes
  <2>4. \A win : of(win) \subseteq L /\ of(win) \subseteq Games /\ \A i \in of(win) : reviews[i].win = win
    BY <2>3
  <2>5. a \in Nat /\ b \in Nat /\ MAX_PER_OUTCOME \in Nat
    BY <2>2 DEF CommandsAssumption
  <2>6. each \in Nat /\ each <= a /\ each <= b
    <3>. HIDE DEF a, b
    <3>. QED
      BY <2>5, LeastOfThree
  <2>7. /\ Top(each, of(TRUE)) \subseteq of(TRUE) /\ Cardinality(Top(each, of(TRUE))) = each
        /\ Top(each, of(FALSE)) \subseteq of(FALSE) /\ Cardinality(Top(each, of(FALSE))) = each
    <3>. HIDE DEF each, of
    <3>. QED
      BY <2>4, <2>6, TopOnes
  <2>8. Top(1, L) \subseteq L /\ IsFiniteSet(L) /\ Cardinality(Top(1, L)) = Min({1, Cardinality(eligible)})
    <3>. HIDE DEF L, eligible
    <3>1. L \subseteq Games
      BY <2>3
    <3>2. /\ Top(1, L) \subseteq L /\ IsFiniteSet(L) /\ (1 <= Cardinality(L) => Cardinality(Top(1, L)) = 1)
          /\ (Cardinality(L) <= 1 => Top(1, L) = L)
      BY <3>1, TopOnes
    <3>3. IsFiniteSet(eligible)
      BY <2>3, LaterOrders, FS_Subset
    <3>4. /\ Cardinality(L) \in Nat /\ Cardinality(eligible) \in Nat
          /\ (Cardinality(L) = 0 <=> L = {}) /\ (Cardinality(eligible) = 0 <=> eligible = {})
      BY <3>2, <3>3, FS_CardinalityType, FS_EmptySet
    <3>5. L = {} <=> eligible = {}
      BY <2>3
    <3>6. Min({1, Cardinality(eligible)}) = IF Cardinality(eligible) = 0 THEN 0 ELSE 1
      BY <3>4, LeastOfOne
    <3>7. CASE L = {}
      <4>1. Cardinality(Top(1, L)) = 0
        BY <3>2, <3>4, <3>7
      <4>. QED
        BY <3>2, <3>4, <3>5, <3>6, <3>7, <4>1
    <3>8. CASE L # {}
      <4>1. 1 <= Cardinality(L)
        BY <3>4, <3>8
      <4>. QED
        BY <3>2, <3>4, <3>5, <3>6, <3>8, <4>1
    <3>. QED
      BY <3>7, <3>8
  <2>9. sample.causes \subseteq L
    BY <2>1, <2>4, <2>7, <2>8
  <2>10. sample.causes \subseteq eligible
    BY <2>3, <2>9
  <2>11. \A i \in sample.causes, j \in eligible :
           i # j /\ reviews[j].match = reviews[i].match => j \notin sample.causes /\ reviews[j].ts <= reviews[i].ts
    <3>. HIDE DEF sample, L, eligible
    <3>. QED
      BY <2>3, <2>9
  <2>12. sample.available = <<Cardinality(games(TRUE)), Cardinality(games(FALSE))>>
    <3>1. Cardinality(games(TRUE)) = a /\ Cardinality(games(FALSE)) = b
      BY <2>2
    <3>. HIDE DEF sample, games, a, b
    <3>. QED
      BY <2>1, <3>1
  <2>13. both <=> games(TRUE) # {} /\ games(FALSE) # {}
    <3>. HIDE DEF games, of
    <3>. QED
      BY <2>2
  <2>14. ASSUME both, NEW win \in BOOLEAN
         PROVE  Cardinality(quoted(win)) = Min({MAX_PER_OUTCOME, Cardinality(games(TRUE)), Cardinality(games(FALSE))})
    <3>1. {MAX_PER_OUTCOME, Cardinality(games(TRUE)), Cardinality(games(FALSE))} = {a, b, MAX_PER_OUTCOME}
      <4>1. Cardinality(games(TRUE)) = a /\ Cardinality(games(FALSE)) = b
        BY <2>2
      <4>. HIDE DEF a, b, games
      <4>. QED
        BY <4>1
    <3>2. sample.causes = Top(each, of(TRUE)) \cup Top(each, of(FALSE))
      BY <2>1, <2>14
    <3>3. quoted(win) = Top(each, of(win))
      <4>. DEFINE tt == Top(each, of(TRUE))  ff == Top(each, of(FALSE))
      <4>1. (\A i \in tt : reviews[i].win = TRUE) /\ (\A i \in ff : reviews[i].win = FALSE)
        BY <2>4, <2>7
      <4>2. sample.causes = tt \cup ff
        BY <3>2
      <4>. HIDE DEF tt, ff
      <4>3. CASE win = TRUE
        <5>1. quoted(TRUE) = tt
          BY <4>1, <4>2
        <5>. QED
          BY <4>3, <5>1 DEF tt
      <4>4. CASE win = FALSE
        <5>1. quoted(FALSE) = ff
          BY <4>1, <4>2
        <5>. QED
          BY <4>4, <5>1 DEF ff
      <4>. QED
        BY <4>3, <4>4
    <3>4. Cardinality(Top(each, of(win))) = each
      <4>. HIDE DEF each, of
      <4>. QED
        BY <2>7
    <3>. HIDE DEF quoted, games, of, a, b
    <3>. QED
      BY <3>1, <3>3, <3>4
  <2>15. ASSUME ~ both PROVE Cardinality(sample.causes) = Min({1, Cardinality(eligible)})
    BY <2>1, <2>8, <2>15
  <2>. HIDE DEF sample, eligible, games, both, quoted
  <2>16. IF games(TRUE) # {} /\ games(FALSE) # {}
         THEN \A win \in BOOLEAN : Cardinality(quoted(win)) =
                Min({MAX_PER_OUTCOME, Cardinality(games(TRUE)), Cardinality(games(FALSE))})
         ELSE Cardinality(sample.causes) = Min({1, Cardinality(eligible)})
    BY <2>13, <2>14, <2>15
  <2>. QED
    BY <2>10, <2>11, <2>12, <2>16 DEF sample, eligible, games, quoted
<1>. QED
  BY <1>1 DEF SampleIsFair

-----------------------------------------------------------------------------
(* Answers and reviews. *)

(* The reviews that were answered. *)
AnsweredOnes == {i \in DOMAIN reviews : judged[i] # None}

(* Where no two commands stamped one second, an answer is found under the  *)
(* timestamp of its review and of no other.                                *)
LEMMA AnswersAreFound ==
    ASSUME OneStamp(reviews), Answered, \A i \in AnsweredOnes : ~ Twin(i)
    PROVE  /\ \A i \in AnsweredOnes, j \in DOMAIN reviews : reviews[i].ts = reviews[j].ts => i = j
           /\ \A i \in AnsweredOnes : reviews[i].ts \in DOMAIN feedback /\ feedback[reviews[i].ts] = judged[i]
           /\ \A t \in DOMAIN feedback : \E i \in AnsweredOnes : reviews[i].ts = t
<1>1. \A i \in DOMAIN reviews : TwinOf(i, reviews) <=> Twin(i)
  BY DEF TwinOf, Twin
<1>2. ASSUME NEW i \in AnsweredOnes, NEW j \in DOMAIN reviews, reviews[i].ts = reviews[j].ts PROVE i = j
  <2>1. reviews[j].run = reviews[i].run
    BY <1>2 DEF Twin
  <2>. QED
    BY <1>2, <2>1 DEF OneStamp, AnsweredOnes
<1>3. \A i \in AnsweredOnes : reviews[i].ts \in DOMAIN feedback /\ feedback[reviews[i].ts] = judged[i]
  BY <1>1 DEF Answered, AnsweredOnes
<1>4. \A t \in DOMAIN feedback : \E i \in AnsweredOnes : reviews[i].ts = t
  BY DEF Answered, AnsweredOnes
<1>. QED
  BY <1>2, <1>3, <1>4

(* So the answers of some timestamps are those of their reviews. *)
LEMMA AnswersAreCounted ==
    ASSUME OneStamp(reviews), Answered, \A i \in AnsweredOnes : ~ Twin(i),
           IsFiniteSet(DOMAIN reviews), NEW A, A \subseteq AnsweredOnes, NEW ok
    PROVE  LET T == {reviews[i].ts : i \in A}
               field == Restrict(feedback, T)
           IN  /\ Cardinality(DOMAIN field) = Cardinality(A)
               /\ Items(field, "mistake", ok) =
                    Cardinality({i \in A : "mistake" \in DOMAIN judged[i] /\ judged[i]["mistake"] \in ok})
<1>. DEFINE T == {reviews[i].ts : i \in A}
            field == Restrict(feedback, T)
            f == [i \in A |-> reviews[i].ts]
            B == {i \in A : "mistake" \in DOMAIN judged[i] /\ judged[i]["mistake"] \in ok}
            g == [i \in B |-> reviews[i].ts]
            U == {t \in T : "mistake" \in DOMAIN field[t] /\ field[t]["mistake"] \in ok}
<1>1. A \subseteq DOMAIN reviews /\ B \subseteq A
  BY DEF AnsweredOnes
<1>2. IsFiniteSet(A) /\ IsFiniteSet(B)
  BY <1>1, FS_Subset
<1>3. DOMAIN field = T /\ \A t \in T : field[t] = feedback[t]
  BY DEF Restrict
<1>4. \A i \in A, j \in A : i # j => reviews[i].ts # reviews[j].ts
  BY <1>1, AnswersAreFound
<1>5. \A i \in A : reviews[i].ts \in T /\ field[reviews[i].ts] = judged[i]
  BY <1>3, AnswersAreFound
<1>6. Cardinality(T) = Cardinality(A)
  <2>1. f \in [A -> T] /\ (\A x, y \in A : x # y => f[x] # f[y]) /\ \A t \in T : \E x \in A : f[x] = t
    BY <1>4
  <2>. HIDE DEF f, T
  <2>. QED
    BY <1>2, <2>1, OneToOne
<1>7. Cardinality(U) = Cardinality(B)
  <2>0. \A i \in A : i \in B <=> "mistake" \in DOMAIN judged[i] /\ judged[i]["mistake"] \in ok
    OBVIOUS
  <2>1. \A t \in T : t \in U <=> "mistake" \in DOMAIN field[t] /\ field[t]["mistake"] \in ok
    OBVIOUS
  <2>1a. U \subseteq T
    OBVIOUS
  <2>2. \A t \in T : \E i \in A : reviews[i].ts = t
    OBVIOUS
  <2>. HIDE DEF T, U, B, field
  <2>3. \A i \in B : reviews[i].ts \in U
    BY <1>1, <1>5, <2>0, <2>1
  <2>4. \A t \in U : \E i \in B : reviews[i].ts = t
    <3>1. ASSUME NEW t \in U PROVE \E i \in B : reviews[i].ts = t
      <4>1. t \in T
        BY <2>1a
      <4>2. PICK i \in A : reviews[i].ts = t
        BY <2>2, <4>1
      <4>3. i \in B
        BY <1>5, <2>0, <2>1, <4>1, <4>2
      <4>. QED
        BY <4>2, <4>3
    <3>. QED
      BY <3>1
  <2>5. g \in [B -> U] /\ (\A x, y \in B : x # y => g[x] # g[y]) /\ \A t \in U : \E x \in B : g[x] = t
    BY <1>1, <1>4, <2>3, <2>4
  <2>. HIDE DEF g
  <2>. QED
    BY <1>2, <2>5, OneToOne
<1>8. Items(field, "mistake", ok) = Cardinality(U)
  <2>. HIDE DEF T
  <2>1. U = {t \in DOMAIN field : "mistake" \in DOMAIN field[t] /\ field[t]["mistake"] \in ok}
    BY <1>3
  <2>. HIDE DEF field, U
  <2>. QED
    BY <2>1 DEF Items
<1>. HIDE DEF U, B, T
<1>9. Cardinality(DOMAIN field) = Cardinality(A) /\ Items(field, "mistake", ok) = Cardinality(B)
  BY <1>3, <1>6, <1>7, <1>8
<1>. QED
  BY <1>9 DEF T, B, field

(* What is published of the answers (feedback.py). *)
LEMMA MetricIsTrueHolds ==
    ASSUME Len(reviews) \in Nat, DOMAIN reviews = 1 .. Len(reviews), OneStamp(reviews), Answered
    PROVE  MetricIsTrue
<1>. DEFINE answered == {i \in DOMAIN reviews : judged[i] # None}
            games == answered \cap Games
            said(S, ok) == {i \in S : "mistake" \in DOMAIN judged[i] /\ judged[i]["mistake"] \in ok}
<1>0. answered = AnsweredOnes
  BY DEF AnsweredOnes
<1>1. ASSUME NEW i \in DOMAIN reviews, ~ Twin(i) PROVE i \in answered <=> i \notin PendingReviews
  <2>1. i \in answered => reviews[i].ts \in DOMAIN feedback
    BY DEF Answered
  <2>2. ASSUME reviews[i].ts \in DOMAIN feedback PROVE i \in answered
    <3>1. PICK j \in DOMAIN reviews : reviews[j].ts = reviews[i].ts /\ judged[j] # None
      BY <2>2 DEF Answered
    <3>2. reviews[j].run = reviews[i].run
      BY <1>1, <3>1 DEF Twin
    <3>3. i = j
      BY <3>1, <3>2 DEF OneStamp
    <3>. QED
      BY <3>1, <3>3
  <2>. QED
    BY <2>1, <2>2 DEF PendingReviews
<1>2. ASSUME \A i \in answered : ~ Twin(i)
      PROVE  /\ Objective = [annotated |-> Cardinality(games), mistakes |-> Cardinality(said(games, BOOLEAN)),
                             useful |-> Cardinality(said(games, {TRUE}))]
             /\ \A category \in session.categories \cup {None} :
                  ByCategory(category) = Cardinality(said({i \in answered : reviews[i].category = category}, BOOLEAN))
  <2>1. IsFiniteSet(DOMAIN reviews)
    BY FS_Interval
  <2>2. \A i \in AnsweredOnes : ~ Twin(i)
    BY <1>0, <1>2
  <2>3. DOMAIN feedback \cap GameStamps = {reviews[i].ts : i \in games}
    <3>1. \A t \in DOMAIN feedback \cap GameStamps : \E i \in games : reviews[i].ts = t
      <4>1. ASSUME NEW t \in DOMAIN feedback, t \in GameStamps PROVE \E i \in games : reviews[i].ts = t
        <5>1. PICK i \in AnsweredOnes : reviews[i].ts = t
          BY <2>2, AnswersAreFound
        <5>2. PICK k \in Games : reviews[k].ts = t
          BY <4>1 DEF GameStamps
        <5>3. i = k
          BY <2>2, <5>1, <5>2, AnswersAreFound DEF Games
        <5>. QED
          BY <1>0, <5>1, <5>2, <5>3
      <4>. QED
        BY <4>1
    <3>2. \A i \in games : reviews[i].ts \in DOMAIN feedback \cap GameStamps
      BY <1>0, <2>2, AnswersAreFound DEF GameStamps
    <3>. QED
      BY <3>1, <3>2
  <2>4. Objective = [annotated |-> Cardinality(games), mistakes |-> Cardinality(said(games, BOOLEAN)),
                     useful |-> Cardinality(said(games, {TRUE}))]
    <3>. DEFINE mine == Restrict(feedback, {reviews[i].ts : i \in games})
    <3>1. games \subseteq AnsweredOnes
      BY <1>0
    <3>2. /\ Cardinality(DOMAIN mine) = Cardinality(games)
          /\ Items(mine, "mistake", BOOLEAN) = Cardinality(said(games, BOOLEAN))
          /\ Items(mine, "mistake", {TRUE}) = Cardinality(said(games, {TRUE}))
      <4>. HIDE DEF games
      <4>0. Cardinality(DOMAIN mine) = Cardinality(games)
        BY <2>1, <2>2, <3>1, AnswersAreCounted
      <4>1. ASSUME NEW ok PROVE Items(mine, "mistake", ok) = Cardinality(said(games, ok))
        BY <2>1, <2>2, <3>1, AnswersAreCounted
      <4>. HIDE DEF mine, said
      <4>. QED
        BY <4>0, <4>1
    <3>3. Objective = [annotated |-> Cardinality(DOMAIN mine), mistakes |-> Items(mine, "mistake", BOOLEAN),
                       useful |-> Items(mine, "mistake", {TRUE})]
      BY <2>3 DEF Objective
    <3>. HIDE DEF mine, games, said
    <3>. QED
      BY <3>2, <3>3
  <2>5. ASSUME NEW category
        PROVE  ByCategory(category) = Cardinality(said({i \in answered : reviews[i].category = category}, BOOLEAN))
    <3>. DEFINE A == {i \in answered : reviews[i].category = category}
    <3>1. A \subseteq AnsweredOnes
      BY <1>0
    <3>2. ASSUME NEW t \in DOMAIN feedback, NEW i \in AnsweredOnes, reviews[i].ts = t
          PROVE  CategoryOf(t) = reviews[i].category
      <4>1. {k \in DOMAIN reviews : reviews[k].ts = t} = {i}
        BY <2>2, <3>2, AnswersAreFound DEF AnsweredOnes
      <4>2. i \in Nat
        BY DEF AnsweredOnes
      <4>3. Max({i}) = i
        BY <4>2 DEF Max
      <4>. QED
        BY <4>1, <4>3 DEF CategoryOf
    <3>3. {t \in DOMAIN feedback : CategoryOf(t) = category} = {reviews[i].ts : i \in A}
      <4>1. ASSUME NEW t \in DOMAIN feedback, CategoryOf(t) = category PROVE \E i \in A : reviews[i].ts = t
        <5>1. PICK i \in AnsweredOnes : reviews[i].ts = t
          BY <2>2, AnswersAreFound
        <5>2. reviews[i].category = category
          BY <3>2, <4>1, <5>1
        <5>. QED
          BY <1>0, <5>1, <5>2
      <4>2. ASSUME NEW i \in A PROVE reviews[i].ts \in DOMAIN feedback /\ CategoryOf(reviews[i].ts) = category
        <5>1. i \in AnsweredOnes /\ reviews[i].category = category
          BY <1>0
        <5>2. reviews[i].ts \in DOMAIN feedback
          BY <2>2, <5>1, AnswersAreFound
        <5>. QED
          BY <3>2, <5>1, <5>2
      <4>. QED
        BY <4>1, <4>2
    <3>. DEFINE field == Restrict(feedback, {reviews[i].ts : i \in A})
    <3>4. ASSUME NEW ok PROVE Items(field, "mistake", ok) = Cardinality(said(A, ok))
      <4>. HIDE DEF A
      <4>. QED
        BY <2>1, <2>2, <3>1, AnswersAreCounted
    <3>5. ByCategory(category) = Items(field, "mistake", BOOLEAN)
      BY <3>3 DEF ByCategory
    <3>. HIDE DEF said, field, A
    <3>6. ByCategory(category) = Cardinality(said(A, BOOLEAN))
      BY <3>4, <3>5
    <3>. QED
      BY <3>6 DEF A
  <2>. QED
    BY <2>4, <2>5
<1>. QED
  BY <1>1, <1>2 DEF MetricIsTrue

-----------------------------------------------------------------------------
(* The games a batch takes. *)

(* The rows of a scope, by their place in the file. *)
ScopedRows(scope) == {i \in DOMAIN Records : InScope(Records[i].role, scope)}

(* The matches of some rows. *)
MatchesIn(s) == {Records[i].match : i \in s}

(* What a batch has taken of some rows, newest first: matches nobody       *)
(* reviewed, and all of them unless it is full of games as new.            *)
Reviewed == {reviews[i].match : i \in Games}
Taken(out, s) ==
    /\ out \in Seq(RecordedMatches) /\ Len(out) <= BATCH
    /\ \A p, q \in DOMAIN out : p # q => out[p] # out[q]
    /\ Range(out) \subseteq MatchesIn(s) \ Reviewed
    /\ \A m \in MatchesIn(s) \ (Reviewed \cup Range(out)) :
         Len(out) = BATCH /\ \A n \in Range(out) :
           \E i \in s : Records[i].match = n /\ \A k \in s : Records[k].match = m => Records[k].at <= Records[i].at

(* One more row that a batch takes or leaves. *)
Taking(m, out) == IF Takes(out, m) THEN Append(out, m) ELSE out

(* The rows of the silver are finitely many. *)
LEMMA RowsAreFinite ==
    ASSUME CommandsAssumption
    PROVE  /\ IsFiniteSet(DOMAIN Records)
           /\ \A i \in DOMAIN Records : i \in Int /\ Records[i].at \in Int /\ Records[i].match \in Int
<1>1. /\ Len(Records) \in Nat /\ DOMAIN Records = 1 .. Len(Records)
      /\ \A i \in DOMAIN Records : Records[i].at \in Int /\ Records[i].match \in Int
  BY DEF CommandsAssumption
<1>2. 1 \in Int /\ Len(Records) \in Int
  BY <1>1
<1>3. IsFiniteSet(1 .. Len(Records))
  BY <1>2, FS_Interval
<1>. QED
  BY <1>1, <1>3

(* The oldest of some rows is one of them, and no newer than the others. *)
LEMMA OldestIsOne ==
    ASSUME CommandsAssumption, NEW s, s \subseteq DOMAIN Records, s # {}
    PROVE  Oldest(s) \in s /\ \A j \in s : Records[Oldest(s)].at <= Records[j].at
<1>. DEFINE R == {p \in s \X s : Newer(p[2], p[1])}
<1>1. \A i \in s : i \in Int /\ Records[i].at \in Int
  BY RowsAreFinite
<1>2. IsFiniteSet(s)
  <2>1. s \subseteq DOMAIN Records
    OBVIOUS
  <2>. QED
    BY <2>1, RowsAreFinite, FS_Subset
<1>3. \A i, j \in s : <<i, j>> \in R <=> Newer(j, i)
  <2>1. ASSUME NEW i \in s, NEW j \in s PROVE <<i, j>> \in R <=> Newer(j, i)
    <3>1. <<i, j>>[1] = i /\ <<i, j>>[2] = j /\ <<i, j>> \in s \X s
      OBVIOUS
    <3>. QED
      BY <3>1 DEF Newer
  <2>. QED
    BY <2>1
<1>. HIDE DEF R
<1>4. \E i \in s : \A j \in s \ {i} : <<i, j>> \in R
  <2>1. \A x, y, z \in s : <<x, y>> \in R /\ <<y, z>> \in R => <<x, z>> \in R
    BY <1>1, <1>3 DEF Newer
  <2>2. \A x, y \in s : x # y => <<x, y>> \in R \/ <<y, x>> \in R
    BY <1>1, <1>3 DEF Newer
  <2>. QED
    BY ONLY s # {}, <1>2, <2>1, <2>2, LeastExists
<1>5. \E i \in s : \A j \in s \ {i} : Newer(j, i)
  BY <1>3, <1>4
<1>6. Oldest(s) \in s /\ \A j \in s \ {Oldest(s)} : Newer(j, Oldest(s))
  BY <1>5 DEF Oldest
<1>7. \A j \in s : j # Oldest(s) => Records[Oldest(s)].at <= Records[j].at
  BY <1>1, <1>6 DEF Newer
<1>. QED
  BY <1>1, <1>6, <1>7

(* One row more, older than the others. *)
LEMMA TakingOne ==
    ASSUME CommandsAssumption, NEW s, s \subseteq DOMAIN Records, NEW x \in s,
           \A j \in s : Records[x].at <= Records[j].at, NEW out, Taken(out, s \ {x})
    PROVE  Taken(Taking(Records[x].match, out), s)
<1>. DEFINE m == Records[x].match
            new == Taking(m, out)
            Best(n, l, t) == \E i \in t : Records[i].match = n /\ \A k \in t : Records[k].match = l => Records[k].at <= Records[i].at
<1>1. /\ out \in Seq(RecordedMatches) /\ Len(out) \in Nat /\ Len(out) <= BATCH /\ DOMAIN out = 1 .. Len(out)
      /\ \A p, q \in DOMAIN out : p # q => out[p] # out[q]
      /\ Range(out) \subseteq MatchesIn(s \ {x}) \ Reviewed
  <2>1. out \in Seq(RecordedMatches) /\ Len(out) <= BATCH
    BY DEF Taken
  <2>2. Len(out) \in Nat /\ DOMAIN out = 1 .. Len(out)
    BY <2>1
  <2>3. (\A p, q \in DOMAIN out : p # q => out[p] # out[q]) /\ Range(out) \subseteq MatchesIn(s \ {x}) \ Reviewed
    BY DEF Taken
  <2>. QED
    BY <2>1, <2>2, <2>3
<1>2. ASSUME NEW l \in MatchesIn(s \ {x}) \ (Reviewed \cup Range(out))
      PROVE  Len(out) = BATCH /\ \A n \in Range(out) : Best(n, l, s \ {x})
  BY DEF Taken
<1>3. MatchesIn(s) = MatchesIn(s \ {x}) \cup {m} /\ m \in RecordedMatches /\ BATCH \in Nat
      /\ \A j \in s : Records[j].at \in Int
  BY DEF MatchesIn, RecordedMatches, CommandsAssumption
<1>3a. Takes(out, m) <=> Len(out) < BATCH /\ m \notin Range(out) /\ m \notin Reviewed
  BY DEF Takes, Reviewed
<1>3b. Len(out) \in Nat /\ Len(out) <= BATCH /\ BATCH \in Nat
  BY <1>1, <1>3
<1>4. CASE Takes(out, m)
  <2>1. Len(out) < BATCH /\ m \notin Range(out) /\ m \notin Reviewed /\ new = Append(out, m)
    BY <1>3a, <1>4 DEF Taking
  <2>2. /\ new \in Seq(RecordedMatches) /\ Len(new) = Len(out) + 1 /\ DOMAIN new = 1 .. Len(out) + 1
        /\ \A p \in 1 .. Len(out) : new[p] = out[p]
        /\ new[Len(out) + 1] = m
    BY <1>1, <1>3, <2>1
  <2>3. Range(new) = Range(out) \cup {m}
    <3>1. \A p \in DOMAIN new : p \in DOMAIN out \/ p = Len(out) + 1
      BY <1>1, <2>2
    <3>2. \A p \in DOMAIN out : p \in DOMAIN new
      BY <1>1, <2>2
    <3>3. Len(out) + 1 \in DOMAIN new
      BY <1>1, <2>2
    <3>. HIDE DEF new, m
    <3>. QED
      BY <1>1, <2>2, <3>1, <3>2, <3>3 DEF Range
  <2>4. \A p, q \in DOMAIN new : p # q => new[p] # new[q]
    <3>1. \A p \in DOMAIN out : out[p] # m
      BY <2>1 DEF Range
    <3>2. \A p \in DOMAIN new : p \in DOMAIN out \/ p = Len(out) + 1
      BY <1>1, <2>2
    <3>. HIDE DEF new, m
    <3>. QED
      BY <1>1, <2>2, <3>1, <3>2
  <2>5. MatchesIn(s) \ (Reviewed \cup Range(new)) = {}
    <3>1. Len(out) # BATCH
      BY <1>3b, <2>1
    <3>2. MatchesIn(s \ {x}) \ (Reviewed \cup Range(out)) = {}
      BY <1>2, <3>1
    <3>3. MatchesIn(s) = MatchesIn(s \ {x}) \cup {m}
      BY <1>3
    <3>. HIDE DEF new, m
    <3>. QED
      BY ONLY <2>3, <3>2, <3>3
  <2>6. Len(new) <= BATCH
    BY <1>3b, <2>1, <2>2
  <2>7. Range(new) \subseteq MatchesIn(s) \ Reviewed
    <3>1. Range(out) \subseteq MatchesIn(s \ {x}) \ Reviewed /\ MatchesIn(s) = MatchesIn(s \ {x}) \cup {m} /\ m \notin Reviewed
      BY <1>1, <1>3, <2>1
    <3>. HIDE DEF new, m
    <3>. QED
      BY ONLY <2>3, <3>1
  <2>. QED
    BY <2>2, <2>4, <2>5, <2>6, <2>7 DEF Taken
<1>5. CASE ~ Takes(out, m)
  <2>1. new = out
    BY <1>5 DEF Taking
  <2>2. Range(out) \subseteq MatchesIn(s) \ Reviewed
    BY <1>1, <1>3
  <2>3. ASSUME NEW l \in MatchesIn(s) \ (Reviewed \cup Range(out))
        PROVE  Len(out) = BATCH /\ \A n \in Range(out) : \E i \in s :
                 Records[i].match = n /\ \A k \in s : Records[k].match = l => Records[k].at <= Records[i].at
    <3>1. Len(out) = BATCH
      <4>1. CASE l \in MatchesIn(s \ {x})
        BY <1>2, <2>3, <4>1
      <4>2. CASE l = m
        <5>1. l \notin Range(out) /\ l \notin Reviewed
          BY <2>3
        <5>2. ~ (Len(out) < BATCH)
          BY <1>3a, <1>5, <4>2, <5>1
        <5>. QED
          BY <1>3b, <5>2
      <4>. QED
        BY <1>3, <2>3, <4>1, <4>2
    <3>2. ASSUME NEW n \in Range(out)
          PROVE  \E i \in s : Records[i].match = n /\ \A k \in s : Records[k].match = l => Records[k].at <= Records[i].at
      <4>1. \E i \in s \ {x} : Records[i].match = n /\ \A k \in s \ {x} : Records[k].match = l => Records[k].at <= Records[i].at
        <5>1. CASE l \in MatchesIn(s \ {x})
          <6>1. l \in MatchesIn(s \ {x}) \ (Reviewed \cup Range(out))
            BY <2>3, <5>1
          <6>2. Best(n, l, s \ {x})
            <7>. HIDE DEF Best
            <7>. QED
              BY <1>2, <6>1
          <6>. QED
            BY <6>2
        <5>2. CASE l \notin MatchesIn(s \ {x})
          <6>1. n \in MatchesIn(s \ {x})
            BY <1>1
          <6>. QED
            BY <5>2, <6>1 DEF MatchesIn
        <5>. QED
          BY <5>1, <5>2
      <4>2. PICK i \in s \ {x} : Records[i].match = n /\ \A k \in s \ {x} : Records[k].match = l => Records[k].at <= Records[i].at
        BY <4>1
      <4>3. Records[x].at <= Records[i].at
        OBVIOUS
      <4>. QED
        BY <4>2, <4>3
    <3>. QED
      BY <3>1, <3>2
  <2>. QED
    BY <1>1, <2>1, <2>2, <2>3 DEF Taken
<1>. QED
  BY <1>4, <1>5

(* The fold of the rows of a scope takes them newest first. *)
LEMMA PendingIsTaken ==
    ASSUME CommandsAssumption, NEW scope
    PROVE  Taken(Pending(scope), ScopedRows(scope))
<1>. DEFINE S == ScopedRows(scope)
            V == Seq(RecordedMatches)
            Body(h) == [s \in SUBSET S |->
                          IF s = {} THEN <<>> ELSE Taking(Records[Oldest(s)].match, h[s \ {Oldest(s)}])]
            iter == CHOOSE h : h = Body(h)
            op == [p \in S \X V |-> Taking(Records[p[1]].match, p[2])]
            pick == [s \in SUBSET S |-> Oldest(s)]
<1>1. Pending(scope) = iter[S]
  BY DEF Pending, MapThenFoldSet, Taking, ScopedRows
<1>2. IsFiniteSet(S) /\ S \subseteq DOMAIN Records
  <2>1. S \subseteq DOMAIN Records
    BY DEF ScopedRows
  <2>. QED
    BY <2>1, RowsAreFinite, FS_Subset
<1>. HIDE DEF S
<1>3. \A s \in SUBSET S : s # {} => Oldest(s) \in s /\ \A j \in s : Records[Oldest(s)].at <= Records[j].at
  BY <1>2, OldestIsOne
<1>4. op \in [S \X V -> V] /\ <<>> \in V
  <2>1. ASSUME NEW x \in S, NEW out \in V PROVE Taking(Records[x].match, out) \in V
    <3>1. Records[x].match \in RecordedMatches
      BY <1>2 DEF RecordedMatches
    <3>. QED
      BY <3>1 DEF Taking
  <2>2. \A p \in S \X V : p[1] \in S /\ p[2] \in V
    OBVIOUS
  <2>. HIDE DEF V
  <2>3. op \in [S \X V -> V]
    BY <2>1, <2>2
  <2>. QED
    BY <2>3 DEF V
<1>5. \A s \in SUBSET S : s # {} => pick[s] \in s
  BY <1>3
<1>6. \E F : FoldsBy(F, S, V, <<>>, op, pick)
  <2>. HIDE DEF V, op, pick
  <2>. QED
    BY <1>2, <1>4, <1>5, FoldExists
<1>7. PICK F : FoldsBy(F, S, V, <<>>, op, pick)
  BY <1>6
<1>8. F = Body(F)
  <2>1. ASSUME NEW s \in SUBSET S PROVE F[s] = Body(F)[s]
    <3>1. F[s] = IF s = {} THEN <<>> ELSE op[<<pick[s], F[s \ {pick[s]}]>>]
      <4>. HIDE DEF V, op, pick
      <4>. QED
        BY <1>7 DEF FoldsBy
    <3>2. s # {} => pick[s] \in S /\ F[s \ {pick[s]}] \in V
      <4>1. s # {} => pick[s] \in S
        BY <1>5
      <4>. HIDE DEF V, op, pick
      <4>. QED
        BY <1>7, <4>1 DEF FoldsBy
    <3>3. s # {} => op[<<pick[s], F[s \ {pick[s]}]>>] = Taking(Records[pick[s]].match, F[s \ {pick[s]}])
      <4>. HIDE DEF V, pick
      <4>. QED
        BY <3>2
    <3>4. pick[s] = Oldest(s)
      OBVIOUS
    <3>. HIDE DEF V, op, pick
    <3>. QED
      BY <3>1, <3>3, <3>4
  <2>2. F = [s \in SUBSET S |-> F[s]]
    <3>. HIDE DEF V, op, pick
    <3>. QED
      BY <1>7 DEF FoldsBy
  <2>. HIDE DEF V, op, pick
  <2>. QED
    BY <2>1, <2>2
<1>9. iter = Body(iter)
  <2>. HIDE DEF Body
  <2>. QED
    BY <1>8
<1>. HIDE DEF iter
<1>. DEFINE Good == {s \in SUBSET S : Taken(iter[s], s)}
<1>10. ASSUME NEW s \in SUBSET S, \A r \in SUBSET s : r # s => r \in Good PROVE s \in Good
  <2>0. iter[s] = Body(iter)[s]
    BY <1>9
  <2>1. CASE s = {}
    <3>1. iter[s] = <<>>
      BY <2>0, <2>1
    <3>2. Taken(<<>>, {})
      BY DEF Taken, MatchesIn, Range, CommandsAssumption
    <3>. QED
      BY <2>1, <3>1, <3>2
  <2>2. CASE s # {}
    <3>. DEFINE x == Oldest(s)
    <3>1. x \in s /\ \A j \in s : Records[x].at <= Records[j].at
      BY <1>3, <2>2
    <3>2. iter[s] = Taking(Records[x].match, iter[s \ {x}])
      BY <2>0, <2>2
    <3>. HIDE DEF x
    <3>3. s \ {x} \in Good
      BY <1>10, <3>1
    <3>4. Taken(iter[s \ {x}], s \ {x})
      BY <3>3
    <3>5. s \subseteq DOMAIN Records
      BY <1>2
    <3>6. Taken(iter[s], s)
      BY <3>1, <3>2, <3>4, <3>5, TakingOne
    <3>. QED
      BY <3>6
  <2>. QED
    BY <2>1, <2>2
<1>11. S \in Good
  <2>1. \A s \in SUBSET S : s \in Good
    <3>. HIDE DEF Good
    <3>. QED
      BY <1>2, <1>10, SubsetInduction
  <2>. QED
    BY <2>1
<1>. QED
  BY <1>1, <1>11 DEF S

(* The newest row of a match of the scope. *)
LEMMA NewestRow ==
    ASSUME CommandsAssumption, NEW scope, NEW m \in MatchesIn(ScopedRows(scope))
    PROVE  /\ \E i \in ScopedRows(scope) : Records[i].match = m /\ Records[i].at = AtOf(scope, m)
           /\ \A i \in ScopedRows(scope) : Records[i].match = m => Records[i].at <= AtOf(scope, m)
<1>. DEFINE S == {i \in ScopedRows(scope) : Records[i].match = m}
            T == {r.at : r \in {x \in RowsInScope(scope) : x.match = m}}
            f == [i \in S |-> Records[i].at]
<1>1. IsFiniteSet(S)
  <2>1. S \subseteq DOMAIN Records
    BY DEF ScopedRows
  <2>. QED
    BY <2>1, RowsAreFinite, FS_Subset
<1>2. \A t \in T : \E i \in S : Records[i].at = t
  <2>1. ASSUME NEW t \in T PROVE \E i \in S : Records[i].at = t
    <3>1. PICK r \in RowsInScope(scope) : r.match = m /\ r.at = t
      OBVIOUS
    <3>2. PICK i \in DOMAIN Records : Records[i] = r
      BY DEF RowsInScope, Range
    <3>3. i \in S
      BY <3>1, <3>2 DEF RowsInScope, ScopedRows
    <3>. QED
      BY <3>1, <3>2, <3>3
  <2>. QED
    BY <2>1
<1>3. \A i \in S : Records[i].at \in T /\ Records[i].at \in Int /\ i \in ScopedRows(scope) /\ Records[i].match = m
  <2>1. ASSUME NEW i \in S PROVE Records[i].at \in T /\ Records[i].at \in Int
    <3>1. i \in DOMAIN Records /\ InScope(Records[i].role, scope) /\ Records[i].match = m
      BY DEF ScopedRows
    <3>2. Records[i] \in RowsInScope(scope)
      BY <3>1 DEF RowsInScope, Range
    <3>. QED
      BY <3>1, <3>2 DEF CommandsAssumption
  <2>. QED
    BY <2>1
<1>4. IsFiniteSet(T)
  <2>1. f \in Surjection(S, T)
    <3>1. f \in [S -> T] /\ \A t \in T : \E i \in S : f[i] = t
      BY <1>2, <1>3
    <3>. HIDE DEF f, S, T
    <3>. QED
      BY <3>1 DEF Surjection
  <2>. HIDE DEF f, S, T
  <2>. QED
    BY <1>1, <2>1, FS_Surjection
<1>5. T \subseteq Int /\ T # {}
  <2>1. \E i \in S : TRUE
    BY DEF MatchesIn
  <2>. HIDE DEF T, S
  <2>. QED
    BY <1>2, <1>3, <2>1
<1>6. AtOf(scope, m) \in T /\ \A t \in T : t <= AtOf(scope, m)
  <2>1. AtOf(scope, m) = Max(T)
    BY DEF AtOf
  <2>. HIDE DEF T
  <2>. QED
    BY <1>4, <1>5, <2>1, IntegerExtremes
<1>7. \A i \in ScopedRows(scope) : Records[i].match = m => i \in S
  OBVIOUS
<1>. HIDE DEF S, T
<1>. QED
  BY <1>2, <1>3, <1>6, <1>7

(* The matches of a scope, by rows and by places. *)
LEMMA ScopedMatchesAre ==
    ASSUME NEW scope
    PROVE  ScopedMatches(scope) = MatchesIn(ScopedRows(scope))
<1>1. \A r \in RowsInScope(scope) : r.match \in MatchesIn(ScopedRows(scope))
  BY DEF RowsInScope, MatchesIn, ScopedRows, Range
<1>2. \A i \in ScopedRows(scope) : Records[i] \in RowsInScope(scope)
  BY DEF RowsInScope, ScopedRows, Range
<1>. QED
  BY <1>1, <1>2 DEF ScopedMatches, MatchesIn

(* What is pending is what a batch owes. *)
LEMMA PendingIsOwed ==
    ASSUME CommandsAssumption, NEW scope
    PROVE  /\ Pending(scope) \in Seq(RecordedMatches)
           /\ \A p, q \in DOMAIN Pending(scope) : p # q => Pending(scope)[p] # Pending(scope)[q]
           /\ Owes(Range(Pending(scope)), Reviewed, scope)
<1>. DEFINE out == Pending(scope)
            M == MatchesIn(ScopedRows(scope))
            owed == Range(out)
<1>1. Taken(out, ScopedRows(scope))
  BY PendingIsTaken
<1>. HIDE DEF out
<1>2. out \in Seq(RecordedMatches) /\ Len(out) <= BATCH /\ \A p, q \in DOMAIN out : p # q => out[p] # out[q]
  BY <1>1 DEF Taken
<1>3. owed \subseteq M \ Reviewed
  BY <1>1 DEF Taken
<1>4. ASSUME NEW m \in M \ (Reviewed \cup owed)
      PROVE  /\ Len(out) = BATCH
             /\ \A n \in owed : \E i \in ScopedRows(scope) : Records[i].match = n /\
                  \A k \in ScopedRows(scope) : Records[k].match = m => Records[k].at <= Records[i].at
  BY <1>1 DEF Taken
<1>5. IsFiniteSet(M)
  <2>. DEFINE f == [i \in ScopedRows(scope) |-> Records[i].match]
  <2>1. IsFiniteSet(ScopedRows(scope))
    <3>1. ScopedRows(scope) \subseteq DOMAIN Records
      BY DEF ScopedRows
    <3>. QED
      BY <3>1, RowsAreFinite, FS_Subset
  <2>2. f \in Surjection(ScopedRows(scope), M)
    BY DEF Surjection, MatchesIn
  <2>. HIDE DEF f, M
  <2>. QED
    BY <2>1, <2>2, FS_Surjection
<1>6. IsFiniteSet(M \ Reviewed)
  BY <1>5, FS_Subset
<1>7. Cardinality(owed) = Len(out) /\ IsFiniteSet(owed)
  <2>. DEFINE f == [p \in 1 .. Len(out) |-> out[p]]
  <2>1. Len(out) \in Nat /\ DOMAIN out = 1 .. Len(out)
    BY <1>2
  <2>2. f \in [1 .. Len(out) -> owed] /\ (\A p, q \in 1 .. Len(out) : p # q => f[p] # f[q])
        /\ \A t \in owed : \E p \in 1 .. Len(out) : f[p] = t
    BY <1>2, <2>1 DEF Range
  <2>3. IsFiniteSet(1 .. Len(out)) /\ Cardinality(1 .. Len(out)) = Len(out)
    <3>1. 1 \in Int /\ Len(out) \in Int
      BY <2>1
    <3>2. IsFiniteSet(1 .. Len(out)) /\ Cardinality(1 .. Len(out)) = IF 1 > Len(out) THEN 0 ELSE Len(out) - 1 + 1
      BY <3>1, FS_Interval
    <3>. QED
      BY <2>1, <3>2
  <2>. HIDE DEF f, owed
  <2>. QED
    BY <2>2, <2>3, OneToOne
<1>8. Cardinality(owed) = Min({BATCH, Cardinality(M \ Reviewed)})
  <2>. DEFINE a == Cardinality(M \ Reviewed)
  <2>1. a \in Nat /\ BATCH \in Nat /\ Len(out) \in Nat
    BY <1>2, <1>6, FS_CardinalityType DEF CommandsAssumption
  <2>2. Cardinality(owed) <= a
    BY <1>3, <1>6, FS_Subset
  <2>3. Len(out) = BATCH \/ Len(out) = a
    <3>1. CASE M \ Reviewed = owed
      BY <1>7, <3>1
    <3>2. CASE M \ Reviewed # owed
      <4>1. \E m : m \in M \ (Reviewed \cup owed)
        BY <1>3, <3>2
      <4>. QED
        BY <1>4, <4>1
    <3>. QED
      BY <3>1, <3>2
  <2>4. Len(out) <= a /\ Len(out) <= BATCH
    BY <1>2, <1>7, <2>2
  <2>. HIDE DEF a
  <2>5. Min({BATCH, a}) = Len(out)
    <3>1. Len(out) \in {BATCH, a} /\ \A m \in {BATCH, a} : Len(out) <= m
      BY <2>3, <2>4
    <3>2. \A x \in {BATCH, a} : (\A m \in {BATCH, a} : x <= m) => x = Len(out)
      BY <2>1, <2>3, <2>4
    <3>. QED
      BY <3>1, <3>2 DEF Min
  <2>. QED
    BY <1>7, <2>5 DEF a
<1>9. ASSUME NEW m \in M \ (Reviewed \cup owed), NEW n \in owed PROVE AtOf(scope, m) <= AtOf(scope, n)
  <2>1. PICK i \in ScopedRows(scope) : Records[i].match = n /\
                  \A k \in ScopedRows(scope) : Records[k].match = m => Records[k].at <= Records[i].at
    BY <1>4
  <2>2. PICK k \in ScopedRows(scope) : Records[k].match = m /\ Records[k].at = AtOf(scope, m)
    BY NewestRow
  <2>3. n \in M
    BY <1>3
  <2>4. Records[i].at <= AtOf(scope, n) /\ \E l \in ScopedRows(scope) : Records[l].at = AtOf(scope, n)
    BY <2>1, <2>3, NewestRow
  <2>5. \A l \in ScopedRows(scope) : Records[l].at \in Int
    BY DEF ScopedRows, CommandsAssumption
  <2>6. Records[k].at <= Records[i].at
    BY <2>1, <2>2
  <2>. QED
    BY <2>2, <2>4, <2>5, <2>6
<1>10. ScopedMatches(scope) = M
  BY ScopedMatchesAre
<1>. HIDE DEF M
<1>11. Owes(owed, Reviewed, scope)
  BY <1>3, <1>8, <1>9, <1>10 DEF Owes
<1>. QED
  BY <1>2, <1>11 DEF out

-----------------------------------------------------------------------------
(* What steps keep. *)

(* The kind of a job tells its fields. *)
LEMMA KindsTell ==
    ASSUME CommandsAssumption, NEW j \in Jobs
    PROVE  /\ j = Idle \/ j.kind \in {"batch", "game", "synthesis", "annotate", "experiment", "retry"}
           /\ j.kind = "batch" => j \in Batches
           /\ j.kind = "game" => j \in Single
           /\ j.kind = "synthesis" => j \in Syntheses
           /\ j.kind = "annotate" => j \in Annotations
           /\ j.kind = "experiment" => j \in Experiments
           /\ j.kind = "retry" => j \in Retries
           /\ Idle.kind \notin {"batch", "game", "synthesis", "annotate", "experiment", "retry"}
<1>1. Idle.kind \notin {"batch", "game", "synthesis", "annotate", "experiment", "retry"}
  BY DEF Idle, CommandsAssumption
<1>2. CASE j = Idle
  BY <1>1, <1>2
<1>3. CASE j \in Batches
  BY <1>1, <1>3 DEF Batches
<1>4. CASE j \in Single
  BY <1>1, <1>4 DEF Single
<1>5. CASE j \in Syntheses
  BY <1>1, <1>5 DEF Syntheses
<1>6. CASE j \in Annotations
  BY <1>1, <1>6 DEF Annotations
<1>7. CASE j \in Experiments
  BY <1>1, <1>7 DEF Experiments
<1>8. CASE j \in Retries
  BY <1>1, <1>8 DEF Retries
<1>. QED
  BY <1>2, <1>3, <1>4, <1>5, <1>6, <1>7, <1>8 DEF Jobs

(* Fewer commands are left. *)
Fewer(rest, less) ==
    /\ DOMAIN less = DOMAIN rest
    /\ \A run : Past(run, rest) => Past(run, less)

(* One command less is left. *)
LEMMA OneFewer ==
    ASSUME NEW K, NEW rest \in [K -> Nat], NEW k \in K, rest[k] > 0
    PROVE  LET less == [rest EXCEPT ![k] = @ - 1]
           IN  less \in [K -> Nat] /\ Fewer(rest, less) /\ Past(rest, less)
<1>. DEFINE less == [rest EXCEPT ![k] = @ - 1]
<1>1. less \in [K -> Nat] /\ less[k] = rest[k] - 1 /\ \A x \in K : x # k => less[x] = rest[x]
  OBVIOUS
<1>. HIDE DEF less
<1>2. Past(rest, less)
  BY <1>1 DEF Past
<1>3. ASSUME NEW run, Past(run, rest) PROVE Past(run, less)
  <2>1. run \in [K -> Nat] /\ \A x \in K : rest[x] <= run[x]
    BY <1>3 DEF Past
  <2>2. \A x \in K : less[x] <= run[x]
    <3>1. ASSUME NEW x \in K PROVE less[x] <= run[x]
      <4>1. rest[x] <= run[x] /\ rest[x] \in Nat /\ run[x] \in Nat
        BY <2>1
      <4>2. CASE x = k
        BY <1>1, <4>1, <4>2
      <4>3. CASE x # k
        BY <1>1, <4>1, <4>3
      <4>. QED
        BY <4>2, <4>3
    <3>. QED
      BY <3>1
  <2>3. run # less
    <3>1. rest[k] <= run[k] /\ rest[k] \in Nat /\ run[k] \in Nat
      BY <2>1
    <3>2. less[k] # run[k]
      BY <1>1, <3>1
    <3>. QED
      BY <3>2
  <2>4. DOMAIN less = K
    BY <1>1
  <2>. QED
    BY ONLY <2>1, <2>2, <2>3, <2>4 DEF Past
<1>. QED
  BY <1>1, <1>2, <1>3 DEF Fewer, less

(* A job that does nothing keeps what is true of it: the lines written     *)
(* meanwhile are of other commands.                                        *)
LEMMA JobStays ==
    ASSUME NEW j, NEW lines, NEW more, NEW rest, NEW less,
           JobOk(j, lines, rest), Grown(lines, more), Fewer(rest, less),
           Writes(j) => \A i \in DOMAIN more : i \notin DOMAIN lines => more[i].run # j.run
    PROVE  JobOk(j, more, less)
<1>1. DOMAIN lines \subseteq DOMAIN more /\ \A i \in DOMAIN lines : more[i] = lines[i]
  BY DEF Grown
<1>2. \A i \in GamesOf(lines) : i \in GamesOf(more) /\ more[i] = lines[i]
  BY <1>1 DEF GamesOf
<1>3. Len(lines) \in Nat /\ Len(more) \in Nat /\ Len(lines) <= Len(more) /\ DOMAIN lines = 1 .. Len(lines)
  BY DEF Grown
<1>4. ASSUME NEW runs, RowsOk(runs, lines) PROVE RowsOk(runs, more)
  BY <1>2, <1>4 DEF RowsOk, RowOk
<1>5. Writes(j) => \A i \in DOMAIN more : more[i].run = j.run => i \in DOMAIN lines /\ lines[i].run = j.run
  BY <1>1
<1>6. Writes(j) => Past(j.run, less)
  BY DEF JobOk, Fewer
<1>7. ASSUME j.kind = "batch" PROVE BatchOk(j, more)
  <2>1. BatchOk(j, lines) /\ Writes(j)
    BY <1>7 DEF JobOk, Writes
  <2>2. j.since \in Nat /\ j.since <= Len(lines)
    BY <2>1 DEF BatchOk
  <2>3. Had(more, j.since) = Had(lines, j.since)
    <3>1. \A i \in 1 .. j.since : i \in DOMAIN lines
      BY <1>3, <2>2
    <3>2. \A i \in 1 .. j.since : (i \in GamesOf(more) <=> i \in GamesOf(lines)) /\ more[i] = lines[i]
      BY <1>1, <3>1 DEF GamesOf
    <3>3. GamesOf(more) \cap 1 .. j.since = GamesOf(lines) \cap 1 .. j.since
      BY <3>2
    <3>. QED
      BY <3>2, <3>3 DEF Had
  <2>4. \A i \in DOMAIN more : more[i].run = j.run =>
          /\ more[i].ts \in j.seen /\ (j.match # None => more[i].ts # j.ts)
          /\ more[i].kind = "game" => more[i].match # j.match /\ more[i].match \notin Range(j.todo)
    <3>1. \A i \in DOMAIN lines : lines[i].run = j.run =>
          /\ lines[i].ts \in j.seen /\ (j.match # None => lines[i].ts # j.ts)
          /\ lines[i].kind = "game" => lines[i].match # j.match /\ lines[i].match \notin Range(j.todo)
      BY <2>1 DEF BatchOk
    <3>. QED
      BY <1>1, <1>5, <2>1, <3>1
  <2>5. j.since <= Len(more)
    BY <1>3, <2>2
  <2>. QED
    BY <2>1, <2>2, <2>3, <2>4, <2>5 DEF BatchOk
<1>8. ASSUME j.kind \in {"game", "synthesis"} PROVE \A i \in DOMAIN more : more[i].run # j.run
  BY <1>5, <1>8 DEF JobOk, Writes
<1>9. ASSUME j.kind = "annotate" PROVE j.todo \subseteq DOMAIN more
  BY <1>1, <1>9 DEF JobOk
<1>10. ASSUME j.kind = "experiment" PROVE j.todo \subseteq GamesOf(more) \X DOMAIN PERTURBATIONS /\ RowsOk(j.rows, more)
  BY <1>2, <1>4, <1>10 DEF JobOk
<1>11. ASSUME j.kind = "retry" PROVE RetryOk(j, more)
  <2>1. RetryOk(j, lines)
    BY <1>11 DEF JobOk
  <2>2. RowsOk(j.read, more) /\ RowsOk(j.rows, more)
    BY <1>4, <2>1 DEF RetryOk
  <2>3. j.known \in Nat /\ j.known <= Len(more)
    BY <1>3, <2>1 DEF RetryOk
  <2>. QED
    BY <2>1, <2>2, <2>3 DEF RetryOk
<1>. QED
  BY <1>6, <1>7, <1>8, <1>9, <1>10, <1>11 DEF JobOk

(* A terminal whose job is replaced, and what it has written. *)
LEMMA JobIsPut ==
    ASSUME job \in [Commands -> Jobs], JobsOk(job, reviews, left),
           NEW c \in Commands, NEW j \in Jobs, NEW more, NEW less, Grown(reviews, more), Fewer(left, less),
           \A i \in DOMAIN more : i \notin DOMAIN reviews => Writes(job[c]) /\ more[i].run = job[c].run,
           JobOk(j, more, less),
           Writes(j) => \A d \in Commands : d # c /\ Writes(job[d]) => job[d].run # j.run
    PROVE  [job EXCEPT ![c] = j] \in [Commands -> Jobs] /\ JobsOk([job EXCEPT ![c] = j], more, less)
<1>. DEFINE jobs == [job EXCEPT ![c] = j]
<1>1. jobs \in [Commands -> Jobs] /\ jobs[c] = j /\ \A d \in Commands : d # c => jobs[d] = job[d]
  OBVIOUS
<1>. HIDE DEF jobs
<1>2. ASSUME NEW d \in Commands PROVE JobOk(jobs[d], more, less)
  <2>1. CASE d = c
    BY <1>1, <2>1
  <2>2. CASE d # c
    <3>1. JobOk(job[d], reviews, left)
      BY DEF JobsOk
    <3>2. Writes(job[d]) => \A i \in DOMAIN more : i \notin DOMAIN reviews => more[i].run # job[d].run
      BY <2>2 DEF JobsOk
    <3>3. JobOk(job[d], more, less)
      BY <3>1, <3>2, JobStays
    <3>. QED
      BY <1>1, <2>2, <3>3
  <2>. QED
    BY <2>1, <2>2
<1>3. ASSUME NEW d \in Commands, NEW e \in Commands, d # e, Writes(jobs[d]), Writes(jobs[e])
      PROVE  jobs[d].run # jobs[e].run
  BY <1>1, <1>3 DEF JobsOk
<1>. QED
  BY <1>1, <1>2, <1>3 DEF JobsOk, jobs

(* Lines that are not touched keep what is true of them. *)
LEMMA LinesStay ==
    ASSUME NEW lines, NEW rest, NEW less, LinesOk(lines, rest), Fewer(rest, less)
    PROVE  LinesOk(lines, less)
BY DEF LinesOk, Fewer

(* No command less is left. *)
LEMMA SameLeft == Fewer(left, left)
BY DEF Fewer

(* A step of one terminal that writes no review. *)
LEMMA SilentStep ==
    ASSUME CommandsAssumption, CommandsInv, UNCHANGED <<session, clock, reviews>>,
           judged' \in Seq(Answers \cup {None}), Len(judged') = Len(reviews), Answered',
           report' = None \/ report' \in Seq(RunRows), report' # None => RowsOk(report', reviews),
           IsFiniteSet(DOMAIN failed'), left' \in [DOMAIN session.commands -> Nat], Fewer(left, left'),
           NEW c \in Commands, NEW j \in Jobs, job' = [job EXCEPT ![c] = j],
           JobOk(j, reviews, left'), Writes(j) => \A d \in Commands : d # c /\ Writes(job[d]) => job[d].run # j.run
    PROVE  CommandsInv'
<1>1. CommandsTypes /\ LinesOk(reviews, left) /\ OneStamp(reviews) /\ ReviewedOnce /\ JobsOk(job, reviews, left)
  BY DEF CommandsInv
<1>2. Grown(reviews, reviews)
  <2>1. reviews \in Seq(Range(reviews))
    BY <1>1 DEF CommandsTypes
  <2>. QED
    BY <2>1 DEF Grown
<1>3. job' \in [Commands -> Jobs] /\ JobsOk(job', reviews, left')
  <2>1. job \in [Commands -> Jobs]
    BY <1>1 DEF CommandsTypes
  <2>2. \A i \in DOMAIN reviews : i \notin DOMAIN reviews => Writes(job[c]) /\ reviews[i].run = job[c].run
    OBVIOUS
  <2>. QED
    BY <1>1, <1>2, <2>1, <2>2, JobIsPut
<1>4. LinesOk(reviews, left')
  BY <1>1, LinesStay
<1>5. CommandsTypes'
  BY <1>1, <1>3 DEF CommandsTypes
<1>6. ReviewedOnce'
  BY <1>1 DEF ReviewedOnce, Games
<1>. QED
  BY <1>1, <1>3, <1>4, <1>5, <1>6 DEF CommandsInv

(* A step of one terminal that writes no review, no answer and no report. *)
LEMMA QuietStep ==
    ASSUME CommandsAssumption, CommandsInv, UNCHANGED <<session, clock, reviews, feedback, report, judged>>,
           IsFiniteSet(DOMAIN failed'), left' \in [DOMAIN session.commands -> Nat], Fewer(left, left'),
           NEW c \in Commands, NEW j \in Jobs, job' = [job EXCEPT ![c] = j],
           JobOk(j, reviews, left'), Writes(j) => \A d \in Commands : d # c /\ Writes(job[d]) => job[d].run # j.run
    PROVE  CommandsInv'
<1>1. /\ judged' \in Seq(Answers \cup {None}) /\ Len(judged') = Len(reviews)
      /\ report' = None \/ report' \in Seq(RunRows)
  BY DEF CommandsInv, CommandsTypes
<1>2. report' # None => RowsOk(report', reviews)
  BY DEF CommandsInv
<1>3. Answered'
  BY DEF CommandsInv, Answered
<1>. QED
  BY <1>1, <1>2, <1>3, SilentStep

(* A command that begins. *)
LEMMA BeginsStep ==
    ASSUME CommandsAssumption, CommandsInv, UNCHANGED <<session, clock, reviews, feedback, failed, report, judged>>,
           NEW c \in Commands, NEW j \in Jobs, Free(c, j.kind), Begins(c, j), Writes(j) => j.run = left,
           \A less : Past(left, less) => JobOk(j, reviews, less)
    PROVE  CommandsInv'
<1>1. CommandsTypes /\ JobsOk(job, reviews, left)
  BY DEF CommandsInv
<1>2. left \in [DOMAIN session.commands -> Nat] /\ IsFiniteSet(DOMAIN failed)
  BY <1>1 DEF CommandsTypes
<1>3. j.kind \in DOMAIN session.commands /\ left[j.kind] > 0
  BY <1>2 DEF Free
<1>4. left' = [left EXCEPT ![j.kind] = @ - 1] /\ job' = [job EXCEPT ![c] = j]
  BY DEF Begins, Put
<1>5. left' \in [DOMAIN session.commands -> Nat] /\ Fewer(left, left') /\ Past(left, left')
  <2>. DEFINE K == DOMAIN session.commands  k == j.kind
  <2>1. left \in [K -> Nat] /\ k \in K /\ left[k] > 0 /\ left' = [left EXCEPT ![k] = @ - 1]
    BY <1>2, <1>3, <1>4
  <2>. HIDE DEF K, k
  <2>. DEFINE less == [left EXCEPT ![k] = @ - 1]
  <2>2. less \in [K -> Nat] /\ Fewer(left, less) /\ Past(left, less)
    BY ONLY <2>1, OneFewer
  <2>3. left' = less
    BY <2>1
  <2>. HIDE DEF less
  <2>. QED
    BY <2>2, <2>3 DEF K
<1>6. JobOk(j, reviews, left')
  BY <1>5
<1>7. ASSUME Writes(j), NEW d \in Commands, Writes(job[d]) PROVE job[d].run # j.run
  <2>1. Past(job[d].run, left)
    BY <1>1, <1>7 DEF JobsOk, JobOk
  <2>. QED
    BY <1>7, <2>1 DEF Past
<1>. QED
  BY <1>2, <1>4, <1>5, <1>6, <1>7, QuietStep

(* No line is of a command that begins. *)
LEMMA NoLinesYet ==
    ASSUME CommandsInv
    PROVE  /\ \A i \in DOMAIN reviews : reviews[i].run # left
           /\ left \in RunIds /\ \A scope \in session.scopes : scope \in ScopesGiven
<1>1. CommandsTypes /\ LinesOk(reviews, left)
  BY DEF CommandsInv
<1>2. \A i \in DOMAIN reviews : reviews[i].run # left
  BY <1>1 DEF LinesOk, Past
<1>3. session \in Sessions /\ left \in [DOMAIN session.commands -> Nat]
  BY <1>1 DEF CommandsTypes
<1>4. left \in RunIds
  BY <1>3 DEF RunIds
<1>5. \A scope \in session.scopes : scope \in ScopesGiven
  BY <1>3 DEF ScopesGiven
<1>. QED
  BY <1>2, <1>4, <1>5

(* A batch begins with the games it owes. *)
LEMMA StartBatchStep ==
    ASSUME CommandsAssumption, CommandsInv, NEW c \in Commands, StartBatch(c)
    PROVE  CommandsInv'
<1>1. PICK scope \in session.scopes :
         Begins(c, [kind |-> "batch", scope |-> scope, todo |-> Pending(scope), match |-> None, ts |-> None,
                    seen |-> {}, owed |-> Pending(scope), since |-> Len(reviews), run |-> left])
  BY DEF StartBatch
<1>. DEFINE j == [kind |-> "batch", scope |-> scope, todo |-> Pending(scope), match |-> None, ts |-> None,
                  seen |-> {}, owed |-> Pending(scope), since |-> Len(reviews), run |-> left]
<1>2. /\ j.kind = "batch" /\ j.scope = scope /\ j.todo = Pending(scope) /\ j.match = None /\ j.seen = {}
      /\ j.owed = Pending(scope) /\ j.since = Len(reviews) /\ j.run = left
  OBVIOUS
<1>3. /\ Pending(scope) \in Seq(RecordedMatches)
      /\ \A p, q \in DOMAIN Pending(scope) : p # q => Pending(scope)[p] # Pending(scope)[q]
      /\ Owes(Range(Pending(scope)), Reviewed, scope)
  BY PendingIsOwed
<1>4. Len(reviews) \in Nat /\ DOMAIN reviews = 1 .. Len(reviews)
  <2>1. reviews \in Seq(Range(reviews))
    BY DEF CommandsInv, CommandsTypes
  <2>. QED
    BY <2>1
<1>5. j \in Jobs
  <2>1. scope \in ScopesGiven /\ left \in RunIds
    BY NoLinesYet
  <2>2. j \in Batches
    BY <1>3, <1>4, <2>1 DEF Batches
  <2>. QED
    BY <2>2 DEF Jobs
<1>6. Free(c, "batch") /\ Begins(c, j)
  BY <1>1 DEF StartBatch
<1>. HIDE DEF j
<1>7. BatchOk(j, reviews)
  <2>1. Had(reviews, Len(reviews)) = Reviewed
    <3>1. GamesOf(reviews) \cap 1 .. Len(reviews) = Games
      BY <1>4 DEF GamesOf, Games
    <3>. QED
      BY <3>1 DEF Had, Reviewed
  <2>2. \A i \in DOMAIN reviews : reviews[i].run # j.run
    BY <1>2, NoLinesYet
  <2>3. IsFiniteSet(j.seen)
    BY <1>2, FS_EmptySet
  <2>. QED
    BY <1>2, <1>3, <1>4, <2>1, <2>2, <2>3 DEF BatchOk
<1>8. ASSUME NEW less, Past(left, less) PROVE JobOk(j, reviews, less)
  BY <1>2, <1>7, <1>8 DEF JobOk
<1>9. UNCHANGED <<session, clock, reviews, feedback, failed, report, judged>>
  BY DEF StartBatch
<1>. QED
  BY <1>2, <1>5, <1>6, <1>8, <1>9, BeginsStep

(* A match asked for, or the last of the scope, is one of the rows. *)
LEMMA SelectedIsRecorded ==
    ASSUME CommandsAssumption, NEW scope, NEW m, SelectGame(scope, m) # None
    PROVE  SelectGame(scope, m) \in RecordedMatches
<1>. DEFINE found == {i \in DOMAIN Records : IF m = None THEN InScope(Records[i].role, scope) ELSE Records[i].match = m}
<1>1. SelectGame(scope, m) = IF found = {} THEN None ELSE Records[Max(found)].match
  BY DEF SelectGame
<1>2. found \subseteq DOMAIN Records /\ IsFiniteSet(found)
  BY RowsAreFinite, FS_Subset
<1>3. found # {}
  BY <1>1
<1>4. Max(found) \in found
  <2>1. found \subseteq Int
    BY RowsAreFinite
  <2>. HIDE DEF found
  <2>. QED
    BY <1>2, <1>3, <2>1, IntegerExtremes
<1>. HIDE DEF found
<1>. QED
  BY <1>1, <1>2, <1>3, <1>4 DEF RecordedMatches

(* The review of one game or a synthesis begins. *)
LEMMA StartOneStep ==
    ASSUME CommandsAssumption, CommandsInv, NEW c \in Commands, StartGame(c) \/ StartSynthesis(c)
    PROVE  CommandsInv'
<1>1. /\ clock \in Nat /\ Len(reviews) \in Nat /\ Second \in Nat
  <2>1. reviews \in Seq(Range(reviews)) /\ clock \in Nat
    BY DEF CommandsInv, CommandsTypes
  <2>. QED
    BY <2>1 DEF Second
<1>2. ASSUME NEW j \in Single \cup Syntheses, j.run = left, NEW less, Past(left, less) PROVE JobOk(j, reviews, less)
  <2>1. \A i \in DOMAIN reviews : reviews[i].run # j.run
    BY <1>2, NoLinesYet
  <2>2. j.kind \in {"game", "synthesis"}
    BY DEF Single, Syntheses
  <2>3. j.kind # "batch" /\ j.kind # "annotate" /\ j.kind # "experiment" /\ j.kind # "retry"
    BY <2>2
  <2>. QED
    BY <1>2, <2>1, <2>3 DEF JobOk
<1>3. UNCHANGED <<session, clock, reviews, feedback, failed, report, judged>>
  BY DEF StartGame, StartSynthesis
<1>4. \E j \in Single \cup Syntheses : j.run = left /\ Free(c, j.kind) /\ Begins(c, j)
  <2>1. CASE StartGame(c)
    <3>1. PICK scope \in session.scopes, m \in session.games :
            /\ SelectGame(scope, m) # None
            /\ Begins(c, [kind |-> "game", scope |-> scope, match |-> SelectGame(scope, m), ts |-> Second,
                          since |-> Len(reviews), run |-> left])
      BY <2>1 DEF StartGame
    <3>. DEFINE j == [kind |-> "game", scope |-> scope, match |-> SelectGame(scope, m), ts |-> Second,
                      since |-> Len(reviews), run |-> left]
    <3>2. SelectGame(scope, m) \in RecordedMatches
      BY <3>1, SelectedIsRecorded
    <3>3. scope \in ScopesGiven /\ left \in RunIds
      BY NoLinesYet
    <3>4. j \in Single /\ j.run = left /\ j.kind = "game"
      BY <1>1, <3>2, <3>3 DEF Single
    <3>5. Free(c, "game")
      BY <2>1 DEF StartGame
    <3>. HIDE DEF j
    <3>6. Begins(c, j)
      BY <3>1 DEF j
    <3>. QED
      BY <3>4, <3>5, <3>6
  <2>2. CASE StartSynthesis(c)
    <3>1. PICK scope \in session.scopes :
            Begins(c, [kind |-> "synthesis", scope |-> scope, match |-> None, ts |-> Second, since |-> Len(reviews), run |-> left])
      BY <2>2 DEF StartSynthesis
    <3>. DEFINE j == [kind |-> "synthesis", scope |-> scope, match |-> None, ts |-> Second, since |-> Len(reviews), run |-> left]
    <3>3. scope \in ScopesGiven /\ left \in RunIds
      BY NoLinesYet
    <3>4. j \in Syntheses /\ j.run = left /\ j.kind = "synthesis"
      BY <1>1, <3>3 DEF Syntheses
    <3>5. Free(c, "synthesis")
      BY <2>2 DEF StartSynthesis
    <3>. HIDE DEF j
    <3>6. Begins(c, j)
      BY <3>1 DEF j
    <3>. QED
      BY <3>4, <3>5, <3>6
  <2>. QED
    BY <2>1, <2>2
<1>5. PICK j \in Single \cup Syntheses : j.run = left /\ Free(c, j.kind) /\ Begins(c, j)
  BY <1>4
<1>6. j \in Jobs
  BY DEF Jobs
<1>7. \A less : Past(left, less) => JobOk(j, reviews, less)
  BY <1>2, <1>5
<1>. QED
  BY <1>3, <1>5, <1>6, <1>7, BeginsStep

(* A terminal put back to rest. *)
LEMMA IdleIsOk ==
    ASSUME CommandsAssumption, NEW lines, NEW rest
    PROVE  Idle \in Jobs /\ ~ Writes(Idle) /\ JobOk(Idle, lines, rest)
<1>1. Idle \in Jobs
  BY DEF Jobs
<1>2. Idle.kind \notin {"batch", "game", "synthesis", "annotate", "experiment", "retry"}
  BY <1>1, KindsTell
<1>. QED
  BY <1>1, <1>2 DEF JobOk, Writes

(* A terminal ends its batch or its annotations, or is interrupted. *)
LEMMA RestStep ==
    ASSUME CommandsAssumption, CommandsInv, NEW c \in Commands, EndBatch(c) \/ EndAnnotate(c) \/ CommandKilled(c)
    PROVE  CommandsInv'
<1>1. CommandsTypes
  BY DEF CommandsInv
<1>2. job' = [job EXCEPT ![c] = Idle] /\ UNCHANGED <<session, clock, reviews, feedback, failed, report, left, judged>>
  BY DEF EndBatch, EndAnnotate, CommandKilled, Put
<1>3. IsFiniteSet(DOMAIN failed') /\ left' \in [DOMAIN session.commands -> Nat] /\ Fewer(left, left')
  BY <1>1, <1>2, SameLeft DEF CommandsTypes
<1>4. Idle \in Jobs /\ ~ Writes(Idle) /\ JobOk(Idle, reviews, left')
  BY IdleIsOk
<1>. QED
  BY <1>2, <1>3, <1>4, QuietStep

(* The seconds used so far are finitely many, so that one is free. *)
LEMMA StampsAreFinite ==
    ASSUME CommandsAssumption, CommandsInv
    PROVE  /\ IsFiniteSet(Stamps)
           /\ \A c \in Commands : job[c].kind = "batch" => job[c].seen \subseteq Stamps
<1>. DEFINE B == {e \in Commands : job[e].kind = "batch"}
            A == {reviews[i].ts : i \in DOMAIN reviews}
            F == {job[d].seen : d \in B}
<1>1. Answered /\ JobsOk(job, reviews, left) /\ IsFiniteSet(DOMAIN failed) /\ reviews \in Seq(Range(reviews))
  BY DEF CommandsInv, CommandsTypes
<1>2. IsFiniteSet(A)
  <2>. DEFINE f == [i \in DOMAIN reviews |-> reviews[i].ts]
  <2>1. IsFiniteSet(DOMAIN reviews)
    <3>1. Len(reviews) \in Nat /\ DOMAIN reviews = 1 .. Len(reviews)
      BY <1>1
    <3>2. 1 \in Int /\ Len(reviews) \in Int
      BY <3>1
    <3>. QED
      BY <3>1, <3>2, FS_Interval
  <2>2. f \in Surjection(DOMAIN reviews, A)
    BY DEF Surjection
  <2>. HIDE DEF f, A
  <2>. QED
    BY <2>1, <2>2, FS_Surjection
<1>3. IsFiniteSet(DOMAIN feedback)
  <2>1. DOMAIN feedback \subseteq A
    BY <1>1 DEF Answered
  <2>. HIDE DEF A
  <2>. QED
    BY <1>2, <2>1, FS_Subset
<1>4. IsFiniteSet(UNION F)
  <2>. DEFINE g == [d \in B |-> job[d].seen]
  <2>1. IsFiniteSet(Commands)
    BY DEF CommandsAssumption
  <2>2. IsFiniteSet(B)
    BY <2>1, FS_Subset
  <2>3. g \in Surjection(B, F)
    BY DEF Surjection
  <2>4. \A T \in F : IsFiniteSet(T)
    BY <1>1 DEF JobsOk, JobOk, BatchOk
  <2>. HIDE DEF g, B, F
  <2>5. IsFiniteSet(F)
    BY <2>2, <2>3, FS_Surjection
  <2>. QED
    BY <2>4, <2>5, FS_UNION
<1>5. Stamps = ((DOMAIN feedback \cup DOMAIN failed) \cup A) \cup UNION F
  <2>1. Stamps = UNION {DOMAIN feedback, DOMAIN failed, A, UNION F}
    BY DEF Stamps
  <2>. HIDE DEF A, F
  <2>. QED
    BY <2>1
<1>6. IsFiniteSet(Stamps)
  <2>. HIDE DEF A, F
  <2>1. IsFiniteSet(DOMAIN feedback \cup DOMAIN failed)
    BY <1>1, <1>3, FS_Union
  <2>2. IsFiniteSet((DOMAIN feedback \cup DOMAIN failed) \cup A)
    BY <1>2, <2>1, FS_Union
  <2>. QED
    BY <1>4, <1>5, <2>2, FS_Union
<1>7. ASSUME NEW c \in Commands, job[c].kind = "batch" PROVE job[c].seen \subseteq Stamps
  <2>1. job[c].seen \in F
    BY <1>7
  <2>2. job[c].seen \subseteq UNION F
    BY <2>1
  <2>. HIDE DEF A, F
  <2>. QED
    BY <1>5, <2>2
<1>. QED
  BY <1>6, <1>7

(* The second of a game of a batch is none that the batch saw. *)
LEMMA StampIsNew ==
    ASSUME clock \in Nat, IsFiniteSet(Stamps), NEW seen, seen \subseteq Stamps
    PROVE  Stamp(seen) \in Nat /\ Stamp(seen) \notin seen
<1>. DEFINE n == Cardinality(Stamps)
            T == Second + 1 .. Second + 1 + n
            free == T \ Stamps
<1>1. Second \in Nat /\ n \in Nat
  BY FS_CardinalityType DEF Second
<1>. HIDE DEF n
<1>2. IsFiniteSet(T) /\ Cardinality(T) = n + 1
  <2>. DEFINE a == Second + 1  b == Second + 1 + n
  <2>1. a \in Int /\ b \in Int /\ ~ (a > b) /\ b - a + 1 = n + 1 /\ T = a .. b
    BY <1>1
  <2>. HIDE DEF a, b, T
  <2>2. IsFiniteSet(a .. b) /\ Cardinality(a .. b) = IF a > b THEN 0 ELSE b - a + 1
    BY <2>1, FS_Interval
  <2>3. Cardinality(a .. b) = b - a + 1
    BY <2>1, <2>2
  <2>. QED
    BY <2>1, <2>2, <2>3
<1>3. free # {}
  <2>1. SUFFICES ASSUME T \subseteq Stamps PROVE FALSE
    OBVIOUS
  <2>. HIDE DEF T
  <2>2. Cardinality(T) <= n
    BY <2>1, FS_Subset DEF n
  <2>. QED
    BY <1>1, <1>2, <2>2
<1>4. free \subseteq Nat
  BY <1>1
<1>5. Min(free) \in free
  <2>1. IsFiniteSet(free)
    <3>. HIDE DEF T
    <3>. QED
      BY <1>2, FS_Subset
  <2>. HIDE DEF free
  <2>2. free \subseteq Int
    BY <1>4
  <2>. QED
    BY <1>3, <2>1, <2>2, IntegerExtremes
<1>6. Stamp(seen) = IF Second \notin seen THEN Second ELSE Min(free)
  BY DEF Stamp, n
<1>7. Min(free) \in Nat /\ Min(free) \notin seen
  BY <1>4, <1>5
<1>. HIDE DEF free
<1>. QED
  BY <1>1, <1>6, <1>7

(* A batch goes on with its next game. *)
LEMMA NextGameStep ==
    ASSUME CommandsAssumption, CommandsInv, NEW c \in Commands, NextGame(c)
    PROVE  CommandsInv'
<1>. DEFINE k == job[c]
            ts == Stamp(k.seen)
            j == [k EXCEPT !.match = Head(k.todo), !.todo = Tail(k.todo), !.ts = ts, !.seen = @ \cup {ts}]
<1>1. CommandsTypes /\ JobsOk(job, reviews, left)
  BY DEF CommandsInv
<1>2. /\ k.kind = "batch" /\ k.match = None /\ k.todo # <<>>
      /\ job' = [job EXCEPT ![c] = j]
      /\ UNCHANGED <<session, clock, reviews, feedback, failed, report, left, judged>>
  BY DEF NextGame, Put
<1>3. k \in Batches
  <2>1. k \in Jobs
    BY <1>1 DEF CommandsTypes
  <2>. QED
    BY <1>2, <2>1, KindsTell
<1>4. BatchOk(k, reviews) /\ Past(k.run, left)
  BY <1>1, <1>2 DEF JobsOk, JobOk, Writes
<1>5. ts \in Nat /\ ts \notin k.seen
  <2>1. clock \in Nat
    BY <1>1 DEF CommandsTypes
  <2>2. IsFiniteSet(Stamps) /\ k.seen \subseteq Stamps
    BY <1>2, StampsAreFinite
  <2>. HIDE DEF k
  <2>. QED
    BY <2>1, <2>2, StampIsNew
<1>6. /\ Head(k.todo) \in RecordedMatches /\ Tail(k.todo) \in Seq(RecordedMatches)
      /\ Head(k.todo) \in Range(k.todo) /\ Head(k.todo) \notin Range(Tail(k.todo))
      /\ Range(Tail(k.todo)) \subseteq Range(k.todo)
      /\ \A p, q \in DOMAIN Tail(k.todo) : p # q => Tail(k.todo)[p] # Tail(k.todo)[q]
  <2>. DEFINE s == k.todo
  <2>1. s \in Seq(RecordedMatches) /\ s # <<>> /\ \A p, q \in DOMAIN s : p # q => s[p] # s[q]
    BY <1>2, <1>3, <1>4 DEF Batches, BatchOk
  <2>. HIDE DEF s
  <2>2. /\ Head(s) \in RecordedMatches /\ Tail(s) \in Seq(RecordedMatches)
        /\ Head(s) \in Range(s) /\ Head(s) \notin Range(Tail(s))
        /\ Range(Tail(s)) \subseteq Range(s)
        /\ \A p, q \in DOMAIN Tail(s) : p # q => Tail(s)[p] # Tail(s)[q]
    BY <2>1, HeadAndTail
  <2>. QED
    BY <2>2 DEF s
<1>. HIDE DEF ts
<1>7. /\ j \in Batches
      /\ j.kind = "batch" /\ j.scope = k.scope /\ j.todo = Tail(k.todo) /\ j.match = Head(k.todo) /\ j.ts = ts
      /\ j.seen = k.seen \cup {ts} /\ j.owed = k.owed /\ j.since = k.since /\ j.run = k.run
  BY <1>2, <1>3, <1>5, <1>6 DEF Batches
<1>. HIDE DEF j, k
<1>8. BatchOk(j, reviews)
  <2>1. IsFiniteSet(j.seen)
    BY <1>4, <1>7, FS_AddElement DEF BatchOk
  <2>2. Range(j.todo) \subseteq Range(j.owed) /\ j.match \in Range(j.owed) /\ j.match \notin Range(j.todo) /\ j.ts \in j.seen
    BY <1>4, <1>6, <1>7 DEF BatchOk
  <2>3. ASSUME NEW i \in DOMAIN reviews, reviews[i].run = j.run
        PROVE  /\ reviews[i].ts \in j.seen /\ reviews[i].ts # j.ts
               /\ reviews[i].kind = "game" => reviews[i].match # j.match /\ reviews[i].match \notin Range(j.todo)
    <3>1. reviews[i].ts \in k.seen /\ (reviews[i].kind = "game" => reviews[i].match \notin Range(k.todo))
      BY <1>4, <1>7, <2>3 DEF BatchOk
    <3>. QED
      BY <1>5, <1>6, <1>7, <3>1
  <2>. QED
    BY <1>4, <1>6, <1>7, <2>1, <2>2, <2>3 DEF BatchOk
<1>9. JobOk(j, reviews, left')
  BY <1>2, <1>4, <1>7, <1>8 DEF JobOk
<1>10. \A d \in Commands : d # c /\ Writes(job[d]) => job[d].run # j.run
  <2>1. Writes(k)
    BY <1>2 DEF Writes
  <2>. QED
    BY <1>1, <1>7, <2>1 DEF JobsOk, k
<1>11. IsFiniteSet(DOMAIN failed') /\ left' \in [DOMAIN session.commands -> Nat] /\ Fewer(left, left')
  BY <1>1, <1>2, SameLeft DEF CommandsTypes
<1>12. j \in Jobs
  BY <1>7 DEF Jobs
<1>. QED
  BY <1>2, <1>9, <1>10, <1>11, <1>12, QuietStep

(* What was reviewed when a command read the reviews does not change. *)
LEMMA HadStays ==
    ASSUME NEW lines, NEW more, Grown(lines, more), NEW since \in Nat, since <= Len(lines)
    PROVE  Had(more, since) = Had(lines, since)
<1>1. /\ DOMAIN lines \subseteq DOMAIN more /\ \A i \in DOMAIN lines : more[i] = lines[i]
      /\ Len(lines) \in Nat /\ DOMAIN lines = 1 .. Len(lines)
  BY DEF Grown
<1>2. \A i \in 1 .. since : i \in DOMAIN lines
  BY <1>1
<1>3. \A i \in 1 .. since : (i \in GamesOf(more) <=> i \in GamesOf(lines)) /\ more[i] = lines[i]
  BY <1>1, <1>2 DEF GamesOf
<1>4. GamesOf(more) \cap 1 .. since = GamesOf(lines) \cap 1 .. since
  BY <1>3
<1>. QED
  BY <1>3, <1>4 DEF Had

(* None is not a match. *)
LEMMA NoneIsNoMatch == ASSUME CommandsAssumption PROVE None \notin RecordedMatches
<1>1. \A i \in DOMAIN Records : Records[i].match \in Int
  BY RowsAreFinite
<1>2. None \notin Int
  BY DEF CommandsAssumption
<1>. QED
  BY <1>1, <1>2 DEF RecordedMatches

(* A terminal once it is done with a game: nothing is written, or one line *)
(* about that game.                                                        *)
LEMMA AfterIsOk ==
    ASSUME CommandsAssumption, CommandsInv, NEW c \in Commands, Generating(c),
           NEW more, Grown(reviews, more),
           \A i \in DOMAIN more : i \notin DOMAIN reviews =>
              more[i].run = job[c].run /\ more[i].ts = job[c].ts /\ more[i].match = job[c].match
    PROVE  /\ After(c) \in Jobs /\ JobOk(After(c), more, left)
           /\ Writes(After(c)) => \A d \in Commands : d # c /\ Writes(job[d]) => job[d].run # After(c).run
<1>. DEFINE k == job[c]  j == [k EXCEPT !.match = None]
<1>1. CommandsTypes /\ JobsOk(job, reviews, left) /\ LinesOk(reviews, left)
  BY DEF CommandsInv
<1>2. CASE k.kind # "batch"
  <2>1. After(c) = Idle
    BY <1>2 DEF After
  <2>. QED
    BY <2>1, IdleIsOk
<1>3. CASE k.kind = "batch"
  <2>1. After(c) = j /\ k.match # None
    BY <1>3 DEF After, Generating
  <2>2. k \in Batches
    <3>1. k \in Jobs
      BY <1>1 DEF CommandsTypes
    <3>. QED
      BY <1>3, <3>1, KindsTell
  <2>3. BatchOk(k, reviews) /\ Past(k.run, left) /\ Writes(k)
    BY <1>1, <1>3 DEF JobsOk, JobOk, Writes
  <2>4. /\ j \in Batches
        /\ j.kind = "batch" /\ j.scope = k.scope /\ j.todo = k.todo /\ j.match = None /\ j.ts = k.ts
        /\ j.seen = k.seen /\ j.owed = k.owed /\ j.since = k.since /\ j.run = k.run
    BY <1>3, <2>2 DEF Batches
  <2>5. \A d \in Commands : d # c /\ Writes(job[d]) => job[d].run # j.run
    BY <1>1, <2>3, <2>4 DEF JobsOk
  <2>6. \A i \in DOMAIN more : i \notin DOMAIN reviews => more[i].ts = k.ts /\ more[i].match = k.match
    OBVIOUS
  <2>. HIDE DEF j, k
  <2>7. k.since \in Nat /\ k.since <= Len(reviews) /\ Had(more, k.since) = Had(reviews, k.since) /\ k.since <= Len(more)
    <3>1. k.since \in Nat /\ k.since <= Len(reviews)
      BY <2>3 DEF BatchOk
    <3>2. Len(reviews) \in Nat /\ Len(more) \in Nat /\ Len(reviews) <= Len(more)
      BY DEF Grown
    <3>. QED
      BY <3>1, <3>2, HadStays
  <2>8. ASSUME NEW i \in DOMAIN more, more[i].run = k.run
        PROVE  /\ more[i].ts \in k.seen
               /\ more[i].kind = "game" => more[i].match # None /\ more[i].match \notin Range(k.todo)
    <3>1. CASE i \in DOMAIN reviews
      <4>1. more[i] = reviews[i]
        BY <3>1 DEF Grown
      <4>2. reviews[i].kind = "game" => reviews[i].match # None
        BY <1>1, <3>1, NoneIsNoMatch DEF LinesOk
      <4>. QED
        BY <2>3, <2>8, <3>1, <4>1, <4>2 DEF BatchOk
    <3>2. CASE i \notin DOMAIN reviews
      BY <2>1, <2>3, <2>6, <3>2 DEF BatchOk
    <3>. QED
      BY <3>1, <3>2
  <2>9. BatchOk(j, more)
    <3>1. Owes(Range(j.owed), Had(more, j.since), j.scope) /\ Range(j.todo) \subseteq Range(j.owed) /\ IsFiniteSet(j.seen)
      BY <2>3, <2>4, <2>7 DEF BatchOk
    <3>2. \A p, q \in DOMAIN j.todo : p # q => j.todo[p] # j.todo[q]
      BY <2>3, <2>4 DEF BatchOk
    <3>. QED
      BY <2>4, <2>7, <2>8, <3>1, <3>2 DEF BatchOk
  <2>10. JobOk(j, more, left)
    BY <2>3, <2>4, <2>9 DEF JobOk
  <2>. QED
    BY <2>1, <2>4, <2>5, <2>10 DEF Jobs
<1>. QED
  BY <1>2, <1>3

(* A game that yields no review. *)
LEMMA FailsStep ==
    ASSUME CommandsAssumption, CommandsInv, NEW c \in Commands, Fails(c) \/ SaveFailed(c)
    PROVE  CommandsInv'
<1>1. CommandsTypes
  BY DEF CommandsInv
<1>2. /\ Generating(c) /\ job' = [job EXCEPT ![c] = After(c)]
      /\ UNCHANGED <<session, clock, reviews, feedback, report, left, judged>>
  BY DEF Fails, SaveFailed, Put
<1>3. IsFiniteSet(DOMAIN failed')
  <2>1. IsFiniteSet(DOMAIN failed)
    BY <1>1 DEF CommandsTypes
  <2>2. CASE Fails(c)
    BY <2>1, <2>2 DEF Fails
  <2>3. CASE SaveFailed(c)
    <3>1. DOMAIN failed' = DOMAIN failed \cup {job[c].ts}
      BY <2>3 DEF SaveFailed, Replaced
    <3>. QED
      BY <2>1, <3>1, FS_AddElement
  <2>. QED
    BY <2>2, <2>3
<1>4. left' \in [DOMAIN session.commands -> Nat] /\ Fewer(left, left') /\ left' = left
  BY <1>1, <1>2, SameLeft DEF CommandsTypes
<1>5. Grown(reviews, reviews) /\ \A i \in DOMAIN reviews : i \notin DOMAIN reviews =>
         reviews[i].run = job[c].run /\ reviews[i].ts = job[c].ts /\ reviews[i].match = job[c].match
  <2>1. reviews \in Seq(Range(reviews))
    BY <1>1 DEF CommandsTypes
  <2>. QED
    BY <2>1 DEF Grown
<1>6. /\ After(c) \in Jobs /\ JobOk(After(c), reviews, left')
      /\ Writes(After(c)) => \A d \in Commands : d # c /\ Writes(job[d]) => job[d].run # After(c).run
  BY <1>2, <1>4, <1>5, AfterIsOk
<1>. QED
  BY <1>2, <1>3, <1>4, <1>6, QuietStep

(* The line a command is about to write: its second and its game are not   *)
(* those of another line of that command, and its game was not reviewed    *)
(* when a batch read the reviews.                                          *)
LEMMA LineIsTrue ==
    ASSUME CommandsAssumption, CommandsInv, NEW c \in Commands, Generating(c), NEW category
    PROVE  LET line == Line(c, category)
           IN  /\ line.ts \in Nat /\ line.since \in Nat /\ Past(line.run, left)
               /\ line.ts = job[c].ts /\ line.match = job[c].match /\ line.run = job[c].run /\ Writes(job[c])
               /\ line.kind = "game" => line.match \in RecordedMatches /\ line.win = RecordOf(line.match).win
               /\ \A i \in DOMAIN reviews : reviews[i].run = line.run => reviews[i].ts # line.ts
               /\ \A i \in Games : line.by = "batch" /\ reviews[i].match = line.match =>
                    line.since < i /\ reviews[i].run # line.run
<1>. DEFINE k == job[c]  line == Line(c, category)
<1>1. CommandsTypes /\ JobsOk(job, reviews, left)
  BY DEF CommandsInv
<1>2. k \in Jobs
  BY <1>1 DEF CommandsTypes
<1>3. /\ line.ts = k.ts /\ line.match = k.match /\ line.run = k.run /\ line.since = k.since /\ line.by = k.kind
      /\ line.kind = (IF k.kind = "synthesis" THEN "synthesis" ELSE "game")
      /\ line.win = (k.match # None /\ RecordOf(k.match).win)
  BY DEF Line
<1>4. JobOk(k, reviews, left)
  BY <1>1 DEF JobsOk
<1>5. k.kind \in {"game", "synthesis"} \/ (k.kind = "batch" /\ k.match # None)
  BY DEF Generating
<1>6. Writes(k) /\ Past(k.run, left)
  BY <1>4, <1>5 DEF JobOk, Writes
<1>. HIDE DEF k, line
<1>7. ASSUME NEW m \in RecordedMatches, k.match = m PROVE line.win = RecordOf(m).win
  <2>1. PICK i \in DOMAIN Records : m = Records[i].match
    BY DEF RecordedMatches
  <2>2. Records[i] \in Range(Records)
    BY DEF Range
  <2>3. RecordOf(m) \in Range(Records)
    BY <2>1, <2>2 DEF RecordOf
  <2>4. RecordOf(m).win \in BOOLEAN
    <3>1. PICK x \in DOMAIN Records : RecordOf(m) = Records[x]
      BY <2>3 DEF Range
    <3>. QED
      BY <3>1 DEF CommandsAssumption
  <2>5. m # None
    BY NoneIsNoMatch
  <2>6. line.win = (TRUE /\ RecordOf(m).win)
    BY <1>3, <1>7, <2>5
  <2>. QED
    BY <2>4, <2>6
<1>8. CASE k.kind = "batch"
  <2>1. k \in Batches
    BY <1>2, <1>8, KindsTell
  <2>2. BatchOk(k, reviews)
    BY <1>4, <1>8 DEF JobOk
  <2>3. k.match # None
    BY <1>5, <1>8
  <2>4. k.match \in RecordedMatches /\ k.since \in Nat /\ k.seen \subseteq Nat
    BY <2>1, <2>3 DEF Batches
  <2>5. k.ts \in k.seen /\ k.match \in Range(k.owed)
    BY <2>2, <2>3 DEF BatchOk
  <2>6. ASSUME NEW i \in DOMAIN reviews, reviews[i].run = line.run
        PROVE  reviews[i].ts # line.ts /\ (reviews[i].kind = "game" => reviews[i].match # line.match)
    BY <1>3, <2>2, <2>3, <2>6 DEF BatchOk
  <2>7. ASSUME NEW i \in Games, reviews[i].match = line.match PROVE line.since < i /\ reviews[i].run # line.run
    <3>1. i \in DOMAIN reviews /\ reviews[i].kind = "game"
      BY DEF Games
    <3>2. reviews[i].run # line.run
      BY <2>6, <2>7, <3>1
    <3>3. i \in Nat /\ 1 <= i
      <4>1. reviews \in Seq(Range(reviews))
        BY <1>1 DEF CommandsTypes
      <4>. QED
        BY <3>1, <4>1
    <3>4. k.match \notin Had(reviews, k.since)
      BY <2>2, <2>5 DEF BatchOk, Owes
    <3>5. i \notin GamesOf(reviews) \cap 1 .. k.since
      BY <1>3, <2>7, <3>4 DEF Had
    <3>6. ~ (i <= k.since)
      BY <2>4, <3>1, <3>3, <3>5 DEF GamesOf
    <3>. QED
      BY <1>3, <2>4, <3>2, <3>3, <3>6
  <2>. QED
    BY <1>3, <1>6, <1>7, <2>4, <2>5, <2>6, <2>7 DEF line, k
<1>9. CASE k.kind = "game" \/ k.kind = "synthesis"
  <2>1. k.ts \in Nat /\ k.since \in Nat /\ (k.kind = "game" => k.match \in RecordedMatches)
    <3>1. CASE k.kind = "game"
      <4>1. k \in Single
        BY <1>2, <3>1, KindsTell
      <4>. QED
        BY <4>1 DEF Single
    <3>2. CASE k.kind = "synthesis"
      <4>1. k \in Syntheses
        BY <1>2, <3>2, KindsTell
      <4>. QED
        BY <3>2, <4>1 DEF Syntheses
    <3>. QED
      BY <1>9, <3>1, <3>2
  <2>2. \A i \in DOMAIN reviews : reviews[i].run # line.run
    BY <1>3, <1>4, <1>9 DEF JobOk
  <2>3. line.by # "batch"
    BY <1>3, <1>9
  <2>4. line.kind = "game" => line.match \in RecordedMatches /\ line.win = RecordOf(line.match).win
    BY <1>3, <1>7, <1>9, <2>1
  <2>. QED
    BY <1>3, <1>6, <2>1, <2>2, <2>3, <2>4 DEF line, k
<1>. QED
  BY <1>5, <1>8, <1>9

(* A review is written. *)
LEMMA PersistStep ==
    ASSUME CommandsAssumption, CommandsInv, NEW c \in Commands, Persist(c)
    PROVE  CommandsInv'
<1>1. CommandsTypes /\ LinesOk(reviews, left) /\ OneStamp(reviews) /\ ReviewedOnce /\ JobsOk(job, reviews, left)
      /\ (report # None => RowsOk(report, reviews)) /\ Answered
  BY DEF CommandsInv
<1>2. PICK category \in session.categories : reviews' = Append(reviews, Line(c, category))
  BY DEF Persist
<1>. DEFINE line == Line(c, category)  last == Len(reviews) + 1
<1>3. /\ Generating(c) /\ judged' = Append(judged, None) /\ job' = [job EXCEPT ![c] = After(c)]
      /\ UNCHANGED <<session, clock, feedback, failed, report, left>>
  BY DEF Persist, Put
<1>4. /\ line.ts \in Nat /\ line.since \in Nat /\ Past(line.run, left)
      /\ line.ts = job[c].ts /\ line.match = job[c].match /\ line.run = job[c].run /\ Writes(job[c])
      /\ line.kind = "game" => line.match \in RecordedMatches /\ line.win = RecordOf(line.match).win
      /\ \A i \in DOMAIN reviews : reviews[i].run = line.run => reviews[i].ts # line.ts
      /\ \A i \in Games : line.by = "batch" /\ reviews[i].match = line.match =>
           line.since < i /\ reviews[i].run # line.run
  BY <1>3, LineIsTrue
<1>. HIDE DEF line
<1>5. /\ Grown(reviews, reviews') /\ DOMAIN reviews' = DOMAIN reviews \cup {last} /\ reviews'[last] = line
      /\ Len(reviews') = Len(reviews) + 1
      /\ reviews' \in Seq(Range(reviews'))
      /\ Len(reviews) \in Nat /\ DOMAIN reviews = 1 .. Len(reviews) /\ last \notin DOMAIN reviews
      /\ \A i \in DOMAIN reviews : reviews'[i] = reviews[i]
  <2>1. reviews \in Seq(Range(reviews)) /\ reviews' = Append(reviews, line)
    BY <1>1, <1>2 DEF CommandsTypes, line
  <2>2. Len(reviews) \in Nat /\ DOMAIN reviews = 1 .. Len(reviews) /\ last \notin DOMAIN reviews
    BY <2>1
  <2>. DEFINE more == Append(reviews, line)
  <2>3. /\ Grown(reviews, more) /\ Len(more) = Len(reviews) + 1
        /\ DOMAIN more = DOMAIN reviews \cup {Len(reviews) + 1} /\ more[Len(reviews) + 1] = line
        /\ more \in Seq(Range(more))
    BY <2>1, AppendGrows
  <2>. HIDE DEF more
  <2>4. reviews' = more
    BY <2>1 DEF more
  <2>. QED
    BY <2>2, <2>3, <2>4 DEF Grown
<1>. HIDE DEF last
<1>6. judged' \in Seq(Answers \cup {None}) /\ Len(judged') = Len(reviews')
      /\ judged'[last] = None /\ \A i \in DOMAIN reviews : judged'[i] = judged[i]
  <2>1. judged \in Seq(Answers \cup {None}) /\ Len(judged) = Len(reviews)
    BY <1>1 DEF CommandsTypes
  <2>. QED
    BY <1>3, <1>5, <2>1 DEF last
<1>7. job' \in [Commands -> Jobs] /\ JobsOk(job', reviews', left')
  <2>1. \A i \in DOMAIN reviews' : i \notin DOMAIN reviews =>
          reviews'[i].run = job[c].run /\ reviews'[i].ts = job[c].ts /\ reviews'[i].match = job[c].match /\ Writes(job[c])
    BY <1>4, <1>5
  <2>2. job \in [Commands -> Jobs]
    BY <1>1 DEF CommandsTypes
  <2>. DEFINE more == reviews'
  <2>3. Grown(reviews, more) /\ \A i \in DOMAIN more : i \notin DOMAIN reviews =>
          more[i].run = job[c].run /\ more[i].ts = job[c].ts /\ more[i].match = job[c].match /\ Writes(job[c])
    BY <1>5, <2>1
  <2>. HIDE DEF more
  <2>4. /\ After(c) \in Jobs /\ JobOk(After(c), more, left)
        /\ Writes(After(c)) => \A d \in Commands : d # c /\ Writes(job[d]) => job[d].run # After(c).run
    BY <1>3, <2>3, AfterIsOk
  <2>5. Fewer(left, left)
    BY SameLeft
  <2>6. [job EXCEPT ![c] = After(c)] \in [Commands -> Jobs] /\ JobsOk([job EXCEPT ![c] = After(c)], more, left)
    BY <1>1, <2>2, <2>3, <2>4, <2>5, JobIsPut
  <2>. QED
    BY <1>3, <2>6 DEF more
<1>8. CommandsTypes'
  BY <1>1, <1>3, <1>5, <1>6, <1>7 DEF CommandsTypes
<1>9. LinesOk(reviews', left')
  BY <1>1, <1>3, <1>4, <1>5 DEF LinesOk
<1>10. OneStamp(reviews')
  <2>1. ASSUME NEW i \in DOMAIN reviews', NEW j \in DOMAIN reviews', i # j, reviews'[i].run = reviews'[j].run
        PROVE  reviews'[i].ts # reviews'[j].ts
    <3>1. CASE i \in DOMAIN reviews /\ j \in DOMAIN reviews
      BY <1>1, <1>5, <2>1, <3>1 DEF OneStamp
    <3>2. CASE i = last \/ j = last
      BY <1>4, <1>5, <2>1, <3>2
    <3>. QED
      BY <1>5, <3>1, <3>2
  <2>. QED
    BY <2>1 DEF OneStamp
<1>11. ReviewedOnce'
  <2>1. SUFFICES ASSUME NEW i \in Games', NEW j \in Games', i < j, reviews'[j].by = "batch",
                        reviews'[i].match = reviews'[j].match
                 PROVE  reviews'[j].since < i /\ reviews'[i].run # reviews'[j].run
    BY DEF ReviewedOnce
  <2>2. i \in DOMAIN reviews' /\ reviews'[i].kind = "game" /\ j \in DOMAIN reviews' /\ reviews'[j].kind = "game"
    BY DEF Games
  <2>3. i \in DOMAIN reviews
    BY <1>5, <2>1, <2>2 DEF last
  <2>4. i \in Games /\ reviews'[i] = reviews[i]
    BY <1>5, <2>2, <2>3 DEF Games
  <2>5. CASE j \in DOMAIN reviews
    <3>1. j \in Games /\ reviews'[j] = reviews[j]
      BY <1>5, <2>2, <2>5 DEF Games
    <3>. QED
      BY <1>1, <2>1, <2>4, <3>1 DEF ReviewedOnce
  <2>6. CASE j = last
    BY <1>4, <1>5, <2>1, <2>4, <2>6
  <2>. QED
    BY <1>5, <2>2, <2>5, <2>6
<1>12. (report # None => RowsOk(report, reviews))'
  <2>1. \A i \in GamesOf(reviews) : i \in GamesOf(reviews') /\ reviews'[i] = reviews[i]
    BY <1>5 DEF GamesOf
  <2>2. ASSUME report # None PROVE RowsOk(report, reviews')
    BY <1>1, <2>1, <2>2 DEF RowsOk, RowOk
  <2>. QED
    BY <1>3, <2>2
<1>13. Answered'
  <2>1. ASSUME NEW t \in DOMAIN feedback PROVE \E i \in DOMAIN reviews' : reviews'[i].ts = t /\ judged'[i] # None
    BY <1>1, <1>5, <1>6 DEF Answered
  <2>2. ASSUME NEW i \in DOMAIN reviews', judged'[i] # None
        PROVE  reviews'[i].ts \in DOMAIN feedback
               /\ (~ TwinOf(i, reviews') => feedback[reviews'[i].ts] = judged'[i])
    <3>1. i \in DOMAIN reviews
      BY <1>5, <1>6, <2>2
    <3>2. judged[i] # None /\ reviews'[i] = reviews[i] /\ judged'[i] = judged[i]
      BY <1>5, <1>6, <2>2, <3>1
    <3>3. TwinOf(i, reviews) => TwinOf(i, reviews')
      BY <1>5, <3>2 DEF TwinOf
    <3>. QED
      BY <1>1, <3>1, <3>2, <3>3 DEF Answered
  <2>. QED
    BY <1>3, <2>1, <2>2 DEF Answered
<1>. QED
  BY <1>7, <1>8, <1>9, <1>10, <1>11, <1>12, <1>13 DEF CommandsInv

(* Annotations begin. *)
LEMMA StartAnnotateStep ==
    ASSUME CommandsAssumption, CommandsInv, NEW c \in Commands, StartAnnotate(c)
    PROVE  CommandsInv'
<1>1. PICK todo \in {PendingReviews} \cup {{i} : i \in DOMAIN reviews} : Begins(c, [kind |-> "annotate", todo |-> todo])
  BY DEF StartAnnotate
<1>. DEFINE j == [kind |-> "annotate", todo |-> todo]
<1>2. todo \subseteq DOMAIN reviews
  BY DEF PendingReviews
<1>3. DOMAIN reviews \subseteq Nat
  <2>1. reviews \in Seq(Range(reviews))
    BY DEF CommandsInv, CommandsTypes
  <2>. QED
    BY <2>1
<1>4. j \in Annotations /\ j.kind = "annotate" /\ j.todo = todo
  BY <1>2, <1>3 DEF Annotations
<1>5. Free(c, "annotate") /\ Begins(c, j) /\ UNCHANGED <<session, clock, reviews, feedback, failed, report, judged>>
  BY <1>1 DEF StartAnnotate
<1>. HIDE DEF j
<1>6. ~ Writes(j) /\ j \in Jobs /\ \A less : JobOk(j, reviews, less)
  BY <1>2, <1>4 DEF JobOk, Writes, Jobs
<1>. QED
  BY <1>4, <1>5, <1>6, BeginsStep

(* An experiment begins. *)
LEMMA StartExperimentStep ==
    ASSUME CommandsAssumption, CommandsInv, NEW c \in Commands, StartExperiment(c)
    PROVE  CommandsInv'
<1>. DEFINE j == [kind |-> "experiment", rows |-> <<>>, todo |-> Baselines \X DOMAIN PERTURBATIONS]
<1>1. Baselines \subseteq GamesOf(reviews)
  BY DEF Baselines, Games, GamesOf
<1>2. Baselines \subseteq Nat
  <2>1. reviews \in Seq(Range(reviews))
    BY DEF CommandsInv, CommandsTypes
  <2>. QED
    BY <1>1, <2>1 DEF GamesOf
<1>3. DOMAIN PERTURBATIONS = 1 .. Len(PERTURBATIONS)
  BY DEF CommandsAssumption
<1>4. Baselines \X DOMAIN PERTURBATIONS \subseteq Pairs
  BY <1>2, <1>3 DEF Pairs
<1>5. j \in Experiments /\ j.kind = "experiment" /\ j.rows = <<>> /\ j.todo = Baselines \X DOMAIN PERTURBATIONS
  BY <1>4 DEF Experiments
<1>6. Free(c, "experiment") /\ Begins(c, j) /\ UNCHANGED <<session, clock, reviews, feedback, failed, report, judged>>
  BY DEF StartExperiment
<1>. HIDE DEF j
<1>7. RowsOk(j.rows, reviews)
  BY <1>5 DEF RowsOk
<1>8. ~ Writes(j) /\ j \in Jobs /\ \A less : JobOk(j, reviews, less)
  BY <1>1, <1>5, <1>7 DEF JobOk, Writes, Jobs
<1>. QED
  BY <1>5, <1>6, <1>8, BeginsStep

(* A retry begins with the report as it stands. *)
LEMMA StartRetryStep ==
    ASSUME CommandsAssumption, CommandsInv, NEW c \in Commands, StartRetry(c)
    PROVE  CommandsInv'
<1>. DEFINE todo == {k \in DOMAIN report : report[k].verdict = "error"}
            j == [kind |-> "retry", rows |-> report, read |-> report, known |-> Len(reviews), todo |-> todo]
<1>1. Free(c, "retry") /\ Begins(c, j) /\ UNCHANGED <<session, clock, reviews, feedback, failed, report, judged>>
      /\ report # None
  BY DEF StartRetry
<1>2. report \in Seq(RunRows) /\ RowsOk(report, reviews) /\ reviews \in Seq(Range(reviews))
  BY <1>1 DEF CommandsInv, CommandsTypes
<1>3. Len(reviews) \in Nat /\ DOMAIN reviews = 1 .. Len(reviews)
  BY <1>2
<1>4. todo \subseteq Nat
  BY <1>2
<1>5. j \in Retries /\ j.kind = "retry" /\ j.rows = report /\ j.read = report /\ j.known = Len(reviews) /\ j.todo = todo
  BY <1>2, <1>3, <1>4 DEF Retries
<1>. HIDE DEF j
<1>6. RetryOk(j, reviews)
  <2>1. ASSUME NEW k \in DOMAIN report PROVE report[k].base <= Len(reviews)
    <3>1. report[k].base \in DOMAIN reviews
      BY <1>2 DEF RowsOk, RowOk, GamesOf
    <3>. QED
      BY <1>3, <3>1
  <2>2. Len(reviews) <= Len(reviews)
    BY <1>3
  <2>. QED
    BY <1>2, <1>3, <1>5, <2>1, <2>2 DEF RetryOk
<1>7. ~ Writes(j) /\ j \in Jobs /\ \A less : JobOk(j, reviews, less)
  BY <1>5, <1>6 DEF JobOk, Writes, Jobs
<1>. QED
  BY <1>1, <1>5, <1>7, BeginsStep

(* The report is written. *)
LEMMA EndExperimentStep ==
    ASSUME CommandsAssumption, CommandsInv, NEW c \in Commands, EndExperiment(c)
    PROVE  CommandsInv'
<1>1. CommandsTypes /\ JobsOk(job, reviews, left)
  BY DEF CommandsInv
<1>2. /\ job[c].kind \in {"experiment", "retry"} /\ report' = job[c].rows /\ job' = [job EXCEPT ![c] = Idle]
      /\ UNCHANGED <<session, clock, reviews, feedback, failed, left, judged>>
  BY DEF EndExperiment, Put
<1>3. job[c].rows \in Seq(RunRows) /\ RowsOk(job[c].rows, reviews)
  <2>1. job[c] \in Jobs /\ JobOk(job[c], reviews, left)
    BY <1>1 DEF CommandsTypes, JobsOk
  <2>2. CASE job[c].kind = "experiment"
    <3>1. job[c] \in Experiments
      BY <2>1, <2>2, KindsTell
    <3>. QED
      BY <2>1, <2>2, <3>1 DEF Experiments, JobOk
  <2>3. CASE job[c].kind = "retry"
    <3>1. job[c] \in Retries
      BY <2>1, <2>3, KindsTell
    <3>. QED
      BY <2>1, <2>3, <3>1 DEF Retries, JobOk, RetryOk
  <2>. QED
    BY <1>2, <2>2, <2>3
<1>4. /\ IsFiniteSet(DOMAIN failed') /\ left' \in [DOMAIN session.commands -> Nat] /\ Fewer(left, left')
      /\ judged' \in Seq(Answers \cup {None}) /\ Len(judged') = Len(reviews)
  BY <1>1, <1>2, SameLeft DEF CommandsTypes
<1>5. Answered'
  BY <1>2 DEF CommandsInv, Answered
<1>6. Idle \in Jobs /\ ~ Writes(Idle) /\ JobOk(Idle, reviews, left')
  BY IdleIsOk
<1>7. report' = None \/ report' \in Seq(RunRows)
  BY <1>2, <1>3
<1>8. report' # None => RowsOk(report', reviews)
  BY <1>2, <1>3
<1>. QED
  BY <1>2, <1>4, <1>5, <1>6, <1>7, <1>8, SilentStep

(* The row of one run. *)
LEMMA RowIsOk ==
    ASSUME CommandsInv, NEW i \in Games, NEW name \in Range(PERTURBATIONS), NEW verdict \in Verdicts(i, name)
    PROVE  /\ Row(i, name, verdict) \in RunRows /\ RowOk(Row(i, name, verdict), reviews)
           /\ Row(i, name, verdict).ts = reviews[i].ts /\ Row(i, name, verdict).match = reviews[i].match
           /\ Row(i, name, verdict).name = name /\ Row(i, name, verdict).base = i
           /\ Row(i, name, verdict).verdict = verdict
           /\ ~ (name = "no_opponent_spike" /\ reviews[i].match \notin Spiked) => verdict # "skipped"
<1>. DEFINE row == Row(i, name, verdict)
<1>1. row.ts = reviews[i].ts /\ row.match = reviews[i].match /\ row.name = name /\ row.verdict = verdict /\ row.base = i
  BY DEF Row
<1>2. i \in GamesOf(reviews) /\ i \in DOMAIN reviews /\ reviews[i].kind = "game"
  BY DEF Games, GamesOf
<1>3. reviews[i].ts \in Nat /\ reviews[i].match \in RecordedMatches
  BY <1>2 DEF CommandsInv, LinesOk
<1>4. i \in Nat
  <2>1. reviews \in Seq(Range(reviews))
    BY DEF CommandsInv, CommandsTypes
  <2>. QED
    BY <1>2, <2>1
<1>5. verdict \in {"passed", "failed", "error", "skipped"}
      /\ (verdict = "error" => ~ (name = "no_opponent_spike" /\ reviews[i].match \notin Spiked))
      /\ (~ (name = "no_opponent_spike" /\ reviews[i].match \notin Spiked) => verdict # "skipped")
  BY DEF Verdicts, Applicable
<1>6. row \in RunRows
  BY <1>3, <1>4, <1>5 DEF Row, RunRows
<1>. HIDE DEF row
<1>7. RowOk(row, reviews)
  BY <1>1, <1>2, <1>5 DEF RowOk
<1>. QED
  BY <1>1, <1>5, <1>6, <1>7 DEF row

(* The reviews are finitely many, their seconds are numbers. *)
LEMMA ReviewsAreFinite ==
    ASSUME CommandsInv
    PROVE  /\ IsFiniteSet(DOMAIN reviews) /\ DOMAIN reviews \subseteq Nat /\ DOMAIN reviews = 1 .. Len(reviews)
           /\ Len(reviews) \in Nat /\ \A i \in DOMAIN reviews : reviews[i].ts \in Nat
<1>1. reviews \in Seq(Range(reviews)) /\ LinesOk(reviews, left)
  BY DEF CommandsInv, CommandsTypes
<1>2. Len(reviews) \in Nat /\ DOMAIN reviews = 1 .. Len(reviews)
  BY <1>1
<1>3. 1 \in Int /\ Len(reviews) \in Int
  BY <1>2
<1>4. IsFiniteSet(1 .. Len(reviews))
  BY <1>3, FS_Interval
<1>. QED
  BY <1>1, <1>2, <1>4 DEF LinesOk

(* The next run of an experiment is one of those to do. *)
LEMMA NextRunIsOne ==
    ASSUME CommandsAssumption, CommandsInv, NEW todo, todo \subseteq (DOMAIN reviews) \X (DOMAIN PERTURBATIONS), todo # {}
    PROVE  NextRun(todo) \in todo
<1>. DEFINE R == {p \in todo \X todo : Newest(p[1][1], p[2][1]) \/ (p[1][1] = p[2][1] /\ p[1][2] < p[2][2])}
<1>1. /\ IsFiniteSet(DOMAIN reviews) /\ DOMAIN reviews \subseteq Nat
      /\ \A i \in DOMAIN reviews : reviews[i].ts \in Nat
  BY ReviewsAreFinite
<1>2. Len(PERTURBATIONS) \in Nat /\ DOMAIN PERTURBATIONS = 1 .. Len(PERTURBATIONS)
  BY DEF CommandsAssumption
<1>3. IsFiniteSet(DOMAIN PERTURBATIONS) /\ DOMAIN PERTURBATIONS \subseteq Nat
  <2>1. 1 \in Int /\ Len(PERTURBATIONS) \in Int
    BY <1>2
  <2>2. IsFiniteSet(1 .. Len(PERTURBATIONS))
    BY <2>1, FS_Interval
  <2>. QED
    BY <1>2, <2>2
<1>4. IsFiniteSet(todo)
  <2>1. IsFiniteSet((DOMAIN reviews) \X (DOMAIN PERTURBATIONS))
    BY <1>1, <1>3, FS_Product
  <2>. QED
    BY <2>1, FS_Subset
<1>5. \A x, y \in todo : <<x, y>> \in R <=> Newest(x[1], y[1]) \/ (x[1] = y[1] /\ x[2] < y[2])
  OBVIOUS
<1>6. \A x \in todo : /\ x = <<x[1], x[2]>> /\ x[1] \in Nat /\ x[2] \in Nat
                      /\ reviews[x[1]].ts \in Nat
  BY <1>1, <1>3
<1>. HIDE DEF R
<1>7. ASSUME NEW x \in todo, NEW y \in todo, NEW z \in todo, <<x, y>> \in R, <<y, z>> \in R PROVE <<x, z>> \in R
  <2>1. Newest(x[1], y[1]) \/ (x[1] = y[1] /\ x[2] < y[2])
    BY <1>5, <1>7
  <2>2. Newest(y[1], z[1]) \/ (y[1] = z[1] /\ y[2] < z[2])
    BY <1>5, <1>7
  <2>3. Newest(x[1], z[1]) \/ (x[1] = z[1] /\ x[2] < z[2])
    BY <1>6, <2>1, <2>2 DEF Newest
  <2>. QED
    BY <1>5, <2>3
<1>8. ASSUME NEW x \in todo, NEW y \in todo, x # y PROVE <<x, y>> \in R \/ <<y, x>> \in R
  <2>1. x[1] # y[1] \/ x[2] # y[2]
    BY <1>6, <1>8
  <2>2. \/ Newest(x[1], y[1]) \/ (x[1] = y[1] /\ x[2] < y[2])
        \/ Newest(y[1], x[1]) \/ (y[1] = x[1] /\ y[2] < x[2])
    BY <1>6, <2>1 DEF Newest
  <2>. QED
    BY <1>5, <2>2
<1>9. \E x \in todo : \A y \in todo \ {x} : <<x, y>> \in R
  BY <1>4, <1>7, <1>8, LeastExists
<1>10. \E x \in todo : \A y \in todo \ {x} : Newest(x[1], y[1]) \/ (x[1] = y[1] /\ x[2] < y[2])
  BY <1>5, <1>9
<1>. QED
  BY <1>10 DEF NextRun

(* One run of an experiment. *)
LEMMA RunOneStep ==
    ASSUME CommandsAssumption, CommandsInv, NEW c \in Commands, RunOne(c)
    PROVE  CommandsInv'
<1>. DEFINE k == job[c]  t == NextRun(k.todo)  name == PERTURBATIONS[t[2]]
<1>1. CommandsTypes /\ JobsOk(job, reviews, left)
  BY DEF CommandsInv
<1>2. k.kind = "experiment" /\ k.todo # {} /\ UNCHANGED <<session, clock, reviews, feedback, failed, report, left, judged>>
  BY DEF RunOne
<1>3. PICK verdict \in Verdicts(t[1], name) :
         job' = [job EXCEPT ![c] = [k EXCEPT !.todo = @ \ {t}, !.rows = Append(@, Row(t[1], name, verdict))]]
  BY DEF RunOne, Put
<1>. DEFINE row == Row(t[1], name, verdict)
            j == [k EXCEPT !.todo = @ \ {t}, !.rows = Append(@, row)]
<1>4. k \in Jobs /\ JobOk(k, reviews, left)
  BY <1>1 DEF CommandsTypes, JobsOk
<1>5. k \in Experiments
  BY <1>2, <1>4, KindsTell
<1>6. k.todo \subseteq GamesOf(reviews) \X DOMAIN PERTURBATIONS /\ RowsOk(k.rows, reviews)
  BY <1>2, <1>4 DEF JobOk
<1>7. t \in k.todo
  <2>1. k.todo \subseteq (DOMAIN reviews) \X (DOMAIN PERTURBATIONS)
    BY <1>6 DEF GamesOf
  <2>. QED
    BY <1>2, <2>1, NextRunIsOne
<1>8. t[1] \in Games /\ name \in Range(PERTURBATIONS)
  <2>1. t[1] \in GamesOf(reviews) /\ t[2] \in DOMAIN PERTURBATIONS
    BY <1>6, <1>7
  <2>. QED
    BY <2>1 DEF GamesOf, Games, Range
<1>. HIDE DEF t, name
<1>9. row \in RunRows /\ RowOk(row, reviews)
  BY <1>3, <1>8, RowIsOk
<1>. HIDE DEF row
<1>10. /\ j \in Experiments /\ j.kind = "experiment" /\ j.todo = k.todo \ {t} /\ j.rows = Append(k.rows, row)
       /\ k.rows \in Seq(RunRows)
  <2>1. k.rows \in Seq(RunRows) /\ k.todo \in SUBSET Pairs /\ k.kind = "experiment"
    BY <1>5 DEF Experiments
  <2>. DEFINE runs == Append(k.rows, row)  todo == k.todo \ {t}
  <2>2. runs \in Seq(RunRows) /\ todo \in SUBSET Pairs
    BY <1>9, <2>1
  <2>3. j = [k EXCEPT !.todo = todo, !.rows = runs]
    OBVIOUS
  <2>. HIDE DEF runs, todo, j
  <2>4. j \in Experiments /\ j.kind = "experiment" /\ j.todo = todo /\ j.rows = runs
    BY <1>5, <2>2, <2>3 DEF Experiments
  <2>. QED
    BY <2>1, <2>4 DEF runs, todo
<1>11. job' = [job EXCEPT ![c] = j]
  BY <1>3 DEF row
<1>. HIDE DEF j, k
<1>12. RowsOk(j.rows, reviews)
  <2>1. ASSUME NEW q \in DOMAIN j.rows PROVE RowOk(j.rows[q], reviews)
    <3>1. Len(k.rows) \in Nat /\ DOMAIN k.rows = 1 .. Len(k.rows) /\ DOMAIN j.rows = 1 .. (Len(k.rows) + 1)
      BY <1>10
    <3>2. CASE q = Len(k.rows) + 1
      <4>1. j.rows[q] = row
        BY <1>10, <3>1, <3>2
      <4>. QED
        BY <1>9, <4>1
    <3>3. CASE q # Len(k.rows) + 1
      <4>1. q \in DOMAIN k.rows
        BY <3>1, <3>3
      <4>2. j.rows[q] = k.rows[q]
        BY <1>10, <3>1, <4>1
      <4>. QED
        BY <1>6, <4>1, <4>2 DEF RowsOk
    <3>. QED
      BY <3>2, <3>3
  <2>. QED
    BY <2>1 DEF RowsOk
<1>13. ~ Writes(j) /\ j \in Jobs /\ JobOk(j, reviews, left')
  BY <1>6, <1>10, <1>12 DEF JobOk, Writes, Jobs
<1>14. IsFiniteSet(DOMAIN failed') /\ left' \in [DOMAIN session.commands -> Nat] /\ Fewer(left, left')
  BY <1>1, <1>2, SameLeft DEF CommandsTypes
<1>. QED
  BY <1>2, <1>11, <1>13, <1>14, QuietStep

(* The run tried again is one that failed, on a review of the game its row *)
(* names: the baseline of the first attempt is among those of that name.   *)
LEMMA RetriedIsNamed ==
    ASSUME CommandsInv, NEW k \in Retries, RetryOk(k, reviews), k.todo # {}
    PROVE  LET q == Min(k.todo)  i == Max(Named(k.rows[q], k.known))
           IN  /\ q \in k.todo /\ q \in DOMAIN k.rows /\ q \in DOMAIN k.read
               /\ i \in Games /\ reviews[i].ts = k.rows[q].ts /\ reviews[i].match = k.rows[q].match
               /\ k.rows[q].name \in Range(PERTURBATIONS)
               /\ ~ (k.rows[q].name = "no_opponent_spike" /\ k.rows[q].match \notin Spiked)
<1>. DEFINE q == Min(k.todo)  row == k.rows[q]  S == Named(row, k.known)
<1>1. k.rows \in Seq(RunRows) /\ k.read \in Seq(RunRows)
  BY DEF Retries
<1>2. Len(k.rows) = Len(k.read) /\ k.todo \subseteq DOMAIN k.read
  BY DEF RetryOk
<1>3. /\ Len(k.rows) \in Nat /\ DOMAIN k.rows = 1 .. Len(k.rows) /\ DOMAIN k.read = DOMAIN k.rows
      /\ k.todo \subseteq 1 .. Len(k.rows)
  BY <1>1, <1>2
<1>4. q \in k.todo
  <2>1. 1 \in Int /\ Len(k.rows) \in Int
    BY <1>3
  <2>2. IsFiniteSet(1 .. Len(k.rows))
    BY <2>1, FS_Interval
  <2>3. IsFiniteSet(k.todo) /\ k.todo \subseteq Int
    BY <1>3, <2>2, FS_Subset
  <2>. QED
    BY <2>3, IntegerExtremes
<1>. HIDE DEF q
<1>5. q \in DOMAIN k.rows /\ q \in DOMAIN k.read /\ row \in RunRows
  BY <1>1, <1>3, <1>4
<1>6. /\ k.read[q].verdict = "error" /\ k.read[q].base <= k.known
      /\ row.ts = k.read[q].ts /\ row.name = k.read[q].name /\ row.match = k.read[q].match
  BY <1>4, <1>5 DEF RetryOk
<1>7. RowOk(k.read[q], reviews)
  BY <1>5 DEF RetryOk, RowsOk
<1>8. k.read[q].base \in S
  BY <1>6, <1>7 DEF RowOk, Named, Games, GamesOf
<1>9. Max(S) \in S
  <2>1. S \subseteq DOMAIN reviews
    BY DEF Named, Games
  <2>2. IsFiniteSet(DOMAIN reviews) /\ DOMAIN reviews \subseteq Nat
    BY ReviewsAreFinite
  <2>. HIDE DEF S
  <2>3. IsFiniteSet(S) /\ S \subseteq Int
    BY <2>1, <2>2, FS_Subset
  <2>. QED
    BY <1>8, <2>3, IntegerExtremes
<1>10. Max(S) \in Games /\ reviews[Max(S)].ts = row.ts /\ reviews[Max(S)].match = row.match
  <2>. DEFINE i == Max(S)
  <2>. HIDE DEF i
  <2>1. i \in S
    BY <1>9 DEF i
  <2>2. i \in Games /\ reviews[i].ts = row.ts /\ reviews[i].match = row.match
    BY <2>1 DEF Named
  <2>. QED
    BY <2>2 DEF i
<1>11. row.name \in Range(PERTURBATIONS)
  BY <1>5 DEF RunRows
<1>12. ~ (row.name = "no_opponent_spike" /\ row.match \notin Spiked)
  BY <1>6, <1>7 DEF RowOk
<1>. QED
  BY <1>4, <1>5, <1>10, <1>11, <1>12 DEF q

(* One run tried again. *)
LEMMA RetryOneStep ==
    ASSUME CommandsAssumption, CommandsInv, NEW c \in Commands, RetryOne(c)
    PROVE  CommandsInv'
<1>. DEFINE k == job[c]  q == Min(k.todo)  name == k.rows[q].name  i == Max(Named(k.rows[q], k.known))
<1>1. CommandsTypes /\ JobsOk(job, reviews, left)
  BY DEF CommandsInv
<1>2. k.kind = "retry" /\ k.todo # {} /\ UNCHANGED <<session, clock, reviews, feedback, failed, report, left, judged>>
  BY DEF RetryOne
<1>3. PICK verdict \in Verdicts(i, name) :
         job' = [job EXCEPT ![c] = [k EXCEPT !.todo = @ \ {q}, !.rows[q] = Row(i, name, verdict)]]
  BY DEF RetryOne, Put
<1>. DEFINE row == Row(i, name, verdict)
            runs == [k.rows EXCEPT ![q] = row]
            todo == k.todo \ {q}
            j == [k EXCEPT !.todo = todo, !.rows = runs]
<1>4. k \in Jobs /\ JobOk(k, reviews, left)
  BY <1>1 DEF CommandsTypes, JobsOk
<1>5. k \in Retries /\ RetryOk(k, reviews)
  BY <1>2, <1>4, KindsTell DEF JobOk
<1>6. /\ q \in k.todo /\ q \in DOMAIN k.rows /\ q \in DOMAIN k.read
      /\ i \in Games /\ reviews[i].ts = k.rows[q].ts /\ reviews[i].match = k.rows[q].match
      /\ name \in Range(PERTURBATIONS)
      /\ ~ (name = "no_opponent_spike" /\ k.rows[q].match \notin Spiked)
  <2>. HIDE DEF k, i, q, name
  <2>1. LET p == Min(k.todo)  n == Max(Named(k.rows[p], k.known))
        IN  /\ p \in k.todo /\ p \in DOMAIN k.rows /\ p \in DOMAIN k.read
            /\ n \in Games /\ reviews[n].ts = k.rows[p].ts /\ reviews[n].match = k.rows[p].match
            /\ k.rows[p].name \in Range(PERTURBATIONS)
            /\ ~ (k.rows[p].name = "no_opponent_spike" /\ k.rows[p].match \notin Spiked)
    BY <1>2, <1>5, RetriedIsNamed
  <2>. QED
    BY <2>1 DEF i, q, name
<1>7. job' = [job EXCEPT ![c] = j]
  BY <1>3
<1>. HIDE DEF i, q, name
<1>8. /\ row \in RunRows /\ RowOk(row, reviews)
      /\ row.ts = reviews[i].ts /\ row.match = reviews[i].match /\ row.name = name /\ row.verdict = verdict
      /\ ~ (name = "no_opponent_spike" /\ reviews[i].match \notin Spiked) => verdict # "skipped"
  BY <1>3, <1>6, RowIsOk
<1>9. row.ts = k.rows[q].ts /\ row.match = k.rows[q].match /\ row.name = k.rows[q].name /\ row.verdict # "skipped"
  BY <1>6, <1>8 DEF name
<1>. HIDE DEF row
<1>10. k.rows \in Seq(RunRows) /\ k.read \in Seq(RunRows) /\ k.todo \in SUBSET Nat /\ k.known \in Nat /\ k.kind = "retry"
  BY <1>5 DEF Retries
<1>11. /\ runs \in Seq(RunRows) /\ Len(runs) = Len(k.rows) /\ DOMAIN runs = DOMAIN k.rows
       /\ runs[q] = row /\ \A p \in DOMAIN k.rows : p # q => runs[p] = k.rows[p]
  BY <1>6, <1>8, <1>10
<1>. HIDE DEF runs
<1>12. todo \in SUBSET Nat /\ todo \subseteq k.todo /\ q \notin todo /\ \A p \in k.todo : p # q => p \in todo
  BY <1>10
<1>. HIDE DEF todo
<1>13. /\ j \in Retries /\ j.kind = "retry" /\ j.todo = todo /\ j.rows = runs /\ j.read = k.read /\ j.known = k.known
  BY <1>5, <1>11, <1>12 DEF Retries
<1>. HIDE DEF j, k
<1>14. RetryOk(j, reviews)
  <2>1. DOMAIN k.rows = DOMAIN k.read /\ Len(k.rows) = Len(k.read)
    BY <1>5, <1>10 DEF RetryOk
  <2>2. RowsOk(runs, reviews)
    <3>1. \A p \in DOMAIN k.rows : RowOk(k.rows[p], reviews)
      BY <1>5 DEF RetryOk, RowsOk
    <3>. QED
      BY <1>8, <1>11, <3>1 DEF RowsOk
  <2>3. ASSUME NEW p \in DOMAIN k.read
        PROVE  /\ k.read[p].base <= k.known
               /\ p \in todo => k.read[p].verdict = "error"
               /\ k.read[p].verdict # "error" \/ p \in todo => runs[p] = k.read[p]
               /\ runs[p].ts = k.read[p].ts /\ runs[p].name = k.read[p].name /\ runs[p].match = k.read[p].match
               /\ runs[p].verdict # "skipped" \/ k.read[p].verdict = "skipped"
    <3>1. /\ k.read[p].base <= k.known
          /\ p \in k.todo => k.read[p].verdict = "error"
          /\ k.read[p].verdict # "error" \/ p \in k.todo => k.rows[p] = k.read[p]
          /\ k.rows[p].ts = k.read[p].ts /\ k.rows[p].name = k.read[p].name /\ k.rows[p].match = k.read[p].match
          /\ k.rows[p].verdict # "skipped" \/ k.read[p].verdict = "skipped"
      BY <1>5 DEF RetryOk
    <3>2. CASE p = q
      BY <1>6, <1>9, <1>11, <1>12, <3>1, <3>2
    <3>3. CASE p # q
      BY <1>11, <1>12, <2>1, <3>1, <3>3
    <3>. QED
      BY <3>2, <3>3
  <2>4. RowsOk(j.read, reviews) /\ j.known <= Len(reviews) /\ j.todo \subseteq DOMAIN j.read
    BY <1>5, <1>12, <1>13 DEF RetryOk
  <2>. QED
    BY <1>10, <1>11, <1>13, <2>1, <2>2, <2>3, <2>4 DEF RetryOk
<1>15. ~ Writes(j) /\ j \in Jobs /\ JobOk(j, reviews, left')
  BY <1>13, <1>14 DEF JobOk, Writes, Jobs
<1>16. IsFiniteSet(DOMAIN failed') /\ left' \in [DOMAIN session.commands -> Nat] /\ Fewer(left, left')
  BY <1>1, <1>2, SameLeft DEF CommandsTypes
<1>. QED
  BY <1>2, <1>7, <1>15, <1>16, QuietStep

(* The review that is annotated next is one of those that wait. *)
LEMMA OldestOfIsOne ==
    ASSUME CommandsInv, NEW todo, todo \subseteq DOMAIN reviews, todo # {}
    PROVE  OldestOf(todo) \in todo
<1>. DEFINE R == {p \in todo \X todo : reviews[p[1]].ts < reviews[p[2]].ts
                                       \/ (reviews[p[1]].ts = reviews[p[2]].ts /\ p[1] < p[2])}
<1>1. \A x \in todo : x \in Nat /\ reviews[x].ts \in Nat
  BY ReviewsAreFinite
<1>2. IsFiniteSet(todo)
  BY ReviewsAreFinite, FS_Subset
<1>3. \A x, y \in todo : <<x, y>> \in R <=> reviews[x].ts < reviews[y].ts \/ (reviews[x].ts = reviews[y].ts /\ x < y)
  OBVIOUS
<1>. HIDE DEF R
<1>4. \A x, y, z \in todo : <<x, y>> \in R /\ <<y, z>> \in R => <<x, z>> \in R
  BY <1>1, <1>3
<1>5. \A x, y \in todo : x # y => <<x, y>> \in R \/ <<y, x>> \in R
  BY <1>1, <1>3
<1>6. \E x \in todo : \A y \in todo \ {x} : <<x, y>> \in R
  BY <1>2, <1>4, <1>5, LeastExists
<1>7. \E x \in todo : \A y \in todo \ {x} : reviews[x].ts < reviews[y].ts \/ (reviews[x].ts = reviews[y].ts /\ x < y)
  BY <1>3, <1>6
<1>. QED
  BY <1>7 DEF OldestOf

(* An answer about one review is the answer found under its timestamp. *)
LEMMA AnswerIsFound ==
    ASSUME CommandsAssumption, CommandsInv, UNCHANGED reviews, NEW i \in DOMAIN reviews, NEW a \in Answers,
           feedback' = Replaced(feedback, reviews[i].ts, a), judged' = [judged EXCEPT ![i] = a]
    PROVE  judged' \in Seq(Answers \cup {None}) /\ Len(judged') = Len(reviews) /\ Answered'
<1>1. OneStamp(reviews) /\ Answered /\ judged \in Seq(Answers \cup {None}) /\ Len(judged) = Len(reviews)
  BY DEF CommandsInv, CommandsTypes
<1>2. /\ judged' \in Seq(Answers \cup {None}) /\ Len(judged') = Len(reviews)
      /\ judged'[i] = a /\ \A n \in DOMAIN reviews : n # i => judged'[n] = judged[n]
  <2>1. DOMAIN reviews = 1 .. Len(reviews) /\ DOMAIN judged = 1 .. Len(judged)
    BY <1>1, ReviewsAreFinite
  <2>. QED
    BY <1>1, <2>1
<1>3. a # None
  BY DEF CommandsAssumption
<1>. DEFINE ts == reviews[i].ts
<1>4. /\ DOMAIN feedback' = DOMAIN feedback \cup {ts} /\ feedback'[ts] = a
      /\ \A t \in DOMAIN feedback : t # ts => feedback'[t] = feedback[t]
  BY DEF Replaced
<1>5. ASSUME NEW t \in DOMAIN feedback' PROVE \E n \in DOMAIN reviews : reviews[n].ts = t /\ judged'[n] # None
  <2>1. CASE t = ts
    BY <1>2, <1>3, <2>1
  <2>2. CASE t # ts
    <3>1. PICK n \in DOMAIN reviews : reviews[n].ts = t /\ judged[n] # None
      BY <1>1, <1>4, <1>5, <2>2 DEF Answered
    <3>. QED
      BY <1>2, <1>3, <3>1
  <2>. QED
    BY <2>1, <2>2
<1>6. ASSUME NEW n \in DOMAIN reviews, judged'[n] # None
      PROVE  reviews[n].ts \in DOMAIN feedback' /\ (~ TwinOf(n, reviews) => feedback'[reviews[n].ts] = judged'[n])
  <2>1. CASE n = i
    BY <1>2, <1>4, <2>1
  <2>2. CASE n # i
    <3>1. judged[n] # None /\ judged'[n] = judged[n]
      BY <1>2, <1>6, <2>2
    <3>2. reviews[n].ts \in DOMAIN feedback /\ (~ TwinOf(n, reviews) => feedback[reviews[n].ts] = judged[n])
      BY <1>1, <3>1 DEF Answered
    <3>3. ~ TwinOf(n, reviews) => reviews[n].ts # ts
      BY <1>1, <2>2 DEF OneStamp, TwinOf
    <3>. QED
      BY <1>4, <3>1, <3>2, <3>3
  <2>. QED
    BY <2>1, <2>2
<1>. HIDE DEF ts
<1>7. Answered'
  BY <1>5, <1>6 DEF Answered
<1>. QED
  BY <1>2, <1>7

(* One review is answered, or skipped. *)
LEMMA RateStep ==
    ASSUME CommandsAssumption, CommandsInv, NEW c \in Commands, Rate(c)
    PROVE  CommandsInv'
<1>. DEFINE k == job[c]  i == OldestOf(k.todo)  j == [k EXCEPT !.todo = @ \ {i}]
<1>1. CommandsTypes /\ JobsOk(job, reviews, left)
  BY DEF CommandsInv
<1>2. /\ k.kind = "annotate" /\ k.todo # {} /\ job' = [job EXCEPT ![c] = j]
      /\ UNCHANGED <<session, clock, reviews, failed, report, left>>
  BY DEF Rate, Put
<1>3. k \in Jobs /\ JobOk(k, reviews, left)
  BY <1>1 DEF CommandsTypes, JobsOk
<1>4. k \in Annotations /\ k.todo \subseteq DOMAIN reviews
  BY <1>2, <1>3, KindsTell DEF JobOk
<1>5. i \in DOMAIN reviews
  BY <1>2, <1>4, OldestOfIsOne
<1>6. j \in Annotations /\ j.kind = "annotate" /\ j.todo \subseteq k.todo
  BY <1>4 DEF Annotations
<1>7. \/ UNCHANGED <<feedback, judged>>
      \/ \E a \in Answers : feedback' = Replaced(feedback, reviews[i].ts, a) /\ judged' = [judged EXCEPT ![i] = a]
  BY DEF Rate
<1>. HIDE DEF i, j, k
<1>8. ~ Writes(j) /\ j \in Jobs /\ JobOk(j, reviews, left')
  BY <1>4, <1>6 DEF JobOk, Writes, Jobs
<1>9. IsFiniteSet(DOMAIN failed') /\ left' \in [DOMAIN session.commands -> Nat] /\ Fewer(left, left')
  BY <1>1, <1>2, SameLeft DEF CommandsTypes
<1>10. CASE UNCHANGED <<feedback, judged>>
  BY <1>2, <1>8, <1>9, <1>10, QuietStep
<1>11. CASE \E a \in Answers : feedback' = Replaced(feedback, reviews[i].ts, a) /\ judged' = [judged EXCEPT ![i] = a]
  <2>1. judged' \in Seq(Answers \cup {None}) /\ Len(judged') = Len(reviews) /\ Answered'
    BY <1>2, <1>5, <1>11, AnswerIsFound
  <2>2. report' = None \/ report' \in Seq(RunRows)
    BY <1>1, <1>2 DEF CommandsTypes
  <2>3. report' # None => RowsOk(report', reviews)
    BY <1>2 DEF CommandsInv
  <2>. QED
    BY <1>2, <1>8, <1>9, <2>1, <2>2, <2>3, SilentStep
<1>. QED
  BY <1>7, <1>10, <1>11

(* The clock, or nothing. *)
LEMMA ClockStep ==
    ASSUME CommandsInv, ClockTicks \/ UNCHANGED commandVars
    PROVE  CommandsInv'
<1>1. UNCHANGED <<session, reviews, feedback, failed, report, job, left, judged>> /\ (clock' = clock + 1 \/ clock' = clock)
  BY DEF ClockTicks, commandVars
<1>2. CommandsTypes'
  BY <1>1 DEF CommandsInv, CommandsTypes
<1>3. ReviewedOnce' /\ Answered'
  BY <1>1 DEF CommandsInv, ReviewedOnce, Games, Answered
<1>. QED
  BY <1>1, <1>2, <1>3 DEF CommandsInv

(* The invariant holds at first. *)
LEMMA CommandsStart == ASSUME CommandsAssumption, CommandsInit PROVE CommandsInv
<1>1. /\ session \in Sessions /\ clock = 0 /\ reviews = <<>> /\ feedback = << >> /\ failed = << >> /\ report = None
      /\ job = [c \in Commands |-> Idle] /\ left = session.commands /\ judged = <<>>
  BY DEF CommandsInit
<1>2. left \in [DOMAIN session.commands -> Nat]
  BY <1>1 DEF CommandsAssumption
<1>3. DOMAIN reviews = {} /\ DOMAIN failed = {} /\ DOMAIN feedback = {} /\ Len(reviews) = 0 /\ Len(judged) = 0
      /\ reviews \in Seq(Range(reviews)) /\ judged \in Seq(Answers \cup {None})
  BY <1>1
<1>4. \A c \in Commands : job[c] \in Jobs /\ ~ Writes(job[c]) /\ JobOk(job[c], reviews, left)
  BY <1>1, IdleIsOk
<1>5. job \in [Commands -> Jobs]
  BY <1>1, <1>4
<1>6. CommandsTypes
  <2>1. IsFiniteSet(DOMAIN failed)
    BY <1>3, FS_EmptySet
  <2>. QED
    BY <1>1, <1>2, <1>3, <1>5, <2>1 DEF CommandsTypes
<1>7. JobsOk(job, reviews, left)
  BY <1>4 DEF JobsOk
<1>8. LinesOk(reviews, left) /\ OneStamp(reviews) /\ Answered /\ ReviewedOnce
  BY <1>3 DEF LinesOk, OneStamp, Answered, ReviewedOnce, Games
<1>. QED
  BY <1>1, <1>6, <1>7, <1>8 DEF CommandsInv

(* Every step keeps the invariant. *)
LEMMA CommandsStep == ASSUME CommandsAssumption, CommandsInv, [CommandsNext]_commandVars PROVE CommandsInv'
<1>1. CASE ClockTicks \/ UNCHANGED commandVars
  BY <1>1, ClockStep
<1>2. ASSUME NEW c \in Commands,
             \/ StartBatch(c) \/ NextGame(c) \/ EndBatch(c) \/ StartGame(c) \/ StartSynthesis(c)
             \/ Persist(c) \/ Fails(c) \/ SaveFailed(c)
             \/ StartAnnotate(c) \/ Rate(c) \/ EndAnnotate(c)
             \/ StartExperiment(c) \/ RunOne(c) \/ EndExperiment(c) \/ StartRetry(c) \/ RetryOne(c)
             \/ CommandKilled(c)
      PROVE  CommandsInv'
  <2>1. CASE StartBatch(c)
    BY <2>1, StartBatchStep
  <2>2. CASE NextGame(c)
    BY <2>2, NextGameStep
  <2>3. CASE StartGame(c) \/ StartSynthesis(c)
    BY <2>3, StartOneStep
  <2>4. CASE EndBatch(c) \/ EndAnnotate(c) \/ CommandKilled(c)
    BY <2>4, RestStep
  <2>5. CASE Persist(c)
    BY <2>5, PersistStep
  <2>6. CASE Fails(c) \/ SaveFailed(c)
    BY <2>6, FailsStep
  <2>7. CASE StartAnnotate(c)
    BY <2>7, StartAnnotateStep
  <2>8. CASE Rate(c)
    BY <2>8, RateStep
  <2>9. CASE StartExperiment(c)
    BY <2>9, StartExperimentStep
  <2>10. CASE RunOne(c)
    BY <2>10, RunOneStep
  <2>11. CASE EndExperiment(c)
    BY <2>11, EndExperimentStep
  <2>12. CASE StartRetry(c)
    BY <2>12, StartRetryStep
  <2>13. CASE RetryOne(c)
    BY <2>13, RetryOneStep
  <2>. QED
    BY <1>2, <2>1, <2>2, <2>3, <2>4, <2>5, <2>6, <2>7, <2>8, <2>9, <2>10, <2>11, <2>12, <2>13
<1>. QED
  BY <1>1, <1>2 DEF CommandsNext

(* A batch took the newest games nobody reviewed (coach.py). *)
LEMMA BatchIsOwedHolds == ASSUME CommandsInv PROVE BatchIsOwed
<1>1. SUFFICES ASSUME NEW c \in {d \in Commands : job[d].kind = "batch"}
               PROVE  LET had == {reviews[i].match : i \in Games \cap 1 .. job[c].since}
                          mine == {r \in Range(Records) : InScope(r.role, job[c].scope)}
                          at(m) == Max({r.at : r \in {x \in mine : x.match = m}})
                          scoped == {r.match : r \in mine}
                          owed == Range(job[c].owed)
                      IN  /\ owed \subseteq scoped \ had
                          /\ Cardinality(owed) = Min({BATCH, Cardinality(scoped \ had)})
                          /\ \A m \in scoped \ (had \cup owed), n \in owed : at(m) <= at(n)
  BY DEF BatchIsOwed
<1>2. Owes(Range(job[c].owed), Had(reviews, job[c].since), job[c].scope)
  BY DEF CommandsInv, JobsOk, JobOk, BatchOk
<1>3. Had(reviews, job[c].since) = {reviews[i].match : i \in Games \cap 1 .. job[c].since}
  BY DEF Had, GamesOf, Games
<1>. QED
  BY <1>2, <1>3 DEF Owes, ScopedMatches, AtOf, RowsInScope

(* A retry keeps the verdicts of the report (counterfactual.py). *)
LEMMA RetryKeepsVerdictsHolds == ASSUME CommandsAssumption, CommandsInv PROVE RetryKeepsVerdicts
<1>1. SUFFICES ASSUME NEW c \in {d \in Commands : job[d].kind = "retry"}, NEW k \in DOMAIN job[c].read
               PROVE  LET before == job[c].read[k]  after == job[c].rows[k] IN
                      /\ before.verdict # "error" => after = before
                      /\ after.name = before.name /\ after.match = before.match
                      /\ after.verdict # "skipped" \/ before.verdict = "skipped"
                      /\ after.base # before.base => reviews[after.base].ts = reviews[before.base].ts
  BY DEF RetryKeepsVerdicts
<1>. DEFINE before == job[c].read[k]  after == job[c].rows[k]
<1>2. RetryOk(job[c], reviews) /\ job[c] \in Jobs /\ job[c].kind = "retry"
  BY DEF CommandsInv, CommandsTypes, JobsOk, JobOk
<1>3. job[c] \in Retries
  BY <1>2, KindsTell
<1>4. /\ before.verdict # "error" => after = before
      /\ after.ts = before.ts /\ after.name = before.name /\ after.match = before.match
      /\ after.verdict # "skipped" \/ before.verdict = "skipped"
  BY <1>2 DEF RetryOk
<1>5. after.ts = reviews[after.base].ts /\ before.ts = reviews[before.base].ts
  <2>1. job[c].rows \in Seq(RunRows) /\ job[c].read \in Seq(RunRows) /\ Len(job[c].rows) = Len(job[c].read)
    BY <1>2, <1>3 DEF Retries, RetryOk
  <2>2. k \in DOMAIN job[c].rows
    BY <2>1
  <2>. QED
    BY <1>2, <2>2 DEF RetryOk, RowsOk, RowOk
<1>. QED
  BY <1>4, <1>5

(* What the invariant says of the reviews, the answers and the report. *)
LEMMA CommandsAreTrue == ASSUME CommandsAssumption, CommandsInv PROVE GamesCountOnce /\ JoinsAreTrue
<1>1. LinesOk(reviews, left) /\ OneStamp(reviews) /\ Answered /\ ReviewedOnce
  BY DEF CommandsInv
<1>2. Len(reviews) \in Nat /\ DOMAIN reviews = 1 .. Len(reviews)
  BY ReviewsAreFinite
<1>3. SampleIsFair
  BY <1>1, <1>2, SampleIsFairHolds
<1>4. MetricIsTrue
  BY <1>1, <1>2, MetricIsTrueHolds
<1>5. BatchIsOwed /\ RetryKeepsVerdicts
  BY BatchIsOwedHolds, RetryKeepsVerdictsHolds
<1>. QED
  BY <1>1, <1>3, <1>4, <1>5 DEF GamesCountOnce, JoinsAreTrue

(* The invariant holds in every state of the commands. *)
THEOREM CommandsInvariant == ASSUME CommandsAssumption PROVE CommandsSpec => []CommandsInv
<1>1. CommandsInit => CommandsInv
  BY CommandsStart
<1>2. CommandsInv /\ [CommandsNext]_commandVars => CommandsInv'
  BY CommandsStep
<1>. QED
  BY <1>1, <1>2, PTL DEF CommandsSpec

(* A game counts once: a batch takes the newest games without a review and *)
(* writes each of them once, a synthesis quotes each game once and both    *)
(* outcomes alike (coach.py, payload.py); for any rows, scopes, sessions and *)
(* sizes of a batch.                                                       *)
THEOREM GamesCountOnceCorrect == ASSUME CommandsAssumption PROVE CommandsSpec => []GamesCountOnce
<1>1. CommandsInv => GamesCountOnce
  BY CommandsAreTrue
<1>. QED
  BY <1>1, CommandsInvariant, PTL

(* What refers to a review by its second refers to the right one: what is  *)
(* published of the answers is what was answered, and a retry changes no   *)
(* verdict (feedback.py, counterfactual.py); for any sessions and answers. *)
THEOREM JoinsAreTrueCorrect == ASSUME CommandsAssumption PROVE CommandsSpec => []JoinsAreTrue
<1>1. CommandsInv => JoinsAreTrue
  BY CommandsAreTrue
<1>. QED
  BY <1>1, CommandsInvariant, PTL

-----------------------------------------------------------------------------
(* The units of a text. *)

(* The words a review may be written with. *)
GivenWords == UNION {p.words : p \in Payloads}

(* A text is a sequence of fair words. *)
LEMMA TextFacts ==
    ASSUME GroundingAssumption, NEW text \in Seq(GivenWords)
    PROVE  /\ Len(text) \in Nat /\ DOMAIN text = 1 .. Len(text)
           /\ \A i \in DOMAIN text : WordIsFair(text[i])
           /\ \A i \in Numbers(text) : i \in DOMAIN text /\ i \in Nat /\ IsNumber(text[i])
<1>1. Len(text) \in Nat /\ DOMAIN text = 1 .. Len(text) /\ \A i \in DOMAIN text : text[i] \in GivenWords
  OBVIOUS
<1>2. \A w \in GivenWords : WordIsFair(w)
  BY DEF GivenWords, GroundingAssumption, PayloadIsFair
<1>. QED
  BY <1>1, <1>2 DEF Numbers

(* A number is worth a natural. *)
LEMMA ValueIsNatural ==
    ASSUME NEW word, WordIsFair(word), IsNumber(word)
    PROVE  Value(word) \in Nat
<1>. DEFINE pow == [w \in 0 .. 3 |-> CASE w = 0 -> 1 [] w = 1 -> 10 [] w = 2 -> 100 [] w = 3 -> ONE]
<1>1. word.lead \in Nat /\ word.tail \in Nat /\ word.width \in 0 .. 3
  BY DEF WordIsFair, IsNumber
<1>2. pow[0] = 1 /\ pow[1] = 10 /\ pow[2] = 100 /\ pow[3] = ONE
  OBVIOUS
<1>3. ONE \div pow[word.width] \in Nat
  <2>1. word.width = 0 \/ word.width = 1 \/ word.width = 2 \/ word.width = 3
    BY <1>1
  <2>. HIDE DEF pow
  <2>. QED
    BY <1>2, <2>1 DEF ONE
<1>4. Value(word) = IF word.sep = "," /\ word.width = 3 /\ word.lead \in 1 .. 999
                    THEN (word.lead * ONE + word.tail) * ONE
                    ELSE word.lead * ONE + word.tail * (ONE \div pow[word.width])
  BY DEF Value
<1>. HIDE DEF pow
<1>5. /\ (word.lead * ONE + word.tail) * ONE \in Nat
  BY <1>1 DEF ONE
<1>6. word.tail * (ONE \div pow[word.width]) \in Nat
  BY <1>1, <1>3
<1>7. word.lead * ONE + word.tail * (ONE \div pow[word.width]) \in Nat
  BY <1>1, <1>6 DEF ONE
<1>. QED
  BY <1>4, <1>5, <1>7

(* A state of the unit is the first, or the change one word makes. *)
LEMMA StatesAre ==
    ASSUME GroundingAssumption, NEW text \in Seq(GivenWords), NEW t \in UnitStates(text)
    PROVE  /\ t.at \in Nat /\ t.unit \in UNITS \cup {None}
           /\ \/ t = [at |-> 0, unit |-> None]
              \/ \E j \in DOMAIN text : t \in ChangesAt(text, j) /\ t.at \in {2 * j, 2 * j + 1}
<1>1. CASE t = [at |-> 0, unit |-> None]
  BY <1>1
<1>2. ASSUME NEW j \in DOMAIN text, t \in ChangesAt(text, j)
      PROVE  t.at \in {2 * j, 2 * j + 1} /\ t.unit \in UNITS \cup {None} /\ j \in Nat
  <2>1. WordIsFair(text[j]) /\ j \in Nat
    BY TextFacts
  <2>2. text[j].kind = "trigger" => text[j].unit \in UNITS
    BY <2>1 DEF WordIsFair
  <2>. QED
    BY <1>2, <2>1, <2>2 DEF ChangesAt
<1>3. t = [at |-> 0, unit |-> None] \/ \E j \in DOMAIN text : t \in ChangesAt(text, j)
  BY DEF UnitStates
<1>. QED
  BY <1>1, <1>2, <1>3

(* What a word breaks, in the sentence: text[j] for a number after it. *)
Breaks(text, j, i) ==
    \/ text[j].kind = "stop"
    \/ text[j].kind = "comma" /\ ~(i > j /\ Enumerates(text, j))
    \/ IsNumber(text[j]) /\ text[j].sep = "."
Clean(text, j, i) == text[j].kind = "trigger" /\ \A k \in j .. i - 1 : ~Breaks(text, k, i)
Triggers(text, i) == {j \in 1 .. i - 1 : Clean(text, j, i)}

(* The unit of the sentence, in these words. *)
LEMMA GoverningIs ==
    ASSUME NEW text, NEW i
    PROVE  Governing(text, i) =
             IF UnitOfCitation(text, i) # ANY THEN UnitOfCitation(text, i)
             ELSE IF Triggers(text, i) = {} THEN ANY ELSE text[Max(Triggers(text, i))].unit
BY DEF Governing, Triggers, Clean, Breaks

(* The changes before a number are its triggers and its breaks. *)
LEMMA ChangesAre ==
    ASSUME GroundingAssumption, NEW text \in Seq(GivenWords), NEW i \in Numbers(text), NEW j \in 1 .. i - 1
    PROVE  /\ text[j].kind = "trigger" => [at |-> 2 * j, unit |-> text[j].unit] \in UnitStates(text)
           /\ Breaks(text, j, i) => \E t \in UnitStates(text) : t.at \in {2 * j, 2 * j + 1}
           /\ \A t \in ChangesAt(text, j) :
                \/ text[j].kind = "trigger" /\ t.at = 2 * j /\ t.unit = text[j].unit /\ ~Breaks(text, j, i)
                \/ t.unit = None /\ Breaks(text, j, i) /\ text[j].kind # "trigger"
<1>1. i \in Nat /\ i \in DOMAIN text /\ j \in DOMAIN text /\ i > j
  BY TextFacts
<1>2. ChangesAt(text, j) \subseteq UnitStates(text)
  BY <1>1 DEF UnitStates
<1>3. text[j].kind = "trigger" => ChangesAt(text, j) = {[at |-> 2 * j, unit |-> text[j].unit]} /\ ~Breaks(text, j, i)
  BY DEF ChangesAt, Breaks, IsNumber
<1>4. Breaks(text, j, i) => \/ ChangesAt(text, j) = {[at |-> 2 * j, unit |-> None]}
                            \/ ChangesAt(text, j) = {[at |-> 2 * j + 1, unit |-> None]}
  BY <1>1 DEF ChangesAt, Breaks, IsNumber
<1>5. text[j].kind # "trigger" /\ ~Breaks(text, j, i) => ChangesAt(text, j) = {}
  BY <1>1 DEF ChangesAt, Breaks, IsNumber
<1>6. Breaks(text, j, i) => text[j].kind # "trigger"
  BY DEF Breaks, IsNumber
<1>7. Breaks(text, j, i) => \E t \in UnitStates(text) : t.at \in {2 * j, 2 * j + 1}
  <2>1. CASE ChangesAt(text, j) = {[at |-> 2 * j, unit |-> None]}
    <3>1. [at |-> 2 * j, unit |-> None] \in UnitStates(text)
      BY <1>2, <2>1
    <3>. QED
      BY <3>1
  <2>2. CASE ChangesAt(text, j) = {[at |-> 2 * j + 1, unit |-> None]}
    <3>1. [at |-> 2 * j + 1, unit |-> None] \in UnitStates(text)
      BY <1>2, <2>2
    <3>. QED
      BY <3>1
  <2>. QED
    BY <1>4, <2>1, <2>2
<1>8. text[j].kind = "trigger" => [at |-> 2 * j, unit |-> text[j].unit] \in UnitStates(text)
  BY <1>2, <1>3
<1>9. ASSUME NEW t \in ChangesAt(text, j)
      PROVE  \/ text[j].kind = "trigger" /\ t.at = 2 * j /\ t.unit = text[j].unit /\ ~Breaks(text, j, i)
             \/ t.unit = None /\ Breaks(text, j, i) /\ text[j].kind # "trigger"
  <2>1. CASE text[j].kind = "trigger"
    BY <1>3, <1>9, <2>1
  <2>2. CASE text[j].kind # "trigger" /\ Breaks(text, j, i)
    BY <1>4, <1>9, <2>2
  <2>3. CASE text[j].kind # "trigger" /\ ~Breaks(text, j, i)
    BY <1>5, <1>9, <2>3
  <2>. QED
    BY <2>1, <2>2, <2>3
<1>. QED
  BY <1>7, <1>8, <1>9

(* The last state before a number is the unit of its sentence. *)
LEMMA LastStateGoverns ==
    ASSUME GroundingAssumption, NEW text \in Seq(GivenWords), NEW i \in Numbers(text),
           UnitOfCitation(text, i) = ANY, NEW t \in UnitStates(text), t.at <= 2 * i,
           \A u \in UnitStates(text) : u.at <= 2 * i => u.at <= t.at
    PROVE  (IF t.unit = None THEN ANY ELSE t.unit) = Governing(text, i)
<1>0. i \in Nat /\ i \in DOMAIN text /\ IsNumber(text[i]) /\ DOMAIN text = 1 .. Len(text) /\ Len(text) \in Nat
  BY TextFacts
<1>1. t.at \in Nat /\ t.unit \in UNITS \cup {None}
  BY StatesAre
<1>2. ASSUME NEW j \in Triggers(text, i) PROVE j \in 1 .. i - 1 /\ 2 * j <= t.at
  <2>1. j \in 1 .. i - 1 /\ text[j].kind = "trigger"
    BY DEF Triggers, Clean
  <2>2. [at |-> 2 * j, unit |-> text[j].unit] \in UnitStates(text)
    BY <2>1, ChangesAre
  <2>3. j \in Nat /\ 2 * j <= 2 * i
    BY <1>0, <2>1
  <2>. QED
    BY <2>1, <2>2, <2>3
<1>3. CASE t = [at |-> 0, unit |-> None]
  <2>1. Triggers(text, i) = {}
    BY <1>2, <1>3
  <2>. QED
    BY <1>3, <2>1, GoverningIs
<1>4. CASE \E j \in DOMAIN text : t \in ChangesAt(text, j) /\ t.at \in {2 * j, 2 * j + 1}
  <2>1. PICK j \in DOMAIN text : t \in ChangesAt(text, j) /\ t.at \in {2 * j, 2 * j + 1}
    BY <1>4
  <2>2. j # i
    <3>1. \A u \in ChangesAt(text, i) : u.at = 2 * i + 1
      BY <1>0 DEF ChangesAt, IsNumber
    <3>. QED
      BY <1>0, <2>1, <3>1
  <2>3. j \in 1 .. i - 1
    BY <1>0, <1>1, <2>1, <2>2
  <2>4. CASE text[j].kind = "trigger" /\ t.at = 2 * j /\ t.unit = text[j].unit /\ ~Breaks(text, j, i)
    <3>1. ASSUME NEW k \in j + 1 .. i - 1 PROVE ~Breaks(text, k, i) /\ text[k].kind # "trigger"
      <4>1. k \in 1 .. i - 1 /\ k \in Nat /\ k > j
        BY <1>0, <2>3
      <4>2. \A u \in UnitStates(text) : u.at \notin {2 * k, 2 * k + 1}
        BY <1>0, <2>3, <2>4, <4>1
      <4>3. text[k].kind # "trigger"
        <5>1. text[k].kind = "trigger" => [at |-> 2 * k, unit |-> text[k].unit] \in UnitStates(text)
          BY <4>1, ChangesAre
        <5>. QED
          BY <4>2, <5>1
      <4>4. ~Breaks(text, k, i)
        BY <4>1, <4>2, ChangesAre
      <4>. QED
        BY <4>3, <4>4
    <3>2. j \in Triggers(text, i)
      <4>1. \A k \in j .. i - 1 : k = j \/ k \in j + 1 .. i - 1
        BY <1>0, <2>3
      <4>. QED
        BY <2>3, <2>4, <3>1, <4>1 DEF Triggers, Clean
    <3>3. \A k \in Triggers(text, i) : k <= j
      <4>1. ASSUME NEW k \in Triggers(text, i) PROVE k <= j
        <5>1. k \in 1 .. i - 1 /\ text[k].kind = "trigger"
          BY DEF Triggers, Clean
        <5>2. k \notin j + 1 .. i - 1
          BY <3>1, <5>1
        <5>. QED
          BY <1>0, <2>3, <5>1, <5>2
      <4>. QED
        BY <4>1
    <3>4. Max(Triggers(text, i)) = j
      <4>1. \A x \in Triggers(text, i) : x \in Nat
        BY <1>0 DEF Triggers
      <4>2. Max(Triggers(text, i)) \in Triggers(text, i) /\ \A x \in Triggers(text, i) : Max(Triggers(text, i)) >= x
        BY <3>2, <3>3, <4>1 DEF Max
      <4>. QED
        BY <3>2, <3>3, <4>1, <4>2
    <3>5. WordIsFair(text[j])
      BY TextFacts
    <3>6. text[j].unit # None
      BY <2>4, <3>5 DEF WordIsFair, GroundingAssumption
    <3>. QED
      BY <2>4, <3>2, <3>4, <3>6, GoverningIs
  <2>5. CASE t.unit = None /\ Breaks(text, j, i) /\ text[j].kind # "trigger"
    <3>1. Triggers(text, i) = {}
      <4>1. ASSUME NEW k \in Triggers(text, i) PROVE FALSE
        <5>1. k \in 1 .. i - 1 /\ 2 * k <= t.at
          BY <1>2
        <5>2. text[k].kind = "trigger" /\ \A l \in k .. i - 1 : ~Breaks(text, l, i)
          BY DEF Triggers, Clean
        <5>3. k <= j
          BY <1>0, <2>1, <2>3, <5>1
        <5>4. j \in k .. i - 1
          BY <1>0, <2>3, <5>1, <5>3
        <5>. QED
          BY <2>5, <5>2, <5>4
      <4>. QED
        BY <4>1
    <3>. QED
      BY <2>5, <3>1, GoverningIs
  <2>. QED
    BY <2>1, <2>3, <2>4, <2>5, ChangesAre
<1>. QED
  BY <1>3, <1>4, StatesAre

(* The scan of a text: a cursor, a unit and what is cited. *)
Scans == [cursor : Int, current : UNITS \cup {None}, out : SUBSET [at : Nat, value : Nat, unit : UNITS \cup {ANY}]]

Passed(text, i, scan) == {s \in UnitStates(text) : scan.cursor < s.at /\ s.at <= 2 * i}
LastOf(passed) == CHOOSE s \in passed : \A t \in passed : t.at <= s.at
Moved(text, i, scan) ==
    IF Passed(text, i, scan) = {} THEN scan
    ELSE [scan EXCEPT !.cursor = LastOf(Passed(text, i, scan)).at, !.current = LastOf(Passed(text, i, scan)).unit]
Citation(text, i, unit) == [at |-> i, value |-> Value(text[i]), unit |-> unit]
UnitIn(scan) == IF scan.current = None THEN ANY ELSE scan.current

(* A citation, in these words. *)
LEMMA CiteIs ==
    ASSUME NEW text, NEW i, NEW scan
    PROVE  Cite(text, UnitStates(text), i, scan) =
             IF UnitOfCitation(text, i) # ANY
             THEN [scan EXCEPT !.out = @ \cup {Citation(text, i, UnitOfCitation(text, i))}]
             ELSE [Moved(text, i, scan) EXCEPT !.out = @ \cup {Citation(text, i, UnitIn(Moved(text, i, scan)))}]
BY DEF Cite, Passed, LastOf, Moved, Citation, UnitIn

(* The cursor stops at the last of the states it passes. *)
LEMMA LastIsPassed ==
    ASSUME GroundingAssumption, NEW text \in Seq(GivenWords), NEW i \in Numbers(text), NEW scan \in Scans,
           Passed(text, i, scan) # {}
    PROVE  /\ LastOf(Passed(text, i, scan)) \in Passed(text, i, scan)
           /\ \A t \in Passed(text, i, scan) : t.at <= LastOf(Passed(text, i, scan)).at
<1>. DEFINE P == Passed(text, i, scan)
            ats == {t.at : t \in P}
<1>1. i \in Nat
  BY TextFacts
<1>2. \A t \in P : t.at \in 0 .. 2 * i
  BY <1>1, StatesAre DEF Passed
<1>3. ats \subseteq 0 .. 2 * i /\ ats # {} /\ 2 * i \in Nat
  BY <1>1, <1>2
<1>4. PICK m \in ats : \A n \in ats : n <= m
  <2>. HIDE DEF ats
  <2>. QED
    BY <1>3, Extremes
<1>5. PICK s \in P : s.at = m
  BY <1>4
<1>6. \A t \in P : t.at <= s.at
  BY <1>4, <1>5
<1>. QED
  BY <1>5, <1>6 DEF LastOf

(* The scan keeps its type. *)
LEMMA CiteIsScan ==
    ASSUME GroundingAssumption, NEW text \in Seq(GivenWords), NEW i \in Numbers(text), NEW scan \in Scans
    PROVE  /\ Moved(text, i, scan) \in Scans /\ Moved(text, i, scan).out = scan.out
           /\ UnitOfCitation(text, i) \in UNITS \cup {ANY}
           /\ Citation(text, i, UnitOfCitation(text, i)) \in [at : Nat, value : Nat, unit : UNITS \cup {ANY}]
           /\ Citation(text, i, UnitIn(Moved(text, i, scan))) \in [at : Nat, value : Nat, unit : UNITS \cup {ANY}]
           /\ Cite(text, UnitStates(text), i, scan) \in Scans
<1>1. i \in Nat /\ i \in DOMAIN text /\ IsNumber(text[i]) /\ WordIsFair(text[i])
      /\ DOMAIN text = 1 .. Len(text) /\ Len(text) \in Nat
  BY TextFacts
<1>2. Value(text[i]) \in Nat
  BY <1>1, ValueIsNatural
<1>3. UnitOfCitation(text, i) \in UNITS \cup {ANY}
  <2>1. CASE i < Len(text) /\ text[i + 1].kind \in {"unit", "trigger"}
    <3>1. WordIsFair(text[i + 1])
      BY <1>1, <2>1, TextFacts
    <3>. QED
      BY <2>1, <3>1 DEF UnitOfCitation, WordIsFair
  <2>2. CASE ~ (i < Len(text) /\ text[i + 1].kind \in {"unit", "trigger"})
    BY <2>2 DEF UnitOfCitation
  <2>. QED
    BY <2>1, <2>2
<1>4. Moved(text, i, scan) \in Scans /\ Moved(text, i, scan).out = scan.out
  <2>1. CASE Passed(text, i, scan) = {}
    BY <2>1 DEF Moved
  <2>2. CASE Passed(text, i, scan) # {}
    <3>. DEFINE last == LastOf(Passed(text, i, scan))
    <3>1. last \in UnitStates(text)
      BY <2>2, LastIsPassed DEF Passed
    <3>2. last.at \in Int /\ last.unit \in UNITS \cup {None}
      BY <3>1, StatesAre
    <3>3. Moved(text, i, scan) = [scan EXCEPT !.cursor = last.at, !.current = last.unit]
      BY <2>2 DEF Moved
    <3>. HIDE DEF last
    <3>. QED
      BY <3>2, <3>3 DEF Scans
  <2>. QED
    BY <2>1, <2>2
<1>5. UnitIn(Moved(text, i, scan)) \in UNITS \cup {ANY}
  BY <1>4 DEF UnitIn, Scans
<1>6. \A unit \in UNITS \cup {ANY} : Citation(text, i, unit) \in [at : Nat, value : Nat, unit : UNITS \cup {ANY}]
  BY <1>1, <1>2 DEF Citation
<1>7. ASSUME NEW any \in Scans, NEW c \in [at : Nat, value : Nat, unit : UNITS \cup {ANY}]
      PROVE  [any EXCEPT !.out = @ \cup {c}] \in Scans
  BY DEF Scans
<1>8. Cite(text, UnitStates(text), i, scan) \in Scans
  <2>1. CASE UnitOfCitation(text, i) # ANY
    <3>1. Cite(text, UnitStates(text), i, scan) = [scan EXCEPT !.out = @ \cup {Citation(text, i, UnitOfCitation(text, i))}]
      BY <2>1, CiteIs
    <3>. QED
      BY <1>3, <1>6, <1>7, <3>1
  <2>2. CASE UnitOfCitation(text, i) = ANY
    <3>1. Cite(text, UnitStates(text), i, scan) =
            [Moved(text, i, scan) EXCEPT !.out = @ \cup {Citation(text, i, UnitIn(Moved(text, i, scan)))}]
      BY <2>2, CiteIs
    <3>. QED
      BY <1>4, <1>5, <1>6, <1>7, <3>1
  <2>. QED
    BY <2>1, <2>2
<1>. QED
  BY <1>3, <1>4, <1>5, <1>6, <1>8

(* What the scan of some numbers says is what the sentence says. *)
Follows(text, scan, s) ==
    /\ {n.at : n \in scan.out} = s
    /\ \A n \in scan.out : n.unit = Governing(text, n.at)
    /\ \/ scan.cursor = -1
       \/ /\ \E t \in UnitStates(text) : t.at = scan.cursor /\ t.unit = scan.current
          /\ \E j \in s : scan.cursor <= 2 * j

(* One number more, the last of them. *)
LEMMA CiteFollows ==
    ASSUME GroundingAssumption, NEW text \in Seq(GivenWords), NEW s \in SUBSET Numbers(text), NEW i \in s,
           \A j \in s : j <= i, NEW scan \in Scans, Follows(text, scan, s \ {i})
    PROVE  Follows(text, Cite(text, UnitStates(text), i, scan), s)
<1>. DEFINE new == Cite(text, UnitStates(text), i, scan)
            moved == Moved(text, i, scan)
            own == UnitOfCitation(text, i)
<1>1. i \in Nat /\ \A j \in s : j \in Nat
  BY TextFacts
<1>2. moved \in Scans /\ moved.out = scan.out
  BY CiteIsScan
<1>3. {n.at : n \in scan.out} = s \ {i} /\ \A n \in scan.out : n.unit = Governing(text, n.at)
  BY DEF Follows
<1>4. CASE own # ANY
  <2>1. new = [scan EXCEPT !.out = @ \cup {Citation(text, i, own)}]
    BY <1>4, CiteIs
  <2>2. new.cursor = scan.cursor /\ new.current = scan.current /\ new.out = scan.out \cup {Citation(text, i, own)}
    BY <2>1 DEF Scans
  <2>3. Citation(text, i, own).at = i /\ Citation(text, i, own).unit = Governing(text, i)
    BY <1>4, GoverningIs DEF Citation
  <2>. HIDE DEF new, own
  <2>4. {n.at : n \in new.out} = s /\ \A n \in new.out : n.unit = Governing(text, n.at)
    BY <1>3, <2>2, <2>3
  <2>5. \/ new.cursor = -1
        \/ /\ \E t \in UnitStates(text) : t.at = new.cursor /\ t.unit = new.current
           /\ \E j \in s : new.cursor <= 2 * j
    BY <2>2 DEF Follows
  <2>. QED
    BY <2>4, <2>5 DEF Follows, new
<1>5. CASE own = ANY
  <2>1. new = [moved EXCEPT !.out = @ \cup {Citation(text, i, UnitIn(moved))}]
    BY <1>5, CiteIs
  <2>2. new.cursor = moved.cursor /\ new.current = moved.current
        /\ new.out = scan.out \cup {Citation(text, i, UnitIn(moved))}
    <3>. HIDE DEF moved, new
    <3>. QED
      BY <1>2, <2>1 DEF Scans
  <2>3. \E t \in UnitStates(text) : /\ t.at = moved.cursor /\ t.unit = moved.current /\ t.at <= 2 * i
                                    /\ \A u \in UnitStates(text) : u.at <= 2 * i => u.at <= t.at
    <3>0. \A u \in UnitStates(text) : u.at \in Nat
      BY StatesAre
    <3>1. CASE Passed(text, i, scan) = {}
      <4>1. moved = scan
        BY <3>1 DEF Moved
      <4>2. [at |-> 0, unit |-> None] \in UnitStates(text)
        BY DEF UnitStates
      <4>3. scan.cursor # -1
        <5>1. scan.cursor = -1 => [at |-> 0, unit |-> None] \in Passed(text, i, scan)
          BY <1>1, <4>2 DEF Passed
        <5>. QED
          BY <3>1, <5>1
      <4>4. PICK t \in UnitStates(text) : t.at = scan.cursor /\ t.unit = scan.current
        BY <4>3 DEF Follows
      <4>5. scan.cursor <= 2 * i
        <5>1. PICK j \in s : scan.cursor <= 2 * j
          BY <4>3 DEF Follows
        <5>2. j <= i /\ j \in Nat
          BY <1>1
        <5>3. scan.cursor \in Nat
          BY <3>0, <4>4
        <5>. QED
          BY <1>1, <5>1, <5>2, <5>3
      <4>6. ASSUME NEW u \in UnitStates(text), u.at <= 2 * i PROVE u.at <= t.at
        <5>1. ~ (scan.cursor < u.at)
          BY <3>1, <4>6 DEF Passed
        <5>. QED
          BY <3>0, <4>4, <5>1
      <4>. QED
        BY <4>1, <4>4, <4>5, <4>6
    <3>2. CASE Passed(text, i, scan) # {}
      <4>. DEFINE last == LastOf(Passed(text, i, scan))
      <4>1. last \in Passed(text, i, scan) /\ \A t \in Passed(text, i, scan) : t.at <= last.at
        BY <3>2, LastIsPassed
      <4>2. moved = [scan EXCEPT !.cursor = last.at, !.current = last.unit]
        BY <3>2 DEF Moved
      <4>. HIDE DEF last, moved
      <4>3. moved.cursor = last.at /\ moved.current = last.unit
        BY <4>2 DEF Scans
      <4>4. last \in UnitStates(text) /\ scan.cursor < last.at /\ last.at <= 2 * i /\ scan.cursor \in Int
        BY <4>1 DEF Passed, Scans
      <4>5. ASSUME NEW u \in UnitStates(text), u.at <= 2 * i PROVE u.at <= last.at
        <5>1. CASE scan.cursor < u.at
          BY <4>1, <4>5, <5>1 DEF Passed
        <5>2. CASE ~ (scan.cursor < u.at)
          BY <3>0, <4>4, <5>2
        <5>. QED
          BY <5>1, <5>2
      <4>. QED
        BY <4>3, <4>4, <4>5
    <3>. QED
      BY <3>1, <3>2
  <2>4. PICK t \in UnitStates(text) : /\ t.at = moved.cursor /\ t.unit = moved.current /\ t.at <= 2 * i
                                      /\ \A u \in UnitStates(text) : u.at <= 2 * i => u.at <= t.at
    BY <2>3
  <2>5. UnitIn(moved) = Governing(text, i)
    <3>1. UnitIn(moved) = IF t.unit = None THEN ANY ELSE t.unit
      BY <2>4 DEF UnitIn
    <3>. HIDE DEF moved
    <3>. QED
      BY <1>5, <2>4, <3>1, LastStateGoverns
  <2>6. Citation(text, i, UnitIn(moved)).at = i /\ Citation(text, i, UnitIn(moved)).unit = Governing(text, i)
    BY <2>5 DEF Citation
  <2>. HIDE DEF new, moved
  <2>7. {n.at : n \in new.out} = s /\ \A n \in new.out : n.unit = Governing(text, n.at)
    BY <1>3, <2>2, <2>6
  <2>8. /\ \E u \in UnitStates(text) : u.at = new.cursor /\ u.unit = new.current
        /\ \E j \in s : new.cursor <= 2 * j
    BY <2>2, <2>4
  <2>. QED
    BY <2>7, <2>8 DEF Follows, new
<1>. QED
  BY <1>4, <1>5

(* Some positions of a sequence have a last one. *)
LEMMA LastPosition ==
    ASSUME NEW n \in Nat, NEW S, S \subseteq 1 .. n
    PROVE  IsFiniteSet(S) /\ \A s \in SUBSET S : s # {} => Max(s) \in s /\ \A j \in s : j <= Max(s)
<1>1. IsFiniteSet(S)
  <2>1. IsFiniteSet(1 .. n)
    BY FS_Interval
  <2>. QED
    BY <2>1, FS_Subset
<1>2. ASSUME NEW s \in SUBSET S, s # {} PROVE Max(s) \in s /\ \A j \in s : j <= Max(s)
  <2>1. s \subseteq 0 .. n
    OBVIOUS
  <2>. QED
    BY <1>2, <2>1, Extremes
<1>. QED
  BY <1>1, <1>2

(* A text without its clocks is a text. *)
LEMMA StrippedIsText ==
    ASSUME NEW text \in Seq(GivenWords)
    PROVE  WithoutClocks(text) \in Seq(GivenWords)
<1>. DEFINE S == {i \in DOMAIN text : text[i].kind # "clock"}
            V == Seq(GivenWords)
            Body(h) == [s \in SUBSET S |-> IF s = {} THEN <<>> ELSE Append(h[s \ {Max(s)}], text[Max(s)])]
            iter == CHOOSE h : h = Body(h)
            op == [p \in S \X V |-> Append(p[2], text[p[1]])]
            pick == [s \in SUBSET S |-> Max(s)]
<1>1. WithoutClocks(text) = iter[S]
  BY DEF WithoutClocks, MapThenFoldSet
<1>2. \A i \in S : text[i] \in GivenWords
  OBVIOUS
<1>3. S \subseteq 1 .. Len(text) /\ Len(text) \in Nat
  OBVIOUS
<1>. HIDE DEF S
<1>4. IsFiniteSet(S) /\ \A s \in SUBSET S : s # {} => Max(s) \in s
  BY <1>3, LastPosition
<1>4a. \A i \in S, out \in V : Append(out, text[i]) \in V
  BY <1>2
<1>5. op \in [S \X V -> V] /\ <<>> \in V
  <2>1. \A p \in S \X V : p[1] \in S /\ p[2] \in V
    OBVIOUS
  <2>2. \A i \in S, out \in V : Append(out, text[i]) \in V
    BY <1>4a
  <2>3. <<>> \in V
    OBVIOUS
  <2>. HIDE DEF V
  <2>. QED
    BY <2>1, <2>2, <2>3
<1>6. \A s \in SUBSET S : s # {} => pick[s] \in s
  BY <1>4
<1>. HIDE DEF V
<1>7. \E F : FoldsBy(F, S, V, <<>>, op, pick)
  <2>. HIDE DEF op, pick
  <2>. QED
    BY <1>4, <1>5, <1>6, FoldExists
<1>8. PICK F : FoldsBy(F, S, V, <<>>, op, pick)
  BY <1>7
<1>9. F \in [SUBSET S -> V] /\ \A s \in SUBSET S : F[s] = IF s = {} THEN <<>> ELSE op[<<pick[s], F[s \ {pick[s]}]>>]
  <2>. HIDE DEF op, pick
  <2>. QED
    BY <1>8 DEF FoldsBy
<1>10. F = Body(F)
  <2>1. ASSUME NEW s \in SUBSET S PROVE F[s] = Body(F)[s]
    <3>1. CASE s = {}
      BY <1>9, <3>1
    <3>2. CASE s # {}
      <4>1. Max(s) \in S /\ F[s \ {Max(s)}] \in V
        BY <1>4, <1>9, <3>2
      <4>2. F[s] = op[<<Max(s), F[s \ {Max(s)}]>>]
        <5>. HIDE DEF op
        <5>. QED
          BY <1>9, <3>2
      <4>3. op[<<Max(s), F[s \ {Max(s)}]>>] = Append(F[s \ {Max(s)}], text[Max(s)])
        BY <4>1
      <4>. QED
        BY <3>2, <4>2, <4>3
    <3>. QED
      BY <3>1, <3>2
  <2>. QED
    BY <1>9, <2>1
<1>11. iter = Body(iter)
  <2>. HIDE DEF Body
  <2>. QED
    BY <1>10
<1>. HIDE DEF iter
<1>. DEFINE Good == {s \in SUBSET S : iter[s] \in V}
<1>12. ASSUME NEW s \in SUBSET S, \A r \in SUBSET s : r # s => r \in Good PROVE s \in Good
  <2>0. iter[s] = Body(iter)[s]
    BY <1>11
  <2>1. CASE s = {}
    BY <1>5, <2>0, <2>1
  <2>2. CASE s # {}
    <3>1. Max(s) \in s /\ s \ {Max(s)} \in Good
      BY <1>4, <1>12, <2>2
    <3>2. iter[s] = Append(iter[s \ {Max(s)}], text[Max(s)])
      BY <2>0, <2>2
    <3>. QED
      BY <1>4a, <3>1, <3>2
  <2>. QED
    BY <2>1, <2>2
<1>13. S \in Good
  <2>1. \A s \in SUBSET S : s \in Good
    <3>. HIDE DEF Good
    <3>. QED
      BY <1>4, <1>12, SubsetInduction
  <2>. QED
    BY <2>1
<1>. QED
  BY <1>1, <1>13 DEF V

(* What a text cites is what its sentences say, for any text. *)
LEMMA CitedFollow ==
    ASSUME GroundingAssumption, NEW words \in Seq(GivenWords)
    PROVE  /\ {n.at : n \in CitedNumbers(words)} = Numbers(WithoutClocks(words))
           /\ \A n \in CitedNumbers(words) :
                /\ n.unit = Governing(WithoutClocks(words), n.at)
                /\ n.at \in Nat /\ n.value \in Nat /\ n.unit \in UNITS \cup {ANY}
<1>. DEFINE text == WithoutClocks(words)
            S == Numbers(text)
            V == Scans
            states == UnitStates(text)
            Body(h) == [s \in SUBSET S |-> IF s = {} THEN NothingCited ELSE Cite(text, states, Max(s), h[s \ {Max(s)}])]
            iter == CHOOSE h : h = Body(h)
            op == [p \in S \X V |-> Cite(text, states, p[1], p[2])]
            pick == [s \in SUBSET S |-> Max(s)]
<1>1. CitedNumbers(words) = iter[S].out
  BY DEF CitedNumbers, MapThenFoldSet
<1>2. text \in Seq(GivenWords)
  BY StrippedIsText
<1>. HIDE DEF text
<1>3. S \subseteq 1 .. Len(text) /\ Len(text) \in Nat
  BY <1>2, TextFacts
<1>4. \A i \in S, scan \in V : Cite(text, states, i, scan) \in V
  BY <1>2, CiteIsScan
<1>5. ASSUME NEW s \in SUBSET S, NEW i \in s, \A j \in s : j <= i, NEW scan \in V, Follows(text, scan, s \ {i})
      PROVE  Follows(text, Cite(text, states, i, scan), s)
  BY <1>2, <1>5, CiteFollows
<1>. HIDE DEF S, states
<1>6. IsFiniteSet(S) /\ \A s \in SUBSET S : s # {} => Max(s) \in s /\ \A j \in s : j <= Max(s)
  BY <1>3, LastPosition
<1>7. NothingCited \in V
  BY DEF NothingCited, Scans
<1>8. op \in [S \X V -> V]
  <2>1. \A p \in S \X V : p[1] \in S /\ p[2] \in V
    OBVIOUS
  <2>. HIDE DEF V
  <2>. QED
    BY <1>4, <2>1
<1>9. \A s \in SUBSET S : s # {} => pick[s] \in s
  BY <1>6
<1>. HIDE DEF V
<1>10. \E F : FoldsBy(F, S, V, NothingCited, op, pick)
  <2>. HIDE DEF op, pick
  <2>. QED
    BY <1>6, <1>7, <1>8, <1>9, FoldExists
<1>11. PICK F : FoldsBy(F, S, V, NothingCited, op, pick)
  BY <1>10
<1>12. F \in [SUBSET S -> V]
       /\ \A s \in SUBSET S : F[s] = IF s = {} THEN NothingCited ELSE op[<<pick[s], F[s \ {pick[s]}]>>]
  <2>. HIDE DEF op, pick
  <2>. QED
    BY <1>11 DEF FoldsBy
<1>13. F = Body(F)
  <2>1. ASSUME NEW s \in SUBSET S PROVE F[s] = Body(F)[s]
    <3>1. CASE s = {}
      BY <1>12, <3>1
    <3>2. CASE s # {}
      <4>1. Max(s) \in S /\ F[s \ {Max(s)}] \in V
        BY <1>6, <1>12, <3>2
      <4>2. F[s] = op[<<Max(s), F[s \ {Max(s)}]>>]
        <5>. HIDE DEF op
        <5>. QED
          BY <1>12, <3>2
      <4>3. op[<<Max(s), F[s \ {Max(s)}]>>] = Cite(text, states, Max(s), F[s \ {Max(s)}])
        BY <4>1
      <4>. QED
        BY <3>2, <4>2, <4>3
    <3>. QED
      BY <3>1, <3>2
  <2>. QED
    BY <1>12, <2>1
<1>14. iter = Body(iter)
  <2>. HIDE DEF Body
  <2>. QED
    BY <1>13
<1>. HIDE DEF iter
<1>. DEFINE Good == {s \in SUBSET S : iter[s] \in V /\ Follows(text, iter[s], s)}
<1>15. ASSUME NEW s \in SUBSET S, \A r \in SUBSET s : r # s => r \in Good PROVE s \in Good
  <2>0. iter[s] = Body(iter)[s]
    BY <1>14
  <2>1. CASE s = {}
    <3>1. Follows(text, NothingCited, {})
      BY DEF Follows, NothingCited
    <3>. QED
      BY <1>7, <2>0, <2>1, <3>1
  <2>2. CASE s # {}
    <3>1. Max(s) \in s /\ s \ {Max(s)} \in Good /\ \A j \in s : j <= Max(s)
      BY <1>6, <1>15, <2>2
    <3>2. iter[s] = Cite(text, states, Max(s), iter[s \ {Max(s)}])
      BY <2>0, <2>2
    <3>3. iter[s \ {Max(s)}] \in V /\ Follows(text, iter[s \ {Max(s)}], s \ {Max(s)})
      BY <3>1
    <3>4. iter[s] \in V
      BY <1>4, <3>1, <3>2, <3>3
    <3>5. Follows(text, iter[s], s)
      BY <1>5, <3>1, <3>2, <3>3
    <3>. QED
      BY <3>4, <3>5
  <2>. QED
    BY <2>1, <2>2
<1>16. iter[S] \in V /\ Follows(text, iter[S], S)
  <2>1. \A s \in SUBSET S : s \in Good
    <3>. HIDE DEF Good
    <3>. QED
      BY <1>6, <1>15, SubsetInduction
  <2>. QED
    BY <2>1
<1>17. \A n \in iter[S].out : n.at \in Nat /\ n.value \in Nat /\ n.unit \in UNITS \cup {ANY}
  BY <1>16 DEF V, Scans
<1>. QED
  BY <1>1, <1>16, <1>17 DEF Follows, S, text

(* A review is of a payload, whose values were read once, and is written   *)
(* with its words.                                                         *)
GroundingInv ==
    /\ payload \in Payloads
    /\ index = PayloadIndex(payload)
    /\ evidence \in Seq(payload.words)
    /\ insights \in Seq(Insights)

(* It holds when a review begins. *)
LEMMA GroundingInitStep == ASSUME GroundingInit PROVE GroundingInv
BY DEF GroundingInit, GroundingInv

(* A word or an insight keeps it. *)
LEMMA GroundingNextStep == ASSUME GroundingInv, [GroundingNext]_groundingVars PROVE GroundingInv'
<1>. USE DEF GroundingInv
<1>1. CASE WriteWord
  <2>1. PICK w \in payload.words : evidence' = Append(evidence, w)
    BY <1>1 DEF WriteWord
  <2>2. evidence' \in Seq(payload.words)
    BY <2>1
  <2>3. payload' = payload /\ index' = index /\ insights' = insights
    BY <1>1 DEF WriteWord
  <2>4. index' = PayloadIndex(payload)'
    BY <2>3
  <2>. QED
    BY <2>2, <2>3, <2>4
<1>2. CASE AddInsight
  <2>1. PICK i \in Insights : insights' = Append(insights, i)
    BY <1>2 DEF AddInsight
  <2>2. insights' \in Seq(Insights)
    BY <2>1
  <2>3. payload' = payload /\ index' = index /\ evidence' = evidence
    BY <1>2 DEF AddInsight
  <2>4. index' = PayloadIndex(payload)'
    BY <2>3
  <2>. QED
    BY <2>2, <2>3, <2>4
<1>3. CASE UNCHANGED groundingVars
  <2>1. payload' = payload /\ index' = index /\ evidence' = evidence /\ insights' = insights
    BY <1>3 DEF groundingVars
  <2>2. index' = PayloadIndex(payload)'
    BY <2>1
  <2>. QED
    BY <2>1, <2>2
<1>. QED
  BY <1>1, <1>2, <1>3 DEF GroundingNext

(* Its evidence is a text. *)
LEMMA EvidenceIsText == ASSUME GroundingInv PROVE evidence \in Seq(GivenWords)
<1>1. payload.words \subseteq GivenWords
  BY DEF GroundingInv, GivenWords
<1>2. evidence \in Seq(payload.words)
  BY DEF GroundingInv
<1>. QED
  BY <1>1, <1>2

(* The units of the evidence are those of its sentences. *)
LEMMA UnitsFollowHolds == ASSUME GroundingAssumption, GroundingInv PROVE UnitsFollowSentence
BY EvidenceIsText, CitedFollow DEF UnitsFollowSentence

-----------------------------------------------------------------------------
(* The units of the payload. *)

(* The name of a key gives a unit of the checker, or none. *)
LEMMA UnitOfIsUnit ==
    ASSUME NEW key
    PROVE  UnitOf(key) \in UNITS \cup {None}
<1>. DEFINE hits == {i \in DOMAIN KEY_UNITS : KEY_UNITS[i][1] \cap KeyParts[key] # {}}
<1>1. DOMAIN KEY_UNITS = 1 .. 8
  BY DEF KEY_UNITS
<1>2. \A i \in 1 .. 8 : KEY_UNITS[i][2] \in UNITS
  <2>1. \A i \in 1 .. 8 : i = 1 \/ i = 2 \/ i = 3 \/ i = 4 \/ i = 5 \/ i = 6 \/ i = 7 \/ i = 8
    OBVIOUS
  <2>2. /\ KEY_UNITS[1][2] = "dmg" /\ KEY_UNITS[2][2] = "cs" /\ KEY_UNITS[3][2] = "g" /\ KEY_UNITS[4][2] = "s"
        /\ KEY_UNITS[5][2] = "min" /\ KEY_UNITS[6][2] = "u" /\ KEY_UNITS[7][2] = "n" /\ KEY_UNITS[8][2] = "s"
    BY DEF KEY_UNITS
  <2>. QED
    BY <2>1, <2>2 DEF UNITS
<1>3. UnitOf(key) = IF hits = {} THEN None ELSE KEY_UNITS[Min(hits)][2]
  BY DEF UnitOf
<1>4. hits \subseteq 0 .. 8 /\ hits \subseteq 1 .. 8
  BY <1>1
<1>. HIDE DEF hits
<1>5. hits # {} => Min(hits) \in hits
  BY <1>4, Extremes
<1>. QED
  BY <1>2, <1>3, <1>4, <1>5

(* What a node on the way to a value says of its unit. *)
Said(p, path, i) == Or(DeclaredAt(p, path, i), UnitOf(path[i]))

(* The unit declared at a node is the one of its declaration. *)
LEMMA DeclaredIsUnit ==
    ASSUME NEW p, PayloadIsFair(p), NEW path, NEW i
    PROVE  /\ DeclaredAt(p, path, i) \in UNITS \cup {None}
           /\ Said(p, path, i) \in UNITS \cup {None}
           /\ \A x \in p.declared : x.path = SubSeq(path, 1, i) => DeclaredAt(p, path, i) = x.unit
           /\ (\A x \in p.declared : x.path # SubSeq(path, 1, i)) => DeclaredAt(p, path, i) = None
<1>. DEFINE declared == {x \in p.declared : x.path = SubSeq(path, 1, i)}
<1>1. DeclaredAt(p, path, i) = IF declared = {} THEN None ELSE (CHOOSE x \in declared : TRUE).unit
  BY DEF DeclaredAt
<1>2. \A x, y \in declared : x = y /\ x.unit \in UNITS
  BY DEF PayloadIsFair
<1>3. declared # {} => (CHOOSE x \in declared : TRUE) \in declared
  OBVIOUS
<1>4. DeclaredAt(p, path, i) \in UNITS \cup {None}
  <2>. HIDE DEF declared
  <2>. QED
    BY <1>1, <1>2, <1>3
<1>5. \A x \in declared : DeclaredAt(p, path, i) = x.unit
  <2>. HIDE DEF declared
  <2>. QED
    BY <1>1, <1>2, <1>3
<1>6. Said(p, path, i) \in UNITS \cup {None}
  BY <1>4, UnitOfIsUnit DEF Said, Or
<1>. QED
  BY <1>1, <1>4, <1>5, <1>6

(* The nearest that says one, among some nodes of a path. *)
Speaking(p, path, s) == {i \in s : Said(p, path, i) # None}
Heard(p, path, s) == IF Speaking(p, path, s) = {} THEN None ELSE Said(p, path, Max(Speaking(p, path, s)))

(* One node more, nearer than the others. *)
LEMMA HearingOne ==
    ASSUME NEW p, NEW path, NEW n \in Nat, NEW s \in SUBSET (1 .. n), NEW i \in s, \A j \in s : j <= i
    PROVE  Heard(p, path, s) = Or(Said(p, path, i), Heard(p, path, s \ {i}))
<1>1. CASE Said(p, path, i) = None
  <2>1. Speaking(p, path, s) = Speaking(p, path, s \ {i})
    BY <1>1 DEF Speaking
  <2>. QED
    BY <1>1, <2>1 DEF Heard, Or
<1>2. CASE Said(p, path, i) # None
  <2>. DEFINE S == Speaking(p, path, s)
  <2>0. \A j \in s : j \in Nat /\ j \in 0 .. n
    OBVIOUS
  <2>1. i \in S /\ S \subseteq 0 .. n /\ (\A j \in S : j <= i) /\ (\A j \in S : j \in Nat)
    <3>1. i \in S /\ S \subseteq s
      BY <1>2 DEF Speaking
    <3>. HIDE DEF S
    <3>. QED
      BY <2>0, <3>1
  <2>. HIDE DEF S
  <2>2. Max(S) \in S /\ \A j \in S : j <= Max(S)
    BY <2>1, Extremes
  <2>3. Max(S) = i
    <3>1. Max(S) <= i /\ i <= Max(S) /\ Max(S) \in Nat /\ i \in Nat
      BY <2>1, <2>2
    <3>. QED
      BY ONLY <3>1
  <2>. QED
    BY <1>2, <2>1, <2>3 DEF Heard, Or, S
<1>. QED
  BY <1>1, <1>2

(* The unit handed down a path is that of the nearest node that says one. *)
LEMMA InheritedIsHeard ==
    ASSUME None \notin UNITS, NEW p, PayloadIsFair(p), NEW path, NEW n \in Nat, Len(path) - 1 = n
    PROVE  InheritedUnit(p, path) = Heard(p, path, 1 .. n) /\ InheritedUnit(p, path) \in UNITS \cup {None}
<1>. DEFINE S == 1 .. n
            V == UNITS \cup {None}
            pass(i, unit) == Or(DeclaredAt(p, path, i), Or(UnitOf(path[i]), unit))
            Body(h) == [s \in SUBSET S |-> IF s = {} THEN None ELSE pass(Max(s), h[s \ {Max(s)}])]
            iter == CHOOSE h : h = Body(h)
            op == [q \in S \X V |-> pass(q[1], q[2])]
            pick == [s \in SUBSET S |-> Max(s)]
<1>1. InheritedUnit(p, path) = iter[S]
  BY DEF InheritedUnit, MapThenFoldSet
<1>2. \A i : \A unit : pass(i, unit) = Or(Said(p, path, i), unit)
  BY DEF Said, Or
<1>3. \A i : \A unit \in V : pass(i, unit) \in V
  <2>1. \A i : Said(p, path, i) \in V
    BY DeclaredIsUnit
  <2>. HIDE DEF V, pass
  <2>. QED
    BY <1>2, <2>1 DEF Or
<1>. HIDE DEF pass
<1>4. IsFiniteSet(S) /\ \A s \in SUBSET S : s # {} => Max(s) \in s /\ \A j \in s : j <= Max(s)
  BY LastPosition
<1>. HIDE DEF S
<1>5. op \in [S \X V -> V] /\ None \in V
  <2>1. \A q \in S \X V : q[1] \in S /\ q[2] \in V
    OBVIOUS
  <2>2. None \in V
    OBVIOUS
  <2>. HIDE DEF V
  <2>. QED
    BY <1>3, <2>1, <2>2
<1>6. \A s \in SUBSET S : s # {} => pick[s] \in s
  BY <1>4
<1>. HIDE DEF V
<1>7. \E F : FoldsBy(F, S, V, None, op, pick)
  <2>. HIDE DEF op, pick
  <2>. QED
    BY <1>4, <1>5, <1>6, FoldExists
<1>8. PICK F : FoldsBy(F, S, V, None, op, pick)
  BY <1>7
<1>9. F \in [SUBSET S -> V] /\ \A s \in SUBSET S : F[s] = IF s = {} THEN None ELSE op[<<pick[s], F[s \ {pick[s]}]>>]
  <2>. HIDE DEF op, pick
  <2>. QED
    BY <1>8 DEF FoldsBy
<1>10. F = Body(F)
  <2>1. ASSUME NEW s \in SUBSET S PROVE F[s] = Body(F)[s]
    <3>1. CASE s = {}
      BY <1>9, <3>1
    <3>2. CASE s # {}
      <4>1. Max(s) \in S /\ F[s \ {Max(s)}] \in V
        BY <1>4, <1>9, <3>2
      <4>2. F[s] = op[<<Max(s), F[s \ {Max(s)}]>>]
        <5>. HIDE DEF op
        <5>. QED
          BY <1>9, <3>2
      <4>3. op[<<Max(s), F[s \ {Max(s)}]>>] = pass(Max(s), F[s \ {Max(s)}])
        BY <4>1
      <4>. QED
        BY <3>2, <4>2, <4>3
    <3>. QED
      BY <3>1, <3>2
  <2>. QED
    BY <1>9, <2>1
<1>11. iter = Body(iter)
  <2>. HIDE DEF Body
  <2>. QED
    BY <1>10
<1>. HIDE DEF iter
<1>. DEFINE Good == {s \in SUBSET S : iter[s] \in V /\ iter[s] = Heard(p, path, s)}
<1>12. ASSUME NEW s \in SUBSET S, \A r \in SUBSET s : r # s => r \in Good PROVE s \in Good
  <2>0. iter[s] = Body(iter)[s]
    BY <1>11
  <2>1. CASE s = {}
    <3>1. Heard(p, path, {}) = None
      BY DEF Heard, Speaking
    <3>. QED
      BY <1>5, <2>0, <2>1, <3>1
  <2>2. CASE s # {}
    <3>1. Max(s) \in s /\ s \ {Max(s)} \in Good /\ \A j \in s : j <= Max(s)
      BY <1>4, <1>12, <2>2
    <3>2. iter[s] = pass(Max(s), iter[s \ {Max(s)}])
      BY <2>0, <2>2
    <3>3. iter[s \ {Max(s)}] \in V /\ iter[s \ {Max(s)}] = Heard(p, path, s \ {Max(s)})
      BY <3>1
    <3>4. iter[s] \in V
      BY <1>3, <3>2, <3>3
    <3>5. Heard(p, path, s) = Or(Said(p, path, Max(s)), Heard(p, path, s \ {Max(s)}))
      <4>1. s \in SUBSET (1 .. n)
        BY DEF S
      <4>. QED
        BY <3>1, <4>1, HearingOne
    <3>. QED
      BY <1>2, <3>2, <3>3, <3>4, <3>5
  <2>. QED
    BY <2>1, <2>2
<1>13. S \in Good
  <2>1. \A s \in SUBSET S : s \in Good
    <3>. HIDE DEF Good
    <3>. QED
      BY <1>4, <1>12, SubsetInduction
  <2>. QED
    BY <2>1
<1>. QED
  BY <1>1, <1>13 DEF V, S

(* The unit of a value is the one a reader of the payload gives it. *)
LEMMA ReadsAlike ==
    ASSUME GroundingAssumption, NEW p \in Payloads, NEW leaf \in p.leaves
    PROVE  ReadUnit(p, leaf) = {LeafUnit(p, leaf)} /\ LeafUnit(p, leaf) \in UNITS /\ leaf.value \in Nat
<1>. DEFINE path == leaf.path
            n == Len(path)
            declares(i) == {x.unit : x \in {d \in p.declared : d.path = SubSeq(path, 1, i)}}
            says(i) == IF i < n /\ declares(i) # {} THEN declares(i) ELSE {UnitOf(path[i])} \ {None}
            speaking == {i \in 1 .. n : says(i) # {}}
            own == UnitOf(path[n])
            heard == Heard(p, path, 1 .. n - 1)
<1>1. PayloadIsFair(p) /\ None \notin UNITS
  BY DEF GroundingAssumption
<1>2. leaf.value \in Nat /\ path \in Seq(DOMAIN KeyParts) /\ path # <<>>
  BY <1>1 DEF PayloadIsFair
<1>3. n \in Nat /\ n >= 1 /\ n - 1 \in Nat
  BY <1>2
<1>4. InheritedUnit(p, path) = heard /\ heard \in UNITS \cup {None}
  <2>. HIDE DEF path, n
  <2>. QED
    BY <1>1, <1>3, InheritedIsHeard DEF n
<1>5. own \in UNITS \cup {None}
  BY UnitOfIsUnit
<1>6. ReadUnit(p, leaf) = IF leaf.value \in 1 .. ONE - 1 THEN {"pct"}
                          ELSE IF speaking = {} THEN {"n"} ELSE says(Max(speaking))
  BY DEF ReadUnit
<1>7. LeafUnit(p, leaf) = IF leaf.value > 0 /\ leaf.value < ONE THEN "pct" ELSE Or(own, Or(heard, "n"))
  BY <1>4 DEF LeafUnit, NameOf
<1>8. says(n) = {own} \ {None}
  BY <1>3
<1>9. ASSUME NEW i \in 1 .. n - 1 PROVE says(i) = {Said(p, path, i)} \ {None}
  <2>1. i < n
    BY <1>3
  <2>2. CASE declares(i) = {}
    <3>0. \A x \in p.declared : x.path # SubSeq(path, 1, i)
      BY <2>2
    <3>1. DeclaredAt(p, path, i) = None
      BY <1>1, <3>0, DeclaredIsUnit
    <3>. QED
      BY <2>2, <3>1 DEF Said, Or
  <2>3. CASE declares(i) # {}
    <3>1. declares(i) = {DeclaredAt(p, path, i)}
      BY <1>1, <2>3, DeclaredIsUnit
    <3>2. DeclaredAt(p, path, i) # None
      BY <1>1, <3>1 DEF PayloadIsFair
    <3>. QED
      BY <2>1, <2>3, <3>1, <3>2 DEF Said, Or
  <2>. QED
    BY <2>2, <2>3
<1>10. speaking \subseteq 0 .. n /\ \A i \in speaking : i \in Nat
  BY <1>3
<1>11. (IF speaking = {} THEN {"n"} ELSE says(Max(speaking))) = {Or(own, Or(heard, "n"))}
  <2>. HIDE DEF says, own, heard, path, n
  <2>1. n \in speaking <=> own # None
    BY <1>3, <1>8
  <2>2. \A i \in 1 .. n - 1 : i \in speaking <=> i \in Speaking(p, path, 1 .. n - 1)
    BY <1>3, <1>9 DEF Speaking
  <2>3. \A i \in speaking : i = n \/ i \in 1 .. n - 1
    BY <1>3
  <2>. HIDE DEF speaking
  <2>4. speaking # {} => Max(speaking) \in speaking /\ \A i \in speaking : i <= Max(speaking)
    BY <1>3, <1>10, Extremes
  <2>5. CASE own # None
    <3>1. Max(speaking) = n
      <4>0. n \in speaking
        BY <2>1, <2>5
      <4>1. Max(speaking) \in speaking /\ n <= Max(speaking)
        BY <2>4, <4>0
      <4>2. Max(speaking) = n \/ Max(speaking) \in 1 .. n - 1
        BY <2>3, <4>1
      <4>. QED
        BY ONLY <1>3, <4>1, <4>2
    <3>. QED
      BY <1>8, <2>1, <2>5, <3>1 DEF Or
  <2>6. CASE own = None /\ speaking # {}
    <3>1. speaking = Speaking(p, path, 1 .. n - 1)
      BY <2>1, <2>2, <2>3, <2>6 DEF Speaking
    <3>2. Max(speaking) \in 1 .. n - 1
      BY <2>1, <2>3, <2>4, <2>6
    <3>3. heard = Said(p, path, Max(speaking)) /\ says(Max(speaking)) = {heard} \ {None}
      BY <1>9, <2>6, <3>1, <3>2 DEF Heard, heard
    <3>4. heard # None
      BY <2>6, <3>1, <3>3, <2>4 DEF Speaking
    <3>. QED
      BY <2>6, <3>3, <3>4 DEF Or
  <2>7. CASE own = None /\ speaking = {}
    <3>1. Speaking(p, path, 1 .. n - 1) = {}
      BY <2>2, <2>7 DEF Speaking
    <3>2. heard = None
      BY <3>1 DEF Heard, heard
    <3>. QED
      BY <2>7, <3>2 DEF Or
  <2>. QED
    BY <2>5, <2>6, <2>7
<1>12. leaf.value \in 1 .. ONE - 1 <=> leaf.value > 0 /\ leaf.value < ONE
  <2>1. leaf.value \in Nat
    BY <1>2
  <2>2. \A v \in Nat : v \in 1 .. 1000 - 1 <=> v > 0 /\ v < 1000
    OBVIOUS
  <2>. QED
    BY ONLY <2>1, <2>2 DEF ONE
<1>13. "pct" \in UNITS /\ "n" \in UNITS
  BY DEF UNITS
<1>14. Or(own, Or(heard, "n")) \in UNITS
  <2>. HIDE DEF own, heard
  <2>. QED
    BY <1>4, <1>5, <1>13 DEF Or
<1>15. CASE leaf.value > 0 /\ leaf.value < ONE
  <2>1. leaf.value \in 1 .. ONE - 1
    BY <1>12, <1>15
  <2>2. ReadUnit(p, leaf) = {"pct"}
    <3>. HIDE DEF own, heard, says, speaking
    <3>. QED
      BY <1>6, <2>1
  <2>3. LeafUnit(p, leaf) = "pct"
    <3>. HIDE DEF own, heard, says, speaking
    <3>. QED
      BY <1>7, <1>15
  <2>. QED
    BY <1>2, <1>13, <2>2, <2>3
<1>16. CASE ~ (leaf.value > 0 /\ leaf.value < ONE)
  <2>1. ReadUnit(p, leaf) = {Or(own, Or(heard, "n"))}
    <3>. HIDE DEF own, heard, says, speaking
    <3>. QED
      BY <1>6, <1>11, <1>12, <1>16
  <2>. QED
    BY <1>2, <1>7, <1>14, <1>16, <2>1
<1>. QED
  BY <1>15, <1>16

-----------------------------------------------------------------------------
(* The verdicts. *)

(* What grounds a number is close to it. *)
Close(a, b) == 100 * Near(a, b) <= a + 50 * ONE

(* What counts as grounded is within the closeness of the property. *)
LEMMA GroundedIsClose ==
    ASSUME NEW a \in Nat, NEW c \in Nat,
           Near(a, c) <= EXACT_EPS \/ Near(a, c) * 100 <= a \/ RoundHalfEven(c) = a
    PROVE  Close(a, c)
<1>1. Near(a, c) \in Nat
  BY DEF Near
<1>2. CASE Near(a, c) <= EXACT_EPS
  BY <1>1, <1>2 DEF Close, EXACT_EPS, ONE
<1>3. CASE Near(a, c) * 100 <= a
  BY <1>1, <1>3 DEF Close, ONE
<1>4. CASE RoundHalfEven(c) = a
  <2>. DEFINE n == c \div 1000
              r == c % 1000
  <2>1. n \in Nat /\ r \in Nat /\ r < 1000 /\ c = 1000 * n + r
    OBVIOUS
  <2>2. a = IF 2 * r > 1000 \/ (2 * r = 1000 /\ n % 2 = 1) THEN (n + 1) * 1000 ELSE n * 1000
    BY <1>4 DEF RoundHalfEven, ONE
  <2>. HIDE DEF n, r
  <2>3. Near(a, c) <= 500
    <3>1. CASE 2 * r > 1000 \/ (2 * r = 1000 /\ n % 2 = 1)
      <4>1. a = (n + 1) * 1000 /\ 2 * r >= 1000
        BY <2>1, <2>2, <3>1
      <4>. QED
        BY <2>1, <4>1 DEF Near
    <3>2. CASE ~ (2 * r > 1000 \/ (2 * r = 1000 /\ n % 2 = 1))
      <4>1. a = n * 1000 /\ 2 * r <= 1000
        BY <2>1, <2>2, <3>2
      <4>. QED
        BY <2>1, <4>1 DEF Near
    <3>. QED
      BY <3>1, <3>2
  <2>. QED
    BY <1>1, <2>3 DEF Close, ONE
<1>. QED
  BY <1>2, <1>3, <1>4

(* A verdict of a number, read backwards. *)
LEMMA GroundedBySome ==
    ASSUME NEW value, NEW unit, ClassifyNumber(value, unit) # "non_ancre"
    PROVE  \E c \in Available(value, unit) :
             Near(value, c) <= EXACT_EPS \/ Near(value, c) * 100 <= value \/ RoundHalfEven(c) = value
BY DEF ClassifyNumber

(* A value that is there is exact. *)
LEMMA FoundIsExact ==
    ASSUME NEW value \in Nat, NEW unit, value \in Available(value, unit)
    PROVE  ClassifyNumber(value, unit) = "exact"
<1>1. Near(value, value) <= EXACT_EPS
  BY DEF Near, EXACT_EPS
<1>. QED
  BY <1>1 DEF ClassifyNumber

(* The values read are those a reader may read. *)
Readable(p) == {leaf \in p.leaves : /\ "axes" \notin Range(leaf.path)
                                    /\ "game_review_causes" \notin Range(leaf.path)
                                    /\ NameOf(leaf.path) # "t_ms"}
(* Nothing else is walked. *)
LEMMA WalkedIsReadable == ASSUME NEW p PROVE Walked(p) = Readable(p)
BY DEF Walked, Readable, Reaches, UNGROUNDED_SUBTREES, IGNORED_KEYS

(* Each is in the part of the index of its unit. *)
LEMMA IndexHolds ==
    ASSUME GroundingAssumption, GroundingInv, NEW leaf \in Readable(payload)
    PROVE  LeafUnit(payload, leaf) \in UNITS /\ leaf.value \in index[LeafUnit(payload, leaf)]
<1>. DEFINE u == LeafUnit(payload, leaf)
            values == {x.value : x \in {y \in Walked(payload) : LeafUnit(payload, y) = u}}
<1>1. leaf \in payload.leaves /\ payload \in Payloads /\ leaf \in Walked(payload)
  BY WalkedIsReadable DEF Readable, GroundingInv
<1>2. u \in UNITS
  BY <1>1, ReadsAlike
<1>3. leaf.value \in values
  BY <1>1
<1>4. values \subseteq WalkedValues(payload, u)
  BY DEF WalkedValues
<1>5. u # ANY
  BY <1>2 DEF UNITS, ANY
<1>6. index[u] = UNION {WalkedValues(payload, u), Derived(payload, u), IF u = "s" THEN FeatureWindows(payload) ELSE {}}
  <2>. HIDE DEF u
  <2>. QED
    BY <1>2, <1>5 DEF GroundingInv, PayloadIndex
<1>. HIDE DEF u, values
<1>7. leaf.value \in index[u]
  BY <1>3, <1>4, <1>6
<1>. QED
  BY <1>2, <1>7 DEF u

(* The parts of gold and damage hold values of the payload alone. *)
LEMMA AmountsAre ==
    ASSUME GroundingInv, NEW u \in {"g", "dmg"}, NEW value \in index[u]
    PROVE  \E leaf \in Readable(payload) : LeafUnit(payload, leaf) = u /\ leaf.value = value
<1>1. u \in UNITS \cup {ANY} /\ u # ANY /\ u # "s" /\ u # "pct" /\ u # "min" /\ u \notin {"n", "morts"}
  BY DEF UNITS, ANY
<1>2. index[u] = UNION {WalkedValues(payload, u), Derived(payload, u), {}}
  BY <1>1 DEF GroundingInv, PayloadIndex
<1>3. Derived(payload, u) = {}
  BY <1>1 DEF Derived
<1>4. value \in WalkedValues(payload, u)
  BY <1>2, <1>3
<1>5. WalkedValues(payload, u) = {leaf.value : leaf \in {x \in Walked(payload) : LeafUnit(payload, x) = u}}
  BY <1>1 DEF WalkedValues
<1>6. PICK leaf \in Walked(payload) : LeafUnit(payload, leaf) = u /\ leaf.value = value
  BY <1>4, <1>5
<1>. QED
  BY <1>6, WalkedIsReadable

(* An amount of gold or damage is grounded by a value of its unit. *)
LEMMA AmountIsGrounded ==
    ASSUME GroundingAssumption, GroundingInv, NEW n \in CitedNumbers(evidence), n.unit \in {"g", "dmg"},
           ClassifyNumber(n.value, n.unit) # "non_ancre"
    PROVE  \E leaf \in Readable(payload) : ReadUnit(payload, leaf) = {n.unit} /\ Close(n.value, leaf.value)
<1>1. n.value \in Nat
  BY EvidenceIsText, CitedFollow
<1>2. Available(n.value, n.unit) = index[n.unit]
  BY DEF Available, ANY
<1>3. PICK c \in index[n.unit] :
        Near(n.value, c) <= EXACT_EPS \/ Near(n.value, c) * 100 <= n.value \/ RoundHalfEven(c) = n.value
  BY <1>2, GroundedBySome
<1>4. PICK leaf \in Readable(payload) : LeafUnit(payload, leaf) = n.unit /\ leaf.value = c
  BY AmountsAre
<1>5. leaf \in payload.leaves /\ payload \in Payloads
  BY DEF Readable, GroundingInv
<1>6. ReadUnit(payload, leaf) = {n.unit} /\ leaf.value \in Nat
  BY <1>4, <1>5, ReadsAlike
<1>7. Close(n.value, leaf.value)
  BY <1>1, <1>3, <1>4, <1>6, GroundedIsClose
<1>. QED
  BY <1>6, <1>7

(* A value cited as it stands is found. *)
LEMMA ValueIsFound ==
    ASSUME GroundingAssumption, GroundingInv, NEW leaf \in Readable(payload), NEW u \in ReadUnit(payload, leaf)
    PROVE  ClassifyNumber(leaf.value, u) = "exact"
<1>1. leaf \in payload.leaves /\ payload \in Payloads
  BY DEF Readable, GroundingInv
<1>2. u = LeafUnit(payload, leaf) /\ leaf.value \in Nat /\ u \in UNITS
  BY <1>1, ReadsAlike
<1>3. leaf.value \in index[u]
  BY <1>2, IndexHolds
<1>4. u # ANY
  BY <1>2 DEF UNITS, ANY
<1>5. leaf.value \in Available(leaf.value, u)
  <2>1. CASE u = "min"
    BY <1>3, <1>4, <2>1 DEF Available
  <2>2. CASE u # "min"
    BY <1>3, <1>4, <2>2 DEF Available
  <2>. QED
    BY <2>1, <2>2
<1>. QED
  BY <1>2, <1>5, FoundIsExact

(* The clocks of a text are naturals, and one of them is not grounded when *)
(* none of the payload is near.                                            *)
LEMMA ClocksAreJudged ==
    ASSUME GroundingAssumption, GroundingInv, NEW at \in CitedClocks(evidence)
    PROVE  ClassifyClock(PayloadClocks(payload), at) = "non_ancre"
             <=> \A c \in PayloadClocks(payload) : Near(at, c) > CLOCK_NEAR
<1>1. at \in Nat
  <2>1. PICK w \in Range(evidence) : w.kind = "clock" /\ at = w.at
    BY DEF CitedClocks
  <2>2. PICK i \in DOMAIN evidence : w = evidence[i]
    BY DEF Range
  <2>3. WordIsFair(evidence[i])
    BY EvidenceIsText, TextFacts
  <2>. QED
    BY <2>1, <2>2, <2>3 DEF WordIsFair
<1>2. Near(at, at) = 0
  BY <1>1 DEF Near
<1>3. at \in PayloadClocks(payload) => ~ \A c \in PayloadClocks(payload) : Near(at, c) > CLOCK_NEAR
  BY <1>2 DEF CLOCK_NEAR
<1>4. \A c \in PayloadClocks(payload) : Near(at, c) <= CLOCK_NEAR <=> ~ (Near(at, c) > CLOCK_NEAR)
  <2>1. \A c \in PayloadClocks(payload) : c \in Nat
    BY DEF PayloadClocks, GroundingInv, GroundingAssumption, PayloadIsFair
  <2>. QED
    BY <1>1, <2>1 DEF Near, CLOCK_NEAR
<1>. QED
  BY <1>3, <1>4 DEF ClassifyClock

(* What a section prescribes and may not, text by text. *)
LEMMA AsymmetryIsJudged ==
    ASSUME GroundingAssumption, GroundingInv
    PROVE  AsymmetryViolations # {} <=>
             \E i \in DOMAIN insights :
               /\ insights[i].section # "strengths"
               /\ \/ \E t \in insights[i].texts : "profondeur" \in t
                  \/ /\ \E t \in insights[i].texts : "overextension" \in t
                     /\ "outer turret" \notin UNION insights[i].texts
<1>1. \A i \in DOMAIN insights : insights[i].section # "strengths" <=> insights[i].section \in PRESCRIPTIVE_SECTIONS
  <2>1. \A i \in DOMAIN insights : insights[i] \in Insights
    BY DEF GroundingInv
  <2>. QED
    BY <2>1 DEF GroundingAssumption, PRESCRIPTIVE_SECTIONS
<1>2. AsymmetryViolations # {} <=> \E i \in DOMAIN insights : \E t \in insights[i].texts : Violates(i, t)
  <2>. DEFINE of(i) == {<<i, text>> : text \in {t \in insights[i].texts : Violates(i, t)}}
  <2>1. AsymmetryViolations = UNION {of(i) : i \in DOMAIN insights}
    BY DEF AsymmetryViolations
  <2>2. ASSUME NEW i \in DOMAIN insights, NEW t \in insights[i].texts, Violates(i, t) PROVE AsymmetryViolations # {}
    <3>1. <<i, t>> \in of(i)
      BY <2>2
    <3>. HIDE DEF of
    <3>. QED
      BY <2>1, <3>1
  <2>3. ASSUME AsymmetryViolations # {} PROVE \E i \in DOMAIN insights : \E t \in insights[i].texts : Violates(i, t)
    <3>1. PICK i \in DOMAIN insights : of(i) # {}
      <4>. HIDE DEF of
      <4>. QED
        BY <2>1, <2>3
    <3>2. \E t \in insights[i].texts : Violates(i, t)
      BY <3>1
    <3>. QED
      BY <3>2
  <2>. QED
    BY <2>2, <2>3
<1>3. ASSUME NEW i \in DOMAIN insights
      PROVE  (\E t \in insights[i].texts : Violates(i, t)) <=>
               /\ insights[i].section # "strengths"
               /\ \/ \E t \in insights[i].texts : "profondeur" \in t
                  \/ /\ \E t \in insights[i].texts : "overextension" \in t
                     /\ "outer turret" \notin UNION insights[i].texts
  <2>1. \A t \in insights[i].texts :
          Violates(i, t) <=> /\ insights[i].section # "strengths"
                             /\ \/ "profondeur" \in t
                                \/ "overextension" \in t /\ "outer turret" \notin UNION insights[i].texts
    BY <1>1 DEF Violates, DESCRIPTIVE_TERMS
  <2>. QED
    BY <2>1
<1>. QED
  BY <1>2, <1>3

(* A number is said not to be grounded when no verdict grounds it. *)
LEMMA VerdictsAreFairHolds == ASSUME GroundingAssumption, GroundingInv PROVE VerdictsAreFair
<1>. DEFINE check == CheckReview
            cited == {n.cited : n \in {m \in check.numbers : m.status # "non_ancre"}}
            verdict(n) == [cited |-> n, status |-> ClassifyNumber(n.value, n.unit)]
<1>1. /\ check.numbers = {verdict(n) : n \in CitedNumbers(evidence)}
      /\ check.clocks = [at \in CitedClocks(evidence) |-> ClassifyClock(PayloadClocks(payload), at)]
      /\ check.asymmetry = AsymmetryViolations
  BY DEF CheckReview
<1>. HIDE DEF check
<1>2. cited = {n \in CitedNumbers(evidence) : ClassifyNumber(n.value, n.unit) # "non_ancre"}
  <2>1. \A n : verdict(n).cited = n /\ verdict(n).status = ClassifyNumber(n.value, n.unit)
    OBVIOUS
  <2>. HIDE DEF verdict
  <2>. QED
    BY <1>1, <2>1
<1>. HIDE DEF cited
<1>3. \A n \in cited : n.unit \in {"g", "dmg"} =>
        \E leaf \in Readable(payload) : ReadUnit(payload, leaf) = {n.unit} /\ Close(n.value, leaf.value)
  BY <1>2, AmountIsGrounded
<1>4. \A leaf \in Readable(payload) : \A u \in ReadUnit(payload, leaf) : ClassifyNumber(leaf.value, u) = "exact"
  BY ValueIsFound
<1>5. (\E n \in check.numbers : n.status = "non_ancre") <=> \E n \in CitedNumbers(evidence) : n \notin cited
  <2>1. \A n \in CitedNumbers(evidence) : n \notin cited <=> ClassifyNumber(n.value, n.unit) = "non_ancre"
    BY <1>2
  <2>2. \A n : verdict(n).status = ClassifyNumber(n.value, n.unit)
    OBVIOUS
  <2>. HIDE DEF verdict
  <2>. QED
    BY <1>1, <2>1, <2>2
<1>6. (\E at \in DOMAIN check.clocks : check.clocks[at] = "non_ancre") <=>
        \E at \in CitedClocks(evidence) : \A c \in PayloadClocks(payload) : Near(at, c) > CLOCK_NEAR
  BY <1>1, ClocksAreJudged
<1>7. check.asymmetry # {} <=>
        \E i \in DOMAIN insights :
          /\ insights[i].section # "strengths"
          /\ \/ \E t \in insights[i].texts : "profondeur" \in t
             \/ /\ \E t \in insights[i].texts : "overextension" \in t
                /\ "outer turret" \notin UNION insights[i].texts
  BY <1>1, AsymmetryIsJudged
<1>8. Offends(check) <=>
        \/ \E n \in CitedNumbers(evidence) : n \notin cited
        \/ \E at \in CitedClocks(evidence) : \A c \in PayloadClocks(payload) : Near(at, c) > CLOCK_NEAR
        \/ \E i \in DOMAIN insights :
             /\ insights[i].section # "strengths"
             /\ \/ \E t \in insights[i].texts : "profondeur" \in t
                \/ /\ \E t \in insights[i].texts : "overextension" \in t
                   /\ "outer turret" \notin UNION insights[i].texts
  BY ONLY <1>5, <1>6, <1>7 DEF Offends
<1>. QED
  BY <1>3, <1>4, <1>8 DEF VerdictsAreFair, Readable, Close, check, cited

(* The inductive invariant of a review being checked. *)
THEOREM GroundingInvariant == GroundingSpec => []GroundingInv
<1>. QED
  BY GroundingInitStep, GroundingNextStep, PTL DEF GroundingSpec

(* For any payload, keys and text: the unit a number is read in is the one *)
(* its sentence gives it (grounding.py, cited_numbers and _unit_states).   *)
THEOREM UnitsFollowSentenceCorrect == ASSUME GroundingAssumption PROVE GroundingSpec => []UnitsFollowSentence
<1>1. GroundingAssumption
  OBVIOUS
<1>2. GroundingInv => UnitsFollowSentence
  BY <1>1, UnitsFollowHolds
<1>. QED
  BY <1>2, GroundingInvariant, PTL

(* For any payload, keys, text and insights: an amount is grounded by a    *)
(* value of its unit, a value cited as it stands is found, and the report  *)
(* names a review exactly when one of its elements is not grounded         *)
(* (grounding.py, payload_index, classify_number, check_review, report).   *)
THEOREM VerdictsAreFairCorrect == ASSUME GroundingAssumption PROVE GroundingSpec => []VerdictsAreFair
<1>1. GroundingAssumption
  OBVIOUS
<1>2. GroundingInv => VerdictsAreFair
  BY <1>1, VerdictsAreFairHolds
<1>. QED
  BY <1>2, GroundingInvariant, PTL
=============================================================================
