------------------------- MODULE LocalLayersProofs -------------------------
(***************************************************************************)
(* Four theorems about the layers, for any players, matches, patches,      *)
(* checkpoints, kills and commands: no row is lost (RowsKept), nor its raw *)
(* documents (RawKept); the rows of a rank are of one patch                *)
(* (PatchesApart); at rest the gold is that of the rows (GoldFollows).     *)
(* Last, the snapshot of the ladder the collections of the layers start    *)
(* from is the collection of one run (SnapshotIsFair).                     *)
(***************************************************************************)
EXTENDS LocalLayers, LadderSnapshot, SequenceTheorems, FiniteSetTheorems, TLAPS

JobKinds == {"none", "ref", "densify", "fetch"}
JobStages == {"idle", "list", "fetch", "asked", "writing", "read", "merge",
              "sources", "closing", "gold", "end"}
OpKinds == {"none", "reextract", "rebuild", "compress", "archive"}
OpStages == {"idle", "open", "close", "unlink", "raw", "silver", "gold", "zip"}

Jobs == [kind : JobKinds, patch : Int, players : Seq(Players),
         left : SUBSET Matches, known : SUBSET Matches, pool : SUBSET Matches,
         base : SUBSET Matches, turn : Int, merged : BOOLEAN,
         stage : JobStages, last : BOOLEAN]
Ops == [kind : OpKinds, todo : SUBSET Dirs, at : Dirs \cup {"none"},
        held : SUBSET Matches, patch : Int, stage : OpStages]
Archives == [state : {"none", "folder", "zip"}, raw : SUBSET Matches,
             rows : [Dirs -> SUBSET Matches]]

\* The types the two invariants need.
Types ==
  /\ silver \in [Dirs -> SUBSET Matches]
  /\ ever \in [Dirs -> SUBSET Matches]
  /\ archive \in [Patches -> Archives]
  /\ job \in [Dirs -> Jobs]
  /\ op \in Ops

\* Who can be at which stage.
Stages ==
  /\ job["rank"].kind # "fetch"
  /\ \A d \in Dirs : job[d].kind = "none" => job[d].stage = "idle"
  /\ op.at # "none" => op.kind \in {"reextract", "rebuild"}
  /\ op.kind \in {"reextract", "rebuild"} => op.stage = "idle"
  /\ op.kind = "archive" => /\ op.patch \in Patches
                            /\ archive[op.patch].state # "none"
  /\ op.stage \in {"raw", "silver", "gold", "zip"} => op.kind = "archive"
  /\ op.stage \in {"raw", "silver"} => archive[op.patch].rows = NoArchive.rows
  /\ \A p \in Patches : archive[p].state = "none" => archive[p] = NoArchive

-----------------------------------------------------------------------------
Rewritten(d) == <<"reextract", d>> \in overlapped

\* No row is lost: not by the file, nor by the copy a collection or
\* reextract_silver is about to write over it.
KeptBy(S, d) == ever[d] \subseteq S \cup Archived(d)

Kept3 ==
  \A d \in Dirs :
    Rewritten(d) \/
      /\ KeptBy(silver[d], d)
      /\ job[d].stage = "merge" => KeptBy(job[d].base, d)
      /\ (op.at = d /\ op.kind = "reextract") => KeptBy(op.held, d)

-----------------------------------------------------------------------------
OfPatch(S, p) == \A m \in S : PatchOf(m) = p

\* What is about to be written over silver is not newer than it, or covers it.
Copies ==
  \A d \in Dirs :
    /\ job[d].stage = "merge" => silver[d] \subseteq job[d].base
    /\ (op.at = d /\ op.kind = "reextract") => op.held \subseteq silver[d]

\* The rank's rows are of the patch of sources.json, which a collection in
\* progress shares, or of the patch it is about to write there.
Apart ==
  LET j == job["rank"] IN
  /\ OfPatch(j.pool, j.patch)
  /\ j.kind # "none" => j.patch \in Patches
  /\ gap \/ (j.stage = "merge" => OfPatch(j.base, j.patch))
  /\ \/ gap
     \/ silver["rank"] = {}
     \/ /\ sources \in Patches
        /\ OfPatch(silver["rank"], sources)
        /\ j.kind # "none" => j.patch = sources
     \/ /\ j.stage \in {"sources", "closing"}
        /\ OfPatch(silver["rank"], j.patch)

IInv == Types /\ Stages /\ Kept3 /\ Copies /\ Apart

-----------------------------------------------------------------------------
USE DEF Dirs, Patches, NoFile, Torn

LEMMA NoJobType == NoJob \in Jobs
BY SMT DEF NoJob, Jobs, JobKinds, JobStages

LEMMA NoOpType == NoOp \in Ops
BY SMT DEF NoOp, Ops, OpKinds, OpStages

\* Continued only chooses the next stage, and takes base and last with it.
LEMMA ContinuedType ==
  ASSUME NEW j \in Jobs
  PROVE  /\ Continued(j) \in Jobs
         /\ Continued(j).kind = j.kind
         /\ Continued(j).patch = j.patch
         /\ Continued(j).pool = j.pool
         /\ Continued(j).stage \in {"fetch", "read", "list", "end"}
<1> DEFINE b == (j.left = {} /\ ~Due(j) /\ j.players = <<>>)
           st == IF j.left # {} THEN "fetch"
                 ELSE IF Due(j) THEN "read"
                 ELSE IF j.players # <<>> THEN "list"
                 ELSE IF j.pool # {} THEN "read" ELSE "end"
<1>1. b \in BOOLEAN
  OBVIOUS
<1>2. st \in {"fetch", "read", "list", "end"}
  OBVIOUS
<1>3. Continued(j) = [j EXCEPT !.base = {}, !.last = b, !.stage = st]
  BY DEF Continued
<1> HIDE DEF b, st
<1>4. {} \in SUBSET Matches /\ st \in JobStages
  BY <1>2 DEF JobStages
<1>5. Continued(j) \in Jobs
  BY <1>1, <1>3, <1>4, ZenonT(60) DEF Jobs
<1> QED
  BY <1>2, <1>3, <1>5, SMT DEF Jobs

\* A match whose rows, if any, are of the collection's patch.
LEMMA TakenType ==
  ASSUME NEW j \in Jobs, NEW m \in Matches, NEW rows \in SUBSET Matches
  PROVE  /\ Taken(j, m, rows) \in Jobs
         /\ Taken(j, m, rows).kind = j.kind
         /\ Taken(j, m, rows).patch = j.patch
         /\ Taken(j, m, rows).pool = j.pool \cup rows
         /\ Taken(j, m, rows).stage \in {"fetch", "read", "list", "end"}
<1> DEFINE k == [j EXCEPT !.left = @ \ {m}, !.pool = @ \cup rows]
<1>1. k.kind = j.kind /\ k.patch = j.patch /\ k.pool = j.pool \cup rows
  BY SMT DEF Jobs
<1>3. (j.left \ {m}) \in SUBSET Matches /\ (j.pool \cup rows) \in SUBSET Matches
  BY SMT DEF Jobs
<1>4. k \in Jobs
  BY <1>3, ZenonT(60) DEF Jobs
<1>5. Taken(j, m, rows) = Continued(k)
  BY DEF Taken
<1> HIDE DEF k
<1> QED
  BY <1>1, <1>4, <1>5, ContinuedType

LEMMA KeptType ==
  ASSUME NEW j \in Jobs, NEW m \in Matches
  PROVE  /\ Kept(j, m) \in SUBSET Matches
         /\ j.kind # "fetch" => OfPatch(Kept(j, m), j.patch)
BY DEF Kept, OfPatch

LEMMA JobSet ==
  ASSUME job \in [Dirs -> Jobs], NEW d \in Dirs, NEW x \in Jobs,
         job' = [job EXCEPT ![d] = x]
  PROVE  /\ job' \in [Dirs -> Jobs]
         /\ job'[d] = x
         /\ \A e \in Dirs : e # d => job'[e] = job[e]
OBVIOUS

\* A step of one collection that touches neither silver nor sources.json, and
\* does not come from their writing.
LEMMA QuietStep ==
  ASSUME IInv, NEW d \in Dirs, NEW x \in Jobs,
         job' = [job EXCEPT ![d] = x],
         UNCHANGED <<silver, ever, archive, op, sources, gap>>,
         overlapped \subseteq overlapped',
         x.stage \notin {"merge", "sources", "closing"},
         job[d].stage \notin {"sources", "closing"},
         x.kind = "none" => x.stage = "idle",
         x = NoJob \/ (x.kind = job[d].kind /\ x.patch = job[d].patch),
         d = "rank" => OfPatch(x.pool, x.patch)
  PROVE  IInv'
<1> USE JobSet
<1>1. job' \in [Dirs -> Jobs] /\ job'[d] = x /\ \A e \in Dirs : e # d => job'[e] = job[e]
  BY DEF IInv, Types
<1>2. Types'
  BY <1>1 DEF IInv, Types
<1>3. NoJob.kind = "none" /\ NoJob.stage = "idle"
  BY DEF NoJob
<1>4. Stages'
  BY <1>1, <1>3 DEF IInv, Stages
<1>5. Kept3'
  BY <1>1 DEF IInv, Kept3, KeptBy, Rewritten, Archived
<1>6. Copies'
  BY <1>1 DEF IInv, Copies
<1>7. Apart'
  <2>1. CASE d = "rank"
    BY <1>1, <1>3, <2>1 DEF IInv, Apart
  <2>2. CASE d # "rank"
    <3>1. job'["rank"] = job["rank"]
      BY <1>1, <2>2
    <3> QED
      BY <3>1 DEF IInv, Apart, OfPatch
  <2> QED
    BY <2>1, <2>2
<1> QED
  BY <1>2, <1>4, <1>5, <1>6, <1>7 DEF IInv

\* A step of a maintenance command that holds no rows after it and moves none.
LEMMA QuietOp ==
  ASSUME IInv,
         UNCHANGED <<silver, ever, job, sources, gap>>,
         overlapped \subseteq overlapped',
         op' \in Ops, op'.at = "none",
         op'.kind \in {"reextract", "rebuild"} => op'.stage = "idle",
         archive' \in [Patches -> Archives],
         \A p \in Patches : archive'[p].rows = archive[p].rows,
         \A p \in Patches : archive'[p].state = "none" => archive'[p] = NoArchive,
         op'.kind = "archive" => /\ op'.patch \in Patches
                                 /\ archive'[op'.patch].state # "none",
         op'.stage \in {"raw", "silver", "gold", "zip"} => op'.kind = "archive",
         op'.stage \in {"raw", "silver"} => archive'[op'.patch].rows = NoArchive.rows
  PROVE  IInv'
<1>1. Types'
  BY DEF IInv, Types
<1>2. Stages'
  BY DEF IInv, Stages
<1>3. \A d \in Dirs : Archived(d)' = Archived(d)
  BY DEF Archived
<1>4. Kept3'
  BY <1>3 DEF IInv, Kept3, KeptBy, Rewritten
<1>5. Copies'
  BY DEF IInv, Copies
<1>6. Apart'
  BY DEF IInv, Apart, OfPatch
<1> QED
  BY <1>1, <1>2, <1>4, <1>5, <1>6 DEF IInv

-----------------------------------------------------------------------------
LEMMA InitInv == Init => IInv
<1> SUFFICES ASSUME Init PROVE IInv
  OBVIOUS
<1> USE DEF Init
<1>1. NoArchive \in Archives
  BY DEF NoArchive, Archives
<1>2. Types
  BY <1>1, NoJobType, NoOpType DEF Types
<1>3. Stages
  BY DEF Stages, NoJob, NoOp
<1>4. Kept3
  BY DEF Kept3, KeptBy, NoJob, NoOp
<1>5. Copies
  BY DEF Copies, NoJob, NoOp
<1>6. Apart
  BY DEF Apart, OfPatch, NoJob
<1> QED
  BY <1>2, <1>3, <1>4, <1>5, <1>6 DEF IInv

\* The start of a collection: nothing is written yet, and the rank's patch is
\* the one of sources.json whenever there are rows.
LEMMA StartStep ==
  ASSUME IInv, NEW d \in Dirs, NEW kind \in JobKinds \ {"none"}, NEW patch \in Int,
         NEW players \in Seq(Players), NEW known \in SUBSET Matches,
         Started(d, kind, patch, players, known),
         job[d].kind = "none",
         UNCHANGED <<silver, ever, archive, op, sources, gap, overlapped>>,
         d = "rank" => /\ kind # "fetch" /\ patch \in Patches
                       /\ sources \in Patches => patch = sources
  PROVE  IInv'
<1> DEFINE x == [NoJob EXCEPT !.kind = kind, !.patch = patch, !.players = players,
                              !.known = known, !.stage = "list"]
<1>1. job' = [job EXCEPT ![d] = x]
  BY DEF Started
<1>2. x \in Jobs
  BY NoJobType, ZenonT(60) DEF Jobs, JobKinds, JobStages
<1>3. x.kind = kind /\ x.patch = patch /\ x.pool = {} /\ x.stage = "list"
  BY SMT DEF NoJob
<1> HIDE DEF x
<1>4. job' \in [Dirs -> Jobs] /\ job'[d] = x /\ \A e \in Dirs : e # d => job'[e] = job[e]
  BY <1>1, <1>2, JobSet DEF IInv, Types
<1>5. Types'
  BY <1>4 DEF IInv, Types
<1>6. Stages'
  BY <1>3, <1>4 DEF IInv, Stages
<1>7. Kept3'
  BY <1>3, <1>4, SMTT(60) DEF IInv, Kept3, KeptBy, Rewritten, Archived
<1>8. Copies'
  BY <1>3, <1>4 DEF IInv, Copies
<1>9. Apart'
  <2>1. CASE d = "rank"
    <3>1. job["rank"].stage = "idle"
      BY <2>1 DEF IInv, Stages
    <3> QED
      BY <1>3, <1>4, <2>1, <3>1 DEF IInv, Apart, OfPatch
  <2>2. CASE d # "rank"
    <3>1. job'["rank"] = job["rank"]
      BY <1>4, <2>2
    <3> QED
      BY <3>1 DEF IInv, Apart, OfPatch
  <2> QED
    BY <2>1, <2>2
<1> QED
  BY <1>5, <1>6, <1>7, <1>8, <1>9 DEF IInv

-----------------------------------------------------------------------------
\* The steps of a collection that has started.
LEMMA ListStep ==
  ASSUME IInv, NEW d \in Dirs, NEW asked \in SUBSET Matches, ListMatches(d, asked)
  PROVE  IInv'
<1> DEFINE j == job[d]
           k == [j EXCEPT !.players = Tail(@), !.left = asked,
                          !.known = IF j.kind = "densify" THEN @ \cup asked ELSE @,
                          !.turn = (@ + 1) % Checkpoint]
<1>1. j \in Jobs /\ j.stage = "list" /\ j.players # <<>>
  BY DEF ListMatches, IInv, Types
<1>2. /\ Tail(j.players) \in Seq(Players)
      /\ (j.turn + 1) % Checkpoint \in Int
      /\ (IF j.kind = "densify" THEN j.known \cup asked ELSE j.known) \in SUBSET Matches
  BY <1>1, LayersAssumption, SMT DEF Jobs
<1>3. k \in Jobs
  BY <1>1, <1>2, ZenonT(60) DEF Jobs
<1>4. k.kind = j.kind /\ k.patch = j.patch /\ k.pool = j.pool
  BY <1>1, SMT DEF Jobs
<1>5. job' = [job EXCEPT ![d] = Continued(k)]
  BY DEF ListMatches
<1> HIDE DEF k
<1>6. /\ Continued(k) \in Jobs /\ Continued(k).kind = j.kind
      /\ Continued(k).patch = j.patch /\ Continued(k).pool = j.pool
      /\ Continued(k).stage \in {"fetch", "read", "list", "end"}
  BY <1>3, <1>4, ContinuedType
<1>7. j.kind # "none"
  BY <1>1 DEF IInv, Stages
<1>8. d = "rank" => OfPatch(j.pool, j.patch)
  BY DEF IInv, Apart
<1> QED
  BY <1>1, <1>5, <1>6, <1>7, <1>8, QuietStep DEF ListMatches, files, marks

\* A match is done, with or without its rows.
LEMMA TakeStep ==
  ASSUME IInv, NEW d \in Dirs, NEW m \in Matches,
         NEW rows \in {{}, Kept(job[d], m)},
         job' = [job EXCEPT ![d] = Taken(@, m, rows)],
         job[d].stage \in {"fetch", "writing"},
         UNCHANGED <<silver, ever, archive, op, sources, gap, overlapped>>
  PROVE  IInv'
<1>1. job[d] \in Jobs /\ job[d].kind # "none"
  BY DEF IInv, Types, Stages
<1>2. rows \in SUBSET Matches /\ (job[d].kind # "fetch" => OfPatch(rows, job[d].patch))
  BY <1>1, KeptType DEF OfPatch
<1> DEFINE x == Taken(job[d], m, rows)
<1>3. job' = [job EXCEPT ![d] = x]
  BY DEF IInv, Types
<1>4. /\ x \in Jobs /\ x.kind = job[d].kind /\ x.patch = job[d].patch
      /\ x.pool = job[d].pool \cup rows /\ x.stage \in {"fetch", "read", "list", "end"}
  BY <1>1, <1>2, TakenType
<1> HIDE DEF x
<1>5. d = "rank" => OfPatch(x.pool, x.patch)
  BY <1>2, <1>4 DEF IInv, Apart, Stages, OfPatch
<1> QED
  BY <1>1, <1>3, <1>4, <1>5, QuietStep

\* A new stage, and perhaps another base.
LEMMA TurnStep ==
  ASSUME IInv, NEW d \in Dirs, NEW m \in Matches, AskRiot(d, m) \/ OpenRaw(d, m)
  PROVE  IInv'
<1>1. job[d] \in Jobs /\ job[d].kind # "none" /\ (d = "rank" => OfPatch(job[d].pool, job[d].patch))
  BY DEF IInv, Types, Stages, Apart, AskRiot, OpenRaw
<1>2. CASE AskRiot(d, m)
  <2> DEFINE x == [job[d] EXCEPT !.stage = "asked", !.base = {m}]
  <2>1. x \in Jobs
    BY <1>1, ZenonT(60) DEF Jobs, JobStages
  <2>2. x.kind = job[d].kind /\ x.patch = job[d].patch /\ x.pool = job[d].pool /\ x.stage = "asked"
    BY <1>1, SMT DEF Jobs
  <2>3. job' = [job EXCEPT ![d] = x]
    BY <1>2 DEF AskRiot
  <2> HIDE DEF x
  <2> QED
    BY <1>1, <1>2, <2>1, <2>2, <2>3, QuietStep DEF AskRiot, files, marks
<1>3. CASE OpenRaw(d, m)
  <2> DEFINE x == [job[d] EXCEPT !.stage = "writing"]
  <2>1. x \in Jobs
    BY <1>1, ZenonT(60) DEF Jobs, JobStages
  <2>2. x.kind = job[d].kind /\ x.patch = job[d].patch /\ x.pool = job[d].pool /\ x.stage = "writing"
    BY <1>1, SMT DEF Jobs
  <2>3. job' = [job EXCEPT ![d] = x]
    BY <1>3 DEF OpenRaw
  <2> HIDE DEF x
  <2> QED
    BY <1>1, <1>3, <2>1, <2>2, <2>3, QuietStep DEF OpenRaw
<1> QED
  BY <1>2, <1>3

\* A collection that ends, away from sources.json.
LEMMA EndStep ==
  ASSUME IInv, NEW d \in Dirs, job' = [job EXCEPT ![d] = NoJob],
         job[d].stage \notin {"sources", "closing"},
         UNCHANGED <<silver, ever, archive, op, sources, gap>>,
         overlapped \subseteq overlapped'
  PROVE  IInv'
<1>1. NoJob.stage = "idle" /\ OfPatch(NoJob.pool, NoJob.patch)
  BY DEF NoJob, OfPatch
<1> QED
  BY <1>1, NoJobType, QuietStep

\* The copy merge_jsonl takes has every row, of the collection's patch.
LEMMA ReadStep ==
  ASSUME IInv, NEW d \in Dirs, ReadSilver(d)
  PROVE  IInv'
<1> DEFINE x == [job[d] EXCEPT !.base = silver[d], !.stage = "merge"]
<1>1. job[d] \in Jobs /\ silver[d] \in SUBSET Matches /\ job[d].kind # "none" /\ job[d].stage = "read"
  BY DEF IInv, Types, Stages, ReadSilver
<1>2. x \in Jobs
  BY <1>1, ZenonT(60) DEF Jobs, JobStages
<1>3. /\ x.kind = job[d].kind /\ x.patch = job[d].patch /\ x.pool = job[d].pool
      /\ x.base = silver[d] /\ x.stage = "merge"
  BY <1>1, SMT DEF Jobs
<1>4. job' = [job EXCEPT ![d] = x]
  BY DEF ReadSilver
<1> HIDE DEF x
<1>5. job' \in [Dirs -> Jobs] /\ job'[d] = x /\ \A e \in Dirs : e # d => job'[e] = job[e]
  BY <1>2, <1>4, JobSet DEF IInv, Types
<1>6. UNCHANGED <<silver, ever, archive, op, sources, gap, overlapped>>
  BY DEF ReadSilver, files, marks
<1>7. Types'
  BY <1>5, <1>6 DEF IInv, Types
<1>8. Stages'
  BY <1>1, <1>3, <1>5, <1>6 DEF IInv, Stages
<1>9. Kept3'
  BY <1>3, <1>5, <1>6 DEF IInv, Kept3, KeptBy, Rewritten, Archived
<1>10. Copies'
  BY <1>3, <1>5, <1>6 DEF IInv, Copies
<1>11. Apart'
  <2>1. CASE d = "rank"
    BY <1>1, <1>3, <1>5, <1>6, <2>1 DEF IInv, Apart, OfPatch
  <2>2. CASE d # "rank"
    <3>1. job'["rank"] = job["rank"]
      BY <1>5, <2>2
    <3> QED
      BY <1>6, <3>1 DEF IInv, Apart, OfPatch
  <2> QED
    BY <2>1, <2>2
<1> QED
  BY <1>7, <1>8, <1>9, <1>10, <1>11 DEF IInv

\* Writing the copy and the new rows loses nothing: the copy still covers what
\* was ever there, and a reextract_silver in progress is marked.
LEMMA MergeStep ==
  ASSUME IInv, NEW d \in Dirs, MergeSilver(d)
  PROVE  IInv'
<1> DEFINE all == Merged(job[d])
           st == IF d = "rank" THEN "sources" ELSE "gold"
           x == [job[d] EXCEPT !.base = all, !.merged = TRUE, !.stage = st]
<1>1. job[d] \in Jobs /\ job[d].kind # "none" /\ job[d].stage = "merge"
  BY DEF IInv, Types, Stages, MergeSilver
<1>2. all = job[d].base \cup job[d].pool /\ all \in SUBSET Matches
  BY <1>1, SMT DEF Merged, Jobs
<1>3. st \in {"sources", "gold"} /\ (d = "rank" => st = "sources")
  OBVIOUS
<1>4. job' = [job EXCEPT ![d] = x] /\ silver' = [silver EXCEPT ![d] = all]
      /\ ever' = [ever EXCEPT ![d] = ever[d] \cup all]
  BY DEF MergeSilver
<1> HIDE DEF all, st
<1>5. x \in Jobs
  <2>1. st \in JobStages /\ TRUE \in BOOLEAN
    BY <1>3 DEF JobStages
  <2> QED
    BY <1>1, <1>2, <2>1, ZenonT(60) DEF Jobs
<1>6. /\ x.kind = job[d].kind /\ x.patch = job[d].patch /\ x.pool = job[d].pool
      /\ x.stage = st
  BY <1>1, SMT DEF Jobs
<1> HIDE DEF x
<1>7. job' \in [Dirs -> Jobs] /\ job'[d] = x /\ \A e \in Dirs : e # d => job'[e] = job[e]
  BY <1>4, <1>5, JobSet DEF IInv, Types
<1>8. /\ silver' \in [Dirs -> SUBSET Matches] /\ silver'[d] = all
      /\ \A e \in Dirs : e # d => silver'[e] = silver[e]
      /\ ever' \in [Dirs -> SUBSET Matches] /\ ever'[d] = ever[d] \cup all
      /\ \A e \in Dirs : e # d => ever'[e] = ever[e]
  BY <1>2, <1>4 DEF IInv, Types
<1>9. UNCHANGED <<archive, op, sources, gap>> /\ overlapped' = overlapped \cup Overlapping(d)
  BY DEF MergeSilver
<1>10. Types'
  BY <1>7, <1>8, <1>9 DEF IInv, Types
<1>11. Stages'
  BY <1>1, <1>6, <1>7, <1>9 DEF IInv, Stages
<1>12. Kept3'
  <2>1. SUFFICES ASSUME NEW e \in Dirs, ~Rewritten(e)'
                 PROVE  /\ KeptBy(silver[e], e)'
                        /\ (job[e].stage = "merge" => KeptBy(job[e].base, e))'
                        /\ ((op.at = e /\ op.kind = "reextract") => KeptBy(op.held, e))'
    BY DEF Kept3
  <2>2. ~Rewritten(e) /\ Archived(e)' = Archived(e)
    BY <1>9, <2>1 DEF Rewritten, Archived
  <2>3. CASE e = d
    <3>1. KeptBy(job[d].base, d)
      BY <1>1, <2>2, <2>3 DEF IInv, Kept3
    <3>2. ~(op.at = d /\ op.kind = "reextract")
      BY <1>9, <2>1, <2>3 DEF Rewritten, Overlapping
    <3>3. KeptBy(silver[d], d)'
      BY <1>2, <1>8, <2>2, <2>3, <3>1 DEF KeptBy
    <3> QED
      BY <1>3, <1>6, <1>7, <1>9, <2>3, <3>2, <3>3
  <2>4. CASE e # d
    BY <1>7, <1>8, <1>9, <2>2, <2>4 DEF IInv, Kept3, KeptBy
  <2> QED
    BY <2>3, <2>4
<1>13. Copies'
  BY <1>1, <1>2, <1>3, <1>6, <1>7, <1>8, <1>9 DEF IInv, Copies
<1>14. Apart'
  <2>1. CASE d = "rank"
    <3>1. gap \/ OfPatch(all, job[d].patch)
      BY <1>1, <1>2, <2>1 DEF IInv, Apart, OfPatch
    <3> QED
      BY <1>1, <1>3, <1>6, <1>7, <1>8, <1>9, <2>1, <3>1 DEF IInv, Apart, OfPatch
  <2>2. CASE d # "rank"
    <3>1. job'["rank"] = job["rank"] /\ silver'["rank"] = silver["rank"]
      BY <1>7, <1>8, <2>2
    <3> QED
      BY <1>9, <3>1 DEF IInv, Apart, OfPatch
  <2> QED
    BY <2>1, <2>2
<1> QED
  BY <1>10, <1>11, <1>12, <1>13, <1>14 DEF IInv

\* The rank's rows are of the collection's patch while it writes sources.json.
LEMMA WritingPatch ==
  ASSUME IInv, job["rank"].stage \in {"sources", "closing"}
  PROVE  /\ job["rank"].kind # "none" /\ job["rank"].patch \in Patches
         /\ gap \/ OfPatch(silver["rank"], job["rank"].patch)
BY DEF IInv, Stages, Apart, OfPatch

LEMMA OpenSourcesStep ==
  ASSUME IInv, OpenSources
  PROVE  IInv'
<1> DEFINE x == [job["rank"] EXCEPT !.stage = "closing"]
<1>1. job["rank"] \in Jobs /\ job["rank"].stage = "sources"
  BY DEF IInv, Types, OpenSources
<1>2. x \in Jobs
  BY <1>1, ZenonT(60) DEF Jobs, JobStages
<1>3. /\ x.kind = job["rank"].kind /\ x.patch = job["rank"].patch
      /\ x.pool = job["rank"].pool /\ x.stage = "closing"
  BY <1>1, SMT DEF Jobs
<1>4. job' = [job EXCEPT !["rank"] = x]
  BY DEF OpenSources
<1> HIDE DEF x
<1>5. job' \in [Dirs -> Jobs] /\ job'["rank"] = x /\ job'["personal"] = job["personal"]
  BY <1>2, <1>4, JobSet DEF IInv, Types
<1>6. UNCHANGED <<silver, ever, archive, op, gap, overlapped>>
  BY DEF OpenSources, marks
<1>7. Types'
  BY <1>5, <1>6 DEF IInv, Types
<1>8. Stages'
  BY <1>1, <1>3, <1>5, <1>6 DEF IInv, Stages
<1>9. Kept3'
  BY <1>3, <1>5, <1>6 DEF IInv, Kept3, KeptBy, Rewritten, Archived
<1>10. Copies'
  BY <1>3, <1>5, <1>6 DEF IInv, Copies
<1>11. Apart'
  BY <1>1, <1>3, <1>5, <1>6, WritingPatch DEF IInv, Apart, OfPatch
<1> QED
  BY <1>7, <1>8, <1>9, <1>10, <1>11 DEF IInv

LEMMA CloseSourcesStep ==
  ASSUME IInv, CloseSources
  PROVE  IInv'
<1> DEFINE j == job["rank"]
           p == IF j.kind = "densify" THEN {} ELSE j.pool
           k == [j EXCEPT !.pool = p, !.stage = "sources"]
           x == IF j.last THEN [k EXCEPT !.stage = "gold"] ELSE Continued(k)
<1>1. j \in Jobs /\ j.stage \in {"sources", "closing"}
  BY DEF IInv, Types, CloseSources
<1>2. p \in SUBSET Matches /\ p \subseteq j.pool
  BY <1>1, SMT DEF Jobs
<1>3. k \in Jobs /\ k.kind = j.kind /\ k.patch = j.patch /\ k.pool = p
  <2>1. k \in Jobs
    BY <1>1, <1>2, ZenonT(60) DEF Jobs, JobStages
  <2> QED
    BY <1>1, <2>1, SMT DEF Jobs
<1>4. job' = [job EXCEPT !["rank"] = x]
  BY DEF CloseSources
<1> HIDE DEF p, k
<1>5. /\ x \in Jobs /\ x.kind = j.kind /\ x.patch = j.patch /\ x.pool = p
      /\ x.stage \in {"gold", "fetch", "read", "list", "end"}
  <2>1. CASE j.last
    <3>1. x = [k EXCEPT !.stage = "gold"]
      BY <2>1
    <3>2. x \in Jobs
      BY <1>3, <3>1, ZenonT(60) DEF Jobs, JobStages
    <3> QED
      BY <1>3, <3>1, <3>2, SMT DEF Jobs
  <2>2. CASE ~j.last
    BY <1>3, <2>2, ContinuedType
  <2> QED
    BY <2>1, <2>2
<1> HIDE DEF x
<1>6. job' \in [Dirs -> Jobs] /\ job'["rank"] = x /\ job'["personal"] = job["personal"]
  BY <1>4, <1>5, JobSet DEF IInv, Types
<1>7. UNCHANGED <<silver, ever, archive, op, gap, overlapped>> /\ sources' = j.patch
  BY DEF CloseSources, marks
<1>8. Types'
  BY <1>6, <1>7 DEF IInv, Types
<1>9. Stages'
  BY <1>1, <1>5, <1>6, <1>7 DEF IInv, Stages
<1>10. Kept3'
  BY <1>5, <1>6, <1>7 DEF IInv, Kept3, KeptBy, Rewritten, Archived
<1>11. Copies'
  BY <1>5, <1>6, <1>7 DEF IInv, Copies
<1>12. Apart'
  BY <1>1, <1>2, <1>5, <1>6, <1>7, WritingPatch DEF IInv, Apart, OfPatch
<1> QED
  BY <1>8, <1>9, <1>10, <1>11, <1>12 DEF IInv

\* A kill while sources.json is written either leaves it as it should be, or
\* is the excuse of PatchesApart.
LEMMA KillJobStep ==
  ASSUME IInv, NEW d \in Dirs, KillJob(d)
  PROVE  IInv'
<1>1. job' \in [Dirs -> Jobs] /\ job'[d] = NoJob /\ \A e \in Dirs : e # d => job'[e] = job[e]
  BY NoJobType, JobSet DEF IInv, Types, KillJob
<1>2. UNCHANGED <<silver, ever, archive, op, sources, overlapped>>
  BY DEF KillJob, files
<1>3. NoJob.kind = "none" /\ NoJob.stage = "idle" /\ NoJob.pool = {}
  BY DEF NoJob
<1>4. Types'
  BY <1>1, <1>2 DEF IInv, Types
<1>5. Stages'
  BY <1>1, <1>2, <1>3 DEF IInv, Stages
<1>6. Kept3'
  BY <1>1, <1>2, <1>3 DEF IInv, Kept3, KeptBy, Rewritten, Archived
<1>7. Copies'
  BY <1>1, <1>2, <1>3 DEF IInv, Copies
<1>8. gap' <=> gap \/ (job[d].stage \in {"sources", "closing"} /\ sources # job[d].patch)
  BY DEF KillJob
<1>9. Apart'
  <2>1. CASE d = "rank"
    <3>1. CASE job[d].stage \in {"sources", "closing"}
      <4>1. gap \/ OfPatch(silver["rank"], job[d].patch)
        BY <2>1, <3>1, WritingPatch
      <4>2. job[d].patch \in Patches
        BY <2>1, <3>1, WritingPatch
      <4> QED
        BY <1>1, <1>2, <1>3, <1>8, <2>1, <3>1, <4>1, <4>2 DEF Apart, OfPatch
    <3>2. CASE job[d].stage \notin {"sources", "closing"}
      BY <1>1, <1>2, <1>3, <1>8, <2>1, <3>2 DEF IInv, Apart, OfPatch
    <3> QED
      BY <3>1, <3>2
  <2>2. CASE d # "rank"
    <3>1. job'["rank"] = job["rank"]
      BY <1>1, <2>2
    <3> QED
      BY <1>2, <1>8, <3>1 DEF IInv, Apart, OfPatch
  <2> QED
    BY <2>1, <2>2
<1> QED
  BY <1>4, <1>5, <1>6, <1>7, <1>9 DEF IInv

-----------------------------------------------------------------------------
\* The steps of the maintenance commands.
LEMMA ArchiveFacts ==
  ASSUME IInv
  PROVE  /\ archive \in [Patches -> Archives]
         /\ \A p \in Patches : archive[p].state = "none" => archive[p] = NoArchive
BY DEF IInv, Types, Stages

LEMMA CommandStep ==
  ASSUME IInv,
         \/ \E kind \in {"reextract", "rebuild"} : StartOp(kind)
         \/ RowsDone \/ KillOp
         \/ \E m \in Matches : \/ StartCompress(m) \/ OpenZst(m)
                               \/ CloseZst(m) \/ UnlinkPlain(m)
  PROVE  IInv'
<1> USE DEF files, marks
<1>1. NoOp.at = "none" /\ NoOp.stage = "idle" /\ NoOp.kind = "none"
  BY DEF NoOp
<1>2. ASSUME NEW kind \in {"reextract", "rebuild"}, StartOp(kind) PROVE IInv'
  <2> DEFINE todo == {e \in Dirs : silver[e] # {}}
             x == [NoOp EXCEPT !.kind = kind, !.todo = todo]
  <2>1. x \in Ops
    <3>1. todo \in SUBSET Dirs /\ kind \in OpKinds
      BY DEF OpKinds
    <3> HIDE DEF todo
    <3> QED
      BY <3>1, NoOpType, ZenonT(60) DEF Ops
  <2>2. x.at = "none" /\ x.stage = "idle"
    BY SMT DEF NoOp
  <2>3. op' = x
    BY <1>2 DEF StartOp
  <2> QED
    BY <1>2, <2>1, <2>2, <2>3, ArchiveFacts, QuietOp DEF StartOp
<1>3. CASE RowsDone \/ KillOp
  BY <1>1, <1>3, NoOpType, ArchiveFacts, QuietOp DEF RowsDone, KillOp
<1>4. ASSUME NEW m \in Matches, StartCompress(m) PROVE IInv'
  <2> DEFINE x == [NoOp EXCEPT !.kind = "compress", !.held = {m}, !.stage = "open"]
  <2>1. x \in Ops
    <3>1. {m} \in SUBSET Matches /\ "compress" \in OpKinds /\ "open" \in OpStages
      BY DEF OpKinds, OpStages
    <3> QED
      BY <3>1, NoOpType, ZenonT(60) DEF Ops
  <2>2. x.at = "none" /\ x.stage = "open" /\ x.kind = "compress"
    BY SMT DEF NoOp
  <2>3. op' = x
    BY <1>4 DEF StartCompress
  <2> QED
    BY <1>4, <2>1, <2>2, <2>3, ArchiveFacts, QuietOp DEF StartCompress
<1>5. ASSUME NEW m \in Matches, NEW from, NEW state, NEW to \in {"close", "unlink"}, WriteZst(m, from, state, to)
      PROVE  IInv'
  <2> DEFINE x == [op EXCEPT !.stage = to]
  <2>1. op \in Ops /\ op.kind = "compress" /\ op.at = "none"
    BY <1>5 DEF IInv, Types, Stages, WriteZst, Ops
  <2>2. x \in Ops
    <3>1. to \in OpStages
      BY DEF OpStages
    <3> QED
      BY <2>1, <3>1, ZenonT(60) DEF Ops
  <2>3. x.at = "none" /\ x.stage = to /\ x.kind = "compress"
    BY <2>1, SMT DEF Ops
  <2>4. op' = x
    BY <1>5 DEF WriteZst
  <2> QED
    BY <1>5, <2>2, <2>3, <2>4, ArchiveFacts, QuietOp DEF WriteZst
<1>6. ASSUME NEW m \in Matches, OpenZst(m) \/ CloseZst(m) PROVE IInv'
  BY <1>5, <1>6 DEF OpenZst, CloseZst
<1>7. ASSUME NEW m \in Matches, UnlinkPlain(m) PROVE IInv'
  BY <1>1, <1>7, NoOpType, ArchiveFacts, QuietOp DEF UnlinkPlain
<1> QED
  BY <1>2, <1>3, <1>4, <1>6, <1>7

LEMMA ReadRowsStep ==
  ASSUME IInv, NEW d \in Dirs, ReadRows(d)
  PROVE  IInv'
<1> DEFINE x == [op EXCEPT !.at = d, !.todo = @ \ {d}, !.held = silver[d]]
<1>1. op \in Ops /\ op.kind \in {"reextract", "rebuild"} /\ silver[d] \in SUBSET Matches
  BY DEF IInv, Types, ReadRows
<1>2. x \in Ops
  <2>1. (op.todo \ {d}) \in SUBSET Dirs
    BY <1>1, SMT DEF Ops
  <2> QED
    BY <1>1, <2>1, ZenonT(60) DEF Ops
<1>3. x.at = d /\ x.held = silver[d] /\ x.kind = op.kind /\ x.stage = op.stage /\ x.patch = op.patch
  BY <1>1, SMT DEF Ops
<1>4. op' = x
  BY DEF ReadRows
<1>5. UNCHANGED <<silver, ever, archive, job, sources, gap, overlapped>>
  BY DEF ReadRows, files, marks
<1> HIDE DEF x
<1>6. Types'
  BY <1>2, <1>4, <1>5 DEF IInv, Types
<1>7. op.stage = "idle"
  BY <1>1 DEF IInv, Stages
<1>8. Stages'
  BY <1>1, <1>3, <1>4, <1>5, <1>7 DEF IInv, Stages
<1>9. Kept3'
  BY <1>3, <1>4, <1>5 DEF IInv, Kept3, KeptBy, Rewritten, Archived
<1>10. Copies'
  BY <1>3, <1>4, <1>5 DEF IInv, Copies
<1>11. Apart'
  BY <1>5 DEF IInv, Apart, OfPatch
<1> QED
  BY <1>6, <1>8, <1>9, <1>10, <1>11 DEF IInv

\* What reextract_silver writes back: all that ever was, or it is marked.
LEMMA WriteRowsStep ==
  ASSUME IInv, NEW d \in Dirs, WriteRows(d)
  PROVE  IInv'
<1> DEFINE x == [op EXCEPT !.at = "none", !.held = {}]
<1>1. op \in Ops /\ op.held \in SUBSET Matches /\ op.at = d
  BY SMT DEF IInv, Types, WriteRows, Ops
<1>2. x \in Ops
  <2>1. {} \in SUBSET Matches
    OBVIOUS
  <2> QED
    BY <1>1, <2>1, ZenonT(60) DEF Ops
<1>3. x.at = "none" /\ x.kind = op.kind /\ x.stage = op.stage /\ x.patch = op.patch
  BY <1>1, SMT DEF Ops
<1>4. op' = x
  BY DEF WriteRows
<1> HIDE DEF x
<1>5. UNCHANGED <<ever, archive, job, sources, gap, overlapped>>
  BY DEF WriteRows, marks
<1>6. /\ silver \in [Dirs -> SUBSET Matches]
      /\ silver' = silver \/ (op.kind = "reextract" /\ silver' = [silver EXCEPT ![d] = op.held])
  BY DEF WriteRows, IInv, Types
<1>14. /\ silver' \in [Dirs -> SUBSET Matches]
       /\ \A e \in Dirs :
            silver'[e] = silver[e] \/ (e = d /\ op.kind = "reextract" /\ silver'[e] = op.held)
  <2>1. CASE silver' = silver
    BY <1>6, <2>1
  <2>2. CASE op.kind = "reextract" /\ silver' = [silver EXCEPT ![d] = op.held]
    BY <1>1, <1>6, <2>2
  <2> QED
    BY <1>6, <2>1, <2>2
<1>7. Types'
  BY <1>2, <1>4, <1>5, <1>14 DEF IInv, Types
<1>8. Stages'
  BY <1>3, <1>4, <1>5 DEF IInv, Stages
<1>9. Kept3'
  <2>1. \A e \in Dirs : Archived(e)' = Archived(e)
    BY <1>5 DEF Archived
  <2> QED
    BY <1>1, <1>3, <1>4, <1>5, <1>14, <2>1 DEF IInv, Kept3, KeptBy, Rewritten
<1>10. \A e \in Dirs : silver'[e] \subseteq silver[e]
  BY <1>1, <1>14 DEF IInv, Copies
<1>11. Copies'
  BY <1>3, <1>4, <1>5, <1>10 DEF IInv, Copies
<1>12. Apart'
  BY <1>5, <1>10 DEF IInv, Apart, OfPatch
<1> QED
  BY <1>7, <1>8, <1>9, <1>11, <1>12 DEF IInv

LEMMA NoRows == \A d \in Dirs : NoArchive.rows[d] = {}
BY DEF NoArchive

\* Starting an archive, moving the raw, the gold, and zipping leave the
\* archived rows as they are.
LEMMA ArchiveStep ==
  ASSUME IInv, StartArchive \/ MoveRaw \/ MoveGold \/ ZipArchive
  PROVE  IInv'
<1>1. NoOp.at = "none" /\ NoOp.stage = "idle" /\ NoOp.kind = "none" /\ op \in Ops
  BY DEF NoOp, IInv, Types
<1>2. CASE StartArchive
  <2> DEFINE x == [NoOp EXCEPT !.kind = "archive", !.patch = sources, !.stage = "raw"]
             a == [archive[sources] EXCEPT !.state = "folder"]
  <2>1. x \in Ops
    <3>1. sources \in Int /\ "archive" \in OpKinds /\ "raw" \in OpStages
      BY <1>2, LayersAssumption DEF StartArchive, OpKinds, OpStages
    <3> QED
      BY <3>1, NoOpType, ZenonT(60) DEF Ops
  <2>2. x.at = "none" /\ x.stage = "raw" /\ x.kind = "archive" /\ x.patch = sources
    BY SMT DEF NoOp
  <2>3. sources \in Patches /\ archive[sources] \in Archives /\ archive[sources].rows = NoArchive.rows
    BY <1>2 DEF StartArchive, IInv, Types, Stages
  <2>4. a \in Archives /\ a.state = "folder" /\ a.rows = archive[sources].rows
    BY <2>3, SMT DEF Archives
  <2>5. archive' = [archive EXCEPT ![sources] = a] /\ op' = x
    BY <1>2 DEF StartArchive
  <2> HIDE DEF x, a
  <2>6. /\ archive' \in [Patches -> Archives] /\ archive'[sources] = a
        /\ \A p \in Patches : p # sources => archive'[p] = archive[p]
    BY <2>3, <2>4, <2>5 DEF IInv, Types
  <2>7. \A p \in Patches : archive'[p].rows = archive[p].rows
    BY <2>4, <2>6
  <2>8. \A p \in Patches : archive'[p].state = "none" => archive'[p] = NoArchive
    BY <2>4, <2>6, ArchiveFacts
  <2> QED
    <3>1. archive'[op'.patch].state # "none" /\ archive'[op'.patch].rows = NoArchive.rows
      BY <2>2, <2>3, <2>4, <2>5, <2>6
    <3>2. UNCHANGED <<silver, ever, job, sources, gap, overlapped>>
      BY <1>2 DEF StartArchive, marks
    <3> QED
      BY <2>1, <2>2, <2>3, <2>5, <2>6, <2>7, <2>8, <3>1, <3>2, QuietOp
<1>3. ASSUME op.stage \in {"raw", "silver", "gold", "zip"}
      PROVE  op.kind = "archive" /\ op.at = "none" /\ op.patch \in Patches /\ archive[op.patch].state # "none"
  BY <1>1, <1>3, SMT DEF IInv, Stages, Ops
<1>4. ASSUME NEW stage \in {"silver", "gold", "zip"}, Moved(stage), op.stage \in {"raw", "silver", "gold", "zip"}
      PROVE  /\ op' \in Ops /\ op'.at = "none" /\ op'.stage = stage /\ op'.patch = op.patch
             /\ op'.kind = "archive" /\ overlapped \subseteq overlapped'
  <2>1. op' = [op EXCEPT !.stage = stage] /\ overlapped \subseteq overlapped'
    BY <1>4 DEF Moved
  <2>2. op' \in Ops
    <3>1. stage \in OpStages
      BY DEF OpStages
    <3> QED
      BY <1>1, <2>1, <3>1, ZenonT(60) DEF Ops
  <2> QED
    BY <1>1, <1>3, <1>4, <2>1, <2>2, SMT DEF Ops
<1>5. CASE MoveRaw
  <2> DEFINE kept == {m \in Matches : raw[m] = "whole" \/ m \in plain}
             a == [archive[op.patch] EXCEPT !.raw = kept]
  <2>1. op.stage = "raw" /\ Moved("silver") /\ op.patch \in Patches /\ archive[op.patch].rows = NoArchive.rows
    BY <1>5 DEF MoveRaw, IInv, Stages
  <2>2. a \in Archives /\ a.state = archive[op.patch].state /\ a.rows = archive[op.patch].rows
    <3>1. kept \in SUBSET Matches /\ archive[op.patch] \in Archives
      BY <2>1 DEF IInv, Types
    <3> HIDE DEF kept
    <3> QED
      BY <3>1, SMT DEF Archives
  <2>3. archive' = [archive EXCEPT ![op.patch] = a]
    BY <1>5 DEF MoveRaw
  <2> HIDE DEF a
  <2>4. /\ archive' \in [Patches -> Archives] /\ archive'[op.patch] = a
        /\ \A p \in Patches : p # op.patch => archive'[p] = archive[p]
    BY <2>1, <2>2, <2>3 DEF IInv, Types
  <2>5. \A p \in Patches : archive'[p].rows = archive[p].rows
    BY <2>2, <2>4
  <2>6. archive[op.patch].state # "none"
    BY <1>3, <2>1
  <2>7. \A p \in Patches : archive'[p].state = "none" => archive'[p] = NoArchive
    BY <2>2, <2>4, <2>6, ArchiveFacts
  <2> QED
    <3>1. /\ op' \in Ops /\ op'.at = "none" /\ op'.stage = "silver" /\ op'.patch = op.patch
          /\ op'.kind = "archive" /\ overlapped \subseteq overlapped'
      BY <1>4, <2>1
    <3>2. archive'[op'.patch].state # "none" /\ archive'[op'.patch].rows = NoArchive.rows
      BY <2>1, <2>2, <2>4, <2>6, <3>1
    <3>3. UNCHANGED <<silver, ever, job, sources, gap>>
      BY <1>5 DEF MoveRaw
    <3> QED
      BY <2>1, <2>4, <2>5, <2>7, <3>1, <3>2, <3>3, QuietOp
<1>6. CASE MoveGold
  <2>1. op.stage = "gold" /\ Moved("zip") /\ UNCHANGED <<archive, silver, ever, job, sources, gap>>
    BY <1>6 DEF MoveGold
  <2> QED
    BY <1>3, <1>4, <2>1, ArchiveFacts, QuietOp
<1>7. CASE ZipArchive
  <2> DEFINE a == [archive[op.patch] EXCEPT !.state = "zip"]
  <2>1. op.patch \in Patches /\ archive[op.patch] \in Archives
    BY <1>7 DEF ZipArchive, IInv, Types, Stages
  <2>2. a \in Archives /\ a.state = "zip" /\ a.rows = archive[op.patch].rows
    BY <2>1, SMT DEF Archives
  <2>3. archive' = [archive EXCEPT ![op.patch] = a] /\ op' = NoOp
    BY <1>7 DEF ZipArchive
  <2> HIDE DEF a
  <2>4. /\ archive' \in [Patches -> Archives] /\ archive'[op.patch] = a
        /\ \A p \in Patches : p # op.patch => archive'[p] = archive[p]
    BY <2>1, <2>2, <2>3 DEF IInv, Types
  <2>5. \A p \in Patches : archive'[p].rows = archive[p].rows
    BY <2>2, <2>4
  <2>6. \A p \in Patches : archive'[p].state = "none" => archive'[p] = NoArchive
    BY <2>2, <2>4, ArchiveFacts
  <2> QED
    BY <1>1, <1>7, <2>3, <2>4, <2>5, <2>6, NoOpType, QuietOp DEF ZipArchive, marks
<1> QED
  BY <1>2, <1>5, <1>6, <1>7

\* The archive takes every row silver had; the archive of the patch was empty.
LEMMA MoveSilverStep ==
  ASSUME IInv, MoveSilver
  PROVE  IInv'
<1> DEFINE a == [archive[op.patch] EXCEPT !.rows = silver]
<1>1. /\ op \in Ops /\ op.kind = "archive" /\ op.at = "none" /\ op.patch \in Patches
      /\ archive[op.patch].state # "none" /\ archive[op.patch].rows = NoArchive.rows
      /\ archive[op.patch] \in Archives /\ silver \in [Dirs -> SUBSET Matches]
  BY SMT DEF IInv, Types, Stages, MoveSilver, Ops
<1>2. a \in Archives /\ a.state = archive[op.patch].state /\ a.rows = silver
  BY <1>1, SMT DEF Archives
<1>3. archive' = [archive EXCEPT ![op.patch] = a] /\ silver' = [d \in Dirs |-> {}]
  BY DEF MoveSilver
<1> HIDE DEF a
<1>4. /\ archive' \in [Patches -> Archives] /\ archive'[op.patch] = a
      /\ \A p \in Patches : p # op.patch => archive'[p] = archive[p]
  BY <1>1, <1>2, <1>3 DEF IInv, Types
<1>5. /\ op' = [op EXCEPT !.stage = "gold"] /\ overlapped \subseteq overlapped'
      /\ UNCHANGED <<job, ever, gap>>
  BY DEF MoveSilver, Moved
<1>6. op' \in Ops
  <2>1. "gold" \in OpStages
    BY DEF OpStages
  <2> QED
    BY <1>1, <1>5, <2>1, ZenonT(60) DEF Ops
<1>7. op'.kind = "archive" /\ op'.at = "none" /\ op'.patch = op.patch /\ op'.stage = "gold"
  BY <1>1, <1>5, SMT DEF Ops
<1>8. Types'
  BY <1>3, <1>4, <1>5, <1>6 DEF IInv, Types
<1>9. Stages'
  BY <1>1, <1>2, <1>4, <1>5, <1>7, ArchiveFacts DEF IInv, Stages
<1>10. \A d \in Dirs : (silver[d] \cup Archived(d)) \subseteq Archived(d)'
  <2>1. SUFFICES ASSUME NEW d \in Dirs, NEW m \in silver[d] \cup Archived(d)
                 PROVE  \E p \in Patches : m \in archive'[p].rows[d]
    BY DEF Archived
  <2>2. CASE m \in silver[d]
    BY <1>1, <1>2, <1>4, <2>2
  <2>3. CASE m \in Archived(d)
    <3>1. PICK p \in Patches : m \in archive[p].rows[d]
      BY <2>3 DEF Archived
    <3>2. p # op.patch
      BY <1>1, <3>1, NoRows
    <3> QED
      BY <1>4, <3>1, <3>2
  <2> QED
    BY <2>2, <2>3
<1>11. Kept3'
  BY <1>5, <1>7, <1>10 DEF IInv, Kept3, KeptBy, Rewritten
<1>12. Copies'
  BY <1>3, <1>5, <1>7 DEF IInv, Copies
<1>13. Apart'
  BY <1>3, <1>5 DEF IInv, Apart, OfPatch
<1> QED
  BY <1>8, <1>9, <1>11, <1>12, <1>13 DEF IInv

-----------------------------------------------------------------------------
LEMMA NextStep == IInv /\ [Next]_vars => IInv'
<1> SUFFICES ASSUME IInv, [Next]_vars PROVE IInv'
  OBVIOUS
<1>1. CASE UNCHANGED vars \/ NewPatch
  <2>1. UNCHANGED <<silver, ever, archive, job, op, sources, gap, overlapped>>
    BY <1>1 DEF vars, NewPatch, files, marks
  <2> QED
    BY <2>1 DEF IInv, Types, Stages, Kept3, KeptBy, Rewritten, Archived, Copies, Apart, OfPatch
<1>2. CASE \E p \in Patches, s \in Samples : StartReferential(p, s)
  <2>1. PICK p \in Patches, s \in Samples : StartReferential(p, s)
    BY <1>2
  <2>2. "ref" \in JobKinds \ {"none"} /\ p \in Int /\ s \in Seq(Players) /\ {} \in SUBSET Matches
    <3>1. s \in Seq(Players)
      BY SMT DEF Samples
    <3> QED
      BY <3>1, LayersAssumption DEF JobKinds
  <2> QED
    BY <2>1, <2>2, StartStep DEF StartReferential, PatchAllowed, files, marks
<1>3. CASE \E s \in Samples : StartDensify(s)
  <2>1. PICK s \in Samples : StartDensify(s)
    BY <1>3
  <2>2. "densify" \in JobKinds \ {"none"} /\ sources \in Int /\ silver["rank"] \in SUBSET Matches
    BY <2>1, LayersAssumption DEF StartDensify, JobKinds, IInv, Types
  <2>3. s \in Seq(Players)
    BY SMT DEF Samples
  <2> QED
    BY <2>1, <2>2, <2>3, StartStep DEF StartDensify, files, marks
<1>4. CASE \E b \in BOOLEAN : StartPersonal(b)
  <2>1. PICK b \in BOOLEAN : StartPersonal(b)
    BY <1>4
  <2> DEFINE known == IF b THEN silver["personal"] ELSE {}
  <2>2. "fetch" \in JobKinds \ {"none"} /\ NoFile \in Int /\ known \in SUBSET Matches
    BY DEF JobKinds, IInv, Types
  <2>3. <<Me>> \in Seq(Players)
    BY LayersAssumption
  <2> QED
    BY <2>1, <2>2, <2>3, StartStep DEF StartPersonal, files, marks
<1>5. CASE \E d \in Dirs : CollectStep(d)
  <2>1. PICK d \in Dirs : CollectStep(d)
    BY <1>5
  <2>2. ASSUME NEW asked \in SUBSET Matches, ListMatches(d, asked) PROVE IInv'
    BY <2>2, ListStep
  <2>3. ASSUME NEW m \in Matches, ReadRaw(d, m) PROVE IInv'
    BY <2>3, TakeStep DEF ReadRaw, files, marks, IInv, Types
  <2>4. ASSUME NEW m \in Matches, SkipMatch(d, m) PROVE IInv'
    BY <2>4, TakeStep DEF SkipMatch, files, marks
  <2>5. ASSUME NEW m \in Matches, CloseRaw(d, m) PROVE IInv'
    BY <2>5, TakeStep DEF CloseRaw, marks, IInv, Types
  <2>6. ASSUME NEW m \in Matches, AskRiot(d, m) \/ OpenRaw(d, m) PROVE IInv'
    BY <2>6, TurnStep
  <2>7. ASSUME NEW m \in Matches, StopOnTorn(d, m) PROVE IInv'
    BY <2>7, EndStep DEF StopOnTorn, files
  <2>8. CASE NothingLeft(d)
    BY <2>8, EndStep DEF NothingLeft, files
  <2>9. CASE WriteGold(d)
    BY <2>9, EndStep DEF WriteGold
  <2> QED
    BY <2>1, <2>2, <2>3, <2>4, <2>5, <2>6, <2>7, <2>8, <2>9, ReadStep, MergeStep, KillJobStep DEF CollectStep
<1>6. CASE OpenSources \/ CloseSources
  BY <1>6, OpenSourcesStep, CloseSourcesStep
<1>7. CASE Maintain
  <2> QED
    BY <1>7, CommandStep, ReadRowsStep, WriteRowsStep, ArchiveStep, MoveSilverStep DEF Maintain
<1> QED
  BY <1>1, <1>2, <1>3, <1>4, <1>5, <1>6, <1>7 DEF Next, Collect

LEMMA Invariant == Spec => []IInv
BY InitInv, NextStep, PTL DEF Spec

\* For any players, matches, patches, checkpoints, kills and commands, a row
\* once in a games.jsonl stays there or in an archive.
THEOREM RowsKeptCorrect == Spec => []RowsKept
<1>1. IInv => RowsKept
  BY DEF IInv, Kept3, KeptBy, Rewritten, RowsKept
<1> QED
  BY <1>1, Invariant, PTL

\* And the rows of a rank are of one patch, unless a kill left them without
\* their first sources.json.
THEOREM PatchesApartCorrect == Spec => []PatchesApart
<1>1. IInv => PatchesApart
  BY DEF IInv, Apart, OfPatch, PatchesApart
<1> QED
  BY <1>1, Invariant, PTL

-----------------------------------------------------------------------------
(* What a step of a collection does to the fields the next invariants read. *)

Became(d, pool, base, merged, stages) ==
  /\ \A e \in Dirs : e # d => job'[e] = job[e]
  /\ job'[d].kind = job[d].kind
  /\ job'[d].pool = pool
  /\ job'[d].base = base
  /\ job'[d].merged = merged
  /\ job'[d].stage \in stages
  /\ job'[d].stage = "end" => pool = {}

Ended(d) ==
  /\ \A e \in Dirs : e # d => job'[e] = job[e]
  /\ job'[d] = NoJob

Ahead == {"fetch", "read", "list", "end"}

LEMMA ContinuedKeeps ==
  ASSUME NEW j \in Jobs
  PROVE  /\ Continued(j).base = {}
         /\ Continued(j).merged = j.merged
         /\ Continued(j).stage = "end" => j.pool = {}
<1> DEFINE b == (j.left = {} /\ ~Due(j) /\ j.players = <<>>)
           st == IF j.left # {} THEN "fetch"
                 ELSE IF Due(j) THEN "read"
                 ELSE IF j.players # <<>> THEN "list"
                 ELSE IF j.pool # {} THEN "read" ELSE "end"
<1>1. st = "end" => j.pool = {}
  OBVIOUS
<1>2. Continued(j) = [j EXCEPT !.base = {}, !.last = b, !.stage = st]
  BY DEF Continued
<1> HIDE DEF b, st
<1> QED
  BY <1>1, <1>2, SMT DEF Jobs

LEMMA Listing ==
  ASSUME IInv, NEW d \in Dirs, NEW asked \in SUBSET Matches, ListMatches(d, asked)
  PROVE  Became(d, job[d].pool, {}, job[d].merged, Ahead)
<1> DEFINE j == job[d]
           k == [j EXCEPT !.players = Tail(@), !.left = asked,
                          !.known = IF j.kind = "densify" THEN @ \cup asked ELSE @,
                          !.turn = (@ + 1) % Checkpoint]
<1>1. j \in Jobs /\ j.stage = "list" /\ j.players # <<>>
  BY DEF ListMatches, IInv, Types
<1>2. /\ Tail(j.players) \in Seq(Players)
      /\ (j.turn + 1) % Checkpoint \in Int
      /\ (IF j.kind = "densify" THEN j.known \cup asked ELSE j.known) \in SUBSET Matches
  BY <1>1, LayersAssumption, SMT DEF Jobs
<1>3. k \in Jobs
  BY <1>1, <1>2, ZenonT(60) DEF Jobs
<1>4. k.kind = j.kind /\ k.pool = j.pool /\ k.merged = j.merged
  BY <1>1, SMT DEF Jobs
<1>5. job' = [job EXCEPT ![d] = Continued(k)]
  BY DEF ListMatches
<1> HIDE DEF k
<1> QED
  BY <1>3, <1>4, <1>5, ContinuedType, ContinuedKeeps, JobSet DEF Became, Ahead, IInv, Types

LEMMA Taking ==
  ASSUME IInv, NEW d \in Dirs, NEW m \in Matches, NEW rows \in SUBSET Matches,
         job' = [job EXCEPT ![d] = Taken(@, m, rows)]
  PROVE  Became(d, job[d].pool \cup rows, {}, job[d].merged, Ahead)
<1> DEFINE j == job[d]
           k == [j EXCEPT !.left = @ \ {m}, !.pool = @ \cup rows]
<1>1. j \in Jobs
  BY DEF IInv, Types
<1>2. (j.left \ {m}) \in SUBSET Matches /\ (j.pool \cup rows) \in SUBSET Matches
  BY <1>1, SMT DEF Jobs
<1>3. k \in Jobs
  BY <1>1, <1>2, ZenonT(60) DEF Jobs
<1>4. k.kind = j.kind /\ k.pool = j.pool \cup rows /\ k.merged = j.merged
  BY <1>1, SMT DEF Jobs
<1>5. job' = [job EXCEPT ![d] = Continued(k)]
  BY DEF Taken, IInv, Types
<1> HIDE DEF k
<1> QED
  BY <1>3, <1>4, <1>5, ContinuedType, ContinuedKeeps, JobSet DEF Became, Ahead, IInv, Types

\* The steps that only change the stage and the base.
LEMMA Turning ==
  ASSUME IInv, NEW d \in Dirs, NEW base \in SUBSET Matches, NEW merged \in BOOLEAN,
         NEW stage \in JobStages \ {"end"},
         job' = [job EXCEPT ![d] = [@ EXCEPT !.base = base, !.merged = merged, !.stage = stage]]
  PROVE  Became(d, job[d].pool, base, merged, {stage})
<1> DEFINE x == [job[d] EXCEPT !.base = base, !.merged = merged, !.stage = stage]
<1>1. job[d] \in Jobs
  BY DEF IInv, Types
<1>2. x \in Jobs
  BY <1>1, ZenonT(60) DEF Jobs
<1>3. /\ x.kind = job[d].kind /\ x.pool = job[d].pool /\ x.base = base
      /\ x.merged = merged /\ x.stage = stage
  BY <1>1, SMT DEF Jobs
<1>4. job' = [job EXCEPT ![d] = x]
  BY DEF IInv, Types
<1> HIDE DEF x
<1> QED
  BY <1>2, <1>3, <1>4, JobSet DEF Became, IInv, Types

LEMMA SameFields ==
  ASSUME NEW j \in Jobs, NEW stage
  PROVE  /\ [j EXCEPT !.stage = stage] = [j EXCEPT !.base = j.base, !.merged = j.merged, !.stage = stage]
         /\ \A base : [j EXCEPT !.base = base, !.stage = stage]
                       = [j EXCEPT !.base = base, !.merged = j.merged, !.stage = stage]
         /\ \A base : [j EXCEPT !.stage = stage, !.base = base]
                       = [j EXCEPT !.base = base, !.merged = j.merged, !.stage = stage]
BY ZenonT(60) DEF Jobs

LEMMA Steps ==
  ASSUME IInv, NEW d \in Dirs
  PROVE  /\ \A m \in Matches : AskRiot(d, m) =>
               Became(d, job[d].pool, {m}, job[d].merged, {"asked"})
         /\ \A m \in Matches : OpenRaw(d, m) =>
               Became(d, job[d].pool, job[d].base, job[d].merged, {"writing"})
         /\ ReadSilver(d) => Became(d, job[d].pool, silver[d], job[d].merged, {"merge"})
         /\ MergeSilver(d) => Became(d, job[d].pool, job[d].base \cup job[d].pool, TRUE,
                                     {"sources", "gold"})
<1>1. job[d] \in Jobs /\ silver[d] \in SUBSET Matches
  BY DEF IInv, Types
<1>2. /\ job[d].base \in SUBSET Matches /\ job[d].pool \in SUBSET Matches
      /\ job[d].merged \in BOOLEAN
  BY <1>1, SMT DEF Jobs
<1>3. /\ "asked" \in JobStages \ {"end"} /\ "writing" \in JobStages \ {"end"}
      /\ "merge" \in JobStages \ {"end"} /\ "sources" \in JobStages \ {"end"}
      /\ "gold" \in JobStages \ {"end"}
  BY DEF JobStages
<1>4. ASSUME NEW m \in Matches, AskRiot(d, m)
      PROVE  Became(d, job[d].pool, {m}, job[d].merged, {"asked"})
  <2>1. {m} \in SUBSET Matches
    OBVIOUS
  <2>2. job' = [job EXCEPT ![d] = [@ EXCEPT !.base = {m}, !.merged = job[d].merged, !.stage = "asked"]]
    BY <1>1, <1>4, SameFields DEF AskRiot, IInv, Types
  <2> QED
    BY <1>2, <1>3, <2>1, <2>2, Turning
<1>5. ASSUME NEW m \in Matches, OpenRaw(d, m)
      PROVE  Became(d, job[d].pool, job[d].base, job[d].merged, {"writing"})
  <2>1. job' = [job EXCEPT ![d] = [@ EXCEPT !.base = job[d].base, !.merged = job[d].merged,
                                            !.stage = "writing"]]
    BY <1>1, <1>5, SameFields DEF OpenRaw, IInv, Types
  <2> QED
    BY <1>2, <1>3, <2>1, Turning
<1>6. ASSUME ReadSilver(d)
      PROVE  Became(d, job[d].pool, silver[d], job[d].merged, {"merge"})
  <2>1. job' = [job EXCEPT ![d] = [@ EXCEPT !.base = silver[d], !.merged = job[d].merged,
                                            !.stage = "merge"]]
    BY <1>1, <1>6, SameFields DEF ReadSilver, IInv, Types
  <2> QED
    BY <1>1, <1>2, <1>3, <2>1, Turning
<1>7. ASSUME MergeSilver(d)
      PROVE  Became(d, job[d].pool, job[d].base \cup job[d].pool, TRUE, {"sources", "gold"})
  <2> DEFINE all == job[d].base \cup job[d].pool
             st == IF d = "rank" THEN "sources" ELSE "gold"
  <2>1. job' = [job EXCEPT ![d] = [@ EXCEPT !.base = all, !.merged = TRUE, !.stage = st]]
    BY <1>7 DEF MergeSilver, Merged
  <2>2. all \in SUBSET Matches /\ st \in JobStages \ {"end"} /\ st \in {"sources", "gold"}
    BY <1>2, <1>3
  <2> HIDE DEF all, st
  <2>3. Became(d, job[d].pool, all, TRUE, {st})
    BY <2>1, <2>2, Turning
  <2> QED
    BY <2>2, <2>3 DEF Became, all
<1> QED
  BY <1>4, <1>5, <1>6, <1>7

LEMMA SourceSteps ==
  ASSUME IInv
  PROVE  /\ OpenSources =>
               Became("rank", job["rank"].pool, job["rank"].base, job["rank"].merged, {"closing"})
         /\ CloseSources =>
               LET pool == IF job["rank"].kind = "densify" THEN {} ELSE job["rank"].pool IN
               \/ Became("rank", pool, job["rank"].base, job["rank"].merged, {"gold"})
               \/ Became("rank", pool, {}, job["rank"].merged, Ahead)
<1> DEFINE j == job["rank"]
           p == IF j.kind = "densify" THEN {} ELSE j.pool
<1>1. j \in Jobs
  BY DEF IInv, Types
<1>2. j.base \in SUBSET Matches /\ j.pool \in SUBSET Matches /\ j.merged \in BOOLEAN
  BY <1>1, SMT DEF Jobs
<1>3. ASSUME OpenSources PROVE Became("rank", j.pool, j.base, j.merged, {"closing"})
  <2>1. job' = [job EXCEPT !["rank"] = [@ EXCEPT !.base = j.base, !.merged = j.merged,
                                                 !.stage = "closing"]]
    BY <1>1, <1>3, SameFields DEF OpenSources, IInv, Types
  <2>2. "closing" \in JobStages \ {"end"}
    BY DEF JobStages
  <2> QED
    BY <1>2, <2>1, <2>2, Turning
<1>4. ASSUME CloseSources
      PROVE  \/ Became("rank", p, j.base, j.merged, {"gold"})
             \/ Became("rank", p, {}, j.merged, Ahead)
  <2> DEFINE k == [j EXCEPT !.pool = p, !.stage = "sources"]
             x == IF j.last THEN [k EXCEPT !.stage = "gold"] ELSE Continued(k)
  <2>1. p \in SUBSET Matches
    BY <1>2
  <2>2. k \in Jobs
    BY <1>1, <2>1, ZenonT(60) DEF Jobs, JobStages
  <2>3. k.kind = j.kind /\ k.pool = p /\ k.base = j.base /\ k.merged = j.merged
    BY <1>1, SMT DEF Jobs
  <2>4. job' = [job EXCEPT !["rank"] = x]
    BY <1>4 DEF CloseSources
  <2> HIDE DEF k, p
  <2>5. CASE j.last
    <3>1. x = [k EXCEPT !.stage = "gold"]
      BY <2>5
    <3>2. x \in Jobs
      BY <2>2, <3>1, ZenonT(60) DEF Jobs, JobStages
    <3>3. x.kind = j.kind /\ x.pool = p /\ x.base = j.base /\ x.merged = j.merged /\ x.stage = "gold"
      BY <2>2, <2>3, <3>1, SMT DEF Jobs
    <3> QED
      BY <2>4, <3>2, <3>3, JobSet DEF Became, IInv, Types
  <2>6. CASE ~j.last
    BY <2>2, <2>3, <2>4, <2>6, ContinuedType, ContinuedKeeps, JobSet DEF Became, Ahead, IInv, Types
  <2> QED
    BY <2>5, <2>6
<1> QED
  BY <1>3, <1>4

\* A new collection has found nothing yet.
LEMMA Starting ==
  ASSUME IInv, NEW d \in Dirs, NEW kind \in JobKinds, NEW patch \in Int,
         NEW players \in Seq(Players), NEW known \in SUBSET Matches,
         Started(d, kind, patch, players, known)
  PROVE  /\ \A e \in Dirs : e # d => job'[e] = job[e]
         /\ job'[d].kind = kind /\ job'[d].pool = {} /\ job'[d].merged = FALSE
         /\ job'[d].stage = "list"
<1> DEFINE x == [NoJob EXCEPT !.kind = kind, !.patch = patch, !.players = players,
                              !.known = known, !.stage = "list"]
<1>1. job' = [job EXCEPT ![d] = x]
  BY DEF Started
<1>2. x \in Jobs
  BY NoJobType, ZenonT(60) DEF Jobs, JobStages
<1>3. x.kind = kind /\ x.pool = {} /\ x.merged = FALSE /\ x.stage = "list"
  BY SMT DEF NoJob
<1> HIDE DEF x
<1> QED
  BY <1>1, <1>2, <1>3, JobSet DEF IInv, Types

LEMMA Ending ==
  ASSUME IInv, NEW d \in Dirs, job' = [job EXCEPT ![d] = NoJob]
  PROVE  Ended(d)
BY NoJobType, JobSet DEF Ended, IInv, Types

\* The same for the command of maintenance.
OpBecame(kind, at, held, stage) ==
  /\ op'.kind = kind
  /\ op'.at = at
  /\ op'.held = held
  /\ op'.stage = stage

LEMMA OpSteps ==
  ASSUME IInv
  PROVE  /\ \A kind : StartOp(kind) => OpBecame(kind, "none", {}, "idle")
         /\ \A d \in Dirs : ReadRows(d) => OpBecame(op.kind, d, silver[d], op.stage)
         /\ \A d \in Dirs : WriteRows(d) => OpBecame(op.kind, "none", {}, op.stage)
         /\ \A m : StartCompress(m) => OpBecame("compress", "none", {m}, "open")
         /\ \A m, from, state, to :
              WriteZst(m, from, state, to) => OpBecame(op.kind, op.at, op.held, to)
         /\ StartArchive => OpBecame("archive", "none", {}, "raw") /\ op'.patch = sources
         /\ \A stage : Moved(stage) =>
              OpBecame(op.kind, op.at, op.held, stage) /\ op'.patch = op.patch
         /\ op' = NoOp => OpBecame("none", "none", {}, "idle")
<1>1. op \in Ops
  BY DEF IInv, Types
<1>2. ASSUME NEW kind, StartOp(kind) PROVE OpBecame(kind, "none", {}, "idle")
  <2> DEFINE todo == {e \in Dirs : silver[e] # {}}
  <2>1. op' = [NoOp EXCEPT !.kind = kind, !.todo = todo]
    BY <1>2 DEF StartOp
  <2> HIDE DEF todo
  <2> QED
    BY <2>1, SMT DEF OpBecame, NoOp
<1>3. ASSUME NEW d \in Dirs, ReadRows(d) PROVE OpBecame(op.kind, d, silver[d], op.stage)
  BY <1>1, <1>3, SMT DEF OpBecame, ReadRows, Ops
<1>4. ASSUME NEW d \in Dirs, WriteRows(d) PROVE OpBecame(op.kind, "none", {}, op.stage)
  BY <1>1, <1>4, SMT DEF OpBecame, WriteRows, Ops
<1>5. ASSUME NEW m, StartCompress(m) PROVE OpBecame("compress", "none", {m}, "open")
  BY <1>5, SMT DEF OpBecame, StartCompress, NoOp
<1>6. ASSUME NEW m, NEW from, NEW state, NEW to, WriteZst(m, from, state, to)
      PROVE  OpBecame(op.kind, op.at, op.held, to)
  BY <1>1, <1>6, SMT DEF OpBecame, WriteZst, Ops
<1>7. ASSUME StartArchive PROVE OpBecame("archive", "none", {}, "raw") /\ op'.patch = sources
  BY <1>7, SMT DEF OpBecame, StartArchive, NoOp
<1>8. ASSUME NEW stage, Moved(stage)
      PROVE  OpBecame(op.kind, op.at, op.held, stage) /\ op'.patch = op.patch
  BY <1>1, <1>8, SMT DEF OpBecame, Moved, Ops
<1>9. ASSUME op' = NoOp PROVE OpBecame("none", "none", {}, "idle")
  BY <1>9 DEF OpBecame, NoOp
<1> QED
  BY <1>2, <1>3, <1>4, <1>5, <1>6, <1>7, <1>8, <1>9

-----------------------------------------------------------------------------
(* The raw documents of the rows.                                          *)

Safe(m) ==
  \/ m \in plain \/ raw[m] = "whole" \/ m \in twice
  \/ \E p \in Patches : m \in archive[p].raw

\* Where the rows of a directory are, those about to be written included.
Rows(d) ==
  silver[d] \cup Archived(d) \cup job[d].pool
    \cup (IF job[d].stage = "merge" THEN job[d].base ELSE {})
    \cup (IF op.at = d /\ op.kind = "reextract" THEN op.held ELSE {})

\* What keeps a document from being lost: it is written only where there is
\* no .json, a .json is removed only beside a whole .zst, and an archive is
\* filled once.
RawShape ==
  /\ raw \in [Matches -> {"none", "torn", "whole"}]
  /\ \A d \in Dirs : job[d].stage \in {"asked", "writing"} => job[d].base \cap plain = {}
  /\ op.kind = "compress" => \E m \in plain : op.held = {m}
  /\ op.stage = "unlink" => op.kind = "compress" /\ \A m \in op.held : raw[m] = "whole"
  /\ op.stage = "raw" => archive[op.patch].raw = {}

RawInv == RawShape /\ \A d \in Dirs : \A m \in Rows(d) : Safe(m)

LEMMA RawInit == Init => RawInv
<1> SUFFICES ASSUME Init PROVE RawInv
  OBVIOUS
<1>1. RawShape
  BY DEF Init, RawShape, NoJob, NoOp
<1>2. \A d \in Dirs : Rows(d) = {}
  BY DEF Init, Rows, Archived, NoArchive, NoJob, NoOp
<1> QED
  BY <1>1, <1>2 DEF RawInv

\* No step loses a document.
LEMMA SafeKept ==
  ASSUME IInv, RawShape, [Next]_vars, NEW m \in Matches, Safe(m)
  PROVE  Safe(m)'
<1>1. CASE UNCHANGED <<raw, plain, twice>> /\ \A p \in Patches : archive'[p].raw = archive[p].raw
  BY <1>1 DEF Safe
<1>2. ASSUME NEW d \in Dirs, NEW n \in Matches, OpenRaw(d, n) PROVE Safe(m)'
  <2>1. n \notin plain /\ UNCHANGED <<plain, archive>>
    BY <1>2 DEF OpenRaw, RawShape
  <2>2. \/ m # n /\ raw'[m] = raw[m] /\ twice \subseteq twice'
        \/ m = n /\ raw[m] = "none" /\ twice' = twice
        \/ m \in twice'
    BY <1>2 DEF OpenRaw, RawShape
  <2> QED
    BY <2>1, <2>2 DEF Safe
<1>3. ASSUME NEW d \in Dirs, NEW n \in Matches, CloseRaw(d, n) PROVE Safe(m)'
  <2>1. UNCHANGED <<plain, archive, twice>> /\ (m = n => raw'[m] = "whole") /\ (m # n => raw'[m] = raw[m])
    BY <1>3 DEF CloseRaw, RawShape, marks
  <2> QED
    BY <2>1 DEF Safe
<1>4. ASSUME NEW n \in Matches, OpenZst(n) \/ CloseZst(n) PROVE Safe(m)'
  <2>1. /\ UNCHANGED <<plain, archive, twice>> /\ n \in plain
        /\ m # n => raw'[m] = raw[m]
    BY <1>4 DEF OpenZst, CloseZst, WriteZst, RawShape, marks
  <2> QED
    BY <2>1 DEF Safe
<1>5. ASSUME NEW n \in Matches, UnlinkPlain(n) PROVE Safe(m)'
  <2>1. UNCHANGED <<raw, archive, twice>> /\ raw[n] = "whole" /\ plain' = plain \ {n}
    BY <1>5 DEF UnlinkPlain, RawShape, marks
  <2> QED
    BY <2>1 DEF Safe
<1>6. CASE MoveRaw
  <2> DEFINE kept == {n \in Matches : raw[n] = "whole" \/ n \in plain}
             a == [archive[op.patch] EXCEPT !.raw = kept]
  <2>1. op.patch \in Patches /\ archive[op.patch] \in Archives /\ archive[op.patch].raw = {}
    BY <1>6 DEF MoveRaw, RawShape, IInv, Types, Stages
  <2>2. archive' = [archive EXCEPT ![op.patch] = a] /\ twice' = twice
    BY <1>6 DEF MoveRaw
  <2>3. a.raw = kept
    <3> HIDE DEF kept
    <3> QED
      BY <2>1, SMT DEF Archives
  <2> HIDE DEF a
  <2>4. archive'[op.patch].raw = kept /\ \A p \in Patches : p # op.patch => archive'[p] = archive[p]
    BY <2>1, <2>2, <2>3 DEF IInv, Types
  <2> QED
    BY <2>1, <2>2, <2>4 DEF Safe
<1>7. CASE StartArchive \/ MoveSilver \/ ZipArchive
  <2>1. UNCHANGED <<raw, plain, twice>>
    BY <1>7 DEF StartArchive, MoveSilver, ZipArchive, marks
  <2>2. \A p \in Patches : archive[p] \in Archives
    BY DEF IInv, Types
  <2>3. \A p \in Patches : archive'[p].raw = archive[p].raw
    <3>1. archive \in [Patches -> Archives]
      BY DEF IInv, Types
    <3>2. CASE StartArchive
      BY <2>2, <3>1, <3>2, SMT DEF StartArchive, Archives
    <3>3. CASE MoveSilver
      BY <2>2, <3>1, <3>3, SMT DEF MoveSilver, Archives
    <3>4. CASE ZipArchive
      BY <2>2, <3>1, <3>4, SMT DEF ZipArchive, Archives
    <3> QED
      BY <1>7, <3>2, <3>3, <3>4
  <2> QED
    BY <1>1, <2>1, <2>3
<1> QED
  BY <1>1, <1>2, <1>3, <1>4, <1>5, <1>6, <1>7
     DEF Next, Collect, CollectStep, Maintain, vars, NewPatch, StartReferential, StartDensify,
         StartPersonal, OpenSources, CloseSources, ListMatches, ReadRaw, SkipMatch, AskRiot,
         StopOnTorn, NothingLeft, ReadSilver, MergeSilver, WriteGold, KillJob, StartOp, ReadRows,
         WriteRows, RowsDone, StartCompress, MoveGold, KillOp, files, marks

\* The raw a directory's rows come from after a step that leaves the rows of
\* the files, of the archives and of the command as they are.
LEMMA RowsOfJob ==
  ASSUME NEW d \in Dirs, NEW e \in Dirs,
         UNCHANGED <<silver, archive, op>>,
         e # d => job'[e] = job[e]
  PROVE  /\ e # d => Rows(e)' = Rows(e)
         /\ Rows(d)' \subseteq Rows(d) \cup job'[d].pool
                       \cup (IF job'[d].stage = "merge" THEN job'[d].base ELSE {})
<1>1. Archived(e)' = Archived(e) /\ Archived(d)' = Archived(d)
  BY DEF Archived
<1> QED
  BY <1>1 DEF Rows

\* A step adds to a directory only rows whose document is at hand.
LEMMA RowsFollow ==
  ASSUME IInv, RawShape, [Next]_vars, NEW e \in Dirs, NEW m \in Rows(e)'
  PROVE  m \in Rows(e) \/ (m \in Matches /\ Safe(m)')
<1>1. CASE UNCHANGED <<silver, archive, op, job>>
  BY <1>1 DEF Rows, Archived
<1>2. ASSUME NEW d \in Dirs, NEW kind, NEW patch, NEW players, NEW known,
             Started(d, kind, patch, players, known), UNCHANGED <<silver, archive, op>>
      PROVE  m \in Rows(e)
  <2>1. job'[d].pool = {} /\ job'[d].stage = "list" /\ (e # d => job'[e] = job[e])
    <3> DEFINE x == [NoJob EXCEPT !.kind = kind, !.patch = patch, !.players = players,
                                  !.known = known, !.stage = "list"]
    <3>1. job' = [job EXCEPT ![d] = x]
      BY <1>2 DEF Started
    <3>2. x.pool = {} /\ x.stage = "list"
      BY SMT DEF NoJob
    <3> HIDE DEF x
    <3> QED
      BY <3>1, <3>2 DEF IInv, Types
  <2> QED
    BY <1>2, <2>1, RowsOfJob
<1>3. ASSUME NEW d \in Dirs, NEW base, NEW merged, NEW stages,
             Became(d, job[d].pool, base, merged, stages), UNCHANGED <<silver, archive, op>>,
             "merge" \in stages => base \subseteq silver[d]
      PROVE  m \in Rows(e)
  <2>1. /\ e # d => job'[e] = job[e]
        /\ job'[d].pool = job[d].pool
        /\ job'[d].stage = "merge" => job'[d].base \subseteq silver[d]
    BY <1>3 DEF Became
  <2> QED
    BY <1>3, <2>1, RowsOfJob DEF Rows
<1>4. ASSUME NEW d \in Dirs, NEW n \in Matches, NEW rows \in SUBSET {n}, Safe(n)' \/ rows = {},
             job' = [job EXCEPT ![d] = Taken(@, n, rows)], UNCHANGED <<silver, archive, op>>
      PROVE  m \in Rows(e) \/ (m \in Matches /\ Safe(m)')
  <2>1. Became(d, job[d].pool \cup rows, {}, job[d].merged, Ahead)
    BY <1>4, Taking
  <2>2. /\ e # d => job'[e] = job[e]
        /\ job'[d].pool = job[d].pool \cup rows
        /\ job'[d].stage # "merge"
    BY <2>1 DEF Became, Ahead
  <2>3. \A r \in rows : r = n
    BY <1>4
  <2> QED
    BY <1>4, <2>2, <2>3, RowsOfJob DEF Rows
<1>5. ASSUME NEW d \in Dirs, Ended(d), UNCHANGED <<silver, archive, op>> PROVE m \in Rows(e)
  BY <1>5, RowsOfJob DEF Ended, NoJob
<1>6. ASSUME NEW d \in Dirs, MergeSilver(d) PROVE m \in Rows(e)
  <2>1. Became(d, job[d].pool, job[d].base \cup job[d].pool, TRUE, {"sources", "gold"})
    BY <1>6, Steps
  <2>2. /\ e # d => job'[e] = job[e] /\ silver'[e] = silver[e]
        /\ job'[d].pool = job[d].pool /\ job'[d].stage # "merge"
        /\ silver'[d] = job[d].base \cup job[d].pool
        /\ job[d].stage = "merge" /\ UNCHANGED <<archive, op>>
    BY <1>6, <2>1 DEF Became, MergeSilver, Merged, IInv, Types
  <2>3. Archived(e)' = Archived(e)
    BY <2>2 DEF Archived
  <2> QED
    BY <2>2, <2>3 DEF Rows
<1>7. ASSUME NEW kind, NEW at, NEW held, NEW stage, OpBecame(kind, at, held, stage),
             at = e /\ kind = "reextract" => held \subseteq Rows(e),
             UNCHANGED <<silver, job>>, \A p \in Patches : archive'[p].rows = archive[p].rows
      PROVE  m \in Rows(e)
  <2>1. Archived(e)' = Archived(e)
    BY <1>7 DEF Archived
  <2> QED
    BY <1>7, <2>1 DEF Rows, OpBecame
<1>8. ASSUME NEW d \in Dirs, WriteRows(d) PROVE m \in Rows(e)
  <2>1. OpBecame(op.kind, "none", {}, op.stage) /\ UNCHANGED <<archive, job>>
    BY <1>8, OpSteps DEF WriteRows, marks
  <2>2. silver'[e] = silver[e] \/ (op.at = e /\ op.kind = "reextract" /\ silver'[e] = op.held)
    BY <1>8 DEF WriteRows, IInv, Types
  <2>3. Archived(e)' = Archived(e)
    BY <2>1 DEF Archived
  <2> QED
    BY <2>1, <2>2, <2>3 DEF Rows, OpBecame
<1>9. CASE MoveSilver
  <2>1. OpBecame(op.kind, op.at, op.held, "gold") /\ job' = job /\ silver'[e] = {}
    BY <1>9, OpSteps DEF MoveSilver
  <2>2. \A p \in Patches : archive'[p].rows[e] \subseteq archive[p].rows[e] \cup silver[e]
    <3>1. \A p \in Patches : archive[p] \in Archives
      BY DEF IInv, Types
    <3>2. archive' = [archive EXCEPT ![op.patch].rows = silver]
      BY <1>9 DEF MoveSilver
    <3>3. archive \in [Patches -> Archives]
      BY DEF IInv, Types
    <3> QED
      BY <3>1, <3>2, <3>3, SMT DEF Archives
  <2>3. Archived(e)' \subseteq Archived(e) \cup silver[e]
    BY <2>2 DEF Archived
  <2> QED
    BY <2>1, <2>3 DEF Rows, OpBecame
<1> USE DEF files, marks
<1>10. CASE \/ \E p \in Patches, s \in Samples : StartReferential(p, s)
            \/ \E s \in Samples : StartDensify(s)
            \/ \E b \in BOOLEAN : StartPersonal(b)
  BY <1>2, <1>10 DEF StartReferential, StartDensify, StartPersonal
<1>11. CASE OpenSources \/ CloseSources
  <2>1. CASE OpenSources
    BY <1>3, <2>1, SourceSteps DEF OpenSources
  <2>2. CASE CloseSources
    <3>1. UNCHANGED <<silver, archive, op>>
      BY <2>2 DEF CloseSources
    <3>2. /\ e # "rank" => job'[e] = job[e]
          /\ job'["rank"].pool \subseteq job["rank"].pool
          /\ job'["rank"].stage # "merge"
      BY <2>2, SourceSteps DEF Became, Ahead
    <3> QED
      BY <3>1, <3>2, RowsOfJob DEF Rows
  <2> QED
    BY <1>11, <2>1, <2>2
<1>12. ASSUME NEW d \in Dirs, CollectStep(d) PROVE m \in Rows(e) \/ (m \in Matches /\ Safe(m)')
  <2>1. ASSUME NEW asked \in SUBSET Matches, ListMatches(d, asked) PROVE m \in Rows(e)
    <3>1. UNCHANGED <<silver, archive, op>> /\ "merge" \notin Ahead
      BY <2>1 DEF ListMatches, Ahead
    <3> QED
      BY <1>3, <2>1, <3>1, Listing
  <2>2. ASSUME NEW n \in Matches, ReadRaw(d, n) PROVE m \in Rows(e) \/ (m \in Matches /\ Safe(m)')
    <3>1. Safe(n)' /\ UNCHANGED <<silver, archive, op>>
      BY <2>2 DEF ReadRaw, Readable, Safe
    <3>2. Kept(job[d], n) \in SUBSET {n} /\ job' = [job EXCEPT ![d] = Taken(@, n, Kept(job[d], n))]
      BY <2>2 DEF ReadRaw, Kept, IInv, Types
    <3> QED
      BY <1>4, <3>1, <3>2
  <2>3. ASSUME NEW n \in Matches, SkipMatch(d, n) PROVE m \in Rows(e) \/ (m \in Matches /\ Safe(m)')
    BY <1>4, <2>3 DEF SkipMatch
  <2>4. ASSUME NEW n \in Matches, CloseRaw(d, n) PROVE m \in Rows(e) \/ (m \in Matches /\ Safe(m)')
    <3>1. Safe(n)' /\ UNCHANGED <<silver, archive, op>>
      BY <2>4 DEF CloseRaw, Safe, RawShape
    <3>2. Kept(job[d], n) \in SUBSET {n} /\ job' = [job EXCEPT ![d] = Taken(@, n, Kept(job[d], n))]
      BY <2>4 DEF CloseRaw, Kept, IInv, Types
    <3> QED
      BY <1>4, <3>1, <3>2
  <2>5. ASSUME NEW n \in Matches, AskRiot(d, n) \/ OpenRaw(d, n) PROVE m \in Rows(e)
    <3>1. UNCHANGED <<silver, archive, op>>
      BY <2>5 DEF AskRiot, OpenRaw
    <3>2. PICK base, stages : /\ Became(d, job[d].pool, base, job[d].merged, stages)
                              /\ "merge" \notin stages
      <4>1. "merge" \notin {"asked"} /\ "merge" \notin {"writing"}
        OBVIOUS
      <4> QED
        BY <2>5, <4>1, Steps
    <3> QED
      BY <1>3, <3>1, <3>2
  <2>6. ASSUME ReadSilver(d) PROVE m \in Rows(e)
    <3>1. UNCHANGED <<silver, archive, op>> /\ silver[d] \subseteq silver[d]
      BY <2>6 DEF ReadSilver
    <3>2. Became(d, job[d].pool, silver[d], job[d].merged, {"merge"})
      BY <2>6, Steps
    <3> QED
      BY <1>3, <3>1, <3>2
  <2>7. ASSUME \/ \E n \in Matches : StopOnTorn(d, n)
               \/ NothingLeft(d) \/ WriteGold(d) \/ KillJob(d)
        PROVE  m \in Rows(e)
    <3>1. job' = [job EXCEPT ![d] = NoJob] /\ UNCHANGED <<silver, archive, op>>
      BY <2>7 DEF StopOnTorn, NothingLeft, WriteGold, KillJob
    <3> QED
      BY <1>5, <3>1, Ending
  <2> QED
    BY <1>6, <1>12, <2>1, <2>2, <2>3, <2>4, <2>5, <2>6, <2>7 DEF CollectStep
<1>13. CASE Maintain
  <2>1. \A p \in Patches : archive[p] \in Archives
    BY DEF IInv, Types
  <2>2. ASSUME StartArchive \/ MoveRaw \/ ZipArchive
        PROVE  \A p \in Patches : archive'[p].rows = archive[p].rows
    <3>1. archive \in [Patches -> Archives]
      BY DEF IInv, Types
    <3>2. CASE StartArchive
      BY <2>1, <3>1, <3>2, SMT DEF StartArchive, Archives
    <3>3. CASE MoveRaw
      BY <2>1, <3>1, <3>3, SMT DEF MoveRaw, Archives
    <3>4. CASE ZipArchive
      BY <2>1, <3>1, <3>4, SMT DEF ZipArchive, Archives
    <3> QED
      BY <2>2, <3>2, <3>3, <3>4
  <2>3. ASSUME NEW k \in {"reextract", "rebuild"}, StartOp(k) PROVE m \in Rows(e)
    BY <1>7, <2>3, OpSteps DEF StartOp
  <2>4. ASSUME NEW d \in Dirs, ReadRows(d) PROVE m \in Rows(e)
    <3>1. silver[d] \subseteq Rows(d)
      BY DEF Rows
    <3> QED
      BY <1>7, <2>4, <3>1, OpSteps DEF ReadRows
  <2>5. ASSUME RowsDone \/ KillOp \/ \E n \in Matches : UnlinkPlain(n) PROVE m \in Rows(e)
    <3>1. op' = NoOp /\ UNCHANGED <<silver, job, archive>>
      BY <2>5 DEF RowsDone, KillOp, UnlinkPlain
    <3> QED
      BY <1>7, <3>1, OpSteps
  <2>6. ASSUME NEW n \in Matches, StartCompress(n) PROVE m \in Rows(e)
    BY <1>7, <2>6, OpSteps DEF StartCompress
  <2>7. ASSUME NEW n \in Matches, OpenZst(n) \/ CloseZst(n) PROVE m \in Rows(e)
    <3>1. PICK to : OpBecame(op.kind, op.at, op.held, to)
      BY <2>7, OpSteps DEF OpenZst, CloseZst
    <3>2. UNCHANGED <<silver, job, archive>>
      BY <2>7 DEF OpenZst, CloseZst, WriteZst
    <3>3. op.at = e /\ op.kind = "reextract" => op.held \subseteq Rows(e)
      BY DEF Rows
    <3> QED
      BY <1>7, <3>1, <3>2, <3>3
  <2>8. CASE StartArchive
    BY <1>7, <2>2, <2>8, OpSteps DEF StartArchive
  <2>9. CASE ZipArchive
    BY <1>7, <2>2, <2>9, OpSteps DEF ZipArchive
  <2>10. ASSUME MoveRaw \/ MoveGold PROVE m \in Rows(e)
    <3>1. PICK to : OpBecame(op.kind, op.at, op.held, to)
      BY <2>10, OpSteps DEF MoveRaw, MoveGold
    <3>2. UNCHANGED <<silver, job>> /\ \A p \in Patches : archive'[p].rows = archive[p].rows
      BY <2>2, <2>10 DEF MoveRaw, MoveGold
    <3>3. op.at = e /\ op.kind = "reextract" => op.held \subseteq Rows(e)
      BY DEF Rows
    <3> QED
      BY <1>7, <3>1, <3>2, <3>3
  <2> QED
    BY <1>8, <1>9, <1>13, <2>3, <2>4, <2>5, <2>6, <2>7, <2>8, <2>9, <2>10 DEF Maintain
<1> QED
  BY <1>1, <1>10, <1>11, <1>12, <1>13 DEF Next, Collect, vars, NewPatch

\* Nothing is written over a .json, and no .json goes without its .zst.
LEMMA RawShapeStep ==
  ASSUME IInv, RawShape, [Next]_vars
  PROVE  RawShape'
<1> USE DEF files, marks
<1>1. CASE UNCHANGED <<raw, plain, archive, op, job>>
  BY <1>1 DEF RawShape
<1>2. ASSUME NEW d \in Dirs, \A e \in Dirs : e # d => job'[e] = job[e],
             job'[d].stage \in {"asked", "writing"} => job'[d].base \cap plain = {},
             UNCHANGED <<raw, plain, archive, op>>
      PROVE  RawShape'
  BY <1>2 DEF RawShape
<1>3. ASSUME NEW d \in Dirs, CollectStep(d) PROVE RawShape'
  <2>1. ASSUME NEW asked \in SUBSET Matches, ListMatches(d, asked) PROVE RawShape'
    <3>1. UNCHANGED <<raw, plain, archive, op>>
      BY <2>1 DEF ListMatches
    <3> QED
      BY <1>2, <2>1, <3>1, Listing DEF Became, Ahead
  <2>2. ASSUME NEW m \in Matches, ReadRaw(d, m) \/ SkipMatch(d, m) PROVE RawShape'
    <3>1. UNCHANGED <<raw, plain, archive, op>>
      BY <2>2 DEF ReadRaw, SkipMatch
    <3>2. PICK rows \in SUBSET Matches : job' = [job EXCEPT ![d] = Taken(@, m, rows)]
      BY <2>2 DEF ReadRaw, SkipMatch, Kept, IInv, Types
    <3> QED
      BY <1>2, <3>1, <3>2, Taking DEF Became, Ahead
  <2>3. ASSUME NEW m \in Matches, CloseRaw(d, m) PROVE RawShape'
    <3>1. UNCHANGED <<plain, archive, op>> /\ raw' = [raw EXCEPT ![m] = "whole"]
      BY <2>3 DEF CloseRaw
    <3>2. PICK rows \in SUBSET Matches : job' = [job EXCEPT ![d] = Taken(@, m, rows)]
      BY <2>3 DEF CloseRaw, Kept, IInv, Types
    <3>3. (\A e \in Dirs : e # d => job'[e] = job[e]) /\ job'[d].stage \in Ahead
      BY <3>2, Taking DEF Became
    <3> QED
      BY <3>1, <3>3 DEF RawShape, Ahead
  <2>4. ASSUME NEW m \in Matches, AskRiot(d, m) PROVE RawShape'
    <3>1. UNCHANGED <<raw, plain, archive, op>> /\ m \notin plain
      BY <2>4 DEF AskRiot
    <3> QED
      BY <1>2, <2>4, <3>1, Steps DEF Became
  <2>5. ASSUME NEW m \in Matches, OpenRaw(d, m) PROVE RawShape'
    <3>1. /\ UNCHANGED <<plain, archive, op>> /\ raw' = [raw EXCEPT ![m] = "torn"]
          /\ job[d].base \cap plain = {} /\ m \in job[d].base
      BY <2>5 DEF OpenRaw, RawShape
    <3>2. (\A e \in Dirs : e # d => job'[e] = job[e]) /\ job'[d].base = job[d].base
      BY <2>5, Steps DEF Became
    <3>3. op.kind = "compress" => m \notin op.held
      BY <3>1 DEF RawShape
    <3> QED
      BY <3>1, <3>2, <3>3 DEF RawShape
  <2>6. CASE ReadSilver(d)
    <3>1. UNCHANGED <<raw, plain, archive, op>>
      BY <2>6 DEF ReadSilver
    <3> QED
      BY <1>2, <2>6, <3>1, Steps DEF Became
  <2>7. CASE MergeSilver(d)
    <3>1. UNCHANGED <<raw, plain, archive, op>>
      BY <2>7 DEF MergeSilver
    <3> QED
      BY <1>2, <2>7, <3>1, Steps DEF Became
  <2>8. ASSUME \/ \E m \in Matches : StopOnTorn(d, m)
               \/ NothingLeft(d) \/ WriteGold(d) \/ KillJob(d)
        PROVE  RawShape'
    <3>1. job' = [job EXCEPT ![d] = NoJob] /\ UNCHANGED <<raw, plain, archive, op>>
      BY <2>8 DEF StopOnTorn, NothingLeft, WriteGold, KillJob
    <3>2. job'[d] = NoJob /\ \A e \in Dirs : e # d => job'[e] = job[e]
      BY <3>1, Ending DEF Ended
    <3>3. NoJob.stage = "idle"
      BY DEF NoJob
    <3> QED
      BY <1>2, <3>1, <3>2, <3>3
  <2> QED
    BY <1>3, <2>1, <2>2, <2>3, <2>4, <2>5, <2>6, <2>7, <2>8 DEF CollectStep
<1>4. CASE OpenSources \/ CloseSources
  <2>1. UNCHANGED <<raw, plain, archive, op>>
    BY <1>4 DEF OpenSources, CloseSources
  <2> QED
    BY <1>2, <1>4, <2>1, SourceSteps DEF Became, Ahead
<1>5. ASSUME NEW d \in Dirs, NEW kind, NEW patch, NEW players, NEW known,
             Started(d, kind, patch, players, known), UNCHANGED <<raw, plain, archive, op>>
      PROVE  RawShape'
  <2> DEFINE x == [NoJob EXCEPT !.kind = kind, !.patch = patch, !.players = players,
                                !.known = known, !.stage = "list"]
  <2>1. job' = [job EXCEPT ![d] = x]
    BY <1>5 DEF Started
  <2>2. x.stage = "list"
    BY SMT DEF NoJob
  <2> HIDE DEF x
  <2>3. job'[d].stage = "list" /\ \A e \in Dirs : e # d => job'[e] = job[e]
    BY <2>1, <2>2 DEF IInv, Types
  <2> QED
    BY <1>2, <1>5, <2>3
<1>6. ASSUME NEW kind, NEW at, NEW held, NEW stage, OpBecame(kind, at, held, stage),
             kind # "compress", stage \notin {"unlink", "raw"},
             job' = job, plain' \subseteq plain,
             raw' \in [Matches -> {"none", "torn", "whole"}]
      PROVE  RawShape'
  <2>1. \A d \in Dirs : job'[d].stage \in {"asked", "writing"} => job'[d].base \cap plain' = {}
    BY <1>6 DEF RawShape
  <2>2. op'.kind # "compress" /\ op'.stage # "unlink" /\ op'.stage # "raw"
    BY <1>6 DEF OpBecame
  <2> QED
    BY <1>6, <2>1, <2>2 DEF RawShape
<1>7. CASE Maintain
  <2>1. ASSUME NEW k \in {"reextract", "rebuild"}, StartOp(k) PROVE RawShape'
    <3>1. OpBecame(k, "none", {}, "idle")
      BY <2>1, OpSteps
    <3>2. UNCHANGED <<raw, plain, job>> /\ raw \in [Matches -> {"none", "torn", "whole"}]
      BY <2>1 DEF StartOp, RawShape
    <3> QED
      BY <1>6, <3>1, <3>2
  <2>2. ASSUME NEW d \in Dirs, ReadRows(d) \/ WriteRows(d) PROVE RawShape'
    <3>1. /\ op.kind \in {"reextract", "rebuild"} /\ op.stage = "idle"
          /\ UNCHANGED <<raw, plain, job>>
      BY <2>2 DEF ReadRows, WriteRows, IInv, Stages
    <3>2. PICK at, held : OpBecame(op.kind, at, held, op.stage)
      BY <2>2, OpSteps
    <3> QED
      BY <1>6, <3>1, <3>2 DEF RawShape
  <2>3. ASSUME RowsDone \/ KillOp \/ ZipArchive \/ \E m \in Matches : UnlinkPlain(m)
        PROVE  RawShape'
    <3>1. op' = NoOp /\ UNCHANGED <<raw, job>> /\ plain' \subseteq plain
      BY <2>3 DEF RowsDone, KillOp, ZipArchive, UnlinkPlain
    <3> QED
      BY <1>6, <3>1, OpSteps DEF RawShape
  <2>4. ASSUME NEW m \in Matches, StartCompress(m) PROVE RawShape'
    <3>1. m \in plain /\ UNCHANGED <<raw, plain, archive, job>>
      BY <2>4 DEF StartCompress
    <3>2. OpBecame("compress", "none", {m}, "open")
      BY <2>4, OpSteps
    <3> QED
      BY <3>1, <3>2 DEF RawShape, OpBecame
  <2>5. ASSUME NEW m \in Matches, OpenZst(m) PROVE RawShape'
    <3>1. /\ UNCHANGED <<plain, archive, job>> /\ raw' = [raw EXCEPT ![m] = "torn"]
          /\ OpBecame(op.kind, op.at, op.held, "close")
      BY <2>5, OpSteps DEF OpenZst, WriteZst
    <3> QED
      BY <3>1 DEF RawShape, OpBecame
  <2>6. ASSUME NEW m \in Matches, CloseZst(m) PROVE RawShape'
    <3>1. /\ UNCHANGED <<plain, archive, job>> /\ raw' = [raw EXCEPT ![m] = "whole"]
          /\ OpBecame(op.kind, op.at, op.held, "unlink") /\ op.kind = "compress"
          /\ m \in op.held
      BY <2>6, OpSteps DEF CloseZst, WriteZst
    <3>2. m \in plain /\ op.held = {m}
      BY <3>1 DEF RawShape
    <3>3. (raw' \in [Matches -> {"none", "torn", "whole"}])
          /\ raw'[m] = "whole"
      BY <3>1 DEF RawShape
    <3>4. \A d \in Dirs : job'[d].stage \in {"asked", "writing"} => job'[d].base \cap plain' = {}
      BY <3>1 DEF RawShape
    <3> QED
      BY <3>1, <3>2, <3>3, <3>4 DEF RawShape, OpBecame
  <2>7. CASE StartArchive
    <3>1. /\ OpBecame("archive", "none", {}, "raw") /\ op'.patch = sources
          /\ UNCHANGED <<raw, plain, job>>
      BY <2>7, OpSteps DEF StartArchive
    <3>2. archive'[sources].raw = {}
      <4>1. /\ sources \in Patches /\ archive[sources] = NoArchive
            /\ archive' = [archive EXCEPT ![sources].state = "folder"]
            /\ archive \in [Patches -> Archives]
        BY <2>7 DEF StartArchive, IInv, Types, Stages
      <4>2. NoArchive.raw = {} /\ archive[sources] \in Archives
        BY <4>1 DEF NoArchive
      <4>3. [archive[sources] EXCEPT !.state = "folder"].raw = archive[sources].raw
        BY <4>2, SMT DEF Archives
      <4> QED
        BY <4>1, <4>2, <4>3
    <3> QED
      BY <3>1, <3>2 DEF RawShape, OpBecame
  <2>8. CASE MoveRaw
    <3>1. /\ OpBecame(op.kind, op.at, op.held, "silver") /\ op.kind = "archive"
          /\ raw' = [m \in Matches |-> "none"] /\ plain' = {} /\ job' = job
      BY <2>8, OpSteps DEF MoveRaw, IInv, Stages
    <3> QED
      BY <1>6, <3>1
  <2>9. ASSUME MoveSilver \/ MoveGold PROVE RawShape'
    <3>1. PICK to \in {"gold", "zip"} : OpBecame(op.kind, op.at, op.held, to)
      BY <2>9, OpSteps DEF MoveSilver, MoveGold
    <3>2. op.kind = "archive" /\ UNCHANGED <<raw, plain, job>>
      BY <2>9 DEF MoveSilver, MoveGold, IInv, Stages
    <3> QED
      BY <1>6, <3>1, <3>2 DEF RawShape
  <2> QED
    BY <1>7, <2>1, <2>2, <2>3, <2>4, <2>5, <2>6, <2>7, <2>8, <2>9 DEF Maintain
<1> QED
  BY <1>1, <1>3, <1>4, <1>5, <1>7
     DEF Next, Collect, vars, NewPatch, StartReferential, StartDensify, StartPersonal

\* For any players, matches, patches, kills and commands, a row of a
\* games.jsonl or of an archive has its documents in the cache or in an
\* archive, unless two collections wrote them at the same time.
THEOREM RawKeptCorrect == Spec => []RawKept
<1>1. IInv /\ RawInv /\ [Next]_vars => RawInv'
  <2> SUFFICES ASSUME IInv, RawInv, [Next]_vars PROVE RawInv'
    OBVIOUS
  <2>1. RawShape /\ RawShape'
    BY RawShapeStep DEF RawInv
  <2>2. ASSUME NEW d \in Dirs, NEW m \in Rows(d)' PROVE Safe(m)'
    <3>1. CASE m \in Rows(d)
      <4>1. m \in Matches
        <5>1. /\ silver[d] \subseteq Matches /\ job[d] \in Jobs /\ op \in Ops
              /\ \A p \in Patches : archive[p] \in Archives
          BY DEF IInv, Types
        <5>2. /\ job[d].pool \subseteq Matches /\ job[d].base \subseteq Matches
              /\ op.held \subseteq Matches
              /\ \A p \in Patches : archive[p].rows[d] \subseteq Matches
          BY <5>1, SMT DEF Jobs, Ops, Archives
        <5> QED
          BY <3>1, <5>1, <5>2 DEF Rows, Archived
      <4> QED
        BY <2>1, <3>1, <4>1, SafeKept DEF RawInv
    <3> QED
      BY <2>1, <2>2, <3>1, RowsFollow
  <2> QED
    BY <2>1, <2>2 DEF RawInv
<1>2. RawInv => RawKept
  BY DEF RawInv, RawKept, Rows, Safe
<1> QED
  BY <1>1, <1>2, RawInit, Invariant, PTL DEF Spec

-----------------------------------------------------------------------------
(* The aggregates of the rows.                                             *)

Excused(d) ==
  \/ d \in interrupted
  \/ \E k \in {"reextract", "rebuild", "archive"} : <<k, d>> \in overlapped

\* The gold of d owes nothing to the collection: it has merged nothing, or,
\* away from densify_players, which merges more than once, nothing new.
Fresh(d) == ~job[d].merged \/ (job[d].kind # "densify" /\ job[d].pool = {})

\* Between a collection's merge and its gold, its copy is the file; between
\* archive_patch's move of silver and its move of gold, silver is empty.
UpToDate(d) ==
  /\ op.stage = "gold" => silver[d] = {}
  /\ op.stage # "gold" /\ Fresh(d) => gold[d] = silver[d]
  /\ job[d].stage \in {"merge", "sources", "closing", "gold"} => job[d].base = silver[d]
  /\ op.at = d => op.held = silver[d]

GoldAt(d) ==
  /\ Excused(d) \/ UpToDate(d)
  /\ job[d].stage = "end" => job[d].pool = {}
  /\ job[d].kind = "none" => ~job[d].merged

GoldInv ==
  /\ gold \in [Dirs -> SUBSET Matches]
  /\ \A d \in Dirs : GoldAt(d)

LEMMA GoldInit == Init => GoldInv
BY DEF Init, GoldInv, GoldAt, UpToDate, Fresh, NoJob, NoOp

\* An excuse stands.
LEMMA ExcusedKept ==
  ASSUME [Next]_vars, NEW d \in Dirs, Excused(d)
  PROVE  Excused(d)'
<1>1. interrupted \subseteq interrupted' \/ interrupted' = Dirs
  BY DEF Next, Collect, CollectStep, Maintain, vars, NewPatch, StartReferential, StartDensify,
         StartPersonal, OpenSources, CloseSources, ListMatches, ReadRaw, SkipMatch, AskRiot,
         OpenRaw, CloseRaw, StopOnTorn, NothingLeft, ReadSilver, MergeSilver, WriteGold, KillJob,
         StartOp, ReadRows, WriteRows, RowsDone, StartCompress, OpenZst, CloseZst, WriteZst,
         UnlinkPlain, StartArchive, MoveRaw, MoveSilver, MoveGold, ZipArchive, KillOp, marks
<1>2. overlapped \subseteq overlapped'
  BY DEF Next, Collect, CollectStep, Maintain, vars, NewPatch, StartReferential, StartDensify,
         StartPersonal, OpenSources, CloseSources, ListMatches, ReadRaw, SkipMatch, AskRiot,
         OpenRaw, CloseRaw, StopOnTorn, NothingLeft, ReadSilver, MergeSilver, WriteGold, KillJob,
         StartOp, ReadRows, WriteRows, RowsDone, StartCompress, OpenZst, CloseZst, WriteZst,
         UnlinkPlain, StartArchive, MoveRaw, MoveSilver, MoveGold, ZipArchive, KillOp, Moved, marks
<1> QED
  BY <1>1, <1>2 DEF Excused

\* A step that touches nothing of d.
LEMMA Untouched ==
  ASSUME NEW d \in Dirs, GoldAt(d), Excused(d) => Excused(d)',
         job'[d] = job[d], silver'[d] = silver[d], gold'[d] = gold[d], op' = op
  PROVE  GoldAt(d)'
BY DEF GoldAt, UpToDate, Fresh

\* A step of the collection that writes no file of d.
LEMMA Onward ==
  ASSUME NEW d \in Dirs, GoldAt(d), Excused(d) => Excused(d)',
         UNCHANGED <<silver, gold, op>>,
         NEW pool, NEW base, NEW stages, Became(d, pool, base, job[d].merged, stages),
         job[d].kind # "densify" /\ pool = {} => job[d].pool = {},
         \/ Excused(d) \/ base = silver[d]
         \/ stages \cap {"merge", "sources", "closing", "gold"} = {}
  PROVE  GoldAt(d)'
<1>1. Fresh(d)' => Fresh(d)
  BY DEF Fresh, Became
<1>2. /\ job'[d].stage = "end" => job'[d].pool = {}
      /\ job'[d].kind = "none" => ~job'[d].merged
  BY DEF Became, GoldAt
<1>3. CASE ~Excused(d)
  <2>1. UpToDate(d)
    BY <1>3 DEF GoldAt
  <2>2. job'[d].stage \in {"merge", "sources", "closing", "gold"} => job'[d].base = silver[d]
    BY <1>3 DEF Became
  <2>3. UpToDate(d)'
    BY <1>1, <2>1, <2>2 DEF UpToDate
  <2> QED
    BY <1>2, <2>3 DEF GoldAt
<1> QED
  BY <1>2, <1>3 DEF GoldAt

\* The collection is gone: it was excused, or it owed the gold nothing.
LEMMA Gone ==
  ASSUME NEW d \in Dirs, GoldAt(d), Excused(d) => Excused(d)', Ended(d),
         UNCHANGED <<silver, gold, op>>, Excused(d)' \/ Fresh(d)
  PROVE  GoldAt(d)'
<1>1. job'[d].stage = "idle" /\ ~job'[d].merged
  BY DEF Ended, NoJob
<1>2. CASE ~Excused(d)'
  <2>1. UpToDate(d) /\ Fresh(d)
    BY <1>2 DEF GoldAt
  <2>2. UpToDate(d)'
    BY <1>1, <2>1 DEF UpToDate
  <2> QED
    BY <1>1, <2>2 DEF GoldAt
<1> QED
  BY <1>1, <1>2 DEF GoldAt

\* A step of the command that writes no file of d.
LEMMA Commanded ==
  ASSUME NEW d \in Dirs, GoldAt(d), Excused(d) => Excused(d)',
         UNCHANGED <<silver, gold, job>>,
         op.stage # "gold" \/ Excused(d)',
         NEW kind, NEW at, NEW held, NEW stage, OpBecame(kind, at, held, stage),
         stage # "gold", at = d => held = silver[d] \/ (at = op.at /\ held = op.held)
  PROVE  GoldAt(d)'
<1>1. CASE ~Excused(d)'
  <2>1. UpToDate(d)
    BY <1>1 DEF GoldAt
  <2>2. op'.stage # "gold" /\ (op'.at = d => op'.held = silver[d])
    BY <2>1 DEF OpBecame, UpToDate
  <2>3. UpToDate(d)'
    BY <1>1, <2>1, <2>2 DEF UpToDate, Fresh
  <2> QED
    BY <2>3 DEF GoldAt
<1> QED
  BY <1>1 DEF GoldAt

LEMMA GoldOfStart ==
  ASSUME IInv, [Next]_vars, GoldInv, NEW e \in Dirs,
         NEW d \in Dirs, NEW kind \in JobKinds \ {"none"}, NEW patch \in Int,
         NEW players \in Seq(Players), NEW known \in SUBSET Matches,
         Started(d, kind, patch, players, known), job[d].kind = "none",
         UNCHANGED <<silver, gold, op>>
  PROVE  GoldAt(e)'
<1>1. GoldAt(e) /\ (Excused(e) => Excused(e)')
  BY ExcusedKept DEF GoldInv
<1>2. CASE e # d
  BY <1>1, <1>2, Starting, Untouched
<1>3. CASE e = d
  <2>1. job'[d].kind # "none" /\ ~job'[d].merged /\ job'[d].stage = "list"
    <3>1. kind \in JobKinds
      OBVIOUS
    <3>2. job'[d].kind = kind /\ job'[d].merged = FALSE /\ job'[d].stage = "list"
      BY <3>1, Starting
    <3> QED
      BY <3>2
  <2>2. UpToDate(d) => UpToDate(d)'
    BY <1>1, <1>3, <2>1 DEF UpToDate, GoldAt, Fresh
  <2> QED
    BY <1>1, <1>3, <2>1, <2>2 DEF GoldAt
<1> QED
  BY <1>2, <1>3

\* The merge makes the copy the file; without new rows the file is as it was.
LEMMA GoldOfMerge ==
  ASSUME IInv, [Next]_vars, GoldInv, NEW e \in Dirs, NEW d \in Dirs, MergeSilver(d)
  PROVE  GoldAt(e)'
<1>1. GoldAt(e) /\ (Excused(e) => Excused(e)')
  BY ExcusedKept DEF GoldInv
<1>2. Became(d, job[d].pool, job[d].base \cup job[d].pool, TRUE, {"sources", "gold"})
  BY Steps
<1>3. /\ silver' = [silver EXCEPT ![d] = job[d].base \cup job[d].pool]
      /\ UNCHANGED <<gold, op>> /\ job[d].stage = "merge"
      /\ overlapped' = overlapped \cup Overlapping(d)
  BY DEF MergeSilver, Merged
<1>4. CASE e # d
  BY <1>1, <1>2, <1>3, <1>4, Untouched DEF Became, IInv, Types
<1>5. CASE e = d
  <2>1. /\ job'[d].kind = job[d].kind /\ job'[d].kind # "none" /\ job'[d].stage # "end"
        /\ job'[d].merged /\ job'[d].pool = job[d].pool
        /\ job'[d].base = job[d].base \cup job[d].pool
        /\ silver'[d] = job[d].base \cup job[d].pool
    BY <1>2, <1>3 DEF Became, IInv, Types, Stages
  <2>2. CASE ~Excused(d)'
    <3>1. op.at # d /\ op.kind # "archive"
      <4>1. op.at = d \/ op.kind = "archive" => <<op.kind, d>> \in overlapped'
        BY <1>3 DEF Overlapping
      <4>2. op.at = d => op.kind \in {"reextract", "rebuild"}
        BY DEF IInv, Stages
      <4> QED
        BY <2>2, <4>1, <4>2 DEF Excused
    <3>2. op.stage # "gold"
      BY <3>1 DEF IInv, Stages
    <3>3. UpToDate(d)
      BY <1>1, <1>5, <2>2 DEF GoldAt
    <3>4. job[d].base = silver[d]
      BY <1>3, <3>3 DEF UpToDate
    <3>5. Fresh(d)' => gold'[d] = silver'[d]
      BY <1>3, <2>1, <3>2, <3>3, <3>4 DEF UpToDate, Fresh
    <3>6. UpToDate(d)'
      BY <1>3, <2>1, <3>1, <3>2, <3>5 DEF UpToDate
    <3> QED
      BY <1>5, <2>1, <3>6 DEF GoldAt
  <2>3. CASE Excused(d)'
    BY <1>5, <2>1, <2>3 DEF GoldAt
  <2> QED
    BY <2>2, <2>3
<1> QED
  BY <1>4, <1>5

LEMMA GoldOfWrite ==
  ASSUME IInv, [Next]_vars, GoldInv, NEW e \in Dirs, NEW d \in Dirs, WriteGold(d)
  PROVE  GoldAt(e)'
<1>1. GoldAt(e) /\ (Excused(e) => Excused(e)')
  BY ExcusedKept DEF GoldInv
<1>2. job' = [job EXCEPT ![d] = NoJob]
  BY DEF WriteGold
<1>3. Ended(d)
  BY <1>2, Ending
<1>4. CASE e # d
  BY <1>1, <1>3, <1>4, Untouched DEF Ended, WriteGold
<1>5. CASE e = d
  <2>1. job'[d].stage = "idle" /\ ~job'[d].merged
    BY <1>3 DEF Ended, NoJob
  <2>2. CASE ~Excused(d)'
    <3>1. op.at # d /\ op.kind # "archive"
      <4>1. op.at = d \/ op.kind = "archive" => <<op.kind, d>> \in overlapped'
        BY DEF Overlapping, WriteGold
      <4>2. op.at = d => op.kind \in {"reextract", "rebuild"}
        BY DEF IInv, Stages
      <4> QED
        BY <2>2, <4>1, <4>2 DEF Excused
    <3>2. op.stage # "gold"
      BY <3>1 DEF IInv, Stages
    <3>3. UpToDate(d)
      BY <1>1, <1>5, <2>2 DEF GoldAt
    <3>4. job[d].base = silver[d]
      BY <3>3 DEF UpToDate, WriteGold
    <3>5. gold'[d] = silver'[d] /\ UNCHANGED <<silver, op>>
      BY <3>4 DEF WriteGold, GoldInv
    <3>6. UpToDate(d)'
      BY <2>1, <3>1, <3>2, <3>5 DEF UpToDate
    <3> QED
      BY <1>5, <2>1, <3>6 DEF GoldAt
  <2>3. CASE Excused(d)'
    BY <1>5, <2>1, <2>3 DEF GoldAt
  <2> QED
    BY <2>2, <2>3
<1> QED
  BY <1>4, <1>5

\* What the commands on rows write back is what the file has.
LEMMA GoldOfRows ==
  ASSUME IInv, [Next]_vars, GoldInv, NEW e \in Dirs, NEW d \in Dirs, WriteRows(d)
  PROVE  GoldAt(e)'
<1>1. GoldAt(e) /\ (Excused(e) => Excused(e)')
  BY ExcusedKept DEF GoldInv
<1>2. OpBecame(op.kind, "none", {}, op.stage) /\ op.at = d /\ op.stage = "idle" /\ job' = job
  BY OpSteps DEF WriteRows, IInv, Stages
<1>3. /\ e # d => silver'[e] = silver[e] /\ gold'[e] = gold[e]
      /\ \/ silver'[d] = op.held /\ gold'[d] = gold[d]
         \/ silver'[d] = silver[d] /\ gold'[d] = op.held
  BY DEF WriteRows, GoldInv, IInv, Types
<1>4. CASE ~Excused(e)'
  <2>1. UpToDate(e)
    BY <1>1, <1>4 DEF GoldAt
  <2>2. /\ silver'[e] = silver[e]
        /\ gold'[e] = gold[e] \/ gold'[e] = silver[e]
    BY <1>2, <1>3, <2>1 DEF UpToDate
  <2>3. UpToDate(e)'
    BY <1>2, <2>1, <2>2 DEF UpToDate, OpBecame, Fresh
  <2> QED
    BY <1>1, <1>2, <2>3 DEF GoldAt
<1> QED
  BY <1>1, <1>2, <1>4 DEF GoldAt

\* archive_patch empties the rows then their aggregates; a collection that
\* runs meanwhile is marked.
LEMMA GoldOfArchive ==
  ASSUME IInv, [Next]_vars, GoldInv, NEW e \in Dirs, MoveSilver \/ MoveGold
  PROVE  GoldAt(e)'
<1>1. GoldAt(e) /\ (Excused(e) => Excused(e)')
  BY ExcusedKept DEF GoldInv
<1>2. op.kind = "archive" /\ op.at = "none" /\ job' = job
  BY DEF MoveSilver, MoveGold, IInv, Stages
<1>3. CASE Excused(e)'
  BY <1>1, <1>2, <1>3 DEF GoldAt
<1>4. CASE ~Excused(e)'
  <2>1. UpToDate(e)
    BY <1>1, <1>4 DEF GoldAt
  <2>2. overlapped' = overlapped \cup {<<"archive", d>> : d \in {f \in Dirs : job[f].kind # "none"}}
    BY DEF MoveSilver, MoveGold, Moved
  <2>3. job[e].kind = "none"
    BY <1>4, <2>2 DEF Excused
  <2>4. job[e].stage = "idle" /\ ~job[e].merged
    BY <1>1, <2>3 DEF IInv, Stages, GoldAt
  <2>5. CASE MoveSilver
    <3>1. OpBecame(op.kind, op.at, op.held, "gold") /\ silver'[e] = {}
      BY <2>5, OpSteps DEF MoveSilver
    <3>2. UpToDate(e)'
      BY <1>2, <2>4, <3>1 DEF UpToDate, OpBecame
    <3> QED
      BY <1>1, <1>2, <3>2 DEF GoldAt
  <2>6. CASE MoveGold
    <3>1. OpBecame(op.kind, op.at, op.held, "zip") /\ gold'[e] = {} /\ silver' = silver /\ op.stage = "gold"
      BY <2>6, OpSteps DEF MoveGold
    <3>2. silver[e] = {}
      BY <2>1, <3>1 DEF UpToDate
    <3>3. UpToDate(e)'
      BY <1>2, <2>4, <3>1, <3>2 DEF UpToDate, OpBecame
    <3> QED
      BY <1>1, <1>2, <3>3 DEF GoldAt
  <2> QED
    BY <2>5, <2>6
<1> QED
  BY <1>3, <1>4

LEMMA GoldOfCollect ==
  ASSUME IInv, [Next]_vars, GoldInv, NEW e \in Dirs, NEW d \in Dirs, CollectStep(d)
  PROVE  GoldAt(e)'
<1> USE DEF files, marks
<1>1. /\ GoldAt(e) /\ (Excused(e) => Excused(e)')
      /\ GoldAt(d) /\ (Excused(d) => Excused(d)')
  BY ExcusedKept DEF GoldInv
<1>2. ASSUME NEW pool, NEW base, NEW stages, Became(d, pool, base, job[d].merged, stages),
             UNCHANGED <<silver, gold, op>>,
             job[d].kind # "densify" /\ pool = {} => job[d].pool = {},
             \/ base = silver[d]
             \/ stages \cap {"merge", "sources", "closing", "gold"} = {}
      PROVE  GoldAt(e)'
  <2>1. CASE e = d
    BY <1>1, <1>2, <2>1, Onward
  <2>2. CASE e # d
    BY <1>1, <1>2, <2>2, Untouched DEF Became
  <2> QED
    BY <2>1, <2>2
<1>3. ASSUME Ended(d), UNCHANGED <<silver, gold, op>>, Excused(d)' \/ Fresh(d)
      PROVE  GoldAt(e)'
  <2>1. CASE e = d
    BY <1>1, <1>3, <2>1, Gone
  <2>2. CASE e # d
    BY <1>1, <1>3, <2>2, Untouched DEF Ended
  <2> QED
    BY <2>1, <2>2
<1>4. Ahead \cap {"merge", "sources", "closing", "gold"} = {}
  BY DEF Ahead
<1>5. ASSUME NEW asked \in SUBSET Matches, ListMatches(d, asked) PROVE GoldAt(e)'
  <2>1. UNCHANGED <<silver, gold, op>>
    BY <1>5 DEF ListMatches
  <2>2. Became(d, job[d].pool, {}, job[d].merged, Ahead)
    BY <1>5, Listing
  <2> QED
    BY <1>2, <1>4, <2>1, <2>2
<1>6. ASSUME NEW m \in Matches, ReadRaw(d, m) \/ SkipMatch(d, m) \/ CloseRaw(d, m)
      PROVE  GoldAt(e)'
  <2>1. UNCHANGED <<silver, gold, op>>
    BY <1>6 DEF ReadRaw, SkipMatch, CloseRaw
  <2>2. PICK rows \in SUBSET Matches : job' = [job EXCEPT ![d] = Taken(@, m, rows)]
    BY <1>6 DEF ReadRaw, SkipMatch, CloseRaw, Kept, IInv, Types
  <2>3. Became(d, job[d].pool \cup rows, {}, job[d].merged, Ahead)
    BY <2>2, Taking
  <2>4. job[d].pool \cup rows = {} => job[d].pool = {}
    OBVIOUS
  <2> QED
    BY <1>2, <1>4, <2>1, <2>3, <2>4
<1>7. ASSUME NEW m \in Matches, AskRiot(d, m) \/ OpenRaw(d, m) PROVE GoldAt(e)'
  <2>1. UNCHANGED <<silver, gold, op>>
    BY <1>7 DEF AskRiot, OpenRaw
  <2>2. PICK base, stages : /\ Became(d, job[d].pool, base, job[d].merged, stages)
                            /\ stages \cap {"merge", "sources", "closing", "gold"} = {}
    <3>1. /\ {"asked"} \cap {"merge", "sources", "closing", "gold"} = {}
          /\ {"writing"} \cap {"merge", "sources", "closing", "gold"} = {}
      OBVIOUS
    <3> QED
      BY <1>7, <3>1, Steps
  <2> QED
    BY <1>2, <2>1, <2>2
<1>8. CASE ReadSilver(d)
  <2>1. UNCHANGED <<silver, gold, op>>
    BY <1>8 DEF ReadSilver
  <2>2. Became(d, job[d].pool, silver[d], job[d].merged, {"merge"})
    BY <1>8, Steps
  <2> QED
    BY <1>2, <2>1, <2>2
<1>9. ASSUME (\E m \in Matches : StopOnTorn(d, m)) \/ KillJob(d) PROVE GoldAt(e)'
  <2>1. job' = [job EXCEPT ![d] = NoJob] /\ UNCHANGED <<silver, gold, op>> /\ d \in interrupted'
    BY <1>9 DEF StopOnTorn, KillJob
  <2>2. Ended(d) /\ Excused(d)'
    BY <2>1, Ending DEF Excused
  <2> QED
    BY <1>3, <2>1, <2>2
<1>10. CASE NothingLeft(d)
  <2>1. /\ job' = [job EXCEPT ![d] = NoJob] /\ UNCHANGED <<silver, gold, op>>
        /\ job[d].stage = "end" /\ (job[d].kind = "densify" /\ job[d].merged => d \in interrupted')
    BY <1>10 DEF NothingLeft
  <2>2. job[d].pool = {}
    BY <1>1, <2>1 DEF GoldAt
  <2>3. Excused(d)' \/ Fresh(d)
    BY <2>1, <2>2 DEF Excused, Fresh
  <2>4. Ended(d)
    BY <2>1, Ending
  <2> QED
    BY <1>3, <2>1, <2>3, <2>4
<1> QED
  BY <1>5, <1>6, <1>7, <1>8, <1>9, <1>10, GoldOfMerge, GoldOfWrite DEF CollectStep

LEMMA GoldOfSources ==
  ASSUME IInv, [Next]_vars, GoldInv, NEW e \in Dirs, OpenSources \/ CloseSources
  PROVE  GoldAt(e)'
<1> DEFINE j == job["rank"]
<1>1. /\ GoldAt(e) /\ (Excused(e) => Excused(e)')
      /\ GoldAt("rank") /\ (Excused("rank") => Excused("rank")')
  BY ExcusedKept DEF GoldInv
<1>2. UNCHANGED <<silver, gold, op>> /\ j.stage \in {"sources", "closing"}
  BY DEF OpenSources, CloseSources
<1>3. Excused("rank") \/ j.base = silver["rank"]
  BY <1>1, <1>2 DEF GoldAt, UpToDate
<1>4. PICK pool, base, stages :
        /\ Became("rank", pool, base, j.merged, stages)
        /\ j.kind # "densify" => pool = j.pool
        /\ base = j.base \/ stages \cap {"merge", "sources", "closing", "gold"} = {}
  <2>1. Ahead \cap {"merge", "sources", "closing", "gold"} = {}
    BY DEF Ahead
  <2>2. CASE OpenSources
    <3>1. Became("rank", j.pool, j.base, j.merged, {"closing"})
      BY <2>2, SourceSteps
    <3> QED
      BY <3>1
  <2>3. CASE CloseSources
    <3> DEFINE p == IF j.kind = "densify" THEN {} ELSE j.pool
    <3>1. \/ Became("rank", p, j.base, j.merged, {"gold"})
          \/ Became("rank", p, {}, j.merged, Ahead)
      BY <2>3, SourceSteps
    <3>2. j.kind # "densify" => p = j.pool
      OBVIOUS
    <3> HIDE DEF p
    <3> QED
      BY <2>1, <3>1, <3>2
  <2> QED
    BY <2>2, <2>3
<1>5. CASE e = "rank"
  BY <1>1, <1>2, <1>3, <1>4, <1>5, Onward
<1>6. CASE e # "rank"
  BY <1>1, <1>2, <1>4, <1>6, Untouched DEF Became
<1> QED
  BY <1>5, <1>6

LEMMA GoldOfCommand ==
  ASSUME IInv, [Next]_vars, GoldInv, NEW e \in Dirs, Maintain
  PROVE  GoldAt(e)'
<1> USE DEF files, marks
<1>1. GoldAt(e) /\ (Excused(e) => Excused(e)')
  BY ExcusedKept DEF GoldInv
<1>2. op.stage = "gold" => op.kind = "archive"
  BY DEF IInv, Stages
<1>3. op.kind \in {"reextract", "rebuild"} => op.stage = "idle"
  BY DEF IInv, Stages
<1>4. ASSUME NEW kind \in {"reextract", "rebuild"}, StartOp(kind) PROVE GoldAt(e)'
  <2>1. OpBecame(kind, "none", {}, "idle")
    BY <1>4, OpSteps
  <2>2. UNCHANGED <<silver, gold, job>> /\ op.stage # "gold"
    BY <1>2, <1>4 DEF StartOp
  <2> QED
    BY <1>1, <2>1, <2>2, Commanded
<1>5. ASSUME NEW d \in Dirs, ReadRows(d) PROVE GoldAt(e)'
  <2>1. OpBecame(op.kind, d, silver[d], op.stage)
    BY <1>5, OpSteps
  <2>2. UNCHANGED <<silver, gold, job>> /\ op.stage # "gold"
    BY <1>3, <1>5 DEF ReadRows
  <2> QED
    BY <1>1, <2>1, <2>2, Commanded
<1>6. CASE RowsDone \/ \E m \in Matches : UnlinkPlain(m)
  <2>1. OpBecame("none", "none", {}, "idle")
    BY <1>6, OpSteps DEF RowsDone, UnlinkPlain
  <2>2. UNCHANGED <<silver, gold, job>> /\ op.stage # "gold"
    BY <1>3, <1>6 DEF RowsDone, UnlinkPlain
  <2> QED
    BY <1>1, <2>1, <2>2, Commanded
<1>7. ASSUME NEW m \in Matches, StartCompress(m) PROVE GoldAt(e)'
  <2>1. OpBecame("compress", "none", {m}, "open")
    BY <1>7, OpSteps
  <2>2. UNCHANGED <<silver, gold, job>> /\ op.stage # "gold"
    BY <1>2, <1>7 DEF StartCompress
  <2> QED
    BY <1>1, <2>1, <2>2, Commanded
<1>8. ASSUME NEW m \in Matches, OpenZst(m) \/ CloseZst(m) PROVE GoldAt(e)'
  <2>1. PICK to \in {"close", "unlink"} : OpBecame(op.kind, op.at, op.held, to)
    BY <1>8, OpSteps DEF OpenZst, CloseZst
  <2>2. UNCHANGED <<silver, gold, job>> /\ op.stage # "gold"
    BY <1>2, <1>8 DEF OpenZst, CloseZst, WriteZst
  <2> QED
    BY <1>1, <2>1, <2>2, Commanded
<1>9. CASE StartArchive
  <2>1. OpBecame("archive", "none", {}, "raw")
    BY <1>9, OpSteps
  <2>2. UNCHANGED <<silver, gold, job>> /\ op.stage # "gold"
    BY <1>2, <1>9 DEF StartArchive
  <2> QED
    BY <1>1, <2>1, <2>2, Commanded
<1>10. CASE MoveRaw
  <2>1. OpBecame(op.kind, op.at, op.held, "silver")
    BY <1>10, OpSteps DEF MoveRaw
  <2>2. UNCHANGED <<silver, gold, job>> /\ op.stage # "gold"
    BY <1>10 DEF MoveRaw
  <2> QED
    BY <1>1, <2>1, <2>2, Commanded
<1>11. CASE ZipArchive
  <2>1. OpBecame("none", "none", {}, "idle")
    BY <1>11, OpSteps DEF ZipArchive
  <2>2. UNCHANGED <<silver, gold, job>> /\ op.stage # "gold"
    BY <1>11 DEF ZipArchive
  <2> QED
    BY <1>1, <2>1, <2>2, Commanded
<1>12. CASE KillOp
  <2>1. OpBecame("none", "none", {}, "idle")
    BY <1>12, OpSteps DEF KillOp
  <2>2. UNCHANGED <<silver, gold, job>> /\ (op.kind = "archive" => e \in interrupted')
    BY <1>12 DEF KillOp
  <2>3. op.stage # "gold" \/ Excused(e)'
    BY <1>2, <2>2 DEF Excused
  <2> QED
    BY <1>1, <2>1, <2>2, <2>3, Commanded
<1> QED
  BY <1>4, <1>5, <1>6, <1>7, <1>8, <1>9, <1>10, <1>11, <1>12, GoldOfRows, GoldOfArchive
     DEF Maintain

LEMMA GoldStep ==
  ASSUME IInv, GoldInv, [Next]_vars
  PROVE  GoldInv'
<1> USE DEF files, marks
<1>1. gold' \in [Dirs -> SUBSET Matches]
  <2>1. /\ silver \in [Dirs -> SUBSET Matches] /\ gold \in [Dirs -> SUBSET Matches]
        /\ \A d \in Dirs : job[d].base \in SUBSET Matches
        /\ op.held \in SUBSET Matches
    BY SMT DEF IInv, Types, GoldInv, Jobs, Ops
  <2>2. ASSUME NEW d \in Dirs, WriteGold(d) \/ WriteRows(d)
        PROVE  gold' \in [Dirs -> SUBSET Matches]
    <3>1. gold' = gold \/ (\E S \in SUBSET Matches : gold' = [gold EXCEPT ![d] = S])
      BY <2>1, <2>2 DEF WriteGold, WriteRows
    <3> QED
      BY <2>1, <3>1
  <2>3. CASE MoveGold
    BY <2>3 DEF MoveGold
  <2> QED
    BY <2>1, <2>2, <2>3
       DEF Next, Collect, CollectStep, Maintain, vars, NewPatch, StartReferential, StartDensify,
           StartPersonal, OpenSources, CloseSources, ListMatches, ReadRaw, SkipMatch, AskRiot,
           OpenRaw, CloseRaw, StopOnTorn, NothingLeft, ReadSilver, MergeSilver, KillJob,
           StartOp, ReadRows, RowsDone, StartCompress, OpenZst, CloseZst, WriteZst,
           UnlinkPlain, StartArchive, MoveRaw, MoveSilver, ZipArchive, KillOp
<1>2. ASSUME NEW e \in Dirs PROVE GoldAt(e)'
  <2>1. CASE UNCHANGED vars \/ NewPatch
    <3>1. UNCHANGED <<silver, gold, op, job>>
      BY <2>1 DEF vars, NewPatch
    <3> QED
      BY <3>1, ExcusedKept, Untouched DEF GoldInv
  <2>2. CASE \E p \in Patches, s \in Samples : StartReferential(p, s)
    <3>1. PICK p \in Patches, s \in Samples : StartReferential(p, s)
      BY <2>2
    <3>2. "ref" \in JobKinds \ {"none"} /\ p \in Int /\ s \in Seq(Players) /\ {} \in SUBSET Matches
      <4>1. s \in Seq(Players)
        BY SMT DEF Samples
      <4> QED
        BY <4>1, LayersAssumption DEF JobKinds
    <3>3. /\ UNCHANGED <<silver, gold, op>> /\ job["rank"].kind = "none"
          /\ Started("rank", "ref", p, s, {})
      BY <3>1 DEF StartReferential
    <3> QED
      BY <3>2, <3>3, GoldOfStart
  <2>3. CASE \E s \in Samples : StartDensify(s)
    <3>1. PICK s \in Samples : StartDensify(s)
      BY <2>3
    <3>2. /\ "densify" \in JobKinds \ {"none"} /\ sources \in Int
          /\ silver["rank"] \in SUBSET Matches /\ s \in Seq(Players)
      <4>1. s \in Seq(Players)
        BY SMT DEF Samples
      <4> QED
        BY <3>1, <4>1, LayersAssumption DEF StartDensify, JobKinds, IInv, Types
    <3>3. /\ UNCHANGED <<silver, gold, op>> /\ job["rank"].kind = "none"
          /\ Started("rank", "densify", sources, s, silver["rank"])
      BY <3>1 DEF StartDensify
    <3> QED
      BY <3>2, <3>3, GoldOfStart
  <2>4. CASE \E b \in BOOLEAN : StartPersonal(b)
    <3>1. PICK b \in BOOLEAN : StartPersonal(b)
      BY <2>4
    <3> DEFINE known == IF b THEN silver["personal"] ELSE {}
    <3>2. /\ "fetch" \in JobKinds \ {"none"} /\ NoFile \in Int /\ known \in SUBSET Matches
          /\ <<Me>> \in Seq(Players)
      BY LayersAssumption DEF JobKinds, IInv, Types
    <3>3. /\ UNCHANGED <<silver, gold, op>> /\ job["personal"].kind = "none"
          /\ Started("personal", "fetch", NoFile, <<Me>>, known)
      BY <3>1 DEF StartPersonal
    <3> HIDE DEF known
    <3> QED
      BY <3>2, <3>3, GoldOfStart
  <2> QED
    BY <2>1, <2>2, <2>3, <2>4, GoldOfCollect, GoldOfSources, GoldOfCommand DEF Next, Collect
<1> QED
  BY <1>1, <1>2 DEF GoldInv

\* And at rest the aggregates of a directory are those of its rows, unless a
\* collection was cut before its gold or a command of maintenance ran beside it.
THEOREM GoldFollowsCorrect == Spec => []GoldFollows
<1>1. ASSUME IInv, GoldInv PROVE GoldFollows
  <2>1. SUFFICES ASSUME NEW d \in Dirs, job[d].kind = "none", op.kind = "none", ~Excused(d)
                 PROVE  gold[d] = silver[d]
    BY DEF GoldFollows, Excused
  <2>2. UpToDate(d) /\ Fresh(d) /\ op.stage # "gold"
    BY <1>1, <2>1 DEF GoldInv, GoldAt, Fresh, IInv, Stages
  <2> QED
    BY <2>2 DEF UpToDate
<1>2. IInv /\ GoldInv /\ [Next]_vars => GoldInv'
  BY GoldStep
<1> QED
  BY <1>1, <1>2, GoldInit, Invariant, PTL DEF Spec
-----------------------------------------------------------------------------
(* The snapshots of the ladder, the other files of the batch collection.   *)

LEMMA CallFacts ==
    ASSUME LadderAssumption
    PROVE  /\ Calls \in Seq(STRING)
           /\ Len(Calls) \in Nat /\ DOMAIN Calls = 1..Len(Calls)
           /\ Len(APEX) \in Nat /\ DOMAIN APEX = 1..Len(APEX)
           /\ Len(Calls) >= Len(APEX)
           /\ \A n \in DOMAIN APEX : Calls[n] = APEX[n]
           /\ \A n \in DOMAIN Calls : Calls[n] \in Ranks
           /\ \A e \in Ranks : \E n \in DOMAIN Calls : Calls[n] = e
           /\ IsFiniteSet(Ranks)
<1>1. APEX \in Seq(STRING) /\ DIVISIONS \in Seq(STRING)
  BY DEF LadderAssumption
<1>2. /\ Calls \in Seq(STRING)
      /\ Len(Calls) = Len(APEX) + Len(DIVISIONS)
      /\ \A n \in 1..Len(APEX) : Calls[n] = APEX[n]
  BY <1>1, ConcatProperties DEF Calls
<1>3. /\ Len(APEX) \in Nat /\ Len(DIVISIONS) \in Nat /\ DOMAIN APEX = 1..Len(APEX)
      /\ DOMAIN Calls = 1..Len(Calls)
  BY <1>1, <1>2
<1>4. Ranks = {Calls[n] : n \in 1..Len(Calls)}
  BY <1>3 DEF Ranks, Range
<1>5. IsFiniteSet(1..Len(Calls))
  BY <1>2, <1>3, FS_Interval
<1>6. IsFiniteSet(Ranks)
  <2> DEFINE f == [n \in 1..Len(Calls) |-> Calls[n]]
  <2>1. f \in Surjection(1..Len(Calls), Ranks)
    BY <1>4 DEF Surjection
  <2>2. QED
    BY <1>5, <2>1, FS_Surjection
<1>7. QED
  BY <1>2, <1>3, <1>4, <1>6

LEMMA PageFacts ==
    ASSUME LadderAssumption
    PROVE  /\ Len(PageEnds) \in Nat \ {0} /\ DOMAIN PageEnds = 1..Len(PageEnds)
           /\ \A k \in 1..Len(PageEnds) : PageEnds[k] \in Nat /\ Before(k) \in Nat
           /\ Before(1) = 0
           /\ \A k \in 1..Len(PageEnds) : k # Len(PageEnds) => Before(k + 1) = PageEnds[k]
           /\ \A k \in 1..Len(PageEnds) : Before(k) < PageEnds[k]
  BY DEF LadderAssumption, Before

(* The days assumed are ladders whatever happens on them. *)
LEMMA LadderConstants == LadderAssumption' = LadderAssumption
<1>1. Everybody' = Everybody
  BY DEF Everybody
<1>2. QED
  BY <1>1 DEF LadderAssumption, Everybody, Calls, Ranks, Range,
              Before, Collections
-----------------------------------------------------------------------------
(* Nobody has two places. *)
OnePlace ==
    \A d, e \in Ranks : \A i \in DOMAIN ladder[d], j \in DOMAIN ladder[e] :
        ladder[d][i] = ladder[e][j] => d = e /\ i = j

LadderTypes ==
    /\ ladder \in [Ranks -> Seq(Everybody)]
    /\ OnePlace
    /\ run \in [Runs -> Collections \cup {None}]
    /\ DOMAIN since = Runs

LEMMA Removal ==
    ASSUME NEW P, NEW s \in Seq(P), NEW i \in 1..Len(s)
    PROVE  /\ RemoveAt(s, i) \in Seq(P)
           /\ Len(RemoveAt(s, i)) = Len(s) - 1
           /\ \A j \in 1..Len(s) - 1 : RemoveAt(s, i)[j] = IF j < i THEN s[j] ELSE s[j + 1]
<1> DEFINE before == SubSeq(s, 1, i - 1)
           after == SubSeq(s, i + 1, Len(s))
<1>1. before \in Seq(P) /\ Len(before) = i - 1 /\ \A j \in 1..i - 1 : before[j] = s[j]
  BY SubSeqProperties
<1>2. after \in Seq(P) /\ Len(after) = Len(s) - i /\ \A j \in 1..Len(s) - i : after[j] = s[i + j]
  BY SubSeqProperties
<1>3. RemoveAt(s, i) = before \o after
  BY DEF RemoveAt
<1> HIDE DEF before, after
<1>4. /\ before \o after \in Seq(P) /\ Len(before \o after) = Len(before) + Len(after)
      /\ \A j \in 1..Len(before) + Len(after) :
            (before \o after)[j] = IF j <= Len(before) THEN before[j] ELSE after[j - Len(before)]
  BY <1>1, <1>2, ConcatProperties
<1>5. Len(s) \in Nat
  OBVIOUS
<1>6. ASSUME NEW j \in 1..Len(s) - 1
      PROVE  (before \o after)[j] = IF j < i THEN s[j] ELSE s[j + 1]
  <2>1. (before \o after)[j] = IF j <= i - 1 THEN before[j] ELSE after[j - (i - 1)]
    BY <1>1, <1>2, <1>4, <1>5
  <2>2. CASE j < i
    BY <1>1, <1>5, <2>1, <2>2
  <2>3. CASE ~(j < i)
    <3>1. j - (i - 1) \in 1..Len(s) - i /\ i + (j - (i - 1)) = j + 1
      BY <1>5, <2>3
    <3>2. after[j - (i - 1)] = s[j + 1]
      BY <1>2, <3>1
    <3>3. ~(j <= i - 1) /\ ~(j < i)
      BY <1>5, <2>3
    <3>4. QED
      BY <2>1, <3>2, <3>3
  <2>4. QED
    BY <2>2, <2>3
<1>7. QED
  BY <1>1, <1>2, <1>3, <1>4, <1>5, <1>6

(* The place a move gives, and where the others were before it.            *)
NewPlace(d, top, e, k) == e = d /\ k = IF top THEN 1 ELSE Len(ladder'[e])
OldPlace(from, i, d, top, e, k) ==
    LET m == IF e = d /\ top THEN k - 1 ELSE k
    IN  IF e = from /\ m >= i THEN m + 1 ELSE m

MovesTo(from, i, d, top) == ladder' = AfterMove(from, i, d, top)

LEMMA MovePlaces ==
    ASSUME LadderTypes, NEW from \in Ranks, NEW d \in Ranks, NEW top \in BOOLEAN,
           NEW i \in DOMAIN ladder[from], MovesTo(from, i, d, top)
    PROVE  /\ ladder' \in [Ranks -> Seq(Everybody)]
           /\ Len(ladder'[d]) \in DOMAIN ladder'[d] /\ 1 \in DOMAIN ladder'[d]
           /\ \A e \in Ranks : \A k \in DOMAIN ladder'[e] :
                 /\ NewPlace(d, top, e, k) => ladder'[e][k] = ladder[from][i]
                 /\ ~NewPlace(d, top, e, k) =>
                       /\ OldPlace(from, i, d, top, e, k) \in DOMAIN ladder[e]
                       /\ ladder'[e][k] = ladder[e][OldPlace(from, i, d, top, e, k)]
                       /\ e = from => OldPlace(from, i, d, top, e, k) # i
           /\ \A e \in Ranks : \A j \in DOMAIN ladder[e] :
                 e # from \/ j # i =>
                    \E k \in DOMAIN ladder'[e] : ~NewPlace(d, top, e, k) /\ OldPlace(from, i, d, top, e, k) = j
<1> DEFINE p == ladder[from][i]
           rest == [ladder EXCEPT ![from] = RemoveAt(@, i)]
<1>1. ladder \in [Ranks -> Seq(Everybody)] /\ p \in Everybody
  BY DEF LadderTypes
<1>2. \A e \in Ranks : ladder[e] \in Seq(Everybody) /\ Len(ladder[e]) \in Nat /\ DOMAIN ladder[e] = 1..Len(ladder[e])
  BY <1>1
<1>3. i \in 1..Len(ladder[from])
  BY <1>2
<1>4. /\ rest \in [Ranks -> Seq(Everybody)]
      /\ \A e \in Ranks : e # from => rest[e] = ladder[e]
      /\ Len(rest[from]) = Len(ladder[from]) - 1
      /\ \A j \in 1..Len(ladder[from]) - 1 :
            rest[from][j] = IF j < i THEN ladder[from][j] ELSE ladder[from][j + 1]
  BY <1>1, <1>2, <1>3, Removal
<1>5. ladder' = [rest EXCEPT ![d] = IF top THEN <<p>> \o @ ELSE Append(@, p)]
  BY DEF MovesTo, AfterMove
<1>6. \A e \in Ranks : e # d => ladder'[e] = rest[e]
  BY <1>4, <1>5
<1> HIDE DEF p, rest
<1>7. /\ ladder'[d] \in Seq(Everybody) /\ Len(ladder'[d]) = Len(rest[d]) + 1
      /\ top => /\ ladder'[d][1] = p
                /\ \A k \in 2..Len(rest[d]) + 1 : ladder'[d][k] = rest[d][k - 1]
      /\ ~top => /\ ladder'[d][Len(rest[d]) + 1] = p
                 /\ \A k \in 1..Len(rest[d]) : ladder'[d][k] = rest[d][k]
  <2>1. rest[d] \in Seq(Everybody) /\ Len(rest[d]) \in Nat
    BY <1>4
  <2>2. CASE top
    <3>1. ladder'[d] = <<p>> \o rest[d]
      BY <1>4, <1>5, <2>2
    <3>2. <<p>> \in Seq(Everybody) /\ Len(<<p>>) = 1 /\ <<p>>[1] = p
      BY <1>1
    <3>3. QED
      BY <2>1, <2>2, <3>1, <3>2, ConcatProperties
  <2>3. CASE ~top
    <3>1. ladder'[d] = Append(rest[d], p)
      BY <1>4, <1>5, <2>3
    <3>2. QED
      BY <1>1, <2>1, <2>3, <3>1, AppendProperties
  <2>4. QED
    BY <2>2, <2>3
<1>8. ladder' \in [Ranks -> Seq(Everybody)]
  <2>1. \A e \in Ranks : ladder'[e] \in Seq(Everybody)
    BY <1>4, <1>6, <1>7
  <2>2. QED
    BY <1>4, <1>5, <2>1
<1>9. \A e \in Ranks : Len(ladder'[e]) \in Nat /\ DOMAIN ladder'[e] = 1..Len(ladder'[e])
  BY <1>8
<1>10. \A e \in Ranks : Len(rest[e]) \in Nat
  BY <1>4
<1>11. \A e \in Ranks :
          /\ Len(rest[e]) = IF e = from THEN Len(ladder[e]) - 1 ELSE Len(ladder[e])
          /\ Len(ladder'[e]) = IF e = d THEN Len(rest[e]) + 1 ELSE Len(rest[e])
  BY <1>4, <1>6, <1>7
<1>12. ASSUME NEW e \in Ranks, NEW k \in DOMAIN ladder'[e], ~NewPlace(d, top, e, k)
       PROVE  /\ OldPlace(from, i, d, top, e, k) \in DOMAIN ladder[e]
              /\ ladder'[e][k] = ladder[e][OldPlace(from, i, d, top, e, k)]
              /\ e = from => OldPlace(from, i, d, top, e, k) # i
  <2> DEFINE m == IF e = d /\ top THEN k - 1 ELSE k
  <2>1. k \in 1..Len(ladder'[e])
    BY <1>9
  <2>2. m \in 1..Len(rest[e]) /\ ladder'[e][k] = rest[e][m]
    <3>1. Len(rest[e]) \in Nat
      BY <1>10
    <3>2. CASE e # d
      <4>1. m = k /\ Len(ladder'[e]) = Len(rest[e]) /\ ladder'[e] = rest[e]
        BY <1>6, <1>11, <3>2
      <4>2. QED
        BY <2>1, <4>1
    <3>3. CASE e = d /\ top
      <4>1. m = k - 1 /\ k # 1 /\ Len(ladder'[e]) = Len(rest[e]) + 1
        BY <1>11, <1>12, <3>3 DEF NewPlace
      <4>2. QED
        BY <1>7, <2>1, <3>1, <3>3, <4>1
    <3>4. CASE e = d /\ ~top
      <4>1. m = k /\ Len(ladder'[e]) = Len(rest[e]) + 1 /\ k # Len(ladder'[e])
        BY <1>11, <1>12, <3>4 DEF NewPlace
      <4>2. QED
        BY <1>7, <2>1, <3>1, <3>4, <4>1
    <3>5. QED
      BY <3>2, <3>3, <3>4
  <2>3. OldPlace(from, i, d, top, e, k) = IF e = from /\ m >= i THEN m + 1 ELSE m
    BY DEF OldPlace
  <2> HIDE DEF m
  <2>4. CASE e = from
    <3>1. Len(rest[e]) = Len(ladder[e]) - 1 /\ i \in 1..Len(ladder[e]) /\ Len(ladder[e]) \in Nat
      BY <1>2, <1>3, <1>11, <2>4
    <3>2. rest[e][m] = IF m < i THEN ladder[e][m] ELSE ladder[e][m + 1]
      BY <1>4, <2>2, <2>4, <3>1
    <3>3. QED
      BY <1>2, <2>2, <2>3, <2>4, <3>1, <3>2
  <2>5. CASE e # from
    BY <1>2, <1>4, <1>11, <2>2, <2>3, <2>5
  <2>6. QED
    BY <2>4, <2>5
<1>13. ASSUME NEW e \in Ranks, NEW j \in DOMAIN ladder[e], e # from \/ j # i
       PROVE  \E k \in DOMAIN ladder'[e] : ~NewPlace(d, top, e, k) /\ OldPlace(from, i, d, top, e, k) = j
  <2> DEFINE m == IF e = from /\ j > i THEN j - 1 ELSE j
             k == IF e = d /\ top THEN m + 1 ELSE m
  <2>1. j \in 1..Len(ladder[e])
    BY <1>2
  <2>2. m \in 1..Len(rest[e]) /\ (IF e = from /\ m >= i THEN m + 1 ELSE m) = j
    BY <1>2, <1>3, <1>11, <1>13, <2>1
  <2> HIDE DEF m
  <2>3. k \in 1..Len(ladder'[e]) /\ ~NewPlace(d, top, e, k) /\ (IF e = d /\ top THEN k - 1 ELSE k) = m
    BY <1>10, <1>11, <2>2 DEF NewPlace
  <2> HIDE DEF k
  <2>4. OldPlace(from, i, d, top, e, k) = j
    BY <2>2, <2>3 DEF OldPlace
  <2>5. QED
    BY <1>9, <2>3, <2>4
<1>14. ASSUME NEW e \in Ranks, NEW k \in DOMAIN ladder'[e], NewPlace(d, top, e, k)
       PROVE  ladder'[e][k] = ladder[from][i]
  BY <1>7, <1>10, <1>11, <1>14 DEF NewPlace, p
<1>15. Len(ladder'[d]) \in DOMAIN ladder'[d] /\ 1 \in DOMAIN ladder'[d]
  BY <1>7, <1>9, <1>10
<1>16. QED
  BY <1>8, <1>12, <1>13, <1>14, <1>15

LEMMA MoveKeeps ==
    ASSUME LadderTypes, NEW from \in Ranks, NEW d \in Ranks, NEW top \in BOOLEAN,
           NEW i \in DOMAIN ladder[from], MovesTo(from, i, d, top)
    PROVE  OnePlace' /\ Ranked' = Ranked
<1>1. ladder \in [Ranks -> Seq(Everybody)] /\ OnePlace
  BY DEF LadderTypes
<1>2. Ranks' = Ranks
  BY DEF Ranks, Calls, Range
<1>3. ladder' \in [Ranks -> Seq(Everybody)]
  BY MovePlaces
<1>4. \A e \in Ranks : \A k \in DOMAIN ladder'[e] : k \in Nat /\ Len(ladder'[e]) \in Nat /\ i \in Nat
  BY <1>1, <1>3
<1>5. ASSUME NEW e \in Ranks, NEW f \in Ranks, NEW k \in DOMAIN ladder'[e], NEW l \in DOMAIN ladder'[f],
             ladder'[e][k] = ladder'[f][l]
      PROVE  e = f /\ k = l
  <2>1. CASE NewPlace(d, top, e, k) /\ NewPlace(d, top, f, l)
    BY <2>1 DEF NewPlace
  <2>2. CASE NewPlace(d, top, e, k) /\ ~NewPlace(d, top, f, l)
    BY <1>1, <1>5, <2>2, MovePlaces DEF OnePlace
  <2>3. CASE ~NewPlace(d, top, e, k) /\ NewPlace(d, top, f, l)
    BY <1>1, <1>5, <2>3, MovePlaces DEF OnePlace
  <2>4. CASE ~NewPlace(d, top, e, k) /\ ~NewPlace(d, top, f, l)
    <3>1. e = f /\ OldPlace(from, i, d, top, e, k) = OldPlace(from, i, d, top, f, l)
      BY <1>1, <1>5, <2>4, MovePlaces DEF OnePlace
    <3>2. QED
      BY <1>4, <3>1 DEF OldPlace
  <2>5. QED
    BY <2>1, <2>2, <2>3, <2>4
<1>6. \A q : q \in Ranked <=> \E e \in Ranks : \E j \in DOMAIN ladder[e] : q = ladder[e][j]
  BY DEF Ranked, Range
<1>7. \A q : q \in Ranked' <=> \E e \in Ranks : \E j \in DOMAIN ladder'[e] : q = ladder'[e][j]
  BY <1>2 DEF Ranked, Range
<1>8. ASSUME NEW e \in Ranks, NEW j \in DOMAIN ladder[e]
      PROVE  ladder[e][j] \in Ranked'
  <2>1. CASE e = from /\ j = i
    <3> DEFINE k == IF top THEN 1 ELSE Len(ladder'[d])
    <3>1. k \in DOMAIN ladder'[d] /\ ladder'[d][k] = ladder[from][i]
      <4>1. NewPlace(d, top, d, k)
        BY DEF NewPlace
      <4>2. Len(ladder'[d]) \in DOMAIN ladder'[d] /\ 1 \in DOMAIN ladder'[d]
        BY MovePlaces
      <4>3. k \in DOMAIN ladder'[d]
        BY <4>2
      <4> HIDE DEF k
      <4>4. QED
        BY <4>1, <4>3, MovePlaces
    <3>2. QED
      BY <1>7, <2>1, <3>1
  <2>2. CASE ~(e = from /\ j = i)
    BY <1>7, <2>2, MovePlaces
  <2>3. QED
    BY <2>1, <2>2
<1>9. ASSUME NEW e \in Ranks, NEW k \in DOMAIN ladder'[e]
      PROVE  ladder'[e][k] \in Ranked
  BY <1>6, MovePlaces
<1>10. Ranked' = Ranked
  <2>1. \A q : q \in Ranked' <=> q \in Ranked
    BY <1>6, <1>7, <1>8, <1>9
  <2>2. QED
    BY <2>1
<1>11. OnePlace'
  BY <1>2, <1>5 DEF OnePlace
<1>12. QED
  BY <1>10, <1>11

-----------------------------------------------------------------------------
(* A run knows every rank a player held since it started, and gives him    *)
(* one of them.                                                            *)
Holds(r, h) ==
    /\ h.held \in [Ranked -> (SUBSET Ranks) \ {{}}]
    /\ h.left \subseteq Ranks
    /\ \A q \in DOMAIN r.rows : q \in Ranked /\ r.rows[q] \in h.held[q]
    /\ r.status = "reading" =>
          \A e \in Ranks : \A i \in DOMAIN ladder[e] : e \in h.held[ladder[e][i]]

(* A division nobody left holds, of those the run has not read, nobody     *)
(* above the page it is at; and when it has read all nobody is left there. *)
Unread(r, h, e, i) == ladder[e][i] \notin DOMAIN r.rows /\ h.held[ladder[e][i]] = {e}
Paged(r) == r.call \in Len(APEX) + 1..Len(Calls)
Passes(r, h) ==
    /\ r.call <= Len(APEX) => r.page = 1
    /\ r.status = "reading" =>
          \A e \in Ranks \ h.left : \A i \in DOMAIN ladder[e] :
             Unread(r, h, e, i) =>
                /\ \A n \in DOMAIN Calls : n < r.call => Calls[n] # e
                /\ Paged(r) /\ Calls[r.call] = e => Before(r.page) < i
    /\ r.call > Len(Calls) =>
          \A q \in Ranked \ DOMAIN r.rows : \A e : h.held[q] = {e} => e \in h.left

RunIsFair(c) == run[c] # None => Holds(run[c], since[c]) /\ Passes(run[c], since[c])

(* The rows written are those of a run that has read all. *)
BlobIsWhole ==
    /\ blob.by \in Runs /\ run[blob.by] # None
    /\ blob.rows = run[blob.by].rows
    /\ run[blob.by].call > Len(Calls)
    /\ run[blob.by].status \in {"written", "done", "killed"}

WritesInOrder ==
    /\ \A c \in Runs : Reads(c, "written") \/ Reads(c, "done") => BlobIsWhole
    /\ \A c \in Runs : Reads(c, "invalidated") \/ Reads(c, "written") \/ Reads(c, "done") =>
          run[c].call > Len(Calls)
    /\ manifest.complete => manifest.captured \in Runs /\ Reads(manifest.captured, "done")

SnapshotInv ==
    /\ LadderAssumption
    /\ LadderTypes
    /\ \A c \in Runs : RunIsFair(c)
    /\ WritesInOrder

LEMMA PlacesAre ==
    ASSUME NEW q
    PROVE  q \in Ranked <=> \E e \in Ranks : \E j \in DOMAIN ladder[e] : q = ladder[e][j]
  BY DEF Ranked, Range

(* The only rank of a player who was passed over is one somebody left. *)
LEMMA ReadAll ==
    ASSUME LadderAssumption, NEW r, NEW h, Holds(r, h), r.status = "reading",
           r.call > Len(Calls), r.call \in Nat,
           \A e \in Ranks \ h.left : \A i \in DOMAIN ladder[e] :
              Unread(r, h, e, i) => \A n \in DOMAIN Calls : n < r.call => Calls[n] # e,
           NEW q \in Ranked \ DOMAIN r.rows, NEW e, h.held[q] = {e}
    PROVE  e \in h.left
<1>1. PICK f \in Ranks : \E j \in DOMAIN ladder[f] : q = ladder[f][j]
  BY PlacesAre
<1>2. PICK j \in DOMAIN ladder[f] : q = ladder[f][j]
  BY <1>1
<1>3. f = e
  BY <1>2 DEF Holds
<1>4. PICK n \in DOMAIN Calls : Calls[n] = e
  BY <1>3, CallFacts
<1>5. n < r.call
  BY CallFacts
<1>6. QED
  BY <1>2, <1>3, <1>4, <1>5 DEF Unread

LEMMA SnapshotInit == LadderAssumption /\ LadderInit => SnapshotInv
<1> SUFFICES ASSUME LadderAssumption, LadderInit PROVE SnapshotInv
  OBVIOUS
<1>1. PICK day \in Days : ladder = day.ladder
  BY DEF LadderInit
<1>2. ladder \in [Ranks -> Seq(Everybody)] /\ OnePlace
  BY <1>1 DEF LadderAssumption, OnePlace
<1>3. LadderTypes
  BY <1>2 DEF LadderTypes, LadderInit
<1>4. (\A c \in Runs : RunIsFair(c)) /\ WritesInOrder
  BY DEF LadderInit, RunIsFair, WritesInOrder, Reads
<1>5. QED
  BY <1>3, <1>4 DEF SnapshotInv

(* A run for which nothing changed is as fair as before. *)
LEMMA OtherRuns ==
    ASSUME NEW c, RunIsFair(c), run'[c] = run[c], since'[c] = since[c], UNCHANGED ladder
    PROVE  RunIsFair(c)'
<1>1. Ranked' = Ranked /\ Ranks' = Ranks /\ Calls' = Calls
  BY DEF Ranked, Ranks, Calls
<1>2. \A k : Before(k)' = Before(k)
  BY DEF Before
<1>3. QED
  BY <1>1, <1>2 DEF RunIsFair, Holds, Passes, Unread, Paged

(* The run that takes a step while the ladder stays. *)
LEMMA OneRun ==
    ASSUME SnapshotInv, NEW c \in Runs, UNCHANGED ladder,
           NEW r \in Collections, Progress(c, r),
           NEW h, since'[c] = h, DOMAIN since' = Runs, \A d \in Runs \ {c} : since'[d] = since[d],
           Holds(r, h), Passes(r, h)
    PROVE  LadderTypes' /\ \A d \in Runs : RunIsFair(d)'
<1>1. run \in [Runs -> Collections \cup {None}] /\ DOMAIN since = Runs
  BY DEF SnapshotInv, LadderTypes
<1>2. run'[c] = r /\ since'[c] = h
  BY <1>1 DEF Progress
<1>3. Ranked' = Ranked /\ Ranks' = Ranks /\ Calls' = Calls
  BY DEF Ranked, Ranks, Calls
<1>4. \A k : Before(k)' = Before(k)
  BY DEF Before
<1>5. RunIsFair(c)'
  BY <1>2, <1>3, <1>4 DEF RunIsFair, Holds, Passes, Unread, Paged
<1>6. ASSUME NEW d \in Runs, d # c PROVE RunIsFair(d)'
  BY <1>1, <1>6, OtherRuns DEF Progress, SnapshotInv
<1>7. Everybody' = Everybody /\ Collections' = Collections
  BY <1>3 DEF Everybody, Collections
<1>8. LadderTypes'
  BY <1>1, <1>3, <1>7 DEF SnapshotInv, LadderTypes, OnePlace, Progress
<1>9. QED
  BY <1>5, <1>6, <1>8

(* What a run keeps while nothing is read for it. *)
LEMMA Advances ==
    ASSUME SnapshotInv, NEW c \in Runs, run[c] # None, NEW status, status # "reading",
           run[c].status # "reading" \/ run[c].call > Len(Calls),
           NEW r, r = [run[c] EXCEPT !.status = status]
    PROVE  Holds(r, since[c]) /\ Passes(r, since[c])
<1>1. run[c] \in Collections
  BY DEF SnapshotInv, LadderTypes
<1>2. r.status = status /\ r.rows = run[c].rows /\ r.call = run[c].call /\ r.page = run[c].page
  BY <1>1 DEF Collections
<1>3. Holds(run[c], since[c]) /\ Passes(run[c], since[c])
  BY DEF SnapshotInv, RunIsFair
<1>4. QED
  BY <1>2, <1>3 DEF Holds, Passes, Unread, Paged

LEMMA RunStartStep ==
    ASSUME SnapshotInv, NEW c \in Runs, Starts(c)
    PROVE  LadderTypes' /\ (\A d \in Runs : RunIsFair(d)') /\ WritesInOrder'
<1> DEFINE r == NewRun
           h == [held |-> [p \in Ranked |-> {RankOf(p)}], left |-> {}]
<1>1. LadderAssumption /\ LadderTypes
  BY DEF SnapshotInv
<1>2. r \in Collections
  <2>1. 1 \in DOMAIN PageEnds
    <3>1. Len(PageEnds) \in Nat \ {0} /\ DOMAIN PageEnds = 1..Len(PageEnds)
      BY <1>1, PageFacts
    <3>2. QED
      BY <3>1
  <2>2. << >> \in [{} -> Ranks]
    OBVIOUS
  <2>3. {} \in SUBSET Everybody
    OBVIOUS
  <2>4. << >> \in UNION {[S -> Ranks] : S \in SUBSET Everybody}
    BY <2>2, <2>3
  <2>5. QED
    BY <2>1, <2>4 DEF NewRun, Collections
<1>3. \A e \in Ranks : \A i \in DOMAIN ladder[e] : RankOf(ladder[e][i]) = e
  <2>1. SUFFICES ASSUME NEW e \in Ranks, NEW i \in DOMAIN ladder[e]
                 PROVE  RankOf(ladder[e][i]) = e
    OBVIOUS
  <2>2. ladder[e][i] \in Range(ladder[e])
    BY DEF Range
  <2>3. \A d \in Ranks : ladder[e][i] \in Range(ladder[d]) => d = e
    BY <1>1 DEF LadderTypes, OnePlace, Range
  <2>4. QED
    BY <2>2, <2>3 DEF RankOf
<1>4. \A p \in Ranked : RankOf(p) \in Ranks
  BY <1>3, PlacesAre
<1>5. Holds(r, h)
  <2>1. h.held \in [Ranked -> (SUBSET Ranks) \ {{}}]
    BY <1>4
  <2>2. DOMAIN r.rows = {}
    BY DEF NewRun
  <2>3. \A e \in Ranks : \A i \in DOMAIN ladder[e] : e \in h.held[ladder[e][i]]
    BY <1>3, PlacesAre
  <2>4. QED
    BY <2>1, <2>2, <2>3 DEF Holds
<1>6. r.status = "reading" /\ r.call = 1 /\ r.page = 1
  BY DEF NewRun
<1>7. \A e \in Ranks \ h.left : \A i \in DOMAIN ladder[e] :
         /\ \A n \in DOMAIN Calls : n < 1 => Calls[n] # e
         /\ Before(1) < i
  <2>1. SUFFICES ASSUME NEW e \in Ranks, NEW i \in DOMAIN ladder[e]
                 PROVE  /\ \A n \in DOMAIN Calls : n < 1 => Calls[n] # e
                        /\ Before(1) < i
    OBVIOUS
  <2>2. Before(1) = 0
    BY <1>1, PageFacts
  <2>3. DOMAIN Calls = 1..Len(Calls) /\ Len(Calls) \in Nat
    BY <1>1, CallFacts
  <2>4. ladder[e] \in Seq(Everybody)
    BY <1>1 DEF LadderTypes
  <2>5. i \in 1..Len(ladder[e]) /\ Len(ladder[e]) \in Nat
    BY <2>4
  <2>6. QED
    BY <2>2, <2>3, <2>5
<1> HIDE DEF r, h
<1>8. r.call > Len(Calls) =>
         \A q \in Ranked \ DOMAIN r.rows : \A e : h.held[q] = {e} => e \in h.left
  BY <1>1, <1>5, <1>6, <1>7, ReadAll
<1>9. Passes(r, h)
  BY <1>6, <1>7, <1>8 DEF Passes, Unread
<1>10. Progress(c, r) /\ since' = [since EXCEPT ![c] = h] /\ UNCHANGED <<ladder, manifest, blob>>
  BY DEF Starts, r, h
<1>11. LadderTypes' /\ \A d \in Runs : RunIsFair(d)'
  BY <1>1, <1>2, <1>5, <1>9, <1>10, OneRun DEF LadderTypes
<1>12. WritesInOrder'
  <2>1. run \in [Runs -> Collections \cup {None}] /\ run' = [run EXCEPT ![c] = r]
    BY <1>1, <1>10 DEF LadderTypes, Progress
  <2>2. run[c] = None
    BY DEF Starts
  <2>3. QED
    BY <1>6, <1>10, <2>1, <2>2 DEF SnapshotInv, WritesInOrder, BlobIsWhole, Reads, Calls
<1>13. QED
  BY <1>11, <1>12

(* The rows a run reads: everybody it meets is in the division it reads.   *)
Gathers(c, d, players, call, page) ==
    [Seen(run[c], d, players) EXCEPT !.call = call, !.page = page]

LEMMA SeenFacts ==
    ASSUME SnapshotInv, NEW c \in Runs, Reads(c, "reading"),
           NEW d \in Ranks, NEW players, players \subseteq Range(ladder[d]),
           NEW call \in Nat, NEW page \in DOMAIN PageEnds,
           NEW r, r = Gathers(c, d, players, call, page)
    PROVE  /\ r \in Collections
           /\ r.status = "reading" /\ r.call = call /\ r.page = page
           /\ DOMAIN r.rows = DOMAIN run[c].rows \cup players
           /\ Holds(r, since[c])
<1>1. run[c] \in Collections /\ Holds(run[c], since[c]) /\ run[c].status = "reading"
  BY DEF SnapshotInv, LadderTypes, RunIsFair, Reads
<1>2. players \subseteq Everybody
  <2>1. ladder[d] \in Seq(Everybody)
    BY DEF SnapshotInv, LadderTypes
  <2>2. Range(ladder[d]) \subseteq Everybody
    BY <2>1 DEF Range
  <2>3. QED
    BY <2>2
<1>3. PICK S \in SUBSET Everybody : run[c].rows \in [S -> Ranks]
  BY <1>1 DEF Collections
<1>4. DOMAIN run[c].rows = S
  BY <1>3
<1> DEFINE rows == [p \in S \cup players |-> IF p \in S THEN run[c].rows[p] ELSE d]
<1>5. rows \in [S \cup players -> Ranks] /\ S \cup players \in SUBSET Everybody
  BY <1>2, <1>3
<1>6. rows \in UNION {[T -> Ranks] : T \in SUBSET Everybody}
  BY <1>5
<1>7. r = [run[c] EXCEPT !.rows = rows, !.call = call, !.page = page]
  BY <1>1, <1>4 DEF Gathers, Seen, Collections
<1> HIDE DEF rows
<1>8. /\ r \in Collections
      /\ r.status = "reading" /\ r.call = call /\ r.page = page /\ r.rows = rows
  BY <1>1, <1>6, <1>7 DEF Collections
<1>9. DOMAIN rows = S \cup players
  BY <1>5
<1>10. ASSUME NEW q \in DOMAIN r.rows PROVE q \in Ranked /\ r.rows[q] \in since[c].held[q]
  <2>1. CASE q \in S
    BY <1>1, <1>4, <1>8, <2>1 DEF Holds, rows
  <2>2. CASE q \notin S
    <3>1. r.rows[q] = d /\ q \in Range(ladder[d])
      BY <1>8, <1>9, <1>10, <2>2 DEF rows
    <3>2. PICK j \in DOMAIN ladder[d] : q = ladder[d][j]
      BY <3>1 DEF Range
    <3>3. QED
      BY <1>1, <3>1, <3>2, PlacesAre DEF Holds
  <2>3. QED
    BY <2>1, <2>2
<1>11. Holds(r, since[c])
  BY <1>1, <1>8, <1>10 DEF Holds
<1>12. QED
  BY <1>4, <1>8, <1>9, <1>11

(* A run that reads changes none of what is written. *)
LEMMA ReadingWrites ==
    ASSUME SnapshotInv, NEW c \in Runs, Reads(c, "reading"),
           NEW r, r.status = "reading", Progress(c, r), UNCHANGED <<manifest, blob>>
    PROVE  WritesInOrder'
<1>1. run \in [Runs -> Collections \cup {None}] /\ WritesInOrder
  BY DEF SnapshotInv, LadderTypes
<1>2. run'[c] = r /\ \A d \in Runs \ {c} : run'[d] = run[d]
  BY <1>1 DEF Progress
<1>3. run[c] # None /\ run[c].status = "reading"
  BY DEF Reads
<1>4. \A d \in Runs, s \in {"invalidated", "written", "done"} :
         Reads(d, s)' <=> d # c /\ Reads(d, s)
  BY <1>2, <1>3 DEF Reads
<1>5. BlobIsWhole => BlobIsWhole'
  BY <1>2, <1>3 DEF BlobIsWhole, Calls
<1>6. \A d \in Runs \ {c} : run'[d].call = run[d].call
  BY <1>2
<1>7. Len(Calls)' = Len(Calls)
  BY DEF Calls
<1>8. BlobIsWhole' \/ \A d \in Runs : ~Reads(d, "written")' /\ ~Reads(d, "done")'
  BY <1>1, <1>4, <1>5 DEF WritesInOrder
<1>9. \A d \in Runs : Reads(d, "invalidated")' \/ Reads(d, "written")' \/ Reads(d, "done")' =>
         run'[d].call > Len(Calls)
  BY <1>1, <1>4, <1>6 DEF WritesInOrder
<1>10. (manifest.complete => manifest.captured \in Runs /\ Reads(manifest.captured, "done"))'
  <2>1. manifest' = manifest
    OBVIOUS
  <2>2. manifest.complete =>
           manifest.captured \in Runs /\ run'[manifest.captured] # None /\ run'[manifest.captured].status = "done"
    BY <1>1, <1>2, <1>3 DEF WritesInOrder, Reads
  <2>3. QED
    BY <2>1, <2>2 DEF Reads
<1>11. (\A d \in Runs : Reads(d, "written") \/ Reads(d, "done") => BlobIsWhole)'
  BY <1>8
<1>12. (\A d \in Runs : Reads(d, "invalidated") \/ Reads(d, "written") \/ Reads(d, "done") =>
          run[d].call > Len(Calls))'
  BY <1>7, <1>9
<1>13. QED
  BY <1>10, <1>11, <1>12 DEF WritesInOrder

LEMMA ApexStep ==
    ASSUME SnapshotInv, NEW c \in Runs, ReadApex(c)
    PROVE  LadderTypes' /\ (\A d \in Runs : RunIsFair(d)') /\ WritesInOrder'
<1> DEFINE d == APEX[run[c].call]
           players == Range(ladder[d])
           h == since[c]
           call == run[c].call + 1
           page == run[c].page
           r == Gathers(c, d, players, call, page)
<1>1. LadderAssumption /\ LadderTypes /\ Reads(c, "reading") /\ run[c].call \in DOMAIN APEX
  BY DEF SnapshotInv, ReadApex
<1>2. run[c] \in Collections /\ Holds(run[c], h) /\ Passes(run[c], h) /\ run[c].status = "reading"
  BY <1>1 DEF SnapshotInv, LadderTypes, RunIsFair, Reads
<1>3. run[c].call \in 1..Len(APEX) /\ run[c].call \in DOMAIN Calls /\ d = Calls[run[c].call]
  BY <1>1, CallFacts
<1>4. d \in Ranks
  BY <1>1, <1>3, CallFacts
<1>5. run[c].page \in DOMAIN PageEnds /\ run[c].page = 1 /\ call \in Nat /\ page \in DOMAIN PageEnds
  BY <1>1, <1>2, <1>3, CallFacts DEF Collections, Passes
<1>6. Progress(c, r) /\ UNCHANGED <<ladder, manifest, blob, since>>
  BY <1>2 DEF Gathers, ReadApex, Seen, Collections
<1>7. /\ r \in Collections
      /\ r.status = "reading" /\ r.call = call /\ r.page = page
      /\ DOMAIN r.rows = DOMAIN run[c].rows \cup players
      /\ Holds(r, h)
  <2>1. players \subseteq Range(ladder[d])
    OBVIOUS
  <2> HIDE DEF players, d, call, page
  <2>2. QED
    BY <1>1, <1>4, <1>5, <2>1, SeenFacts
<1>8. ASSUME NEW e \in Ranks \ h.left, NEW i \in DOMAIN ladder[e], Unread(r, h, e, i)
      PROVE  /\ \A n \in DOMAIN Calls : n < r.call => Calls[n] # e
             /\ Paged(r) /\ Calls[r.call] = e => Before(r.page) < i
  <2>1. Unread(run[c], h, e, i) /\ ladder[e][i] \notin players
    BY <1>7, <1>8 DEF Unread
  <2>2. e # d
    BY <2>1 DEF Range
  <2>3. \A n \in DOMAIN Calls : n < run[c].call => Calls[n] # e
    BY <1>2, <2>1 DEF Passes
  <2>4. \A n \in DOMAIN Calls : n < r.call => n < run[c].call \/ n = run[c].call
    BY <1>1, <1>3, <1>7, CallFacts
  <2>5. Before(r.page) < i
    <3>1. Before(1) = 0
      BY <1>1, PageFacts
    <3>2. ladder[e] \in Seq(Everybody)
      BY <1>1 DEF LadderTypes
    <3>3. QED
      BY <1>5, <1>7, <3>1, <3>2
  <2>6. QED
    BY <1>3, <2>2, <2>3, <2>4, <2>5
<1> HIDE DEF r, h
<1>9. r.call > Len(Calls) =>
         \A q \in Ranked \ DOMAIN r.rows : \A e : h.held[q] = {e} => e \in h.left
  BY <1>1, <1>5, <1>7, <1>8, ReadAll
<1>10. Passes(r, h)
  <2>1. r.call <= Len(APEX) => r.page = 1
    BY <1>5, <1>7
  <2>2. QED
    BY <1>8, <1>9, <2>1 DEF Passes
<1>11. LadderTypes' /\ \A x \in Runs : RunIsFair(x)'
  <2>1. since'[c] = h /\ DOMAIN since' = Runs /\ \A x \in Runs \ {c} : since'[x] = since[x]
    BY <1>1, <1>6 DEF LadderTypes, h
  <2>2. QED
    BY <1>6, <1>7, <1>10, <2>1, OneRun
<1>12. WritesInOrder'
  BY <1>1, <1>6, <1>7, ReadingWrites
<1>13. QED
  BY <1>11, <1>12

(* After the last page asked for, or an empty one, nobody is further down. *)
LEMMA LastPage ==
    ASSUME LadderAssumption, LadderTypes, NEW e \in Ranks, NEW k \in DOMAIN PageEnds,
           Ends(e, k) \/ k = Len(PageEnds),
           NEW i \in DOMAIN ladder[e], Before(k) < i
    PROVE  i <= PageEnds[k]
<1>1. ladder[e] \in Seq(Everybody)
  BY DEF LadderTypes
<1>2. i \in 1..Len(ladder[e]) /\ Len(ladder[e]) \in Nat /\ DOMAIN ladder[e] = 1..Len(ladder[e])
  BY <1>1
<1>3. PageEnds[k] \in Nat /\ Before(k) \in Nat /\ Before(k) < PageEnds[k]
  BY PageFacts
<1>4. CASE Ends(e, k)
  <2> DEFINE j == Before(k) + 1
  <2>1. j \in DOMAIN ladder[e] /\ Before(k) < j /\ j <= PageEnds[k]
    BY <1>2, <1>3
  <2>2. ladder[e][j] \in PageOf(e, k)
    BY <2>1 DEF PageOf
  <2>3. QED
    BY <1>4, <2>2 DEF Ends
<1>5. CASE k = Len(PageEnds)
  <2>1. IsFiniteSet(Everybody) /\ Cardinality(Everybody) <= PageEnds[Len(PageEnds)]
    BY DEF LadderAssumption
  <2>2. ladder[e] \in Injection(1..Len(ladder[e]), Everybody)
    <3>1. \A j, l \in DOMAIN ladder[e] : ladder[e][j] = ladder[e][l] => j = l
      BY DEF LadderTypes, OnePlace
    <3>2. ladder[e] \in [1..Len(ladder[e]) -> Everybody]
      BY <1>1
    <3>3. QED
      BY <1>2, <3>1, <3>2 DEF Injection, IsInjective
  <2>3. Cardinality(1..Len(ladder[e])) <= Cardinality(Everybody)
    BY <2>1, <2>2, FS_Injection
  <2>4. Cardinality(1..Len(ladder[e])) = Len(ladder[e])
    BY <1>2, FS_Interval
  <2>5. Cardinality(Everybody) \in Nat
    BY <2>1, FS_CardinalityType
  <2>6. QED
    BY <1>2, <1>3, <1>5, <2>1, <2>3, <2>4, <2>5
<1>6. QED
  BY <1>4, <1>5

LEMMA PageStep ==
    ASSUME SnapshotInv, NEW c \in Runs, ReadPage(c)
    PROVE  LadderTypes' /\ (\A d \in Runs : RunIsFair(d)') /\ WritesInOrder'
<1> DEFINE d == Calls[run[c].call]
           k == run[c].page
           players == PageOf(d, k)
           ends == Ends(d, k) \/ k = Len(PageEnds)
           h == since[c]
           call == IF ends THEN run[c].call + 1 ELSE run[c].call
           page == IF ends THEN 1 ELSE k + 1
           r == Gathers(c, d, players, call, page)
<1>1. /\ LadderAssumption /\ LadderTypes /\ Reads(c, "reading")
      /\ run[c].call \in Len(APEX) + 1..Len(Calls)
  BY DEF SnapshotInv, ReadPage
<1>2. run[c] \in Collections /\ Holds(run[c], h) /\ Passes(run[c], h) /\ run[c].status = "reading"
  BY <1>1 DEF SnapshotInv, LadderTypes, RunIsFair, Reads
<1>3. run[c].call \in DOMAIN Calls /\ run[c].call \in Nat /\ run[c].call > Len(APEX)
  BY <1>1, CallFacts
<1>4. d \in Ranks
  BY <1>1, <1>3, CallFacts
<1>5. k \in DOMAIN PageEnds /\ page \in DOMAIN PageEnds /\ call \in Nat /\ call >= run[c].call
  <2>1. k \in DOMAIN PageEnds
    BY <1>2 DEF Collections
  <2>2. Len(PageEnds) \in Nat \ {0} /\ DOMAIN PageEnds = 1..Len(PageEnds)
    BY <1>1, PageFacts
  <2> HIDE DEF k, d
  <2>3. QED
    BY <1>3, <2>1, <2>2
<1>6. Progress(c, r) /\ UNCHANGED <<ladder, manifest, blob, since>>
  BY <1>2 DEF Gathers, ReadPage, Seen, Collections
<1>7. /\ r \in Collections
      /\ r.status = "reading" /\ r.call = call /\ r.page = page
      /\ DOMAIN r.rows = DOMAIN run[c].rows \cup players
      /\ Holds(r, h)
  <2>1. players \subseteq Range(ladder[d])
    BY DEF PageOf, Range
  <2> HIDE DEF players, d, call, page
  <2>2. QED
    BY <1>1, <1>4, <1>5, <2>1, SeenFacts
<1>8. ASSUME NEW e \in Ranks \ h.left, NEW i \in DOMAIN ladder[e], Unread(r, h, e, i)
      PROVE  /\ \A n \in DOMAIN Calls : n < r.call => Calls[n] # e
             /\ Paged(r) /\ Calls[r.call] = e => Before(r.page) < i
  <2>1. Unread(run[c], h, e, i) /\ ladder[e][i] \notin players
    BY <1>7, <1>8 DEF Unread
  <2>2. \A n \in DOMAIN Calls : n < run[c].call => Calls[n] # e
    BY <1>2, <2>1 DEF Passes
  <2>3. e = d => Before(k) < i /\ ~(i <= PageEnds[k])
    <3>1. e = d => Before(k) < i
      BY <1>1, <1>2, <2>1 DEF Passes, Paged
    <3>2. QED
      BY <2>1, <3>1 DEF PageOf
  <2>4. i \in Nat /\ i >= 1
    <3>1. ladder[e] \in Seq(Everybody)
      BY <1>1 DEF LadderTypes
    <3>2. QED
      BY <3>1
  <2>5. CASE ends
    <3>1. e # d
      BY <1>1, <1>4, <1>5, <2>3, <2>5, LastPage
    <3>2. r.call = run[c].call + 1 /\ r.page = 1
      BY <1>7, <2>5
    <3>3. \A n \in DOMAIN Calls : n < r.call => n < run[c].call \/ n = run[c].call
      BY <1>1, <1>3, <3>2, CallFacts
    <3>4. Before(1) = 0
      BY <1>1, PageFacts
    <3>5. QED
      BY <2>2, <2>4, <3>1, <3>2, <3>3, <3>4
  <2>6. CASE ~ends
    <3>1. r.call = run[c].call /\ r.page = k + 1 /\ k # Len(PageEnds)
      BY <1>7, <2>6
    <3>2. Before(r.page) = PageEnds[k] /\ PageEnds[k] \in Nat
      BY <1>1, <1>5, <3>1, PageFacts
    <3>3. e = d => Before(r.page) < i
      BY <2>3, <2>4, <3>2
    <3>4. QED
      BY <2>2, <3>1, <3>3
  <2>7. QED
    BY <2>5, <2>6
<1> HIDE DEF r, h, call, page
<1>9. r.call > Len(Calls) =>
         \A q \in Ranked \ DOMAIN r.rows : \A e : h.held[q] = {e} => e \in h.left
  BY <1>1, <1>5, <1>7, <1>8, ReadAll
<1>10. Passes(r, h)
  <2>1. ~(r.call <= Len(APEX))
    BY <1>1, <1>3, <1>5, <1>7, CallFacts
  <2>2. QED
    BY <1>8, <1>9, <2>1 DEF Passes
<1>11. LadderTypes' /\ \A x \in Runs : RunIsFair(x)'
  <2>1. since'[c] = h /\ DOMAIN since' = Runs /\ \A x \in Runs \ {c} : since'[x] = since[x]
    BY <1>1, <1>6 DEF LadderTypes, h
  <2>2. QED
    BY <1>6, <1>7, <1>10, <2>1, OneRun
<1>12. WritesInOrder'
  BY <1>1, <1>6, <1>7, ReadingWrites
<1>13. QED
  BY <1>11, <1>12

(* The four steps that read nothing. *)
LEMMA AdvanceStep ==
    ASSUME SnapshotInv, NEW c \in Runs, run[c] # None,
           NEW status \in {"invalidated", "written", "done", "killed"},
           run[c].status # "reading" \/ run[c].call > Len(Calls) \/ status = "killed",
           Progress(c, [run[c] EXCEPT !.status = status]), UNCHANGED <<ladder, since>>
    PROVE  /\ LadderTypes' /\ (\A d \in Runs : RunIsFair(d)')
           /\ run'[c] # None /\ run'[c].status = status
           /\ run'[c].rows = run[c].rows /\ run'[c].call = run[c].call
           /\ \A d \in Runs \ {c} : run'[d] = run[d]
<1> DEFINE r == [run[c] EXCEPT !.status = status]
<1>1. run[c] \in Collections /\ run \in [Runs -> Collections \cup {None}] /\ DOMAIN since = Runs
  BY DEF SnapshotInv, LadderTypes
<1>2. r \in Collections /\ r.status = status /\ r.rows = run[c].rows /\ r.call = run[c].call /\ r.page = run[c].page
  BY <1>1 DEF Collections
<1>3. Holds(run[c], since[c]) /\ Passes(run[c], since[c])
  BY DEF SnapshotInv, RunIsFair
<1> HIDE DEF r
<1>4. Holds(r, since[c])
  BY <1>2, <1>3 DEF Holds
<1>5. Passes(r, since[c])
  BY <1>2, <1>3 DEF Passes
<1>6. Progress(c, r)
  BY DEF r
<1>7. LadderTypes' /\ \A d \in Runs : RunIsFair(d)'
  BY <1>1, <1>2, <1>4, <1>5, <1>6, OneRun
<1>8. r # None
  BY <1>2 DEF SnapshotInv, LadderAssumption
<1>9. run'[c] = r /\ \A d \in Runs \ {c} : run'[d] = run[d]
  BY <1>1, <1>6 DEF Progress
<1>10. QED
  BY <1>2, <1>7, <1>8, <1>9

LEMMA CallsStay == Calls' = Calls
  BY DEF Calls

LEMMA InvalidateStep ==
    ASSUME SnapshotInv, NEW c \in Runs, Invalidate(c)
    PROVE  LadderTypes' /\ (\A d \in Runs : RunIsFair(d)') /\ WritesInOrder'
<1>1. /\ run[c] # None /\ run[c].status = "reading" /\ run[c].call > Len(Calls)
      /\ Progress(c, [run[c] EXCEPT !.status = "invalidated"])
      /\ ~manifest'.complete /\ UNCHANGED <<ladder, since, blob>>
  BY DEF Invalidate, Reads
<1>2. /\ LadderTypes' /\ (\A d \in Runs : RunIsFair(d)')
      /\ run'[c] # None /\ run'[c].status = "invalidated" /\ run'[c].call = run[c].call
      /\ \A d \in Runs \ {c} : run'[d] = run[d]
  BY <1>1, AdvanceStep
<1>3. BlobIsWhole => BlobIsWhole'
  BY <1>1, <1>2, CallsStay DEF BlobIsWhole
<1>4. WritesInOrder'
  BY <1>1, <1>2, <1>3, CallsStay DEF SnapshotInv, WritesInOrder, Reads
<1>5. QED
  BY <1>2, <1>4

LEMMA WriteBlobStep ==
    ASSUME SnapshotInv, NEW c \in Runs, WriteBlob(c)
    PROVE  LadderTypes' /\ (\A d \in Runs : RunIsFair(d)') /\ WritesInOrder'
<1>1. /\ run[c] # None /\ run[c].status = "invalidated"
      /\ Progress(c, [run[c] EXCEPT !.status = "written"])
      /\ blob' = [by |-> c, rows |-> run[c].rows] /\ UNCHANGED <<ladder, since, manifest>>
  BY DEF WriteBlob, Reads
<1>2. /\ LadderTypes' /\ (\A d \in Runs : RunIsFair(d)')
      /\ run'[c] # None /\ run'[c].status = "written"
      /\ run'[c].rows = run[c].rows /\ run'[c].call = run[c].call
      /\ \A d \in Runs \ {c} : run'[d] = run[d]
  BY <1>1, AdvanceStep
<1>3. run[c].call > Len(Calls)
  BY <1>1 DEF SnapshotInv, WritesInOrder, Reads
<1>4. BlobIsWhole'
  BY <1>1, <1>2, <1>3, CallsStay DEF BlobIsWhole
<1>5. (manifest.complete => manifest.captured \in Runs /\ Reads(manifest.captured, "done"))'
  BY <1>1, <1>2 DEF SnapshotInv, WritesInOrder, Reads
<1>6. WritesInOrder'
  BY <1>1, <1>2, <1>3, <1>4, <1>5, CallsStay DEF SnapshotInv, WritesInOrder, Reads
<1>7. QED
  BY <1>2, <1>6

LEMMA MarkStep ==
    ASSUME SnapshotInv, NEW c \in Runs, MarkComplete(c)
    PROVE  LadderTypes' /\ (\A d \in Runs : RunIsFair(d)') /\ WritesInOrder'
<1>1. /\ run[c] # None /\ run[c].status = "written"
      /\ Progress(c, [run[c] EXCEPT !.status = "done"])
      /\ manifest'.captured = c /\ UNCHANGED <<ladder, since, blob>>
  BY DEF MarkComplete, Reads
<1>2. /\ LadderTypes' /\ (\A d \in Runs : RunIsFair(d)')
      /\ run'[c] # None /\ run'[c].status = "done"
      /\ run'[c].rows = run[c].rows /\ run'[c].call = run[c].call
      /\ \A d \in Runs \ {c} : run'[d] = run[d]
  BY <1>1, AdvanceStep
<1>3. run[c].call > Len(Calls) /\ BlobIsWhole
  BY <1>1 DEF SnapshotInv, WritesInOrder, Reads
<1>4. BlobIsWhole'
  BY <1>1, <1>2, <1>3, CallsStay DEF BlobIsWhole
<1>5. (manifest.complete => manifest.captured \in Runs /\ Reads(manifest.captured, "done"))'
  BY <1>1, <1>2 DEF Reads
<1>6. WritesInOrder'
  BY <1>1, <1>2, <1>3, <1>4, <1>5, CallsStay DEF SnapshotInv, WritesInOrder, Reads
<1>7. QED
  BY <1>2, <1>6

LEMMA KillStep ==
    ASSUME SnapshotInv, NEW c \in Runs, Killed(c)
    PROVE  LadderTypes' /\ (\A d \in Runs : RunIsFair(d)') /\ WritesInOrder'
<1>1. /\ run[c] # None /\ run[c].status # "done" /\ run[c].status # "killed"
      /\ Progress(c, [run[c] EXCEPT !.status = "killed"])
      /\ UNCHANGED <<ladder, since, manifest, blob>>
  BY DEF Killed
<1>2. /\ LadderTypes' /\ (\A d \in Runs : RunIsFair(d)')
      /\ run'[c] # None /\ run'[c].status = "killed"
      /\ run'[c].rows = run[c].rows /\ run'[c].call = run[c].call
      /\ \A d \in Runs \ {c} : run'[d] = run[d]
  BY <1>1, AdvanceStep
<1>3. BlobIsWhole => BlobIsWhole'
  BY <1>1, <1>2, CallsStay DEF BlobIsWhole
<1>4. (manifest.complete => manifest.captured \in Runs /\ Reads(manifest.captured, "done"))'
  BY <1>1, <1>2 DEF SnapshotInv, WritesInOrder, Reads
<1>5. WritesInOrder'
  BY <1>1, <1>2, <1>3, <1>4, CallsStay DEF SnapshotInv, WritesInOrder, Reads
<1>6. QED
  BY <1>2, <1>5

(* Whoever moves is added to what every open run knows. *)
LEMMA MoveStep ==
    ASSUME SnapshotInv, Moves
    PROVE  LadderTypes' /\ (\A c \in Runs : RunIsFair(c)') /\ WritesInOrder'
<1>1. PICK from \in Ranks, d \in Ranks, top \in BOOLEAN : \E i \in DOMAIN ladder[from] :
         MovesTo(from, i, d, top) /\ since' = Noticed(from, i, d)
  BY DEF Moves, MovesTo
<1>2. PICK i \in DOMAIN ladder[from] :
         MovesTo(from, i, d, top) /\ since' = Noticed(from, i, d)
  BY <1>1
<1> DEFINE p == ladder[from][i]
<1>3. UNCHANGED <<run, manifest, blob>>
  BY DEF Moves
<1>4. LadderAssumption /\ LadderTypes /\ p \in Ranked
  BY PlacesAre DEF SnapshotInv
<1>5. /\ Ranked' = Ranked /\ OnePlace'
      /\ Ranks' = Ranks /\ Calls' = Calls
      /\ Everybody' = Everybody /\ Collections' = Collections
  BY <1>2, <1>4, MoveKeeps DEF Ranks, Calls, Everybody, Collections
<1>6. \A k : Before(k)' = Before(k)
  BY DEF Before
<1>7. ladder' \in [Ranks -> Seq(Everybody)]
  BY <1>2, <1>4, MovePlaces
<1>8. LadderTypes'
  BY <1>2, <1>3, <1>4, <1>5, <1>7 DEF LadderTypes, Noticed
<1> HIDE DEF p
<1>9. ASSUME NEW c \in Runs, run[c] # None PROVE RunIsFair(c)'
  <2> DEFINE r == run[c]
             h == since[c]
             g == since'[c]
  <2>1. Holds(r, h) /\ Passes(r, h)
    BY <1>9 DEF SnapshotInv, RunIsFair
  <2>2. CASE r.status # "reading"
    <3>1. c \notin Open
      BY <2>2 DEF Open
    <3>2. g = h
      BY <1>2, <3>1 DEF Noticed
    <3>3. QED
      BY <1>3, <1>5, <2>1, <2>2, <3>2 DEF RunIsFair, Holds, Passes
  <2>3. CASE r.status = "reading"
    <3>1. c \in Open
      BY <1>9, <2>3 DEF Open
    <3>2. g.held = [h.held EXCEPT ![p] = @ \cup {d}] /\ g.left = h.left \cup {from}
      BY <1>2, <3>1 DEF p, Noticed
    <3> HIDE DEF g, h, r
    <3>3. h.held \in [Ranked -> (SUBSET Ranks) \ {{}}] /\ h.left \subseteq Ranks
      BY <2>1 DEF Holds
    <3>4. g.held \in [Ranked -> (SUBSET Ranks) \ {{}}] /\ g.left \subseteq Ranks
      BY <3>2, <3>3
    <3>5. /\ g.held[p] = h.held[p] \cup {d}
          /\ \A q \in Ranked \ {p} : g.held[q] = h.held[q]
      BY <1>4, <3>2, <3>3
    <3>6. from \in h.held[p]
      BY <2>1, <2>3 DEF Holds, p
    <3>7. \A q \in DOMAIN r.rows : q \in Ranked /\ r.rows[q] \in g.held[q]
      BY <2>1, <3>5 DEF Holds
    <3>8. ASSUME NEW e \in Ranks, NEW k \in DOMAIN ladder'[e]
          PROVE  \/ NewPlace(d, top, e, k) /\ e = d /\ ladder'[e][k] = p
                 \/ \E j \in DOMAIN ladder[e] :
                       /\ ladder'[e][k] = ladder[e][j] /\ ladder[e][j] # p
                       /\ e # from => j <= k
      <4>1. CASE NewPlace(d, top, e, k)
        BY <1>2, <1>4, <4>1, MovePlaces DEF NewPlace, p
      <4>2. CASE ~NewPlace(d, top, e, k)
        <5> DEFINE j == OldPlace(from, i, d, top, e, k)
        <5>1. j \in DOMAIN ladder[e] /\ ladder'[e][k] = ladder[e][j] /\ (e = from => j # i)
          BY <1>2, <1>4, <4>2, MovePlaces
        <5>2. ladder[e][j] # p
          BY <1>4, <5>1 DEF LadderTypes, OnePlace, p
        <5>3. k \in Nat
          BY <1>7
        <5>4. e # from => j <= k
          BY <5>3 DEF OldPlace
        <5>5. QED
          BY <5>1, <5>2, <5>4
      <4>3. QED
        BY <4>1, <4>2
    <3>9. ASSUME NEW e \in Ranks, NEW k \in DOMAIN ladder'[e] PROVE e \in g.held[ladder'[e][k]]
      <4>1. CASE e = d /\ ladder'[e][k] = p
        BY <3>5, <4>1
      <4>2. CASE ~(e = d /\ ladder'[e][k] = p)
        <5>1. PICK j \in DOMAIN ladder[e] : ladder'[e][k] = ladder[e][j] /\ ladder[e][j] # p
          BY <3>8, <4>2
        <5>2. e \in h.held[ladder[e][j]] /\ ladder[e][j] \in Ranked
          BY <2>1, <2>3, PlacesAre DEF Holds
        <5>3. QED
          BY <3>5, <5>1, <5>2
      <4>3. QED
        BY <4>1, <4>2
    <3>10. ASSUME NEW e \in Ranks \ g.left, NEW k \in DOMAIN ladder'[e],
                  ladder'[e][k] \notin DOMAIN r.rows, g.held[ladder'[e][k]] = {e}
           PROVE  /\ \A n \in DOMAIN Calls : n < r.call => Calls[n] # e
                  /\ Paged(r) /\ Calls[r.call] = e => Before(r.page) < k
      <4>1. e # from /\ e \notin h.left
        BY <3>2, <3>10
      <4>2. ~(e = d /\ ladder'[e][k] = p)
        BY <3>5, <3>6, <3>10, <4>1
      <4>3. PICK j \in DOMAIN ladder[e] : ladder'[e][k] = ladder[e][j] /\ ladder[e][j] # p /\ j <= k
        BY <3>8, <4>1, <4>2
      <4>4. ladder[e][j] \in Ranked
        BY PlacesAre
      <4>5. Unread(r, h, e, j)
        BY <3>5, <3>10, <4>3, <4>4 DEF Unread
      <4>6. /\ \A n \in DOMAIN Calls : n < r.call => Calls[n] # e
            /\ Paged(r) /\ Calls[r.call] = e => Before(r.page) < j
        BY <2>1, <2>3, <4>1, <4>5 DEF Passes
      <4>7. j \in Nat /\ k \in Nat
        BY <1>4, <1>7 DEF LadderTypes
      <4>8. r.page \in DOMAIN PageEnds
        BY <1>4, <1>9 DEF r, LadderTypes, Collections
      <4>9. Before(r.page) \in Nat
        BY <1>4, <4>8, PageFacts
      <4>10. QED
        BY <4>3, <4>6, <4>7, <4>9
    <3>11. r.call > Len(Calls) =>
              \A q \in Ranked \ DOMAIN r.rows : \A e : g.held[q] = {e} => e \in g.left
      <4> SUFFICES ASSUME r.call > Len(Calls), NEW q \in Ranked \ DOMAIN r.rows,
                          NEW e, g.held[q] = {e}
                   PROVE  e \in g.left
        OBVIOUS
      <4>1. CASE q = p
        BY <3>2, <3>5, <3>6, <4>1
      <4>2. CASE q # p
        BY <2>1, <3>2, <3>5, <4>2 DEF Passes
      <4>3. QED
        BY <4>1, <4>2
    <3>12. (Holds(run[c], since[c]))'
      <4>1. run'[c] = r /\ since'[c] = g
        BY <1>3 DEF r, g
      <4>2. QED
        BY <1>5, <2>3, <3>4, <3>7, <3>9, <4>1 DEF Holds
    <3>13. (Passes(run[c], since[c]))'
      <4>1. run'[c] = r /\ since'[c] = g
        BY <1>3 DEF r, g
      <4>2. r.call <= Len(APEX) => r.page = 1
        BY <2>1 DEF Passes
      <4>3. QED
        BY <1>5, <1>6, <2>3, <3>10, <3>11, <4>1, <4>2 DEF Passes, Unread, Paged
    <3>14. QED
      BY <3>12, <3>13 DEF RunIsFair
  <2>4. QED
    BY <2>2, <2>3
<1>10. \A c \in Runs : RunIsFair(c)'
  <2>1. ASSUME NEW c \in Runs, run[c] = None PROVE RunIsFair(c)'
    BY <1>3, <2>1 DEF RunIsFair
  <2>2. QED
    BY <1>9, <2>1
<1>11. WritesInOrder'
  BY <1>3, <1>5 DEF SnapshotInv, WritesInOrder, BlobIsWhole, Reads
<1>12. QED
  BY <1>8, <1>10, <1>11

LEMMA SnapshotStep == SnapshotInv /\ [LadderNext]_ladderVars => SnapshotInv'
<1> SUFFICES ASSUME SnapshotInv, [LadderNext]_ladderVars PROVE SnapshotInv'
  OBVIOUS
<1>1. SUFFICES LadderTypes' /\ (\A c \in Runs : RunIsFair(c)') /\ WritesInOrder'
  BY LadderConstants DEF SnapshotInv
<1>2. CASE \E c \in Runs : Starts(c)
  BY <1>2, RunStartStep
<1>3. CASE \E c \in Runs : ReadApex(c)
  BY <1>3, ApexStep
<1>4. CASE \E c \in Runs : ReadPage(c)
  BY <1>4, PageStep
<1>5. CASE \E c \in Runs : Invalidate(c)
  BY <1>5, InvalidateStep
<1>6. CASE \E c \in Runs : WriteBlob(c)
  BY <1>6, WriteBlobStep
<1>7. CASE \E c \in Runs : MarkComplete(c)
  BY <1>7, MarkStep
<1>8. CASE \E c \in Runs : Killed(c)
  BY <1>8, KillStep
<1>9. CASE Moves
  BY <1>9, MoveStep
<1>10. CASE UNCHANGED ladderVars
  <2>1. UNCHANGED <<ladder, run, manifest, blob, since>>
    BY <1>10 DEF ladderVars
  <2>2. \A c \in Runs : RunIsFair(c)'
    BY <2>1, OtherRuns DEF SnapshotInv
  <2>3. LadderTypes'
    <3>1. Everybody' = Everybody /\ Collections' = Collections
      BY DEF Everybody, Collections, Ranks, Calls
    <3>2. QED
      BY <2>1, <3>1, CallsStay DEF SnapshotInv, LadderTypes, OnePlace, Ranks, Calls
  <2>4. WritesInOrder'
    BY <2>1, CallsStay DEF SnapshotInv, WritesInOrder, BlobIsWhole, Reads
  <2>5. QED
    BY <2>2, <2>3, <2>4
<1>11. QED
  BY <1>2, <1>3, <1>4, <1>5, <1>6, <1>7, <1>8, <1>9, <1>10 DEF LadderNext

(* What the invariant says of a snapshot that loads. *)
LEMMA LoadIsFair == SnapshotInv => SnapshotIsFair
<1> SUFFICES ASSUME SnapshotInv, LoadSnapshot # None PROVE SnapshotIsFair
  BY DEF SnapshotIsFair
<1> DEFINE c == blob.by
           d == manifest.captured
           held == since[c].held
<1>1. manifest.complete /\ LoadSnapshot = blob.rows
  BY DEF LoadSnapshot
<1>2. d \in Runs /\ Reads(d, "done") /\ BlobIsWhole
  BY <1>1 DEF SnapshotInv, WritesInOrder
<1>3. /\ c \in Runs /\ run[c] # None /\ blob.rows = run[c].rows /\ run[c].call > Len(Calls)
      /\ run[c].status \in {"written", "done", "killed"}
  BY <1>2 DEF BlobIsWhole
<1>4. Holds(run[c], since[c]) /\ Passes(run[c], since[c])
  BY <1>3 DEF SnapshotInv, RunIsFair
<1>5. d = c \/ Cardinality(Writers) > 1
  <2> SUFFICES ASSUME d # c PROVE Cardinality(Writers) > 1
    OBVIOUS
  <2>1. c \in Writers /\ d \in Writers
    BY <1>2, <1>3 DEF Writers, Reads
  <2>2. IsFiniteSet(Runs)
    BY DEF SnapshotInv, LadderAssumption
  <2>3. Writers \subseteq Runs
    BY DEF Writers
  <2>4. IsFiniteSet(Writers)
    BY <2>2, <2>3, FS_Subset
  <2> HIDE DEF c, d
  <2>5. {c, d} \subseteq Writers
    BY <2>1
  <2>6. Cardinality({c, d}) <= Cardinality(Writers)
    BY <2>4, <2>5, FS_Subset
  <2>7. Cardinality({c, d}) = 2
    <3>1. IsFiniteSet({c}) /\ Cardinality({c}) = 1
      BY FS_Singleton
    <3>2. {c, d} = {c} \cup {d} /\ d \notin {c}
      OBVIOUS
    <3>3. QED
      BY <3>1, <3>2, FS_AddElement
  <2>8. Cardinality(Writers) \in Nat
    BY <2>4, FS_CardinalityType
  <2>9. QED
    BY <2>6, <2>7, <2>8
<1>6. run[c].status = "done" \/ \E x \in Runs \ {c} : Reads(x, "done")
  BY <1>2, <1>3 DEF Reads
<1>7. \A p \in DOMAIN run[c].rows : run[c].rows[p] \in held[p]
  BY <1>4 DEF Holds
<1>8. ASSUME NEW p \in DOMAIN held \ DOMAIN run[c].rows
      PROVE  Cardinality(held[p]) > 1 \/ held[p] \cap since[c].left # {}
  <2>1. p \in Ranked /\ held[p] \in (SUBSET Ranks) \ {{}}
    BY <1>4 DEF Holds
  <2>2. PICK e : e \in held[p]
    BY <2>1
  <2>3. CASE held[p] = {e}
    BY <1>3, <1>4, <2>1, <2>3 DEF Passes
  <2>4. CASE held[p] # {e}
    <3>1. PICK f \in held[p] : f # e
      BY <2>2, <2>4
    <3>2. IsFiniteSet(held[p])
      BY <2>1, CallFacts, FS_Subset DEF SnapshotInv
    <3> HIDE DEF held
    <3>3. Cardinality({e, f}) <= Cardinality(held[p])
      BY <2>2, <3>1, <3>2, FS_Subset
    <3>4. Cardinality({e, f}) = 2
      <4>1. IsFiniteSet({e}) /\ Cardinality({e}) = 1
        BY FS_Singleton
      <4>2. {e, f} = {e} \cup {f} /\ f \notin {e}
        BY <3>1
      <4> HIDE DEF c
      <4>3. Cardinality({e} \cup {f}) = Cardinality({e}) + 1
        BY <4>1, <4>2, FS_AddElement
      <4>4. QED
        BY <4>1, <4>2, <4>3
    <3>5. Cardinality(held[p]) \in Nat
      BY <3>2, FS_CardinalityType
    <3>6. QED
      BY <3>3, <3>4, <3>5
  <2>5. QED
    BY <2>3, <2>4
<1>9. QED
  BY <1>1, <1>3, <1>5, <1>6, <1>7, <1>8 DEF SnapshotIsFair

(* A snapshot that loads is one run's whole collection; each player has a  *)
(* rank he held meanwhile, and is missing only if he or his division moved.*)
THEOREM SnapshotIsFairCorrect ==
    LadderAssumption /\ LadderSpec => []SnapshotIsFair
<1>1. LadderAssumption /\ LadderInit => SnapshotInv
  BY SnapshotInit
<1>2. SnapshotInv /\ [LadderNext]_ladderVars => SnapshotInv'
  BY SnapshotStep
<1>3. SnapshotInv => SnapshotIsFair
  BY LoadIsFair
<1>4. QED
  BY <1>1, <1>2, <1>3, PTL DEF LadderSpec
=============================================================================
