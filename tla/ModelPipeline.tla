----------------------------- MODULE ModelPipeline -----------------------------
(***************************************************************************)
(* From the raw games to the models that are served: the graph of the      *)
(* Makefile, the scripts it runs (datasets, split, trainings, calibration, *)
(* opening of a role) and what the service accepts of the files.  One role *)
(* of the five, and the chains of the ADC and of the LP.                   *)
(*                                                                         *)
(* The sources (raw games, code, captures of the ladder and of the LP,     *)
(* certifications) change at any time, during a script too.  A script may  *)
(* be killed between any two files it writes.  A file is the set of the    *)
(* versions of the sources it was computed from; make only knows which of  *)
(* its prerequisites are newer.                                            *)
(***************************************************************************)
EXTENDS Naturals, FiniteSets, Sequences

CONSTANTS
    Goals,         \* what the owner makes: "roles", "pipeline"
    MaxChanges     \* bound of what happens outside make: edits, kills, certifications ...

ASSUME PipelineAssumption ==
    /\ Goals \subseteq {"roles", "pipeline"}
    /\ MaxChanges \in Nat

VARIABLES
    now,        \* the version of each source
    prov,       \* the versions each file was computed from, {} if it is absent
    torn,       \* the files a kill left truncated
    newer,      \* newer[t]: the prerequisites of target t newer than it
    ident,      \* the dataset_identity in each file of metrics
    corpus,     \* config/role_corpus.json: the model it certifies, or {}
    opened,     \* role_readiness.json says open
    make,       \* the make under way, or NoMake
    job,        \* the script under way, or NoJob
    settled,    \* history: the last make, if it ended and nothing changed since it began
    crossed,    \* history: sources that changed under a script that had read them
    cut,        \* history: trainings killed halfway and not redone since
    certified,  \* history: the models ever certified
    changes     \* history: how much happened outside make

vars == <<now, prov, torn, newer, ident, corpus, opened, make, job,
          settled, crossed, cut, certified, changes>>
fileVars == <<prov, torn, newer, ident, opened>>
-----------------------------------------------------------------------------
Source == {"raw", "code", "ladder", "lp_label"}
Metrics == {"metrics", "lp_metrics", "role_metrics"}
Target == {"stamp", "silver", "adc", "player", "lp_rows", "split", "calibration",
           "dia", "games", "windows", "export", "readiness"} \cup Metrics
File == Target \cup {"models", "oof", "lp_models", "role_model"}

(* to_parquet, write_text and pickle.dump write in place, the rest with    *)
(* dump_json_atomic.                                                       *)
InPlace == {"adc", "player", "lp_rows", "split", "dia", "games", "windows",
            "models", "lp_models", "role_model"}

(* The targets of "make roles" and of "make pipeline", in the order make   *)
(* comes to them.  The Makefile makes the LP rows a prerequisite of the    *)
(* split only if they exist when it is parsed (lp).                        *)
MutAdcOrder(lp) == <<"split", "metrics", "calibration", "lp_rows", "lp_metrics">>
AdcOrder(lp) ==
    IF lp THEN <<"lp_rows", "split", "metrics", "calibration", "lp_metrics">>
    ELSE <<"split", "metrics", "calibration", "lp_rows", "lp_metrics">>
RolesOrder == <<"games", "windows", "role_metrics", "export", "readiness">>
Order(goal, lp) ==
    <<"stamp", "silver">>
    \o (IF goal = "roles" THEN <<>>
        ELSE <<"adc", "player">> \o AdcOrder(lp) \o <<"dia">>)
    \o RolesOrder

(* Mutant: the windows do not depend on the capture of the ladder.         *)
MutOutside(t) ==
    CASE t = "stamp"     -> {"raw"}
      [] t = "lp_rows"   -> {"code", "lp_label"}
      [] t = "readiness" -> {"code", "corpus"}
      [] t = "export"    -> {}
      [] OTHER           -> {"code"}

(* What make does not build, among the prerequisites of a target ...       *)
Outside(t) ==
    CASE t = "stamp"     -> {"raw"}
      [] t = "windows"   -> {"code", "ladder"}
      [] t = "lp_rows"   -> {"code", "lp_label"}
      [] t = "readiness" -> {"code", "corpus"}
      [] t = "export"    -> {}
      [] OTHER           -> {"code"}

(* ... and what it does.                                                   *)
Upstream(t, lp) ==
    CASE t = "stamp"                -> {}
      [] t = "silver"               -> {"stamp"}
      [] t \in {"adc", "games"}     -> {"silver"}
      [] t \in {"player", "dia"}    -> {"adc"}
      [] t = "lp_rows"              -> {"adc"}
      [] t = "split"                -> {"player"} \cup (IF lp THEN {"lp_rows"} ELSE {})
      [] t = "metrics"              -> {"player", "adc", "split"}
      [] t = "calibration"          -> {"metrics"}
      [] t = "lp_metrics"           -> {"lp_rows", "split"}
      [] t = "windows"              -> {"games"}
      [] t = "role_metrics"         -> {"windows", "games"}
      [] t = "export"               -> {"role_metrics"}
      [] t = "readiness"            -> {"role_metrics", "export"}

Prereq(t, lp) == Outside(t) \cup Upstream(t, lp)
-----------------------------------------------------------------------------
NoMake == [goal |-> "none", left |-> <<>>, lp |-> FALSE, quiet |-> TRUE]
NoJob == [target |-> "none", writes |-> <<>>, prov |-> {}, ident |-> {},
          open |-> FALSE, made |-> FALSE]

Exists(f) == prov[f] # {} \/ f \in torn

(* Version of a source: how often it changed, and how often that changed   *)
(* the players, features or buckets of the datasets.                       *)
Now(s) == <<s, now[s].n, now[s].pop>>

(* Files and sources, besides the code, that a script reads, and the files *)
(* it writes, in order.                                                    *)
Script(files, sources, writes) ==
    [files |-> files, sources |-> sources, writes |-> writes]

ReextractSilver == Script({}, {"raw"}, <<"silver">>)
BuildAdcDataset == Script({"silver"}, {}, <<"adc">>)
BuildPlayerDataset == Script({"adc"}, {}, <<"player">>)
BuildLpDataset == Script({"adc"}, {"lp_label"}, <<"lp_rows">>)
BuildSplit == Script({"player"} \cup (IF Exists("lp_rows") THEN {"lp_rows"} ELSE {}),
                     {}, <<"split">>)
TrainEnsemble == Script({"adc"}, {}, <<"dia">>)

(* Mutant: the out-of-fold predictions are not exported again.             *)
MutTrainPlayerEnsemble ==
    Script({"split", "player", "adc"}, {},
           IF Exists("oof") THEN <<"models", "metrics">> ELSE <<"models", "oof", "metrics">>)
TrainPlayerEnsemble ==
    Script({"split", "player", "adc"}, {}, <<"models", "oof", "metrics">>)
CalibratePlayerRank == Script({"oof", "player"}, {}, <<"calibration">>)
TrainPlayerLp == Script({"split", "lp_rows", "adc"}, {}, <<"lp_models", "lp_metrics">>)
BuildRoleDataset == Script({"silver"}, {}, <<"games">>)
BuildWindows == Script({"games"}, {"ladder"}, <<"windows">>)
TrainRole == Script({"windows", "games"}, {}, <<"role_model", "role_metrics", "export">>)
RoleReadiness == Script({"role_metrics"}, {}, <<"readiness">>)

ScriptOf(t) ==
    CASE t = "stamp"        -> Script({}, {}, <<"stamp">>)
      [] t = "silver"       -> ReextractSilver
      [] t = "adc"          -> BuildAdcDataset
      [] t = "player"       -> BuildPlayerDataset
      [] t = "lp_rows"      -> BuildLpDataset
      [] t = "split"        -> BuildSplit
      [] t = "dia"          -> TrainEnsemble
      [] t = "metrics"      -> TrainPlayerEnsemble
      [] t = "calibration"  -> CalibratePlayerRank
      [] t = "lp_metrics"   -> TrainPlayerLp
      [] t = "games"        -> BuildRoleDataset
      [] t = "windows"      -> BuildWindows
      [] t \in {"role_metrics", "export"} -> TrainRole
      [] t = "readiness"    -> RoleReadiness
-----------------------------------------------------------------------------
(* compute_dataset_identity sees the players, the names of the features,   *)
(* the buckets and the depth of a window: not the values, the labels, nor  *)
(* the code that trains.                                                   *)
IdentityOf(versions) == {<<v[1], v[3]>> : v \in versions}

(* The export of a role is written by the training of its metrics.         *)
MetricsOf(t) == IF t = "export" THEN "role_metrics" ELSE t

Identity(m) ==
    IdentityOf({Now("code")} \cup
               CASE m = "metrics"      -> prov["player"] \cup prov["split"]
                 [] m = "lp_metrics"   -> prov["lp_rows"] \cup prov["split"]
                 [] m = "role_metrics" -> prov["windows"])

(* Mutant: the identity is not compared.                                   *)
MutUpToDateAlways(t) ==
    /\ MetricsOf(t) \in Metrics
    /\ Exists(MetricsOf(t))

(* A training finds its files and the identity it would give them: it      *)
(* writes nothing.                                                         *)
UpToDate(t) ==
    LET m == MetricsOf(t) IN
    /\ m \in Metrics
    /\ Exists(m)
    /\ ident[m] = Identity(m)
    /\ \A f \in CASE m = "metrics"      -> {"models"}
                  [] m = "lp_metrics"   -> {"lp_models"}
                  [] m = "role_metrics" -> {"role_model", "export"} : Exists(f)

Readable(s) == \A f \in s.files : prov[f] # {} /\ f \notin torn

(* Mutant: a certification stands for the models that come after.          *)
MutCertifies(model) == corpus # {}

(* resolve_corpus: the file certifies this very model.                     *)
Certifies(model) == corpus # {} /\ corpus = model

(* What the script writes: a model and its metrics are known by the same   *)
(* model_id, the calibration by the predictions it places, the readiness   *)
(* by the model_id it copies from the metrics.                             *)
Runs(t, made) ==
    LET s == ScriptOf(t) IN
    [target |-> t,
     writes |-> s.writes,
     prov |-> CASE t = "calibration" -> prov["oof"]
                [] t = "readiness"   -> prov["role_metrics"]
                [] OTHER -> (UNION {prov[f] : f \in s.files})
                            \cup {Now(x) : x \in s.sources \cup {"code"}},
     ident |-> IF MetricsOf(t) \in Metrics THEN Identity(MetricsOf(t)) ELSE {},
     open |-> t = "readiness" /\ Certifies(prov["role_metrics"]),
     made |-> made]

(* The file just written is newer than all, and so than its prerequisites. *)
Touched(f) ==
    [t \in Target |-> IF t = f THEN {}
                      ELSE newer[t] \cup ({f} \cap Prereq(t, TRUE))]
-----------------------------------------------------------------------------
Init ==
    /\ now = [s \in Source |-> [n |-> 1, pop |-> 1]]
    /\ prov = [f \in File |-> {}]
    /\ torn = {}
    /\ newer = [t \in Target |-> {}]
    /\ ident = [m \in Metrics |-> {}]
    /\ corpus = {}
    /\ opened = FALSE
    /\ make = NoMake
    /\ job = NoJob
    /\ settled = NoMake
    /\ crossed = {}
    /\ cut = {}
    /\ certified = {}
    /\ changes = 0

(* The scripts whose own files are the first to hold a source. *)
FirstReaders == {<<"silver", "code">>, <<"windows", "ladder">>, <<"lp_rows", "lp_label">>}

(* Something happens outside make. *)
Change ==
    /\ changes < MaxChanges
    /\ changes' = changes + 1
    /\ settled' = NoMake
    /\ make' = [make EXCEPT !.quiet = make = NoMake]

(* Games are collected, the code is edited, a capture is made.             *)
Edits(s, pop) ==
    /\ Change
    /\ now' = [now EXCEPT ![s] = [n |-> @.n + 1, pop |-> IF pop THEN @.pop + 1 ELSE @.pop]]
    /\ newer' = Touched(s)
    /\ crossed' = crossed \cup ({<<job.target, s>>} \cap FirstReaders)
    /\ UNCHANGED <<prov, torn, ident, opened, corpus, job, cut, certified>>

(* The owner reads the table of readiness and certifies the model it       *)
(* names, or withdraws the certification.                                  *)
Certify(model) ==
    /\ Change
    /\ prov["readiness"] # {}
    /\ model \in {prov["readiness"], {}}
    /\ corpus # model
    /\ corpus' = model
    /\ certified' = certified \cup ({model} \ {{}})
    /\ newer' = Touched("corpus")
    /\ UNCHANGED <<now, prov, torn, ident, opened, job, crossed, cut>>

MakeStarts(goal) ==
    /\ make = NoMake
    /\ job = NoJob
    /\ make' = [goal |-> goal, left |-> Order(goal, Exists("lp_rows")),
                lp |-> Exists("lp_rows"), quiet |-> TRUE]
    /\ settled' = NoMake
    /\ UNCHANGED <<now, fileVars, corpus, job, crossed, cut, certified, changes>>

Stale(t) == ~Exists(t) \/ newer[t] \cap Prereq(t, make.lp) # {}

Advanced == [make EXCEPT !.left = Tail(@)]

(* The next target is up to date, for make or for the training it runs.    *)
Skips ==
    /\ make.left # <<>>
    /\ job = NoJob
    /\ LET t == Head(make.left) IN
        ~Stale(t) \/ (Readable(ScriptOf(t)) /\ UpToDate(t))
    /\ make' = Advanced
    /\ UNCHANGED <<now, fileVars, corpus, job, settled, crossed, cut, certified, changes>>

Starts ==
    /\ make.left # <<>>
    /\ job = NoJob
    /\ LET t == Head(make.left) IN
        /\ Stale(t)
        /\ Readable(ScriptOf(t))
        /\ ~UpToDate(t)
        /\ job' = Runs(t, TRUE)
    /\ UNCHANGED <<now, fileVars, corpus, make, settled, crossed, cut, certified, changes>>

(* A script cannot read a file, or finds no player and keeps the table it  *)
(* would have emptied: make stops.                                         *)
Fails ==
    /\ make.left # <<>>
    /\ job = NoJob
    /\ LET t == Head(make.left) IN
        /\ Stale(t)
        /\ ~Readable(ScriptOf(t)) \/ t \in {"player", "lp_rows", "windows"}
    /\ make' = NoMake
    /\ UNCHANGED <<now, fileVars, corpus, job, settled, crossed, cut, certified, changes>>

(* A training by hand with --force.                                        *)
Forces(t) ==
    /\ Change
    /\ make = NoMake
    /\ job = NoJob
    /\ t \in Metrics
    /\ Readable(ScriptOf(t))
    /\ job' = Runs(t, FALSE)
    /\ UNCHANGED <<now, fileVars, corpus, crossed, cut, certified>>

Writes ==
    /\ job # NoJob
    /\ LET f == Head(job.writes) IN
        /\ prov' = [prov EXCEPT ![f] = job.prov]
        /\ torn' = torn \ {f}
        /\ newer' = Touched(f)
        /\ ident' = IF f \in Metrics THEN [ident EXCEPT ![f] = job.ident] ELSE ident
        /\ opened' = IF f = "readiness" THEN job.open ELSE opened
    /\ IF Len(job.writes) > 1
       THEN job' = [job EXCEPT !.writes = Tail(@)] /\ UNCHANGED <<make, cut>>
       ELSE /\ job' = NoJob
            /\ make' = IF job.made THEN Advanced ELSE make
            /\ cut' = cut \ {MetricsOf(job.target)}
    /\ UNCHANGED <<now, corpus, settled, crossed, certified, changes>>

(* The script dies, and make with it: before the next file, or within it.  *)
Killed ==
    /\ job # NoJob
    /\ changes < MaxChanges
    /\ changes' = changes + 1
    /\ LET f == Head(job.writes) IN
        \/ UNCHANGED <<prov, torn, newer>>
        \/ /\ f \in InPlace
           /\ prov' = [prov EXCEPT ![f] = {}]
           /\ torn' = torn \cup {f}
           /\ newer' = Touched(f)
    /\ cut' = IF MetricsOf(job.target) \in Metrics
              THEN cut \cup {MetricsOf(job.target)} ELSE cut
    /\ job' = NoJob
    /\ make' = NoMake
    /\ UNCHANGED <<now, ident, opened, corpus, settled, crossed, certified>>

MakeEnds ==
    /\ make # NoMake
    /\ make.left = <<>>
    /\ settled' = IF make.quiet THEN make ELSE NoMake
    /\ make' = NoMake
    /\ UNCHANGED <<now, fileVars, corpus, job, crossed, cut, certified, changes>>

(* A truncated file, or an export to be made again, is deleted by hand.    *)
Removes(f) ==
    /\ Change
    /\ make = NoMake
    /\ job = NoJob
    /\ f \in torn \cup {"export"}
    /\ Exists(f)
    /\ prov' = [prov EXCEPT ![f] = {}]
    /\ torn' = torn \ {f}
    /\ UNCHANGED <<now, newer, ident, opened, corpus, job, crossed, cut,
                   certified>>

Next ==
    \/ \E s \in Source, pop \in BOOLEAN : Edits(s, pop)
    \/ \E model \in {prov["readiness"], {}} : Certify(model)
    \/ \E goal \in Goals : MakeStarts(goal)
    \/ Skips \/ Starts \/ Fails \/ Writes \/ Killed \/ MakeEnds
    \/ \E t \in Metrics : Forces(t)
    \/ \E f \in File : Removes(f)

Spec == Init /\ [][Next]_vars
-----------------------------------------------------------------------------
(* The types of the state. *)
PipelineTypeOK ==
    /\ now \in [Source -> [n : 1..MaxChanges + 1, pop : 1..MaxChanges + 1]]
    /\ torn \subseteq InPlace
    /\ \A t \in Target : newer[t] \subseteq Prereq(t, TRUE)
    /\ \A f \in File : \A v \in prov[f] : v[1] \in Source /\ v[2] <= now[v[1]].n
    /\ \A m \in Metrics : (ident[m] = {}) = (prov[m] = {})
    /\ opened \in BOOLEAN
    /\ job # NoJob => job.target \in Target
    /\ changes \in 0..MaxChanges

(* load_models and preflight_eligibility serve the role. *)
Served == prov["export"] # {} /\ prov["export"] = prov["readiness"] /\ opened

(* A model that is served is one the owner has certified. *)
ServedWasCertified == Served => prov["export"] \in certified

Settled(goals) == settled.goal \in goals

(* After a make during which nothing changed, the datasets come from the   *)
(* present sources: games may be collected at any moment of any make, but  *)
(* the other sources must not change under the first script that reads     *)
(* them.                                                                   *)
DatasetsCurrent ==
    LET Excused(v) == \E c \in crossed : c[2] = v[1]
        Current(f) == prov[f] # {} /\ \A v \in prov[f] : v = Now(v[1]) \/ Excused(v)
    IN /\ Settled({"roles", "pipeline"}) => \A f \in {"silver", "games", "windows"} : Current(f)
       /\ Settled({"pipeline"}) => \A f \in {"adc", "player", "lp_rows"} : Current(f)

(* After such a make every training is that of the present identity of its *)
(* dataset: a change of players, features or buckets always retrains.      *)
IdentitiesCurrent ==
    /\ Settled({"roles", "pipeline"}) => ident["role_metrics"] = Identity("role_metrics")
    /\ Settled({"pipeline"}) => \A m \in {"metrics", "lp_metrics"} : ident[m] = Identity(m)

(* The split covers both populations, once the LP rows were there when the *)
(* make began.                                                             *)
SplitCoversPopulations ==
    Settled({"pipeline"}) /\ settled.lp =>
        prov["player"] \cup prov["lp_rows"] \subseteq prov["split"]

(* So a make during which nothing changed leaves nothing it builds behind. *)
MakeIsCurrent == DatasetsCurrent /\ IdentitiesCurrent /\ SplitCoversPopulations

(* A rank is placed with the calibration of the very models that give the  *)
(* probability, and a role's export is the model its metrics and readiness *)
(* measure, unless a training was killed between its files and not redone. *)
ModelsCoherent ==
    /\ Settled({"pipeline"}) /\ "metrics" \notin cut =>
          prov["calibration"] = prov["oof"] /\ prov["oof"] = prov["models"]
    /\ Settled({"roles", "pipeline"}) /\ "role_metrics" \notin cut =>
          /\ prov["export"] = prov["role_metrics"]
          /\ prov["readiness"] = prov["role_metrics"]
=============================================================================
