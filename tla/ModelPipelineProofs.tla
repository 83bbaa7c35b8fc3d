-------------------------- MODULE ModelPipelineProofs --------------------------
(***************************************************************************)
(* Three properties of the model pipeline, for any goals, sources and      *)
(* number of changes, kills and deletions.  The model a role is served     *)
(* with is one the owner certified; a make during which nothing changed    *)
(* leaves everything it built of the present sources; the calibration, the *)
(* export and the readiness left by a make are of the very models.         *)
(*                                                                         *)
(* The last two share an invariant: what each file holds of its            *)
(* prerequisites (FileInv), and how far a make has come in an order that   *)
(* respects the graph (Progress).                                          *)
(***************************************************************************)
EXTENDS ModelPipeline, SequenceTheorems, TLAPS

(* What the certifications, the readiness and the script that writes it    *)
(* have in common.  Only files written in place can be torn, and so be     *)
(* deleted by hand: the readiness is never one of them.                    *)
CertifiedInv ==
    /\ "readiness" \in DOMAIN prov
    /\ torn \subseteq InPlace
    /\ corpus = {} \/ corpus \in certified
    /\ opened => prov["readiness"] \in certified
    /\ job.open => job.prov \in certified

LEMMA ReadinessNotInPlace == "readiness" \notin InPlace
  BY DEF InPlace

(* What a script will open is certified when it starts. *)
LEMMA RunsCertified ==
    ASSUME CertifiedInv, NEW t, NEW made \in BOOLEAN
    PROVE  Runs(t, made).open => Runs(t, made).prov \in certified
<1>1. CASE t = "readiness"
  <2>1. Runs(t, made).prov = prov["role_metrics"]
    BY <1>1 DEF Runs
  <2>2. Runs(t, made).open => Certifies(prov["role_metrics"])
    BY <1>1 DEF Runs
  <2>3. Certifies(prov["role_metrics"]) => prov["role_metrics"] \in certified
    BY DEF Certifies, CertifiedInv
  <2>4. QED
    BY <2>1, <2>2, <2>3
<1>2. CASE t # "readiness"
  BY <1>2 DEF Runs
<1>3. QED
  BY <1>1, <1>2

LEMMA CertifiedStep == CertifiedInv /\ [Next]_vars => CertifiedInv'
<1> SUFFICES ASSUME CertifiedInv, [Next]_vars
             PROVE  CertifiedInv'
  OBVIOUS
<1> USE DEF CertifiedInv
<1>1. ASSUME NEW s \in Source, NEW pop \in BOOLEAN, Edits(s, pop)
      PROVE  CertifiedInv'
  BY <1>1 DEF Edits
<1>2. ASSUME NEW model \in {prov["readiness"], {}}, Certify(model)
      PROVE  CertifiedInv'
  <2>1. certified' = certified \cup ({model} \ {{}}) /\ corpus' = model
    BY <1>2 DEF Certify
  <2>2. corpus' = {} \/ corpus' \in certified'
    BY <2>1
  <2>3. QED
    BY <1>2, <2>1, <2>2 DEF Certify
<1>3. ASSUME NEW goal \in Goals, MakeStarts(goal)
      PROVE  CertifiedInv'
  BY <1>3 DEF MakeStarts, fileVars
<1>4. CASE Skips
  BY <1>4 DEF Skips, fileVars
<1>5. CASE Starts
  <2>1. job' = Runs(Head(make.left), TRUE)
    BY <1>5 DEF Starts
  <2>2. job'.open => job'.prov \in certified
    BY <2>1, RunsCertified
  <2>3. QED
    BY <1>5, <2>2 DEF Starts, fileVars
<1>6. CASE Fails
  BY <1>6 DEF Fails, fileVars
<1>7. CASE Writes
  <2> DEFINE f == Head(job.writes)
  <2>1. /\ prov' = [prov EXCEPT ![f] = job.prov]
        /\ torn' = torn \ {f}
        /\ opened' = IF f = "readiness" THEN job.open ELSE opened
        /\ UNCHANGED <<corpus, certified>>
    BY <1>7 DEF Writes
  <2>2. job'.open => job.open /\ job'.prov = job.prov
    <3>1. job' = [job EXCEPT !.writes = Tail(@)] \/ job' = NoJob
      BY <1>7 DEF Writes
    <3>2. [job EXCEPT !.writes = Tail(@)].open = job.open
      OBVIOUS
    <3>3. [job EXCEPT !.writes = Tail(@)].prov = job.prov
      OBVIOUS
    <3>4. NoJob.open = FALSE
      BY DEF NoJob
    <3>5. QED
      BY <3>1, <3>2, <3>3, <3>4
  <2>3. opened' => prov'["readiness"] \in certified
    <3>1. CASE f = "readiness"
      BY <2>1, <3>1
    <3>2. CASE f # "readiness"
      BY <2>1, <3>2
    <3>3. QED
      BY <3>1, <3>2
  <2>4. QED
    BY <2>1, <2>2, <2>3
<1>8. CASE Killed
  <2> DEFINE f == Head(job.writes)
  <2>1. job' = NoJob /\ UNCHANGED <<opened, corpus, certified>>
    BY <1>8 DEF Killed
  <2>2. ~NoJob.open
    BY DEF NoJob
  <2>3. \/ UNCHANGED <<prov, torn>>
        \/ f \in InPlace /\ prov' = [prov EXCEPT ![f] = {}] /\ torn' = torn \cup {f}
    BY <1>8 DEF Killed
  <2>4. prov'["readiness"] = prov["readiness"] /\ torn' \subseteq InPlace
    BY <2>3, ReadinessNotInPlace
  <2>5. "readiness" \in DOMAIN prov'
    BY <2>3
  <2>6. QED
    BY <2>1, <2>2, <2>4, <2>5
<1>9. CASE MakeEnds
  BY <1>9 DEF MakeEnds, fileVars
<1>10. ASSUME NEW t \in Metrics, Forces(t)
       PROVE  CertifiedInv'
  <2>1. job' = Runs(t, FALSE) /\ UNCHANGED <<fileVars, corpus, certified>>
    BY <1>10 DEF Forces
  <2>2. job'.open => job'.prov \in certified
    BY <2>1, RunsCertified
  <2>3. QED
    BY <2>1, <2>2 DEF fileVars
<1>11. ASSUME NEW f \in File, Removes(f)
       PROVE  CertifiedInv'
  <2>1. /\ f # "readiness"
        /\ prov' = [prov EXCEPT ![f] = {}]
        /\ torn' = torn \ {f}
        /\ UNCHANGED <<opened, corpus, job, certified>>
    BY <1>11, ReadinessNotInPlace DEF Removes
  <2>2. QED
    BY <2>1
<1>12. CASE UNCHANGED vars
  BY <1>12 DEF vars
<1>13. QED
  BY <1>1, <1>2, <1>3, <1>4, <1>5, <1>6, <1>7, <1>8, <1>9, <1>10, <1>11, <1>12
  DEF Next

(* A model that the service serves is one the owner has certified, however *)
(* the trainings, the exports and the readiness were interrupted.          *)
THEOREM ServedCorrect == Spec => []ServedWasCertified
<1>1. Init => CertifiedInv
  BY DEF Init, CertifiedInv, File, Target, NoJob
<1>2. CertifiedInv => ServedWasCertified
  BY DEF CertifiedInv, ServedWasCertified, Served
<1>3. QED
  BY <1>1, <1>2, CertifiedStep, PTL DEF Spec

-----------------------------------------------------------------------------
(* What make leaves behind.  A file is tied to those it was computed from: *)
(* as long as none of them is newer, it holds their versions.              *)

(* A file that a target is computed from, and that make knows of. *)
Base ==
    {<<"adc", "silver">>, <<"games", "silver">>, <<"player", "adc">>, <<"lp_rows", "adc">>,
     <<"windows", "games">>}
Link ==
    Base \cup
    {<<"split", "player">>, <<"split", "lp_rows">>, <<"metrics", "player">>,
     <<"metrics", "split">>, <<"lp_metrics", "lp_rows">>, <<"lp_metrics", "split">>,
     <<"role_metrics", "windows">>}

(* The files an identity is computed from. *)
Inputs(m) ==
    IF m = "metrics" THEN {"player", "split"}
    ELSE IF m = "lp_metrics" THEN {"lp_rows", "split"}
    ELSE {"windows"}

Members(s) == {s[i] : i \in 1..Len(s)}

(* The files of a script, and the last of them. *)
Written(t) ==
    IF t \in {"role_metrics", "export"} THEN {"role_model", "role_metrics", "export"}
    ELSE IF t = "metrics" THEN {"models", "oof", "metrics"}
    ELSE IF t = "lp_metrics" THEN {"lp_models", "lp_metrics"}
    ELSE {t}
LastOf(t) == IF t = "role_metrics" THEN "export" ELSE t

LEMMA LinkFacts ==
    \A l \in Link : /\ l[1] \in Target /\ l[2] \in Target /\ l[1] # l[2]
                    /\ l[2] \in Prereq(l[1], TRUE) /\ l[1] \notin Prereq(l[2], TRUE)
                    /\ l[1] # "export" /\ l[2] \notin Metrics \cup {"export", "stamp"}
                    /\ "code" \in Outside(l[2])
BY DEF Link, Base, Target, Metrics, Prereq, Outside, Upstream

LEMMA BaseFacts ==
    \A l \in Base : /\ l[1] # "silver" /\ l[1] \notin Metrics /\ Outside(l[1]) \subseteq Source
                    /\ Outside(l[1]) \subseteq Prereq(l[1], TRUE)
BY DEF Base, Metrics, Prereq, Outside, Upstream, Source

LEMMA InputsAre ==
    \A m \in Metrics : \A u \in Inputs(m) : <<m, u>> \in Link
BY DEF Inputs, Metrics, Link

LEMMA WrittenFacts ==
    \A t \in Target : /\ Written(t) \subseteq File
                      /\ LastOf(t) \in Written(t)
                      /\ \A l \in Link : l[2] \in Written(t) => l[2] = t /\ MetricsOf(t) = t
                      /\ \A l \in Link : l[1] \in Written(t) => l[1] = MetricsOf(t)
                      /\ \A f \in Written(t) : f \in Metrics => f = MetricsOf(t)
BY DEF Written, LastOf, Link, Base, Target, File, Metrics, MetricsOf

(* The sequences of scripts and makes. *)
LEMMA TailFacts ==
    ASSUME NEW S, NEW s \in Seq(S), s # <<>>
    PROVE  /\ Head(s) \in Members(s) /\ Head(s) \in S /\ Tail(s) \in Seq(S)
           /\ Members(Tail(s)) \subseteq Members(s)
           /\ Members(s) \subseteq {Head(s)} \cup Members(Tail(s))
           /\ Len(s) > 1 => Tail(s) # <<>> /\ Tail(s)[Len(Tail(s))] = s[Len(s)]
           /\ ~(Len(s) > 1) => Members(s) = {Head(s)} /\ s[Len(s)] = Head(s) /\ Tail(s) = <<>>
           /\ Len(s) \in Nat
<1>1. Len(s) \in Nat \ {0}
  BY EmptySeq, LenProperties
<1>2. /\ Head(s) = s[1] /\ Tail(s) \in Seq(S) /\ Len(Tail(s)) = Len(s) - 1
      /\ \A i \in 1..Len(s) - 1 : Tail(s)[i] = s[i + 1]
  BY HeadTailProperties
<1>3. \A i \in 1..Len(s) : s[i] \in S
  BY ElementOfSeq
<1>4. Head(s) \in Members(s) /\ Head(s) \in S
  BY <1>1, <1>2, <1>3 DEF Members
<1>5. Members(Tail(s)) \subseteq Members(s)
  <2>1. \A i \in 1..Len(Tail(s)) : i + 1 \in 1..Len(s) /\ Tail(s)[i] = s[i + 1]
    BY <1>1, <1>2
  <2>2. QED
    BY <2>1 DEF Members
<1>6. Members(s) \subseteq {Head(s)} \cup Members(Tail(s))
  <2>1. \A i \in 1..Len(s) : i = 1 \/ (i - 1 \in 1..Len(Tail(s)) /\ Tail(s)[i - 1] = s[i])
    BY <1>1, <1>2
  <2>2. QED
    BY <1>2, <2>1 DEF Members
<1>7. Len(s) > 1 => Tail(s) # <<>> /\ Tail(s)[Len(Tail(s))] = s[Len(s)]
  <2> SUFFICES ASSUME Len(s) > 1
               PROVE  Tail(s) # <<>> /\ Tail(s)[Len(Tail(s))] = s[Len(s)]
    OBVIOUS
  <2>1. Len(s) - 1 \in 1..Len(s) - 1
    BY <1>1
  <2>2. Tail(s)[Len(s) - 1] = s[Len(s) - 1 + 1]
    BY <1>2, <2>1
  <2>3. Len(s) - 1 + 1 = Len(s)
    BY <1>1
  <2>4. Tail(s) # <<>>
    <3>1. Tail(s) = <<>> => Len(Tail(s)) = 0
      BY EmptySeq
    <3>2. QED
      BY <1>1, <1>2, <3>1
  <2>5. QED
    BY <1>2, <2>2, <2>3, <2>4
<1>8. ~(Len(s) > 1) => Members(s) = {Head(s)} /\ s[Len(s)] = Head(s) /\ Tail(s) = <<>>
  <2>1. ~(Len(s) > 1) => Len(s) = 1 /\ Len(Tail(s)) = 0
    BY <1>1, <1>2
  <2>2. QED
    BY <1>2, <2>1, EmptySeq DEF Members
<1>9. QED
  BY <1>1, <1>2, <1>4, <1>5, <1>6, <1>7, <1>8

(* The scripts: what they write and read. *)
LEMMA ScriptWrites ==
    ASSUME NEW t \in Target
    PROVE  /\ ScriptOf(t).writes \in Seq(File) /\ ScriptOf(t).writes # <<>>
           /\ Members(ScriptOf(t).writes) = Written(t)
           /\ ScriptOf(t).writes[Len(ScriptOf(t).writes)] = LastOf(t)
<1> DEFINE w == ScriptOf(t).writes
<1>1. w = CASE t = "metrics" -> <<"models", "oof", "metrics">>
            [] t = "lp_metrics" -> <<"lp_models", "lp_metrics">>
            [] t \in {"role_metrics", "export"} -> <<"role_model", "role_metrics", "export">>
            [] OTHER -> <<t>>
  BY DEF Target, Metrics, ScriptOf, Script, ReextractSilver, BuildAdcDataset, BuildPlayerDataset,
         BuildLpDataset, BuildSplit, TrainEnsemble, TrainPlayerEnsemble, CalibratePlayerRank,
         TrainPlayerLp, BuildRoleDataset, BuildWindows, TrainRole, RoleReadiness
<1> HIDE DEF w
<1>2. \A a \in File : /\ <<a>> \in Seq(File) /\ Len(<<a>>) = 1 /\ Members(<<a>>) = {a}
  BY DEF Members
<1>3. \A a, b \in File : /\ <<a, b>> \in Seq(File) /\ Len(<<a, b>>) = 2
                        /\ Members(<<a, b>>) = {a, b}
  BY DEF Members
<1>4. \A a, b, c \in File : /\ <<a, b, c>> \in Seq(File) /\ Len(<<a, b, c>>) = 3
                           /\ Members(<<a, b, c>>) = {a, b, c}
  BY DEF Members
<1>5. CASE t = "metrics"
  <2>1. w = <<"models", "oof", "metrics">>
    BY <1>1, <1>5
  <2>2. "models" \in File /\ "oof" \in File /\ "metrics" \in File
    BY DEF File, Target, Metrics
  <2>3. /\ w \in Seq(File) /\ Len(w) = 3 /\ Members(w) = {"models", "oof", "metrics"}
    BY <1>4, <2>1, <2>2
  <2>4. w # <<>> /\ w[Len(w)] = "metrics"
    BY <2>1, <2>3
  <2>5. Written(t) = {"models", "oof", "metrics"} /\ LastOf(t) = "metrics"
    BY <1>5 DEF Written, LastOf
  <2>6. QED
    BY <2>3, <2>4, <2>5 DEF w
<1>6. CASE t = "lp_metrics"
  <2>1. w = <<"lp_models", "lp_metrics">>
    BY <1>1, <1>6
  <2>2. "lp_models" \in File /\ "lp_metrics" \in File
    BY DEF File, Target, Metrics
  <2>3. /\ w \in Seq(File) /\ Len(w) = 2 /\ Members(w) = {"lp_models", "lp_metrics"}
    BY <1>3, <2>1, <2>2
  <2>4. w # <<>> /\ w[Len(w)] = "lp_metrics"
    BY <2>1, <2>3
  <2>5. Written(t) = {"lp_models", "lp_metrics"} /\ LastOf(t) = "lp_metrics"
    BY <1>6 DEF Written, LastOf
  <2>6. QED
    BY <2>3, <2>4, <2>5 DEF w
<1>7. CASE t \in {"role_metrics", "export"}
  <2>1. w = <<"role_model", "role_metrics", "export">>
    BY <1>1, <1>7
  <2>2. "role_model" \in File /\ "role_metrics" \in File /\ "export" \in File
    BY DEF File, Target, Metrics
  <2>3. /\ w \in Seq(File) /\ Len(w) = 3
        /\ Members(w) = {"role_model", "role_metrics", "export"}
    BY <1>4, <2>1, <2>2
  <2>4. w # <<>> /\ w[Len(w)] = "export"
    BY <2>1, <2>3
  <2>5. Written(t) = {"role_model", "role_metrics", "export"} /\ LastOf(t) = "export"
    BY <1>7 DEF Written, LastOf
  <2>6. QED
    BY <2>3, <2>4, <2>5 DEF w
<1>8. CASE t \notin {"metrics", "lp_metrics", "role_metrics", "export"}
  <2>1. w = <<t>> /\ t \in File
    BY <1>1, <1>8 DEF File
  <2>2. w \in Seq(File) /\ Len(w) = 1 /\ Members(w) = {t}
    BY <1>2, <2>1
  <2>3. QED
    BY <1>8, <2>1, <2>2 DEF w, Written, LastOf
<1>9. QED
  BY <1>5, <1>6, <1>7, <1>8

LEMMA ScriptReads ==
    ASSUME NEW t \in Target
    PROVE  /\ \A l \in Link : l[1] = MetricsOf(t) =>
                  /\ t \notin {"calibration", "readiness"}
                  /\ \/ l[2] \in ScriptOf(t).files
                     \/ l = <<"split", "lp_rows">> /\ ~Exists("lp_rows")
           /\ \A l \in Base : l[1] = t => /\ ScriptOf(t).files = {l[2]}
                                          /\ ScriptOf(t).sources \cup {"code"} \subseteq Outside(t)
           /\ t = "silver" => ScriptOf(t).files = {} /\ ScriptOf(t).sources = {"raw"}
           /\ t = "calibration" => "oof" \in ScriptOf(t).files
           /\ t = "readiness" => "role_metrics" \in ScriptOf(t).files
<1> USE DEF ScriptOf, Script, ReextractSilver, BuildAdcDataset, BuildPlayerDataset,
            BuildLpDataset, BuildSplit, TrainEnsemble, TrainPlayerEnsemble, CalibratePlayerRank,
            TrainPlayerLp, BuildRoleDataset, BuildWindows, TrainRole, RoleReadiness
<1>1. \A l \in Link : l[1] = MetricsOf(t) =>
          /\ t \notin {"calibration", "readiness"}
          /\ \/ l[2] \in ScriptOf(t).files
             \/ l = <<"split", "lp_rows">> /\ ~Exists("lp_rows")
  <2> SUFFICES ASSUME NEW l \in Link, l[1] = MetricsOf(t)
               PROVE  /\ t \notin {"calibration", "readiness"}
                      /\ \/ l[2] \in ScriptOf(t).files
                         \/ l = <<"split", "lp_rows">> /\ ~Exists("lp_rows")
    OBVIOUS
  <2>1. CASE l \in Base
    BY <2>1 DEF Base, MetricsOf
  <2>2. CASE l \in {<<"split", "player">>, <<"split", "lp_rows">>}
    BY <2>2 DEF MetricsOf
  <2>3. CASE l \in {<<"metrics", "player">>, <<"metrics", "split">>}
    BY <2>3 DEF MetricsOf
  <2>4. CASE l \in {<<"lp_metrics", "lp_rows">>, <<"lp_metrics", "split">>}
    BY <2>4 DEF MetricsOf
  <2>5. CASE l = <<"role_metrics", "windows">>
    BY <2>5 DEF MetricsOf
  <2>6. QED
    BY <2>1, <2>2, <2>3, <2>4, <2>5 DEF Link
<1>2. \A l \in Base : l[1] = t => /\ ScriptOf(t).files = {l[2]}
                                 /\ ScriptOf(t).sources \cup {"code"} \subseteq Outside(t)
  BY DEF Base, Outside
<1>3. t = "silver" => ScriptOf(t).files = {} /\ ScriptOf(t).sources = {"raw"}
  OBVIOUS
<1>4. t = "calibration" => "oof" \in ScriptOf(t).files
  OBVIOUS
<1>5. t = "readiness" => "role_metrics" \in ScriptOf(t).files
  OBVIOUS
<1>6. QED
  BY <1>1, <1>2, <1>3, <1>4, <1>5

-----------------------------------------------------------------------------
(* What the files, the make and the script always look like. *)
FileShape ==
    /\ DOMAIN now = Source /\ DOMAIN prov = File
    /\ DOMAIN newer = Target /\ DOMAIN ident = Metrics
    /\ torn \subseteq InPlace /\ \A f \in torn : prov[f] = {}
    /\ \A t \in Target : newer[t] \subseteq Prereq(t, TRUE)

JobShape ==
    \/ job = NoJob
    \/ /\ "writes" \in DOMAIN job /\ job.target \in Target /\ job.prov # {}
       /\ job.writes \in Seq(File) /\ job.writes # <<>>
       /\ Members(job.writes) \subseteq Written(job.target)
       /\ job.writes[Len(job.writes)] = LastOf(job.target)
       /\ \/ job.made /\ make.left # <<>> /\ Head(make.left) = job.target
          \/ ~job.made /\ make = NoMake

MakeShape ==
    /\ {"left", "quiet"} \subseteq DOMAIN make
    /\ make.left \in Seq(Target)
    /\ settled # NoMake => make = NoMake /\ job = NoJob

Shape == FileShape /\ JobShape /\ MakeShape

LEMMA NoJobFacts ==
    /\ NoJob.target = "none" /\ "none" \notin Target /\ MetricsOf("none") = "none"
    /\ NoMake.left = <<>> /\ NoMake.goal = "none" /\ {"left", "quiet"} \subseteq DOMAIN NoMake
BY DEF NoJob, NoMake, Target, Metrics, MetricsOf

LEMMA FilesAre ==
    /\ Target \subseteq File /\ Metrics \subseteq Target /\ "export" \in Target
    /\ InPlace \subseteq File
    /\ \A m \in Metrics : m \notin InPlace
    /\ {"export", "readiness", "calibration", "silver", "stamp", "oof"} \cap InPlace = {}
    /\ {"models", "oof", "export", "readiness", "calibration", "role_metrics"} \subseteq File
    /\ (Source \cup {"corpus"}) \cap File = {}
BY DEF File, Target, Metrics, InPlace, Source

LEMMA TouchedFacts ==
    ASSUME FileShape, NEW f
    PROVE  /\ DOMAIN Touched(f) = Target
           /\ \A t \in Target : t # f => /\ newer[t] \subseteq Touched(f)[t]
                                         /\ f \in Prereq(t, TRUE) => f \in Touched(f)[t]
           /\ \A t \in Target : t = f => Touched(f)[t] = {}
           /\ \A t \in Target : Touched(f)[t] \subseteq newer[t] \cup ({f} \cap Prereq(t, TRUE))
           /\ \A t \in Target : Touched(f)[t] \subseteq Prereq(t, TRUE)
BY DEF Touched, FileShape

LEMMA ChangeFacts ==
    ASSUME MakeShape, Change
    PROVE  /\ make'.left = make.left /\ make'.goal = make.goal /\ make'.lp = make.lp
           /\ {"left", "quiet"} \subseteq DOMAIN make'
           /\ make = NoMake => make' = NoMake
           /\ make # NoMake => make'.quiet = FALSE
           /\ settled' = NoMake
<1>1. make' = [make EXCEPT !.quiet = (make = NoMake)] /\ settled' = NoMake
  BY DEF Change
<1>2. make = NoMake => make' = NoMake
  <2>1. make = NoMake => make' = [NoMake EXCEPT !.quiet = TRUE]
    BY <1>1
  <2>2. [NoMake EXCEPT !.quiet = TRUE] = NoMake
    <3>1. NoMake = [x \in DOMAIN NoMake |-> NoMake[x]]
      BY DEF NoMake
    <3>2. NoMake.quiet = TRUE
      BY Zenon DEF NoMake
    <3>3. QED
      BY <3>1, <3>2
  <2>3. QED
    BY <2>1, <2>2
<1>3. make # NoMake => make'.quiet = FALSE
  BY <1>1 DEF MakeShape
<1>4. QED
  BY <1>1, <1>2, <1>3 DEF MakeShape

(* A script that starts. *)
LEMMA RunsFacts ==
    ASSUME Shape, NEW t \in Target, NEW made \in BOOLEAN, Readable(ScriptOf(t))
    PROVE  /\ "writes" \in DOMAIN Runs(t, made)
           /\ Runs(t, made).target = t /\ Runs(t, made).made = made
           /\ Runs(t, made).writes = ScriptOf(t).writes
           /\ t = "calibration" => Runs(t, made).prov = prov["oof"]
           /\ t = "readiness" => Runs(t, made).prov = prov["role_metrics"]
           /\ t \notin {"calibration", "readiness"} =>
                  Runs(t, made).prov = (UNION {prov[f] : f \in ScriptOf(t).files})
                                \cup {Now(x) : x \in ScriptOf(t).sources \cup {"code"}}
           /\ MetricsOf(t) \in Metrics => Runs(t, made).ident = Identity(MetricsOf(t))
           /\ Runs(t, made).prov # {}
<1>1. /\ "writes" \in DOMAIN Runs(t, made)
      /\ Runs(t, made).target = t /\ Runs(t, made).made = made
      /\ Runs(t, made).writes = ScriptOf(t).writes
  BY DEF Runs
<1>2. /\ t = "calibration" => Runs(t, made).prov = prov["oof"]
      /\ t = "readiness" => Runs(t, made).prov = prov["role_metrics"]
      /\ t \notin {"calibration", "readiness"} =>
             Runs(t, made).prov = (UNION {prov[f] : f \in ScriptOf(t).files})
                           \cup {Now(x) : x \in ScriptOf(t).sources \cup {"code"}}
  BY DEF Runs
<1>3. MetricsOf(t) \in Metrics => Runs(t, made).ident = Identity(MetricsOf(t))
  BY DEF Runs
<1>4. Runs(t, made).prov # {}
  <2>1. CASE t = "calibration"
    BY <1>2, <2>1, ScriptReads DEF Readable
  <2>2. CASE t = "readiness"
    BY <1>2, <2>2, ScriptReads DEF Readable
  <2>3. CASE t \notin {"calibration", "readiness"}
    <3>1. Now("code") \in {Now(x) : x \in ScriptOf(t).sources \cup {"code"}}
      OBVIOUS
    <3>2. QED
      BY <1>2, <2>3, <3>1
  <2>4. QED
    BY <2>1, <2>2, <2>3
<1>5. QED
  BY <1>1, <1>2, <1>3, <1>4

(* The steps, by what they do to the files and to the script. *)
Still == UNCHANGED <<now, prov, torn, newer, ident, job, crossed, cut>>

Begins(t, made) ==
    /\ job = NoJob
    /\ Readable(ScriptOf(t))
    /\ job' = Runs(t, made)
    /\ UNCHANGED <<now, prov, torn, newer, ident, crossed, cut>>

LEMMA StepCases ==
    ASSUME Shape, [Next]_vars
    PROVE  \/ Still
           \/ \E s \in Source, pop \in BOOLEAN : Edits(s, pop)
           \/ \E model \in {prov["readiness"], {}} : Certify(model)
           \/ \E t \in Target, made \in BOOLEAN : Begins(t, made)
           \/ Writes
           \/ Killed
           \/ \E f \in File : Removes(f)
<1>1. (\E goal \in Goals : MakeStarts(goal)) => Still
  BY DEF MakeStarts, Still, fileVars
<1>2. Skips \/ Fails \/ MakeEnds => Still
  BY DEF Skips, Fails, MakeEnds, Still, fileVars
<1>3. Starts => \E t \in Target, made \in BOOLEAN : Begins(t, made)
  <2> SUFFICES ASSUME Starts
               PROVE  \E t \in Target, made \in BOOLEAN : Begins(t, made)
    OBVIOUS
  <2>1. make.left \in Seq(Target) /\ make.left # <<>>
    BY DEF Shape, MakeShape, Starts
  <2>2. Head(make.left) \in Target
    BY <2>1, TailFacts
  <2>3. Begins(Head(make.left), TRUE)
    BY DEF Starts, Begins, fileVars
  <2>4. QED
    BY <2>2, <2>3
<1>4. ASSUME NEW t \in Metrics, Forces(t)
      PROVE  \E u \in Target, made \in BOOLEAN : Begins(u, made)
  <2>1. Begins(t, FALSE) /\ t \in Target
    BY <1>4, FilesAre DEF Forces, Begins, fileVars
  <2>2. QED
    BY <2>1
<1>5. UNCHANGED vars => Still
  BY DEF vars, Still
<1>6. QED
  BY <1>1, <1>2, <1>3, <1>4, <1>5 DEF Next

(* A file is written, or torn by a kill. *)
Puts(f, p) ==
    /\ job # NoJob /\ f = Head(job.writes)
    /\ prov' = [prov EXCEPT ![f] = p]
    /\ newer' = Touched(f)

LEMMA PutFacts ==
    ASSUME Shape, NEW f, NEW p, Puts(f, p)
    PROVE  /\ job.target \in Target /\ f \in Written(job.target) /\ f \in File
           /\ DOMAIN prov' = File /\ prov'[f] = p
           /\ \A g \in File : g # f => prov'[g] = prov[g]
           /\ DOMAIN newer' = Target
           /\ \A t \in Target : t # f => /\ newer[t] \subseteq newer'[t]
                                         /\ f \in Prereq(t, TRUE) => f \in newer'[t]
           /\ \A t \in Target : t = f => newer'[t] = {}
           /\ \A t \in Target : newer'[t] \subseteq newer[t] \cup ({f} \cap Prereq(t, TRUE))
           /\ \A t \in Target : newer'[t] \subseteq Prereq(t, TRUE)
<1>1. FileShape
  BY DEF Shape
<1>2. /\ job.target \in Target /\ job.writes \in Seq(File) /\ job.writes # <<>>
      /\ Members(job.writes) \subseteq Written(job.target)
  BY DEF Shape, JobShape, Puts
<1>3. f \in Members(job.writes) /\ f \in File
  BY <1>2, TailFacts DEF Puts
<1>4. DOMAIN prov' = File /\ prov'[f] = p /\ \A g \in File : g # f => prov'[g] = prov[g]
  BY <1>1, <1>3 DEF Puts, FileShape
<1>5. newer' = Touched(f)
  BY DEF Puts
<1>6. QED
  BY <1>1, <1>2, <1>3, <1>4, <1>5, TouchedFacts

(* The script goes on, or this was its last file. *)
Remains ==
    /\ "writes" \in DOMAIN job' /\ job'.writes = Tail(job.writes) /\ Tail(job.writes) # <<>>
    /\ job'.target = job.target /\ job'.prov = job.prov /\ job'.ident = job.ident
    /\ job'.made = job.made
    /\ UNCHANGED <<make, cut>>

Finishes ==
    /\ job' = NoJob
    /\ Members(job.writes) = {Head(job.writes)} /\ Head(job.writes) = LastOf(job.target)
    /\ make' = IF job.made THEN Advanced ELSE make
    /\ cut' = cut \ {MetricsOf(job.target)}

LEMMA WritesFacts ==
    ASSUME Shape, Writes
    PROVE  /\ Puts(Head(job.writes), job.prov)
           /\ torn' = torn \ {Head(job.writes)}
           /\ DOMAIN ident' = Metrics
           /\ \A m \in Metrics :
                 ident'[m] = IF m = Head(job.writes) THEN job.ident ELSE ident[m]
           /\ Remains \/ Finishes
           /\ UNCHANGED <<now, settled, crossed>>
<1> DEFINE f == Head(job.writes)
<1>1. /\ prov' = [prov EXCEPT ![f] = job.prov] /\ torn' = torn \ {f} /\ newer' = Touched(f)
      /\ ident' = (IF f \in Metrics THEN [ident EXCEPT ![f] = job.ident] ELSE ident)
      /\ job # NoJob
      /\ UNCHANGED <<now, settled, crossed>>
  BY DEF Writes
<1>2. /\ job.writes \in Seq(File) /\ job.writes # <<>> /\ "writes" \in DOMAIN job
      /\ job.writes[Len(job.writes)] = LastOf(job.target)
      /\ DOMAIN ident = Metrics
  BY <1>1 DEF Shape, JobShape, FileShape
<1>3. Len(job.writes) > 1 => Remains
  <2> SUFFICES ASSUME Len(job.writes) > 1
               PROVE  Remains
    OBVIOUS
  <2>1. job' = [job EXCEPT !.writes = Tail(job.writes)] /\ UNCHANGED <<make, cut>>
    BY DEF Writes
  <2>2. Tail(job.writes) # <<>>
    BY <1>2, TailFacts
  <2>3. QED
    BY <1>2, <2>1, <2>2 DEF Remains
<1>4. ~(Len(job.writes) > 1) => Finishes
  <2> SUFFICES ASSUME ~(Len(job.writes) > 1)
               PROVE  Finishes
    OBVIOUS
  <2>1. /\ job' = NoJob
        /\ make' = IF job.made THEN Advanced ELSE make
        /\ cut' = cut \ {MetricsOf(job.target)}
    BY DEF Writes
  <2>2. Members(job.writes) = {f} /\ job.writes[Len(job.writes)] = f
    BY <1>2, TailFacts
  <2>3. QED
    BY <1>2, <2>1, <2>2 DEF Finishes
<1>5. DOMAIN ident' = Metrics
      /\ \A m \in Metrics : ident'[m] = IF m = f THEN job.ident ELSE ident[m]
  BY <1>1, <1>2
<1>6. QED
  BY <1>1, <1>3, <1>4, <1>5 DEF Puts

LEMMA KilledFacts ==
    ASSUME Killed
    PROVE  /\ job' = NoJob /\ make' = NoMake
           /\ cut \subseteq cut'
           /\ MetricsOf(job.target) \in Metrics => MetricsOf(job.target) \in cut'
           /\ UNCHANGED <<now, ident, settled, crossed>>
           /\ \/ UNCHANGED <<prov, torn, newer>>
              \/ /\ Head(job.writes) \in InPlace
                 /\ Puts(Head(job.writes), {})
                 /\ torn' = torn \cup {Head(job.writes)}
BY DEF Killed, Puts

LEMMA RemovesFacts ==
    ASSUME Shape, NEW f \in File, Removes(f)
    PROVE  /\ DOMAIN prov' = File
           /\ \A g \in File : g # "export" => prov'[g] = prov[g]
           /\ prov'["export"] \in {prov["export"], {}}
           /\ torn' \subseteq torn
           /\ UNCHANGED <<now, newer, ident, job, crossed, cut>>
<1>1. f \in torn \cup {"export"} /\ prov' = [prov EXCEPT ![f] = {}] /\ torn' = torn \ {f}
  BY DEF Removes
<1>2. DOMAIN prov = File /\ \A g \in torn : prov[g] = {}
  BY DEF Shape, FileShape
<1>3. DOMAIN prov' = File /\ \A g \in File : g # f => prov'[g] = prov[g]
  BY <1>1, <1>2
<1>4. prov'[f] = {}
  BY <1>1, <1>2
<1>5. "export" \in File
  BY FilesAre
<1>6. UNCHANGED <<now, newer, ident, job, crossed, cut>>
  BY DEF Removes
<1>7. QED
  BY <1>1, <1>2, <1>3, <1>4, <1>5, <1>6

LEMMA ShapeInit == Init => Shape
<1> SUFFICES ASSUME Init PROVE Shape
  OBVIOUS
<1>1. FileShape
  BY DEF Init, FileShape
<1>2. JobShape
  BY DEF Init, JobShape
<1>3. MakeShape
  BY NoJobFacts DEF Init, MakeShape
<1>4. QED
  BY <1>1, <1>2, <1>3 DEF Shape

LEMMA FileShapeStep == Shape /\ [Next]_vars => FileShape'
<1> SUFFICES ASSUME Shape, [Next]_vars
             PROVE  FileShape'
  OBVIOUS
<1> USE DEF FileShape
<1>1. FileShape
  BY DEF Shape
<1>2. CASE Still
  BY <1>1, <1>2 DEF Still
<1>3. ASSUME NEW s \in Source, NEW pop \in BOOLEAN, Edits(s, pop)
      PROVE  FileShape'
  <2>1. newer' = Touched(s) /\ DOMAIN now' = DOMAIN now /\ UNCHANGED <<prov, torn, ident>>
    BY <1>3 DEF Edits
  <2>2. QED
    BY <1>1, <2>1, TouchedFacts
<1>4. ASSUME NEW model \in {prov["readiness"], {}}, Certify(model)
      PROVE  FileShape'
  <2>1. newer' = Touched("corpus") /\ UNCHANGED <<now, prov, torn, ident>>
    BY <1>4 DEF Certify
  <2>2. QED
    BY <1>1, <2>1, TouchedFacts
<1>5. ASSUME NEW t \in Target, NEW made \in BOOLEAN, Begins(t, made)
      PROVE  FileShape'
  BY <1>1, <1>5 DEF Begins
<1>6. CASE Writes
  <2>1. /\ Puts(Head(job.writes), job.prov) /\ torn' = torn \ {Head(job.writes)}
        /\ DOMAIN ident' = Metrics /\ now' = now
    BY <1>6, WritesFacts
  <2>2. /\ DOMAIN prov' = File /\ DOMAIN newer' = Target
        /\ \A g \in File : g # Head(job.writes) => prov'[g] = prov[g]
        /\ \A t \in Target : newer'[t] \subseteq Prereq(t, TRUE)
    BY <2>1, PutFacts
  <2>3. QED
    BY <1>1, <2>1, <2>2, FilesAre
<1>7. CASE Killed
  <2>1. UNCHANGED <<now, ident>>
    BY <1>7, KilledFacts
  <2>2. CASE UNCHANGED <<prov, torn, newer>>
    BY <1>1, <2>1, <2>2
  <2>3. CASE /\ Head(job.writes) \in InPlace /\ Puts(Head(job.writes), {})
             /\ torn' = torn \cup {Head(job.writes)}
    <3>1. /\ DOMAIN prov' = File /\ DOMAIN newer' = Target
          /\ prov'[Head(job.writes)] = {}
          /\ \A g \in File : g # Head(job.writes) => prov'[g] = prov[g]
          /\ \A t \in Target : newer'[t] \subseteq Prereq(t, TRUE)
      BY <2>3, PutFacts
    <3>2. QED
      BY <1>1, <2>1, <2>3, <3>1, FilesAre
  <2>4. QED
    BY <1>7, <2>2, <2>3, KilledFacts
<1>8. ASSUME NEW f \in File, Removes(f)
      PROVE  FileShape'
  <2>1. /\ DOMAIN prov' = File
        /\ \A g \in File : g # "export" => prov'[g] = prov[g]
        /\ torn' \subseteq torn
        /\ UNCHANGED <<now, newer, ident>>
    BY <1>8, RemovesFacts
  <2>2. "export" \notin torn
    BY <1>1, FilesAre
  <2>3. QED
    BY <1>1, <2>1, <2>2, FilesAre
<1>9. QED
  BY <1>2, <1>3, <1>4, <1>5, <1>6, <1>7, <1>8, StepCases

(* The script under way is the one make has started, or make waits. *)
LEMMA JobShapeStep == Shape /\ [Next]_vars => JobShape'
<1> SUFFICES ASSUME Shape, [Next]_vars
             PROVE  JobShape'
  OBVIOUS
<1>1. JobShape /\ MakeShape
  BY DEF Shape
<1>2. ASSUME job' = job, make'.left = make.left, make = NoMake => make' = NoMake
      PROVE  JobShape'
  BY <1>1, <1>2 DEF JobShape
<1>3. ASSUME job' = NoJob
      PROVE  JobShape'
  BY <1>3 DEF JobShape
<1>4. ASSUME NEW t \in Target, NEW made \in BOOLEAN, Begins(t, made),
             \/ made /\ make'.left # <<>> /\ Head(make'.left) = t
             \/ ~made /\ make' = NoMake
      PROVE  JobShape'
  <2>1. job' = Runs(t, made) /\ Readable(ScriptOf(t))
    BY <1>4 DEF Begins
  <2>2. /\ "writes" \in DOMAIN job' /\ job'.target = t /\ job'.made = made
        /\ job'.writes = ScriptOf(t).writes /\ job'.prov # {}
    BY <2>1, RunsFacts
  <2>3. QED
    BY <1>4, <2>2, ScriptWrites DEF JobShape
<1>5. ASSUME NEW s \in Source, NEW pop \in BOOLEAN, Edits(s, pop)
      PROVE  JobShape'
  BY <1>1, <1>2, <1>5, ChangeFacts DEF Edits
<1>6. ASSUME NEW model \in {prov["readiness"], {}}, Certify(model)
      PROVE  JobShape'
  BY <1>1, <1>2, <1>6, ChangeFacts DEF Certify
<1>7. ASSUME NEW goal \in Goals, MakeStarts(goal)
      PROVE  JobShape'
  BY <1>3, <1>7 DEF MakeStarts
<1>8. CASE Skips
  BY <1>3, <1>8 DEF Skips
<1>9. CASE Starts
  <2>1. make.left \in Seq(Target) /\ make.left # <<>> /\ make' = make
    BY <1>1, <1>9 DEF MakeShape, Starts
  <2>2. Head(make.left) \in Target
    BY <2>1, TailFacts
  <2>3. Begins(Head(make.left), TRUE)
    BY <1>9 DEF Starts, Begins, fileVars
  <2>4. QED
    BY <1>4, <2>1, <2>2, <2>3
<1>10. CASE Fails
  BY <1>3, <1>10 DEF Fails
<1>11. CASE Writes
  <2>1. Remains \/ Finishes
    BY <1>11, WritesFacts
  <2>2. CASE Remains
    <3>1. /\ job # NoJob /\ job.writes \in Seq(File) /\ job.writes # <<>>
          /\ job.writes[Len(job.writes)] = LastOf(job.target)
          /\ Members(job.writes) \subseteq Written(job.target)
      BY <1>1, <1>11 DEF Writes, JobShape
    <3>2. /\ Tail(job.writes) \in Seq(File)
          /\ Members(Tail(job.writes)) \subseteq Members(job.writes)
      BY <3>1, TailFacts
    <3>3. Tail(job.writes)[Len(Tail(job.writes))] = LastOf(job.target)
      <4>1. Len(job.writes) > 1
        BY <2>2, <3>1, TailFacts DEF Remains
      <4>2. QED
        BY <3>1, <4>1, TailFacts
    <3>4. QED
      BY <1>1, <2>2, <3>1, <3>2, <3>3 DEF JobShape, Remains
  <2>3. CASE Finishes
    BY <1>3, <2>3 DEF Finishes
  <2>4. QED
    BY <2>1, <2>2, <2>3
<1>12. CASE Killed
  BY <1>3, <1>12 DEF Killed
<1>13. CASE MakeEnds
  <2>1. make # NoMake /\ make.left = <<>> /\ job' = job
    BY <1>13 DEF MakeEnds
  <2>2. job = NoJob
    BY <1>1, <2>1 DEF JobShape
  <2>3. QED
    BY <1>3, <2>1, <2>2
<1>14. ASSUME NEW t \in Metrics, Forces(t)
       PROVE  JobShape'
  <2>1. t \in Target /\ Begins(t, FALSE)
    BY <1>14, FilesAre DEF Forces, Begins, fileVars
  <2>2. make' = NoMake
    BY <1>1, <1>14, ChangeFacts DEF Forces
  <2>3. QED
    BY <1>4, <2>1, <2>2
<1>15. ASSUME NEW f \in File, Removes(f)
       PROVE  JobShape'
  BY <1>1, <1>2, <1>15, ChangeFacts DEF Removes
<1>16. CASE UNCHANGED vars
  BY <1>2, <1>16 DEF vars
<1>17. QED
  BY <1>5, <1>6, <1>7, <1>8, <1>9, <1>10, <1>11, <1>12, <1>13, <1>14, <1>15, <1>16 DEF Next

LEMMA ConcatFacts ==
    ASSUME NEW S, NEW s \in Seq(S), NEW t \in Seq(S)
    PROVE  s \o t \in Seq(S) /\ Members(s \o t) = Members(s) \cup Members(t)
<1>1. /\ s \o t \in Seq(S) /\ Len(s \o t) = Len(s) + Len(t)
      /\ \A i \in 1..Len(s) + Len(t) : (s \o t)[i] = IF i <= Len(s) THEN s[i] ELSE t[i - Len(s)]
  BY ConcatProperties
<1>2. Len(s) \in Nat /\ Len(t) \in Nat
  BY LenProperties
<1>3. Members(s \o t) \subseteq Members(s) \cup Members(t)
  <2>1. \A i \in 1..Len(s) + Len(t) :
            (i <= Len(s) => i \in 1..Len(s)) /\ (~(i <= Len(s)) => i - Len(s) \in 1..Len(t))
    BY <1>2
  <2>2. QED
    BY <1>1, <2>1 DEF Members
<1>4. Members(s) \subseteq Members(s \o t)
  <2>1. \A i \in 1..Len(s) : i \in 1..Len(s) + Len(t) /\ i <= Len(s)
    BY <1>2
  <2>2. QED
    BY <1>1, <2>1 DEF Members
<1>5. Members(t) \subseteq Members(s \o t)
  <2>1. \A i \in 1..Len(t) : /\ i + Len(s) \in 1..Len(s) + Len(t)
                             /\ ~(i + Len(s) <= Len(s)) /\ (i + Len(s)) - Len(s) = i
    BY <1>2
  <2>2. \A i \in 1..Len(t) : (s \o t)[i + Len(s)] = t[i]
    BY <1>1, <2>1
  <2>3. QED
    BY <1>1, <2>1, <2>2 DEF Members
<1>6. QED
  BY <1>1, <1>3, <1>4, <1>5

(* No target comes after one that is computed from it. *)
Sorted(s, lp) ==
    \A i, j \in 1..Len(s) : i < j => s[j] \notin Upstream(s[i], lp)

LEMMA SortedConcat ==
    ASSUME NEW S, NEW s \in Seq(S), NEW t \in Seq(S), NEW lp,
           Sorted(s, lp), Sorted(t, lp),
           \A a \in Members(s), b \in Members(t) : b \notin Upstream(a, lp)
    PROVE  Sorted(s \o t, lp)
<1>1. /\ Len(s \o t) = Len(s) + Len(t)
      /\ \A i \in 1..Len(s) + Len(t) : (s \o t)[i] = IF i <= Len(s) THEN s[i] ELSE t[i - Len(s)]
  BY ConcatProperties
<1>2. Len(s) \in Nat /\ Len(t) \in Nat
  BY LenProperties
<1> SUFFICES ASSUME NEW i \in 1..Len(s) + Len(t), NEW j \in 1..Len(s) + Len(t), i < j
             PROVE  (s \o t)[j] \notin Upstream((s \o t)[i], lp)
  BY <1>1 DEF Sorted
<1>3. CASE j <= Len(s)
  <2>1. i \in 1..Len(s) /\ j \in 1..Len(s) /\ i <= Len(s)
    BY <1>2, <1>3
  <2>2. (s \o t)[i] = s[i] /\ (s \o t)[j] = s[j]
    BY <1>1, <1>3, <2>1
  <2>3. QED
    BY <2>1, <2>2 DEF Sorted
<1>4. CASE ~(j <= Len(s)) /\ i <= Len(s)
  <2>1. i \in 1..Len(s) /\ j - Len(s) \in 1..Len(t)
    BY <1>2, <1>4
  <2>2. (s \o t)[i] = s[i] /\ (s \o t)[j] = t[j - Len(s)]
    BY <1>1, <1>4
  <2>3. s[i] \in Members(s) /\ t[j - Len(s)] \in Members(t)
    BY <2>1 DEF Members
  <2>4. QED
    BY <2>2, <2>3
<1>5. CASE ~(i <= Len(s))
  <2>1. /\ i - Len(s) \in 1..Len(t) /\ j - Len(s) \in 1..Len(t)
        /\ i - Len(s) < j - Len(s) /\ ~(j <= Len(s))
    BY <1>2, <1>5
  <2>2. (s \o t)[i] = t[i - Len(s)] /\ (s \o t)[j] = t[j - Len(s)]
    BY <1>1, <1>5, <2>1
  <2>3. QED
    BY <2>1, <2>2 DEF Sorted
<1>6. QED
  BY <1>3, <1>4, <1>5

(* What is left of a sorted order needs nothing of what comes after. *)
LEMMA SortedTail ==
    ASSUME NEW S, NEW s \in Seq(S), s # <<>>, NEW lp, Sorted(s, lp)
    PROVE  /\ Sorted(Tail(s), lp)
           /\ \A b \in Members(Tail(s)) : b \notin Upstream(Head(s), lp)
<1>1. Len(s) \in Nat \ {0}
  BY EmptySeq, LenProperties
<1>2. /\ Head(s) = s[1] /\ Len(Tail(s)) = Len(s) - 1
      /\ \A i \in 1..Len(s) - 1 : Tail(s)[i] = s[i + 1]
  BY HeadTailProperties
<1>3. \A i \in 1..Len(s) - 1 : i + 1 \in 1..Len(s) /\ 1 < i + 1
  BY <1>1
<1>4. 1 \in 1..Len(s)
  BY <1>1
<1>5. \A b \in Members(Tail(s)) : b \notin Upstream(Head(s), lp)
  BY <1>2, <1>3, <1>4 DEF Members, Sorted
<1>6. Sorted(Tail(s), lp)
  <2>1. \A i, j \in 1..Len(s) - 1 : i < j => i + 1 < j + 1
    OBVIOUS
  <2>2. QED
    BY <1>2, <1>3, <2>1 DEF Sorted
<1>7. QED
  BY <1>5, <1>6

(* What a goal builds. *)
AdcFiles == {"split", "metrics", "calibration", "lp_rows", "lp_metrics"}
RoleFiles == {"games", "windows", "role_metrics", "export", "readiness"}
Built(goal) ==
    {"stamp", "silver"}
    \cup (IF goal = "roles" THEN {} ELSE {"adc", "player"} \cup AdcFiles \cup {"dia"})
    \cup RoleFiles

LEMMA FiveFacts ==
    ASSUME NEW a \in Target, NEW b \in Target, NEW c \in Target, NEW d \in Target,
           NEW e \in Target, NEW lp,
           {b, c, d, e} \cap Upstream(a, lp) = {}, {c, d, e} \cap Upstream(b, lp) = {},
           {d, e} \cap Upstream(c, lp) = {}, {e} \cap Upstream(d, lp) = {}
    PROVE  /\ <<a, b, c, d, e>> \in Seq(Target)
           /\ Members(<<a, b, c, d, e>>) = {a, b, c, d, e}
           /\ Sorted(<<a, b, c, d, e>>, lp)
<1> DEFINE s == <<a, b, c, d, e>>
<1>1. /\ Len(s) = 5 /\ s[1] = a /\ s[2] = b /\ s[3] = c /\ s[4] = d /\ s[5] = e
      /\ s \in Seq(Target)
  OBVIOUS
<1> HIDE DEF s
<1>2. Members(s) = {a, b, c, d, e}
  <2>1. 1..5 = {1, 2, 3, 4, 5}
    OBVIOUS
  <2>2. QED
    BY <1>1, <2>1 DEF Members
<1>3. Sorted(s, lp)
  <2> SUFFICES ASSUME NEW i \in 1..5, NEW j \in 1..5, i < j
               PROVE  s[j] \notin Upstream(s[i], lp)
    BY <1>1 DEF Sorted
  <2>1. CASE i = 1
    <3>1. j \in {2, 3, 4, 5}
      BY <2>1
    <3>2. QED
      BY <1>1, <2>1, <3>1
  <2>2. CASE i = 2
    <3>1. j \in {3, 4, 5}
      BY <2>2
    <3>2. QED
      BY <1>1, <2>2, <3>1
  <2>3. CASE i = 3
    <3>1. j \in {4, 5}
      BY <2>3
    <3>2. QED
      BY <1>1, <2>3, <3>1
  <2>4. CASE i = 4
    <3>1. j = 5
      BY <2>4
    <3>2. QED
      BY <1>1, <2>4, <3>1
  <2>5. i \in {1, 2, 3, 4}
    OBVIOUS
  <2>6. QED
    BY <2>1, <2>2, <2>3, <2>4, <2>5
<1>4. QED
  BY <1>1, <1>2, <1>3 DEF s

LEMMA SmallFacts ==
    ASSUME NEW a \in Target, NEW b \in Target, NEW lp, b \notin Upstream(a, lp)
    PROVE  /\ <<a, b>> \in Seq(Target) /\ Members(<<a, b>>) = {a, b} /\ Sorted(<<a, b>>, lp)
           /\ <<a>> \in Seq(Target) /\ Members(<<a>>) = {a} /\ Sorted(<<a>>, lp)
<1>1. \A i, j \in 1..2 : i < j => i = 1 /\ j = 2
  OBVIOUS
<1>2. Sorted(<<a, b>>, lp)
  BY <1>1 DEF Sorted
<1>3. Sorted(<<a>>, lp)
  BY DEF Sorted
<1>4. Members(<<a, b>>) = {a, b} /\ Members(<<a>>) = {a}
  BY DEF Members
<1>5. QED
  BY <1>2, <1>3, <1>4

(* The order make follows is one the graph allows, over all the goal builds. *)
LEMMA OrderFacts ==
    ASSUME NEW goal, NEW lp \in BOOLEAN
    PROVE  /\ Order(goal, lp) \in Seq(Target)
           /\ Members(Order(goal, lp)) = Built(goal)
           /\ Sorted(Order(goal, lp), lp)
<1> DEFINE first == <<"stamp", "silver">>
           datasets == <<"adc", "player">>
           adc == AdcOrder(lp)
           dia == <<"dia">>
<1>1. /\ first \in Seq(Target) /\ Members(first) = {"stamp", "silver"} /\ Sorted(first, lp)
      /\ datasets \in Seq(Target) /\ Members(datasets) = {"adc", "player"} /\ Sorted(datasets, lp)
      /\ dia \in Seq(Target) /\ Members(dia) = {"dia"} /\ Sorted(dia, lp)
  <2>1. /\ "stamp" \in Target /\ "silver" \in Target /\ "adc" \in Target /\ "player" \in Target
        /\ "dia" \in Target
    BY DEF Target
  <2>2. "silver" \notin Upstream("stamp", lp) /\ "player" \notin Upstream("adc", lp)
        /\ "stamp" \notin Upstream("dia", lp)
    BY DEF Upstream
  <2>3. QED
    BY <2>1, <2>2, SmallFacts
<1>2. adc \in Seq(Target) /\ Members(adc) = AdcFiles /\ Sorted(adc, lp)
  <2>1. AdcFiles \subseteq Target
    BY DEF AdcFiles, Target, Metrics
  <2>2. CASE lp
    <3>1. adc = <<"lp_rows", "split", "metrics", "calibration", "lp_metrics">>
      BY <2>2 DEF AdcOrder
    <3>2. /\ {"split", "metrics", "calibration", "lp_metrics"} \cap Upstream("lp_rows", lp) = {}
          /\ {"metrics", "calibration", "lp_metrics"} \cap Upstream("split", lp) = {}
          /\ {"calibration", "lp_metrics"} \cap Upstream("metrics", lp) = {}
          /\ {"lp_metrics"} \cap Upstream("calibration", lp) = {}
      BY <2>2 DEF Upstream
    <3>3. QED
      BY <2>1, <3>1, <3>2, FiveFacts DEF AdcFiles
  <2>3. CASE ~lp
    <3>1. adc = <<"split", "metrics", "calibration", "lp_rows", "lp_metrics">>
      BY <2>3 DEF AdcOrder
    <3>2. /\ {"metrics", "calibration", "lp_rows", "lp_metrics"} \cap Upstream("split", lp) = {}
          /\ {"calibration", "lp_rows", "lp_metrics"} \cap Upstream("metrics", lp) = {}
          /\ {"lp_rows", "lp_metrics"} \cap Upstream("calibration", lp) = {}
          /\ {"lp_metrics"} \cap Upstream("lp_rows", lp) = {}
      BY <2>3 DEF Upstream
    <3>3. QED
      BY <2>1, <3>1, <3>2, FiveFacts DEF AdcFiles
  <2>4. QED
    BY <2>2, <2>3
<1>3. RolesOrder \in Seq(Target) /\ Members(RolesOrder) = RoleFiles /\ Sorted(RolesOrder, lp)
  <2>1. RoleFiles \subseteq Target
    BY DEF RoleFiles, Target, Metrics
  <2>2. /\ {"windows", "role_metrics", "export", "readiness"} \cap Upstream("games", lp) = {}
        /\ {"role_metrics", "export", "readiness"} \cap Upstream("windows", lp) = {}
        /\ {"export", "readiness"} \cap Upstream("role_metrics", lp) = {}
        /\ {"readiness"} \cap Upstream("export", lp) = {}
    BY DEF Upstream
  <2>3. QED
    BY <2>1, <2>2, FiveFacts DEF RoleFiles, RolesOrder
<1>4. Order(goal, lp) =
        (first \o (IF goal = "roles" THEN <<>> ELSE (datasets \o adc) \o dia)) \o RolesOrder
  BY DEF Order
<1>5. \A a \in {"adc", "player"}, b \in AdcFiles : b \notin Upstream(a, lp)
  BY DEF Upstream, AdcFiles
<1>6. \A a \in {"adc", "player"} \cup AdcFiles : "dia" \notin Upstream(a, lp)
  BY DEF Upstream, AdcFiles
<1>7. \A a \in {"stamp", "silver"}, b \in {"adc", "player"} \cup AdcFiles \cup {"dia"} :
          b \notin Upstream(a, lp)
  BY DEF Upstream, AdcFiles
<1>8. \A a \in {"stamp", "silver"} \cup {"adc", "player"} \cup AdcFiles \cup {"dia"},
         b \in RoleFiles : b \notin Upstream(a, lp)
  BY DEF Upstream, AdcFiles, RoleFiles
<1> HIDE DEF first, datasets, adc, dia
<1>9. CASE goal = "roles"
  <2>1. first \o <<>> = first
    BY <1>1, ConcatEmptySeq
  <2>2. Order(goal, lp) = first \o RolesOrder
    BY <1>4, <1>9, <2>1
  <2>3. first \o RolesOrder \in Seq(Target)
        /\ Members(first \o RolesOrder) = {"stamp", "silver"} \cup RoleFiles
    BY <1>1, <1>3, ConcatFacts
  <2>4. Sorted(first \o RolesOrder, lp)
    BY <1>1, <1>3, <1>8, SortedConcat
  <2>5. QED
    BY <1>9, <2>2, <2>3, <2>4 DEF Built
<1>10. CASE goal # "roles"
  <2> DEFINE two == datasets \o adc
             three == two \o dia
             four == first \o three
  <2>1. two \in Seq(Target) /\ Members(two) = {"adc", "player"} \cup AdcFiles
    BY <1>1, <1>2, ConcatFacts
  <2>2. Sorted(two, lp)
    BY <1>1, <1>2, <1>5, SortedConcat
  <2> HIDE DEF two
  <2>3. three \in Seq(Target) /\ Members(three) = {"adc", "player"} \cup AdcFiles \cup {"dia"}
    BY <1>1, <2>1, ConcatFacts
  <2>4. Sorted(three, lp)
    BY <1>1, <1>6, <2>1, <2>2, SortedConcat
  <2> HIDE DEF three
  <2>5. four \in Seq(Target)
        /\ Members(four) = {"stamp", "silver"} \cup ({"adc", "player"} \cup AdcFiles \cup {"dia"})
    BY <1>1, <2>3, ConcatFacts
  <2>6. Sorted(four, lp)
    BY <1>1, <1>7, <2>3, <2>4, SortedConcat
  <2> HIDE DEF four
  <2>7. four \o RolesOrder \in Seq(Target)
        /\ Members(four \o RolesOrder) =
              {"stamp", "silver"} \cup ({"adc", "player"} \cup AdcFiles \cup {"dia"}) \cup RoleFiles
    BY <1>3, <2>5, ConcatFacts
  <2>8. Sorted(four \o RolesOrder, lp)
    BY <1>3, <1>8, <2>5, <2>6, SortedConcat
  <2>9. Order(goal, lp) = four \o RolesOrder
    BY <1>4, <1>10 DEF four, three, two
  <2>10. QED
    BY <1>10, <2>7, <2>8, <2>9 DEF Built
<1>11. QED
  BY <1>9, <1>10

LEMMA MakeShapeStep == Shape /\ [Next]_vars => MakeShape'
<1> SUFFICES ASSUME Shape, [Next]_vars
             PROVE  MakeShape'
  OBVIOUS
<1>1. MakeShape /\ JobShape
  BY DEF Shape
<1>2. <<>> \in Seq(Target)
  BY EmptySeq
<1>3. ASSUME Change
      PROVE  MakeShape'
  BY <1>1, <1>3, ChangeFacts DEF MakeShape
<1>4. ASSUME make' = make, job' = job, settled' = settled
      PROVE  MakeShape'
  BY <1>1, <1>4 DEF MakeShape
<1>5. ASSUME make' = NoMake, job' = NoJob
      PROVE  MakeShape'
  BY <1>2, <1>5, NoJobFacts DEF MakeShape
<1>6. ASSUME make' = Advanced, make.left # <<>>, settled' = settled
      PROVE  MakeShape'
  <2>1. make' = [make EXCEPT !.left = Tail(make.left)]
    BY <1>6 DEF Advanced
  <2>2. {"left", "quiet"} \subseteq DOMAIN make' /\ make'.left = Tail(make.left)
    BY <1>1, <2>1 DEF MakeShape
  <2>3. Tail(make.left) \in Seq(Target)
    BY <1>1, <1>6, TailFacts DEF MakeShape
  <2>4. settled = NoMake
    BY <1>1, <1>6, NoJobFacts DEF MakeShape
  <2>5. QED
    BY <1>6, <2>2, <2>3, <2>4 DEF MakeShape
<1>7. ASSUME NEW s \in Source, NEW pop \in BOOLEAN, Edits(s, pop)
      PROVE  MakeShape'
  BY <1>3, <1>7 DEF Edits
<1>8. ASSUME NEW model \in {prov["readiness"], {}}, Certify(model)
      PROVE  MakeShape'
  BY <1>3, <1>8 DEF Certify
<1>9. ASSUME NEW goal \in Goals, MakeStarts(goal)
      PROVE  MakeShape'
  <2>1. /\ make'.left = Order(goal, Exists("lp_rows")) /\ {"left", "quiet"} \subseteq DOMAIN make'
        /\ settled' = NoMake
    BY <1>9 DEF MakeStarts
  <2>2. Exists("lp_rows") \in BOOLEAN
    BY DEF Exists
  <2>3. Order(goal, Exists("lp_rows")) \in Seq(Target)
    BY <2>2, OrderFacts
  <2>4. QED
    BY <2>1, <2>3 DEF MakeShape
<1>10. CASE Skips
  BY <1>6, <1>10 DEF Skips
<1>11. CASE Starts
  <2>1. make' = make /\ settled' = settled /\ make.left # <<>>
    BY <1>11 DEF Starts
  <2>2. settled = NoMake
    BY <1>1, <2>1, NoJobFacts DEF MakeShape
  <2>3. QED
    BY <1>1, <2>1, <2>2 DEF MakeShape
<1>12. CASE Fails
  BY <1>5, <1>12 DEF Fails
<1>13. CASE Writes
  <2>1. job # NoJob /\ settled' = settled
    BY <1>13 DEF Writes
  <2>2. settled = NoMake
    BY <1>1, <2>1 DEF MakeShape
  <2>3. CASE make' = make
    BY <1>1, <2>1, <2>2, <2>3 DEF MakeShape
  <2>4. CASE job.made /\ make' = Advanced
    <3>1. make.left # <<>>
      BY <1>1, <2>1, <2>4, NoJobFacts DEF JobShape
    <3>2. QED
      BY <1>6, <2>1, <2>4, <3>1
  <2>5. QED
    BY <1>13, <2>3, <2>4, WritesFacts DEF Remains, Finishes
<1>14. CASE Killed
  BY <1>5, <1>14 DEF Killed
<1>15. CASE MakeEnds
  <2>1. make # NoMake /\ make.left = <<>> /\ job' = job /\ make' = NoMake
    BY <1>15 DEF MakeEnds
  <2>2. job = NoJob
    BY <1>1, <2>1 DEF JobShape
  <2>3. QED
    BY <1>5, <2>1, <2>2
<1>16. ASSUME NEW t \in Metrics, Forces(t)
       PROVE  MakeShape'
  BY <1>3, <1>16 DEF Forces
<1>17. ASSUME NEW f \in File, Removes(f)
       PROVE  MakeShape'
  BY <1>3, <1>17 DEF Removes
<1>18. CASE UNCHANGED vars
  BY <1>4, <1>18 DEF vars
<1>19. QED
  BY <1>7, <1>8, <1>9, <1>10, <1>11, <1>12, <1>13, <1>14, <1>15, <1>16, <1>17, <1>18 DEF Next

LEMMA ShapeStep == Shape /\ [Next]_vars => Shape'
BY FileShapeStep, JobShapeStep, MakeShapeStep DEF Shape

-----------------------------------------------------------------------------
(* What a step does to a file that is tied to another.                     *)
JobAfter ==
    \/ job' = NoJob
    \/ job'.target = job.target /\ job'.prov = job.prov /\ job'.ident = job.ident

LEMMA WorkFacts ==
    ASSUME Shape, Writes \/ Killed
    PROVE  /\ JobAfter /\ UNCHANGED <<now, crossed>> /\ job.target \in Target
           /\ \/ UNCHANGED <<prov, newer>>
              \/ \E p \in {{}, job.prov} : Puts(Head(job.writes), p)
<1>1. Writes => JobAfter
  BY WritesFacts DEF Remains, Finishes, JobAfter
<1>2. Killed => JobAfter
  BY KilledFacts DEF JobAfter
<1>3. UNCHANGED <<now, crossed>>
  BY WritesFacts, KilledFacts
<1>4. \/ UNCHANGED <<prov, newer>>
      \/ \E p \in {{}, job.prov} : Puts(Head(job.writes), p)
  BY WritesFacts, KilledFacts
<1>5. job.target \in Target
  BY DEF Shape, JobShape, Writes, Killed
<1>6. QED
  BY <1>1, <1>2, <1>3, <1>4, <1>5

LEMMA OutsideFacts ==
    ASSUME Shape, NEW x \in Source \cup {"corpus"}, newer' = Touched(x)
    PROVE  \A t \in Target : /\ newer[t] \subseteq newer'[t]
                             /\ x \in Prereq(t, TRUE) => x \in newer'[t]
<1>1. \A t \in Target : t # x
  BY FilesAre
<1>2. QED
  BY <1>1, TouchedFacts DEF Shape

(* Something changes outside make, and no script starts or ends. *)
LEMMA ChangesFacts ==
    ASSUME Shape,
           \/ \E s \in Source, pop \in BOOLEAN : Edits(s, pop)
           \/ \E model \in {prov["readiness"], {}} : Certify(model)
    PROVE  /\ UNCHANGED <<prov, torn, ident, job, cut>>
           /\ \A t \in Target : newer[t] \subseteq newer'[t]
           /\ crossed \subseteq crossed'
           /\ \/ now' = now
              \/ \E s \in Source : /\ \A x \in Source : x # s => now'[x] = now[x]
                                   /\ \A t \in Target : s \in Prereq(t, TRUE) => s \in newer'[t]
                                   /\ crossed' = crossed \cup ({<<job.target, s>>} \cap FirstReaders)
<1>1. ASSUME NEW s \in Source, NEW pop \in BOOLEAN, Edits(s, pop)
      PROVE  /\ UNCHANGED <<prov, torn, ident, job, cut>>
             /\ newer' = Touched(s)
             /\ crossed' = crossed \cup ({<<job.target, s>>} \cap FirstReaders)
             /\ \A x \in Source : x # s => now'[x] = now[x]
  BY <1>1 DEF Edits, Shape, FileShape
<1>2. ASSUME NEW model \in {prov["readiness"], {}}, Certify(model)
      PROVE  /\ UNCHANGED <<now, prov, torn, ident, job, cut, crossed>>
             /\ newer' = Touched("corpus")
  BY <1>2 DEF Certify
<1>3. CASE \E s \in Source, pop \in BOOLEAN : Edits(s, pop)
  <2>1. PICK s \in Source, pop \in BOOLEAN : Edits(s, pop)
    BY <1>3
  <2>2. /\ UNCHANGED <<prov, torn, ident, job, cut>>
        /\ newer' = Touched(s)
        /\ crossed' = crossed \cup ({<<job.target, s>>} \cap FirstReaders)
        /\ \A x \in Source : x # s => now'[x] = now[x]
    BY <1>1, <2>1
  <2>3. \A t \in Target : /\ newer[t] \subseteq newer'[t]
                          /\ s \in Prereq(t, TRUE) => s \in newer'[t]
    BY <2>2, OutsideFacts
  <2>4. QED
    BY <2>2, <2>3
<1>4. CASE \E model \in {prov["readiness"], {}} : Certify(model)
  <2>1. /\ UNCHANGED <<now, prov, torn, ident, job, cut, crossed>>
        /\ newer' = Touched("corpus")
    BY <1>2, <1>4
  <2>2. \A t \in Target : newer[t] \subseteq newer'[t]
    BY <2>1, OutsideFacts
  <2>3. QED
    BY <2>1, <2>2
<1>5. QED
  BY <1>3, <1>4

(* As long as make finds nothing newer, a file holds what the files it is  *)
(* computed from hold; the split may have had no LP rows to read.          *)
Holds(l, p) ==
    /\ prov[l[2]] \subseteq p
    /\ l # <<"split", "lp_rows">> => prov[l[2]] # {}

LinkedAt(l) ==
    /\ prov[l[1]] # {} /\ l[2] \notin newer[l[1]] => Holds(l, prov[l[1]])
    /\ l[1] = MetricsOf(job.target) => Holds(l, job.prov)

Linked == \A l \in Link : LinkedAt(l)

LEMMA LinkedStep == Shape /\ Linked /\ [Next]_vars => Linked'
<1> SUFFICES ASSUME Shape, Linked, [Next]_vars
             PROVE  Linked'
  OBVIOUS
<1> SUFFICES ASSUME NEW l \in Link
             PROVE  LinkedAt(l)'
  BY DEF Linked
<1>1. LinkedAt(l)
  BY DEF Linked
<1>2. /\ l[1] \in Target /\ l[2] \in Target /\ l[1] # l[2] /\ l[2] \in Prereq(l[1], TRUE)
      /\ l[1] \in File /\ l[2] \in File /\ l[1] # "export" /\ l[2] # "export"
  BY LinkFacts, FilesAre
<1>3. job' = NoJob => l[1] # MetricsOf(job'.target)
  BY <1>2, NoJobFacts
<1>4. CASE Still
  BY <1>1, <1>4 DEF Still, LinkedAt, Holds
<1>5. ASSUME UNCHANGED <<prov, job>>, newer[l[1]] \subseteq newer'[l[1]]
      PROVE  LinkedAt(l)'
  BY <1>1, <1>5 DEF LinkedAt, Holds
<1>6. CASE \/ \E s \in Source, pop \in BOOLEAN : Edits(s, pop)
           \/ \E model \in {prov["readiness"], {}} : Certify(model)
  BY <1>2, <1>5, <1>6, ChangesFacts
<1>7. ASSUME NEW t \in Target, NEW made \in BOOLEAN, Begins(t, made)
      PROVE  LinkedAt(l)'
  <2>1. /\ job' = Runs(t, made) /\ Readable(ScriptOf(t)) /\ UNCHANGED <<prov, newer>>
    BY <1>7 DEF Begins
  <2>2. job'.target = t
    BY <2>1, RunsFacts
  <2>3. ASSUME l[1] = MetricsOf(t)
        PROVE  Holds(l, job'.prov)
    <3>1. /\ t \notin {"calibration", "readiness"}
          /\ \/ l[2] \in ScriptOf(t).files
             \/ l = <<"split", "lp_rows">> /\ ~Exists("lp_rows")
      BY <2>3, ScriptReads
    <3>2. UNION {prov[f] : f \in ScriptOf(t).files} \subseteq job'.prov
      BY <2>1, <3>1, RunsFacts
    <3>3. CASE l[2] \in ScriptOf(t).files
      <4>1. prov[l[2]] # {}
        BY <2>1, <3>3 DEF Readable
      <4>2. prov[l[2]] \subseteq job'.prov
        BY <3>2, <3>3
      <4>3. QED
        BY <4>1, <4>2 DEF Holds
    <3>4. CASE l = <<"split", "lp_rows">> /\ ~Exists("lp_rows")
      BY <3>4 DEF Holds, Exists
    <3>5. QED
      BY <3>1, <3>3, <3>4
  <2>4. QED
    BY <1>1, <2>1, <2>2, <2>3 DEF LinkedAt, Holds
<1>8. CASE Writes \/ Killed
  <2>1. JobAfter /\ job.target \in Target
    BY <1>8, WorkFacts
  <2>2. CASE UNCHANGED <<prov, newer>>
    BY <1>1, <1>3, <2>1, <2>2 DEF LinkedAt, Holds, JobAfter
  <2>3. ASSUME NEW p \in {{}, job.prov}, Puts(Head(job.writes), p)
        PROVE  LinkedAt(l)'
    <3> DEFINE f == Head(job.writes)
    <3>1. /\ f \in Written(job.target) /\ prov'[f] = p
          /\ \A g \in File : g # f => prov'[g] = prov[g]
          /\ l[1] # f => newer[l[1]] \subseteq newer'[l[1]]
          /\ l[1] # f /\ f \in Prereq(l[1], TRUE) => f \in newer'[l[1]]
      BY <1>2, <2>3, PutFacts
    <3>2. f = l[2] => l[1] # MetricsOf(job.target)
      BY <1>2, <2>1, <3>1, WrittenFacts
    <3>3. f = l[1] => l[1] = MetricsOf(job.target)
      BY <2>1, <3>1, WrittenFacts
    <3> HIDE DEF f
    <3>4. l[1] = MetricsOf(job'.target) => Holds(l, job.prov)'
      BY <1>1, <1>2, <1>3, <2>1, <3>1, <3>2 DEF LinkedAt, Holds, JobAfter
    <3>5. prov'[l[1]] # {} /\ l[2] \notin newer'[l[1]] => Holds(l, prov[l[1]])'
      <4>1. CASE f = l[2]
        BY <1>2, <3>1, <4>1
      <4>2. CASE f = l[1]
        <5>1. Holds(l, job.prov) /\ prov'[l[2]] = prov[l[2]]
          BY <1>1, <1>2, <3>1, <3>3, <4>2 DEF LinkedAt
        <5>2. QED
          BY <2>3, <3>1, <4>2, <5>1 DEF Holds
      <4>3. CASE f # l[1] /\ f # l[2]
        BY <1>1, <1>2, <3>1, <4>3 DEF LinkedAt, Holds
      <4>4. QED
        BY <4>1, <4>2, <4>3
    <3>6. QED
      BY <3>4, <3>5 DEF LinkedAt
  <2>4. QED
    BY <1>8, <2>2, <2>3, WorkFacts
<1>9. ASSUME NEW f \in File, Removes(f)
      PROVE  LinkedAt(l)'
  BY <1>1, <1>2, <1>9, RemovesFacts DEF LinkedAt, Holds
<1>10. QED
  BY <1>4, <1>6, <1>7, <1>8, <1>9, StepCases

(* A version is the present one, or make will see that it is not, or it    *)
(* was overtaken under the script that read it.                            *)
Version(s, clock) == <<s, clock[s].n, clock[s].pop>>
Dated(v, seen, clock, marks) ==
    v = Version(v[1], clock) \/ v[1] \in seen \/ \E c \in marks : c[2] = v[1]

(* What a file adds to the file it is computed from comes from its own     *)
(* sources.                                                                *)
BasedAt(l) ==
    /\ prov[l[1]] # {} /\ l[2] \notin newer[l[1]] =>
           \A v \in prov[l[1]] \ prov[l[2]] :
               v[1] \in Outside(l[1]) /\ Dated(v, newer[l[1]] \cup newer[l[2]], now, crossed)
    /\ l[1] = job.target =>
           \A v \in job.prov \ prov[l[2]] :
               v[1] \in Outside(l[1]) /\ Dated(v, newer[l[2]], now, crossed)

Based == \A l \in Base : BasedAt(l)

(* The silver has the sources of the stamp and its own. *)
Silvered ==
    /\ "stamp" \notin newer["silver"] =>
           \A v \in prov["silver"] :
               /\ v[1] \in {"raw", "code"}
               /\ Dated(v, newer["silver"] \cup newer["stamp"], now, crossed)
    /\ job.target = "silver" =>
           \A v \in job.prov :
               v[1] \in {"raw", "code"} /\ Dated(v, newer["stamp"], now, crossed)

LEMMA DatedKept ==
    ASSUME NEW v, NEW a, NEW b, NEW clock, NEW marks, NEW later, NEW more,
           Dated(v, a, clock, marks), a \subseteq b, marks \subseteq more,
           later[v[1]] = clock[v[1]] \/ v[1] \in b \/ \E c \in more : c[2] = v[1]
    PROVE  Dated(v, b, later, more)
<1>1. CASE later[v[1]] = clock[v[1]]
  BY <1>1 DEF Dated, Version
<1>2. CASE v[1] \in b \/ \E c \in more : c[2] = v[1]
  BY <1>2 DEF Dated
<1>3. QED
  BY <1>1, <1>2

LEMMA BasedStep == Shape /\ Based /\ [Next]_vars => Based'
<1> SUFFICES ASSUME Shape, Based, [Next]_vars
             PROVE  Based'
  OBVIOUS
<1> SUFFICES ASSUME NEW l \in Base
             PROVE  BasedAt(l)'
  BY DEF Based
<1>1. BasedAt(l)
  BY DEF Based
<1>2. l \in Link
  BY DEF Link
<1>3. /\ l[1] \in Target /\ l[2] \in Target /\ l[1] # l[2] /\ l[2] \in Prereq(l[1], TRUE)
      /\ l[1] \in File /\ l[2] \in File /\ l[1] # "export" /\ l[2] # "export"
      /\ l[1] \notin Metrics /\ Outside(l[1]) \subseteq Source
      /\ Outside(l[1]) \subseteq Prereq(l[1], TRUE)
      /\ "code" \in Prereq(l[2], TRUE)
  BY <1>2, LinkFacts, BaseFacts, FilesAre DEF Prereq
<1>4. job' = NoJob => l[1] # job'.target
  BY <1>3, NoJobFacts
<1>5. CASE Still
  BY <1>1, <1>5 DEF Still, BasedAt
<1>6. CASE \/ \E s \in Source, pop \in BOOLEAN : Edits(s, pop)
           \/ \E model \in {prov["readiness"], {}} : Certify(model)
  <2>1. /\ UNCHANGED <<prov, job>> /\ crossed \subseteq crossed'
        /\ newer[l[1]] \subseteq newer'[l[1]] /\ newer[l[2]] \subseteq newer'[l[2]]
        /\ \/ now' = now
           \/ \E s \in Source :
                 /\ \A x \in Source : x # s => now'[x] = now[x]
                 /\ s \in Prereq(l[1], TRUE) => s \in newer'[l[1]]
                 /\ s \in Prereq(l[2], TRUE) => s \in newer'[l[2]]
                 /\ crossed' = crossed \cup ({<<job.target, s>>} \cap FirstReaders)
    BY <1>3, <1>6, ChangesFacts
  <2>2. ASSUME NEW v, v[1] \in Outside(l[1]),
               Dated(v, newer[l[1]] \cup newer[l[2]], now, crossed)
        PROVE  Dated(v, newer'[l[1]] \cup newer'[l[2]], now', crossed')
    <3>1. now'[v[1]] = now[v[1]] \/ v[1] \in newer'[l[1]]
      BY <1>3, <2>1, <2>2
    <3>2. QED
      BY <2>1, <2>2, <3>1, DatedKept
  <2>3. ASSUME NEW v, v[1] \in Outside(l[1]), l[1] = job.target,
               Dated(v, newer[l[2]], now, crossed)
        PROVE  Dated(v, newer'[l[2]], now', crossed')
    <3>1. v[1] # "code" => <<l[1], v[1]>> \in FirstReaders
      BY <2>3 DEF Base, Outside, FirstReaders
    <3>2. now'[v[1]] = now[v[1]] \/ v[1] \in newer'[l[2]] \/ <<l[1], v[1]>> \in crossed'
      BY <1>3, <2>1, <2>3, <3>1
    <3>3. <<l[1], v[1]>> \in crossed' => \E c \in crossed' : c[2] = v[1]
      <4>1. <<l[1], v[1]>>[2] = v[1]
        OBVIOUS
      <4>2. QED
        BY <4>1
    <3>4. QED
      BY <2>1, <2>3, <3>2, <3>3, DatedKept
  <2>4. QED
    BY <1>1, <2>1, <2>2, <2>3 DEF BasedAt
<1>7. ASSUME NEW t \in Target, NEW made \in BOOLEAN, Begins(t, made)
      PROVE  BasedAt(l)'
  <2>1. /\ job' = Runs(t, made) /\ Readable(ScriptOf(t)) /\ UNCHANGED <<now, prov, newer, crossed>>
    BY <1>7 DEF Begins
  <2>2. job'.target = t
    BY <2>1, RunsFacts
  <2>3. ASSUME l[1] = t, NEW v \in job'.prov, v \notin prov[l[2]]
        PROVE  v[1] \in Outside(l[1]) /\ Dated(v, newer[l[2]], now, crossed)
    <3>1. t \notin {"calibration", "readiness"}
      BY <2>3 DEF Base
    <3>2. /\ ScriptOf(t).files = {l[2]}
          /\ ScriptOf(t).sources \cup {"code"} \subseteq Outside(l[1])
      BY <2>3, ScriptReads
    <3>3. job'.prov = (UNION {prov[f] : f \in ScriptOf(t).files})
                      \cup {Now(x) : x \in ScriptOf(t).sources \cup {"code"}}
      BY <2>1, <3>1, RunsFacts
    <3>4. PICK x \in ScriptOf(t).sources \cup {"code"} : v = Now(x)
      BY <2>3, <3>2, <3>3
    <3>5. v[1] = x /\ v = Version(x, now)
      BY <3>4 DEF Now, Version
    <3>6. QED
      BY <3>2, <3>5 DEF Dated
  <2>4. QED
    BY <1>1, <2>1, <2>2, <2>3 DEF BasedAt
<1>8. CASE Writes \/ Killed
  <2>1. JobAfter /\ job.target \in Target /\ UNCHANGED <<now, crossed>>
    BY <1>8, WorkFacts
  <2>2. CASE UNCHANGED <<prov, newer>>
    BY <1>1, <1>4, <2>1, <2>2 DEF BasedAt, JobAfter
  <2>3. ASSUME NEW p \in {{}, job.prov}, Puts(Head(job.writes), p)
        PROVE  BasedAt(l)'
    <3> DEFINE f == Head(job.writes)
    <3>1. /\ f \in Written(job.target) /\ prov'[f] = p
          /\ \A g \in File : g # f => prov'[g] = prov[g]
          /\ l[1] # f => newer[l[1]] \subseteq newer'[l[1]]
          /\ l[2] # f => newer[l[2]] \subseteq newer'[l[2]]
          /\ l[1] # f /\ f \in Prereq(l[1], TRUE) => f \in newer'[l[1]]
      <4>1. /\ f \in Written(job.target) /\ prov'[f] = p
            /\ \A g \in File : g # f => prov'[g] = prov[g]
            /\ \A t \in Target : t # f => /\ newer[t] \subseteq newer'[t]
                                          /\ f \in Prereq(t, TRUE) => f \in newer'[t]
        BY <2>3, PutFacts
      <4>2. QED
        BY <1>3, <4>1
    <3>2. f = l[2] => l[1] # job.target
      BY <1>2, <1>3, <2>1, <3>1, WrittenFacts
    <3>3. f = l[1] => l[1] = job.target
      BY <1>2, <1>3, <2>1, <3>1, WrittenFacts DEF MetricsOf, Metrics
    <3> HIDE DEF f
    <3>4. ASSUME l[2] # f, NEW v, Dated(v, newer[l[2]], now, crossed)
          PROVE  /\ Dated(v, newer'[l[2]], now', crossed')
                 /\ Dated(v, newer'[l[1]] \cup newer'[l[2]], now', crossed')
      BY <2>1, <3>1, <3>4 DEF Dated
    <3>5. ASSUME l[1] # f, l[2] # f, NEW v,
                 Dated(v, newer[l[1]] \cup newer[l[2]], now, crossed)
          PROVE  Dated(v, newer'[l[1]] \cup newer'[l[2]], now', crossed')
      BY <2>1, <3>1, <3>5 DEF Dated
    <3>6. ASSUME l[1] = job'.target
          PROVE  \A v \in job'.prov \ prov'[l[2]] :
                     v[1] \in Outside(l[1]) /\ Dated(v, newer'[l[2]], now', crossed')
      <4>1. /\ l[1] = job.target /\ job'.prov = job.prov /\ l[2] # f /\ prov'[l[2]] = prov[l[2]]
        BY <1>3, <1>4, <2>1, <3>1, <3>2, <3>6 DEF JobAfter
      <4>2. QED
        BY <1>1, <3>4, <4>1 DEF BasedAt
    <3>7. ASSUME prov'[l[1]] # {}, l[2] \notin newer'[l[1]]
          PROVE  \A v \in prov'[l[1]] \ prov'[l[2]] :
                     /\ v[1] \in Outside(l[1])
                     /\ Dated(v, newer'[l[1]] \cup newer'[l[2]], now', crossed')
      <4>1. f # l[2]
        BY <1>3, <3>1, <3>7
      <4>2. CASE f = l[1]
        <5>1. prov'[l[1]] = job.prov /\ l[1] = job.target /\ prov'[l[2]] = prov[l[2]]
          BY <1>3, <2>3, <3>1, <3>3, <3>7, <4>1, <4>2
        <5>2. QED
          BY <1>1, <3>4, <4>1, <5>1 DEF BasedAt
      <4>3. CASE f # l[1]
        <5>1. /\ prov'[l[1]] = prov[l[1]] /\ prov'[l[2]] = prov[l[2]]
              /\ l[2] \notin newer[l[1]]
          BY <1>3, <3>1, <3>7, <4>1, <4>3
        <5>2. QED
          BY <1>1, <3>5, <3>7, <4>1, <4>3, <5>1 DEF BasedAt
      <4>4. QED
        BY <4>2, <4>3
    <3>8. QED
      BY <3>6, <3>7 DEF BasedAt
  <2>4. QED
    BY <1>8, <2>2, <2>3, WorkFacts
<1>9. ASSUME NEW f \in File, Removes(f)
      PROVE  BasedAt(l)'
  BY <1>1, <1>3, <1>9, RemovesFacts DEF BasedAt
<1>10. QED
  BY <1>5, <1>6, <1>7, <1>8, <1>9, StepCases

(* Which scripts write the files that models and silver are known by. *)
LEMMA WritersAre ==
    \A t \in Target :
        /\ "silver" \in Written(t) => t = "silver"
        /\ "stamp" \in Written(t) => t = "stamp"
        /\ "metrics" \in Written(t) \/ "models" \in Written(t) \/ "oof" \in Written(t)
              => t = "metrics"
        /\ "calibration" \in Written(t) => t = "calibration"
        /\ "role_metrics" \in Written(t) \/ "export" \in Written(t)
              => t \in {"role_metrics", "export"}
        /\ "readiness" \in Written(t) => t = "readiness"
BY DEF Written, Target, Metrics

LEMMA SilveredStep == Shape /\ Silvered /\ [Next]_vars => Silvered'
<1> SUFFICES ASSUME Shape, Silvered, [Next]_vars
             PROVE  Silvered'
  OBVIOUS
<1>1. /\ "silver" \in Target /\ "stamp" \in Target /\ "silver" \in File /\ "stamp" \in File
      /\ "stamp" \in Prereq("silver", TRUE) /\ "raw" \in Prereq("stamp", TRUE)
      /\ "code" \in Prereq("silver", TRUE) /\ {"raw", "code"} \subseteq Source
      /\ "silver" # "stamp" /\ "silver" # "export"
  BY DEF Target, File, Source, Prereq, Upstream, Outside
<1>2. job' = NoJob => job'.target # "silver"
  BY NoJobFacts
<1>3. CASE Still
  BY <1>3 DEF Still, Silvered
<1>4. CASE \/ \E s \in Source, pop \in BOOLEAN : Edits(s, pop)
           \/ \E model \in {prov["readiness"], {}} : Certify(model)
  <2>1. /\ UNCHANGED <<prov, job>> /\ crossed \subseteq crossed'
        /\ newer["silver"] \subseteq newer'["silver"] /\ newer["stamp"] \subseteq newer'["stamp"]
        /\ \/ now' = now
           \/ \E s \in Source :
                 /\ \A x \in Source : x # s => now'[x] = now[x]
                 /\ s = "raw" => s \in newer'["stamp"]
                 /\ s = "code" => s \in newer'["silver"]
                 /\ crossed' = crossed \cup ({<<job.target, s>>} \cap FirstReaders)
    BY <1>1, <1>4, ChangesFacts
  <2>2. ASSUME NEW v, v[1] \in {"raw", "code"},
               Dated(v, newer["silver"] \cup newer["stamp"], now, crossed)
        PROVE  Dated(v, newer'["silver"] \cup newer'["stamp"], now', crossed')
    <3>1. now'[v[1]] = now[v[1]] \/ v[1] \in newer'["silver"] \cup newer'["stamp"]
      BY <1>1, <2>1, <2>2
    <3>2. QED
      BY <2>1, <2>2, <3>1, DatedKept
  <2>3. ASSUME NEW v, v[1] \in {"raw", "code"}, job.target = "silver",
               Dated(v, newer["stamp"], now, crossed)
        PROVE  Dated(v, newer'["stamp"], now', crossed')
    <3>1. <<"silver", "code">> \in FirstReaders
      BY DEF FirstReaders
    <3>2. \/ now'[v[1]] = now[v[1]] \/ v[1] \in newer'["stamp"]
          \/ v[1] = "code" /\ <<"silver", "code">> \in crossed'
      BY <1>1, <2>1, <2>3, <3>1
    <3>3. <<"silver", "code">>[2] = "code"
      OBVIOUS
    <3>4. \/ now'[v[1]] = now[v[1]] \/ v[1] \in newer'["stamp"]
          \/ \E c \in crossed' : c[2] = v[1]
      BY <3>2, <3>3
    <3>5. QED
      BY <2>1, <2>3, <3>4, DatedKept
  <2>4. prov' = prov /\ job' = job /\ newer["silver"] \subseteq newer'["silver"]
    BY <2>1
  <2>5. job'.target = "silver" =>
            \A v \in job'.prov :
                v[1] \in {"raw", "code"} /\ Dated(v, newer'["stamp"], now', crossed')
    BY <2>3, <2>4 DEF Silvered
  <2>6. ASSUME "stamp" \notin newer'["silver"], NEW v \in prov'["silver"]
        PROVE  /\ v[1] \in {"raw", "code"}
               /\ Dated(v, newer'["silver"] \cup newer'["stamp"], now', crossed')
    <3>1. "stamp" \notin newer["silver"] /\ v \in prov["silver"]
      BY <2>4, <2>6
    <3>2. v[1] \in {"raw", "code"} /\ Dated(v, newer["silver"] \cup newer["stamp"], now, crossed)
      BY <3>1 DEF Silvered
    <3>3. QED
      BY <2>2, <3>2
  <2>7. QED
    BY <2>5, <2>6 DEF Silvered
<1>5. ASSUME NEW t \in Target, NEW made \in BOOLEAN, Begins(t, made)
      PROVE  Silvered'
  <2>1. /\ job' = Runs(t, made) /\ Readable(ScriptOf(t)) /\ UNCHANGED <<now, prov, newer, crossed>>
    BY <1>5 DEF Begins
  <2>2. job'.target = t
    BY <2>1, RunsFacts
  <2>3. ASSUME t = "silver", NEW v \in job'.prov
        PROVE  v[1] \in {"raw", "code"} /\ Dated(v, newer["stamp"], now, crossed)
    <3>1. ScriptOf(t).files = {} /\ ScriptOf(t).sources = {"raw"}
      BY <2>3, ScriptReads
    <3>2. job'.prov = (UNION {prov[f] : f \in ScriptOf(t).files})
                      \cup {Now(x) : x \in ScriptOf(t).sources \cup {"code"}}
      BY <2>1, <2>3, RunsFacts
    <3>3. PICK x \in {"raw", "code"} : v = Now(x)
      BY <2>3, <3>1, <3>2
    <3>4. v[1] = x /\ v = Version(x, now)
      BY <3>3 DEF Now, Version
    <3>5. QED
      BY <3>4 DEF Dated
  <2>4. QED
    BY <2>1, <2>2, <2>3 DEF Silvered
<1>6. CASE Writes \/ Killed
  <2>1. JobAfter /\ job.target \in Target /\ UNCHANGED <<now, crossed>>
    BY <1>6, WorkFacts
  <2>2. CASE UNCHANGED <<prov, newer>>
    BY <1>2, <2>1, <2>2 DEF Silvered, JobAfter
  <2>3. ASSUME NEW p \in {{}, job.prov}, Puts(Head(job.writes), p)
        PROVE  Silvered'
    <3> DEFINE f == Head(job.writes)
    <3>1. /\ f \in Written(job.target) /\ prov'[f] = p
          /\ f # "silver" => prov'["silver"] = prov["silver"]
          /\ f # "silver" => newer["silver"] \subseteq newer'["silver"]
          /\ f # "stamp" => newer["stamp"] \subseteq newer'["stamp"]
          /\ f = "stamp" => f \in newer'["silver"]
      <4>1. /\ f \in Written(job.target) /\ prov'[f] = p
            /\ \A g \in File : g # f => prov'[g] = prov[g]
            /\ \A t \in Target : t # f => /\ newer[t] \subseteq newer'[t]
                                          /\ f \in Prereq(t, TRUE) => f \in newer'[t]
        BY <2>3, PutFacts
      <4>2. QED
        BY <1>1, <4>1
    <3>2. (f = "silver" => job.target = "silver") /\ (f = "stamp" => job.target = "stamp")
      BY <2>1, <3>1, WritersAre
    <3> HIDE DEF f
    <3>3. ASSUME f # "stamp", NEW v, Dated(v, newer["stamp"], now, crossed)
          PROVE  /\ Dated(v, newer'["stamp"], now', crossed')
                 /\ Dated(v, newer'["silver"] \cup newer'["stamp"], now', crossed')
      BY <2>1, <3>1, <3>3 DEF Dated
    <3>4. ASSUME f # "stamp", f # "silver", NEW v,
                 Dated(v, newer["silver"] \cup newer["stamp"], now, crossed)
          PROVE  Dated(v, newer'["silver"] \cup newer'["stamp"], now', crossed')
      BY <2>1, <3>1, <3>4 DEF Dated
    <3>5. ASSUME job'.target = "silver"
          PROVE  \A v \in job'.prov :
                     v[1] \in {"raw", "code"} /\ Dated(v, newer'["stamp"], now', crossed')
      <4>1. job.target = "silver" /\ job'.prov = job.prov /\ f # "stamp"
        BY <1>1, <1>2, <2>1, <3>2, <3>5 DEF JobAfter
      <4>2. QED
        BY <3>3, <4>1 DEF Silvered
    <3>6. ASSUME "stamp" \notin newer'["silver"]
          PROVE  \A v \in prov'["silver"] :
                     /\ v[1] \in {"raw", "code"}
                     /\ Dated(v, newer'["silver"] \cup newer'["stamp"], now', crossed')
      <4>1. f # "stamp"
        BY <3>1, <3>6
      <4>2. CASE f = "silver"
        <5>1. prov'["silver"] \subseteq job.prov /\ job.target = "silver"
          BY <2>3, <3>1, <3>2, <4>2
        <5>2. QED
          BY <3>3, <4>1, <5>1 DEF Silvered
      <4>3. CASE f # "silver"
        BY <3>1, <3>4, <3>6, <4>1, <4>3 DEF Silvered
      <4>4. QED
        BY <4>2, <4>3
    <3>7. QED
      BY <3>5, <3>6 DEF Silvered
  <2>4. QED
    BY <1>6, <2>2, <2>3, WorkFacts
<1>7. ASSUME NEW f \in File, Removes(f)
      PROVE  Silvered'
  <2>1. prov'["silver"] = prov["silver"] /\ UNCHANGED <<now, newer, job, crossed>>
    BY <1>1, <1>7, RemovesFacts
  <2>2. QED
    BY <2>1 DEF Silvered
<1>8. QED
  BY <1>3, <1>4, <1>5, <1>6, <1>7, StepCases

(* The metrics name the present dataset, as long as none of its files is   *)
(* newer and no change of the code is about to remake one.                 *)
Moved(m) == \E u \in Inputs(m) : "code" \in newer[u]

NamedAt(m) ==
    /\ prov[m] # {} /\ Inputs(m) \cap newer[m] = {} => ident[m] = Identity(m) \/ Moved(m)
    /\ m = MetricsOf(job.target) => job.ident = Identity(m) \/ Moved(m)

Named ==
    /\ \A m \in Metrics : NamedAt(m)
    /\ MetricsOf(job.target) = "role_metrics" /\ "role_metrics" \notin Members(job.writes) =>
           ident["role_metrics"] = job.ident

LEMMA IdentityFacts ==
    ASSUME NEW m \in Metrics
    PROVE  (\A u \in Inputs(m) : prov'[u] = prov[u]) /\ now'["code"] = now["code"]
              => Identity(m)' = Identity(m)
<1> SUFFICES ASSUME \A u \in Inputs(m) : prov'[u] = prov[u], now'["code"] = now["code"]
             PROVE  Identity(m)' = Identity(m)
  OBVIOUS
<1>1. Now("code")' = Now("code")
  BY DEF Now
<1>2. CASE m = "metrics"
  BY <1>1, <1>2 DEF Identity, Inputs
<1>3. CASE m = "lp_metrics"
  BY <1>1, <1>3 DEF Identity, Inputs
<1>4. CASE m = "role_metrics"
  BY <1>1, <1>4 DEF Identity, Inputs
<1>5. QED
  BY <1>2, <1>3, <1>4 DEF Metrics

LEMMA InputFacts ==
    \A m \in Metrics :
        /\ m \in Target /\ m \in File /\ m # "export" /\ Inputs(m) # {}
        /\ \A u \in Inputs(m) : /\ <<m, u>> \in Link /\ u \in Target /\ u \in File /\ u # m
                                /\ u # "export" /\ u \notin Metrics
                                /\ u \in Prereq(m, TRUE) /\ "code" \in Prereq(u, TRUE)
<1> SUFFICES ASSUME NEW m \in Metrics
             PROVE  /\ m \in Target /\ m \in File /\ m # "export" /\ Inputs(m) # {}
                    /\ \A u \in Inputs(m) :
                          /\ <<m, u>> \in Link /\ u \in Target /\ u \in File /\ u # m
                          /\ u # "export" /\ u \notin Metrics
                          /\ u \in Prereq(m, TRUE) /\ "code" \in Prereq(u, TRUE)
  OBVIOUS
<1>1. m \in Target /\ m \in File /\ m # "export" /\ Inputs(m) # {}
  BY FilesAre DEF Metrics, Inputs
<1>2. ASSUME NEW u \in Inputs(m)
      PROVE  /\ <<m, u>> \in Link /\ u \in Target /\ u \in File /\ u # m
             /\ u # "export" /\ u \notin Metrics
             /\ u \in Prereq(m, TRUE) /\ "code" \in Prereq(u, TRUE)
  <2> DEFINE l == <<m, u>>
  <2>1. l \in Link /\ l[1] = m /\ l[2] = u
    BY InputsAre
  <2>2. /\ l[2] \in Target /\ l[1] # l[2] /\ l[2] \in Prereq(l[1], TRUE)
        /\ l[2] \notin Metrics \cup {"export", "stamp"} /\ "code" \in Outside(l[2])
    BY <2>1, LinkFacts
  <2>3. QED
    BY <2>1, <2>2, FilesAre DEF Prereq
<1>3. QED
  BY <1>1, <1>2

LEMMA NamedStep == Shape /\ Named /\ [Next]_vars => Named'
<1> SUFFICES ASSUME Shape, Named, [Next]_vars
             PROVE  Named'
  OBVIOUS
<1> DEFINE Role == MetricsOf(job.target) = "role_metrics"
                      /\ "role_metrics" \notin Members(job.writes) =>
                   ident["role_metrics"] = job.ident
<1>1. Role /\ \A m \in Metrics : NamedAt(m)
  BY DEF Named
<1>2. job' = NoJob => MetricsOf(job'.target) \notin Metrics
  BY NoJobFacts, FilesAre
<1>3. "role_metrics" \in Metrics
  BY DEF Metrics
<1>4. \A m \in Metrics : (\A u \in Inputs(m) : newer[u] \subseteq newer'[u]) /\ Moved(m) => Moved(m)'
  BY DEF Moved, Inputs
<1> SUFFICES Role' /\ \A m \in Metrics : NamedAt(m)'
  BY DEF Named
<1>5. CASE Still
  <2>1. Role'
    BY <1>1, <1>5 DEF Still
  <2>2. ASSUME NEW m \in Metrics
        PROVE  NamedAt(m)'
    <3>1. Identity(m)' = Identity(m)
      BY <1>5, <2>2, IdentityFacts DEF Still
    <3>2. QED
      BY <1>1, <1>5, <3>1 DEF Still, NamedAt, Moved
  <2>3. QED
    BY <2>1, <2>2
<1>6. CASE \/ \E s \in Source, pop \in BOOLEAN : Edits(s, pop)
           \/ \E model \in {prov["readiness"], {}} : Certify(model)
  <2>1. /\ UNCHANGED <<prov, ident, job>>
        /\ \A t \in Target : newer[t] \subseteq newer'[t]
        /\ \/ now'["code"] = now["code"]
           \/ \A t \in Target : "code" \in Prereq(t, TRUE) => "code" \in newer'[t]
    BY <1>6, ChangesFacts DEF Source
  <2>2. Role'
    BY <1>1, <2>1
  <2>3. ASSUME NEW m \in Metrics
        PROVE  NamedAt(m)'
    <3>1. Moved(m) => Moved(m)'
      BY <1>4, <2>1, InputFacts
    <3>2. Identity(m)' = Identity(m) \/ Moved(m)'
      <4>1. CASE now'["code"] = now["code"]
        BY <2>1, <4>1, IdentityFacts
      <4>2. CASE \A t \in Target : "code" \in Prereq(t, TRUE) => "code" \in newer'[t]
        BY <4>2, InputFacts DEF Moved
      <4>3. QED
        BY <2>1, <4>1, <4>2
    <3>3. m \in Target
      BY InputFacts
    <3>4. QED
      BY <1>1, <2>1, <3>1, <3>2, <3>3 DEF NamedAt
  <2>4. QED
    BY <2>2, <2>3
<1>7. ASSUME NEW t \in Target, NEW made \in BOOLEAN, Begins(t, made)
      PROVE  Role' /\ \A m \in Metrics : NamedAt(m)'
  <2>1. /\ job' = Runs(t, made) /\ Readable(ScriptOf(t)) /\ UNCHANGED <<now, prov, newer, ident>>
    BY <1>7 DEF Begins
  <2>2. /\ job'.target = t /\ job'.writes = ScriptOf(t).writes
        /\ MetricsOf(t) \in Metrics => job'.ident = Identity(MetricsOf(t))
    BY <2>1, RunsFacts
  <2>3. Role'
    <3>1. Members(job'.writes) = Written(t)
      BY <2>2, ScriptWrites
    <3>2. MetricsOf(t) = "role_metrics" => "role_metrics" \in Written(t)
      BY DEF MetricsOf, Written
    <3>3. QED
      BY <2>2, <3>1, <3>2
  <2>4. ASSUME NEW m \in Metrics
        PROVE  NamedAt(m)'
    <3>1. Identity(m)' = Identity(m) /\ Moved(m)' = Moved(m)
      BY <2>1, IdentityFacts DEF Moved
    <3>2. QED
      BY <1>1, <2>1, <2>2, <3>1 DEF NamedAt
  <2>5. QED
    BY <2>3, <2>4
<1>8. CASE Writes \/ Killed
  <2> DEFINE f == Head(job.writes)
  <2>1. JobAfter /\ job.target \in Target /\ UNCHANGED <<now, crossed>>
    BY <1>8, WorkFacts
  <2>2. ASSUME NEW m \in Metrics, UNCHANGED <<prov, newer, ident>>
        PROVE  NamedAt(m)'
    <3>1. Identity(m)' = Identity(m) /\ Moved(m)' = Moved(m)
      BY <2>1, <2>2, IdentityFacts DEF Moved
    <3>2. QED
      BY <1>1, <1>2, <2>1, <2>2, <3>1 DEF NamedAt, JobAfter
  <2>3. ASSUME NEW m \in Metrics, NEW p \in {{}, job.prov}, Puts(f, p),
               f = m /\ p # {} => ident'[m] = job.ident,
               f # m => ident'[m] = ident[m]
        PROVE  NamedAt(m)'
    <3> HIDE DEF f
    <3>1. /\ f \in Written(job.target) /\ prov'[f] = p
          /\ \A g \in File : g # f => prov'[g] = prov[g]
          /\ \A t \in Target : t # f => /\ newer[t] \subseteq newer'[t]
                                        /\ f \in Prereq(t, TRUE) => f \in newer'[t]
      BY <2>3, PutFacts
    <3>2. /\ m \in Target /\ m \in File
          /\ \A u \in Inputs(m) : /\ <<m, u>> \in Link /\ u \in Target /\ u \in File /\ u # m
                                  /\ u \in Prereq(m, TRUE)
      BY InputFacts
    <3>3. m = MetricsOf(job.target) => f \notin Inputs(m)
      <4> SUFFICES ASSUME m = MetricsOf(job.target), f \in Inputs(m)
                   PROVE  FALSE
        OBVIOUS
      <4>1. <<m, f>> \in Link /\ <<m, f>>[2] = f
        BY <3>2
      <4>2. f = job.target /\ MetricsOf(job.target) = job.target
        BY <2>1, <3>1, <4>1, WrittenFacts
      <4>3. QED
        BY <3>2, <4>2
    <3>4. f = m => m = MetricsOf(job.target)
      BY <2>1, <3>1, WrittenFacts
    <3>5. f \notin Inputs(m) => /\ Identity(m)' = Identity(m)
                                /\ Moved(m) => Moved(m)'
      <4> SUFFICES ASSUME f \notin Inputs(m)
                   PROVE  /\ Identity(m)' = Identity(m)
                          /\ Moved(m) => Moved(m)'
        OBVIOUS
      <4>1. \A u \in Inputs(m) : prov'[u] = prov[u] /\ newer[u] \subseteq newer'[u]
        BY <3>1, <3>2
      <4>2. Identity(m)' = Identity(m)
        BY <2>1, <4>1, IdentityFacts
      <4>3. QED
        BY <1>4, <4>1, <4>2
    <3>6. m = MetricsOf(job'.target) => job'.ident = Identity(m)' \/ Moved(m)'
      <4> SUFFICES ASSUME m = MetricsOf(job'.target)
                   PROVE  job'.ident = Identity(m)' \/ Moved(m)'
        OBVIOUS
      <4>1. m = MetricsOf(job.target) /\ job'.ident = job.ident
        BY <1>2, <2>1 DEF JobAfter
      <4>2. QED
        BY <1>1, <3>3, <3>5, <4>1 DEF NamedAt
    <3>7. ASSUME prov'[m] # {}, Inputs(m) \cap newer'[m] = {}
          PROVE  ident'[m] = Identity(m)' \/ Moved(m)'
      <4>1. f \notin Inputs(m)
        BY <3>1, <3>2, <3>7
      <4>2. CASE f = m
        <5>1. ident'[m] = job.ident
          BY <2>3, <3>1, <3>7, <4>2
        <5>2. job.ident = Identity(m) \/ Moved(m)
          BY <1>1, <3>4, <4>2 DEF NamedAt
        <5>3. QED
          BY <3>5, <4>1, <5>1, <5>2
      <4>3. CASE f # m
        <5>1. /\ prov'[m] = prov[m] /\ newer[m] \subseteq newer'[m] /\ ident'[m] = ident[m]
          BY <2>3, <3>1, <3>2, <4>3
        <5>2. ident[m] = Identity(m) \/ Moved(m)
          BY <1>1, <3>7, <5>1 DEF NamedAt
        <5>3. QED
          BY <3>5, <4>1, <5>1, <5>2
      <4>4. QED
        BY <4>2, <4>3
    <3>8. QED
      BY <3>6, <3>7 DEF NamedAt
  <2>4. CASE Writes
    <3>1. /\ Puts(f, job.prov)
          /\ \A m \in Metrics : ident'[m] = IF m = f THEN job.ident ELSE ident[m]
          /\ Remains \/ Finishes
      BY <2>4, WritesFacts
    <3>2. \A m \in Metrics : NamedAt(m)'
      BY <2>3, <3>1
    <3>3. Role'
      <4>1. CASE Finishes
        BY <1>2, <1>3, <4>1 DEF Finishes
      <4>2. CASE Remains
        <5>1. job.writes \in Seq(File) /\ job.writes # <<>>
          BY <2>4 DEF Shape, JobShape, Writes
        <5>2. Members(job.writes) \subseteq {f} \cup Members(Tail(job.writes))
          BY <5>1, TailFacts
        <5>3. QED
          BY <1>1, <1>3, <3>1, <4>2, <5>2 DEF Remains
      <4>3. QED
        BY <3>1, <4>1, <4>2
    <3>4. QED
      BY <3>2, <3>3
  <2>5. CASE Killed
    <3>1. /\ job' = NoJob /\ ident' = ident
          /\ UNCHANGED <<prov, newer>> \/ Puts(f, {})
      BY <2>5, KilledFacts
    <3>2. Role'
      BY <1>2, <1>3, <3>1
    <3>3. \A m \in Metrics : NamedAt(m)'
      BY <2>2, <2>3, <3>1
    <3>4. QED
      BY <3>2, <3>3
  <2>6. QED
    BY <1>8, <2>4, <2>5
<1>9. ASSUME NEW f \in File, Removes(f)
      PROVE  Role' /\ \A m \in Metrics : NamedAt(m)'
  <2>1. /\ \A g \in File : g # "export" => prov'[g] = prov[g]
        /\ UNCHANGED <<now, newer, ident, job>>
    BY <1>9, RemovesFacts
  <2>2. ASSUME NEW m \in Metrics
        PROVE  NamedAt(m)'
    <3>1. prov'[m] = prov[m] /\ \A u \in Inputs(m) : prov'[u] = prov[u]
      BY <2>1, InputFacts
    <3>2. Identity(m)' = Identity(m) /\ Moved(m)' = Moved(m)
      BY <2>1, <3>1, IdentityFacts DEF Moved
    <3>3. QED
      BY <1>1, <2>1, <3>1, <3>2 DEF NamedAt
  <2>3. QED
    BY <1>1, <2>1, <2>2
<1>10. QED
  BY <1>5, <1>6, <1>7, <1>8, <1>9, StepCases

(* The models of a rank, their predictions and the calibration.            *)
Trained ==
    /\ job.target # "metrics" /\ "metrics" \notin cut =>
           /\ prov["oof"] = prov["models"]
           /\ prov["calibration"] # {} /\ "metrics" \notin newer["calibration"] =>
                  prov["calibration"] = prov["oof"]
    /\ job.target = "metrics" =>
           /\ "models" \notin Members(job.writes) => prov["models"] = job.prov
           /\ "oof" \notin Members(job.writes) => prov["oof"] = job.prov
    /\ job.target = "calibration" => job.prov = prov["oof"]

(* The model of a role, its metrics and its readiness.                     *)
RoleTargets == {"role_metrics", "export"}
Measured ==
    /\ job.target \notin RoleTargets /\ "role_metrics" \notin cut /\ prov["export"] # {} =>
           prov["export"] = prov["role_metrics"]
    /\ job.target \in RoleTargets /\ "role_metrics" \notin Members(job.writes) =>
           prov["role_metrics"] = job.prov
    /\ prov["readiness"] # {} /\ "role_metrics" \notin newer["readiness"] =>
           prov["readiness"] = prov["role_metrics"]
    /\ job.target = "readiness" => job.prov = prov["role_metrics"]

(* The first file of a script leaves the others to be written. *)
LEMMA LeftFacts ==
    ASSUME Shape, job # NoJob
    PROVE  Members(job.writes) \subseteq {Head(job.writes)} \cup Members(Tail(job.writes))
<1>1. job.writes \in Seq(File) /\ job.writes # <<>>
  BY DEF Shape, JobShape
<1>2. QED
  BY <1>1, TailFacts

LEMMA TrainedStep == Shape /\ Trained /\ [Next]_vars => Trained'
<1> SUFFICES ASSUME Shape, Trained, [Next]_vars
             PROVE  Trained'
  OBVIOUS
<1> DEFINE f == Head(job.writes)
<1>1. /\ "calibration" \in Target /\ "metrics" \in Prereq("calibration", TRUE)
      /\ {"models", "oof", "calibration"} \subseteq File
      /\ \A t \in Target : MetricsOf(t) = "metrics" <=> t = "metrics"
  BY FilesAre DEF Target, Prereq, Upstream, MetricsOf
<1>2. NoJob.target \notin {"metrics", "calibration"}
  BY NoJobFacts
<1>3. CASE Still
  BY <1>3 DEF Still, Trained
<1>4. CASE \/ \E s \in Source, pop \in BOOLEAN : Edits(s, pop)
           \/ \E model \in {prov["readiness"], {}} : Certify(model)
  <2>1. UNCHANGED <<prov, job, cut>> /\ newer["calibration"] \subseteq newer'["calibration"]
    BY <1>1, <1>4, ChangesFacts
  <2>2. QED
    BY <2>1 DEF Trained
<1>5. ASSUME NEW t \in Target, NEW made \in BOOLEAN, Begins(t, made)
      PROVE  Trained'
  <2>1. /\ job' = Runs(t, made) /\ Readable(ScriptOf(t)) /\ job = NoJob
        /\ UNCHANGED <<prov, newer, cut>>
    BY <1>5 DEF Begins
  <2>2. /\ job'.target = t /\ job'.writes = ScriptOf(t).writes
        /\ t = "calibration" => job'.prov = prov["oof"]
    BY <2>1, RunsFacts
  <2>3. t = "metrics" => {"models", "oof"} \subseteq Members(job'.writes)
    BY <2>2, ScriptWrites DEF Written
  <2>4. QED
    BY <1>2, <2>1, <2>2, <2>3 DEF Trained
<1>6. ASSUME NEW p, Puts(f, p)
      PROVE  /\ job.target \in Target /\ f \in Written(job.target) /\ prov'[f] = p
             /\ \A g \in {"models", "oof", "calibration"} : g # f => prov'[g] = prov[g]
             /\ f # "calibration" => newer["calibration"] \subseteq newer'["calibration"]
             /\ f = "metrics" => f \in newer'["calibration"]
  <2> HIDE DEF f
  <2>1. /\ job.target \in Target /\ f \in Written(job.target) /\ prov'[f] = p
        /\ \A g \in File : g # f => prov'[g] = prov[g]
        /\ \A t \in Target : t # f => /\ newer[t] \subseteq newer'[t]
                                      /\ f \in Prereq(t, TRUE) => f \in newer'[t]
    BY <1>6, PutFacts
  <2>2. QED
    BY <1>1, <2>1
<1>7. CASE Writes
  <2>1. Puts(f, job.prov) /\ (Remains \/ Finishes)
    BY <1>7, WritesFacts
  <2>2. /\ job.target \in Target /\ f \in Written(job.target) /\ prov'[f] = job.prov
        /\ \A g \in {"models", "oof", "calibration"} : g # f => prov'[g] = prov[g]
        /\ f # "calibration" => newer["calibration"] \subseteq newer'["calibration"]
        /\ f = "metrics" => f \in newer'["calibration"]
    BY <1>6, <2>1
  <2>3. Members(job.writes) \subseteq {f} \cup Members(Tail(job.writes))
    BY <1>7, LeftFacts DEF Writes
  <2>4. /\ f \in {"models", "oof"} => job.target = "metrics"
        /\ f = "calibration" => job.target = "calibration"
    BY <2>2, WritersAre
  <2>5. ASSUME job.target # "metrics", "metrics" \notin cut
        PROVE  /\ prov'["oof"] = prov'["models"]
               /\ prov'["calibration"] # {} /\ "metrics" \notin newer'["calibration"] =>
                      prov'["calibration"] = prov'["oof"]
    <3> HIDE DEF f
    <3>1. prov'["oof"] = prov["oof"] /\ prov'["models"] = prov["models"]
      BY <2>2, <2>4, <2>5
    <3>2. f = "calibration" => prov'["calibration"] = prov["oof"]
      BY <2>2, <2>4 DEF Trained
    <3>3. f # "calibration" => /\ prov'["calibration"] = prov["calibration"]
                               /\ newer["calibration"] \subseteq newer'["calibration"]
      BY <2>2
    <3>4. QED
      BY <2>5, <3>1, <3>2, <3>3 DEF Trained
  <2> HIDE DEF f
  <2>6. CASE Remains
    <3>1. /\ job'.target = job.target /\ job'.prov = job.prov /\ cut' = cut
          /\ Members(job.writes) \subseteq {f} \cup Members(job'.writes)
      BY <2>3, <2>6 DEF Remains
    <3>2. job.target = "metrics" =>
              /\ "models" \notin Members(job'.writes) => prov'["models"] = job'.prov
              /\ "oof" \notin Members(job'.writes) => prov'["oof"] = job'.prov
      BY <2>2, <3>1 DEF Trained
    <3>3. job.target = "calibration" => job'.prov = prov'["oof"]
      BY <2>2, <2>4, <3>1 DEF Trained
    <3>4. QED
      BY <2>5, <3>1, <3>2, <3>3 DEF Trained
  <2>7. CASE Finishes
    <3>1. /\ job' = NoJob /\ cut' = cut \ {MetricsOf(job.target)}
          /\ Members(job.writes) = {f} /\ f = LastOf(job.target)
      BY <2>7 DEF Finishes, f
    <3>2. CASE job.target = "metrics"
      <4>1. f = "metrics" /\ "models" \notin Members(job.writes) /\ "oof" \notin Members(job.writes)
        BY <3>1, <3>2 DEF LastOf
      <4>2. /\ prov'["models"] = job.prov /\ prov'["oof"] = job.prov
            /\ "metrics" \in newer'["calibration"]
        BY <2>2, <3>2, <4>1 DEF Trained
      <4>3. QED
        BY <1>2, <3>1, <4>2 DEF Trained
    <3>3. CASE job.target # "metrics"
      <4>1. "metrics" \notin cut' => "metrics" \notin cut
        BY <1>1, <2>2, <3>1, <3>3
      <4>2. QED
        BY <1>2, <2>5, <3>1, <3>3, <4>1 DEF Trained
    <3>4. QED
      BY <3>2, <3>3
  <2>8. QED
    BY <2>1, <2>6, <2>7
<1>8. CASE Killed
  <2>1. /\ job' = NoJob /\ cut \subseteq cut' /\ job.target \in Target
        /\ MetricsOf(job.target) \in Metrics => MetricsOf(job.target) \in cut'
        /\ UNCHANGED <<prov, newer>> \/ (f \in InPlace /\ Puts(f, {}))
    BY <1>8, KilledFacts, WorkFacts
  <2>2. job.target = "metrics" => "metrics" \in cut'
    BY <1>1, <2>1 DEF Metrics
  <2>3. CASE UNCHANGED <<prov, newer>>
    BY <1>2, <2>1, <2>2, <2>3 DEF Trained
  <2>4. CASE f \in InPlace /\ Puts(f, {})
    <3>1. /\ job.target \in Target /\ f \in Written(job.target)
          /\ \A g \in {"models", "oof", "calibration"} : g # f => prov'[g] = prov[g]
          /\ f # "calibration" => newer["calibration"] \subseteq newer'["calibration"]
      BY <1>6, <2>4
    <3>2. f # "calibration" /\ (f \in {"models", "oof"} => job.target = "metrics")
      BY <2>4, <3>1, FilesAre, WritersAre
    <3> HIDE DEF f
    <3>3. job.target # "metrics" =>
              /\ prov'["models"] = prov["models"] /\ prov'["oof"] = prov["oof"]
              /\ prov'["calibration"] = prov["calibration"]
              /\ newer["calibration"] \subseteq newer'["calibration"]
      BY <3>1, <3>2
    <3>4. QED
      BY <1>2, <2>1, <2>2, <3>3 DEF Trained
  <2>5. QED
    BY <2>1, <2>3, <2>4
<1>9. ASSUME NEW g \in File, Removes(g)
      PROVE  Trained'
  <2>1. /\ prov'["models"] = prov["models"] /\ prov'["oof"] = prov["oof"]
        /\ prov'["calibration"] = prov["calibration"] /\ UNCHANGED <<newer, job, cut>>
    BY <1>1, <1>9, RemovesFacts
  <2>2. QED
    BY <2>1 DEF Trained
<1>10. QED
  BY <1>3, <1>4, <1>5, <1>7, <1>8, <1>9, StepCases

LEMMA MeasuredStep == Shape /\ Measured /\ [Next]_vars => Measured'
<1> SUFFICES ASSUME Shape, Measured, [Next]_vars
             PROVE  Measured'
  OBVIOUS
<1> DEFINE f == Head(job.writes)
           Files == {"role_metrics", "export", "readiness"}
<1>1. /\ "readiness" \in Target /\ "role_metrics" \in Prereq("readiness", TRUE)
      /\ Files \subseteq File /\ Files \cap InPlace = {}
      /\ \A t \in Target : MetricsOf(t) = "role_metrics" <=> t \in RoleTargets
  BY FilesAre DEF Target, Metrics, Prereq, Upstream, MetricsOf, RoleTargets, InPlace
<1>2. NoJob.target \notin RoleTargets \cup {"readiness"}
  BY NoJobFacts, <1>1, FilesAre DEF RoleTargets, Metrics
<1>3. CASE Still
  BY <1>3 DEF Still, Measured
<1>4. CASE \/ \E s \in Source, pop \in BOOLEAN : Edits(s, pop)
           \/ \E model \in {prov["readiness"], {}} : Certify(model)
  <2>1. UNCHANGED <<prov, job, cut>> /\ newer["readiness"] \subseteq newer'["readiness"]
    BY <1>1, <1>4, ChangesFacts
  <2>2. QED
    BY <2>1 DEF Measured
<1>5. ASSUME NEW t \in Target, NEW made \in BOOLEAN, Begins(t, made)
      PROVE  Measured'
  <2>1. /\ job' = Runs(t, made) /\ Readable(ScriptOf(t)) /\ job = NoJob
        /\ UNCHANGED <<prov, newer, cut>>
    BY <1>5 DEF Begins
  <2>2. /\ job'.target = t /\ job'.writes = ScriptOf(t).writes
        /\ t = "readiness" => job'.prov = prov["role_metrics"]
    BY <2>1, RunsFacts
  <2>3. t \in RoleTargets => "role_metrics" \in Members(job'.writes)
    BY <2>2, ScriptWrites DEF Written, RoleTargets
  <2>4. QED
    BY <1>2, <2>1, <2>2, <2>3 DEF Measured
<1>6. ASSUME NEW p, Puts(f, p)
      PROVE  /\ job.target \in Target /\ f \in Written(job.target) /\ prov'[f] = p
             /\ \A g \in Files : g # f => prov'[g] = prov[g]
             /\ f # "readiness" => newer["readiness"] \subseteq newer'["readiness"]
             /\ f = "role_metrics" => f \in newer'["readiness"]
  <2> HIDE DEF f
  <2>1. /\ job.target \in Target /\ f \in Written(job.target) /\ prov'[f] = p
        /\ \A g \in File : g # f => prov'[g] = prov[g]
        /\ \A t \in Target : t # f => /\ newer[t] \subseteq newer'[t]
                                      /\ f \in Prereq(t, TRUE) => f \in newer'[t]
    BY <1>6, PutFacts
  <2>2. QED
    BY <1>1, <2>1
<1>7. CASE Writes
  <2>1. Puts(f, job.prov) /\ (Remains \/ Finishes)
    BY <1>7, WritesFacts
  <2>2. /\ job.target \in Target /\ f \in Written(job.target) /\ prov'[f] = job.prov
        /\ \A g \in Files : g # f => prov'[g] = prov[g]
        /\ f # "readiness" => newer["readiness"] \subseteq newer'["readiness"]
        /\ f = "role_metrics" => f \in newer'["readiness"]
    BY <1>6, <2>1
  <2>3. Members(job.writes) \subseteq {f} \cup Members(Tail(job.writes))
    BY <1>7, LeftFacts DEF Writes
  <2>4. /\ f \in {"role_metrics", "export"} => job.target \in RoleTargets
        /\ f = "readiness" => job.target = "readiness"
    BY <2>2, WritersAre DEF RoleTargets
  <2>5. job.target = "readiness" => job.target \notin RoleTargets
    BY DEF RoleTargets
  <2> HIDE DEF f
  <2>6. ASSUME job.target \notin RoleTargets
        PROVE  prov'["export"] = prov["export"] /\ prov'["role_metrics"] = prov["role_metrics"]
    BY <2>2, <2>4, <2>6
  <2>7. prov'["readiness"] # {} /\ "role_metrics" \notin newer'["readiness"] =>
            prov'["readiness"] = prov'["role_metrics"]
    <3>1. CASE f = "readiness"
      BY <2>2, <2>4, <2>5, <2>6, <3>1 DEF Measured
    <3>2. CASE f = "role_metrics"
      BY <2>2, <3>2
    <3>3. CASE f \notin {"readiness", "role_metrics"}
      BY <2>2, <3>3 DEF Measured
    <3>4. QED
      BY <3>1, <3>2, <3>3
  <2>8. CASE Remains
    <3>1. /\ job'.target = job.target /\ job'.prov = job.prov /\ cut' = cut
          /\ Members(job.writes) \subseteq {f} \cup Members(job'.writes)
      BY <2>3, <2>8 DEF Remains
    <3>2. job.target \in RoleTargets /\ "role_metrics" \notin Members(job'.writes) =>
              prov'["role_metrics"] = job'.prov
      BY <2>2, <3>1 DEF Measured
    <3>3. QED
      BY <2>5, <2>6, <2>7, <3>1, <3>2 DEF Measured
  <2>9. CASE Finishes
    <3>1. /\ job' = NoJob /\ cut' = cut \ {MetricsOf(job.target)}
          /\ Members(job.writes) = {f} /\ f = LastOf(job.target)
      BY <2>9 DEF Finishes, f
    <3>2. CASE job.target \in RoleTargets
      <4>1. f = "export" /\ "role_metrics" \notin Members(job.writes)
        BY <3>1, <3>2 DEF LastOf, RoleTargets
      <4>2. prov'["export"] = job.prov /\ prov'["role_metrics"] = job.prov
        BY <2>2, <3>2, <4>1 DEF Measured
      <4>3. QED
        BY <1>2, <2>7, <3>1, <4>2 DEF Measured
    <3>3. CASE job.target \notin RoleTargets
      <4>1. "role_metrics" \notin cut' => "role_metrics" \notin cut
        BY <1>1, <2>2, <3>1, <3>3
      <4>2. QED
        BY <1>2, <2>6, <2>7, <3>1, <3>3, <4>1 DEF Measured
    <3>4. QED
      BY <3>2, <3>3
  <2>10. QED
    BY <2>1, <2>8, <2>9
<1>8. CASE Killed
  <2>1. /\ job' = NoJob /\ cut \subseteq cut' /\ job.target \in Target
        /\ MetricsOf(job.target) \in Metrics => MetricsOf(job.target) \in cut'
        /\ UNCHANGED <<prov, newer>> \/ (f \in InPlace /\ Puts(f, {}))
    BY <1>8, KilledFacts, WorkFacts
  <2>2. job.target \in RoleTargets => "role_metrics" \in cut'
    BY <1>1, <2>1 DEF Metrics
  <2>3. /\ \A g \in Files : prov'[g] = prov[g]
        /\ newer["readiness"] \subseteq newer'["readiness"]
    <3>1. CASE UNCHANGED <<prov, newer>>
      BY <3>1
    <3>2. CASE f \in InPlace /\ Puts(f, {})
      <4>1. /\ \A g \in Files : g # f => prov'[g] = prov[g]
            /\ f # "readiness" => newer["readiness"] \subseteq newer'["readiness"]
        BY <1>6, <3>2
      <4>2. f \notin Files
        BY <1>1, <3>2
      <4>3. QED
        BY <4>1, <4>2
    <3>3. QED
      BY <2>1, <3>1, <3>2
  <2>4. /\ prov'["role_metrics"] = prov["role_metrics"] /\ prov'["export"] = prov["export"]
        /\ prov'["readiness"] = prov["readiness"]
    BY <2>3
  <2> HIDE DEF f, Files
  <2>5. QED
    BY <1>2, <2>1, <2>2, <2>3, <2>4 DEF Measured
<1>9. ASSUME NEW g \in File, Removes(g)
      PROVE  Measured'
  <2>1. /\ prov'["role_metrics"] = prov["role_metrics"]
        /\ prov'["readiness"] = prov["readiness"]
        /\ prov'["export"] \in {prov["export"], {}} /\ UNCHANGED <<newer, job, cut>>
    BY <1>1, <1>9, RemovesFacts
  <2>2. QED
    BY <2>1 DEF Measured
<1>10. QED
  BY <1>3, <1>4, <1>5, <1>7, <1>8, <1>9, StepCases

-----------------------------------------------------------------------------
(* How far a make has come: what it has been through is as it should be,   *)
(* and stays so as long as nothing changes outside.                        *)
Done(t) == t \in Built(make.goal) /\ t \notin Members(make.left)

GoodFor(t) ==
    /\ t \notin Metrics \cup {"export"} => Exists(t) /\ newer[t] \cap Prereq(t, make.lp) = {}
    /\ t \in Metrics => ident[t] = Identity(t) /\ \A u \in Inputs(t) : prov[u] # {}
    /\ t = "export" => Exists(t)

Ordered ==
    /\ make.goal \in Goals /\ make.lp \in BOOLEAN
    /\ Members(make.left) \subseteq Built(make.goal)
    /\ Sorted(make.left, make.lp)
    /\ \A t \in Target : Done(t) => Upstream(t, make.lp) \cap Members(make.left) = {}

Progress ==
    make # NoMake => Ordered /\ (make.quiet => \A t \in Target : Done(t) => GoodFor(t))

FileInv == Linked /\ Based /\ Silvered /\ Named /\ Trained /\ Measured

LEMMA BuiltFacts ==
    ASSUME NEW goal, NEW lp \in BOOLEAN
    PROVE  /\ Built(goal) \subseteq Target
           /\ \A t \in Built(goal) : Upstream(t, lp) \subseteq Built(goal)
<1>1. Built(goal) \subseteq Target
  BY DEF Built, AdcFiles, RoleFiles, Target, Metrics
<1>2. \A t \in {"stamp", "silver"} \cup RoleFiles :
          Upstream(t, lp) \subseteq {"stamp", "silver"} \cup RoleFiles
  BY DEF RoleFiles, Upstream
<1>3. \A t \in {"adc", "player"} \cup AdcFiles \cup {"dia"} :
          Upstream(t, lp) \subseteq {"silver"} \cup {"adc", "player"} \cup AdcFiles \cup {"dia"}
  BY DEF AdcFiles, Upstream
<1>4. QED
  BY <1>1, <1>2, <1>3 DEF Built

LEMMA UpstreamFacts ==
    ASSUME NEW lp \in BOOLEAN
    PROVE  /\ \A t \in Target : t \notin Upstream(t, lp)
           /\ \A m \in Metrics : Inputs(m) \subseteq Upstream(m, lp)
           /\ \A t \in Target \ (Metrics \cup {"export"}) :
                 \A u \in Target : Written(u) \cap Upstream(t, lp) # {} => u \in Upstream(t, lp)
           /\ \A t \in Target : Outside(t) \cap File = {}
<1>1. \A t \in Target : t \notin Upstream(t, lp)
  BY DEF Target, Metrics, Upstream
<1>2. \A m \in Metrics : Inputs(m) \subseteq Upstream(m, lp)
  BY DEF Metrics, Inputs, Upstream
<1>3. ASSUME NEW t \in Target \ (Metrics \cup {"export"}), NEW u \in Target,
             NEW f \in Written(u), f \in Upstream(t, lp)
      PROVE  u \in Upstream(t, lp)
  <2>1. CASE t = "readiness"
    BY <1>3, <2>1, WritersAre DEF Upstream
  <2>2. CASE t = "calibration"
    BY <1>3, <2>2, WritersAre DEF Upstream
  <2>3. CASE t \notin {"readiness", "calibration"}
    <3>1. f \in Target \ (Metrics \cup {"export"})
      BY <1>3, <2>3 DEF Upstream, Target, Metrics
    <3>2. f = u
      BY <1>3, <3>1 DEF Written, Target, Metrics
    <3>3. QED
      BY <1>3, <3>2
  <2>4. QED
    BY <2>1, <2>2, <2>3
<1>4. \A t \in Target : Outside(t) \cap File = {}
  BY DEF Outside, File, Target, Metrics
<1>5. QED
  BY <1>1, <1>2, <1>3, <1>4

(* The target make comes to has all that make builds of its prerequisites  *)
(* behind it.                                                              *)
LEMMA HeadFacts ==
    ASSUME Shape, Progress, make # NoMake, make.left # <<>>
    PROVE  /\ Head(make.left) \in Target /\ Head(make.left) \in Members(make.left)
           /\ \A u \in Upstream(Head(make.left), make.lp) : u \in Target /\ Done(u)
<1>1. make.left \in Seq(Target) /\ Ordered /\ make.lp \in BOOLEAN
  BY DEF Shape, MakeShape, Progress, Ordered
<1>2. /\ Head(make.left) \in Target /\ Head(make.left) \in Members(make.left)
      /\ Members(make.left) \subseteq {Head(make.left)} \cup Members(Tail(make.left))
  BY <1>1, TailFacts
<1>3. \A b \in Members(Tail(make.left)) : b \notin Upstream(Head(make.left), make.lp)
  BY <1>1, SortedTail DEF Ordered
<1>4. Head(make.left) \in Built(make.goal)
  BY <1>1, <1>2 DEF Ordered
<1>5. Upstream(Head(make.left), make.lp) \subseteq Built(make.goal)
  BY <1>1, <1>4, BuiltFacts
<1>6. Built(make.goal) \subseteq Target
  BY <1>1, BuiltFacts
<1>7. Head(make.left) \notin Upstream(Head(make.left), make.lp)
  BY <1>1, <1>2, UpstreamFacts
<1>8. QED
  BY <1>2, <1>3, <1>5, <1>6, <1>7 DEF Done

(* Make comes to the next target. *)
LEMMA AdvanceFacts ==
    ASSUME Shape, Progress, make # NoMake, make.left # <<>>, make' = Advanced
    PROVE  /\ Ordered'
           /\ make'.lp = make.lp /\ make'.quiet = make.quiet
           /\ \A t \in Target : Done(t)' => Done(t) \/ t = Head(make.left)
<1>1. make.left \in Seq(Target) /\ Ordered /\ make.lp \in BOOLEAN /\ "left" \in DOMAIN make
  BY DEF Shape, MakeShape, Progress, Ordered
<1>2. /\ make'.left = Tail(make.left) /\ make'.goal = make.goal
      /\ make'.lp = make.lp /\ make'.quiet = make.quiet
  BY <1>1 DEF Advanced
<1>3. /\ Members(make.left) \subseteq {Head(make.left)} \cup Members(Tail(make.left))
      /\ Members(Tail(make.left)) \subseteq Members(make.left)
  BY <1>1, TailFacts
<1>4. \A t \in Target : Done(t)' => Done(t) \/ t = Head(make.left)
  BY <1>2, <1>3 DEF Done
<1>5. /\ Sorted(Tail(make.left), make.lp)
      /\ \A b \in Members(Tail(make.left)) : b \notin Upstream(Head(make.left), make.lp)
  BY <1>1, SortedTail DEF Ordered
<1>6. \A t \in Target : Done(t)' => Upstream(t, make.lp) \cap Members(Tail(make.left)) = {}
  <2> SUFFICES ASSUME NEW t \in Target, Done(t)'
               PROVE  Upstream(t, make.lp) \cap Members(Tail(make.left)) = {}
    OBVIOUS
  <2>1. CASE Done(t)
    BY <1>1, <1>3, <2>1 DEF Ordered
  <2>2. CASE t = Head(make.left)
    BY <1>5, <2>2
  <2>3. QED
    BY <1>4, <2>1, <2>2
<1>7. make'.goal \in Goals /\ make'.lp \in BOOLEAN
  BY <1>1, <1>2 DEF Ordered
<1>8. Members(make'.left) \subseteq Built(make'.goal)
  BY <1>1, <1>2, <1>3 DEF Ordered
<1>9. Sorted(make'.left, make'.lp)
  BY <1>2, <1>5
<1>10. \A t \in Target : Done(t)' => Upstream(t, make'.lp) \cap Members(make'.left) = {}
  BY <1>2, <1>6
<1>11. Ordered'
  BY <1>7, <1>8, <1>9, <1>10 DEF Ordered
<1>12. QED
  BY <1>2, <1>4, <1>11

LEMMA NotMoved ==
    ASSUME Progress, make # NoMake, make.quiet, NEW m \in Metrics,
           \A u \in Inputs(m) : Done(u)
    PROVE  ~Moved(m)
<1> SUFFICES ASSUME NEW u \in Inputs(m), "code" \in newer[u]
             PROVE  FALSE
  BY DEF Moved
<1>1. u \in Target /\ u \notin Metrics /\ u # "export" /\ <<m, u>> \in Link
  BY InputFacts
<1>2. GoodFor(u)
  BY <1>1 DEF Progress
<1>3. <<m, u>>[2] = u
  OBVIOUS
<1>4. "code" \in Outside(u)
  BY <1>1, <1>3, LinkFacts
<1>5. QED
  BY <1>1, <1>2, <1>4 DEF GoodFor, Prereq

(* Make, or the training it runs, leaves out only what is as it should be. *)
LEMMA SkippedIsGood ==
    ASSUME Shape, FileInv, Progress, Skips, make # NoMake, make.quiet
    PROVE  GoodFor(Head(make.left))
<1> DEFINE t == Head(make.left)
<1>1. /\ make.left # <<>>
      /\ ~Stale(t) \/ (Readable(ScriptOf(t)) /\ UpToDate(t))
  BY DEF Skips
<1>2. /\ t \in Target
      /\ \A u \in Upstream(t, make.lp) : u \in Target /\ Done(u)
  BY <1>1, HeadFacts
<1>3. make.lp \in BOOLEAN
  BY DEF Progress, Ordered
<1> HIDE DEF t
<1>4. ASSUME t \notin Metrics \cup {"export"}
      PROVE  Exists(t) /\ newer[t] \cap Prereq(t, make.lp) = {}
  <2>1. MetricsOf(t) = t
    BY <1>4 DEF MetricsOf
  <2>2. ~UpToDate(t)
    BY <1>4, <2>1 DEF UpToDate
  <2>3. QED
    BY <1>1, <2>2 DEF Stale
<1>5. ASSUME t \in Metrics
      PROVE  ident[t] = Identity(t) /\ \A u \in Inputs(t) : prov[u] # {}
  <2>1. MetricsOf(t) = t /\ t # "split"
    BY <1>5 DEF MetricsOf, Metrics
  <2>2. \A u \in Inputs(t) : /\ <<t, u>> \in Link /\ <<t, u>>[1] = t /\ <<t, u>>[2] = u
                             /\ u \in Upstream(t, make.lp) /\ <<t, u>> # <<"split", "lp_rows">>
    BY <1>3, <1>5, <2>1, InputFacts, UpstreamFacts
  <2>3. CASE Readable(ScriptOf(t)) /\ UpToDate(t)
    <3>1. ident[t] = Identity(t)
      BY <2>1, <2>3 DEF UpToDate
    <3>2. ASSUME NEW u \in Inputs(t)
          PROVE  u \in ScriptOf(t).files
      <4> DEFINE l == <<t, u>>
      <4>1. l \in Link /\ l[1] = MetricsOf(t) /\ l[2] = u /\ l # <<"split", "lp_rows">>
        BY <2>1, <2>2
      <4> HIDE DEF l
      <4>2. l[2] \in ScriptOf(t).files
        BY <1>2, <4>1, ScriptReads
      <4>3. QED
        BY <4>1, <4>2
    <3>3. \A u \in Inputs(t) : prov[u] # {}
      BY <2>3, <3>2 DEF Readable
    <3>4. QED
      BY <3>1, <3>3
  <2>4. CASE ~Stale(t)
    <3>1. Exists(t) /\ newer[t] \cap Prereq(t, make.lp) = {}
      BY <2>4 DEF Stale
    <3>2. prov[t] # {}
      BY <1>5, <3>1, FilesAre DEF Exists, Shape, FileShape
    <3>3. \A u \in Inputs(t) : u \notin newer[t]
      BY <2>2, <3>1 DEF Prereq
    <3>4. ASSUME NEW u \in Inputs(t)
          PROVE  prov[u] # {}
      <4>1. LinkedAt(<<t, u>>)
        BY <2>2 DEF FileInv, Linked
      <4>2. Holds(<<t, u>>, prov[t])
        BY <2>2, <3>2, <3>3, <4>1 DEF LinkedAt
      <4>3. QED
        BY <2>2, <4>2 DEF Holds
    <3>5. ident[t] = Identity(t) \/ Moved(t)
      BY <1>5, <3>2, <3>3 DEF FileInv, Named, NamedAt
    <3>6. ~Moved(t)
      BY <1>2, <1>5, <2>2, NotMoved
    <3>7. QED
      BY <3>4, <3>5, <3>6
  <2>5. QED
    BY <1>1, <2>3, <2>4
<1>6. ASSUME t = "export"
      PROVE  Exists(t)
  <2>1. ~Stale(t) => Exists(t)
    BY DEF Stale
  <2>2. UpToDate(t) => Exists("export")
    BY <1>6 DEF UpToDate, MetricsOf
  <2>3. QED
    BY <1>1, <1>6, <2>1, <2>2
<1>7. QED
  BY <1>4, <1>5, <1>6 DEF GoodFor, t

(* A script leaves as it should be what make is through with, and its last *)
(* file makes its target so.                                               *)
LEMMA WrittenIsGood ==
    ASSUME Shape, FileInv, Progress, Writes, make # NoMake, make.quiet
    PROVE  /\ job.made /\ job.target = Head(make.left) /\ make.left # <<>>
           /\ make'.lp = make.lp =>
                 /\ \A t \in Target : Done(t) => GoodFor(t)'
                 /\ Finishes => \A t \in Target : t = job.target => GoodFor(t)'
<1> DEFINE f == Head(job.writes)
           T == job.target
<1>1. /\ job # NoJob /\ T \in Target /\ job.prov # {} /\ job.made /\ make.left # <<>>
      /\ T = Head(make.left)
  BY DEF Shape, JobShape, Writes
<1>2. /\ Puts(f, job.prov) /\ torn' = torn \ {f} /\ now' = now
      /\ \A m \in Metrics : ident'[m] = IF m = f THEN job.ident ELSE ident[m]
  BY WritesFacts
<1>3. Finishes => Members(job.writes) = {f} /\ f = LastOf(T)
  BY DEF Finishes
<1> HIDE DEF f
<1>4. /\ f \in Written(T) /\ f \in File /\ prov'[f] = job.prov
      /\ \A g \in File : g # f => prov'[g] = prov[g]
      /\ \A t \in Target : t = f => newer'[t] = {}
      /\ \A t \in Target : newer'[t] \subseteq newer[t] \cup {f}
  BY <1>2, PutFacts
<1>5. T \in Members(make.left) /\ \A u \in Upstream(T, make.lp) : u \in Target /\ Done(u)
  BY <1>1, HeadFacts
<1>6. make.lp \in BOOLEAN /\ Ordered
  BY DEF Progress, Ordered
<1> SUFFICES ASSUME make'.lp = make.lp
             PROVE  /\ \A t \in Target : Done(t) => GoodFor(t)'
                    /\ Finishes => \A t \in Target : t = T => GoodFor(t)'
  BY <1>1
<1>7. \A t \in Target : Exists(t) => Exists(t)'
  BY <1>1, <1>2, <1>4, FilesAre DEF Exists
<1>8. \A t \in Target : t = f => Exists(t)'
  BY <1>1, <1>4 DEF Exists
<1>9. ASSUME NEW m \in Metrics, \A u \in Inputs(m) : u \in Target /\ Done(u)
      PROVE  /\ \A u \in Inputs(m) : prov'[u] = prov[u]
             /\ Identity(m)' = Identity(m)
             /\ m = MetricsOf(T) => job.ident = Identity(m)'
  <2>1. ASSUME NEW u \in Inputs(m)
        PROVE  u # f
    <3>1. <<m, u>> \in Link /\ <<m, u>>[2] = u
      BY InputFacts
    <3>2. u \in Written(T) => u = T
      BY <1>1, <3>1, WrittenFacts
    <3>3. u # T
      BY <1>5, <1>9 DEF Done
    <3>4. QED
      BY <1>4, <3>2, <3>3
  <2>2. \A u \in Inputs(m) : prov'[u] = prov[u]
    BY <1>4, <2>1, InputFacts
  <2>3. Identity(m)' = Identity(m)
    BY <1>2, <2>2, IdentityFacts
  <2>4. m = MetricsOf(T) => job.ident = Identity(m) \/ Moved(m)
    BY DEF FileInv, Named, NamedAt
  <2>5. ~Moved(m)
    BY <1>9, NotMoved
  <2>6. QED
    BY <2>2, <2>3, <2>4, <2>5
<1>10. ASSUME NEW t \in Target, Done(t)
       PROVE  GoodFor(t)'
  <2>1. GoodFor(t) /\ Upstream(t, make.lp) \cap Members(make.left) = {} /\ t # T
    BY <1>5, <1>6, <1>10 DEF Progress, Ordered, Done
  <2>2. ASSUME t \notin Metrics \cup {"export"}
        PROVE  Exists(t)' /\ newer'[t] \cap Prereq(t, make.lp) = {}
    <3>1. Exists(t) /\ newer[t] \cap Prereq(t, make.lp) = {}
      BY <2>1, <2>2 DEF GoodFor
    <3>2. f \notin Upstream(t, make.lp)
      BY <1>1, <1>4, <1>5, <1>6, <2>1, <2>2, UpstreamFacts
    <3>3. f \notin Outside(t)
      BY <1>4, <1>6, UpstreamFacts
    <3>4. QED
      BY <1>4, <1>7, <3>1, <3>2, <3>3 DEF Prereq
  <2>3. ASSUME t \in Metrics
        PROVE  ident'[t] = Identity(t)' /\ \A u \in Inputs(t) : prov'[u] # {}
    <3>1. ident[t] = Identity(t) /\ \A u \in Inputs(t) : prov[u] # {}
      BY <2>1, <2>3 DEF GoodFor
    <3>2. \A u \in Inputs(t) : u \in Target /\ Done(u)
      <4>1. Inputs(t) \subseteq Upstream(t, make.lp)
        BY <1>6, <2>3, UpstreamFacts
      <4>2. Upstream(t, make.lp) \subseteq Built(make.goal) /\ Built(make.goal) \subseteq Target
        BY <1>6, <1>10, BuiltFacts DEF Done
      <4>3. QED
        BY <2>1, <4>1, <4>2 DEF Done
    <3>3. /\ \A u \in Inputs(t) : prov'[u] = prov[u]
          /\ Identity(t)' = Identity(t)
          /\ t = MetricsOf(T) => job.ident = Identity(t)'
      BY <1>9, <2>3, <3>2
    <3>4. f = t => t = MetricsOf(T)
      BY <1>1, <1>4, <2>3, WrittenFacts
    <3>5. ident'[t] = IF t = f THEN job.ident ELSE ident[t]
      BY <1>2, <2>3
    <3>6. QED
      BY <3>1, <3>3, <3>4, <3>5
  <2>4. t = "export" => Exists(t)'
    BY <1>7, <2>1 DEF GoodFor
  <2>5. QED
    BY <2>2, <2>3, <2>4 DEF GoodFor
<1>11. ASSUME Finishes, NEW t \in Target, t = T
       PROVE  GoodFor(t)'
  <2>1. /\ Members(job.writes) = {f} /\ f = LastOf(t)
        /\ \A u \in Upstream(t, make.lp) : u \in Target /\ Done(u)
        /\ MetricsOf(T) = MetricsOf(t)
    BY <1>3, <1>5, <1>11
  <2>2. ASSUME t \notin Metrics \cup {"export"}
        PROVE  Exists(t)' /\ newer'[t] \cap Prereq(t, make.lp) = {}
    <3>1. f = t
      BY <2>1, <2>2 DEF LastOf, Metrics
    <3>2. QED
      BY <1>1, <1>4, <1>8, <3>1
  <2>3. ASSUME t \in Metrics
        PROVE  ident'[t] = Identity(t)' /\ \A u \in Inputs(t) : prov'[u] # {}
    <3>1. MetricsOf(T) = t /\ t # "split"
      BY <2>1, <2>3 DEF MetricsOf, Metrics
    <3>2. \A u \in Inputs(t) : u \in Target /\ Done(u)
      BY <1>6, <2>1, <2>3, UpstreamFacts
    <3>3. /\ \A u \in Inputs(t) : prov'[u] = prov[u]
          /\ job.ident = Identity(t)'
      BY <1>9, <2>3, <3>1, <3>2
    <3>4. ident'[t] = job.ident
      <4>1. CASE t = "role_metrics"
        <5>1. f = "export"
          BY <2>1, <4>1 DEF LastOf
        <5>2. "role_metrics" \notin Members(job.writes) /\ f # t
          BY <2>1, <4>1, <5>1
        <5>3. ident["role_metrics"] = job.ident
          BY <3>1, <4>1, <5>2 DEF FileInv, Named
        <5>4. QED
          BY <1>2, <2>3, <4>1, <5>2, <5>3
      <4>2. CASE t # "role_metrics"
        <5>1. f = t
          BY <2>1, <4>2 DEF LastOf
        <5>2. QED
          BY <1>2, <2>3, <5>1
      <4>3. QED
        BY <4>1, <4>2
    <3>5. ASSUME NEW u \in Inputs(t)
          PROVE  prov[u] # {}
      <4>1. /\ <<t, u>> \in Link /\ <<t, u>>[1] = t /\ <<t, u>>[2] = u
            /\ <<t, u>> # <<"split", "lp_rows">>
        BY <2>3, <3>1, InputFacts
      <4>2. Holds(<<t, u>>, job.prov)
        BY <3>1, <4>1 DEF FileInv, Linked, LinkedAt
      <4>3. QED
        BY <4>1, <4>2 DEF Holds
    <3>6. QED
      BY <3>3, <3>4, <3>5
  <2>4. ASSUME t = "export"
        PROVE  Exists(t)'
    <3>1. f = t
      BY <2>1, <2>4 DEF LastOf
    <3>2. QED
      BY <1>1, <1>8, <3>1
  <2>5. QED
    BY <2>2, <2>3, <2>4 DEF GoodFor
<1>12. QED
  BY <1>10, <1>11

LEMMA GoodKept ==
    ASSUME NEW t, GoodFor(t), UNCHANGED <<now, prov, torn, newer, ident>>, make'.lp = make.lp
    PROVE  GoodFor(t)'
<1>1. ident'[t] = ident[t] /\ newer'[t] = newer[t] /\ (Exists(t) => Exists(t)')
  BY DEF Exists
<1>2. t \in Metrics => Identity(t)' = Identity(t)
  BY IdentityFacts
<1>3. QED
  BY <1>1, <1>2 DEF GoodFor

LEMMA ProgressStep == Shape /\ FileInv /\ Progress /\ [Next]_vars => Progress'
<1> SUFFICES ASSUME Shape, FileInv, Progress, [Next]_vars
             PROVE  Progress'
  OBVIOUS
<1>1. MakeShape
  BY DEF Shape
<1>2. ASSUME Change
      PROVE  Progress'
  <2>1. /\ make'.left = make.left /\ make'.goal = make.goal /\ make'.lp = make.lp
        /\ make = NoMake => make' = NoMake
        /\ make # NoMake => make'.quiet = FALSE
    BY <1>1, <1>2, ChangeFacts
  <2>2. Ordered => Ordered'
    BY <2>1 DEF Ordered, Done
  <2>3. QED
    BY <2>1, <2>2 DEF Progress
<1>3. ASSUME make' = NoMake
      PROVE  Progress'
  BY <1>3 DEF Progress
<1>4. ASSUME make' = make, UNCHANGED <<now, prov, torn, newer, ident>>
      PROVE  Progress'
  <2>1. Ordered => Ordered'
    BY <1>4 DEF Ordered, Done
  <2>2. \A t \in Target : Done(t)' => Done(t)
    BY <1>4 DEF Done
  <2>3. \A t \in Target : GoodFor(t) => GoodFor(t)'
    BY <1>4, GoodKept
  <2>4. QED
    BY <1>4, <2>1, <2>2, <2>3 DEF Progress
<1>5. ASSUME NEW s \in Source, NEW pop \in BOOLEAN, Edits(s, pop)
      PROVE  Progress'
  BY <1>2, <1>5 DEF Edits
<1>6. ASSUME NEW model \in {prov["readiness"], {}}, Certify(model)
      PROVE  Progress'
  BY <1>2, <1>6 DEF Certify
<1>7. ASSUME NEW goal \in Goals, MakeStarts(goal)
      PROVE  Progress'
  <2>1. /\ make'.left = Order(goal, Exists("lp_rows")) /\ make'.goal = goal
        /\ make'.lp = Exists("lp_rows")
    BY <1>7 DEF MakeStarts
  <2>2. Exists("lp_rows") \in BOOLEAN
    BY DEF Exists
  <2>3. /\ Members(make'.left) = Built(make'.goal)
        /\ Sorted(make'.left, make'.lp) /\ make'.lp \in BOOLEAN
    BY <2>1, <2>2, OrderFacts
  <2>4. \A t \in Target : ~Done(t)'
    BY <2>3 DEF Done
  <2>5. QED
    BY <2>1, <2>3, <2>4 DEF Progress, Ordered
<1>8. CASE Skips
  <2>1. /\ make.left # <<>> /\ make' = Advanced /\ UNCHANGED <<now, prov, torn, newer, ident>>
    BY <1>8 DEF Skips, fileVars
  <2>2. make # NoMake
    BY <2>1, NoJobFacts
  <2>3. /\ Ordered' /\ make'.lp = make.lp /\ make'.quiet = make.quiet
        /\ \A t \in Target : Done(t)' => Done(t) \/ t = Head(make.left)
    BY <2>1, <2>2, AdvanceFacts
  <2>4. ASSUME make'.quiet, NEW t \in Target, Done(t)'
        PROVE  GoodFor(t)'
    <3>1. make.quiet
      BY <2>3, <2>4
    <3>2. GoodFor(t)
      <4>1. CASE Done(t)
        BY <2>2, <3>1, <4>1 DEF Progress
      <4>2. CASE t = Head(make.left)
        BY <1>8, <2>2, <3>1, <4>2, SkippedIsGood
      <4>3. QED
        BY <2>3, <2>4, <4>1, <4>2
    <3>3. QED
      BY <2>1, <2>3, <3>2, GoodKept
  <2>5. QED
    BY <2>3, <2>4 DEF Progress
<1>9. CASE Starts
  BY <1>4, <1>9 DEF Starts, fileVars
<1>10. CASE Fails
  BY <1>3, <1>10 DEF Fails
<1>11. CASE Writes
  <2>1. CASE make = NoMake
    <3>1. ~job.made
      BY <1>11, <2>1, NoJobFacts DEF Shape, JobShape, Writes
    <3>2. make' = NoMake
      BY <1>11, <2>1, <3>1, WritesFacts DEF Remains, Finishes
    <3>3. QED
      BY <1>3, <3>2
  <2>2. CASE make # NoMake
    <3>1. job.made /\ job.target = Head(make.left) /\ make.left # <<>>
      BY <1>11, <2>2, NoJobFacts DEF Shape, JobShape, Writes
    <3>2. ASSUME make'.lp = make.lp, make.quiet
          PROVE  /\ \A t \in Target : Done(t) => GoodFor(t)'
                 /\ Finishes => \A t \in Target : t = job.target => GoodFor(t)'
      BY <1>11, <2>2, <3>2, WrittenIsGood
    <3>3. CASE Remains
      <4>1. make' = make
        BY <3>3 DEF Remains
      <4>2. Ordered /\ Ordered' /\ \A t \in Target : Done(t)' => Done(t)
        BY <2>2, <4>1 DEF Progress, Ordered, Done
      <4>3. QED
        BY <3>2, <4>1, <4>2 DEF Progress
    <3>4. CASE Finishes
      <4>1. make' = Advanced
        BY <3>1, <3>4 DEF Finishes
      <4>2. /\ Ordered' /\ make'.lp = make.lp /\ make'.quiet = make.quiet
            /\ \A t \in Target : Done(t)' => Done(t) \/ t = Head(make.left)
        BY <2>2, <3>1, <4>1, AdvanceFacts
      <4>3. make'.quiet => \A t \in Target : Done(t)' => GoodFor(t)'
        BY <3>1, <3>2, <3>4, <4>2
      <4>4. QED
        BY <4>2, <4>3 DEF Progress
    <3>5. QED
      BY <1>11, <3>3, <3>4, WritesFacts
  <2>3. QED
    BY <2>1, <2>2
<1>12. CASE Killed
  BY <1>3, <1>12 DEF Killed
<1>13. CASE MakeEnds
  BY <1>3, <1>13 DEF MakeEnds
<1>14. ASSUME NEW t \in Metrics, Forces(t)
       PROVE  Progress'
  BY <1>2, <1>14 DEF Forces
<1>15. ASSUME NEW f \in File, Removes(f)
       PROVE  Progress'
  BY <1>2, <1>15 DEF Removes
<1>16. CASE UNCHANGED vars
  BY <1>4, <1>16 DEF vars
<1>17. QED
  BY <1>5, <1>6, <1>7, <1>8, <1>9, <1>10, <1>11, <1>12, <1>13, <1>14, <1>15, <1>16 DEF Next

LEMMA FileInvStep == Shape /\ FileInv /\ [Next]_vars => FileInv'
BY LinkedStep, BasedStep, SilveredStep, NamedStep, TrainedStep, MeasuredStep DEF FileInv

-----------------------------------------------------------------------------
(* What a make that ends has left, when nothing changed meanwhile.         *)
Current(f) ==
    prov[f] # {} /\ \A v \in prov[f] : v = Now(v[1]) \/ \E c \in crossed : c[2] = v[1]

LEMMA CurrentUp ==
    ASSUME FileInv, NEW l \in Base, newer[l[1]] = {}, newer[l[2]] = {}, prov[l[1]] # {},
           Current(l[2])
    PROVE  Current(l[1])
<1>1. BasedAt(l)
  BY DEF FileInv, Based
<1>2. ASSUME NEW v \in prov[l[1]]
      PROVE  v = Now(v[1]) \/ \E c \in crossed : c[2] = v[1]
  <2>1. CASE v \in prov[l[2]]
    BY <2>1 DEF Current
  <2>2. CASE v \notin prov[l[2]]
    <3>1. Dated(v, newer[l[1]] \cup newer[l[2]], now, crossed)
      BY <1>1, <1>2, <2>2 DEF BasedAt
    <3>2. v[1] \notin newer[l[1]] \cup newer[l[2]]
      OBVIOUS
    <3>3. QED
      BY <3>1, <3>2 DEF Dated, Version, Now
  <2>3. QED
    BY <2>1, <2>2
<1>3. QED
  BY <1>2 DEF Current

LEMMA EndFacts ==
    ASSUME Shape, FileInv, Progress, make # NoMake, make.left = <<>>, make.quiet
    PROVE  /\ job = NoJob
           /\ Current("silver") /\ Current("games") /\ Current("windows")
           /\ ident["role_metrics"] = Identity("role_metrics")
           /\ make.goal # "roles" =>
                 /\ Current("adc") /\ Current("player") /\ Current("lp_rows")
                 /\ \A m \in {"metrics", "lp_metrics"} : ident[m] = Identity(m)
                 /\ make.lp => prov["player"] \cup prov["lp_rows"] \subseteq prov["split"]
                 /\ "metrics" \notin cut =>
                       prov["calibration"] = prov["oof"] /\ prov["oof"] = prov["models"]
           /\ "role_metrics" \notin cut =>
                 /\ prov["export"] = prov["role_metrics"]
                 /\ prov["readiness"] = prov["role_metrics"]
<1>1. make.lp \in BOOLEAN /\ Built(make.goal) \subseteq Target
  BY BuiltFacts DEF Progress, Ordered
<1>2. \A t \in Built(make.goal) : GoodFor(t)
  <2>1. Members(make.left) = {}
    BY DEF Members
  <2>2. QED
    BY <1>1, <2>1 DEF Progress, Done
<1>3. job = NoJob /\ job.target = "none"
  BY NoJobFacts DEF Shape, JobShape
<1>4. \A t \in Target : newer[t] \subseteq Prereq(t, TRUE)
  BY DEF Shape, FileShape
<1>5. \A t \in Target : t # "split" => Prereq(t, TRUE) = Prereq(t, make.lp)
  BY <1>1 DEF Target, Metrics, Prereq, Upstream
<1>6. ASSUME NEW t \in Built(make.goal), t \notin Metrics \cup {"export", "split"}
      PROVE  Exists(t) /\ newer[t] = {}
  <2>1. t \in Target /\ newer[t] \subseteq Prereq(t, make.lp)
    BY <1>1, <1>4, <1>5, <1>6
  <2>2. Exists(t) /\ newer[t] \cap Prereq(t, make.lp) = {}
    BY <1>2, <1>6 DEF GoodFor
  <2>3. QED
    BY <2>1, <2>2
<1>7. /\ {"stamp", "silver", "games", "windows", "role_metrics", "export", "readiness"}
             \subseteq Built(make.goal)
      /\ make.goal # "roles" =>
            {"adc", "player", "lp_rows", "split", "metrics", "lp_metrics", "calibration"}
                \subseteq Built(make.goal)
  BY DEF Built, RoleFiles, AdcFiles
<1>8. /\ newer["stamp"] = {} /\ newer["silver"] = {} /\ newer["games"] = {}
      /\ newer["windows"] = {} /\ newer["readiness"] = {} /\ Exists("readiness")
      /\ make.goal # "roles" => /\ newer["adc"] = {} /\ newer["player"] = {}
                                /\ newer["lp_rows"] = {} /\ newer["calibration"] = {}
                                /\ Exists("calibration")
  BY <1>6, <1>7 DEF Metrics
<1>9. \A l \in Link : prov[l[1]] # {} /\ l[2] \notin newer[l[1]] => Holds(l, prov[l[1]])
  BY DEF FileInv, Linked, LinkedAt
<1>10. \A f \in File : f \notin InPlace /\ Exists(f) => prov[f] # {}
  BY DEF Exists, Shape, FileShape
<1>11. /\ ident["role_metrics"] = Identity("role_metrics") /\ prov["windows"] # {}
       /\ prov["export"] # {}
  BY <1>2, <1>7, <1>10, FilesAre DEF GoodFor, Metrics, Inputs
<1>12. prov["games"] # {}
  <2> DEFINE l == <<"windows", "games">>
  <2>1. l \in Link /\ l[1] = "windows" /\ l[2] = "games" /\ l # <<"split", "lp_rows">>
    BY DEF Link, Base
  <2> HIDE DEF l
  <2>2. QED
    BY <1>8, <1>9, <1>11, <2>1 DEF Holds
<1>13. prov["silver"] # {}
  <2> DEFINE l == <<"games", "silver">>
  <2>1. l \in Link /\ l[1] = "games" /\ l[2] = "silver" /\ l # <<"split", "lp_rows">>
    BY DEF Link, Base
  <2> HIDE DEF l
  <2>2. QED
    BY <1>8, <1>9, <1>12, <2>1 DEF Holds
<1>14. Current("silver")
  <2>1. ASSUME NEW v \in prov["silver"]
        PROVE  v = Now(v[1]) \/ \E c \in crossed : c[2] = v[1]
    <3>1. Dated(v, newer["silver"] \cup newer["stamp"], now, crossed)
      BY <1>8 DEF FileInv, Silvered
    <3>2. v[1] \notin newer["silver"] \cup newer["stamp"]
      BY <1>8
    <3>3. QED
      BY <3>1, <3>2 DEF Dated, Version, Now
  <2>2. QED
    BY <1>13, <2>1 DEF Current
<1>15. \A l \in Base : newer[l[1]] = {} /\ newer[l[2]] = {} /\ prov[l[1]] # {} /\ Current(l[2])
           => Current(l[1])
  BY CurrentUp
<1>16. Current("games") /\ Current("windows")
  <2>1. <<"games", "silver">> \in Base /\ <<"windows", "games">> \in Base
    BY DEF Base
  <2>2. Current("games")
    BY <1>8, <1>12, <1>14, <1>15, <2>1
  <2>3. QED
    BY <1>8, <1>11, <1>15, <2>1, <2>2
<1>17. ASSUME make.goal # "roles"
       PROVE  /\ Current("adc") /\ Current("player") /\ Current("lp_rows")
              /\ \A m \in {"metrics", "lp_metrics"} : ident[m] = Identity(m)
              /\ make.lp => prov["player"] \cup prov["lp_rows"] \subseteq prov["split"]
  <2>1. /\ ident["metrics"] = Identity("metrics") /\ prov["player"] # {} /\ prov["split"] # {}
    BY <1>2, <1>7, <1>17 DEF GoodFor, Metrics, Inputs
  <2>2. /\ ident["lp_metrics"] = Identity("lp_metrics") /\ prov["lp_rows"] # {}
    BY <1>2, <1>7, <1>17 DEF GoodFor, Metrics, Inputs
  <2>3. prov["adc"] # {}
    <3> DEFINE l == <<"player", "adc">>
    <3>1. l \in Link /\ l[1] = "player" /\ l[2] = "adc" /\ l # <<"split", "lp_rows">>
      BY DEF Link, Base
    <3> HIDE DEF l
    <3>2. QED
      BY <1>8, <1>9, <1>17, <2>1, <3>1 DEF Holds
  <2>4. <<"adc", "silver">> \in Base /\ <<"player", "adc">> \in Base /\ <<"lp_rows", "adc">> \in Base
    BY DEF Base
  <2>5. Current("adc")
    BY <1>8, <1>14, <1>15, <1>17, <2>3, <2>4
  <2>6. Current("player") /\ Current("lp_rows")
    BY <1>8, <1>15, <1>17, <2>1, <2>2, <2>4, <2>5
  <2>7. ASSUME make.lp
        PROVE  prov["player"] \cup prov["lp_rows"] \subseteq prov["split"]
    <3>1. newer["split"] \cap {"player", "lp_rows"} = {}
      <4>1. GoodFor("split") /\ "split" \notin Metrics \cup {"export"}
        BY <1>2, <1>7, <1>17 DEF Metrics
      <4>2. {"player", "lp_rows"} \subseteq Prereq("split", make.lp)
        BY <2>7 DEF Prereq, Upstream
      <4>3. QED
        BY <4>1, <4>2 DEF GoodFor
    <3> DEFINE k == <<"split", "player">>
               l == <<"split", "lp_rows">>
    <3>2. k \in Link /\ k[1] = "split" /\ k[2] = "player"
      BY DEF Link
    <3>3. l \in Link /\ l[1] = "split" /\ l[2] = "lp_rows"
      BY DEF Link
    <3> HIDE DEF k, l
    <3>4. Holds(k, prov["split"]) /\ Holds(l, prov["split"])
      BY <1>9, <2>1, <3>1, <3>2, <3>3
    <3>5. QED
      BY <3>2, <3>3, <3>4 DEF Holds
  <2>8. QED
    BY <2>1, <2>2, <2>5, <2>6, <2>7
<1>18. ASSUME make.goal # "roles", "metrics" \notin cut
       PROVE  prov["calibration"] = prov["oof"] /\ prov["oof"] = prov["models"]
  <2>1. prov["calibration"] # {}
    BY <1>8, <1>10, <1>18, FilesAre
  <2>2. "metrics" \notin newer["calibration"]
    BY <1>8, <1>18
  <2>3. QED
    BY <1>3, <1>18, <2>1, <2>2 DEF FileInv, Trained
<1>19. ASSUME "role_metrics" \notin cut
       PROVE  /\ prov["export"] = prov["role_metrics"]
              /\ prov["readiness"] = prov["role_metrics"]
  <2>1. prov["readiness"] # {}
    BY <1>8, <1>10, FilesAre
  <2>2. "none" \notin RoleTargets
    BY DEF RoleTargets
  <2>3. QED
    BY <1>3, <1>8, <1>11, <1>19, <2>1, <2>2 DEF FileInv, Measured
<1>20. QED
  BY <1>3, <1>11, <1>14, <1>16, <1>17, <1>18, <1>19

LEMMA SettledStep ==
    ASSUME Shape, FileInv, Progress, MakeIsCurrent, ModelsCoherent, [Next]_vars
    PROVE  MakeIsCurrent' /\ ModelsCoherent'
<1>1. ASSUME settled' = NoMake
      PROVE  MakeIsCurrent' /\ ModelsCoherent'
  <2>1. settled'.goal \notin {"roles", "pipeline"}
    BY <1>1, NoJobFacts
  <2>2. QED
    BY <2>1 DEF MakeIsCurrent, DatasetsCurrent, IdentitiesCurrent, SplitCoversPopulations,
                ModelsCoherent, Settled
<1>2. ASSUME MakeEnds, make.quiet
      PROVE  MakeIsCurrent' /\ ModelsCoherent'
  <2>1. /\ make # NoMake /\ make.left = <<>> /\ settled' = make
        /\ UNCHANGED <<now, prov, ident, crossed, cut>>
    BY <1>2 DEF MakeEnds, fileVars
  <2>2. /\ Current("silver") /\ Current("games") /\ Current("windows")
        /\ ident["role_metrics"] = Identity("role_metrics")
        /\ make.goal = "pipeline" =>
              /\ Current("adc") /\ Current("player") /\ Current("lp_rows")
              /\ \A m \in {"metrics", "lp_metrics"} : ident[m] = Identity(m)
              /\ make.lp => prov["player"] \cup prov["lp_rows"] \subseteq prov["split"]
              /\ "metrics" \notin cut =>
                    prov["calibration"] = prov["oof"] /\ prov["oof"] = prov["models"]
        /\ "role_metrics" \notin cut =>
              /\ prov["export"] = prov["role_metrics"]
              /\ prov["readiness"] = prov["role_metrics"]
    BY <1>2, <2>1, EndFacts
  <2>3. /\ Current("silver")' /\ Current("games")' /\ Current("windows")'
        /\ make.goal = "pipeline" => Current("adc")' /\ Current("player")' /\ Current("lp_rows")'
    BY <2>1, <2>2 DEF Current, Now
  <2>4. \A m \in Metrics : Identity(m)' = Identity(m)
    BY <2>1, IdentityFacts
  <2>5. DatasetsCurrent'
    BY <2>1, <2>3 DEF DatasetsCurrent, Settled, Current
  <2>6. IdentitiesCurrent'
    BY <2>1, <2>2, <2>4 DEF IdentitiesCurrent, Settled, Metrics
  <2>7. SplitCoversPopulations'
    BY <2>1, <2>2 DEF SplitCoversPopulations, Settled
  <2>8. ModelsCoherent'
    BY <2>1, <2>2 DEF ModelsCoherent, Settled
  <2>9. QED
    BY <2>5, <2>6, <2>7, <2>8 DEF MakeIsCurrent
<1>3. ASSUME UNCHANGED vars
      PROVE  MakeIsCurrent' /\ ModelsCoherent'
  <2>1. UNCHANGED <<now, prov, ident, crossed, cut, settled>>
    BY <1>3 DEF vars
  <2>2. \A m \in Metrics : Identity(m)' = Identity(m)
    BY <2>1, IdentityFacts
  <2>3. DatasetsCurrent'
    BY <2>1 DEF MakeIsCurrent, DatasetsCurrent, Settled, Now
  <2>4. IdentitiesCurrent'
    BY <2>1, <2>2 DEF MakeIsCurrent, IdentitiesCurrent, Settled, Metrics
  <2>5. SplitCoversPopulations'
    BY <2>1 DEF MakeIsCurrent, SplitCoversPopulations, Settled
  <2>6. ModelsCoherent'
    BY <2>1 DEF ModelsCoherent, Settled
  <2>7. QED
    BY <2>3, <2>4, <2>5, <2>6 DEF MakeIsCurrent
<1>4. settled # NoMake => make.left = <<>> /\ job = NoJob
  BY NoJobFacts DEF Shape, MakeShape
<1>5. ASSUME settled' = settled, make.left # <<>> \/ job # NoJob
      PROVE  MakeIsCurrent' /\ ModelsCoherent'
  BY <1>1, <1>4, <1>5
<1>6. ASSUME Change
      PROVE  MakeIsCurrent' /\ ModelsCoherent'
  BY <1>1, <1>6 DEF Change
<1>7. ASSUME NEW s \in Source, NEW pop \in BOOLEAN, Edits(s, pop)
      PROVE  MakeIsCurrent' /\ ModelsCoherent'
  BY <1>6, <1>7 DEF Edits
<1>8. ASSUME NEW model \in {prov["readiness"], {}}, Certify(model)
      PROVE  MakeIsCurrent' /\ ModelsCoherent'
  BY <1>6, <1>8 DEF Certify
<1>9. ASSUME NEW goal \in Goals, MakeStarts(goal)
      PROVE  MakeIsCurrent' /\ ModelsCoherent'
  BY <1>1, <1>9 DEF MakeStarts
<1>10. CASE Skips \/ Starts \/ Fails \/ Writes \/ Killed
  BY <1>5, <1>10 DEF Skips, Starts, Fails, Writes, Killed
<1>11. CASE MakeEnds
  <2>1. ~make.quiet => settled' = NoMake
    BY <1>11 DEF MakeEnds
  <2>2. QED
    BY <1>1, <1>2, <1>11, <2>1
<1>12. ASSUME NEW t \in Metrics, Forces(t)
       PROVE  MakeIsCurrent' /\ ModelsCoherent'
  BY <1>6, <1>12 DEF Forces
<1>13. ASSUME NEW f \in File, Removes(f)
       PROVE  MakeIsCurrent' /\ ModelsCoherent'
  BY <1>6, <1>13 DEF Removes
<1>14. QED
  BY <1>3, <1>7, <1>8, <1>9, <1>10, <1>11, <1>12, <1>13 DEF Next

LEMMA FileInvInit == Init => FileInv
<1> SUFFICES ASSUME Init PROVE FileInv
  OBVIOUS
<1>1. /\ \A f \in File : prov[f] = {}
      /\ job = NoJob /\ job.target = "none" /\ MetricsOf(job.target) = "none"
      /\ \A t \in Target : t # "none"
  BY NoJobFacts DEF Init
<1>2. Linked
  BY <1>1, LinkFacts, FilesAre DEF Linked, LinkedAt
<1>3. Based
  BY <1>1, LinkFacts, FilesAre DEF Based, BasedAt, Link
<1>4. Silvered
  BY <1>1, FilesAre DEF Silvered, File, Target
<1>5. Named
  BY <1>1, FilesAre DEF Named, NamedAt, Metrics
<1>6. Trained
  BY <1>1, FilesAre DEF Trained
<1>7. Measured
  BY <1>1, FilesAre DEF Measured, RoleTargets
<1>8. QED
  BY <1>2, <1>3, <1>4, <1>5, <1>6, <1>7 DEF FileInv

PipelineInv == Shape /\ FileInv /\ Progress /\ MakeIsCurrent /\ ModelsCoherent

(* The files, the script and the make, whatever is edited, killed or       *)
(* deleted: what the two theorems below rest on.                           *)
THEOREM PipelineInvCorrect == Spec => []PipelineInv
<1>1. Init => PipelineInv
  <2> SUFFICES ASSUME Init PROVE PipelineInv
    OBVIOUS
  <2>1. Shape /\ FileInv
    BY ShapeInit, FileInvInit
  <2>2. make = NoMake /\ settled = NoMake
    BY DEF Init
  <2>3. Progress
    BY <2>2 DEF Progress
  <2>4. settled.goal \notin {"roles", "pipeline"}
    BY <2>2, NoJobFacts
  <2>5. MakeIsCurrent
    BY <2>4 DEF MakeIsCurrent, DatasetsCurrent, IdentitiesCurrent, SplitCoversPopulations, Settled
  <2>6. ModelsCoherent
    BY <2>4 DEF ModelsCoherent, Settled
  <2>7. QED
    BY <2>1, <2>3, <2>5, <2>6 DEF PipelineInv
<1>2. PipelineInv /\ [Next]_vars => PipelineInv'
  BY ShapeStep, FileInvStep, ProgressStep, SettledStep DEF PipelineInv
<1>3. QED
  BY <1>1, <1>2, PTL DEF Spec

(* A make during which nothing changed leaves behind no dataset of older   *)
(* sources, no training of another dataset and no split of one population. *)
THEOREM MakeIsCurrentCorrect == Spec => []MakeIsCurrent
<1>1. PipelineInv => MakeIsCurrent
  BY DEF PipelineInv
<1>2. QED
  BY <1>1, PipelineInvCorrect, PTL

(* Nor a calibration, an export or a readiness of other models, unless a   *)
(* training was killed between its files and not redone.                   *)
THEOREM ModelsCoherentCorrect == Spec => []ModelsCoherent
<1>1. PipelineInv => ModelsCoherent
  BY DEF PipelineInv
<1>2. QED
  BY <1>1, PipelineInvCorrect, PTL
=============================================================================
