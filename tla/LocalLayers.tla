---------------------------- MODULE LocalLayers ----------------------------
(***************************************************************************)
(* The layers of the owner's computer, from which everything else is       *)
(* built: the raw documents of Riot (01_raw), the extracted rows (silver), *)
(* their aggregates (gold), and the archives of the past patches.          *)
(*                                                                         *)
(* Two collections may run at once: one for a rank (build_referential,     *)
(* densify_players), one for the owner's account (aggregate_games,         *)
(* pipeline.fetch_games, the daily refresh).  A maintenance command        *)
(* (reextract_silver, rebuild_gold, compress_raw, archive_patch) may run   *)
(* beside them; one at a time.  No lock protects a file.                   *)
(*                                                                         *)
(* A match stands for its two documents and its rows; it is named by the   *)
(* player in whose history it is found and by its patch.                   *)
(***************************************************************************)
EXTENDS Integers, Sequences, FiniteSets

CONSTANTS
  Players,      \* the players of the rank
  Me,           \* the owner's account, itself a player of the rank
  LastPatch,    \* bound on the patches
  Matches,      \* the matches there are, <<player, patch>>
  Checkpoint,   \* checkpoint_every: players between two checkpoints
  MaxKills,     \* bound on the processes killed
  MaxCommands,  \* bound on the commands started
  Legacy        \* the matches whose raw is still an uncompressed .json

ASSUME LayersAssumption ==
  /\ Me \in Players
  /\ LastPatch \in Nat \ {0}
  /\ Checkpoint \in Nat \ {0}
  /\ MaxKills \in Nat
  /\ MaxCommands \in Nat
  /\ Matches \subseteq Players \X (1..LastPatch)
  /\ Legacy \subseteq Matches

Patches == 1..LastPatch
Dirs == {"rank", "personal"}      \* referentiel/<rank>, personal/<player>
NoFile == 0                       \* sources.json does not exist
Torn == -1                        \* sources.json was cut while written

PatchOf(m) == m[2]

VARIABLES
  live,        \* the patch Riot serves
  raw,         \* the .json.zst of every match: "none", "torn" or "whole"
  plain,       \* the matches that still have a .json
  silver,      \* rows of games.jsonl, by directory
  gold,        \* the rows the aggregates were computed from, by directory
  sources,     \* the patch of the rank's sources.json
  archive,     \* by patch: the folder or zip, and the files moved into it
  job,         \* the collection that runs for each directory
  op,          \* the maintenance command that runs
  kills,       \* processes killed so far
  commands,    \* commands started so far
  \* What happened, for the properties only.
  ever,        \* rows that were once in silver, by directory
  overlapped,  \* <<command, directory>>: wrote while a collection did
  interrupted, \* directories one of whose collections did not reach its gold
  gap,         \* a kill separated silver from its first sources.json
  twice        \* matches whose raw two collections wrote at the same time

files == <<raw, plain, silver, gold, sources, archive>>
marks == <<ever, overlapped, interrupted, gap, twice>>
vars == <<live, files, job, op, kills, commands, marks>>

-----------------------------------------------------------------------------
(* The raw cache: a .json.zst hides the .json of the same name.            *)

Readable(m) == raw[m] = "whole" \/ (raw[m] = "none" /\ m \in plain)

NoJob == [kind |-> "none", patch |-> NoFile, players |-> <<>>, left |-> {},
          known |-> {}, pool |-> {}, base |-> {}, turn |-> 0,
          merged |-> FALSE, stage |-> "idle", last |-> FALSE]
NoOp == [kind |-> "none", todo |-> {}, at |-> "none", held |-> {},
         patch |-> NoFile, stage |-> "idle"]

\* The orders in which some of the players may be visited.
Samples == {s \in UNION {[1..n -> Players] : n \in 1..Cardinality(Players)} :
              \A i, k \in DOMAIN s : s[i] = s[k] => i = k}

NoArchive == [state |-> "none", raw |-> {}, rows |-> [d \in Dirs |-> {}]]

Init ==
  /\ live = 1
  /\ raw = [m \in Matches |-> "none"]
  /\ plain = Legacy
  /\ silver = [d \in Dirs |-> {}]
  /\ gold = [d \in Dirs |-> {}]
  /\ sources = NoFile
  /\ archive = [p \in Patches |-> NoArchive]
  /\ job = [d \in Dirs |-> NoJob]
  /\ op = NoOp
  /\ kills = 0
  /\ commands = 0
  /\ ever = [d \in Dirs |-> {}]
  /\ overlapped = {}
  /\ interrupted = {}
  /\ gap = FALSE
  /\ twice = {}

-----------------------------------------------------------------------------
(* The collections.                                                        *)

Command == commands < MaxCommands /\ commands' = commands + 1

Started(d, kind, patch, players, known) ==
  job' = [job EXCEPT ![d] = [NoJob EXCEPT !.kind = kind, !.patch = patch,
                               !.players = players, !.known = known,
                               !.stage = "list"]]

MutPatchAllowed(p) == TRUE

\* build_referential.main refuses a patch that is not the one of the rows
\* already there; a sources.json it cannot read does not stop it.
PatchAllowed(p) == sources \in Patches => sources = p

\* build_referential: the patch is the most frequent of recent games, or
\* --patch; the players are a page of the ladder, less the known ones with
\* --skip-known.
StartReferential(p, players) ==
  /\ Command
  /\ job["rank"].kind = "none"
  /\ p <= live
  /\ PatchAllowed(p)
  /\ Started("rank", "ref", p, players, {})
  /\ UNCHANGED <<live, files, op, kills, marks>>

\* densify_players: the patch of sources.json, the players of the target list
\* or those of the rows; a match already in silver is not asked again.
StartDensify(players) ==
  /\ Command
  /\ job["rank"].kind = "none"
  /\ silver["rank"] # {}
  /\ sources \in Patches
  /\ Started("rank", "densify", sources, players, silver["rank"])
  /\ UNCHANGED <<live, files, op, kills, marks>>

\* aggregate_games and pipeline.fetch_games; only_new leaves out the matches
\* already in silver (the daily refresh).
StartPersonal(only_new) ==
  /\ Command
  /\ job["personal"].kind = "none"
  /\ Started("personal", "fetch", NoFile, <<Me>>,
             IF only_new THEN silver["personal"] ELSE {})
  /\ UNCHANGED <<live, files, op, kills, marks>>

\* What follows a match, or a checkpoint: the next match of the player; after
\* checkpoint_every players the rank's rows are merged (densify_players only if
\* it has some); the next player; after the last, the rows that are left are
\* merged for good, and with none the collection ends without a gold.
Due(j) ==
  /\ j.kind # "fetch"
  /\ j.stage # "sources"
  /\ j.turn = 0
  /\ j.kind = "densify" => j.pool # {}

Continued(j) ==
  [j EXCEPT !.base = {},
            !.last = j.left = {} /\ ~Due(j) /\ j.players = <<>>,
            !.stage = IF j.left # {} THEN "fetch"
                      ELSE IF Due(j) THEN "read"
                      ELSE IF j.players # <<>> THEN "list"
                      ELSE IF j.pool # {} THEN "read" ELSE "end"]

Taken(j, m, rows) ==
  Continued([j EXCEPT !.left = @ \ {m}, !.pool = @ \cup rows])

\* match_ids for the next player: what Riot lists, cut by the days, the count,
\* the role and the objective of the target list.
ListMatches(d, asked) ==
  LET j == job[d] IN
  /\ j.stage = "list"
  /\ j.players # <<>>
  /\ asked \subseteq {m \in Matches \ j.known :
                       m[1] = Head(j.players) /\ PatchOf(m) <= live}
  /\ job' = [job EXCEPT ![d] = Continued(
               [j EXCEPT !.players = Tail(@), !.left = asked,
                         !.known = IF j.kind = "densify" THEN @ \cup asked ELSE @,
                         !.turn = (@ + 1) % Checkpoint])]
  /\ UNCHANGED <<live, files, op, kills, commands, marks>>

\* The rows of a match of another patch are dropped after the match was paid.
Kept(j, m) == IF j.kind = "fetch" \/ PatchOf(m) = j.patch THEN {m} ELSE {}

\* fetch_match_timeline: a readable match costs no call.
ReadRaw(d, m) ==
  /\ job[d].stage = "fetch"
  /\ m \in job[d].left
  /\ Readable(m)
  /\ job' = [job EXCEPT ![d] = Taken(@, m, Kept(@, m))]
  /\ UNCHANGED <<live, files, op, kills, commands, marks>>

\* The call fails: the match is skipped.
SkipMatch(d, m) ==
  /\ job[d].stage = "fetch"
  /\ m \in job[d].left
  /\ raw[m] = "none"
  /\ m \notin plain
  /\ job' = [job EXCEPT ![d] = Taken(@, m, {})]
  /\ UNCHANGED <<live, files, op, kills, commands, marks>>

\* The cache has nothing: Riot is asked, and the answer written afterwards.
AskRiot(d, m) ==
  /\ job[d].stage = "fetch"
  /\ m \in job[d].left
  /\ raw[m] = "none"
  /\ m \notin plain
  /\ job' = [job EXCEPT ![d] = [@ EXCEPT !.stage = "asked", !.base = {m}]]
  /\ UNCHANGED <<live, files, op, kills, commands, marks>>

\* write_bytes truncates the file, then fills it.
OpenRaw(d, m) ==
  /\ job[d].stage = "asked"
  /\ m \in job[d].base
  /\ raw' = [raw EXCEPT ![m] = "torn"]
  /\ twice' = IF raw[m] = "none" THEN twice ELSE twice \cup {m}
  /\ job' = [job EXCEPT ![d] = [@ EXCEPT !.stage = "writing"]]
  /\ UNCHANGED <<live, plain, silver, gold, sources, archive, op, kills, commands,
                 ever, overlapped, interrupted, gap>>

\* A file archive_patch moved in between is taken as written after the move.
CloseRaw(d, m) ==
  /\ job[d].stage = "writing"
  /\ m \in job[d].base
  /\ raw' = [raw EXCEPT ![m] = "whole"]
  /\ job' = [job EXCEPT ![d] = Taken(@, m, Kept(@, m))]
  /\ UNCHANGED <<live, plain, silver, gold, sources, archive, op, kills, commands, marks>>

\* The cache is read outside the "try": an unreadable document ends the run.
StopOnTorn(d, m) ==
  /\ job[d].stage = "fetch"
  /\ m \in job[d].left
  /\ raw[m] = "torn"
  /\ job' = [job EXCEPT ![d] = NoJob]
  /\ interrupted' = interrupted \cup {d}
  /\ UNCHANGED <<live, files, op, kills, commands, ever, overlapped, gap, twice>>

\* The end without rows; what densify_players checkpointed last has no gold.
NothingLeft(d) ==
  LET j == job[d] IN
  /\ j.stage = "end"
  /\ job' = [job EXCEPT ![d] = NoJob]
  /\ interrupted' = IF j.kind = "densify" /\ j.merged
                      THEN interrupted \cup {d} ELSE interrupted
  /\ UNCHANGED <<live, files, op, kills, commands, ever, overlapped, gap, twice>>

\* merge_jsonl: reads the file, adds the rows it has not, replaces the file.
ReadSilver(d) ==
  /\ job[d].stage = "read"
  /\ job' = [job EXCEPT ![d] = [@ EXCEPT !.base = silver[d], !.stage = "merge"]]
  /\ UNCHANGED <<live, files, op, kills, commands, marks>>

MutMerged(j) == IF j.pool = {} THEN j.base ELSE j.pool
Merged(j) == j.base \cup j.pool

\* A maintenance command that holds or moves what the collection writes.
Overlapping(d) ==
  IF op.at = d \/ op.kind = "archive" THEN {<<op.kind, d>>} ELSE {}

MergeSilver(d) ==
  LET all == Merged(job[d]) IN
  /\ job[d].stage = "merge"
  /\ silver' = [silver EXCEPT ![d] = all]
  /\ ever' = [ever EXCEPT ![d] = @ \cup all]
  /\ overlapped' = overlapped \cup Overlapping(d)
  /\ job' = [job EXCEPT ![d] =
               [@ EXCEPT !.base = all, !.merged = TRUE,
                         !.stage = IF d = "rank" THEN "sources" ELSE "gold"]]
  /\ UNCHANGED <<live, raw, plain, gold, sources, archive, op, kills, commands,
                 interrupted, gap, twice>>

\* build_referential writes sources.json in place: it is cut until it is
\* closed.
OpenSources ==
  /\ job["rank"].stage = "sources"
  /\ job["rank"].kind = "ref"
  /\ sources' = Torn
  /\ job' = [job EXCEPT !["rank"] = [@ EXCEPT !.stage = "closing"]]
  /\ UNCHANGED <<live, raw, plain, silver, gold, archive, op, kills, commands, marks>>

\* The pool emptied by every collection.
MutCloseSources ==
  LET j == job["rank"] IN
  /\ j.stage = "closing" \/ (j.stage = "sources" /\ j.kind = "densify")
  /\ sources' = j.patch
  /\ LET k == [j EXCEPT !.pool = {},
                         !.stage = "sources"]
     IN  job' = [job EXCEPT !["rank"] = IF j.last THEN [k EXCEPT !.stage = "gold"]
                                        ELSE Continued(k)]
  /\ UNCHANGED <<live, raw, plain, silver, gold, archive, op, kills, commands, marks>>

\* densify_players replaces it at once (dump_json_atomic) and empties its pool.
CloseSources ==
  LET j == job["rank"] IN
  /\ j.stage = "closing" \/ (j.stage = "sources" /\ j.kind = "densify")
  /\ sources' = j.patch
  /\ LET k == [j EXCEPT !.pool = IF j.kind = "densify" THEN {} ELSE @,
                         !.stage = "sources"]
     IN  job' = [job EXCEPT !["rank"] = IF j.last THEN [k EXCEPT !.stage = "gold"]
                                        ELSE Continued(k)]
  /\ UNCHANGED <<live, raw, plain, silver, gold, archive, op, kills, commands, marks>>

\* write_gold, from the rows merge_jsonl returned.
WriteGold(d) ==
  /\ job[d].stage = "gold"
  /\ gold' = [gold EXCEPT ![d] = job[d].base]
  /\ overlapped' = overlapped \cup Overlapping(d)
  /\ job' = [job EXCEPT ![d] = NoJob]
  /\ UNCHANGED <<live, raw, plain, silver, sources, archive, op, kills, commands, ever,
                 interrupted, gap, twice>>

\* The process is killed: the files stay as they are.
KillJob(d) ==
  LET j == job[d] IN
  /\ j.kind # "none"
  /\ kills < MaxKills
  /\ kills' = kills + 1
  /\ job' = [job EXCEPT ![d] = NoJob]
  /\ interrupted' = interrupted \cup {d}
  /\ gap' = (gap \/ (j.stage \in {"sources", "closing"} /\ sources # j.patch))
  /\ UNCHANGED <<live, files, commands, op, ever, overlapped, twice>>

-----------------------------------------------------------------------------
(* The maintenance commands.                                               *)

StartOp(kind) ==
  /\ Command
  /\ op.kind = "none"
  /\ kind \in {"reextract", "rebuild"}
  /\ op' = [NoOp EXCEPT !.kind = kind, !.todo = {d \in Dirs : silver[d] # {}}]
  /\ UNCHANGED <<live, files, job, kills, marks>>

\* Both read the rows of a directory, then write: reextract_silver the same
\* rows, extracted again (kept as they were when the raw is not readable),
\* rebuild_gold their aggregates.
ReadRows(d) ==
  /\ op.kind \in {"reextract", "rebuild"}
  /\ op.at = "none"
  /\ d \in op.todo
  /\ op' = [op EXCEPT !.at = d, !.todo = @ \ {d}, !.held = silver[d]]
  /\ UNCHANGED <<live, files, job, kills, commands, marks>>

WriteRows(d) ==
  /\ op.at = d
  /\ d \in Dirs
  /\ IF op.kind = "reextract" THEN /\ silver' = [silver EXCEPT ![d] = op.held]
                                    /\ gold' = gold
                               ELSE /\ gold' = [gold EXCEPT ![d] = op.held]
                                    /\ silver' = silver
  /\ op' = [op EXCEPT !.at = "none", !.held = {}]
  /\ UNCHANGED <<live, raw, plain, sources, archive, job, kills, commands, marks>>

RowsDone ==
  /\ op.kind \in {"reextract", "rebuild"}
  /\ op.at = "none"
  /\ op.todo = {}
  /\ op' = NoOp
  /\ UNCHANGED <<live, files, job, kills, commands, marks>>

\* compress_raw: a .json that has no .json.zst; the compressed bytes are
\* checked in memory, then the .json is removed.
StartCompress(m) ==
  /\ Command
  /\ op.kind = "none"
  /\ m \in plain
  /\ raw[m] = "none"
  /\ op' = [NoOp EXCEPT !.kind = "compress", !.held = {m}, !.stage = "open"]
  /\ UNCHANGED <<live, files, job, kills, marks>>

WriteZst(m, from, state, to) ==
  /\ op.kind = "compress"
  /\ op.stage = from
  /\ m \in op.held
  /\ raw' = [raw EXCEPT ![m] = state]
  /\ op' = [op EXCEPT !.stage = to]
  /\ UNCHANGED <<live, plain, silver, gold, sources, archive, job, kills, commands, marks>>

MutOpenZst(m) == WriteZst(m, "open", "torn", "unlink")
OpenZst(m) == WriteZst(m, "open", "torn", "close")
CloseZst(m) == WriteZst(m, "close", "whole", "unlink")

UnlinkPlain(m) ==
  /\ op.stage = "unlink"
  /\ m \in op.held
  /\ plain' = plain \ {m}
  /\ op' = NoOp
  /\ UNCHANGED <<live, raw, silver, gold, sources, archive, job, kills, commands, marks>>

\* archive_patch: the patch of sources.json, refused when its archive exists,
\* were it a folder a killed run left; the directories move one by one.
StartArchive ==
  /\ Command
  /\ op.kind = "none"
  /\ sources \in Patches
  /\ archive[sources].state = "none"
  /\ archive' = [archive EXCEPT ![sources].state = "folder"]
  /\ op' = [NoOp EXCEPT !.kind = "archive", !.patch = sources, !.stage = "raw"]
  /\ UNCHANGED <<live, raw, plain, silver, gold, sources, job, kills, marks>>

Moved(stage) ==
  /\ op' = [op EXCEPT !.stage = stage]
  /\ overlapped' = overlapped
       \cup {<<"archive", d>> : d \in {e \in Dirs : job[e].kind # "none"}}

MoveRaw ==
  /\ op.stage = "raw"
  /\ archive' = [archive EXCEPT ![op.patch].raw =
                   {m \in Matches : raw[m] = "whole" \/ m \in plain}]
  /\ raw' = [m \in Matches |-> "none"]
  /\ plain' = {}
  /\ Moved("silver")
  /\ UNCHANGED <<live, silver, gold, sources, job, kills, commands, ever, interrupted,
                 gap, twice>>

\* seen_puuids.txt and sources.json are in the same folder.
MoveSilver ==
  /\ op.stage = "silver"
  /\ archive' = [archive EXCEPT ![op.patch].rows = silver]
  /\ silver' = [d \in Dirs |-> {}]
  /\ sources' = NoFile
  /\ Moved("gold")
  /\ UNCHANGED <<live, raw, plain, gold, job, kills, commands, ever, interrupted,
                 gap, twice>>

MoveGold ==
  /\ op.stage = "gold"
  /\ gold' = [d \in Dirs |-> {}]
  /\ Moved("zip")
  /\ UNCHANGED <<live, raw, plain, silver, sources, archive, job, kills, commands, ever,
                 interrupted, gap, twice>>

ZipArchive ==
  /\ op.stage = "zip"
  /\ archive' = [archive EXCEPT ![op.patch].state = "zip"]
  /\ op' = NoOp
  /\ UNCHANGED <<live, raw, plain, silver, gold, sources, job, kills, commands, marks>>

KillOp ==
  /\ op.kind # "none"
  /\ kills < MaxKills
  /\ kills' = kills + 1
  /\ op' = NoOp
  /\ interrupted' = IF op.kind = "archive" THEN Dirs ELSE interrupted
  /\ UNCHANGED <<live, files, commands, job, ever, overlapped, gap, twice>>

\* Riot publishes a patch.
NewPatch ==
  /\ live < LastPatch
  /\ live' = live + 1
  /\ UNCHANGED <<files, job, op, kills, commands, marks>>

-----------------------------------------------------------------------------
CollectStep(d) ==
  \/ \E asked \in SUBSET Matches : ListMatches(d, asked)
  \/ \E m \in Matches : \/ ReadRaw(d, m) \/ SkipMatch(d, m) \/ AskRiot(d, m)
                        \/ OpenRaw(d, m) \/ CloseRaw(d, m) \/ StopOnTorn(d, m)
  \/ NothingLeft(d) \/ ReadSilver(d) \/ MergeSilver(d) \/ WriteGold(d)
  \/ KillJob(d)

Collect ==
  \/ \E p \in Patches, s \in Samples : StartReferential(p, s)
  \/ \E s \in Samples : StartDensify(s)
  \/ \E b \in BOOLEAN : StartPersonal(b)
  \/ OpenSources \/ CloseSources
  \/ \E d \in Dirs : CollectStep(d)

Maintain ==
  \/ \E k \in {"reextract", "rebuild"} : StartOp(k)
  \/ \E d \in Dirs : ReadRows(d) \/ WriteRows(d)
  \/ RowsDone
  \/ \E m \in Matches : \/ StartCompress(m) \/ OpenZst(m)
                        \/ CloseZst(m) \/ UnlinkPlain(m)
  \/ StartArchive \/ MoveRaw \/ MoveSilver \/ MoveGold \/ ZipArchive
  \/ KillOp

Next == NewPatch \/ Collect \/ Maintain

Spec == Init /\ [][Next]_vars

-----------------------------------------------------------------------------
LayersTypeOK ==
  /\ live \in Patches
  /\ raw \in [Matches -> {"none", "torn", "whole"}]
  /\ plain \subseteq Legacy
  /\ silver \in [Dirs -> SUBSET Matches]
  /\ gold \in [Dirs -> SUBSET Matches]
  /\ sources \in Patches \cup {NoFile, Torn}
  /\ archive \in [Patches -> [state : {"none", "folder", "zip"},
                              raw : SUBSET Matches,
                              rows : [Dirs -> SUBSET Matches]]]
  /\ \A p \in Patches : archive[p].state = "none" => archive[p] = NoArchive
  /\ kills \in 0..MaxKills
  /\ commands \in 0..MaxCommands
  /\ ever \in [Dirs -> SUBSET Matches]

Archived(d) == UNION {archive[p].rows[d] : p \in Patches}

\* A row once written to a games.jsonl stays there or in an archive, through
\* every kill and every patch, unless reextract_silver was rewriting the file
\* while a collection merged into it (write_jsonl, merge_jsonl).
RowsKept ==
  \A d \in Dirs :
    <<"reextract", d>> \notin overlapped => ever[d] \subseteq silver[d] \cup Archived(d)

\* The raw documents of a row can still be read somewhere, the cache or an
\* archive, so that it can be extracted again; the exception is two
\* collections writing the same document at the same time.
RawKept ==
  \A d \in Dirs : \A m \in silver[d] \cup Archived(d) :
    \/ m \in plain \/ raw[m] = "whole" \/ m \in twice
    \/ \E p \in Patches : m \in archive[p].raw

\* The rows of a rank are of one patch (the refusal of build_referential),
\* unless a kill left the rows without their first sources.json.
PatchesApart ==
  gap \/ \A m, n \in silver["rank"] : PatchOf(m) = PatchOf(n)

\* At rest the aggregates are those of the rows, unless a collection was cut
\* before its gold or a maintenance command ran in the same directory.
GoldFollows ==
  \A d \in Dirs :
    job[d].kind = "none" /\ op.kind = "none" =>
      \/ d \in interrupted
      \/ \E k \in {"reextract", "rebuild", "archive"} : <<k, d>> \in overlapped
      \/ gold[d] = silver[d]
=============================================================================
