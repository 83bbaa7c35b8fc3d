--------------------------- MODULE LadderSnapshot ---------------------------
(***************************************************************************)
(* A snapshot of the ranks of one day (src/src/collection/fetch_ladder.py):*)
(* calls of Riot made one after the other on a ladder that moves, then     *)
(* three writes - the manifest that invalidates the day, the rows, the     *)
(* manifest that marks it complete - by runs that may cross or be killed.  *)
(***************************************************************************)
EXTENDS NoValue, Integers, FiniteSets, Sequences, SequencesExt, Functions

CONSTANTS
    Runs,           \* the runs of fetch_ladder on this day
    APEX,           \* the tiers read in one call each, in this order
    DIVISIONS,      \* the divisions read page by page, in this order
    PageEnds,       \* how far each page asked for goes: Riot makes some shorter than others
    Days            \* days: [ladder, moves, runs], that is how the players stand (division ->
                    \* sequence), how often they move, how many times the script is started

VARIABLES
    ladder,
    moves,      \* the moves and the runs still to come
    runs,
    run,        \* each run: [status, call, page, rows]
    manifest,   \* the day's entry: [complete, n_rows, captured]
    blob,       \* the rows on disk: [by, rows]
    since       \* history of each run: the ranks each player held, the divisions somebody left

ladderVars == <<ladder, moves, runs, run, manifest, blob, since>>

Calls == APEX \o DIVISIONS
Ranks == Range(Calls)
Ranked == UNION {Range(ladder[d]) : d \in Ranks}
RankOf(p) == CHOOSE d \in Ranks : p \in Range(ladder[d])
Everybody == UNION {Range(day.ladder[d]) : day \in Days, d \in Ranks}

-----------------------------------------------------------------------------
(* What Riot answers. *)

Before(k) == IF k = 1 THEN 0 ELSE PageEnds[k - 1]
PageOf(d, k) == {ladder[d][i] : i \in {j \in DOMAIN ladder[d] : Before(k) < j /\ j <= PageEnds[k]}}

-----------------------------------------------------------------------------
(* The collection of the rows. *)

NewRun == [status |-> "reading", call |-> 1, page |-> 1, rows |-> << >>]
Progress(c, r) == run' = [run EXCEPT ![c] = r]

(* A player read twice keeps the first rank. *)
Seen(r, d, players) ==
    [r EXCEPT !.rows = [p \in DOMAIN @ \cup players |-> IF p \in DOMAIN @ THEN @[p] ELSE d]]

Starts(c) ==
    /\ run[c] = None
    /\ runs > 0
    /\ runs' = runs - 1
    /\ Progress(c, NewRun)
    /\ since' = [since EXCEPT ![c] = [held |-> [p \in Ranked |-> {RankOf(p)}], left |-> {}]]
    /\ UNCHANGED <<ladder, moves, manifest, blob>>

Reads(c, status) == run[c] # None /\ run[c].status = status

ReadApex(c) ==
    /\ Reads(c, "reading")
    /\ run[c].call \in DOMAIN APEX
    /\ LET d == APEX[run[c].call]
       IN  Progress(c, [Seen(run[c], d, Range(ladder[d])) EXCEPT !.call = @ + 1])
    /\ UNCHANGED <<ladder, moves, runs, manifest, blob, since>>

(* Mutant: a page that is not full ends its division. *)
MutEnds(d, k) == Cardinality(PageOf(d, k)) < 2

(* Only an empty page ends a division (or the last one asked for). *)
Ends(d, k) == PageOf(d, k) = {}

ReadPage(c) ==
    /\ Reads(c, "reading")
    /\ run[c].call \in Len(APEX) + 1 .. Len(Calls)
    /\ LET d == Calls[run[c].call]
           k == run[c].page
           r == Seen(run[c], d, PageOf(d, k))
       IN  Progress(c, IF Ends(d, k) \/ k = Len(PageEnds) THEN [r EXCEPT !.call = @ + 1, !.page = 1]
                  ELSE [r EXCEPT !.page = @ + 1])
    /\ UNCHANGED <<ladder, moves, runs, manifest, blob, since>>

(* What a run may hold: its progress and the ranks it has read. *)
Collections ==
    [status : {"reading", "invalidated", "written", "done", "killed"},
     call : Nat, page : DOMAIN PageEnds, rows : UNION {[S -> Ranks] : S \in SUBSET Everybody}]

(* Everybody has one place on the ladder of a day, and the pages asked for *)
(* (_MAX_PAGES) go further than the players.                               *)
LadderAssumption ==
    /\ IsFiniteSet(Runs)
    /\ APEX \in Seq(STRING) /\ DIVISIONS \in Seq(STRING)
    /\ IsFiniteSet(Everybody)
    /\ PageEnds \in Seq(Nat) /\ PageEnds # <<>>
    /\ \A k \in DOMAIN PageEnds : Before(k) < PageEnds[k]
    /\ Cardinality(Everybody) <= PageEnds[Len(PageEnds)]
    /\ \A day \in Days :
          /\ day.ladder \in [Ranks -> Seq(Everybody)]
          /\ \A d, e \in Ranks : \A i \in DOMAIN day.ladder[d], j \in DOMAIN day.ladder[e] :
                day.ladder[d][i] = day.ladder[e][j] => d = e /\ i = j
    /\ None \notin Collections

-----------------------------------------------------------------------------
(* The three writes. *)

Invalidate(c) ==
    /\ Reads(c, "reading")
    /\ run[c].call > Len(Calls)
    /\ manifest' = [complete |-> FALSE, n_rows |-> None, captured |-> None]
    /\ Progress(c, [run[c] EXCEPT !.status = "invalidated"])
    /\ UNCHANGED <<ladder, moves, runs, blob, since>>

WriteBlob(c) ==
    /\ Reads(c, "invalidated")
    /\ blob' = [by |-> c, rows |-> run[c].rows]
    /\ Progress(c, [run[c] EXCEPT !.status = "written"])
    /\ UNCHANGED <<ladder, moves, runs, manifest, since>>

MarkComplete(c) ==
    /\ Reads(c, "written")
    /\ manifest' = [complete |-> TRUE, n_rows |-> Cardinality(DOMAIN run[c].rows), captured |-> c]
    /\ Progress(c, [run[c] EXCEPT !.status = "done"])
    /\ UNCHANGED <<ladder, moves, runs, blob, since>>

Killed(c) ==
    /\ run[c] # None /\ run[c].status \notin {"done", "killed"}
    /\ Progress(c, [run[c] EXCEPT !.status = "killed"])
    /\ UNCHANGED <<ladder, moves, runs, manifest, blob, since>>

(* What a reader of the day gets: nothing without the mark of completion,  *)
(* an error when the rows are not as many as marked.                       *)
LoadSnapshot ==
    IF ~manifest.complete THEN None
    ELSE IF Cardinality(DOMAIN blob.rows) # manifest.n_rows THEN None
    ELSE blob.rows

-----------------------------------------------------------------------------
(* The ladder moves: a player enters a division, by its top or its bottom. *)

Open == {c \in Runs : run[c] # None /\ run[c].status = "reading"}

AfterMove(from, i, d, top) ==
    LET p == ladder[from][i]
        rest == [ladder EXCEPT ![from] = RemoveAt(@, i)]
    IN  [rest EXCEPT ![d] = IF top THEN <<p>> \o @ ELSE Append(@, p)]

(* What the runs that read know of it. *)
Noticed(from, i, d) ==
    [c \in Runs |->
       IF c \notin Open THEN since[c]
       ELSE [held |-> [since[c].held EXCEPT ![ladder[from][i]] = @ \cup {d}],
             left |-> since[c].left \cup {from}]]

Moves ==
    /\ moves > 0 /\ Open # {}
    /\ moves' = moves - 1
    /\ \E from, d \in Ranks, top \in BOOLEAN : \E i \in DOMAIN ladder[from] :
         /\ ladder' = AfterMove(from, i, d, top)
         /\ ladder' # ladder
         /\ since' = Noticed(from, i, d)
    /\ UNCHANGED <<runs, run, manifest, blob>>

LadderInit ==
    /\ \E day \in Days : ladder = day.ladder /\ moves = day.moves /\ runs = day.runs
    /\ run = [c \in Runs |-> None]
    /\ manifest = [complete |-> FALSE, n_rows |-> None, captured |-> None]
    /\ blob = None
    /\ since = [c \in Runs |-> None]

LadderNext ==
    \/ \E c \in Runs : \/ Starts(c) \/ ReadApex(c) \/ ReadPage(c)
                       \/ Invalidate(c) \/ WriteBlob(c) \/ MarkComplete(c) \/ Killed(c)
    \/ Moves

LadderSpec == LadderInit /\ [][LadderNext]_ladderVars

-----------------------------------------------------------------------------
(* Properties. *)

Writers == {c \in Runs : run[c] # None /\ run[c].status \in {"invalidated", "written", "done", "killed"}}

(* A snapshot that loads is the whole collection of one run, whose mark it *)
(* carries unless two runs of the day crossed; each player has one rank,   *)
(* one he held while it was read; and a player is missing only when he     *)
(* moved, or when somebody of his division did and shifted its pages.      *)
SnapshotIsFair ==
    LoadSnapshot # None =>
       LET c == blob.by
           held == since[c].held
       IN  /\ LoadSnapshot = run[c].rows
           /\ run[c].call > Len(Calls)
           /\ manifest.captured = c \/ Cardinality(Writers) > 1
           /\ run[c].status = "done" \/ \E d \in Runs \ {c} : Reads(d, "done")
           /\ \A p \in DOMAIN LoadSnapshot : LoadSnapshot[p] \in held[p]
           /\ \A p \in DOMAIN held \ DOMAIN LoadSnapshot :
                Cardinality(held[p]) > 1 \/ held[p] \cap since[c].left # {}
=============================================================================
