---------------------------- MODULE TrainingWindows ----------------------------
(***************************************************************************)
(* What a model of a role learns from and is scored on: the per-game table *)
(* of the role (build_dataset.py), the windows of its players under the    *)
(* ladder of one day (build_role_player_dataset.py), and the samples a     *)
(* training draws, with the purge that keeps a scored player's games out   *)
(* of what is learnt (train_role_ensemble.py; the historical trainings:    *)
(* cv_common.py, sequence_data.py, audit_leakage.py). Statistics are out:  *)
(* a window is the set of its games, the draw of a seed is any draw.       *)
(***************************************************************************)
EXTENDS Integers, FiniteSets, Sequences, FiniteSetsExt, NoValue

CONSTANTS
    Histories,      \* the games that will be played: sequences of [player -> role]
    Role,           \* the role the tables are about
    Ladders,        \* what a capture may read: [player -> tier], the unranked absent
    HIGH, LOW,      \* the tiers of the two classes
    N_WINDOW,
    MaxUnread,      \* raw documents one build may fail to read
    MaxCommands     \* builds and captures of one behaviour

VARIABLES
    history, day,       \* the games, and how many were played
    collected,
    rows,               \* the role's per-game table: <<game, player>>
    snapshot, captures, \* the ladder in force, and all that were
    windows,            \* the role's player table: player -> [games, tier, as_of]
    sidecar,            \* the provenance written beside it
    building,           \* the provenance a build has yet to write
    torn,               \* history: a build stopped before it
    commands,
    training            \* the training looked at

tables == <<rows, snapshot, captures, windows, sidecar, building, torn>>
trainingVars == <<history, day, collected, tables, commands, training>>

-----------------------------------------------------------------------------
(* The tables. *)

Plays(p, m) == p \in DOMAIN history[m] /\ history[m][p] = Role
Seats(games) == {s \in games \X UNION {DOMAIN history[m] : m \in games} : Plays(s[2], s[1])}
RowsOf(p) == {r[1] : r \in {x \in rows : x[2] = p}}
PlayersOf(table) == {r[2] : r \in table}

NewestOf(n, games) == {m \in games : Cardinality({k \in games : k > m}) < n}

(* A window holds exactly N games of a player the ladder ranks. *)
Windows ==
    LET upTo(p) == {m \in RowsOf(p) : m <= snapshot.as_of}
        eligible == {p \in PlayersOf(rows) \cap DOMAIN snapshot.ranks : Cardinality(upTo(p)) >= N_WINDOW}
    IN  [p \in eligible |-> [games |-> NewestOf(N_WINDOW, upTo(p)),
                             tier |-> snapshot.ranks[p], as_of |-> snapshot.as_of]]

Provenance(table) ==
    LET players == DOMAIN table
    IN  [rows |-> Cardinality(players),
         ages |-> {table[p].as_of - Max(table[p].games) : p \in players},
         oldest |-> Min(UNION {table[p].games : p \in players})]

-----------------------------------------------------------------------------
(* Games are played and collected, in any order; tables are rebuilt.       *)

AtRest == building = None /\ training = None
Spend == AtRest /\ commands > 0 /\ commands' = commands - 1 /\ UNCHANGED <<history, day, collected, training>>

Play ==
    /\ AtRest
    /\ day < Len(history)
    /\ day' = day + 1
    /\ UNCHANGED <<history, collected, tables, commands, training>>

Collect ==
    /\ AtRest
    /\ \E m \in (1..day) \ collected : collected' = collected \cup {m}
    /\ UNCHANGED <<history, day, tables, commands, training>>

(* A raw document that cannot be read leaves its game out of the table.    *)
BuildRows ==
    /\ Spend
    /\ \E unread \in SUBSET collected :
         Cardinality(unread) <= MaxUnread /\ rows' = Seats(collected \ unread)
    /\ UNCHANGED <<snapshot, captures, windows, sidecar, building, torn>>

Capture ==
    /\ Spend
    /\ \E ranks \in Ladders : snapshot' = [as_of |-> day, ranks |-> ranks]
    /\ captures' = captures \cup {snapshot'}
    /\ UNCHANGED <<rows, windows, sidecar, building, torn>>

(* An empty table never replaces one that is not.                          *)
WriteWindows ==
    /\ Spend
    /\ snapshot # None
    /\ Windows = << >> => windows = << >>
    /\ windows' = Windows
    /\ building' = IF Windows = << >> THEN None ELSE Provenance(Windows)
    /\ UNCHANGED <<rows, snapshot, captures, sidecar, torn>>

WriteSidecar ==
    /\ building # None
    /\ sidecar' = building /\ building' = None /\ torn' = FALSE
    /\ UNCHANGED <<history, day, collected, rows, snapshot, captures, windows, commands, training>>

BuildKilled ==
    /\ building # None
    /\ building' = None /\ torn' = TRUE
    /\ UNCHANGED <<history, day, collected, rows, snapshot, captures, windows, sidecar, commands, training>>

-----------------------------------------------------------------------------
(* What a training learns from, and without what.                          *)

ClassOf(tiers) == {p \in DOMAIN windows : windows[p].tier \in tiers}
Fewest == Min({Cardinality(ClassOf(HIGH)), Cardinality(ClassOf(LOW))})
Balanced == {h \cup l : h \in kSubset(Fewest, ClassOf(HIGH)), l \in kSubset(Fewest, ClassOf(LOW))}
Parts(players) == (SUBSET players) \ {{}, players}
HoldOuts(sample) == {e \in Parts(sample) : Cardinality(e \cap ClassOf(HIGH)) = Cardinality(e \cap ClassOf(LOW))}

(* Mutant: only the windows of the held players are looked at. *)
MutShared(held) == UNION {windows[p].games : p \in held \cap DOMAIN windows}

(* Every game of the role a held player is in. *)
Shared(held) == UNION {RowsOf(p) : p \in held}

(* An older game replaces one taken out; too few, and the player is out.   *)
FixedWindows(players, held) ==
    LET w(p) == NewestOf(N_WINDOW, {m \in RowsOf(p) \ Shared(held) : m <= windows[p].as_of})
    IN  [p \in {q \in players : Cardinality(w(q)) = N_WINDOW} |-> w(p)]

PurgedGames(players, held) ==
    [p \in {q \in players : ~(RowsOf(q) \subseteq Shared(held))} |-> RowsOf(p) \ Shared(held)]

(* Games of the two players of the role are each other's mirror.           *)
MirrorPurge(players, held) ==
    LET mine(p) == {m \in RowsOf(p) : ~\E r \in rows : r[1] = m /\ r[2] # p /\ r[2] \in held}
    IN  [p \in {q \in players : mine(q) # {}} |-> mine(p)]

(* Rows of a player or of a game go together (union-find).                 *)
Linked(table) == {l \in table \X table : l[1] # l[2] /\ (l[1][1] = l[2][1] \/ l[1][2] = l[2][2])}
Find(parent) == LET Up[r \in DOMAIN parent] == IF parent[r] = r THEN r ELSE Up[parent[r]] IN Up
Union(pair, parent) ==
    LET a == Find(parent)[pair[1]]
        b == Find(parent)[pair[2]]
    IN  IF a = b THEN parent ELSE [parent EXCEPT ![a] = b]
LeakGroups(table) ==
    LET root == Find(FoldSet(Union, [r \in table |-> r], Linked(table)))
    IN  {{r \in table : root[r] = g} : g \in {root[r] : r \in table}}

Look(kind, held, learnt) ==
    /\ training' = [kind |-> kind, held |-> held, learnt |-> learnt]
    /\ UNCHANGED <<history, day, collected, tables, commands>>

(* The draws and the folds of a role: a fold is held with the hold-out.    *)
TrainRole ==
    /\ AtRest
    /\ Fewest > 0
    /\ \E sample \in Balanced : \E holdout \in HoldOuts(sample) :
         \E fold \in Parts(sample \ holdout) \cup {{}} :
           LET held == holdout \cup fold IN Look("role", held, FixedWindows(sample \ held, held))

TrainEnsemble ==
    /\ AtRest
    /\ LET players == {p \in PlayersOf(rows) : Cardinality(RowsOf(p)) >= N_WINDOW}
       IN  \E held \in Parts(players) : Look("ensemble", held, PurgedGames(players \ held, held))

TrainSequence ==
    /\ AtRest
    /\ \E held \in Parts(PlayersOf(rows)) :
         Look("sequence", held, MirrorPurge(PlayersOf(rows) \ held, held))

AuditLeakage ==
    /\ AtRest
    /\ \E fold \in Parts(LeakGroups(rows)) :
         LET learnt == rows \ UNION fold
         IN  Look("audit", PlayersOf(UNION fold),
                  [p \in PlayersOf(learnt) |-> {m \in RowsOf(p) : <<m, p>> \in learnt}])

-----------------------------------------------------------------------------
(* A game has its players, a ladder its ranks, a window one game at least. *)
TrainingAssumption ==
    /\ None \notin [rows : Nat, ages : SUBSET Int, oldest : Int]
    /\ N_WINDOW \in Nat \ {0}
    /\ \A h \in Histories :
         /\ Len(h) \in Nat /\ DOMAIN h = 1..Len(h)
         /\ IsFiniteSet(UNION {DOMAIN h[m] : m \in DOMAIN h})

TrainingInit ==
    /\ history \in Histories
    /\ day = 0 /\ collected = {}
    /\ rows = {} /\ snapshot = None /\ captures = {}
    /\ windows = << >> /\ sidecar = None /\ building = None /\ torn = FALSE
    /\ commands = MaxCommands
    /\ training = None

TrainingNext ==
    \/ Play \/ Collect
    \/ BuildRows \/ Capture \/ WriteWindows \/ WriteSidecar \/ BuildKilled
    \/ TrainRole \/ TrainEnsemble \/ TrainSequence \/ AuditLeakage

TrainingSpec == TrainingInit /\ [][TrainingNext]_trainingVars

-----------------------------------------------------------------------------
(* Properties. *)

(* No game of what is learnt was played in the role by a player who is     *)
(* scored, whatever was collected, lost or rebuilt between the tables.     *)
NoGameOnBothSides ==
    LET learnt == training.learnt
    IN  /\ DOMAIN learnt \cap training.held = {}
        /\ \A p \in DOMAIN learnt : \A m \in learnt[p] :
             Plays(p, m) /\ \A q \in training.held : ~Plays(q, m)

(* A role learns from full windows, as old as the rank they carry at most, *)
(* and no game is passed over unless a scored player was in it.            *)
WindowsAreFull ==
    training.kind = "role" =>
       \A p \in DOMAIN training.learnt :
          LET games == training.learnt[p]
          IN  /\ Cardinality(games) = N_WINDOW
              /\ \E c \in captures : c.as_of = windows[p].as_of /\ p \in DOMAIN c.ranks /\ c.ranks[p] = windows[p].tier
              /\ \A m \in games : m <= windows[p].as_of
              /\ \A m \in RowsOf(p) : m > Min(games) /\ m <= windows[p].as_of =>
                   m \in games \/ \E q \in training.held : Plays(q, m)

(* The groups of the audit are no larger than what must go together.       *)
GroupsAreFine ==
    training.kind = "audit" =>
       \A g \in LeakGroups(rows) : \A s \in Parts(g) : \E r \in s, x \in g \ s : r[1] = x[1] \/ r[2] = x[2]

(* The provenance a training reports is the one of its windows, unless the *)
(* build was killed between its two files.                                 *)
SidecarIsTheirs == windows # << >> /\ building = None /\ ~torn => sidecar = Provenance(windows)

TrainingIsClean ==
    /\ SidecarIsTheirs
    /\ training # None => NoGameOnBothSides /\ WindowsAreFull /\ GroupsAreFine
=============================================================================
