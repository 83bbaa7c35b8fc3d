------------------------------ MODULE GameRecord ------------------------------
(***************************************************************************)
(* The records of one game, one for each participant (extract_game of      *)
(* src/src/core/riotlib.py), and the rows of the datasets made of them     *)
(* (core/game_rows.py).  A game is recorded step by step; at its end the   *)
(* program reads the whole timeline once for each participant, from his    *)
(* side.  Time is counted in half minutes and the milestones are brought   *)
(* forward; gold, experience and farm are one quantity, read alike; of a   *)
(* position, only the base or the side of the map it is in.                *)
(***************************************************************************)
EXTENDS Integers, FiniteSets, Sequences, FiniteSetsExt, Functions, NoValue

CONSTANTS
    Matches,        \* the games: [lineup, events, frames], that is a sequence of [team, role],
                    \* what may happen, what a frame may hold: participant -> [worth, camps, place]
    MILESTONES,     \* the minutes at which lanes are compared
    EARLY_END,      \* the last minute of the early phase
    MID_END,
    MARGIN,         \* an advance
    MaxHalf, MaxStory

VARIABLES
    match,
    half,       \* half minutes played
    shots,      \* the frames: a sequence of [at, of]
    story,      \* the events: a sequence
    records     \* what was extracted, at the end

recordVars == <<match, half, shots, story, records>>

Pids == DOMAIN match.lineup
SideOf(p) == match.lineup[p].team
RoleOf(p) == match.lineup[p].role
EnemyOf(team) == IF team = 200 THEN 100 ELSE 200

(* The first participant of a team in a role. *)
FindPid(team, role) ==
    LET found == {p \in Pids : SideOf(p) = team /\ RoleOf(p) = role}
    IN  IF found = {} THEN None ELSE Min(found)

OppOf(p) == IF RoleOf(p) = None THEN None ELSE FindPid(EnemyOf(SideOf(p)), RoleOf(p))
BotOf(team) == {FindPid(team, "BOTTOM"), FindPid(team, "UTILITY")} \ {None}
LaneOf(role) == IF role \in {"BOTTOM", "UTILITY"} THEN "BOT_LANE" ELSE None

-----------------------------------------------------------------------------
(* FiledMinutes. *)

(* round(): a half goes to the even minute. *)
Minute(at) == LET m == at \div 2 IN IF at % 2 = 0 \/ m % 2 = 0 THEN m ELSE m + 1

PhaseOf(minute) == IF minute <= EARLY_END THEN "early" ELSE IF minute <= MID_END THEN "mid" ELSE "late"

(* The last frame filed under a minute is the one kept. *)
FiledMinutes == {Minute(shots[i].at) : i \in DOMAIN shots}
At(p, minute) == shots[Max({i \in DOMAIN shots : Minute(shots[i].at) = minute})].of[p]

Diff(p, q, minute) ==
    IF q = None \/ minute \notin FiledMinutes THEN None ELSE At(p, minute).worth - At(q, minute).worth

GoldState(d) == IF d > MARGIN THEN "ahead" ELSE IF d < -MARGIN THEN "behind" ELSE "even"

(* The gold at the latest frame filed under the minute or an earlier one.  *)
GoldStateFrom(p, q, minute) ==
    IF q = None THEN None ELSE GoldState(Diff(p, q, Max({m \in FiledMinutes : m <= minute})))

-----------------------------------------------------------------------------
(* What one participant did. *)

Kills == {i \in DOMAIN story : story[i].type = "CHAMPION_KILL"}
Involved(e) == {e.by} \cup e.assists
DeathsOf(p) ==
    [i \in {k \in Kills : story[k].victim = p} |->
        [minute |-> Minute(story[i].at), phase |-> PhaseOf(Minute(story[i].at)), solo |-> story[i].assists = {},
         gold_state |-> GoldStateFrom(p, OppOf(p), Minute(story[i].at)),
         ganked |-> FindPid(EnemyOf(SideOf(p)), "JUNGLE") \in Involved(story[i]),
         two |-> Involved(story[i]) \subseteq BotOf(EnemyOf(SideOf(p)))]]

(* Mutant: the player and his support, whoever the player is. *)
MutPair(p) == {p, FindPid(SideOf(p), "UTILITY")} \ {None}

(* The pair whose kills count as a two against two. *)
Pair(p) == BotOf(SideOf(p))

TwoByTwo(p, e) == Involved(e) \subseteq Pair(p) /\ e.victim \in BotOf(EnemyOf(SideOf(p)))

Takedowns(p, mine) ==
    [i \in mine |->
        [minute |-> Minute(story[i].at), phase |-> PhaseOf(Minute(story[i].at)), solo |-> story[i].assists = {},
         victim |-> story[i].victim, two |-> TwoByTwo(p, story[i])]]
KillsOf(p) == Takedowns(p, {k \in Kills : story[k].by = p})
AssistsOf(p) == Takedowns(p, {k \in Kills : story[k].by # p /\ p \in story[k].assists})

(* The support's deaths, in the records of the others of the team. *)
SupportDeathsEarly(p) ==
    Cardinality({k \in Kills : /\ story[k].victim = FindPid(SideOf(p), "UTILITY")
                               /\ story[k].victim # p
                               /\ Minute(story[k].at) < EARLY_END})

Lane(p) == [m \in MILESTONES |-> Diff(p, OppOf(p), m)]

FramesInBaseEarly(p) ==
    Cardinality({i \in DOMAIN shots : Minute(shots[i].at) < EARLY_END /\ shots[i].of[p].place = <<"BASE", SideOf(p)>>})

(* Where the player stood a minute before each dragon, if a frame says it. *)
DragonProximity(p) ==
    LET before(e) == Minute(IF e.at < 2 THEN 0 ELSE e.at - 2)
    IN  [i \in {k \in DOMAIN story : /\ story[k].type = "ELITE_MONSTER_KILL" /\ story[k].monster = "DRAGON"
                                     /\ before(story[k]) \in FiledMinutes} |-> At(p, before(story[i])).place]

PlateDiffEarly(p) ==
    LET lost(team) == Cardinality({k \in DOMAIN story :
                          /\ story[k].type = "TURRET_PLATE_DESTROYED" /\ story[k].lane = LaneOf(RoleOf(p))
                          /\ story[k].at < 2 * EARLY_END /\ story[k].team = team})
    IN  IF LaneOf(RoleOf(p)) = None THEN None ELSE lost(EnemyOf(SideOf(p))) - lost(SideOf(p))

-----------------------------------------------------------------------------
(* What is said of the teams. *)

(* The jungler's start: the last of the role, where the second frame sees him. *)
StartOf(team) ==
    LET junglers == {p \in Pids : SideOf(p) = team /\ RoleOf(p) = "JUNGLE"}
    IN  IF junglers = {} \/ Len(shots) < 2 THEN None
        ELSE shots[2].of[Max(junglers)].place[1]
Strong(start) == IF start = "BOT" THEN "TOP" ELSE IF start = None THEN None ELSE "BOT"

Sides(p) == [ally |-> StartOf(SideOf(p)), ally_strong |-> Strong(StartOf(SideOf(p))),
             enemy |-> StartOf(EnemyOf(SideOf(p))), enemy_strong |-> Strong(StartOf(EnemyOf(SideOf(p))))]

Objectives(p) ==
    [i \in {k \in DOMAIN story : \/ story[k].type = "ELITE_MONSTER_KILL"
                                 \/ story[k].type = "BUILDING_KILL"} |->
        [minute |-> story[i].at \div 2,
         is_ally |-> IF story[i].type = "ELITE_MONSTER_KILL" THEN story[i].killer_team = SideOf(p)
                     ELSE story[i].team # SideOf(p)]]

(* Who is in the adc's seat: the player himself when the seat is empty.    *)
SelfAdc(p) == IF FindPid(SideOf(p), "BOTTOM") = None THEN p ELSE FindPid(SideOf(p), "BOTTOM")

(* A monster nobody's team is written on goes to the team of its killer.   *)
Jungle(p) ==
    LET early == {k \in DOMAIN story : story[k].at < 2 * EARLY_END}
        ours == {k \in early \cap Kills : story[k].by \in Pids /\ SideOf(story[k].by) = SideOf(p)}
        takedowns == {k \in ours : p \in Involved(story[k])}
        teamOf(e) == IF e.killer_team # None THEN e.killer_team ELSE IF e.by \in Pids THEN SideOf(e.by) ELSE None
        epics(team) == Cardinality({k \in early : /\ story[k].type = "ELITE_MONSTER_KILL"
                                                  /\ story[k].monster \in {"DRAGON", "HORDE"}
                                                  /\ teamOf(story[k]) = team})
        camps(m) == IF m \in FiledMinutes THEN At(p, m).camps ELSE None
    IN  IF RoleOf(p) # "JUNGLE" THEN None
        ELSE [takedowns |-> Cardinality(takedowns), team_kills |-> Cardinality(ours),
              epics |-> epics(SideOf(p)), epic_diff |-> epics(SideOf(p)) - epics(EnemyOf(SideOf(p))),
              camps |-> [m \in MILESTONES |-> camps(m)],
              camp_diff |-> [m \in MILESTONES |->
                  IF OppOf(p) = None \/ camps(m) = None THEN None ELSE camps(m) - At(OppOf(p), m).camps]]

Record(p) ==
    [lane |-> Lane(p), deaths |-> DeathsOf(p), kills |-> KillsOf(p), assists |-> AssistsOf(p),
     support_deaths_early |-> SupportDeathsEarly(p), plates_diff_early |-> PlateDiffEarly(p),
     frames_in_base_early |-> FramesInBaseEarly(p), dragons |-> DragonProximity(p),
     sides |-> Sides(p), objectives |-> Objectives(p), self_adc |-> SelfAdc(p), jungle |-> Jungle(p)]

-----------------------------------------------------------------------------
(* The row of a dataset: counts of a record. *)

Count(entries, Test(_)) == Cardinality({i \in DOMAIN entries : Test(entries[i])})

GameToRow(g) ==
    LET deaths(Test(_)) == Count(g.deaths, Test)
        stated == deaths(LAMBDA d : d.gold_state # None)
    IN  [n_deaths |-> Cardinality(DOMAIN g.deaths),
         deaths_early |-> deaths(LAMBDA d : d.phase = "early"),
         deaths_mid |-> deaths(LAMBDA d : d.phase = "mid"),
         deaths_late |-> deaths(LAMBDA d : d.phase = "late"),
         deaths_solo |-> deaths(LAMBDA d : d.solo), deaths_teamfight |-> deaths(LAMBDA d : ~d.solo),
         deaths_early_jungle |-> deaths(LAMBDA d : d.phase = "early" /\ d.ganked),
         deaths_2v2 |-> deaths(LAMBDA d : d.two),
         kills_solo |-> Count(g.kills, LAMBDA k : k.solo),
         takedowns_2v2 |-> Count(g.kills, LAMBDA k : k.two) + Count(g.assists, LAMBDA k : k.two),
         frac_behind |-> <<deaths(LAMBDA d : d.gold_state = "behind"), stated>>,
         frac_ahead |-> <<deaths(LAMBDA d : d.gold_state = "ahead"), stated>>,
         support_deaths_early |-> g.support_deaths_early, plates_diff_early |-> g.plates_diff_early]

-----------------------------------------------------------------------------
(* The game. *)

(* Nobody dies twice in the same half minute. *)
MayHappen(e) ==
    e.type = "CHAMPION_KILL" =>
       ~\E i \in Kills : story[i].at = half /\ story[i].victim = e.victim

Occurs ==
    /\ records = None /\ Len(story) < MaxStory
    /\ \E e \in match.events : MayHappen(e) /\ story' = Append(story, [e EXCEPT !.at = half])
    /\ UNCHANGED <<match, half, shots, records>>

(* A frame every minute; what happens at its instant is listed after it.   *)
HalfPasses ==
    /\ records = None /\ half < MaxHalf
    /\ half' = half + 1
    /\ IF half' % 2 = 0 THEN \E f \in match.frames : shots' = Append(shots, [at |-> half', of |-> f])
                        ELSE UNCHANGED shots
    /\ UNCHANGED <<match, story, records>>

(* The last frame falls where the game ends; every participant is read.    *)
ExtractAllGames ==
    /\ records = None
    /\ IF half % 2 = 0 THEN UNCHANGED shots
       ELSE \E f \in match.frames : shots' = Append(shots, [at |-> half, of |-> f])
    /\ UNCHANGED <<match, half, story>>
    /\ records' = [p \in Pids |-> Record(p)]'

(* Every participant is on a side and in every frame; a champion is slain  *)
(* by the other side, or by nobody and then nobody assists; a building is  *)
(* a side's.                                                               *)
EventIsFair(m, e) ==
    LET pids == DOMAIN m.lineup
    IN  /\ {"at", "type"} \subseteq DOMAIN e
        /\ e.type = "CHAMPION_KILL" =>
             /\ {"by", "victim", "assists"} \subseteq DOMAIN e
             /\ e.victim \in pids
             /\ IF e.by = 0 THEN e.assists = {}
                ELSE \A p \in Involved(e) : p \in pids /\ m.lineup[p].team # m.lineup[e.victim].team
        /\ e.type = "BUILDING_KILL" => "team" \in DOMAIN e /\ e.team \in {100, 200}
        /\ e.type = "ELITE_MONSTER_KILL" => "killer_team" \in DOMAIN e

RecordAssumption ==
    /\ None \notin Int
    /\ EARLY_END \in Nat /\ MARGIN \in Nat
    /\ \A m \in Matches :
         LET pids == DOMAIN m.lineup
         IN  /\ Len(m.lineup) \in Nat /\ pids = 1 .. Len(m.lineup)
             /\ \A p \in pids : m.lineup[p].team \in {100, 200}
             /\ \A f \in m.frames : \A p \in pids : f[p].worth \in Int /\ f[p].camps \in Int
             /\ \A e \in m.events : EventIsFair(m, e)

RecordInit ==
    /\ match \in Matches
    /\ half = 0
    /\ \E f \in match.frames : shots = <<[at |-> 0, of |-> f]>>
    /\ story = << >>
    /\ records = None

RecordNext == Occurs \/ HalfPasses \/ ExtractAllGames
RecordSpec == RecordInit /\ [][RecordNext]_recordVars

-----------------------------------------------------------------------------
(* Properties of the records of one game, taken together.                  *)

Facing(p, q) == OppOf(p) = q /\ OppOf(q) = p
Opposite(a, b) == IF a = None THEN b = None ELSE b # None /\ a = -b

(* Two opponents of a lane read the same differences, with the other sign. *)
LanesMirror ==
    \A p, q \in Pids : Facing(p, q) =>
       /\ \A m \in MILESTONES : Opposite(records[p].lane[m], records[q].lane[m])
       /\ Opposite(records[p].plates_diff_early, records[q].plates_diff_early)
       /\ \A i \in DOMAIN records[p].deaths, k \in DOMAIN records[q].deaths :
            LET d == records[p].deaths[i]
                e == records[q].deaths[k]
            IN  d.minute = e.minute => (d.gold_state = "ahead" <=> e.gold_state = "behind")
       /\ RoleOf(p) = "JUNGLE" =>
            /\ records[p].jungle.epic_diff = -records[q].jungle.epic_diff
            /\ \A m \in MILESTONES : Opposite(records[p].jungle.camp_diff[m], records[q].jungle.camp_diff[m])

(* A death is told by its victim, its killer and the assisters alike, and  *)
(* nobody else tells it.                                                   *)
KillsMatch ==
    \A i \in Kills :
       LET e == story[i]
           d == records[e.victim].deaths[i]
           same(t) == t.minute = d.minute /\ t.phase = d.phase /\ t.solo = d.solo /\ t.victim = e.victim
                      /\ t.two = (d.two /\ e.victim \in BotOf(SideOf(e.victim)))
       IN  \A p \in Pids :
             /\ IF p = e.by THEN i \in DOMAIN records[p].kills /\ same(records[p].kills[i])
                ELSE i \notin DOMAIN records[p].kills
             /\ IF p \in e.assists \ {e.by} THEN i \in DOMAIN records[p].assists /\ same(records[p].assists[i])
                ELSE i \notin DOMAIN records[p].assists
             /\ p # e.victim => i \notin DOMAIN records[p].deaths

(* Three features call "early" three different times: they agree but for   *)
(* the minute of the boundary.                                             *)
EarlyAgrees ==
    \A p \in Pids :
       LET support == FindPid(SideOf(p), "UTILITY")
           takedowns == DOMAIN records[p].kills \cup DOMAIN records[p].assists
           early == {i \in takedowns : PhaseOf(Minute(story[i].at)) = "early"}
           boundary(i) == Minute(story[i].at) = EARLY_END
       IN  /\ support \notin {None, p} =>
                LET told == {i \in DOMAIN records[support].deaths : records[support].deaths[i].phase = "early"}
                IN  records[p].support_deaths_early = Cardinality({i \in told : ~boundary(i)})
           /\ RoleOf(p) = "JUNGLE" =>
                LET j == records[p].jungle
                IN  /\ j.takedowns \in Cardinality({i \in early : ~boundary(i)})..Cardinality(early)
                    /\ j.takedowns <= j.team_kills

(* The two teams tell the same start of the junglers, and an objective is  *)
(* one team's, unless Riot wrote no team on it.                            *)
TeamsMirror ==
    \A p, q \in Pids : SideOf(p) # SideOf(q) =>
       LET s == records[p].sides
           t == records[q].sides
           given(i) == story[i].type = "BUILDING_KILL" \/ story[i].killer_team \in {100, 200}
       IN  /\ s.ally = t.enemy /\ s.ally_strong = t.enemy_strong
           /\ \A i \in DOMAIN records[p].objectives :
                IF given(i) THEN records[p].objectives[i].is_ally # records[q].objectives[i].is_ally
                ELSE ~records[p].objectives[i].is_ally

(* The rows add up: a team's two against two deaths are the others' kills  *)
(* and assists, and a solo kill is a solo death.                           *)
RowsAddUp ==
    LET row == [p \in Pids |-> GameToRow(records[p])]
        side(team) == {p \in Pids : SideOf(p) = team}
    IN  \A team \in {100, 200} :
          LET solo == Cardinality({i \in Kills : story[i].by = 0 /\ SideOf(story[i].victim) = team})
              twos == {i \in Kills : LET v == story[i].victim
                                     IN  SideOf(v) = team /\ v \in BotOf(team) /\ records[v].deaths[i].two}
          IN  /\ SumFunctionOnSet([p \in Pids |-> row[p].deaths_solo], side(team)) =
                    solo + SumFunctionOnSet([p \in Pids |-> row[p].kills_solo], side(EnemyOf(team)))
              /\ SumFunctionOnSet([p \in Pids |-> row[p].takedowns_2v2], side(EnemyOf(team))) =
                    SumFunction([i \in twos |-> Cardinality(Involved(story[i]))])

RecordsAgree == records # None => LanesMirror /\ KillsMatch /\ EarlyAgrees /\ TeamsMirror /\ RowsAddUp
=============================================================================
