---------------------------- MODULE GameJournal ----------------------------
(***************************************************************************)
(* The journal of one game (src/src/core/game_journal.py, journal_signals, *)
(* turrets): the deaths and the shop visits of one player, each with what  *)
(* the player knew at that instant and with what followed.  The program    *)
(* reads a finished timeline; here the timeline is recorded step by step   *)
(* and the journal is recomputed at every step, so that what it says of an *)
(* instant can be compared before and after the rest of the game.          *)
(*                                                                         *)
(* Time is a grid of instants 30 s apart: MINUTE is 2, and the windows of  *)
(* the code are these many half minutes.  A position is a zone and a       *)
(* signed depth.                                                           *)
(***************************************************************************)
EXTENDS NoValue, Integers, FiniteSets, Sequences, FiniteSetsExt, SequencesExt, Folds

CONSTANTS
    OBJECTIVES,     \* the timers, in the order of the names: [name, first, respawn]
    Catalogue,      \* the catalogue: item -> [cost, finished]
    Turrets,        \* the table of turrets: a sequence of [team, lane, tier, place]
    GamesPlayed,    \* the games: [lineup, events, frames], that is who the participants are
                    \* ([role, laner, jungler, support]), what may happen, what a frame may hold
    MaxTime, MaxEvents

MINUTE == 2
OPENING_BUY == 3
RECALL_CLUSTER_GAP == 1
CONSEQUENCE_WINDOW == 2
GOLD_SWING_WINDOW == 3
IMMINENT_WINDOW == 3
SPIKE_WINDOW == 4
RECALL_DEATH_WINDOW == 3
CS_WINDOW_MIN == 2

VARIABLES
    game,     \* the game being recorded
    now,      \* the instant reached
    frames,   \* the frames written so far
    events,   \* the events so far, in the order of their timestamps
    over,     \* the last frame is written
    told      \* history: the entries of the deaths, as of their instants

journalVars == <<game, now, frames, events, over, told>>

Happened(type) == {e \in ToSet(events) : e.type = type}
IsMine(team) == team = 100
TeamOf(who) == IF who \in {"me", "ally"} THEN 100 ELSE IF who = None THEN None ELSE 200

-----------------------------------------------------------------------------
(* The index of one timeline. *)

(* How many of a sequence, sorted by their timestamps, are as old as t. *)
UpTo(seq, t) == Cardinality({i \in DOMAIN seq : seq[i].at <= t})

(* The events of ]t0, t1]: two bisections on the sorted timestamps. *)
EventsBetween(t0, t1) ==
    SubSeq(events, UpTo(events, t0) + 1, UpTo(events, t1))

FrameBefore(t) == frames[UpTo(frames, t)]

FrameAtOrAfter(t) ==
    LET i == Cardinality({k \in DOMAIN frames : frames[k].at < t})
    IN  IF i < Len(frames) THEN frames[i + 1] ELSE None

(* frames_by_minute files a frame under its nearest minute (a half goes to *)
(* the even one); the last frame filed under a minute is the one kept.     *)
Filed(at) ==
    LET m == at \div MINUTE
    IN  IF at % MINUTE = 0 \/ m % 2 = 0 THEN m ELSE m + 1
Minutes == {Filed(frames[i].at) : i \in DOMAIN frames}
ByMinute(m) == frames[Max({i \in DOMAIN frames : Filed(frames[i].at) = m})]

-----------------------------------------------------------------------------
(* What is said of an instant. *)

(* The gold against the lane opponent, at the latest frame filed under the *)
(* minute of the instant or an earlier one.                                *)
GoldStateAt(minute) ==
    IF ~game.lineup.laner THEN None
    ELSE LET lead == ByMinute(Max({m \in Minutes : m <= minute})).lead
         IN  IF lead > 0 THEN "ahead" ELSE IF lead < 0 THEN "behind" ELSE "even"

ObjectiveKills(name) == {e.at : e \in {k \in Happened("ELITE_MONSTER_KILL") : k.monster = name}}

NextSpawn(o, t) ==
    LET past == {k \in ObjectiveKills(o.name) : k <= t}
    IN  IF past = {} THEN o.first ELSE Max(past) + o.respawn

(* Up first, the nearest spawn otherwise; on equal distances the first name. *)
Announced(spawn, t) ==
    LET away(i) == IF t >= spawn[i] THEN t - spawn[i] ELSE spawn[i] - t
        up == {i \in DOMAIN OBJECTIVES : t >= spawn[i]}
        imminent == {i \in DOMAIN OBJECTIVES \ up : away(i) <= IMMINENT_WINDOW}
        nearest(S) == CHOOSE i \in S : \A j \in S : away(i) < away(j) \/ (away(i) = away(j) /\ i <= j)
        tell(S, status) == LET i == nearest(S)
                           IN  [type |-> OBJECTIVES[i].name, status |-> status, delta |-> away(i)]
    IN  IF up # {} THEN tell(up, "up")
        ELSE IF imminent # {} THEN tell(imminent, "imminent")
        ELSE None

ObjectiveAt(t) == Announced([i \in DOMAIN OBJECTIVES |-> NextSpawn(OBJECTIVES[i], t)], t)

(* What the kill feed and the announcements show of the enemy jungler. *)
IsPublicClue(e) ==
    \/ e.type = "CHAMPION_KILL" /\ "jungler" \in {e.by, e.victim} \cup e.assists
    \/ e.type \in {"ELITE_MONSTER_KILL", "BUILDING_KILL"} /\ e.by = "jungler"

SameSide(zone, other) == zone \in {"TOP", "BOT"} /\ zone = other

(* The last public clue before the instant, and its age. *)
JungleSignals(t, zone) ==
    IF ~game.lineup.jungler THEN None
    ELSE LET clues == {i \in DOMAIN events : events[i].at <= t - 1 /\ IsPublicClue(events[i])}
         IN  IF clues = {} THEN [age |-> t, last |-> None]
             ELSE LET e == events[Max(clues)]
                  IN  [age |-> t - e.at,
                       last |-> [type |-> e.type, zone |-> e.place.zone,
                                 same_side |-> SameSide(e.place.zone, zone)]]

(* Mutant: the turrets fallen in the whole game. *)
MutDestroyedAt(t) == {<<e.team, e.lane, e.tier>> : e \in {k \in Happened("BUILDING_KILL") : k.tier # None}}

(* The turrets fallen at the instant, by the team that loses them. *)
DestroyedAt(t) == {<<e.team, e.lane, e.tier>> : e \in {k \in Happened("BUILDING_KILL") :
                                                         k.at <= t /\ k.tier # None}}

Apart(a, b) == IF a < b THEN b - a ELSE a - b
Distance(p, q) == Apart(p.depth, q.depth) + IF p.zone = q.zone THEN 0 ELSE 5

Stands(i, destroyed) ==
    /\ IsMine(Turrets[i].team)
    /\ <<Turrets[i].team, Turrets[i].lane, Turrets[i].tier>> \notin destroyed

NearestStanding(place, destroyed) ==
    LET mine == {i \in DOMAIN Turrets : Stands(i, destroyed)}
        far(i) == Distance(place, Turrets[i].place)
    IN  IF mine = {} THEN None
        ELSE CHOOSE i \in mine : \A j \in mine : far(i) < far(j) \/ (far(i) = far(j) /\ i <= j)

LaneOfRole == [BOTTOM |-> "BOT_LANE", UTILITY |-> "BOT_LANE", MIDDLE |-> "MID_LANE",
               TOP |-> "TOP_LANE", JUNGLE |-> None]

OwnOuter(destroyed) ==
    LET mine == {i \in DOMAIN Turrets : /\ Stands(i, destroyed)
                                        /\ Turrets[i].lane = LaneOfRole[game.lineup.role]
                                        /\ Turrets[i].tier = "OUTER"}
    IN  IF mine = {} THEN None ELSE Min(mine)

(* Where the support was, from the frames filed up to the instant. *)
SupportContext(t, place) ==
    LET past == {m \in Minutes : m * MINUTE <= t}
        zone == ByMinute(Max(past)).support.zone
        together == {m \in past : ByMinute(m).support.zone = place.zone}
    IN  IF ~game.lineup.support \/ past = {} THEN None
        ELSE [zone |-> zone, distance |-> Distance(ByMinute(Max(past)).support, place),
              away |-> IF zone = place.zone THEN 0
                       ELSE t - IF together = {} THEN 0 ELSE Max(together) * MINUTE]

AllyContext(t, place) ==
    LET destroyed == DestroyedAt(t)
        outer == OwnOuter(destroyed)
    IN  [turret |-> NearestStanding(place, destroyed),
         beyond |-> IF outer = None THEN None
                    ELSE IF place.depth > Turrets[outer].place.depth THEN "yes" ELSE "no"]

-----------------------------------------------------------------------------
(* The deaths. *)

IsDeath(e) == e.type = "CHAMPION_KILL" /\ e.victim = "me"
Deaths == {i \in DOMAIN events : IsDeath(events[i])}

(* What the entry of a death says the player knew. *)
Known(e) ==
    [solo |-> e.assists = {},
     ganked |-> game.lineup.jungler /\ "jungler" \in {e.by} \cup e.assists,
     gold |-> GoldStateAt(e.at \div MINUTE),
     purse |-> FrameBefore(e.at).purse,
     objective |-> ObjectiveAt(e.at),
     clue |-> JungleSignals(e.at, e.place.zone),
     ally |-> AllyContext(e.at, e.place),
     support |-> SupportContext(e.at, e.place)]

(* What the enemy takes in the minute that follows, and the swing of the   *)
(* teams' gold.  A monster no team is named for is its killer's.           *)
Consequences(t) ==
    LET window == EventsBetween(t, t + CONSEQUENCE_WINDOW)
        taken(e) == /\ e.type = "ELITE_MONSTER_KILL"
                    /\ ~IsMine(IF e.team # None THEN e.team ELSE TeamOf(e.by))
        lost(e) == e.type = "BUILDING_KILL" /\ IsMine(e.team)
        after == FrameAtOrAfter(t + GOLD_SWING_WINDOW)
    IN  [objectives |-> SelectSeq(window, taken), buildings |-> SelectSeq(window, lost),
         swing |-> IF after = None THEN None ELSE <<after.team - FrameBefore(t).team>>]

-----------------------------------------------------------------------------
(* The shop visits. *)

(* A purchase is known by its place among the events. The purchases after *)
(* the opening, less those undone: each ITEM_UNDO in turn removes the last *)
(* purchase left of its item, at or before it.                             *)
BuysOf(who) == {i \in DOMAIN events : /\ events[i].type = "ITEM_PURCHASED" /\ events[i].by = who
                                      /\ events[i].at >= OPENING_BUY}
UndosOf(who) == {i \in DOMAIN events : events[i].type = "ITEM_UNDO" /\ events[i].by = who}

MatchingBuys(undo, buys) ==
    {i \in buys : events[i].item = events[undo].item /\ events[i].at <= events[undo].at}

(* Mutant: an undo takes back the first purchase of its item. *)
MutUndone(undo, buys) ==
    IF MatchingBuys(undo, buys) = {} THEN buys ELSE buys \ {Min(MatchingBuys(undo, buys))}

Undone(undo, buys) ==
    IF MatchingBuys(undo, buys) = {} THEN buys ELSE buys \ {Max(MatchingBuys(undo, buys))}

Kept(who) == MapThenFoldSet(Undone, BuysOf(who), LAMBDA undo : undo, Max, UndosOf(who))

(* Purchases less than half a minute apart are one visit. *)
Grouped(buy, visits) ==
    IF visits # <<>> /\ events[buy].at - events[Max(Last(visits))].at <= RECALL_CLUSTER_GAP
    THEN [visits EXCEPT ![Len(visits)] = @ \cup {buy}]
    ELSE Append(visits, {buy})

VisitsOf(who) == MapThenFoldSet(Grouped, <<>>, LAMBDA buy : buy, Max, Kept(who))
Start(visit) == events[Min(visit)].at

(* What a visit brought: nothing is said without a known item. *)
Listed(visit) == {i \in visit : events[i].item \in DOMAIN Catalogue}

Outcome(visit) ==
    IF Listed(visit) = {} THEN None
    ELSE [spent |-> MapThenSumSet(LAMBDA i : Catalogue[events[i].item].cost, Listed(visit)),
          finished |-> {i \in Listed(visit) : Catalogue[events[i].item].finished}]

(* The nearest visit of the lane opponent that finishes an item. *)
OpponentSpike(t) ==
    LET theirs == IF game.lineup.laner THEN VisitsOf("laner") ELSE <<>>
        spikes == {i \in DOMAIN theirs : /\ Apart(Start(theirs[i]), t) <= SPIKE_WINDOW
                                         /\ Outcome(theirs[i]) # None
                                         /\ Outcome(theirs[i]).finished # {}}
        far(i) == Apart(Start(theirs[i]), t)
        best == CHOOSE i \in spikes : \A j \in spikes : far(i) < far(j) \/ (far(i) = far(j) /\ i <= j)
    IN  IF spikes = {} THEN None ELSE [at |-> Start(theirs[best]), items |-> Outcome(theirs[best]).finished]

DeathTimes == {e.at : e \in {k \in ToSet(events) : IsDeath(k)}}

DeathAfterVisit(t) ==
    LET after == {d \in DeathTimes : t < d /\ d <= t + RECALL_DEATH_WINDOW}
    IN  IF after = {} THEN None ELSE <<Min(after)>>

(* Twice the median gain of a minute, minutes with a purchase or a death   *)
(* left out (a gain is left out when either of its ends is one of them).   *)
Skipped == {d \div MINUTE : d \in DeathTimes} \cup {events[b].at \div MINUTE : b \in BuysOf("me")}

TwiceBaseline ==
    LET clean == SetToSortSeq({m \in Minutes : m - 1 \in Minutes /\ {m, m - 1} \cap Skipped = {}}, <)
        gains == SortSeq([i \in DOMAIN clean |-> ByMinute(clean[i]).cs - ByMinute(clean[i] - 1).cs], <)
        n == Len(gains)
    IN  IF n = 0 THEN None
        ELSE <<gains[(n + 1) \div 2] + gains[n \div 2 + 1]>>

(* The cost of a visit in creeps over two minutes, from the frame filed    *)
(* under its minute; nothing without a baseline, an opponent and both ends.*)
CsCost(t) ==
    LET start == t \div MINUTE
        end == start + CS_WINDOW_MIN
        mine == ByMinute(end).cs - ByMinute(start).cs
    IN  IF TwiceBaseline = None \/ ~game.lineup.laner \/ ~({start, end} \subseteq Minutes) THEN None
        ELSE [from |-> ByMinute(start).at, to |-> ByMinute(end).at, gained |-> mine,
              missed |-> Max({0, TwiceBaseline[1] - mine})]

VisitEntry(visit) ==
    LET t == Start(visit)
    IN  [at |-> t, bought |-> Cardinality(visit), purse |-> FrameBefore(t).purse,
         objective |-> ObjectiveAt(t), cost |-> CsCost(t), outcome |-> Outcome(visit),
         spike |-> OpponentSpike(t), death |-> DeathAfterVisit(t)]

Recalls == LET mine == VisitsOf("me") IN [i \in DOMAIN mine |-> VisitEntry(mine[i])]

(* The payload links a death to the first visit that follows it. *)
NextPurchase(e) ==
    LET mine == VisitsOf("me")
        following == {k \in DOMAIN mine : Start(mine[k]) >= e.at}
        visit == mine[Min(following)]
    IN  IF following = {} THEN None
        ELSE IF Listed(visit) = {} THEN None
        ELSE [at |-> Start(visit), items |-> Listed(visit),
              cheapest |-> Min({Catalogue[events[i].item].cost : i \in Listed(visit)})]

-----------------------------------------------------------------------------
(* The game, as the timeline records it. *)

(* What is recorded is dated, of one of the types the journal reads, and   *)
(* signed; the timers are those of distinct monsters.                      *)
EventTypes == {"CHAMPION_KILL", "ELITE_MONSTER_KILL", "BUILDING_KILL", "WARD_KILL", "ITEM_PURCHASED", "ITEM_UNDO"}

JournalAssumption ==
    /\ \A g \in GamesPlayed : \A x \in g.events \cup g.frames : "at" \in DOMAIN x
    /\ \A g \in GamesPlayed : \A e \in g.events :
          /\ {"type", "by"} \subseteq DOMAIN e /\ e.type \in EventTypes
          /\ e.type = "ELITE_MONSTER_KILL" => "monster" \in DOMAIN e
    /\ Len(OBJECTIVES) \in Nat /\ DOMAIN OBJECTIVES = 1..Len(OBJECTIVES)
    /\ \A i, j \in DOMAIN OBJECTIVES :
          /\ OBJECTIVES[i].first \in Nat /\ OBJECTIVES[i].respawn \in Nat
          /\ i # j => OBJECTIVES[i].name # OBJECTIVES[j].name
    /\ None \notin [type : {OBJECTIVES[i].name : i \in DOMAIN OBJECTIVES}, status : {"up"}, delta : Int]

JournalInit ==
    /\ game \in GamesPlayed
    /\ now = 0
    /\ \E c \in game.frames : frames = <<[c EXCEPT !.at = 0]>>
    /\ events = <<>>
    /\ over = FALSE
    /\ told = {}

(* The creeps of a frame are counted from the beginning. *)
Frame(c, t) == [c EXCEPT !.at = t, !.cs = @ + Last(frames).cs]

(* What the player knows of the deaths of this instant, as it ends. *)
Tell ==
    LET fresh == {e \in ToSet(events) : IsDeath(e) /\ e.at = now}
    IN  told' = told \cup {[death |-> e, known |-> Known(e)] : e \in fresh}

(* Half a minute passes; a frame is written every minute. *)
Pass ==
    /\ ~over
    /\ now < MaxTime
    /\ now' = now + 1
    /\ IF now' % MINUTE = 0
       THEN \E c \in game.frames : frames' = Append(frames, Frame(c, now'))
       ELSE UNCHANGED frames
    /\ Tell
    /\ UNCHANGED <<game, events, over>>

(* What the rules of the game allow at this instant: a monster dies when   *)
(* it is there, a turret falls once, one undoes the last purchase, and two *)
(* moves of one shop are not simultaneous.                                 *)
Allowed(e) ==
    CASE e.type = "ELITE_MONSTER_KILL" ->
            \E i \in DOMAIN OBJECTIVES : /\ OBJECTIVES[i].name = e.monster
                                         /\ now >= NextSpawn(OBJECTIVES[i], now)
      [] e.type = "BUILDING_KILL" -> \A k \in Happened("BUILDING_KILL") : <<k.lane, k.tier, k.team>> # <<e.lane, e.tier, e.team>>
      [] e.type \in {"ITEM_PURCHASED", "ITEM_UNDO"} ->
            LET shop == {i \in DOMAIN events : events[i].type \in {"ITEM_PURCHASED", "ITEM_UNDO"}
                                                 /\ events[i].by = e.by}
            IN  /\ \A i \in shop : events[i].at < now
                /\ e.type = "ITEM_UNDO" =>
                     Cardinality({i \in shop : events[i].item = e.item /\ events[i].type = "ITEM_PURCHASED"})
                       > Cardinality({i \in shop : events[i].item = e.item /\ events[i].type = "ITEM_UNDO"})
      [] OTHER -> TRUE

Happen ==
    /\ ~over
    /\ Len(events) < MaxEvents
    /\ \E e \in game.events : Allowed(e) /\ events' = Append(events, [e EXCEPT !.at = now])
    /\ UNCHANGED <<game, now, frames, over, told>>

(* The game ends: its last frame is written at that instant. *)
Finish ==
    /\ ~over
    /\ over' = TRUE
    /\ IF Last(frames).at = now THEN UNCHANGED frames
       ELSE \E c \in game.frames : frames' = Append(frames, Frame(c, now))
    /\ UNCHANGED <<game, now, events, told>>

JournalNext == Pass \/ Happen \/ Finish
JournalSpec == JournalInit /\ [][JournalNext]_journalVars

-----------------------------------------------------------------------------
(* Properties. *)

(* The minute of a death is filed with a frame written after it: only the  *)
(* last frame of a game can be, less than a minute late.                   *)
FiledLate(e) ==
    /\ over
    /\ Last(frames).at > e.at
    /\ Filed(Last(frames).at) = e.at \div MINUTE

(* No hindsight: what the entry of a death says the player knew is what    *)
(* the timeline said when its instant ended, whatever happened later.  The *)
(* code's header promises it of every field ("une information que le       *)
(* joueur AVAIT"); the gold state and the support are read from frames     *)
(* filed by rounded minute, so the frame that ends the game may replace    *)
(* the one the death was entitled to.                                      *)
NoHindsight ==
    \A entry \in told :
       LET known == Known(entry.death) IN
       \A field \in DOMAIN known :
          known[field] # entry.known[field] => field \in {"gold", "support"} /\ FiledLate(entry.death)

(* A purchase is taken back when, up to some later move, more of its item *)
(* have been undone since than bought.                                     *)
Reversed(i) ==
    \E j \in i + 1 .. Len(events) :
       LET since(type) == Cardinality({k \in i + 1 .. j : /\ events[k].type = type
                                                         /\ events[k].by = events[i].by
                                                         /\ events[k].item = events[i].item})
       IN  since("ITEM_UNDO") > since("ITEM_PURCHASED")

Remaining(who) == {i \in BuysOf(who) : ~Reversed(i)}

(* The visits say what the player bought: each purchase that was not taken *)
(* back is in exactly one visit, in order, and a visit breaks exactly where*)
(* more than half a minute passes between two purchases.  The code removes *)
(* undone purchases after the fact, from the end, over all its undos.      *)
VisitsArePurchases ==
    \A who \in {"me", "laner"} :
       LET visits == VisitsOf(who)
           kept == Remaining(who)
           next(i, j) == i < j /\ \A k \in kept : k <= i \/ j <= k
           together(i, j) == \E v \in DOMAIN visits : {i, j} \subseteq visits[v]
       IN  /\ UNION ToSet(visits) = kept
           /\ {} \notin ToSet(visits)
           /\ \A v, w \in DOMAIN visits : v < w => \A i \in visits[v], j \in visits[w] : i < j
           /\ \A i, j \in kept : next(i, j) =>
                (together(i, j) <=> events[j].at - events[i].at <= RECALL_CLUSTER_GAP)

(* What is said of a visit is what happened around it: a cost in creeps    *)
(* begins no later than the visit and is measured over two minutes, but    *)
(* for the half a last frame may miss or add; the opponent's spike is the  *)
(* nearest of all their purchases that finish an item; a death it is       *)
(* charged with is the first one strictly after it.                        *)
VisitsAreFair ==
    \A r \in ToSet(Recalls) :
       /\ r.cost # None => /\ r.cost.from <= r.at /\ r.at < r.cost.to
                           /\ r.cost.to - r.cost.from \in {3, 4, 5}
                           /\ r.cost.to - r.cost.from # 4 => over /\ r.cost.to = Last(frames).at
       /\ r.spike # None => /\ Apart(r.spike.at, r.at) <= SPIKE_WINDOW
                            /\ \E b \in Remaining("laner") : events[b].at = r.spike.at
       /\ r.death # None => \A d \in DeathTimes : d <= r.at \/ d >= r.death[1]

(* An objective is told "up" exactly when the rules of the game have it on *)
(* the map, and the clue of the jungler is the last thing the kill feed or *)
(* an announcement showed of them before the death.                        *)
DeathsAreExplained ==
    \A e \in {events[i] : i \in Deaths} :
       LET there(o) == o.first <= e.at /\ \A k \in ObjectiveKills(o.name) : k > e.at \/ k + o.respawn <= e.at
           known == Known(e)
           clue == known.clue
           shown == {k \in ToSet(events) :
                       /\ k.at < e.at
                       /\ k.type \notin {"WARD_KILL", "ITEM_PURCHASED", "ITEM_UNDO"}
                       /\ \/ k.by = "jungler"
                          \/ k.type = "CHAMPION_KILL" /\ "jungler" \in {k.victim} \cup k.assists}
       IN  /\ (known.objective # None /\ known.objective.status = "up")
                <=> \E i \in DOMAIN OBJECTIVES : there(OBJECTIVES[i])
           /\ clue # None => clue.age = e.at - Max({0} \cup {k.at : k \in shown})

(* What the journal says of visits and deaths agrees with the events. *)
JournalIsTrue == VisitsArePurchases /\ VisitsAreFair /\ DeathsAreExplained
=============================================================================
