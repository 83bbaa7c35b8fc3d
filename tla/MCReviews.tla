----------------------------- MODULE MCReviews -----------------------------
(***************************************************************************)
(* The reading of games, the reviews and the samples of the trainings:     *)
(* parts that share no state, checked side by side. A behaviour is about   *)
(* one of them, its subject, and the variables of the others stay as they  *)
(* begin.                                                                  *)
(***************************************************************************)
EXTENDS GameJournal, Generation, LadderSnapshot, TrainingWindows, GameRecord,
        CoachCommands, Grounding, TLC

VARIABLE subject

-----------------------------------------------------------------------------
(* Games: the timers are the code's, brought forward. *)

P(zone, depth) == [zone |-> zone, depth |-> depth]

MCOBJECTIVES == <<[name |-> "BARON_NASHOR", first |-> 6, respawn |-> 4],
                    [name |-> "DRAGON", first |-> 2, respawn |-> 3]>>
MCCatalogue == [a |-> [cost |-> 1, finished |-> FALSE], b |-> [cost |-> 3, finished |-> TRUE]]
MCTurrets == <<[team |-> 100, lane |-> "BOT_LANE", tier |-> "OUTER", place |-> P("BOT", 2)],
               [team |-> 100, lane |-> "BOT_LANE", tier |-> "INNER", place |-> P("BOT", 1)],
               [team |-> 200, lane |-> "BOT_LANE", tier |-> "OUTER", place |-> P("BOT", 4)]>>

Kill(by, victim, assists, place) ==
    [at |-> 0, type |-> "CHAMPION_KILL", by |-> by, victim |-> victim, assists |-> assists, place |-> place]
Monster(by, team, monster) ==
    [at |-> 0, type |-> "ELITE_MONSTER_KILL", by |-> by, team |-> team, monster |-> monster, place |-> P("JUNGLE/RIVER", 3)]
Tower(by, team, tier) ==
    [at |-> 0, type |-> "BUILDING_KILL", by |-> by, team |-> team, lane |-> "BOT_LANE", tier |-> tier, place |-> P("BOT", 2)]
Ward(by) == [at |-> 0, type |-> "WARD_KILL", by |-> by]
Shop(type, who, item) == [at |-> 0, type |-> type, by |-> who, item |-> item]

Buys == {Shop("ITEM_PURCHASED", "me", "a"), Shop("ITEM_PURCHASED", "me", "b"), Shop("ITEM_UNDO", "me", "a")}
Theirs == {Shop("ITEM_PURCHASED", "laner", "b"), Shop("ITEM_UNDO", "laner", "b")}
Died == Kill("laner", "me", {}, P("BOT", 3))
Ganked == Kill("laner", "me", {"jungler"}, P("BOT", 3))

Content(lead, purse, cs, team, place) ==
    [at |-> 0, lead |-> lead, purse |-> purse, cs |-> cs, team |-> team, support |-> place]
Good == Content(1, 2, 2, 1, P("BOT", 2))
Bad == Content(-1, 0, 1, 0, P("MID", 1))

Carry == [role |-> "BOTTOM", laner |-> TRUE, jungler |-> TRUE, support |-> TRUE]
Alone == [role |-> "JUNGLE", laner |-> FALSE, jungler |-> FALSE, support |-> FALSE]

Laning == [lineup |-> Carry, events |-> Theirs \cup {Shop("ITEM_PURCHASED", "me", "a")}, frames |-> {Good}]
MCGamesPlayed ==
    {[lineup |-> l, events |-> Buys \cup {Died}, frames |-> {Good}] : l \in {Carry, Alone}} \cup
    {Laning,
     [lineup |-> Carry, events |-> {Shop("ITEM_PURCHASED", "me", "a")}, frames |-> {Good, Bad}],
     [lineup |-> Carry, events |-> {Died}, frames |-> {Good, Bad}],
     [lineup |-> Carry, frames |-> {Good},
      events |-> {Died, Ganked, Kill("ally", "jungler", {}, P("TOP", 2)), Ward("jungler")}],
     [lineup |-> Carry, frames |-> {Bad},
      events |-> {Died, Monster("jungler", 200, "DRAGON"), Monster("ally", None, "BARON_NASHOR"),
                  Tower("jungler", 100, "OUTER"), Tower(None, 100, None), Tower("ally", 200, "OUTER")}]}

ASSUME GamesAreFair == JournalAssumption

-----------------------------------------------------------------------------
(* Payloads and the words of a review. *)

Number(lead, sep, tail, width) ==
    [kind |-> "number", lead |-> lead, sep |-> sep, tail |-> tail, width |-> width]
Plain(n) == Number(n, "", 0, 0)
Trigger(unit) == [kind |-> "trigger", unit |-> unit]
Unit(unit) == [kind |-> "unit", unit |-> unit]
Word(kind) == [kind |-> kind]
Clock(at) == [kind |-> "clock", at |-> at]
Leaf(path, value) == [path |-> path, value |-> value]

MCKeyParts ==
    [signals |-> {}, gd14 |-> {"gd14"}, me |-> {}, journal |-> {}, deaths |-> {"deaths"},
     unspent_gold |-> {"gold"}, damage |-> {"damage"}, total |-> {}, cs_cost |-> {"cs_", "cost"},
     t_ms |-> {}, axes |-> {}, game_review_causes |-> {}, share_gold |-> {"gold"}, age_s |-> {"_s"},
     signal |-> {}, swing_90s |-> {}, level |-> {"level"}]
MCKeyNumbers ==
    [k \in DOMAIN MCKeyParts |-> IF k = "gd14" THEN {14000} ELSE IF k = "swing_90s" THEN {90000} ELSE {}]

OneGame ==
    [leaves |-> {Leaf(<<"journal", "deaths", "unspent_gold">>, 1225000),
                 Leaf(<<"journal", "deaths", "damage", "total">>, 1043000),
                 Leaf(<<"journal", "deaths", "t_ms">>, 46700),
                 Leaf(<<"journal", "deaths", "share_gold">>, 290),
                 Leaf(<<"axes", "damage">>, 46700), Leaf(<<"axes", "unspent_gold">>, 46700)},
     declared |-> {}, texts |-> {},
     deaths |-> <<[zone |-> "BOT", phase |-> "early", clock |-> 181], [zone |-> "TOP", phase |-> "early", clock |-> 600],
                  [zone |-> "BOT", phase |-> "mid", clock |-> 900]>>,
     clocks |-> {[path |-> <<"journal", "deaths">>, at |-> 181], [path |-> <<"axes">>, at |-> 900]},
     words |-> {Plain(1225), Number(1, ",", 225, 3), Plain(1043), Number(46, ".", 7, 1),
                Trigger("dmg"), Trigger("g"), Word("stop"), Word("comma"), Word("name")},
     length |-> 5]

Aggregate ==
    [leaves |-> {Leaf(<<"signals", "gd14", "me">>, 320000), Leaf(<<"signals", "signal", "me">>, 7000),
                 Leaf(<<"signals", "signal", "level">>, 11000),
                 Leaf(<<"signals", "cs_cost", "me">>, 12000), Leaf(<<"signals", "age_s">>, 40000),
                 Leaf(<<"journal", "swing_90s">>, 320000), Leaf(<<"game_review_causes", "unspent_gold">>, 7000)},
     declared |-> {[path |-> <<"signals", "signal">>, unit |-> "g"]},
     texts |-> {[path |-> <<"signals">>, words |-> <<Plain(20)>>],
                [path |-> <<"game_review_causes">>, words |-> <<Plain(40)>>]},
     deaths |-> <<>>, clocks |-> {},
     words |-> {Plain(7), Plain(320), Plain(20), Plain(40), Number(0, ",", 290, 3), Unit("g"), Unit("pct"),
                Unit("s"), Unit("cs"), Clock(181), Clock(240)},
     length |-> 3]

Bare == [leaves |-> {}, declared |-> {}, texts |-> {}, deaths |-> <<>>, clocks |-> {}, words |-> {}, length |-> 0]

MCPayloads == {OneGame, Aggregate, Bare}

MCInsights ==
    [section : {"strengths", "mistakes", "next_focus"},
     texts : SUBSET {{"profondeur"}, {"overextension"}, {"outer turret"}, {"overextension", "outer turret"}}]

ASSUME PayloadsAreFair == GroundingAssumption

-----------------------------------------------------------------------------
(* What the model may answer. *)

D == "death_positioning"
E == "economy_build"
Draft(s, m) == [strengths |-> s, mistakes |-> m]
MCDrafts == {Draft(0, 1), Draft(1, 2), Draft(3, 1), Draft(1, 0)}
Choice(summary, mistakes, strengths, focus) ==
    [summary |-> summary, mistakes |-> mistakes, strengths |-> strengths, focus |-> focus]
Mistake(axis, i) == <<axis, "mistakes", i>>
MCSelections ==
    {Choice(Mistake(D, 0), <<Mistake(D, 0), Mistake(E, 1)>>, <<>>, Mistake(E, 1)), Choice(Mistake(D, 0), <<Mistake(D, 0), Mistake(D, 0)>>, <<<<E, "strengths", 0>>>>, Mistake(D, 0)),
     Choice(Mistake(E, 0), <<Mistake(D, 0)>>, <<>>, Mistake(D, 0)), Choice(Mistake(D, 0), <<Mistake(D, 0), <<E, "strengths", 0>>>>, <<>>, Mistake(D, 0)),
     Choice(Mistake(D, 0), <<>>, <<>>, Mistake(D, 0)), Choice(Mistake(E, 0), <<Mistake(E, 0)>>, <<Mistake(E, 0)>>, Mistake(E, 0))}

ASSUME GenerationIsFair == GenerationAssumption

-----------------------------------------------------------------------------
(* The owner's commands. *)

SilverRow(m, role, win, at) == [match |-> m, role |-> role, win |-> win, at |-> at]
MCRecords == <<SilverRow(1, "BOTTOM", TRUE, 1), SilverRow(2, "TOP", FALSE, 2), SilverRow(3, "BOTTOM", FALSE, 4), SilverRow(3, "BOTTOM", FALSE, 4), SilverRow(4, "BOTTOM", TRUE, 3)>>
MCSCOPES == [all |-> {"BOTTOM", "TOP"}, adc |-> {"BOTTOM"}]
Session(started, scopes, games, categories) ==
    [commands |-> started, scopes |-> scopes, games |-> games, categories |-> categories]
TwoBatches == Session([batch |-> 2], {"adc", "all"}, {}, {"TRADE"})
MCSessions ==
    {TwoBatches,
     Session([batch |-> 1, game |-> 1, annotate |-> 1], {"adc"}, {2, 4}, {"TRADE"}),
     Session([batch |-> 1, annotate |-> 1], {"adc"}, {}, {"TRADE", "BUILD"}),
     Session([game |-> 2, annotate |-> 1], {"adc"}, {4}, {"TRADE", "BUILD"}),
     Session([synthesis |-> 1, game |-> 1, annotate |-> 2], {"adc"}, {None}, {"TRADE"}),
     Session([game |-> 2, experiment |-> 1, retry |-> 1], {"adc"}, {1, 3}, {"TRADE"}),
     Session([batch |-> 1, experiment |-> 1, retry |-> 1], {"all"}, {}, {"TRADE"})}
MCAnswers == {<<>>, [mistake |-> TRUE], [mistake |-> FALSE, focus |-> TRUE]}
MCPERTURBATIONS == <<"no_deaths", "no_opponent_spike">>

ASSUME CommandsAreFair == CommandsAssumption

-----------------------------------------------------------------------------
(* Ladders, as a capture meets them. *)

MCAPEX == <<"GRANDMASTER", "MASTER">>
MCDIVISIONS == <<"I", "II">>
MCPageEnds == <<1, 3, 4, 6>>
Standing(gm, m, i, ii) == [GRANDMASTER |-> gm, MASTER |-> m, I |-> i, II |-> ii]
Today == [ladder |-> Standing(<<"a">>, <<"b">>, <<"c", "d", "e">>, <<>>), moves |-> 2, runs |-> 1]
MCDays ==
    {Today,
     [ladder |-> Standing(<<>>, <<"a">>, <<"b", "c">>, <<>>), moves |-> 1, runs |-> 2]}

ASSUME LaddersAreFair == LadderAssumption

-----------------------------------------------------------------------------
(* Games of a role: its two seats, or one and a player out of the role. *)

Duel(p, q) == [x \in {p, q} |-> "R"]
Crossed == <<Duel("a", "c"), Duel("b", "d"), Duel("a", "d"), Duel("b", "c")>>
MCHistories ==
    {Crossed,
     <<Duel("a", "c"), "a" :> "R" @@ "d" :> "O", Duel("c", "d")>>}
MCLadders ==
    {[a |-> "GRANDMASTER", b |-> "CHALLENGER", c |-> "DIAMOND", d |-> "DIAMOND"],
     [a |-> "DIAMOND", b |-> "MASTER", c |-> "GRANDMASTER"]}
MCHIGH == {"GRANDMASTER", "CHALLENGER"}
MCLOW == {"DIAMOND"}

ASSUME HistoriesAreFair == TrainingAssumption

-----------------------------------------------------------------------------
(* Whole games, read from the side of each participant. *)

Seat(team, role) == [team |-> team, role |-> role]
Lineup == <<Seat(100, "BOTTOM"), Seat(100, "UTILITY"), Seat(100, "JUNGLE"),
            Seat(200, "BOTTOM"), Seat(200, "UTILITY"), Seat(200, "JUNGLE")>>
SwappedRoles == <<Seat(100, "BOTTOM"), Seat(100, "BOTTOM"), Seat(100, "JUNGLE"),
                  Seat(200, "BOTTOM"), Seat(200, "UTILITY"), Seat(200, None)>>

Slain(by, victim, assists) ==
    [at |-> 0, type |-> "CHAMPION_KILL", by |-> by, victim |-> victim, assists |-> assists]
Epic(by, team, monster) ==
    [at |-> 0, type |-> "ELITE_MONSTER_KILL", by |-> by, killer_team |-> team, monster |-> monster]
Building(team) == [at |-> 0, type |-> "BUILDING_KILL", team |-> team]
Plate(team, lane) == [at |-> 0, type |-> "TURRET_PLATE_DESTROYED", team |-> team, lane |-> lane]

Shot(rich, junglerBot, inBase) ==
    [p \in 1..6 |-> [worth |-> IF p = rich THEN 3 ELSE p % 3, camps |-> p % 3,
                     place |-> IF p = inBase THEN <<"BASE", 100>> ELSE IF p = junglerBot THEN <<"BOT", 0>> ELSE <<"TOP", 0>>]]
Ours == Shot(1, 3, 2)
Others == Shot(4, 6, 0)

Skirmish ==
    [lineup |-> Lineup, frames |-> {Ours},
     events |-> {Slain(1, 4, {2}), Slain(6, 2, {5}), Slain(3, 5, {1}), Slain(0, 1, {})}]
MCMatches ==
    {[lineup |-> Lineup, frames |-> {Ours, Others}, events |-> {Slain(4, 1, {}), Slain(1, 4, {2})}],
     Skirmish,
     [lineup |-> Lineup, frames |-> {Ours},
      events |-> {Epic(3, 100, "DRAGON"), Epic(6, None, "DRAGON"), Epic(3, 300, "HORDE"), Building(100),
                  Plate(100, "BOT_LANE"), Plate(200, "TOP_LANE")}],
     [lineup |-> SwappedRoles, frames |-> {Others},
      events |-> {Slain(1, 4, {2}), Slain(4, 2, {5}), Slain(6, 1, {}), Epic(6, 200, "DRAGON"), Plate(200, "BOT_LANE")}]}
MCMILESTONES == {1, 2}

ASSUME MatchesAreFair == RecordAssumption

-----------------------------------------------------------------------------
vars == <<subject, journalVars, groundingVars, generationVars, commandVars, ladderVars, trainingVars, recordVars>>

Init ==
    /\ subject \in {"journal", "grounding", "generation", "commands", "ladder", "training", "record"}
    /\ JournalInit /\ (subject = "journal" \/ game = Laning)
    /\ GroundingInit /\ (subject = "grounding" \/ payload = Bare)
    /\ GenerationInit /\ (subject = "generation" \/ ~specialized)
    /\ CommandsInit /\ (subject = "commands" \/ session = TwoBatches)
    /\ LadderInit /\ (subject = "ladder" \/ ladder = Today.ladder)
    /\ TrainingInit /\ (subject = "training" \/ history = Crossed)
    /\ RecordInit /\ (subject = "record" \/ match = Skirmish)

JournalStep ==
    /\ subject = "journal" /\ JournalNext
    /\ UNCHANGED <<subject, groundingVars, generationVars, commandVars, ladderVars, trainingVars, recordVars>>
GroundingStep ==
    /\ subject = "grounding" /\ GroundingNext
    /\ UNCHANGED <<subject, journalVars, generationVars, commandVars, ladderVars, trainingVars, recordVars>>
GenerationStep ==
    /\ subject = "generation" /\ GenerationNext
    /\ UNCHANGED <<subject, journalVars, groundingVars, commandVars, ladderVars, trainingVars, recordVars>>
CommandStep ==
    /\ subject = "commands" /\ CommandsNext
    /\ UNCHANGED <<subject, journalVars, groundingVars, generationVars, ladderVars, trainingVars, recordVars>>
LadderStep ==
    /\ subject = "ladder" /\ LadderNext
    /\ UNCHANGED <<subject, journalVars, groundingVars, generationVars, commandVars, trainingVars, recordVars>>
TrainingStep ==
    /\ subject = "training" /\ TrainingNext
    /\ UNCHANGED <<subject, journalVars, groundingVars, generationVars, commandVars, ladderVars, recordVars>>
RecordStep ==
    /\ subject = "record" /\ RecordNext
    /\ UNCHANGED <<subject, journalVars, groundingVars, generationVars, commandVars, ladderVars, trainingVars>>

Next ==
    \/ JournalStep \/ GroundingStep \/ GenerationStep \/ CommandStep
    \/ LadderStep \/ TrainingStep \/ RecordStep

Spec == Init /\ [][Next]_vars
=============================================================================
