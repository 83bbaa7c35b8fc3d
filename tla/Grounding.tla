----------------------------- MODULE Grounding -----------------------------
(***************************************************************************)
(* The grounding of a review in its payload                                *)
(* (src/src/04_coaching/grounding.py): the numbers and clocks a text of    *)
(* the review cites, the values of the payload they may come from, and the *)
(* verdict on each; and the texts that prescribe what may only be observed.*)
(* A review is written one word or one insight at a time, and the checker  *)
(* is run on what is written.                                              *)
(*                                                                         *)
(* A text is a sequence of words: a number as it is spelled, a word that   *)
(* names a unit, a trigger (a unit word that also governs the numbers that *)
(* follow), a break, a name, a clock.  Values are in thousandths.          *)
(***************************************************************************)
EXTENDS Integers, FiniteSets, Sequences, FiniteSetsExt, Functions, NoValue

CONSTANTS
    Payloads,     \* payloads, each with the words of its reviews and how many they may use
    KeyParts,     \* the name patterns each key contains
    KeyNumbers,   \* the numbers spelled in each key
    Insights,     \* insights: sets of texts, a text being the terms it holds
    MaxInsights

ANY == "any"
ONE == 1000
EXACT_EPS == 50
CLOCK_NEAR == 30
UNITS == {"g", "cs", "pct", "dmg", "s", "min", "u", "n", "morts"}

VARIABLES
    payload,    \* what the review is about
    index,      \* its values, read once
    evidence,   \* the words of its evidence
    insights    \* its insights: a sequence of [section, texts]

groundingVars == <<payload, index, evidence, insights>>

-----------------------------------------------------------------------------
(* The numbers a text cites. *)

(* 3,200 is three thousand two hundred; 0,290 and 29,06 are decimals. *)
Value(word) ==
    LET pow == [w \in 0 .. 3 |-> CASE w = 0 -> 1 [] w = 1 -> 10 [] w = 2 -> 100 [] w = 3 -> ONE]
    IN  IF word.sep = "," /\ word.width = 3 /\ word.lead \in 1 .. 999
        THEN (word.lead * ONE + word.tail) * ONE
        ELSE word.lead * ONE + word.tail * (ONE \div pow[word.width])

IsNumber(word) == word.kind = "number"
Numbers(text) == {i \in DOMAIN text : IsNumber(text[i])}
CitedClocks(text) == {w.at : w \in {v \in Range(text) : v.kind = "clock"}}

(* The text without its clocks, word after word. *)
WithoutClocks(text) ==
    LET keep(word, kept) == Append(kept, word)
    IN  MapThenFoldSet(keep, <<>>, LAMBDA i : text[i], Max, {i \in DOMAIN text : text[i].kind # "clock"})

(* The unit the next word gives a number. *)
UnitOfCitation(text, i) ==
    IF i < Len(text) /\ text[i + 1].kind \in {"unit", "trigger"} THEN text[i + 1].unit ELSE ANY

(* A comma goes on with an enumeration when a number, or a name and a      *)
(* number, follow it.                                                      *)
Enumerates(text, i) ==
    \/ i + 1 \in Numbers(text)
    \/ i + 2 \in Numbers(text) /\ text[i + 1].kind = "name"

(* Mutant: a comma always ends the clause. *)
MutChangesAt(text, i) ==
    LET word == text[i] IN
    CASE word.kind = "trigger" -> {[at |-> 2 * i, unit |-> word.unit]}
      [] word.kind \in {"stop", "comma"} -> {[at |-> 2 * i, unit |-> None]}
      [] IsNumber(word) /\ word.sep = "." -> {[at |-> 2 * i + 1, unit |-> None]}
      [] OTHER -> {}

(* Where the unit in force changes: a trigger sets it, a break clears it.  *)
(* A comma inside a number is no break; a point inside one is (2i is the   *)
(* place where word i begins, 2i + 1 is within it).                        *)
ChangesAt(text, i) ==
    LET word == text[i] IN
    CASE word.kind = "trigger" -> {[at |-> 2 * i, unit |-> word.unit]}
      [] word.kind = "stop" -> {[at |-> 2 * i, unit |-> None]}
      [] word.kind = "comma" /\ ~Enumerates(text, i) -> {[at |-> 2 * i, unit |-> None]}
      [] IsNumber(word) /\ word.sep = "." -> {[at |-> 2 * i + 1, unit |-> None]}
      [] OTHER -> {}

UnitStates(text) == {[at |-> 0, unit |-> None]} \cup UNION {ChangesAt(text, i) : i \in DOMAIN text}

(* The numbers in order, with one cursor over the states: it moves only    *)
(* for a number no word gives a unit to, up to the last state before it.   *)
Cite(text, states, i, scan) ==
    LET own == UnitOfCitation(text, i)
        passed == {s \in states : scan.cursor < s.at /\ s.at <= 2 * i}
        last == CHOOSE s \in passed : \A t \in passed : t.at <= s.at
        moved == IF passed = {} THEN scan ELSE [scan EXCEPT !.cursor = last.at, !.current = last.unit]
        cite(unit) == {[at |-> i, value |-> Value(text[i]), unit |-> unit]}
    IN  IF own # ANY THEN [scan EXCEPT !.out = @ \cup cite(own)]
        ELSE [moved EXCEPT !.out = @ \cup cite(IF moved.current = None THEN ANY ELSE moved.current)]

NothingCited == [cursor |-> -1, current |-> None, out |-> {}]

CitedNumbers(words) ==
    LET text == WithoutClocks(words)
        states == UnitStates(text)
        next(i, scan) == Cite(text, states, i, scan)
    IN  MapThenFoldSet(next, NothingCited, LAMBDA i : i, Max, Numbers(text)).out

-----------------------------------------------------------------------------
(* The values of the payload, by unit. *)

(* The first pattern a key contains wins; the suffix is tried last. *)
KEY_UNITS ==
    << <<{"damage"}, "dmg">>, <<{"csd", "cs_"}, "cs">>, <<{"gold", "gd14", "cost"}, "g">>,
       <<{"delta_s", "dead_time"}, "s">>, <<{"minute"}, "min">>, <<{"depth", "dist"}, "u">>,
       <<{"level", "kills", "deaths", "count"}, "n">>, <<{"_s"}, "s">> >>

UnitOf(key) ==
    LET hits == {i \in DOMAIN KEY_UNITS : KEY_UNITS[i][1] \cap KeyParts[key] # {}}
    IN  IF hits = {} THEN None ELSE KEY_UNITS[Min(hits)][2]

IGNORED_KEYS == {"t_ms"}
UNGROUNDED_SUBTREES == {"game_review_causes", "axes"}

Or(unit, other) == IF unit # None THEN unit ELSE other

(* Going down to a value: a node passes on the unit it declares, its own   *)
(* or the one it inherits; the value takes its own or the inherited one,   *)
(* and is a count when there is none.                                      *)
DeclaredAt(p, path, i) ==
    LET declared == {x \in p.declared : x.path = SubSeq(path, 1, i)}
    IN  IF declared = {} THEN None ELSE (CHOOSE x \in declared : TRUE).unit

InheritedUnit(p, path) ==
    LET pass(i, unit) == Or(DeclaredAt(p, path, i), Or(UnitOf(path[i]), unit))
    IN  MapThenFoldSet(pass, None, LAMBDA i : i, Max, 1 .. Len(path) - 1)

NameOf(path) == path[Len(path)]
LeafUnit(p, leaf) ==
    IF leaf.value > 0 /\ leaf.value < ONE THEN "pct"
    ELSE Or(UnitOf(NameOf(leaf.path)), Or(InheritedUnit(p, leaf.path), "n"))

MutReaches(path) == TRUE     \* mutant: the review's own axes ground its numbers
Reaches(path) == Range(path) \cap UNGROUNDED_SUBTREES = {}
Walked(p) == {leaf \in p.leaves : Reaches(leaf.path) /\ NameOf(leaf.path) \notin IGNORED_KEYS}

(* A part is citable as a fraction and as a percentage. *)
WalkedValues(p, unit) ==
    LET values == {leaf.value : leaf \in {x \in Walked(p) : LeafUnit(p, x) = unit}}
    IN  IF unit = "pct" THEN values \cup {v * 100 : v \in values} ELSE values

(* The counts and shares of the deaths by zone, by phase and by both. *)
Counts(rows) ==
    LET groups == {[d \in Range(rows) |-> <<d.zone>>], [d \in Range(rows) |-> <<d.phase>>],
                   [d \in Range(rows) |-> <<d.zone, d.phase>>]}
    IN  {Cardinality({i \in DOMAIN rows : g[rows[i]] = g[d]}) : g \in groups, d \in Range(rows)}

Derived(p, unit) ==
    LET total == Len(p.deaths)
        counts == UNION {Counts(p.deaths), {total}}
    IN  CASE unit \in {"n", "morts"} -> {c * ONE : c \in counts}
          [] unit = "pct" -> IF total = 0 THEN {} ELSE {(100 * ONE * c) \div total : c \in Counts(p.deaths)}
          [] unit = "min" -> {((d.clock + 59) \div 60) * ONE : d \in Range(p.deaths)}
          [] OTHER -> {}

(* Every key and every text out of the ignored parts. *)
KeysTo(path) == {path[i] : i \in {j \in DOMAIN path : Reaches(SubSeq(path, 1, j - 1))}}
Keys(p) == UNION {KeysTo(leaf.path) : leaf \in p.leaves}
NameNumbers(p) ==
    UNION {KeyNumbers[k] : k \in Keys(p)}
      \cup {n.value : n \in UNION {CitedNumbers(t.words) : t \in {x \in p.texts : Reaches(x.path)}}}

(* The seconds a key measures over are citable when the key is there. *)
FeatureWindows(p) ==
    (IF "swing_90s" \in Keys(p) THEN {90 * ONE} ELSE {})
      \cup (IF "objectives_lost" \in Keys(p) THEN {60 * ONE} ELSE {})

PayloadIndex(p) ==
    [unit \in UNITS \cup {ANY} |->
       IF unit = ANY THEN NameNumbers(p)
       ELSE UNION {WalkedValues(p, unit), Derived(p, unit),
                   IF unit = "s" THEN FeatureWindows(p) ELSE {}}]

PayloadClocks(p) == {c.at : c \in {x \in p.clocks : Reaches(x.path)}}

-----------------------------------------------------------------------------
(* The verdicts. *)

Near(a, b) == IF a < b THEN b - a ELSE a - b
RoundHalfEven(v) ==
    LET n == v \div ONE  r == v % ONE
    IN  IF 2 * r > ONE \/ (2 * r = ONE /\ n % 2 = 1) THEN (n + 1) * ONE ELSE n * ONE

Available(value, unit) ==
    CASE unit = ANY -> UNION {index[u] : u \in {"n", "min", "u", ANY} \cup IF value < ONE THEN {"pct"} ELSE {}}
      [] unit = "min" -> index["min"] \cup index[ANY]
      [] OTHER -> index[unit]

ClassifyNumber(value, unit) ==
    LET available == Available(value, unit)
    IN  IF \E c \in available : Near(value, c) <= EXACT_EPS THEN "exact"
        ELSE IF \E c \in available : Near(value, c) * 100 <= value THEN "arrondi"
        ELSE IF value % ONE = 0 /\ \E c \in available : RoundHalfEven(c) = value THEN "arrondi"
        ELSE "non_ancre"

ClassifyClock(clocks, at) ==
    IF at \in clocks THEN "exact"
    ELSE IF \E c \in clocks : Near(at, c) <= CLOCK_NEAR THEN "voisin"
    ELSE "non_ancre"

(* A text of a section that prescribes, holding a descriptive term: only   *)
(* an over-extension whose own insight names the outer turret is let       *)
(* through, and the first term that is not excused is enough.              *)
PRESCRIPTIVE_SECTIONS == {"mistakes", "habits", "next_focus"}
DESCRIPTIVE_TERMS == {"profondeur", "overextension"}

Violates(i, text) ==
    /\ insights[i].section \in PRESCRIPTIVE_SECTIONS
    /\ \E term \in text \cap DESCRIPTIVE_TERMS :
         \/ term = "profondeur"
         \/ \A other \in insights[i].texts : "outer turret" \notin other

AsymmetryViolations ==
    UNION {{<<i, text>> : text \in {t \in insights[i].texts : Violates(i, t)}} : i \in DOMAIN insights}

(* check_review, its rates and whether the report names the review. *)
CheckReview ==
    LET verdict(n) == [cited |-> n, status |-> ClassifyNumber(n.value, n.unit)]
    IN  [numbers |-> {verdict(n) : n \in CitedNumbers(evidence)},
         clocks |-> [at \in CitedClocks(evidence) |-> ClassifyClock(PayloadClocks(payload), at)],
         asymmetry |-> AsymmetryViolations]

Offends(check) ==
    \/ \E n \in check.numbers : n.status = "non_ancre"
    \/ \E at \in DOMAIN check.clocks : check.clocks[at] = "non_ancre"
    \/ check.asymmetry # {}

-----------------------------------------------------------------------------
(* A review being written. *)

GroundingInit ==
    /\ payload \in Payloads
    /\ index = PayloadIndex(payload)
    /\ evidence = <<>>
    /\ insights = <<>>

WriteWord ==
    /\ insights = <<>>
    /\ Len(evidence) < payload.length
    /\ \E w \in payload.words : evidence' = Append(evidence, w)
    /\ UNCHANGED <<payload, index, insights>>

AddInsight ==
    /\ evidence = <<>>
    /\ Len(insights) < MaxInsights
    /\ \E i \in Insights : insights' = Append(insights, i)
    /\ UNCHANGED <<payload, index, evidence>>

GroundingNext == WriteWord \/ AddInsight
GroundingSpec == GroundingInit /\ [][GroundingNext]_groundingVars

-----------------------------------------------------------------------------
(* What the code is given: numbers as they are spelled, words of a unit of *)
(* the checker, leaves under the keys of a dict, which declares one unit,  *)
(* and insights of the sections of a review.                               *)
WordIsFair(w) ==
    /\ w.kind = "number" => w.lead \in Nat /\ w.tail \in Nat /\ w.width \in 0 .. 3
    /\ w.kind \in {"unit", "trigger"} => w.unit \in UNITS
    /\ w.kind = "clock" => w.at \in Nat

PayloadIsFair(p) ==
    /\ \A w \in p.words : WordIsFair(w)
    /\ \A leaf \in p.leaves :
         leaf.value \in Nat /\ leaf.path \in Seq(DOMAIN KeyParts) /\ leaf.path # <<>>
    /\ \A d, e \in p.declared : d.unit \in UNITS /\ (d.path = e.path => d = e)
    /\ \A c \in p.clocks : c.at \in Nat

GroundingAssumption ==
    /\ None \notin UNITS \cup {ANY}
    /\ \A p \in Payloads : PayloadIsFair(p)
    /\ \A i \in Insights : i.section \in {"strengths"} \cup PRESCRIPTIVE_SECTIONS

-----------------------------------------------------------------------------
(* Properties. *)

(* The unit of a number, without a cursor: the word glued to it, otherwise *)
(* the last trigger before it that no break separates from it.             *)
Governing(text, i) ==
    LET breaks(j) == \/ text[j].kind = "stop"
                     \/ text[j].kind = "comma" /\ ~(i > j /\ Enumerates(text, j))
                     \/ IsNumber(text[j]) /\ text[j].sep = "."
        clean(j) == text[j].kind = "trigger" /\ \A k \in j .. i - 1 : ~breaks(k)
        triggers == {j \in 1 .. i - 1 : clean(j)}
    IN  IF UnitOfCitation(text, i) # ANY THEN UnitOfCitation(text, i)
        ELSE IF triggers = {} THEN ANY ELSE text[Max(triggers)].unit

(* A keyword never leaks past its clause, and never stops short of the     *)
(* enumeration it opens: what one cursor over sorted states reports is the *)
(* unit of the sentence, for every number of every text.                   *)
UnitsFollowSentence ==
    LET text == WithoutClocks(evidence)
        cited == CitedNumbers(evidence)
    IN  /\ {n.at : n \in cited} = Numbers(text)
        /\ \A n \in cited : n.unit = Governing(text, n.at)

(* The unit a reader of the payload gives a value: a part is a part;       *)
(* otherwise the name of the value, then its nearest ancestor that         *)
(* declares or is named for one.                                           *)
ReadUnit(p, leaf) ==
    LET path == leaf.path  n == Len(path)
        declares(i) == {x.unit : x \in {d \in p.declared : d.path = SubSeq(path, 1, i)}}
        says(i) == IF i < n /\ declares(i) # {} THEN declares(i) ELSE {UnitOf(path[i])} \ {None}
        speaking == {i \in 1 .. n : says(i) # {}}
    IN  IF leaf.value \in 1 .. ONE - 1 THEN {"pct"}
        ELSE IF speaking = {} THEN {"n"} ELSE says(Max(speaking))

(* An amount of gold or damage is grounded by a value of that unit alone,  *)
(* and never by what the checker must not read; a value of the payload     *)
(* cited as it stands is never called invented; and the report names a     *)
(* review exactly when one of its elements is not grounded.                *)
VerdictsAreFair ==
    LET check == CheckReview
        cited == {n.cited : n \in {m \in check.numbers : m.status # "non_ancre"}}
        readable == {leaf \in payload.leaves : /\ "axes" \notin Range(leaf.path)
                                               /\ "game_review_causes" \notin Range(leaf.path)
                                               /\ NameOf(leaf.path) # "t_ms"}
        close(a, b) == 100 * Near(a, b) <= a + 50 * ONE
    IN  /\ \A n \in cited : n.unit \in {"g", "dmg"} =>
             \E leaf \in readable : ReadUnit(payload, leaf) = {n.unit} /\ close(n.value, leaf.value)
        /\ \A leaf \in readable : \A u \in ReadUnit(payload, leaf) :
             ClassifyNumber(leaf.value, u) = "exact"
        /\ Offends(check) <=>
             \/ \E n \in CitedNumbers(evidence) : n \notin cited
             \/ \E at \in CitedClocks(evidence) : \A c \in PayloadClocks(payload) : Near(at, c) > CLOCK_NEAR
             \/ \E i \in DOMAIN insights :
                  /\ insights[i].section # "strengths"
                  /\ \/ \E t \in insights[i].texts : "profondeur" \in t
                     \/ /\ \E t \in insights[i].texts : "overextension" \in t
                        /\ "outer turret" \notin UNION insights[i].texts
=============================================================================
