--------------------------- MODULE RiotCollectProofs ---------------------------
(***************************************************************************)
(* The collection from Riot for any player, any sizes of the windows and   *)
(* any number of attempts: its types, the truth and the use of the scan    *)
(* index, the bound of the deadline; and, from an invariant of what a run  *)
(* has left unseen, the fairness of its answers and of the window a score  *)
(* is computed on.                                                         *)
(***************************************************************************)
EXTENDS RiotCollect, FiniteSetTheorems, SequenceTheorems, WellFoundedInduction, TLAPS

Unobserved == {NoPosition, OffMap}

(* Both indexes say what Riot says. *)
Truth ==
    /\ \A g \in DOMAIN scanIndex : scanIndex[g] = normalize_role(history[g])
    /\ \A g \in DOMAIN run.index : run.index[g] = normalize_role(history[g])

(* What was dismissed is in the index the next run will load. *)
Paid ==
    /\ \A g \in again : history[g] \in Unobserved
    /\ \A g \in dismissed : history[g] \in Unobserved \/ g \in DOMAIN scanIndex
    /\ \A g \in run.dropped : history[g] \in Unobserved \/ g \in DOMAIN run.index
    /\ run.step \in {"deep", "collected", "indexed"} =>
           DOMAIN scanIndex \subseteq DOMAIN run.index
    /\ run.step \in {"idle", "lookup", "profile"} => run.dropped = {}

(* Where the calls of Riot are made, and what is known of the game asked.  *)
Calls ==
    /\ run.call \in {"account", "league", "ids"} => run.step = "lookup"
    /\ run.call \in {"match", "timeline"} =>
           run.step \in {"profile", "deep"} /\ run.game \in Games
    /\ run.call # "none" => run.tries >= 1
    /\ run.step = "deep" /\ run.todo # {} => run.role # NoRole
    /\ run.step = "deep" /\ run.call # "none" => run.role # NoRole /\ run.needed >= 1
    /\ run.step = "deep" /\ run.call = "match" => ~KnownOther(run.game)
    /\ run.step = "deep" /\ run.call = "timeline" =>
           history[run.game] = riot_role(run.role)

(* The time n attempts may last. *)
Spent(n) == n * SLOW

(* The clock at each call of the deep phase. *)
Clock ==
    /\ run.step \in {"idle", "lookup", "profile"} => run.clock = 0
    /\ run.clock < DEADLINE + Spent(2 * ATTEMPTS)
    /\ run.step = "deep" /\ run.call = "match" =>
           run.clock < DEADLINE + Spent(ATTEMPTS - run.tries)
    /\ run.step = "deep" /\ run.call = "timeline" =>
           run.clock < DEADLINE + Spent(2 * ATTEMPTS - run.tries)

IInv == RiotTypeOK /\ Truth /\ Paid /\ Calls /\ Clock

-----------------------------------------------------------------------------
(* Time: one more attempt lasts SLOW at most. *)
LEMMA SpentFacts ==
    /\ \A n \in Int : Spent(n) \in Int /\ Spent(n + 1) = Spent(n) + SLOW
    /\ \A m, n \in Int : m <= n => Spent(m) <= Spent(n)
<1>1. \A n \in Int : Spent(n) \in Int /\ Spent(n + 1) = Spent(n) + SLOW
  BY RiotAssumption DEF Spent
<1>2. \A m, n \in Int : m <= n => Spent(m) <= Spent(n)
  <2> SUFFICES ASSUME NEW m \in Int, NEW n \in Int, m <= n
               PROVE  m * SLOW <= n * SLOW
    BY DEF Spent
  <2>1. PICK k \in Nat : n = m + k
    <3>1. n - m \in Nat /\ n = m + (n - m)
      OBVIOUS
    <3>2. QED
      BY <3>1
  <2>2. n * SLOW = m * SLOW + k * SLOW /\ k * SLOW \in Nat /\ m * SLOW \in Int
    BY <2>1, RiotAssumption
  <2>3. QED
    BY <2>2
<1>3. QED
  BY <1>1, <1>2

(* The games are those of the history, and a function over some of them is *)
(* an index when its values are roles.                                     *)
LEMMA GamesFacts ==
    ASSUME history \in Seq(Position)
    PROVE  /\ Len(history) \in Nat
           /\ Games = DOMAIN history
           /\ \A g \in Games : g \in Nat \ {0} /\ history[g] \in Position
BY DEF Games

LEMMA IndexFacts ==
    ASSUME NEW S, NEW f
    PROVE  /\ f \in IndexOver(S) => f = [g \in DOMAIN f |-> f[g]] /\ DOMAIN f \subseteq S
           /\ f \in IndexOver(S) => \A T : S \subseteq T => f \in IndexOver(T)
BY DEF IndexOver

LEMMA IndexGrows ==
    ASSUME NEW S, NEW f \in IndexOver(S), NEW g \in S,
           NEW r \in {normalize_role(p) : p \in Position} \cup ScopeRole,
           NEW h, h = [k \in DOMAIN f \cup {g} |-> IF k = g THEN r ELSE f[k]]
    PROVE  h \in IndexOver(S)
<1> DEFINE R == {normalize_role(p) : p \in Position} \cup ScopeRole
<1>1. PICK D \in SUBSET S : f \in [D -> R]
  BY DEF IndexOver
<1>2. h \in [D \cup {g} -> R] /\ D \cup {g} \in SUBSET S
  BY <1>1
<1>3. QED
  BY <1>2 DEF IndexOver

LEMMA NoIndex == ASSUME NEW S PROVE <<>> \in IndexOver(S)
<1>1. <<>> \in [{} -> {normalize_role(p) : p \in Position} \cup ScopeRole]
  OBVIOUS
<1>2. QED
  BY <1>1 DEF IndexOver

(* No run, at any moment. *)
LEMMA NoRunFacts ==
    /\ NoRun \in Runs
    /\ NoRun.step = "idle" /\ NoRun.call = "none" /\ NoRun.index = <<>>
    /\ NoRun.dropped = {} /\ NoRun.clock = 0 /\ NoRun.todo = {}
<1>1. <<>> \in IndexOver(Games) /\ 0 \in 0..ATTEMPTS
  BY NoIndex, RiotAssumption
<1>2. NoRun \in Runs
  BY <1>1 DEF NoRun, Runs, MainRole, Reason, NoRole
<1>3. QED
  BY <1>2 DEF NoRun

-----------------------------------------------------------------------------
(* A run that ends, whatever it stores of the games. *)
LEMMA EndStep ==
    ASSUME IInv, run' = NoRun, stored' \in SUBSET Games,
           UNCHANGED <<history, scanIndex, dismissed, again>>
    PROVE  IInv'
<1>1. RiotTypeOK'
  BY NoRunFacts DEF IInv, RiotTypeOK, Games, Runs, IndexOver
<1>2. Truth' /\ Paid' /\ Calls'
  BY NoRunFacts DEF IInv, Truth, Paid, Calls
<1>3. Clock'
  <2>1. 0 < DEADLINE + Spent(2 * ATTEMPTS)
    BY SpentFacts, RiotAssumption DEF Spent
  <2>2. QED
    BY <2>1, NoRunFacts DEF Clock, Spent
<1>4. QED
  BY <1>1, <1>2, <1>3 DEF IInv

(* A step of a run that learns nothing about other games. *)
LEMMA QuietStep ==
    ASSUME IInv, run' \in Runs, run'.index = run.index, run'.dropped = run.dropped,
           \/ run'.step = run.step
           \/ run.step = "deep" /\ run'.step = "collected"
           \/ run.step = "lookup" /\ run'.step = "profile",
           UNCHANGED <<history, keys, past>>
    PROVE  RiotTypeOK' /\ Truth' /\ Paid'
<1>1. RiotTypeOK'
  BY DEF IInv, RiotTypeOK, Games, Runs, IndexOver, keys, past
<1>2. Truth'
  BY DEF IInv, Truth, keys
<1>3. Paid'
  BY DEF IInv, Paid, keys, past
<1>4. QED
  BY <1>1, <1>2, <1>3

(* The clock of a call of the deep phase, one attempt later. *)
LEMMA Later ==
    ASSUME NEW c \in Nat, NEW d \in 0..SLOW, NEW n \in Int, NEW m \in Int, n < m,
           c < DEADLINE + Spent(n)
    PROVE  c + d \in Nat /\ c + d < DEADLINE + Spent(m)
<1>1. Spent(n + 1) = Spent(n) + SLOW /\ Spent(n + 1) <= Spent(m)
      /\ Spent(n) \in Int /\ Spent(m) \in Int /\ Spent(n + 1) \in Int
  BY SpentFacts
<1>2. QED
  BY <1>1, RiotAssumption

(* The time a call leaves on the clock. *)
LEMMA SpendsFacts ==
    ASSUME IInv, NEW d \in 0..SLOW, run.call \in {"match", "timeline"}
    PROVE  LET c == IF run.step = "deep" THEN run.clock + d ELSE 0
           IN  /\ Spends(d) = [run EXCEPT !.clock = c]
               /\ c \in Nat
               /\ run.step # "deep" => c = 0
               /\ c < DEADLINE + Spent(2 * ATTEMPTS)
               /\ run.step = "deep" /\ run.call = "match" =>
                      /\ c < DEADLINE + Spent(2 * ATTEMPTS - ATTEMPTS)
                      /\ run.tries > 1 => c < DEADLINE + Spent(ATTEMPTS - (run.tries - 1))
               /\ run.step = "deep" /\ run.call = "timeline" /\ run.tries > 1 =>
                      c < DEADLINE + Spent(2 * ATTEMPTS - (run.tries - 1))
<1> DEFINE c == IF run.step = "deep" THEN run.clock + d ELSE 0
<1>1. run \in Runs /\ run.tries >= 1 /\ run.tries \in Int /\ run.clock \in Nat
  BY RiotAssumption DEF IInv, RiotTypeOK, Calls, Runs
<1>2. Spends(d) = [run EXCEPT !.clock = c]
  BY <1>1 DEF Spends, Runs
<1>3. 0 < DEADLINE + Spent(2 * ATTEMPTS)
  BY SpentFacts, RiotAssumption DEF Spent
<1>4. CASE run.step # "deep"
  BY <1>2, <1>3, <1>4
<1>5. CASE run.step = "deep" /\ run.call = "match"
  <2>1. run.clock < DEADLINE + Spent(ATTEMPTS - run.tries)
    BY <1>5 DEF IInv, Clock
  <2>2. c \in Nat /\ c < DEADLINE + Spent(2 * ATTEMPTS - ATTEMPTS)
    BY <1>1, <1>5, <2>1, Later, RiotAssumption
  <2>3. c < DEADLINE + Spent(2 * ATTEMPTS)
    BY <1>1, <1>5, <2>1, Later, RiotAssumption
  <2>4. c < DEADLINE + Spent(ATTEMPTS - (run.tries - 1))
    BY <1>1, <1>5, <2>1, Later, RiotAssumption
  <2>5. QED
    BY <1>2, <1>5, <2>2, <2>3, <2>4
<1>6. CASE run.step = "deep" /\ run.call = "timeline"
  <2>1. run.clock < DEADLINE + Spent(2 * ATTEMPTS - run.tries)
    BY <1>6 DEF IInv, Clock
  <2>2. c \in Nat /\ c < DEADLINE + Spent(2 * ATTEMPTS)
    BY <1>1, <1>6, <2>1, Later, RiotAssumption
  <2>3. c < DEADLINE + Spent(2 * ATTEMPTS - (run.tries - 1))
    BY <1>1, <1>6, <2>1, Later, RiotAssumption
  <2>4. QED
    BY <1>2, <1>6, <2>2, <2>3
<1>7. QED
  BY <1>4, <1>5, <1>6

(* Asking Riot and resting keep the types of a run. *)
LEMMA CallTypes ==
    ASSUME NEW r \in Runs, NEW c \in {"account", "league", "ids", "match", "timeline"}
    PROVE  /\ Asks(r, c) \in Runs
           /\ Asks(r, c) = [r EXCEPT !.call = c, !.tries = ATTEMPTS]
           /\ Rests(r) \in Runs
           /\ Rests(r).call = "none"
           /\ Asks(r, c).step = r.step /\ Asks(r, c).todo = r.todo
           /\ Asks(r, c).top = r.top /\ Asks(r, c).base = r.base
           /\ Asks(r, c).got = r.got /\ Asks(r, c).role = r.role
           /\ Asks(r, c).reason = r.reason /\ Asks(r, c).needed = r.needed
           /\ Asks(r, c).index = r.index /\ Asks(r, c).failed = r.failed
           /\ Asks(r, c).deepFailed = r.deepFailed
           /\ Asks(r, c).clock = r.clock /\ Asks(r, c).hurt = r.hurt
           /\ Asks(r, c).dropped = r.dropped
           /\ Rests(r).step = r.step /\ Rests(r).todo = r.todo
           /\ Rests(r).top = r.top /\ Rests(r).base = r.base
           /\ Rests(r).got = r.got /\ Rests(r).role = r.role
           /\ Rests(r).reason = r.reason /\ Rests(r).needed = r.needed
           /\ Rests(r).index = r.index /\ Rests(r).failed = r.failed
           /\ Rests(r).deepFailed = r.deepFailed /\ Rests(r).clock = r.clock
           /\ Rests(r).hurt = r.hurt /\ Rests(r).dropped = r.dropped
           /\ Asks(r, c).call = c /\ Asks(r, c).tries = ATTEMPTS /\ Asks(r, c).game = r.game
<1>1. 0 \in 0..ATTEMPTS /\ ATTEMPTS \in 0..ATTEMPTS
  BY RiotAssumption
<1>2. QED
  BY <1>1 DEF Runs, Asks, Rests

-----------------------------------------------------------------------------
(* The lookups and the attempts. *)
LEMMA RetriesStep == IInv /\ (\E d \in 0..SLOW : Retries(d)) => IInv'
<1> SUFFICES ASSUME IInv, NEW d \in 0..SLOW, Retries(d)
             PROVE  IInv'
  OBVIOUS
<1>1. run \in Runs /\ run.tries \in Int
  BY RiotAssumption DEF IInv, RiotTypeOK, Runs
<1>2. PICK c \in Nat :
         /\ run' = [run EXCEPT !.clock = c, !.tries = @ - 1]
         /\ run.step # "deep" => c = 0
         /\ c < DEADLINE + Spent(2 * ATTEMPTS)
         /\ run.step = "deep" /\ run.call = "match" =>
                c < DEADLINE + Spent(ATTEMPTS - (run.tries - 1))
         /\ run.step = "deep" /\ run.call = "timeline" =>
                c < DEADLINE + Spent(2 * ATTEMPTS - (run.tries - 1))
  <2>1. CASE run.call \in {"match", "timeline"}
    BY <1>1, <2>1, SpendsFacts DEF Retries, Goes, Runs
  <2>2. CASE run.call \in {"account", "league", "ids"}
    <3>1. run.step = "lookup"
      BY <2>2 DEF IInv, Calls
    <3>2. 0 < DEADLINE + Spent(2 * ATTEMPTS)
      BY SpentFacts, RiotAssumption DEF Spent
    <3>3. run' = [run EXCEPT !.clock = 0, !.tries = @ - 1]
      BY <1>1, <3>1 DEF Retries, Goes, Spends, Runs
    <3>4. QED
      BY <3>1, <3>2, <3>3
  <2>3. QED
    BY <1>1, <2>1, <2>2 DEF Retries, Runs
<1>3. run' \in Runs
  <2>1. run.tries - 1 \in 0..ATTEMPTS
    BY <1>1, RiotAssumption DEF Retries, Runs
  <2>2. QED
    BY <1>1, <1>2, <2>1 DEF Runs
<1>4. /\ run'.index = run.index /\ run'.dropped = run.dropped /\ run'.step = run.step
      /\ run'.call = run.call /\ run'.game = run.game /\ run'.role = run.role
      /\ run'.todo = run.todo /\ run'.needed = run.needed
      /\ run'.tries = run.tries - 1 /\ run'.clock = c
  BY <1>1, <1>2 DEF Runs
<1>5. RiotTypeOK' /\ Truth' /\ Paid'
  BY <1>3, <1>4, QuietStep DEF Retries, Goes
<1>6. Calls'
  BY <1>1, <1>4 DEF IInv, Calls, Retries, Goes, KnownOther, Games
<1>7. Clock'
  BY <1>1, <1>2, <1>4 DEF Clock, Spent
<1>8. QED
  BY <1>5, <1>6, <1>7 DEF IInv

(* A call made from one place to another before the games. *)
LEMMA LookupStep ==
    ASSUME IInv,
           Requested \/ AccountFound \/ (\E covered \in BOOLEAN : LeagueRead(covered))
    PROVE  IInv'
<1>1. run \in Runs /\ ATTEMPTS \in Nat \ {0} /\ ATTEMPTS \in 0..ATTEMPTS
  BY RiotAssumption DEF IInv, RiotTypeOK
<1>2. PICK c \in {"account", "league", "ids"}, covered \in BOOLEAN :
         \/ run' = [[NoRun EXCEPT !.step = "lookup"] EXCEPT !.call = c, !.tries = ATTEMPTS]
         \/ /\ run.step = "lookup"
            /\ run' = [[run EXCEPT !.ranked = covered] EXCEPT !.call = c, !.tries = ATTEMPTS]
  <2>1. CASE Requested
    BY <2>1 DEF Requested, Goes, Asks
  <2>2. CASE AccountFound
    <3>1. run = [run EXCEPT !.ranked = run.ranked] /\ run.ranked \in BOOLEAN
      BY <1>1 DEF Runs
    <3>2. run.step = "lookup" /\ run' = Asks(run, "league")
      BY <2>2 DEF AccountFound, Calling, IInv, Calls, Goes
    <3>3. QED
      BY <3>1, <3>2 DEF Asks
  <2>3. CASE \E covered \in BOOLEAN : LeagueRead(covered)
    BY <2>3 DEF LeagueRead, Calling, IInv, Calls, Goes, Asks
  <2>4. QED
    BY <2>1, <2>2, <2>3
<1>3. UNCHANGED <<history, keys, past>>
  BY DEF Requested, AccountFound, LeagueRead, Goes
<1>4. CASE run' = [[NoRun EXCEPT !.step = "lookup"] EXCEPT !.call = c, !.tries = ATTEMPTS]
  <2>1. run' \in Runs
    <3>1. [NoRun EXCEPT !.step = "lookup"] \in Runs
      BY NoRunFacts DEF Runs
    <3>2. QED
      BY <1>4, <3>1, CallTypes DEF Asks
  <2>2. /\ run'.index = <<>> /\ run'.dropped = {} /\ run'.step = "lookup"
        /\ run'.call = c /\ run'.tries = ATTEMPTS /\ run'.clock = 0
    BY <1>4, NoRunFacts DEF Runs
  <2>3. RiotTypeOK'
    BY <1>3, <2>1 DEF IInv, RiotTypeOK, Games, Runs, IndexOver, keys, past
  <2>4. Truth' /\ Paid'
    BY <1>3, <2>2 DEF IInv, Truth, Paid, keys, past
  <2>5. Calls' /\ Clock'
    <3>1. 0 < DEADLINE + Spent(2 * ATTEMPTS)
      BY SpentFacts, RiotAssumption DEF Spent
    <3>2. QED
      BY <1>1, <2>2, <3>1 DEF Calls, Clock, Spent
  <2>6. QED
    BY <2>3, <2>4, <2>5 DEF IInv
<1>5. CASE /\ run.step = "lookup"
           /\ run' = [[run EXCEPT !.ranked = covered] EXCEPT !.call = c, !.tries = ATTEMPTS]
  <2>1. run' \in Runs
    BY <1>1, <1>5 DEF Runs
  <2>2. /\ run'.index = run.index /\ run'.dropped = run.dropped /\ run'.step = "lookup"
        /\ run'.call = c /\ run'.tries = ATTEMPTS /\ run'.clock = run.clock
    BY <1>1, <1>5 DEF Runs
  <2>3. RiotTypeOK' /\ Truth' /\ Paid'
    BY <1>3, <1>5, <2>1, <2>2, QuietStep
  <2>4. Calls' /\ Clock'
    BY <1>1, <1>5, <2>2 DEF IInv, Calls, Clock, Spent
  <2>5. QED
    BY <2>3, <2>4 DEF IInv
<1>6. QED
  BY <1>2, <1>4, <1>5

LEMMA IdsListedStep == IInv /\ IdsListed => IInv'
<1> SUFFICES ASSUME IInv, IdsListed
             PROVE  IInv'
  OBVIOUS
<1>1. run \in Runs /\ Len(history) \in Nat /\ run.step = "lookup" /\ run.clock = 0
      /\ stored \in SUBSET Games /\ history \in Seq(Position)
  BY GamesFacts DEF IInv, RiotTypeOK, IdsListed, Calling, Calls, Clock
<1>2. Len(history) \in Games
  BY <1>1, EmptySeq, LenProperties DEF IdsListed, Games
<1>3. PICK todo \in SUBSET Games :
         run' = [Rests(run) EXCEPT !.step = "profile", !.top = Len(history),
                                   !.base = stored, !.todo = todo]
  BY <1>1 DEF IdsListed, Goes, profile_ids, Newest, Games
<1>4. run' \in Runs
  <2>1. Rests(run) \in Runs
    BY <1>1, CallTypes
  <2>2. QED
    BY <1>1, <1>2, <1>3, <2>1 DEF Runs
<1>5. /\ run'.index = run.index /\ run'.dropped = run.dropped /\ run'.step = "profile"
      /\ run'.call = "none" /\ run'.clock = 0
  <2>1. /\ Rests(run) \in Runs /\ Rests(run).index = run.index
        /\ Rests(run).dropped = run.dropped /\ Rests(run).clock = 0
        /\ Rests(run).call = "none"
    BY <1>1, CallTypes
  <2>2. QED
    BY <1>3, <2>1 DEF Runs
<1>6. RiotTypeOK' /\ Truth' /\ Paid'
  BY <1>1, <1>4, <1>5, QuietStep DEF IdsListed, Goes
<1>7. Calls' /\ Clock'
  <2>1. 0 < DEADLINE + Spent(2 * ATTEMPTS)
    BY SpentFacts, RiotAssumption DEF Spent
  <2>2. QED
    BY <1>5, <2>1 DEF Calls, Clock, Spent
<1>8. QED
  BY <1>6, <1>7 DEF IInv

-----------------------------------------------------------------------------
(* The newest of some games is one of them. *)
LEMMA MaxFacts ==
    ASSUME NEW n \in Nat, NEW S \in SUBSET (1..n), S # {}
    PROVE  MaxOf(S) \in S /\ \A h \in S : h <= MaxOf(S)
<1> DEFINE T == {n - g : g \in S}
<1>1. T \subseteq Nat /\ T # {}
  <2>1. \A g \in S : n - g \in Nat
    OBVIOUS
  <2>2. PICK g \in S : TRUE
    OBVIOUS
  <2>3. n - g \in T
    OBVIOUS
  <2>4. QED
    BY <2>1, <2>3
<1>2. PICK x \in T : \A y \in T : ~ (<<y, x>> \in OpToRel(<, Nat))
  BY <1>1, NatLessThanWellFounded, WFMin
<1>3. \A y \in T : ~ (y < x)
  BY <1>1, <1>2 DEF OpToRel
<1>4. PICK g \in S : x = n - g
  OBVIOUS
<1>5. \A h \in S : h <= g
  BY <1>3, <1>4
<1>6. QED
  BY <1>5 DEF MaxOf

(* The run of an inductive state. *)
LEMMA RunFacts ==
    ASSUME IInv
    PROVE  /\ run \in Runs /\ run.todo \in SUBSET Games /\ run.clock \in Nat
           /\ run.todo # {} => MaxOf(run.todo) \in run.todo /\ MaxOf(run.todo) \in Games
           /\ ATTEMPTS \in Nat \ {0}
<1>1. run \in Runs /\ run.todo \in SUBSET Games /\ Len(history) \in Nat /\ run.clock \in Nat
  BY GamesFacts DEF IInv, RiotTypeOK, Runs
<1>2. QED
  BY <1>1, MaxFacts, RiotAssumption DEF Games

(* A phase takes its next game. *)
LEMMA TakesStep ==
    ASSUME IInv, ProfileTakes \/ DeepTakes
    PROVE  IInv'
<1> DEFINE g == MaxOf(run.todo)
           r == [run EXCEPT !.game = g, !.todo = @ \ {g}]
<1>1. run \in Runs /\ run.todo # {} /\ g \in Games /\ ATTEMPTS \in Nat \ {0}
      /\ run.clock \in Nat
  BY RunFacts DEF ProfileTakes, DeepTakes, Enough
<1>2. run' = Asks(r, "match") /\ run.call = "none" /\ UNCHANGED <<history, keys, past>>
      /\ run.step \in {"profile", "deep"}
  BY DEF ProfileTakes, DeepTakes, Goes, AtLoop, Calling
<1>3. /\ r \in Runs /\ r.step = run.step /\ r.index = run.index /\ r.dropped = run.dropped
      /\ r.role = run.role /\ r.needed = run.needed /\ r.clock = run.clock /\ r.game = g
      /\ r.todo = run.todo \ {g}
  BY <1>1 DEF Runs
<1>4. /\ run' \in Runs /\ run'.step = run.step /\ run'.index = run.index
      /\ run'.dropped = run.dropped /\ run'.role = run.role /\ run'.needed = run.needed
      /\ run'.clock = run.clock /\ run'.game = g /\ run'.todo = run.todo \ {g}
      /\ run'.call = "match" /\ run'.tries = ATTEMPTS
  BY <1>2, <1>3, CallTypes
<1>5. RiotTypeOK' /\ Truth' /\ Paid'
  BY <1>2, <1>4, QuietStep
<1>6. run.step = "deep" => /\ run.needed >= 1 /\ run.clock < DEADLINE /\ ~KnownOther(g)
                           /\ run.role # NoRole
  <2>1. ASSUME run.step = "deep"
        PROVE  DeepTakes
    BY <2>1 DEF ProfileTakes
  <2>2. run.needed \in Nat /\ DEADLINE \in Nat
    BY <1>1, RiotAssumption DEF Runs
  <2>3. QED
    BY <1>1, <2>1, <2>2 DEF DeepTakes, Enough, TooLate, IInv, Calls
<1>7. Calls'
  BY <1>1, <1>2, <1>4, <1>6 DEF Calls, KnownOther, Games
<1>8. Clock'
  <2>1. Spent(ATTEMPTS - ATTEMPTS) = 0 /\ Spent(2 * ATTEMPTS) \in Nat
    BY <1>1, RiotAssumption, SpentFacts DEF Spent
  <2>2. QED
    BY <1>1, <1>2, <1>4, <1>6, <2>1, RiotAssumption DEF IInv, Clock, Spent
<1>9. QED
  BY <1>5, <1>7, <1>8 DEF IInv

(* The state after a call that leaves the phase at its loop. *)
LEMMA LoopStep ==
    ASSUME IInv, run' \in Runs, run'.step = run.step, run'.call = "none",
           run.step \in {"profile", "deep"}, run'.role = run.role,
           run'.todo \subseteq run.todo,
           run'.clock < DEADLINE + Spent(2 * ATTEMPTS),
           run.step = "profile" => run'.clock = 0
    PROVE  Calls' /\ Clock'
<1>1. Calls'
  BY DEF IInv, Calls
<1>2. Clock'
  BY DEF IInv, Clock, Spent
<1>3. QED
  BY <1>1, <1>2

LEMMA FetchFailsStep ==
    ASSUME IInv, NEW d \in 0..SLOW, FetchFails(d)
    PROVE  IInv'
<1>1. run \in Runs /\ run.step \in {"profile", "deep"}
      /\ run.call \in {"match", "timeline"}
  BY RunFacts DEF IInv, Calls, FetchFails
<1>2. PICK c \in Nat :
         /\ Spends(d) = [run EXCEPT !.clock = c]
         /\ c < DEADLINE + Spent(2 * ATTEMPTS)
         /\ run.step # "deep" => c = 0
  BY <1>1, SpendsFacts
<1> DEFINE s == Spends(d)
<1>3. /\ s \in Runs /\ s.step = run.step /\ s.index = run.index /\ s.dropped = run.dropped
      /\ s.role = run.role /\ s.todo = run.todo /\ s.clock = c
  BY <1>1, <1>2 DEF Runs
<1>4. /\ Rests(s) \in Runs /\ Rests(s).step = run.step /\ Rests(s).index = run.index
      /\ Rests(s).dropped = run.dropped /\ Rests(s).role = run.role
      /\ Rests(s).todo = run.todo /\ Rests(s).clock = c /\ Rests(s).call = "none"
  <2> HIDE DEF s
  <2>1. QED
    BY <1>3, CallTypes
<1>5. \/ run' = [Rests(s) EXCEPT !.hurt = TRUE, !.deepFailed = @ + 1]
      \/ run' = [Rests(s) EXCEPT !.hurt = TRUE, !.failed = @ + 1]
  BY DEF FetchFails, Goes
<1>6. /\ run' \in Runs /\ run'.step = run.step /\ run'.index = run.index
      /\ run'.dropped = run.dropped /\ run'.role = run.role /\ run'.todo = run.todo
      /\ run'.clock = c /\ run'.call = "none"
  <2> DEFINE q == Rests(s)
  <2>1. q \in Runs /\ q.deepFailed + 1 \in Nat /\ q.failed + 1 \in Nat
    BY <1>4 DEF Runs
  <2> HIDE DEF q
  <2>2. CASE run' = [q EXCEPT !.hurt = TRUE, !.deepFailed = q.deepFailed + 1]
    <3>1. run' \in Runs
      BY <2>1, <2>2 DEF Runs
    <3>2. QED
      BY <1>4, <2>1, <2>2, <3>1 DEF Runs, q
  <2>3. CASE run' = [q EXCEPT !.hurt = TRUE, !.failed = q.failed + 1]
    <3>1. run' \in Runs
      BY <2>1, <2>3 DEF Runs
    <3>2. QED
      BY <1>4, <2>1, <2>3, <3>1 DEF Runs, q
  <2>4. QED
    BY <1>5, <2>1, <2>2, <2>3 DEF q, Runs
<1>7. RiotTypeOK' /\ Truth' /\ Paid'
  BY <1>6, QuietStep DEF FetchFails, Goes
<1>8. Calls' /\ Clock'
  BY <1>1, <1>2, <1>6, LoopStep
<1>9. QED
  BY <1>7, <1>8 DEF IInv

LEMMA MatchFoundStep ==
    ASSUME IInv, NEW d \in 0..SLOW, MatchFound(d)
    PROVE  IInv'
<1>1. run \in Runs /\ run.step \in {"profile", "deep"} /\ run.call = "match"
      /\ run.game \in Games
  BY RunFacts DEF IInv, Calls, MatchFound, Calling
<1>2. PICK c \in Nat :
         /\ Spends(d) = [run EXCEPT !.clock = c]
         /\ c < DEADLINE + Spent(2 * ATTEMPTS)
         /\ run.step # "deep" => c = 0
         /\ run.step = "deep" => c < DEADLINE + Spent(2 * ATTEMPTS - ATTEMPTS)
  BY <1>1, SpendsFacts
<1> DEFINE s == Spends(d)
<1>3. /\ s \in Runs /\ s.step = run.step /\ s.index = run.index /\ s.dropped = run.dropped
      /\ s.role = run.role /\ s.todo = run.todo /\ s.clock = c /\ s.needed = run.needed
      /\ s.game = run.game
  BY <1>1, <1>2 DEF Runs
<1>4. /\ run' \in Runs /\ run'.step = run.step /\ run'.index = run.index
      /\ run'.dropped = run.dropped /\ run'.role = run.role /\ run'.todo = run.todo
      /\ run'.clock = c /\ run'.call = "timeline" /\ run'.tries = ATTEMPTS
      /\ run'.needed = run.needed /\ run'.game = run.game
  <2>1. run' = Asks(s, "timeline")
    BY DEF MatchFound, Goes
  <2> HIDE DEF s
  <2>2. QED
    BY <1>3, <2>1, CallTypes
<1>5. RiotTypeOK' /\ Truth' /\ Paid'
  BY <1>4, QuietStep DEF MatchFound, Goes
<1>6. Calls'
  BY <1>1, <1>4, RiotAssumption DEF IInv, Calls, MatchFound, Goes, Games, riot_role
<1>7. Clock'
  BY <1>1, <1>2, <1>4 DEF Clock, Spent
<1>8. QED
  BY <1>5, <1>6, <1>7 DEF IInv

(* The role a run looks for is never Riot's name of a product role. *)
LEMMA RoleNames ==
    ASSUME NEW role \in MainRole, role # NoRole, NEW p
    PROVE  /\ riot_role(role) = role /\ normalize_role(role) = role
           /\ normalize_role(p) = role => p = role
           /\ role \notin Unobserved /\ role \in ScopeRole
BY DEF MainRole, ScopeRole, NoRole, riot_role, normalize_role, Unobserved, NoPosition, OffMap

LEMMA RoleMismatchStep ==
    ASSUME IInv, NEW d \in 0..SLOW, RoleMismatch(d)
    PROVE  IInv'
<1> DEFINE g == run.game
           f == [h \in DOMAIN run.index \cup {g} |->
                    IF h = g THEN normalize_role(history[g]) ELSE run.index[h]]
           s == Spends(d)
<1>1. /\ run \in Runs /\ run.step = "deep" /\ run.call = "match" /\ g \in Games
      /\ history[g] \in Position /\ history \in Seq(Position)
      /\ run.role # NoRole /\ run.role \in MainRole /\ ~KnownOther(g)
  BY RunFacts, GamesFacts DEF IInv, Calls, RoleMismatch, Calling, RiotTypeOK, Runs
<1>2. PICK c \in Nat :
         /\ Spends(d) = [run EXCEPT !.clock = c]
         /\ c < DEADLINE + Spent(2 * ATTEMPTS)
  BY <1>1, SpendsFacts
<1>3. /\ s \in Runs /\ s.step = run.step /\ s.index = run.index /\ s.dropped = run.dropped
      /\ s.role = run.role /\ s.todo = run.todo /\ s.clock = c
  BY <1>1, <1>2 DEF Runs
<1>4. /\ Rests(s) \in Runs /\ Rests(s).step = run.step /\ Rests(s).index = run.index
      /\ Rests(s).dropped = run.dropped /\ Rests(s).role = run.role
      /\ Rests(s).todo = run.todo /\ Rests(s).clock = c /\ Rests(s).call = "none"
  <2> HIDE DEF s
  <2>1. QED
    BY <1>3, CallTypes
<1>5. f \in IndexOver(Games) /\ run.index \in IndexOver(Games)
  <2>1. run.index \in IndexOver(Games)
    BY <1>1 DEF Runs
  <2>2. normalize_role(history[g]) \in {normalize_role(p) : p \in Position} \cup ScopeRole
    BY <1>1
  <2>3. QED
    BY <1>1, <2>1, <2>2, IndexGrows
<1>6. PICK x \in {run.index, f} :
         /\ run' = [Rests(s) EXCEPT !.index = x, !.dropped = run.dropped \cup {g}]
         /\ history[g] \notin Unobserved => x = f
  <2> HIDE DEF f
  <2>1. Rests(s).index = run.index /\ Rests(s).dropped = run.dropped /\ Rests(s) \in Runs
    BY <1>4
  <2>2. run' = [Rests(s) EXCEPT !.index = IF ~(history[g] \notin Unobserved)
                                          THEN run.index ELSE f,
                                !.dropped = run.dropped \cup {g}]
    BY <2>1 DEF RoleMismatch, Runs, f, Unobserved
  <2>3. QED
    BY <2>2
<1>7. /\ run' \in Runs /\ run'.step = "deep" /\ run'.index = x
      /\ run'.dropped = run.dropped \cup {g} /\ run'.role = run.role
      /\ run'.todo = run.todo /\ run'.clock = c /\ run'.call = "none"
  <2> HIDE DEF s, f
  <2>1. x \in IndexOver(Games) /\ run.dropped \cup {g} \in SUBSET Games
    BY <1>1, <1>5 DEF Runs
  <2>2. QED
    BY <1>1, <1>4, <1>6, <2>1 DEF Runs
<1>8. /\ \A h \in DOMAIN x : x[h] = normalize_role(history[h])
      /\ DOMAIN run.index \subseteq DOMAIN x
      /\ history[g] \in Unobserved \/ g \in DOMAIN x
  BY <1>6 DEF IInv, Truth
<1>9. g \in dismissed => history[g] \in Unobserved
  <2> SUFFICES ASSUME g \in dismissed, history[g] \notin Unobserved
               PROVE  FALSE
    OBVIOUS
  <2>1. g \in DOMAIN run.index /\ run.index[g] = normalize_role(history[g])
    BY <1>1 DEF IInv, Paid, Truth
  <2>2. normalize_role(history[g]) = run.role
    BY <1>1, <2>1 DEF KnownOther
  <2>3. QED
    BY <1>1, <2>2, RoleNames DEF RoleMismatch
<1>10. again' = again \cup ({g} \cap dismissed)
       /\ UNCHANGED <<history, stored, scanIndex, dismissed>>
  BY DEF RoleMismatch, keys
<1>11. RiotTypeOK'
  BY <1>1, <1>7, <1>10 DEF IInv, RiotTypeOK, Games, Runs, IndexOver
<1>12. Truth' /\ Paid'
  BY <1>1, <1>7, <1>8, <1>9, <1>10 DEF IInv, Truth, Paid
<1>13. Calls' /\ Clock'
  <2> HIDE DEF s, f
  <2>1. run'.todo \subseteq run.todo
    BY <1>7
  <2>2. QED
    BY <1>1, <1>2, <1>7, <2>1, LoopStep
<1>14. QED
  BY <1>11, <1>12, <1>13 DEF IInv

LEMMA TimelineFoundStep ==
    ASSUME IInv, NEW d \in 0..SLOW, TimelineFound(d)
    PROVE  IInv'
<1> DEFINE g == run.game
           kept == {g} \ {h \in {g} : history[h] = OffMap}
           f == [h \in DOMAIN run.index \cup {g} |-> IF h = g THEN run.role ELSE run.index[h]]
           s == Spends(d)
<1>1. /\ run \in Runs /\ run.step \in {"profile", "deep"} /\ run.call = "timeline"
      /\ g \in Games /\ history[g] \in Position /\ history \in Seq(Position)
      /\ run.role \in MainRole
      /\ run.step = "deep" => /\ run.role # NoRole /\ run.needed >= 1
                              /\ history[g] = riot_role(run.role)
  BY RunFacts, GamesFacts DEF IInv, Calls, TimelineFound, Calling, RiotTypeOK, Runs
<1>2. PICK c \in Nat :
         /\ Spends(d) = [run EXCEPT !.clock = c]
         /\ c < DEADLINE + Spent(2 * ATTEMPTS)
         /\ run.step # "deep" => c = 0
  BY <1>1, SpendsFacts
<1>3. /\ s \in Runs /\ s.step = run.step /\ s.index = run.index /\ s.dropped = run.dropped
      /\ s.role = run.role /\ s.todo = run.todo /\ s.clock = c /\ s.got = run.got
      /\ s.needed = run.needed
  BY <1>1, <1>2 DEF Runs
<1> DEFINE q == [Rests(s) EXCEPT !.got = @ \cup kept]
<1>4. /\ q \in Runs /\ q.step = run.step /\ q.index = run.index
      /\ q.dropped = run.dropped /\ q.role = run.role
      /\ q.todo = run.todo /\ q.clock = c /\ q.call = "none" /\ q.needed = run.needed
  <2> HIDE DEF s
  <2> DEFINE t == Rests(s)
  <2>1. /\ t \in Runs /\ t.step = run.step /\ t.index = run.index
        /\ t.dropped = run.dropped /\ t.role = run.role /\ t.got = run.got
        /\ t.todo = run.todo /\ t.clock = c /\ t.call = "none" /\ t.needed = run.needed
    BY <1>3, CallTypes
  <2>2. t.got \cup kept \in SUBSET Games
    BY <1>1, <2>1 DEF Runs
  <2> HIDE DEF t, kept
  <2>3. QED
    BY <2>1, <2>2 DEF Runs, t
<1> HIDE DEF s
<1>5. CASE run.step # "deep"
  <2>1. run' = q
    BY <1>5 DEF TimelineFound, Goes, s
  <2>2. RiotTypeOK' /\ Truth' /\ Paid'
    BY <1>4, <2>1, QuietStep DEF TimelineFound, Goes
  <2>3. Calls' /\ Clock'
    <3> HIDE DEF q
    <3>1. QED
      BY <1>1, <1>2, <1>4, <1>5, <2>1, LoopStep
  <2>4. QED
    BY <2>2, <2>3 DEF IInv
<1>6. CASE run.step = "deep"
  <2>1. run' = [q EXCEPT !.needed = q.needed - Cardinality(kept), !.index = f]
    BY <1>1, <1>4, <1>6 DEF TimelineFound, Goes, s, Runs
  <2>2. q.needed - Cardinality(kept) \in Nat
    <3>1. run.role \notin Unobserved /\ riot_role(run.role) = run.role
      BY <1>1, <1>6, RoleNames
    <3>2. kept = {g}
      BY <1>1, <1>6, <3>1 DEF Unobserved
    <3>3. Cardinality(kept) = 1
      BY <3>2, FS_Singleton
    <3>4. QED
      BY <1>1, <1>4, <1>6, <3>3 DEF Runs
  <2>3. f \in IndexOver(Games)
    <3>1. run.index \in IndexOver(Games)
      BY <1>1 DEF Runs
    <3>2. run.role \in {normalize_role(p) : p \in Position} \cup ScopeRole
      BY <1>1, <1>6, RoleNames
    <3>3. QED
      BY <1>1, <3>1, <3>2, IndexGrows
  <2>4. /\ \A h \in DOMAIN f : f[h] = normalize_role(history[h])
        /\ DOMAIN run.index \subseteq DOMAIN f
    <3>1. run.role = normalize_role(history[g])
      BY <1>1, <1>6, RoleNames
    <3>2. QED
      BY <3>1 DEF IInv, Truth
  <2> HIDE DEF q, f
  <2>5. run' \in Runs
    BY <1>4, <2>1, <2>2, <2>3 DEF Runs
  <2>6. /\ run'.step = "deep" /\ run'.index = f /\ run'.dropped = run.dropped
        /\ run'.role = run.role /\ run'.todo = run.todo /\ run'.clock = c
        /\ run'.call = "none"
    BY <1>4, <1>6, <2>1 DEF Runs
  <2>7. UNCHANGED <<history, keys, past>>
    BY DEF TimelineFound, Goes
  <2>8. RiotTypeOK'
    BY <2>5, <2>7 DEF IInv, RiotTypeOK, Games, Runs, IndexOver, keys, past
  <2>9. Truth' /\ Paid'
    BY <1>1, <1>6, <2>4, <2>6, <2>7 DEF IInv, Truth, Paid, keys, past
  <2>10. Calls' /\ Clock'
    BY <1>1, <1>2, <1>6, <2>5, <2>6, LoopStep
  <2>11. QED
    BY <2>8, <2>9, <2>10 DEF IInv
<1>7. QED
  BY <1>5, <1>6

(* The role a profile decides is Riot's name of a role that is the         *)
(* product's name too.                                                     *)
LEMMA DetectFacts ==
    ASSUME NEW S, NEW role \in detect(S)
    PROVE  role \in MainRole
<1>1. role_games(S, "UTILITY") = {}
  BY DEF role_games, normalize_role
<1>2. Cardinality(role_games(S, "UTILITY")) = 0
  BY <1>1, FS_EmptySet
<1>3. QED
  BY <1>2 DEF detect, MainRole, NoRole

LEMMA ProfileEndsStep ==
    ASSUME IInv, NEW role \in ScopeRole \cup {NoRole}, ProfileEnds(role)
    PROVE  IInv'
<1>1. /\ run \in Runs /\ run.step = "profile" /\ run.call = "none" /\ run.clock = 0
      /\ role \in MainRole /\ scanIndex \in IndexOver(Games)
  BY RunFacts, DetectFacts DEF IInv, Clock, ProfileEnds, Calling, RiotTypeOK
<1>2. PICK reason \in Reason, needed \in Nat, todo \in SUBSET Games :
         /\ run' = [run EXCEPT !.step = "deep", !.role = role, !.reason = reason,
                               !.index = scanIndex, !.needed = needed, !.todo = todo]
         /\ todo # {} => role # NoRole
  <2> DEFINE missing == TARGET_ROLE_GAMES - Cardinality(role_games(Merged, role))
  <2>1. preflight(role) \in Reason /\ (preflight(role) = "none" => role # NoRole)
    BY DEF preflight, Reason
  <2>2. (IF preflight(role) = "none" /\ missing > 0 THEN missing ELSE 0) \in Nat
    <3>1. IsFiniteSet(role_games(Merged, role))
      <4>1. role_games(Merged, role) \subseteq 1..Len(history) /\ Len(history) \in Nat
        BY <1>1, GamesFacts DEF role_games, Merged, IInv, RiotTypeOK, Runs, Games
      <4>2. IsFiniteSet(1..Len(history))
        BY <4>1, FS_Interval
      <4>3. QED
        BY <4>1, <4>2, FS_Subset
    <3>2. missing \in Int
      BY <3>1, FS_CardinalityType, RiotAssumption
    <3>3. QED
      BY <3>2
  <2>3. (match_ids(run.top) \ profile_ids(run.top)) \ run.base \in SUBSET Games
    <3>1. run.top \in Games \cup {0} /\ Len(history) \in Nat
      BY <1>1, GamesFacts DEF IInv, RiotTypeOK, Runs
    <3>2. QED
      BY <3>1 DEF match_ids, Newest, Games
  <2> HIDE DEF missing
  <2>4. run' = [run EXCEPT !.step = "deep", !.role = role, !.reason = preflight(role),
                           !.index = scanIndex,
                           !.needed = IF preflight(role) = "none" /\ missing > 0
                                      THEN missing ELSE 0,
                           !.todo = IF preflight(role) = "none" /\ missing > 0
                                    THEN (match_ids(run.top) \ profile_ids(run.top)) \ run.base
                                    ELSE {}]
    BY DEF ProfileEnds, Goes, missing
  <2>5. QED
    BY <2>1, <2>2, <2>3, <2>4
<1>3. run' \in Runs
  BY <1>1, <1>2 DEF Runs
<1>4. /\ run'.step = "deep" /\ run'.index = scanIndex /\ run'.dropped = run.dropped
      /\ run'.role = role /\ run'.todo = todo /\ run'.clock = 0 /\ run'.call = "none"
  BY <1>1, <1>2 DEF Runs
<1>5. UNCHANGED <<history, keys, past>>
  BY DEF ProfileEnds, Goes
<1>6. RiotTypeOK'
  BY <1>3, <1>5 DEF IInv, RiotTypeOK, Games, Runs, IndexOver, keys, past
<1>7. Truth'
  BY <1>4, <1>5 DEF IInv, Truth, keys
<1>8. Paid'
  <2>1. run.dropped = {}
    BY <1>1 DEF IInv, Paid
  <2>2. QED
    BY <1>1, <1>4, <1>5, <2>1 DEF IInv, Paid, keys, past
<1>9. Calls' /\ Clock'
  <2>1. 0 < DEADLINE + Spent(2 * ATTEMPTS)
    BY SpentFacts, RiotAssumption DEF Spent
  <2>2. QED
    BY <1>2, <1>4, <2>1 DEF Calls, Clock, Spent
<1>10. QED
  BY <1>6, <1>7, <1>8, <1>9 DEF IInv

(* The deep phase skips a game, or ends. *)
LEMMA DeepSkipsStep ==
    ASSUME IInv, DeepSkips
    PROVE  IInv'
<1> DEFINE todo == run.todo \ {MaxOf(run.todo)}
<1>1. /\ run \in Runs /\ run.step = "deep" /\ run.call = "none" /\ todo \in SUBSET Games
      /\ run' = [run EXCEPT !.todo = todo]
  BY RunFacts DEF DeepSkips, AtLoop, Calling, Goes
<1>2. /\ run' \in Runs /\ run'.step = "deep" /\ run'.index = run.index
      /\ run'.dropped = run.dropped /\ run'.role = run.role /\ run'.todo = todo
      /\ run'.clock = run.clock /\ run'.call = "none"
  BY <1>1 DEF Runs
<1>3. RiotTypeOK' /\ Truth' /\ Paid'
  BY <1>1, <1>2, QuietStep DEF DeepSkips, Goes
<1>4. Calls' /\ Clock'
  <2>1. run.clock < DEADLINE + Spent(2 * ATTEMPTS)
    BY DEF IInv, Clock
  <2>2. QED
    BY <1>1, <1>2, <2>1, LoopStep
<1>5. QED
  BY <1>3, <1>4 DEF IInv

LEMMA DeepEndsStep ==
    ASSUME IInv, DeepEnds
    PROVE  IInv'
<1>1. run \in Runs /\ run.step = "deep" /\ run.call = "none"
  BY RunFacts DEF DeepEnds, AtLoop, Calling
<1>2. PICK late \in BOOLEAN :
         run' = [run EXCEPT !.step = "collected", !.todo = {}, !.late = late]
  BY DEF DeepEnds, Goes
<1>3. /\ run' \in Runs /\ run'.step = "collected" /\ run'.index = run.index
      /\ run'.dropped = run.dropped /\ run'.clock = run.clock /\ run'.call = "none"
  BY <1>1, <1>2 DEF Runs
<1>4. RiotTypeOK' /\ Truth' /\ Paid'
  BY <1>1, <1>3, QuietStep DEF DeepEnds, Goes
<1>5. Calls' /\ Clock'
  BY <1>3 DEF IInv, Calls, Clock, Spent
<1>6. QED
  BY <1>4, <1>5 DEF IInv

LEMMA PutsIndexStep ==
    ASSUME IInv, PutsIndex
    PROVE  IInv'
<1>1. /\ run \in Runs /\ run.step = "collected" /\ run.index \in IndexOver(Games)
      /\ run.dropped \in SUBSET Games
  BY RunFacts DEF PutsIndex, Runs
<1>2. /\ run' \in Runs /\ run'.step = "indexed" /\ run'.index = run.index
      /\ run'.dropped = run.dropped /\ run'.clock = run.clock /\ run'.call = run.call
      /\ run'.game = run.game /\ run'.tries = run.tries
  BY <1>1 DEF PutsIndex, Runs
<1>3. RiotTypeOK'
  <2>1. run' \in Runs' /\ Games' = Games /\ IndexOver(Games)' = IndexOver(Games)
    BY <1>2 DEF PutsIndex, Games, Runs, IndexOver
  <2>2. scanIndex' \in IndexOver(Games) /\ dismissed' \in SUBSET Games
        /\ again' \in SUBSET Games /\ stored' \in SUBSET Games /\ history' \in Seq(Position)
    BY <1>1 DEF PutsIndex, IInv, RiotTypeOK
  <2>3. QED
    BY <2>1, <2>2 DEF RiotTypeOK
<1>4. Truth' /\ Paid'
  BY <1>1, <1>2 DEF PutsIndex, IInv, Truth, Paid
<1>5. Calls' /\ Clock'
  BY <1>1, <1>2 DEF IInv, Calls, Clock, Spent, PutsIndex
<1>6. QED
  BY <1>3, <1>4, <1>5 DEF IInv

(* Another game: what is said of the others stays true. *)
LEMMA PlaysStep ==
    ASSUME IInv, NEW p \in Position, Plays(p)
    PROVE  IInv'
<1>1. history \in Seq(Position) /\ run \in Runs
  BY RunFacts DEF IInv, RiotTypeOK
<1>2. /\ history' \in Seq(Position) /\ Games \subseteq Games'
      /\ \A g \in Games : history'[g] = history[g]
  BY <1>1, AppendProperties DEF Plays, Games
<1>3. UNCHANGED <<keys, run, past>>
  BY DEF Plays
<1>4. \A f : f \in IndexOver(Games) => f \in IndexOver(Games)'
  BY <1>2, IndexFacts DEF IndexOver
<1>5. run \in Runs'
  BY <1>1, <1>2, <1>4 DEF Runs
<1>6. RiotTypeOK'
  BY <1>2, <1>3, <1>4, <1>5 DEF IInv, RiotTypeOK, keys, past
<1>7. DOMAIN scanIndex \subseteq Games /\ DOMAIN run.index \subseteq Games
      /\ run.dropped \subseteq Games /\ dismissed \subseteq Games /\ again \subseteq Games
  BY <1>1, IndexFacts DEF IInv, RiotTypeOK, Runs
<1>8. Truth' /\ Paid'
  BY <1>2, <1>3, <1>7 DEF IInv, Truth, Paid, keys, past
<1>9. Calls' /\ Clock'
  BY <1>2, <1>3 DEF IInv, Calls, Clock, Spent, KnownOther
<1>10. QED
  BY <1>6, <1>8, <1>9 DEF IInv
-----------------------------------------------------------------------------
(* Every step keeps the invariant. *)
LEMMA InitStep == Init => IInv
<1> SUFFICES ASSUME Init
             PROVE  IInv
  OBVIOUS
<1>1. RiotTypeOK
  <2>1. <<>> \in Seq(Position)
    OBVIOUS
  <2>2. QED
    BY <2>1, NoIndex, NoRunFacts DEF Init, RiotTypeOK
<1>2. Truth /\ Paid /\ Calls
  BY NoRunFacts DEF Init, Truth, Paid, Calls
<1>3. 0 < DEADLINE + Spent(2 * ATTEMPTS)
  BY SpentFacts, RiotAssumption DEF Spent
<1>4. Clock
  BY <1>3, NoRunFacts DEF Init, Clock
<1>5. QED
  BY <1>1, <1>2, <1>4 DEF IInv

LEMMA NextStep == IInv /\ [Next]_vars => IInv'
<1> SUFFICES ASSUME IInv, [Next]_vars
             PROVE  IInv'
  OBVIOUS
<1>1. stored \in SUBSET Games /\ run \in Runs
  BY DEF IInv, RiotTypeOK
<1>2. CASE LookupRaises \/ AccountUnknown \/ NoIds \/ NothingCollected \/ Breaks
  <2>1. run' = NoRun /\ UNCHANGED <<history, keys, past>>
    BY <1>2 DEF LookupRaises, AccountUnknown, NoIds, NothingCollected, Breaks, Ends
  <2>2. stored' \in SUBSET Games /\ UNCHANGED <<history, scanIndex, dismissed, again>>
    BY <1>1, <2>1 DEF keys, past
  <2>3. QED
    BY <2>1, <2>2, EndStep
<1>3. CASE \E scores \in BOOLEAN : Publishes(scores)
  <2>1. Merged \in SUBSET Games
    BY <1>1 DEF Merged, Runs
  <2>2. run' = NoRun /\ stored' \in SUBSET Games
        /\ UNCHANGED <<history, scanIndex, dismissed, again>>
    BY <1>3, <2>1 DEF Publishes
  <2>3. QED
    BY <2>2, EndStep
<1>4. CASE \E d \in 0..SLOW : Retries(d)
  BY <1>4, RetriesStep
<1>5. CASE Requested \/ AccountFound \/ \E covered \in BOOLEAN : LeagueRead(covered)
  BY <1>5, LookupStep
<1>6. CASE IdsListed
  BY <1>6, IdsListedStep
<1>7. CASE ProfileTakes \/ DeepTakes
  BY <1>7, TakesStep
<1>8. CASE \E d \in 0..SLOW : FetchFails(d)
  BY <1>8, FetchFailsStep
<1>9. CASE \E d \in 0..SLOW : MatchFound(d)
  BY <1>9, MatchFoundStep
<1>10. CASE \E d \in 0..SLOW : RoleMismatch(d)
  BY <1>10, RoleMismatchStep
<1>11. CASE \E d \in 0..SLOW : TimelineFound(d)
  BY <1>11, TimelineFoundStep
<1>12. CASE \E role \in ScopeRole \cup {NoRole} : ProfileEnds(role)
  BY <1>12, ProfileEndsStep
<1>13. CASE DeepSkips
  BY <1>13, DeepSkipsStep
<1>14. CASE DeepEnds
  BY <1>14, DeepEndsStep
<1>15. CASE PutsIndex
  BY <1>15, PutsIndexStep
<1>16. CASE \E p \in Position : Plays(p)
  BY <1>16, PlaysStep
<1>17. CASE UNCHANGED vars
  BY <1>17 DEF vars, keys, past, IInv, RiotTypeOK, Truth, Paid, Calls, Clock, Games,
               Runs, IndexOver, KnownOther, Spent
<1>18. QED
  BY <1>2, <1>3, <1>4, <1>5, <1>6, <1>7, <1>8, <1>9, <1>10, <1>11, <1>12, <1>13,
     <1>14, <1>15, <1>16, <1>17 DEF Next, RunStep

(* The invariant, and with it the types, of any collections. *)
THEOREM InvCorrect == Spec => []IInv
<1>1. QED
  BY InitStep, NextStep, PTL DEF Spec

(* The types of a collection (run of service/riot_ingest.py). *)
THEOREM TypeCorrect == Spec => []RiotTypeOK
<1>1. IInv => RiotTypeOK
  BY DEF IInv
<1>2. QED
  BY <1>1, InvCorrect, PTL

(* No index lies, and no game is paid for and dismissed twice, for any     *)
(* history of the player (collect_role_window, service/riot_ingest.py:150).*)
THEOREM IndexPaysCorrect == Spec => []IndexPays
<1>1. IInv => IndexPays
  BY DEF IInv, Truth, Paid, IndexPays, Unobserved
<1>2. QED
  BY <1>1, InvCorrect, PTL

(* The deep phase overruns its deadline by the calls of one game at most,  *)
(* for any deadline, attempts and length of an attempt.                    *)
THEOREM DeadlineHeldCorrect == Spec => []DeadlineHeld
<1>1. IInv => DeadlineHeld
  BY DEF IInv, Clock, DeadlineHeld, Spent
<1>2. QED
  BY <1>1, InvCorrect, PTL

-----------------------------------------------------------------------------
(* What a run leaves unseen: the games of the history it has taken, has    *)
(* still to take, or has missed.                                           *)

Listed == run.step \in {"profile", "deep", "collected", "indexed"}
Decided == run.step \in {"deep", "collected", "indexed"}
Asked == IF run.call \in {"match", "timeline"} THEN {run.game} ELSE {}

(* The record of a run, field by field. *)
LEMMA Fields ==
    ASSUME NEW r \in Runs
    PROVE  DOMAIN r = {"step", "call", "tries", "game", "todo", "top", "base", "got", "ranked",
                       "role", "reason", "needed", "index", "failed", "deepFailed", "clock",
                       "late", "hurt", "dropped"}
BY DEF Runs

(* What the other invariants read of a run. *)
View(r) == <<r.step, r.todo, r.top, r.base, r.got, r.role, r.reason, r.needed, r.failed,
             r.deepFailed, r.late, r.hurt>>

LEMMA RetriesShape ==
    ASSUME IInv, NEW d \in 0..SLOW, Retries(d)
    PROVE  View(run') = View(run) /\ Asked' = Asked
<1>1. run' = [[run EXCEPT !.clock = IF run.step = "deep" THEN run.clock + d ELSE 0]
                 EXCEPT !.tries = run.tries - 1]
  BY Fields DEF Retries, Goes, Spends, IInv, RiotTypeOK
<1>2. QED
  BY <1>1, Fields DEF View, Asked, IInv, RiotTypeOK

LEMMA MatchFoundShape ==
    ASSUME IInv, NEW d \in 0..SLOW, MatchFound(d)
    PROVE  View(run') = View(run) /\ Asked' = Asked
<1>1. run' = [[run EXCEPT !.clock = IF run.step = "deep" THEN run.clock + d ELSE 0]
                 EXCEPT !.call = "timeline", !.tries = ATTEMPTS]
  BY Fields DEF MatchFound, Goes, Spends, Asks, IInv, RiotTypeOK
<1>2. QED
  BY <1>1, Fields DEF View, Asked, IInv, RiotTypeOK, MatchFound, Calling

LEMMA RestsShape ==
    ASSUME IInv, NEW d \in 0..SLOW
    PROVE  /\ DOMAIN Rests(Spends(d)) = DOMAIN run
           /\ View(Rests(Spends(d))) = View(run)
           /\ Rests(Spends(d)).call = "none"
BY Fields DEF Spends, Rests, View, IInv, RiotTypeOK

LEMMA FetchFailsShape ==
    ASSUME IInv, NEW d \in 0..SLOW, FetchFails(d)
    PROVE  /\ run'.step = run.step /\ run'.todo = run.todo /\ run'.top = run.top
           /\ run'.base = run.base /\ run'.got = run.got /\ run'.role = run.role
           /\ run'.reason = run.reason /\ run'.needed = run.needed /\ run'.late = run.late
           /\ run'.hurt /\ Asked' = {}
           /\ IF run.step = "deep"
              THEN run'.deepFailed = run.deepFailed + 1 /\ run'.failed = run.failed
              ELSE run'.failed = run.failed + 1 /\ run'.deepFailed = run.deepFailed
<1> DEFINE q == Rests(Spends(d))
<1>1. /\ DOMAIN q = DOMAIN run /\ View(q) = View(run) /\ q.call = "none" /\ DOMAIN run = DOMAIN q
      /\ DOMAIN run = {"step", "call", "tries", "game", "todo", "top", "base", "got", "ranked",
                       "role", "reason", "needed", "index", "failed", "deepFailed", "clock",
                       "late", "hurt", "dropped"}
  BY RestsShape, Fields DEF IInv, RiotTypeOK
<1>2. run' = IF run.step = "deep"
             THEN [[q EXCEPT !.hurt = TRUE] EXCEPT !.deepFailed = q.deepFailed + 1]
             ELSE [[q EXCEPT !.hurt = TRUE] EXCEPT !.failed = q.failed + 1]
  <2>1. [q EXCEPT !.hurt = TRUE].deepFailed = q.deepFailed
        /\ [q EXCEPT !.hurt = TRUE].failed = q.failed
        /\ [q EXCEPT !.hurt = TRUE].step = q.step
    <3> HIDE DEF q
    <3>1. QED
      BY <1>1
  <2>2. QED
    BY <1>1, <2>1 DEF FetchFails, Goes, View
<1> HIDE DEF q
<1>3. QED
  BY <1>1, <1>2 DEF View, Asked

LEMMA RoleMismatchShape ==
    ASSUME IInv, NEW d \in 0..SLOW, RoleMismatch(d)
    PROVE  View(run') = View(run) /\ Asked' = {}
<1> DEFINE q == Rests(Spends(d))
<1>1. /\ View(q) = View(run) /\ q.call = "none"
      /\ DOMAIN q = {"step", "call", "tries", "game", "todo", "top", "base", "got", "ranked",
                       "role", "reason", "needed", "index", "failed", "deepFailed", "clock",
                       "late", "hurt", "dropped"}
  BY RestsShape, Fields DEF IInv, RiotTypeOK
<1>2. PICK x, y : run' = [q EXCEPT !.index = x, !.dropped = y]
  BY DEF RoleMismatch
<1> HIDE DEF q
<1>3. QED
  BY <1>1, <1>2 DEF View, Asked

LEMMA TimelineFoundShape ==
    ASSUME IInv, NEW d \in 0..SLOW, TimelineFound(d)
    PROVE  LET kept == {run.game} \ {h \in {run.game} : history[h] = OffMap}
           IN  /\ run'.step = run.step /\ run'.todo = run.todo /\ run'.top = run.top
               /\ run'.base = run.base /\ run'.got = run.got \cup kept /\ run'.role = run.role
               /\ run'.reason = run.reason /\ run'.failed = run.failed
               /\ run'.deepFailed = run.deepFailed /\ run'.late = run.late
               /\ run'.hurt = run.hurt /\ Asked' = {}
               /\ run'.needed = IF run.step = "deep" THEN run.needed - Cardinality(kept)
                                                     ELSE run.needed
<1> DEFINE kept == {run.game} \ {h \in {run.game} : history[h] = OffMap}
           q == Rests(Spends(d))
           t == [q EXCEPT !.got = q.got \cup kept]
<1>1. /\ View(q) = View(run) /\ q.call = "none"
      /\ DOMAIN q = {"step", "call", "tries", "game", "todo", "top", "base", "got", "ranked",
                       "role", "reason", "needed", "index", "failed", "deepFailed", "clock",
                       "late", "hurt", "dropped"}
  BY RestsShape, Fields DEF IInv, RiotTypeOK
<1>2. /\ run.step # "deep" => run' = t
      /\ run.step = "deep" => \E x : run' = [t EXCEPT !.needed = t.needed - Cardinality(kept), !.index = x]
  BY <1>1 DEF TimelineFound, Goes, View
<1> HIDE DEF q
<1>3. /\ t.got = run.got \cup kept /\ t.needed = run.needed /\ t.step = run.step /\ t.todo = run.todo
      /\ t.top = run.top /\ t.base = run.base /\ t.role = run.role /\ t.reason = run.reason
      /\ t.failed = run.failed /\ t.deepFailed = run.deepFailed /\ t.late = run.late
      /\ t.hurt = run.hurt /\ t.call = "none"
      /\ DOMAIN t = DOMAIN q
  <2> HIDE DEF kept
  <2>1. QED
    BY <1>1 DEF View
<1> HIDE DEF t, kept
<1>4. CASE run.step # "deep"
  BY <1>2, <1>3, <1>4 DEF Asked, kept
<1>5. CASE run.step = "deep"
  <2>1. PICK x : run' = [t EXCEPT !.needed = t.needed - Cardinality(kept), !.index = x]
    BY <1>2, <1>5
  <2>2. QED
    BY <1>1, <1>3, <1>5, <2>1 DEF Asked, kept
<1>6. QED
  BY <1>4, <1>5

LEMMA TakesShape ==
    ASSUME IInv, ProfileTakes \/ DeepTakes
    PROVE  LET g == MaxOf(run.todo)
           IN  /\ run'.step = run.step /\ run'.todo = run.todo \ {g} /\ run'.top = run.top
               /\ run'.base = run.base /\ run'.got = run.got /\ run'.role = run.role
               /\ run'.reason = run.reason /\ run'.failed = run.failed
               /\ run'.deepFailed = run.deepFailed /\ run'.late = run.late
               /\ run'.hurt = run.hurt /\ run'.needed = run.needed
               /\ Asked' = {g} /\ Asked = {} /\ run.step \in {"profile", "deep"}
               /\ g \in run.todo /\ \A h \in run.todo : h <= g
<1> DEFINE g == MaxOf(run.todo)
<1>1. run' = [[run EXCEPT !.game = g, !.todo = @ \ {g}] EXCEPT !.call = "match", !.tries = ATTEMPTS]
  BY DEF ProfileTakes, DeepTakes, Goes, Asks
<1>2. run.call = "none" /\ run.step \in {"profile", "deep"} /\ run.todo # {}
  BY DEF ProfileTakes, DeepTakes, AtLoop, Calling, Enough
<1>3. g \in run.todo /\ \A h \in run.todo : h <= g
  <2>1. run.todo \in SUBSET (1..Len(history)) /\ Len(history) \in Nat
    BY RunFacts, GamesFacts DEF Games, IInv, RiotTypeOK
  <2>2. QED
    BY <1>2, <2>1, MaxFacts
<1> HIDE DEF g
<1>4. QED
  BY <1>1, <1>2, <1>3, Fields DEF Asked, IInv, RiotTypeOK, g

LEMMA DeepSkipsShape ==
    ASSUME IInv, DeepSkips
    PROVE  LET g == MaxOf(run.todo)
           IN  /\ run'.step = run.step /\ run'.todo = run.todo \ {g} /\ run'.top = run.top
               /\ run'.base = run.base /\ run'.got = run.got /\ run'.role = run.role
               /\ run'.reason = run.reason /\ run'.failed = run.failed
               /\ run'.deepFailed = run.deepFailed /\ run'.late = run.late
               /\ run'.hurt = run.hurt /\ run'.needed = run.needed
               /\ Asked' = {} /\ Asked = {} /\ run.step = "deep" /\ KnownOther(g)
<1> DEFINE g == MaxOf(run.todo)
<1>1. /\ run' = [run EXCEPT !.todo = @ \ {g}] /\ run.call = "none" /\ run.step = "deep"
      /\ KnownOther(g)
  BY DEF DeepSkips, Goes, AtLoop, Calling
<1> HIDE DEF g
<1>2. QED
  BY <1>1, Fields DEF Asked, IInv, RiotTypeOK, g

LEMMA DeepEndsShape ==
    ASSUME IInv, DeepEnds
    PROVE  /\ run.step = "deep" /\ run'.step = "collected" /\ run'.todo = {}
           /\ run'.top = run.top /\ run'.base = run.base /\ run'.got = run.got
           /\ run'.role = run.role /\ run'.reason = run.reason /\ run'.needed = run.needed
           /\ run'.failed = run.failed /\ run'.deepFailed = run.deepFailed
           /\ run'.hurt = run.hurt /\ run'.late = (~Enough /\ TooLate)
           /\ Asked = {} /\ Asked' = {}
           /\ Enough \/ TooLate \/ TooManyFailures
<1>1. /\ run' = [run EXCEPT !.step = "collected", !.todo = {}, !.late = ~Enough /\ TooLate]
      /\ run.call = "none" /\ run.step = "deep"
      /\ Enough \/ TooLate \/ TooManyFailures
  BY DEF DeepEnds, Goes, AtLoop, Calling
<1> DEFINE late == ~Enough /\ TooLate
<1>2. run' = [run EXCEPT !.step = "collected", !.todo = {}, !.late = late]
  BY <1>1
<1> HIDE DEF late
<1>3. QED
  BY <1>1, <1>2, Fields DEF Asked, IInv, RiotTypeOK, late

LEMMA PutsIndexShape ==
    ASSUME IInv, PutsIndex
    PROVE  /\ run.step = "collected" /\ run'.step = "indexed" /\ run'.todo = run.todo
           /\ run'.top = run.top /\ run'.base = run.base /\ run'.got = run.got
           /\ run'.role = run.role /\ run'.reason = run.reason /\ run'.needed = run.needed
           /\ run'.failed = run.failed /\ run'.deepFailed = run.deepFailed
           /\ run'.hurt = run.hurt /\ run'.late = run.late /\ Asked' = Asked
BY Fields DEF Asked, IInv, RiotTypeOK, PutsIndex

LEMMA IdsListedShape ==
    ASSUME IInv, IdsListed
    PROVE  /\ run.step = "lookup" /\ run'.step = "profile" /\ run'.top = Len(history)
           /\ Len(history) \in Nat \ {0}
           /\ run'.base = stored /\ run'.todo = profile_ids(Len(history)) \ stored
           /\ run'.got = run.got /\ run'.hurt = run.hurt
           /\ run'.failed = run.failed /\ run'.deepFailed = run.deepFailed
           /\ Asked' = {}
<1>1. /\ run' = [Rests(run) EXCEPT !.step = "profile", !.top = Len(history), !.base = stored,
                                   !.todo = profile_ids(Len(history)) \ stored]
      /\ run.step = "lookup" /\ history # <<>>
  BY DEF IdsListed, Goes, Calling, IInv, Calls
<1>2. Len(history) \in Nat \ {0}
  <2>1. history \in Seq(Position) /\ history # <<>>
    BY <1>1 DEF IInv, RiotTypeOK
  <2>2. QED
    BY <2>1, EmptySeq, LenProperties
<1>3. QED
  BY <1>1, <1>2, Fields DEF Asked, Rests, IInv, RiotTypeOK

LEMMA LookupShape ==
    ASSUME IInv, Requested \/ AccountFound \/ \E covered \in BOOLEAN : LeagueRead(covered)
    PROVE  /\ run'.step = "lookup" /\ Asked' = {}
           /\ \/ /\ run.step = "idle" /\ run'.todo = {} /\ run'.got = {} /\ run'.hurt = FALSE
                 /\ run'.failed = 0 /\ run'.deepFailed = 0 /\ run'.base = {}
              \/ run.step = "lookup" /\ View(run') = View(run)
<1>1. CASE Requested
  <2>1. run' = [[NoRun EXCEPT !.step = "lookup"] EXCEPT !.call = "account", !.tries = ATTEMPTS]
    BY <1>1 DEF Requested, Goes, Asks
  <2>2. run.step = "idle"
    BY <1>1 DEF Requested
  <2>3. QED
    BY <2>1, <2>2 DEF NoRun, Asked
<1>2. CASE AccountFound
  BY <1>2, Fields DEF AccountFound, Calling, Goes, Asks, View, Asked, IInv, RiotTypeOK, Calls
<1>3. ASSUME NEW covered \in BOOLEAN, LeagueRead(covered)
      PROVE  run'.step = "lookup" /\ Asked' = {} /\ run.step = "lookup" /\ View(run') = View(run)
  BY <1>3, Fields DEF LeagueRead, Calling, Goes, Asks, View, Asked, IInv, RiotTypeOK, Calls
<1>4. QED
  BY <1>1, <1>2, <1>3

LEMMA ProfileEndsShape ==
    ASSUME IInv, NEW role \in ScopeRole \cup {NoRole}, ProfileEnds(role)
    PROVE  LET missing == TARGET_ROLE_GAMES - Cardinality(role_games(Merged, role))
               looks == preflight(role) = "none" /\ missing > 0
           IN  /\ run.step = "profile" /\ Asked = {} /\ run.todo = {}
               /\ run'.step = "deep" /\ Asked' = {}
               /\ run'.top = run.top /\ run'.base = run.base /\ run'.got = run.got
               /\ run'.failed = run.failed /\ run'.deepFailed = run.deepFailed
               /\ run'.hurt = run.hurt
               /\ run'.role = role /\ run'.reason = preflight(role)
               /\ run'.needed = IF looks THEN missing ELSE 0
               /\ run'.todo = IF looks THEN (match_ids(run.top) \ profile_ids(run.top)) \ run.base
                              ELSE {}
               /\ role \in MainRole
<1> DEFINE missing == TARGET_ROLE_GAMES - Cardinality(role_games(Merged, role))
           looks == preflight(role) = "none" /\ missing > 0
           needed == IF looks THEN missing ELSE 0
           todo == IF looks THEN (match_ids(run.top) \ profile_ids(run.top)) \ run.base ELSE {}
           reason == preflight(role)
<1>1. /\ run' = [run EXCEPT !.step = "deep", !.role = role, !.reason = reason,
                            !.index = scanIndex, !.needed = needed, !.todo = todo]
      /\ run.step = "profile" /\ run.call = "none" /\ run.todo = {} /\ role \in MainRole
  BY DetectFacts DEF ProfileEnds, Calling, Goes
<1> HIDE DEF needed, todo, reason
<1>2. QED
  BY <1>1, Fields DEF Asked, IInv, RiotTypeOK, needed, todo, reason

-----------------------------------------------------------------------------
(* The newest games of a history are an interval of it. *)
LEMMA NewestIs ==
    ASSUME NEW top \in Nat, NEW n \in Nat
    PROVE  Newest(1..top, n) = {g \in 1..top : top - g < n}
<1> SUFFICES ASSUME NEW g \in 1..top
             PROVE  Cardinality({h \in 1..top : h > g}) = top - g
  BY DEF Newest
<1>1. {h \in 1..top : h > g} = (g + 1)..top
  OBVIOUS
<1>2. Cardinality((g + 1)..top) = top - g
  BY FS_Interval
<1>3. QED
  BY <1>1, <1>2

LEMMA IdsAre ==
    ASSUME NEW top \in Nat
    PROVE  /\ profile_ids(top) = {g \in 1..top : top - g < PROFILE_GAMES}
           /\ match_ids(top) = {g \in 1..top : top - g < MAX_HISTORY_SCANNED}
           /\ profile_ids(top) \subseteq match_ids(top)
<1>1. PROFILE_GAMES \in Nat /\ MAX_HISTORY_SCANNED \in Nat
      /\ PROFILE_GAMES <= MAX_HISTORY_SCANNED
  BY RiotAssumption
<1>2. /\ profile_ids(top) = {g \in 1..top : top - g < PROFILE_GAMES}
      /\ match_ids(top) = {g \in 1..top : top - g < MAX_HISTORY_SCANNED}
  BY <1>1, NewestIs DEF profile_ids, match_ids
<1>3. QED
  BY <1>1, <1>2

(* The newest of some games are those of a part of them that is full and   *)
(* holds every game newer than one of its own.                             *)
LEMMA SameNewest ==
    ASSUME NEW top \in Nat, NEW B \in SUBSET (1..top), NEW A \in SUBSET B, NEW n \in Nat,
           \A g \in A : \A h \in B : h > g => h \in A,
           Cardinality(A) >= n
    PROVE  Newest(A, n) = Newest(B, n)
<1>1. ASSUME NEW S \in SUBSET (1..top)
      PROVE  IsFiniteSet(S) /\ Cardinality(S) \in Nat
  <2>1. IsFiniteSet(1..top)
    BY FS_Interval
  <2>2. IsFiniteSet(S)
    BY <2>1, FS_Subset
  <2>3. QED
    BY <2>2, FS_CardinalityType
<1>2. \A g \in A : {h \in A : h > g} = {h \in B : h > g}
  OBVIOUS
<1>3. ASSUME NEW g \in B \ A
      PROVE  ~ (Cardinality({h \in B : h > g}) < n)
  <2> DEFINE C == {h \in B : h > g}
  <2>1. A \subseteq C /\ C \in SUBSET (1..top)
    <3>1. ASSUME NEW a \in A
          PROVE  a > g
      <4>1. a \in Nat /\ g \in Nat /\ a # g /\ ~ (g > a)
        BY <1>3
      <4>2. QED
        BY <4>1
    <3>2. QED
      BY <3>1
  <2>2. Cardinality(A) <= Cardinality(C)
    BY <1>1, <2>1, FS_Subset
  <2>3. QED
    BY <1>1, <2>1, <2>2
<1>4. QED
  BY <1>2, <1>3 DEF Newest

(* The games of a role among some games, when the role is a model's. *)
LEMMA RoleGamesAre ==
    ASSUME NEW S, NEW role \in MainRole, role # NoRole
    PROVE  role_games(S, role) = {g \in S : history[g] = role}
BY RoleNames DEF role_games

(* What is known of the fields of a run. *)
LEMMA Typed ==
    ASSUME IInv
    PROVE  /\ history \in Seq(Position) /\ Len(history) \in Nat /\ Games = 1..Len(history)
           /\ run.todo \subseteq Games /\ run.got \subseteq Games /\ run.base \subseteq Games
           /\ run.top \in 0..Len(history) /\ stored \subseteq Games
           /\ run.needed \in Nat /\ run.failed \in Nat /\ run.deepFailed \in Nat
           /\ run.role \in MainRole /\ run.reason \in Reason
           /\ run.hurt \in BOOLEAN /\ run.late \in BOOLEAN
           /\ run.step \in {"idle", "lookup", "profile", "deep", "collected", "indexed"}
<1>1. history \in Seq(Position) /\ run \in Runs /\ stored \in SUBSET Games
  BY DEF IInv, RiotTypeOK
<1>2. Len(history) \in Nat /\ Games = 1..Len(history)
  BY <1>1 DEF Games
<1>3. QED
  BY <1>1, <1>2 DEF Runs

-----------------------------------------------------------------------------
(* Every game of the position of a game of S, up to top and newer, is in S. *)
UpTo(S, top) == \A g \in S : \A h \in (g + 1)..top : history[h] = history[g] => h \in S

(* What the run reads and holds lies in the history it was listed. *)
Span ==
    /\ seen \in 0..Len(history)
    /\ stored \subseteq 1..seen
    /\ ~Listed => run.got = {}
    /\ Listed => /\ run.base = stored
                 /\ run.top \in 1..Len(history) /\ seen <= run.top
                 /\ run.got \subseteq 1..run.top

(* A phase takes games of its own part of the history, newest first. *)
Phases ==
    /\ run.step = "profile" => run.todo \cup Asked \cup run.got \subseteq profile_ids(run.top)
    /\ run.step = "deep" =>
           /\ run.todo \cup Asked \subseteq match_ids(run.top)
           /\ (run.todo \cup Asked) \cap Merged = {}
           /\ \A g \in Asked : \A h \in run.todo : h < g

(* A run that Riot failed has counted it. *)
Hurts ==
    /\ ~Listed => ~run.hurt
    /\ ~Listed \/ run.step = "profile" => run.deepFailed = 0
    /\ run.hurt => run.failed + run.deepFailed > 0

(* A profile that nothing failed has seen all of its games. *)
Profiled ==
    Listed /\ ~run.hurt =>
        \A h \in profile_ids(run.top) :
            \/ history[h] = OffMap
            \/ h \in Merged
            \/ run.step = "profile" /\ h \in run.todo \cup Asked

(* A deep phase that nothing failed passes over no game of its role. *)
Scanned ==
    run.step = "deep" /\ run.needed >= 1 /\ ~run.hurt =>
        \A h \in match_ids(run.top) :
            history[h] = run.role => h \in Merged \cup run.todo \cup Asked

(* What the window of the role still needs. *)
Counted ==
    Decided =>
        /\ run.reason # "none" => run.needed = 0
        /\ run.reason = "window_too_short" => run.role = NoRole
        /\ run.reason = "none" =>
               /\ run.role # NoRole
               /\ run.needed + Cardinality(role_games(Merged, run.role)) >= TARGET_ROLE_GAMES

(* How a run that nothing failed or cut short has ended. *)
Done ==
    /\ run.step \in {"collected", "indexed"} /\ run.reason = "none"
    /\ ~run.late /\ run.failed + run.deepFailed = 0
    => \/ run.needed = 0
       \/ \A h \in match_ids(run.top) : history[h] = run.role => h \in Merged

(* More games than a profile takes were played since the last run. *)
Far == seen > 0 /\ run.top - seen > PROFILE_GAMES

(* What is stored has no hole, nor has what a run gathers once it has left *)
(* the profile.                                                            *)
Closed ==
    /\ ~gap => UpTo(stored, seen)
    /\ Decided /\ ~gap /\ ~run.hurt /\ ~Far => UpTo(Merged, run.top)

(* Nothing is kept of a game without a map. *)
Mapped == \A g \in stored \cup run.got : history[g] # OffMap

(* The answers. *)
Answers ==
    /\ analysis.top \in 0..Len(history)
    /\ BlameIsTrue
    /\ WindowIsNewest

SeenInv ==
    /\ Span /\ Phases /\ Hurts /\ Profiled /\ Scanned
    /\ Counted /\ Done /\ Closed /\ Mapped /\ Answers

(* A step of a run that answers nothing. *)
LEMMA AnswersKept ==
    ASSUME Answers, UNCHANGED <<history, analysis, told, gap>>
    PROVE  Answers'
BY DEF Answers, BlameIsTrue, WindowIsNewest, role_games, match_ids, Newest

LEMMA ViewFacts ==
    ASSUME View(run') = View(run)
    PROVE  /\ run'.step = run.step /\ run'.todo = run.todo /\ run'.top = run.top
           /\ run'.base = run.base /\ run'.got = run.got /\ run'.role = run.role
           /\ run'.reason = run.reason /\ run'.needed = run.needed
           /\ run'.failed = run.failed /\ run'.deepFailed = run.deepFailed
           /\ run'.late = run.late /\ run'.hurt = run.hurt
           /\ Listed' = Listed /\ Decided' = Decided /\ Merged' = Merged
BY DEF View, Listed, Decided, Merged

(* A call that goes on, or a game of another role that is put aside. *)
LEMMA QuietSeen ==
    ASSUME SeenInv, View(run') = View(run), Asked' \subseteq Asked,
           \A g \in Asked \ Asked' : run.step = "deep" /\ history[g] # run.role,
           UNCHANGED <<history, stored, analysis, told, seen, gap>>
    PROVE  SeenInv'
<1>1. /\ run'.step = run.step /\ run'.todo = run.todo /\ run'.top = run.top
      /\ run'.base = run.base /\ run'.got = run.got /\ run'.role = run.role
      /\ run'.reason = run.reason /\ run'.needed = run.needed
      /\ run'.failed = run.failed /\ run'.deepFailed = run.deepFailed
      /\ run'.late = run.late /\ run'.hurt = run.hurt
      /\ Listed' = Listed /\ Decided' = Decided /\ Merged' = Merged
  BY ViewFacts
<1>2. Answers'
  BY AnswersKept DEF SeenInv
<1>3. Span'
  BY <1>1 DEF SeenInv, Span
<1>4. Phases'
  BY <1>1 DEF SeenInv, Phases, profile_ids, match_ids, Newest
<1>5. Hurts'
  BY <1>1 DEF SeenInv, Hurts
<1>6. Profiled'
  BY <1>1 DEF SeenInv, Profiled, profile_ids, Newest
<1>7. Scanned'
  BY <1>1 DEF SeenInv, Scanned, match_ids, Newest
<1>8. Counted'
  BY <1>1 DEF SeenInv, Counted, role_games
<1>9. Done'
  BY <1>1 DEF SeenInv, Done, match_ids, Newest
<1>10. Closed' /\ Mapped'
  BY <1>1 DEF SeenInv, Closed, UpTo, Far, Mapped
<1>11. QED
  BY <1>2, <1>3, <1>4, <1>5, <1>6, <1>7, <1>8, <1>9, <1>10 DEF SeenInv

(* A run is asked for, or looks the player up. *)
LEMMA LookupSeen ==
    ASSUME IInv, SeenInv,
           Requested \/ AccountFound \/ \E covered \in BOOLEAN : LeagueRead(covered)
    PROVE  SeenInv'
<1>1. UNCHANGED <<history, stored, analysis, told, seen, gap>>
  BY DEF Requested, AccountFound, LeagueRead, Goes, keys, past
<1>2. /\ run'.step = "lookup" /\ Asked' = {}
      /\ \/ /\ run.step = "idle" /\ run'.todo = {} /\ run'.got = {} /\ run'.hurt = FALSE
            /\ run'.failed = 0 /\ run'.deepFailed = 0 /\ run'.base = {}
         \/ run.step = "lookup" /\ View(run') = View(run)
  BY LookupShape
<1>3. CASE run.step = "lookup" /\ View(run') = View(run)
  <2>1. Asked = {}
    BY <1>3 DEF Asked, IInv, Calls
  <2>2. QED
    BY <1>1, <1>2, <1>3, <2>1, QuietSeen
<1>4. CASE /\ run.step = "idle" /\ run'.todo = {} /\ run'.got = {} /\ run'.hurt = FALSE
           /\ run'.failed = 0 /\ run'.deepFailed = 0 /\ run'.base = {}
  <2>1. ~Listed' /\ ~Decided'
    BY <1>2 DEF Listed, Decided
  <2>2. Answers'
    BY <1>1, AnswersKept DEF SeenInv
  <2>3. Span' /\ Phases' /\ Hurts' /\ Profiled' /\ Scanned' /\ Counted' /\ Done'
    BY <1>1, <1>2, <1>4, <2>1
       DEF SeenInv, Span, Phases, Hurts, Profiled, Scanned, Counted, Done
  <2>4. Closed' /\ Mapped'
    BY <1>1, <1>4, <2>1 DEF SeenInv, Closed, UpTo, Mapped
  <2>5. QED
    BY <2>2, <2>3, <2>4 DEF SeenInv
<1>5. QED
  BY <1>2, <1>3, <1>4

(* The list is there: the profile has all of its games before it. *)
LEMMA IdsListedSeen ==
    ASSUME IInv, SeenInv, IdsListed
    PROVE  SeenInv'
<1>1. UNCHANGED <<history, stored, analysis, told, seen, gap>>
  BY DEF IdsListed, Goes, keys, past
<1>2. /\ run.step = "lookup" /\ run'.step = "profile" /\ run'.top = Len(history)
      /\ Len(history) \in Nat \ {0}
      /\ run'.base = stored /\ run'.todo = profile_ids(Len(history)) \ stored
      /\ run'.got = run.got /\ run'.hurt = run.hurt
      /\ run'.failed = run.failed /\ run'.deepFailed = run.deepFailed
      /\ Asked' = {}
  BY IdsListedShape
<1>3. Listed' /\ ~Decided' /\ ~Listed
  BY <1>2 DEF Listed, Decided
<1>4. run'.got = {} /\ run'.hurt = FALSE /\ run'.deepFailed = 0
  BY <1>2, <1>3, Typed DEF SeenInv, Span, Hurts
<1>5. profile_ids(Len(history))' = profile_ids(Len(history))
      /\ profile_ids(run.top)' = profile_ids(Len(history))
  BY <1>1, <1>2 DEF profile_ids, Newest
<1>6. Answers'
  BY <1>1, AnswersKept DEF SeenInv
<1>7. Span'
  BY <1>1, <1>2, <1>3, <1>4 DEF SeenInv, Span
<1>8. Phases'
  BY <1>2, <1>4, <1>5 DEF Phases
<1>9. Hurts'
  BY <1>2, <1>3, <1>4 DEF Hurts
<1>10. Profiled'
  BY <1>1, <1>2, <1>5 DEF Profiled, Merged
<1>11. Scanned' /\ Counted' /\ Done'
  BY <1>2, <1>3 DEF Scanned, Counted, Done
<1>12. Closed' /\ Mapped'
  BY <1>1, <1>3, <1>4 DEF SeenInv, Closed, UpTo, Mapped
<1>13. QED
  BY <1>6, <1>7, <1>8, <1>9, <1>10, <1>11, <1>12 DEF SeenInv

(* A phase takes its next game. *)
LEMMA TakesSeen ==
    ASSUME IInv, SeenInv, ProfileTakes \/ DeepTakes
    PROVE  SeenInv'
<1> DEFINE g == MaxOf(run.todo)
<1>1. UNCHANGED <<history, stored, analysis, told, seen, gap>>
  BY DEF ProfileTakes, DeepTakes, Goes, keys, past
<1>2. /\ run'.step = run.step /\ run'.todo = run.todo \ {g} /\ run'.top = run.top
      /\ run'.base = run.base /\ run'.got = run.got /\ run'.role = run.role
      /\ run'.reason = run.reason /\ run'.failed = run.failed
      /\ run'.deepFailed = run.deepFailed /\ run'.late = run.late
      /\ run'.hurt = run.hurt /\ run'.needed = run.needed
      /\ Asked' = {g} /\ Asked = {} /\ run.step \in {"profile", "deep"}
      /\ g \in run.todo /\ \A h \in run.todo : h <= g
  BY TakesShape
<1> HIDE DEF g
<1>3. Listed' = Listed /\ Decided' = Decided /\ Merged' = Merged
      /\ run'.todo \cup Asked' = run.todo \cup Asked
  BY <1>2 DEF Listed, Decided, Merged
<1>4. Answers'
  BY <1>1, AnswersKept DEF SeenInv
<1>5. Span'
  BY <1>1, <1>2, <1>3 DEF SeenInv, Span
<1>6. Phases'
  <2>1. \A h \in run.todo \ {g} : h < g
    BY <1>2, Typed
  <2>2. QED
    BY <1>1, <1>2, <1>3, <2>1 DEF SeenInv, Phases, profile_ids, match_ids, Newest
<1>7. Hurts'
  BY <1>2, <1>3 DEF SeenInv, Hurts
<1>8. Profiled'
  BY <1>1, <1>2, <1>3 DEF SeenInv, Profiled, profile_ids, Newest
<1>9. Scanned'
  BY <1>1, <1>2, <1>3 DEF SeenInv, Scanned, match_ids, Newest
<1>10. Counted'
  BY <1>1, <1>2, <1>3 DEF SeenInv, Counted, role_games
<1>11. Done'
  BY <1>2 DEF Done
<1>12. Closed' /\ Mapped'
  BY <1>1, <1>2, <1>3 DEF SeenInv, Closed, UpTo, Far, Mapped
<1>13. QED
  BY <1>4, <1>5, <1>6, <1>7, <1>8, <1>9, <1>10, <1>11, <1>12 DEF SeenInv

(* A call that Riot fails is counted: nothing is claimed any more. *)
LEMMA FetchFailsSeen ==
    ASSUME IInv, SeenInv, NEW d \in 0..SLOW, FetchFails(d)
    PROVE  SeenInv'
<1>1. UNCHANGED <<history, stored, analysis, told, seen, gap>>
  BY DEF FetchFails, Goes, keys, past
<1>2. /\ run'.step = run.step /\ run'.todo = run.todo /\ run'.top = run.top
      /\ run'.base = run.base /\ run'.got = run.got /\ run'.role = run.role
      /\ run'.reason = run.reason /\ run'.needed = run.needed /\ run'.late = run.late
      /\ run'.hurt /\ Asked' = {}
      /\ IF run.step = "deep"
         THEN run'.deepFailed = run.deepFailed + 1 /\ run'.failed = run.failed
         ELSE run'.failed = run.failed + 1 /\ run'.deepFailed = run.deepFailed
  BY FetchFailsShape
<1>3. Listed' = Listed /\ Decided' = Decided /\ Merged' = Merged
      /\ run.step \in {"profile", "deep"} /\ Listed
  BY <1>2 DEF Listed, Decided, Merged, FetchFails, IInv, Calls
<1>4. Answers'
  BY <1>1, AnswersKept DEF SeenInv
<1>5. Span'
  BY <1>1, <1>2, <1>3 DEF SeenInv, Span
<1>6. Phases'
  BY <1>1, <1>2, <1>3 DEF SeenInv, Phases, profile_ids, match_ids, Newest
<1>7. Hurts'
  <2>1. run.failed \in Nat /\ run.deepFailed \in Nat
    BY Typed
  <2>2. QED
    BY <1>2, <1>3, <2>1 DEF SeenInv, Hurts
<1>8. Profiled' /\ Scanned' /\ Done'
  BY <1>2, <1>3 DEF Profiled, Scanned, Done
<1>9. Counted'
  BY <1>1, <1>2, <1>3 DEF SeenInv, Counted, role_games
<1>10. Closed' /\ Mapped'
  BY <1>1, <1>2, <1>3 DEF SeenInv, Closed, UpTo, Mapped
<1>11. QED
  BY <1>4, <1>5, <1>6, <1>7, <1>8, <1>9, <1>10 DEF SeenInv

(* A game known for another role is passed over. *)
LEMMA DeepSkipsSeen ==
    ASSUME IInv, SeenInv, DeepSkips
    PROVE  SeenInv'
<1> DEFINE g == MaxOf(run.todo)
<1>1. UNCHANGED <<history, stored, analysis, told, seen, gap>>
  BY DEF DeepSkips, Goes, keys, past
<1>2. /\ run'.step = run.step /\ run'.todo = run.todo \ {g} /\ run'.top = run.top
      /\ run'.base = run.base /\ run'.got = run.got /\ run'.role = run.role
      /\ run'.reason = run.reason /\ run'.failed = run.failed
      /\ run'.deepFailed = run.deepFailed /\ run'.late = run.late
      /\ run'.hurt = run.hurt /\ run'.needed = run.needed
      /\ Asked' = {} /\ Asked = {} /\ run.step = "deep" /\ KnownOther(g)
  BY DeepSkipsShape
<1>3. history[g] # run.role
  <2>1. run.role \in MainRole /\ run.role # NoRole
    BY Typed, <1>2 DEF DeepSkips, Enough, IInv, Calls
  <2>2. run.index[g] = normalize_role(history[g]) /\ run.index[g] # run.role
    BY <1>2 DEF KnownOther, IInv, Truth
  <2>3. QED
    BY <2>1, <2>2, RoleNames
<1> HIDE DEF g
<1>4. Listed' = Listed /\ Decided' = Decided /\ Merged' = Merged /\ run.step # "profile"
  BY <1>2 DEF Listed, Decided, Merged
<1>5. Answers'
  BY <1>1, AnswersKept DEF SeenInv
<1>6. Span'
  BY <1>1, <1>2, <1>4 DEF SeenInv, Span
<1>7. Phases'
  BY <1>1, <1>2, <1>4 DEF SeenInv, Phases, match_ids, Newest
<1>8. Hurts'
  BY <1>2, <1>4 DEF SeenInv, Hurts
<1>9. Profiled'
  BY <1>1, <1>2, <1>4 DEF SeenInv, Profiled, profile_ids, Newest
<1>10. Scanned'
  BY <1>1, <1>2, <1>3, <1>4 DEF SeenInv, Scanned, match_ids, Newest
<1>11. Counted'
  BY <1>1, <1>2, <1>4 DEF SeenInv, Counted, role_games
<1>12. Done'
  BY <1>2 DEF Done
<1>13. Closed' /\ Mapped'
  BY <1>1, <1>2, <1>4 DEF SeenInv, Closed, UpTo, Far, Mapped
<1>14. QED
  BY <1>5, <1>6, <1>7, <1>8, <1>9, <1>10, <1>11, <1>12, <1>13 DEF SeenInv

(* The deep phase ends: nothing is left of the role, or it says why. *)
LEMMA DeepEndsSeen ==
    ASSUME IInv, SeenInv, DeepEnds
    PROVE  SeenInv'
<1>1. UNCHANGED <<history, stored, analysis, told, seen, gap>>
  BY DEF DeepEnds, Goes, keys, past
<1>2. /\ run.step = "deep" /\ run'.step = "collected" /\ run'.todo = {}
      /\ run'.top = run.top /\ run'.base = run.base /\ run'.got = run.got
      /\ run'.role = run.role /\ run'.reason = run.reason /\ run'.needed = run.needed
      /\ run'.failed = run.failed /\ run'.deepFailed = run.deepFailed
      /\ run'.hurt = run.hurt /\ run'.late = (~Enough /\ TooLate)
      /\ Asked = {} /\ Asked' = {}
      /\ Enough \/ TooLate \/ TooManyFailures
  BY DeepEndsShape
<1>3. Listed' = Listed /\ Decided' = Decided /\ Merged' = Merged
      /\ Listed /\ run.step # "profile"
  BY <1>2 DEF Listed, Decided, Merged
<1>4. Answers'
  BY <1>1, AnswersKept DEF SeenInv
<1>5. Span'
  BY <1>1, <1>2, <1>3 DEF SeenInv, Span
<1>6. Phases'
  BY <1>2 DEF Phases
<1>7. Hurts'
  BY <1>2, <1>3 DEF SeenInv, Hurts
<1>8. Profiled'
  BY <1>1, <1>2, <1>3 DEF SeenInv, Profiled, profile_ids, Newest
<1>9. Scanned'
  BY <1>2 DEF Scanned
<1>10. Counted'
  BY <1>1, <1>2, <1>3 DEF SeenInv, Counted, role_games
<1>11. Done'
  <2> SUFFICES ASSUME ~run'.late, run.failed + run.deepFailed = 0, run.needed # 0
               PROVE  \A h \in match_ids(run.top) : history[h] = run.role => h \in Merged
    BY <1>1, <1>2, <1>3 DEF Done, match_ids, Newest
  <2>1. run.needed >= 1 /\ run.deepFailed = 0 /\ MAX_FETCH_FAILURES \in Nat
    BY Typed, RiotAssumption
  <2>2. Enough
    <3>1. ~TooManyFailures
      BY <2>1 DEF TooManyFailures
    <3>2. ~(~Enough /\ TooLate) /\ (Enough \/ TooLate \/ TooManyFailures)
      BY <1>2
    <3>3. QED
      BY <3>1, <3>2
  <2>3. run.todo = {}
    BY <2>1, <2>2 DEF Enough
  <2>4. ~run.hurt
    BY <2>1 DEF SeenInv, Hurts
  <2>5. QED
    BY <1>2, <2>1, <2>3, <2>4 DEF SeenInv, Scanned
<1>12. Closed' /\ Mapped'
  BY <1>1, <1>2, <1>3 DEF SeenInv, Closed, UpTo, Far, Mapped
<1>13. QED
  BY <1>4, <1>5, <1>6, <1>7, <1>8, <1>9, <1>10, <1>11, <1>12 DEF SeenInv

(* The index is put. *)
LEMMA PutsIndexSeen ==
    ASSUME IInv, SeenInv, PutsIndex
    PROVE  SeenInv'
<1>1. UNCHANGED <<history, stored, analysis, told, seen, gap>>
  BY DEF PutsIndex
<1>2. /\ run.step = "collected" /\ run'.step = "indexed" /\ run'.todo = run.todo
      /\ run'.top = run.top /\ run'.base = run.base /\ run'.got = run.got
      /\ run'.role = run.role /\ run'.reason = run.reason /\ run'.needed = run.needed
      /\ run'.failed = run.failed /\ run'.deepFailed = run.deepFailed
      /\ run'.hurt = run.hurt /\ run'.late = run.late /\ Asked' = Asked
  BY PutsIndexShape
<1>3. Listed' = Listed /\ Decided' = Decided /\ Merged' = Merged /\ Listed
  BY <1>2 DEF Listed, Decided, Merged
<1>4. Answers'
  BY <1>1, AnswersKept DEF SeenInv
<1>5. Span' /\ Phases' /\ Hurts' /\ Scanned'
  BY <1>1, <1>2, <1>3 DEF SeenInv, Span, Phases, Hurts, Scanned
<1>6. Profiled'
  BY <1>1, <1>2, <1>3 DEF SeenInv, Profiled, profile_ids, Newest
<1>7. Counted'
  BY <1>1, <1>2, <1>3 DEF SeenInv, Counted, role_games
<1>8. Done'
  BY <1>1, <1>2, <1>3 DEF SeenInv, Done, match_ids, Newest
<1>9. Closed' /\ Mapped'
  BY <1>1, <1>2, <1>3 DEF SeenInv, Closed, UpTo, Far, Mapped
<1>10. QED
  BY <1>4, <1>5, <1>6, <1>7, <1>8, <1>9 DEF SeenInv

(* A game is there with its timeline.  In the deep phase it is the newest  *)
(* of its role that the window misses.                                     *)
LEMMA TimelineFoundSeen ==
    ASSUME IInv, SeenInv, NEW d \in 0..SLOW, TimelineFound(d)
    PROVE  SeenInv'
<1> DEFINE g == run.game
           kept == {g} \ {h \in {g} : history[h] = OffMap}
<1>1. UNCHANGED <<history, stored, analysis, told, seen, gap>>
  BY DEF TimelineFound, Goes, keys, past
<1>2. /\ run'.step = run.step /\ run'.todo = run.todo /\ run'.top = run.top
      /\ run'.base = run.base /\ run'.got = run.got \cup kept /\ run'.role = run.role
      /\ run'.reason = run.reason /\ run'.failed = run.failed
      /\ run'.deepFailed = run.deepFailed /\ run'.late = run.late
      /\ run'.hurt = run.hurt /\ Asked' = {}
      /\ run'.needed = IF run.step = "deep" THEN run.needed - Cardinality(kept)
                                            ELSE run.needed
  BY TimelineFoundShape
<1>3. /\ run.step \in {"profile", "deep"} /\ Asked = {g} /\ g \in Games
      /\ run.step = "deep" => /\ run.role # NoRole /\ run.needed >= 1
                              /\ history[g] = riot_role(run.role)
  BY DEF TimelineFound, Calling, IInv, Calls, Asked
<1>4. run.step = "deep" => /\ history[g] = run.role /\ kept = {g} /\ Cardinality(kept) = 1
                           /\ g \notin Merged /\ run'.needed = run.needed - 1
  <2> SUFFICES ASSUME run.step = "deep"
               PROVE  /\ history[g] = run.role /\ kept = {g} /\ Cardinality(kept) = 1
                      /\ g \notin Merged /\ run'.needed = run.needed - 1
    OBVIOUS
  <2>1. history[g] = run.role /\ run.role # OffMap
    BY <1>3, Typed, RoleNames DEF Unobserved
  <2>2. kept = {g}
    BY <2>1
  <2>3. Cardinality(kept) = 1
    BY <2>2, FS_Singleton
  <2>4. g \notin Merged
    BY <1>3 DEF SeenInv, Phases
  <2>5. QED
    BY <1>2, <2>1, <2>2, <2>3, <2>4
<1>5. kept \subseteq {g} /\ (history[g] # OffMap => kept = {g})
      /\ \A h \in kept : history[h] # OffMap
  OBVIOUS
<1> HIDE DEF kept, g
<1>6. Listed' = Listed /\ Decided' = Decided /\ Merged' = Merged \cup kept /\ Listed
  BY <1>2, <1>3 DEF Listed, Decided, Merged
<1>7. run.top \in 1..Len(history) /\ Len(history) \in Nat
      /\ profile_ids(run.top) = {h \in 1..run.top : run.top - h < PROFILE_GAMES}
      /\ match_ids(run.top) = {h \in 1..run.top : run.top - h < MAX_HISTORY_SCANNED}
  BY <1>6, Typed, IdsAre DEF SeenInv, Span
<1>8. /\ profile_ids(run.top)' = profile_ids(run.top)
      /\ match_ids(run.top)' = match_ids(run.top)
  BY <1>1, <1>2 DEF profile_ids, match_ids, Newest
<1>9. Answers'
  BY <1>1, AnswersKept DEF SeenInv
<1>10. /\ run.step = "profile" => g \in profile_ids(run.top)
       /\ run.step = "deep" => g \in match_ids(run.top)
  BY <1>3 DEF SeenInv, Phases
<1>11. Span'
  <2>1. kept \subseteq 1..run.top
    BY <1>3, <1>5, <1>7, <1>10
  <2>2. QED
    BY <1>1, <1>2, <1>6, <2>1 DEF SeenInv, Span
<1>12. Phases'
  <2>1. run.step = "profile" =>
          run.todo \cup Asked' \cup run'.got \subseteq profile_ids(run.top)
    BY <1>2, <1>5, <1>10 DEF SeenInv, Phases
  <2>2. run.step = "deep" => g \notin run.todo
    <3>1. run.step = "deep" => \A h \in run.todo : h < g
      BY <1>3 DEF SeenInv, Phases
    <3>2. g \in Nat
      BY <1>3, <1>7, Typed
    <3>3. QED
      BY <3>1, <3>2
  <2>3. run.step = "deep" =>
          /\ run.todo \subseteq match_ids(run.top)
          /\ run.todo \cap (Merged \cup kept) = {}
    BY <1>5, <2>2 DEF SeenInv, Phases
  <2>4. QED
    BY <1>2, <1>6, <1>8, <2>1, <2>3 DEF Phases
<1>13. Hurts'
  BY <1>2, <1>6 DEF SeenInv, Hurts
<1>14. Profiled'
  BY <1>1, <1>2, <1>3, <1>5, <1>6, <1>8 DEF SeenInv, Profiled
<1>15. Scanned'
  <2>1. run'.needed >= 1 /\ run.step = "deep" => run.needed >= 1
    BY <1>3
  <2>2. QED
    BY <1>1, <1>2, <1>3, <1>4, <1>6, <1>8, <2>1 DEF SeenInv, Scanned
<1>16. Counted'
  <2>1. CASE run.step = "profile"
    BY <1>2, <2>1 DEF Counted, Decided
  <2>2. CASE run.step = "deep"
    <3>1. Decided
      BY <2>2 DEF Decided
    <3>2. run.needed \in Nat /\ run.role \in MainRole /\ run.role # NoRole /\ run.needed >= 1
      BY <1>3, <2>2, Typed
    <3>3. run.reason = "none" /\ run'.reason = "none"
      BY <1>2, <3>1, <3>2 DEF SeenInv, Counted
    <3>4. role_games(Merged', run.role) = role_games(Merged, run.role) \cup {g}
          /\ g \notin role_games(Merged, run.role)
      BY <1>4, <1>6, <2>2, <3>2, RoleGamesAre
    <3>5. IsFiniteSet(role_games(Merged, run.role))
      <4>1. role_games(Merged, run.role) \subseteq 1..Len(history)
        BY Typed DEF role_games, Merged
      <4>2. IsFiniteSet(1..Len(history))
        BY <1>7, FS_Interval
      <4>3. QED
        BY <4>1, <4>2, FS_Subset
    <3>6. /\ Cardinality(role_games(Merged', run.role)) =
                 Cardinality(role_games(Merged, run.role)) + 1
          /\ Cardinality(role_games(Merged, run.role)) \in Nat
      BY <3>4, <3>5, FS_AddElement, FS_CardinalityType
    <3>7. role_games(Merged, run.role)' = role_games(Merged', run.role)
      BY <1>1, <1>2 DEF role_games
    <3>8. run.needed + Cardinality(role_games(Merged, run.role)) >= TARGET_ROLE_GAMES
      BY <3>1, <3>3 DEF SeenInv, Counted
    <3>9. run'.needed + Cardinality(role_games(Merged', run.role)) >= TARGET_ROLE_GAMES
      BY <1>4, <2>2, <3>2, <3>6, <3>8, RiotAssumption
    <3>10. QED
      BY <1>2, <3>2, <3>3, <3>7, <3>9 DEF Counted
  <2>3. QED
    BY <1>3, <2>1, <2>2
<1>17. Done'
  BY <1>2, <1>3 DEF Done
<1>18. Closed'
  <2> SUFFICES ASSUME Decided, ~gap, ~run.hurt, ~Far
               PROVE  UpTo(Merged', run.top)
    BY <1>1, <1>2, <1>6 DEF SeenInv, Closed, UpTo, Far
  <2>1. run.step = "deep" /\ UpTo(Merged, run.top)
    BY <1>3 DEF Decided, SeenInv, Closed
  <2>2. \A h \in match_ids(run.top) : history[h] = run.role => h \in Merged \cup run.todo \cup {g}
    BY <1>3, <2>1 DEF SeenInv, Scanned
  <2>3. \A h \in run.todo : h < g
    BY <1>3, <2>1 DEF SeenInv, Phases
  <2>4. ASSUME NEW h \in (g + 1)..run.top, history[h] = history[g]
        PROVE  h \in Merged
    <3>1. g \in 1..run.top /\ run.top - g < MAX_HISTORY_SCANNED /\ run.top \in Nat
      BY <1>7, <1>10, <2>1
    <3>2. h \in match_ids(run.top)
      BY <1>7, <3>1, RiotAssumption
    <3>3. h \notin run.todo /\ h # g
      BY <2>3, <3>1
    <3>4. QED
      BY <1>4, <2>1, <2>2, <2>4, <3>2, <3>3
  <2>5. Merged' = Merged \cup {g}
    BY <1>4, <1>6, <2>1
  <2>6. QED
    BY <2>1, <2>4, <2>5 DEF UpTo
<1>19. Mapped'
  BY <1>1, <1>2, <1>5 DEF SeenInv, Mapped
<1>20. QED
  BY <1>9, <1>11, <1>12, <1>13, <1>14, <1>15, <1>16, <1>17, <1>18, <1>19 DEF SeenInv

(* The profile is over: the role is decided, and what is stored joins what *)
(* is new without a hole.                                                  *)
LEMMA ProfileEndsSeen ==
    ASSUME IInv, SeenInv, NEW role \in ScopeRole \cup {NoRole}, ProfileEnds(role)
    PROVE  SeenInv'
<1> DEFINE missing == TARGET_ROLE_GAMES - Cardinality(role_games(Merged, role))
           looks == preflight(role) = "none" /\ missing > 0
<1>1. UNCHANGED <<history, stored, analysis, told, seen, gap>>
  BY DEF ProfileEnds, Goes, keys, past
<1>2. /\ run.step = "profile" /\ Asked = {} /\ run.todo = {}
      /\ run'.step = "deep" /\ Asked' = {}
      /\ run'.top = run.top /\ run'.base = run.base /\ run'.got = run.got
      /\ run'.failed = run.failed /\ run'.deepFailed = run.deepFailed
      /\ run'.hurt = run.hurt
      /\ run'.role = role /\ run'.reason = preflight(role)
      /\ run'.needed = IF looks THEN missing ELSE 0
      /\ run'.todo = IF looks THEN (match_ids(run.top) \ profile_ids(run.top)) \ run.base
                     ELSE {}
      /\ role \in MainRole
  BY ProfileEndsShape
<1>3. Listed' /\ Listed /\ Decided' /\ Merged' = Merged
  BY <1>2 DEF Listed, Decided, Merged
<1>4. /\ preflight(role) = "none" => role # NoRole
      /\ preflight(role) = "window_too_short" => role = NoRole
  BY DEF preflight
<1>5. missing \in Int /\ Cardinality(role_games(Merged, role)) \in Nat
  <2>1. role_games(Merged, role) \subseteq 1..Len(history) /\ Len(history) \in Nat
    BY Typed DEF role_games, Merged
  <2>2. IsFiniteSet(1..Len(history))
    BY <2>1, FS_Interval
  <2>3. Cardinality(role_games(Merged, role)) \in Nat
    BY <2>1, <2>2, FS_Subset, FS_CardinalityType
  <2>4. QED
    BY <2>3, RiotAssumption
<1>6. run.top \in 1..Len(history) /\ Len(history) \in Nat
      /\ profile_ids(run.top) = {h \in 1..run.top : run.top - h < PROFILE_GAMES}
      /\ profile_ids(run.top) \subseteq match_ids(run.top)
      /\ run.base = stored /\ seen <= run.top /\ seen \in 0..Len(history)
      /\ stored \subseteq 1..seen
      /\ run.got \subseteq profile_ids(run.top)
  BY <1>2, <1>3, Typed, IdsAre DEF SeenInv, Span, Phases
<1>7. /\ profile_ids(run.top)' = profile_ids(run.top)
      /\ match_ids(run.top)' = match_ids(run.top)
  BY <1>1, <1>2 DEF profile_ids, match_ids, Newest
<1>8. ~run.hurt => \A h \in profile_ids(run.top) : history[h] = OffMap \/ h \in Merged
  BY <1>2, <1>3 DEF SeenInv, Profiled
<1>9. Answers'
  BY <1>1, AnswersKept DEF SeenInv
<1>10. Span'
  BY <1>1, <1>2, <1>3 DEF SeenInv, Span
<1>11. Phases'
  BY <1>2, <1>3, <1>6, <1>7 DEF Phases, Merged
<1>12. Hurts'
  BY <1>2, <1>3 DEF SeenInv, Hurts
<1>13. Profiled'
  BY <1>1, <1>2, <1>3, <1>7, <1>8 DEF Profiled
<1>14. Scanned'
  <2> SUFFICES ASSUME looks, ~run.hurt, NEW h \in match_ids(run.top), history[h] = role
               PROVE  h \in Merged \cup run'.todo
    BY <1>1, <1>2, <1>3, <1>7 DEF Scanned
  <2>1. role # OffMap
    BY <1>2, <1>4, RoleNames DEF Unobserved
  <2>2. CASE h \in profile_ids(run.top)
    BY <1>8, <2>1, <2>2
  <2>3. CASE h \notin profile_ids(run.top)
    BY <1>2, <2>3 DEF Merged
  <2>4. QED
    BY <2>2, <2>3
<1>15. Counted'
  <2>1. role_games(Merged, run.role)' = role_games(Merged, role)
    BY <1>1, <1>2, <1>3 DEF role_games
  <2>2. preflight(role) # "none" => run'.needed = 0
    BY <1>2
  <2>3. run'.needed + Cardinality(role_games(Merged, role)) >= TARGET_ROLE_GAMES
        \/ preflight(role) # "none"
    <3>1. CASE looks
      <4>1. run'.needed = missing
        BY <1>2, <3>1
      <4>2. QED
        BY <1>5, <4>1, RiotAssumption
    <3>2. CASE ~looks
      <4>1. run'.needed = 0
        BY <1>2, <3>2
      <4>2. QED
        BY <1>5, <3>2, <4>1, RiotAssumption
    <3>3. QED
      BY <3>1, <3>2
  <2>4. QED
    BY <1>2, <1>4, <2>1, <2>2, <2>3 DEF Counted
<1>16. Done'
  BY <1>2 DEF Done
<1>17. Closed'
  <2> SUFFICES ASSUME ~gap, ~run.hurt, ~Far,
                      NEW g \in Merged, NEW h \in (g + 1)..run.top, history[h] = history[g]
               PROVE  h \in Merged
    BY <1>1, <1>2, <1>3 DEF SeenInv, Closed, UpTo, Far
  <2>1. g \in Nat \ {0} /\ run.top \in Nat /\ h \in 1..run.top /\ h > g
    <3>1. g \in 1..Len(history)
      BY Typed DEF Merged
    <3>2. g \in Nat \ {0} /\ run.top \in Nat
      BY <1>6, <3>1
    <3>3. QED
      BY <3>2
  <2>2. history[h] # OffMap
    BY <1>6 DEF Merged, SeenInv, Mapped
  <2>3. h \in profile_ids(run.top) => h \in Merged
    BY <1>8, <2>2
  <2>4. CASE g \in run.got
    <3>1. run.top - g < PROFILE_GAMES
      BY <1>6, <2>4
    <3>2. run.top - h < PROFILE_GAMES
      BY <2>1, <3>1, RiotAssumption
    <3>3. QED
      BY <1>6, <2>1, <2>3, <3>2
  <2>5. CASE g \in stored
    <3>1. g <= seen /\ seen \in Nat
      BY <1>6, <2>5
    <3>2. run.top - seen <= PROFILE_GAMES
      BY <1>6, <2>1, <3>1, RiotAssumption DEF Far
    <3>3. CASE h <= seen
      <4>1. UpTo(stored, seen) /\ h \in (g + 1)..seen
        BY <2>1, <3>1, <3>3 DEF SeenInv, Closed
      <4>2. h \in stored
        BY <2>5, <4>1 DEF UpTo
      <4>3. QED
        BY <1>6, <4>2 DEF Merged
    <3>4. CASE ~(h <= seen)
      <4>1. run.top - h < PROFILE_GAMES
        BY <2>1, <3>1, <3>2, <3>4, RiotAssumption
      <4>2. QED
        BY <1>6, <2>1, <2>3, <4>1
    <3>5. QED
      BY <3>3, <3>4
  <2>6. QED
    BY <1>6, <2>4, <2>5 DEF Merged
<1>18. Mapped'
  BY <1>1, <1>2 DEF SeenInv, Mapped
<1>19. QED
  BY <1>9, <1>10, <1>11, <1>12, <1>13, <1>14, <1>15, <1>16, <1>17, <1>18 DEF SeenInv

(* The answer of a run that publishes: a window that is too short is too   *)
(* short in Riot's own history, and a full one is the newest.              *)
LEMMA PublishesSeen ==
    ASSUME IInv, SeenInv, NEW scores \in BOOLEAN, Publishes(scores)
    PROVE  SeenInv'
<1> DEFINE reason == _role_analysis(scores)
           games == role_games(Merged, run.role)
           late == seen > 0 /\ run.top - seen > PROFILE_GAMES
<1>1. /\ run.step = "indexed" /\ run' = NoRun /\ UNCHANGED history /\ stored' = Merged
      /\ seen' = run.top /\ told'.code = "ok"
      /\ gap' = (gap \/ run.hurt \/ late)
      /\ analysis'.reason = reason /\ analysis'.role = run.role /\ analysis'.top = run.top
      /\ reason = "available" =>
             analysis'.window = Newest(games, TARGET_ROLE_GAMES)
  BY DEF Publishes
<1>2. Listed /\ Decided /\ ~Listed' /\ ~Decided' /\ Asked' = {}
      /\ run'.hurt = FALSE /\ run'.failed = 0 /\ run'.deepFailed = 0 /\ run'.got = {}
      /\ run'.step = "idle"
  BY <1>1 DEF Listed, Decided, NoRun, Asked
<1>3. run.top \in 1..Len(history) /\ Len(history) \in Nat /\ Merged \subseteq 1..run.top
      /\ run.top \in Nat
  <2>1. run.top \in 1..Len(history) /\ Len(history) \in Nat /\ run.base = stored
        /\ stored \subseteq 1..seen /\ seen <= run.top /\ run.got \subseteq 1..run.top
        /\ seen \in 0..Len(history)
    BY <1>2, Typed DEF SeenInv, Span
  <2>2. QED
    BY <2>1 DEF Merged
<1>4. games \subseteq 1..run.top /\ IsFiniteSet(games) /\ Cardinality(games) \in Nat
  <2>1. games \subseteq 1..run.top
    BY <1>3 DEF role_games
  <2>2. IsFiniteSet(1..run.top)
    BY <1>3, FS_Interval
  <2>3. IsFiniteSet(games)
    BY <2>1, <2>2, FS_Subset
  <2>4. QED
    BY <2>1, <2>3, FS_CardinalityType
<1>5. /\ \A r : r # "none" => (run.reason = r => reason = r)
      /\ run.reason # "none" => reason = run.reason
      /\ reason \in {"window_too_short", "available"} /\ run.reason = "none" =>
             /\ reason = "available" => Cardinality(games) >= TARGET_ROLE_GAMES
             /\ reason = "window_too_short" =>
                    /\ Cardinality(games) < TARGET_ROLE_GAMES
                    /\ ~run.late /\ ~(run.failed + run.deepFailed > 0)
  BY <1>4, RiotAssumption DEF _role_analysis
<1>6. reason = "available" => run.reason = "none"
  BY <1>5, Typed DEF Reason
<1>7. run.reason = "none" => run.role \in MainRole /\ run.role # NoRole
  BY <1>2, Typed DEF SeenInv, Counted
<1> HIDE DEF reason, games
<1>8. analysis'.reason = "window_too_short" /\ analysis'.role # NoRole =>
          Cardinality(role_games(match_ids(analysis'.top), analysis'.role))
              < TARGET_ROLE_GAMES
  <2> SUFFICES ASSUME reason = "window_too_short", run.role # NoRole
               PROVE  Cardinality(role_games(match_ids(run.top), run.role)) < TARGET_ROLE_GAMES
    BY <1>1
  <2>1. run.reason = "none"
    BY <1>2, <1>5 DEF SeenInv, Counted
  <2>2. /\ Cardinality(games) < TARGET_ROLE_GAMES
        /\ ~run.late /\ run.failed + run.deepFailed = 0
    BY <1>5, <2>1, Typed
  <2>3. run.needed # 0
    <3>1. run.needed + Cardinality(games) >= TARGET_ROLE_GAMES
      BY <1>2, <2>1 DEF SeenInv, Counted, games
    <3>2. QED
      BY <1>4, <2>2, <3>1, RiotAssumption
  <2>4. \A h \in match_ids(run.top) : history[h] = run.role => h \in Merged
    BY <1>1, <2>1, <2>2, <2>3 DEF SeenInv, Done
  <2>5. role_games(match_ids(run.top), run.role) \subseteq games
    BY <1>7, <2>1, <2>4, RoleGamesAre DEF games
  <2>6. Cardinality(role_games(match_ids(run.top), run.role)) <= Cardinality(games)
        /\ Cardinality(role_games(match_ids(run.top), run.role)) \in Nat
    BY <1>4, <2>5, FS_Subset, FS_CardinalityType
  <2>7. QED
    BY <1>4, <2>2, <2>6, RiotAssumption
<1>9. ~gap' => UpTo(Merged, run.top)
  BY <1>1, <1>2 DEF SeenInv, Closed, Far
<1>10. analysis'.reason = "available" /\ ~gap' =>
           analysis'.window = Newest(role_games(1..analysis'.top, analysis'.role),
                                     TARGET_ROLE_GAMES)
  <2> SUFFICES ASSUME reason = "available", ~gap'
               PROVE  Newest(games, TARGET_ROLE_GAMES)
                        = Newest(role_games(1..run.top, run.role), TARGET_ROLE_GAMES)
    BY <1>1
  <2> DEFINE all == role_games(1..run.top, run.role)
  <2>1. run.reason = "none" /\ run.role \in MainRole /\ run.role # NoRole
        /\ Cardinality(games) >= TARGET_ROLE_GAMES
    BY <1>5, <1>6, <1>7
  <2>2. /\ all = {g \in 1..run.top : history[g] = run.role}
        /\ games = {g \in Merged : history[g] = run.role}
    BY <2>1, RoleGamesAre DEF games
  <2>3. all \in SUBSET (1..run.top) /\ games \in SUBSET all
    BY <1>3, <2>2
  <2>4. ASSUME NEW g \in games, NEW h \in all, h > g
        PROVE  h \in games
    <3>1. g \in Merged /\ history[h] = history[g] /\ h \in (g + 1)..run.top
      BY <1>3, <2>2, <2>4
    <3>2. QED
      BY <1>9, <2>2, <3>1 DEF UpTo
  <2> HIDE DEF all
  <2>5. QED
    BY <1>3, <2>1, <2>3, <2>4, SameNewest, RiotAssumption DEF all
<1>11. Answers'
  <2>1. analysis'.top \in 0..Len(history)
    BY <1>1, <1>3
  <2>2. BlameIsTrue'
    BY <1>1, <1>8 DEF BlameIsTrue, role_games, match_ids, Newest
  <2>3. WindowIsNewest'
    BY <1>1, <1>10 DEF WindowIsNewest, role_games, Newest
  <2>4. QED
    BY <1>1, <2>1, <2>2, <2>3 DEF Answers
<1>12. Span'
  BY <1>1, <1>2, <1>3 DEF Span
<1>13. Phases' /\ Hurts' /\ Profiled' /\ Scanned' /\ Counted' /\ Done'
  BY <1>2 DEF Phases, Hurts, Profiled, Scanned, Counted, Done
<1>14. Closed'
  BY <1>1, <1>2, <1>9 DEF Closed, UpTo
<1>15. Mapped'
  BY <1>1, <1>2 DEF SeenInv, Mapped, Merged, Span
<1>16. QED
  BY <1>11, <1>12, <1>13, <1>14, <1>15 DEF SeenInv

(* A run that ends without publishing answers for Riot, never for the      *)
(* player, when Riot failed it.                                            *)
LEMMA EndsSeen ==
    ASSUME IInv, SeenInv,
           LookupRaises \/ AccountUnknown \/ NoIds \/ NothingCollected \/ Breaks
    PROVE  SeenInv'
<1>1. run' = NoRun /\ UNCHANGED <<history, stored, analysis, seen, gap>>
  BY DEF LookupRaises, AccountUnknown, NoIds, NothingCollected, Breaks, Ends, keys, past
<1>2. ~Listed' /\ ~Decided' /\ Asked' = {}
      /\ run'.hurt = FALSE /\ run'.failed = 0 /\ run'.deepFailed = 0 /\ run'.got = {}
      /\ run'.step = "idle"
  BY <1>1 DEF Listed, Decided, NoRun, Asked
<1>3. told'.code \in {"riot_id_not_found", "no_ranked_games"} => ~told'.hurt
  <2>1. CASE LookupRaises \/ Breaks
    BY <2>1 DEF LookupRaises, Breaks, Ends
  <2>2. CASE AccountUnknown \/ NoIds
    <3>1. run.step = "lookup"
      BY <2>2 DEF AccountUnknown, NoIds, Calling, IInv, Calls
    <3>2. ~run.hurt
      BY <3>1 DEF SeenInv, Hurts, Listed
    <3>3. QED
      BY <2>2, <3>2 DEF AccountUnknown, NoIds, Ends
  <2>3. CASE NothingCollected
    <3>1. run.step = "profile"
          /\ told' = [code |-> IF run.failed > 0 THEN "riot_unavailable"
                                                 ELSE "no_ranked_games",
                      hurt |-> run.hurt]
      BY <2>3 DEF NothingCollected, Ends
    <3>2. run.hurt => run.failed > 0
      BY <3>1, Typed DEF SeenInv, Hurts
    <3>3. QED
      BY <3>1, <3>2
  <2>4. QED
    BY <2>1, <2>2, <2>3
<1>4. Answers'
  BY <1>1, <1>3
     DEF SeenInv, Answers, BlameIsTrue, WindowIsNewest, role_games, match_ids, Newest
<1>5. Span'
  BY <1>1, <1>2 DEF SeenInv, Span
<1>6. Phases' /\ Hurts' /\ Profiled' /\ Scanned' /\ Counted' /\ Done'
  BY <1>2 DEF Phases, Hurts, Profiled, Scanned, Counted, Done
<1>7. Closed' /\ Mapped'
  BY <1>1, <1>2 DEF SeenInv, Closed, UpTo, Mapped
<1>8. QED
  BY <1>4, <1>5, <1>6, <1>7 DEF SeenInv

(* Another game: what is said of those before it stays true. *)
LEMMA PlaysSeen ==
    ASSUME IInv, SeenInv, NEW p \in Position, Plays(p)
    PROVE  SeenInv'
<1>1. UNCHANGED <<stored, analysis, run, told, seen, gap>>
  BY DEF Plays, keys, past
<1>2. /\ history \in Seq(Position) /\ Len(history) \in Nat
      /\ Len(history') = Len(history) + 1
      /\ \A h \in 1..Len(history) : history'[h] = history[h]
  BY Typed, AppendProperties DEF Plays
<1>3. /\ run.top \in 0..Len(history) /\ seen \in 0..Len(history)
      /\ stored \subseteq 1..Len(history) /\ Merged \subseteq 1..Len(history)
      /\ stored \cup run.got \subseteq 1..Len(history)
      /\ analysis.top \in 0..Len(history)
  BY Typed DEF SeenInv, Span, Answers, Merged
<1>4. Listed' = Listed /\ Decided' = Decided /\ Merged' = Merged /\ Asked' = Asked
      /\ profile_ids(run.top)' = profile_ids(run.top)
      /\ match_ids(run.top)' = match_ids(run.top)
      /\ match_ids(analysis.top)' = match_ids(analysis.top)
  BY <1>1 DEF Listed, Decided, Merged, Asked, profile_ids, match_ids, Newest
<1>5. /\ \A top \in 0..Len(history) :
             /\ profile_ids(top) \subseteq 1..Len(history)
             /\ match_ids(top) \subseteq 1..Len(history)
      /\ \A top \in 0..Len(history) : 1..top \subseteq 1..Len(history)
  <2>1. \A top \in 0..Len(history) : 1..top \subseteq 1..Len(history)
    BY <1>2
  <2>2. QED
    BY <1>2, <2>1 DEF profile_ids, match_ids, Newest
<1>6. ASSUME NEW S \in SUBSET (1..Len(history)), NEW r
      PROVE  {g \in S : normalize_role(history'[g]) = r} = role_games(S, r)
  BY <1>2 DEF role_games
<1>7. Span'
  BY <1>1, <1>2, <1>3, <1>4 DEF SeenInv, Span
<1>8. Phases' /\ Hurts'
  BY <1>1, <1>4 DEF SeenInv, Phases, Hurts
<1>9. Profiled' /\ Scanned' /\ Done'
  <2>1. profile_ids(run.top) \subseteq 1..Len(history)
        /\ match_ids(run.top) \subseteq 1..Len(history)
    BY <1>3, <1>5
  <2>2. Profiled'
    BY <1>1, <1>2, <1>4, <2>1 DEF SeenInv, Profiled
  <2>3. Scanned' /\ Done'
    BY <1>1, <1>2, <1>4, <2>1 DEF SeenInv, Scanned, Done
  <2>4. QED
    BY <2>2, <2>3
<1>10. Counted'
  <2>1. role_games(Merged, run.role)' = role_games(Merged, run.role)
    <3> DEFINE S == Merged
    <3>1. role_games(S, run.role)' = {g \in S : normalize_role(history'[g]) = run.role}
      BY <1>1, <1>4 DEF role_games
    <3> HIDE DEF S
    <3>2. {g \in S : normalize_role(history'[g]) = run.role} = role_games(S, run.role)
      BY <1>3, <1>6 DEF S
    <3>3. QED
      BY <3>1, <3>2 DEF S
  <2>2. QED
    BY <1>1, <1>4, <2>1 DEF SeenInv, Counted
<1>11. Closed'
  <2>1. ASSUME NEW S \in SUBSET (1..Len(history)), NEW top \in 0..Len(history), UpTo(S, top)
        PROVE  \A g \in S : \A h \in (g + 1)..top : history'[h] = history'[g] => h \in S
    BY <1>2, <2>1 DEF UpTo
  <2>2. ~gap' => UpTo(stored, seen)'
    BY <1>1, <1>3, <2>1 DEF SeenInv, Closed, UpTo
  <2>3. Decided' /\ ~gap' /\ ~run'.hurt /\ ~Far' => UpTo(Merged, run.top)'
    BY <1>1, <1>3, <1>4, <2>1 DEF SeenInv, Closed, UpTo, Far
  <2>4. QED
    BY <2>2, <2>3 DEF Closed
<1>12. Mapped'
  BY <1>1, <1>2, <1>3 DEF SeenInv, Mapped
<1>13. Answers'
  <2>1. role_games(match_ids(analysis.top), analysis.role)'
          = role_games(match_ids(analysis.top), analysis.role)
    <3>1. match_ids(analysis.top) \in SUBSET (1..Len(history))
      BY <1>3, <1>5
    <3> DEFINE S == match_ids(analysis.top)
    <3>2. role_games(S, analysis.role)' = {g \in S : normalize_role(history'[g]) = analysis.role}
      BY <1>1, <1>4 DEF role_games
    <3> HIDE DEF S
    <3>3. {g \in S : normalize_role(history'[g]) = analysis.role} = role_games(S, analysis.role)
      BY <1>6, <3>1 DEF S
    <3>4. QED
      BY <3>2, <3>3 DEF S
  <2>2. role_games(1..analysis.top, analysis.role)'
          = role_games(1..analysis.top, analysis.role)
    <3>1. 1..analysis.top \in SUBSET (1..Len(history))
      BY <1>3, <1>5
    <3>2. {g \in 1..analysis.top : normalize_role(history'[g]) = analysis.role}
            = role_games(1..analysis.top, analysis.role)
      BY <1>6, <3>1
    <3>3. QED
      BY <1>1, <3>2 DEF role_games
  <2>3. BlameIsTrue'
    BY <1>1, <2>1 DEF SeenInv, Answers, BlameIsTrue
  <2>4. WindowIsNewest'
    BY <1>1, <2>2 DEF SeenInv, Answers, WindowIsNewest, Newest
  <2>5. QED
    BY <1>1, <1>2, <1>3, <2>3, <2>4 DEF Answers
<1>14. QED
  BY <1>7, <1>8, <1>9, <1>10, <1>11, <1>12, <1>13 DEF SeenInv

LEMMA InitSeen == Init => SeenInv
<1> SUFFICES ASSUME Init
             PROVE  SeenInv
  OBVIOUS
<1>1. /\ history = <<>> /\ stored = {} /\ seen = 0 /\ Len(history) = 0
      /\ analysis.reason = "absent" /\ analysis.top = 0 /\ told.code = "none"
  BY DEF Init, NoAnalysis
<1>2. run.step = "idle" /\ run.got = {} /\ run.hurt = FALSE
      /\ run.failed = 0 /\ run.deepFailed = 0
  BY DEF Init, NoRun
<1>3. ~Listed /\ ~Decided
  BY <1>2 DEF Listed, Decided
<1>4. QED
  BY <1>1, <1>2, <1>3
     DEF SeenInv, Span, Phases, Hurts, Profiled, Scanned, Counted, Done, Closed, UpTo,
         Mapped, Answers, BlameIsTrue, WindowIsNewest

LEMMA NextSeen == IInv /\ SeenInv /\ [Next]_vars => SeenInv'
<1> SUFFICES ASSUME IInv, SeenInv, [Next]_vars
             PROVE  SeenInv'
  OBVIOUS
<1>1. CASE LookupRaises \/ AccountUnknown \/ NoIds \/ NothingCollected \/ Breaks
  BY <1>1, EndsSeen
<1>2. CASE \E scores \in BOOLEAN : Publishes(scores)
  BY <1>2, PublishesSeen
<1>3. ASSUME NEW d \in 0..SLOW, Retries(d)
      PROVE  SeenInv'
  <2>1. View(run') = View(run) /\ Asked' = Asked
    BY <1>3, RetriesShape
  <2>2. UNCHANGED <<history, stored, analysis, told, seen, gap>>
    BY <1>3 DEF Retries, Goes, keys, past
  <2>3. QED
    BY <2>1, <2>2, QuietSeen
<1>4. ASSUME NEW d \in 0..SLOW, MatchFound(d)
      PROVE  SeenInv'
  <2>1. View(run') = View(run) /\ Asked' = Asked
    BY <1>4, MatchFoundShape
  <2>2. UNCHANGED <<history, stored, analysis, told, seen, gap>>
    BY <1>4 DEF MatchFound, Goes, keys, past
  <2>3. QED
    BY <2>1, <2>2, QuietSeen
<1>5. ASSUME NEW d \in 0..SLOW, RoleMismatch(d)
      PROVE  SeenInv'
  <2>1. View(run') = View(run) /\ Asked' = {}
    BY <1>5, RoleMismatchShape
  <2>2. UNCHANGED <<history, stored, analysis, told, seen, gap>>
    BY <1>5 DEF RoleMismatch, keys
  <2>3. run.step = "deep" /\ run.call = "match" /\ history[run.game] # riot_role(run.role)
    BY <1>5 DEF RoleMismatch, Calling
  <2>4. run.role \in MainRole /\ run.role # NoRole
    BY <2>3, Typed DEF IInv, Calls
  <2>5. \A g \in Asked : run.step = "deep" /\ history[g] # run.role
    BY <2>3, <2>4, RoleNames DEF Asked
  <2>6. QED
    BY <2>1, <2>2, <2>5, QuietSeen
<1>6. CASE Requested \/ AccountFound \/ \E covered \in BOOLEAN : LeagueRead(covered)
  BY <1>6, LookupSeen
<1>7. CASE IdsListed
  BY <1>7, IdsListedSeen
<1>8. CASE ProfileTakes \/ DeepTakes
  BY <1>8, TakesSeen
<1>9. CASE \E d \in 0..SLOW : FetchFails(d)
  BY <1>9, FetchFailsSeen
<1>10. CASE \E d \in 0..SLOW : TimelineFound(d)
  BY <1>10, TimelineFoundSeen
<1>11. CASE \E role \in ScopeRole \cup {NoRole} : ProfileEnds(role)
  BY <1>11, ProfileEndsSeen
<1>12. CASE DeepSkips
  BY <1>12, DeepSkipsSeen
<1>13. CASE DeepEnds
  BY <1>13, DeepEndsSeen
<1>14. CASE PutsIndex
  BY <1>14, PutsIndexSeen
<1>15. CASE \E p \in Position : Plays(p)
  BY <1>15, PlaysSeen
<1>16. CASE UNCHANGED vars
  <2>1. UNCHANGED <<history, stored, analysis, run, told, seen, gap>>
    BY <1>16 DEF vars
  <2>2. View(run') = View(run) /\ Asked' = Asked
    BY <2>1 DEF View, Asked
  <2>3. QED
    BY <2>1, <2>2, QuietSeen
<1>17. QED
  BY <1>1, <1>2, <1>3, <1>4, <1>5, <1>6, <1>7, <1>8, <1>9, <1>10, <1>11, <1>12, <1>13,
     <1>14, <1>15, <1>16 DEF Next, RunStep

(* What a run has left unseen is what the invariant says, at every moment. *)
THEOREM SeenInvCorrect == Spec => []SeenInv
<1>1. QED
  BY InitSeen, NextSeen, InvCorrect, PTL DEF Spec

(* Nobody is blamed for what Riot failed, and a window said to be too      *)
(* short is too short in Riot's own history, for any history, any sizes    *)
(* and any failures (_role_analysis, service/riot_ingest.py:190).          *)
THEOREM BlameIsTrueCorrect == Spec => []BlameIsTrue
<1>1. SeenInv => BlameIsTrue
  BY DEF SeenInv, Answers
<1>2. QED
  BY <1>1, SeenInvCorrect, PTL

(* A score is computed on the newest games of the role, for any history,   *)
(* unless a published run left a hole (collect_role_window,                *)
(* service/riot_ingest.py:150).                                            *)
THEOREM WindowIsNewestCorrect == Spec => []WindowIsNewest
<1>1. SeenInv => WindowIsNewest
  BY DEF SeenInv, Answers
<1>2. QED
  BY <1>1, SeenInvCorrect, PTL
=============================================================================
