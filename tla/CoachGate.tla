------------------------------- MODULE CoachGate -------------------------------
(***************************************************************************)
(* The per-player lock of the coaching endpoints: one Durable Object       *)
(* `CoachGate` of web/cf/src/coach_gate.ts, with the flows it lets through *)
(* (coachFlow of coach.ts, gameCoachFlow of game_coach.ts).  A flow calls  *)
(* the language model until an answer fits the schema, then appends a      *)
(* review to the player's reviews in KV by reading and rewriting them      *)
(* (appendJsonl of readers.ts).  The lock is a boolean in memory, with a   *)
(* deadline and an alarm in storage.                                       *)
(*                                                                         *)
(* Deadlines are kept as the time that is left.  A handler's awaits on the *)
(* object's own storage let no other event in, so taking and dropping the  *)
(* lock are single steps; the calls to KV and to the model do let in       *)
(* events.                                                                 *)
(***************************************************************************)
EXTENDS Integers, FiniteSets

CONSTANTS
    Flows,           \* the player's coaching requests
    NoFlow,          \* the lock is free
    LOCK_TTL,        \* LOCK_TTL_MS: 4 minutes
    LEGACY_TTL,      \* the TTL of the previous version, 30 minutes; 0: none left
    GEN_TIMEOUT,     \* timeoutMs of a call to the model: 3 minutes
    ATTEMPTS         \* calls per flow: 2 in coachFlow, 3 in gameCoachFlow

ASSUME GateAssumption ==
    /\ NoFlow \notin Flows
    /\ LOCK_TTL \in Nat \ {0}
    /\ LEGACY_TTL \in Nat
    /\ GEN_TIMEOUT \in Nat \ {0}
    /\ ATTEMPTS \in Nat \ {0}

VARIABLES
    holder,      \* `active`, with the request that set it; NoFlow is false
    untilLeft,   \* storage "active_until"; 0 when absent or past
    alarmLeft,   \* the storage alarm; 0 when due; NoAlarm when not set
    phase,       \* where each flow is
    open,        \* flows whose guarded response is not released
    attempt,     \* calls to the model each flow has begun
    genLeft,     \* time left of that call
    snapshot,    \* the reviews each flow has read to append to
    reviews,     \* KV reviews of the player, a record named by its flow
    loose        \* history: flows the lock was taken from before their end

gateVars == <<holder, untilLeft, alarmLeft, phase, open, attempt, genLeft,
              snapshot, reviews, loose>>
lockVars == <<holder, untilLeft, alarmLeft>>
flowVars == <<attempt, genLeft, snapshot, reviews>>
-----------------------------------------------------------------------------
NoAlarm == -1

Phase == {"idle", "preparing", "generating", "appending", "closing", "ended"}

(* The flow calls the model, or rewrites the reviews. *)
Working == {f \in Flows : phase[f] \in {"generating", "appending"}}

(* The stored deadline is one of this version, and in the future. *)
Held == 0 < untilLeft /\ untilLeft <= LOCK_TTL

(* Mutant: only the stored deadline is looked at. *)
MutBlockedByDeadline == Held

(* A request would be answered 409. *)
Blocked == holder # NoFlow \/ Held

(* The lock is dropped, with its deadline and its alarm. *)
Unlock == holder' = NoFlow /\ untilLeft' = 0 /\ alarmLeft' = NoAlarm

(* Where a flow goes that has nothing left to do but to close its stream:  *)
(* a cancelled stream is closed already.                                   *)
Finished(f) == IF f \in open THEN "closing" ELSE "ended"
-----------------------------------------------------------------------------
GateInit ==
    /\ holder = NoFlow
    /\ \/ untilLeft = 0 /\ alarmLeft = NoAlarm
       \/ untilLeft = LEGACY_TTL /\ alarmLeft = LEGACY_TTL
    /\ phase = [f \in Flows |-> "idle"]
    /\ open = {}
    /\ attempt = [f \in Flows |-> 0]
    /\ genLeft = [f \in Flows |-> 0]
    /\ snapshot = [f \in Flows |-> {}]
    /\ reviews = {}
    /\ loose = {}

(* Mutant: no alarm. *)
MutFetchUnarmed(f) ==
    /\ phase[f] = "idle"
    /\ ~Blocked
    /\ holder' = f
    /\ untilLeft' = LOCK_TTL
    /\ phase' = [phase EXCEPT ![f] = "preparing"]
    /\ open' = open \cup {f}
    /\ UNCHANGED <<alarmLeft, flowVars, loose>>

(* fetch() takes the lock. *)
Fetch(f) ==
    /\ phase[f] = "idle"
    /\ ~Blocked
    /\ holder' = f
    /\ untilLeft' = LOCK_TTL
    /\ alarmLeft' = LOCK_TTL
    /\ phase' = [phase EXCEPT ![f] = "preparing"]
    /\ open' = open \cup {f}
    /\ UNCHANGED <<flowVars, loose>>

(* Mutant: the boolean not reset when the storage fails. *)
MutFetchFailsKeeps(f) ==
    /\ phase[f] = "idle"
    /\ ~Blocked
    /\ holder' = f
    /\ untilLeft' \in {untilLeft, LOCK_TTL}
    /\ phase' = [phase EXCEPT ![f] = "ended"]
    /\ UNCHANGED <<alarmLeft, open, flowVars, loose>>

(* The storage fails on fetch(): on the first two calls nothing is stored, *)
(* on setAlarm the deadline is stored already, with no alarm of its own.   *)
FetchFails(f) ==
    /\ phase[f] = "idle"
    /\ ~Blocked
    /\ untilLeft' \in {untilLeft, LOCK_TTL}
    /\ phase' = [phase EXCEPT ![f] = "ended"]
    /\ UNCHANGED <<holder, alarmLeft, open, flowVars, loose>>

(* apiCoach or apiGameCoach throws before there is a response. *)
Throws(f) ==
    /\ phase[f] = "preparing"
    /\ Unlock
    /\ phase' = [phase EXCEPT ![f] = "ended"]
    /\ open' = open \ {f}
    /\ UNCHANGED <<flowVars, loose>>

(* A response without a call to the model: an error status, missing data,  *)
(* or a review found in the cache.                                         *)
Answers(f) ==
    /\ phase[f] = "preparing"
    /\ phase' = [phase EXCEPT ![f] = "closing"]
    /\ UNCHANGED <<lockVars, open, flowVars, loose>>

(* Mutant: the lock dropped when the response is there. *)
MutStartsReleasing(f) ==
    /\ phase[f] = "preparing"
    /\ Unlock
    /\ phase' = [phase EXCEPT ![f] = "generating"]
    /\ attempt' = [attempt EXCEPT ![f] = 1]
    /\ genLeft' = [genLeft EXCEPT ![f] = GEN_TIMEOUT]
    /\ UNCHANGED <<open, snapshot, reviews, loose>>

(* The "llm" event is out: the first call to the model. *)
Starts(f) ==
    /\ phase[f] = "preparing"
    /\ phase' = [phase EXCEPT ![f] = "generating"]
    /\ attempt' = [attempt EXCEPT ![f] = 1]
    /\ genLeft' = [genLeft EXCEPT ![f] = GEN_TIMEOUT]
    /\ UNCHANGED <<lockVars, open, snapshot, reviews, loose>>

(* The answer does not fit the schema: another call. *)
Retries(f) ==
    /\ phase[f] = "generating"
    /\ attempt[f] < ATTEMPTS
    /\ attempt' = [attempt EXCEPT ![f] = @ + 1]
    /\ genLeft' = [genLeft EXCEPT ![f] = GEN_TIMEOUT]
    /\ UNCHANGED <<lockVars, phase, open, snapshot, reviews, loose>>

(* The call times out or fails, or the last answer does not fit. *)
GivesUp(f) ==
    /\ phase[f] = "generating"
    /\ phase' = [phase EXCEPT ![f] = Finished(f)]
    /\ UNCHANGED <<lockVars, open, flowVars, loose>>

(* The answer fits: appendJsonl reads the reviews. *)
Reads(f) ==
    /\ phase[f] = "generating"
    /\ phase' = [phase EXCEPT ![f] = "appending"]
    /\ snapshot' = [snapshot EXCEPT ![f] = reviews]
    /\ UNCHANGED <<lockVars, open, attempt, genLeft, reviews, loose>>

(* appendJsonl writes all the reviews back, or KV refuses them. *)
Writes(f) ==
    /\ phase[f] = "appending"
    /\ phase' = [phase EXCEPT ![f] = Finished(f)]
    /\ reviews' \in {reviews, snapshot[f] \cup {f}}
    /\ UNCHANGED <<lockVars, open, attempt, genLeft, snapshot, loose>>

(* The client has read the stream to its end: pull() releases. *)
Drains(f) ==
    /\ phase[f] = "closing"
    /\ Unlock
    /\ phase' = [phase EXCEPT ![f] = "ended"]
    /\ open' = open \ {f}
    /\ UNCHANGED <<flowVars, loose>>

(* The client leaves: cancel() releases.  A flow that works goes on until  *)
(* its next event; one that has not begun, or has nothing left, ends.      *)
Cancels(f) ==
    /\ f \in open
    /\ Unlock
    /\ open' = open \ {f}
    /\ phase' = [phase EXCEPT ![f] = IF f \in Working THEN @ ELSE "ended"]
    /\ loose' = IF f \in Working THEN loose \cup {f} ELSE loose
    /\ UNCHANGED flowVars

(* alarm(): the lock has reached its TTL, whoever is still at work. *)
Alarm ==
    /\ alarmLeft = 0
    /\ Unlock
    /\ loose' = loose \cup (open \cap {holder})
    /\ UNCHANGED <<phase, open, flowVars>>

(* The instance is lost with its flows; its storage stays. *)
Evict ==
    /\ holder' = NoFlow
    /\ phase' = [f \in Flows |-> IF phase[f] = "idle" THEN "idle" ELSE "ended"]
    /\ open' = {}
    /\ UNCHANGED <<untilLeft, alarmLeft, flowVars, loose>>

(* Time passes, not beyond the timeout of a call that is awaited. *)
Tick ==
    /\ \A f \in Flows : phase[f] = "generating" => genLeft[f] > 0
    /\ untilLeft' = IF untilLeft > 0 THEN untilLeft - 1 ELSE 0
    /\ alarmLeft' = IF alarmLeft > 0 THEN alarmLeft - 1 ELSE alarmLeft
    /\ genLeft' = [f \in Flows |->
                     IF phase[f] = "generating" THEN genLeft[f] - 1 ELSE genLeft[f]]
    /\ UNCHANGED <<holder, phase, open, attempt, snapshot, reviews, loose>>
-----------------------------------------------------------------------------
Serves(f) ==
    \/ Fetch(f)
    \/ FetchFails(f)
    \/ Throws(f)
    \/ Answers(f)
    \/ Starts(f)
    \/ Retries(f)
    \/ GivesUp(f)
    \/ Reads(f)
    \/ Writes(f)
    \/ Drains(f)
    \/ Cancels(f)

GateNext ==
    \/ \E f \in Flows : Serves(f)
    \/ Alarm
    \/ Evict
    \/ Tick

GateSpec == GateInit /\ [][GateNext]_gateVars

(* Time passes, a due alarm is delivered, and a call to the model ends by  *)
(* its timeout.  A client owes nothing, nor does KV.                       *)
Fairness ==
    /\ WF_gateVars(Tick)
    /\ WF_gateVars(Alarm)
    /\ \A f \in Flows : WF_gateVars(Retries(f) \/ GivesUp(f) \/ Reads(f))

FairSpec == GateSpec /\ Fairness
-----------------------------------------------------------------------------
(* Types of the variables. *)
TypeOK ==
    /\ holder \in Flows \cup {NoFlow}
    /\ untilLeft \in Nat
    /\ alarmLeft \in Nat \cup {NoAlarm}
    /\ phase \in [Flows -> Phase]
    /\ open \in SUBSET Flows
    /\ attempt \in [Flows -> Nat]
    /\ genLeft \in [Flows -> Nat]
    /\ snapshot \in [Flows -> SUBSET Flows]
    /\ reviews \in SUBSET Flows
    /\ loose \in SUBSET Flows

(* The boolean in memory never outlives what frees it: it belongs to a     *)
(* response that is still open, its alarm is set, and the alarm and the    *)
(* stored deadline fall together, through expiries, releases of flows that *)
(* had lost the lock, and losses of the instance.                          *)
LockIsFreeable ==
    holder # NoFlow =>
        /\ holder \in open
        /\ alarmLeft = untilLeft
        /\ untilLeft <= LOCK_TTL

(* As long as no flow has outlived its lock or was left by its client at   *)
(* work, at most one flow of the player is past the gate.                  *)
ExclusiveUntilLoose ==
    loose = {} => \A f, g \in Working \cup open : f = g

(* As long as that is so, an append never drops a review. *)
ReviewsKeptUntilLoose ==
    [][loose = {} => reviews \subseteq reviews']_gateVars

(* Whatever the client, KV and the model do, and however the instance ends *)
(* or its storage fails, the player is not blocked for ever.               *)
Unblocks == Blocked ~> ~Blocked

(* What the comment on the class says: before its TTL, the lock is held    *)
(* until the stream that took it is closed.                                *)
LockKeptUntilClose ==
    [][holder # NoFlow /\ holder \in open' /\ alarmLeft # 0
          => holder' = holder]_gateVars
=============================================================================
