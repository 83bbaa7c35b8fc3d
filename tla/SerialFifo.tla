------------------------------ MODULE SerialFifo ------------------------------
(***************************************************************************)
(* What the collection queue promises, with no clock, status, alarm or     *)
(* storage: customers wait in one line in the order they joined, at most   *)
(* one is served at a time, a customer is in the line at most once, and an *)
(* interrupted service starts over without losing its turn.                *)
(***************************************************************************)
EXTENDS Sequences

CONSTANTS
    Customers,
    Nobody         \* not a customer

VARIABLES
    line,      \* the customers that wait, first to be served first
    current    \* the customer that is served, or Nobody

fifoVars == <<line, current>>
-----------------------------------------------------------------------------
Waits(c) == \E i \in DOMAIN line : line[i] = c

FifoInit ==
    /\ line = <<>>
    /\ current = Nobody

Join(c) ==
    /\ ~Waits(c)
    /\ current # c
    /\ line' = Append(line, c)
    /\ UNCHANGED current

Serve ==
    /\ current = Nobody
    /\ line # <<>>
    /\ current' = Head(line)
    /\ line' = Tail(line)

Leave ==
    /\ current # Nobody
    /\ current' = Nobody
    /\ UNCHANGED line

Interrupt ==
    /\ current # Nobody
    /\ line' = <<current>> \o line
    /\ current' = Nobody

FifoNext ==
    \/ \E c \in Customers : Join(c)
    \/ Serve
    \/ Leave
    \/ Interrupt

FifoSpec == FifoInit /\ [][FifoNext]_fifoVars

(* The server works: someone waiting is eventually taken, and a service    *)
(* eventually ends or is interrupted.                                      *)
FifoFairness ==
    WF_fifoVars(Serve) /\ WF_fifoVars(Leave \/ Interrupt)

FifoFairSpec == FifoSpec /\ FifoFairness
=============================================================================
