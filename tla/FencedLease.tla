----------------------------- MODULE FencedLease -----------------------------
(***************************************************************************)
(* What a claim store promises (ports/claims.py, ADR 0023): time-bounded,   *)
(* fenced ownership of a subject.                                           *)
(*                                                                          *)
(* A subject is either free or owned until some moment.  It changes hands   *)
(* only when the previous ownership has lapsed at the very instant of the   *)
(* change, and every change of hands starts the next epoch (the fencing     *)
(* token).  Within an epoch the owner never changes; only the moment at     *)
(* which the ownership lapses may be moved, and never further away than the *)
(* longest lease from now, so a dead owner is always outlived.              *)
(***************************************************************************)
EXTENDS Naturals

CONSTANTS
    Subjects,   \* what can be claimed
    Owners,     \* who can claim it
    NoOwner,    \* the owner of a subject nobody was granted yet
    Longest     \* the longest lease anybody asks for

VARIABLES
    clock,      \* the time
    epoch,      \* epoch[s]: how many times s has been granted
    owner,      \* owner[s]: to whom it was granted last
    until       \* until[s]: when that ownership lapses

vars == <<clock, epoch, owner, until>>

Lapsed(s) == until[s] <= clock

Init ==
    /\ clock = 0
    /\ epoch = [s \in Subjects |-> 0]
    /\ owner = [s \in Subjects |-> NoOwner]
    /\ until = [s \in Subjects |-> 0]

\* Only until[s] moves, to a moment at most one lease away.
MoveLapse(s) ==
    /\ until' = [until EXCEPT ![s] = until'[s]]
    /\ until'[s] <= clock + Longest

Grant(s, o) ==
    /\ Lapsed(s)
    /\ epoch' = [epoch EXCEPT ![s] = @ + 1]
    /\ owner' = [owner EXCEPT ![s] = o]
    /\ MoveLapse(s)
    /\ UNCHANGED clock

Adjust(s) ==
    /\ epoch[s] > 0
    /\ MoveLapse(s)
    /\ UNCHANGED <<clock, epoch, owner>>

Pass ==
    /\ clock' = clock + 1
    /\ UNCHANGED <<epoch, owner, until>>

Next ==
    \/ \E s \in Subjects, o \in Owners : Grant(s, o)
    \/ \E s \in Subjects : Adjust(s)
    \/ Pass

Spec == Init /\ [][Next]_vars
=============================================================================
