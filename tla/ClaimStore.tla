------------------------------ MODULE ClaimStore ------------------------------
(***************************************************************************)
(* The durable claim store (adapters/persistence/claim_store.py) and the    *)
(* handles its callers hold (adapters/locking/durable.py keeps them in      *)
(* _held).                                                                  *)
(*                                                                          *)
(* A call is not atomic.  It reads the clock first, an acquisition then     *)
(* reads the row, and only the conditional UPDATE (or the INSERT guarded by *)
(* the primary key) decides.  Between those steps a process may stall for   *)
(* any time, other processes may act, the store may fail, the commit may    *)
(* happen and its reply be lost, and the process may die.                   *)
(*                                                                          *)
(* acquired_at is abstracted away: no decision reads it.                    *)
(***************************************************************************)
EXTENDS Naturals

CONSTANTS
    Processes,  \* the claim's owners
    Subjects,   \* what can be claimed
    Leases,     \* the lease lengths a caller may ask for
    Longest,    \* a bound on them
    NoOwner,    \* the owner of a subject nobody has claimed yet
    MaxClock,   \* bound: the clock stops here
    MaxToken    \* bound: no acquisition of a subject beyond this one

ASSUME LeasesAssumption ==
    /\ Leases \subseteq Nat \ {0}
    /\ Longest \in Nat
    /\ \A l \in Leases : l <= Longest

ASSUME BoundsAssumption == MaxClock \in Nat /\ MaxToken \in Nat

ASSUME NoOwnerAssumption == NoOwner \notin Processes

VARIABLES
    clock,      \* Clock.now()
    row,        \* row[s]: the row of subject s in the claims table
    handles,    \* handles[p]: the claims p was given and has not released
    call        \* call[p]: the store call p is in the middle of

vars == <<clock, row, handles, call>>

-----------------------------------------------------------------------------
\* State.

Moments == Nat

\* A row with token 0 is the row that does not exist yet: rows start at token
\* 1 and are never deleted.
Rows == [owner : Processes \cup {NoOwner}, expires : Moments, token : Nat]
NoRow == [owner |-> NoOwner, expires |-> 0, token |-> 0]

\* FencingToken refuses anything below 1.
Tokens == Nat \ {0}
Claims == [subject : Subjects, token : Tokens, expires : Moments]

Idle == [op |-> "idle"]
Calls ==
    {Idle}
      \cup [op : {"read"}, subject : Subjects, lease : Leases, now : Moments]
      \cup [op : {"decide"}, subject : Subjects, lease : Leases, now : Moments,
            token : Nat]
      \cup [op : {"renew"}, claim : Claims, lease : Leases, now : Moments]
      \cup [op : {"release"}, claim : Claims, now : Moments]

TypeOK ==
    /\ clock \in Moments
    /\ row \in [Subjects -> Rows]
    /\ handles \in [Processes -> SUBSET Claims]
    /\ call \in [Processes -> Calls]

Init ==
    /\ clock = 0
    /\ row = [s \in Subjects |-> NoRow]
    /\ handles = [p \in Processes |-> {}]
    /\ call = [p \in Processes |-> Idle]

-----------------------------------------------------------------------------
\* Steps shared by the operations.

Enter(p, c) == call[p] = Idle /\ call' = [call EXCEPT ![p] = c]
Return(p) == call' = [call EXCEPT ![p] = Idle]
In(p, op) == call[p].op = op

\* The WHERE clauses, evaluated against the row as it is when the statement
\* runs, with the clock the call read when it began.  A definition whose name
\* ends in Slip is a plausible mistake in the definition after it; it is used
\* to show that the properties below notice such mistakes.

\* The clause without fencing_token = the token that was read.
MatchesTakeOverAnyTokenSlip(p) == row[call[p].subject].expires <= call[p].now

\* The clause with expires_at, the end of the new lease, where now belongs.
MatchesTakeOverLiveSlip(p) ==
    LET r == row[call[p].subject] IN
    r.expires <= call[p].now + call[p].lease /\ r.token = call[p].token

MatchesTakeOver(p) ==
    LET r == row[call[p].subject] IN
    r.expires <= call[p].now /\ r.token = call[p].token

MatchesRenew(p) ==
    LET r == row[call[p].claim.subject] IN
    r.owner = p /\ r.token = call[p].claim.token /\ r.expires > call[p].now

\* The clause without fencing_token.
MatchesReleaseByOwnerSlip(p) == row[call[p].claim.subject].owner = p

MatchesRelease(p) ==
    LET r == row[call[p].claim.subject] IN
    r.owner = p /\ r.token = call[p].claim.token

-----------------------------------------------------------------------------
\* try_acquire.

\* The caller asks; the store reads the clock before it opens a session.
BeginAcquire(p, s, l) ==
    /\ Enter(p, [op |-> "read", subject |-> s, lease |-> l, now |-> clock])
    /\ UNCHANGED <<clock, row, handles>>

\* session.get(ClaimRecord, subject)
ReadRow(p) ==
    /\ In(p, "read")
    /\ call' = [call EXCEPT ![p] =
                  [op |-> "decide", subject |-> call[p].subject,
                   lease |-> call[p].lease, now |-> call[p].now,
                   token |-> row[call[p].subject].token]]
    /\ UNCHANGED <<clock, row, handles>>

\* The INSERT succeeds while there is no row; the UPDATE while its clause
\* matches.
Wins(p) ==
    IF call[p].token = 0
    THEN row[call[p].subject].token = 0
    ELSE MatchesTakeOver(p)

NextToken(p) == call[p].token + 1

\* _add(now, lease)
LeaseEnd(p) == call[p].now + call[p].lease

CommitGrant(p) ==
    /\ In(p, "decide")
    /\ Wins(p)
    /\ call[p].token < MaxToken
    /\ row' = [row EXCEPT ![call[p].subject] =
                  [owner |-> p, expires |-> LeaseEnd(p), token |-> NextToken(p)]]
    /\ Return(p)
    /\ UNCHANGED clock

Acquire(p) ==
    /\ CommitGrant(p)
    /\ handles' = [handles EXCEPT ![p] = @ \cup
                     {[subject |-> call[p].subject, token |-> NextToken(p),
                       expires |-> LeaseEnd(p)]}]

\* The commit took effect and the connection broke before the reply: the
\* caller gets TransientInfrastructureError and no handle.
AcquireReplyLost(p) == CommitGrant(p) /\ UNCHANGED handles

\* IntegrityError, or no row updated: somebody else's claim stands.
Refuse(p) ==
    /\ In(p, "decide")
    /\ ~Wins(p)
    /\ Return(p)
    /\ UNCHANGED <<clock, row, handles>>

-----------------------------------------------------------------------------
\* renew.

BeginRenew(p, c, l) ==
    /\ c \in handles[p]
    /\ Enter(p, [op |-> "renew", claim |-> c, lease |-> l, now |-> clock])
    /\ UNCHANGED <<clock, row, handles>>

CommitRenewal(p) ==
    /\ In(p, "renew")
    /\ MatchesRenew(p)
    /\ row' = [row EXCEPT ![call[p].claim.subject].expires = LeaseEnd(p)]
    /\ Return(p)
    /\ UNCHANGED clock

\* renewed_until raises ValidationError for an expiry that is not later; the
\* caller is then left with the claim it had.
Renew(p) ==
    /\ CommitRenewal(p)
    /\ LET c == call[p].claim IN
       handles' = [handles EXCEPT ![p] =
                      IF LeaseEnd(p) > c.expires
                      THEN (@ \ {c}) \cup {[c EXCEPT !.expires = LeaseEnd(p)]}
                      ELSE @]

RenewReplyLost(p) == CommitRenewal(p) /\ UNCHANGED handles

\* ClaimNotHeldError: lapsed, or taken over.
RenewNotHeld(p) ==
    /\ In(p, "renew")
    /\ ~MatchesRenew(p)
    /\ Return(p)
    /\ UNCHANGED <<clock, row, handles>>

-----------------------------------------------------------------------------
\* release.

\* A release that never reads the clock.
BeginReleaseSlip(p, c) ==
    /\ c \in handles[p]
    /\ Enter(p, [op |-> "release", claim |-> c])
    /\ handles' = [handles EXCEPT ![p] = @ \ {c}]
    /\ UNCHANGED <<clock, row>>

\* DurableOverlapLock.release forgets the handle before it calls the store.
BeginRelease(p, c) ==
    /\ c \in handles[p]
    /\ Enter(p, [op |-> "release", claim |-> c, now |-> clock])
    /\ handles' = [handles EXCEPT ![p] = @ \ {c}]
    /\ UNCHANGED <<clock, row>>

\* A release that deletes the row, so that the next claim starts at token 1.
ReleaseSlip(p) ==
    /\ In(p, "release")
    /\ row' = [row EXCEPT ![call[p].claim.subject] =
                  IF MatchesRelease(p) THEN NoRow ELSE @]
    /\ Return(p)
    /\ UNCHANGED <<clock, handles>>

\* Release lapses the row; it never deletes it, and it changes nothing when
\* the claim has been superseded.
Release(p) ==
    /\ In(p, "release")
    /\ row' = [row EXCEPT ![call[p].claim.subject].expires =
                  IF MatchesRelease(p) THEN call[p].now ELSE @]
    /\ Return(p)
    /\ UNCHANGED <<clock, handles>>

-----------------------------------------------------------------------------
\* Failures and time.

\* SQLAlchemyError before the commit: TransientInfrastructureError, no effect.
StoreFails(p) ==
    /\ call[p] # Idle
    /\ Return(p)
    /\ UNCHANGED <<clock, row, handles>>

\* The process dies; its row is all that is left of its claims.
Crash(p) ==
    /\ call' = [call EXCEPT ![p] = Idle]
    /\ handles' = [handles EXCEPT ![p] = {}]
    /\ UNCHANGED <<clock, row>>

Tick ==
    /\ clock < MaxClock
    /\ clock' = clock + 1
    /\ UNCHANGED <<row, handles, call>>

ProcessStep(p) ==
    \/ \E s \in Subjects, l \in Leases : BeginAcquire(p, s, l)
    \/ ReadRow(p)
    \/ Acquire(p)
    \/ AcquireReplyLost(p)
    \/ Refuse(p)
    \/ \E c \in handles[p], l \in Leases : BeginRenew(p, c, l)
    \/ Renew(p)
    \/ RenewReplyLost(p)
    \/ RenewNotHeld(p)
    \/ \E c \in handles[p] : BeginRelease(p, c)
    \/ Release(p)
    \/ StoreFails(p)
    \/ Crash(p)

Next == Tick \/ \E p \in Processes : ProcessStep(p)

Spec == Init /\ [][Next]_vars

-----------------------------------------------------------------------------
\* Properties.

\* Every handle anybody holds names an acquisition that really happened, and
\* the newest one is the row's owner: a stalled process can always be told
\* from the process that superseded it (FencingToken.supersedes).
HandlesNameAcquisitions ==
    \A p \in Processes : \A c \in handles[p] :
        /\ c.token \in 1..row[c.subject].token
        /\ c.token = row[c.subject].token => row[c.subject].owner = p

\* No fencing token of a subject is ever in two processes' hands, however
\* long either stalled between reading the row and writing it.
TokensAreUnique ==
    \A p, q \in Processes : \A c \in handles[p], d \in handles[q] :
        c.subject = d.subject /\ c.token = d.token => p = q

\* Until its own handle says it has lapsed, a holder is protected: the row
\* still names it, and lasts at least as long as the holder believes.
ClaimProtected ==
    \A p \in Processes : \A c \in handles[p] :
        clock < c.expires =>
            /\ row[c.subject].owner = p
            /\ row[c.subject].token = c.token
            /\ row[c.subject].expires >= c.expires

\* A row changes without a new token only at the hands of the process that
\* holds its current token: renewing or releasing with a superseded claim
\* changes nothing, whoever holds the subject now.
OnlyCurrentClaimAdjusts ==
    [][\A s \in Subjects :
          row'[s] # row[s] /\ row'[s].token = row[s].token =>
             \E p \in Processes :
                /\ call[p].op \in {"renew", "release"}
                /\ call[p].claim.subject = s
                /\ call[p].claim.token = row[s].token]_vars

\* The store implements fenced leases.
Lease == INSTANCE FencedLease WITH
            Owners <- Processes,
            epoch <- [s \in Subjects |-> row[s].token],
            owner <- [s \in Subjects |-> row[s].owner],
            until <- [s \in Subjects |-> row[s].expires]

ImplementsFencedLease == Lease!Spec
=============================================================================
