--------------------------- MODULE ClaimStoreProofs ---------------------------
(***************************************************************************)
(* Theorems about ClaimStore for any processes, subjects, leases and        *)
(* bounds.                                                                  *)
(***************************************************************************)
EXTENDS ClaimStore, TLAPS

-----------------------------------------------------------------------------
\* Type correctness.

(***************************************************************************)
(* The op of a pending call tells which record it is.                       *)
(***************************************************************************)
LEMMA PendingCall ==
  ASSUME TypeOK, NEW p \in Processes
  PROVE  /\ In(p, "read") =>
              call[p] \in [op : {"read"}, subject : Subjects, lease : Leases,
                           now : Nat]
         /\ In(p, "decide") =>
              call[p] \in [op : {"decide"}, subject : Subjects, lease : Leases,
                           now : Nat, token : Nat]
         /\ In(p, "renew") =>
              call[p] \in [op : {"renew"}, claim : Claims, lease : Leases,
                           now : Nat]
         /\ In(p, "release") =>
              call[p] \in [op : {"release"}, claim : Claims, now : Nat]
  BY DEF TypeOK, Calls, Idle, In, Moments

(***************************************************************************)
(* The end of the lease an acquisition or a renewal asks for is a moment.   *)
(***************************************************************************)
LEMMA LeaseEndIsMoment ==
  ASSUME TypeOK, NEW p \in Processes, In(p, "decide") \/ In(p, "renew")
  PROVE  LeaseEnd(p) \in Nat /\ LeaseEnd(p) <= call[p].now + Longest
<1>1. call[p].now \in Nat /\ call[p].lease \in Leases
  BY PendingCall
<1>2. call[p].lease \in Nat /\ Longest \in Nat /\ call[p].lease <= Longest
  BY <1>1, LeasesAssumption
<1>3. QED
  BY <1>1, <1>2 DEF LeaseEnd

(***************************************************************************)
(* An acquisition that wins saw the row's current token.                    *)
(***************************************************************************)
LEMMA WinnerSawCurrentToken ==
  ASSUME TypeOK, NEW p \in Processes, In(p, "decide"), Wins(p)
  PROVE  /\ call[p].subject \in Subjects
         /\ row[call[p].subject].token = call[p].token
         /\ NextToken(p) = row[call[p].subject].token + 1
         /\ NextToken(p) \in Tokens
  BY PendingCall DEF TypeOK, Wins, MatchesTakeOver, NextToken, Tokens

(***************************************************************************)
(* What every committed acquisition leaves in the table.                    *)
(***************************************************************************)
LEMMA GrantTypeOK ==
  ASSUME TypeOK, NEW p \in Processes, CommitGrant(p)
  PROVE  /\ clock' \in Moments
         /\ row' \in [Subjects -> Rows]
         /\ call' \in [Processes -> Calls]
<1>1. In(p, "decide") /\ Wins(p)
  BY DEF CommitGrant
<1>2. [owner |-> p, expires |-> LeaseEnd(p), token |-> NextToken(p)] \in Rows
  BY <1>1, LeaseEndIsMoment, WinnerSawCurrentToken DEF Rows, Moments, Tokens
<1>3. QED
  BY <1>2 DEF CommitGrant, TypeOK, Return, Calls

\* A committed renewal leaves rows and calls well formed.
LEMMA RenewalTypeOK ==
  ASSUME TypeOK, NEW p \in Processes, CommitRenewal(p)
  PROVE  /\ clock' \in Moments
         /\ row' \in [Subjects -> Rows]
         /\ call' \in [Processes -> Calls]
<1>1. In(p, "renew")
  BY DEF CommitRenewal
<1>2. LeaseEnd(p) \in Nat
  BY <1>1, LeaseEndIsMoment
<1>3. QED
  BY <1>2 DEF CommitRenewal, TypeOK, Return, Calls, Rows, Moments

(***************************************************************************)
(* A process's step keeps everything well formed.                           *)
(***************************************************************************)
LEMMA StepTypeOK ==
  ASSUME TypeOK, NEW p \in Processes, ProcessStep(p)
  PROVE  TypeOK'
<1>1. ASSUME NEW s \in Subjects, NEW l \in Leases, BeginAcquire(p, s, l)
      PROVE  TypeOK'
  BY <1>1 DEF BeginAcquire, Enter, TypeOK, Calls, Moments
<1>2. CASE ReadRow(p)
  <2>1. call[p] \in [op : {"read"}, subject : Subjects, lease : Leases,
                     now : Nat]
    BY <1>2, PendingCall DEF ReadRow
  <2>2. row[call[p].subject].token \in Nat
    BY <2>1 DEF TypeOK, Rows
  <2>3. QED
    BY <1>2, <2>1, <2>2 DEF ReadRow, TypeOK, Calls, Moments
<1>3. CASE Acquire(p)
  <2>1. [subject |-> call[p].subject, token |-> NextToken(p),
         expires |-> LeaseEnd(p)] \in Claims
    BY <1>3, LeaseEndIsMoment, WinnerSawCurrentToken
       DEF Acquire, CommitGrant, Claims, Moments
  <2>2. handles' \in [Processes -> SUBSET Claims]
    BY <1>3, <2>1 DEF Acquire, TypeOK
  <2>3. QED
    BY <1>3, <2>2, GrantTypeOK DEF Acquire, TypeOK
<1>4. CASE AcquireReplyLost(p)
  BY <1>4, GrantTypeOK DEF AcquireReplyLost, TypeOK
<1>5. CASE Refuse(p)
  BY <1>5 DEF Refuse, Return, TypeOK, Calls
<1>6. ASSUME NEW c \in handles[p], NEW l \in Leases, BeginRenew(p, c, l)
      PROVE  TypeOK'
  BY <1>6 DEF BeginRenew, Enter, TypeOK, Calls, Moments
<1>7. CASE Renew(p)
  <2>1. call[p].claim \in Claims /\ LeaseEnd(p) \in Nat
    BY <1>7, PendingCall, LeaseEndIsMoment DEF Renew, CommitRenewal
  <2>2. [call[p].claim EXCEPT !.expires = LeaseEnd(p)] \in Claims
    BY <2>1 DEF Claims, Moments
  <2>3. handles' \in [Processes -> SUBSET Claims]
    BY <1>7, <2>2 DEF Renew, TypeOK
  <2>4. QED
    BY <1>7, <2>3, RenewalTypeOK DEF Renew, TypeOK
<1>8. CASE RenewReplyLost(p)
  BY <1>8, RenewalTypeOK DEF RenewReplyLost, TypeOK
<1>9. CASE RenewNotHeld(p)
  BY <1>9 DEF RenewNotHeld, Return, TypeOK, Calls
<1>10. ASSUME NEW c \in handles[p], BeginRelease(p, c)
       PROVE  TypeOK'
  BY <1>10 DEF BeginRelease, Enter, TypeOK, Calls, Moments
<1>11. CASE Release(p)
  <2>1. call[p].now \in Nat
    BY <1>11, PendingCall DEF Release
  <2>2. QED
    BY <1>11, <2>1 DEF Release, Return, TypeOK, Calls, Rows, Moments
<1>12. CASE StoreFails(p)
  BY <1>12 DEF StoreFails, Return, TypeOK, Calls
<1>13. CASE Crash(p)
  BY <1>13 DEF Crash, TypeOK, Calls
<1>14. QED
  BY <1>1, <1>2, <1>3, <1>4, <1>5, <1>6, <1>7, <1>8, <1>9, <1>10, <1>11,
     <1>12, <1>13 DEF ProcessStep

(***************************************************************************)
(* Rows, handles and pending calls are always well formed: a row's token    *)
(* counts from one, a handle names a subject, and a call remembers exactly  *)
(* what it has read so far.                                                 *)
(***************************************************************************)
THEOREM TypeCorrect == Spec => []TypeOK
<1>1. Init => TypeOK
  BY DEF Init, TypeOK, NoRow, Rows, Calls, Moments
<1>2. TypeOK /\ [Next]_vars => TypeOK'
  <2>1. ASSUME TypeOK, UNCHANGED vars PROVE TypeOK'
    BY <2>1 DEF vars, TypeOK
  <2>2. ASSUME TypeOK, Tick PROVE TypeOK'
    BY <2>2 DEF Tick, TypeOK, Moments
  <2>3. QED
    BY <2>1, <2>2, StepTypeOK DEF Next
<1>3. QED
  BY <1>1, <1>2, PTL DEF Spec
-----------------------------------------------------------------------------
\* Fencing.

(***************************************************************************)
(* The inductive invariant: a handle names an acquisition no later than the *)
(* row's, the newest one is the owner's, and no token is in two hands.  A   *)
(* process in the middle of a renewal still holds the claim it renews.      *)
(***************************************************************************)
FencingInv ==
    /\ TypeOK
    /\ HandlesNameAcquisitions
    /\ TokensAreUnique
    /\ \A p \in Processes : In(p, "renew") => call[p].claim \in handles[p]

(***************************************************************************)
(* Fencing survives a step that issues no handle and keeps every row's      *)
(* token and owner.                                                         *)
(***************************************************************************)
LEMMA QuietStepKeepsFencing ==
  ASSUME FencingInv, TypeOK',
         \A q \in Processes : handles'[q] \subseteq handles[q],
         \A s \in Subjects : /\ row'[s].token = row[s].token
                             /\ row'[s].owner = row[s].owner
  PROVE  HandlesNameAcquisitions' /\ TokensAreUnique'
<1>1. ASSUME NEW q \in Processes, NEW c \in handles'[q]
      PROVE  c \in handles[q] /\ c.subject \in Subjects
  BY <1>1 DEF FencingInv, TypeOK, Claims
<1>2. HandlesNameAcquisitions'
  BY <1>1 DEF FencingInv, HandlesNameAcquisitions
<1>3. TokensAreUnique'
  BY <1>1 DEF FencingInv, TokensAreUnique
<1>4. QED
  BY <1>2, <1>3

(***************************************************************************)
(* The handle an acquisition returns carries a token above every token      *)
(* handed out before.                                                       *)
(***************************************************************************)
LEMMA GrantKeepsFencing ==
  ASSUME FencingInv, TypeOK', NEW p \in Processes, CommitGrant(p),
         Acquire(p) \/ UNCHANGED handles
  PROVE  HandlesNameAcquisitions' /\ TokensAreUnique'
<1> DEFINE s == call[p].subject
           new == [subject |-> s, token |-> NextToken(p),
                   expires |-> LeaseEnd(p)]
<1>1. /\ s \in Subjects
      /\ NextToken(p) = row[s].token + 1
      /\ row[s].token \in Nat
  BY WinnerSawCurrentToken DEF FencingInv, TypeOK, Rows, CommitGrant
<1>2. /\ row'[s].token = row[s].token + 1
      /\ row'[s].owner = p
      /\ \A t \in Subjects \ {s} : row'[t] = row[t]
  BY <1>1 DEF CommitGrant, FencingInv, TypeOK
<1>3. ASSUME NEW q \in Processes, NEW c \in handles'[q]
      PROVE  c \in handles[q] \/ (q = p /\ c = new)
  BY <1>3 DEF Acquire, FencingInv, TypeOK
<1>4. ASSUME NEW q \in Processes, NEW c \in handles[q]
      PROVE  /\ c.subject \in Subjects
             /\ c.token \in 1..row[c.subject].token
             /\ c.token = row[c.subject].token => row[c.subject].owner = q
             /\ row[c.subject].token \in Nat
  BY <1>4 DEF FencingInv, TypeOK, Claims, Rows, HandlesNameAcquisitions
<1>5. HandlesNameAcquisitions'
  <2>1. ASSUME NEW q \in Processes, NEW c \in handles'[q]
        PROVE  /\ c.token \in 1..row'[c.subject].token
               /\ c.token = row'[c.subject].token => row'[c.subject].owner = q
    <3>1. CASE q = p /\ c = new
      BY <3>1, <1>1, <1>2
    <3>2. CASE c \in handles[q] /\ c.subject = s
      BY <3>2, <1>1, <1>2, <1>4
    <3>3. CASE c \in handles[q] /\ c.subject # s
      BY <3>3, <1>2, <1>4
    <3>4. QED
      BY <2>1, <3>1, <3>2, <3>3, <1>3
  <2>2. QED
    BY <2>1 DEF HandlesNameAcquisitions
<1>6. TokensAreUnique'
  <2>1. ASSUME NEW q \in Processes, NEW r \in Processes,
               NEW c \in handles'[q], NEW d \in handles'[r],
               c.subject = d.subject, c.token = d.token
        PROVE  q = r
    <3>1. CASE c \in handles[q] /\ d \in handles[r]
      BY <3>1, <2>1 DEF FencingInv, TokensAreUnique
    <3>2. ASSUME NEW x \in Processes, NEW e \in handles[x], e.subject = s
          PROVE  e.token # NextToken(p)
      BY <3>2, <1>1, <1>4
    <3>3. QED
      BY <2>1, <3>1, <3>2, <1>3
  <2>2. QED
    BY <2>1 DEF TokensAreUnique
<1>7. QED
  BY <1>5, <1>6

(***************************************************************************)
(* A renewed handle is the same acquisition, held longer.                   *)
(***************************************************************************)
LEMMA RenewalKeepsFencing ==
  ASSUME FencingInv, TypeOK', NEW p \in Processes, Renew(p)
  PROVE  HandlesNameAcquisitions' /\ TokensAreUnique'
<1> DEFINE c == call[p].claim
           new == [c EXCEPT !.expires = LeaseEnd(p)]
<1>1. c \in handles[p] /\ c \in Claims
  BY PendingCall DEF FencingInv, Renew, CommitRenewal
<1>2. new.subject = c.subject /\ new.token = c.token
  BY <1>1 DEF Claims
<1>3. \A s \in Subjects : /\ row'[s].token = row[s].token
                          /\ row'[s].owner = row[s].owner
  BY <1>1 DEF Renew, CommitRenewal, FencingInv, TypeOK, Rows, Claims
<1>4. ASSUME NEW q \in Processes, NEW d \in handles'[q]
      PROVE  \E e \in handles[q] : e.subject = d.subject /\ e.token = d.token
  <2>1. d \in handles[q] \/ (q = p /\ d = new)
    BY <1>4 DEF Renew, FencingInv, TypeOK
  <2>2. QED
    BY <2>1, <1>1, <1>2
<1>5. ASSUME NEW q \in Processes, NEW e \in handles[q]
      PROVE  e.subject \in Subjects
  BY <1>5 DEF FencingInv, TypeOK, Claims
<1>6. HandlesNameAcquisitions'
  BY <1>3, <1>4, <1>5 DEF FencingInv, HandlesNameAcquisitions
<1>7. TokensAreUnique'
  BY <1>4 DEF FencingInv, TokensAreUnique
<1>8. QED
  BY <1>6, <1>7
(***************************************************************************)
(* A pending renewal still holds the claim it renews: only the process      *)
(* itself drops its handles, and never in the middle of a call.             *)
(***************************************************************************)
LEMMA PendingRenewalKeepsHandle ==
  ASSUME FencingInv, TypeOK', NEW p \in Processes, ProcessStep(p),
         NEW q \in Processes, In(q, "renew")'
  PROVE  call'[q].claim \in handles'[q]
<1>1. CASE q # p
  <2>1. call'[q] = call[q] /\ handles'[q] = handles[q]
    BY <1>1 DEF ProcessStep, BeginAcquire, ReadRow, Acquire, AcquireReplyLost,
       CommitGrant, Refuse, BeginRenew, Renew, RenewReplyLost, CommitRenewal,
       RenewNotHeld, BeginRelease, Release, StoreFails, Crash, Enter, Return,
       FencingInv, TypeOK
  <2>2. QED
    BY <2>1 DEF In, FencingInv
<1>2. CASE q = p
  <2>1. \E c \in handles[p], l \in Leases : BeginRenew(p, c, l)
    BY <1>2 DEF ProcessStep, BeginAcquire, ReadRow, Acquire, AcquireReplyLost,
       CommitGrant, Refuse, Renew, RenewReplyLost, CommitRenewal,
       RenewNotHeld, BeginRelease, Release, StoreFails, Crash, Enter, Return,
       FencingInv, TypeOK, In, Idle
  <2>2. QED
    BY <1>2, <2>1 DEF BeginRenew, Enter, FencingInv, TypeOK
<1>3. QED
  BY <1>1, <1>2

\* Every step of a process keeps the fencing invariant.
LEMMA StepKeepsFencing ==
  ASSUME FencingInv, NEW p \in Processes, ProcessStep(p)
  PROVE  FencingInv'
<1>1. TypeOK'
  BY StepTypeOK DEF FencingInv
<1>2. HandlesNameAcquisitions' /\ TokensAreUnique'
  <2>1. CASE Acquire(p) \/ AcquireReplyLost(p)
    BY <2>1, <1>1, GrantKeepsFencing DEF Acquire, AcquireReplyLost
  <2>2. CASE Renew(p)
    BY <2>2, <1>1, RenewalKeepsFencing
  <2>3. CASE ~(Acquire(p) \/ AcquireReplyLost(p) \/ Renew(p))
    <3>1. \A q \in Processes : handles'[q] \subseteq handles[q]
      BY <2>3 DEF ProcessStep, BeginAcquire, ReadRow, Refuse, BeginRenew,
         RenewReplyLost, RenewNotHeld, BeginRelease, Release, StoreFails,
         Crash, FencingInv, TypeOK
    <3>2. \A s \in Subjects : /\ row'[s].token = row[s].token
                              /\ row'[s].owner = row[s].owner
      <4>1. CASE RenewReplyLost(p)
        BY <4>1 DEF RenewReplyLost, CommitRenewal, FencingInv, TypeOK, Rows
      <4>2. CASE Release(p)
        BY <4>2 DEF Release, FencingInv, TypeOK, Rows
      <4>3. QED
        BY <2>3, <4>1, <4>2 DEF ProcessStep, BeginAcquire, ReadRow, Refuse,
           BeginRenew, RenewNotHeld, BeginRelease, StoreFails, Crash
    <3>3. QED
      BY <1>1, <3>1, <3>2, QuietStepKeepsFencing
  <2>4. QED
    BY <2>1, <2>2, <2>3
<1>3. \A q \in Processes : In(q, "renew")' => call'[q].claim \in handles'[q]
  BY <1>1, PendingRenewalKeepsHandle
<1>4. QED
  BY <1>1, <1>2, <1>3 DEF FencingInv, In

\* The fencing invariant holds in every reachable state.
LEMMA FencingInductive == Spec => []FencingInv
<1>1. Init => FencingInv
  <2>1. Init => TypeOK
    BY DEF Init, TypeOK, NoRow, Rows, Calls, Moments
  <2>2. QED
    BY <2>1 DEF Init, FencingInv, HandlesNameAcquisitions, TokensAreUnique, In,
       Idle
<1>2. FencingInv /\ [Next]_vars => FencingInv'
  <2>1. ASSUME FencingInv, Tick \/ UNCHANGED vars PROVE FencingInv'
    <3>1. row' = row /\ handles' = handles /\ call' = call /\ clock' \in Nat
      BY <2>1 DEF Tick, vars, FencingInv, TypeOK, Moments
    <3>2. QED
      BY <2>1, <3>1 DEF FencingInv, TypeOK, HandlesNameAcquisitions,
         TokensAreUnique, In, Moments
  <2>2. QED
    BY <2>1, StepKeepsFencing DEF Next
<1>3. QED
  BY <1>1, <1>2, PTL DEF Spec

(***************************************************************************)
(* However long any process stalls between two steps of a call, and         *)
(* whatever replies are lost: every handle names a real acquisition, the    *)
(* newest one belongs to the row's owner, and no two processes ever hold    *)
(* the same fencing token of a subject.                                     *)
(***************************************************************************)
THEOREM Fencing == Spec => [](HandlesNameAcquisitions /\ TokensAreUnique)
<1>1. FencingInv => HandlesNameAcquisitions /\ TokensAreUnique
  BY DEF FencingInv
<1>2. QED
  BY <1>1, FencingInductive, PTL

(***************************************************************************)
(* A superseded claim changes nothing: a row is written without a new token *)
(* only by a renewal or a release that presents its current token.          *)
(***************************************************************************)
THEOREM OnlyCurrentClaim == Spec => OnlyCurrentClaimAdjusts
<1> DEFINE Adjusted(s) == \E p \in Processes :
                             /\ call[p].op \in {"renew", "release"}
                             /\ call[p].claim.subject = s
                             /\ call[p].claim.token = row[s].token
<1>1. ASSUME TypeOK, [Next]_vars, NEW s \in Subjects, row'[s] # row[s],
             row'[s].token = row[s].token
      PROVE  Adjusted(s)
  <2>1. PICK p \in Processes : ProcessStep(p)
    BY <1>1 DEF Next, Tick, vars
  <2>2. CASE CommitGrant(p)
    <3>1. s = call[p].subject
      BY <2>2, <1>1 DEF CommitGrant, TypeOK
    <3>2. row[s].token \in Nat /\ row'[s].token = row[s].token + 1
      BY <2>2, <3>1, <1>1, WinnerSawCurrentToken DEF CommitGrant, TypeOK, Rows
    <3>3. QED
      BY <3>2, <1>1
  <2>3. CASE CommitRenewal(p)
    BY <2>3, <1>1, PendingCall DEF CommitRenewal, MatchesRenew, In, TypeOK
  <2>4. CASE Release(p)
    <3>1. call[p].claim.subject = s /\ MatchesRelease(p)
      BY <2>4, <1>1 DEF Release, TypeOK, Rows
    <3>2. QED
      BY <2>4, <3>1 DEF Release, MatchesRelease, In
  <2>5. QED
    BY <2>1, <2>2, <2>3, <2>4, <1>1 DEF ProcessStep, BeginAcquire, ReadRow,
       Acquire, AcquireReplyLost, Refuse, BeginRenew, Renew, RenewReplyLost,
       RenewNotHeld, BeginRelease, StoreFails, Crash
<1>2. TypeOK /\ [Next]_vars =>
        [\A s \in Subjects :
            row'[s] # row[s] /\ row'[s].token = row[s].token =>
               Adjusted(s)]_vars
  BY <1>1
<1>3. QED
  BY <1>2, TypeCorrect, PTL DEF Spec, OnlyCurrentClaimAdjusts
-----------------------------------------------------------------------------
\* The store implements fenced leases.

(***************************************************************************)
(* The row a committed write leaves lapses at most the longest lease away,  *)
(* because the clock a call read is never ahead of the clock.               *)
(***************************************************************************)
CallsReadThePast ==
    \A p \in Processes : call[p] # Idle => call[p].now <= clock

\* A pending call read the clock no later than now.
LEMMA CallsReadThePastInductive == Spec => []CallsReadThePast
<1>1. Init => CallsReadThePast
  BY DEF Init, CallsReadThePast
<1>2. ASSUME TypeOK, TypeOK', CallsReadThePast, [Next]_vars
      PROVE  CallsReadThePast'
  <2>1. CASE Tick
    BY <1>2, <2>1 DEF Tick, CallsReadThePast, TypeOK, Calls, Moments
  <2>2. ASSUME NEW p \in Processes, ProcessStep(p) PROVE CallsReadThePast'
    <3>1. clock' = clock /\ \A q \in Processes \ {p} : call'[q] = call[q]
      BY <2>2, <1>2 DEF ProcessStep, BeginAcquire, ReadRow, Acquire,
         AcquireReplyLost, CommitGrant, Refuse, BeginRenew, Renew,
         RenewReplyLost, CommitRenewal, RenewNotHeld, BeginRelease, Release,
         StoreFails, Crash, Enter, Return, TypeOK
    <3>2. \/ call'[p] = Idle
          \/ call'[p].now = clock
          \/ In(p, "read") /\ call'[p].now = call[p].now
      BY <2>2, <1>2 DEF ProcessStep, BeginAcquire, ReadRow, Acquire,
         AcquireReplyLost, CommitGrant, Refuse, BeginRenew, Renew,
         RenewReplyLost, CommitRenewal, RenewNotHeld, BeginRelease, Release,
         StoreFails, Crash, Enter, Return, TypeOK
    <3>3. clock \in Nat
      BY <1>2 DEF TypeOK, Moments
    <3>4. QED
      BY <3>1, <3>2, <3>3, <1>2 DEF CallsReadThePast, In, Idle
  <2>3. CASE UNCHANGED vars
    BY <1>2, <2>3 DEF vars, CallsReadThePast
  <2>4. QED
    BY <1>2, <2>1, <2>2, <2>3 DEF Next
<1>3. QED
  BY <1>1, <1>2, TypeCorrect, PTL DEF Spec

(***************************************************************************)
(* A row that was never claimed has no lease, so an INSERT, too, happens    *)
(* only when no lease is running.                                           *)
(***************************************************************************)
UnclaimedHasNoLease ==
    \A s \in Subjects : row[s].token = 0 => row[s].expires = 0

\* A subject without a row has no lease: its end is the initial one.
LEMMA UnclaimedInductive == Spec => []UnclaimedHasNoLease
<1>1. Init => UnclaimedHasNoLease
  BY DEF Init, UnclaimedHasNoLease, NoRow
<1>2. ASSUME TypeOK, UnclaimedHasNoLease, [Next]_vars
      PROVE  UnclaimedHasNoLease'
  <2>1. CASE Tick \/ UNCHANGED vars
    BY <1>2, <2>1 DEF Tick, vars, UnclaimedHasNoLease
  <2>2. ASSUME NEW p \in Processes, ProcessStep(p) PROVE UnclaimedHasNoLease'
    <3>1. CASE CommitGrant(p)
      <4>1. NextToken(p) # 0
        BY <1>2, <3>1, WinnerSawCurrentToken DEF CommitGrant, Tokens
      <4>2. QED
        BY <1>2, <3>1, <4>1 DEF CommitGrant, UnclaimedHasNoLease, TypeOK
    <3>2. CASE CommitRenewal(p)
      <4>1. row[call[p].claim.subject].token # 0
        BY <1>2, <3>2, PendingCall
           DEF CommitRenewal, MatchesRenew, Claims, Tokens
      <4>2. QED
        BY <1>2, <3>2, <4>1 DEF CommitRenewal, UnclaimedHasNoLease, TypeOK, Rows
    <3>3. CASE Release(p)
      <4>1. MatchesRelease(p) => row[call[p].claim.subject].token # 0
        BY <1>2, <3>3, PendingCall DEF Release, MatchesRelease, Claims, Tokens
      <4>2. QED
        BY <1>2, <3>3, <4>1 DEF Release, UnclaimedHasNoLease, TypeOK, Rows
    <3>4. QED
      BY <1>2, <2>2, <3>1, <3>2, <3>3 DEF ProcessStep, BeginAcquire, ReadRow,
         Acquire, AcquireReplyLost, Refuse, BeginRenew, Renew, RenewReplyLost,
         RenewNotHeld, BeginRelease, StoreFails, Crash, UnclaimedHasNoLease
  <2>3. QED
    BY <1>2, <2>1, <2>2 DEF Next
<1>3. QED
  BY <1>1, <1>2, TypeCorrect, PTL DEF Spec

(***************************************************************************)
(* The detailed store, with its stalls, failures and lost replies, does     *)
(* nothing an atomic fenced lease could not do: ownership changes only when *)
(* the previous one has lapsed at that instant, under the next epoch, and   *)
(* for no longer than the longest lease.                                    *)
(***************************************************************************)
THEOREM Refinement == Spec => ImplementsFencedLease
<1>1. Init => Lease!Init
  BY DEF Init, Lease!Init, NoRow
<1>2. ASSUME TypeOK, CallsReadThePast, UnclaimedHasNoLease, [Next]_vars
      PROVE  [Lease!Next]_(Lease!vars)
  <2>1. CASE Tick
    BY <2>1 DEF Tick, Lease!Next, Lease!Pass
  <2>2. CASE UNCHANGED vars
    BY <2>2 DEF vars, Lease!vars
  <2>3. ASSUME NEW p \in Processes, CommitGrant(p)
        PROVE  \E s \in Subjects : Lease!Grant(s, p)
    <3>0. PICK s \in Subjects : s = call[p].subject
      BY <2>3, <1>2, WinnerSawCurrentToken DEF CommitGrant
    <3>1. In(p, "decide") /\ Wins(p) /\ s = call[p].subject
      BY <2>3, <3>0 DEF CommitGrant
    <3>2. NextToken(p) = row[s].token + 1
      BY <3>1, <1>2, WinnerSawCurrentToken
    <3>3. row' = [row EXCEPT ![s] = [owner |-> p, expires |-> LeaseEnd(p),
                                     token |-> row[s].token + 1]]
      BY <2>3, <3>1, <3>2 DEF CommitGrant
    <3>4. call[p].now \in Nat /\ call[p].now <= clock /\ clock \in Nat
      BY <1>2, <3>1, PendingCall
         DEF CallsReadThePast, In, Idle, TypeOK, Moments
    <3>5. LeaseEnd(p) \in Nat /\ LeaseEnd(p) <= clock + Longest
      BY <3>1, <3>4, <1>2, LeaseEndIsMoment, LeasesAssumption
    <3>6. row[s].expires \in Nat /\ row[s].expires <= clock
      BY <3>1, <3>4, <1>2
         DEF Wins, MatchesTakeOver, UnclaimedHasNoLease, TypeOK, Rows, Moments
    <3>7. Lease!Grant(s, p)
      <4>1. /\ row'[s] = [owner |-> p, expires |-> LeaseEnd(p),
                          token |-> row[s].token + 1]
            /\ \A t \in Subjects \ {s} : row'[t] = row[t]
        BY <3>3, <1>2 DEF TypeOK
      <4>2. /\ row'[s].owner = p
            /\ row'[s].expires = LeaseEnd(p)
            /\ row'[s].token = row[s].token + 1
        BY <4>1
      <4>3. Lease!Lapsed(s)
        BY <3>6 DEF Lease!Lapsed
      <4>4. Lease!MoveLapse(s)
        BY <4>1, <4>2, <3>5 DEF Lease!MoveLapse
      <4>5. clock' = clock
        BY <2>3 DEF CommitGrant
      <4>6. QED
        BY <4>1, <4>2, <4>3, <4>4, <4>5 DEF Lease!Grant
    <3>8. QED
      BY <3>1, <3>7
  <2>4. ASSUME NEW p \in Processes, CommitRenewal(p)
        PROVE  \E s \in Subjects : Lease!Adjust(s)
    <3>0. PICK s \in Subjects : s = call[p].claim.subject
      BY <2>4, <1>2, PendingCall DEF CommitRenewal, Claims
    <3>1. In(p, "renew") /\ s = call[p].claim.subject /\ row[s].token > 0
      BY <2>4, <1>2, <3>0, PendingCall
         DEF CommitRenewal, MatchesRenew, Claims, Tokens
    <3>2. call[p].now \in Nat /\ call[p].now <= clock /\ clock \in Nat
      BY <1>2, <3>1, PendingCall
         DEF CallsReadThePast, In, Idle, TypeOK, Moments
    <3>3. LeaseEnd(p) \in Nat /\ LeaseEnd(p) <= clock + Longest
      BY <3>1, <3>2, <1>2, LeaseEndIsMoment, LeasesAssumption
    <3>4. Lease!Adjust(s)
      BY <3>1, <3>3, <2>4, <1>2
         DEF CommitRenewal, Lease!Adjust, Lease!MoveLapse, TypeOK, Rows
    <3>5. QED
      BY <3>1, <3>4
  <2>5. ASSUME NEW p \in Processes, Release(p)
        PROVE  \/ \E s \in Subjects : Lease!Adjust(s)
               \/ UNCHANGED Lease!vars
    <3>0. PICK s \in Subjects : s = call[p].claim.subject
      BY <2>5, <1>2, PendingCall DEF Release, Claims
    <3>1. s = call[p].claim.subject /\ call[p].now \in Nat
      BY <2>5, <1>2, <3>0, PendingCall DEF Release, Claims
    <3>2. call[p].now <= clock + Longest
      BY <3>1, <2>5, <1>2, LeasesAssumption
         DEF Release, CallsReadThePast, In, Idle, TypeOK, Moments
    <3>3. CASE MatchesRelease(p)
      <4>1. row[s].token > 0
        BY <2>5, <3>1, <3>3, <1>2, PendingCall
           DEF Release, MatchesRelease, Claims, Tokens
      <4>2. Lease!Adjust(s)
        BY <2>5, <3>1, <3>2, <3>3, <4>1, <1>2
           DEF Release, Lease!Adjust, Lease!MoveLapse, TypeOK, Rows
      <4>3. QED
        BY <3>1, <4>2
    <3>4. CASE ~MatchesRelease(p)
      BY <2>5, <3>4, <1>2 DEF Release, Lease!vars, TypeOK, Rows
    <3>5. QED
      BY <3>3, <3>4
  <2>6. ASSUME NEW p \in Processes, ProcessStep(p),
               ~CommitGrant(p), ~CommitRenewal(p), ~Release(p)
        PROVE  UNCHANGED Lease!vars
    BY <2>6 DEF ProcessStep, BeginAcquire, ReadRow, Acquire, AcquireReplyLost,
       Refuse, BeginRenew, Renew, RenewReplyLost, RenewNotHeld, BeginRelease,
       StoreFails, Crash, Lease!vars
  <2>7. QED
    BY <1>2, <2>1, <2>2, <2>3, <2>4, <2>5, <2>6 DEF Next, Lease!Next
<1>3. QED
  BY <1>1, <1>2, TypeCorrect, CallsReadThePastInductive, UnclaimedInductive, PTL
     DEF Spec, ImplementsFencedLease, Lease!Spec
-----------------------------------------------------------------------------
\* A holder is protected until its own handle lapses.

\* One lease length for everybody, as wiring gives every DurableOverlapLock.
OneLease == \A k, l \in Leases : k = l

SameAcquisition(c, d) == c.subject = d.subject /\ c.token = d.token

(***************************************************************************)
(* The inductive invariant: the row outlasts its owner's handle; a handle   *)
(* the row has moved past has lapsed; a process has one handle for one      *)
(* acquisition, and none while it is releasing it; and no handle lasts      *)
(* beyond a lease that starts now, so a renewal never shortens one.         *)
(***************************************************************************)
RowOutlastsHandle ==
    \A p \in Processes : \A c \in handles[p] :
        IF c.token = row[c.subject].token
        THEN c.expires <= row[c.subject].expires
        ELSE c.expires <= clock

OneHandlePerAcquisition ==
    \A p \in Processes :
        /\ \A c, d \in handles[p] : SameAcquisition(c, d) => c = d
        /\ In(p, "release") =>
             \A c \in handles[p] : ~SameAcquisition(c, call[p].claim)

NoHandleBeyondALease ==
    \A p \in Processes : \A l \in Leases :
        /\ \A c \in handles[p] : c.expires <= clock + l
        /\ In(p, "renew") => call[p].claim.expires <= call[p].now + l

ProtectionInv ==
    /\ RowOutlastsHandle
    /\ OneHandlePerAcquisition
    /\ NoHandleBeyondALease

(***************************************************************************)
(* What the step may rely on.                                               *)
(***************************************************************************)
Context == FencingInv /\ CallsReadThePast /\ UnclaimedHasNoLease

\* The facts the protection step relies on hold throughout.
LEMMA ContextInductive == Spec => []Context
  BY FencingInductive, CallsReadThePastInductive, UnclaimedInductive, PTL
     DEF Context

\* Where a handle and the row of its subject stand to each other.
LEMMA HandleFacts ==
  ASSUME FencingInv, NEW q \in Processes, NEW c \in handles[q]
  PROVE  /\ c \in Claims
         /\ c.subject \in Subjects
         /\ c.token \in Nat /\ c.expires \in Nat
         /\ row[c.subject].token \in Nat /\ row[c.subject].expires \in Nat
         /\ c.token <= row[c.subject].token
         /\ c.token = row[c.subject].token => row[c.subject].owner = q
  BY DEF FencingInv, TypeOK, HandlesNameAcquisitions, Claims, Rows, Moments,
     Tokens

(***************************************************************************)
(* A committed acquisition: the row it replaces had lapsed, so every handle *)
(* that matched it has, too.                                                *)
(***************************************************************************)
LEMMA GrantKeepsProtection ==
  ASSUME Context, ProtectionInv, OneLease, NEW p \in Processes,
         CommitGrant(p), Acquire(p) \/ UNCHANGED handles
  PROVE  ProtectionInv'
<1> DEFINE s == call[p].subject
           new == [subject |-> s, token |-> NextToken(p),
                   expires |-> LeaseEnd(p)]
<1> TypeOK
  BY DEF Context, FencingInv
<1>1. /\ s \in Subjects
      /\ NextToken(p) = row[s].token + 1 /\ row[s].token \in Nat
      /\ row[s].expires \in Nat
      /\ call[p].lease \in Leases /\ call[p].lease \in Nat
      /\ call[p].now \in Nat /\ clock \in Nat /\ call[p].now <= clock
      /\ LeaseEnd(p) = call[p].now + call[p].lease
      /\ clock' = clock
      /\ Wins(p)
  BY WinnerSawCurrentToken, PendingCall, LeasesAssumption
     DEF TypeOK, Rows, CommitGrant, LeaseEnd, Context, CallsReadThePast, In,
     Idle, Moments
<1>2. row[s].expires <= clock
  BY <1>1 DEF Wins, MatchesTakeOver, Context, UnclaimedHasNoLease
<1>3. /\ row'[s] = [owner |-> p, expires |-> LeaseEnd(p),
                    token |-> NextToken(p)]
      /\ \A t \in Subjects \ {s} : row'[t] = row[t]
  BY <1>1 DEF CommitGrant, TypeOK
<1>4. ASSUME NEW q \in Processes, NEW c \in handles'[q]
      PROVE  c \in handles[q] \/ (q = p /\ c = new)
  BY <1>4 DEF Acquire, TypeOK
<1>5. \A q \in Processes : In(q, "renew")' \/ In(q, "release")' =>
         q # p /\ call'[q] = call[q]
  BY DEF CommitGrant, Return, In, Idle, TypeOK
<1>6. RowOutlastsHandle'
  <2>1. ASSUME NEW q \in Processes, NEW c \in handles'[q]
        PROVE  IF c.token = row'[c.subject].token
               THEN c.expires <= row'[c.subject].expires
               ELSE c.expires <= clock'
    <3>1. CASE q = p /\ c = new
      BY <3>1, <1>1, <1>3
    <3>2. CASE c \in handles[q] /\ c.subject = s
      <4>1. c.token # row'[s].token /\ c.expires <= clock
        BY <3>2, <1>1, <1>2, <1>3, HandleFacts
           DEF Context, ProtectionInv, RowOutlastsHandle
      <4>2. QED
        BY <3>2, <4>1, <1>1
    <3>3. CASE c \in handles[q] /\ c.subject # s
      BY <3>3, <1>1, <1>3, HandleFacts
         DEF Context, ProtectionInv, RowOutlastsHandle
    <3>4. QED
      BY <2>1, <3>1, <3>2, <3>3, <1>4
  <2>2. QED
    BY <2>1 DEF RowOutlastsHandle
<1>7. OneHandlePerAcquisition'
  <2>1. ASSUME NEW q \in Processes, NEW c \in handles[q]
        PROVE  ~SameAcquisition(c, new)
    BY <2>1, <1>1, HandleFacts DEF Context, SameAcquisition
  <2>2. ASSUME NEW q \in Processes, NEW c \in handles'[q],
               NEW d \in handles'[q], SameAcquisition(c, d)
        PROVE  c = d
    <3>1. SameAcquisition(d, c)
      BY <2>2 DEF SameAcquisition
    <3>2. QED
      BY <2>1, <2>2, <3>1, <1>4 DEF ProtectionInv, OneHandlePerAcquisition
  <2>3. ASSUME NEW q \in Processes, In(q, "release")', NEW c \in handles'[q]
        PROVE  ~SameAcquisition(c, call'[q].claim)
    BY <2>3, <1>4, <1>5 DEF ProtectionInv, OneHandlePerAcquisition, In
  <2>4. QED
    BY <2>2, <2>3 DEF OneHandlePerAcquisition, SameAcquisition
<1>8. NoHandleBeyondALease'
  <2>1. ASSUME NEW q \in Processes, NEW l \in Leases, NEW c \in handles'[q]
        PROVE  c.expires <= clock' + l
    <3>1. l = call[p].lease
      BY <1>1 DEF OneLease
    <3>2. QED
      BY <2>1, <3>1, <1>1, <1>4
         DEF ProtectionInv, NoHandleBeyondALease
  <2>2. QED
    BY <2>1, <1>5 DEF ProtectionInv, NoHandleBeyondALease, In
<1>9. QED
  BY <1>6, <1>7, <1>8 DEF ProtectionInv

(***************************************************************************)
(* A committed renewal, whether or not its reply arrives: the row is moved  *)
(* no closer than the handle's own end.                                     *)
(***************************************************************************)
LEMMA RenewalKeepsProtection ==
  ASSUME Context, ProtectionInv, OneLease, NEW p \in Processes,
         CommitRenewal(p), Renew(p) \/ UNCHANGED handles
  PROVE  ProtectionInv'
<1> DEFINE c0 == call[p].claim
           new == [c0 EXCEPT !.expires = LeaseEnd(p)]
<1> TypeOK
  BY DEF Context, FencingInv
<1>1. /\ c0 \in handles[p] /\ c0 \in Claims /\ c0.subject \in Subjects
      /\ c0.expires \in Nat
      /\ row[c0.subject].token = c0.token
      /\ call[p].lease \in Leases /\ call[p].lease \in Nat
      /\ call[p].now \in Nat /\ clock \in Nat /\ call[p].now <= clock
      /\ LeaseEnd(p) = call[p].now + call[p].lease
      /\ clock' = clock
  BY PendingCall, LeasesAssumption
     DEF CommitRenewal, MatchesRenew, Context, FencingInv, CallsReadThePast,
     Claims, TypeOK, LeaseEnd, In, Idle, Moments
<1>2. c0.expires <= LeaseEnd(p)
  BY <1>1 DEF ProtectionInv, NoHandleBeyondALease, CommitRenewal
<1>3. /\ row'[c0.subject].token = row[c0.subject].token
      /\ row'[c0.subject].expires = LeaseEnd(p)
      /\ \A t \in Subjects \ {c0.subject} : row'[t] = row[t]
  BY <1>1 DEF CommitRenewal, TypeOK, Rows
<1>4. new \in Claims /\ SameAcquisition(new, c0) /\ new.expires = LeaseEnd(p)
  BY <1>1 DEF Claims, SameAcquisition, Moments
<1> HIDE DEF new
<1>5. ASSUME NEW q \in Processes, NEW c \in handles'[q]
      PROVE  \/ c \in handles[q] /\ (c = c0 \/ q # p \/ ~SameAcquisition(c, c0))
             \/ q = p /\ c = new /\ c0 \notin handles'[p]
  <2>1. c \in handles[q] \/ (q = p /\ c = new /\ LeaseEnd(p) > c0.expires)
    BY <1>5 DEF Renew, TypeOK, new
  <2>2. q = p /\ LeaseEnd(p) > c0.expires /\ c = new => c0 \notin handles'[p]
    <3>1. new # c0 \/ ~(LeaseEnd(p) > c0.expires)
      BY <1>1, <1>4
    <3>2. CASE Renew(p)
      BY <3>1, <3>2, <1>1 DEF Renew, TypeOK, new
    <3>3. CASE handles' = handles
      <4>1. c = new /\ c \in handles[p] => c = c0
        BY <1>1, <1>4 DEF ProtectionInv, OneHandlePerAcquisition
      <4>2. QED
        BY <4>1, <3>1, <3>3, <1>5
    <3>4. QED
      BY <3>2, <3>3
  <2>3. c \in handles[q] /\ q = p /\ SameAcquisition(c, c0) => c = c0
    BY <1>1 DEF ProtectionInv, OneHandlePerAcquisition
  <2>4. QED
    BY <2>1, <2>2, <2>3
<1>6. \A q \in Processes : In(q, "renew")' \/ In(q, "release")' =>
         q # p /\ call'[q] = call[q]
  BY DEF CommitRenewal, Return, In, Idle, TypeOK
<1>7. RowOutlastsHandle'
  <2>1. ASSUME NEW q \in Processes, NEW c \in handles'[q]
        PROVE  IF c.token = row'[c.subject].token
               THEN c.expires <= row'[c.subject].expires
               ELSE c.expires <= clock'
    <3>1. CASE c = new
      BY <3>1, <1>1, <1>3, <1>4 DEF SameAcquisition
    <3>2. CASE c = c0
      BY <3>2, <1>1, <1>2, <1>3
    <3>3. CASE c \in handles[q] /\ c.subject = c0.subject /\ c.token = c0.token
      <4>1. q = p
        BY <3>3, <1>1 DEF Context, FencingInv, TokensAreUnique
      <4>2. c = c0
        BY <3>3, <4>1, <1>1
           DEF ProtectionInv, OneHandlePerAcquisition, SameAcquisition
      <4>3. QED
        BY <4>2, <3>2
    <3>4. CASE c \in handles[q] /\ c.subject = c0.subject /\ c.token # c0.token
      BY <3>4, <1>1, <1>3 DEF ProtectionInv, RowOutlastsHandle
    <3>5. CASE c \in handles[q] /\ c.subject # c0.subject
      BY <3>5, <1>1, <1>3, HandleFacts
         DEF Context, ProtectionInv, RowOutlastsHandle
    <3>6. QED
      BY <2>1, <3>1, <3>3, <3>4, <3>5, <1>5
  <2>2. QED
    BY <2>1 DEF RowOutlastsHandle
<1>8. OneHandlePerAcquisition'
  <2>1. ASSUME NEW q \in Processes, NEW c \in handles'[q],
               NEW d \in handles'[q], SameAcquisition(c, d)
        PROVE  c = d
    <3>1. CASE c \in handles[q] /\ d \in handles[q]
      BY <2>1, <3>1 DEF ProtectionInv, OneHandlePerAcquisition
    <3>2. ASSUME NEW e \in handles'[p], SameAcquisition(e, c0) \/ SameAcquisition(c0, e),
                 new \in handles'[p], c0 \notin handles'[p]
          PROVE  e = new
      BY <3>2, <1>5 DEF SameAcquisition
    <3>3. CASE q = p /\ c0 \notin handles'[p] /\ (c = new \/ d = new)
      BY <2>1, <3>2, <3>3, <1>4 DEF SameAcquisition
    <3>4. QED
      BY <2>1, <3>1, <3>3, <1>5
  <2>2. ASSUME NEW q \in Processes, In(q, "release")', NEW c \in handles'[q]
        PROVE  ~SameAcquisition(c, call'[q].claim)
    BY <2>2, <1>5, <1>6 DEF ProtectionInv, OneHandlePerAcquisition, In
  <2>3. QED
    BY <2>1, <2>2 DEF OneHandlePerAcquisition, SameAcquisition
<1>9. NoHandleBeyondALease'
  <2>1. ASSUME NEW q \in Processes, NEW l \in Leases, NEW c \in handles'[q]
        PROVE  c.expires <= clock' + l
    <3>1. l = call[p].lease
      BY <1>1 DEF OneLease
    <3>2. QED
      BY <2>1, <3>1, <1>1, <1>4, <1>5 DEF ProtectionInv, NoHandleBeyondALease
  <2>2. QED
    BY <2>1, <1>6 DEF ProtectionInv, NoHandleBeyondALease, In
<1>10. QED
  BY <1>7, <1>8, <1>9 DEF ProtectionInv

(***************************************************************************)
(* A release moves the row's end, but the releasing process has already     *)
(* forgotten its handle, and nobody else holds that acquisition.            *)
(***************************************************************************)
LEMMA ReleaseKeepsProtection ==
  ASSUME Context, ProtectionInv, NEW p \in Processes, Release(p)
  PROVE  ProtectionInv'
<1> DEFINE c0 == call[p].claim
<1> TypeOK
  BY DEF Context, FencingInv
<1>1. /\ c0 \in Claims /\ c0.subject \in Subjects
      /\ handles' = handles /\ clock' = clock
  BY PendingCall DEF Release, Claims
<1>2. \A q \in Processes : In(q, "renew")' \/ In(q, "release")' =>
         call'[q] = call[q]
  BY DEF Release, Return, In, Idle, TypeOK
<1>3. ASSUME NEW q \in Processes, NEW c \in handles[q]
      PROVE  IF c.token = row'[c.subject].token
             THEN c.expires <= row'[c.subject].expires
             ELSE c.expires <= clock
  <2>1. row'[c.subject].token = row[c.subject].token
    BY <1>1, HandleFacts DEF Release, TypeOK, Rows, Context
  <2>2. CASE row'[c.subject] = row[c.subject]
    BY <2>2 DEF ProtectionInv, RowOutlastsHandle
  <2>3. CASE row'[c.subject] # row[c.subject]
    <3>1. c.subject = c0.subject /\ MatchesRelease(p)
      BY <2>3, <1>1, HandleFacts DEF Release, TypeOK, Rows, Context
    <3>2. c.token # row[c.subject].token
      BY <3>1, HandleFacts DEF Context, MatchesRelease, ProtectionInv,
         OneHandlePerAcquisition, SameAcquisition, Release
    <3>3. QED
      BY <2>1, <3>2 DEF ProtectionInv, RowOutlastsHandle
  <2>4. QED
    BY <2>2, <2>3
<1>4. RowOutlastsHandle'
  BY <1>1, <1>3 DEF RowOutlastsHandle
<1>5. OneHandlePerAcquisition'
  BY <1>1, <1>2 DEF ProtectionInv, OneHandlePerAcquisition, SameAcquisition, In
<1>6. NoHandleBeyondALease'
  BY <1>1, <1>2 DEF ProtectionInv, NoHandleBeyondALease, In
<1>7. QED
  BY <1>4, <1>5, <1>6 DEF ProtectionInv

(***************************************************************************)
(* A step that leaves the rows alone and issues no handle.                  *)
(***************************************************************************)
LEMMA QuietStepKeepsProtection ==
  ASSUME Context, ProtectionInv, NEW p \in Processes, ProcessStep(p),
         ~Acquire(p), ~AcquireReplyLost(p), ~Renew(p), ~RenewReplyLost(p),
         ~Release(p)
  PROVE  ProtectionInv'
<1> TypeOK
  BY DEF Context, FencingInv
<1>1. row' = row /\ clock' = clock
  BY DEF ProcessStep, BeginAcquire, ReadRow, Refuse, BeginRenew, RenewNotHeld,
     BeginRelease, StoreFails, Crash
<1>2. \A q \in Processes : handles'[q] \subseteq handles[q]
  BY DEF ProcessStep, BeginAcquire, ReadRow, Refuse, BeginRenew, RenewNotHeld,
     BeginRelease, StoreFails, Crash, TypeOK
<1>3. ASSUME NEW q \in Processes, In(q, "renew")'
      PROVE  \/ In(q, "renew") /\ call'[q] = call[q]
             \/ call'[q].claim \in handles[q] /\ call'[q].now = clock
  BY <1>3 DEF ProcessStep, BeginAcquire, ReadRow, Refuse, BeginRenew, RenewNotHeld,
     BeginRelease, StoreFails, Crash, TypeOK, Enter, Return, In, Idle
<1>4. ASSUME NEW q \in Processes, In(q, "release")'
      PROVE  \/ In(q, "release") /\ call'[q] = call[q]
             \/ /\ call'[q].claim \in handles[q]
                /\ call'[q].claim \notin handles'[q]
  BY <1>4 DEF ProcessStep, BeginAcquire, ReadRow, Refuse, BeginRenew, RenewNotHeld,
     BeginRelease, StoreFails, Crash, TypeOK, Enter, Return, In, Idle
<1>5. RowOutlastsHandle'
  BY <1>1, <1>2 DEF ProtectionInv, RowOutlastsHandle
<1>6. OneHandlePerAcquisition'
  <2>1. ASSUME NEW q \in Processes, In(q, "release")', NEW c \in handles'[q]
        PROVE  ~SameAcquisition(c, call'[q].claim)
    BY <2>1, <1>2, <1>4 DEF ProtectionInv, OneHandlePerAcquisition
  <2>2. QED
    BY <2>1, <1>2 DEF ProtectionInv, OneHandlePerAcquisition, SameAcquisition
<1>7. NoHandleBeyondALease'
  <2>1. ASSUME NEW q \in Processes, NEW l \in Leases, In(q, "renew")'
        PROVE  call'[q].claim.expires <= call'[q].now + l
    BY <2>1, <1>3 DEF ProtectionInv, NoHandleBeyondALease
  <2>2. QED
    BY <2>1, <1>1, <1>2 DEF ProtectionInv, NoHandleBeyondALease
<1>8. QED
  BY <1>5, <1>6, <1>7 DEF ProtectionInv

\* The clock alone takes no protection away before its time.
LEMMA TimeKeepsProtection ==
  ASSUME Context, ProtectionInv, Tick \/ UNCHANGED vars
  PROVE  ProtectionInv'
<1>1. /\ row' = row /\ handles' = handles /\ call' = call
      /\ clock \in Nat /\ clock' \in Nat /\ clock <= clock'
  BY DEF Tick, vars, Context, FencingInv, TypeOK, Moments
<1>2. RowOutlastsHandle'
  BY <1>1, HandleFacts DEF Context, ProtectionInv, RowOutlastsHandle
<1>3. OneHandlePerAcquisition'
  BY <1>1 DEF ProtectionInv, OneHandlePerAcquisition, SameAcquisition, In
<1>4. NoHandleBeyondALease'
  BY <1>1, HandleFacts, LeasesAssumption
     DEF Context, ProtectionInv, NoHandleBeyondALease, In
<1>5. QED
  BY <1>2, <1>3, <1>4 DEF ProtectionInv

(***************************************************************************)
(* With one lease length, a holder is protected for as long as its own      *)
(* handle says: until then the row names it, under its token, and lasts at  *)
(* least as long, so nobody else can be granted the subject.  (With two     *)
(* lengths it is not so: renew writes a shorter end before it refuses it.)  *)
(***************************************************************************)
THEOREM Protection == OneLease => (Spec => []ClaimProtected)
<1> SUFFICES ASSUME OneLease PROVE Spec => []ClaimProtected
  OBVIOUS
<1>1. Init => ProtectionInv
  BY DEF Init, ProtectionInv, RowOutlastsHandle, OneHandlePerAcquisition,
     NoHandleBeyondALease, In, Idle
<1>2. Context /\ ProtectionInv /\ [Next]_vars => ProtectionInv'
  <2>1. ASSUME Context, ProtectionInv, NEW p \in Processes, ProcessStep(p)
        PROVE  ProtectionInv'
    <3>1. CASE Acquire(p) \/ AcquireReplyLost(p)
      BY <2>1, <3>1, GrantKeepsProtection DEF Acquire, AcquireReplyLost
    <3>2. CASE Renew(p) \/ RenewReplyLost(p)
      BY <2>1, <3>2, RenewalKeepsProtection DEF Renew, RenewReplyLost
    <3>3. CASE Release(p)
      BY <2>1, <3>3, ReleaseKeepsProtection
    <3>4. QED
      BY <2>1, <3>1, <3>2, <3>3, QuietStepKeepsProtection
  <2>2. QED
    BY <2>1, TimeKeepsProtection DEF Next
<1>3. Context /\ ProtectionInv => ClaimProtected
  <2>1. ASSUME Context, ProtectionInv, NEW p \in Processes,
               NEW c \in handles[p], clock < c.expires
        PROVE  c.token = row[c.subject].token
    <3>1. clock \in Nat /\ c.expires \in Nat
      BY <2>1, HandleFacts DEF Context, FencingInv, TypeOK, Moments
    <3>2. QED
      BY <2>1, <3>1 DEF ProtectionInv, RowOutlastsHandle
  <2>2. QED
    BY <2>1, HandleFacts
       DEF Context, ProtectionInv, RowOutlastsHandle, ClaimProtected
<1>4. QED
  BY <1>1, <1>2, <1>3, ContextInductive, PTL DEF Spec
=============================================================================
