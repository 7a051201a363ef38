-------------------------- MODULE AppleCredentials --------------------------
(***************************************************************************)
(* The refresh tokens of Sign in with Apple: stored at login, detached by  *)
(* the deletion of the account, and revoked at Apple by a worker in every  *)
(* API replica (internal/identity/apple_credentials.go, createLogin in     *)
(* service.go, the ticker in cmd/api/main.go).  The table is the queue:    *)
(* a row without a user is a revocation that is still owed.                *)
(*                                                                         *)
(* Time passes in minutes.  A batch is cancelled after 45 seconds, so none *)
(* runs into the next minute; wait[t] is next_attempt_at relative to now.  *)
(***************************************************************************)
EXTENDS Integers, FiniteSetsExt

CONSTANTS
    Subject,    \* Apple subjects, that is, people who sign in
    Token,      \* refresh tokens Apple issues, one per authorization code
    Sealed,     \* those whose ciphertext the current key does not open
    Replica,    \* API processes, each with its revocation worker
    BatchSize,  \* rows a batch takes at most, 10 in the code
    MaxShift,   \* the exponent the backoff stops at, 10 in the code
    MaxAge,     \* bound on how long overdue a row is remembered to be
    MaxFaults,  \* bound on outages of Apple and of the database
    None        \* no account, no claim

ASSUME CredentialAssumption ==
    /\ Sealed \subseteq Token
    /\ BatchSize \in Nat \ {0} /\ MaxShift \in Nat /\ MaxAge \in Nat
    /\ MaxFaults \in Nat /\ None \notin Token

VARIABLES
    holder,     \* holder[s]: the token stored for the account of s, if any
    detached,   \* tokens in rows whose user_id is NULL
    attempts,   \* the attempts of a token's row, up to MaxShift
    wait,       \* minutes until a token's row is due; due at 0 and below
    revoked,    \* tokens Apple has revoked
    issued,     \* tokens Apple has issued
    pc,         \* where each replica's worker stands
    claim,      \* the row each worker has locked
    left,       \* how many rows each worker may still take in its batch
    faults      \* outages so far

vars == <<holder, detached, attempts, wait, revoked, issued, pc, claim, left, faults>>
workers == <<pc, claim, left>>

-----------------------------------------------------------------------------
Delay(n) == 2 ^ n
NextShift(n) == IF n < MaxShift THEN n + 1 ELSE MaxShift

Claimed == {claim[w] : w \in Replica} \ {None}

Init ==
    /\ holder = [s \in Subject |-> None]
    /\ detached = {}
    /\ attempts = [t \in Token |-> 0]
    /\ wait = [t \in Token |-> 0]
    /\ revoked = {}
    /\ issued = {}
    /\ pc = [w \in Replica |-> "due"]
    /\ claim = [w \in Replica |-> None]
    /\ left = [w \in Replica |-> BatchSize]
    /\ faults = 0

Fault == faults < MaxFaults /\ faults' = faults + 1

-----------------------------------------------------------------------------
\* LoginWithAuthorizationCode: the code is exchanged for a token, which the login
\* transaction stores in the one row of the account, over what was there.
Login(s, t) ==
    /\ t \notin issued
    /\ issued' = issued \cup {t}
    /\ holder' = [holder EXCEPT ![s] = t]
    /\ attempts' = [attempts EXCEPT ![t] = 0]
    /\ wait' = [wait EXCEPT ![t] = 0]
    /\ UNCHANGED <<detached, revoked, faults, workers>>

\* The exchange has happened and the login fails after it.
LoginFails(t) ==
    /\ t \notin issued
    /\ issued' = issued \cup {t}
    /\ Fault
    /\ UNCHANGED <<holder, detached, attempts, wait, revoked, workers>>

\* DELETE /me: the foreign key detaches the row (ON DELETE SET NULL).
DeleteAccount(s) ==
    /\ holder[s] # None
    /\ detached' = detached \cup {holder[s]}
    /\ holder' = [holder EXCEPT ![s] = None]
    /\ UNCHANGED <<attempts, wait, revoked, issued, faults, workers>>

-----------------------------------------------------------------------------
\* Fault: the rows of living accounts are taken too.
DueOfAnyone ==
    {t \in (detached \cup {holder[s] : s \in Subject}) \ {None} : wait[t] <= 0}

\* Rows the worker's SELECT ranges over.
Due == {t \in detached : wait[t] <= 0}

\* Fault: SELECT without FOR UPDATE SKIP LOCKED.
ClaimableIgnoringLocks == {t \in Due : \A u \in Due : wait[t] <= wait[u]}

\* ORDER BY next_attempt_at LIMIT 1 FOR UPDATE SKIP LOCKED.
Claimable ==
    LET free == Due \ Claimed
    IN  {t \in free : \A u \in free : wait[t] <= wait[u]}

\* The batch takes its next row, or ends because there is none.
Claim(w) ==
    /\ pc[w] = "due"
    /\ \/ \E t \in Claimable :
              /\ claim' = [claim EXCEPT ![w] = t]
              /\ pc' = [pc EXCEPT ![w] = "revoke"]
       \/ /\ Claimable = {}
          /\ pc' = [pc EXCEPT ![w] = "asleep"]
          /\ UNCHANGED claim
    /\ UNCHANGED <<holder, detached, attempts, wait, revoked, issued, left, faults>>

\* The token is opened and Apple is asked: it confirms, ...
Revoke(w) ==
    /\ pc[w] = "revoke"
    /\ claim[w] \notin Sealed
    /\ revoked' = revoked \cup {claim[w]}
    /\ pc' = [pc EXCEPT ![w] = "delete"]
    /\ UNCHANGED <<holder, detached, attempts, wait, issued, claim, left, faults>>

\* ... or the ciphertext does not open, ...
OpenFails(w) ==
    /\ pc[w] = "revoke"
    /\ claim[w] \in Sealed
    /\ pc' = [pc EXCEPT ![w] = "reschedule"]
    /\ UNCHANGED <<holder, detached, attempts, wait, revoked, issued, claim, left,
                   faults>>

\* ... or Apple refuses, or its confirmation does not arrive.
RevokeFails(w) ==
    /\ pc[w] = "revoke"
    /\ claim[w] \notin Sealed
    /\ revoked' \in {revoked, revoked \cup {claim[w]}}
    /\ pc' = [pc EXCEPT ![w] = "reschedule"]
    /\ Fault
    /\ UNCHANGED <<holder, detached, attempts, wait, issued, claim, left>>

\* The transaction has committed: the lock is free, and the batch goes on unless
\* the commit was not acknowledged, which ends it like any other error.
NextRow(w) ==
    /\ claim' = [claim EXCEPT ![w] = None]
    /\ left' = [left EXCEPT ![w] = @ - 1]
    /\ \/ /\ pc' = [pc EXCEPT ![w] = IF left[w] > 1 THEN "due" ELSE "asleep"]
          /\ UNCHANGED faults
       \/ /\ pc' = [pc EXCEPT ![w] = "asleep"]
          /\ Fault

DeleteRow(w) ==
    /\ pc[w] = "delete"
    /\ detached' = detached \ {claim[w]}
    /\ NextRow(w)
    /\ UNCHANGED <<holder, attempts, wait, revoked, issued>>

\* Fault: a row that has used up its attempts is dropped.
RescheduleOrDrop(w) ==
    /\ pc[w] = "reschedule"
    /\ detached' = IF attempts[claim[w]] = MaxShift THEN detached \ {claim[w]} ELSE detached
    /\ attempts' = [attempts EXCEPT ![claim[w]] = NextShift(@)]
    /\ wait' = [wait EXCEPT ![claim[w]] = Delay(attempts[claim[w]])]
    /\ NextRow(w)
    /\ UNCHANGED <<holder, revoked, issued>>

\* Fault: the attempt is counted and the row stays due.
RescheduleNow(w) ==
    /\ pc[w] = "reschedule"
    /\ attempts' = [attempts EXCEPT ![claim[w]] = NextShift(@)]
    /\ NextRow(w)
    /\ UNCHANGED <<holder, detached, wait, revoked, issued>>

\* Fault: the shift grows past its limit.
RescheduleUncapped(w) ==
    /\ pc[w] = "reschedule"
    /\ attempts' = [attempts EXCEPT ![claim[w]] = @ + 1]
    /\ wait' = [wait EXCEPT ![claim[w]] = Delay(attempts[claim[w]])]
    /\ NextRow(w)
    /\ UNCHANGED <<holder, detached, revoked, issued>>

Reschedule(w) ==
    /\ pc[w] = "reschedule"
    /\ attempts' = [attempts EXCEPT ![claim[w]] = NextShift(@)]
    /\ wait' = [wait EXCEPT ![claim[w]] = Delay(attempts[claim[w]])]
    /\ NextRow(w)
    /\ UNCHANGED <<holder, detached, revoked, issued>>

\* The transaction is lost (the deadline of the batch, a database error, the death
\* of the process): the row is as it was and the batch is over.
Abort(w) ==
    /\ pc[w] \in {"revoke", "delete", "reschedule"}
    /\ Fault
    /\ claim' = [claim EXCEPT ![w] = None]
    /\ pc' = [pc EXCEPT ![w] = "asleep"]
    /\ UNCHANGED <<holder, detached, attempts, wait, revoked, issued, left>>

\* The next minute: every ticker fires and every row is a minute older.
Minute ==
    /\ \A w \in Replica : pc[w] = "asleep"
    /\ wait' = [t \in Token |-> IF wait[t] > -MaxAge THEN wait[t] - 1 ELSE -MaxAge]
    /\ pc' = [w \in Replica |-> "due"]
    /\ left' = [w \in Replica |-> BatchSize]
    /\ UNCHANGED <<holder, detached, attempts, revoked, issued, claim, faults>>

-----------------------------------------------------------------------------
Work(w) ==
    Claim(w) \/ Revoke(w) \/ OpenFails(w) \/ DeleteRow(w) \/ Reschedule(w)

Next ==
    \/ \E s \in Subject, t \in Token : Login(s, t)
    \/ \E t \in Token : LoginFails(t)
    \/ \E s \in Subject : DeleteAccount(s)
    \/ \E w \in Replica : Work(w) \/ RevokeFails(w) \/ Abort(w)
    \/ Minute

Spec == Init /\ [][Next]_vars

\* The workers run and the minutes pass; Apple answers but for MaxFaults times.
FairSpec == Spec /\ WF_vars(Minute) /\ \A w \in Replica : WF_vars(Work(w))

-----------------------------------------------------------------------------
\* The variables keep their types; the backoff never shifts beyond its limit.
TypeOK ==
    /\ holder \in [Subject -> Token \cup {None}]
    /\ detached \subseteq Token
    /\ attempts \in [Token -> 0 .. MaxShift]
    /\ wait \in [Token -> -MaxAge .. Delay(MaxShift)]
    /\ revoked \subseteq issued /\ issued \subseteq Token
    /\ pc \in [Replica -> {"asleep", "due", "revoke", "delete", "reschedule"}]
    /\ claim \in [Replica -> Token \cup {None}]
    /\ left \in [Replica -> 0 .. BatchSize]
    /\ faults \in 0 .. MaxFaults

\* The lock of a claimed row keeps the other replicas from taking it, so that no
\* revocation is sent by two of them at a time (comment at ProcessAppleRevocations).
ClaimsAreExclusive ==
    \A v, w \in Replica : claim[v] # None /\ claim[v] = claim[w] => v = w

\* A detached token leaves the queue only when Apple has revoked it, whatever is
\* lost and however often it was tried in vain.
OnlyRevokedTokensLeave ==
    [][\A t \in detached \ detached' : t \in revoked]_vars

\* The worker never revokes the token of an account that is still there.
SignedInTokensAreKept == \A s \in Subject : holder[s] \notin revoked

\* Every account that is deleted has its token revoked in the end, although Apple
\* and the database fail at times and although there are rows no try can revoke,
\* which stay in the queue for ever and must not hold up the others.
DetachedTokensAreRevoked ==
    \A t \in Token \ Sealed : t \in detached ~> t \in revoked /\ t \notin detached
=============================================================================
