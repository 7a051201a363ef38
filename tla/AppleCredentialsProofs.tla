----------------------- MODULE AppleCredentialsProofs -----------------------
(***************************************************************************)
(* Theorems about AppleCredentials for any number of people, tokens and    *)
(* replicas, any batch size and any limit of the backoff.  CredentialInv   *)
(* says at which steps a worker holds a row and what it knows of it, and   *)
(* that a token is at one place only: with an account, in the queue of     *)
(* revocations, or gone.                                                   *)
(***************************************************************************)
EXTENDS AppleCredentials, FiniteSetTheorems, TLAPS

\* A worker holds a row from its SELECT to the end of its transaction; the row
\* stays in the queue, and before its DELETE Apple has confirmed the revocation.
WorkerInv ==
    \A w \in Replica :
        /\ claim[w] # None <=> pc[w] \in {"revoke", "delete", "reschedule"}
        /\ claim[w] # None => claim[w] \in detached
        /\ pc[w] = "delete" => claim[w] \in revoked
        /\ pc[w] # "asleep" => left[w] >= 1

\* A token is with one account at most, and then neither owed nor revoked.
HolderInv ==
    /\ detached \subseteq issued
    /\ \A s \in Subject : holder[s] # None =>
           holder[s] \in issued /\ holder[s] \notin detached /\ holder[s] \notin revoked
    /\ \A s, r \in Subject : holder[s] # None /\ holder[s] = holder[r] => s = r

\* The inductive invariant behind ClaimsAreExclusive and SignedInTokensAreKept.
CredentialInv ==
    /\ TypeOK
    /\ WorkerInv
    /\ HolderInv
    /\ ClaimsAreExclusive

-----------------------------------------------------------------------------
\* The delays grow with the shift: 2^n is the number of subsets of 1 .. n, which
\* are subsets of 1 .. m as well.
LEMMA DelayGrows ==
    ASSUME NEW m \in Nat, NEW n \in 0 .. m
    PROVE  Delay(n) \in 1 .. Delay(m)
<1>1. ASSUME NEW k \in Nat
      PROVE  IsFiniteSet(SUBSET (1 .. k)) /\ Cardinality(SUBSET (1 .. k)) = Delay(k)
  <2>1. IsFiniteSet(1 .. k) /\ Cardinality(1 .. k) = k
    BY FS_Interval
  <2> QED
    BY <2>1, FS_SUBSET DEF Delay
<1>2. SUBSET (1 .. n) \in SUBSET (SUBSET (1 .. m))
  <2>1. 1 .. n \subseteq 1 .. m
    OBVIOUS
  <2> QED
    BY <2>1
<1>3. n \in Nat
  OBVIOUS
<1>4. Cardinality(SUBSET (1 .. n)) <= Cardinality(SUBSET (1 .. m))
  BY <1>1, <1>2, FS_Subset
<1>5. Cardinality(SUBSET (1 .. n)) \in Nat /\ Cardinality(SUBSET (1 .. m)) \in Nat
  BY <1>1, <1>3, FS_CardinalityType
<1>6. Cardinality(SUBSET (1 .. n)) # 0
  <2>1. SUBSET (1 .. n) # {}
    OBVIOUS
  <2> QED
    BY <1>1, <1>3, <2>1, FS_EmptySet
<1> QED
  BY <1>1, <1>3, <1>4, <1>5, <1>6

\* In the initial state nothing is issued and nobody works.
LEMMA CredentialInit == Init => CredentialInv
<1> SUFFICES ASSUME Init PROVE CredentialInv
  OBVIOUS
<1>1. 0 \in -MaxAge .. Delay(MaxShift) /\ 0 \in 0 .. MaxShift
  BY CredentialAssumption, DelayGrows
<1>2. TypeOK
  BY <1>1, CredentialAssumption DEF Init, TypeOK
<1>3. WorkerInv /\ HolderInv /\ ClaimsAreExclusive
  BY CredentialAssumption DEF Init, WorkerInv, HolderInv, ClaimsAreExclusive
<1> QED
  BY <1>2, <1>3 DEF CredentialInv

\* The end of a transaction frees the row and uses up one of the batch's rows.
LEMMA NextRowFacts ==
    ASSUME CredentialInv, NEW w \in Replica, NextRow(w), pc[w] \in {"delete", "reschedule"}
    PROVE  /\ claim' = [claim EXCEPT ![w] = None]
           /\ pc' \in [Replica -> {"asleep", "due", "revoke", "delete", "reschedule"}]
           /\ pc'[w] \in {"due", "asleep"}
           /\ left' \in [Replica -> 0 .. BatchSize]
           /\ pc'[w] = "due" => left'[w] >= 1
           /\ \A v \in Replica : v # w => pc'[v] = pc[v] /\ left'[v] = left[v]
           /\ faults' \in 0 .. MaxFaults
<1>1. TypeOK /\ left[w] >= 1
  BY DEF CredentialInv, WorkerInv
<1>2. BatchSize \in Nat /\ MaxFaults \in Nat
  BY CredentialAssumption
<1>3. left[w] \in 1 .. BatchSize /\ left[w] - 1 \in 0 .. BatchSize
  BY <1>1, <1>2 DEF TypeOK
<1>4. left' = [left EXCEPT ![w] = left[w] - 1]
  BY DEF NextRow
<1>5. /\ left' \in [Replica -> 0 .. BatchSize]
      /\ left'[w] = left[w] - 1
      /\ \A v \in Replica : v # w => left'[v] = left[v]
  BY <1>1, <1>3, <1>4 DEF TypeOK
<1>6. \/ pc' = [pc EXCEPT ![w] = IF left[w] > 1 THEN "due" ELSE "asleep"]
      \/ pc' = [pc EXCEPT ![w] = "asleep"]
  BY DEF NextRow
<1>7. /\ pc' \in [Replica -> {"asleep", "due", "revoke", "delete", "reschedule"}]
      /\ pc'[w] \in {"due", "asleep"}
      /\ pc'[w] = "due" => left[w] > 1
      /\ \A v \in Replica : v # w => pc'[v] = pc[v]
  BY <1>1, <1>6 DEF TypeOK
<1>8. faults' \in 0 .. MaxFaults
  BY <1>1, <1>2 DEF NextRow, Fault, TypeOK
<1>9. pc'[w] = "due" => left'[w] >= 1
  BY <1>3, <1>5, <1>7
<1> QED
  BY <1>5, <1>7, <1>8, <1>9 DEF NextRow

\* Every step keeps the invariant.
LEMMA CredentialStep == CredentialInv /\ [Next]_vars => CredentialInv'
<1> SUFFICES ASSUME CredentialInv, [Next]_vars PROVE CredentialInv'
  OBVIOUS
<1>0. TypeOK /\ WorkerInv /\ HolderInv /\ ClaimsAreExclusive
  BY DEF CredentialInv
<1>1. /\ Sealed \subseteq Token /\ BatchSize \in Nat \ {0} /\ MaxShift \in Nat
      /\ MaxAge \in Nat /\ MaxFaults \in Nat /\ None \notin Token
  BY CredentialAssumption
<1>2. 0 \in -MaxAge .. Delay(MaxShift) /\ 0 \in 0 .. MaxShift /\ Delay(MaxShift) \in Nat
  BY <1>1, DelayGrows
<1> USE <1>0 DEF TypeOK, WorkerInv, HolderInv, ClaimsAreExclusive, CredentialInv
<1>3. ASSUME NEW s \in Subject, NEW t \in Token, Login(s, t) PROVE CredentialInv'
  BY <1>1, <1>2, <1>3 DEF Login, workers
<1>4. ASSUME NEW t \in Token, LoginFails(t) PROVE CredentialInv'
  BY <1>1, <1>4 DEF LoginFails, Fault, workers
<1>5. ASSUME NEW s \in Subject, DeleteAccount(s) PROVE CredentialInv'
  BY <1>1, <1>5 DEF DeleteAccount, workers
<1>6. ASSUME NEW w \in Replica, Claim(w) PROVE CredentialInv'
  <2>1. ASSUME NEW t \in Claimable, claim' = [claim EXCEPT ![w] = t],
               pc' = [pc EXCEPT ![w] = "revoke"]
        PROVE  CredentialInv'
    <3>1. t \in detached /\ t \in Token /\ \A v \in Replica : claim[v] # t
      BY <1>1 DEF Claimable, Due, Claimed
    <3> QED
      BY <1>1, <1>6, <2>1, <3>1 DEF Claim
  <2>2. CASE pc' = [pc EXCEPT ![w] = "asleep"] /\ UNCHANGED claim
    BY <1>1, <1>6, <2>2 DEF Claim
  <2> QED
    BY <1>6, <2>1, <2>2 DEF Claim
<1>7. ASSUME NEW w \in Replica, Revoke(w) PROVE CredentialInv'
  BY <1>1, <1>7 DEF Revoke
<1>8. ASSUME NEW w \in Replica, OpenFails(w) PROVE CredentialInv'
  BY <1>1, <1>8 DEF OpenFails
<1>9. ASSUME NEW w \in Replica, RevokeFails(w) PROVE CredentialInv'
  BY <1>1, <1>9 DEF RevokeFails, Fault
<1>10. ASSUME NEW w \in Replica, DeleteRow(w) PROVE CredentialInv'
  <2>1. NextRow(w) /\ pc[w] = "delete"
    BY <1>10 DEF DeleteRow
  <2>2. /\ claim' = [claim EXCEPT ![w] = None]
        /\ pc' \in [Replica -> {"asleep", "due", "revoke", "delete", "reschedule"}]
        /\ pc'[w] \in {"due", "asleep"}
        /\ left' \in [Replica -> 0 .. BatchSize]
        /\ pc'[w] = "due" => left'[w] >= 1
        /\ \A v \in Replica : v # w => pc'[v] = pc[v] /\ left'[v] = left[v]
        /\ faults' \in 0 .. MaxFaults
    BY <2>1, NextRowFacts
  <2> QED
    BY <1>1, <1>10, <2>2 DEF DeleteRow
<1>11. ASSUME NEW w \in Replica, Reschedule(w) PROVE CredentialInv'
  <2>1. NextRow(w) /\ pc[w] = "reschedule"
    BY <1>11 DEF Reschedule
  <2>2. /\ claim' = [claim EXCEPT ![w] = None]
        /\ pc' \in [Replica -> {"asleep", "due", "revoke", "delete", "reschedule"}]
        /\ pc'[w] \in {"due", "asleep"}
        /\ left' \in [Replica -> 0 .. BatchSize]
        /\ pc'[w] = "due" => left'[w] >= 1
        /\ \A v \in Replica : v # w => pc'[v] = pc[v] /\ left'[v] = left[v]
        /\ faults' \in 0 .. MaxFaults
    BY <2>1, NextRowFacts
  <2>3. claim[w] \in Token /\ attempts[claim[w]] \in 0 .. MaxShift
    BY <1>1, <2>1
  <2>4. NextShift(attempts[claim[w]]) \in 0 .. MaxShift
    BY <1>1, <2>3 DEF NextShift
  <2>5. Delay(attempts[claim[w]]) \in -MaxAge .. Delay(MaxShift)
    <3>1. Delay(attempts[claim[w]]) \in 1 .. Delay(MaxShift)
      BY <1>1, <2>3, DelayGrows
    <3> QED
      BY <1>1, <1>2, <3>1
  <2>6. attempts' \in [Token -> 0 .. MaxShift]
        /\ wait' \in [Token -> -MaxAge .. Delay(MaxShift)]
    BY <1>11, <2>4, <2>5 DEF Reschedule
  <2> QED
    BY <1>1, <1>11, <2>2, <2>6 DEF Reschedule
<1>12. ASSUME NEW w \in Replica, Abort(w) PROVE CredentialInv'
  BY <1>1, <1>12 DEF Abort, Fault
<1>13. ASSUME Minute PROVE CredentialInv'
  <2>1. wait' \in [Token -> -MaxAge .. Delay(MaxShift)]
    BY <1>1, <1>2, <1>13 DEF Minute
  <2> QED
    BY <1>1, <1>13, <2>1 DEF Minute
<1>14. CASE UNCHANGED vars
  BY <1>14 DEF vars
<1> QED
  BY <1>3, <1>4, <1>5, <1>6, <1>7, <1>8, <1>9, <1>10, <1>11, <1>12, <1>13, <1>14
  DEF Next, Work

\* CredentialInv holds in every reachable state.
THEOREM CredentialInductive == Spec => []CredentialInv
  BY CredentialInit, CredentialStep, PTL DEF Spec

\* The variables keep their types; in particular no delay exceeds that of the
\* limit of the shift, and no batch takes more rows than its size.
THEOREM CredentialTypes == Spec => []TypeOK
<1>1. CredentialInv => TypeOK
  BY DEF CredentialInv
<1> QED
  BY <1>1, CredentialInductive, PTL

\* No two replicas process one row at a time.
THEOREM ClaimsExclude == Spec => []ClaimsAreExclusive
<1>1. CredentialInv => ClaimsAreExclusive
  BY DEF CredentialInv
<1> QED
  BY <1>1, CredentialInductive, PTL

\* The worker revokes no token of an account that is still there.
THEOREM SignedInStay == Spec => []SignedInTokensAreKept
<1>1. CredentialInv => SignedInTokensAreKept
  BY CredentialAssumption DEF CredentialInv, HolderInv, TypeOK, SignedInTokensAreKept
<1> QED
  BY <1>1, CredentialInductive, PTL

\* A detached token leaves the queue only after Apple has revoked it.
THEOREM QueueKeepsWhatIsOwed == Spec => OnlyRevokedTokensLeave
<1>1. CredentialInv /\ [Next]_vars => [\A t \in detached \ detached' : t \in revoked]_vars
  <2> SUFFICES ASSUME CredentialInv, Next, NEW t \in detached, t \notin detached'
               PROVE  t \in revoked
    OBVIOUS
  <2>1. PICK w \in Replica : DeleteRow(w)
    BY DEF Next, Work, Login, LoginFails, DeleteAccount, Claim, Revoke, OpenFails,
           RevokeFails, Reschedule, Abort, Minute
  <2> QED
    BY <2>1 DEF DeleteRow, CredentialInv, WorkerInv
<1> QED
  BY <1>1, CredentialInductive, PTL DEF Spec, OnlyRevokedTokensLeave
=============================================================================
