------------------------------- MODULE Retell -------------------------------
(***************************************************************************)
(* The private recordings of one user: uploading and deleting a retelling  *)
(* (internal/httpapi/retell.go) and deleting the account with everything   *)
(* in it (DELETE /me, internal/httpapi/identity.go).                       *)
(*                                                                         *)
(* A recording is a row in PostgreSQL and an object in the private bucket, *)
(* and no transaction spans the two: each handler is a sequence of calls,  *)
(* any of which may fail without or after taking effect, and a handler may *)
(* stop between two of them (its client hangs up, which cancels the        *)
(* request's context, or its process dies).                                *)
(***************************************************************************)
EXTENDS Naturals, FiniteSets

CONSTANTS
    Call,       \* requests the user's devices make
    Attempt,    \* retell attempts; the object key is a function of its id
    Recording,  \* the audio an upload carries
    Operation,  \* what a request may ask for
    AtOnce,     \* how many requests the devices keep open at a time
    MaxFaults,  \* bound on failing calls
    None        \* no row, no object, nothing asked, no reply

Upload == [kind : {"upload"}, attempt : Attempt, recording : Recording,
           known : BOOLEAN]     \* known: the content it names exists
Delete == [kind : {"delete"}, attempt : Attempt]
DeleteAccount == [kind : {"deleteAccount"}]

ASSUME OperationAssumption == Operation \subseteq Upload \cup Delete \cup DeleteAccount
ASSUME BoundsAssumption ==
    IsFiniteSet(Call) /\ AtOnce \in Nat \ {0} /\ MaxFaults \in Nat
ASSUME NoneIsNoRecording == None \notin Recording

VARIABLES
    account,    \* the users row exists
    rows,       \* rows[a]: the recording the row of a describes
    objects,    \* objects[a]: the recording stored under the key of a
    pc,         \* where each request's handler stands
    op,         \* what each request asked for
    pending,    \* the attempts DELETE /me has listed and not yet purged
    reply,      \* what each request was answered
    faults,     \* calls that failed so far
    alone,      \* alone[c]: the attempts the open request c had to itself so far
    doubtful    \* the attempts whose last requests failed or got in each other's way

\* What the properties remember of the past and no handler reads.
history == <<alone, doubtful>>

vars == <<account, rows, objects, pc, op, pending, reply, faults, alone, doubtful>>

-----------------------------------------------------------------------------
Step == {"idle", "put", "upsert", "compensate", "find", "remove", "deleteRow",
         "list", "purge", "done"}
ReplyCode == {"ok", "unauthorized", "notFound", "failed"}

\* What becomes of a call to the database or the object store.
Outcome == {"acknowledged", "unacknowledged", "refused"}

FirstStep(o) ==
    CASE o.kind = "upload" -> "put"
      [] o.kind = "delete" -> "find"
      [] o.kind = "deleteAccount" -> "list"

Active(c) == pc[c] \notin {"idle", "done"}

\* The attempts a request is about: an account has all of them.
Touches(o) == IF o.kind = "deleteAccount" THEN Attempt ELSE {o.attempt}

\* The attempts for which two requests get in each other's way: two deletions do not.
Contested(o, q) ==
    IF "upload" \in {o.kind, q.kind} THEN Touches(o) \cap Touches(q) ELSE {}

Init ==
    /\ account = TRUE
    /\ rows = [a \in Attempt |-> None]
    /\ objects = [a \in Attempt |-> None]
    /\ pc = [c \in Call |-> "idle"]
    /\ op = [c \in Call |-> None]
    /\ pending = [c \in Call |-> {}]
    /\ reply = [c \in Call |-> None]
    /\ faults = 0
    /\ alone = [c \in Call |-> {}]
    /\ doubtful = {}

-----------------------------------------------------------------------------
Goto(c, step) == pc' = [pc EXCEPT ![c] = step] /\ UNCHANGED <<reply, history>>

\* An upload or a deletion that succeeds settles its attempt, if it had the attempt
\* to itself and no other request for it is open.
Settled(c) ==
    {a \in alone[c] :
        /\ op[c].kind # "deleteAccount"
        /\ \A d \in Call \ {c} : Active(d) => a \notin Touches(op[d])}

Reply(c, code) ==
    /\ pc' = [pc EXCEPT ![c] = "done"]
    /\ reply' = [reply EXCEPT ![c] = code]
    /\ alone' = [alone EXCEPT ![c] = {}]
    /\ doubtful' = CASE code = "failed" -> doubtful \cup Touches(op[c])
                      [] code = "ok" -> doubtful \ Settled(c)
                      [] OTHER -> doubtful

\* A call ends with the outcome; its effect is there unless it was refused.
Ends(outcome) ==
    \/ outcome = "acknowledged" /\ UNCHANGED faults
    \/ outcome # "acknowledged" /\ faults < MaxFaults /\ faults' = faults + 1

Store(a, recording, outcome) ==
    objects' = IF outcome = "refused" THEN objects
                                      ELSE [objects EXCEPT ![a] = recording]
SetRow(a, recording, outcome) ==
    rows' = IF outcome = "refused" THEN rows ELSE [rows EXCEPT ![a] = recording]

\* The request o is open from now on, beside those that are open already.
Admit(c, o) ==
    LET crossed == UNION {Contested(o, op[d]) : d \in {d \in Call \ {c} : Active(d)}}
    IN  /\ pc' = [pc EXCEPT ![c] = FirstStep(o)]
        /\ alone' = [d \in Call |->
                        CASE d = c -> Touches(o) \ crossed
                          [] d # c /\ Active(d) -> alone[d] \ Contested(o, op[d])
                          [] d # c /\ ~Active(d) -> alone[d]]
        /\ doubtful' = doubtful \cup crossed
        /\ UNCHANGED reply

\* authenticationMiddleware: the session went with the account.
Authenticate(c, o) == IF account THEN Admit(c, o) ELSE Reply(c, "unauthorized")

Begin(c, o) ==
    /\ pc[c] = "idle"
    /\ Cardinality({d \in Call : Active(d)}) < AtOnce
    /\ op' = [op EXCEPT ![c] = o]
    /\ Authenticate(c, o)
    /\ UNCHANGED <<account, rows, objects, pending, faults>>

\* A client repeats a deletion that was answered with an error.
Retry(c) ==
    /\ pc[c] = "done"
    /\ reply[c] = "failed"
    /\ op[c].kind # "upload"
    /\ Cardinality({d \in Call : Active(d)}) < AtOnce
    /\ Authenticate(c, op[c])
    /\ UNCHANGED <<account, rows, objects, op, pending, faults>>

-----------------------------------------------------------------------------
\* Fault: the row is written whether or not the object was stored.
PutUnchecked(c, outcome) ==
    /\ pc[c] = "put"
    /\ Store(op[c].attempt, op[c].recording, outcome)
    /\ Ends(outcome)
    /\ Goto(c, "upsert")
    /\ UNCHANGED <<account, rows, op, pending>>

\* PUT /me/retell-attempts/{attemptId}: the object first, the row second.
Put(c, outcome) ==
    /\ pc[c] = "put"
    /\ Store(op[c].attempt, op[c].recording, outcome)
    /\ Ends(outcome)
    /\ IF outcome = "acknowledged" THEN Goto(c, "upsert") ELSE Reply(c, "failed")
    /\ UNCHANGED <<account, rows, op, pending>>

\* The row's user and content must exist, or the insert is refused.
ReferencesHold(c) == account /\ op[c].known

Upsert(c, outcome) ==
    /\ pc[c] = "upsert"
    /\ IF ReferencesHold(c)
         THEN /\ SetRow(op[c].attempt, op[c].recording, outcome)
              /\ Ends(outcome)
              /\ IF outcome = "acknowledged" THEN Reply(c, "ok")
                                             ELSE Goto(c, "compensate")
         ELSE /\ outcome = "refused"
              /\ Goto(c, "compensate")
              /\ UNCHANGED <<rows, faults>>
    /\ UNCHANGED <<account, objects, op, pending>>

\* The upload's object is removed when its row was not written; the result of
\* the removal is ignored.
Compensate(c, outcome) ==
    /\ pc[c] = "compensate"
    /\ Store(op[c].attempt, None, outcome)
    /\ Ends(outcome)
    /\ Reply(c, "failed")
    /\ UNCHANGED <<account, rows, op, pending>>

-----------------------------------------------------------------------------
\* DELETE /me/retell-attempts/{attemptId}: every error of the look-up is a 404.
Find(c, outcome) ==
    /\ pc[c] = "find"
    /\ Ends(outcome)
    /\ IF outcome = "acknowledged" /\ rows[op[c].attempt] # None
         THEN Goto(c, "remove")
         ELSE Reply(c, "notFound")
    /\ UNCHANGED <<account, rows, objects, op, pending>>

\* RemoveObject of a key without an object succeeds.
Remove(c, outcome) ==
    /\ pc[c] = "remove"
    /\ Store(op[c].attempt, None, outcome)
    /\ Ends(outcome)
    /\ IF outcome = "acknowledged" THEN Goto(c, "deleteRow") ELSE Reply(c, "failed")
    /\ UNCHANGED <<account, rows, op, pending>>

\* DELETE ... RETURNING: no row is an error too.
DeleteRow(c, outcome) ==
    /\ pc[c] = "deleteRow"
    /\ SetRow(op[c].attempt, None, outcome)
    /\ Ends(outcome)
    /\ Reply(c, IF outcome = "acknowledged" /\ rows[op[c].attempt] # None
                  THEN "ok" ELSE "failed")
    /\ UNCHANGED <<account, objects, op, pending>>

-----------------------------------------------------------------------------
\* DELETE /me: list the rows, remove their objects, delete the user.
List(c, outcome) ==
    /\ pc[c] = "list"
    /\ Ends(outcome)
    /\ IF outcome = "acknowledged"
         THEN /\ pending' = [pending EXCEPT ![c] = {a \in Attempt : rows[a] # None}]
              /\ Goto(c, "purge")
         ELSE Reply(c, "failed") /\ UNCHANGED pending
    /\ UNCHANGED <<account, rows, objects, op>>

\* Fault: a missing object stops the purge.
PurgeExisting(c, a, outcome) ==
    /\ pc[c] = "purge"
    /\ a \in pending[c]
    /\ Store(a, None, outcome)
    /\ Ends(outcome)
    /\ pending' = [pending EXCEPT ![c] = @ \ {a}]
    /\ IF outcome = "acknowledged" /\ objects[a] # None THEN Goto(c, "purge")
                                                        ELSE Reply(c, "failed")
    /\ UNCHANGED <<account, rows, op>>

Purge(c, a, outcome) ==
    /\ pc[c] = "purge"
    /\ a \in pending[c]
    /\ Store(a, None, outcome)
    /\ Ends(outcome)
    /\ pending' = [pending EXCEPT ![c] = @ \ {a}]
    /\ IF outcome = "acknowledged" THEN Goto(c, "purge") ELSE Reply(c, "failed")
    /\ UNCHANGED <<account, rows, op>>

\* Fault: the user is deleted while objects are still to be removed.
DeleteUserEarly(c, outcome) ==
    /\ pc[c] = "purge"
    /\ account' = (account /\ outcome = "refused")
    /\ rows' = IF outcome = "refused" THEN rows ELSE [a \in Attempt |-> None]
    /\ Ends(outcome)
    /\ Reply(c, IF outcome = "acknowledged" THEN "ok" ELSE "failed")
    /\ UNCHANGED <<objects, op, pending>>

\* The rows of the user go with it (ON DELETE CASCADE).
DeleteUser(c, outcome) ==
    /\ pc[c] = "purge"
    /\ pending[c] = {}
    /\ account' = (account /\ outcome = "refused")
    /\ rows' = IF outcome = "refused" THEN rows ELSE [a \in Attempt |-> None]
    /\ Ends(outcome)
    /\ Reply(c, IF outcome = "acknowledged" THEN "ok" ELSE "failed")
    /\ UNCHANGED <<objects, op, pending>>

\* The handler stops between two calls: nothing it had yet to do is done.
Abandon(c) ==
    /\ Active(c)
    /\ Ends("refused")
    /\ Reply(c, "failed")
    /\ UNCHANGED <<account, rows, objects, op, pending>>

-----------------------------------------------------------------------------
Handler(c) ==
    \E outcome \in Outcome :
        \/ Put(c, outcome)
        \/ Upsert(c, outcome)
        \/ Compensate(c, outcome)
        \/ Find(c, outcome)
        \/ Remove(c, outcome)
        \/ DeleteRow(c, outcome)
        \/ List(c, outcome)
        \/ \E a \in Attempt : Purge(c, a, outcome)
        \/ DeleteUser(c, outcome)

Next ==
    \E c \in Call :
        \/ \E o \in Operation : Begin(c, o)
        \/ Retry(c)
        \/ Handler(c)
        \/ Abandon(c)

Spec == Init /\ [][Next]_vars

\* Handlers run to their ends, and a client whose deletion failed tries again.
FairSpec == Spec /\ \A c \in Call : WF_vars(Handler(c)) /\ WF_vars(Retry(c))

-----------------------------------------------------------------------------
\* The variables keep their types.
TypeOK ==
    /\ account \in BOOLEAN
    /\ rows \in [Attempt -> Recording \cup {None}]
    /\ objects \in [Attempt -> Recording \cup {None}]
    /\ pc \in [Call -> Step]
    /\ op \in [Call -> Operation \cup {None}]
    /\ pending \in [Call -> SUBSET Attempt]
    /\ reply \in [Call -> ReplyCode \cup {None}]
    /\ faults \in 0 .. MaxFaults
    /\ alone \in [Call -> SUBSET Attempt]
    /\ doubtful \in SUBSET Attempt

AtRest == \A c \in Call : ~Active(c)

\* The row and the object of an attempt agree whenever no request for it is open:
\* the row has the recording it describes and no object is left without a row.
\* Requests for other attempts, several deletions at once and earlier failures or
\* overlaps that a later upload or deletion has settled make no difference.
StoresAgree ==
    \A a \in Attempt :
        /\ a \notin doubtful
        /\ \A c \in Call : Active(c) => a \notin Touches(op[c])
        => objects[a] = rows[a]

\* Whatever fails, an upload that is answered with success has stored both parts,
\* unless another upload or a deletion of the same attempt came across it.
AcknowledgedUploadIsStored ==
    [][\A c \in Call :
           /\ reply'[c] = "ok" /\ reply[c] # "ok"
           /\ op[c].kind = "upload"
           /\ op[c].attempt \in alone[c]
           => rows'[op[c].attempt] = op[c].recording
              /\ objects'[op[c].attempt] = op[c].recording]_vars

\* Whatever fails, a row only goes after its object, unless an upload came across a
\* deletion that is still open: a deletion that breaks off can be found by the next
\* one, however many deletions of the attempt and of the account run at once.
RowsGoAfterObjects ==
    [][\A a \in Attempt :
           /\ rows[a] # None /\ rows'[a] = None
           /\ \A c \in Call : Active(c) /\ a \in Touches(op[c]) => a \in alone[c]
           => objects'[a] = None]_vars

\* A user who asks for the account to be deleted, and asks again while told of an
\* error, is rid of it in the end: what an earlier try has removed stops no later one.
AccountDeletionCompletes ==
    \A c \in Call : pc[c] = "list" ~> ~account

\* Deleting the account clears the private recordings too
\* (docs/release-operations.md on DELETE /api/v1/me).
NoRecordingOutlivesTheAccount ==
    AtRest /\ ~account => \A a \in Attempt : objects[a] = None

\* An upload may be repeated (docs/api-v1.md: an idempotent update): a recording
\* that was once acknowledged stays playable while it is uploaded again.
RepeatedUploadKeepsTheRecording ==
    \A c \in Call :
        reply[c] = "ok" /\ op[c].kind = "upload" => objects[op[c].attempt] = op[c].recording
=============================================================================
