---------------------------- MODULE RetellProofs ----------------------------
(***************************************************************************)
(* Theorems about Retell for any number of requests, attempts, recordings  *)
(* and failing calls, and however many requests are open at a time.        *)
(***************************************************************************)
EXTENDS Retell, TLAPS

\* A handler serves a request of its own kind.
OpInv ==
    \A c \in Call :
        /\ pc[c] # "idle" => op[c] \in Operation
        /\ pc[c] \in {"put", "upsert", "compensate"} => op[c] \in Upload
        /\ pc[c] \in {"find", "remove", "deleteRow"} => op[c] \in Delete
        /\ pc[c] \in {"list", "purge"} => op[c] \in DeleteAccount

\* What holds however the requests interleave.
TypedInv == TypeOK /\ OpInv

\* What a step of one request leaves to the others.
Others(c) ==
    \A d \in Call : d # c => /\ pc'[d] = pc[d] /\ op'[d] = op[d]
                             /\ pending'[d] = pending[d] /\ reply'[d] = reply[d]

\* A request begins with the handler of its kind.
LEMMA FirstSteps ==
    ASSUME NEW o \in Operation
    PROVE  \/ o \in Upload /\ FirstStep(o) = "put" /\ o.kind = "upload"
           \/ o \in Delete /\ FirstStep(o) = "find" /\ o.kind = "delete"
           \/ o \in DeleteAccount /\ FirstStep(o) = "list" /\ o.kind = "deleteAccount"
  BY OperationAssumption DEF Upload, Delete, DeleteAccount, FirstStep

\* What the operations carry.
LEMMA OperationFields ==
    /\ \A o \in Upload : o.kind = "upload" /\ o.attempt \in Attempt
                         /\ o.recording \in Recording /\ o.known \in BOOLEAN
    /\ \A o \in Delete : o.kind = "delete" /\ o.attempt \in Attempt
    /\ \A o \in DeleteAccount : o.kind = "deleteAccount"
  BY DEF Upload, Delete, DeleteAccount

\* The calls to the object store and the database keep the types.
LEMMA StoreTypes ==
    ASSUME TypeOK, NEW a \in Attempt, NEW r \in Recording \cup {None},
           NEW outcome \in Outcome
    PROVE  /\ Store(a, r, outcome) => objects' \in [Attempt -> Recording \cup {None}]
           /\ SetRow(a, r, outcome) => rows' \in [Attempt -> Recording \cup {None}]
           /\ Ends(outcome) => faults' \in 0 .. MaxFaults
  BY BoundsAssumption DEF TypeOK, Store, SetRow, Ends

\* A request is about attempts.
LEMMA TouchesAttempts ==
    ASSUME NEW o \in Operation
    PROVE  /\ Touches(o) \in SUBSET Attempt
           /\ o \in Upload \cup Delete => Touches(o) = {o.attempt}
           /\ o \in DeleteAccount => Touches(o) = Attempt
  BY OperationAssumption, OperationFields DEF Touches

\* Where a request goes on keeps the types.
LEMMA ReplyTypes ==
    ASSUME TypeOK, NEW c \in Call, NEW step \in Step, NEW code \in ReplyCode,
           op[c] \in Operation \/ code = "unauthorized"
    PROVE  /\ Goto(c, step) \/ Reply(c, code) =>
                  /\ pc' \in [Call -> Step]
                  /\ reply' \in [Call -> ReplyCode \cup {None}]
                  /\ alone' \in [Call -> SUBSET Attempt]
                  /\ doubtful' \in SUBSET Attempt
           /\ Goto(c, step) => pc'[c] = step
           /\ Reply(c, code) => pc'[c] = "done"
           /\ Goto(c, step) \/ Reply(c, code) =>
                  \A d \in Call : d # c => pc'[d] = pc[d] /\ reply'[d] = reply[d]
<1>1. ASSUME Goto(c, step)
      PROVE  /\ pc' \in [Call -> Step] /\ pc'[c] = step
             /\ reply' \in [Call -> ReplyCode \cup {None}]
             /\ alone' \in [Call -> SUBSET Attempt] /\ doubtful' \in SUBSET Attempt
             /\ \A d \in Call : d # c => pc'[d] = pc[d] /\ reply'[d] = reply[d]
  BY <1>1 DEF TypeOK, Goto, history
<1>2. ASSUME Reply(c, code)
      PROVE  /\ pc' \in [Call -> Step] /\ pc'[c] = "done"
             /\ reply' \in [Call -> ReplyCode \cup {None}]
             /\ alone' \in [Call -> SUBSET Attempt] /\ doubtful' \in SUBSET Attempt
             /\ \A d \in Call : d # c => pc'[d] = pc[d] /\ reply'[d] = reply[d]
  <2>1. /\ pc' \in [Call -> Step] /\ pc'[c] = "done"
        /\ reply' \in [Call -> ReplyCode \cup {None}]
        /\ \A d \in Call : d # c => pc'[d] = pc[d] /\ reply'[d] = reply[d]
    BY <1>2 DEF TypeOK, Reply, Step
  <2>2. alone' \in [Call -> SUBSET Attempt]
    BY <1>2 DEF TypeOK, Reply
  <2>3. doubtful' \in {doubtful, doubtful \ Settled(c), doubtful \cup Touches(op[c])}
    BY <1>2 DEF Reply
  <2>4. doubtful' = doubtful \cup Touches(op[c]) => code = "unauthorized" \/ op[c] \in Operation
    OBVIOUS
  <2>5. code = "unauthorized" => doubtful' = doubtful
    BY <1>2 DEF Reply
  <2>6. op[c] \in Operation => Touches(op[c]) \in SUBSET Attempt
    BY TouchesAttempts
  <2>7. doubtful' \in SUBSET Attempt
    BY <2>3, <2>4, <2>5, <2>6 DEF TypeOK
  <2> QED
    BY <2>1, <2>2, <2>7
<1> QED
  BY <1>1, <1>2

\* Admitting a request keeps the types.
LEMMA AdmitTypes ==
    ASSUME TypeOK, OpInv, NEW c \in Call, NEW o \in Operation, Admit(c, o)
    PROVE  /\ pc' \in [Call -> Step] /\ pc'[c] = FirstStep(o)
           /\ reply' \in [Call -> ReplyCode \cup {None}]
           /\ alone' \in [Call -> SUBSET Attempt] /\ doubtful' \in SUBSET Attempt
           /\ \A d \in Call : d # c => pc'[d] = pc[d] /\ reply'[d] = reply[d]
<1>1. FirstStep(o) \in Step
  BY FirstSteps DEF Step
<1>2. Touches(o) \in SUBSET Attempt
  BY TouchesAttempts
<1>3. \A q : Contested(o, q) \in SUBSET Attempt
  BY <1>2 DEF Contested
<1> DEFINE crossed == UNION {Contested(o, op[d]) : d \in {d \in Call \ {c} : Active(d)}}
<1>4. crossed \in SUBSET Attempt
  BY <1>3
<1>5. /\ pc' = [pc EXCEPT ![c] = FirstStep(o)] /\ UNCHANGED reply
      /\ alone' = [d \in Call |->
                        CASE d = c -> Touches(o) \ crossed
                          [] d # c /\ Active(d) -> alone[d] \ Contested(o, op[d])
                          [] d # c /\ ~Active(d) -> alone[d]]
      /\ doubtful' = doubtful \cup crossed
  BY DEF Admit
<1> HIDE DEF crossed
<1>6. alone' \in [Call -> SUBSET Attempt]
  BY <1>2, <1>5 DEF TypeOK
<1> QED
  BY <1>1, <1>4, <1>5, <1>6 DEF TypeOK

\* A request that is admitted keeps types and kinds.
LEMMA BeginTyped ==
    ASSUME TypedInv, NEW c \in Call, NEW o \in Operation, Begin(c, o) \/ Retry(c)
    PROVE  TypedInv' /\ Others(c)
<1>0. TypeOK /\ OpInv
  BY DEF TypedInv
<1>1. PICK q \in Operation : q = op'[c] /\ Authenticate(c, q) /\ op' \in [Call -> Operation \cup {None}]
                             /\ \A d \in Call : d # c => op'[d] = op[d]
  <2>1. CASE Begin(c, o)
    BY <1>0, <2>1 DEF Begin, TypeOK
  <2>2. CASE Retry(c)
    <3>1. op[c] \in Operation
      BY <1>0, <2>2 DEF Retry, OpInv
    <3> QED
      BY <1>0, <2>2, <3>1 DEF Retry, TypeOK
  <2> QED
    BY <2>1, <2>2
<1>2. "unauthorized" \in ReplyCode /\ "done" \in Step
  BY DEF Step, ReplyCode
<1>4. /\ pc' \in [Call -> Step] /\ reply' \in [Call -> ReplyCode \cup {None}]
      /\ alone' \in [Call -> SUBSET Attempt] /\ doubtful' \in SUBSET Attempt
      /\ \A d \in Call : d # c => pc'[d] = pc[d] /\ reply'[d] = reply[d]
      /\ pc'[c] \in {FirstStep(q), "done"}
  BY <1>0, <1>1, <1>2, AdmitTypes, ReplyTypes DEF Authenticate
<1>5. UNCHANGED <<account, rows, objects, pending, faults>>
  BY DEF Begin, Retry
<1>6. TypeOK'
  BY <1>0, <1>1, <1>4, <1>5 DEF TypeOK
<1>7. OpInv'
  BY <1>0, <1>1, <1>4, FirstSteps DEF OpInv
<1> QED
  BY <1>1, <1>4, <1>5, <1>6, <1>7 DEF TypedInv, Others

\* The step of a handler keeps types and kinds.
LEMMA HandlerTyped ==
    ASSUME TypedInv, NEW c \in Call, Handler(c) \/ Abandon(c)
    PROVE  TypedInv' /\ Others(c)
<1>0. /\ TypeOK /\ OpInv /\ op[c] \in Operation
      /\ None \in Recording \cup {None}
      /\ {"ok", "notFound", "failed"} \subseteq ReplyCode
      /\ {"upsert", "compensate", "remove", "deleteRow", "purge"} \subseteq Step
  <2>1. Active(c)
    BY DEF Handler, Abandon, Active, Put, Upsert, Compensate, Find, Remove, DeleteRow,
           List, Purge, DeleteUser
  <2> QED
    BY <2>1 DEF TypedInv, OpInv, Active, ReplyCode, Step
<1>1. ASSUME NEW outcome \in Outcome, Put(c, outcome) PROVE TypedInv' /\ Others(c)
  <2>1. op[c] \in Upload /\ op[c].attempt \in Attempt /\ op[c].recording \in Recording
    BY <1>0, <1>1, OperationFields DEF Put, OpInv
  <2>2. /\ objects' \in [Attempt -> Recording \cup {None}] /\ faults' \in 0 .. MaxFaults
    BY <1>0, <1>1, <2>1, StoreTypes DEF Put
  <2>3. /\ pc' \in [Call -> Step] /\ reply' \in [Call -> ReplyCode \cup {None}]
        /\ alone' \in [Call -> SUBSET Attempt] /\ doubtful' \in SUBSET Attempt
        /\ \A d \in Call : d # c => pc'[d] = pc[d] /\ reply'[d] = reply[d]
        /\ pc'[c] \in {"upsert", "done"}
    BY <1>0, <1>1, ReplyTypes DEF Put
  <2>4. UNCHANGED <<account, rows, op, pending>> /\ op[c] \in Operation
    BY <1>0, <1>1 DEF Put, OpInv
  <2> QED
    BY <1>0, <2>1, <2>2, <2>3, <2>4 DEF TypedInv, TypeOK, OpInv, Others
<1>2. ASSUME NEW outcome \in Outcome, Upsert(c, outcome) PROVE TypedInv' /\ Others(c)
  <2>1. op[c] \in Upload /\ op[c].attempt \in Attempt /\ op[c].recording \in Recording
    BY <1>0, <1>2, OperationFields DEF Upsert, OpInv
  <2>2. rows' \in [Attempt -> Recording \cup {None}] /\ faults' \in 0 .. MaxFaults
    <3>1. CASE ReferencesHold(c)
      BY <1>0, <1>2, <2>1, <3>1, StoreTypes DEF Upsert
    <3>2. CASE ~ ReferencesHold(c)
      BY <1>0, <1>2, <3>2 DEF Upsert, TypeOK
    <3> QED
      BY <3>1, <3>2
  <2>3. /\ pc' \in [Call -> Step] /\ reply' \in [Call -> ReplyCode \cup {None}]
        /\ alone' \in [Call -> SUBSET Attempt] /\ doubtful' \in SUBSET Attempt
        /\ \A d \in Call : d # c => pc'[d] = pc[d] /\ reply'[d] = reply[d]
        /\ pc'[c] \in {"compensate", "done"}
    BY <1>0, <1>2, ReplyTypes DEF Upsert
  <2>4. UNCHANGED <<account, objects, op, pending>> /\ op[c] \in Operation
    BY <1>0, <1>2 DEF Upsert, OpInv
  <2> QED
    BY <1>0, <2>1, <2>2, <2>3, <2>4 DEF TypedInv, TypeOK, OpInv, Others
<1>3. ASSUME NEW outcome \in Outcome, Compensate(c, outcome) PROVE TypedInv' /\ Others(c)
  <2>1. op[c] \in Upload /\ op[c].attempt \in Attempt
    BY <1>0, <1>3, OperationFields DEF Compensate, OpInv
  <2>2. /\ objects' \in [Attempt -> Recording \cup {None}] /\ faults' \in 0 .. MaxFaults
    BY <1>0, <1>3, <2>1, StoreTypes DEF Compensate
  <2>3. /\ pc' \in [Call -> Step] /\ reply' \in [Call -> ReplyCode \cup {None}]
        /\ alone' \in [Call -> SUBSET Attempt] /\ doubtful' \in SUBSET Attempt
        /\ \A d \in Call : d # c => pc'[d] = pc[d] /\ reply'[d] = reply[d]
        /\ pc'[c] = "done"
    BY <1>0, <1>3, ReplyTypes DEF Compensate
  <2>4. UNCHANGED <<account, rows, op, pending>> /\ op[c] \in Operation
    BY <1>0, <1>3 DEF Compensate, OpInv
  <2> QED
    BY <1>0, <2>2, <2>3, <2>4 DEF TypedInv, TypeOK, OpInv, Others
<1>4. ASSUME NEW outcome \in Outcome, Find(c, outcome) PROVE TypedInv' /\ Others(c)
  <2>1. op[c] \in Delete /\ op[c] \in Operation
    BY <1>0, <1>4 DEF Find, OpInv
  <2>2. faults' \in 0 .. MaxFaults
    BY <1>0, <1>4, BoundsAssumption DEF Find, Ends, TypeOK
  <2>3. /\ pc' \in [Call -> Step] /\ reply' \in [Call -> ReplyCode \cup {None}]
        /\ alone' \in [Call -> SUBSET Attempt] /\ doubtful' \in SUBSET Attempt
        /\ \A d \in Call : d # c => pc'[d] = pc[d] /\ reply'[d] = reply[d]
        /\ pc'[c] \in {"remove", "done"}
    BY <1>0, <1>4, ReplyTypes DEF Find
  <2>4. UNCHANGED <<account, rows, objects, op, pending>>
    BY <1>4 DEF Find
  <2> QED
    BY <1>0, <2>1, <2>2, <2>3, <2>4 DEF TypedInv, TypeOK, OpInv, Others
<1>5. ASSUME NEW outcome \in Outcome, Remove(c, outcome) PROVE TypedInv' /\ Others(c)
  <2>1. op[c] \in Delete /\ op[c] \in Operation /\ op[c].attempt \in Attempt
    BY <1>0, <1>5, OperationFields DEF Remove, OpInv
  <2>2. /\ objects' \in [Attempt -> Recording \cup {None}] /\ faults' \in 0 .. MaxFaults
    BY <1>0, <1>5, <2>1, StoreTypes DEF Remove
  <2>3. /\ pc' \in [Call -> Step] /\ reply' \in [Call -> ReplyCode \cup {None}]
        /\ alone' \in [Call -> SUBSET Attempt] /\ doubtful' \in SUBSET Attempt
        /\ \A d \in Call : d # c => pc'[d] = pc[d] /\ reply'[d] = reply[d]
        /\ pc'[c] \in {"deleteRow", "done"}
    BY <1>0, <1>5, ReplyTypes DEF Remove
  <2>4. UNCHANGED <<account, rows, op, pending>>
    BY <1>5 DEF Remove
  <2> QED
    BY <1>0, <2>1, <2>2, <2>3, <2>4 DEF TypedInv, TypeOK, OpInv, Others
<1>6. ASSUME NEW outcome \in Outcome, DeleteRow(c, outcome) PROVE TypedInv' /\ Others(c)
  <2>1. op[c] \in Delete /\ op[c] \in Operation /\ op[c].attempt \in Attempt
    BY <1>0, <1>6, OperationFields DEF DeleteRow, OpInv
  <2>2. rows' \in [Attempt -> Recording \cup {None}] /\ faults' \in 0 .. MaxFaults
    BY <1>0, <1>6, <2>1, StoreTypes DEF DeleteRow
  <2>3. /\ pc' \in [Call -> Step] /\ reply' \in [Call -> ReplyCode \cup {None}]
        /\ alone' \in [Call -> SUBSET Attempt] /\ doubtful' \in SUBSET Attempt
        /\ \A d \in Call : d # c => pc'[d] = pc[d] /\ reply'[d] = reply[d]
        /\ pc'[c] = "done"
    BY <1>0, <1>6, ReplyTypes DEF DeleteRow
  <2>4. UNCHANGED <<account, objects, op, pending>>
    BY <1>6 DEF DeleteRow
  <2> QED
    BY <1>0, <2>1, <2>2, <2>3, <2>4 DEF TypedInv, TypeOK, OpInv, Others
<1>7. ASSUME NEW outcome \in Outcome, List(c, outcome) PROVE TypedInv' /\ Others(c)
  <2>1. op[c] \in DeleteAccount /\ op[c] \in Operation
    BY <1>0, <1>7 DEF List, OpInv
  <2>2. /\ faults' \in 0 .. MaxFaults /\ pending' \in [Call -> SUBSET Attempt]
        /\ \A d \in Call : d # c => pending'[d] = pending[d]
    BY <1>0, <1>7, BoundsAssumption DEF List, Ends, TypeOK
  <2>3. /\ pc' \in [Call -> Step] /\ reply' \in [Call -> ReplyCode \cup {None}]
        /\ alone' \in [Call -> SUBSET Attempt] /\ doubtful' \in SUBSET Attempt
        /\ \A d \in Call : d # c => pc'[d] = pc[d] /\ reply'[d] = reply[d]
        /\ pc'[c] \in {"purge", "done"}
    BY <1>0, <1>7, ReplyTypes DEF List
  <2>4. UNCHANGED <<account, rows, objects, op>>
    BY <1>7 DEF List
  <2> QED
    BY <1>0, <2>1, <2>2, <2>3, <2>4 DEF TypedInv, TypeOK, OpInv, Others
<1>8. ASSUME NEW outcome \in Outcome, NEW a \in Attempt, Purge(c, a, outcome)
      PROVE  TypedInv' /\ Others(c)
  <2>1. op[c] \in DeleteAccount /\ op[c] \in Operation
    BY <1>0, <1>8 DEF Purge, OpInv
  <2>2. /\ faults' \in 0 .. MaxFaults /\ objects' \in [Attempt -> Recording \cup {None}]
        /\ pending' \in [Call -> SUBSET Attempt]
        /\ \A d \in Call : d # c => pending'[d] = pending[d]
    <3>1. faults' \in 0 .. MaxFaults /\ objects' \in [Attempt -> Recording \cup {None}]
      BY <1>0, <1>8, StoreTypes DEF Purge
    <3> QED
      BY <1>0, <1>8, <3>1 DEF Purge, TypeOK
  <2>3. /\ pc' \in [Call -> Step] /\ reply' \in [Call -> ReplyCode \cup {None}]
        /\ alone' \in [Call -> SUBSET Attempt] /\ doubtful' \in SUBSET Attempt
        /\ \A d \in Call : d # c => pc'[d] = pc[d] /\ reply'[d] = reply[d]
        /\ pc'[c] \in {"purge", "done"}
    BY <1>0, <1>8, ReplyTypes DEF Purge
  <2>4. UNCHANGED <<account, rows, op>>
    BY <1>8 DEF Purge
  <2> QED
    BY <1>0, <2>1, <2>2, <2>3, <2>4 DEF TypedInv, TypeOK, OpInv, Others
<1>9. ASSUME NEW outcome \in Outcome, DeleteUser(c, outcome) PROVE TypedInv' /\ Others(c)
  <2>1. op[c] \in DeleteAccount /\ op[c] \in Operation
    BY <1>0, <1>9 DEF DeleteUser, OpInv
  <2>2. /\ faults' \in 0 .. MaxFaults /\ rows' \in [Attempt -> Recording \cup {None}]
        /\ account' \in BOOLEAN
    BY <1>0, <1>9, BoundsAssumption DEF DeleteUser, Ends, TypeOK
  <2>3. /\ pc' \in [Call -> Step] /\ reply' \in [Call -> ReplyCode \cup {None}]
        /\ alone' \in [Call -> SUBSET Attempt] /\ doubtful' \in SUBSET Attempt
        /\ \A d \in Call : d # c => pc'[d] = pc[d] /\ reply'[d] = reply[d]
        /\ pc'[c] = "done"
    BY <1>0, <1>9, ReplyTypes DEF DeleteUser
  <2>4. UNCHANGED <<objects, op, pending>>
    BY <1>9 DEF DeleteUser
  <2> QED
    BY <1>0, <2>1, <2>2, <2>3, <2>4 DEF TypedInv, TypeOK, OpInv, Others
<1>10. ASSUME Abandon(c) PROVE TypedInv' /\ Others(c)
  <2>1. pc[c] # "idle" /\ op[c] \in Operation
    BY <1>0, <1>10 DEF Abandon, Active, OpInv
  <2>2. faults' \in 0 .. MaxFaults
    BY <1>0, <1>10, BoundsAssumption DEF Abandon, Ends, TypeOK
  <2>3. /\ pc' \in [Call -> Step] /\ reply' \in [Call -> ReplyCode \cup {None}]
        /\ alone' \in [Call -> SUBSET Attempt] /\ doubtful' \in SUBSET Attempt
        /\ \A d \in Call : d # c => pc'[d] = pc[d] /\ reply'[d] = reply[d]
        /\ pc'[c] = "done"
    BY <1>0, <1>10, ReplyTypes DEF Abandon
  <2>4. UNCHANGED <<account, rows, objects, op, pending>>
    BY <1>10 DEF Abandon
  <2> QED
    BY <1>0, <2>1, <2>2, <2>3, <2>4 DEF TypedInv, TypeOK, OpInv, Others
<1> QED
  BY <1>1, <1>2, <1>3, <1>4, <1>5, <1>6, <1>7, <1>8, <1>9, <1>10 DEF Handler

\* Every variable keeps its type and every handler its kind of request, however
\* many requests are open.
THEOREM RetellTypes == Spec => []TypedInv
<1>1. Init => TypedInv
  BY BoundsAssumption DEF Init, TypedInv, TypeOK, OpInv, Step
<1>2. TypedInv /\ [Next]_vars => TypedInv'
  <2> SUFFICES ASSUME TypedInv, [Next]_vars PROVE TypedInv'
    OBVIOUS
  <2>1. CASE UNCHANGED vars
    BY <2>1 DEF TypedInv, TypeOK, OpInv, vars
  <2>2. ASSUME NEW c \in Call, Retry(c) PROVE TypedInv'
    <3>1. op[c] \in Operation
      BY <2>2 DEF Retry, TypedInv, OpInv
    <3> QED
      BY <2>2, <3>1, BeginTyped
  <2> QED
    BY <2>1, <2>2, BeginTyped, HandlerTyped DEF Next
<1> QED
  BY <1>1, <1>2, PTL DEF Spec

-----------------------------------------------------------------------------
\* What a request has to itself is its own, no conflicting request is open for it,
\* and what an open request has not to itself is in doubt.
AloneInv ==
    /\ \A c \in Call : alone[c] \subseteq (IF Active(c) THEN Touches(op[c]) ELSE {})
    /\ \A c, d \in Call :
           c # d /\ Active(c) /\ Active(d) => alone[c] \cap Contested(op[c], op[d]) = {}
    /\ \A c \in Call : Active(c) => Touches(op[c]) \subseteq alone[c] \cup doubtful

\* What the stages of a handler rely on, for an attempt that it has to itself.
StageOn(c, a) ==
    /\ pc[c] = "upsert" => objects[a] = op[c].recording
    /\ pc[c] = "deleteRow" => objects[a] = None
    /\ pc[c] = "purge" => rows[a] = None \/ objects[a] = None \/ a \in pending[c]

\* A deletion that has removed the object of a and is yet to remove the row.
Leaves(c, a) ==
    \/ pc[c] = "deleteRow" /\ op[c].attempt = a
    \/ pc[c] = "purge" /\ a \notin pending[c]

\* An upload whose object is stored and whose row is not.
Stores(c, a) == pc[c] \in {"upsert", "compensate"} /\ op[c].attempt = a

\* Row and object of a agree, but for the one open request that is between them.
AgreeOn(a) ==
    \/ a \in doubtful
    \/ objects[a] = rows[a]
    \/ objects[a] = None /\ \E c \in Call : Leaves(c, a)
    \/ \E c \in Call : Stores(c, a)

\* The inductive invariant behind the theorems about rows and objects.
ApartInv ==
    /\ TypedInv
    /\ AloneInv
    /\ \A c \in Call : \A a \in alone[c] : StageOn(c, a)
    /\ \A a \in Attempt : AgreeOn(a)

\* Whichever of two requests is asked, they contest the same attempts.
LEMMA ContestedSymmetric == \A o, q : Contested(o, q) = Contested(q, o)
  BY DEF Contested

\* What the stages of the handlers say of the attempts they are about.
LEMMA StageFacts ==
    ASSUME ApartInv, NEW c \in Call, NEW a \in Attempt
    PROVE  /\ Leaves(c, a) \/ Stores(c, a) => Active(c) /\ a \in Touches(op[c])
           /\ Stores(c, a) => op[c].kind = "upload"
<1>0. OpInv
  BY DEF ApartInv, TypedInv
<1>1. ASSUME Leaves(c, a) PROVE Active(c) /\ a \in Touches(op[c])
  <2>1. Active(c) /\ op[c] \in Operation
    BY <1>0, <1>1 DEF Leaves, Active, OpInv
  <2> QED
    BY <1>0, <1>1, <2>1, TouchesAttempts DEF Leaves, OpInv
<1>2. ASSUME Stores(c, a) PROVE Active(c) /\ a \in Touches(op[c]) /\ op[c].kind = "upload"
  <2>1. Active(c) /\ op[c] \in Upload /\ op[c] \in Operation
    BY <1>0, <1>2 DEF Stores, Active, OpInv
  <2> QED
    BY <1>2, <2>1, TouchesAttempts, OperationFields DEF Stores
<1> QED
  BY <1>1, <1>2

\* Of two open requests for an attempt that one of them has to itself, neither is
\* an upload.
LEMMA AloneFacts ==
    ASSUME ApartInv, NEW c \in Call, NEW d \in Call, c # d, Active(c), Active(d),
           NEW a \in Touches(op[c]), a \in Touches(op[d]),
           a \in alone[c] \/ a \in alone[d] \/ a \notin doubtful
    PROVE  op[c].kind # "upload" /\ op[d].kind # "upload"
<1>1. a \in alone[c] \/ a \in alone[d]
  BY DEF ApartInv, AloneInv
<1>2. a \notin Contested(op[c], op[d])
  BY <1>1, ContestedSymmetric DEF ApartInv, AloneInv
<1> QED
  BY <1>2 DEF Contested

\* The step of a handler either goes on or answers.
GoesOn(c) ==
    /\ op' = op
    /\ \A d \in Call : d # c => pc'[d] = pc[d] /\ pending'[d] = pending[d]
    /\ \/ /\ Active(c)' /\ alone' = alone /\ doubtful' = doubtful
       \/ \E code \in ReplyCode : Reply(c, code)

\* Whether an answer leaves an attempt in doubt.
LEMMA ReplyFacts ==
    ASSUME ApartInv, NEW c \in Call, Active(c), NEW code \in ReplyCode, Reply(c, code)
    PROVE  /\ pc'[c] = "done" /\ alone'[c] = {}
           /\ \A d \in Call : d # c => alone'[d] = alone[d]
           /\ \A a \in Touches(op[c]) :
                  a \notin doubtful' => code # "failed" /\ a \in alone[c]
           /\ \A a : a \in doubtful /\ a \notin doubtful' => a \in Settled(c) /\ code = "ok"
<1>0. TypeOK
  BY DEF ApartInv, TypedInv
<1>1. /\ pc'[c] = "done" /\ alone'[c] = {}
      /\ \A d \in Call : d # c => alone'[d] = alone[d]
  BY <1>0 DEF TypeOK, Reply
<1>2. /\ code = "failed" => doubtful' = doubtful \cup Touches(op[c])
      /\ code = "ok" => doubtful' = doubtful \ Settled(c)
      /\ code \notin {"failed", "ok"} => doubtful' = doubtful
  BY DEF Reply
<1>3. Settled(c) \subseteq alone[c] /\ Touches(op[c]) \subseteq alone[c] \cup doubtful
  BY DEF Settled, ApartInv, AloneInv
<1> QED
  BY <1>1, <1>2, <1>3

\* Both ways a step goes on keep the requests apart.
LEMMA AloneStep ==
    ASSUME ApartInv, NEW c \in Call, Active(c), GoesOn(c)
    PROVE  /\ AloneInv'
           /\ \A d \in Call : alone'[d] \subseteq alone[d]
           /\ \A a \in Touches(op[c]) : a \notin doubtful' => a \in alone[c]
           /\ \A a : a \in doubtful /\ a \notin doubtful' =>
                  a \in Touches(op[c]) /\ op[c].kind # "deleteAccount"
<1>0. AloneInv
  BY DEF ApartInv
<1>1. \A d \in Call : d # c => (Active(d)' <=> Active(d))
  BY DEF GoesOn, Active
<1>2. CASE Active(c)' /\ alone' = alone /\ doubtful' = doubtful
  <2>1. \A d \in Call : Active(d)' <=> Active(d)
    BY <1>1, <1>2
  <2>2. op' = op
    BY DEF GoesOn
  <2>3. AloneInv'
    BY <1>0, <1>2, <2>1, <2>2 DEF AloneInv
  <2> QED
    BY <1>0, <1>2, <2>3 DEF AloneInv
<1>3. ASSUME NEW code \in ReplyCode, Reply(c, code)
      PROVE  /\ AloneInv'
             /\ \A d \in Call : alone'[d] \subseteq alone[d]
             /\ \A a \in Touches(op[c]) : a \notin doubtful' => a \in alone[c]
             /\ \A a : a \in doubtful /\ a \notin doubtful' =>
                    a \in Touches(op[c]) /\ op[c].kind # "deleteAccount"
  <2>1. /\ pc'[c] = "done" /\ alone'[c] = {}
        /\ \A d \in Call : d # c => alone'[d] = alone[d]
        /\ \A a \in Touches(op[c]) : a \notin doubtful' => a \in alone[c]
        /\ \A a : a \in doubtful /\ a \notin doubtful' => a \in Settled(c)
    BY <1>3, ReplyFacts
  <2>2. ~ Active(c)' /\ op' = op
    BY <2>1 DEF Active, GoesOn
  <2>3. \A d \in Call : alone'[d] \subseteq (IF Active(d)' THEN Touches(op'[d]) ELSE {})
    BY <1>0, <1>1, <2>1, <2>2 DEF AloneInv
  <2>4. \A d, e \in Call :
            d # e /\ Active(d)' /\ Active(e)'
                => alone'[d] \cap Contested(op'[d], op'[e]) = {}
    BY <1>0, <1>1, <2>1, <2>2 DEF AloneInv
  <2>5. ASSUME NEW d \in Call, Active(d)'
        PROVE  Touches(op'[d]) \subseteq alone'[d] \cup doubtful'
    <3>1. d # c /\ Active(d) /\ alone'[d] = alone[d]
      BY <1>1, <2>1, <2>2, <2>5
    <3>2. Touches(op[d]) \subseteq alone[d] \cup doubtful
      BY <1>0, <3>1 DEF AloneInv
    <3>3. \A a \in Touches(op[d]) : a \notin Settled(c)
      BY <3>1 DEF Settled
    <3> QED
      BY <2>1, <2>2, <3>1, <3>2, <3>3
  <2>6. AloneInv'
    BY <2>3, <2>4, <2>5 DEF AloneInv, Touches, Contested
  <2>7. \A a \in Settled(c) : a \in Touches(op[c]) /\ op[c].kind # "deleteAccount"
    BY <1>0 DEF Settled, AloneInv
  <2> QED
    BY <2>1, <2>6, <2>7
<1> QED
  BY <1>2, <1>3 DEF GoesOn

\* A handler changes the row and the object of the attempts it is about, and a
\* deletion only removes.
Within(c) ==
    \A a \in Attempt :
        \/ objects'[a] = objects[a] /\ rows'[a] = rows[a]
        \/ /\ a \in Touches(op[c])
           /\ \/ op[c].kind = "upload"
              \/ objects'[a] \in {objects[a], None} /\ rows'[a] \in {rows[a], None}

\* Row and object of an attempt stay in agreement while nothing happens to them and
\* the request that moves does not stand between them.
LEMMA AgreeKept ==
    ASSUME ApartInv, NEW c \in Call, NEW a \in Attempt, AgreeOn(a), a \notin doubtful,
           op' = op, \A d \in Call : d # c => pc'[d] = pc[d] /\ pending'[d] = pending[d],
           objects'[a] = objects[a], rows'[a] = rows[a],
           ~ Leaves(c, a), ~ Stores(c, a)
    PROVE  AgreeOn(a)'
  BY DEF AgreeOn, Leaves, Stores

\* What has to be shown of a handler's step concerns its own request.
LEMMA HandlerApart ==
    ASSUME ApartInv, NEW c \in Call, Active(c), TypedInv', GoesOn(c), Within(c),
           \A a \in alone'[c] : StageOn(c, a)',
           \A a \in Touches(op[c]) \cap Attempt : a \notin doubtful' => AgreeOn(a)'
    PROVE  ApartInv'
<1>0. TypedInv /\ TypeOK /\ AloneInv
  BY DEF ApartInv, TypedInv
<1>1. /\ AloneInv'
      /\ \A d \in Call : alone'[d] \subseteq alone[d]
      /\ \A a : a \in doubtful /\ a \notin doubtful' => a \in Touches(op[c])
  BY AloneStep
<1>2. op' = op /\ \A d \in Call : d # c => pc'[d] = pc[d] /\ pending'[d] = pending[d]
  BY DEF GoesOn
<1>3. ASSUME NEW d \in Call, d # c, NEW a \in alone'[d] PROVE StageOn(d, a)'
  <2>1. a \in alone[d] /\ a \in Attempt /\ StageOn(d, a)
    BY <1>0, <1>1, <1>3 DEF ApartInv, TypeOK
  <2>2. Active(d) /\ a \in Touches(op[d])
    BY <1>0, <2>1 DEF AloneInv
  <2>3. CASE objects'[a] = objects[a] /\ rows'[a] = rows[a]
    BY <1>2, <1>3, <2>1, <2>3 DEF StageOn
  <2>4. CASE a \in Touches(op[c])
    <3>1. op[c].kind # "upload" /\ op[d].kind # "upload"
      BY <1>3, <2>1, <2>2, <2>4, AloneFacts
    <3>2. objects'[a] \in {objects[a], None} /\ rows'[a] \in {rows[a], None}
      BY <2>1, <3>1 DEF Within
    <3>3. pc[d] # "upsert"
      BY <1>0, <3>1, OperationFields DEF TypedInv, OpInv
    <3> QED
      BY <1>2, <1>3, <2>1, <3>2, <3>3 DEF StageOn
  <2> QED
    BY <2>1, <2>3, <2>4 DEF Within
<1>4. ASSUME NEW a \in Attempt PROVE AgreeOn(a)'
  <2>1. CASE a \in Touches(op[c])
    BY <2>1 DEF AgreeOn
  <2>2. CASE a \notin Touches(op[c]) /\ a \notin doubtful'
    <3>1. a \notin doubtful
      BY <1>1, <2>2
    <3>2. AgreeOn(a) /\ objects'[a] = objects[a] /\ rows'[a] = rows[a]
      BY <2>2 DEF Within, ApartInv
    <3>3. ~ Leaves(c, a) /\ ~ Stores(c, a)
      BY <2>2, StageFacts
    <3> QED
      BY <1>2, <3>1, <3>2, <3>3, AgreeKept
  <2> QED
    BY <2>1, <2>2 DEF AgreeOn
<1>5. \A d \in Call : \A a \in alone'[d] : StageOn(d, a)'
  BY <1>3
<1> QED
  BY <1>1, <1>4, <1>5 DEF ApartInv

\* A request that is admitted takes what it contests from the requests that are open,
\* and has the rest to itself.
LEMMA AdmitAlone ==
    ASSUME TypeOK, AloneInv, NEW c \in Call, NEW o \in Operation, ~ Active(c),
           Admit(c, o), op'[c] = o, \A d \in Call : d # c => op'[d] = op[d]
    PROVE  /\ AloneInv'
           /\ \A d \in Call : d # c => alone'[d] \subseteq alone[d]
           /\ doubtful \subseteq doubtful'
<1> DEFINE crossed == UNION {Contested(o, op[d]) : d \in {d \in Call \ {c} : Active(d)}}
<1>1. /\ pc' = [pc EXCEPT ![c] = FirstStep(o)]
      /\ alone' = [d \in Call |->
                        CASE d = c -> Touches(o) \ crossed
                          [] d # c /\ Active(d) -> alone[d] \ Contested(o, op[d])
                          [] d # c /\ ~Active(d) -> alone[d]]
      /\ doubtful' = doubtful \cup crossed
  BY DEF Admit
<1>2. Active(c)' /\ \A d \in Call : d # c => (Active(d)' <=> Active(d))
  BY <1>1, FirstSteps DEF TypeOK, Active
<1>3. \A d \in Call : d # c /\ Active(d) => Contested(o, op[d]) \subseteq crossed
  OBVIOUS
<1> HIDE DEF crossed
<1>4. /\ alone'[c] = Touches(o) \ crossed
      /\ \A d \in Call : d # c /\ Active(d) => alone'[d] = alone[d] \ Contested(o, op[d])
      /\ \A d \in Call : d # c /\ ~ Active(d) => alone'[d] = alone[d]
  BY <1>1
<1>5. \A d \in Call : d # c => alone'[d] \subseteq alone[d]
  BY <1>4
<1>6. \A d \in Call : alone'[d] \subseteq (IF Active(d)' THEN Touches(op'[d]) ELSE {})
  BY <1>2, <1>4, <1>5 DEF AloneInv
<1>7. ASSUME NEW d \in Call, NEW e \in Call, d # e, Active(d)', Active(e)'
      PROVE  alone'[d] \cap Contested(op'[d], op'[e]) = {}
  <2>1. CASE d = c
    BY <1>2, <1>3, <1>4, <1>7, <2>1
  <2>2. CASE e = c
    BY <1>2, <1>4, <1>7, <2>2, ContestedSymmetric
  <2>3. CASE d # c /\ e # c
    <3>1. alone[d] \cap Contested(op[d], op[e]) = {}
      BY <1>2, <1>7, <2>3 DEF AloneInv
    <3> QED
      BY <1>5, <2>3, <3>1
  <2> QED
    BY <2>1, <2>2, <2>3
<1>8. ASSUME NEW d \in Call, Active(d)'
      PROVE  Touches(op'[d]) \subseteq alone'[d] \cup doubtful'
  <2>1. CASE d = c
    BY <1>1, <1>4, <2>1
  <2>2. CASE d # c
    <3>1. Touches(op[d]) \subseteq alone[d] \cup doubtful /\ Active(d)
      BY <1>2, <1>8, <2>2 DEF AloneInv
    <3> QED
      BY <1>1, <1>3, <1>4, <2>2, <3>1
  <2> QED
    BY <2>1, <2>2
<1>9. AloneInv'
  BY <1>6, <1>7, <1>8 DEF AloneInv, Touches, Contested
<1> QED
  BY <1>1, <1>5, <1>9

\* A request that begins, or is turned away, keeps the invariant.
LEMMA BeginApart ==
    ASSUME ApartInv, NEW c \in Call, NEW o \in Operation, Begin(c, o) \/ Retry(c)
    PROVE  ApartInv'
<1>0. TypedInv /\ TypeOK /\ AloneInv /\ TypedInv' /\ Others(c) /\ ~ Active(c)
  BY BeginTyped DEF ApartInv, TypedInv, Begin, Retry, Active
<1>1. PICK q \in Operation : Authenticate(c, q) /\ op'[c] = q
  BY <1>0 DEF Begin, Retry, TypedInv, TypeOK, OpInv
<1>2. UNCHANGED <<rows, objects, pending>>
  BY DEF Begin, Retry
<1>3. \A d \in Call : d # c => pc'[d] = pc[d] /\ op'[d] = op[d]
  BY <1>0 DEF Others
<1>4. /\ AloneInv'
      /\ \A d \in Call : d # c => alone'[d] \subseteq alone[d]
      /\ doubtful \subseteq doubtful'
      /\ pc'[c] \in {"put", "find", "list", "done"}
  <2>1. CASE account
    <3>1. Admit(c, q)
      BY <1>1, <2>1 DEF Authenticate
    <3>2. pc'[c] = FirstStep(q)
      BY <1>0, <3>1 DEF Admit, TypeOK
    <3> QED
      BY <1>0, <1>1, <1>3, <3>1, <3>2, AdmitAlone, FirstSteps
  <2>2. CASE ~ account
    <3>1. Reply(c, "unauthorized")
      BY <1>1, <2>2 DEF Authenticate
    <3>2. /\ pc'[c] = "done" /\ doubtful' = doubtful /\ alone'[c] = {}
          /\ \A d \in Call : d # c => alone'[d] = alone[d]
      BY <1>0, <3>1 DEF Reply, TypeOK
    <3>3. ~ Active(c)' /\ \A d \in Call : d # c => (Active(d)' <=> Active(d))
      BY <1>3, <3>2 DEF Active
    <3>4. AloneInv'
      <4>1. \A d \in Call : alone'[d] \subseteq (IF Active(d)' THEN Touches(op'[d]) ELSE {})
        BY <1>0, <1>3, <3>2, <3>3 DEF AloneInv
      <4>2. \A d, e \in Call :
                d # e /\ Active(d)' /\ Active(e)'
                    => alone'[d] \cap Contested(op'[d], op'[e]) = {}
        BY <1>0, <1>3, <3>2, <3>3 DEF AloneInv
      <4>3. \A d \in Call : Active(d)' => Touches(op'[d]) \subseteq alone'[d] \cup doubtful'
        BY <1>0, <1>3, <3>2, <3>3 DEF AloneInv
      <4> QED
        BY <4>1, <4>2, <4>3 DEF AloneInv, Touches, Contested
    <3> QED
      BY <3>2, <3>4
  <2> QED
    BY <2>1, <2>2
<1>5. ASSUME NEW d \in Call, NEW a \in alone'[d] PROVE StageOn(d, a)'
  <2>1. CASE d = c
    BY <1>4, <2>1 DEF StageOn
  <2>2. CASE d # c
    <3>1. a \in alone[d]
      BY <1>4, <2>2
    <3> QED
      BY <1>2, <1>3, <2>2, <3>1 DEF ApartInv, StageOn
  <2> QED
    BY <2>1, <2>2
<1>6. ASSUME NEW a \in Attempt PROVE AgreeOn(a)'
  <2>1. ~ Leaves(c, a) /\ ~ Stores(c, a)
    BY <1>0, StageFacts
  <2>2. AgreeOn(a)
    BY DEF ApartInv
  <2> QED
    BY <1>2, <1>3, <1>4, <2>1, <2>2 DEF AgreeOn, Leaves, Stores
<1> QED
  BY <1>0, <1>4, <1>5, <1>6 DEF ApartInv

-----------------------------------------------------------------------------
\* What each handler's step starts from.
LEMMA StepFacts ==
    ASSUME ApartInv, NEW c \in Call, Handler(c) \/ Abandon(c)
    PROVE  /\ TypedInv /\ TypeOK /\ OpInv /\ AloneInv /\ TypedInv' /\ Others(c)
           /\ Active(c) /\ op' = op /\ op[c] \in Operation
           /\ alone[c] \subseteq Touches(op[c]) /\ alone[c] \in SUBSET Attempt
           /\ \A a \in alone[c] : StageOn(c, a)
<1>1. TypedInv /\ TypeOK /\ OpInv /\ AloneInv
  BY DEF ApartInv, TypedInv
<1>2. TypedInv' /\ Others(c)
  BY <1>1, HandlerTyped
<1>3. Active(c) /\ op' = op
  BY DEF Handler, Abandon, Active, Put, Upsert, Compensate, Find, Remove, DeleteRow,
         List, Purge, DeleteUser
<1>4. op[c] \in Operation
  BY <1>1, <1>3 DEF OpInv, Active
<1> QED
  BY <1>1, <1>2, <1>3, <1>4 DEF AloneInv, ApartInv, TypeOK

\* The step to another stage, and the answer.
LEMMA GotoFacts ==
    ASSUME TypeOK, NEW c \in Call, op' = op, Others(c), NEW step, Goto(c, step)
    PROVE  /\ pc'[c] = step /\ alone' = alone /\ doubtful' = doubtful
           /\ step \notin {"idle", "done"} => GoesOn(c)
  BY DEF TypeOK, Goto, history, GoesOn, Active, Others

\* An answer ends the request, and if it is an error all its attempts are in doubt.
LEMMA AnswerFacts ==
    ASSUME ApartInv, NEW c \in Call, Active(c), op' = op, Others(c),
           NEW code \in ReplyCode, Reply(c, code)
    PROVE  /\ GoesOn(c) /\ pc'[c] = "done" /\ alone'[c] = {}
           /\ \A a \in Touches(op[c]) :
                  a \notin doubtful' => code # "failed" /\ a \in alone[c]
           /\ code # "ok" => doubtful \subseteq doubtful'
  BY ReplyFacts DEF GoesOn, Others

\* An answered request relies on nothing, and after an error it is enough that it
\* kept to its attempts.
LEMMA FailedApart ==
    ASSUME ApartInv, NEW c \in Call, Active(c), TypedInv', op' = op, Others(c),
           Within(c), Reply(c, "failed")
    PROVE  ApartInv'
<1>1. /\ GoesOn(c) /\ alone'[c] = {}
      /\ \A a \in Touches(op[c]) : a \in doubtful'
  BY AnswerFacts DEF ReplyCode
<1> QED
  BY <1>1, HandlerApart

\* The steps of an upload keep the invariant.
LEMMA UploadApart ==
    ASSUME ApartInv, NEW c \in Call, NEW outcome \in Outcome,
           Put(c, outcome) \/ Upsert(c, outcome) \/ Compensate(c, outcome)
    PROVE  ApartInv'
<1>0. /\ TypedInv /\ TypeOK /\ OpInv /\ AloneInv /\ TypedInv' /\ Others(c)
      /\ Active(c) /\ op' = op /\ op[c] \in Operation
      /\ alone[c] \subseteq Touches(op[c]) /\ alone[c] \in SUBSET Attempt
      /\ \A a \in alone[c] : StageOn(c, a)
  BY StepFacts DEF Handler
<1>1. op[c] \in Upload /\ op[c].attempt \in Attempt /\ op[c].recording \in Recording
  BY <1>0, OperationFields DEF OpInv, Put, Upsert, Compensate
<1>2. op[c].kind = "upload" /\ Touches(op[c]) = {op[c].attempt}
  BY <1>0, <1>1, OperationFields, TouchesAttempts
<1> DEFINE a == op[c].attempt
           r == op[c].recording
<1>3. CASE Put(c, outcome)
  <2>1. /\ UNCHANGED rows /\ Store(a, r, outcome)
        /\ IF outcome = "acknowledged" THEN Goto(c, "upsert") ELSE Reply(c, "failed")
    BY <1>3 DEF Put
  <2>2. Within(c)
    BY <1>0, <1>1, <1>2, <2>1 DEF Within, Store, TypeOK
  <2>3. CASE outcome = "acknowledged"
    <3>1. GoesOn(c) /\ pc'[c] = "upsert" /\ alone' = alone
      BY <1>0, <2>1, <2>3, GotoFacts
    <3>2. objects'[a] = r
      BY <1>0, <1>1, <2>1, <2>3 DEF Store, TypeOK
    <3>3. \A b \in alone'[c] : StageOn(c, b)'
      BY <1>0, <1>2, <3>1, <3>2 DEF StageOn
    <3>4. AgreeOn(a)'
      BY <1>0, <3>1 DEF AgreeOn, Stores
    <3> QED
      BY <1>0, <1>2, <2>2, <3>1, <3>3, <3>4, HandlerApart
  <2>4. CASE outcome # "acknowledged"
    BY <1>0, <2>1, <2>2, <2>4, FailedApart
  <2> QED
    BY <2>3, <2>4
<1>4. CASE Upsert(c, outcome)
  <2>1. /\ UNCHANGED objects /\ pc[c] = "upsert"
        /\ rows' = rows \/ SetRow(a, r, outcome)
        /\ \/ Goto(c, "compensate")
           \/ Reply(c, "ok") /\ SetRow(a, r, outcome) /\ outcome = "acknowledged"
    BY <1>4 DEF Upsert
  <2>2. Within(c)
    BY <1>0, <1>1, <1>2, <2>1 DEF Within, SetRow, TypeOK
  <2>3. CASE Goto(c, "compensate")
    <3>1. GoesOn(c) /\ pc'[c] = "compensate" /\ alone' = alone
      BY <1>0, <2>3, GotoFacts
    <3>2. \A b \in alone'[c] : StageOn(c, b)'
      BY <3>1 DEF StageOn
    <3>3. AgreeOn(a)'
      BY <1>0, <3>1 DEF AgreeOn, Stores
    <3> QED
      BY <1>0, <1>2, <2>2, <3>1, <3>2, <3>3, HandlerApart
  <2>4. CASE Reply(c, "ok") /\ SetRow(a, r, outcome) /\ outcome = "acknowledged"
    <3>1. /\ GoesOn(c) /\ alone'[c] = {}
          /\ a \notin doubtful' => a \in alone[c]
      BY <1>0, <1>2, <2>4, AnswerFacts DEF ReplyCode
    <3>2. rows'[a] = r
      BY <1>0, <1>1, <2>4 DEF SetRow, TypeOK
    <3>3. a \in alone[c] => objects'[a] = r
      BY <1>0, <2>1 DEF StageOn
    <3>4. AgreeOn(a)'
      BY <1>0, <3>1, <3>2, <3>3 DEF AgreeOn
    <3> QED
      BY <1>0, <1>2, <2>2, <3>1, <3>4, HandlerApart
  <2> QED
    BY <2>1, <2>3, <2>4
<1>5. CASE Compensate(c, outcome)
  <2>1. UNCHANGED rows /\ Store(a, None, outcome) /\ Reply(c, "failed")
    BY <1>5 DEF Compensate
  <2>2. Within(c)
    BY <1>0, <1>1, <1>2, <2>1 DEF Within, Store, TypeOK
  <2> QED
    BY <1>0, <2>1, <2>2, FailedApart
<1> QED
  BY <1>3, <1>4, <1>5

\* The steps of the deletion of one recording keep the invariant.
LEMMA DeleteApart ==
    ASSUME ApartInv, NEW c \in Call, NEW outcome \in Outcome,
           Find(c, outcome) \/ Remove(c, outcome) \/ DeleteRow(c, outcome)
    PROVE  ApartInv'
<1>0. /\ TypedInv /\ TypeOK /\ OpInv /\ AloneInv /\ TypedInv' /\ Others(c)
      /\ Active(c) /\ op' = op /\ op[c] \in Operation
      /\ alone[c] \subseteq Touches(op[c]) /\ alone[c] \in SUBSET Attempt
      /\ \A a \in alone[c] : StageOn(c, a)
  BY StepFacts DEF Handler
<1>1. op[c] \in Delete /\ op[c].attempt \in Attempt
  BY <1>0, OperationFields DEF OpInv, Find, Remove, DeleteRow
<1>2. Touches(op[c]) = {op[c].attempt}
  BY <1>0, <1>1, TouchesAttempts
<1> DEFINE a == op[c].attempt
<1>3. CASE Find(c, outcome)
  <2>1. /\ UNCHANGED <<rows, objects>> /\ pc[c] = "find"
        /\ Goto(c, "remove") \/ Reply(c, "notFound")
    BY <1>3 DEF Find
  <2>2. Within(c)
    BY <2>1 DEF Within
  <2>3. /\ GoesOn(c) /\ pc'[c] \in {"remove", "done"} /\ alone'[c] \subseteq alone[c]
        /\ doubtful \subseteq doubtful'
    BY <1>0, <2>1, GotoFacts, AnswerFacts DEF ReplyCode
  <2>4. \A b \in alone'[c] : StageOn(c, b)'
    BY <2>3 DEF StageOn
  <2>5. ASSUME a \notin doubtful' PROVE AgreeOn(a)'
    <3>1. ~ Leaves(c, a) /\ ~ Stores(c, a)
      BY <2>1 DEF Leaves, Stores
    <3>2. AgreeOn(a) /\ a \notin doubtful
      BY <1>1, <2>3, <2>5 DEF ApartInv
    <3>3. ASSUME NEW b \in Attempt, b = a PROVE AgreeOn(b)'
      BY <2>1, <2>3, <3>1, <3>2, <3>3, AgreeKept DEF GoesOn
    <3> QED
      BY <1>0, <1>1, <3>3
  <2> QED
    BY <1>0, <1>2, <2>2, <2>3, <2>4, <2>5, HandlerApart
<1>4. CASE Remove(c, outcome)
  <2>1. /\ UNCHANGED rows /\ Store(a, None, outcome)
        /\ IF outcome = "acknowledged" THEN Goto(c, "deleteRow") ELSE Reply(c, "failed")
    BY <1>4 DEF Remove
  <2>2. Within(c)
    BY <1>0, <1>1, <1>2, <2>1 DEF Within, Store, TypeOK
  <2>3. CASE outcome = "acknowledged"
    <3>1. GoesOn(c) /\ pc'[c] = "deleteRow" /\ alone' = alone
      BY <1>0, <2>1, <2>3, GotoFacts
    <3>2. objects'[a] = None
      BY <1>0, <1>1, <2>1, <2>3 DEF Store, TypeOK
    <3>3. \A b \in alone'[c] : StageOn(c, b)'
      BY <1>0, <1>2, <3>1, <3>2 DEF StageOn
    <3>4. AgreeOn(a)'
      BY <1>0, <3>1, <3>2 DEF AgreeOn, Leaves
    <3> QED
      BY <1>0, <1>2, <2>2, <3>1, <3>3, <3>4, HandlerApart
  <2>4. CASE outcome # "acknowledged"
    BY <1>0, <2>1, <2>2, <2>4, FailedApart
  <2> QED
    BY <2>3, <2>4
<1>5. CASE DeleteRow(c, outcome)
  <2>1. /\ UNCHANGED objects /\ SetRow(a, None, outcome) /\ pc[c] = "deleteRow"
        /\ \/ Reply(c, "failed")
           \/ Reply(c, "ok") /\ outcome = "acknowledged"
    BY <1>5 DEF DeleteRow
  <2>2. Within(c)
    BY <1>0, <1>1, <1>2, <2>1 DEF Within, SetRow, TypeOK
  <2>3. CASE Reply(c, "failed")
    BY <1>0, <2>2, <2>3, FailedApart
  <2>4. CASE Reply(c, "ok") /\ outcome = "acknowledged"
    <3>1. /\ GoesOn(c) /\ alone'[c] = {}
          /\ a \notin doubtful' => a \in alone[c]
      BY <1>0, <1>2, <2>4, AnswerFacts DEF ReplyCode
    <3>2. rows'[a] = None
      BY <1>0, <1>1, <2>1, <2>4 DEF SetRow, TypeOK
    <3>3. a \in alone[c] => objects'[a] = None
      BY <1>0, <2>1 DEF StageOn
    <3>4. AgreeOn(a)'
      BY <1>0, <3>1, <3>2, <3>3 DEF AgreeOn
    <3> QED
      BY <1>0, <1>2, <2>2, <3>1, <3>4, HandlerApart
  <2> QED
    BY <2>1, <2>3, <2>4
<1> QED
  BY <1>3, <1>4, <1>5

\* The steps of the deletion of the account keep the invariant.
LEMMA AccountApart ==
    ASSUME ApartInv, NEW c \in Call, NEW outcome \in Outcome,
           \/ List(c, outcome) \/ DeleteUser(c, outcome)
           \/ \E a \in Attempt : Purge(c, a, outcome)
    PROVE  ApartInv'
<1>0. /\ TypedInv /\ TypeOK /\ OpInv /\ AloneInv /\ TypedInv' /\ Others(c)
      /\ Active(c) /\ op' = op /\ op[c] \in Operation
      /\ alone[c] \subseteq Touches(op[c]) /\ alone[c] \in SUBSET Attempt
      /\ \A a \in alone[c] : StageOn(c, a)
  BY StepFacts DEF Handler
<1>1. op[c] \in DeleteAccount
  BY <1>0 DEF OpInv, List, DeleteUser, Purge
<1>2. Touches(op[c]) = Attempt /\ op[c].kind = "deleteAccount"
  BY <1>0, <1>1, TouchesAttempts, OperationFields
<1>3. CASE List(c, outcome)
  <2>1. /\ UNCHANGED <<rows, objects>> /\ pc[c] = "list"
        /\ \/ /\ Goto(c, "purge")
              /\ pending' = [pending EXCEPT ![c] = {a \in Attempt : rows[a] # None}]
           \/ Reply(c, "failed")
    BY <1>3 DEF List
  <2>2. Within(c)
    BY <2>1 DEF Within
  <2>3. CASE Reply(c, "failed")
    BY <1>0, <2>2, <2>3, FailedApart
  <2>4. CASE /\ Goto(c, "purge")
             /\ pending' = [pending EXCEPT ![c] = {a \in Attempt : rows[a] # None}]
    <3>1. GoesOn(c) /\ alone' = alone /\ doubtful' = doubtful
      BY <1>0, <2>4, GotoFacts
    <3>2. pending'[c] = {a \in Attempt : rows[a] # None}
      BY <1>0, <2>4 DEF TypeOK
    <3>3. \A b \in alone'[c] : StageOn(c, b)'
      <4>1. pc'[c] = "purge"
        BY <1>0, <2>4, GotoFacts
      <4> QED
        BY <1>0, <2>1, <3>1, <3>2, <4>1 DEF StageOn
    <3>4. ASSUME NEW a \in Attempt, a \notin doubtful' PROVE AgreeOn(a)'
      <4>1. ~ Leaves(c, a) /\ ~ Stores(c, a)
        BY <2>1 DEF Leaves, Stores
      <4>2. AgreeOn(a) /\ a \notin doubtful
        BY <3>1, <3>4 DEF ApartInv
      <4> QED
        BY <2>1, <3>1, <4>1, <4>2, AgreeKept DEF GoesOn
    <3> QED
      BY <1>0, <2>2, <3>1, <3>3, <3>4, HandlerApart
  <2> QED
    BY <2>1, <2>3, <2>4
<1>4. ASSUME NEW b \in Attempt, Purge(c, b, outcome) PROVE ApartInv'
  <2>1. /\ UNCHANGED rows /\ Store(b, None, outcome) /\ pc[c] = "purge"
        /\ pending' = [pending EXCEPT ![c] = @ \ {b}]
        /\ IF outcome = "acknowledged" THEN Goto(c, "purge") ELSE Reply(c, "failed")
    BY <1>4 DEF Purge
  <2>2. Within(c)
    BY <1>0, <1>2, <2>1 DEF Within, Store, TypeOK
  <2>3. CASE outcome # "acknowledged"
    BY <1>0, <2>1, <2>2, <2>3, FailedApart
  <2>4. CASE outcome = "acknowledged"
    <3>1. GoesOn(c) /\ alone' = alone /\ doubtful' = doubtful /\ pc'[c] = "purge"
      BY <1>0, <2>1, <2>4, GotoFacts
    <3>2. pending'[c] = pending[c] \ {b} /\ objects' = [objects EXCEPT ![b] = None]
      BY <1>0, <2>1, <2>4 DEF TypeOK, Store
    <3>3. ASSUME NEW a \in alone'[c] PROVE StageOn(c, a)'
      <4>1. a \in Attempt /\ StageOn(c, a)
        BY <1>0, <3>1
      <4> QED
        BY <1>0, <2>1, <3>1, <3>2, <4>1 DEF StageOn, TypeOK
    <3>4. ASSUME NEW a \in Attempt, a \notin doubtful' PROVE AgreeOn(a)'
      <4>1. AgreeOn(a) /\ a \notin doubtful
        BY <3>1, <3>4 DEF ApartInv
      <4>2. CASE a = b
        <5>1. objects'[a] = None /\ a \notin pending'[c]
          BY <1>0, <3>2, <4>2 DEF TypeOK
        <5> QED
          BY <3>1, <5>1 DEF AgreeOn, Leaves
      <4>3. CASE a # b
        <5>1. objects'[a] = objects[a] /\ rows'[a] = rows[a]
          BY <1>0, <2>1, <3>2, <4>3 DEF TypeOK
        <5>2. ~ Stores(c, a)
          BY <2>1 DEF Stores
        <5>3. CASE Leaves(c, a) /\ objects[a] = None
          <6>1. Leaves(c, a)'
            BY <2>1, <3>1, <3>2, <5>3 DEF Leaves
          <6> QED
            BY <5>1, <5>3, <6>1 DEF AgreeOn
        <5>4. CASE ~ Leaves(c, a)
          BY <3>1, <4>1, <5>1, <5>2, <5>4, AgreeKept DEF GoesOn
        <5>5. CASE objects[a] # None
          BY <3>1, <4>1, <5>1, <5>2, <5>5 DEF AgreeOn, Stores, GoesOn
        <5> QED
          BY <5>3, <5>4, <5>5
      <4> QED
        BY <4>2, <4>3
    <3> QED
      BY <1>0, <2>2, <3>1, <3>3, <3>4, HandlerApart
  <2> QED
    BY <2>3, <2>4
<1>5. CASE DeleteUser(c, outcome)
  <2>1. /\ UNCHANGED objects /\ pc[c] = "purge" /\ pending[c] = {}
        /\ rows' = IF outcome = "refused" THEN rows ELSE [a \in Attempt |-> None]
        /\ \/ Reply(c, "failed")
           \/ Reply(c, "ok") /\ outcome = "acknowledged"
    BY <1>5 DEF DeleteUser
  <2>2. Within(c)
    BY <1>2, <2>1 DEF Within
  <2>3. CASE Reply(c, "failed")
    BY <1>0, <2>2, <2>3, FailedApart
  <2>4. CASE Reply(c, "ok") /\ outcome = "acknowledged"
    <3>1. /\ GoesOn(c) /\ alone'[c] = {}
          /\ \A a \in Attempt : a \notin doubtful' => a \in alone[c]
      BY <1>0, <1>2, <2>4, AnswerFacts DEF ReplyCode
    <3>2. \A a \in Attempt : a \notin doubtful' => a \notin doubtful
      BY <1>0, <1>2, <3>1, AloneStep
    <3>3. ASSUME NEW a \in Attempt, a \notin doubtful' PROVE AgreeOn(a)'
      <4>1. a \in alone[c] /\ a \notin doubtful /\ AgreeOn(a)
        BY <3>1, <3>2, <3>3 DEF ApartInv
      <4>2. rows[a] = None \/ objects[a] = None
        BY <1>0, <2>1, <4>1 DEF StageOn
      <4>3. ASSUME NEW d \in Call, Stores(d, a) PROVE FALSE
        <5>1. Active(d) /\ a \in Touches(op[d]) /\ op[d].kind = "upload"
          BY <4>3, StageFacts
        <5>2. d # c
          BY <1>2, <5>1
        <5> QED
          BY <1>0, <1>2, <4>1, <5>1, <5>2, AloneFacts
      <4>4. objects[a] = None
        BY <4>1, <4>2, <4>3 DEF AgreeOn
      <4>5. rows'[a] = None
        BY <2>1, <2>4
      <4> QED
        BY <2>1, <4>4, <4>5 DEF AgreeOn
    <3> QED
      BY <1>0, <2>2, <3>1, <3>3, HandlerApart
  <2> QED
    BY <2>1, <2>3, <2>4
<1> QED
  BY <1>3, <1>4, <1>5

\* A handler that stops leaves its attempts in doubt.
LEMMA AbandonApart ==
    ASSUME ApartInv, NEW c \in Call, Abandon(c)
    PROVE  ApartInv'
<1>1. UNCHANGED <<rows, objects>> /\ Reply(c, "failed")
  BY DEF Abandon
<1>2. Within(c)
  BY <1>1 DEF Within
<1> QED
  BY <1>1, <1>2, StepFacts, FailedApart

\* ApartInv holds in every reachable state, however the requests overlap and fail.
THEOREM ApartInductive == Spec => []ApartInv
<1>1. Init => ApartInv
  <2> SUFFICES ASSUME Init PROVE ApartInv
    OBVIOUS
  <2>1. TypedInv
    BY BoundsAssumption DEF Init, TypedInv, TypeOK, OpInv, Step
  <2>2. \A c \in Call : ~ Active(c) /\ alone[c] = {}
    BY DEF Init, Active
  <2>3. \A a \in Attempt : objects[a] = rows[a]
    BY DEF Init
  <2> QED
    BY <2>1, <2>2, <2>3 DEF ApartInv, AloneInv, AgreeOn
<1>2. ApartInv /\ [Next]_vars => ApartInv'
  <2> SUFFICES ASSUME ApartInv, [Next]_vars PROVE ApartInv'
    OBVIOUS
  <2>1. CASE UNCHANGED vars
    BY <2>1 DEF ApartInv, TypedInv, TypeOK, OpInv, AloneInv, Active, Touches, Contested,
                StageOn, AgreeOn, Leaves, Stores, vars
  <2>2. ASSUME NEW c \in Call, Retry(c) PROVE ApartInv'
    <3>1. op[c] \in Operation
      BY <2>2 DEF Retry, ApartInv, TypedInv, OpInv
    <3> QED
      BY <2>2, <3>1, BeginApart
  <2>3. ASSUME NEW c \in Call, Handler(c) PROVE ApartInv'
    BY <2>3, UploadApart, DeleteApart, AccountApart DEF Handler
  <2> QED
    BY <2>1, <2>2, <2>3, BeginApart, AbandonApart DEF Next
<1> QED
  BY <1>1, <1>2, PTL DEF Spec

\* Row and object of an attempt agree whenever no request for it is open, unless its
\* last requests failed or contested it: whatever goes on with other attempts.
THEOREM StoresStayAgreed == Spec => []StoresAgree
<1>1. ApartInv => StoresAgree
  <2> SUFFICES ASSUME ApartInv, NEW a \in Attempt, a \notin doubtful,
                      \A c \in Call : Active(c) => a \notin Touches(op[c])
               PROVE  objects[a] = rows[a]
    BY DEF StoresAgree
  <2>1. \A c \in Call : ~ Leaves(c, a) /\ ~ Stores(c, a)
    BY StageFacts
  <2> QED
    BY <2>1 DEF ApartInv, AgreeOn
<1> QED
  BY <1>1, ApartInductive, PTL

\* Whatever fails or breaks off, and however many deletions run at once, a row is
\* deleted only when its object is gone, unless an upload contested the deletion.
THEOREM RowsGoLast == Spec => RowsGoAfterObjects
<1>1. ASSUME ApartInv, [Next]_vars
      PROVE  [\A a \in Attempt :
                  /\ rows[a] # None /\ rows'[a] = None
                  /\ \A c \in Call : Active(c) /\ a \in Touches(op[c]) => a \in alone[c]
                  => objects'[a] = None]_vars
  <2> SUFFICES ASSUME Next, NEW b \in Attempt, rows[b] # None, rows'[b] = None,
                      \A c \in Call : Active(c) /\ b \in Touches(op[c]) => b \in alone[c]
               PROVE  objects'[b] = None
    BY <1>1 DEF vars
  <2>0. /\ rows \in [Attempt -> Recording \cup {None}] /\ None \notin Recording
        /\ OpInv
    BY <1>1, NoneIsNoRecording DEF ApartInv, TypedInv, TypeOK
  <2>1. ASSUME NEW c \in Call, NEW outcome \in Outcome, Upsert(c, outcome) PROVE FALSE
    <3>1. op[c].recording \in Recording
      BY <2>0, <2>1, OperationFields DEF OpInv, Upsert
    <3> QED
      BY <2>0, <2>1, <3>1 DEF Upsert, SetRow
  <2>2. ASSUME NEW c \in Call, NEW outcome \in Outcome,
               DeleteRow(c, outcome) \/ DeleteUser(c, outcome)
        PROVE  objects'[b] = None
    <3>1. /\ Active(c) /\ UNCHANGED objects /\ op[c] \in Operation
          /\ \A a \in alone[c] : StageOn(c, a)
      BY <1>1, <2>2, StepFacts DEF Handler, DeleteRow, DeleteUser
    <3>2. CASE DeleteRow(c, outcome)
      <4>1. b = op[c].attempt /\ pc[c] = "deleteRow"
        BY <2>0, <3>2 DEF DeleteRow, SetRow
      <4>2. b \in Touches(op[c])
        BY <2>0, <3>1, <4>1, TouchesAttempts DEF OpInv
      <4> QED
        BY <3>1, <4>1, <4>2 DEF StageOn
    <3>3. CASE DeleteUser(c, outcome)
      <4>1. pc[c] = "purge" /\ pending[c] = {}
        BY <3>3 DEF DeleteUser
      <4>2. b \in Touches(op[c])
        BY <2>0, <3>1, <4>1, TouchesAttempts DEF OpInv
      <4> QED
        BY <3>1, <4>1, <4>2 DEF StageOn
    <3> QED
      BY <2>2, <3>2, <3>3
  <2>3. \E c \in Call, outcome \in Outcome :
            Upsert(c, outcome) \/ DeleteRow(c, outcome) \/ DeleteUser(c, outcome)
    BY DEF Next, Begin, Retry, Handler, Abandon, Put, Compensate, Find, Remove, List, Purge
  <2> QED
    BY <2>1, <2>2, <2>3
<1> QED
  BY <1>1, ApartInductive, PTL DEF Spec, RowsGoAfterObjects

\* Whatever fails, an upload that nothing contested is answered with success only
\* when row and object hold what it carried.
THEOREM UploadsAreStored == Spec => AcknowledgedUploadIsStored
<1>1. ASSUME ApartInv, [Next]_vars
      PROVE  [\A c \in Call :
                  /\ reply'[c] = "ok" /\ reply[c] # "ok"
                  /\ op[c].kind = "upload"
                  /\ op[c].attempt \in alone[c]
                  => rows'[op[c].attempt] = op[c].recording
                     /\ objects'[op[c].attempt] = op[c].recording]_vars
  <2> SUFFICES ASSUME Next, NEW c \in Call, reply'[c] = "ok", reply[c] # "ok",
                      op[c].kind = "upload", op[c].attempt \in alone[c]
               PROVE  rows'[op[c].attempt] = op[c].recording
                      /\ objects'[op[c].attempt] = op[c].recording
    BY <1>1 DEF vars
  <2>0. TypedInv /\ TypeOK /\ OpInv
    BY <1>1 DEF ApartInv, TypedInv
  <2>1. PICK d \in Call : \/ \E o \in Operation : Begin(d, o)
                          \/ Retry(d) \/ Handler(d) \/ Abandon(d)
    BY DEF Next
  <2>2. Others(d)
    <3>1. Retry(d) => op[d] \in Operation
      BY <2>0 DEF Retry, OpInv
    <3> QED
      BY <2>0, <2>1, <3>1, BeginTyped, HandlerTyped
  <2>3. d = c
    BY <2>2 DEF Others
  <2>4. ~ Retry(c) /\ ~ Abandon(c) /\ \A o \in Operation : ~ Begin(c, o)
    BY <2>0 DEF Retry, Abandon, Begin, Authenticate, Admit, Reply, TypeOK
  <2>5. PICK outcome \in Outcome :
            \/ Put(c, outcome) \/ Upsert(c, outcome) \/ Compensate(c, outcome)
            \/ Find(c, outcome) \/ Remove(c, outcome) \/ DeleteRow(c, outcome)
            \/ List(c, outcome) \/ (\E a \in Attempt : Purge(c, a, outcome))
            \/ DeleteUser(c, outcome)
    BY <2>1, <2>3, <2>4 DEF Handler
  <2>6. ~ Put(c, outcome) /\ ~ Compensate(c, outcome) /\ ~ Find(c, outcome)
        /\ ~ Remove(c, outcome) /\ ~ List(c, outcome)
        /\ \A a \in Attempt : ~ Purge(c, a, outcome)
    BY <2>0 DEF Put, Compensate, Find, Remove, List, Purge, Goto, Reply, TypeOK
  <2>7. ~ DeleteRow(c, outcome) /\ ~ DeleteUser(c, outcome)
    BY <2>0, OperationFields DEF DeleteRow, DeleteUser, OpInv
  <2>8. Upsert(c, outcome)
    BY <2>5, <2>6, <2>7
  <2>9. op[c].attempt \in Attempt /\ objects[op[c].attempt] = op[c].recording
    BY <1>1, <2>0, <2>8, OperationFields DEF ApartInv, StageOn, OpInv, Upsert
  <2>10. /\ UNCHANGED objects /\ SetRow(op[c].attempt, op[c].recording, outcome)
         /\ outcome = "acknowledged"
    BY <2>0, <2>8 DEF Upsert, Goto, Reply, TypeOK
  <2> QED
    BY <2>0, <2>9, <2>10 DEF SetRow, TypeOK
<1> QED
  BY <1>1, ApartInductive, PTL DEF Spec, AcknowledgedUploadIsStored
=============================================================================
