------------------------- MODULE PublicationLedger -------------------------
(***************************************************************************)
(* What the publication service promises, without its calls, locks and     *)
(* transactions (docs/cms-publication.md steps 2, 4 and 5): a key publishes*)
(* at most once, publishing is one atomic step that bumps the content's    *)
(* revision, records the change and fills the key's receipt, and a repeated*)
(* key is answered from that receipt.  An error answer promises nothing:   *)
(* the publication may have happened or not.                               *)
(***************************************************************************)
EXTENDS Naturals

CONSTANTS Request, Key, Item, Document, None

VARIABLES
    asked,      \* the document of each request
    answer,     \* what the request was answered
    ledger,     \* the receipt of each key
    catalogue,  \* the status and revision of each content
    changes     \* the changes recorded for the clients that synchronise

vars == <<asked, answer, ledger, catalogue, changes>>

Init ==
    /\ asked = [r \in Request |-> None]
    /\ answer = [r \in Request |-> None]
    /\ ledger = [k \in Key |-> None]
    /\ catalogue = [i \in Item |-> [status |-> "absent", revision |-> 0]]
    /\ changes = {}

Ask(r, d) ==
    /\ asked[r] = None
    /\ asked' = [asked EXCEPT ![r] = d]
    /\ UNCHANGED <<answer, ledger, catalogue, changes>>

Change(i, status) ==
    /\ catalogue' = [catalogue EXCEPT ![i] =
                        [status |-> status, revision |-> catalogue[i].revision + 1]]
    /\ changes' = changes \cup {[item |-> i, revision |-> catalogue[i].revision + 1,
                                 operation |-> IF status = "hidden" THEN "delete"
                                                                    ELSE "upsert"]}

Answer(r, reply) ==
    /\ asked[r] # None
    /\ answer[r] = None
    /\ answer' = [answer EXCEPT ![r] = reply]
    /\ UNCHANGED asked

\* The one step in which a key's content appears.
Publish(r) ==
    LET k == asked[r].key
        i == asked[r].item
        receipt == [item |-> i, revision |-> catalogue[i].revision + 1]
    IN  /\ asked[r] # None
        /\ ledger[k] = None
        /\ ledger' = [ledger EXCEPT ![k] = receipt]
        /\ Change(i, "published")
        /\ \/ Answer(r, [result |-> "created", receipt |-> receipt])
           \/ Answer(r, [result |-> "failed"])

Repeat(r) ==
    /\ asked[r] # None
    /\ ledger[asked[r].key] # None
    /\ Answer(r, [result |-> "duplicate", receipt |-> ledger[asked[r].key]])
    /\ UNCHANGED <<ledger, catalogue, changes>>

Refuse(r) ==
    /\ \E e \in {"integrity", "failed"} : Answer(r, [result |-> e])
    /\ UNCHANGED <<ledger, catalogue, changes>>

\* The operator changes the status of a content there is.
Moderate(i, status) ==
    /\ catalogue[i].revision > 0
    /\ Change(i, status)
    /\ UNCHANGED <<asked, answer, ledger>>

Next ==
    \/ \E r \in Request :
           (\E d \in Document : Ask(r, d)) \/ Publish(r) \/ Repeat(r) \/ Refuse(r)
    \/ \E i \in Item, s \in {"published", "hidden"} : Moderate(i, s)

Spec == Init /\ [][Next]_vars
=============================================================================
