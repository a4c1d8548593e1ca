----------------------------- MODULE MCWebhooks -----------------------------
(***************************************************************************)
(* The two halves of the webhook handlers, one at a time: the arrival of   *)
(* messages, and the marks made on one of them.  `part' is chosen once.    *)
(***************************************************************************)
EXTENDS MCWebhookInbound, MessageMarks

VARIABLE part

WebhooksInit ==
  /\ part \in {"messages", "marks"} /\ Init /\ MarksInit
  /\ part = "messages" => row.mine

\* What nobody would notice does not happen: a row that is not the panel's and is
\* found by its external id grows old, a row that is too old for the only echo that it
\* is like grows older, or a key nobody asks for leaves Redis.
Noticed ==
  /\ \A r \in Requests : rows[r].age = "new" => rows'[r].age = "new"
  /\ \A p \in Panel : rows[p].age # "old" => rows'[p].age # "old"
  /\ \A x \in Ids : owed[x] = 0 /\ Working(x) = {} => redis'[x] = redis[x]

WebhooksNext ==
  /\ \/ part = "messages" /\ Next /\ Noticed /\ UNCHANGED marksVars
     \/ part = "marks" /\ MarksNext /\ UNCHANGED vars
  /\ UNCHANGED part

WebhooksSpec == WebhooksInit /\ [][WebhooksNext]_<<vars, marksVars, part>>

WebhooksSymmetry == Permutations(Requests) \cup Permutations(Jobs)
=============================================================================
