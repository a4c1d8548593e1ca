--------------------------- MODULE WebhookInbound ---------------------------
(***************************************************************************)
(* The inbound half of the omnichannel messaging core: Evolution posts one *)
(* webhook, or several, for every message of a WhatsApp conversation; the  *)
(* API claims the message's idempotency key, finds or creates its row, and *)
(* marks the key done.  A message is a customer's, one the panel sent (the *)
(* webhook is then the echo of a row that exists) or one typed on the      *)
(* phone.  A request advances one await at a time.                         *)
(*                                                                         *)
(* A key is claimed in Redis, or in the process's memory when Redis fails; *)
(* each call chooses its store anew.  The worker of OutboundPipeline       *)
(* appears here as three steps: accepted, settled, given up.               *)
(***************************************************************************)
EXTENDS Naturals, Sequences, FiniteSets

CONSTANTS
  Customer, Panel, Phone, \* WhatsApp messages, by who wrote them
  Text,                   \* Text[x]: what message x says, or its media
  Fits,                   \* Fits[x]: what a row may say for x to be taken for its echo
  Bare,                   \* media whose webhook tells neither name, size, type nor caption
  Requests,               \* webhook requests; the name is also its token
  NoOne,
  MaxCopies,              \* bound: webhooks posted for one message
  MaxFaults,              \* bound: failures, restarts and expired claims
  MaxLapses               \* bound: rows that outlive the echo window

Ids    == Customer \cup Panel \cup Phone
FromMe == Panel \cup Phone
RowIds == Panel \cup Requests

ASSUME WebhookAssumption ==
  /\ Customer \cap FromMe = {} /\ Panel \cap Phone = {} /\ Ids \cap Requests = {}
  /\ NoOne \notin Ids \cup Requests /\ IsFiniteSet(Requests)
  /\ {MaxCopies, MaxFaults, MaxLapses} \subseteq Nat

VARIABLES
  redis, memory, \* the claim on each message's key, per store
  rows,          \* rows[i]: a message row, of the panel or made by a request
  order,         \* the rows by createdAt, taken to be the order of creation
  worker,        \* worker[p]: how far the outbound worker is with p
  owed,          \* owed[x]: webhooks Evolution still has to post for x
  acked,         \* messages for which a webhook was answered 2xx
  rq,            \* rq[r]: a webhook request
  taint,         \* taint[x]: incidents that weaken what x is promised
  expired,       \* requests that lost their claim while they ran
  faults, lapses

vars == <<redis, memory, rows, order, worker, owed, acked, rq, taint, expired, faults, lapses>>

Free    == [st |-> "free", by |-> NoOne]
Claim   == {Free} \cup [st : {"processing", "done"}, by : Requests]
Row     == [st : {"absent", "PENDING", "SENT", "FAILED"}, ext : Ids \cup {NoOne},
            says : {Text[x] : x \in Ids} \cup {NoOne}, mine : BOOLEAN, age : {"new", "recent", "old"}]
Request == [pc : {"unused", "find", "reconcile", "adopt", "sync", "create",
                  "answer", "ended"},
            x : Ids \cup {NoOne}, row : RowIds \cup {NoOne}]

Absent == [st |-> "absent", ext |-> NoOne, says |-> NoOne, mine |-> FALSE, age |-> "old"]
Unused == [pc |-> "unused", x |-> NoOne, row |-> NoOne]

Init ==
  /\ redis = [x \in Ids |-> Free] /\ memory = redis
  /\ rows = [i \in RowIds |-> Absent] /\ order = <<>>
  /\ worker = [p \in Panel |-> "idle"]
  /\ owed = [x \in Ids |-> 0] /\ acked = {}
  /\ rq = [r \in Requests |-> Unused]
  /\ taint = [x \in Ids |-> {}] /\ expired = {} /\ faults = 0 /\ lapses = 0

Store   == <<redis, memory>>
Outside == <<worker, owed>>
Counts  == <<faults, lapses>>

Live(r)  == rq[r].pc \notin {"unused", "ended"}
Goto(r, pc) == rq' = [rq EXCEPT ![r].pc = pc]

\* A Redis call is carried out, or fails, or is carried out although its answer
\* is lost; after a failure the same is done in memory.
Calls == {"ok", "lost", "down"}

OnKey(x, inRedis, inMemory, call) ==
  /\ redis'  = IF call = "down" THEN redis ELSE [redis EXCEPT ![x] = inRedis]
  /\ memory' = IF call = "ok" THEN memory ELSE [memory EXCEPT ![x] = inMemory]

\* Something went wrong for the messages xs.
Fault(xs, what) ==
  /\ faults < MaxFaults /\ faults' = faults + 1
  /\ taint' = [x \in Ids |-> IF x \in xs THEN taint[x] \cup {what} ELSE taint[x]]

Answered(x, call) ==
  IF call = "ok" THEN UNCHANGED <<taint, faults>> ELSE Fault({x}, "redis")

-----------------------------------------------------------------------------
\* The scripts of the idempotency store: only the holder's token ends a claim.
\* Each is preceded by a mistake the runs must notice.
Held(r) == [st |-> "processing", by |-> r]

VacantUntilDone(c) == c.st # "done"
Vacant(c) == c = Free
Claimed(c, r) == IF Vacant(c) THEN Held(r) ELSE c

UnprefixedOnceDone(c, r) == IF c = Held(r) THEN [st |-> "value", by |-> r] ELSE c
Completed(c, r) == IF c = Held(r) THEN [st |-> "done", by |-> r] ELSE c

ReleasedByAnyone(c, r) == IF c.st = "processing" THEN Free ELSE c
CompletedAnyway(c, r) == Completed(c, r)
Released(c, r) == IF c = Held(r) THEN Free ELSE c

\* acquireWebhookIdempotency: a request for a key that is claimed or done is
\* answered 202 at once.
Acquire(r, x, call) ==
  LET seen == IF call = "ok" THEN redis[x] ELSE memory[x]
  IN  /\ rq[r].pc = "unused" /\ owed[x] > 0
      /\ OnKey(x, Claimed(redis[x], r), Claimed(memory[x], r), call)
      /\ Answered(x, call)
      /\ owed' = [owed EXCEPT ![x] = @ - 1]
      /\ rq' = [rq EXCEPT ![r] = [pc |-> IF Vacant(seen) THEN "find" ELSE "ended",
                                  x |-> x, row |-> NoOne]]
      /\ acked' = IF Vacant(seen) THEN acked ELSE acked \cup {x}
      /\ UNCHANGED <<rows, order, worker, expired, lapses>>

\* The events are published (that may fail, too), then completeWebhookIdempotency
\* and the 2xx answer.
Complete(r, call) ==
  LET x == rq[r].x
  IN  /\ rq[r].pc = "answer"
      /\ OnKey(x, Completed(redis[x], r), Completed(memory[x], r), call)
      /\ Answered(x, call)
      /\ acked' = acked \cup {x}
      /\ Goto(r, "ended")
      /\ UNCHANGED <<rows, order, Outside, expired, lapses>>

\* An await of the handler throws: the claim is released and the answer is 500,
\* so Evolution posts the webhook again.
HandlerFails(r, call) ==
  LET x == rq[r].x
  IN  /\ rq[r].pc \in {"find", "reconcile", "adopt", "sync", "create", "answer"}
      /\ OnKey(x, Released(redis[x], r), Released(memory[x], r), call)
      /\ Fault({x}, IF call = "ok" THEN "failed" ELSE "redis")
      /\ owed' = [owed EXCEPT ![x] = @ + 1]
      /\ Goto(r, "ended")
      /\ UNCHANGED <<rows, order, worker, acked, expired, lapses>>

-----------------------------------------------------------------------------
Position(i) == CHOOSE k \in DOMAIN order : order[k] = i
Newest(i, S) == i \in S /\ \A j \in S : Position(j) <= Position(i)

Rows == {i \in RowIds : rows[i].st # "absent"}
RowsOf(x) == {i \in Rows : rows[i].ext = x}

\* A row is young enough to be looked at: less than 90 seconds old, or 25 for media that
\* nothing tells apart.
InTime(i, x) == rows[i].age = "new" \/ (rows[i].age = "recent" /\ x \notin Bare)

\* Outbound rows of any status with the same text, or of media that are like it in what
\* the webhook tells of them.
EchoesOf(x) == {i \in Rows : rows[i].mine /\ InTime(i, x) /\ rows[i].says \in Fits[x]}

\* findExistingWebhookMessage.
Find(r) ==
  LET x == rq[r].x
      found == RowsOf(x)
      next(i, pc) == rq' = [rq EXCEPT ![r].row = i, ![r].pc = pc]
  IN  /\ rq[r].pc = "find"
      /\ \/ found = {} /\ next(NoOne, IF x \in FromMe THEN "reconcile" ELSE "create")
         \/ \E i \in found :
              Newest(i, found) /\ next(i, IF rows[i].st = "SENT" THEN "answer" ELSE "sync")
      /\ UNCHANGED <<Store, rows, order, Outside, acked, taint, expired, Counts>>

\* reconcilePendingOutboundEcho, first the query and then the update.
Reconcile(r) ==
  LET like == EchoesOf(rq[r].x)
      next(i, pc) == rq' = [rq EXCEPT ![r].row = i, ![r].pc = pc]
  IN  /\ rq[r].pc = "reconcile"
      /\ \/ like = {} /\ next(NoOne, "create")
         \/ \E i \in like : Newest(i, like) /\ next(i, "adopt")
      /\ UNCHANGED <<Store, rows, order, Outside, acked, taint, expired, Counts>>

Adopt(r) ==
  /\ rq[r].pc = "adopt"
  /\ rows' = [rows EXCEPT ![rq[r].row].st = "SENT", ![rq[r].row].ext = rq[r].x]
  /\ Goto(r, "answer")
  /\ UNCHANGED <<Store, order, Outside, acked, taint, expired, Counts>>

\* syncWebhookMessage of a row found by its external id.
Sync(r) ==
  /\ rq[r].pc = "sync"
  /\ rows' = [rows EXCEPT ![rq[r].row].st = "SENT"]
  /\ Goto(r, "answer")
  /\ UNCHANGED <<Store, order, Outside, acked, taint, expired, Counts>>

Create(r) ==
  /\ rq[r].pc = "create"
  /\ rows' = [rows EXCEPT ![r] = [st |-> "SENT", ext |-> rq[r].x, says |-> Text[rq[r].x],
                                  mine |-> rq[r].x \in FromMe, age |-> "new"]]
  /\ order' = Append(order, r)
  /\ Goto(r, "answer")
  /\ UNCHANGED <<Store, Outside, acked, taint, expired, Counts>>

-----------------------------------------------------------------------------
\* Evolution, WhatsApp and the worker.

\* Somebody writes on WhatsApp, and Evolution posts the message to the API.
Posts(x) == \E n \in 1 .. MaxCopies : owed' = [owed EXCEPT ![x] = n]

Written(x) ==
  /\ x \in Customer \cup Phone /\ owed[x] = 0 /\ x \notin acked
  /\ \A r \in Requests : rq[r].x # x
  /\ Posts(x)
  /\ UNCHANGED <<Store, rows, order, worker, acked, rq, taint, expired, Counts>>

PanelSend(p) ==
  /\ rows[p].st = "absent"
  /\ rows' = [rows EXCEPT ![p] = [st |-> "PENDING", ext |-> NoOne, says |-> Text[p],
                                  mine |-> TRUE, age |-> "new"]]
  /\ order' = Append(order, p)
  /\ worker' = [worker EXCEPT ![p] = "sending"]
  /\ UNCHANGED <<Store, owed, acked, rq, taint, expired, Counts>>

Accepted(p) ==
  /\ worker[p] = "sending"
  /\ worker' = [worker EXCEPT ![p] = "accepted"]
  /\ Posts(p)
  /\ UNCHANGED <<Store, rows, order, acked, rq, taint, expired, Counts>>

Settled(p) ==
  /\ worker[p] = "accepted"
  /\ worker' = [worker EXCEPT ![p] = "done"]
  /\ rows' = [rows EXCEPT ![p].st = "SENT", ![p].ext = p]
  /\ UNCHANGED <<Store, order, owed, acked, rq, taint, expired, Counts>>

\* The worker got an error, perhaps for a message that was accepted.
GivenUp(p) ==
  /\ worker[p] \in {"sending", "accepted"}
  /\ worker' = [worker EXCEPT ![p] = "done"]
  /\ rows' = [rows EXCEPT ![p].st = "FAILED"]
  /\ UNCHANGED <<Store, order, owed, acked, rq, taint, expired, Counts>>

\* A row becomes older than the 25 seconds or the 90 that an echo looks back.
Lapse(i) ==
  /\ rows[i].age # "old" /\ lapses < MaxLapses
  /\ lapses' = lapses + 1
  /\ \E age \in {"recent", "old"} \ {rows[i].age} : rows' = [rows EXCEPT ![i].age = age]
  /\ UNCHANGED <<Store, order, Outside, acked, rq, taint, expired, faults>>

\* The time to live of a claim ends; it is an incident only when the request
\* that made the claim still runs.
Overtaken(c) ==
  IF c.st = "processing" /\ Live(c.by)
  THEN faults < MaxFaults /\ faults' = faults + 1 /\ expired' = expired \cup {c.by}
  ELSE UNCHANGED <<faults, expired>>

Expire(x) ==
  \/ /\ redis[x] # Free /\ Overtaken(redis[x])
     /\ redis' = [redis EXCEPT ![x] = Free]
     /\ UNCHANGED <<memory, rows, order, Outside, acked, rq, taint, lapses>>
  \/ /\ memory[x] # Free /\ Overtaken(memory[x])
     /\ memory' = [memory EXCEPT ![x] = Free]
     /\ UNCHANGED <<redis, rows, order, Outside, acked, rq, taint, lapses>>

\* The API process restarts: the requests it ran get no answer, so Evolution
\* posts them again, and the claims they made in Redis stay.
Restart ==
  LET cut(x) == {r \in Requests : Live(r) /\ rq[r].x = x}
  IN  /\ Fault({x \in Ids : cut(x) # {}}, "restart")
      /\ rq' = [r \in Requests |-> IF Live(r) THEN [rq[r] EXCEPT !.pc = "ended"] ELSE rq[r]]
      /\ owed' = [x \in Ids |-> owed[x] + Cardinality(cut(x))]
      /\ memory' = [x \in Ids |-> Free]
      /\ UNCHANGED <<redis, rows, order, worker, acked, expired, lapses>>

Handle(r) ==
  \/ \E x \in Ids, call \in Calls : Acquire(r, x, call)
  \/ Find(r) \/ Reconcile(r) \/ Adopt(r) \/ Sync(r) \/ Create(r)
  \/ \E call \in Calls : Complete(r, call) \/ HandlerFails(r, call)

Next ==
  \/ \E r \in Requests : Handle(r)
  \/ \E x \in Ids : Written(x) \/ Expire(x)
  \/ \E p \in Panel : PanelSend(p) \/ Accepted(p) \/ Settled(p) \/ GivenUp(p)
  \/ \E i \in RowIds : Lapse(i)
  \/ Restart

Spec == Init /\ [][Next]_vars

-----------------------------------------------------------------------------
Incident == {"redis", "failed", "restart"}

TypeOK ==
  /\ redis \in [Ids -> Claim] /\ memory \in [Ids -> Claim]
  /\ rows \in [RowIds -> Row] /\ order \in Seq(RowIds)
  /\ worker \in [Panel -> {"idle", "sending", "accepted", "done"}]
  /\ owed \in [Ids -> Nat] /\ acked \subseteq Ids
  /\ rq \in [Requests -> Request]
  /\ taint \in [Ids -> SUBSET Incident] /\ expired \subseteq Requests
  /\ faults \in 0 .. MaxFaults /\ lapses \in 0 .. MaxLapses

Working(x) == {r \in Requests : Live(r) /\ rq[r].x = x}

\* A request that works on a message holds its key until it ends, unless its own
\* claim expired or Redis failed: no other request takes or ends the claim, even
\* one that was overtaken itself.
ClaimsHold ==
  \A x \in Ids : \A r \in Working(x) \ expired : redis[x] = Held(r) \/ "redis" \in taint[x]

\* The echo of one message is never taken for another of the conversation's outbound
\* messages: that happens to equal texts, and to media that are alike in what the webhook
\* tells of them.
Like(x) == Fits[x] \cup {Text[x]}
Unmistakable(x) ==
  x \in FromMe => \A y \in FromMe \ {x} : Text[y] \notin Like(x) /\ Text[x] \notin Like(y)

\* A message of WhatsApp has one row: neither a repeated webhook nor the echo of
\* a panel message, in time and like its row, duplicates it in the conversation.
OneRowPerMessage ==
  \A x \in Ids :
    /\ Unmistakable(x) /\ "redis" \notin taint[x] /\ \A r \in expired : rq[r].x # x
    /\ x \in Panel => InTime(x, x) /\ Text[x] \in Fits[x]
    => Cardinality(RowsOf(x)) <= 1

\* An answer of 2xx is kept: the message is in the conversation, or a request
\* works on it, or Evolution will post it again.
AcknowledgedIsKept ==
  \A x \in acked :
    \/ RowsOf(x) # {} \/ Working(x) # {} \/ owed[x] > 0
    \/ ~ Unmistakable(x) \/ taint[x] \cap {"restart", "redis"} # {}

\* "Mensagem enviada pelo atendente nao deve duplicar quando webhook retornar
\* eco": a panel message never gets a second row.
EchoNeverDuplicates == \A p \in Panel : Cardinality(RowsOf(p)) <= 1
=============================================================================
