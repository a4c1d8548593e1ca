------------------------- MODULE OutboundPipeline -------------------------
(***************************************************************************)
(* The outbound half of the omnichannel messaging core: the API routes     *)
(* that write a message row and put a job on the BullMQ queue, the worker  *)
(* that sends it to the WhatsApp provider, and the monitor that requeues   *)
(* messages that stay PENDING.                                             *)
(*                                                                         *)
(* A request handler and a worker advance one await at a time, so every    *)
(* database write, queue call, provider call and event is an action that   *)
(* others may interleave with.  There is no transaction around any two of  *)
(* them in the code.  Events to the panel are steps that may fail; what the *)
(* panel makes of them is not part of this module.                         *)
(***************************************************************************)
EXTENDS OutboundRetry, Sequences, FiniteSets

CONSTANTS
  Msgs,               \* messages the panel may send
  Handlers,           \* concurrent API requests
  Workers,            \* worker processes, one job at a time each
  Jobs,               \* job slots of the queue
  NoMsg, NoJob,
  Errors,             \* provider errors that may occur
  Kind,               \* Kind[m]: "plain", "sticker" or "audio"
  ProviderConfigured, \* EVOLUTION_BASE_URL is set
  Deletable,          \* messages an operator may clear
  MaxAttempts,        \* outboundQueueMaxAttempts
  MaxRequeue,         \* MAX_REQUEUE_PER_CYCLE
  BatchLimit,         \* `limit` of a reprocess-failed request
  MaxStalls,          \* BullMQ maxStalledCount
  MaxAccepts,         \* bound: messages the provider accepts
  MaxReprocess,       \* bound: reprocess requests
  MaxFaults           \* bound: crashes and infrastructure failures

ASSUME ConstantsAssumption ==
  /\ IsFiniteSet(Msgs) /\ NoMsg \notin Msgs /\ NoJob \notin Jobs
  /\ Errors \subseteq Error
  /\ Kind \in [Msgs -> {"plain", "sticker", "audio"}]
  /\ ProviderConfigured \in BOOLEAN
  /\ Deletable \subseteq Msgs
  /\ MaxAttempts \in Nat \ {0}
  /\ {MaxRequeue, BatchLimit, MaxStalls, MaxAccepts, MaxReprocess, MaxFaults} \subseteq Nat

VARIABLES
  msg,       \* msg[m]: the message row
  job,       \* job[j]: a slot of the queue
  hd,        \* hd[h]: an API request in progress
  wk,        \* wk[w]: a worker process
  mon,       \* mon[w]: what the stale monitor of that process still requeues
  wa,        \* messages the provider accepted, in order; the index is the
             \* external id WhatsApp gave to the message
  audit,     \* audit[m]: outcomes recorded in the audit trail
  hist,      \* hist[m]: what has happened to m that weakens its guarantees
  faults,    \* failures so far
  reprocs    \* reprocess requests so far

vars == <<msg, job, hd, wk, mon, wa, audit, hist, faults, reprocs>>

Statuses == {"PENDING", "SENT", "FAILED"}
NoExt    == 0
ExtIds   == 0 .. MaxAccepts

Message == [st    : Statuses \cup {"absent", "deleted"},
            ext   : ExtIds,
            born  : Nat,
            stale : BOOLEAN]
Job     == [st : {"free", "waiting", "active"}, m : Msgs \cup {NoMsg},
            made : 0 .. MaxAttempts - 1, stalls : 0 .. MaxStalls]
Handler == [pc   : {"idle", "reset", "next", "enqueue", "queue_failed", "announce", "record",
                    "publish"},
            kind : {"none", "send", "forward", "reprocess", "batch"},
            m : Msgs \cup {NoMsg}, todo : SUBSET Msgs, force : BOOLEAN]
Worker  == [pc  : {"idle", "send", "fallback", "mark", "give_up", "announce", "record"},
            job : Jobs \cup {NoJob}, ext : ExtIds, out : {"none", "SENT", "FAILED"}]

\* "lost":    its request or its last job disappeared in a failure
\* "unknown": the provider accepted it and the worker did not learn it, or did
\*            not come to the end of the job
\* "requeued": the monitor, or a repeated command, queued it once more
\* "reset":   a reprocess request queued it once more
\* "unrecorded": the insert of an audit entry failed, or its request ended before it
Incidents == {"lost", "unknown", "requeued", "reset", "unrecorded"}

NewMessage  == [st |-> "absent", ext |-> NoExt, born |-> 0, stale |-> FALSE]
FreeJob     == [st |-> "free", m |-> NoMsg, made |-> 0, stalls |-> 0]
IdleHandler == [pc |-> "idle", kind |-> "none", m |-> NoMsg, todo |-> {}, force |-> FALSE]
IdleWorker  == [pc |-> "idle", job |-> NoJob, ext |-> NoExt, out |-> "none"]

Exists(m)  == msg[m].st \in Statuses
Created    == {m \in Msgs : msg[m].st # "absent"}
Oldest(S, k) == {m \in S : Cardinality({x \in S : msg[x].born < msg[m].born}) < k}
\* Ids that no request has taken for a row it is about to create.
Unused     == {m \in Msgs : msg[m].st = "absent" /\ \A h \in Handlers : m \notin hd[h].todo}
Target(w)  == job[wk[w].job].m
Note(m, i) == hist' = [hist EXCEPT ![m] = @ \cup {i}]
Fault      == faults < MaxFaults /\ faults' = faults + 1

Init ==
  /\ msg = [m \in Msgs |-> NewMessage]
  /\ job = [j \in Jobs |-> FreeJob]
  /\ hd = [h \in Handlers |-> IdleHandler]
  /\ wk = [w \in Workers |-> IdleWorker]
  /\ mon = [w \in Workers |-> {}]
  /\ wa = <<>>
  /\ audit = [m \in Msgs |-> {}]
  /\ hist = [m \in Msgs |-> {}]
  /\ faults = 0
  /\ reprocs = 0

-----------------------------------------------------------------------------
(* API routes *)

\* outboundQueue.add: a new job in a free slot.
AddJob(m) ==
  \E j \in Jobs :
    /\ job[j].st = "free"
    /\ job' = [job EXCEPT ![j] = [FreeJob EXCEPT !.st = "waiting", !.m = m]]

\* The row a send or a forward writes: message.create with status PENDING.
InsertPending(m) ==
  msg' = [msg EXCEPT ![m] = [NewMessage EXCEPT !.st = "PENDING",
                                               !.born = Cardinality(Created) + 1]]

\* What a handler does after one message: the next one of its list, or return.
Advance(h) ==
  hd' = [hd EXCEPT ![h] = IF hd[h].todo = {} THEN IdleHandler
                          ELSE [hd[h] EXCEPT !.pc = "next", !.m = NoMsg]]

SendMessage(h, m) ==
  /\ hd[h].pc = "idle" /\ m \in Unused
  /\ InsertPending(m)
  /\ hd' = [hd EXCEPT ![h] = [IdleHandler EXCEPT !.pc = "enqueue", !.kind = "send", !.m = m]]
  /\ UNCHANGED <<job, wk, mon, wa, audit, hist, faults, reprocs>>

\* A forward request is for several source messages; `todo` holds the copies
\* still to be created.
ForwardRequest(h, S) ==
  /\ hd[h].pc = "idle" /\ S # {} /\ S \subseteq Unused
  /\ hd' = [hd EXCEPT ![h] = [IdleHandler EXCEPT !.pc = "next", !.kind = "forward", !.todo = S]]
  /\ UNCHANGED <<msg, job, wk, mon, wa, audit, hist, faults, reprocs>>

ForwardNext(h, m) ==
  /\ hd[h].pc = "next" /\ hd[h].kind = "forward" /\ m \in hd[h].todo
  /\ msg[m].st = "absent"
  /\ InsertPending(m)
  /\ hd' = [hd EXCEPT ![h].pc = "enqueue", ![h].m = m, ![h].todo = @ \ {m}]
  /\ UNCHANGED <<job, wk, mon, wa, audit, hist, faults, reprocs>>

\* The reprocess route reads the row and rejects a SENT message unless forced...
ReprocessCheck(h, m, force) ==
  /\ hd[h].pc = "idle" /\ Exists(m)
  /\ force \/ msg[m].st # "SENT"
  /\ reprocs < MaxReprocess /\ reprocs' = reprocs + 1
  /\ hd' = [hd EXCEPT ![h] = [IdleHandler EXCEPT !.pc = "reset", !.kind = "reprocess",
                                                 !.m = m, !.force = force]]
  /\ UNCHANGED <<msg, job, wk, mon, wa, audit, hist, faults>>

\* ...and then resets it, whatever its status has become.
ResetToPending(m) ==
  /\ msg' = [msg EXCEPT ![m].st = "PENDING", ![m].ext = NoExt]
  /\ Note(m, "reset")

ReprocessReset(h) ==
  /\ hd[h].pc = "reset" /\ Exists(hd[h].m)
  /\ ResetToPending(hd[h].m)
  /\ hd' = [hd EXCEPT ![h].pc = "enqueue", ![h].force = FALSE]
  /\ UNCHANGED <<job, wk, mon, wa, audit, faults, reprocs>>

\* reprocess-failed selects the oldest FAILED messages of the conversation...
ReprocessFailedSelect(h) ==
  LET chosen == Oldest({m \in Msgs : msg[m].st = "FAILED"}, BatchLimit) IN
  /\ hd[h].pc = "idle" /\ chosen # {}
  /\ reprocs < MaxReprocess /\ reprocs' = reprocs + 1
  /\ hd' = [hd EXCEPT ![h] = [IdleHandler EXCEPT !.pc = "next", !.kind = "batch", !.todo = chosen]]
  /\ UNCHANGED <<msg, job, wk, mon, wa, audit, hist, faults>>

\* ...and resets them one after the other, oldest first.
ReprocessFailedNext(h, m) ==
  /\ hd[h].pc = "next" /\ hd[h].kind = "batch" /\ m \in Oldest(hd[h].todo, 1)
  /\ Exists(m)
  /\ ResetToPending(m)
  /\ hd' = [hd EXCEPT ![h].pc = "enqueue", ![h].m = m, ![h].todo = @ \ {m}]
  /\ UNCHANGED <<job, wk, mon, wa, audit, faults, reprocs>>

\* Updating a row that is gone throws: the request ends with an error.
RowMissing(h) ==
  /\ \/ hd[h].pc \in {"reset", "queue_failed"} /\ ~Exists(hd[h].m)
     \/ /\ hd[h].pc = "next" /\ hd[h].kind = "batch"
        /\ \E m \in Oldest(hd[h].todo, 1) : ~Exists(m)
  /\ hd' = [hd EXCEPT ![h] = IdleHandler]
  /\ UNCHANGED <<msg, job, wk, mon, wa, audit, hist, faults, reprocs>>

Enqueue(h) ==
  /\ hd[h].pc = "enqueue"
  /\ AddJob(hd[h].m)
  /\ hd' = [hd EXCEPT ![h].pc = "publish"]
  /\ UNCHANGED <<msg, wk, mon, wa, audit, hist, faults, reprocs>>

\* The connection drops after Redis ran the command: the client sends it again
\* once it is back (maxRetriesPerRequest: null), and a job has no id of its own.
EnqueueResent(h) ==
  /\ hd[h].pc = "enqueue" /\ Fault
  /\ AddJob(hd[h].m) /\ Note(hd[h].m, "requeued")
  /\ UNCHANGED <<msg, hd, wk, mon, wa, audit, reprocs>>

EnqueueFails(h) ==
  /\ hd[h].pc = "enqueue" /\ Fault
  /\ hd' = [hd EXCEPT ![h].pc = "queue_failed"]
  /\ UNCHANGED <<msg, job, wk, mon, wa, audit, hist, reprocs>>

\* The catch around outboundQueue.add: the row is FAILED, then come the event and
\* the audit entry; a forward publishes its event after the entry.
MarkQueueFailure(h) ==
  LET m == hd[h].m IN
  /\ hd[h].pc = "queue_failed" /\ Exists(m)
  /\ msg' = [msg EXCEPT ![m].st = "FAILED"]
  /\ hd' = [hd EXCEPT ![h].pc = IF hd[h].kind = "forward" THEN "record" ELSE "announce"]
  /\ UNCHANGED <<job, wk, mon, wa, audit, hist, faults, reprocs>>

AnnounceQueueFailure(h) ==
  /\ hd[h].pc = "announce"
  /\ hd' = [hd EXCEPT ![h].pc = "record"]
  /\ UNCHANGED <<msg, job, wk, mon, wa, audit, hist, faults, reprocs>>

\* recordAuditEvent: the entry, or a warning when its insert fails.  Retention
\* deletes the entries of a message with its row.
RecordAudit(m, s) ==
  \/ /\ audit' = IF Exists(m) THEN [audit EXCEPT ![m] = @ \cup {s}] ELSE audit
     /\ UNCHANGED <<hist, faults>>
  \/ Fault /\ Note(m, "unrecorded") /\ UNCHANGED audit

RecordQueueFailure(h) ==
  /\ hd[h].pc = "record"
  /\ RecordAudit(hd[h].m, "FAILED")
  /\ IF hd[h].kind = "forward" THEN hd' = [hd EXCEPT ![h].pc = "publish"] ELSE Advance(h)
  /\ UNCHANGED <<msg, job, wk, mon, wa, reprocs>>

\* The last await for this message: the event that announces it.
PublishQueued(h) ==
  /\ hd[h].pc = "publish"
  /\ Advance(h)
  /\ UNCHANGED <<msg, job, wk, mon, wa, audit, hist, faults, reprocs>>

\* The API process stops, or an await of the handler throws: what is left of
\* the request does not happen.
HandlerCrash(h) ==
  /\ hd[h].pc # "idle" /\ Fault
  /\ CASE hd[h].pc \in {"enqueue", "queue_failed"} -> Note(hd[h].m, "lost")
       [] hd[h].pc \in {"announce", "record"}      -> Note(hd[h].m, "unrecorded")
       [] OTHER                                    -> UNCHANGED hist
  /\ hd' = [hd EXCEPT ![h] = IdleHandler]
  /\ UNCHANGED <<msg, job, wk, mon, wa, audit, reprocs>>

-----------------------------------------------------------------------------
(* The worker *)

\* Seeded fault: one attempt more than the job was configured with.
ThrownOnceMore(j) ==
  IF job[j].made + 1 <= MaxAttempts
  THEN [job[j] EXCEPT !.st = "waiting", !.made = @ + 1]
  ELSE FreeJob

\* A job whose processor throws is delayed for another attempt, or is failed
\* once it has used them all.  (BullMQ; a failed job is kept but never runs.)
Thrown(j) ==
  IF job[j].made + 1 < MaxAttempts
  THEN [job[j] EXCEPT !.st = "waiting", !.made = @ + 1]
  ELSE FreeJob

\* The worker takes a job and reads the message.  Retried and delayed jobs
\* and several workers make the order of the queue arbitrary.
Fetch(w, j) ==
  /\ wk[w].pc = "idle" /\ job[j].st = "waiting" /\ Exists(job[j].m)
  /\ job' = [job EXCEPT ![j].st = "active"]
  /\ wk' = [wk EXCEPT ![w] = [IdleWorker EXCEPT !.pc = "send", !.job = j]]
  /\ UNCHANGED <<msg, hd, mon, wa, audit, hist, faults, reprocs>>

\* "Mensagem nao encontrada", or a database failure, is thrown before the try:
\* no status is written.
FetchFails(w, j) ==
  LET m == job[j].m IN
  /\ wk[w].pc = "idle" /\ job[j].st = "waiting"
  /\ IF Exists(m) THEN Fault ELSE UNCHANGED faults
  /\ job' = [job EXCEPT ![j] = Thrown(j)]
  /\ IF Thrown(j) = FreeJob THEN Note(m, "lost") ELSE UNCHANGED hist
  /\ UNCHANGED <<msg, hd, wk, mon, wa, audit, reprocs>>

\* Seeded fault: the local stand-in answers for a configured provider too.
SkipProviderAlways(w) ==
  /\ wk[w].pc = "send"
  /\ wk' = [wk EXCEPT ![w].pc = "mark"]
  /\ UNCHANGED <<msg, job, hd, mon, wa, audit, hist, faults, reprocs>>

\* Without EVOLUTION_BASE_URL the worker marks the message SENT at once.
SkipProvider(w) ==
  /\ wk[w].pc = "send" /\ ~ProviderConfigured
  /\ wk' = [wk EXCEPT ![w].pc = "mark"]
  /\ UNCHANGED <<msg, job, hd, mon, wa, audit, hist, faults, reprocs>>

Calling(w) == wk[w].pc \in {"send", "fallback"} /\ ProviderConfigured

Accept(w) == Len(wa) < MaxAccepts /\ wa' = Append(wa, Target(w))

\* Seeded faults: the second endpoint is called after a success too; an answer
\* without an id counts as a failure.
ProviderAcceptsTwice(w) ==
  /\ Calling(w) /\ Accept(w)
  /\ wk' = [wk EXCEPT ![w].pc = IF @ = "send" THEN "fallback" ELSE "mark"]
  /\ UNCHANGED <<msg, job, hd, mon, audit, hist, faults, reprocs>>

ProviderAcceptsNeedsId(w) ==
  /\ Calling(w) /\ Accept(w)
  /\ \E pc \in {"mark", "give_up"} : wk' = [wk EXCEPT ![w].pc = pc]
  /\ UNCHANGED <<msg, job, hd, mon, audit, hist, faults, reprocs>>

\* The provider accepts; its answer may carry no id the worker recognizes.
ProviderAccepts(w) ==
  /\ Calling(w) /\ Accept(w)
  /\ \E e \in {NoExt, Len(wa) + 1} : wk' = [wk EXCEPT ![w].pc = "mark", ![w].ext = e]
  /\ UNCHANGED <<msg, job, hd, mon, audit, hist, faults, reprocs>>

WillRetry(w, e) ==
  CanRetry(job[wk[w].job].made + 1, RetryDecision(e, MaxAttempts), MaxAttempts)

\* The catch of the processor: rethrow, and the queue decides by its own count
\* whether the job runs again; or go on to write the final status.
Caught(w, e) ==
  IF WillRetry(w, e)
  THEN /\ job' = [job EXCEPT ![wk[w].job] = Thrown(wk[w].job)]
       /\ wk' = [wk EXCEPT ![w] = IdleWorker]
  ELSE /\ wk' = [wk EXCEPT ![w].pc = "give_up", ![w].ext = NoExt, ![w].out = "none"]
       /\ UNCHANGED job

\* A failed call is an error of the attempt unless the sender has a second
\* endpoint to try.
CallFails(w, e) ==
  IF wk[w].pc = "send" /\ FallsBack(Kind[Target(w)], e)
  THEN wk' = [wk EXCEPT ![w].pc = "fallback"] /\ UNCHANGED job
  ELSE Caught(w, e)

ProviderAcceptsAnswerLost(w, e) ==
  /\ Calling(w) /\ AcceptanceUnknown(e) /\ Accept(w)
  /\ CallFails(w, e)
  /\ Note(Target(w), "unknown")
  /\ UNCHANGED <<msg, hd, mon, audit, faults, reprocs>>

ProviderRejects(w, e) ==
  /\ Calling(w)
  /\ CallFails(w, e)
  /\ UNCHANGED <<msg, hd, mon, wa, audit, hist, faults, reprocs>>

\* setStatus takes three awaits: the row, the event, the audit entry.
SetStatus(w, s) ==
  LET m == Target(w) IN
  /\ Exists(m)
  /\ msg' = [msg EXCEPT ![m].st = s, ![m].ext = IF s = "SENT" THEN wk[w].ext ELSE @]
  /\ wk' = [wk EXCEPT ![w].pc = "announce", ![w].out = s]

Complete(w) ==
  /\ job' = [job EXCEPT ![wk[w].job] = FreeJob]
  /\ wk' = [wk EXCEPT ![w] = IdleWorker]

MarkSent(w) ==
  /\ wk[w].pc = "mark"
  /\ SetStatus(w, "SENT")
  /\ UNCHANGED <<job, hd, mon, wa, audit, hist, faults, reprocs>>

\* setStatus(SENT) is inside the try: when the row is gone or the database
\* fails, a delivered message takes the error path.
MarkSentFails(w) ==
  /\ wk[w].pc = "mark"
  /\ IF Exists(Target(w)) THEN Fault ELSE UNCHANGED faults
  /\ Caught(w, Internal)
  /\ Note(Target(w), "unknown")
  /\ UNCHANGED <<msg, hd, mon, wa, audit, reprocs>>

GiveUp(w) ==
  /\ wk[w].pc = "give_up"
  /\ SetStatus(w, "FAILED")
  /\ UNCHANGED <<job, hd, mon, wa, audit, hist, faults, reprocs>>

\* What throws from the catch itself is a thrown job.
ThrowJob(w) ==
  LET j == wk[w].job IN
  /\ job' = [job EXCEPT ![j] = Thrown(j)]
  /\ IF Thrown(j) = FreeJob THEN Note(job[j].m, "lost") ELSE UNCHANGED hist
  /\ wk' = [wk EXCEPT ![w] = IdleWorker]

\* setStatus(FAILED) finds no row, or the database fails.
GiveUpFails(w) ==
  /\ wk[w].pc = "give_up"
  /\ IF Exists(Target(w)) THEN Fault ELSE UNCHANGED faults
  /\ ThrowJob(w)
  /\ UNCHANGED <<msg, hd, mon, wa, audit, reprocs>>

AnnounceStatus(w) ==
  /\ wk[w].pc = "announce"
  /\ wk' = [wk EXCEPT ![w].pc = "record"]
  /\ UNCHANGED <<msg, job, hd, mon, wa, audit, hist, faults, reprocs>>

\* Publishing throws: after SENT into the catch, after FAILED out of it.
AnnounceStatusFails(w) ==
  /\ wk[w].pc = "announce" /\ Fault
  /\ \/ wk[w].out = "SENT" /\ Caught(w, Internal) /\ Note(Target(w), "unknown")
     \/ wk[w].out = "FAILED" /\ ThrowJob(w)
  /\ UNCHANGED <<msg, hd, mon, wa, audit, reprocs>>

\* Seeded fault: only deliveries are audited.
RecordStatusSentOnly(w) ==
  /\ wk[w].pc = "record"
  /\ IF wk[w].out = "SENT" THEN RecordAudit(Target(w), wk[w].out)
     ELSE UNCHANGED <<audit, hist, faults>>
  /\ Complete(w)
  /\ UNCHANGED <<msg, hd, mon, wa, reprocs>>

RecordStatus(w) ==
  /\ wk[w].pc = "record"
  /\ RecordAudit(Target(w), wk[w].out)
  /\ Complete(w)
  /\ UNCHANGED <<msg, hd, mon, wa, reprocs>>

\* BullMQ moves the job of a dead worker back once its lock has expired, at
\* most MaxStalls times.
Stalled(j) ==
  IF job[j].stalls < MaxStalls
  THEN [job[j] EXCEPT !.st = "waiting", !.stalls = @ + 1]
  ELSE FreeJob

\* The worker has a delivery that no later attempt of the job knows of.
Delivered(w) == wk[w].pc = "mark" \/ wk[w].out = "SENT"

\* The process dies, with its timer; the last await may have been carried out.
WorkerCrash(w) ==
  LET j == wk[w].job IN
  /\ wk[w].pc # "idle" /\ Fault
  /\ job' = [job EXCEPT ![j] = Stalled(j)]
  /\ hist' = [hist EXCEPT ![job[j].m] =
               @ \cup (IF Delivered(w) THEN {"unknown"} ELSE {})
                 \cup (IF Stalled(j) = FreeJob THEN {"lost"} ELSE {})]
  /\ \/ UNCHANGED audit
     \/ /\ wk[w].pc = "record" /\ Exists(Target(w))
        /\ audit' = [audit EXCEPT ![Target(w)] = @ \cup {wk[w].out}]
  /\ wk' = [wk EXCEPT ![w] = IdleWorker]
  /\ mon' = [mon EXCEPT ![w] = {}]
  /\ UNCHANGED <<msg, hd, wa, reprocs>>

-----------------------------------------------------------------------------
(* The stale-PENDING monitor, a timer of the worker process *)

\* Seeded fault: the comparison with the threshold is the wrong way round.
StalePendingRecent == {m \in Msgs : msg[m].st = "PENDING" /\ ~msg[m].stale}

StalePending == {m \in Msgs : msg[m].st = "PENDING" /\ msg[m].stale}

StaleScan(w) ==
  /\ mon[w] = {} /\ StalePending # {}
  /\ mon' = [mon EXCEPT ![w] = Oldest(StalePending, MaxRequeue)]
  /\ UNCHANGED <<msg, job, hd, wk, wa, audit, hist, faults, reprocs>>

\* A new job, whatever became of the message and of its other jobs meanwhile.
StaleRequeue(w, m) ==
  /\ m \in Oldest(mon[w], 1)
  /\ AddJob(m) /\ Note(m, "requeued")
  /\ mon' = [mon EXCEPT ![w] = @ \ {m}]
  /\ UNCHANGED <<msg, hd, wk, wa, audit, faults, reprocs>>

StaleRequeueFails(w, m) ==
  /\ m \in Oldest(mon[w], 1) /\ Fault
  /\ mon' = [mon EXCEPT ![w] = @ \ {m}]
  /\ UNCHANGED <<msg, job, hd, wk, wa, audit, hist, reprocs>>

-----------------------------------------------------------------------------
(* Time and operators *)

\* The row becomes older than STALE_PENDING_THRESHOLD_MS.  Creation times are
\* ordered, so the rows created before it are older too.
GrowStale(m) ==
  /\ Exists(m) /\ ~msg[m].stale
  /\ \A x \in Msgs : Exists(x) /\ msg[x].born < msg[m].born => msg[x].stale
  /\ msg' = [msg EXCEPT ![m].stale = TRUE]
  /\ UNCHANGED <<job, hd, wk, mon, wa, audit, hist, faults, reprocs>>

\* An operator clears the history of an instance, or retention expires it.
DeleteMessage(m) ==
  /\ m \in Deletable /\ Exists(m)
  /\ msg' = [msg EXCEPT ![m].st = "deleted"]
  /\ audit' = [audit EXCEPT ![m] = {}]
  /\ UNCHANGED <<job, hd, wk, mon, wa, hist, faults, reprocs>>

-----------------------------------------------------------------------------

HandlerStep(h) ==
  \/ \E m \in Msgs : ForwardNext(h, m) \/ ReprocessFailedNext(h, m)
  \/ ReprocessReset(h) \/ RowMissing(h)
  \/ Enqueue(h) \/ EnqueueResent(h) \/ EnqueueFails(h) \/ PublishQueued(h)
  \/ MarkQueueFailure(h) \/ AnnounceQueueFailure(h) \/ RecordQueueFailure(h)

Request(h) ==
  \/ \E m \in Msgs : SendMessage(h, m)
  \/ \E S \in SUBSET Msgs : ForwardRequest(h, S)
  \/ \E m \in Msgs, force \in BOOLEAN : ReprocessCheck(h, m, force)
  \/ ReprocessFailedSelect(h)

\* What a worker does where a provider is configured.
ProviderStep(w) ==
  \/ \E j \in Jobs : Fetch(w, j) \/ FetchFails(w, j)
  \/ ProviderAccepts(w)
  \/ \E e \in Errors : ProviderAcceptsAnswerLost(w, e)
  \/ \E e \in Errors \cup {Internal} : ProviderRejects(w, e)
  \/ MarkSent(w) \/ MarkSentFails(w) \/ GiveUp(w) \/ GiveUpFails(w)
  \/ AnnounceStatus(w) \/ AnnounceStatusFails(w) \/ RecordStatus(w)

WorkerStep(w) == ProviderStep(w) \/ SkipProvider(w)

MonitorStep(w) ==
  \/ StaleScan(w)
  \/ \E m \in Msgs : StaleRequeue(w, m) \/ StaleRequeueFails(w, m)

Next ==
  \/ \E h \in Handlers : Request(h) \/ HandlerStep(h) \/ HandlerCrash(h)
  \/ \E w \in Workers : WorkerStep(w) \/ MonitorStep(w) \/ WorkerCrash(w)
  \/ \E m \in Msgs : GrowStale(m) \/ DeleteMessage(m)

Spec == Init /\ [][Next]_vars

\* Requests, workers and timers that can go on do: the event loop runs them,
\* provider calls time out, BullMQ hands out waiting jobs.  Nothing obliges a
\* user to send, and nothing obliges a crash to happen or not to.
Fairness ==
  /\ \A h \in Handlers : WF_vars(HandlerStep(h))
  /\ \A w \in Workers : WF_vars(WorkerStep(w)) /\ WF_vars(MonitorStep(w))
  /\ \A m \in Msgs : WF_vars(GrowStale(m))

FairSpec == Spec /\ Fairness

-----------------------------------------------------------------------------
(* Properties *)

\* Every variable has its type: in particular the queue never counts more
\* attempts of a job than it was configured with.
TypeOK ==
  /\ msg \in [Msgs -> Message]
  /\ job \in [Jobs -> Job]
  /\ hd \in [Handlers -> Handler]
  /\ wk \in [Workers -> Worker]
  /\ mon \in [Workers -> SUBSET Msgs]
  /\ wa \in Seq(Msgs) /\ Len(wa) <= MaxAccepts
  /\ audit \in [Msgs -> SUBSET {"SENT", "FAILED"}]
  /\ hist \in [Msgs -> SUBSET Incidents]
  /\ faults \in 0 .. MaxFaults
  /\ reprocs \in 0 .. MaxReprocess

\* Somebody is still responsible for m: a request between the row and the
\* queue, or a job that waits or runs.
Carried(m) ==
  \/ \E h \in Handlers : hd[h].pc \in {"enqueue", "queue_failed"} /\ hd[h].m = m
  \/ \E j \in Jobs : job[j].st # "free" /\ job[j].m = m

\* A PENDING message is never left without a request or a job that will
\* settle it, unless a crash or an infrastructure failure took its carrier:
\* the attempt limits of the worker and of the queue agree, a job ends only
\* after it wrote a final status, and a reset always precedes a new job.
PendingIsCarried ==
  \A m \in Msgs : msg[m].st = "PENDING" => Carried(m) \/ "lost" \in hist[m]

Accepted(m) == \E i \in 1 .. Len(wa) : wa[i] = m

\* SENT is never a guess: the provider did accept the message at some time.
SentWasAccepted ==
  \A m \in Msgs : ProviderConfigured /\ msg[m].st = "SENT" => Accepted(m)

\* The external id a row carries is one that WhatsApp gave to that message, so
\* replies, reactions and deletions address the right one.
ExternalIdIsOwn ==
  \A m \in Msgs : msg[m].ext # NoExt => msg[m].ext <= Len(wa) /\ wa[msg[m].ext] = m

Repeatable == {"unknown", "requeued", "reset"}

\* The customer receives a message once.  It is delivered again only after the
\* worker missed an acceptance, the monitor queued a second job, or somebody
\* asked for it: a clean run of a job never repeats a send.
DeliveredOnce ==
  \A m \in Msgs : \A i, k \in 1 .. Len(wa) :
    wa[i] = m /\ wa[k] = m /\ hist[m] \cap Repeatable = {} => i = k

\* FAILED means that the customer did not receive it, with the same exceptions;
\* a job that ran once more because the worker could not announce the failure
\* is about to correct the row.
FailedWasNotDelivered ==
  \A m \in Msgs : msg[m].st = "FAILED" /\ Accepted(m) =>
    \/ hist[m] \cap Repeatable # {}
    \/ \E w \in Workers : wk[w].pc = "mark" /\ Target(w) = m

\* A request that failed to queue m still writes its entry.
BeingRecorded(m) == \E h \in Handlers : hd[h].pc \in {"announce", "record"} /\ hd[h].m = m

\* A SENT or FAILED message has that outcome in the audit trail, or somebody is
\* left to write it: the worker or the request between the row and the entry, or
\* the job that runs again after one of the three awaits failed.  Otherwise the
\* last carrier was lost in a failure, or the insert of the entry itself failed.
SettledIsAudited ==
  \A m \in Msgs : msg[m].st \in {"SENT", "FAILED"} /\ msg[m].st \notin audit[m] =>
    Carried(m) \/ BeingRecorded(m) \/ hist[m] \cap {"lost", "unrecorded"} # {}

\* No message stays PENDING for ever: whatever was lost on the way, the monitor
\* finds it once it is old enough and a new job settles it.
NoInfinitePending ==
  \A m \in Msgs : msg[m].st = "PENDING" ~> msg[m].st # "PENDING"

\* The reprocess API: a SENT message is sent again only when force was given.
ResendNeedsForce ==
  [][\A m \in Msgs : msg[m].st = "SENT" /\ msg'[m].st = "PENDING" =>
       \E h \in Handlers : hd[h].pc = "reset" /\ hd[h].m = m /\ hd[h].force]_vars
=============================================================================
