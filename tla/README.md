# Verification of whats-nuxt

TLA+ models, model-checking runs and proofs for the platform in this
repository: an omnichannel WhatsApp inbox (`apps/atendimento-online-api`), the
service queue of a store (`modules/fila-atendimento`), the platform API
(`apps/plataforma-api`) and the panel (`apps/painel-web`). `PROJECT.json` lists
components, runs, the source lines of every definition, hazards and theorems;
this file explains them.

    tlc -config outbound_attempts.cfg MCOutboundPipeline.tla   # one run
    tlapm OutboundPipelineProofs.tla                           # one proof module

1. Inventory of the system
2. Modules and their correspondence to the code
3. Runs, bounds, what they show
4. Fairness
5. Proofs
6. Only model-checked; not modelled
7. Findings
8. Plan and observations

## 1. Inventory

| component | where | state | operations |
|---|---|---|---|
| outbound pipeline | `atendimento-online-api`: routes send, forward, reprocess, reprocess-failed; `queue.ts`; `workers/outbound-worker.ts` | `Message` rows, BullMQ jobs, audit events | insert and enqueue, send to the provider, retry, settle, requeue what stays PENDING |
| webhooks | `routes/webhooks` | idempotency keys in Redis and in memory, `Message`, `Conversation` rows | claim, find or create, reconcile the echo, complete, release; reactions, deletions, QR codes |
| operator actions | `routes/conversations/routes-operational-*`, `delete-*` | message metadata, conversation status and assignee | react, delete, assign, close |
| conversations | `routes-core-*`, `message-upsert/context.ts` | one conversation per contact and instance | open, find or create, list, import of histories |
| WhatsApp instances | `services/whatsapp-instances.ts`, `routes/tenant` | registry of instances, one default, QR cache | bootstrap, connect, merge of legacy scopes, channel limit |
| retention | `services/retention-service.ts`, `workers/retention-worker.ts` | deletes rows by age | sweep of each tenant |
| inbox events | `event-bus.ts`, `main.ts` | Redis pub/sub, Socket.IO rooms | publish, fan out |
| inbox of the panel | `painel-web/app/composables/omnichannel` | local list of messages, pollers, timers | optimistic send, events, polls, freshness cycle, local timeout |
| rate limiters | `lib/rate-limit.ts`, `middleware/ratelimit.go`, `server/utils/rate-limit.ts` | window counters and blocks, Redis or memory | admit or reject |
| service queue | `fila-atendimento/backend/internal/modules/operations` | waiting list, services, pauses, status, sessions, history | queue, pause, task, resume, start, finish |
| queue realtime | `.../modules/realtime` | subscriptions with a buffer of one event | subscribe, publish, close |
| rosters, stores, settings, reports | other modules of the queue backend | own tables | administration, aggregation |
| platform sessions | `plataforma-api/internal/domain/auth` | sessions, reset codes | login, logout, revoke, reset |
| platform core | `.../domain/core` | tenants, modules, limits, seats, roles | assign seats, administer |
| tenant hub | `plataforma-api/internal/realtime` | rooms of sockets | join, leave, broadcast |
| finance, indicators | `.../domain/finance`, `.../indicators`, `indicators/*.php` | rows | forms and dashboards |
| panel, BFF, packages, scripts, deployment | `painel-web`, `packages`, `scripts`, compose files | session cookies, stores | presentation, forwarding |

How they interact. The panel calls the messaging API, which writes a row and a
BullMQ job; a worker process takes the job and calls the Evolution API, which
talks to WhatsApp. Evolution posts webhooks to the messaging API for what
arrives and for the echo of what was sent. Both sides write the same `Message`
rows, with no transaction across statements, and publish events through Redis
to the panel. The service queue is a backend of its own with PostgreSQL; each
command loads a store, computes and rewrites its tables, and publishes an event
after the commit. It obtains its roster from the platform directory.

What is hard, and the properties that answer it:

- *Outbound.* Row and job are written separately; the provider may accept a
  message although the call fails; job attempts are counted both by the worker
  and by BullMQ; monitors and operators queue messages again while jobs run; the
  status is written, announced and audited one after the other.
  No message may be stranded PENDING, sent twice without a reason, or marked
  FAILED although delivered; every outcome must reach the audit trail.
- *Webhooks.* Deliveries repeat and overlap; handlers fail, exceed their claim
  or die; Redis fails between two calls; the echo of a message races the worker
  that sent it. One row per message, exclusive claims, acknowledged messages
  kept, echoes on their own rows.
- *Service queue.* Commands read four tables and replace all of them; nothing
  orders two requests of a store; rosters change between commands. One place
  per consultant, the limit, complete history, disjoint sessions, an order that
  changes for nobody else, no waiting for ever on row locks.
- *Marks of a message.* Reactions and deletions come from routes and from
  webhooks, each of which rewrites the metadata of the row from what it read.
  One reaction per person, deletions final and recorded, the row ends as
  WhatsApp shows it.
- *Conversations.* Requests find, create and merge the rows of one contact with
  no transaction around them. No message stored in a deleted row, no
  assignment lost.
- *The screens.* Events are lost and late, answers cross, timers die, the panel
  ignores events for a while. Lists keep to their conversation, and in the end
  a screen shows what the server has.
- *Seats and sheets.* Checks and writes of two requests interleave; a save
  replaces the lines that a mark updates. Earned seats, matching accounts (and a
  limit that is not kept); what was edited is stored, and an empty draft replaces
  nothing.

## 2. Modules

Conventions: one action per await, statement or handler, named after the code;
`UNCHANGED` for the rest; constants are the parameters of the code or bounds
named `Max...`. A history variable, marked so, records what happened, so that a
property can name the incident that excuses it. A definition whose name adds
words to that of its neighbour (`CanRetryOnceMore` beside `CanRetry`) is a
plausible mistake in that code; each run must notice the one listed for each of
its properties.

| component | modules | proofs | runs |
|---|---|---|---|
| outbound pipeline | `OutboundRetry`, `OutboundPipeline` | `OutboundPipelineProofs` | `outbound_*` |
| service queue | `FilaSnapshot`, `FilaOperations`, `FilaBoard`, `FilaConcurrent` | `FilaProofs` | `services`, `fila_*` |
| webhooks of messages | `WebhookInbound` | `WebhookProofs` | `webhook_*` |
| marks of a message | `MessageMarks` | `MessageMarksProofs` | `webhook_events` |
| conversation rows | `Conversations` | `ConversationsProofs` | `services`, `conversations_merge` |
| list of messages on the screen | `InboxScreen` | `InboxScreenProofs` | `inbox_*` |
| hub and panels of the queue | `FilaLive` | `FilaProofs` | `services` |
| seats and memberships | `SeatLimits`, `ModuleSeats` | `ModuleSeatsProofs` | `services`, `seats_limit` |
| finance editor | `FinanceSheets` | `FinanceSheetsProofs` | `services` |

### Outbound

`OutboundRetry` is the decision of the worker about an error: category,
attempts allowed, whether the provider may have accepted the message, and the
fallback of stickers and audio to another endpoint.

`OutboundPipeline` has the state

- `msg` — row of `Message`: status, external id, order of creation, age over the
  threshold of the monitor; `audit` — the outcomes in the audit trail since it was
  last queued;
- `job` — the BullMQ queue: waiting or active, attempts made, stalls;
- `hd`, `wk`, `mon` — program counters of requests, of workers, of the monitor
  of each worker process;
- `wa` — what WhatsApp accepted, in order; the position is the external id;
- `hist` — what happened to a message that weakens its promises; `faults`,
  `reprocs` — bounds.

| action | code |
|---|---|
| `SendMessage`, `ForwardRequest/Next`, `ReprocessCheck/Reset`, `ReprocessFailedSelect/Next`, `RowMissing` | the four routes up to the row |
| `Enqueue`, `EnqueueResent`, `EnqueueFails`, `PublishQueued` | `outboundQueue.add`; a Redis command sent again after a reconnect |
| `MarkQueueFailure`, `AnnounceQueueFailure`, `RecordQueueFailure` | its error path: the row, the event and the entry of the audit trail (a forwarded message is recorded before it is announced) |
| `Fetch`, `FetchFails`, `SkipProvider`, `Calling`, `ProviderAccepts`, `ProviderAcceptsAnswerLost`, `ProviderRejects` | the processor of the worker and the senders |
| `MarkSent...`, `GiveUp...` | the update of the row in `setStatus`, inside the `try` or after it, and its failure |
| `AnnounceStatus...`, `RecordStatus` | its second and third await: the event, whose failure throws as the update's does, and the insert of the audit entry, whose failure is swallowed (`RecordAudit`) |
| `StaleScan`, `StaleRequeue...`, `GrowStale` | `runStalePendingCheck` |
| `WorkerCrash`, `HandlerCrash`, `DeleteMessage` | processes die (BullMQ gives a stalled job back), rows are cleared |

The worker does not test the status of the row it loads, as in the code.

### Service queue

`FilaSnapshot` translates the pure part of `operations/service.go`: loading and
normalizing a store, the guards and the results of the commands, the derived
status and the sessions. `FilaOperations` takes each command as one step, finding any
roster. `FilaBoard` is the abstract specification: places, moves, room, and an
order in which nobody is overtaken by a command for somebody else;
`FilaOperations` implements it with `Place` and `Ahead` as refinement mapping.
`FilaConcurrent` takes requests apart: roster, one query per table, sessions,
computation, then `DELETE` and `INSERT` of each table and the commit, with the
row locks of READ COMMITTED, key errors, deadlock victims and rollbacks.
It extends `FilaOperations` by the requests in progress (`rq`), so
`ImplementsOperations` is just its `Spec`: the refinement mapping is the identity
on what is committed.

`FilaLive` is what happens after the commit. The state of the store is the
number of commits; a screen is the set of those it shows. `Publish` copies the
subscribers (`CopySubscribers`), then tries each channel (`TrySend`), drops the
oldest event of a full one (`DropOldest`) and tries again (`SendAgain`); the
socket's goroutine takes events (`TakeEvent`) and closes the channel
(`Unsubscribe`), after which a send panics (`SendPanics`). The panel hears an
event (`HearEvent`), ignores it for 1.5 s after its own command
(`SuppressionEnds`), and loads a snapshot, at most one at a time with at most
one to follow (`ReadSnapshot`, `SnapshotArrives`, `SnapshotFails`).

### Webhooks

`WebhookInbound` has the claim on each message's key in `redis` and in
`memory`, the rows of the conversation and their order, the webhooks Evolution
still owes (`owed`), the answers it has (`acked`), and the requests `rq`.

| action | code |
|---|---|
| `Acquire`, `Complete`, `HandlerFails` | `handleEvolutionWebhook` with `acquire`, `complete`, `releaseWebhookIdempotency` (Lua script, or memory after an error; a call may also be carried out although its answer is lost) |
| `Find`, `Reconcile`, `Adopt`, `Sync`, `Create` | `findExistingWebhookMessage`, the query and the update of `reconcilePendingOutboundEcho`, `syncWebhookMessage`, `createWebhookMessage` |
| `PanelSend`, `Settled`, `GivenUp` | what the route and the worker of the outbound pipeline write |
| `Expire`, `Restart`, `Lapse` | time to live of a claim; a new process; a row older than the 90 seconds an echo looks back |
| `Written`, `Accepted`, `Posts` | WhatsApp and Evolution (external) |

`taint[x]` and `expired` record incidents. How an echo finds its row is given by
constants that say what the comparison tells apart: `Text[x]` is what a row says,
`Fits[x]` is what a row may say for `x` to be taken for its echo (its own text, or
the media of the same kind, caption, file and size; a row may even say
something its own echo does not fit), and `Bare` are the media of which neither
side tells anything to compare, which are only matched within 25 seconds instead
of 90. A row is new, recent or old (`age`) with respect to these two windows, and
`InTime` compares. Theorems and properties are about messages that are
`Unmistakable`: none of the others is like them.

### Marks of a message

`MessageMarks` has one row (text, metadata, whether it has its external id),
the jobs that handle marks (routes and webhooks alike), the webhooks to post,
the idempotency keys, and what WhatsApp shows. A route reads the row, calls
Evolution (`Send`: done, refused, or done although the answer is lost), then
writes (`Write`); a webhook is claimed by a key without a moment (`Receive`) and
writes what it read with its mark; a row without a correlation id is written a
second time (`Correlate`). `Fail` is any await that throws. Marks are numbered
by WhatsApp in `made`, so that a property can say which is the last.

### Conversations

`Conversations` has the rows of one contact: unused, of scope "default", of the
instance, or deleted. Every request starts with `ensureTenantWhatsAppRegistry`:
`ReadLegacy`, `ReadScoped`, then one transaction (`MoveMessages`, `Rewrite`, which
writes the assignment and the `lastMessageAt` it has read) or
its failure (`MergeThrows`). Then a webhook and `POST /conversations` look up
(`LookUp`) and write (`Upsert`, `Create`): Prisma makes an upsert that includes
messages a `SELECT` and an `INSERT` or `UPDATE`. Rows without an instance count
as of scope "default". The other routes find or open (`Find`,
`OpenConversation`, `FindById`), and messages, `lastMessageAt` and assignments
are written to the row that was found earlier (`Store`, `Stamp`, `AssignTo`).

### The inbox on the screen

`InboxScreen` is one tab. `list` is what is shown, `cache` what is kept of each
conversation, `asked` the requests on their way with the page the
server answered them with, `events` the socket events. `Select`, `Loaded`,
`Beat`, `Poll`, `Listed`, `Refreshed`, `Freshen`, `BecomesVisible`,
`ReceiveEvent`, `SendFromPanel`, `Posted`, `PostFails`, `Watch`, `Seen`,
`WatchEnds` are the composables' functions; `Arrives`,
`Accepts`, `Settles` stand for the server, whose rows go from PENDING to SENT or
FAILED as `OutboundPipeline` moves them. An answer is merged whatever its age,
as in the code. Whatever changes the list goes through `Shows`, with the watcher
that copies it to the list kept (`useOmnichannelInboxHistory.ts:161-177`). The
refreshes of heartbeat and poll are two requests: the list of conversations, then the
messages of the conversation that is selected when that one is answered (`Listed`).

### Seats

`ModuleSeats` has the rows in force (`granted`: the module, seats, accounts,
deletions, memberships here and in another client) and the requests of
administrators, with what each has written but not committed (`sets`, `clears`).
Every statement is a step under READ COMMITTED: it sees what others have
committed, waits for a row that another has written (`Free`), and appears with
`Commit`; `Fails` is an error, a deadlock victim or a rollback at any step.
`Assign`: `ReadMembership`, `ReadAssignment`, `CountSeats`, `WriteSeat`;
`Unassign`: `ReadAssignment`, `WriteSeat`; `ChangeStatus`: `StatusOfAccount`,
`StatusOfMembership`, each in force at once because the code has no transaction
around them; `Approve`, `Delete`, `CreateUser`, `Move` read the user first, then
`WriteAccount`, `WriteMember`, `GiveUpSeats`, `Suspend` in the order of each, and
`SeatOfAdministrator`, the `INSERT ... SELECT` of the active modules, which
counts nothing; `ReplaceModules`: the module in one statement, its seats in the
next (`SweepSeats`). `SeatLimits` has the constants and the comparison with the
limit.

### Finance editor

`FinanceSheets` is one editor and the transactions that serve it: typing starts
a timer, the timer saves the whole draft or queues a save behind the one in
flight (`TimerFires`, `StartQueued`), `Mark` is a request of its own that
applies its answer to the draft, `Select` and `Refetch` load. `PutLocks`,
`PutDeletes`, `PutCommits`, `PutReads` are the statements of `ReplaceSheet` (the
answer is read after the commit), `MarkReads`,
`MarkUpdatesLine`, `MarkCommits` those of `PatchLine`, which lock sheet and line
in opposite orders (`DeadlockDetected`). `PutFails` and `MarkFails` are a failure at
any of them, which gives the locks back (`Release`), or the loss of an answer
after the commit; a mark of a recurring client that failed loads the sheet again
(`Refresh`). A sheet has one ordinary line; before it is
loaded the draft holds a fresh line of nobody's. The rows of fixed accounts and
recurring clients, which `syncAllFixedRows` writes from other tables, are left out: for
the ordinary line all it does is start the timer (`Resync`).

### Composition

Components that do not share state are checked in one run, chosen by a variable
`part` in the initial state: `MCServices` (queue commands, hub and panels,
conversations, seats, sheets), `MCWebhooks` (messages, marks), `MCFilaRequests`
(a store with serial requests, another with overlapping ones), `MCOutboundLiveness` (with and without a provider). Each
behaviour moves one part with its own actions; the variables of the other parts
keep their initial values, or 0 in `MCServices` where nothing looks at them, and the invariants about
them hold there. Where components do interact, the partner is in the module as the
steps it takes: the worker in `WebhookInbound`, the server in `InboxScreen`, the
outbound worker's `Identified` in `MessageMarks`.

## 3. Runs

| run | instance | question and result |
|---|---|---|
| `outbound_attempts` | one sticker, 3 attempts, an error of each retry category, two workers and monitors, two acceptances, one reprocess, one stall, one fault anywhere, deletion | never stranded (`PendingIsCarried`), delivered once (`DeliveredOnce`), FAILED means undelivered (`FailedWasNotDelivered`), SENT means accepted (`SentWasAccepted`), no outcome without its audit entry or somebody to write it (`SettledIsAudited`), types |
| `outbound_liveness` | one message and two faults; or no provider and two messages with one requeue per cycle | `NoInfinitePending` |
| `outbound_force` | one message, one request | `ResendNeedsForce` is violated: finding 1 |
| `services`, commands | three consultants, two starts, any roster each | types, `OnePlace`, `CapRespected`, `StatusSummarizes`, `ServicesAccounted`, `SessionsAreDisjoint`, `ImplementsBoard` |
| `services`, live | two screens, two sockets, buffer of 1, two commands, one failed snapshot | `ScreensFollow` |
| `services`, conversations | three rows, three requests of any kind, one operator | `StoredIsVisible`, `AssignmentStays` |
| `services`, seats | one user, two requests of any kind, statement by statement | `SeatsAreEarned`, `AccountsFollowMembers` |
| `services`, sheets | two sheets, three acts, two marks and two loads at a time | `SavedAsEdited`, `LinesAreNotWiped` |
| `fila_requests` | two consultants; one request at a time with every command and changing rosters, failing anywhere; or two that overlap, queueing and starting | `ImplementsOperations`, `OverlappingEnd` (`RequestsEnd`) |
| `fila_lost_service` | a queue command overlapping a start | `OpenServicesStay` is violated: finding 2 |
| `webhook_events`, messages | a panel message (a bare media) and a phone message, up to two webhooks each, three requests, two faults, one lapse | `ClaimsHold`, `OneRowPerMessage`, `AcknowledgedIsKept` |
| `webhook_events`, marks | two actors, two emoji, two marks, two overlapping jobs, one failure | `MarksTypeOK` with one reaction per actor, `DeletedStaysDeleted`, `DeletionIsRecorded`, `RowMirrorsWhatsApp` |
| `webhook_late_echo` | a panel message whose row leaves the 90 seconds | `EchoNeverDuplicates` is violated: finding 3 |
| `inbox_screen` | two conversations, one message, one switch or return to the tab, one break | types and one refresh at a time, `OwnMessagesOnly`, `PendingIsOnItsWay`, `ScreenCatchesUp` |
| `inbox_outdated` | one conversation, one break; the operator only reads, every request ends and every timer that is set runs (`ReadingSpec`) | `NeverOutdated` is violated: finding 4 |
| `conversations_merge` | two rows, three requests | `DuplicatesAreConsolidated` is violated: finding 5 |
| `seats_limit` | two users, limit 1, two requests that assign or unassign (`SeatsOnlySpec`) | `LimitIsRespected` is violated: finding 6 |

Why the bounds are enough. Each hazard needs few actors: a message, a second
one to mistake it for, two requests or workers that overlap, and one incident.
With three attempts the limits by error category (1, 2, 3, 4, 5) are below, equal
to and above the limit of the queue. Two job slots
allow a duplicate job; a run that fills them only delays a requeue. Two faults
cover a failure in the recovery of the first. Five commands take a consultant
round all places, and three consultants make an order that can be broken while
a third moves. Four commits by two consultants make a request find, replace and
delete rows in each of the four tables. Three webhook requests cover the original, the repetition and
the one after a claim was lost. Two commands fill and overflow a channel of one
event, and an old event in one channel stands for the commands before. Three
conversation requests cannot reach a merge of two rows from nothing, so they
may also begin with what an earlier message, an assignment and a slow opening
leave (`Duplicated`). In `services` two requests about one user are enough: seats of
two users only meet in the count, which `seats_limit` looks at. Three acts of the editor type, leave and type again. A failed
snapshot and an old event are tried one at a time (`OneOfTwo`). In the
outbound runs a request or worker that has only its event left to publish takes
that step next (`Announced`): the step changes nothing but where it is, which
nobody else reads. Likewise external ids, which no property of that run looks at, are
left out of its states (`Anonymous`); in `MCServices` no behaviour goes on after a
status was cut in half or met another change (`NotTorn`), which the property excuses
for good, and in `MCWebhooks` rows do not age that nobody will match any more and no key
leaves Redis that nobody asks for any more (`Noticed`). Symmetry is used only in runs without temporal properties but for `webhook_events` and `services`, whose
action properties speak of no particular element. Deadlock is not checked,
because every instance stops when its bounds are used up; that requests and
messages do not get stuck is stated as liveness instead.

The exceptions of the properties are part of what they say. `DeliveredOnce`
names the three reasons for a second delivery (an acceptance the worker did not
learn of or record, a requeue by the monitor, a request to send again).
`OneRowPerMessage` excludes a message whose key was claimed while Redis failed,
one whose claim expired under a running handler, and an echo later than 90
seconds. `AcknowledgedIsKept` excludes a restart that left a claim in Redis:
until it expires, repeated webhooks are answered 202 and ignored. Both except
outbound messages that may be mistaken for one another (`Unmistakable`).
`SettledIsAudited` excepts an outcome whose last carrier was lost in a failure and one
whose insert failed.
`RowMirrorsWhatsApp` excepts overlapping writers, and marks handled after a
later one, before the external id, or under the key of an equal earlier one;
`ScreensFollow` a broken connection, a send that panicked, a snapshot that
failed or was older than what it replaced, and an event that came while the
screen ignored them; `AssignmentStays` an assignment between a merge's reading
and its end; `SeatsAreEarned` a seat given while the module or the membership was
being taken away (`stray`); `AccountsFollowMembers` a change of the status that failed
between its two statements or met another change (`torn`); `OwnMessagesOnly` and
`PendingIsOnItsWay` an answer that met another conversation than it was asked for
(`crossed`); `ScreenCatchesUp` a heartbeat that
died; `SavedAsEdited` failed requests, a sheet left unsaved, edits beside a mark and
answers that were overtaken; `LinesAreNotWiped` a sheet entered with a save pending,
edited before it was loaded or not loaded at all. Each exception is a hazard of the
code that TLC finds when it is removed; the properties show that there are no others.

## 4. Fairness

`OutboundPipeline!FairSpec`, with the same clauses for each part in
`MCOutboundLiveness!LivenessSpec`: weak fairness of every request, worker and monitor
(the event loop runs what is ready, provider calls have a timeout, BullMQ hands
out waiting jobs, the monitor is an interval timer) and of ageing. No fairness
of users, faults or crashes. `FilaConcurrent!FairRequestsSpec`, repeated for the
overlapping requests in `MCFilaRequests!BothSpec`: weak fairness of the
steps of an accepted request, and strong fairness of `InsertRows`, whose guard
is the row-lock queue of PostgreSQL: a waiting transaction gets the lock before
one that asks later. `InboxScreen!ScreenFairness`: each kind of request is answered
or fails, a message that was sent is accepted or refused, events of the
socket arrive, and the timers that are set run: heartbeat, poll, freshness
check, the watch over a PENDING message and its end. There is no fairness of
the operator, of what the server's rows become, or of reconnecting. The other
modules have safety and action properties only: Evolution's retries are its
own, and what ends a request there is the end of the handler.

## 5. Proofs

All theorems hold for every value of the constants under the named assumptions
(`ConstantsAssumption`, `RequestsAssumption`, `WebhookAssumption`, `MarksAssumption`,
`SeatAssumption`, `ScreenAssumption` and those of `FilaSnapshot`): that sets of ids
are finite and apart from the null values, and that limits are naturals. Where a
module is one part of a larger run, its assumption is a definition and the
hypothesis of its theorems (`LiveConstants`, `ConvConstants`, `MaxActs \in Nat`);
`MCServices` assumes them of its instance. Each invariant below was
checked by TLC on an instance before it was proved. The proofs go action by
action, and most of them see the actions through a lemma that says what a step can do to one
message, request or screen at all, so that the actions are looked at once.

`OutboundPipelineProofs`. `IInv == TypeOK /\ CarriersHaveMessages /\
JobsAreExclusive`: type correctness alone is not inductive, because a worker
writes the row of its job's message, which must exist; and the job of a busy
worker stays active only if no second worker has it (which is BullMQ's lock, and only
a lemma here). `Tended(m)`, inductive with it, says who is responsible for a row whose
status is not in the audit trail: a request that will queue or record it, or a job no
worker has come so far with as to write another status (`Serves`), unless a failure
took the last of them. It holds because the two attempt limits agree (`RetryLimit`,
`CaughtTends`) and each of the three awaits of an outcome hands over to the next or
throws the job back; it gives `PendingIsCarried` and `SettledIsAudited`.
`SentWasAccepted` and `ExternalIdIsOwn` (which no run checks) need `InFlight`: the
external id a worker holds is one that WhatsApp gave to its message
(`EvolutionStep` says how a busy worker may change in one step).
`DeliveredOnce` and `FailedWasNotDelivered` need `OneTicket`: a message to which
nothing happened after which it may be sent again has one carrier, a request about
to queue it or a job, and once WhatsApp accepted it that is the job whose
worker is about to record it. Every step is in its `Course`: carriers
only disappear, a request inserts the row, or queues it, or the provider accepts it from the worker of
its job. `Fresh` adds that nobody carries a message whose row does not exist.

`FilaProofs`. `IInv == TypeOK /\ Sound(db) /\ Accounted(...)`: no consultant in
two lists, open services distinct and within the limit, and every id in exactly
one of open, history, dropped. The lemmas follow the code: what loading does to
the tables (`NormalizedTables`), what each command does (`QueuedTables` ...),
and that it keeps `Sound`. `LogInv` adds that the stored status and its moment are
those derived from the lists (`Summarizes`) and that sessions are in order, each ended
before the status of its consultant began (`Orderly`); hence `StatusSummarizes`
and `SessionsAreDisjoint`. For the refinement the positions of the line must be numbered
without gaps or ties (`ReindexedNumbered`, `AtEndNumbered`); then
loading, joining and leaving keep the order of the others and every command is
a `Move` (`CommandOnBoard`, `StepOnBoard`, `CommandsImplementBoard`).

Requests taken apart (`FilaConcurrent`) implement these commands as long as no
two of a store are in progress at once: `SerialRequestsAreCommands` has the
hypothesis `[]NoOverlap`, which nothing in the server guarantees (finding 2 is what
happens without it), and `OneRequestIsSerial` needs none. The invariant is
`LogInv /\ Served`: the request in progress, if any, is `Working`. While it
loads (`Loading`), the tables it has read are those stored; from `Apply` on
(`Storing`) what it will write is the command's result of the stored tables
(`Plans`), and for each table it has replaced, the rows it deleted are all that
were stored (`Replaced`). So the merge at the commit is the planned snapshot
(`MergedTable`, `MergedIsNext`), and the commit is one command (`CommitIsCommand`);
every other step, failures included, leaves what is committed alone. Two facts
carry this: an allowed command changes the status of its consultant, so that the
session appended is its own and not the last one loaded (`AllowedMoves`), and
ids are fresh. With `CommandsImplementBoard` it gives `SerialRequestsOnBoard`.

The last section of `FilaProofs` is about `FilaLive`. `LiveInv`: the subscribers of the hub are the
sockets of the screens, one each, and a publisher that makes room in a channel
still has that socket to do. `Follows(s)`, inductive with it: a screen that missed nothing
has news on the way (a command not published yet, a socket to do, an event in its
channel or on its wire, an answer asked for) or shows, or loads, everything.
The point of the proof is `DropOldest`: the event that is dropped is replaced by
the one of the publisher that drops it. At rest there is no news, which is `ScreensFollow`.

`WebhookProofs`. `TInv == TypeOK /\ LiveHasMessage` (a running request has a
message), then `Holds(r)` for each request: a running request that was not
overtaken has its claim in Redis, or Redis failed for its message. It is
inductive because scripts end only the claim whose token they carry
(`OthersKeepTheirClaim`), incidents are never forgotten (`TaintGrows`), and an
expired claim records its holder. `ClaimsAreExclusive` is `ClaimsHold`.
`RowsAgree` is what rows and requests say of one another: a row with an external id is on
that message's side and says what it says or is taken for (`Tells`), a panel message has its row before anything
of it is known outside (`Precedes`), a request makes its row last (`Makes`), has
seen a row that exists and is like its message (`Seen`), and makes none for a panel
message within reach of its echo (`InReach`, `Overlooks`). So a row with the id of an
unmistakable message says what only that message says (`SaysItsOwn`), a panel
message has its own row only. `OneRowPerMessage` adds, for the other messages, `MadeOnce`: while a request is about to make
the row nobody has made one, because it holds the claim. `AcknowledgedIsKept` needs
that a request past its lookup leaves the message a row (`Found`) and that a claim
in Redis has a running holder and a completed key a row (`KeyTells`).

`MessageMarksProofs`. `MInv == Shaped /\ AllSingle`: what a job has *read* has
one reaction per actor too, and so whatever it writes (`AppliedMeta`). From it
`DeletedForEver`: only a write of a mark touches the text (`TextOnlyDeleted`).
`DeletionsAreRecorded` adds `DInv`, that the metadata a job read agree with the
text then. `RowMirrors`, the repair by webhooks, adds `WInv`: while the message is not
deleted, each actor that was not misled has a last mark (`Last(a, n)`), which is
what WhatsApp shows, is later than everything under way, and is written to the
row or `Coming`: posted, or read by a webhook that will write it. A webhook that
fails is posted again, so `Coming` is never lost (`FailLast`); a write that
overlapped nothing changes one actor's reaction only (`ReactedOwn`,
`ReactedOthers`). When nothing is under way, the last mark must be in the row.

`InboxScreenProofs`. `IInv`: while no answer has met another conversation, every
list, shown or kept, is `Sound`: it is of its own conversation, and a temporary
message in it that says PENDING has its POST on its way; one synchronization is on
its way at most (`OneSync`); and a request is `Honest`, asked for the conversation
it says, with a page of that conversation and, as long as nothing crossed, its kept
list. Each step merges a sound list with a page without temporary messages, which
stays sound (`SoundMerged`), or answers a POST, which takes its message out of the
list shown and, through the watcher, out of the copy of it (`PostAnswered`,
`ShowsSound`); the other copies never had it.

`ConversationsProofs`. `ConvInv` holds the unique key (`OneRow`), `StoredIsVisible`
itself and what each request knows (`CallOK`): a row a request will write to is
of the instance, and such rows are for ever (`InstancesStay`), because a merge
whose staying row is not the instance's cannot commit while there is one
(`RewriteStep`). So no message a request stored is in a row that a merge
deletes; the message from before the instances may be, and then it is among those the merge moves, or
its row became one of the instance meanwhile and the merge fails. The row that is looked up may be made by another request before it is
written, which the unique key refuses (`CreatesStep`). For `AssignmentStays`: as long as no
assignment raced a merge, what a merge has read (`AssignmentRead`) is the last assignment
whenever it may still be written.

`ModuleSeatsProofs`. `Typed`: a request has written what its kind and place say
(`Shape`), and no row that another has written. `Earned`: a seat that is in force or being
given has its grounds, and who is about to take these grounds away is about
to take every seat it can see (`Ready`); a seat it cannot see is being given, which is
what `stray` records. `Follow`: who is not `torn` has one change under way if that is a
change of the status, and halfway through it the account says what the membership will.
Most statements commit nothing (`Quiet`, `QuietKeeps`); the work is in the two statements of a
status change and in `CommitKeeps`, by the kind of what commits.

`FinanceSheetsProofs`. `OwnLines`: a blank line is nowhere a sheet could get it
from, unless the sheet is excused for it; this gives `LinesAreNotWiped`. A reload
after a failed mark shows what it finds only on a sheet that has its excuse (`Refreshes`).
`SavedAsEdited` needs, for each sheet without an excuse, `Faithful(s)`: off the
screen nothing of it is under way (`Left`); while it loads nobody writes
(`Loaded`); on the screen the draft is what the user typed and marked, and what is
stored differs only while a save is due (`Drafted`); there is one mark at a time, and only once the text is stored
(`Marked`); what is being saved is that, or is followed by another save
(`Saved`); and what was loaded, by an answer or by the read after a commit, is what is
stored, until an answer says otherwise (`Cached`).

## 6. Only model-checked, and not modelled

Left to TLC: liveness (`NoInfinitePending`, `OverlappingEnd`, `ScreenCatchesUp`),
which is beyond the prover. Requests of a store that overlap do not implement
`FilaOperations` (finding 2), so the theorem
is about those that do not. `LimitIsRespected`, `NeverOutdated` and the other properties
of section 7 are refuted by TLC, so nothing is proved of them. `ComponentsTyped` is the conjunction of four type invariants, each of
which has its theorem. The theorems are about the components' own specifications;
that `MCServices`, `MCWebhooks` and the other MC modules let one part at a time take
its steps is by construction.

Abstracted: contents of messages and events, media, wording, authentication,
and the columns no property is about. The queue's settings are constant. In
`WebhookInbound` a message has one conversation, and `createdAt` orders rows as
they were created. In `FinanceSheets` a sheet has one ordinary line and one
editor, who marks only a line that is stored. In `InboxScreen` one tab is modelled, a
message's status is all that is told apart, and the list of conversations,
paging backwards and media are left out. In `Conversations` a contact has one
external id and the tenant one instance. In `FilaLive` an event carries
nothing, as the panel uses nothing of it.

Not modelled: pure presentation, parsers of payloads (no state; their tests
enumerate shapes), reports and dashboards (read-only), start-up code, legacy
pages and scripts, rate limiters, sessions and password resets, the registry of
instances, the retention sweep, sync-history. `PROJECT.json` gives the reason for each.

## 7. Findings

1. `outbound_force`: `docs/api-reference.md:899` requires `force=true` to
   reprocess a SENT message. The route tests a status it read earlier and resets
   the row unconditionally; a message that becomes SENT in between is sent again.
2. `fila_lost_service`: `database/ERD.md:331-332` calls
   `operation_active_services` the services in progress. A command that loaded
   the store before a start committed deletes the started service from it,
   without a history entry.
3. `webhook_late_echo`: `docs/frontend-ui.md:135` promises that the echo of a
   panel message never duplicates it. The echo is matched with rows of the last
   90 seconds by `createdAt`, which retries and requeues do not renew; a later
   echo that arrives before the worker stored the external id makes a second
   row.
4. `inbox_outdated`: `docs/tarefas-multi-tenant-omnichannel.md:339` promises
   that the inbox is never outdated while the socket is connected but silent.
   The heartbeat is scheduled again only after a refresh that did not throw: one
   failure, and the screen may stay behind for good. In the run the operator only
   reads: a page read earlier, or a late created event, shows a colleague's message
   PENDING after its SENT event, and no refresh follows; the freshness check looks for
   messages that are missing, not for those that are behind.
5. `conversations_merge`: `docs/INDEX-DOCS.md:275` says that old duplicates of
   a conversation are consolidated. The transaction gives the row that stays the
   scope of the one that goes before it deletes that one: the unique key refuses
   the update, and every later request of the contact runs into the same error.
6. `seats_limit`: `docs/access-control-matrix.md:94` and `docs/INDEX-DOCS.md:238`
   promise that no seat is given beyond the limit. `core/service.go:91-117` counts,
   compares and inserts in a READ COMMITTED transaction without a lock: two
   assignments that count before either commits both get the last seat.

## 8. Plan and observations

Done, in this order: outbound pipeline; service queue with its abstract board
and its concurrent requests; webhook messages; marks; conversations; the
screens of inbox and queue; seats; finance editor; and the proofs above. Next,
where somebody goes on:

1. `PlatformSessions` — sessions and resets: a revoked session or code is not
   used again (`password_reset.go:88`, `:187`, `:249` test what they read earlier).
2. `RateLimiter` — the Redis script and the memory fallback
   (`ratelimit.go:139`) refine one specification of window and block.
3. `InstanceRegistry` — one default instance, channels within their limit.
4. The tenant hub (`hub.go:159` moves a client without a user_left), sync-history
   and the retention sweep beside the webhooks.

Disagreements met while modelling that have no run of their own: the seats exceed
their limit also when a suspended user with a seat comes back and when an
administrator is created, whose seats are given without a count
(`admin_manage_service.go:2003`); a seat may commit in a module that is being disabled, because
the sweep does not see it (`SeatsAreEarned` excepts it); a webhook may answer for a
deletion the route has done already and then stores the replaced text as the
original content; for a moment a tenant has two default instances
(`whatsapp-instances.ts:543`).

Hazards known but not covered: outbound messages that are alike in what their echo
tells are told apart only by order (`deduplication.ts:65`, `:114`), so one typed on the
phone may be taken for one of the panel and not be stored; a direct upload
that is posted again after its answer was lost
(`useOmnichannelInboxOutboundPipeline.ts:267`); a command of the queue drops the
open service of a consultant who left the roster (`service.go:926`, which
`ServicesAccounted` counts as dropped); the channel limit tests what it read
earlier (`routes-whatsapp-session.ts:318`); `lastMessageAt` is read, then
written (`events.ts:34`).
