---------------------- MODULE OutboundPipelineProofs ----------------------
(***************************************************************************)
(* Safety of the outbound pipeline for any number of messages, requests,   *)
(* workers and queue slots, any attempt limit and any bound on failures.   *)
(***************************************************************************)
EXTENDS OutboundPipeline, FiniteSetTheorems, TLAPS

\* Whoever refers to a message refers to a row the panel may create.
CarriersHaveMessages ==
  /\ \A j \in Jobs : job[j].st # "free" => job[j].m \in Msgs
  /\ \A h \in Handlers :
       hd[h].pc \in {"reset", "enqueue", "queue_failed", "announce", "record", "publish"} =>
         hd[h].m \in Msgs

Busy(w) == wk[w].pc # "idle"

\* A job is run by at most one worker, and a worker runs a job the queue knows
\* to be running.
JobsAreExclusive ==
  /\ \A w \in Workers : Busy(w) => wk[w].job \in Jobs /\ job[wk[w].job].st = "active"
  /\ \A w, v \in Workers : Busy(w) /\ Busy(v) /\ wk[w].job = wk[v].job => w = v

\* A worker has an outcome from the row to the audit entry.
OutcomeIsWritten ==
  \A w \in Workers : wk[w].pc \in {"announce", "record"} <=> wk[w].out # "none"

IInv == TypeOK /\ CarriersHaveMessages /\ JobsAreExclusive /\ OutcomeIsWritten

-----------------------------------------------------------------------------
(* Facts about the operators *)

LEMMA RetryLimit ==
  ASSUME NEW e, NEW attempt \in Nat, NEW configured \in Nat,
         CanRetry(attempt, RetryDecision(e, configured), configured)
  PROVE  attempt < configured
<1>1. RetryDecision(e, configured).max \in Nat
  BY DEF RetryDecision, Decision
<1> QED
  BY <1>1 DEF CanRetry, AllowedAttempts

LEMMA ThrownType ==
  ASSUME TypeOK, NEW j \in Jobs
  PROVE  /\ Thrown(j) \in Job
         /\ \/ Thrown(j).st = "waiting" /\ Thrown(j).m = job[j].m
            \/ Thrown(j) = FreeJob
         /\ job[j].made + 1 < MaxAttempts => Thrown(j).st = "waiting"
<1>1. job[j] \in Job /\ job[j].made \in 0 .. MaxAttempts - 1
  BY DEF TypeOK, Job
<1>2. MaxAttempts \in Nat \ {0} /\ MaxStalls \in Nat
  BY ConstantsAssumption DEF ConstantsAssumption
<1>3. CASE job[j].made + 1 < MaxAttempts
  <2>1. Thrown(j) = [job[j] EXCEPT !.st = "waiting", !.made = @ + 1]
    BY <1>3 DEF Thrown
  <2>2. job[j].made + 1 \in 0 .. MaxAttempts - 1
    BY <1>1, <1>2, <1>3
  <2> QED
    BY <2>1, <2>2, <1>1 DEF Job
<1>4. CASE ~(job[j].made + 1 < MaxAttempts)
  <2>1. Thrown(j) = FreeJob
    BY <1>4 DEF Thrown
  <2> QED
    BY <2>1, <1>2, <1>4 DEF Job, FreeJob
<1> QED
  BY <1>3, <1>4

LEMMA InitIInv == Init => IInv
BY ConstantsAssumption
   DEF Init, IInv, TypeOK, CarriersHaveMessages, JobsAreExclusive, OutcomeIsWritten, Busy, Message, Job, Handler,
       Worker, Statuses, ExtIds, NoExt, Incidents, NewMessage, FreeJob, IdleHandler, IdleWorker

-----------------------------------------------------------------------------
(* The parts of the actions preserve types *)

LEMMA Bounds ==
  /\ IsFiniteSet(Msgs) /\ Deletable \subseteq Msgs
  /\ MaxAttempts \in Nat \ {0}
  /\ MaxStalls \in Nat /\ MaxAccepts \in Nat /\ MaxReprocess \in Nat /\ MaxFaults \in Nat
BY ConstantsAssumption DEF ConstantsAssumption

LEMMA RowTypes ==
  ASSUME NEW r \in Message
  PROVE  /\ \A s \in Statuses : [r EXCEPT !.st = s] \in Message
         /\ [r EXCEPT !.st = "deleted"] \in Message
         /\ [r EXCEPT !.stale = TRUE] \in Message
         /\ \A s \in Statuses, e \in ExtIds : [r EXCEPT !.st = s, !.ext = e] \in Message
         /\ r.ext \in ExtIds
BY DEF Message

LEMMA InsertPendingType ==
  ASSUME TypeOK, NEW m \in Msgs, InsertPending(m)
  PROVE  msg' \in [Msgs -> Message]
<1>1. Cardinality(Created) + 1 \in Nat
  BY Bounds, FS_Subset, FS_CardinalityType DEF Created
<1>2. [NewMessage EXCEPT !.st = "PENDING", !.born = Cardinality(Created) + 1] \in Message
  <2>1. NewMessage \in Message
    BY Bounds DEF Message, NewMessage, Statuses, ExtIds, NoExt
  <2> QED
    BY <1>1, <2>1 DEF Message, Statuses
<1> QED
  BY <1>2 DEF InsertPending, TypeOK

LEMMA ResetToPendingType ==
  ASSUME TypeOK, NEW m \in Msgs, ResetToPending(m)
  PROVE  msg' \in [Msgs -> Message] /\ hist' \in [Msgs -> SUBSET Incidents]
<1>1. [msg[m] EXCEPT !.st = "PENDING", !.ext = NoExt] \in Message
  <2>1. msg[m] \in Message /\ "PENDING" \in Statuses /\ NoExt \in ExtIds
    BY Bounds DEF TypeOK, Statuses, ExtIds, NoExt
  <2> QED
    BY <2>1 DEF Message
<1>2. msg' = [msg EXCEPT ![m] = [msg[m] EXCEPT !.st = "PENDING", !.ext = NoExt]]
  BY DEF ResetToPending, TypeOK, Message
<1> QED
  BY <1>1, <1>2 DEF ResetToPending, Note, Incidents, TypeOK

LEMMA SetStatusType ==
  ASSUME TypeOK, NEW w \in Workers, Target(w) \in Msgs, NEW s \in {"SENT", "FAILED"}, SetStatus(w, s)
  PROVE  msg' \in [Msgs -> Message] /\ wk' \in [Workers -> Worker]
<1> DEFINE m == Target(w)
           y == IF s = "SENT" THEN wk[w].ext ELSE msg[m].ext
<1>1. msg[m] \in Message /\ wk[w] \in Worker /\ s \in Statuses
  BY DEF TypeOK, Statuses
<1>2. y \in ExtIds
  BY <1>1 DEF Message, Worker
<1>3. [msg[m] EXCEPT !.st = s, !.ext = y] \in Message
  BY <1>1, <1>2 DEF Message
<1>4. msg' = [msg EXCEPT ![m] = [msg[m] EXCEPT !.st = s, !.ext = y]]
  BY <1>1 DEF SetStatus, TypeOK, Message
<1>5. [wk[w] EXCEPT !.pc = "announce", !.out = s] \in Worker
  BY <1>1 DEF Worker
<1>6. wk' = [wk EXCEPT ![w] = [wk[w] EXCEPT !.pc = "announce", !.out = s]]
  BY <1>1 DEF SetStatus, TypeOK, Worker
<1> QED
  BY <1>3, <1>4, <1>5, <1>6 DEF TypeOK

LEMMA RecordAuditType ==
  ASSUME TypeOK, NEW m \in Msgs, NEW s \in {"SENT", "FAILED"}, RecordAudit(m, s)
  PROVE  /\ audit' \in [Msgs -> SUBSET {"SENT", "FAILED"}]
         /\ hist' \in [Msgs -> SUBSET Incidents]
         /\ faults' \in 0 .. MaxFaults
BY Bounds DEF RecordAudit, TypeOK, Note, Fault, Incidents

LEMMA NoteType ==
  ASSUME TypeOK, NEW m, NEW i \in Incidents, Note(m, i)
  PROVE  hist' \in [Msgs -> SUBSET Incidents]
BY DEF TypeOK, Note

LEMMA FaultType ==
  ASSUME TypeOK, Fault
  PROVE  faults' \in 0 .. MaxFaults
BY Bounds DEF TypeOK, Fault

LEMMA AddJobType ==
  ASSUME TypeOK, NEW m \in Msgs, AddJob(m)
  PROVE  job' \in [Jobs -> Job]
<1>1. [FreeJob EXCEPT !.st = "waiting", !.m = m] \in Job
  <2>1. FreeJob \in Job
    BY Bounds DEF FreeJob, Job
  <2> QED
    BY <2>1 DEF Job
<1> QED
  BY <1>1 DEF AddJob, TypeOK

LEMMA AdvanceType ==
  ASSUME TypeOK, NEW h \in Handlers, Advance(h)
  PROVE  hd' \in [Handlers -> Handler]
<1>1. [hd[h] EXCEPT !.pc = "next", !.m = NoMsg] \in Handler /\ IdleHandler \in Handler
  BY DEF TypeOK, Handler, IdleHandler
<1> QED
  BY <1>1 DEF Advance, TypeOK

LEMMA StalledType ==
  ASSUME TypeOK, NEW j \in Jobs
  PROVE  /\ Stalled(j) \in Job
         /\ \/ Stalled(j).st = "waiting" /\ Stalled(j).m = job[j].m
            \/ Stalled(j) = FreeJob
<1>1. job[j] \in Job /\ FreeJob \in Job
  BY Bounds DEF TypeOK, Job, FreeJob
<1>2. CASE job[j].stalls < MaxStalls
  <2>1. job[j].stalls + 1 \in 0 .. MaxStalls
    BY <1>1, <1>2, Bounds DEF Job
  <2> QED
    BY <1>1, <1>2, <2>1 DEF Stalled, Job
<1>3. CASE ~(job[j].stalls < MaxStalls)
  BY <1>1, <1>3 DEF Stalled
<1> QED
  BY <1>2, <1>3

\* A handler that only changes where it is.
LEMMA HandlerAt ==
  ASSUME TypeOK, NEW h \in Handlers,
         NEW pc \in {"enqueue", "queue_failed", "announce", "record", "publish"}
  PROVE  /\ [hd EXCEPT ![h].pc = pc] \in [Handlers -> Handler]
         /\ [hd EXCEPT ![h].pc = pc, ![h].force = FALSE] \in [Handlers -> Handler]
<1>1. hd[h] \in Handler
  BY DEF TypeOK
<1>2. /\ [hd[h] EXCEPT !.pc = pc] \in Handler
      /\ [hd[h] EXCEPT !.pc = pc, !.force = FALSE] \in Handler
  BY <1>1 DEF Handler
<1>3. /\ [hd EXCEPT ![h].pc = pc] = [hd EXCEPT ![h] = [hd[h] EXCEPT !.pc = pc]]
      /\ [hd EXCEPT ![h].pc = pc, ![h].force = FALSE]
           = [hd EXCEPT ![h] = [hd[h] EXCEPT !.pc = pc, !.force = FALSE]]
  BY <1>1 DEF TypeOK, Handler
<1> QED
  BY <1>2, <1>3 DEF TypeOK

LEMMA IdleHandlerType == IdleHandler \in Handler
BY DEF IdleHandler, Handler

LEMMA AcceptType ==
  ASSUME TypeOK, NEW w \in Workers, Target(w) \in Msgs, Accept(w)
  PROVE  wa' \in Seq(Msgs) /\ Len(wa') <= MaxAccepts /\ Len(wa) + 1 \in ExtIds
BY Bounds DEF TypeOK, Accept, ExtIds

LEMMA WorkerTypes ==
  ASSUME TypeOK, NEW w \in Workers
  PROVE  /\ IdleWorker \in Worker
         /\ \A x \in ExtIds : [wk[w] EXCEPT !.pc = "mark", !.ext = x] \in Worker
         /\ [wk[w] EXCEPT !.pc = "mark"] \in Worker
         /\ [wk[w] EXCEPT !.pc = "fallback"] \in Worker
         /\ [wk[w] EXCEPT !.pc = "record"] \in Worker
         /\ [wk[w] EXCEPT !.pc = "give_up", !.ext = NoExt, !.out = "none"] \in Worker
<1>1. wk[w] \in Worker /\ NoExt \in ExtIds /\ IdleWorker \in Worker
  BY Bounds DEF TypeOK, Worker, IdleWorker, ExtIds, NoExt
<1> QED
  BY <1>1 DEF Worker

LEMMA CaughtType ==
  ASSUME IInv, NEW w \in Workers, Busy(w), NEW e, Caught(w, e)
  PROVE  job' \in [Jobs -> Job] /\ wk' \in [Workers -> Worker]
<1>1. wk[w].job \in Jobs
  BY DEF IInv, JobsAreExclusive
<1>2. Thrown(wk[w].job) \in Job
  BY <1>1, ThrownType DEF IInv
<1>3. wk[w] \in Worker
  BY DEF IInv, TypeOK
<1>4. [wk EXCEPT ![w].pc = "give_up", ![w].ext = NoExt, ![w].out = "none"]
        = [wk EXCEPT ![w] = [wk[w] EXCEPT !.pc = "give_up", !.ext = NoExt, !.out = "none"]]
  BY <1>3 DEF IInv, TypeOK, Worker
<1>5. IdleWorker \in Worker /\ [wk[w] EXCEPT !.pc = "give_up", !.ext = NoExt, !.out = "none"] \in Worker
  BY WorkerTypes DEF IInv
<1>6. CASE WillRetry(w, e)
  BY <1>2, <1>5, <1>6 DEF Caught, IInv, TypeOK
<1>7. CASE ~ WillRetry(w, e)
  BY <1>4, <1>5, <1>7 DEF Caught, IInv, TypeOK
<1> QED
  BY <1>6, <1>7

LEMMA ThrowJobType ==
  ASSUME IInv, NEW w \in Workers, Busy(w), ThrowJob(w)
  PROVE  /\ job' \in [Jobs -> Job] /\ wk' \in [Workers -> Worker]
         /\ hist' \in [Msgs -> SUBSET Incidents]
<1>1. wk[w].job \in Jobs
  BY DEF IInv, JobsAreExclusive
<1> QED
  BY <1>1, ThrownType, WorkerTypes, NoteType DEF ThrowJob, IInv, TypeOK, Incidents

LEMMA CallFailsType ==
  ASSUME IInv, NEW w \in Workers, Busy(w), NEW e, CallFails(w, e)
  PROVE  job' \in [Jobs -> Job] /\ wk' \in [Workers -> Worker]
BY CaughtType, WorkerTypes DEF CallFails, IInv, TypeOK

LEMMA CompleteType ==
  ASSUME IInv, NEW w \in Workers, Busy(w), Complete(w)
  PROVE  job' \in [Jobs -> Job] /\ wk' \in [Workers -> Worker]
<1>1. FreeJob \in Job
  BY Bounds DEF FreeJob, Job
<1> QED
  BY <1>1, WorkerTypes DEF Complete, IInv, TypeOK

LEMMA BusyTarget ==
  ASSUME IInv, NEW w \in Workers, Busy(w)
  PROVE  wk[w].job \in Jobs /\ job[wk[w].job].st = "active" /\ Target(w) \in Msgs
BY DEF IInv, JobsAreExclusive, CarriersHaveMessages, Target

LEMMA TypeStep == IInv /\ [Next]_vars => TypeOK'
<1> SUFFICES ASSUME IInv, [Next]_vars PROVE TypeOK'
  OBVIOUS
<1> USE DEF IInv
<1>1. ASSUME NEW h \in Handlers, NEW m \in Msgs, SendMessage(h, m) PROVE TypeOK'
  BY <1>1, InsertPendingType DEF SendMessage, TypeOK, Handler, IdleHandler
<1>2. ASSUME NEW h \in Handlers, NEW S \in SUBSET Msgs, ForwardRequest(h, S) PROVE TypeOK'
  BY <1>2 DEF ForwardRequest, TypeOK, Handler, IdleHandler
<1>3. ASSUME NEW h \in Handlers, NEW m \in Msgs, ForwardNext(h, m) PROVE TypeOK'
  BY <1>3, InsertPendingType DEF ForwardNext, TypeOK, Handler
<1>4. ASSUME NEW h \in Handlers, NEW m \in Msgs, NEW force \in BOOLEAN, ReprocessCheck(h, m, force)
       PROVE TypeOK'
  <2>1. reprocs' \in 0 .. MaxReprocess
    BY <1>4, Bounds DEF ReprocessCheck, TypeOK
  <2>2. hd' \in [Handlers -> Handler]
    BY <1>4, IdleHandlerType DEF ReprocessCheck, TypeOK, Handler
  <2> QED
    BY <1>4, <2>1, <2>2 DEF ReprocessCheck, TypeOK
<1>5. ASSUME NEW h \in Handlers, ReprocessReset(h) PROVE TypeOK'
  <2>1. hd[h].m \in Msgs /\ hd' \in [Handlers -> Handler]
    BY <1>5, HandlerAt DEF ReprocessReset, CarriersHaveMessages
  <2> QED
    BY <1>5, <2>1, ResetToPendingType DEF ReprocessReset, TypeOK
<1>6. ASSUME NEW h \in Handlers, ReprocessFailedSelect(h) PROVE TypeOK'
  <2>1. reprocs' \in 0 .. MaxReprocess
    BY <1>6, Bounds DEF ReprocessFailedSelect, TypeOK
  <2>2. hd' \in [Handlers -> Handler]
    BY <1>6, IdleHandlerType DEF ReprocessFailedSelect, TypeOK, Handler, Oldest
  <2> QED
    BY <1>6, <2>1, <2>2 DEF ReprocessFailedSelect, TypeOK
<1>7. ASSUME NEW h \in Handlers, NEW m \in Msgs, ReprocessFailedNext(h, m) PROVE TypeOK'
  <2>1. hd' \in [Handlers -> Handler]
    <3>1. hd[h] \in Handler /\ hd[h].todo \ {m} \in SUBSET Msgs
      BY DEF TypeOK, Handler
    <3>2. [hd[h] EXCEPT !.pc = "enqueue", !.m = m, !.todo = @ \ {m}] \in Handler
      BY <3>1 DEF Handler
    <3>3. hd' = [hd EXCEPT ![h] = [hd[h] EXCEPT !.pc = "enqueue", !.m = m, !.todo = @ \ {m}]]
      BY <1>7, <3>1 DEF ReprocessFailedNext, TypeOK, Handler
    <3> QED
      BY <3>2, <3>3 DEF TypeOK
  <2> QED
    BY <1>7, <2>1, ResetToPendingType DEF ReprocessFailedNext, TypeOK
<1>8. ASSUME NEW h \in Handlers, RowMissing(h) PROVE TypeOK'
  BY <1>8 DEF RowMissing, TypeOK, Handler, IdleHandler
<1>9. ASSUME NEW h \in Handlers, Enqueue(h) PROVE TypeOK'
  <2>1. hd[h].m \in Msgs
    BY <1>9 DEF Enqueue, CarriersHaveMessages
  <2>2. [hd[h] EXCEPT !.pc = "publish"] \in Handler
    <3>1. hd[h] \in Handler
      BY DEF TypeOK
    <3> QED
      BY <3>1 DEF Handler
  <2>3. hd' \in [Handlers -> Handler]
    BY <1>9, <2>2 DEF Enqueue, TypeOK
  <2> QED
    BY <1>9, <2>1, <2>3, AddJobType DEF Enqueue, TypeOK
<1>10. ASSUME NEW h \in Handlers, EnqueueResent(h) PROVE TypeOK'
  BY <1>10, AddJobType, NoteType, FaultType DEF EnqueueResent, TypeOK, Incidents,
     CarriersHaveMessages
<1>11. ASSUME NEW h \in Handlers, EnqueueFails(h) PROVE TypeOK'
  BY <1>11, FaultType, HandlerAt DEF EnqueueFails, TypeOK
<1>12. ASSUME NEW h \in Handlers, MarkQueueFailure(h) PROVE TypeOK'
  <2>1. hd' \in [Handlers -> Handler]
    BY <1>12, HandlerAt DEF MarkQueueFailure
  <2> QED
    BY <1>12, <2>1, RowTypes DEF MarkQueueFailure, TypeOK, Statuses
<1>13. ASSUME NEW h \in Handlers, PublishQueued(h) PROVE TypeOK'
  BY <1>13, AdvanceType DEF PublishQueued, TypeOK
<1>14. ASSUME NEW h \in Handlers, HandlerCrash(h) PROVE TypeOK'
  <2>1. hd' \in [Handlers -> Handler]
    BY <1>14, IdleHandlerType DEF HandlerCrash, TypeOK
  <2>2. hist' \in [Msgs -> SUBSET Incidents]
    BY <1>14, NoteType DEF HandlerCrash, TypeOK, Incidents
  <2> QED
    BY <1>14, <2>1, <2>2, FaultType DEF HandlerCrash, TypeOK
<1>15. ASSUME NEW w \in Workers, NEW j \in Jobs, Fetch(w, j) PROVE TypeOK'
  <2>1. job' \in [Jobs -> Job]
    BY <1>15 DEF Fetch, TypeOK, Job
  <2>2. wk' \in [Workers -> Worker]
    BY <1>15, WorkerTypes DEF Fetch, TypeOK, Worker
  <2> QED
    BY <1>15, <2>1, <2>2 DEF Fetch, TypeOK
<1>16. ASSUME NEW w \in Workers, NEW j \in Jobs, FetchFails(w, j) PROVE TypeOK'
  BY <1>16, ThrownType, NoteType, FaultType DEF FetchFails, TypeOK, Incidents
<1>17. ASSUME NEW w \in Workers, SkipProvider(w) PROVE TypeOK'
  BY <1>17, WorkerTypes DEF SkipProvider, TypeOK
<1>18. ASSUME NEW w \in Workers, ProviderAccepts(w) PROVE TypeOK'
  <2>1. Target(w) \in Msgs
    BY <1>18, BusyTarget DEF ProviderAccepts, Calling, Busy
  <2>2. wa' \in Seq(Msgs) /\ Len(wa') <= MaxAccepts /\ Len(wa) + 1 \in ExtIds /\ NoExt \in ExtIds
    BY <1>18, <2>1, AcceptType, Bounds DEF ProviderAccepts, NoExt, ExtIds
  <2>3. PICK x \in {NoExt, Len(wa) + 1} : wk' = [wk EXCEPT ![w].pc = "mark", ![w].ext = x]
    BY <1>18 DEF ProviderAccepts
  <2>4. x \in ExtIds /\ wk[w] \in Worker
    BY <2>2 DEF TypeOK
  <2>5. wk' = [wk EXCEPT ![w] = [wk[w] EXCEPT !.pc = "mark", !.ext = x]]
    BY <2>3, <2>4 DEF TypeOK, Worker
  <2>6. wk' \in [Workers -> Worker]
    BY <2>4, <2>5, WorkerTypes DEF TypeOK
  <2> QED
    BY <1>18, <2>2, <2>6 DEF ProviderAccepts, TypeOK
<1>19. ASSUME NEW w \in Workers, NEW e \in Errors \cup {Internal}, ProviderAcceptsAnswerLost(w, e)
       PROVE TypeOK'
  BY <1>19, BusyTarget, AcceptType, CallFailsType, NoteType DEF ProviderAcceptsAnswerLost,
     TypeOK, Busy, Calling, Incidents
<1>20. ASSUME NEW w \in Workers, NEW e \in Errors \cup {Internal}, ProviderRejects(w, e)
       PROVE TypeOK'
  BY <1>20, CallFailsType DEF ProviderRejects, TypeOK, Busy, Calling
<1>21. ASSUME NEW w \in Workers, MarkSent(w) PROVE TypeOK'
  BY <1>21, BusyTarget, SetStatusType DEF MarkSent, TypeOK, Busy
<1>22. ASSUME NEW w \in Workers, MarkSentFails(w) PROVE TypeOK'
  BY <1>22, CaughtType, NoteType, FaultType DEF MarkSentFails, TypeOK, Busy, Incidents
<1>23. ASSUME NEW w \in Workers, AnnounceStatusFails(w) PROVE TypeOK'
  <2>1. CASE Caught(w, Internal) /\ Note(Target(w), "unknown")
    BY <1>23, <2>1, CaughtType, NoteType, FaultType DEF AnnounceStatusFails, TypeOK, Busy, Incidents
  <2>2. CASE ThrowJob(w)
    BY <1>23, <2>2, ThrowJobType, FaultType DEF AnnounceStatusFails, TypeOK, Busy
  <2> QED
    BY <1>23, <2>1, <2>2 DEF AnnounceStatusFails
<1>24. ASSUME NEW w \in Workers, GiveUp(w) PROVE TypeOK'
  BY <1>24, BusyTarget, SetStatusType DEF GiveUp, TypeOK, Busy
<1>25. ASSUME NEW w \in Workers, GiveUpFails(w) PROVE TypeOK'
  BY <1>25, ThrowJobType, FaultType DEF GiveUpFails, TypeOK, Busy
<1>26. ASSUME NEW w \in Workers, WorkerCrash(w) PROVE TypeOK'
  <2> DEFINE j == wk[w].job
  <2>1. Stalled(j) \in Job
    BY <1>26, BusyTarget, StalledType DEF WorkerCrash, Busy
  <2>3. job' \in [Jobs -> Job]
    BY <1>26, <2>1 DEF WorkerCrash, TypeOK
  <2>4. hist' \in [Msgs -> SUBSET Incidents] /\ faults' \in 0 .. MaxFaults
    BY <1>26, FaultType DEF WorkerCrash, TypeOK, Incidents
  <2>5. wk' \in [Workers -> Worker] /\ mon' \in [Workers -> SUBSET Msgs]
    BY <1>26, WorkerTypes DEF WorkerCrash, TypeOK
  <2>6. audit' \in [Msgs -> SUBSET {"SENT", "FAILED"}]
    BY <1>26 DEF WorkerCrash, TypeOK, Worker, IInv, OutcomeIsWritten
  <2> QED
    BY <1>26, <2>3, <2>4, <2>5, <2>6 DEF WorkerCrash, TypeOK
<1>27. ASSUME NEW w \in Workers, StaleScan(w) PROVE TypeOK'
  BY <1>27 DEF StaleScan, TypeOK, Oldest, StalePending
<1>28. ASSUME NEW w \in Workers, NEW m \in Msgs, StaleRequeue(w, m) PROVE TypeOK'
  BY <1>28, AddJobType, NoteType DEF StaleRequeue, TypeOK, Incidents
<1>29. ASSUME NEW w \in Workers, NEW m \in Msgs, StaleRequeueFails(w, m) PROVE TypeOK'
  BY <1>29, FaultType DEF StaleRequeueFails, TypeOK
<1>30. ASSUME NEW m \in Msgs, GrowStale(m) PROVE TypeOK'
  BY <1>30, RowTypes DEF GrowStale, TypeOK
<1>31. ASSUME NEW m \in Msgs, DeleteMessage(m) PROVE TypeOK'
  BY <1>31, RowTypes DEF DeleteMessage, TypeOK
<1>33. ASSUME NEW h \in Handlers, AnnounceQueueFailure(h) PROVE TypeOK'
  <2>1. hd' \in [Handlers -> Handler]
    BY <1>33, HandlerAt DEF AnnounceQueueFailure
  <2> QED
    BY <1>33, <2>1 DEF AnnounceQueueFailure, TypeOK
<1>34. ASSUME NEW h \in Handlers, RecordQueueFailure(h) PROVE TypeOK'
  <2>1. hd' \in [Handlers -> Handler]
    <3>1. CASE hd[h].kind = "forward"
      BY <1>34, <3>1, HandlerAt DEF RecordQueueFailure
    <3>2. CASE hd[h].kind # "forward"
      BY <1>34, <3>2, AdvanceType DEF RecordQueueFailure
    <3> QED
      BY <3>1, <3>2
  <2>2. hd[h].m \in Msgs
    BY <1>34 DEF RecordQueueFailure, CarriersHaveMessages
  <2> QED
    BY <1>34, <2>1, <2>2, RecordAuditType DEF RecordQueueFailure, TypeOK
<1>35. ASSUME NEW w \in Workers, AnnounceStatus(w) PROVE TypeOK'
  BY <1>35, WorkerTypes DEF AnnounceStatus, TypeOK
<1>36. ASSUME NEW w \in Workers, RecordStatus(w) PROVE TypeOK'
  <2>1. Busy(w) /\ Target(w) \in Msgs /\ wk[w].out \in {"SENT", "FAILED"}
    BY <1>36, BusyTarget DEF RecordStatus, Busy, OutcomeIsWritten, TypeOK, Worker
  <2> QED
    BY <1>36, <2>1, CompleteType, RecordAuditType DEF RecordStatus, TypeOK
<1>32. CASE UNCHANGED vars
  BY <1>32 DEF vars, TypeOK
<1> QED
  BY <1>1, <1>2, <1>3, <1>4, <1>5, <1>6, <1>7, <1>8, <1>9, <1>10, <1>11, <1>12, <1>13, <1>14,
     <1>15, <1>16, <1>17, <1>18, <1>19, <1>20, <1>21, <1>22, <1>23, <1>24, <1>25, <1>26, <1>27,
     <1>28, <1>29, <1>30, <1>31, <1>32, <1>33, <1>34, <1>35, <1>36
     DEF Next, Request, HandlerStep, WorkerStep, ProviderStep, MonitorStep

LEMMA CarriersStep == IInv /\ [Next]_vars => CarriersHaveMessages'
<1> SUFFICES ASSUME IInv, [Next]_vars PROVE CarriersHaveMessages'
  OBVIOUS
<1> USE DEF IInv
<1>1. ASSUME NEW h \in Handlers, NEW m \in Msgs, SendMessage(h, m) PROVE CarriersHaveMessages'
  BY <1>1 DEF SendMessage, TypeOK, CarriersHaveMessages, JobsAreExclusive, IdleHandler
<1>2. ASSUME NEW h \in Handlers, NEW S \in SUBSET Msgs, ForwardRequest(h, S)
       PROVE CarriersHaveMessages'
  BY <1>2 DEF ForwardRequest, TypeOK, CarriersHaveMessages, JobsAreExclusive, IdleHandler
<1>3. ASSUME NEW h \in Handlers, NEW m \in Msgs, ForwardNext(h, m) PROVE CarriersHaveMessages'
  BY <1>3 DEF ForwardNext, TypeOK, CarriersHaveMessages, JobsAreExclusive
<1>4. ASSUME NEW h \in Handlers, NEW m \in Msgs, NEW force \in BOOLEAN, ReprocessCheck(h, m, force)
       PROVE CarriersHaveMessages'
  BY <1>4 DEF ReprocessCheck, TypeOK, CarriersHaveMessages, JobsAreExclusive, IdleHandler
<1>5. ASSUME NEW h \in Handlers, ReprocessReset(h) PROVE CarriersHaveMessages'
  BY <1>5 DEF ReprocessReset, TypeOK, CarriersHaveMessages, JobsAreExclusive
<1>6. ASSUME NEW h \in Handlers, ReprocessFailedSelect(h) PROVE CarriersHaveMessages'
  BY <1>6 DEF ReprocessFailedSelect, TypeOK, CarriersHaveMessages, JobsAreExclusive, IdleHandler
<1>7. ASSUME NEW h \in Handlers, NEW m \in Msgs, ReprocessFailedNext(h, m)
       PROVE CarriersHaveMessages'
  BY <1>7 DEF ReprocessFailedNext, TypeOK, CarriersHaveMessages, JobsAreExclusive
<1>8. ASSUME NEW h \in Handlers, RowMissing(h) PROVE CarriersHaveMessages'
  BY <1>8 DEF RowMissing, TypeOK, CarriersHaveMessages, JobsAreExclusive, IdleHandler
<1>9. ASSUME NEW h \in Handlers, Enqueue(h) PROVE CarriersHaveMessages'
  BY <1>9 DEF Enqueue, TypeOK, CarriersHaveMessages, JobsAreExclusive, FreeJob, AddJob
<1>10. ASSUME NEW h \in Handlers, EnqueueResent(h) PROVE CarriersHaveMessages'
  BY <1>10 DEF EnqueueResent, TypeOK, CarriersHaveMessages, JobsAreExclusive, FreeJob, AddJob
<1>11. ASSUME NEW h \in Handlers, EnqueueFails(h) PROVE CarriersHaveMessages'
  BY <1>11 DEF EnqueueFails, TypeOK, CarriersHaveMessages, JobsAreExclusive
<1>12. ASSUME NEW h \in Handlers, MarkQueueFailure(h) PROVE CarriersHaveMessages'
  BY <1>12 DEF MarkQueueFailure, TypeOK, CarriersHaveMessages, JobsAreExclusive, Handler
<1>13. ASSUME NEW h \in Handlers, PublishQueued(h) PROVE CarriersHaveMessages'
  BY <1>13 DEF PublishQueued, TypeOK, CarriersHaveMessages, JobsAreExclusive, Advance, IdleHandler
<1>14. ASSUME NEW h \in Handlers, HandlerCrash(h) PROVE CarriersHaveMessages'
  BY <1>14 DEF HandlerCrash, TypeOK, CarriersHaveMessages, JobsAreExclusive, IdleHandler
<1>15. ASSUME NEW w \in Workers, NEW j \in Jobs, Fetch(w, j) PROVE CarriersHaveMessages'
  BY <1>15 DEF Fetch, TypeOK, CarriersHaveMessages, JobsAreExclusive, Busy, IdleWorker
<1>16. ASSUME NEW w \in Workers, NEW j \in Jobs, FetchFails(w, j) PROVE CarriersHaveMessages'
  BY <1>16, ThrownType DEF FetchFails, TypeOK, CarriersHaveMessages, JobsAreExclusive, FreeJob, Busy
<1>17. ASSUME NEW w \in Workers, SkipProvider(w) PROVE CarriersHaveMessages'
  BY <1>17 DEF SkipProvider, TypeOK, CarriersHaveMessages, JobsAreExclusive, Busy, IdleWorker
<1>18. ASSUME NEW w \in Workers, ProviderAccepts(w) PROVE CarriersHaveMessages'
  BY <1>18 DEF ProviderAccepts, TypeOK, CarriersHaveMessages, JobsAreExclusive, Calling, Busy
<1>19. ASSUME NEW w \in Workers, NEW e \in Errors \cup {Internal}, ProviderAcceptsAnswerLost(w, e)
       PROVE CarriersHaveMessages'
  BY <1>19, ThrownType DEF ProviderAcceptsAnswerLost, TypeOK, CarriersHaveMessages,
     JobsAreExclusive, Calling, CallFails, Caught, FreeJob, Busy, IdleWorker
<1>20. ASSUME NEW w \in Workers, NEW e \in Errors \cup {Internal}, ProviderRejects(w, e)
       PROVE CarriersHaveMessages'
  BY <1>20, ThrownType DEF ProviderRejects, TypeOK, CarriersHaveMessages, JobsAreExclusive,
     Calling, CallFails, Caught, FreeJob, Busy, IdleWorker
<1>21. ASSUME NEW w \in Workers, MarkSent(w) PROVE CarriersHaveMessages'
  BY <1>21 DEF MarkSent, TypeOK, CarriersHaveMessages
<1>22. ASSUME NEW w \in Workers, MarkSentFails(w) PROVE CarriersHaveMessages'
  BY <1>22, ThrownType DEF MarkSentFails, TypeOK, CarriersHaveMessages, JobsAreExclusive, Caught,
     FreeJob, Busy, IdleWorker
<1>23. ASSUME NEW w \in Workers, AnnounceStatusFails(w) PROVE CarriersHaveMessages'
  BY <1>23, ThrownType DEF AnnounceStatusFails, TypeOK, CarriersHaveMessages, JobsAreExclusive,
     Caught, ThrowJob, FreeJob, Busy, IdleWorker
<1>24. ASSUME NEW w \in Workers, GiveUp(w) PROVE CarriersHaveMessages'
  BY <1>24 DEF GiveUp, TypeOK, CarriersHaveMessages
<1>25. ASSUME NEW w \in Workers, GiveUpFails(w) PROVE CarriersHaveMessages'
  BY <1>25, ThrownType DEF GiveUpFails, ThrowJob, TypeOK, CarriersHaveMessages, JobsAreExclusive, FreeJob,
     Busy, IdleWorker
<1>26. ASSUME NEW w \in Workers, WorkerCrash(w) PROVE CarriersHaveMessages'
  BY <1>26, StalledType DEF WorkerCrash, TypeOK, CarriersHaveMessages, JobsAreExclusive, FreeJob,
     Busy, IdleWorker
<1>27. ASSUME NEW w \in Workers, StaleScan(w) PROVE CarriersHaveMessages'
  BY <1>27 DEF StaleScan, TypeOK, CarriersHaveMessages, JobsAreExclusive
<1>28. ASSUME NEW w \in Workers, NEW m \in Msgs, StaleRequeue(w, m) PROVE CarriersHaveMessages'
  BY <1>28 DEF StaleRequeue, TypeOK, CarriersHaveMessages, JobsAreExclusive, FreeJob, AddJob, Oldest
<1>29. ASSUME NEW w \in Workers, NEW m \in Msgs, StaleRequeueFails(w, m) PROVE CarriersHaveMessages'
  BY <1>29 DEF StaleRequeueFails, TypeOK, CarriersHaveMessages, JobsAreExclusive
<1>30. ASSUME NEW m \in Msgs, GrowStale(m) PROVE CarriersHaveMessages'
  BY <1>30 DEF GrowStale, TypeOK, CarriersHaveMessages, JobsAreExclusive
<1>31. ASSUME NEW m \in Msgs, DeleteMessage(m) PROVE CarriersHaveMessages'
  BY <1>31 DEF DeleteMessage, TypeOK, CarriersHaveMessages, JobsAreExclusive
<1>33. ASSUME NEW h \in Handlers, AnnounceQueueFailure(h) PROVE CarriersHaveMessages'
  BY <1>33 DEF AnnounceQueueFailure, TypeOK, CarriersHaveMessages, Handler
<1>34. ASSUME NEW h \in Handlers, RecordQueueFailure(h) PROVE CarriersHaveMessages'
  <2>1. hd[h].m \in Msgs /\ job' = job
    BY <1>34 DEF RecordQueueFailure, CarriersHaveMessages
  <2>2. /\ \A g \in Handlers : g # h => hd'[g] = hd[g]
        /\ hd'[h].pc \in {"idle", "next"} \/ (hd'[h].pc = "publish" /\ hd'[h].m = hd[h].m)
    <3>1. CASE hd[h].kind = "forward"
      BY <1>34, <3>1 DEF RecordQueueFailure, TypeOK, Handler
    <3>2. CASE hd[h].kind # "forward"
      <4>1. /\ hd' = [hd EXCEPT ![h] = IF hd[h].todo = {} THEN IdleHandler
                                       ELSE [hd[h] EXCEPT !.pc = "next", !.m = NoMsg]]
        BY <1>34, <3>2 DEF RecordQueueFailure, Advance
      <4>2. [hd[h] EXCEPT !.pc = "next", !.m = NoMsg].pc = "next" /\ IdleHandler.pc = "idle"
        BY DEF TypeOK, Handler, IdleHandler
      <4> QED
        BY <4>1, <4>2 DEF TypeOK
    <3> QED
      BY <3>1, <3>2
  <2> QED
    BY <2>1, <2>2 DEF CarriersHaveMessages
<1>35. ASSUME NEW w \in Workers, AnnounceStatus(w) PROVE CarriersHaveMessages'
  BY <1>35 DEF AnnounceStatus, TypeOK, CarriersHaveMessages
<1>36. ASSUME NEW w \in Workers, RecordStatus(w) PROVE CarriersHaveMessages'
  BY <1>36 DEF RecordStatus, TypeOK, CarriersHaveMessages, JobsAreExclusive, Complete, FreeJob, Busy
<1>32. CASE UNCHANGED vars
  BY <1>32 DEF vars, TypeOK, CarriersHaveMessages, JobsAreExclusive, Busy
<1> QED
  BY <1>1, <1>2, <1>3, <1>4, <1>5, <1>6, <1>7, <1>8, <1>9, <1>10, <1>11, <1>12, <1>13, <1>14,
     <1>15, <1>16, <1>17, <1>18, <1>19, <1>20, <1>21, <1>22, <1>23, <1>24, <1>25, <1>26, <1>27,
     <1>28, <1>29, <1>30, <1>31, <1>32, <1>33, <1>34, <1>35, <1>36
     DEF Next, Request, HandlerStep, WorkerStep, ProviderStep, MonitorStep

LEMMA CaughtExclusive ==
  ASSUME IInv, NEW w \in Workers, Busy(w), NEW e, Caught(w, e)
  PROVE  JobsAreExclusive'
<1> DEFINE j == wk[w].job
<1>1. j \in Jobs /\ job[j].st = "active" /\ \A v \in Workers : Busy(v) /\ wk[v].job = j => v = w
  BY DEF IInv, JobsAreExclusive
<1>2. CASE WillRetry(w, e)
  <2>1. wk' = [wk EXCEPT ![w] = IdleWorker] /\ job' = [job EXCEPT ![j] = Thrown(j)]
    BY <1>2 DEF Caught
  <2>2. \A v \in Workers : Busy(v)' => v # w /\ Busy(v) /\ wk'[v] = wk[v]
    BY <2>1 DEF Busy, IdleWorker, IInv, TypeOK
  <2>3. \A i \in Jobs : i # j => job'[i] = job[i]
    BY <2>1 DEF IInv, TypeOK
  <2> QED
    BY <1>1, <2>2, <2>3 DEF IInv, JobsAreExclusive
<1>3. CASE ~WillRetry(w, e)
  <2>1. /\ wk' = [wk EXCEPT ![w].pc = "give_up", ![w].ext = NoExt, ![w].out = "none"]
        /\ job' = job
    BY <1>3 DEF Caught
  <2>2. \A v \in Workers : (Busy(v)' => Busy(v)) /\ wk'[v].job = wk[v].job
    BY <2>1 DEF Busy, IInv, TypeOK, Worker
  <2> QED
    BY <2>1, <2>2 DEF IInv, JobsAreExclusive
<1> QED
  BY <1>2, <1>3

LEMMA CallFailsExclusive ==
  ASSUME IInv, NEW w \in Workers, Busy(w), NEW e, CallFails(w, e)
  PROVE  JobsAreExclusive'
<1>1. CASE wk[w].pc = "send" /\ FallsBack(Kind[Target(w)], e)
  <2>1. wk' = [wk EXCEPT ![w].pc = "fallback"] /\ job' = job
    BY <1>1 DEF CallFails
  <2>2. \A v \in Workers : (Busy(v)' => Busy(v)) /\ wk'[v].job = wk[v].job
    BY <1>1, <2>1 DEF Busy, IInv, TypeOK, Worker
  <2> QED
    BY <2>1, <2>2 DEF IInv, JobsAreExclusive
<1> QED
  BY <1>1, CaughtExclusive DEF CallFails

LEMMA ThrowJobExclusive ==
  ASSUME IInv, NEW w \in Workers, Busy(w), ThrowJob(w)
  PROVE  JobsAreExclusive'
<1> DEFINE j == wk[w].job
<1>1. j \in Jobs /\ \A v \in Workers : Busy(v) /\ wk[v].job = j => v = w
  BY DEF IInv, JobsAreExclusive
<1>2. \A v \in Workers : Busy(v)' => v # w /\ Busy(v) /\ wk'[v] = wk[v]
  BY DEF ThrowJob, Busy, IdleWorker, IInv, TypeOK
<1>3. \A i \in Jobs : i # j => job'[i] = job[i]
  BY DEF ThrowJob, IInv, TypeOK
<1> QED
  BY <1>1, <1>2, <1>3 DEF IInv, JobsAreExclusive

LEMMA ExclusiveStep == IInv /\ [Next]_vars => JobsAreExclusive'
<1> SUFFICES ASSUME IInv, [Next]_vars PROVE JobsAreExclusive'
  OBVIOUS
<1> USE DEF IInv
<1>1. ASSUME NEW h \in Handlers, NEW m \in Msgs, SendMessage(h, m) PROVE JobsAreExclusive'
  BY <1>1 DEF SendMessage, TypeOK, JobsAreExclusive, IdleHandler, Busy
<1>2. ASSUME NEW h \in Handlers, NEW S \in SUBSET Msgs, ForwardRequest(h, S) PROVE JobsAreExclusive'
  BY <1>2 DEF ForwardRequest, TypeOK, JobsAreExclusive, IdleHandler, Busy
<1>3. ASSUME NEW h \in Handlers, NEW m \in Msgs, ForwardNext(h, m) PROVE JobsAreExclusive'
  BY <1>3 DEF ForwardNext, TypeOK, JobsAreExclusive, Busy
<1>4. ASSUME NEW h \in Handlers, NEW m \in Msgs, NEW force \in BOOLEAN, ReprocessCheck(h, m, force)
       PROVE JobsAreExclusive'
  BY <1>4 DEF ReprocessCheck, TypeOK, JobsAreExclusive, IdleHandler, Busy
<1>5. ASSUME NEW h \in Handlers, ReprocessReset(h) PROVE JobsAreExclusive'
  BY <1>5 DEF ReprocessReset, TypeOK, JobsAreExclusive, Busy
<1>6. ASSUME NEW h \in Handlers, ReprocessFailedSelect(h) PROVE JobsAreExclusive'
  BY <1>6 DEF ReprocessFailedSelect, TypeOK, JobsAreExclusive, IdleHandler, Busy
<1>7. ASSUME NEW h \in Handlers, NEW m \in Msgs, ReprocessFailedNext(h, m) PROVE JobsAreExclusive'
  BY <1>7 DEF ReprocessFailedNext, TypeOK, JobsAreExclusive, Busy
<1>8. ASSUME NEW h \in Handlers, RowMissing(h) PROVE JobsAreExclusive'
  BY <1>8 DEF RowMissing, TypeOK, JobsAreExclusive, IdleHandler, Busy
<1>9. ASSUME NEW h \in Handlers, Enqueue(h) PROVE JobsAreExclusive'
  BY <1>9 DEF Enqueue, TypeOK, JobsAreExclusive, FreeJob, AddJob, Busy
<1>10. ASSUME NEW h \in Handlers, EnqueueResent(h) PROVE JobsAreExclusive'
  BY <1>10 DEF EnqueueResent, TypeOK, JobsAreExclusive, FreeJob, AddJob, Busy
<1>11. ASSUME NEW h \in Handlers, EnqueueFails(h) PROVE JobsAreExclusive'
  BY <1>11 DEF EnqueueFails, TypeOK, JobsAreExclusive, Busy
<1>12. ASSUME NEW h \in Handlers, MarkQueueFailure(h) PROVE JobsAreExclusive'
  BY <1>12 DEF MarkQueueFailure, TypeOK, JobsAreExclusive, Busy
<1>13. ASSUME NEW h \in Handlers, PublishQueued(h) PROVE JobsAreExclusive'
  BY <1>13 DEF PublishQueued, TypeOK, JobsAreExclusive, Advance, IdleHandler, Busy
<1>14. ASSUME NEW h \in Handlers, HandlerCrash(h) PROVE JobsAreExclusive'
  BY <1>14 DEF HandlerCrash, TypeOK, JobsAreExclusive, IdleHandler, Busy
<1>15. ASSUME NEW w \in Workers, NEW j \in Jobs, Fetch(w, j) PROVE JobsAreExclusive'
  BY <1>15 DEF Fetch, TypeOK, JobsAreExclusive, Busy, IdleWorker
<1>16. ASSUME NEW w \in Workers, NEW j \in Jobs, FetchFails(w, j) PROVE JobsAreExclusive'
  BY <1>16, ThrownType DEF FetchFails, TypeOK, JobsAreExclusive, FreeJob, Busy
<1>17. ASSUME NEW w \in Workers, SkipProvider(w) PROVE JobsAreExclusive'
  BY <1>17 DEF SkipProvider, TypeOK, JobsAreExclusive, Busy, IdleWorker
<1>18. ASSUME NEW w \in Workers, ProviderAccepts(w) PROVE JobsAreExclusive'
  BY <1>18 DEF ProviderAccepts, TypeOK, JobsAreExclusive, Calling, Busy
<1>19. ASSUME NEW w \in Workers, NEW e \in Errors \cup {Internal}, ProviderAcceptsAnswerLost(w, e)
       PROVE JobsAreExclusive'
  BY <1>19, CallFailsExclusive DEF ProviderAcceptsAnswerLost, TypeOK, JobsAreExclusive, Calling,
     Busy
<1>20. ASSUME NEW w \in Workers, NEW e \in Errors \cup {Internal}, ProviderRejects(w, e)
       PROVE JobsAreExclusive'
  BY <1>20, CallFailsExclusive DEF ProviderRejects, TypeOK, JobsAreExclusive, Calling, Busy
<1>21. ASSUME NEW w \in Workers, MarkSent(w) PROVE JobsAreExclusive'
  BY <1>21 DEF MarkSent, SetStatus, TypeOK, JobsAreExclusive, Busy, Worker
<1>22. ASSUME NEW w \in Workers, MarkSentFails(w) PROVE JobsAreExclusive'
  BY <1>22, CaughtExclusive DEF MarkSentFails, TypeOK, JobsAreExclusive, Busy
<1>23. ASSUME NEW w \in Workers, AnnounceStatusFails(w) PROVE JobsAreExclusive'
  BY <1>23, CaughtExclusive, ThrowJobExclusive DEF AnnounceStatusFails, Busy
<1>24. ASSUME NEW w \in Workers, GiveUp(w) PROVE JobsAreExclusive'
  BY <1>24 DEF GiveUp, SetStatus, TypeOK, JobsAreExclusive, Busy, Worker
<1>25. ASSUME NEW w \in Workers, GiveUpFails(w) PROVE JobsAreExclusive'
  BY <1>25, ThrowJobExclusive DEF GiveUpFails, Busy
<1>26. ASSUME NEW w \in Workers, WorkerCrash(w) PROVE JobsAreExclusive'
  BY <1>26, StalledType DEF WorkerCrash, TypeOK, JobsAreExclusive, FreeJob, Busy, IdleWorker
<1>27. ASSUME NEW w \in Workers, StaleScan(w) PROVE JobsAreExclusive'
  BY <1>27 DEF StaleScan, TypeOK, JobsAreExclusive, Busy
<1>28. ASSUME NEW w \in Workers, NEW m \in Msgs, StaleRequeue(w, m) PROVE JobsAreExclusive'
  BY <1>28 DEF StaleRequeue, TypeOK, JobsAreExclusive, FreeJob, AddJob, Oldest, Busy
<1>29. ASSUME NEW w \in Workers, NEW m \in Msgs, StaleRequeueFails(w, m) PROVE JobsAreExclusive'
  BY <1>29 DEF StaleRequeueFails, TypeOK, JobsAreExclusive, Busy
<1>30. ASSUME NEW m \in Msgs, GrowStale(m) PROVE JobsAreExclusive'
  BY <1>30 DEF GrowStale, TypeOK, JobsAreExclusive, Busy
<1>31. ASSUME NEW m \in Msgs, DeleteMessage(m) PROVE JobsAreExclusive'
  BY <1>31 DEF DeleteMessage, TypeOK, JobsAreExclusive, Busy
<1>33. ASSUME NEW h \in Handlers, AnnounceQueueFailure(h) PROVE JobsAreExclusive'
  BY <1>33 DEF AnnounceQueueFailure, TypeOK, JobsAreExclusive, Busy
<1>34. ASSUME NEW h \in Handlers, RecordQueueFailure(h) PROVE JobsAreExclusive'
  BY <1>34 DEF RecordQueueFailure, TypeOK, JobsAreExclusive, Busy
<1>35. ASSUME NEW w \in Workers, AnnounceStatus(w) PROVE JobsAreExclusive'
  BY <1>35 DEF AnnounceStatus, TypeOK, JobsAreExclusive, Busy, Worker
<1>36. ASSUME NEW w \in Workers, RecordStatus(w) PROVE JobsAreExclusive'
  BY <1>36 DEF RecordStatus, TypeOK, JobsAreExclusive, Complete, FreeJob, Busy, IdleWorker
<1>32. CASE UNCHANGED vars
  BY <1>32 DEF vars, TypeOK, JobsAreExclusive, Busy
<1> QED
  BY <1>1, <1>2, <1>3, <1>4, <1>5, <1>6, <1>7, <1>8, <1>9, <1>10, <1>11, <1>12, <1>13, <1>14,
     <1>15, <1>16, <1>17, <1>18, <1>19, <1>20, <1>21, <1>22, <1>23, <1>24, <1>25, <1>26, <1>27,
     <1>28, <1>29, <1>30, <1>31, <1>32, <1>33, <1>34, <1>35, <1>36
     DEF Next, Request, HandlerStep, WorkerStep, ProviderStep, MonitorStep

\* Requests, timers and operators leave the workers alone.
LEMMA WorkersFrame ==
  ASSUME \/ \E h \in Handlers : Request(h) \/ HandlerStep(h) \/ HandlerCrash(h)
         \/ \E w \in Workers : MonitorStep(w)
         \/ \E m \in Msgs : GrowStale(m) \/ DeleteMessage(m)
  PROVE  wk' = wk /\ wa' = wa
<1>1. ASSUME NEW h \in Handlers, Request(h) \/ HandlerStep(h) \/ HandlerCrash(h)
      PROVE  wk' = wk /\ wa' = wa
  BY <1>1 DEF Request, HandlerStep, HandlerCrash, SendMessage, ForwardRequest, ForwardNext, ReprocessCheck,
     ReprocessReset, ReprocessFailedSelect, ReprocessFailedNext, RowMissing, Enqueue, EnqueueResent,
     EnqueueFails, MarkQueueFailure, AnnounceQueueFailure, RecordQueueFailure, PublishQueued
<1>2. ASSUME NEW w \in Workers, MonitorStep(w) PROVE wk' = wk /\ wa' = wa
  BY <1>2 DEF MonitorStep, StaleScan, StaleRequeue, StaleRequeueFails
<1>3. ASSUME NEW m \in Msgs, GrowStale(m) \/ DeleteMessage(m) PROVE wk' = wk /\ wa' = wa
  BY <1>3 DEF GrowStale, DeleteMessage
<1> QED
  BY <1>1, <1>2, <1>3

LEMMA OutcomeStep == IInv /\ [Next]_vars => OutcomeIsWritten'
<1> SUFFICES ASSUME IInv, [Next]_vars PROVE OutcomeIsWritten'
  OBVIOUS
<1> USE DEF IInv
<1>1. CASE wk' = wk
  BY <1>1 DEF OutcomeIsWritten
<1>2. ASSUME NEW w \in Workers, NEW s \in {"SENT", "FAILED"}, SetStatus(w, s)
      PROVE  OutcomeIsWritten'
  BY <1>2 DEF SetStatus, OutcomeIsWritten, TypeOK, Worker
<1>3. ASSUME NEW w \in Workers, NEW e, Busy(w), Caught(w, e) PROVE OutcomeIsWritten'
  BY <1>3 DEF Caught, IdleWorker, OutcomeIsWritten, TypeOK, Worker
<1>4. ASSUME NEW w \in Workers, NEW e, Busy(w), CallFails(w, e) PROVE OutcomeIsWritten'
  <2>1. CASE wk[w].pc = "send" /\ wk' = [wk EXCEPT ![w].pc = "fallback"]
    BY <2>1 DEF OutcomeIsWritten, TypeOK, Worker
  <2> QED
    BY <1>3, <1>4, <2>1 DEF CallFails
<1>5. ASSUME NEW w \in Workers, wk' = [wk EXCEPT ![w] = IdleWorker] PROVE OutcomeIsWritten'
  BY <1>5 DEF IdleWorker, OutcomeIsWritten, TypeOK
<1>6. ASSUME NEW w \in Workers, NEW j \in Jobs, Fetch(w, j) \/ FetchFails(w, j)
      PROVE  OutcomeIsWritten'
  BY <1>6 DEF Fetch, FetchFails, IdleWorker, OutcomeIsWritten, TypeOK
<1>7. ASSUME NEW w \in Workers, SkipProvider(w) \/ ProviderAccepts(w) \/ AnnounceStatus(w)
      PROVE  OutcomeIsWritten'
  BY <1>7 DEF SkipProvider, ProviderAccepts, Calling, AnnounceStatus, OutcomeIsWritten, TypeOK, Worker
<1>8. ASSUME NEW w \in Workers, NEW e, ProviderAcceptsAnswerLost(w, e) \/ ProviderRejects(w, e)
      PROVE  OutcomeIsWritten'
  BY <1>4, <1>8 DEF ProviderAcceptsAnswerLost, ProviderRejects, Calling, Busy
<1>9. ASSUME NEW w \in Workers, MarkSent(w) \/ MarkSentFails(w) \/ GiveUp(w) \/ GiveUpFails(w)
      PROVE  OutcomeIsWritten'
  BY <1>2, <1>3, <1>5, <1>9 DEF MarkSent, MarkSentFails, GiveUp, GiveUpFails, ThrowJob, Busy
<1>10. ASSUME NEW w \in Workers, AnnounceStatusFails(w) \/ RecordStatus(w) \/ WorkerCrash(w)
       PROVE  OutcomeIsWritten'
  BY <1>3, <1>5, <1>10 DEF AnnounceStatusFails, RecordStatus, WorkerCrash, Complete, ThrowJob, Busy
<1> QED
  BY <1>1, <1>6, <1>7, <1>8, <1>9, <1>10, WorkersFrame DEF Next, WorkerStep, ProviderStep, vars

LEMMA CaughtCarries ==
  ASSUME IInv, NEW w \in Workers, Busy(w), NEW e, Caught(w, e)
  PROVE  \A i \in Jobs : job[i].st # "free" => job'[i].st # "free" /\ job'[i].m = job[i].m
<1> DEFINE j == wk[w].job
<1>1. j \in Jobs /\ job[j].made \in Nat /\ MaxAttempts \in Nat
  BY BusyTarget, Bounds DEF IInv, TypeOK, Job
<1>2. CASE WillRetry(w, e)
  <2>1. job[j].made + 1 < MaxAttempts
    BY <1>1, <1>2, RetryLimit DEF WillRetry
  <2>2. Thrown(j).st = "waiting" /\ (Thrown(j).m = job[j].m \/ Thrown(j) = FreeJob)
    BY <1>1, <2>1, ThrownType DEF IInv
  <2>3. Thrown(j) # FreeJob
    BY <2>2 DEF FreeJob
  <2> QED
    BY <1>2, <2>2, <2>3 DEF Caught, IInv, TypeOK
<1>3. CASE ~WillRetry(w, e)
  BY <1>3 DEF Caught
<1> QED
  BY <1>2, <1>3

LEMMA CallFailsCarries ==
  ASSUME IInv, NEW w \in Workers, Busy(w), NEW e, CallFails(w, e)
  PROVE  \A i \in Jobs : job[i].st # "free" => job'[i].st # "free" /\ job'[i].m = job[i].m
BY CaughtCarries DEF CallFails

\* Settling a message leaves the others alone.
LEMMA SettleShape ==
  ASSUME IInv, NEW w \in Workers, Busy(w), NEW s \in {"SENT", "FAILED"}, SetStatus(w, s)
  PROVE  /\ Target(w) \in Msgs /\ msg'[Target(w)].st = s
         /\ \A m \in Msgs : m # Target(w) => msg'[m] = msg[m]
<1>1. Target(w) \in Msgs
  BY BusyTarget
<1> QED
  BY <1>1 DEF SetStatus, IInv, TypeOK, Message

LEMMA ThrowJobShape ==
  ASSUME IInv, NEW w \in Workers, Busy(w), ThrowJob(w)
  PROVE  /\ \A v \in Workers : v # w => wk'[v] = wk[v]
         /\ wk'[w] = IdleWorker
         /\ \A i \in Jobs : i # wk[w].job => job'[i] = job[i]
         /\ \/ job'[wk[w].job].st = "waiting" /\ job'[wk[w].job].m = Target(w)
            \/ job'[wk[w].job].st = "free" /\ "lost" \in hist'[Target(w)]
         /\ \A m \in Msgs : hist[m] \subseteq hist'[m] /\ hist'[m] \subseteq hist[m] \cup {"lost"}
<1>1. wk[w].job \in Jobs /\ Target(w) \in Msgs
  BY BusyTarget
<1>2. /\ \/ Thrown(wk[w].job).st = "waiting" /\ Thrown(wk[w].job).m = Target(w)
         \/ Thrown(wk[w].job) = FreeJob
      /\ FreeJob.st = "free"
  BY <1>1, ThrownType DEF IInv, Target, FreeJob
<1> QED
  BY <1>1, <1>2 DEF ThrowJob, Note, Target, IInv, TypeOK

\* A request that will queue m, or write the audit entry of its failure.
Asks(h, m) ==
  /\ hd[h].m = m
  /\ \/ hd[h].pc \in {"enqueue", "queue_failed"}
     \/ hd[h].pc \in {"announce", "record"} /\ msg[m].st = "FAILED"

\* A job of m waits or runs.
Queues(j, m) == job[j].st # "free" /\ job[j].m = m

\* A job that will settle m: no worker has come so far with it as to write
\* another status than the one the row has now.
Serves(j, m) ==
  Queues(j, m) /\ \A w \in Workers : wk[w].job = j /\ wk[w].out # "none" => wk[w].out = msg[m].st

\* A row whose status is not in the audit trail: somebody will change or record
\* it, or the last who would was lost.  PENDING is never in the trail.
Tended(m) ==
  Exists(m) /\ msg[m].st \notin audit[m] =>
    \/ \E h \in Handlers : Asks(h, m)
    \/ \E j \in Jobs : Serves(j, m)
    \/ "lost" \in hist[m]
    \/ msg[m].st # "PENDING" /\ "unrecorded" \in hist[m]

\* Nothing that matters to x changes, or its carriers only grow.
LEMMA TendedFrame ==
  ASSUME NEW x \in Msgs, Tended(x), msg'[x].st = msg[x].st,
         audit[x] \subseteq audit'[x], hist[x] \subseteq hist'[x],
         \A h \in Handlers : Asks(h, x) => Asks(h, x)',
         \A j \in Jobs : Serves(j, x) => Serves(j, x)'
  PROVE  Tended(x)'
BY DEF Tended, Exists

\* What a request does to the messages that are not its own.
LEMMA HandlerSpares ==
  ASSUME NEW h \in Handlers, NEW x \in Msgs, Tended(x), msg'[x] = msg[x], job' = job, wk' = wk,
         audit'[x] = audit[x], hist[x] \subseteq hist'[x], hd[h].m # x \/ ~ Asks(h, x),
         \A g \in Handlers : g # h => hd'[g] = hd[g]
  PROVE  Tended(x)'
<1>1. \A g \in Handlers : Asks(g, x) => Asks(g, x)'
  BY DEF Asks
<1>2. \A j \in Jobs : Serves(j, x) => Serves(j, x)'
  BY DEF Serves, Queues
<1> QED
  BY <1>1, <1>2, TendedFrame

\* A new job settles its message, and leaves the other jobs alone.
LEMMA AddJobTends ==
  ASSUME IInv, NEW m \in Msgs, AddJob(m), wk' = wk, NEW x \in Msgs, msg'[x] = msg[x]
  PROVE  /\ \A j \in Jobs : Serves(j, x) => Serves(j, x)'
         /\ x = m => \E j \in Jobs : Serves(j, x)'
<1>1. PICK j \in Jobs : /\ job[j].st = "free"
                        /\ job' = [job EXCEPT ![j] = [FreeJob EXCEPT !.st = "waiting", !.m = m]]
  BY DEF AddJob
<1>2. \A w \in Workers : wk[w].job = j => wk[w].out = "none"
  BY <1>1 DEF IInv, JobsAreExclusive, OutcomeIsWritten, Busy
<1>3. job'[j].st = "waiting" /\ job'[j].m = m /\ \A i \in Jobs : i # j => job'[i] = job[i]
  BY <1>1 DEF IInv, TypeOK, FreeJob
<1> QED
  BY <1>1, <1>2, <1>3 DEF Serves, Queues

\* What a worker does to the messages that are not its own.
LEMMA WorkerSpares ==
  ASSUME IInv, NEW w \in Workers, Busy(w), NEW x \in Msgs, x # Target(w), Tended(x),
         hd' = hd, msg'[x] = msg[x], audit'[x] = audit[x], hist[x] \subseteq hist'[x],
         \A v \in Workers : v # w => wk'[v] = wk[v],
         \A i \in Jobs : i # wk[w].job => job'[i] = job[i],
         wk'[w].job = wk[w].job \/ wk'[w].out = "none"
  PROVE  Tended(x)'
<1>1. \A h \in Handlers : Asks(h, x) => Asks(h, x)'
  BY DEF Asks
<1>2. \A j \in Jobs : Serves(j, x) => j # wk[w].job
  BY DEF Serves, Queues, Target
<1>3. \A j \in Jobs : Serves(j, x) => Serves(j, x)'
  BY <1>2 DEF Serves, Queues
<1> QED
  BY <1>1, <1>3, TendedFrame

\* A worker that keeps its job, or gives it back, is left to settle its message.
LEMMA OwnServes ==
  ASSUME IInv, NEW w \in Workers, Busy(w), NEW j, j = wk[w].job, NEW m, m = Target(w),
         \A v \in Workers : v # w => wk'[v] = wk[v],
         job'[j].st # "free", job'[j].m = m,
         wk'[w].out \in {"none", msg'[m].st}
  PROVE  j \in Jobs /\ Serves(j, m)'
<1>1. j \in Jobs /\ \A v \in Workers : v # w /\ wk[v].job = j => wk[v].out = "none"
  BY DEF IInv, JobsAreExclusive, OutcomeIsWritten, Busy
<1>2. \A v \in Workers : wk'[v].job = j /\ wk'[v].out # "none" => wk'[v].out = msg'[m].st
  BY <1>1
<1> QED
  BY <1>1, <1>2 DEF Serves, Queues

\* A worker that ends an attempt leaves the job for another, or the message is lost.
LEMMA ThrownTends ==
  ASSUME IInv, NEW w \in Workers, Busy(w), NEW x \in Msgs, Tended(x),
         hd' = hd, msg' = msg, audit[x] \subseteq audit'[x], audit'[x] = audit[x] \/ x = Target(w),
         \A m \in Msgs : hist[m] \subseteq hist'[m],
         \A v \in Workers : v # w => wk'[v] = wk[v],
         \A i \in Jobs : i # wk[w].job => job'[i] = job[i],
         wk'[w].out = "none",
         \/ job'[wk[w].job].st # "free" /\ job'[wk[w].job].m = Target(w)
         \/ "lost" \in hist'[Target(w)]
  PROVE  Tended(x)'
<1>1. CASE x # Target(w)
  BY <1>1, WorkerSpares
<1>2. CASE x = Target(w) /\ job'[wk[w].job].st # "free" /\ job'[wk[w].job].m = x
  <2>1. PICK j : j = wk[w].job
    OBVIOUS
  <2>2. j \in Jobs /\ Serves(j, x)'
    BY <1>2, <2>1, OwnServes
  <2> QED
    BY <2>2 DEF Tended
<1>3. CASE x = Target(w) /\ "lost" \in hist'[x]
  BY <1>3 DEF Tended
<1> QED
  BY <1>1, <1>2, <1>3

LEMMA CaughtTends ==
  ASSUME IInv, NEW w \in Workers, Busy(w), NEW e, Caught(w, e), NEW x \in Msgs, Tended(x),
         hd' = hd, msg' = msg, audit' = audit, \A m \in Msgs : hist[m] \subseteq hist'[m]
  PROVE  Tended(x)'
<1>1. /\ \A v \in Workers : v # w => wk'[v] = wk[v]
      /\ wk'[w].out = "none"
      /\ \A i \in Jobs : i # wk[w].job => job'[i] = job[i]
  BY DEF Caught, IdleWorker, IInv, TypeOK, Worker
<1>2. job'[wk[w].job].st # "free" /\ job'[wk[w].job].m = Target(w)
  BY CaughtCarries, BusyTarget DEF Target
<1> QED
  BY <1>1, <1>2, ThrownTends

LEMMA CallFailsTends ==
  ASSUME IInv, NEW w \in Workers, Calling(w), NEW e, CallFails(w, e), NEW x \in Msgs, Tended(x),
         hd' = hd, msg' = msg, audit' = audit, \A m \in Msgs : hist[m] \subseteq hist'[m]
  PROVE  Tended(x)'
<1>1. CASE wk' = [wk EXCEPT ![w].pc = "fallback"] /\ job' = job
  <2>1. \A j \in Jobs : Serves(j, x) => Serves(j, x)'
    BY <1>1 DEF Serves, Queues, IInv, TypeOK, Worker
  <2>2. \A h \in Handlers : Asks(h, x) => Asks(h, x)'
    BY DEF Asks
  <2> QED
    BY <2>1, <2>2, TendedFrame
<1>2. CASE Caught(w, e)
  BY <1>2, CaughtTends DEF Calling, Busy
<1> QED
  BY <1>1, <1>2 DEF CallFails

\* A message is settled and recorded, or somebody is left to do it.
LEMMA TendedStep ==
  ASSUME IInv, [Next]_vars, NEW x \in Msgs, Tended(x)
  PROVE  Tended(x)'
<1> USE DEF IInv
<1>1. ASSUME NEW h \in Handlers, NEW m \in Msgs, SendMessage(h, m) PROVE Tended(x)'
  <2>1. /\ hd[h].pc = "idle" /\ hd'[h].pc = "enqueue" /\ hd'[h].m = m
        /\ \A g \in Handlers : g # h => hd'[g] = hd[g]
        /\ x # m => msg'[x] = msg[x]
        /\ job' = job /\ wk' = wk /\ audit' = audit /\ hist' = hist
    BY <1>1 DEF SendMessage, TypeOK, IdleHandler, InsertPending
  <2> QED
    BY <2>1, HandlerSpares DEF Asks, Tended
<1>2. ASSUME NEW h \in Handlers, NEW S \in SUBSET Msgs, ForwardRequest(h, S) PROVE Tended(x)'
  BY <1>2, HandlerSpares DEF ForwardRequest, Asks, TypeOK
<1>3. ASSUME NEW h \in Handlers, NEW m \in Msgs, ForwardNext(h, m) PROVE Tended(x)'
  <2>1. /\ hd[h].pc = "next" /\ hd'[h].pc = "enqueue" /\ hd'[h].m = m
        /\ \A g \in Handlers : g # h => hd'[g] = hd[g]
        /\ x # m => msg'[x] = msg[x]
        /\ job' = job /\ wk' = wk /\ audit' = audit /\ hist' = hist
    BY <1>3 DEF ForwardNext, TypeOK, Handler, InsertPending
  <2> QED
    BY <2>1, HandlerSpares DEF Asks, Tended
<1>4. ASSUME NEW h \in Handlers, NEW m \in Msgs, NEW force \in BOOLEAN, ReprocessCheck(h, m, force)
       PROVE Tended(x)'
  BY <1>4, HandlerSpares DEF ReprocessCheck, Asks, TypeOK
<1>5. ASSUME NEW h \in Handlers, ReprocessReset(h) PROVE Tended(x)'
  <2>1. /\ hd[h].pc = "reset" /\ hd'[h].pc = "enqueue" /\ hd'[h].m = hd[h].m
        /\ \A g \in Handlers : g # h => hd'[g] = hd[g]
        /\ x # hd[h].m => msg'[x] = msg[x]
        /\ job' = job /\ wk' = wk /\ audit' = audit /\ hist[x] \subseteq hist'[x]
    BY <1>5 DEF ReprocessReset, ResetToPending, Note, TypeOK, Handler
  <2> QED
    BY <2>1, HandlerSpares DEF Asks, Tended
<1>6. ASSUME NEW h \in Handlers, ReprocessFailedSelect(h) PROVE Tended(x)'
  BY <1>6, HandlerSpares DEF ReprocessFailedSelect, Asks, TypeOK
<1>7. ASSUME NEW h \in Handlers, NEW m \in Msgs, ReprocessFailedNext(h, m) PROVE Tended(x)'
  <2>1. /\ hd[h].pc = "next" /\ hd'[h].pc = "enqueue" /\ hd'[h].m = m
        /\ \A g \in Handlers : g # h => hd'[g] = hd[g]
        /\ x # m => msg'[x] = msg[x]
        /\ job' = job /\ wk' = wk /\ audit' = audit /\ hist[x] \subseteq hist'[x]
    BY <1>7 DEF ReprocessFailedNext, ResetToPending, Note, TypeOK, Handler
  <2> QED
    BY <2>1, HandlerSpares DEF Asks, Tended
<1>8. ASSUME NEW h \in Handlers, RowMissing(h) PROVE Tended(x)'
  <2>1. CASE Exists(x)
    BY <1>8, <2>1, HandlerSpares DEF RowMissing, Asks, TypeOK
  <2>2. CASE ~ Exists(x)
    BY <1>8, <2>2 DEF RowMissing, Tended, Exists
  <2> QED
    BY <2>1, <2>2
<1>9. ASSUME NEW h \in Handlers, Enqueue(h) PROVE Tended(x)'
  <2>1. hd[h].m \in Msgs /\ \A g \in Handlers : g # h => hd'[g] = hd[g]
    BY <1>9 DEF Enqueue, CarriersHaveMessages, TypeOK
  <2>2. \A j \in Jobs : Serves(j, x) => Serves(j, x)'
    BY <1>9, <2>1, AddJobTends DEF Enqueue
  <2>3. x = hd[h].m => \E j \in Jobs : Serves(j, x)'
    BY <1>9, <2>1, AddJobTends DEF Enqueue
  <2>4. x # hd[h].m => \A g \in Handlers : Asks(g, x) => Asks(g, x)'
    BY <1>9, <2>1 DEF Enqueue, Asks
  <2> QED
    BY <1>9, <2>2, <2>3, <2>4, TendedFrame DEF Enqueue, Tended
<1>10. ASSUME NEW h \in Handlers, EnqueueResent(h) PROVE Tended(x)'
  <2>1. hd[h].m \in Msgs /\ hd' = hd /\ hist[x] \subseteq hist'[x]
    BY <1>10 DEF EnqueueResent, CarriersHaveMessages, TypeOK, Note
  <2>2. \A j \in Jobs : Serves(j, x) => Serves(j, x)'
    BY <1>10, <2>1, AddJobTends DEF EnqueueResent
  <2>3. \A g \in Handlers : Asks(g, x) => Asks(g, x)'
    BY <1>10, <2>1 DEF EnqueueResent, Asks
  <2> QED
    BY <1>10, <2>1, <2>2, <2>3, TendedFrame DEF EnqueueResent
<1>11. ASSUME NEW h \in Handlers, EnqueueFails(h) PROVE Tended(x)'
  <2>1. \A g \in Handlers : Asks(g, x) => Asks(g, x)'
    BY <1>11 DEF EnqueueFails, Asks, TypeOK, Handler
  <2>2. \A j \in Jobs : Serves(j, x) => Serves(j, x)'
    BY <1>11 DEF EnqueueFails, Serves, Queues
  <2> QED
    BY <1>11, <2>1, <2>2, TendedFrame DEF EnqueueFails
<1>12. ASSUME NEW h \in Handlers, MarkQueueFailure(h) PROVE Tended(x)'
  <2>1. /\ hd'[h].pc \in {"announce", "record"} /\ hd'[h].m = hd[h].m
        /\ \A g \in Handlers : g # h => hd'[g] = hd[g]
        /\ x # hd[h].m => msg'[x] = msg[x]
        /\ x = hd[h].m => msg'[x].st = "FAILED"
        /\ job' = job /\ wk' = wk /\ audit' = audit /\ hist' = hist
    BY <1>12 DEF MarkQueueFailure, TypeOK, Handler, Message
  <2> QED
    BY <2>1, HandlerSpares DEF Asks, Tended
<1>13. ASSUME NEW h \in Handlers, PublishQueued(h) PROVE Tended(x)'
  BY <1>13, HandlerSpares DEF PublishQueued, Advance, Asks, TypeOK
<1>14. ASSUME NEW h \in Handlers, HandlerCrash(h) PROVE Tended(x)'
  <2>1. /\ \A g \in Handlers : g # h => hd'[g] = hd[g]
        /\ msg' = msg /\ job' = job /\ wk' = wk /\ audit' = audit /\ hist[x] \subseteq hist'[x]
    BY <1>14 DEF HandlerCrash, Note, TypeOK
  <2>2. Asks(h, x) => \/ "lost" \in hist'[x]
                      \/ msg[x].st = "FAILED" /\ "unrecorded" \in hist'[x]
    BY <1>14 DEF HandlerCrash, Asks, Note, TypeOK
  <2>3. CASE ~ Asks(h, x)
    BY <2>1, <2>3, HandlerSpares
  <2>4. CASE Asks(h, x)
    BY <2>1, <2>2, <2>4 DEF Tended
  <2> QED
    BY <2>3, <2>4
<1>15. ASSUME NEW w \in Workers, NEW j \in Jobs, Fetch(w, j) PROVE Tended(x)'
  <2>1. \A i \in Jobs : Serves(i, x) => Serves(i, x)'
    BY <1>15 DEF Fetch, Serves, Queues, IdleWorker, TypeOK, Job
  <2>2. \A h \in Handlers : Asks(h, x) => Asks(h, x)'
    BY <1>15 DEF Fetch, Asks
  <2> QED
    BY <1>15, <2>1, <2>2, TendedFrame DEF Fetch
<1>16. ASSUME NEW w \in Workers, NEW j \in Jobs, FetchFails(w, j) PROVE Tended(x)'
  <2>1. \/ Thrown(j).st = "waiting" /\ Thrown(j).m = job[j].m
        \/ Thrown(j) = FreeJob
    BY ThrownType
  <2>2. hist[x] \subseteq hist'[x]
    BY <1>16 DEF FetchFails, Note, TypeOK
  <2>3. \A h \in Handlers : Asks(h, x) => Asks(h, x)'
    BY <1>16 DEF FetchFails, Asks
  <2>4. \A i \in Jobs : i # j /\ Serves(i, x) => Serves(i, x)'
    BY <1>16 DEF FetchFails, Serves, Queues, TypeOK
  <2>5. Serves(j, x) => Serves(j, x)' \/ "lost" \in hist'[x]
    BY <1>16, <2>1 DEF FetchFails, Serves, Queues, Note, TypeOK
  <2>6. msg' = msg /\ audit' = audit
    BY <1>16 DEF FetchFails
  <2> QED
    BY <2>2, <2>3, <2>4, <2>5, <2>6 DEF Tended, Exists
<1>17. ASSUME NEW w \in Workers, SkipProvider(w) PROVE Tended(x)'
  <2>1. \A j \in Jobs : Serves(j, x) => Serves(j, x)'
    BY <1>17 DEF SkipProvider, Serves, Queues, TypeOK, Worker
  <2>2. \A h \in Handlers : Asks(h, x) => Asks(h, x)'
    BY <1>17 DEF SkipProvider, Asks
  <2> QED
    BY <1>17, <2>1, <2>2, TendedFrame DEF SkipProvider
<1>18. ASSUME NEW w \in Workers, ProviderAccepts(w) PROVE Tended(x)'
  <2>1. \A j \in Jobs : Serves(j, x) => Serves(j, x)'
    BY <1>18 DEF ProviderAccepts, Serves, Queues, TypeOK, Worker
  <2>2. \A h \in Handlers : Asks(h, x) => Asks(h, x)'
    BY <1>18 DEF ProviderAccepts, Asks
  <2> QED
    BY <1>18, <2>1, <2>2, TendedFrame DEF ProviderAccepts
<1>19. ASSUME NEW w \in Workers, NEW e \in Errors, ProviderAcceptsAnswerLost(w, e)
       PROVE Tended(x)'
  <2>1. \A m \in Msgs : hist[m] \subseteq hist'[m]
    BY <1>19 DEF ProviderAcceptsAnswerLost, Note, TypeOK
  <2> QED
    BY <1>19, <2>1, CallFailsTends DEF ProviderAcceptsAnswerLost
<1>20. ASSUME NEW w \in Workers, NEW e \in Errors \cup {Internal}, ProviderRejects(w, e)
       PROVE Tended(x)'
  BY <1>20, CallFailsTends DEF ProviderRejects
<1>21. ASSUME NEW w \in Workers, NEW s \in {"SENT", "FAILED"}, Busy(w), SetStatus(w, s),
              UNCHANGED <<job, hd, audit, hist>>
       PROVE  Tended(x)'
  <2>1. /\ \A v \in Workers : v # w => wk'[v] = wk[v]
        /\ wk'[w].job = wk[w].job /\ wk'[w].out = s
    BY <1>21 DEF SetStatus, TypeOK, Worker
  <2>2. /\ Target(w) \in Msgs /\ msg'[Target(w)].st = s
        /\ \A m \in Msgs : m # Target(w) => msg'[m] = msg[m]
    BY <1>21, SettleShape
  <2>3. CASE x # Target(w)
    BY <1>21, <2>1, <2>2, <2>3, WorkerSpares
  <2>4. CASE x = Target(w)
    <3>1. job'[wk[w].job].st # "free" /\ job'[wk[w].job].m = Target(w)
      BY <1>21, BusyTarget DEF Target
    <3>2. PICK j : j = wk[w].job
      OBVIOUS
    <3>3. j \in Jobs /\ Serves(j, x)'
      BY <1>21, <2>1, <2>2, <2>4, <3>1, <3>2, OwnServes
    <3> QED
      BY <2>4, <3>3 DEF Tended
  <2> QED
    BY <2>3, <2>4
<1>22. ASSUME NEW w \in Workers, MarkSentFails(w) PROVE Tended(x)'
  <2>1. \A m \in Msgs : hist[m] \subseteq hist'[m]
    BY <1>22 DEF MarkSentFails, Note, TypeOK
  <2> QED
    BY <1>22, <2>1, CaughtTends DEF MarkSentFails, Busy
<1>23. ASSUME NEW w \in Workers, Busy(w), ThrowJob(w), UNCHANGED <<msg, hd, audit>> PROVE Tended(x)'
  <2>1. /\ \A v \in Workers : v # w => wk'[v] = wk[v]
        /\ wk'[w].out = "none"
        /\ \A i \in Jobs : i # wk[w].job => job'[i] = job[i]
        /\ \/ job'[wk[w].job].st # "free" /\ job'[wk[w].job].m = Target(w)
           \/ "lost" \in hist'[Target(w)]
        /\ \A m \in Msgs : hist[m] \subseteq hist'[m]
    BY <1>23, ThrowJobShape DEF IdleWorker
  <2> QED
    BY <1>23, <2>1, ThrownTends
<1>24. ASSUME NEW w \in Workers, AnnounceStatusFails(w) PROVE Tended(x)'
  <2>1. CASE Caught(w, Internal) /\ Note(Target(w), "unknown")
    <3>1. \A m \in Msgs : hist[m] \subseteq hist'[m]
      BY <2>1 DEF Note, TypeOK
    <3> QED
      BY <1>24, <2>1, <3>1, CaughtTends DEF AnnounceStatusFails, Busy
  <2>2. CASE ThrowJob(w)
    BY <1>23, <1>24, <2>2 DEF AnnounceStatusFails, Busy
  <2> QED
    BY <1>24, <2>1, <2>2 DEF AnnounceStatusFails
<1>26. ASSUME NEW w \in Workers, WorkerCrash(w) PROVE Tended(x)'
  <2>1. wk[w].job \in Jobs /\ Target(w) \in Msgs /\ job[wk[w].job].m = Target(w)
    BY <1>26, BusyTarget DEF WorkerCrash, Busy, Target
  <2>2. \/ Stalled(wk[w].job).st = "waiting" /\ Stalled(wk[w].job).m = Target(w)
        \/ Stalled(wk[w].job) = FreeJob
    BY <2>1, StalledType
  <2>3. /\ \A v \in Workers : v # w => wk'[v] = wk[v]
        /\ wk'[w].out = "none"
        /\ \A i \in Jobs : i # wk[w].job => job'[i] = job[i]
        /\ job'[wk[w].job] = Stalled(wk[w].job)
    BY <1>26, <2>1 DEF WorkerCrash, IdleWorker, TypeOK
  <2>4. \/ job'[wk[w].job].st # "free" /\ job'[wk[w].job].m = Target(w)
        \/ "lost" \in hist'[Target(w)]
    BY <1>26, <2>1, <2>2, <2>3 DEF WorkerCrash, TypeOK
  <2>5. \A m \in Msgs : hist[m] \subseteq hist'[m]
    BY <1>26 DEF WorkerCrash, TypeOK
  <2>6. audit[x] \subseteq audit'[x] /\ (audit'[x] = audit[x] \/ x = Target(w))
    BY <1>26 DEF WorkerCrash, TypeOK
  <2> QED
    BY <1>26, <2>3, <2>4, <2>5, <2>6, ThrownTends DEF WorkerCrash, Busy
<1>27. ASSUME NEW w \in Workers, StaleScan(w) PROVE Tended(x)'
  BY <1>27, TendedFrame DEF StaleScan, Asks, Serves, Queues
<1>28. ASSUME NEW w \in Workers, NEW m \in Msgs, StaleRequeue(w, m) PROVE Tended(x)'
  <2>1. hist[x] \subseteq hist'[x]
    BY <1>28 DEF StaleRequeue, Note, TypeOK
  <2>2. \A j \in Jobs : Serves(j, x) => Serves(j, x)'
    BY <1>28, AddJobTends DEF StaleRequeue
  <2>3. \A g \in Handlers : Asks(g, x) => Asks(g, x)'
    BY <1>28 DEF StaleRequeue, Asks
  <2> QED
    BY <1>28, <2>1, <2>2, <2>3, TendedFrame DEF StaleRequeue
<1>29. ASSUME NEW w \in Workers, NEW m \in Msgs, StaleRequeueFails(w, m) PROVE Tended(x)'
  BY <1>29, TendedFrame DEF StaleRequeueFails, Asks, Serves, Queues
<1>30. ASSUME NEW m \in Msgs, GrowStale(m) PROVE Tended(x)'
  <2>1. msg'[x].st = msg[x].st
    BY <1>30 DEF GrowStale, TypeOK, Message
  <2>2. \A j \in Jobs : Serves(j, x) => Serves(j, x)'
    BY <1>30, <2>1 DEF GrowStale, Serves, Queues
  <2>3. \A g \in Handlers : Asks(g, x) => Asks(g, x)'
    BY <1>30, <2>1 DEF GrowStale, Asks
  <2> QED
    BY <1>30, <2>1, <2>2, <2>3, TendedFrame DEF GrowStale
<1>31. ASSUME NEW m \in Msgs, DeleteMessage(m) PROVE Tended(x)'
  <2>1. CASE x = m
    BY <1>31, <2>1 DEF DeleteMessage, TypeOK, Message, Tended, Exists, Statuses
  <2>2. CASE x # m
    <3>1. msg'[x] = msg[x] /\ audit'[x] = audit[x]
      BY <1>31, <2>2 DEF DeleteMessage, TypeOK
    <3>2. \A j \in Jobs : Serves(j, x) => Serves(j, x)'
      BY <1>31, <3>1 DEF DeleteMessage, Serves, Queues
    <3>3. \A g \in Handlers : Asks(g, x) => Asks(g, x)'
      BY <1>31, <3>1 DEF DeleteMessage, Asks
    <3> QED
      BY <1>31, <3>1, <3>2, <3>3, TendedFrame DEF DeleteMessage
  <2> QED
    BY <2>1, <2>2
<1>32. CASE UNCHANGED vars
  BY <1>32, TendedFrame DEF vars, Asks, Serves, Queues
<1>33. ASSUME NEW h \in Handlers, AnnounceQueueFailure(h) PROVE Tended(x)'
  <2>1. \A g \in Handlers : Asks(g, x) => Asks(g, x)'
    BY <1>33 DEF AnnounceQueueFailure, Asks, TypeOK, Handler
  <2>2. \A j \in Jobs : Serves(j, x) => Serves(j, x)'
    BY <1>33 DEF AnnounceQueueFailure, Serves, Queues
  <2> QED
    BY <1>33, <2>1, <2>2, TendedFrame DEF AnnounceQueueFailure
<1>34. ASSUME NEW h \in Handlers, RecordQueueFailure(h) PROVE Tended(x)'
  <2>1. hd[h].m \in Msgs /\ RecordAudit(hd[h].m, "FAILED") /\ msg' = msg /\ job' = job /\ wk' = wk
    BY <1>34 DEF RecordQueueFailure, CarriersHaveMessages
  <2>2. \A g \in Handlers : g # h => hd'[g] = hd[g]
    BY <1>34 DEF RecordQueueFailure, Advance, TypeOK
  <2>3. audit[x] \subseteq audit'[x] /\ hist[x] \subseteq hist'[x]
    BY <2>1 DEF RecordAudit, Note, TypeOK
  <2>4. CASE Asks(h, x)
    <3>1. x = hd[h].m /\ msg[x].st = "FAILED"
      BY <1>34, <2>4 DEF RecordQueueFailure, Asks
    <3>2. "FAILED" \in audit'[x] \/ "unrecorded" \in hist'[x]
      BY <2>1, <3>1 DEF RecordAudit, Exists, Statuses, Note, TypeOK
    <3> QED
      BY <2>1, <3>1, <3>2 DEF Tended
  <2>5. CASE ~ Asks(h, x)
    <3>1. \A g \in Handlers : Asks(g, x) => Asks(g, x)'
      BY <2>1, <2>2, <2>5 DEF Asks
    <3>2. \A j \in Jobs : Serves(j, x) => Serves(j, x)'
      BY <2>1 DEF Serves, Queues
    <3> QED
      BY <2>1, <2>3, <3>1, <3>2, TendedFrame
  <2> QED
    BY <2>4, <2>5
<1>35. ASSUME NEW w \in Workers, AnnounceStatus(w) PROVE Tended(x)'
  <2>1. \A j \in Jobs : Serves(j, x) => Serves(j, x)'
    BY <1>35 DEF AnnounceStatus, Serves, Queues, TypeOK, Worker
  <2>2. \A h \in Handlers : Asks(h, x) => Asks(h, x)'
    BY <1>35 DEF AnnounceStatus, Asks
  <2> QED
    BY <1>35, <2>1, <2>2, TendedFrame DEF AnnounceStatus
<1>36. ASSUME NEW w \in Workers, RecordStatus(w) PROVE Tended(x)'
  <2>1. /\ wk[w].job \in Jobs /\ Target(w) \in Msgs /\ RecordAudit(Target(w), wk[w].out)
        /\ wk[w].out \in {"SENT", "FAILED"} /\ msg' = msg /\ hd' = hd
    BY <1>36, BusyTarget DEF RecordStatus, Busy, OutcomeIsWritten, TypeOK, Worker
  <2>2. /\ \A v \in Workers : v # w => wk'[v] = wk[v]
        /\ wk'[w].out = "none"
        /\ \A i \in Jobs : i # wk[w].job => job'[i] = job[i]
    BY <1>36 DEF RecordStatus, Complete, IdleWorker, TypeOK
  <2>3. audit[x] \subseteq audit'[x] /\ hist[x] \subseteq hist'[x]
    BY <2>1 DEF RecordAudit, Note, TypeOK
  <2>4. CASE x = Target(w) /\ wk[w].out = msg[x].st
    <3>1. msg[x].st \in audit'[x] \/ (msg[x].st # "PENDING" /\ "unrecorded" \in hist'[x])
      BY <2>1, <2>4 DEF RecordAudit, Exists, Statuses, Note, TypeOK
    <3> QED
      BY <2>1, <3>1 DEF Tended
  <2>5. CASE ~ (x = Target(w) /\ wk[w].out = msg[x].st)
    <3>1. ~ Serves(wk[w].job, x)
      BY <2>1, <2>5 DEF Serves, Queues, Target
    <3>2. \A j \in Jobs : Serves(j, x) => Serves(j, x)'
      BY <2>1, <2>2, <3>1 DEF Serves, Queues
    <3>3. \A h \in Handlers : Asks(h, x) => Asks(h, x)'
      BY <2>1 DEF Asks
    <3> QED
      BY <2>1, <2>3, <3>2, <3>3, TendedFrame
  <2> QED
    BY <2>4, <2>5
<1>37. ASSUME NEW w \in Workers, MarkSent(w) \/ GiveUp(w) \/ GiveUpFails(w) PROVE Tended(x)'
  BY <1>21, <1>23, <1>37 DEF MarkSent, GiveUp, GiveUpFails, Busy
<1> QED
  BY <1>1, <1>2, <1>3, <1>4, <1>5, <1>6, <1>7, <1>8, <1>9, <1>10, <1>11, <1>12, <1>13, <1>14,
     <1>15, <1>16, <1>17, <1>18, <1>19, <1>20, <1>22, <1>24, <1>26, <1>27, <1>28, <1>29, <1>30,
     <1>31, <1>32, <1>33, <1>34, <1>35, <1>36, <1>37
     DEF Next, Request, HandlerStep, WorkerStep, ProviderStep, MonitorStep

\* How a step may change what a busy worker holds: it keeps its job, it has
\* just fetched one, or the provider has just accepted its message.
Keeps(v) ==
  /\ Busy(v) /\ wk'[v].job = wk[v].job /\ job'[wk[v].job].m = job[wk[v].job].m
  /\ wk'[v].ext \in {wk[v].ext, NoExt}
  /\ wk'[v].pc = "mark" /\ ProviderConfigured => wk[v].pc = "mark"
Fetched(v) == wk'[v].pc # "mark" /\ wk'[v].ext = NoExt
Answered(v) ==
  /\ Busy(v) /\ Accept(v) /\ wk'[v].job = wk[v].job /\ job' = job
  /\ wk'[v].ext \in {NoExt, Len(wa) + 1}
Evolution == \A v \in Workers : Busy(v)' => Keeps(v) \/ Fetched(v) \/ Answered(v)

LEMMA CaughtKeeps ==
  ASSUME IInv, NEW w \in Workers, Busy(w), NEW e, Caught(w, e)
  PROVE  \A v \in Workers : Busy(v)' => Keeps(v)
<1> DEFINE j == wk[w].job
<1>1. \A v \in Workers : Busy(v) /\ v # w => wk[v].job # j /\ wk[v].job \in Jobs
  BY DEF IInv, JobsAreExclusive
<1>2. CASE WillRetry(w, e)
  <2>1. wk' = [wk EXCEPT ![w] = IdleWorker] /\ job' = [job EXCEPT ![j] = Thrown(j)]
    BY <1>2 DEF Caught
  <2>2. \A v \in Workers : Busy(v)' => v # w /\ Busy(v) /\ wk'[v] = wk[v]
    BY <2>1 DEF Busy, IdleWorker, IInv, TypeOK
  <2>3. \A i \in Jobs : i # j => job'[i] = job[i]
    BY <2>1 DEF IInv, TypeOK
  <2> QED
    BY <1>1, <2>2, <2>3 DEF Keeps
<1>3. CASE ~WillRetry(w, e)
  <2>1. /\ wk' = [wk EXCEPT ![w].pc = "give_up", ![w].ext = NoExt, ![w].out = "none"]
        /\ job' = job
    BY <1>3 DEF Caught
  <2>2. \A v \in Workers : v # w => wk'[v] = wk[v]
    BY <2>1 DEF IInv, TypeOK
  <2>3. wk'[w].pc = "give_up" /\ wk'[w].ext = NoExt /\ wk'[w].job = wk[w].job
    BY <2>1 DEF IInv, TypeOK, Worker
  <2> QED
    BY <2>1, <2>2, <2>3 DEF Keeps, Busy
<1> QED
  BY <1>2, <1>3

LEMMA CallFailsKeeps ==
  ASSUME IInv, NEW w \in Workers, Busy(w), NEW e, CallFails(w, e)
  PROVE  \A v \in Workers : Busy(v)' => Keeps(v)
<1>1. CASE wk[w].pc = "send" /\ FallsBack(Kind[Target(w)], e)
  <2>1. wk' = [wk EXCEPT ![w].pc = "fallback"] /\ job' = job
    BY <1>1 DEF CallFails
  <2> QED
    BY <1>1, <2>1 DEF Keeps, Busy, IInv, TypeOK, Worker
<1> QED
  BY <1>1, CaughtKeeps DEF CallFails

\* Steps that leave the workers alone leave the jobs they run alone too.
LEMMA IdleKeeps ==
  ASSUME IInv, wk' = wk, \A j \in Jobs : job[j].st = "active" => job'[j].m = job[j].m
  PROVE  Evolution
BY DEF Evolution, Keeps, Busy, IInv, JobsAreExclusive

LEMMA AddJobKeeps ==
  ASSUME IInv, NEW m, AddJob(m)
  PROVE  \A j \in Jobs : job[j].st = "active" => job'[j].m = job[j].m
BY DEF AddJob, IInv, TypeOK

LEMMA ThrowJobKeeps ==
  ASSUME IInv, NEW w \in Workers, Busy(w), ThrowJob(w)
  PROVE  Evolution
<1>1. \A v \in Workers : Busy(v)' => v # w /\ Busy(v) /\ wk'[v] = wk[v]
  BY ThrowJobShape DEF Busy, IdleWorker
<1>2. \A v \in Workers : Busy(v) /\ v # w => wk[v].job # wk[w].job /\ wk[v].job \in Jobs
  BY DEF IInv, JobsAreExclusive
<1> QED
  BY <1>1, <1>2, ThrowJobShape DEF Evolution, Keeps

LEMMA SetStatusKeeps ==
  ASSUME IInv, NEW w \in Workers, Busy(w), NEW s, SetStatus(w, s), job' = job
  PROVE  Evolution
BY DEF SetStatus, Evolution, Keeps, Busy, IInv, TypeOK, Worker

LEMMA EvolutionStep == IInv /\ [Next]_vars => Evolution
<1> SUFFICES ASSUME IInv, [Next]_vars PROVE Evolution
  OBVIOUS
<1>1. ASSUME NEW h \in Handlers, NEW m \in Msgs, SendMessage(h, m) PROVE Evolution
  BY <1>1, IdleKeeps DEF SendMessage
<1>2. ASSUME NEW h \in Handlers, NEW S \in SUBSET Msgs, ForwardRequest(h, S) PROVE Evolution
  BY <1>2, IdleKeeps DEF ForwardRequest
<1>3. ASSUME NEW h \in Handlers, NEW m \in Msgs, ForwardNext(h, m) PROVE Evolution
  BY <1>3, IdleKeeps DEF ForwardNext
<1>4. ASSUME NEW h \in Handlers, NEW m \in Msgs, NEW force \in BOOLEAN, ReprocessCheck(h, m, force)
       PROVE Evolution
  BY <1>4, IdleKeeps DEF ReprocessCheck
<1>5. ASSUME NEW h \in Handlers, ReprocessReset(h) PROVE Evolution
  BY <1>5, IdleKeeps DEF ReprocessReset
<1>6. ASSUME NEW h \in Handlers, ReprocessFailedSelect(h) PROVE Evolution
  BY <1>6, IdleKeeps DEF ReprocessFailedSelect
<1>7. ASSUME NEW h \in Handlers, NEW m \in Msgs, ReprocessFailedNext(h, m) PROVE Evolution
  BY <1>7, IdleKeeps DEF ReprocessFailedNext
<1>8. ASSUME NEW h \in Handlers, RowMissing(h) PROVE Evolution
  BY <1>8, IdleKeeps DEF RowMissing
<1>9. ASSUME NEW h \in Handlers, Enqueue(h) PROVE Evolution
  BY <1>9, IdleKeeps, AddJobKeeps DEF Enqueue
<1>10. ASSUME NEW h \in Handlers, EnqueueResent(h) PROVE Evolution
  BY <1>10, IdleKeeps, AddJobKeeps DEF EnqueueResent
<1>11. ASSUME NEW h \in Handlers, EnqueueFails(h) PROVE Evolution
  BY <1>11, IdleKeeps DEF EnqueueFails
<1>12. ASSUME NEW h \in Handlers, MarkQueueFailure(h) PROVE Evolution
  BY <1>12, IdleKeeps DEF MarkQueueFailure
<1>13. ASSUME NEW h \in Handlers, PublishQueued(h) PROVE Evolution
  BY <1>13, IdleKeeps DEF PublishQueued
<1>14. ASSUME NEW h \in Handlers, HandlerCrash(h) PROVE Evolution
  BY <1>14, IdleKeeps DEF HandlerCrash
<1>15. ASSUME NEW w \in Workers, NEW j \in Jobs, Fetch(w, j) PROVE Evolution
  BY <1>15 DEF Fetch, IInv, TypeOK, JobsAreExclusive, Evolution, Keeps, Fetched, Busy,
     IdleWorker, NoExt
<1>16. ASSUME NEW w \in Workers, NEW j \in Jobs, FetchFails(w, j) PROVE Evolution
  BY <1>16 DEF FetchFails, IInv, TypeOK, JobsAreExclusive, Evolution, Keeps, Busy
<1>17. ASSUME NEW w \in Workers, SkipProvider(w) PROVE Evolution
  BY <1>17 DEF SkipProvider, IInv, TypeOK, Worker, Evolution, Keeps, Busy
<1>18. ASSUME NEW w \in Workers, ProviderAccepts(w) PROVE Evolution
  BY <1>18 DEF ProviderAccepts, IInv, TypeOK, Worker, Evolution, Keeps, Answered, Busy, Calling
<1>19. ASSUME NEW w \in Workers, NEW e \in Errors \cup {Internal}, ProviderAcceptsAnswerLost(w, e)
       PROVE Evolution
  BY <1>19, CallFailsKeeps DEF ProviderAcceptsAnswerLost, Evolution, Calling, Busy
<1>20. ASSUME NEW w \in Workers, NEW e \in Errors \cup {Internal}, ProviderRejects(w, e)
       PROVE Evolution
  BY <1>20, CallFailsKeeps DEF ProviderRejects, Evolution, Calling, Busy
<1>21. ASSUME NEW w \in Workers, MarkSent(w) PROVE Evolution
  BY <1>21, SetStatusKeeps DEF MarkSent, Busy
<1>22. ASSUME NEW w \in Workers, MarkSentFails(w) PROVE Evolution
  BY <1>22, CaughtKeeps DEF MarkSentFails, Evolution, Busy
<1>23. ASSUME NEW w \in Workers, AnnounceStatusFails(w) PROVE Evolution
  BY <1>23, CaughtKeeps, ThrowJobKeeps DEF AnnounceStatusFails, Evolution, Busy
<1>24. ASSUME NEW w \in Workers, GiveUp(w) PROVE Evolution
  BY <1>24, SetStatusKeeps DEF GiveUp, Busy
<1>25. ASSUME NEW w \in Workers, GiveUpFails(w) PROVE Evolution
  BY <1>25, ThrowJobKeeps DEF GiveUpFails, Busy
<1>26. ASSUME NEW w \in Workers, WorkerCrash(w) PROVE Evolution
  BY <1>26 DEF WorkerCrash, IInv, TypeOK, JobsAreExclusive, Evolution, Keeps, Busy, IdleWorker
<1>27. ASSUME NEW w \in Workers, StaleScan(w) PROVE Evolution
  BY <1>27, IdleKeeps DEF StaleScan
<1>28. ASSUME NEW w \in Workers, NEW m \in Msgs, StaleRequeue(w, m) PROVE Evolution
  BY <1>28, IdleKeeps, AddJobKeeps DEF StaleRequeue
<1>29. ASSUME NEW w \in Workers, NEW m \in Msgs, StaleRequeueFails(w, m) PROVE Evolution
  BY <1>29, IdleKeeps DEF StaleRequeueFails
<1>30. ASSUME NEW m \in Msgs, GrowStale(m) PROVE Evolution
  BY <1>30, IdleKeeps DEF GrowStale
<1>31. ASSUME NEW m \in Msgs, DeleteMessage(m) PROVE Evolution
  BY <1>31, IdleKeeps DEF DeleteMessage
<1>33. ASSUME NEW h \in Handlers, AnnounceQueueFailure(h) PROVE Evolution
  BY <1>33, IdleKeeps DEF AnnounceQueueFailure
<1>34. ASSUME NEW h \in Handlers, RecordQueueFailure(h) PROVE Evolution
  BY <1>34, IdleKeeps DEF RecordQueueFailure
<1>35. ASSUME NEW w \in Workers, AnnounceStatus(w) PROVE Evolution
  BY <1>35 DEF AnnounceStatus, Evolution, Keeps, Busy, IInv, TypeOK, Worker
<1>36. ASSUME NEW w \in Workers, RecordStatus(w) PROVE Evolution
  BY <1>36 DEF RecordStatus, Complete, IInv, TypeOK, JobsAreExclusive, Evolution, Keeps, Busy,
     IdleWorker
<1>32. CASE UNCHANGED vars
  BY <1>32, IdleKeeps DEF vars
<1> QED
  BY <1>1, <1>2, <1>3, <1>4, <1>5, <1>6, <1>7, <1>8, <1>9, <1>10, <1>11, <1>12, <1>13, <1>14,
     <1>15, <1>16, <1>17, <1>18, <1>19, <1>20, <1>21, <1>22, <1>23, <1>24, <1>25, <1>26, <1>27,
     <1>28, <1>29, <1>30, <1>31, <1>32, <1>33, <1>34, <1>35, <1>36
     DEF Next, Request, HandlerStep, WorkerStep, ProviderStep, MonitorStep

\* What a worker holds between the provider's answer and the row: an accepted
\* message and an id of its own.
InFlight ==
  \A w \in Workers : Busy(w) =>
    /\ wk[w].pc = "mark" /\ ProviderConfigured => Accepted(Target(w))
    /\ wk[w].ext # NoExt => wk[w].ext <= Len(wa) /\ wa[wk[w].ext] = Target(w)

LEMMA AcceptShape ==
  ASSUME IInv, NEW w \in Workers, Busy(w), Accept(w)
  PROVE  /\ Len(wa') = Len(wa) + 1 /\ Len(wa) \in Nat
         /\ \A i \in 1 .. Len(wa) : wa'[i] = wa[i]
         /\ wa'[Len(wa) + 1] = Target(w)
BY BusyTarget DEF Accept, IInv, TypeOK

LEMMA AcceptedGrows ==
  ASSUME IInv, [Next]_vars
  PROVE  /\ Len(wa) \in Nat /\ Len(wa') \in Nat /\ Len(wa) <= Len(wa')
         /\ \A i \in 1 .. Len(wa) : wa'[i] = wa[i]
<1>1. Len(wa) \in Nat
  BY DEF IInv, TypeOK
<1>2. ASSUME NEW w \in Workers, ProviderAccepts(w) \/ \E e \in Errors : ProviderAcceptsAnswerLost(w, e)
      PROVE  Len(wa') = Len(wa) + 1 /\ \A i \in 1 .. Len(wa) : wa'[i] = wa[i]
  BY <1>2, AcceptShape DEF ProviderAccepts, ProviderAcceptsAnswerLost, Calling, Busy
<1>3. CASE wa' = wa
  BY <1>1, <1>3
<1>4. wa' = wa \/ \E w \in Workers : ProviderAccepts(w) \/ \E e \in Errors : ProviderAcceptsAnswerLost(w, e)
  <2>1. ASSUME NEW w \in Workers, WorkerStep(w) \/ WorkerCrash(w)
        PROVE  wa' = wa \/ ProviderAccepts(w) \/ \E e \in Errors : ProviderAcceptsAnswerLost(w, e)
    BY <2>1 DEF WorkerStep, ProviderStep, WorkerCrash, Fetch, FetchFails, SkipProvider, ProviderRejects,
       MarkSent, MarkSentFails, GiveUp, GiveUpFails, AnnounceStatus, AnnounceStatusFails, RecordStatus
  <2> QED
    BY <2>1, WorkersFrame DEF Next, vars
<1> QED
  BY <1>1, <1>2, <1>3, <1>4

LEMMA InFlightStep == IInv /\ InFlight /\ [Next]_vars => InFlight'
<1> SUFFICES ASSUME IInv, InFlight, [Next]_vars, NEW v \in Workers, Busy(v)'
             PROVE  /\ wk'[v].pc = "mark" /\ ProviderConfigured => Accepted(Target(v))'
                    /\ wk'[v].ext # NoExt => wk'[v].ext <= Len(wa') /\ wa'[wk'[v].ext] = Target(v)'
  BY DEF InFlight
<1>1. CASE Keeps(v)
  <2>1. Target(v)' = Target(v)
    BY <1>1 DEF Keeps, Target
  <2>2. ProviderConfigured /\ wk'[v].pc = "mark" => Accepted(Target(v))'
    BY <1>1, <2>1, AcceptedGrows DEF Keeps, InFlight, Accepted
  <2>3. wk[v].ext \in Nat
    BY Bounds DEF IInv, TypeOK, Worker, ExtIds
  <2> QED
    BY <1>1, <2>1, <2>2, <2>3, AcceptedGrows DEF Keeps, InFlight, NoExt
<1>2. CASE Fetched(v)
  BY <1>2 DEF Fetched
<1>3. CASE Answered(v)
  <2>1. Target(v)' = Target(v)
    BY <1>3 DEF Answered, Target
  <2> QED
    BY <1>3, <2>1, AcceptShape DEF Answered, Accepted
<1> QED
  BY <1>1, <1>2, <1>3, EvolutionStep DEF Evolution

\* A row becomes SENT, or takes an external id, only from a worker that holds
\* the provider's answer about it; it becomes FAILED only from a worker that
\* gives up or a request that could not queue it.
RowsFollowAnswers ==
  \A m \in Msgs :
    /\ msg'[m].st = "SENT" =>
         \/ msg[m].st = "SENT"
         \/ \E w \in Workers : Busy(w) /\ wk[w].pc = "mark" /\ Target(w) = m
    /\ msg'[m].st = "FAILED" =>
         \/ msg[m].st = "FAILED"
         \/ \E h \in Handlers : hd[h].pc = "queue_failed" /\ hd[h].m = m
         \/ \E w \in Workers : Busy(w) /\ wk[w].pc = "give_up" /\ Target(w) = m
    /\ \/ msg'[m].ext \in {msg[m].ext, NoExt}
       \/ \E w \in Workers : Busy(w) /\ wk[w].ext # NoExt /\ Target(w) = m /\ msg'[m].ext = wk[w].ext

LEMMA RowsStep == IInv /\ [Next]_vars => RowsFollowAnswers
<1> SUFFICES ASSUME IInv, [Next]_vars PROVE RowsFollowAnswers
  OBVIOUS
<1>1. ASSUME NEW h \in Handlers, NEW m \in Msgs, SendMessage(h, m) PROVE RowsFollowAnswers
  BY <1>1 DEF SendMessage, RowsFollowAnswers, InsertPending, NewMessage, NoExt, IInv, TypeOK,
     Message
<1>2. ASSUME NEW h \in Handlers, NEW S \in SUBSET Msgs, ForwardRequest(h, S) PROVE RowsFollowAnswers
  BY <1>2 DEF ForwardRequest, RowsFollowAnswers
<1>3. ASSUME NEW h \in Handlers, NEW m \in Msgs, ForwardNext(h, m) PROVE RowsFollowAnswers
  BY <1>3 DEF ForwardNext, RowsFollowAnswers, InsertPending, NewMessage, NoExt, IInv, TypeOK,
     Message
<1>4. ASSUME NEW h \in Handlers, NEW m \in Msgs, NEW force \in BOOLEAN, ReprocessCheck(h, m, force)
       PROVE RowsFollowAnswers
  BY <1>4 DEF ReprocessCheck, RowsFollowAnswers
<1>5. ASSUME NEW h \in Handlers, ReprocessReset(h) PROVE RowsFollowAnswers
  BY <1>5 DEF ReprocessReset, RowsFollowAnswers, ResetToPending, NoExt, IInv, TypeOK, Message
<1>6. ASSUME NEW h \in Handlers, ReprocessFailedSelect(h) PROVE RowsFollowAnswers
  BY <1>6 DEF ReprocessFailedSelect, RowsFollowAnswers
<1>7. ASSUME NEW h \in Handlers, NEW m \in Msgs, ReprocessFailedNext(h, m) PROVE RowsFollowAnswers
  BY <1>7 DEF ReprocessFailedNext, RowsFollowAnswers, ResetToPending, NoExt, IInv, TypeOK, Message
<1>8. ASSUME NEW h \in Handlers, RowMissing(h) PROVE RowsFollowAnswers
  BY <1>8 DEF RowMissing, RowsFollowAnswers
<1>9. ASSUME NEW h \in Handlers, Enqueue(h) PROVE RowsFollowAnswers
  BY <1>9 DEF Enqueue, RowsFollowAnswers
<1>10. ASSUME NEW h \in Handlers, EnqueueResent(h) PROVE RowsFollowAnswers
  BY <1>10 DEF EnqueueResent, RowsFollowAnswers
<1>11. ASSUME NEW h \in Handlers, EnqueueFails(h) PROVE RowsFollowAnswers
  BY <1>11 DEF EnqueueFails, RowsFollowAnswers
<1>12. ASSUME NEW h \in Handlers, MarkQueueFailure(h) PROVE RowsFollowAnswers
  BY <1>12 DEF MarkQueueFailure, RowsFollowAnswers, IInv, TypeOK, Message
<1>13. ASSUME NEW h \in Handlers, PublishQueued(h) PROVE RowsFollowAnswers
  BY <1>13 DEF PublishQueued, RowsFollowAnswers
<1>14. ASSUME NEW h \in Handlers, HandlerCrash(h) PROVE RowsFollowAnswers
  BY <1>14 DEF HandlerCrash, RowsFollowAnswers
<1>15. ASSUME NEW w \in Workers, NEW j \in Jobs, Fetch(w, j) PROVE RowsFollowAnswers
  BY <1>15 DEF Fetch, RowsFollowAnswers
<1>16. ASSUME NEW w \in Workers, NEW j \in Jobs, FetchFails(w, j) PROVE RowsFollowAnswers
  BY <1>16 DEF FetchFails, RowsFollowAnswers
<1>17. ASSUME NEW w \in Workers, SkipProvider(w) PROVE RowsFollowAnswers
  BY <1>17 DEF SkipProvider, RowsFollowAnswers
<1>18. ASSUME NEW w \in Workers, ProviderAccepts(w) PROVE RowsFollowAnswers
  BY <1>18 DEF ProviderAccepts, RowsFollowAnswers
<1>19. ASSUME NEW w \in Workers, NEW e \in Errors \cup {Internal}, ProviderAcceptsAnswerLost(w, e)
       PROVE RowsFollowAnswers
  BY <1>19 DEF ProviderAcceptsAnswerLost, RowsFollowAnswers
<1>20. ASSUME NEW w \in Workers, NEW e \in Errors \cup {Internal}, ProviderRejects(w, e)
       PROVE RowsFollowAnswers
  BY <1>20 DEF ProviderRejects, RowsFollowAnswers
<1>21. ASSUME NEW w \in Workers, MarkSent(w) PROVE RowsFollowAnswers
  BY <1>21 DEF MarkSent, RowsFollowAnswers, SetStatus, IInv, TypeOK, Message, Busy
<1>22. ASSUME NEW w \in Workers, MarkSentFails(w) PROVE RowsFollowAnswers
  BY <1>22 DEF MarkSentFails, RowsFollowAnswers
<1>23. ASSUME NEW w \in Workers, AnnounceStatusFails(w) PROVE RowsFollowAnswers
  BY <1>23 DEF AnnounceStatusFails, RowsFollowAnswers
<1>24. ASSUME NEW w \in Workers, GiveUp(w) PROVE RowsFollowAnswers
  BY <1>24 DEF GiveUp, RowsFollowAnswers, SetStatus, IInv, TypeOK, Message, Busy
<1>25. ASSUME NEW w \in Workers, GiveUpFails(w) PROVE RowsFollowAnswers
  BY <1>25 DEF GiveUpFails, RowsFollowAnswers
<1>26. ASSUME NEW w \in Workers, WorkerCrash(w) PROVE RowsFollowAnswers
  BY <1>26 DEF WorkerCrash, RowsFollowAnswers
<1>27. ASSUME NEW w \in Workers, StaleScan(w) PROVE RowsFollowAnswers
  BY <1>27 DEF StaleScan, RowsFollowAnswers
<1>28. ASSUME NEW w \in Workers, NEW m \in Msgs, StaleRequeue(w, m) PROVE RowsFollowAnswers
  BY <1>28 DEF StaleRequeue, RowsFollowAnswers
<1>29. ASSUME NEW w \in Workers, NEW m \in Msgs, StaleRequeueFails(w, m) PROVE RowsFollowAnswers
  BY <1>29 DEF StaleRequeueFails, RowsFollowAnswers
<1>30. ASSUME NEW m \in Msgs, GrowStale(m) PROVE RowsFollowAnswers
  BY <1>30 DEF GrowStale, RowsFollowAnswers, IInv, TypeOK, Message
<1>31. ASSUME NEW m \in Msgs, DeleteMessage(m) PROVE RowsFollowAnswers
  BY <1>31 DEF DeleteMessage, RowsFollowAnswers, IInv, TypeOK, Message
<1>33. ASSUME NEW h \in Handlers, AnnounceQueueFailure(h) PROVE RowsFollowAnswers
  BY <1>33 DEF AnnounceQueueFailure, RowsFollowAnswers
<1>34. ASSUME NEW h \in Handlers, RecordQueueFailure(h) PROVE RowsFollowAnswers
  BY <1>34 DEF RecordQueueFailure, RowsFollowAnswers
<1>35. ASSUME NEW w \in Workers, AnnounceStatus(w) PROVE RowsFollowAnswers
  BY <1>35 DEF AnnounceStatus, RowsFollowAnswers
<1>36. ASSUME NEW w \in Workers, RecordStatus(w) PROVE RowsFollowAnswers
  BY <1>36 DEF RecordStatus, RowsFollowAnswers
<1>32. CASE UNCHANGED vars
  BY <1>32 DEF vars, RowsFollowAnswers
<1> QED
  BY <1>1, <1>2, <1>3, <1>4, <1>5, <1>6, <1>7, <1>8, <1>9, <1>10, <1>11, <1>12, <1>13, <1>14,
     <1>15, <1>16, <1>17, <1>18, <1>19, <1>20, <1>21, <1>22, <1>23, <1>24, <1>25, <1>26, <1>27,
     <1>28, <1>29, <1>30, <1>31, <1>32, <1>33, <1>34, <1>35, <1>36
     DEF Next, Request, HandlerStep, WorkerStep, ProviderStep, MonitorStep

DeliveryInv == IInv /\ InFlight /\ SentWasAccepted /\ ExternalIdIsOwn

LEMMA DeliveryStep == DeliveryInv /\ [Next]_vars => SentWasAccepted' /\ ExternalIdIsOwn'
<1> SUFFICES ASSUME DeliveryInv, [Next]_vars, NEW m \in Msgs
             PROVE  /\ ProviderConfigured /\ msg'[m].st = "SENT" => Accepted(m)'
                    /\ msg'[m].ext # NoExt => msg'[m].ext <= Len(wa') /\ wa'[msg'[m].ext] = m
  BY DEF SentWasAccepted, ExternalIdIsOwn
<1> USE DEF DeliveryInv
<1>1. Accepted(m) => Accepted(m)'
  BY AcceptedGrows DEF Accepted
<1>2. ProviderConfigured /\ msg'[m].st = "SENT" => Accepted(m)
  BY RowsStep DEF RowsFollowAnswers, SentWasAccepted, InFlight
<1>3. msg'[m].ext # NoExt => msg'[m].ext <= Len(wa) /\ wa[msg'[m].ext] = m
  BY RowsStep DEF RowsFollowAnswers, ExternalIdIsOwn, InFlight
<1>4. msg'[m].ext \in Nat
  BY TypeStep, Bounds DEF TypeOK, Message, ExtIds
<1> QED
  BY <1>1, <1>2, <1>3, <1>4, AcceptedGrows DEF NoExt

-----------------------------------------------------------------------------
(* Theorems *)

LEMMA IInvStep == IInv /\ [Next]_vars => IInv'
BY TypeStep, CarriersStep, ExclusiveStep, OutcomeStep DEF IInv

LEMMA Inductive == Spec => []IInv
<1>1. Init => IInv
  BY InitIInv
<1>2. IInv /\ [Next]_vars => IInv'
  BY IInvStep
<1> QED
  BY <1>1, <1>2, PTL DEF Spec

\* Every variable keeps its type, for any limits: the queue never counts more
\* attempts than it was configured with, and no more ids are given than the
\* provider accepted messages.
THEOREM TypeCorrect == Spec => []TypeOK
<1>1. IInv => TypeOK
  BY DEF IInv
<1> QED
  BY <1>1, Inductive, PTL

LEMMA TendedInductive == Spec => [](IInv /\ \A m \in Msgs : Tended(m))
<1>1. Init => IInv /\ \A m \in Msgs : Tended(m)
  BY InitIInv DEF Init, Tended, Exists, Statuses, NewMessage
<1>2. IInv /\ (\A m \in Msgs : Tended(m)) /\ [Next]_vars =>
        IInv' /\ (\A m \in Msgs : Tended(m))'
  BY IInvStep, TendedStep
<1> QED
  BY <1>1, <1>2, PTL DEF Spec

\* A PENDING row always has a request or a job that will settle it, unless a
\* failure took it: the worker's limit of each error category stays below the
\* limit of the queue.
THEOREM PendingStaysCarried == Spec => []PendingIsCarried
<1>1. IInv /\ (\A m \in Msgs : Tended(m)) => PendingIsCarried
  <2> SUFFICES ASSUME IInv, NEW m \in Msgs, Tended(m), msg[m].st = "PENDING"
               PROVE  Carried(m) \/ "lost" \in hist[m]
    BY DEF PendingIsCarried
  <2>1. Exists(m) /\ msg[m].st \notin audit[m]
    BY DEF Exists, Statuses, IInv, TypeOK
  <2> QED
    BY <2>1 DEF Tended, Asks, Serves, Queues, Carried
<1> QED
  BY <1>1, TendedInductive, PTL

\* A SENT or FAILED row has that outcome in the audit trail, or a worker, a
\* request or a job is left that writes it, or settles the row anew, unless a
\* failure took the carrier or the entry: in whatever order any number of
\* workers and requests take the three awaits of a status.
THEOREM SettledStaysAudited == Spec => []SettledIsAudited
<1>1. IInv /\ (\A m \in Msgs : Tended(m)) => SettledIsAudited
  BY DEF SettledIsAudited, Tended, Exists, Statuses, Asks, Serves, Queues, Carried, BeingRecorded
<1> QED
  BY <1>1, TendedInductive, PTL

LEMMA DeliveryInductive == Spec => []DeliveryInv
<1>1. Init => DeliveryInv
  BY InitIInv DEF Init, DeliveryInv, InFlight, SentWasAccepted, ExternalIdIsOwn, Busy,
     IdleWorker, NewMessage
<1>2. DeliveryInv /\ [Next]_vars => DeliveryInv'
  BY IInvStep, InFlightStep, DeliveryStep DEF DeliveryInv
<1> QED
  BY <1>1, <1>2, PTL DEF Spec

\* With a provider configured, a SENT row is always one the provider accepted.
THEOREM SentStaysAccepted == Spec => []SentWasAccepted
<1>1. DeliveryInv => SentWasAccepted
  BY DEF DeliveryInv
<1> QED
  BY <1>1, DeliveryInductive, PTL

\* The external id of a row is always an id that WhatsApp gave to that message.
THEOREM ExternalIdStaysOwn == Spec => []ExternalIdIsOwn
<1>1. DeliveryInv => ExternalIdIsOwn
  BY DEF DeliveryInv
<1> QED
  BY <1>1, DeliveryInductive, PTL

-----------------------------------------------------------------------------
(* Who may still deliver a message *)

\* A request is about to queue m, or to say that it could not.
Carries(h, m) == hd[h].pc \in {"enqueue", "queue_failed"} /\ hd[h].m = m

\* Nothing happened to m after which it may be delivered again.
Clean(m) == hist[m] \cap Repeatable = {}

\* What a step does to the carriers of a clean message: at most some disappear,
\* and a worker that delivered it is not forgotten...
Still(m) ==
  /\ \A h \in Handlers : Carries(h, m)' => Carries(h, m)
  /\ \A j \in Jobs : Queues(j, m)' => Queues(j, m)
  /\ \A w \in Workers, j \in Jobs : Delivered(w) /\ wk[w].job = j /\ Queues(j, m) =>
       \/ Delivered(w)' /\ wk'[w].job = j /\ Queues(j, m)'
       \/ ~ Queues(j, m)'
  /\ \A w \in Workers, j \in Jobs : wk[w].pc = "mark" /\ wk[w].job = j /\ Queues(j, m) =>
       \/ wk'[w].pc = "mark" /\ wk'[w].job = j /\ Queues(j, m)'
       \/ msg'[m].st # "FAILED"
  /\ wa' = wa \/ \E x \in Msgs : x # m /\ wa' = Append(wa, x)

\* ...or a request creates its row...
Inserts(m) ==
  /\ msg[m].st = "absent" /\ job' = job /\ wk' = wk /\ wa' = wa
  /\ \E h \in Handlers : \A g \in Handlers : Carries(g, m)' => g = h \/ Carries(g, m)

\* ...or queues it...
Enqueues(m) ==
  /\ wk' = wk /\ wa' = wa
  /\ \E h \in Handlers :
       /\ Carries(h, m) /\ ~ Carries(h, m)'
       /\ \A g \in Handlers : Carries(g, m)' => Carries(g, m)
  /\ \E j \in Jobs : \A i \in Jobs : Queues(i, m)' => i = j \/ Queues(i, m)

\* ...or the provider accepts it from the worker that runs its job.
Delivers(m) ==
  /\ hd' = hd /\ job' = job /\ wa' = Append(wa, m)
  /\ \E w \in Workers :
       /\ wk[w].pc \in {"send", "fallback"} /\ Target(w) = m
       /\ wk'[w].pc = "mark" /\ wk'[w].job = wk[w].job
       /\ \A v \in Workers : v # w => wk'[v] = wk[v]

Course(m) == Clean(m) /\ (Still(m) \/ Inserts(m) \/ Enqueues(m) \/ Delivers(m))

LEMMA NoteSpares ==
  ASSUME IInv, NEW x \in Msgs, Clean(x)', NEW y, NEW i, Note(y, i)
  PROVE  Clean(x) /\ (i \in Repeatable => y # x)
BY DEF IInv, TypeOK, Note, Clean

\* A worker that does something to its own job.
LEMMA WorkerStill ==
  ASSUME IInv, NEW x \in Msgs, NEW w \in Workers, Busy(w), Clean(x), hd' = hd,
         wa' = wa \/ \E y \in Msgs : y # x /\ wa' = Append(wa, y),
         \A v \in Workers : v # w => wk'[v] = wk[v],
         \A i \in Jobs : i # wk[w].job => job'[i] = job[i],
         job'[wk[w].job].st = "free" \/ job'[wk[w].job].m = job[wk[w].job].m,
         Delivered(w) /\ Target(w) = x =>
           /\ \/ job'[wk[w].job].st = "free"
              \/ Delivered(w)' /\ wk'[w].job = wk[w].job /\ job'[wk[w].job] = job[wk[w].job]
           /\ wk[w].pc = "mark" => msg'[x].st # "FAILED"
  PROVE  Course(x)
<1>1. wk[w].job \in Jobs /\ job[wk[w].job].st = "active"
  BY BusyTarget
<1>2. \A h \in Handlers : Carries(h, x)' => Carries(h, x)
  BY DEF Carries
<1>3. \A j \in Jobs : Queues(j, x)' => Queues(j, x)
  BY <1>1 DEF Queues
<1>4. \A v \in Workers : Delivered(v) => Busy(v)
  BY DEF Delivered, Busy, IInv, OutcomeIsWritten
<1>5. ASSUME NEW v \in Workers, v # w, Busy(v) PROVE wk[v].job # wk[w].job /\ wk[v].job \in Jobs
  BY <1>5 DEF IInv, JobsAreExclusive
<1>6. ASSUME NEW v \in Workers, NEW j \in Jobs, Delivered(v), wk[v].job = j, Queues(j, x)
      PROVE  \/ Delivered(v)' /\ wk'[v].job = j /\ Queues(j, x)'
             \/ ~ Queues(j, x)'
  <2>1. CASE v = w
    BY <1>6, <2>1 DEF Queues, Target
  <2>2. CASE v # w
    BY <1>4, <1>5, <1>6, <2>2 DEF Queues, Delivered
  <2> QED
    BY <2>1, <2>2
<1>7. ASSUME NEW v \in Workers, NEW j \in Jobs, wk[v].pc = "mark", wk[v].job = j, Queues(j, x)
      PROVE  \/ wk'[v].pc = "mark" /\ wk'[v].job = j /\ Queues(j, x)'
             \/ msg'[x].st # "FAILED"
  <2>1. CASE v = w
    BY <1>7, <2>1 DEF Queues, Target, Delivered
  <2>2. CASE v # w
    BY <1>5, <1>7, <2>2 DEF Queues, Busy
  <2> QED
    BY <2>1, <2>2
<1> QED
  BY <1>2, <1>3, <1>6, <1>7 DEF Course, Still

LEMMA CaughtShape ==
  ASSUME IInv, NEW w \in Workers, Busy(w), NEW e, Caught(w, e)
  PROVE  /\ \A v \in Workers : v # w => wk'[v] = wk[v]
         /\ \A i \in Jobs : i # wk[w].job => job'[i] = job[i]
         /\ job'[wk[w].job].st = "free" \/ job'[wk[w].job].m = job[wk[w].job].m
<1>1. wk[w].job \in Jobs
  BY BusyTarget
<1>2. wk \in [Workers -> Worker] /\ job \in [Jobs -> Job]
  BY DEF IInv, TypeOK
<1>3. Thrown(wk[w].job).st = "free" \/ Thrown(wk[w].job).m = job[wk[w].job].m
  BY <1>1, ThrownType DEF IInv, FreeJob
<1> QED
  BY <1>1, <1>2, <1>3 DEF Caught

LEMMA CallFailsShape ==
  ASSUME IInv, NEW w \in Workers, Busy(w), NEW e, CallFails(w, e)
  PROVE  /\ \A v \in Workers : v # w => wk'[v] = wk[v]
         /\ \A i \in Jobs : i # wk[w].job => job'[i] = job[i]
         /\ job'[wk[w].job].st = "free" \/ job'[wk[w].job].m = job[wk[w].job].m
<1>1. CASE wk' = [wk EXCEPT ![w].pc = "fallback"] /\ job' = job
  BY <1>1 DEF IInv, TypeOK
<1>2. CASE Caught(w, e)
  BY <1>2, CaughtShape
<1> QED
  BY <1>1, <1>2 DEF CallFails

LEMMA CompleteShape ==
  ASSUME IInv, NEW w \in Workers, Busy(w), Complete(w)
  PROVE  /\ \A v \in Workers : v # w => wk'[v] = wk[v]
         /\ \A i \in Jobs : i # wk[w].job => job'[i] = job[i]
         /\ job'[wk[w].job].st = "free"
BY BusyTarget DEF Complete, FreeJob, IInv, TypeOK

\* A worker that delivered a message keeps its job while running jobs are left
\* alone.
LEMMA RunningStay ==
  ASSUME IInv, NEW x \in Msgs, wk' = wk,
         \A i \in Jobs : job[i].st = "active" => job'[i] = job[i]
  PROVE  \A w \in Workers, j \in Jobs : Delivered(w) /\ wk[w].job = j /\ Queues(j, x) =>
           Delivered(w)' /\ wk'[w] = wk[w] /\ Queues(j, x)'
<1>1. \A w \in Workers : Delivered(w) => Busy(w)
  BY DEF Delivered, Busy, IInv, OutcomeIsWritten
<1> QED
  BY <1>1 DEF IInv, JobsAreExclusive, Queues, Delivered

LEMMA AdvanceCarries ==
  ASSUME IInv, NEW h \in Handlers, NEW x \in Msgs, Advance(h)
  PROVE  \A g \in Handlers : Carries(g, x)' => Carries(g, x)
<1>1. hd' = [hd EXCEPT ![h] = IF hd[h].todo = {} THEN IdleHandler
                              ELSE [hd[h] EXCEPT !.pc = "next", !.m = NoMsg]]
  BY DEF Advance
<1>2. [hd[h] EXCEPT !.pc = "next", !.m = NoMsg].pc = "next" /\ IdleHandler.pc = "idle"
  BY DEF IInv, TypeOK, Handler, IdleHandler
<1>3. hd'[h].pc \in {"next", "idle"} /\ \A g \in Handlers : g # h => hd'[g] = hd[g]
  BY <1>1, <1>2 DEF IInv, TypeOK
<1> QED
  BY <1>3 DEF Carries

\* Steps that leave workers and running jobs alone.
LEMMA QuietCourse ==
  ASSUME IInv, NEW x \in Msgs, Clean(x), wk' = wk, wa' = wa,
         \A i \in Jobs : job[i].st = "active" => job'[i] = job[i],
         \A j \in Jobs : Queues(j, x)' => Queues(j, x),
         \A h \in Handlers : Carries(h, x)' => Carries(h, x)
  PROVE  Course(x)
BY RunningStay DEF Course, Still, Delivered

LEMMA CourseStep ==
  ASSUME IInv, [Next]_vars, NEW x \in Msgs, Clean(x)'
  PROVE  Course(x)
<1>1. ASSUME NEW h \in Handlers, NEW m \in Msgs, SendMessage(h, m) PROVE Course(x)
  <2>1. /\ Clean(x) /\ wk' = wk /\ job' = job /\ wa' = wa /\ msg[m].st = "absent"
        /\ hd'[h].m = m /\ \A g \in Handlers : g # h => hd'[g] = hd[g]
    BY <1>1 DEF SendMessage, Unused, IdleHandler, Clean, IInv, TypeOK
  <2>2. CASE m = x
    BY <2>1, <2>2 DEF Course, Inserts, Carries
  <2>3. CASE m # x
    BY <2>1, <2>3, QuietCourse DEF Carries, Queues
  <2> QED
    BY <2>2, <2>3
<1>2. ASSUME NEW h \in Handlers, NEW S \in SUBSET Msgs, ForwardRequest(h, S) PROVE Course(x)
  <2>1. Clean(x) /\ wk' = wk /\ job' = job /\ wa' = wa
    BY <1>2 DEF ForwardRequest, Clean
  <2>2. \A g \in Handlers : Carries(g, x)' => Carries(g, x)
    BY <1>2 DEF ForwardRequest, Carries, IdleHandler, Handler, IInv, TypeOK
  <2> QED
    BY <2>1, <2>2, QuietCourse DEF Queues
<1>3. ASSUME NEW h \in Handlers, NEW m \in Msgs, ForwardNext(h, m) PROVE Course(x)
    BY <1>3 DEF ForwardNext, Inserts, Handler, Course, Clean, Still, Carries, Queues, IInv,
     TypeOK
<1>4. ASSUME NEW h \in Handlers, NEW m \in Msgs, NEW force \in BOOLEAN, ReprocessCheck(h, m, force)
       PROVE Course(x)
  <2>1. Clean(x) /\ wk' = wk /\ job' = job /\ wa' = wa
    BY <1>4 DEF ReprocessCheck, Clean
  <2>2. \A g \in Handlers : Carries(g, x)' => Carries(g, x)
    BY <1>4 DEF ReprocessCheck, Carries, IdleHandler, Handler, IInv, TypeOK
  <2> QED
    BY <2>1, <2>2, QuietCourse DEF Queues
<1>5. ASSUME NEW h \in Handlers, ReprocessReset(h) PROVE Course(x)
  <2>1. Clean(x) /\ hd[h].m # x /\ wk' = wk /\ job' = job /\ wa' = wa
    BY <1>5, NoteSpares DEF ReprocessReset, ResetToPending, Repeatable
  <2>2. hd'[h].m = hd[h].m /\ \A g \in Handlers : g # h => hd'[g] = hd[g]
    BY <1>5 DEF ReprocessReset, IInv, TypeOK, Handler
  <2> QED
    BY <2>1, <2>2, QuietCourse DEF Queues, Carries
<1>6. ASSUME NEW h \in Handlers, ReprocessFailedSelect(h) PROVE Course(x)
  <2>1. Clean(x) /\ wk' = wk /\ job' = job /\ wa' = wa
    BY <1>6 DEF ReprocessFailedSelect, Clean
  <2>2. \A g \in Handlers : Carries(g, x)' => Carries(g, x)
    BY <1>6 DEF ReprocessFailedSelect, Carries, IdleHandler, Handler, IInv, TypeOK
  <2> QED
    BY <2>1, <2>2, QuietCourse DEF Queues
<1>7. ASSUME NEW h \in Handlers, NEW m \in Msgs, ReprocessFailedNext(h, m) PROVE Course(x)
  <2>1. Clean(x) /\ m # x /\ wk' = wk /\ job' = job /\ wa' = wa
    BY <1>7, NoteSpares DEF ReprocessFailedNext, ResetToPending, Repeatable
  <2>2. hd'[h].m = m /\ \A g \in Handlers : g # h => hd'[g] = hd[g]
    BY <1>7 DEF ReprocessFailedNext, IInv, TypeOK, Handler
  <2> QED
    BY <2>1, <2>2, QuietCourse DEF Queues, Carries
<1>8. ASSUME NEW h \in Handlers, RowMissing(h) PROVE Course(x)
  <2>1. Clean(x) /\ wk' = wk /\ job' = job /\ wa' = wa
    BY <1>8 DEF RowMissing, Clean
  <2>2. \A g \in Handlers : Carries(g, x)' => Carries(g, x)
    BY <1>8 DEF RowMissing, Carries, IdleHandler, Handler, IInv, TypeOK
  <2> QED
    BY <2>1, <2>2, QuietCourse DEF Queues
<1>9. ASSUME NEW h \in Handlers, Enqueue(h) PROVE Course(x)
  <2>1. /\ Clean(x) /\ wk' = wk /\ wa' = wa /\ hd[h].pc = "enqueue"
        /\ hd'[h].pc = "publish" /\ \A g \in Handlers : g # h => hd'[g] = hd[g]
    BY <1>9 DEF Enqueue, Clean, IInv, TypeOK, Handler
  <2>2. PICK j \in Jobs : /\ job[j].st = "free" /\ job'[j].m = hd[h].m
                          /\ \A i \in Jobs : i # j => job'[i] = job[i]
    BY <1>9 DEF Enqueue, AddJob, FreeJob, IInv, TypeOK
  <2>3. /\ \A g \in Handlers : Carries(g, x)' => Carries(g, x)
        /\ ~ Carries(h, x)'
        /\ \A i \in Jobs : Queues(i, x)' => i = j \/ Queues(i, x)
    BY <2>1, <2>2 DEF Carries, Queues
  <2>4. CASE hd[h].m = x
    BY <2>1, <2>3, <2>4 DEF Course, Enqueues, Carries
  <2>5. CASE hd[h].m # x
    <3>1. \A i \in Jobs : Queues(i, x)' => Queues(i, x)
      BY <2>2, <2>3, <2>5 DEF Queues
    <3> QED
      BY <2>1, <2>2, <2>3, <3>1, QuietCourse
  <2> QED
    BY <2>4, <2>5
<1>10. ASSUME NEW h \in Handlers, EnqueueResent(h) PROVE Course(x)
  <2>1. Clean(x) /\ hd[h].m # x /\ wk' = wk /\ hd' = hd /\ wa' = wa
    BY <1>10, NoteSpares DEF EnqueueResent, Repeatable
  <2>2. \A j \in Jobs : Queues(j, x)' => Queues(j, x)
    BY <1>10, <2>1 DEF EnqueueResent, AddJob, FreeJob, Queues, IInv, TypeOK
  <2>3. \A i \in Jobs : job[i].st = "active" => job'[i] = job[i]
    BY <1>10 DEF EnqueueResent, AddJob, IInv, TypeOK
  <2> QED
    BY <2>1, <2>2, <2>3, QuietCourse DEF Carries
<1>11. ASSUME NEW h \in Handlers, EnqueueFails(h) PROVE Course(x)
  <2>1. Clean(x) /\ wk' = wk /\ job' = job /\ wa' = wa
    BY <1>11 DEF EnqueueFails, Clean
  <2>2. \A g \in Handlers : Carries(g, x)' => Carries(g, x)
    BY <1>11 DEF EnqueueFails, Carries, IdleHandler, Handler, IInv, TypeOK
  <2> QED
    BY <2>1, <2>2, QuietCourse DEF Queues
<1>12. ASSUME NEW h \in Handlers, MarkQueueFailure(h) PROVE Course(x)
  <2>1. Clean(x) /\ wk' = wk /\ job' = job /\ wa' = wa
    BY <1>12 DEF MarkQueueFailure, Clean
  <2>2. \A g \in Handlers : Carries(g, x)' => Carries(g, x)
    BY <1>12 DEF MarkQueueFailure, Carries, IdleHandler, Handler, IInv, TypeOK
  <2> QED
    BY <2>1, <2>2, QuietCourse DEF Queues
<1>13. ASSUME NEW h \in Handlers, PublishQueued(h) PROVE Course(x)
  <2>1. Clean(x) /\ wk' = wk /\ job' = job /\ wa' = wa
    BY <1>13 DEF PublishQueued, Advance, Clean
  <2>2. \A g \in Handlers : Carries(g, x)' => Carries(g, x)
    BY <1>13 DEF PublishQueued, Advance, Carries, IdleHandler, Handler, IInv, TypeOK
  <2> QED
    BY <2>1, <2>2, QuietCourse DEF Queues
<1>14. ASSUME NEW h \in Handlers, HandlerCrash(h) PROVE Course(x)
  <2>1. Clean(x) /\ wk' = wk /\ job' = job /\ wa' = wa
    BY <1>14, NoteSpares DEF HandlerCrash, Clean
  <2>2. \A g \in Handlers : Carries(g, x)' => Carries(g, x)
    BY <1>14 DEF HandlerCrash, Carries, IdleHandler, Handler, IInv, TypeOK
  <2> QED
    BY <2>1, <2>2, QuietCourse DEF Queues
<1>15. ASSUME NEW w \in Workers, NEW j \in Jobs, Fetch(w, j) PROVE Course(x)
  <2>1. /\ Clean(x) /\ hd' = hd /\ wa' = wa /\ msg' = msg
        /\ wk[w].pc = "idle" /\ job[j].st = "waiting" /\ wk[w].out = "none"
        /\ \A v \in Workers : v # w => wk'[v] = wk[v]
        /\ \A i \in Jobs : i # j => job'[i] = job[i]
        /\ job'[j].m = job[j].m /\ job'[j].st = "active"
    BY <1>15 DEF Fetch, Clean, IInv, TypeOK, Job, OutcomeIsWritten
  <2>2. \A v \in Workers : Delivered(v) => v # w /\ wk[v].job # j
    BY <2>1 DEF Delivered, IInv, JobsAreExclusive, OutcomeIsWritten, Busy
  <2>3. \A i \in Jobs : Queues(i, x)' <=> Queues(i, x)
    BY <2>1 DEF Queues
  <2> QED
    BY <2>1, <2>2, <2>3 DEF Course, Still, Carries, Delivered
<1>16. ASSUME NEW w \in Workers, NEW j \in Jobs, FetchFails(w, j) PROVE Course(x)
  <2>1. Clean(x) /\ hd' = hd /\ wk' = wk /\ wa' = wa
    BY <1>16, NoteSpares DEF FetchFails, Clean
  <2>2. /\ job[j].st = "waiting" /\ \A i \in Jobs : i # j => job'[i] = job[i]
        /\ job'[j] = Thrown(j)
    BY <1>16 DEF FetchFails, IInv, TypeOK
  <2>3. \A i \in Jobs : Queues(i, x)' => Queues(i, x)
    BY <2>2, ThrownType DEF Queues, FreeJob, IInv
  <2>4. \A i \in Jobs : job[i].st = "active" => job'[i] = job[i]
    BY <2>2
  <2> QED
    BY <2>1, <2>3, <2>4, QuietCourse DEF Carries
<1>17. ASSUME NEW w \in Workers, SkipProvider(w) PROVE Course(x)
  <2>1. Busy(w) /\ ~ Delivered(w) /\ hd' = hd /\ job' = job /\ wa' = wa /\ Clean(x)
    BY <1>17 DEF SkipProvider, Busy, Clean, Delivered, IInv, OutcomeIsWritten
  <2>2. \A v \in Workers : v # w => wk'[v] = wk[v]
    BY <1>17 DEF SkipProvider, IInv, TypeOK
  <2> QED
    BY <2>1, <2>2, WorkerStill
<1>18. ASSUME NEW w \in Workers, ProviderAccepts(w) PROVE Course(x)
  <2>1. /\ wk[w].pc \in {"send", "fallback"} /\ Busy(w) /\ hd' = hd /\ job' = job
        /\ wa' = Append(wa, Target(w)) /\ Clean(x)
    BY <1>18 DEF ProviderAccepts, Calling, Accept, Busy, Clean
  <2>2. /\ wk'[w].pc = "mark" /\ wk'[w].job = wk[w].job
        /\ \A v \in Workers : v # w => wk'[v] = wk[v]
    BY <1>18 DEF ProviderAccepts, IInv, TypeOK, Worker
  <2>3. CASE Target(w) = x
    BY <2>1, <2>2, <2>3 DEF Course, Delivers
  <2>4. CASE Target(w) # x
    BY <2>1, <2>2, <2>4, WorkerStill, BusyTarget
  <2> QED
    BY <2>3, <2>4
<1>19. ASSUME NEW w \in Workers, NEW e \in Errors \cup {Internal}, ProviderAcceptsAnswerLost(w, e)
       PROVE Course(x)
  <2>1. /\ wk[w].pc \in {"send", "fallback"} /\ Busy(w) /\ hd' = hd
        /\ wa' = Append(wa, Target(w)) /\ CallFails(w, e)
    BY <1>19 DEF ProviderAcceptsAnswerLost, Calling, Accept, Busy
  <2>2. Clean(x) /\ Target(w) # x
    BY <1>19, NoteSpares DEF ProviderAcceptsAnswerLost, Repeatable
  <2> QED
    BY <2>1, <2>2, WorkerStill, BusyTarget, CallFailsShape
<1>20. ASSUME NEW w \in Workers, NEW e \in Errors \cup {Internal}, ProviderRejects(w, e)
       PROVE Course(x)
  <2>1. /\ ~ Delivered(w) /\ Busy(w) /\ hd' = hd
        /\ wa' = wa /\ CallFails(w, e) /\ Clean(x)
    BY <1>20 DEF ProviderRejects, Calling, Busy, Clean, Delivered, IInv, OutcomeIsWritten
  <2> QED
    BY <2>1, WorkerStill, CallFailsShape
<1>21. ASSUME NEW w \in Workers, MarkSent(w) PROVE Course(x)
  <2>1. /\ Busy(w) /\ hd' = hd /\ wa' = wa /\ job' = job /\ Clean(x) /\ SetStatus(w, "SENT")
    BY <1>21 DEF MarkSent, Busy, Clean
  <2>2. /\ \A v \in Workers : v # w => wk'[v] = wk[v]
        /\ wk'[w].out = "SENT" /\ wk'[w].job = wk[w].job
    BY <2>1 DEF SetStatus, IInv, TypeOK, Worker
  <2>3. msg'[Target(w)].st = "SENT"
    BY <2>1, SettleShape
  <2>4. Delivered(w)'
    BY <2>2 DEF Delivered
  <2> QED
    BY <2>1, <2>2, <2>3, <2>4, WorkerStill
<1>22. ASSUME NEW w \in Workers, MarkSentFails(w) PROVE Course(x)
  <2>1. Busy(w) /\ hd' = hd /\ wa' = wa /\ Caught(w, Internal)
    BY <1>22 DEF MarkSentFails, Busy
  <2>2. Clean(x) /\ Target(w) # x
    BY <1>22, NoteSpares DEF MarkSentFails, Repeatable
  <2> QED
    BY <2>1, <2>2, WorkerStill, CaughtShape
<1>23. ASSUME NEW w \in Workers, AnnounceStatusFails(w) PROVE Course(x)
  <2>1. Busy(w) /\ hd' = hd /\ wa' = wa
    BY <1>23 DEF AnnounceStatusFails, Busy
  <2>2. CASE Caught(w, Internal) /\ Note(Target(w), "unknown")
    <3>1. Clean(x) /\ Target(w) # x
      BY <2>2, NoteSpares DEF Repeatable
    <3> QED
      BY <2>1, <2>2, <3>1, WorkerStill, CaughtShape
  <2>3. CASE wk[w].out = "FAILED" /\ ThrowJob(w)
    <3>1. Clean(x)
      BY <2>1, <2>3, ThrowJobShape DEF Clean, Repeatable
    <3>2. ~ Delivered(w)
      BY <1>23, <2>3 DEF AnnounceStatusFails, Delivered
    <3> QED
      BY <2>1, <2>3, <3>1, <3>2, WorkerStill, ThrowJobShape DEF Target
  <2> QED
    BY <1>23, <2>2, <2>3 DEF AnnounceStatusFails
<1>24. ASSUME NEW w \in Workers, GiveUp(w) PROVE Course(x)
  <2>1. Busy(w) /\ ~ Delivered(w) /\ hd' = hd /\ wa' = wa /\ job' = job /\ Clean(x)
    BY <1>24 DEF GiveUp, Busy, Clean, Delivered, IInv, OutcomeIsWritten
  <2>2. \A v \in Workers : v # w => wk'[v] = wk[v]
    BY <1>24 DEF GiveUp, SetStatus, IInv, TypeOK
  <2> QED
    BY <2>1, <2>2, WorkerStill
<1>25. ASSUME NEW w \in Workers, GiveUpFails(w) PROVE Course(x)
  <2>1. Busy(w) /\ ~ Delivered(w) /\ hd' = hd /\ wa' = wa /\ ThrowJob(w)
    BY <1>25 DEF GiveUpFails, Busy, Delivered, IInv, OutcomeIsWritten
  <2>2. Clean(x)
    BY <2>1, ThrowJobShape DEF Clean, Repeatable
  <2> QED
    BY <2>1, <2>2, WorkerStill, ThrowJobShape DEF Target
<1>26. ASSUME NEW w \in Workers, WorkerCrash(w) PROVE Course(x)
  <2>1. Busy(w) /\ hd' = hd /\ wa' = wa
    BY <1>26 DEF WorkerCrash, Busy
  <2>2. Clean(x) /\ (Delivered(w) => Target(w) # x)
    BY <1>26 DEF WorkerCrash, Clean, Repeatable, Target, IInv, TypeOK
  <2>3. /\ \A v \in Workers : v # w => wk'[v] = wk[v]
        /\ \A i \in Jobs : i # wk[w].job => job'[i] = job[i]
        /\ job'[wk[w].job] = Stalled(wk[w].job)
    BY <1>26, <2>1, BusyTarget DEF WorkerCrash, IInv, TypeOK
  <2>4. Stalled(wk[w].job).st = "free" \/ Stalled(wk[w].job).m = job[wk[w].job].m
    BY <2>1, BusyTarget, StalledType DEF IInv, FreeJob
  <2> QED
    BY <2>1, <2>2, <2>3, <2>4, WorkerStill
<1>27. ASSUME NEW w \in Workers, StaleScan(w) PROVE Course(x)
  BY <1>27, QuietCourse DEF StaleScan, Clean, Carries, Queues
<1>28. ASSUME NEW w \in Workers, NEW m \in Msgs, StaleRequeue(w, m) PROVE Course(x)
  <2>1. Clean(x) /\ m # x /\ hd' = hd /\ wk' = wk /\ wa' = wa
    BY <1>28, NoteSpares DEF StaleRequeue, Repeatable
  <2>2. \A j \in Jobs : Queues(j, x)' => Queues(j, x)
    BY <1>28, <2>1 DEF StaleRequeue, AddJob, FreeJob, Queues, IInv, TypeOK
  <2>3. \A i \in Jobs : job[i].st = "active" => job'[i] = job[i]
    BY <1>28 DEF StaleRequeue, AddJob, IInv, TypeOK
  <2> QED
    BY <2>1, <2>2, <2>3, QuietCourse DEF Carries
<1>29. ASSUME NEW w \in Workers, NEW m \in Msgs, StaleRequeueFails(w, m) PROVE Course(x)
  BY <1>29, QuietCourse DEF StaleRequeueFails, Clean, Carries, Queues
<1>30. ASSUME NEW m \in Msgs, GrowStale(m) PROVE Course(x)
  BY <1>30, QuietCourse DEF GrowStale, Clean, Carries, Queues
<1>31. ASSUME NEW m \in Msgs, DeleteMessage(m) PROVE Course(x)
  BY <1>31, QuietCourse DEF DeleteMessage, Clean, Carries, Queues
<1>33. ASSUME NEW h \in Handlers, AnnounceQueueFailure(h) PROVE Course(x)
  <2>1. \A g \in Handlers : Carries(g, x)' => Carries(g, x)
    BY <1>33 DEF AnnounceQueueFailure, Carries, Handler, IInv, TypeOK
  <2> QED
    BY <1>33, <2>1, QuietCourse DEF AnnounceQueueFailure, Clean, Queues
<1>34. ASSUME NEW h \in Handlers, RecordQueueFailure(h) PROVE Course(x)
  <2>1. Clean(x)
    BY <1>34, NoteSpares DEF RecordQueueFailure, RecordAudit, Clean
  <2>2. \A g \in Handlers : Carries(g, x)' => Carries(g, x)
    <3>1. CASE hd[h].kind = "forward"
      BY <1>34, <3>1 DEF RecordQueueFailure, Carries, Handler, IInv, TypeOK
    <3>2. CASE hd[h].kind # "forward"
      BY <1>34, <3>2, AdvanceCarries DEF RecordQueueFailure
    <3> QED
      BY <3>1, <3>2
  <2> QED
    BY <1>34, <2>1, <2>2, QuietCourse DEF RecordQueueFailure, Queues
<1>35. ASSUME NEW w \in Workers, AnnounceStatus(w) PROVE Course(x)
  <2>1. Busy(w) /\ hd' = hd /\ wa' = wa /\ job' = job /\ Clean(x) /\ wk[w].pc # "mark"
    BY <1>35 DEF AnnounceStatus, Busy, Clean
  <2>2. /\ \A v \in Workers : v # w => wk'[v] = wk[v]
        /\ wk'[w].out = wk[w].out /\ wk'[w].job = wk[w].job
    BY <1>35 DEF AnnounceStatus, IInv, TypeOK, Worker
  <2>3. Delivered(w) => Delivered(w)'
    BY <2>1, <2>2 DEF Delivered
  <2> QED
    BY <2>1, <2>2, <2>3, WorkerStill
<1>36. ASSUME NEW w \in Workers, RecordStatus(w) PROVE Course(x)
  <2>1. Busy(w) /\ hd' = hd /\ wa' = wa /\ Complete(w) /\ wk[w].pc # "mark"
    BY <1>36 DEF RecordStatus, Busy
  <2>2. Clean(x)
    BY <1>36, NoteSpares DEF RecordStatus, RecordAudit, Clean
  <2> QED
    BY <2>1, <2>2, CompleteShape, WorkerStill
<1>32. CASE UNCHANGED vars
  BY <1>32, QuietCourse DEF vars, Clean, Carries, Queues
<1> QED
  BY <1>1, <1>2, <1>3, <1>4, <1>5, <1>6, <1>7, <1>8, <1>9, <1>10, <1>11, <1>12, <1>13, <1>14,
     <1>15, <1>16, <1>17, <1>18, <1>19, <1>20, <1>21, <1>22, <1>23, <1>24, <1>25, <1>26, <1>27,
     <1>28, <1>29, <1>30, <1>31, <1>32, <1>33, <1>34, <1>35, <1>36
     DEF Next, Request, HandlerStep, WorkerStep,
     ProviderStep, MonitorStep

-----------------------------------------------------------------------------
(* A message is delivered at most once, and FAILED only when it was not *)

\* Nobody knows a message before its row exists.
Fresh(m) ==
  msg[m].st = "absent" =>
    /\ ~ Accepted(m)
    /\ \A h \in Handlers : ~ Carries(h, m)
    /\ \A j \in Jobs : ~ Queues(j, m)
    /\ \A w \in Workers : m \notin mon[w]

LEMMA AcceptedTargets ==
  ASSUME IInv, NEW x \in Msgs, NEW w \in Workers, Busy(w), Fresh(x), Accept(w)
  PROVE  Accepted(x)' /\ ~ Accepted(x) => msg[x].st # "absent"
<1>1. wa \in Seq(Msgs) /\ wa' = Append(wa, Target(w)) /\ Target(w) \in Msgs
  BY BusyTarget DEF IInv, TypeOK, Accept
<1>2. Accepted(x)' /\ ~ Accepted(x) => Target(w) = x
  BY <1>1 DEF Accepted
<1>3. Target(w) = x => Queues(wk[w].job, x) /\ wk[w].job \in Jobs
  BY BusyTarget DEF Queues, Target
<1> QED
  BY <1>2, <1>3 DEF Fresh

\* A worker that settles, announces or records its message, or gives it back.
LEMMA WorkerFresh ==
  ASSUME IInv, NEW x \in Msgs, Fresh(x), NEW w \in Workers, Busy(w), hd' = hd, mon' = mon, wa' = wa,
         msg'[x].st = "absent" => msg[x].st = "absent",
         \A i \in Jobs : i # wk[w].job => job'[i] = job[i],
         job'[wk[w].job].st = "free" \/ job'[wk[w].job].m = job[wk[w].job].m
  PROVE  Fresh(x)'
<1>1. \A i \in Jobs : Queues(i, x)' => Queues(i, x)
  BY BusyTarget DEF Queues
<1> QED
  BY <1>1 DEF Fresh, Carries, Accepted

LEMMA FreshStep ==
  ASSUME IInv, [Next]_vars, NEW x \in Msgs, Fresh(x)
  PROVE  Fresh(x)'
<1>1. ASSUME NEW h \in Handlers, NEW m \in Msgs, SendMessage(h, m) PROVE Fresh(x)'
    BY <1>1 DEF SendMessage, InsertPending, NewMessage, IdleHandler, Fresh, Carries, Queues,
     Accepted, IInv, TypeOK, Message
<1>2. ASSUME NEW h \in Handlers, NEW S \in SUBSET Msgs, ForwardRequest(h, S)
       PROVE Fresh(x)'
    BY <1>2 DEF ForwardRequest, IdleHandler, Fresh, Carries, Queues, Accepted, IInv, TypeOK,
     Message
<1>3. ASSUME NEW h \in Handlers, NEW m \in Msgs, ForwardNext(h, m) PROVE Fresh(x)'
    BY <1>3 DEF ForwardNext, InsertPending, NewMessage, Handler, Fresh, Carries, Queues,
     Accepted, IInv, TypeOK, Message
<1>4. ASSUME NEW h \in Handlers, NEW m \in Msgs, NEW force \in BOOLEAN, ReprocessCheck(h, m, force)
       PROVE Fresh(x)'
    BY <1>4 DEF ReprocessCheck, IdleHandler, Fresh, Carries, Queues, Accepted, IInv, TypeOK,
     Message
<1>5. ASSUME NEW h \in Handlers, ReprocessReset(h) PROVE Fresh(x)'
    BY <1>5 DEF ReprocessReset, ResetToPending, Exists, Statuses, Handler,
     CarriersHaveMessages, Fresh, Carries, Queues, Accepted, IInv, TypeOK, Message
<1>6. ASSUME NEW h \in Handlers, ReprocessFailedSelect(h) PROVE Fresh(x)'
    BY <1>6 DEF ReprocessFailedSelect, IdleHandler, Fresh, Carries, Queues, Accepted, IInv,
     TypeOK, Message
<1>7. ASSUME NEW h \in Handlers, NEW m \in Msgs, ReprocessFailedNext(h, m) PROVE Fresh(x)'
    BY <1>7 DEF ReprocessFailedNext, ResetToPending, Exists, Statuses, Handler, Fresh, Carries,
     Queues, Accepted, IInv, TypeOK, Message
<1>8. ASSUME NEW h \in Handlers, RowMissing(h) PROVE Fresh(x)'
    BY <1>8 DEF RowMissing, IdleHandler, Fresh, Carries, Queues, Accepted, IInv, TypeOK,
     Message
<1>9. ASSUME NEW h \in Handlers, Enqueue(h) PROVE Fresh(x)'
    BY <1>9 DEF Enqueue, AddJob, Handler, FreeJob, Fresh, Carries, Queues, Accepted, IInv,
     TypeOK, Message
<1>10. ASSUME NEW h \in Handlers, EnqueueResent(h) PROVE Fresh(x)'
    BY <1>10 DEF EnqueueResent, AddJob, FreeJob, Fresh, Carries, Queues, Accepted, IInv,
     TypeOK, Message
<1>11. ASSUME NEW h \in Handlers, EnqueueFails(h) PROVE Fresh(x)'
    BY <1>11 DEF EnqueueFails, Handler, Fresh, Carries, Queues, Accepted, IInv, TypeOK, Message
<1>12. ASSUME NEW h \in Handlers, MarkQueueFailure(h) PROVE Fresh(x)'
    BY <1>12 DEF MarkQueueFailure, Advance, Handler, IdleHandler, Exists, Statuses, Fresh,
     Carries, Queues, Accepted, IInv, TypeOK, Message
<1>13. ASSUME NEW h \in Handlers, PublishQueued(h) PROVE Fresh(x)'
    BY <1>13 DEF PublishQueued, Advance, Handler, IdleHandler, Fresh, Carries, Queues,
     Accepted, IInv, TypeOK, Message
<1>14. ASSUME NEW h \in Handlers, HandlerCrash(h) PROVE Fresh(x)'
  <2>1. msg' = msg /\ job' = job /\ mon' = mon /\ wa' = wa /\ hd' = [hd EXCEPT ![h] = IdleHandler]
    BY <1>14 DEF HandlerCrash
  <2>2. \A g \in Handlers : Carries(g, x)' => Carries(g, x)
    BY <2>1 DEF Carries, IdleHandler, IInv, TypeOK
  <2> QED
    BY <2>1, <2>2 DEF Fresh, Queues, Accepted
<1>15. ASSUME NEW w \in Workers, NEW j \in Jobs, Fetch(w, j) PROVE Fresh(x)'
    BY <1>15 DEF Fetch, Job, Fresh, Carries, Queues, Accepted, IInv, TypeOK, Message
<1>16. ASSUME NEW w \in Workers, NEW j \in Jobs, FetchFails(w, j) PROVE Fresh(x)'
  <2>1. /\ msg' = msg /\ hd' = hd /\ mon' = mon /\ wa' = wa
        /\ job[j].st = "waiting" /\ job'[j] = Thrown(j)
        /\ \A i \in Jobs : i # j => job'[i] = job[i]
    BY <1>16 DEF FetchFails, IInv, TypeOK
  <2>2. \A i \in Jobs : Queues(i, x)' => Queues(i, x)
    BY <2>1, ThrownType DEF Queues, FreeJob, IInv
  <2> QED
    BY <2>1, <2>2 DEF Fresh, Carries, Accepted
<1>17. ASSUME NEW w \in Workers, SkipProvider(w) PROVE Fresh(x)'
    BY <1>17 DEF SkipProvider, Fresh, Carries, Queues, Accepted, IInv, TypeOK, Message
<1>18. ASSUME NEW w \in Workers, ProviderAccepts(w) PROVE Fresh(x)'
  <2>1. /\ Busy(w) /\ Accept(w) /\ msg' = msg /\ hd' = hd /\ mon' = mon /\ job' = job
    BY <1>18 DEF ProviderAccepts, Calling, Busy
  <2> QED
    BY <2>1, AcceptedTargets DEF Fresh, Carries, Queues
<1>19. ASSUME NEW w \in Workers, NEW e \in Errors \cup {Internal}, ProviderAcceptsAnswerLost(w, e)
       PROVE Fresh(x)'
  <2>1. /\ Busy(w) /\ CallFails(w, e) /\ hd' = hd /\ mon' = mon /\ Accept(w)
        /\ msg'[x].st = "absent" => msg[x].st = "absent"
    BY <1>19 DEF ProviderAcceptsAnswerLost, Busy, Calling
  <2>2. \A i \in Jobs : Queues(i, x)' => Queues(i, x)
    BY <2>1, BusyTarget, CallFailsShape DEF Queues
  <2> QED
    BY <2>1, <2>2, AcceptedTargets DEF Fresh, Carries
<1>20. ASSUME NEW w \in Workers, NEW e \in Errors \cup {Internal}, ProviderRejects(w, e)
       PROVE Fresh(x)'
  <2>1. /\ Busy(w) /\ CallFails(w, e) /\ hd' = hd /\ mon' = mon /\ wa' = wa
        /\ msg'[x].st = "absent" => msg[x].st = "absent"
    BY <1>20 DEF ProviderRejects, Busy, Calling
  <2>2. \A i \in Jobs : Queues(i, x)' => Queues(i, x)
    BY <2>1, BusyTarget, CallFailsShape DEF Queues
  <2> QED
    BY <2>1, <2>2 DEF Fresh, Carries, Accepted
<1>21. ASSUME NEW w \in Workers, MarkSent(w) PROVE Fresh(x)'
  <2>1. msg'[x].st = "absent" => msg[x].st = "absent"
    BY <1>21, SettleShape DEF MarkSent, Busy
  <2> QED
    BY <1>21, <2>1, WorkerFresh DEF MarkSent, Busy
<1>22. ASSUME NEW w \in Workers, MarkSentFails(w) PROVE Fresh(x)'
  <2>1. /\ Busy(w) /\ Caught(w, Internal) /\ hd' = hd /\ mon' = mon /\ wa' = wa
        /\ msg'[x].st = "absent" => msg[x].st = "absent"
    BY <1>22 DEF MarkSentFails, Busy
  <2>2. \A i \in Jobs : Queues(i, x)' => Queues(i, x)
    BY <2>1, BusyTarget, CaughtShape DEF Queues
  <2> QED
    BY <2>1, <2>2 DEF Fresh, Carries, Accepted
<1>23. ASSUME NEW w \in Workers, AnnounceStatusFails(w) PROVE Fresh(x)'
  <2>1. CASE Caught(w, Internal)
    BY <1>23, <2>1, CaughtShape, WorkerFresh DEF AnnounceStatusFails, Busy
  <2>2. CASE ThrowJob(w)
    BY <1>23, <2>2, ThrowJobShape, WorkerFresh DEF AnnounceStatusFails, Busy, Target
  <2> QED
    BY <1>23, <2>1, <2>2 DEF AnnounceStatusFails
<1>24. ASSUME NEW w \in Workers, GiveUp(w) PROVE Fresh(x)'
  <2>1. msg'[x].st = "absent" => msg[x].st = "absent"
    BY <1>24, SettleShape DEF GiveUp, Busy
  <2> QED
    BY <1>24, <2>1, WorkerFresh DEF GiveUp, Busy
<1>25. ASSUME NEW w \in Workers, GiveUpFails(w) PROVE Fresh(x)'
  BY <1>25, ThrowJobShape, WorkerFresh DEF GiveUpFails, Busy, Target
<1>26. ASSUME NEW w \in Workers, WorkerCrash(w) PROVE Fresh(x)'
  <2>1. /\ Busy(w) /\ hd' = hd /\ wa' = wa
        /\ msg'[x].st = "absent" => msg[x].st = "absent"
        /\ \A v \in Workers : mon'[v] \subseteq mon[v]
    BY <1>26 DEF WorkerCrash, Busy, Exists, Statuses, IInv, TypeOK, Message
  <2>2. /\ \A i \in Jobs : i # wk[w].job => job'[i] = job[i]
        /\ job'[wk[w].job] = Stalled(wk[w].job)
    BY <1>26, <2>1, BusyTarget DEF WorkerCrash, IInv, TypeOK
  <2>3. \A i \in Jobs : Queues(i, x)' => Queues(i, x)
    BY <2>1, <2>2, BusyTarget, StalledType DEF Queues, FreeJob, IInv
  <2> QED
    BY <2>1, <2>3 DEF Fresh, Carries, Accepted
<1>27. ASSUME NEW w \in Workers, StaleScan(w) PROVE Fresh(x)'
    BY <1>27 DEF StaleScan, Oldest, StalePending, Fresh, Carries, Queues, Accepted, IInv,
     TypeOK, Message
<1>28. ASSUME NEW w \in Workers, NEW m \in Msgs, StaleRequeue(w, m) PROVE Fresh(x)'
    BY <1>28 DEF StaleRequeue, AddJob, FreeJob, Oldest, Fresh, Carries, Queues, Accepted, IInv,
     TypeOK, Message
<1>29. ASSUME NEW w \in Workers, NEW m \in Msgs, StaleRequeueFails(w, m) PROVE Fresh(x)'
    BY <1>29 DEF StaleRequeueFails, Oldest, Fresh, Carries, Queues, Accepted, IInv, TypeOK,
     Message
<1>30. ASSUME NEW m \in Msgs, GrowStale(m) PROVE Fresh(x)'
    BY <1>30 DEF GrowStale, Exists, Statuses, Fresh, Carries, Queues, Accepted, IInv, TypeOK,
     Message
<1>31. ASSUME NEW m \in Msgs, DeleteMessage(m) PROVE Fresh(x)'
    BY <1>31 DEF DeleteMessage, Exists, Statuses, Fresh, Carries, Queues, Accepted, IInv,
     TypeOK, Message
<1>33. ASSUME NEW h \in Handlers, AnnounceQueueFailure(h) PROVE Fresh(x)'
  BY <1>33 DEF AnnounceQueueFailure, Handler, Fresh, Carries, Queues, Accepted, IInv, TypeOK
<1>34. ASSUME NEW h \in Handlers, RecordQueueFailure(h) PROVE Fresh(x)'
  <2>1. \A g \in Handlers : Carries(g, x)' => Carries(g, x)
    <3>1. CASE hd[h].kind = "forward"
      BY <1>34, <3>1 DEF RecordQueueFailure, Carries, Handler, IInv, TypeOK
    <3>2. CASE hd[h].kind # "forward"
      BY <1>34, <3>2, AdvanceCarries DEF RecordQueueFailure
    <3> QED
      BY <3>1, <3>2
  <2> QED
    BY <1>34, <2>1 DEF RecordQueueFailure, Fresh, Queues, Accepted
<1>35. ASSUME NEW w \in Workers, AnnounceStatus(w) PROVE Fresh(x)'
  BY <1>35, WorkerFresh DEF AnnounceStatus, Busy
<1>36. ASSUME NEW w \in Workers, RecordStatus(w) PROVE Fresh(x)'
  BY <1>36, CompleteShape, WorkerFresh DEF RecordStatus, Busy
<1>32. CASE UNCHANGED vars
    BY <1>32 DEF vars, Fresh, Carries, Queues, Accepted, IInv, TypeOK, Message
<1> QED
  BY <1>1, <1>2, <1>3, <1>4, <1>5, <1>6, <1>7, <1>8, <1>9, <1>10, <1>11, <1>12, <1>13, <1>14,
     <1>15, <1>16, <1>17, <1>18, <1>19, <1>20, <1>21, <1>22, <1>23, <1>24, <1>25, <1>26, <1>27,
     <1>28, <1>29, <1>30, <1>31, <1>32, <1>33, <1>34, <1>35, <1>36
     DEF Next, Request, HandlerStep, WorkerStep,
     ProviderStep, MonitorStep

\* A clean message has at most one request or job; once the provider accepted
\* it, that is the job whose worker is about to record it, or none; and its row
\* does not say FAILED, or is about to be corrected.
OneTicket(m) ==
  Clean(m) =>
    /\ \A g, h \in Handlers : Carries(g, m) /\ Carries(h, m) => g = h
    /\ \A i, j \in Jobs : Queues(i, m) /\ Queues(j, m) => i = j
    /\ \A h \in Handlers, j \in Jobs : ~ (Carries(h, m) /\ Queues(j, m))
    /\ Accepted(m) =>
         /\ \A h \in Handlers : ~ Carries(h, m)
         /\ \A j \in Jobs : Queues(j, m) =>
              \E w \in Workers : Delivered(w) /\ wk[w].job = j
    /\ \A i, k \in 1 .. Len(wa) : wa[i] = m /\ wa[k] = m => i = k
    /\ msg[m].st = "FAILED" /\ Accepted(m) =>
         \E w \in Workers, j \in Jobs : wk[w].pc = "mark" /\ wk[w].job = j /\ Queues(j, m)

TicketInv == IInv /\ \A m \in Msgs : Fresh(m) /\ OneTicket(m)

\* A delivered message is delivered by the worker that runs its only job.
LEMMA SenderIsFirst ==
  ASSUME IInv, NEW x \in Msgs, OneTicket(x), Clean(x), NEW w \in Workers,
         wk[w].pc \in {"send", "fallback", "give_up"}, Target(w) = x
  PROVE  /\ wk[w].job \in Jobs /\ Queues(wk[w].job, x) /\ ~ Accepted(x)
         /\ \A h \in Handlers : ~ Carries(h, x)
         /\ \A j \in Jobs : Queues(j, x) => j = wk[w].job
<1>1. Busy(w)
  BY DEF Busy
<1>2. wk[w].job \in Jobs /\ Queues(wk[w].job, x)
  BY <1>1, BusyTarget DEF Queues, Target
<1>3. \A v \in Workers : Delivered(v) => wk[v].job # wk[w].job
  BY <1>1 DEF IInv, JobsAreExclusive, OutcomeIsWritten, Delivered, Busy
<1> QED
  BY <1>2, <1>3 DEF OneTicket

LEMMA TicketStep ==
  ASSUME IInv, [Next]_vars, NEW x \in Msgs, Fresh(x), OneTicket(x)
  PROVE  OneTicket(x)'
<1> SUFFICES ASSUME Clean(x)' PROVE OneTicket(x)'
  BY DEF OneTicket
<1>1. Course(x) /\ Clean(x) /\ wa \in Seq(Msgs)
  BY CourseStep DEF Course, IInv, TypeOK
<1>2. /\ msg'[x].st = "FAILED" =>
           \/ msg[x].st = "FAILED"
           \/ \E h \in Handlers : Carries(h, x)
           \/ \E w \in Workers : wk[w].pc = "give_up" /\ Target(w) = x
  BY RowsStep DEF RowsFollowAnswers, Carries
<1>3. msg'[x].st = "FAILED" /\ Accepted(x) => msg[x].st = "FAILED"
  BY <1>1, <1>2, SenderIsFirst DEF OneTicket
<1>4. CASE Still(x)
  <2>1. Accepted(x)' <=> Accepted(x)
    BY <1>1, <1>4 DEF Still, Accepted
  <2>2. \A i, k \in 1 .. Len(wa') : wa'[i] = x /\ wa'[k] = x => i = k
    BY <1>1, <1>4 DEF Still, OneTicket
  <2>3. ASSUME Accepted(x), NEW j \in Jobs, Queues(j, x)'
        PROVE  \E w \in Workers : Delivered(w)' /\ wk'[w].job = j
    <3>1. PICK w \in Workers : Delivered(w) /\ wk[w].job = j
      BY <1>1, <1>4, <2>3 DEF Still, OneTicket
    <3> QED
      BY <1>4, <2>3, <3>1 DEF Still
  <2>4. msg'[x].st = "FAILED" /\ Accepted(x) =>
          \E w \in Workers, j \in Jobs : wk'[w].pc = "mark" /\ wk'[w].job = j /\ Queues(j, x)'
    BY <1>1, <1>3, <1>4 DEF Still, OneTicket
  <2> QED
    BY <1>1, <1>4, <2>1, <2>2, <2>3, <2>4 DEF Still, OneTicket
<1>5. CASE Inserts(x)
  <2>1. ~ Accepted(x)' /\ \A h \in Handlers : ~ Carries(h, x)
    BY <1>5 DEF Inserts, Fresh, Accepted
  <2>2. \A j \in Jobs : ~ Queues(j, x)'
    BY <1>5 DEF Inserts, Fresh, Queues
  <2>3. \A g, h \in Handlers : Carries(g, x)' /\ Carries(h, x)' => g = h
    BY <1>5, <2>1 DEF Inserts
  <2>4. \A i, k \in 1 .. Len(wa') : wa'[i] = x /\ wa'[k] = x => i = k
    BY <1>1, <1>5 DEF Inserts, OneTicket
  <2> QED
    BY <2>1, <2>2, <2>3, <2>4 DEF OneTicket
<1>6. CASE Enqueues(x)
  <2>1. PICK h \in Handlers : /\ Carries(h, x) /\ ~ Carries(h, x)'
                             /\ \A g \in Handlers : Carries(g, x)' => Carries(g, x)
    BY <1>6 DEF Enqueues
  <2>2. /\ \A g \in Handlers : ~ Carries(g, x)'
        /\ \A j \in Jobs : ~ Queues(j, x)
        /\ ~ Accepted(x)
    BY <1>1, <2>1 DEF OneTicket
  <2>3. \A i, j \in Jobs : Queues(i, x)' /\ Queues(j, x)' => i = j
    BY <1>6, <2>2 DEF Enqueues
  <2>4. ~ Accepted(x)' /\ \A i, k \in 1 .. Len(wa') : wa'[i] = x /\ wa'[k] = x => i = k
    BY <1>1, <1>6, <2>2 DEF Enqueues, OneTicket, Accepted
  <2> QED
    BY <2>2, <2>3, <2>4 DEF OneTicket
<1>7. CASE Delivers(x)
  <2>1. PICK w \in Workers : /\ wk[w].pc \in {"send", "fallback"} /\ Target(w) = x
                            /\ wk'[w].pc = "mark" /\ wk'[w].job = wk[w].job
    BY <1>7 DEF Delivers
  <2>2. /\ wk[w].job \in Jobs /\ Queues(wk[w].job, x) /\ ~ Accepted(x)
        /\ \A h \in Handlers : ~ Carries(h, x)
        /\ \A j \in Jobs : Queues(j, x) => j = wk[w].job
    BY <1>1, <2>1, SenderIsFirst
  <2>3. /\ \A h \in Handlers : ~ Carries(h, x)'
        /\ \A j \in Jobs : Queues(j, x)' <=> Queues(j, x)
    BY <1>7, <2>2 DEF Delivers, Carries, Queues
  <2>4. \A i, k \in 1 .. Len(wa') : wa'[i] = x /\ wa'[k] = x => i = k
    BY <1>1, <1>7, <2>2 DEF Delivers, Accepted
  <2>5. Delivered(w)'
    BY <2>1 DEF Delivered
  <2> QED
    BY <2>1, <2>2, <2>3, <2>4, <2>5 DEF OneTicket
<1> QED
  BY <1>1, <1>4, <1>5, <1>6, <1>7 DEF Course

LEMMA TicketInductive == Spec => []TicketInv
<1>1. Init => TicketInv
  <2> SUFFICES ASSUME Init, NEW m \in Msgs PROVE Fresh(m) /\ OneTicket(m)
    BY InitIInv DEF TicketInv
  <2> QED
    BY DEF Init, Fresh, OneTicket, Accepted, Carries, Queues, IdleHandler, FreeJob, NewMessage
<1>2. TicketInv /\ [Next]_vars => TicketInv'
  <2> SUFFICES ASSUME TicketInv, [Next]_vars PROVE TicketInv'
    OBVIOUS
  <2>1. IInv /\ IInv' /\ \A m \in Msgs : Fresh(m) /\ OneTicket(m)
    BY IInvStep DEF TicketInv
  <2>2. \A m \in Msgs : Fresh(m)' /\ OneTicket(m)'
    BY <2>1, FreshStep, TicketStep
  <2> QED
    BY <2>1, <2>2 DEF TicketInv
<1> QED
  BY <1>1, <1>2, PTL DEF Spec

\* The customer receives a message once, unless an acceptance was missed or a
\* second job was queued: with any number of workers, queue slots and failures,
\* no two jobs of a clean message ever exist and none is sent twice.
THEOREM DeliveredAtMostOnce == Spec => []DeliveredOnce
<1>1. TicketInv => DeliveredOnce
  BY DEF TicketInv, OneTicket, DeliveredOnce, Clean
<1> QED
  BY <1>1, TicketInductive, PTL

\* A message whose row says FAILED did not reach the customer, unless an
\* acceptance was missed, a second job was queued, or its worker is about to
\* correct the row.
THEOREM FailedStaysUndelivered == Spec => []FailedWasNotDelivered
<1>1. TicketInv => FailedWasNotDelivered
  BY DEF TicketInv, OneTicket, FailedWasNotDelivered, Clean, Queues, Target
<1> QED
  BY <1>1, TicketInductive, PTL
=============================================================================
