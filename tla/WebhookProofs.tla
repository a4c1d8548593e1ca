--------------------------- MODULE WebhookProofs ---------------------------
(***************************************************************************)
(* Safety of the webhook handler for any messages, texts, number of        *)
(* requests and bounds.                                                    *)
(***************************************************************************)
EXTENDS WebhookInbound, FiniteSetTheorems, TLAPS

\* A request that runs works on a message.
LiveHasMessage == \A r \in Requests : Live(r) => rq[r].x \in Ids

TInv == TypeOK /\ LiveHasMessage

-----------------------------------------------------------------------------
(* Types *)

LEMMA ClaimsAreTyped ==
  ASSUME NEW c \in Claim, NEW r \in Requests
  PROVE  Claimed(c, r) \in Claim /\ Completed(c, r) \in Claim /\ Released(c, r) \in Claim
BY DEF Claim, Claimed, Completed, Released, Vacant, Held, Free

LEMMA KeyStepTyped ==
  ASSUME TypeOK, NEW x, NEW a, NEW b, NEW call, x \in Ids => a \in Claim /\ b \in Claim,
         OnKey(x, a, b, call)
  PROVE  redis' \in [Ids -> Claim] /\ memory' \in [Ids -> Claim]
BY DEF TypeOK, OnKey

LEMMA FaultTyped ==
  ASSUME TypeOK, NEW xs, NEW what \in Incident, Fault(xs, what)
  PROVE  taint' \in [Ids -> SUBSET Incident] /\ faults' \in 0 .. MaxFaults
BY WebhookAssumption DEF TypeOK, Fault, WebhookAssumption

LEMMA AnsweredTyped ==
  ASSUME TypeOK, NEW x, NEW call, Answered(x, call)
  PROVE  taint' \in [Ids -> SUBSET Incident] /\ faults' \in 0 .. MaxFaults
<1>1. "redis" \in Incident
  BY DEF Incident
<1>2. CASE call = "ok"
  BY <1>2 DEF Answered, TypeOK
<1>3. CASE call # "ok"
  <2>1. Fault({x}, "redis")
    BY <1>3 DEF Answered
  <2> QED
    BY <1>1, <2>1, FaultTyped
<1> QED
  BY <1>2, <1>3

LEMMA RequestsFinite ==
  ASSUME NEW S \in SUBSET Requests
  PROVE  IsFiniteSet(S) /\ Cardinality(S) \in Nat
<1>1. IsFiniteSet(S)
  BY WebhookAssumption, FS_Subset DEF WebhookAssumption
<1> QED
  BY <1>1, FS_CardinalityType

LEMMA TypeInit == Init => TInv
<1> SUFFICES ASSUME Init PROVE TInv
  OBVIOUS
<1>1. redis \in [Ids -> Claim] /\ memory \in [Ids -> Claim]
  BY DEF Init, Claim, Free
<1>2. rows \in [RowIds -> Row] /\ order \in Seq(RowIds)
  BY DEF Init, Row, Absent
<1>3. rq \in [Requests -> Request] /\ \A r \in Requests : ~ Live(r)
  BY DEF Init, Request, Unused, Live
<1>4. faults \in 0 .. MaxFaults /\ lapses \in 0 .. MaxLapses
  BY WebhookAssumption DEF Init, WebhookAssumption
<1>5. /\ worker \in [Panel -> {"idle", "sending", "accepted", "done"}]
      /\ owed \in [Ids -> Nat] /\ acked \subseteq Ids
      /\ taint \in [Ids -> SUBSET Incident] /\ expired \subseteq Requests
  BY DEF Init
<1> QED
  BY <1>1, <1>2, <1>3, <1>4, <1>5 DEF TInv, TypeOK, LiveHasMessage

LEMMA TypeStep == TInv /\ [Next]_vars => TInv'
<1> SUFFICES ASSUME TInv, [Next]_vars PROVE TInv'
  OBVIOUS
<1> USE DEF TInv, LiveHasMessage
<1>a. TypeOK
  OBVIOUS
<1>b. Panel \subseteq Ids /\ Panel \subseteq RowIds /\ Requests \subseteq RowIds /\ FromMe \subseteq Ids
  BY DEF Ids, RowIds, FromMe
<1>1. ASSUME NEW r \in Requests, NEW x \in Ids, NEW call \in Calls, Acquire(r, x, call)
      PROVE  TInv'
  <2>1. redis' \in [Ids -> Claim] /\ memory' \in [Ids -> Claim]
    <3>1. OnKey(x, Claimed(redis[x], r), Claimed(memory[x], r), call)
      BY <1>1 DEF Acquire
    <3>2. Claimed(redis[x], r) \in Claim /\ Claimed(memory[x], r) \in Claim
      BY ClaimsAreTyped DEF TypeOK
    <3> QED
      BY <1>a, <3>1, <3>2, KeyStepTyped
  <2>2. taint' \in [Ids -> SUBSET Incident] /\ faults' \in 0 .. MaxFaults
    <3>1. Answered(x, call)
      BY <1>1 DEF Acquire
    <3> QED
      BY <1>a, <3>1, AnsweredTyped
  <2>3. rq' \in [Requests -> Request] /\ acked' \subseteq Ids /\ owed' \in [Ids -> Nat]
    BY <1>1 DEF Acquire, TypeOK, Request
  <2>4. \A s \in Requests : Live(s)' => rq'[s].x \in Ids
    BY <1>1, <1>a DEF Acquire, TypeOK, Request, Live
  <2>5. UNCHANGED <<rows, order, worker, expired, lapses>>
    BY <1>1 DEF Acquire
  <2> QED
    BY <1>a, <2>1, <2>2, <2>3, <2>4, <2>5 DEF TypeOK
<1>2. ASSUME NEW r \in Requests, NEW call \in Calls, Complete(r, call)
      PROVE  TInv'
  <2> DEFINE x == rq[r].x
  <2>0. x \in Ids
    BY <1>2 DEF Complete, Live
  <2>1. redis' \in [Ids -> Claim] /\ memory' \in [Ids -> Claim]
    <3>1. OnKey(x, Completed(redis[x], r), Completed(memory[x], r), call)
      BY <1>2 DEF Complete
    <3>2. Completed(redis[x], r) \in Claim /\ Completed(memory[x], r) \in Claim
      BY <2>0, ClaimsAreTyped DEF TypeOK
    <3> QED
      BY <1>a, <3>1, <3>2, KeyStepTyped
  <2>2. taint' \in [Ids -> SUBSET Incident] /\ faults' \in 0 .. MaxFaults
    <3>1. Answered(x, call)
      BY <1>2 DEF Complete
    <3> QED
      BY <1>a, <3>1, AnsweredTyped
  <2>3. rq' \in [Requests -> Request] /\ acked' \subseteq Ids
    BY <1>2, <2>0 DEF Complete, Goto, TypeOK, Request
  <2>4. \A s \in Requests : Live(s)' => rq'[s].x \in Ids
    BY <1>2, <1>a DEF Complete, Goto, TypeOK, Request, Live
  <2>5. UNCHANGED <<rows, order, worker, owed, expired, lapses>>
    BY <1>2 DEF Complete, Outside
  <2> QED
    BY <1>a, <2>1, <2>2, <2>3, <2>4, <2>5 DEF TypeOK
<1>3. ASSUME NEW r \in Requests, NEW call \in Calls, HandlerFails(r, call)
      PROVE  TInv'
  <2> DEFINE x == rq[r].x
  <2>0. x \in Ids
    BY <1>3 DEF HandlerFails, Live
  <2>1. redis' \in [Ids -> Claim] /\ memory' \in [Ids -> Claim]
    <3>1. OnKey(x, Released(redis[x], r), Released(memory[x], r), call)
      BY <1>3 DEF HandlerFails
    <3>2. Released(redis[x], r) \in Claim /\ Released(memory[x], r) \in Claim
      BY <2>0, ClaimsAreTyped DEF TypeOK
    <3> QED
      BY <1>a, <3>1, <3>2, KeyStepTyped
  <2>2. taint' \in [Ids -> SUBSET Incident] /\ faults' \in 0 .. MaxFaults
    <3>1. Fault({x}, IF call = "ok" THEN "failed" ELSE "redis")
      BY <1>3 DEF HandlerFails
    <3>2. (IF call = "ok" THEN "failed" ELSE "redis") \in Incident
      BY DEF Incident
    <3> QED
      BY <1>a, <3>1, <3>2, FaultTyped
  <2>3. rq' \in [Requests -> Request] /\ owed' \in [Ids -> Nat]
    <3>1. rq' \in [Requests -> Request]
      BY <1>3 DEF HandlerFails, Goto, TypeOK, Request
    <3>2. owed' = [owed EXCEPT ![x] = owed[x] + 1]
      BY <1>3 DEF HandlerFails
    <3>3. owed \in [Ids -> Nat] /\ owed[x] + 1 \in Nat
      BY <2>0 DEF TypeOK
    <3> QED
      BY <3>1, <3>2, <3>3
  <2>4. \A s \in Requests : Live(s)' => rq'[s].x \in Ids
    BY <1>3, <1>a DEF HandlerFails, Goto, TypeOK, Request, Live
  <2>5. UNCHANGED <<rows, order, worker, acked, expired, lapses>>
    BY <1>3 DEF HandlerFails
  <2> QED
    BY <1>a, <2>1, <2>2, <2>3, <2>4, <2>5 DEF TypeOK
<1>4. ASSUME NEW r \in Requests, Find(r) \/ Reconcile(r)
      PROVE  TInv'
  <2>1. rq[r].x \in Ids
    BY <1>4 DEF Find, Reconcile, Live
  <2>2. PICK i \in RowIds \cup {NoOne}, pc \in {"reconcile", "create", "answer", "sync", "adopt"} :
          rq' = [rq EXCEPT ![r].row = i, ![r].pc = pc]
    BY <1>4 DEF Find, Reconcile, Newest, RowsOf, EchoesOf, Rows
  <2>3. rq' \in [Requests -> Request]
    <3>1. rq \in [Requests -> Request]
      BY DEF TypeOK
    <3>2. [rq[r] EXCEPT !.row = i, !.pc = pc] \in Request
      BY <3>1 DEF Request
    <3>3. rq' = [rq EXCEPT ![r] = [rq[r] EXCEPT !.row = i, !.pc = pc]]
      BY <3>1, <2>2 DEF Request
    <3> QED
      BY <3>1, <3>2, <3>3
  <2>4. \A s \in Requests : Live(s)' => rq'[s].x \in Ids
    BY <2>1, <2>2, <1>a DEF TypeOK, Request, Live
  <2>5. UNCHANGED <<redis, memory, rows, order, worker, owed, acked, taint, expired, faults, lapses>>
    BY <1>4 DEF Find, Reconcile, Store, Outside, Counts
  <2> QED
    BY <1>a, <2>3, <2>4, <2>5 DEF TypeOK
<1>5. ASSUME NEW r \in Requests, Adopt(r) \/ Sync(r) \/ Create(r)
      PROVE  TInv'
  <2>1. rq[r].x \in Ids
    BY <1>5 DEF Adopt, Sync, Create, Live
  <2>2. rq' = [rq EXCEPT ![r].pc = "answer"]
    BY <1>5 DEF Adopt, Sync, Create, Goto
  <2>3. rq' \in [Requests -> Request]
    BY <2>2 DEF TypeOK, Request
  <2>4. \A s \in Requests : Live(s)' => rq'[s].x \in Ids
    BY <2>1, <2>2, <1>a DEF TypeOK, Request, Live
  <2>5. UNCHANGED <<redis, memory, worker, owed, acked, taint, expired, faults, lapses>>
    BY <1>5 DEF Adopt, Sync, Create, Store, Outside, Counts
  <2>6. rows' \in [RowIds -> Row]
    <3>0. rows \in [RowIds -> Row] /\ rq[r].x \in Ids
      BY <2>1 DEF TypeOK
    <3>1. CASE Adopt(r)
      <4> DEFINE i == rq[r].row
      <4>1. rows' = [rows EXCEPT ![i].st = "SENT", ![i].ext = rq[r].x]
        BY <3>1 DEF Adopt
      <4>2. CASE i \in RowIds
        <5>1. [rows[i] EXCEPT !.st = "SENT", !.ext = rq[r].x] \in Row
          BY <3>0, <4>2 DEF Row
        <5> QED
          BY <3>0, <4>1, <4>2, <5>1
      <4> QED
        BY <3>0, <4>1, <4>2
    <3>2. CASE Sync(r)
      BY <3>0, <3>2 DEF Sync, Row
    <3>3. CASE Create(r)
      <4>1. [st |-> "SENT", ext |-> rq[r].x, says |-> Text[rq[r].x],
             mine |-> rq[r].x \in FromMe, age |-> "new"] \in Row
        BY <3>0 DEF Row
      <4> QED
        BY <3>0, <3>3, <4>1 DEF Create
    <3> QED
      BY <1>5, <3>1, <3>2, <3>3
  <2>7. order' \in Seq(RowIds)
    <3>1. order \in Seq(RowIds) /\ r \in RowIds
      BY <1>b DEF TypeOK
    <3>2. order' = order \/ order' = Append(order, r)
      BY <1>5 DEF Adopt, Sync, Create
    <3> QED
      BY <3>1, <3>2
  <2> QED
    BY <1>a, <2>3, <2>4, <2>5, <2>6, <2>7 DEF TypeOK
<1>6. ASSUME NEW x \in Ids, Written(x) \/ (x \in Panel /\ Accepted(x))
      PROVE  TInv'
  <2>1. owed' \in [Ids -> Nat]
    <3>1. Posts(x)
      BY <1>6 DEF Written, Accepted
    <3> QED
      BY <3>1, WebhookAssumption DEF Posts, TypeOK, WebhookAssumption
  <2>2. worker' \in [Panel -> {"idle", "sending", "accepted", "done"}]
    BY <1>6 DEF Written, Accepted, TypeOK
  <2>3. UNCHANGED <<redis, memory, rows, order, acked, rq, taint, expired, faults, lapses>>
    BY <1>6 DEF Written, Accepted, Store, Counts
  <2> QED
    BY <1>a, <2>1, <2>2, <2>3 DEF TypeOK, Live
<1>7. ASSUME NEW p \in Panel, PanelSend(p) \/ Settled(p) \/ GivenUp(p)
      PROVE  TInv'
  <2>0. rows \in [RowIds -> Row] /\ order \in Seq(RowIds) /\ p \in Ids /\ p \in RowIds
    BY <1>b DEF TypeOK
  <2>1. rows' \in [RowIds -> Row]
    <3>1. CASE PanelSend(p)
      <4>1. [st |-> "PENDING", ext |-> NoOne, says |-> Text[p], mine |-> TRUE, age |-> "new"] \in Row
        BY <2>0 DEF Row
      <4> QED
        BY <2>0, <3>1, <4>1 DEF PanelSend
    <3>2. CASE Settled(p)
      <4>1. [rows[p] EXCEPT !.st = "SENT", !.ext = p] \in Row
        BY <2>0 DEF Row
      <4>2. rows' = [rows EXCEPT ![p].st = "SENT", ![p].ext = p]
        BY <3>2 DEF Settled
      <4> QED
        BY <2>0, <4>1, <4>2
    <3>3. CASE GivenUp(p)
      BY <2>0, <3>3 DEF GivenUp, Row
    <3> QED
      BY <1>7, <3>1, <3>2, <3>3
  <2>2. order' \in Seq(RowIds) /\ worker' \in [Panel -> {"idle", "sending", "accepted", "done"}]
    <3>1. order' = order \/ order' = Append(order, p)
      BY <1>7 DEF PanelSend, Settled, GivenUp
    <3>2. worker' \in [Panel -> {"idle", "sending", "accepted", "done"}]
      BY <1>7 DEF PanelSend, Settled, GivenUp, TypeOK
    <3> QED
      BY <2>0, <3>1, <3>2
  <2>3. UNCHANGED <<redis, memory, owed, acked, rq, taint, expired, faults, lapses>>
    BY <1>7 DEF PanelSend, Settled, GivenUp, Store, Counts
  <2> QED
    BY <1>a, <2>1, <2>2, <2>3 DEF TypeOK, Live
<1>8. ASSUME NEW i \in RowIds, Lapse(i)
      PROVE  TInv'
  <2>1. rows' \in [RowIds -> Row] /\ lapses' \in 0 .. MaxLapses
    <3>1. rows' \in [RowIds -> Row]
      <4>1. PICK age \in {"recent", "old"} : rows' = [rows EXCEPT ![i].age = age]
        BY <1>8 DEF Lapse
      <4>2. rows \in [RowIds -> Row] /\ [rows[i] EXCEPT !.age = age] \in Row
        BY <4>1 DEF TypeOK, Row
      <4> QED
        BY <4>1, <4>2
    <3>2. lapses' \in 0 .. MaxLapses
      <4>1. lapses \in 0 .. MaxLapses /\ MaxLapses \in Nat
        BY WebhookAssumption DEF TypeOK, WebhookAssumption
      <4> QED
        BY <1>8, <4>1 DEF Lapse
    <3> QED
      BY <3>1, <3>2
  <2>2. UNCHANGED <<redis, memory, order, worker, owed, acked, rq, taint, expired, faults>>
    BY <1>8 DEF Lapse, Store, Outside
  <2> QED
    BY <1>a, <2>1, <2>2 DEF TypeOK, Live
<1>9. ASSUME NEW x \in Ids, Expire(x)
      PROVE  TInv'
  <2>1. PICK c \in Claim : Overtaken(c)
    BY <1>9 DEF Expire, TypeOK
  <2>2. expired' \subseteq Requests /\ faults' \in 0 .. MaxFaults
    <3>1. CASE c.st = "processing" /\ Live(c.by)
      <4>1. c.by \in Requests
        BY <2>1, <3>1 DEF Claim, Free
      <4>2. faults < MaxFaults /\ faults' = faults + 1 /\ expired' = expired \cup {c.by}
        BY <2>1, <3>1 DEF Overtaken
      <4>3. faults \in 0 .. MaxFaults /\ MaxFaults \in Nat /\ expired \subseteq Requests
        BY WebhookAssumption DEF TypeOK, WebhookAssumption
      <4> QED
        BY <4>1, <4>2, <4>3
    <3>2. CASE ~ (c.st = "processing" /\ Live(c.by))
      BY <2>1, <3>2 DEF Overtaken, TypeOK
    <3> QED
      BY <3>1, <3>2
  <2>3. redis' \in [Ids -> Claim] /\ memory' \in [Ids -> Claim]
    <3>1. Free \in Claim
      BY DEF Free, Claim
    <3> QED
      BY <1>9, <3>1 DEF Expire, TypeOK
  <2>4. UNCHANGED <<rows, order, worker, owed, acked, rq, taint, lapses>>
    BY <1>9 DEF Expire, Outside
  <2> QED
    BY <1>a, <2>2, <2>3, <2>4 DEF TypeOK, Live
<1>10. ASSUME Restart
       PROVE  TInv'
  <2> DEFINE cut(x) == {r \in Requests : Live(r) /\ rq[r].x = x}
  <2>1. taint' \in [Ids -> SUBSET Incident] /\ faults' \in 0 .. MaxFaults
    <3>1. Fault({x \in Ids : cut(x) # {}}, "restart")
      BY <1>10 DEF Restart
    <3>2. "restart" \in Incident
      BY DEF Incident
    <3> QED
      BY <1>a, <3>1, <3>2, FaultTyped
  <2>2. \A x \in Ids : Cardinality(cut(x)) \in Nat
    BY RequestsFinite
  <2>3. owed' \in [Ids -> Nat]
    <3>1. owed' = [x \in Ids |-> owed[x] + Cardinality(cut(x))]
      BY <1>10 DEF Restart
    <3>2. \A x \in Ids : owed[x] \in Nat
      BY DEF TypeOK
    <3> HIDE DEF cut
    <3>3. \A x \in Ids : owed[x] + Cardinality(cut(x)) \in Nat
      BY <2>2, <3>2
    <3> QED
      BY <3>1, <3>3
  <2>4. rq' \in [Requests -> Request] /\ \A s \in Requests : ~ Live(s)'
    BY <1>10 DEF Restart, TypeOK, Request, Live
  <2>5. memory' \in [Ids -> Claim]
    BY <1>10 DEF Restart, Claim, Free
  <2>6. UNCHANGED <<redis, rows, order, worker, acked, expired, lapses>>
    BY <1>10 DEF Restart
  <2> QED
    BY <1>a, <2>1, <2>3, <2>4, <2>5, <2>6 DEF TypeOK
<1>11. CASE UNCHANGED vars
  BY <1>a, <1>11 DEF vars, TypeOK, Live
<1> QED
  BY <1>1, <1>2, <1>3, <1>4, <1>5, <1>6, <1>7, <1>8, <1>9, <1>10, <1>11, <1>b DEF Next, Handle

\* Every reachable state of the webhook handler is typed.
THEOREM TypeCorrect == Spec => []TypeOK
<1>1. TInv => TypeOK
  BY DEF TInv
<1> QED
  BY <1>1, TypeInit, TypeStep, PTL DEF Spec

-----------------------------------------------------------------------------
(* Claims *)

\* ClaimsHold, said of each request.
Holds(r) ==
  Live(r) /\ r \notin expired => redis[rq[r].x] = Held(r) \/ "redis" \in taint[rq[r].x]

LEMMA HoldsIsClaimsHold == TInv => (ClaimsHold <=> \A r \in Requests : Holds(r))
BY DEF TInv, LiveHasMessage, ClaimsHold, Holds, Working

\* A step that starts no request and touches neither claims nor incidents.
LEMMA HoldsQuiet ==
  ASSUME NEW r \in Requests, Holds(r), Live(r)' => Live(r) /\ rq'[r].x = rq[r].x,
         UNCHANGED <<redis, taint, expired>>
  PROVE  Holds(r)'
BY DEF Holds, Held

\* Incidents are never forgotten.
LEMMA TaintGrows ==
  ASSUME TypeOK, NEW xs, NEW what, Fault(xs, what), NEW x \in Ids
  PROVE  taint[x] \subseteq taint'[x] /\ (x \in xs => what \in taint'[x])
BY DEF Fault, TypeOK

LEMMA AnswerTaints ==
  ASSUME TypeOK, NEW y, NEW call, Answered(y, call), NEW x \in Ids
  PROVE  taint[x] \subseteq taint'[x] /\ (x = y /\ call # "ok" => "redis" \in taint'[x])
<1>1. CASE call = "ok"
  BY <1>1 DEF Answered
<1>2. CASE call # "ok"
  <2>1. Fault({y}, "redis")
    BY <1>2 DEF Answered
  <2> QED
    BY <2>1, TaintGrows
<1> QED
  BY <1>1, <1>2

\* A call on one key leaves the claims on the others alone.
LEMMA OtherKeys ==
  ASSUME TypeOK, NEW x, NEW a, NEW b, NEW call, OnKey(x, a, b, call), NEW y \in Ids
  PROVE  /\ y # x => redis'[y] = redis[y]
         /\ y = x /\ call = "ok" => redis'[y] = a
BY DEF TypeOK, OnKey

\* Completing and releasing leave the claim of another request alone.
LEMMA OthersKeepTheirClaim ==
  ASSUME NEW r \in Requests, NEW s \in Requests, s # r
  PROVE  Completed(Held(s), r) = Held(s) /\ Released(Held(s), r) = Held(s)
BY DEF Completed, Released, Held

LEMMA ClaimStep == TInv /\ (\A r \in Requests : Holds(r)) /\ [Next]_vars => \A r \in Requests : Holds(r)'
<1> SUFFICES ASSUME TInv, \A r \in Requests : Holds(r), [Next]_vars, NEW s \in Requests
             PROVE  Holds(s)'
  OBVIOUS
<1>a. TypeOK /\ (Live(s) => rq[s].x \in Ids) /\ Holds(s)
  BY DEF TInv, LiveHasMessage
<1>1. ASSUME NEW r \in Requests, NEW x \in Ids, NEW call \in Calls, Acquire(r, x, call)
      PROVE  Holds(s)'
  <2>1. OnKey(x, Claimed(redis[x], r), Claimed(memory[x], r), call) /\ Answered(x, call)
    BY <1>1 DEF Acquire
  <2>2. expired' = expired
    BY <1>1 DEF Acquire
  <2>3. SUFFICES ASSUME Live(s)', s \notin expired, call = "ok" \/ rq'[s].x # x
                 PROVE  redis'[rq'[s].x] = Held(s) \/ "redis" \in taint'[rq'[s].x]
    <3>1. ASSUME call # "ok", rq'[s].x = x
          PROVE  "redis" \in taint'[x]
      BY <1>a, <2>1, <3>1, AnswerTaints
    <3> QED
      BY <2>2, <3>1 DEF Holds, Held
  <2>4. CASE s = r
    <3>1. rq'[r].x = x /\ (Live(r)' => Vacant(IF call = "ok" THEN redis[x] ELSE memory[x]))
      BY <1>1, <1>a DEF Acquire, TypeOK, Request, Live
    <3>2. redis'[x] = Held(r)
      BY <1>a, <2>1, <2>3, <2>4, <3>1, OtherKeys DEF Claimed
    <3> QED
      BY <2>4, <3>1, <3>2
  <2>5. CASE s # r
    <3>1. rq'[s] = rq[s]
      BY <1>1, <1>a, <2>5 DEF Acquire, TypeOK
    <3>2. Live(s) /\ rq[s].x \in Ids
      BY <1>a, <2>3, <3>1 DEF Live
    <3>3. taint[rq[s].x] \subseteq taint'[rq[s].x]
      BY <1>a, <2>1, <3>2, AnswerTaints
    <3>4. CASE rq[s].x # x
      BY <1>a, <2>1, <2>3, <3>1, <3>2, <3>3, <3>4, OtherKeys DEF Holds
    <3>5. CASE rq[s].x = x
      <4>1. redis'[x] = Claimed(redis[x], r)
        BY <1>a, <2>1, <2>3, <3>1, <3>5, OtherKeys
      <4>2. Claimed(Held(s), r) = Held(s)
        BY DEF Claimed, Vacant, Held, Free
      <4> QED
        BY <1>a, <2>3, <3>1, <3>2, <3>3, <3>5, <4>1, <4>2 DEF Holds
    <3> QED
      BY <3>4, <3>5
  <2> QED
    BY <2>4, <2>5
<1>2. ASSUME NEW r \in Requests, NEW call \in Calls, Complete(r, call) \/ HandlerFails(r, call)
      PROVE  Holds(s)'
  <2> DEFINE x == rq[r].x
  <2>1. PICK a, b : /\ OnKey(x, a, b, call)
                    /\ a = Completed(redis[x], r) \/ a = Released(redis[x], r)
    BY <1>2 DEF Complete, HandlerFails
  <2>2. /\ rq' = [rq EXCEPT ![r].pc = "ended"]
        /\ expired' = expired
    BY <1>2 DEF Complete, HandlerFails, Goto
  <2>3. \A y \in Ids : taint[y] \subseteq taint'[y] /\ (y = x /\ call # "ok" => "redis" \in taint'[y])
    <3>1. CASE Complete(r, call)
      <4>1. Answered(x, call)
        BY <3>1 DEF Complete
      <4> QED
        BY <1>a, <4>1, AnswerTaints
    <3>2. CASE HandlerFails(r, call)
      <4>1. Fault({x}, IF call = "ok" THEN "failed" ELSE "redis")
        BY <3>2 DEF HandlerFails
      <4> QED
        BY <1>a, <4>1, TaintGrows
    <3> QED
      BY <1>2, <3>1, <3>2
  <2>4. ~ Live(r)'
    BY <1>a, <2>2 DEF Live, TypeOK, Request
  <2>5. SUFFICES ASSUME Live(s)', s \notin expired
                 PROVE  redis'[rq'[s].x] = Held(s) \/ "redis" \in taint'[rq'[s].x]
    BY <2>2 DEF Holds, Held
  <2>6. s # r /\ rq'[s] = rq[s] /\ Live(s) /\ rq[s].x \in Ids
    <3>1. s # r
      BY <2>4, <2>5
    <3>2. rq'[s] = rq[s]
      BY <1>a, <2>2, <3>1 DEF TypeOK
    <3> QED
      BY <1>a, <2>5, <3>1, <3>2 DEF Live
  <2>7. CASE "redis" \in taint[rq[s].x] \/ (rq[s].x = x /\ call # "ok")
    BY <2>3, <2>6, <2>7
  <2>8. CASE rq[s].x # x /\ redis[rq[s].x] = Held(s)
    BY <1>a, <2>1, <2>6, <2>8, OtherKeys
  <2>9. CASE rq[s].x = x /\ call = "ok" /\ redis[x] = Held(s)
    <3>1. redis'[x] = a
      BY <1>a, <2>1, <2>6, <2>9, OtherKeys
    <3>2. a = Held(s)
      BY <2>1, <2>6, <2>9, OthersKeepTheirClaim
    <3> QED
      BY <2>6, <2>9, <3>1, <3>2
  <2> QED
    BY <1>a, <2>5, <2>6, <2>7, <2>8, <2>9 DEF Holds
<1>3. ASSUME NEW r \in Requests, Find(r) \/ Reconcile(r) \/ Adopt(r) \/ Sync(r) \/ Create(r)
      PROVE  Holds(s)'
  <2>1. UNCHANGED <<redis, taint, expired>>
    BY <1>3 DEF Find, Reconcile, Adopt, Sync, Create, Store
  <2>2. Live(r)
    BY <1>3 DEF Find, Reconcile, Adopt, Sync, Create, Live
  <2>3. \/ rq' = [rq EXCEPT ![r].pc = "answer"]
        \/ \E i, pc : rq' = [rq EXCEPT ![r].row = i, ![r].pc = pc]
    BY <1>3 DEF Find, Reconcile, Adopt, Sync, Create, Goto
  <2>4. rq'[s].x = rq[s].x /\ (s # r => rq'[s] = rq[s])
    <3>1. CASE rq' = [rq EXCEPT ![r].pc = "answer"]
      BY <1>a, <3>1 DEF TypeOK, Request
    <3>2. ASSUME NEW i, NEW pc, rq' = [rq EXCEPT ![r].row = i, ![r].pc = pc]
          PROVE  rq'[s].x = rq[s].x /\ (s # r => rq'[s] = rq[s])
      <4>1. rq \in [Requests -> Request]
        BY <1>a DEF TypeOK
      <4>2. rq' = [rq EXCEPT ![r] = [rq[r] EXCEPT !.row = i, !.pc = pc]]
        BY <3>2, <4>1 DEF Request
      <4>3. [rq[r] EXCEPT !.row = i, !.pc = pc].x = rq[r].x
        BY <4>1 DEF Request
      <4> QED
        BY <4>1, <4>2, <4>3
    <3> QED
      BY <2>3, <3>1, <3>2
  <2>5. Live(s)' => Live(s) /\ rq'[s].x = rq[s].x
    BY <2>2, <2>4 DEF Live
  <2> QED
    BY <1>a, <2>1, <2>5, HoldsQuiet
<1>4. CASE UNCHANGED <<redis, taint, expired, rq>>
  <2>1. Live(s)' => Live(s) /\ rq'[s].x = rq[s].x
    BY <1>4 DEF Live
  <2> QED
    BY <1>a, <1>4, <2>1, HoldsQuiet
<1>5. ASSUME NEW x \in Ids, Expire(x)
      PROVE  Holds(s)'
  <2>1. rq' = rq /\ taint' = taint /\ expired \subseteq expired'
    BY <1>5 DEF Expire, Overtaken
  <2>2. CASE redis' = redis
    BY <1>a, <2>1, <2>2 DEF Holds, Live, Held
  <2>3. CASE Overtaken(redis[x]) /\ redis' = [redis EXCEPT ![x] = Free]
    <3>1. ASSUME Live(s), redis[x] = Held(s)
          PROVE  s \in expired'
      <4>1. redis[x].st = "processing" /\ redis[x].by = s
        BY <3>1 DEF Held
      <4> QED
        BY <2>3, <3>1, <4>1 DEF Overtaken
    <3>2. \A y \in Ids : y # x => redis'[y] = redis[y]
      BY <1>a, <2>3 DEF TypeOK
    <3> QED
      BY <1>a, <2>1, <3>1, <3>2 DEF Holds, Live, Held
  <2> QED
    BY <1>5, <2>2, <2>3 DEF Expire
<1>6. CASE Restart
  <2>1. ~ Live(s)'
    BY <1>6, <1>a DEF Restart, TypeOK, Request, Live
  <2> QED
    BY <2>1 DEF Holds
<1>7. ASSUME NEW p \in Panel, PanelSend(p) \/ Accepted(p) \/ Settled(p) \/ GivenUp(p)
      PROVE  UNCHANGED <<redis, taint, expired, rq>>
  BY <1>7 DEF PanelSend, Accepted, Settled, GivenUp, Store
<1>8. ASSUME NEW x \in Ids, Written(x)
      PROVE  UNCHANGED <<redis, taint, expired, rq>>
  BY <1>8 DEF Written, Store
<1>9. ASSUME NEW i \in RowIds, Lapse(i)
      PROVE  UNCHANGED <<redis, taint, expired, rq>>
  BY <1>9 DEF Lapse, Store
<1>10. CASE UNCHANGED vars
  BY <1>4, <1>10 DEF vars
<1> QED
  BY <1>1, <1>2, <1>3, <1>4, <1>5, <1>6, <1>7, <1>8, <1>9, <1>10 DEF Next, Handle

\* A request that works on a message holds its key in Redis until it ends,
\* unless its own claim expired or Redis failed.
THEOREM ClaimsAreExclusive == Spec => []ClaimsHold
<1>1. Init => TInv /\ \A r \in Requests : Holds(r)
  <2>1. Init => \A r \in Requests : ~ Live(r)
    BY DEF Init, Unused, Live
  <2> QED
    BY <2>1, TypeInit DEF Holds
<1>2. TInv /\ (\A r \in Requests : Holds(r)) /\ [Next]_vars => TInv' /\ (\A r \in Requests : Holds(r))'
  BY TypeStep, ClaimStep
<1>3. TInv /\ (\A r \in Requests : Holds(r)) => ClaimsHold
  BY HoldsIsClaimsHold
<1> QED
  BY <1>1, <1>2, <1>3, PTL DEF Spec

-----------------------------------------------------------------------------
(* How a request and a row may change in one step *)

\* Row i gets another status and external id.
Becomes(i, st, ext) ==
  /\ rows'[i].st = st /\ rows'[i].ext = ext
  /\ rows'[i].says = rows[i].says /\ rows'[i].mine = rows[i].mine
  /\ rows'[i].age = rows[i].age

\* What a step does to request r.
Ends(r) ==
  /\ Live(r) /\ rq'[r] = [pc |-> "ended", x |-> rq[r].x, row |-> rq[r].row]
  /\ Restart \/ \E call \in Calls : Complete(r, call) \/ HandlerFails(r, call)
Moves(r) ==
  \/ rq'[r] = rq[r]
  \/ \E x \in Ids, call \in Calls : Acquire(r, x, call)
  \/ Ends(r)
  \/ Find(r) \/ Reconcile(r) \/ Adopt(r) \/ Sync(r) \/ Create(r)

\* What a step does to row i.
Changes(i) ==
  \/ rows'[i] = rows[i]
  \/ i \in Requests /\ Create(i)
  \/ \E r \in Requests : rq[r].row = i /\ (Adopt(r) \/ Sync(r))
  \/ i \in Panel /\ (PanelSend(i) \/ Settled(i) \/ GivenUp(i))
  \/ Lapse(i)

LEMMA IdsApart ==
  /\ Panel \subseteq Ids /\ Panel \subseteq RowIds /\ Requests \subseteq RowIds /\ FromMe \subseteq Ids
  /\ Panel \subseteq FromMe /\ Panel \cap Requests = {} /\ NoOne \notin RowIds /\ NoOne \notin Ids
  /\ Panel \cap (Customer \cup Phone) = {}
BY WebhookAssumption DEF WebhookAssumption, Ids, RowIds, FromMe

LEMMA RequestStep ==
  ASSUME TypeOK, [Next]_vars, NEW s \in Requests
  PROVE  Moves(s)
<1>a. rq \in [Requests -> Request]
  BY DEF TypeOK
<1>1. ASSUME NEW r \in Requests, NEW x \in Ids, NEW call \in Calls, Acquire(r, x, call)
      PROVE  Moves(s)
  <2>1. CASE s = r
    BY <1>1, <2>1 DEF Moves
  <2>2. CASE s # r
    BY <1>1, <1>a, <2>2 DEF Moves, Acquire
  <2> QED
    BY <2>1, <2>2
<1>2. ASSUME NEW r \in Requests, NEW call \in Calls, Complete(r, call) \/ HandlerFails(r, call)
      PROVE  Moves(s)
  <2>1. rq' = [rq EXCEPT ![r].pc = "ended"] /\ Live(r)
    BY <1>2 DEF Complete, HandlerFails, Goto, Live
  <2>2. CASE s = r
    BY <1>a, <1>2, <2>1, <2>2 DEF Moves, Ends, Request
  <2>3. CASE s # r
    BY <1>a, <2>1, <2>3 DEF Moves
  <2> QED
    BY <2>2, <2>3
<1>3. ASSUME NEW r \in Requests, Adopt(r) \/ Sync(r) \/ Create(r)
      PROVE  Moves(s)
  <2>1. CASE s = r
    BY <1>3, <2>1 DEF Moves
  <2>2. CASE s # r
    BY <1>3, <1>a, <2>2 DEF Moves, Adopt, Sync, Create, Goto
  <2> QED
    BY <2>1, <2>2
<1>4. ASSUME NEW r \in Requests, Find(r) \/ Reconcile(r)
      PROVE  Moves(s)
  <2>1. CASE s = r
    BY <1>4, <2>1 DEF Moves
  <2>2. CASE s # r
    <3>1. PICK i, pc : rq' = [rq EXCEPT ![r].row = i, ![r].pc = pc]
      BY <1>4 DEF Find, Reconcile
    <3>2. rq' = [rq EXCEPT ![r] = [rq[r] EXCEPT !.row = i, !.pc = pc]]
      BY <1>a, <3>1 DEF Request
    <3> QED
      BY <1>a, <2>2, <3>2 DEF Moves
  <2> QED
    BY <2>1, <2>2
<1>5. CASE Restart
  <2>1. rq'[s] = rq[s] \/ (Live(s) /\ rq'[s] = [pc |-> "ended", x |-> rq[s].x, row |-> rq[s].row])
    BY <1>a, <1>5 DEF Restart, Request
  <2> QED
    BY <1>5, <2>1 DEF Moves, Ends
<1>6. CASE UNCHANGED rq
  BY <1>6 DEF Moves
<1>7. ASSUME NEW x \in Ids, Written(x) \/ Expire(x) PROVE UNCHANGED rq
  BY <1>7 DEF Written, Expire
<1>8. ASSUME NEW p \in Panel, PanelSend(p) \/ Accepted(p) \/ Settled(p) \/ GivenUp(p) PROVE UNCHANGED rq
  BY <1>8 DEF PanelSend, Accepted, Settled, GivenUp
<1>9. ASSUME NEW i \in RowIds, Lapse(i) PROVE UNCHANGED rq
  BY <1>9 DEF Lapse
<1> QED
  BY <1>1, <1>2, <1>3, <1>4, <1>5, <1>6, <1>7, <1>8, <1>9 DEF Next, Handle, vars

LEMMA RowStep ==
  ASSUME TypeOK, [Next]_vars, NEW i \in RowIds
  PROVE  Changes(i)
<1>a. rows \in [RowIds -> Row]
  BY DEF TypeOK
<1>1. ASSUME NEW r \in Requests, Create(r)
      PROVE  Changes(i)
  BY <1>1, <1>a, IdsApart DEF Changes, Create
<1>2. ASSUME NEW r \in Requests, Sync(r)
      PROVE  Changes(i)
  BY <1>2, <1>a DEF Changes, Sync
<1>3. ASSUME NEW r \in Requests, Adopt(r)
      PROVE  Changes(i)
  <2>1. CASE rq[r].row = i
    BY <1>3, <2>1 DEF Changes
  <2>2. CASE rq[r].row # i
    <3>1. rows' = [rows EXCEPT ![rq[r].row].st = "SENT", ![rq[r].row].ext = rq[r].x]
      BY <1>3 DEF Adopt
    <3> QED
      BY <1>a, <2>2, <3>1 DEF Changes
  <2> QED
    BY <2>1, <2>2
<1>4. ASSUME NEW p \in Panel, PanelSend(p) \/ Settled(p) \/ GivenUp(p)
      PROVE  Changes(i)
  <2>1. CASE i = p
    BY <1>4, <2>1 DEF Changes
  <2>2. CASE i # p
    BY <1>4, <1>a, <2>2 DEF Changes, PanelSend, Settled, GivenUp
  <2> QED
    BY <2>1, <2>2
<1>5. ASSUME NEW j \in RowIds, Lapse(j)
      PROVE  Changes(i)
  <2>1. CASE i = j
    BY <1>5, <2>1 DEF Changes
  <2>2. CASE i # j
    BY <1>5, <1>a, <2>2 DEF Changes, Lapse
  <2> QED
    BY <2>1, <2>2
<1>6. CASE UNCHANGED rows
  BY <1>6 DEF Changes
<1>7. ASSUME NEW x \in Ids, Written(x) \/ Expire(x) PROVE UNCHANGED rows
  BY <1>7 DEF Written, Expire
<1>8. ASSUME NEW r \in Requests, NEW call \in Calls, NEW x \in Ids,
             Acquire(r, x, call) \/ Complete(r, call) \/ HandlerFails(r, call) PROVE UNCHANGED rows
  BY <1>8 DEF Acquire, Complete, HandlerFails
<1>9. ASSUME NEW r \in Requests, Find(r) \/ Reconcile(r) PROVE UNCHANGED rows
  BY <1>9 DEF Find, Reconcile
<1>10. ASSUME NEW p \in Panel, Accepted(p) PROVE UNCHANGED rows
  BY <1>10 DEF Accepted
<1>11. ASSUME Restart PROVE UNCHANGED rows
  BY <1>11 DEF Restart
<1>12. ASSUME NEW r \in Requests, NEW call \in Calls, Complete(r, call) \/ HandlerFails(r, call)
       PROVE  UNCHANGED rows
  BY <1>12 DEF Complete, HandlerFails
<1> QED
  BY <1>1, <1>2, <1>3, <1>4, <1>5, <1>6, <1>7, <1>8, <1>9, <1>10, <1>11, <1>12 DEF Next, Handle, vars

-----------------------------------------------------------------------------
(* What each change leaves in a request and in a row *)

\* Records with two fields exchanged, written out.
LEMMA MovedRequest ==
  ASSUME NEW q \in Request, NEW i, NEW pc
  PROVE  [q EXCEPT !.row = i, !.pc = pc] = [pc |-> pc, x |-> q.x, row |-> i]
<1>1. q = [pc |-> q.pc, x |-> q.x, row |-> q.row]
  BY DEF Request
<1>2. [[pc |-> q.pc, x |-> q.x, row |-> q.row] EXCEPT !.row = i] = [pc |-> q.pc, x |-> q.x, row |-> i]
  OBVIOUS
<1>3. [[pc |-> q.pc, x |-> q.x, row |-> i] EXCEPT !.pc = pc] = [pc |-> pc, x |-> q.x, row |-> i]
  OBVIOUS
<1>4. [[q EXCEPT !.row = i] EXCEPT !.pc = pc] = [pc |-> pc, x |-> q.x, row |-> i]
  BY <1>1, <1>2, <1>3
<1> QED
  BY <1>4

LEMMA SentRow ==
  ASSUME NEW q \in Row, NEW x
  PROVE  [q EXCEPT !.st = "SENT", !.ext = x]
           = [st |-> "SENT", ext |-> x, says |-> q.says, mine |-> q.mine, age |-> q.age]
<1>1. q = [st |-> q.st, ext |-> q.ext, says |-> q.says, mine |-> q.mine, age |-> q.age]
  BY DEF Row
<1>2. [[st |-> q.st, ext |-> q.ext, says |-> q.says, mine |-> q.mine, age |-> q.age]
         EXCEPT !.st = "SENT"] = [st |-> "SENT", ext |-> q.ext, says |-> q.says, mine |-> q.mine, age |-> q.age]
  OBVIOUS
<1>3. [[st |-> "SENT", ext |-> q.ext, says |-> q.says, mine |-> q.mine, age |-> q.age]
         EXCEPT !.ext = x] = [st |-> "SENT", ext |-> x, says |-> q.says, mine |-> q.mine, age |-> q.age]
  OBVIOUS
<1>4. [[q EXCEPT !.st = "SENT"] EXCEPT !.ext = x]
        = [st |-> "SENT", ext |-> x, says |-> q.says, mine |-> q.mine, age |-> q.age]
  BY <1>1, <1>2, <1>3
<1> QED
  BY <1>4

LEMMA SentInPlace ==
  ASSUME TypeOK, NEW i \in RowIds, NEW x,
         rows' = [rows EXCEPT ![i].st = "SENT", ![i].ext = x]
  PROVE  Becomes(i, "SENT", x)
<1>1. rows \in [RowIds -> Row]
  BY DEF TypeOK
<1>2. rows' = [rows EXCEPT ![i] = [rows[i] EXCEPT !.st = "SENT", !.ext = x]]
  BY <1>1 DEF Row
<1>3. rows'[i] = [st |-> "SENT", ext |-> x, says |-> rows[i].says, mine |-> rows[i].mine,
                  age |-> rows[i].age]
  BY <1>1, <1>2, SentRow
<1> QED
  BY <1>3 DEF Becomes

LEMMA Acquires ==
  ASSUME TypeOK, NEW r \in Requests, NEW x \in Ids, NEW call \in Calls, Acquire(r, x, call)
  PROVE  /\ rq[r].pc = "unused" /\ owed[x] > 0
         /\ rq'[r].pc \in {"find", "ended"} /\ rq'[r].x = x
BY DEF TypeOK, Acquire

LEMMA Finds ==
  ASSUME TypeOK, NEW r \in Requests, Find(r) \/ Reconcile(r)
  PROVE  \E i, pc :
           /\ rq'[r] = [pc |-> pc, x |-> rq[r].x, row |-> i]
           /\ \/ /\ Find(r) /\ rq[r].pc = "find" /\ i = NoOne /\ RowsOf(rq[r].x) = {}
                 /\ pc = IF rq[r].x \in FromMe THEN "reconcile" ELSE "create"
              \/ /\ Find(r) /\ rq[r].pc = "find" /\ i \in RowsOf(rq[r].x) /\ pc \in {"answer", "sync"}
              \/ /\ Reconcile(r) /\ rq[r].pc = "reconcile"
                 /\ EchoesOf(rq[r].x) = {} /\ i = NoOne /\ pc = "create"
              \/ /\ Reconcile(r) /\ rq[r].pc = "reconcile"
                 /\ i \in EchoesOf(rq[r].x) /\ pc = "adopt"
<1>a. rq \in [Requests -> Request]
  BY DEF TypeOK
<1>1. ASSUME NEW i \in RowIds \cup {NoOne},
             NEW pc \in {"reconcile", "create", "answer", "sync", "adopt"},
             rq' = [rq EXCEPT ![r].row = i, ![r].pc = pc]
      PROVE  rq'[r] = [pc |-> pc, x |-> rq[r].x, row |-> i]
  <2>1. rq' = [rq EXCEPT ![r] = [rq[r] EXCEPT !.row = i, !.pc = pc]]
    BY <1>a, <1>1 DEF Request
  <2>2. [rq[r] EXCEPT !.row = i, !.pc = pc] = [pc |-> pc, x |-> rq[r].x, row |-> i]
    BY <1>a, MovedRequest
  <2> QED
    BY <1>a, <2>1, <2>2
<1>b. RowsOf(rq[r].x) \subseteq RowIds /\ EchoesOf(rq[r].x) \subseteq RowIds
  BY DEF RowsOf, EchoesOf, Rows
<1>2. CASE Find(r)
  <2>1. rq[r].pc = "find"
    BY <1>2 DEF Find
  <2>2. CASE /\ RowsOf(rq[r].x) = {}
             /\ rq' = [rq EXCEPT ![r].row = NoOne,
                                 ![r].pc = IF rq[r].x \in FromMe THEN "reconcile" ELSE "create"]
    BY <1>1, <1>2, <2>1, <2>2
  <2>3. CASE \E i \in RowsOf(rq[r].x), pc \in {"answer", "sync"} : rq' = [rq EXCEPT ![r].row = i, ![r].pc = pc]
    BY <1>1, <1>2, <1>b, <2>1, <2>3
  <2> QED
    BY <1>2, <2>2, <2>3 DEF Find
<1>3. CASE Reconcile(r)
  <2>1. rq[r].pc = "reconcile"
    BY <1>3 DEF Reconcile
  <2>2. CASE EchoesOf(rq[r].x) = {} /\ rq' = [rq EXCEPT ![r].row = NoOne, ![r].pc = "create"]
    BY <1>1, <1>3, <2>1, <2>2
  <2>3. CASE \E i \in EchoesOf(rq[r].x) : rq' = [rq EXCEPT ![r].row = i, ![r].pc = "adopt"]
    BY <1>1, <1>3, <1>b, <2>1, <2>3
  <2> QED
    BY <1>3, <2>2, <2>3 DEF Reconcile
<1> QED
  BY <1>2, <1>3

LEMMA Answers ==
  ASSUME TypeOK, NEW r \in Requests, Adopt(r) \/ Sync(r) \/ Create(r)
  PROVE  /\ rq[r].pc \in {"adopt", "sync", "create"}
         /\ Adopt(r) => rq[r].pc = "adopt"
         /\ Sync(r) => rq[r].pc = "sync"
         /\ Create(r) => rq[r].pc = "create"
         /\ rq'[r].pc = "answer" /\ rq'[r].x = rq[r].x
BY DEF TypeOK, Request, Adopt, Sync, Create, Goto

LEMMA Adopts ==
  ASSUME TypeOK, NEW r \in Requests, Adopt(r), rq[r].row \in RowIds
  PROVE  Becomes(rq[r].row, "SENT", rq[r].x)
<1>1. rows' = [rows EXCEPT ![rq[r].row].st = "SENT", ![rq[r].row].ext = rq[r].x]
  BY DEF Adopt
<1> QED
  BY <1>1, SentInPlace

LEMMA Syncs ==
  ASSUME TypeOK, NEW r \in Requests, Sync(r), rq[r].row \in RowIds
  PROVE  Becomes(rq[r].row, "SENT", rows[rq[r].row].ext)
BY DEF TypeOK, Sync, Becomes, Row

LEMMA Creates ==
  ASSUME TypeOK, NEW r \in Requests, Create(r)
  PROVE  /\ rows'[r].st = "SENT" /\ rows'[r].ext = rq[r].x /\ rows'[r].says = Text[rq[r].x]
         /\ rows'[r].mine <=> rq[r].x \in FromMe
BY IdsApart DEF TypeOK, Create

LEMMA PanelSends ==
  ASSUME TypeOK, NEW p \in Panel, PanelSend(p)
  PROVE  /\ rows[p].st = "absent"
         /\ rows'[p].st = "PENDING" /\ rows'[p].ext = NoOne /\ rows'[p].says = Text[p]
         /\ rows'[p].mine
BY IdsApart DEF TypeOK, PanelSend

LEMMA Settles ==
  ASSUME TypeOK, NEW p \in Panel, Settled(p)
  PROVE  worker[p] = "accepted" /\ Becomes(p, "SENT", p)
BY SentInPlace, IdsApart DEF Settled

LEMMA GivesUp ==
  ASSUME TypeOK, NEW p \in Panel, GivenUp(p)
  PROVE  worker[p] \in {"sending", "accepted"} /\ Becomes(p, "FAILED", rows[p].ext)
BY IdsApart DEF TypeOK, GivenUp, Becomes, Row

LEMMA Lapses ==
  ASSUME TypeOK, NEW i \in RowIds, Lapse(i)
  PROVE  /\ rows'[i].st = rows[i].st /\ rows'[i].ext = rows[i].ext
         /\ rows'[i].says = rows[i].says /\ rows'[i].mine = rows[i].mine
         /\ rows'[i].age = "old" \/ (rows'[i].age = "recent" /\ rows[i].age = "new")
<1>1. rows \in [RowIds -> Row]
  BY DEF TypeOK
<1>2. PICK age \in {"recent", "old"} \ {rows[i].age} : rows' = [rows EXCEPT ![i].age = age]
  BY DEF Lapse
<1>3. rows[i].age # "old"
  BY DEF Lapse
<1> QED
  BY <1>1, <1>2, <1>3 DEF Row

-----------------------------------------------------------------------------
(* What rows and requests say of one another *)

\* A row with an external id says what that message says, or what its echo is taken
\* for, on its side of the conversation.
Tells(i) ==
  rows[i].ext # NoOne =>
    /\ rows[i].ext \in Ids /\ rows[i].st # "absent"
    /\ rows[i].says \in Like(rows[i].ext)
    /\ rows[i].mine <=> rows[i].ext \in FromMe

\* A panel message has its row before anything is known of it outside.
Precedes(p) ==
  /\ rows[p].st # "absent" => rows[p].says = Text[p] /\ rows[p].mine
  /\ worker[p] # "idle" => rows[p].st # "absent"
  /\ owed[p] > 0 \/ (\E r \in Requests : rq[r].x = p) => worker[p] # "idle"

\* A request makes its row in its last step but one, for its own message; only
\* rows of the conversation's own side are adopted by another.
Makes(r) ==
  rows[r].st # "absent" =>
    /\ rq[r].pc \in {"answer", "ended"}
    /\ rows[r].says = Text[rq[r].x] /\ rows[r].ext # NoOne
    /\ rows[r].mine <=> rq[r].x \in FromMe
    /\ rq[r].x \notin FromMe => rows[r].ext = rq[r].x

\* What a request has seen of the row it is about to write.
Seen(r) ==
  /\ IF rq[r].pc = "unused" THEN rq[r].x = NoOne ELSE rq[r].x \in Ids
  /\ rq[r].pc = "reconcile" => rq[r].x \in FromMe
  /\ rq[r].pc \in {"sync", "adopt"} => rq[r].row \in RowIds /\ rows[rq[r].row].st # "absent"
  /\ rq[r].pc = "adopt" =>
       rq[r].x \in FromMe /\ rows[rq[r].row].mine /\ rows[rq[r].row].says \in Like(rq[r].x)

\* The row of panel message x would be found by its echo.
InReach(x) == InTime(x, x) /\ Text[x] \in Fits[x]

\* No request makes a row for a panel message that would be found.
Overlooks(r) ==
  rq[r].x \in Panel /\ (rq[r].pc = "create" \/ rows[r].st # "absent") => ~ InReach(rq[r].x)

RowsAgree ==
  /\ \A i \in RowIds : Tells(i)
  /\ \A p \in Panel : Precedes(p)
  /\ \A r \in Requests : Makes(r) /\ Seen(r) /\ Overlooks(r)

LEMMA RowsAgreeInit == Init => RowsAgree
<1> SUFFICES ASSUME Init PROVE RowsAgree
  OBVIOUS
<1>1. \A i \in RowIds : rows[i] = Absent
  BY DEF Init
<1>2. \A r \in Requests : rq[r] = Unused
  BY DEF Init
<1>3. \A p \in Panel : worker[p] = "idle" /\ owed[p] = 0
  BY IdsApart DEF Init
<1> QED
  BY <1>1, <1>2, <1>3, IdsApart DEF RowsAgree, Tells, Precedes, Makes, Seen, Overlooks, Absent, Unused

\* A row that exists stays, says the same, and does not grow younger.
LEMMA RowsStay ==
  ASSUME TypeOK, RowsAgree, NEW i \in RowIds, rows[i].st # "absent", Changes(i)
  PROVE  /\ rows'[i].st # "absent"
         /\ rows'[i].says = rows[i].says
         /\ rows'[i].mine = rows[i].mine
         /\ \A x : InTime(i, x)' => InTime(i, x)
<1> SUFFICES /\ rows'[i].st # "absent" /\ rows'[i].says = rows[i].says /\ rows'[i].mine = rows[i].mine
             /\ \/ rows'[i].age \in {rows[i].age, "old"}
                \/ rows'[i].age = "recent" /\ rows[i].age = "new"
  BY DEF InTime
<1>1. CASE i \in Requests /\ Create(i)
  BY <1>1, Answers DEF RowsAgree, Makes
<1>2. ASSUME NEW r \in Requests, rq[r].row = i, Adopt(r) PROVE Becomes(i, "SENT", rq[r].x)
  BY <1>2, Adopts
<1>3. ASSUME NEW r \in Requests, rq[r].row = i, Sync(r) PROVE Becomes(i, "SENT", rows[i].ext)
  BY <1>3, Syncs
<1>4. CASE i \in Panel /\ (PanelSend(i) \/ Settled(i) \/ GivenUp(i))
  <2>1. \E st, ext : st # "absent" /\ Becomes(i, st, ext)
    BY <1>4, PanelSends, Settles, GivesUp
  <2> QED
    BY <2>1 DEF Becomes
<1>5. CASE Lapse(i)
  BY <1>5, Lapses
<1>6. CASE rows'[i] = rows[i]
  BY <1>6
<1>7. CASE \E r \in Requests : rq[r].row = i /\ (Adopt(r) \/ Sync(r))
  BY <1>2, <1>3, <1>7 DEF Becomes
<1> QED
  BY <1>1, <1>4, <1>5, <1>6, <1>7 DEF Changes

\* A row appears when a request makes it or the panel sends it.
LEMMA RowsAppear ==
  ASSUME TypeOK, RowsAgree, NEW i \in RowIds, rows[i].st = "absent", rows'[i].st # "absent", Changes(i)
  PROVE  (i \in Requests /\ Create(i)) \/ (i \in Panel /\ PanelSend(i))
<1>1. ASSUME NEW r \in Requests, rq[r].row = i, Adopt(r) \/ Sync(r) PROVE FALSE
  BY <1>1, Answers DEF RowsAgree, Seen
<1>2. ASSUME i \in Panel, Settled(i) \/ GivenUp(i) PROVE FALSE
  BY <1>2, PanelSends, Settles, GivesUp DEF RowsAgree, Precedes
<1>3. ASSUME Lapse(i) PROVE FALSE
  BY <1>3, Lapses
<1>4. rows'[i] # rows[i]
  OBVIOUS
<1>5. ~ \E r \in Requests : rq[r].row = i /\ (Adopt(r) \/ Sync(r))
  BY <1>1
<1> QED
  BY <1>2, <1>3, <1>4, <1>5 DEF Changes

\* A request keeps its message, and gets one when it starts.
LEMMA MessagesStay ==
  ASSUME TypeOK, NEW r \in Requests, Moves(r)
  PROVE  /\ rq[r].pc # "unused" => rq'[r].x = rq[r].x /\ rq'[r].pc # "unused"
         /\ rq'[r] = rq[r] \/ (rq'[r].x \in Ids /\ owed[rq'[r].x] > 0 /\ rq[r].pc = "unused"
                                 /\ rq'[r].pc \in {"find", "ended"})
              \/ (rq'[r].x = rq[r].x /\ rq[r].pc # "unused" /\ rq'[r].pc # "unused")
<1>1. ASSUME NEW x \in Ids, NEW call \in Calls, Acquire(r, x, call)
      PROVE  rq[r].pc = "unused" /\ rq'[r].x = x /\ owed[x] > 0 /\ rq'[r].pc \in {"find", "ended"}
  BY <1>1, Acquires
<1>2. CASE Ends(r)
  BY <1>2 DEF Ends, Live
<1>3. CASE Find(r) \/ Reconcile(r)
  <2>1. PICK i, pc : /\ rq'[r] = [pc |-> pc, x |-> rq[r].x, row |-> i]
                     /\ pc \in {"reconcile", "create", "answer", "sync", "adopt"}
                     /\ rq[r].pc \in {"find", "reconcile"}
    BY <1>3, Finds
  <2> QED
    BY <2>1
<1>4. CASE Adopt(r) \/ Sync(r) \/ Create(r)
  BY <1>4, Answers
<1> QED
  BY <1>1, <1>2, <1>3, <1>4 DEF Moves

LEMMA TellsStep ==
  ASSUME TypeOK, RowsAgree, NEW i \in RowIds, Changes(i)
  PROVE  Tells(i)'
<1>a. Tells(i)
  BY DEF RowsAgree
<1>1. CASE i \in Requests /\ Create(i)
  BY <1>1, Creates, Answers, IdsApart DEF Tells, RowsAgree, Seen, Like
<1>2. ASSUME NEW r \in Requests, rq[r].row = i, Adopt(r)
      PROVE  Tells(i)'
  <2>1. Becomes(i, "SENT", rq[r].x)
    BY <1>2, Adopts
  <2>2. rq[r].x \in FromMe /\ rows[i].mine /\ rows[i].says \in Like(rq[r].x)
    BY <1>2, Answers DEF RowsAgree, Seen
  <2> QED
    BY <2>1, <2>2, IdsApart DEF Tells, Becomes
<1>3. ASSUME NEW r \in Requests, rq[r].row = i, Sync(r)
      PROVE  Tells(i)'
  BY <1>a, <1>3, Syncs DEF Tells, Becomes
<1>4. CASE i \in Panel /\ (PanelSend(i) \/ GivenUp(i))
  BY <1>a, <1>4, PanelSends, Settles, GivesUp DEF Tells, Becomes
<1>5. CASE i \in Panel /\ Settled(i)
  <2>1. Becomes(i, "SENT", i) /\ rows[i].says = Text[i] /\ rows[i].mine
    BY <1>5, PanelSends, Settles, GivesUp DEF RowsAgree, Precedes
  <2> QED
    BY <1>5, <2>1, IdsApart DEF Tells, Becomes, Like
<1>6. CASE Lapse(i)
  BY <1>a, <1>6, Lapses DEF Tells
<1>7. CASE rows'[i] = rows[i]
  BY <1>a, <1>7 DEF Tells
<1> QED
  BY <1>1, <1>2, <1>3, <1>4, <1>5, <1>6, <1>7 DEF Changes

LEMMA PrecedesStep ==
  ASSUME TInv, RowsAgree, [Next]_vars, NEW p \in Panel
  PROVE  Precedes(p)'
<1>a. TypeOK /\ Precedes(p) /\ p \in RowIds /\ p \in Ids /\ p \in FromMe /\ p \notin Requests
  BY IdsApart DEF TInv, RowsAgree
<1>b. Changes(p)
  BY <1>a, RowStep
<1>1. rows'[p].st # "absent" => rows'[p].says = Text[p] /\ rows'[p].mine
  <2>1. CASE rows[p].st # "absent"
    BY <1>a, <1>b, <2>1, RowsStay DEF Precedes
  <2>2. CASE rows[p].st = "absent" /\ rows'[p].st # "absent"
    BY <1>a, <1>b, <2>2, RowsAppear, PanelSends, Settles, GivesUp
  <2> QED
    BY <2>1, <2>2
<1>2. worker'[p] = worker[p] \/ PanelSend(p) \/ worker[p] # "idle"
  <2>1. ASSUME NEW q \in Panel, PanelSend(q) \/ Accepted(q) \/ Settled(q) \/ GivenUp(q)
        PROVE  worker'[p] = worker[p] \/ PanelSend(p) \/ worker[p] # "idle"
    BY <1>a, <2>1 DEF PanelSend, Accepted, Settled, GivenUp, TypeOK
  <2>2. ASSUME NEW r \in Requests, Handle(r)
        PROVE  worker' = worker
    BY <2>2 DEF Handle, Acquire, Find, Reconcile, Adopt, Sync, Create, Complete, HandlerFails, Outside
  <2>3. ASSUME NEW x \in Ids, Written(x) \/ Expire(x)
        PROVE  worker' = worker
    BY <2>3 DEF Written, Expire, Outside
  <2>4. ASSUME NEW i \in RowIds, Lapse(i)
        PROVE  worker' = worker
    BY <2>4 DEF Lapse, Outside
  <2>5. Restart \/ UNCHANGED vars => worker' = worker
    BY DEF Restart, vars
  <2> QED
    BY <2>1, <2>2, <2>3, <2>4, <2>5 DEF Next
<1>3. worker[p] # "idle" => worker'[p] # "idle"
  <2>1. ASSUME NEW q \in Panel, PanelSend(q) \/ Accepted(q) \/ Settled(q) \/ GivenUp(q)
        PROVE  worker'[p] = worker[p] \/ worker'[p] # "idle"
    BY <1>a, <2>1 DEF PanelSend, Accepted, Settled, GivenUp, TypeOK
  <2>2. ASSUME NEW r \in Requests, Handle(r)
        PROVE  worker' = worker
    BY <2>2 DEF Handle, Acquire, Find, Reconcile, Adopt, Sync, Create, Complete, HandlerFails, Outside
  <2>3. ASSUME NEW x \in Ids, Written(x) \/ Expire(x)
        PROVE  worker' = worker
    BY <2>3 DEF Written, Expire, Outside
  <2>4. ASSUME NEW i \in RowIds, Lapse(i)
        PROVE  worker' = worker
    BY <2>4 DEF Lapse, Outside
  <2>5. Restart \/ UNCHANGED vars => worker' = worker
    BY DEF Restart, vars
  <2> QED
    BY <2>1, <2>2, <2>3, <2>4, <2>5 DEF Next
<1>4. worker'[p] # "idle" => rows'[p].st # "absent"
  <2>1. CASE PanelSend(p)
    BY <1>a, <2>1, PanelSends, Settles, GivesUp
  <2>2. CASE worker[p] # "idle"
    BY <1>a, <1>b, <2>2, RowsStay DEF Precedes
  <2> QED
    BY <1>2, <2>1, <2>2
<1>5. ASSUME \E r \in Requests : rq'[r].x = p
      PROVE  worker[p] # "idle"
  <2>1. PICK r \in Requests : rq'[r].x = p
    BY <1>5
  <2>2. Moves(r)
    BY <1>a, RequestStep
  <2>3. rq[r].x = p \/ owed[p] > 0
    BY <1>a, <2>1, <2>2, MessagesStay
  <2> QED
    BY <1>a, <2>3 DEF Precedes
<1>6. ASSUME owed'[p] > 0
      PROVE  worker[p] # "idle"
  <2>1. ASSUME NEW r \in Requests, NEW x \in Ids, NEW call \in Calls, Acquire(r, x, call)
        PROVE  owed[p] > 0
    BY <1>a, <1>6, <2>1 DEF Acquire, TypeOK
  <2>2. ASSUME NEW r \in Requests, NEW call \in Calls, HandlerFails(r, call)
        PROVE  owed[p] > 0 \/ rq[r].x = p
    BY <1>a, <1>6, <2>2 DEF HandlerFails, TypeOK
  <2>3. ASSUME NEW q \in Panel, Accepted(q)
        PROVE  owed[p] > 0 \/ worker[p] # "idle"
    BY <1>a, <1>6, <2>3 DEF Accepted, Posts, TypeOK
  <2>4. ASSUME NEW x \in Ids, Written(x)
        PROVE  owed[p] > 0
    BY <1>a, <1>6, <2>4, IdsApart DEF Written, Posts, TypeOK
  <2>5. ASSUME Restart
        PROVE  owed[p] > 0 \/ \E r \in Requests : rq[r].x = p
    <3> DEFINE cut(x) == {r \in Requests : Live(r) /\ rq[r].x = x}
    <3>1. owed' = [x \in Ids |-> owed[x] + Cardinality(cut(x))]
      BY <2>5 DEF Restart
    <3>2. owed'[p] = owed[p] + Cardinality(cut(p)) /\ owed[p] \in Nat
      BY <1>a, <3>1 DEF TypeOK
    <3>3. CASE cut(p) = {}
      BY <1>6, <3>2, <3>3, FS_EmptySet
    <3> QED
      BY <3>3
  <2>6. ASSUME NEW r \in Requests, NEW call \in Calls,
               Find(r) \/ Reconcile(r) \/ Adopt(r) \/ Sync(r) \/ Create(r) \/ Complete(r, call)
        PROVE  owed' = owed
    BY <2>6 DEF Find, Reconcile, Adopt, Sync, Create, Complete, Outside
  <2>7. ASSUME NEW q \in Panel, PanelSend(q) \/ Settled(q) \/ GivenUp(q)
        PROVE  owed' = owed
    BY <2>7 DEF PanelSend, Settled, GivenUp
  <2>8. ASSUME NEW x \in Ids, Expire(x)
        PROVE  owed' = owed
    BY <2>8 DEF Expire, Outside
  <2>9. ASSUME NEW i \in RowIds, Lapse(i)
        PROVE  owed' = owed
    BY <2>9 DEF Lapse, Outside
  <2>10. UNCHANGED vars => owed' = owed
    BY DEF vars
  <2>11. "ok" \in Calls
    BY DEF Calls
  <2> QED
    BY <1>a, <1>6, <2>1, <2>2, <2>3, <2>4, <2>5, <2>6, <2>7, <2>8, <2>9, <2>10, <2>11
    DEF Next, Handle, Precedes
<1> QED
  BY <1>1, <1>3, <1>4, <1>5, <1>6 DEF Precedes

LEMMA MakesStep ==
  ASSUME TypeOK, RowsAgree, NEW r \in Requests, Moves(r), Changes(r)
  PROVE  Makes(r)'
<1> SUFFICES ASSUME rows'[r].st # "absent" PROVE Makes(r)'
  BY DEF Makes
<1>a. r \in RowIds /\ r \notin Panel /\ Makes(r) /\ Seen(r) /\ Tells(r)
  BY IdsApart DEF RowsAgree
<1>1. CASE rows[r].st = "absent"
  <2>1. Create(r)
    BY <1>a, <1>1, RowsAppear
  <2> QED
    BY <1>a, <2>1, Creates, Answers, IdsApart DEF Makes, Seen
<1>2. CASE rows[r].st # "absent"
  <2>1. rows'[r].says = rows[r].says /\ rows'[r].mine = rows[r].mine
    BY <1>a, <1>2, RowsStay
  <2>2. rq'[r].x = rq[r].x /\ rq'[r].pc \in {"answer", "ended"} /\ rq[r].x \in Ids
    <3>1. rq[r].pc \in {"answer", "ended"} /\ rq[r].x \in Ids
      BY <1>a, <1>2 DEF Makes, Seen
    <3>2. CASE rq'[r] = rq[r]
      BY <3>1, <3>2
    <3>3. CASE Ends(r)
      BY <3>1, <3>3 DEF Ends
    <3>4. CASE Find(r) \/ Reconcile(r)
      BY <3>1, <3>4, Finds
    <3>5. CASE Adopt(r) \/ Sync(r) \/ Create(r)
      BY <3>1, <3>5, Answers
    <3>6. ASSUME NEW x \in Ids, NEW call \in Calls, Acquire(r, x, call) PROVE FALSE
      BY <3>1, <3>6, Acquires
    <3> QED
      BY <3>2, <3>3, <3>4, <3>5, <3>6 DEF Moves
  <2>3. rows'[r].ext = rows[r].ext \/ (rows'[r].ext \in FromMe /\ rq[r].x \in FromMe)
    <3>1. ASSUME NEW s \in Requests, rq[s].row = r, Adopt(s)
          PROVE  rows'[r].ext \in FromMe /\ rq[r].x \in FromMe
      <4>1. Becomes(r, "SENT", rq[s].x)
        BY <1>a, <3>1, Adopts
      <4>2. rq[s].x \in FromMe /\ rows[r].mine
        BY <3>1, Answers DEF RowsAgree, Seen
      <4> QED
        BY <1>a, <1>2, <4>1, <4>2 DEF Becomes, Makes
    <3>2. ASSUME NEW s \in Requests, rq[s].row = r, Sync(s)
          PROVE  rows'[r].ext = rows[r].ext
      BY <1>a, <3>2, Syncs DEF Becomes
    <3>3. ASSUME Create(r) PROVE FALSE
      BY <1>a, <1>2, <3>3, Answers DEF Makes
    <3>4. ASSUME Lapse(r) PROVE rows'[r].ext = rows[r].ext
      BY <1>a, <3>4, Lapses
    <3> QED
      BY <1>a, <3>1, <3>2, <3>3, <3>4 DEF Changes
  <2> QED
    BY <1>a, <1>2, <2>1, <2>2, <2>3, IdsApart DEF Makes
<1> QED
  BY <1>1, <1>2

LEMMA SeenStep ==
  ASSUME TInv, RowsAgree, [Next]_vars, NEW r \in Requests
  PROVE  Seen(r)'
<1>a. TypeOK /\ Seen(r) /\ Moves(r)
  BY RequestStep DEF TInv, RowsAgree
<1>b. \A i \in RowIds : Changes(i)
  BY <1>a, RowStep
<1>c. \A i \in RowIds : rows[i].st # "absent" =>
        rows'[i].st # "absent" /\ rows'[i].says = rows[i].says /\ rows'[i].mine = rows[i].mine
  BY <1>a, <1>b, RowsStay
<1>1. CASE rq'[r] = rq[r]
  BY <1>a, <1>c, <1>1 DEF Seen
<1>2. ASSUME NEW x \in Ids, NEW call \in Calls, Acquire(r, x, call)
      PROVE  Seen(r)'
  BY <1>a, <1>2, Acquires DEF Seen
<1>3. CASE Ends(r)
  BY <1>a, <1>3 DEF Seen, Ends, Live
<1>4. CASE Adopt(r) \/ Sync(r) \/ Create(r)
  BY <1>a, <1>4, Answers DEF Seen
<1>5. CASE Find(r) \/ Reconcile(r)
  <2>1. PICK i, pc :
          /\ rq'[r] = [pc |-> pc, x |-> rq[r].x, row |-> i]
          /\ \/ rq[r].pc = "find" /\ pc = IF rq[r].x \in FromMe THEN "reconcile" ELSE "create"
             \/ rq[r].pc = "find" /\ i \in RowsOf(rq[r].x) /\ pc \in {"answer", "sync"}
             \/ rq[r].pc = "reconcile" /\ pc = "create"
             \/ rq[r].pc = "reconcile" /\ i \in EchoesOf(rq[r].x) /\ pc = "adopt"
    BY <1>a, <1>5, Finds
  <2>2. rq[r].x \in Ids
    BY <1>a, <2>1 DEF Seen
  <2>3. CASE pc \in {"reconcile", "create", "answer"}
    BY <1>a, <2>1, <2>2, <2>3 DEF Seen
  <2>4. CASE pc = "sync" /\ i \in RowsOf(rq[r].x)
    BY <1>c, <2>1, <2>2, <2>4 DEF Seen, RowsOf, Rows
  <2>5. CASE pc = "adopt" /\ i \in EchoesOf(rq[r].x) /\ rq[r].pc = "reconcile"
    BY <1>a, <1>c, <2>1, <2>2, <2>5 DEF Seen, EchoesOf, Rows, Like
  <2> QED
    BY <2>1, <2>3, <2>4, <2>5
<1> QED
  BY <1>a, <1>1, <1>2, <1>3, <1>4, <1>5 DEF Moves

LEMMA OverlooksStep ==
  ASSUME TInv, RowsAgree, [Next]_vars, NEW r \in Requests
  PROVE  Overlooks(r)'
<1> SUFFICES ASSUME NEW x \in Panel, rq'[r].x = x, rq'[r].pc = "create" \/ rows'[r].st # "absent"
             PROVE  ~ InReach(x)'
  BY DEF Overlooks, InReach, InTime
<1>a. TypeOK /\ Moves(r) /\ Makes(r) /\ Seen(r) /\ Overlooks(r) /\ r \in RowIds /\ r \notin Panel /\ Changes(r)
  BY RequestStep, RowStep, IdsApart DEF TInv, RowsAgree
<1>b. rows[r].st # "absent" => rows'[r].st # "absent"
  BY <1>a, RowsStay
<1>1. rq[r].pc # "unused" /\ rq[r].x = x
  <2>1. CASE rq[r].pc = "unused"
    <3>1. rows[r].st = "absent" /\ rows'[r].st = "absent"
      BY <1>a, <2>1, RowsAppear, Answers DEF Makes
    <3>2. rq'[r].pc \in {"unused", "find", "ended"}
      BY <1>a, <2>1, MessagesStay
    <3> QED
      BY <3>1, <3>2
  <2> QED
    BY <1>a, <2>1, MessagesStay
<1>2. rows[x].st # "absent" /\ rows[x].mine /\ rows[x].says = Text[x] /\ x \in RowIds
  BY <1>1, IdsApart DEF RowsAgree, Precedes
<1>3. InTime(x, x)' => InTime(x, x)
  <2>1. Changes(x)
    BY <1>a, <1>2, RowStep
  <2> QED
    BY <1>a, <1>2, <2>1, RowsStay
<1>4. ~ InReach(x)
  <2>1. CASE rq[r].pc = "create" \/ rows[r].st # "absent"
    BY <1>a, <1>1, <2>1 DEF Overlooks
  <2>2. CASE rq[r].pc # "create" /\ rows[r].st = "absent"
    <3>1. rows'[r].st = "absent"
      BY <1>a, <2>2, RowsAppear, Answers
    <3>2. rq'[r].pc = "create" /\ rq'[r] # rq[r]
      BY <2>2, <3>1
    <3>3. Find(r) \/ Reconcile(r)
      <4>1. ASSUME NEW y \in Ids, NEW call \in Calls, Acquire(r, y, call) PROVE FALSE
        BY <1>a, <3>2, <4>1, Acquires
      <4>2. ~ (Adopt(r) \/ Sync(r) \/ Create(r) \/ Ends(r))
        BY <1>a, <3>2, Answers DEF Ends
      <4> QED
        BY <1>a, <3>2, <4>1, <4>2 DEF Moves
    <3>4. x \in FromMe
      BY <1>1, IdsApart
    <3>5. EchoesOf(x) = {}
      <4>1. PICK i, pc :
              /\ rq'[r] = [pc |-> pc, x |-> x, row |-> i]
              /\ \/ pc = IF x \in FromMe THEN "reconcile" ELSE "create"
                 \/ pc \in {"answer", "sync"}
                 \/ EchoesOf(x) = {}
                 \/ pc = "adopt"
        BY <1>a, <1>1, <3>3, Finds
      <4> QED
        BY <3>2, <3>4, <4>1
    <3> QED
      BY <1>2, <3>5 DEF EchoesOf, Rows, InReach
  <2> QED
    BY <2>1, <2>2
<1> QED
  BY <1>1, <1>3, <1>4 DEF InReach, InTime

LEMMA RowsAgreeStep == TInv /\ RowsAgree /\ [Next]_vars => RowsAgree'
<1> SUFFICES ASSUME TInv, RowsAgree, [Next]_vars PROVE RowsAgree'
  OBVIOUS
<1>a. TypeOK /\ Requests \subseteq RowIds
  BY IdsApart DEF TInv
<1>1. \A i \in RowIds : Tells(i)'
  BY <1>a, RowStep, TellsStep
<1>2. \A p \in Panel : Precedes(p)'
  BY PrecedesStep
<1>3. \A r \in Requests : Makes(r)'
  BY <1>a, RequestStep, RowStep, MakesStep
<1>4. \A r \in Requests : Seen(r)' /\ Overlooks(r)'
  BY SeenStep, OverlooksStep
<1> QED
  BY <1>1, <1>2, <1>3, <1>4 DEF RowsAgree

-----------------------------------------------------------------------------
(* One row for a message *)

\* The rows that requests made for message x.
Made(x) == {r \in Requests : rows[r].st # "absent" /\ rq[r].x = x}

Clean(x) == "redis" \notin taint[x] /\ \A r \in expired : rq[r].x # x

\* While a request is about to make a row, no other request has made one.
MadeOnce(x) ==
  x \notin Panel /\ Unmistakable(x) /\ Clean(x) =>
    /\ \A r, s \in Made(x) : r = s
    /\ \A r \in Requests : rq[r].x = x /\ rq[r].pc \in {"reconcile", "create"} => Made(x) = {}

\* A row of an unmistakable message says what that message says.
LEMMA SaysItsOwn ==
  ASSUME RowsAgree, NEW x \in FromMe, Unmistakable(x), NEW i \in RowsOf(x)
  PROVE  rows[i].mine /\ rows[i].says = Text[x]
<1>1. i \in RowIds /\ rows[i].st # "absent" /\ rows[i].ext = x /\ x # NoOne
  BY IdsApart DEF RowsOf, Rows
<1>2. rows[i].mine /\ rows[i].says \in Like(x)
  BY <1>1 DEF RowsAgree, Tells
<1>3. \E y \in FromMe : rows[i].says = Text[y]
  BY <1>1, <1>2, IdsApart DEF RowsAgree, Precedes, Makes, RowIds
<1> QED
  BY <1>2, <1>3 DEF Unmistakable

LEMMA PanelRowOf ==
  ASSUME RowsAgree, NEW x \in Panel, Unmistakable(x), InReach(x)
  PROVE  RowsOf(x) \subseteq {x}
<1> SUFFICES ASSUME NEW i \in RowsOf(x) PROVE i = x
  OBVIOUS
<1>1. i \in RowIds /\ rows[i].st # "absent" /\ rows[i].ext = x /\ x # NoOne /\ x \in FromMe
  BY IdsApart DEF RowsOf, Rows
<1>2. rows[i].says = Text[x] /\ rows[i].mine
  BY <1>1, SaysItsOwn
<1>3. CASE i \in Panel
  BY <1>1, <1>2, <1>3, IdsApart DEF RowsAgree, Precedes, Unmistakable, Like
<1>4. CASE i \in Requests
  <2>1. rq[i].x \in FromMe /\ Text[rq[i].x] = Text[x]
    BY <1>1, <1>2, <1>4 DEF RowsAgree, Makes
  <2>2. rq[i].x = x
    BY <1>1, <2>1 DEF Unmistakable, Like
  <2> QED
    BY <1>1, <1>4, <2>2 DEF RowsAgree, Overlooks
<1> QED
  BY <1>1, <1>3, <1>4 DEF RowIds

LEMMA RowsOfAreMade ==
  ASSUME RowsAgree, NEW x \in Ids, x \notin Panel, Unmistakable(x)
  PROVE  RowsOf(x) = Made(x)
<1>a. x # NoOne
  BY IdsApart
<1>1. ASSUME NEW i \in RowsOf(x) PROVE i \in Made(x)
  <2>1. i \in RowIds /\ rows[i].st # "absent" /\ rows[i].ext = x
    BY <1>1 DEF RowsOf, Rows
  <2>2. /\ x \in FromMe => rows[i].says = Text[x]
        /\ rows[i].mine <=> x \in FromMe
    BY <1>a, <1>1, <2>1, SaysItsOwn DEF RowsAgree, Tells
  <2>3. i \notin Panel
    BY <2>1, <2>2, IdsApart DEF RowsAgree, Precedes, Unmistakable, Like
  <2>4. i \in Requests /\ Makes(i)
    BY <2>1, <2>3 DEF RowIds, RowsAgree
  <2>5. CASE x \in FromMe
    BY <2>1, <2>2, <2>4, <2>5 DEF Makes, Unmistakable, Made, Like
  <2>6. CASE x \notin FromMe
    BY <2>1, <2>2, <2>4, <2>6 DEF Makes, Made
  <2> QED
    BY <2>5, <2>6
<1>2. ASSUME NEW r \in Made(x) PROVE r \in RowsOf(x)
  <2>1. r \in Requests /\ r \in RowIds /\ rows[r].st # "absent" /\ rq[r].x = x
    BY <1>2, IdsApart DEF Made
  <2>2. Makes(r) /\ Tells(r)
    BY <2>1 DEF RowsAgree
  <2>3. CASE x \in FromMe
    <3>1. rows[r].ext \in FromMe /\ Text[x] \in Like(rows[r].ext)
      BY <2>1, <2>2, <2>3 DEF Makes, Tells
    <3>2. rows[r].ext = x
      BY <2>3, <3>1 DEF Unmistakable
    <3> QED
      BY <2>1, <3>2 DEF RowsOf, Rows
  <2>4. CASE x \notin FromMe
    BY <2>1, <2>2, <2>4 DEF Makes, RowsOf, Rows
  <2> QED
    BY <2>3, <2>4
<1> QED
  BY <1>1, <1>2

\* Incidents are never forgotten.
LEMMA IncidentsGrow ==
  ASSUME TypeOK, [Next]_vars, NEW x \in Ids
  PROVE  taint[x] \subseteq taint'[x] /\ expired \subseteq expired'
<1>1. ASSUME NEW r \in Requests, NEW y \in Ids, NEW call \in Calls, Acquire(r, y, call)
      PROVE  taint[x] \subseteq taint'[x] /\ expired' = expired
  <2>1. Answered(y, call) /\ expired' = expired
    BY <1>1 DEF Acquire
  <2> QED
    BY <2>1, AnswerTaints
<1>2. ASSUME NEW r \in Requests, NEW call \in Calls, Complete(r, call)
      PROVE  taint[x] \subseteq taint'[x] /\ expired' = expired
  <2>1. Answered(rq[r].x, call) /\ expired' = expired
    BY <1>2 DEF Complete
  <2> QED
    BY <2>1, AnswerTaints
<1>3. ASSUME NEW r \in Requests, NEW call \in Calls, HandlerFails(r, call)
      PROVE  taint[x] \subseteq taint'[x] /\ expired' = expired
  <2>1. Fault({rq[r].x}, IF call = "ok" THEN "failed" ELSE "redis") /\ expired' = expired
    BY <1>3 DEF HandlerFails
  <2> QED
    BY <2>1, TaintGrows
<1>4. ASSUME NEW y \in Ids, Expire(y)
      PROVE  taint' = taint /\ expired \subseteq expired'
  BY <1>4 DEF Expire, Overtaken
<1>5. ASSUME Restart
      PROVE  taint[x] \subseteq taint'[x] /\ expired' = expired
  <2>1. (\E xs : Fault(xs, "restart")) /\ expired' = expired
    BY <1>5 DEF Restart
  <2> QED
    BY <2>1, TaintGrows
<1>6. ASSUME NEW r \in Requests, Find(r) \/ Reconcile(r) \/ Adopt(r) \/ Sync(r) \/ Create(r)
      PROVE  taint' = taint /\ expired' = expired
  BY <1>6 DEF Find, Reconcile, Adopt, Sync, Create
<1>7. ASSUME NEW p \in Panel, PanelSend(p) \/ Accepted(p) \/ Settled(p) \/ GivenUp(p)
      PROVE  taint' = taint /\ expired' = expired
  BY <1>7 DEF PanelSend, Accepted, Settled, GivenUp
<1>8. ASSUME NEW y \in Ids, Written(y)
      PROVE  taint' = taint /\ expired' = expired
  BY <1>8 DEF Written
<1>9. ASSUME NEW i \in RowIds, Lapse(i)
      PROVE  taint' = taint /\ expired' = expired
  BY <1>9 DEF Lapse
<1>10. UNCHANGED vars => taint' = taint /\ expired' = expired
  BY DEF vars
<1> QED
  BY <1>1, <1>2, <1>3, <1>4, <1>5, <1>6, <1>7, <1>8, <1>9, <1>10 DEF Next, Handle

\* Two requests that work on an untroubled message are one.
LEMMA OneWorks ==
  ASSUME \A r \in Requests : Holds(r), NEW x, Clean(x), NEW r \in Working(x), NEW s \in Working(x)
  PROVE  r = s
<1>1. redis[x] = Held(r) /\ redis[x] = Held(s)
  BY DEF Holds, Clean, Working
<1> QED
  BY <1>1 DEF Held

LEMMA MadeStep ==
  ASSUME TInv, RowsAgree, \A r \in Requests : Holds(r), NEW x \in Ids, MadeOnce(x), [Next]_vars
  PROVE  MadeOnce(x)'
<1> SUFFICES ASSUME x \notin Panel, Unmistakable(x), Clean(x)' PROVE
               /\ \A r, s \in Made(x)' : r = s
               /\ \A r \in Requests : rq'[r].x = x /\ rq'[r].pc \in {"reconcile", "create"} => Made(x)' = {}
  BY DEF MadeOnce, Unmistakable
<1>a. TypeOK /\ (\A r \in Requests : Moves(r) /\ Makes(r) /\ Seen(r)) /\ \A i \in RowIds : Changes(i)
  BY RequestStep, RowStep DEF TInv, RowsAgree
<1>b. x # NoOne /\ Requests \subseteq RowIds /\ Panel \cap Requests = {}
  BY IdsApart
<1>c. \A r \in Requests : rq[r].x = x => rq'[r].x = x
  BY <1>a, <1>b, MessagesStay DEF Seen
<1>d. Clean(x)
  BY <1>a, <1>c, IncidentsGrow DEF Clean, TypeOK
<1>e. (\A r, s \in Made(x) : r = s) /\ RowsOf(x) = Made(x)
      /\ \A r \in Requests : rq[r].x = x /\ rq[r].pc \in {"reconcile", "create"} => Made(x) = {}
  BY <1>d, RowsOfAreMade DEF MadeOnce
<1>1. ASSUME NEW s \in Made(x)'
      PROVE  s \in Made(x) \/ (Create(s) /\ rq[s].x = x)
  <2>1. s \in Requests /\ rows'[s].st # "absent" /\ rq'[s].x = x
    BY <1>1 DEF Made
  <2>2. CASE rows[s].st # "absent"
    <3>1. rq[s].pc # "unused"
      BY <1>a, <2>1, <2>2 DEF Makes
    <3> QED
      BY <1>a, <2>1, <2>2, <3>1, MessagesStay DEF Made
  <2>3. CASE rows[s].st = "absent"
    <3>1. Create(s)
      BY <1>a, <1>b, <2>1, <2>3, RowsAppear
    <3> QED
      BY <1>a, <2>1, <3>1, Answers
  <2> QED
    BY <2>2, <2>3
<1>2. ASSUME NEW r \in Requests, NEW s \in Requests, r # s, Create(s)
      PROVE  rq'[r] = rq[r]
  BY <1>a, <1>2 DEF Create, Goto, TypeOK
<1>3. ASSUME NEW r \in Requests, Create(r), rq[r].x = x
      PROVE  r \in Working(x) /\ Made(x) = {} /\ rq'[r].pc = "answer"
  <2>1. rq[r].pc = "create" /\ rq'[r].pc = "answer"
    BY <1>a, <1>3, Answers
  <2> QED
    BY <1>3, <1>e, <2>1 DEF Working, Live
<1>4. ASSUME NEW r \in Made(x)', NEW s \in Made(x)'
      PROVE  r = s
  <2>1. r \in Requests /\ s \in Requests
    BY <1>4 DEF Made
  <2>2. CASE r \in Made(x) /\ s \in Made(x)
    BY <1>e, <2>2
  <2>3. CASE Create(r) /\ rq[r].x = x /\ Create(s) /\ rq[s].x = x
    BY <1>3, <1>d, <2>1, <2>3, OneWorks
  <2> QED
    BY <1>1, <1>3, <1>4, <2>1, <2>2, <2>3
<1>5. ASSUME NEW r \in Requests, rq'[r].x = x, rq'[r].pc \in {"reconcile", "create"}, NEW s \in Made(x)'
      PROVE  FALSE
  <2>1. s \in Requests
    BY <1>5 DEF Made
  <2>2. CASE Create(s) /\ rq[s].x = x
    <3>1. r # s
      BY <1>3, <1>5, <2>1, <2>2
    <3>2. rq'[r] = rq[r]
      BY <1>2, <2>1, <2>2, <3>1
    <3>3. r \in Working(x)
      BY <1>5, <3>2 DEF Working, Live
    <3> QED
      BY <1>3, <1>d, <2>1, <2>2, <3>1, <3>3, OneWorks
  <2>3. CASE s \in Made(x)
    <3>1. ~ (rq[r].x = x /\ rq[r].pc \in {"reconcile", "create"})
      BY <1>e, <2>3
    <3>2. rq'[r] # rq[r]
      BY <1>5, <3>1
    <3>3. ~ (Ends(r) \/ Adopt(r) \/ Sync(r) \/ Create(r))
      BY <1>a, <1>5, Answers DEF Ends
    <3>4. ~ \E y \in Ids, call \in Calls : Acquire(r, y, call)
      BY <1>a, <1>5, Acquires
    <3>5. Find(r) \/ Reconcile(r)
      BY <1>a, <3>2, <3>3, <3>4 DEF Moves
    <3>6. PICK i, pc :
            /\ rq'[r] = [pc |-> pc, x |-> rq[r].x, row |-> i]
            /\ \/ RowsOf(rq[r].x) = {}
               \/ pc \in {"answer", "sync"}
               \/ rq[r].pc = "reconcile"
      BY <1>a, <3>5, Finds
    <3> QED
      BY <1>5, <1>e, <2>3, <3>1, <3>6
  <2> QED
    BY <1>1, <1>5, <2>2, <2>3
<1> QED
  BY <1>4, <1>5

LEMMA AtMostOne ==
  ASSUME NEW S, \A r, s \in S : r = s
  PROVE  Cardinality(S) <= 1
<1>1. CASE S = {}
  BY <1>1, FS_EmptySet
<1>2. ASSUME NEW r \in S PROVE Cardinality(S) <= 1
  <2>1. S = {r}
    BY <1>2
  <2> QED
    BY <2>1, FS_Singleton
<1> QED
  BY <1>1, <1>2

\* A message of WhatsApp has one row: neither a repeated webhook nor the echo of
\* a panel message, in time and like its row, duplicates it.
THEOREM NoDuplicateRow == Spec => []OneRowPerMessage
<1> DEFINE Inv == /\ TInv /\ RowsAgree
                  /\ \A r \in Requests : Holds(r)
                  /\ \A x \in Ids : MadeOnce(x)
<1>1. Init => Inv
  <2> SUFFICES ASSUME Init PROVE Inv
    OBVIOUS
  <2>1. TInv /\ RowsAgree
    BY TypeInit, RowsAgreeInit
  <2>2. \A r \in Requests : ~ Live(r) /\ rq[r].pc = "unused" /\ rows[r].st = "absent"
    BY IdsApart DEF Init, Unused, Live, Absent
  <2>3. \A x \in Ids : Made(x) = {}
    BY <2>2 DEF Made
  <2> QED
    BY <2>1, <2>2, <2>3 DEF Holds, MadeOnce
<1>2. Inv /\ [Next]_vars => Inv'
  BY TypeStep, RowsAgreeStep, ClaimStep, MadeStep
<1>3. Inv => OneRowPerMessage
  <2> SUFFICES ASSUME Inv, NEW x \in Ids, Unmistakable(x), "redis" \notin taint[x],
                      \A r \in expired : rq[r].x # x, x \in Panel => InTime(x, x) /\ Text[x] \in Fits[x]
               PROVE  Cardinality(RowsOf(x)) <= 1
    BY DEF OneRowPerMessage
  <2>1. CASE x \in Panel
    <3>1. RowsOf(x) \subseteq {x}
      BY <2>1, PanelRowOf DEF InReach
    <3>2. \A r, s \in RowsOf(x) : r = s
      BY <3>1
    <3> QED
      BY <3>2, AtMostOne
  <2>2. CASE x \notin Panel
    <3>1. \A r, s \in RowsOf(x) : r = s
      BY <2>2, RowsOfAreMade DEF MadeOnce, Clean
    <3> QED
      BY <3>1, AtMostOne
  <2> QED
    BY <2>1, <2>2
<1> QED
  BY <1>1, <1>2, <1>3, PTL DEF Spec

-----------------------------------------------------------------------------
(* What was acknowledged is kept *)

\* A row of an unmistakable message is not taken from it.
LEMMA RowKept ==
  ASSUME TypeOK, RowsAgree, [Next]_vars, NEW x \in Ids, Unmistakable(x), NEW i \in RowsOf(x)
  PROVE  i \in RowsOf(x)'
<1>a. i \in RowIds /\ rows[i].st # "absent" /\ rows[i].ext = x /\ x # NoOne /\ Changes(i)
  BY RowStep, IdsApart DEF RowsOf, Rows
<1>b. (x \in FromMe => rows[i].says = Text[x]) /\ (rows[i].mine <=> x \in FromMe)
  BY <1>a, SaysItsOwn DEF RowsAgree, Tells
<1>c. rows'[i].st # "absent"
  BY <1>a, RowsStay
<1>1. ASSUME i \in Requests, Create(i)
      PROVE  rows'[i].ext = x
  BY <1>1, <1>a, Answers DEF RowsAgree, Makes
<1>2. ASSUME NEW r \in Requests, rq[r].row = i, Adopt(r)
      PROVE  rows'[i].ext = x
  <2>1. Becomes(i, "SENT", rq[r].x)
    BY <1>2, <1>a, Adopts
  <2>2. rq[r].x \in FromMe /\ rows[i].mine /\ rows[i].says \in Like(rq[r].x)
    BY <1>2, Answers DEF RowsAgree, Seen
  <2>3. rq[r].x = x
    BY <1>b, <2>2 DEF Unmistakable
  <2> QED
    BY <2>1, <2>3 DEF Becomes
<1>3. ASSUME NEW r \in Requests, rq[r].row = i, Sync(r)
      PROVE  rows'[i].ext = x
  BY <1>3, <1>a, Syncs DEF Becomes
<1>4. ASSUME i \in Panel, PanelSend(i)
      PROVE  rows'[i].ext = x
  BY <1>4, <1>a, PanelSends
<1>5. ASSUME i \in Panel, Settled(i)
      PROVE  rows'[i].ext = x
  <2>1. Becomes(i, "SENT", i) /\ rows[i].says = Text[i] /\ rows[i].mine
    BY <1>5, <1>a, Settles DEF RowsAgree, Precedes
  <2>2. i = x
    BY <1>5, <1>b, <2>1, IdsApart DEF Unmistakable, Like
  <2> QED
    BY <2>1, <2>2 DEF Becomes
<1>6. ASSUME i \in Panel, GivenUp(i)
      PROVE  rows'[i].ext = x
  BY <1>6, <1>a, GivesUp DEF Becomes
<1>7. ASSUME Lapse(i)
      PROVE  rows'[i].ext = x
  BY <1>7, <1>a, Lapses
<1>8. ASSUME rows'[i] = rows[i]
      PROVE  rows'[i].ext = x
  BY <1>8, <1>a
<1>9. rows'[i].ext = x
  <2>1. ASSUME NEW r \in Requests, rq[r].row = i, Adopt(r) \/ Sync(r)
        PROVE  rows'[i].ext = x
    BY <1>2, <1>3, <2>1
  <2>2. Changes(i)
    BY <1>a
  <2> QED
    BY <2>1, <2>2, <1>1, <1>4, <1>5, <1>6, <1>7, <1>8 DEF Changes
<1> QED
  BY <1>a, <1>c, <1>9 DEF RowsOf, Rows

LEMMA RowsKept ==
  ASSUME TypeOK, RowsAgree, [Next]_vars, NEW x \in Ids, Unmistakable(x), RowsOf(x) # {}
  PROVE  RowsOf(x)' # {}
BY RowKept

\* A request that has found, adopted or made a row leaves the message one.
Found(x) ==
  \A r \in Requests : rq[r].x = x /\ rq[r].pc \in {"sync", "answer"} => RowsOf(x) # {}

LEMMA FoundStep ==
  ASSUME TInv, RowsAgree, [Next]_vars, NEW x \in Ids, Unmistakable(x), Found(x)
  PROVE  Found(x)'
<1> SUFFICES ASSUME NEW r \in Requests, rq'[r].x = x, rq'[r].pc \in {"sync", "answer"}
             PROVE  RowsOf(x)' # {}
  BY DEF Found
<1>a. TypeOK /\ Moves(r) /\ Seen(r) /\ x # NoOne /\ r \in RowIds
  BY RequestStep, IdsApart DEF TInv, RowsAgree
<1>1. CASE rq'[r] = rq[r]
  BY <1>a, <1>1, RowsKept DEF Found
<1>2. ASSUME NEW y \in Ids, NEW call \in Calls, Acquire(r, y, call) PROVE FALSE
  BY <1>a, <1>2, Acquires
<1>3. ASSUME Ends(r) PROVE FALSE
  BY <1>3 DEF Ends
<1>4. CASE Find(r) \/ Reconcile(r)
  <2>1. PICK i, pc :
          /\ rq'[r] = [pc |-> pc, x |-> rq[r].x, row |-> i]
          /\ pc \in {"reconcile", "create", "adopt"} \/ i \in RowsOf(rq[r].x)
    BY <1>a, <1>4, Finds
  <2>2. i \in RowsOf(x)
    BY <2>1
  <2> QED
    BY <1>a, <2>2, RowsKept
<1>5. CASE Adopt(r)
  <2>1. rq[r].x = x /\ rq[r].row \in RowIds /\ Becomes(rq[r].row, "SENT", x)
    BY <1>a, <1>5, Answers, Adopts DEF Seen
  <2>2. rq[r].row \in RowsOf(x)'
    BY <2>1 DEF RowsOf, Rows, Becomes
  <2> QED
    BY <2>2
<1>6. CASE Sync(r)
  <2>1. rq[r].x = x /\ rq[r].pc = "sync"
    BY <1>a, <1>6, Answers
  <2> QED
    BY <1>a, <2>1, RowsKept DEF Found
<1>7. CASE Create(r)
  <2>1. rq[r].x = x
    BY <1>a, <1>7, Answers
  <2>2. rows'[r].st = "SENT" /\ rows'[r].ext = x
    BY <1>a, <1>7, <2>1, Creates
  <2>3. r \in RowsOf(x)'
    BY <1>a, <2>2 DEF RowsOf, Rows
  <2> QED
    BY <2>3
<1> QED
  BY <1>a, <1>1, <1>2, <1>3, <1>4, <1>5, <1>6, <1>7 DEF Moves

\* Neither Redis nor the process failed message x.
Steady(x) == taint[x] \cap {"restart", "redis"} = {}

\* What a step does to the key of message x.
KeyMoves(x) ==
  \/ redis'[x] = redis[x]
  \/ redis'[x] = Free
  \/ \E r \in Requests, call \in Calls :
       \/ /\ Acquire(r, x, call) /\ redis'[x] = Held(r) /\ Vacant(redis[x])
          /\ call # "down"
       \/ /\ Complete(r, call) /\ rq[r].x = x
          /\ redis'[x] = [st |-> "done", by |-> r]

LEMMA KeyStep ==
  ASSUME TypeOK, [Next]_vars, NEW x \in Ids
  PROVE  KeyMoves(x)
<1>a. redis \in [Ids -> Claim]
  BY DEF TypeOK
<1>1. ASSUME NEW r \in Requests, NEW y \in Ids, NEW call \in Calls, Acquire(r, y, call)
      PROVE  KeyMoves(x)
  <2>1. redis' = IF call = "down" THEN redis ELSE [redis EXCEPT ![y] = Claimed(redis[y], r)]
    BY <1>1 DEF Acquire, OnKey
  <2>2. CASE x = y /\ call # "down"
    BY <1>1, <1>a, <2>1, <2>2 DEF KeyMoves, Claimed
  <2>3. CASE x # y \/ call = "down"
    BY <1>a, <2>1, <2>3 DEF KeyMoves
  <2> QED
    BY <2>2, <2>3
<1>2. ASSUME NEW r \in Requests, NEW call \in Calls, Complete(r, call)
      PROVE  KeyMoves(x)
  <2>1. redis' = IF call = "down" THEN redis
                 ELSE [redis EXCEPT ![rq[r].x] = Completed(redis[rq[r].x], r)]
    BY <1>2 DEF Complete, OnKey
  <2>2. CASE x = rq[r].x /\ call # "down"
    BY <1>2, <1>a, <2>1, <2>2 DEF KeyMoves, Completed
  <2>3. CASE x # rq[r].x \/ call = "down"
    BY <1>a, <2>1, <2>3 DEF KeyMoves
  <2> QED
    BY <2>2, <2>3
<1>3. ASSUME NEW r \in Requests, NEW call \in Calls, HandlerFails(r, call)
      PROVE  KeyMoves(x)
  <2>1. redis' = IF call = "down" THEN redis
                 ELSE [redis EXCEPT ![rq[r].x] = Released(redis[rq[r].x], r)]
    BY <1>3 DEF HandlerFails, OnKey
  <2> QED
    BY <1>a, <2>1 DEF KeyMoves, Released
<1>4. ASSUME NEW y \in Ids, Expire(y)
      PROVE  KeyMoves(x)
  BY <1>a, <1>4 DEF Expire, KeyMoves
<1>5. CASE redis' = redis
  BY <1>5 DEF KeyMoves
<1>6. ASSUME NEW r \in Requests, Find(r) \/ Reconcile(r) \/ Adopt(r) \/ Sync(r) \/ Create(r)
      PROVE  redis' = redis
  BY <1>6 DEF Find, Reconcile, Adopt, Sync, Create, Store
<1>7. ASSUME NEW p \in Panel, PanelSend(p) \/ Accepted(p) \/ Settled(p) \/ GivenUp(p)
      PROVE  redis' = redis
  BY <1>7 DEF PanelSend, Accepted, Settled, GivenUp, Store
<1>8. ASSUME NEW y \in Ids, Written(y)
      PROVE  redis' = redis
  BY <1>8 DEF Written, Store
<1>9. ASSUME NEW i \in RowIds, Lapse(i)
      PROVE  redis' = redis
  BY <1>9 DEF Lapse, Store
<1>10. Restart \/ UNCHANGED vars => redis' = redis
  BY DEF Restart, vars
<1> QED
  BY <1>1, <1>2, <1>3, <1>4, <1>5, <1>6, <1>7, <1>8, <1>9, <1>10 DEF Next, Handle

\* A request that ends without an incident released its key or completed it.
LEMMA WorkEnds ==
  ASSUME TInv, [Next]_vars, NEW x \in Ids, NEW r \in Working(x), r \notin Working(x)'
  PROVE  \/ "restart" \in taint'[x]
         \/ \E call \in Calls :
              /\ Complete(r, call) \/ HandlerFails(r, call)
              /\ call # "ok" => "redis" \in taint'[x]
<1>a. TypeOK /\ r \in Requests /\ Live(r) /\ rq[r].x = x /\ Moves(r)
  BY RequestStep DEF TInv, Working
<1>1. rq'[r].x = x
  BY <1>a, MessagesStay DEF Live
<1>2. ~ Live(r)'
  BY <1>a, <1>1 DEF Working, Live
<1>3. Ends(r)
  <2>1. rq'[r] # rq[r]
    BY <1>a, <1>2 DEF Live
  <2>2. ~ \E y \in Ids, call \in Calls : Acquire(r, y, call)
    BY <1>a, Acquires DEF Live
  <2>3. ~ (Adopt(r) \/ Sync(r) \/ Create(r))
    BY <1>a, <1>2, Answers DEF Live
  <2>4. ASSUME Find(r) \/ Reconcile(r) PROVE FALSE
    <3>1. PICK i, pc : /\ rq'[r] = [pc |-> pc, x |-> rq[r].x, row |-> i]
                       /\ pc \in {"reconcile", "create", "answer", "sync", "adopt"}
      BY <1>a, <2>4, Finds
    <3> QED
      BY <1>2, <3>1 DEF Live
  <2> QED
    BY <1>a, <2>1, <2>2, <2>3, <2>4 DEF Moves
<1>4. CASE Restart
  <2>1. Fault({y \in Ids : {s \in Requests : Live(s) /\ rq[s].x = y} # {}}, "restart")
    BY <1>4 DEF Restart
  <2>2. x \in {y \in Ids : {s \in Requests : Live(s) /\ rq[s].x = y} # {}}
    BY <1>a
  <2> QED
    BY <1>a, <2>1, <2>2, TaintGrows
<1>5. ASSUME NEW call \in Calls, Complete(r, call)
      PROVE  call # "ok" => "redis" \in taint'[x]
  <2>1. Answered(x, call)
    BY <1>a, <1>5 DEF Complete
  <2> QED
    BY <1>a, <2>1, AnswerTaints
<1>6. ASSUME NEW call \in Calls, HandlerFails(r, call)
      PROVE  call # "ok" => "redis" \in taint'[x]
  <2>1. Fault({x}, IF call = "ok" THEN "failed" ELSE "redis")
    BY <1>a, <1>6 DEF HandlerFails
  <2> QED
    BY <1>a, <2>1, TaintGrows
<1> QED
  BY <1>3, <1>4, <1>5, <1>6 DEF Ends

\* A claim is held by a request that works, and a done key has its row.
KeyTells(x) ==
  Steady(x) =>
    /\ \A r \in Requests : redis[x] = Held(r) => r \in Working(x)
    /\ redis[x].st = "done" => RowsOf(x) # {}

LEMMA KeyTellsStep ==
  ASSUME TInv, RowsAgree, [Next]_vars, NEW x \in Ids, Unmistakable(x), Found(x), KeyTells(x)
  PROVE  KeyTells(x)'
<1> SUFFICES ASSUME Steady(x)' PROVE
               /\ \A r \in Requests : redis'[x] = Held(r) => r \in Working(x)'
               /\ redis'[x].st = "done" => RowsOf(x)' # {}
  BY DEF KeyTells, Held
<1>a. TypeOK /\ KeyMoves(x)
  BY KeyStep DEF TInv
<1>b. Steady(x)
  BY <1>a, IncidentsGrow DEF Steady
<1>c. "restart" \notin taint'[x] /\ "redis" \notin taint'[x]
  BY DEF Steady
<1>1. ASSUME NEW r \in Requests, redis'[x] = Held(r), r \notin Working(x)'
      PROVE  FALSE
  <2>1. CASE redis'[x] = redis[x]
    <3>1. r \in Working(x)
      BY <1>1, <1>b, <2>1 DEF KeyTells
    <3>2. PICK call \in Calls : (Complete(r, call) \/ HandlerFails(r, call)) /\ call = "ok"
      BY <1>1, <1>c, <3>1, WorkEnds
    <3>3. rq[r].x = x
      BY <3>1 DEF Working
    <3>4. \/ OnKey(x, Completed(redis[x], r), Completed(memory[x], r), "ok")
          \/ OnKey(x, Released(redis[x], r), Released(memory[x], r), "ok")
      BY <3>2, <3>3 DEF Complete, HandlerFails
    <3>5. redis'[x] = Completed(Held(r), r) \/ redis'[x] = Released(Held(r), r)
      BY <1>1, <1>a, <2>1, <3>4, OtherKeys
    <3> QED
      BY <1>1, <3>5 DEF Completed, Released, Held, Free
  <2>2. CASE redis'[x] = Free
    BY <1>1, <2>2 DEF Held, Free
  <2>3. ASSUME NEW s \in Requests, NEW call \in Calls, Acquire(s, x, call),
               redis'[x] = Held(s), Vacant(redis[x]), call # "down"
        PROVE  FALSE
    <3>1. s = r
      BY <1>1, <2>3 DEF Held
    <3>2. Answered(x, call)
      BY <2>3 DEF Acquire
    <3>3. call = "ok"
      BY <1>a, <1>c, <3>2, AnswerTaints
    <3>4. rq'[r].pc = "find" /\ rq'[r].x = x
      BY <1>a, <2>3, <3>1, <3>3 DEF Acquire, TypeOK
    <3> QED
      BY <1>1, <3>4 DEF Working, Live
  <2>4. ASSUME NEW s \in Requests, redis'[x] = [st |-> "done", by |-> s]
        PROVE  FALSE
    BY <1>1, <2>4 DEF Held
  <2> QED
    BY <1>a, <2>1, <2>2, <2>3, <2>4 DEF KeyMoves
<1>2. ASSUME redis'[x].st = "done"
      PROVE  RowsOf(x) # {}
  <2>1. CASE redis'[x] = redis[x]
    BY <1>2, <1>b, <2>1 DEF KeyTells
  <2>2. CASE redis'[x] = Free
    BY <1>2, <2>2 DEF Free
  <2>3. ASSUME NEW s \in Requests, redis'[x] = Held(s)
        PROVE  FALSE
    BY <1>2, <2>3 DEF Held
  <2>4. ASSUME NEW s \in Requests, NEW call \in Calls, Complete(s, call), rq[s].x = x
        PROVE  RowsOf(x) # {}
    BY <2>4 DEF Complete, Found
  <2> QED
    BY <1>a, <2>1, <2>2, <2>3, <2>4 DEF KeyMoves
<1> QED
  BY <1>a, <1>1, <1>2, RowsKept

\* AcknowledgedIsKept, said of one message.
Kept(x) ==
  x \in acked => RowsOf(x) # {} \/ Working(x) # {} \/ owed[x] > 0 \/ ~ Steady(x)

LEMMA OwedStays ==
  ASSUME TypeOK, [Next]_vars, NEW x \in Ids, owed[x] > 0
  PROVE  owed'[x] > 0 \/ \E r \in Requests, call \in Calls : Acquire(r, x, call)
<1>a. owed \in [Ids -> Nat]
  BY DEF TypeOK
<1>1. ASSUME NEW r \in Requests, NEW y \in Ids, NEW call \in Calls, Acquire(r, y, call), y # x
      PROVE  owed'[x] > 0
  BY <1>a, <1>1 DEF Acquire
<1>2. ASSUME NEW r \in Requests, NEW call \in Calls, HandlerFails(r, call)
      PROVE  owed'[x] > 0
  BY <1>a, <1>2 DEF HandlerFails
<1>3. ASSUME NEW y \in Ids, Written(y) \/ (y \in Panel /\ Accepted(y))
      PROVE  owed'[x] > 0
  BY <1>a, <1>3 DEF Written, Accepted, Posts
<1>4. ASSUME Restart
      PROVE  owed'[x] > 0
  <2> DEFINE cut(y) == {r \in Requests : Live(r) /\ rq[r].x = y}
  <2>1. owed' = [y \in Ids |-> owed[y] + Cardinality(cut(y))]
    BY <1>4 DEF Restart
  <2>2. Cardinality(cut(x)) \in Nat
    BY RequestsFinite
  <2> HIDE DEF cut
  <2> QED
    BY <1>a, <2>1, <2>2
<1>5. ASSUME NEW r \in Requests, NEW call \in Calls,
             Find(r) \/ Reconcile(r) \/ Adopt(r) \/ Sync(r) \/ Create(r) \/ Complete(r, call)
      PROVE  owed' = owed
  BY <1>5 DEF Find, Reconcile, Adopt, Sync, Create, Complete, Outside
<1>6. ASSUME NEW p \in Panel, PanelSend(p) \/ Settled(p) \/ GivenUp(p)
      PROVE  owed' = owed
  BY <1>6 DEF PanelSend, Settled, GivenUp
<1>7. ASSUME NEW y \in Ids, Expire(y)
      PROVE  owed' = owed
  BY <1>7 DEF Expire, Outside
<1>8. ASSUME NEW i \in RowIds, Lapse(i)
      PROVE  owed' = owed
  BY <1>8 DEF Lapse, Outside
<1>9. UNCHANGED vars => owed' = owed
  BY DEF vars
<1>10. "ok" \in Calls /\ Panel \subseteq Ids
  BY IdsApart DEF Calls
<1> QED
  BY <1>1, <1>2, <1>3, <1>4, <1>5, <1>6, <1>7, <1>8, <1>9, <1>10 DEF Next, Handle

LEMMA AckStep ==
  ASSUME TInv, [Next]_vars, NEW x \in Ids, x \in acked'
  PROVE  \/ x \in acked
         \/ \E r \in Requests, call \in Calls : Acquire(r, x, call)
         \/ \E r \in Requests, call \in Calls : Complete(r, call) /\ rq[r].x = x
<1>1. ASSUME NEW r \in Requests, NEW y \in Ids, NEW call \in Calls, Acquire(r, y, call)
      PROVE  x \in acked \/ x = y
  BY <1>1 DEF Acquire
<1>2. ASSUME NEW r \in Requests, NEW call \in Calls, Complete(r, call)
      PROVE  x \in acked \/ rq[r].x = x
  BY <1>2 DEF Complete
<1>3. ASSUME NEW r \in Requests, NEW call \in Calls,
             Find(r) \/ Reconcile(r) \/ Adopt(r) \/ Sync(r) \/ Create(r) \/ HandlerFails(r, call)
      PROVE  acked' = acked
  BY <1>3 DEF Find, Reconcile, Adopt, Sync, Create, HandlerFails
<1>4. ASSUME NEW p \in Panel, PanelSend(p) \/ Accepted(p) \/ Settled(p) \/ GivenUp(p)
      PROVE  acked' = acked
  BY <1>4 DEF PanelSend, Accepted, Settled, GivenUp
<1>5. ASSUME NEW y \in Ids, Written(y) \/ Expire(y)
      PROVE  acked' = acked
  BY <1>5 DEF Written, Expire
<1>6. ASSUME NEW i \in RowIds, Lapse(i)
      PROVE  acked' = acked
  BY <1>6 DEF Lapse
<1>7. Restart \/ UNCHANGED vars => acked' = acked
  BY DEF Restart, vars
<1>8. "ok" \in Calls
  BY DEF Calls
<1> QED
  BY <1>1, <1>2, <1>3, <1>4, <1>5, <1>6, <1>7, <1>8 DEF Next, Handle

\* After a webhook was taken or turned away, the message has a row or is worked on.
LEMMA AcquireKeeps ==
  ASSUME TInv, RowsAgree, [Next]_vars, NEW x \in Ids, Unmistakable(x), KeyTells(x), Steady(x)',
         NEW r \in Requests, NEW call \in Calls, Acquire(r, x, call)
  PROVE  RowsOf(x)' # {} \/ Working(x)' # {}
<1>a. TypeOK /\ rq[r].pc = "unused"
  BY Acquires DEF TInv
<1>b. Steady(x) /\ "redis" \notin taint'[x]
  BY <1>a, IncidentsGrow DEF Steady
<1>1. call = "ok"
  <2>1. Answered(x, call)
    BY DEF Acquire
  <2> QED
    BY <1>a, <1>b, <2>1, AnswerTaints
<1>2. CASE Vacant(redis[x])
  <2>1. rq'[r].pc = "find" /\ rq'[r].x = x
    BY <1>a, <1>1, <1>2 DEF Acquire, TypeOK
  <2>2. r \in Working(x)'
    BY <2>1 DEF Working, Live
  <2> QED
    BY <2>2
<1>3. CASE redis[x].st = "done"
  BY <1>a, <1>b, <1>3, RowsKept DEF KeyTells
<1>4. ASSUME NEW s \in Requests, redis[x] = Held(s)
      PROVE  s \in Working(x)'
  <2>1. s \in Working(x)
    BY <1>b, <1>4 DEF KeyTells
  <2>2. s # r
    BY <1>a, <2>1 DEF Working, Live
  <2>3. rq'[s] = rq[s]
    BY <1>a, <2>2 DEF Acquire, TypeOK
  <2> QED
    BY <2>1, <2>3 DEF Working, Live
<1>5. Vacant(redis[x]) \/ redis[x].st = "done" \/ \E s \in Requests : redis[x] = Held(s)
  BY <1>a DEF TypeOK, Claim, Vacant, Held
<1> QED
  BY <1>2, <1>3, <1>4, <1>5

LEMMA KeptStep ==
  ASSUME TInv, RowsAgree, [Next]_vars, NEW x \in Ids, Unmistakable(x), Found(x), KeyTells(x), Kept(x)
  PROVE  Kept(x)'
<1> SUFFICES ASSUME x \in acked', Steady(x)'
             PROVE  RowsOf(x)' # {} \/ Working(x)' # {} \/ owed'[x] > 0
  BY DEF Kept
<1>a. TypeOK /\ "restart" \notin taint'[x] /\ "redis" \notin taint'[x]
  BY DEF TInv, Steady
<1>b. Steady(x)
  BY <1>a, IncidentsGrow DEF Steady
<1>1. CASE \E r \in Requests, call \in Calls : Acquire(r, x, call)
  BY <1>1, AcquireKeeps
<1>2. CASE \E r \in Requests, call \in Calls : Complete(r, call) /\ rq[r].x = x
  <2>1. RowsOf(x) # {}
    BY <1>2 DEF Complete, Found
  <2> QED
    BY <1>a, <2>1, RowsKept
<1>3. CASE RowsOf(x) # {}
  BY <1>a, <1>3, RowsKept
<1>4. CASE owed[x] > 0
  BY <1>a, <1>1, <1>4, OwedStays
<1>5. ASSUME NEW r \in Working(x), r \notin Working(x)'
      PROVE  RowsOf(x)' # {} \/ owed'[x] > 0
  <2>1. PICK call \in Calls : Complete(r, call) \/ HandlerFails(r, call)
    BY <1>a, <1>5, WorkEnds
  <2>2. r \in Requests /\ rq[r].x = x
    BY <1>5 DEF Working
  <2>3. CASE Complete(r, call)
    <3>1. RowsOf(x) # {}
      BY <2>2, <2>3 DEF Complete, Found
    <3> QED
      BY <1>a, <3>1, RowsKept
  <2>4. CASE HandlerFails(r, call)
    <3>1. owed' = [owed EXCEPT ![x] = owed[x] + 1] /\ owed \in [Ids -> Nat]
      BY <1>a, <2>2, <2>4 DEF HandlerFails, TypeOK
    <3> QED
      BY <3>1
  <2> QED
    BY <2>1, <2>3, <2>4
<1> QED
  BY <1>b, <1>1, <1>2, <1>3, <1>4, <1>5, AckStep DEF Kept

\* An answer of 2xx is kept: the message is in the conversation, or a request
\* works on it, or Evolution will post it again.
THEOREM NothingAcknowledgedIsLost == Spec => []AcknowledgedIsKept
<1> DEFINE Inv == /\ TInv /\ RowsAgree
                  /\ \A x \in Ids : Unmistakable(x) => Found(x) /\ KeyTells(x) /\ Kept(x)
<1>1. Init => Inv
  <2> SUFFICES ASSUME Init PROVE Inv
    OBVIOUS
  <2>1. TInv /\ RowsAgree
    BY TypeInit, RowsAgreeInit
  <2>2. acked = {} /\ \A r \in Requests : rq[r].pc = "unused"
    BY DEF Init, Unused
  <2>3. \A x \in Ids : redis[x] = Free
    BY DEF Init
  <2>4. \A x \in Ids : KeyTells(x)
    BY <2>3 DEF KeyTells, Held, Free
  <2>5. \A x \in Ids : Found(x) /\ Kept(x)
    BY <2>2 DEF Found, Kept
  <2> QED
    BY <2>1, <2>4, <2>5
<1>2. Inv /\ [Next]_vars => Inv'
  <2> SUFFICES ASSUME Inv, [Next]_vars PROVE Inv'
    OBVIOUS
  <2>1. TInv' /\ RowsAgree'
    BY TypeStep, RowsAgreeStep
  <2>2. ASSUME NEW x \in Ids, Unmistakable(x)
        PROVE  Found(x)' /\ KeyTells(x)' /\ Kept(x)'
    BY <2>2, FoundStep, KeyTellsStep, KeptStep
  <2>3. \A x \in Ids : Unmistakable(x)' <=> Unmistakable(x)
    BY DEF Unmistakable
  <2> QED
    BY <2>1, <2>2, <2>3
<1>3. Inv => AcknowledgedIsKept
  BY DEF AcknowledgedIsKept, Kept, Steady, TInv, TypeOK
<1> QED
  BY <1>1, <1>2, <1>3, PTL DEF Spec
=============================================================================
