---------------------------- MODULE FilaSnapshot ----------------------------
(***************************************************************************)
(* The operational state of one store and the commands on it, as pure      *)
(* functions of a snapshot: what the Service of the operations module does *)
(* between loading the four current-state tables and persisting them.      *)
(*                                                                         *)
(* A table maps a consultant to a row; the row of a consultant who is not  *)
(* in the table is No...  A queue is a list in the code; here a row keeps  *)
(* its index, which is how the list is persisted.  Moments are numbers.    *)
(***************************************************************************)
EXTENDS Naturals, FiniteSets

CONSTANTS Consultants, MaxServices, MaxTime, MaxIds

ASSUME SnapshotAssumption ==
  /\ IsFiniteSet(Consultants)
  /\ MaxServices \in Nat \ {0} /\ MaxTime \in Nat /\ MaxIds \in Nat

Time     == 0 .. MaxTime
Ids      == 1 .. MaxIds
Statuses == {"available", "queue", "service", "paused"}

NoEntry   == [pos |-> 0, at |-> 0]
NoService == [id |-> 0, at |-> 0]
NoPause   == 0
NoStatus  == [st |-> "none", since |-> 0]

QueueRow   == [pos : Nat, at : Time]
ServiceRow == [id : Ids \cup {0}, at : Time]
StatusRow  == [st : Statuses \cup {"none"}, since : Time]

Snapshot == [queue  : [Consultants -> QueueRow],
             active : [Consultants -> ServiceRow],
             paused : [Consultants -> Time],
             status : [Consultants -> StatusRow]]

EmptyStore == [queue  |-> [c \in Consultants |-> NoEntry],
               active |-> [c \in Consultants |-> NoService],
               paused |-> [c \in Consultants |-> NoPause],
               status |-> [c \in Consultants |-> NoStatus]]

Waiting(s)   == {c \in Consultants : s.queue[c].pos # 0}
InService(s) == {c \in Consultants : s.active[c].id # 0}
Paused(s)    == {c \in Consultants : s.paused[c] # NoPause}

\* The order in which the list is loaded.
NotAfter(q, x, y) == q[x].pos < q[y].pos \/ (q[x].pos = q[y].pos /\ q[x].at <= q[y].at)

\* The list of the entries of S, in the same order, with new indexes.
Reindexed(q, S) ==
  [c \in Consultants |->
     IF c \in S
     THEN [pos |-> Cardinality({x \in S : NotAfter(q, x, c)}), at |-> q[c].at]
     ELSE NoEntry]

\* Seeded fault: the entry goes to the front.
AtFront(q, S, c, now) ==
  [x \in Consultants |->
     IF x = c THEN [pos |-> 1, at |-> now]
     ELSE IF x \in S THEN [pos |-> q[x].pos + 1, at |-> q[x].at] ELSE NoEntry]

AtEnd(q, S, c, now) == [q EXCEPT ![c] = [pos |-> Cardinality(S) + 1, at |-> now]]

DerivedStatus(s, c) ==
  IF c \in InService(s) THEN "service"
  ELSE IF c \in Waiting(s) THEN "queue"
  ELSE IF c \in Paused(s) THEN "paused"
  ELSE "available"

DerivedSince(s, c, now) ==
  IF c \in InService(s) THEN s.active[c].at
  ELSE IF c \in Waiting(s) THEN s.queue[c].at
  ELSE IF c \in Paused(s) THEN s.paused[c]
  ELSE now

\* Seeded fault: who is free and has no status row gets none.
NormalizedUnlisted(s, roster, now) ==
  [queue  |-> Reindexed(s.queue, Waiting(s) \cap roster),
   active |-> [c \in Consultants |-> IF c \in roster THEN s.active[c] ELSE NoService],
   paused |-> [c \in Consultants |-> IF c \in roster THEN s.paused[c] ELSE NoPause],
   status |-> [c \in Consultants |->
     IF c \notin roster THEN NoStatus
     ELSE IF DerivedStatus(s, c) = "available" THEN s.status[c]
     ELSE [st |-> DerivedStatus(s, c), since |-> DerivedSince(s, c, now)]]]

\* Only the rows of the roster survive the load, and the status of each
\* consultant is derived again from the lists.
Normalized(s, roster, now) ==
  [queue  |-> Reindexed(s.queue, Waiting(s) \cap roster),
   active |-> [c \in Consultants |-> IF c \in roster THEN s.active[c] ELSE NoService],
   paused |-> [c \in Consultants |-> IF c \in roster THEN s.paused[c] ELSE NoPause],
   status |-> [c \in Consultants |->
     IF c \notin roster THEN NoStatus
     ELSE IF DerivedStatus(s, c) = "available" /\ s.status[c].st = "available" THEN s.status[c]
     ELSE [st |-> DerivedStatus(s, c), since |-> DerivedSince(s, c, now)]]]

\* Seeded fault: the moment of the previous status stays.
BecameSilently(status, c, next, now) == [status EXCEPT ![c].st = next]

Became(status, c, next, now) ==
  IF status[c].st = next THEN status
  ELSE [status EXCEPT ![c] = [st |-> next, since |-> now]]

\* The session a transition closes.
ClosedSession(s, c, now) ==
  [who |-> c, st |-> s.status[c].st, from |-> s.status[c].since, to |-> now]

Session == [who : Consultants, st : Statuses, from : Time, to : Time]

-----------------------------------------------------------------------------
(* The commands.  Can... is what a command requires of the loaded snapshot; *)
(* otherwise it answers without persisting anything.                        *)

CanQueue(s, roster, c) ==
  c \in roster /\ c \notin Waiting(s) \cup InService(s) \cup Paused(s)

Queued(s, c, now) ==
  [queue  |-> AtEnd(s.queue, Waiting(s), c, now), active |-> s.active, paused |-> s.paused,
   status |-> Became(s.status, c, "queue", now)]

\* Pause and AssignTask differ in the kind of the row and in the answer they
\* give for a busy consultant, not in the state they reach.
CanPause(s, roster, c) == c \in roster /\ c \notin InService(s) \cup Paused(s)

\* Seeded fault: the consultant keeps the place in the line.
PausedKeepsPlace(s, c, now) ==
  [queue  |-> s.queue, active |-> s.active, paused |-> [s.paused EXCEPT ![c] = now],
   status |-> Became(s.status, c, "paused", now)]

PausedNow(s, c, now) ==
  [queue  |-> Reindexed(s.queue, Waiting(s) \ {c}), active |-> s.active,
   paused |-> [s.paused EXCEPT ![c] = now],
   status |-> Became(s.status, c, "paused", now)]

CanResume(s, roster, c) == c \in roster /\ c \in Paused(s)

Resumed(s, c, now) ==
  LET busy == c \in Waiting(s) \cup InService(s) IN
  [queue  |-> IF busy THEN s.queue ELSE AtEnd(s.queue, Waiting(s), c, now),
   active |-> s.active,
   paused |-> [s.paused EXCEPT ![c] = NoPause],
   status |-> Became(s.status, c, IF c \in InService(s) THEN "service" ELSE "queue", now)]

\* Seeded fault: the limit is compared the wrong way.
CanStartOverLimit(s, roster, c) ==
  /\ c \in roster /\ c \in Waiting(s) \ InService(s)
  /\ Cardinality(InService(s)) <= MaxServices

\* Without a person the first of the line is called, with one anybody may be.
\* A row too many for a consultant (here and in CanFinish) fails on its key.
CanStart(s, roster, c) ==
  /\ c \in roster /\ c \in Waiting(s) \ InService(s)
  /\ Cardinality(InService(s)) < MaxServices

Started(s, c, id, now) ==
  [queue  |-> Reindexed(s.queue, Waiting(s) \ {c}),
   active |-> [s.active EXCEPT ![c] = [id |-> id, at |-> now]], paused |-> s.paused,
   status |-> Became(s.status, c, "service", now)]

CanFinish(s, roster, c) == c \in roster /\ c \in InService(s) \ Waiting(s)

Finished(s, c, now) ==
  [queue  |-> AtEnd(s.queue, Waiting(s), c, now),
   active |-> [s.active EXCEPT ![c] = NoService], paused |-> s.paused,
   status |-> Became(s.status, c, "queue", now)]
=============================================================================
