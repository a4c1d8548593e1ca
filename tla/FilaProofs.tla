----------------------------- MODULE FilaProofs -----------------------------
(***************************************************************************)
(* Safety of the store queue, and that its commands implement FilaBoard,   *)
(* for any number of consultants, any limit and any rosters; that requests *)
(* which do not overlap are such commands; and that the panels follow each *)
(* other, for any number of panels and connections.                        *)
(***************************************************************************)
EXTENDS FilaConcurrent, FilaLive, FiniteSetTheorems, TLAPS

\* The rows of the line are numbered without ties, up to its length.
Numbered(q, S) ==
  /\ \A x, y \in S : q[x].pos = q[y].pos => x = y
  /\ \A x \in S : q[x].pos <= Cardinality(S)

\* The parts of the invariants that speak of the tables alone, of any snapshot.
Sound(s) ==
  /\ s \in Snapshot
  /\ Waiting(s) \cap InService(s) = {}
  /\ Waiting(s) \cap Paused(s) = {}
  /\ InService(s) \cap Paused(s) = {}
  /\ Cardinality(InService(s)) <= MaxServices
  /\ Numbered(s.queue, Waiting(s))

Accounted(s, hist, drop, begun) ==
  /\ begun = Open(s) \cup hist \cup drop
  /\ Open(s) \cap (hist \cup drop) = {} /\ hist \cap drop = {}
  /\ \A c, d \in InService(s) : s.active[c].id = s.active[d].id => c = d

IInv == TypeOK /\ Sound(db) /\ Accounted(db, history, dropped, started)

-----------------------------------------------------------------------------
(* Facts about the operators *)

\* Every set of consultants is finite.
LEMMA ConsultantsFinite ==
  ASSUME NEW S \in SUBSET Consultants
  PROVE  IsFiniteSet(S) /\ Cardinality(S) \in Nat
<1>1. IsFiniteSet(S)
  BY SnapshotAssumption, FS_Subset DEF SnapshotAssumption
<1> QED
  BY <1>1, FS_CardinalityType

LEMMA SmallerSubset ==
  ASSUME NEW S \in SUBSET Consultants, NEW T \in SUBSET S
  PROVE  /\ Cardinality(T) \in Nat /\ Cardinality(S) \in Nat
         /\ Cardinality(T) <= Cardinality(S)
         /\ T # S => Cardinality(T) < Cardinality(S)
<1>1. IsFiniteSet(S) /\ IsFiniteSet(T) /\ Cardinality(T) \in Nat /\ Cardinality(S) \in Nat
  BY ConsultantsFinite
<1>2. Cardinality(T) <= Cardinality(S) /\ (Cardinality(S) = Cardinality(T) => S = T)
  BY <1>1, FS_Subset
<1> QED
  BY <1>1, <1>2

\* A list written anew keeps its entries and numbers them from 1.
LEMMA ReindexedRows ==
  ASSUME NEW q \in [Consultants -> QueueRow], NEW S \in SUBSET Consultants
  PROVE  /\ Reindexed(q, S) \in [Consultants -> QueueRow]
         /\ \A c \in Consultants : Reindexed(q, S)[c].pos # 0 <=> c \in S
         /\ \A c \in S : Reindexed(q, S)[c].pos <= Cardinality(S)
<1> DEFINE upto(c) == {x \in S : NotAfter(q, x, c)}
<1>1. \A c \in Consultants : q[c].pos \in Nat /\ q[c].at \in Time
  BY DEF QueueRow
<1>2. \A c \in S : upto(c) \in SUBSET S /\ c \in upto(c)
  BY <1>1 DEF NotAfter, Time
<1>3. \A c \in S : Cardinality(upto(c)) \in Nat \ {0} /\ Cardinality(upto(c)) <= Cardinality(S)
  <2> SUFFICES ASSUME NEW c \in S
               PROVE  Cardinality(upto(c)) \in Nat \ {0} /\ Cardinality(upto(c)) <= Cardinality(S)
    OBVIOUS
  <2>1. IsFiniteSet(upto(c)) /\ upto(c) # {}
    BY <1>2, ConsultantsFinite
  <2> QED
    BY <2>1, <1>2, SmallerSubset, FS_EmptySet
<1>4. \A c \in Consultants : Reindexed(q, S)[c] =
        IF c \in S THEN [pos |-> Cardinality(upto(c)), at |-> q[c].at] ELSE NoEntry
  BY DEF Reindexed
<1>5. 0 \in Time
  BY SnapshotAssumption DEF SnapshotAssumption, Time
<1>6. Reindexed(q, S) \in [Consultants -> QueueRow]
  <2>1. NoEntry \in QueueRow
    BY <1>5 DEF QueueRow, NoEntry
  <2>2. \A c \in S : Cardinality(upto(c)) \in Nat
    BY <1>3
  <2> HIDE DEF upto
  <2>3. ASSUME NEW c \in S
        PROVE  [pos |-> Cardinality(upto(c)), at |-> q[c].at] \in QueueRow
    BY <1>1, <2>2 DEF QueueRow
  <2>4. \A c \in Consultants : Reindexed(q, S)[c] \in QueueRow
    BY <1>4, <2>1, <2>3
  <2> QED
    BY <2>4 DEF Reindexed
<1> HIDE DEF upto
<1> QED
  BY <1>3, <1>4, <1>6 DEF NoEntry

\* ... in the order they had, when no two of them had the same index.
LEMMA ReindexedOrder ==
  ASSUME NEW q \in [Consultants -> QueueRow], NEW S \in SUBSET Consultants,
         \A x, y \in S : q[x].pos = q[y].pos => x = y,
         NEW a \in S, NEW b \in S
  PROVE  Reindexed(q, S)[a].pos < Reindexed(q, S)[b].pos <=> q[a].pos < q[b].pos
<1> DEFINE upto(c) == {x \in S : NotAfter(q, x, c)}
<1>1. \A c \in Consultants : q[c].pos \in Nat /\ q[c].at \in Time
  BY DEF QueueRow
<1>2. \A x, y \in S : NotAfter(q, x, y) <=> q[x].pos <= q[y].pos
  BY <1>1 DEF NotAfter, Time
<1>3. \A x, y \in S : q[x].pos < q[y].pos => Cardinality(upto(x)) < Cardinality(upto(y))
  <2> SUFFICES ASSUME NEW x \in S, NEW y \in S, q[x].pos < q[y].pos
               PROVE  Cardinality(upto(x)) < Cardinality(upto(y))
    OBVIOUS
  <2>1. y \in upto(y) /\ y \notin upto(x) /\ upto(x) \in SUBSET upto(y)
    BY <1>1, <1>2
  <2> QED
    BY <2>1, SmallerSubset
<1>4. \A c \in S : Reindexed(q, S)[c].pos = Cardinality(upto(c))
  BY DEF Reindexed
<1>5. \A c \in S : Cardinality(upto(c)) \in Nat
  BY ConsultantsFinite
<1> HIDE DEF upto
<1>6. q[a].pos < q[b].pos \/ q[b].pos < q[a].pos \/ a = b
  BY <1>1
<1> QED
  BY <1>1, <1>3, <1>4, <1>5, <1>6

LEMMA ReindexedNumbered ==
  ASSUME NEW q \in [Consultants -> QueueRow], NEW S \in SUBSET Consultants, NEW T \in SUBSET S,
         Numbered(q, S)
  PROVE  Numbered(Reindexed(q, T), T)
<1>1. \A x, y \in T : q[x].pos = q[y].pos => x = y
  BY DEF Numbered
<1>2. \A x, y \in T : Reindexed(q, T)[x].pos < Reindexed(q, T)[y].pos <=> q[x].pos < q[y].pos
  BY <1>1, ReindexedOrder
<1>3. \A x \in Consultants : q[x].pos \in Nat
  BY DEF QueueRow
<1>4. \A x \in T : Reindexed(q, T)[x].pos \in Nat
  BY ReindexedRows DEF QueueRow
<1>5. \A x, y \in T : Reindexed(q, T)[x].pos = Reindexed(q, T)[y].pos => x = y
  BY <1>1, <1>2, <1>3, <1>4
<1>6. \A x \in T : Reindexed(q, T)[x].pos <= Cardinality(T)
  BY ReindexedRows
<1> QED
  BY <1>5, <1>6 DEF Numbered

\* An entry appended to the line is behind all others.
LEMMA AtEndRows ==
  ASSUME NEW q \in [Consultants -> QueueRow], NEW S \in SUBSET Consultants,
         NEW c \in Consultants, NEW now \in Time
  PROVE  /\ AtEnd(q, S, c, now) \in [Consultants -> QueueRow]
         /\ AtEnd(q, S, c, now)[c].pos = Cardinality(S) + 1
         /\ \A x \in Consultants : x # c => AtEnd(q, S, c, now)[x] = q[x]
         /\ Cardinality(S) \in Nat
<1> DEFINE n == Cardinality(S)
           e == AtEnd(q, S, c, now)
<1>1. n \in Nat
  BY ConsultantsFinite
<1> HIDE DEF n
<1>2. e = [q EXCEPT ![c] = [pos |-> n + 1, at |-> now]]
  BY DEF AtEnd, n
<1> HIDE DEF e
<1>3. [pos |-> n + 1, at |-> now] \in QueueRow
  BY <1>1 DEF QueueRow
<1>4. e \in [Consultants -> QueueRow] /\ e[c].pos = n + 1 /\ \A x \in Consultants \ {c} : e[x] = q[x]
  BY <1>2, <1>3
<1> QED
  BY <1>1, <1>4 DEF n, e

LEMMA AtEndNumbered ==
  ASSUME NEW q \in [Consultants -> QueueRow], NEW S \in SUBSET Consultants,
         NEW c \in Consultants \ S, NEW now \in Time, Numbered(q, S)
  PROVE  Numbered(AtEnd(q, S, c, now), S \cup {c})
<1> DEFINE n == Cardinality(S)
           e == AtEnd(q, S, c, now)
<1>1. n \in Nat /\ e[c].pos = n + 1 /\ \A x \in Consultants \ {c} : e[x] = q[x]
  <2>1. c \in Consultants
    OBVIOUS
  <2> QED
    BY <2>1, AtEndRows
<1>2. Cardinality(S \cup {c}) = n + 1
  BY ConsultantsFinite, FS_AddElement
<1>3. \A x \in S : q[x].pos \in Nat /\ q[x].pos <= n
  BY DEF Numbered, QueueRow
<1>4. \A x, y \in S : q[x].pos = q[y].pos => x = y
  BY DEF Numbered
<1> HIDE DEF e, n
<1>5. \A x \in S : e[x] = q[x]
  BY <1>1
<1>6. \A x, y \in S \cup {c} : e[x].pos = e[y].pos => x = y
  BY <1>1, <1>3, <1>4, <1>5
<1>7. \A x \in S \cup {c} : e[x].pos <= n + 1
  BY <1>1, <1>3, <1>5
<1> QED
  BY <1>2, <1>6, <1>7 DEF Numbered, e

LEMMA BecameType ==
  ASSUME NEW status \in [Consultants -> StatusRow], NEW c \in Consultants,
         NEW next \in Statuses, NEW now \in Time
  PROVE  Became(status, c, next, now) \in [Consultants -> StatusRow]
<1>1. [st |-> next, since |-> now] \in StatusRow
  BY DEF StatusRow
<1> QED
  BY <1>1 DEF Became

\* What the load makes of the tables.
LEMMA NormalizedTables ==
  ASSUME NEW s \in Snapshot, NEW roster \in SUBSET Consultants, NEW now \in Time
  PROVE  LET n == Normalized(s, roster, now) IN
         /\ n \in Snapshot
         /\ Waiting(n) = Waiting(s) \cap roster
         /\ InService(n) = InService(s) \cap roster
         /\ Paused(n) = Paused(s) \cap roster
         /\ \A c \in InService(n) : n.active[c] = s.active[c]
         /\ n.queue = Reindexed(s.queue, Waiting(n))
         /\ \A c \in roster : n.status[c].st \in Statuses
<1> DEFINE n == Normalized(s, roster, now)
           row(c) == IF DerivedStatus(s, c) = "available" /\ s.status[c].st = "available"
                     THEN s.status[c]
                     ELSE [st |-> DerivedStatus(s, c), since |-> DerivedSince(s, c, now)]
<1>1. /\ s.queue \in [Consultants -> QueueRow] /\ s.active \in [Consultants -> ServiceRow]
      /\ s.paused \in [Consultants -> Time] /\ s.status \in [Consultants -> StatusRow]
  BY DEF Snapshot
<1>2. 0 \in Time
  BY SnapshotAssumption DEF SnapshotAssumption, Time
<1>3. /\ n.queue = Reindexed(s.queue, Waiting(s) \cap roster)
      /\ n.active = [c \in Consultants |-> IF c \in roster THEN s.active[c] ELSE NoService]
      /\ n.paused = [c \in Consultants |-> IF c \in roster THEN s.paused[c] ELSE NoPause]
      /\ n.status = [c \in Consultants |-> IF c \notin roster THEN NoStatus ELSE row(c)]
      /\ n = [queue |-> n.queue, active |-> n.active, paused |-> n.paused, status |-> n.status]
  BY DEF Normalized
<1>4. Waiting(s) \cap roster \in SUBSET Consultants
  BY DEF Waiting
<1>5. n.queue \in [Consultants -> QueueRow] /\ Waiting(n) = Waiting(s) \cap roster
  BY <1>1, <1>3, <1>4, ReindexedRows DEF Waiting
<1>6. NoService \in ServiceRow /\ NoStatus \in StatusRow /\ NoPause \in Time
  BY <1>2 DEF NoService, ServiceRow, NoStatus, StatusRow, NoPause
<1>7. n.active \in [Consultants -> ServiceRow] /\ n.paused \in [Consultants -> Time]
  BY <1>1, <1>3, <1>6
<1>8. InService(n) = InService(s) \cap roster /\ \A c \in InService(n) : n.active[c] = s.active[c]
  BY <1>3 DEF InService, NoService
<1>9. Paused(n) = Paused(s) \cap roster
  BY <1>3 DEF Paused
<1>10. ASSUME NEW c \in Consultants
       PROVE  row(c) \in StatusRow /\ row(c).st \in Statuses
  <2>1. DerivedStatus(s, c) \in Statuses
    BY DEF DerivedStatus, Statuses
  <2>2. DerivedSince(s, c, now) \in Time
    BY <1>1 DEF DerivedSince, ServiceRow, QueueRow
  <2>3. [st |-> DerivedStatus(s, c), since |-> DerivedSince(s, c, now)] \in StatusRow
    BY <2>1, <2>2 DEF StatusRow
  <2> QED
    BY <1>1, <2>1, <2>3 DEF Statuses
<1> HIDE DEF row
<1>11. n.status \in [Consultants -> StatusRow] /\ \A c \in roster : n.status[c].st \in Statuses
  BY <1>3, <1>6, <1>10
<1>12. n \in Snapshot
  BY <1>3, <1>5, <1>7, <1>11 DEF Snapshot
<1> HIDE DEF n
<1> QED
  BY <1>3, <1>5, <1>8, <1>9, <1>11, <1>12 DEF n

-----------------------------------------------------------------------------
(* What each command does to the tables *)

LEMMA WaitingRows ==
  ASSUME NEW s
  PROVE  Waiting(s) \in SUBSET Consultants /\ \A x \in Consultants : x \in Waiting(s) <=> s.queue[x].pos # 0
BY DEF Waiting

LEMMA LineAppended ==
  ASSUME NEW s \in Snapshot, NEW c \in Consultants, NEW now \in Time
  PROVE  /\ AtEnd(s.queue, Waiting(s), c, now) \in [Consultants -> QueueRow]
         /\ \A x \in Consultants : AtEnd(s.queue, Waiting(s), c, now)[x].pos # 0 <=> x \in Waiting(s) \cup {c}
<1> DEFINE q == s.queue
           S == Waiting(s)
<1>1. q \in [Consultants -> QueueRow] /\ S \in SUBSET Consultants
      /\ \A x \in Consultants : x \in S <=> q[x].pos # 0
  BY WaitingRows DEF Snapshot
<1> HIDE DEF q, S
<1>2. AtEnd(q, S, c, now) \in [Consultants -> QueueRow]
  BY <1>1, AtEndRows, Zenon
<1>3. AtEnd(q, S, c, now)[c].pos = Cardinality(S) + 1
  BY <1>1, AtEndRows
<1>4. \A x \in Consultants : x # c => AtEnd(q, S, c, now)[x] = q[x]
  BY <1>1 DEF AtEnd
<1>5. Cardinality(S) \in Nat
  BY <1>1, ConsultantsFinite
<1>6. \A x \in Consultants : AtEnd(q, S, c, now)[x].pos # 0 <=> x \in S \cup {c}
  BY <1>1, <1>3, <1>4, <1>5
<1> QED
  BY <1>2, <1>6 DEF S, q

LEMMA LineWithout ==
  ASSUME NEW s \in Snapshot, NEW c \in Consultants
  PROVE  /\ Reindexed(s.queue, Waiting(s) \ {c}) \in [Consultants -> QueueRow]
         /\ \A x \in Consultants : Reindexed(s.queue, Waiting(s) \ {c})[x].pos # 0 <=> x \in Waiting(s) \ {c}
<1> DEFINE q == s.queue
           e == Reindexed(q, Waiting(s) \ {c})
<1>1. q \in [Consultants -> QueueRow]
  BY DEF Snapshot
<1> HIDE DEF q
<1>2. Waiting(s) \ {c} \in SUBSET Consultants
  BY DEF Waiting
<1>3. /\ e \in [Consultants -> QueueRow]
      /\ \A x \in Consultants : e[x].pos # 0 <=> x \in Waiting(s) \ {c}
  BY <1>1, <1>2, ReindexedRows
<1> QED
  BY <1>3 DEF q

LEMMA LineAppendedNumbered ==
  ASSUME NEW s \in Snapshot, Numbered(s.queue, Waiting(s)),
         NEW c \in Consultants, c \notin Waiting(s), NEW now \in Time
  PROVE  Numbered(AtEnd(s.queue, Waiting(s), c, now), Waiting(s) \cup {c})
<1> DEFINE q == s.queue
<1>1. q \in [Consultants -> QueueRow] /\ Waiting(s) \in SUBSET Consultants
  BY WaitingRows DEF Snapshot
<1>2. c \in Consultants \ Waiting(s)
  OBVIOUS
<1> HIDE DEF q
<1>3. Numbered(q, Waiting(s)) => Numbered(AtEnd(q, Waiting(s), c, now), Waiting(s) \cup {c})
  BY <1>1, <1>2, AtEndNumbered, Zenon
<1> QED
  BY <1>3 DEF q

LEMMA LineWithoutNumbered ==
  ASSUME NEW s \in Snapshot, Numbered(s.queue, Waiting(s)), NEW c
  PROVE  Numbered(Reindexed(s.queue, Waiting(s) \ {c}), Waiting(s) \ {c})
<1> DEFINE q == s.queue
<1>1. q \in [Consultants -> QueueRow] /\ Waiting(s) \in SUBSET Consultants
  BY WaitingRows DEF Snapshot
<1>2. Waiting(s) \ {c} \in SUBSET Waiting(s)
  OBVIOUS
<1> HIDE DEF q
<1>3. Numbered(q, Waiting(s)) => Numbered(Reindexed(q, Waiting(s) \ {c}), Waiting(s) \ {c})
  BY <1>1, <1>2, ReindexedNumbered, Zenon
<1> QED
  BY <1>3 DEF q

LEMMA StatusMoved ==
  ASSUME NEW s \in Snapshot, NEW c \in Consultants, NEW next \in Statuses, NEW now \in Time
  PROVE  Became(s.status, c, next, now) \in [Consultants -> StatusRow]
<1> DEFINE status == s.status
<1>1. status \in [Consultants -> StatusRow]
  BY DEF Snapshot
<1> HIDE DEF status
<1>2. Became(status, c, next, now) \in [Consultants -> StatusRow]
  BY <1>1, BecameType
<1> QED
  BY <1>2 DEF status

LEMMA QueuedTables ==
  ASSUME NEW s \in Snapshot, NEW c \in Consultants, NEW now \in Time
  PROVE  LET n == Queued(s, c, now) IN
         /\ n \in Snapshot
         /\ Waiting(n) = Waiting(s) \cup {c}
         /\ InService(n) = InService(s) /\ n.active = s.active
         /\ Paused(n) = Paused(s)
         /\ n.queue = AtEnd(s.queue, Waiting(s), c, now)
<1> DEFINE n == Queued(s, c, now)
<1>1. /\ s.queue \in [Consultants -> QueueRow] /\ s.active \in [Consultants -> ServiceRow]
      /\ s.paused \in [Consultants -> Time] /\ s.status \in [Consultants -> StatusRow]
  BY DEF Snapshot
<1>2. /\ n.queue = AtEnd(s.queue, Waiting(s), c, now) /\ n.active = s.active
      /\ n.paused = s.paused /\ n.status = Became(s.status, c, "queue", now)
      /\ n = [queue |-> n.queue, active |-> n.active, paused |-> n.paused, status |-> n.status]
  BY DEF Queued
<1> HIDE DEF n
<1>3. "queue" \in Statuses
  BY DEF Statuses
<1>4. n.queue \in [Consultants -> QueueRow] /\ Waiting(n) = Waiting(s) \cup {c}
  <2>1. /\ AtEnd(s.queue, Waiting(s), c, now) \in [Consultants -> QueueRow]
        /\ \A x \in Consultants : AtEnd(s.queue, Waiting(s), c, now)[x].pos # 0 <=> x \in Waiting(s) \cup {c}
    BY LineAppended, Zenon
  <2>2. /\ n.queue \in [Consultants -> QueueRow]
        /\ \A x \in Consultants : n.queue[x].pos # 0 <=> x \in Waiting(s) \cup {c}
    BY <1>2, <2>1, Zenon
  <2> QED
    BY <2>2, WaitingRows
<1>5. n.status \in [Consultants -> StatusRow]
  BY <1>2, <1>3, StatusMoved
<1>6. n \in Snapshot
  BY <1>1, <1>2, <1>4, <1>5 DEF Snapshot
<1>8. InService(n) = InService(s) /\ Paused(n) = Paused(s)
  BY <1>2 DEF InService, Paused
<1> QED
  BY <1>2, <1>4, <1>6, <1>8 DEF n

LEMMA PausedNowTables ==
  ASSUME NEW s \in Snapshot, NEW c \in Consultants, NEW now \in Time \ {0}
  PROVE  LET n == PausedNow(s, c, now) IN
         /\ n \in Snapshot
         /\ Waiting(n) = Waiting(s) \ {c}
         /\ InService(n) = InService(s) /\ n.active = s.active
         /\ Paused(n) = Paused(s) \cup {c}
         /\ n.queue = Reindexed(s.queue, Waiting(s) \ {c})
<1> DEFINE n == PausedNow(s, c, now)
<1>1. /\ s.queue \in [Consultants -> QueueRow] /\ s.active \in [Consultants -> ServiceRow]
      /\ s.paused \in [Consultants -> Time] /\ s.status \in [Consultants -> StatusRow]
  BY DEF Snapshot
<1>2. /\ n.queue = Reindexed(s.queue, Waiting(s) \ {c}) /\ n.active = s.active
      /\ n.paused = [s.paused EXCEPT ![c] = now] /\ n.status = Became(s.status, c, "paused", now)
      /\ n = [queue |-> n.queue, active |-> n.active, paused |-> n.paused, status |-> n.status]
  BY DEF PausedNow
<1> HIDE DEF n
<1>3. "paused" \in Statuses
  BY DEF Statuses
<1>4. n.queue \in [Consultants -> QueueRow] /\ Waiting(n) = Waiting(s) \ {c}
  <2>1. /\ Reindexed(s.queue, Waiting(s) \ {c}) \in [Consultants -> QueueRow]
        /\ \A x \in Consultants : Reindexed(s.queue, Waiting(s) \ {c})[x].pos # 0 <=> x \in Waiting(s) \ {c}
    BY LineWithout, Zenon
  <2>2. /\ n.queue \in [Consultants -> QueueRow]
        /\ \A x \in Consultants : n.queue[x].pos # 0 <=> x \in Waiting(s) \ {c}
    BY <1>2, <2>1, Zenon
  <2> QED
    BY <2>2, WaitingRows
<1>5. n.status \in [Consultants -> StatusRow]
  BY <1>2, <1>3, StatusMoved
<1>6. n.paused \in [Consultants -> Time] /\ Paused(n) = Paused(s) \cup {c}
  BY <1>1, <1>2 DEF Paused, NoPause
<1>7. n \in Snapshot
  BY <1>1, <1>2, <1>4, <1>5, <1>6 DEF Snapshot
<1>8. InService(n) = InService(s)
  BY <1>2 DEF InService
<1> QED
  BY <1>2, <1>4, <1>6, <1>7, <1>8 DEF n

\* Under the rule that a paused consultant is in no other list, a resume is the
\* end of the pause and a new entry in the line.
LEMMA ResumedTables ==
  ASSUME NEW s \in Snapshot, NEW c \in Consultants, NEW now \in Time,
         c \notin Waiting(s), c \notin InService(s)
  PROVE  LET n == Resumed(s, c, now) IN
         /\ n \in Snapshot
         /\ Waiting(n) = Waiting(s) \cup {c}
         /\ InService(n) = InService(s) /\ n.active = s.active
         /\ Paused(n) = Paused(s) \ {c}
         /\ n.queue = AtEnd(s.queue, Waiting(s), c, now)
<1> DEFINE n == Resumed(s, c, now)
<1>1. /\ s.queue \in [Consultants -> QueueRow] /\ s.active \in [Consultants -> ServiceRow]
      /\ s.paused \in [Consultants -> Time] /\ s.status \in [Consultants -> StatusRow]
  BY DEF Snapshot
<1>2. /\ n.queue = AtEnd(s.queue, Waiting(s), c, now) /\ n.active = s.active
      /\ n.paused = [s.paused EXCEPT ![c] = NoPause] /\ n.status = Became(s.status, c, "queue", now)
      /\ n = [queue |-> n.queue, active |-> n.active, paused |-> n.paused, status |-> n.status]
  BY DEF Resumed
<1> HIDE DEF n
<1>3. "queue" \in Statuses /\ NoPause \in Time
  BY SnapshotAssumption DEF Statuses, NoPause, Time, SnapshotAssumption
<1>4. n.queue \in [Consultants -> QueueRow] /\ Waiting(n) = Waiting(s) \cup {c}
  <2>1. /\ AtEnd(s.queue, Waiting(s), c, now) \in [Consultants -> QueueRow]
        /\ \A x \in Consultants : AtEnd(s.queue, Waiting(s), c, now)[x].pos # 0 <=> x \in Waiting(s) \cup {c}
    BY LineAppended, Zenon
  <2>2. /\ n.queue \in [Consultants -> QueueRow]
        /\ \A x \in Consultants : n.queue[x].pos # 0 <=> x \in Waiting(s) \cup {c}
    BY <1>2, <2>1, Zenon
  <2> QED
    BY <2>2, WaitingRows
<1>5. n.status \in [Consultants -> StatusRow]
  BY <1>2, <1>3, StatusMoved
<1>6. n.paused \in [Consultants -> Time] /\ Paused(n) = Paused(s) \ {c}
  BY <1>1, <1>2, <1>3 DEF Paused
<1>7. n \in Snapshot
  BY <1>1, <1>2, <1>4, <1>5, <1>6 DEF Snapshot
<1>9. InService(n) = InService(s)
  BY <1>2 DEF InService
<1> QED
  BY <1>2, <1>4, <1>6, <1>7, <1>9 DEF n

LEMMA StartedTables ==
  ASSUME NEW s \in Snapshot, NEW c \in Consultants, NEW id \in Ids, NEW now \in Time
  PROVE  LET n == Started(s, c, id, now) IN
         /\ n \in Snapshot
         /\ Waiting(n) = Waiting(s) \ {c}
         /\ InService(n) = InService(s) \cup {c}
         /\ n.active[c].id = id
         /\ \A x \in Consultants : x # c => n.active[x] = s.active[x]
         /\ Paused(n) = Paused(s)
         /\ n.queue = Reindexed(s.queue, Waiting(s) \ {c})
<1> DEFINE n == Started(s, c, id, now)
<1>1. /\ s.queue \in [Consultants -> QueueRow] /\ s.active \in [Consultants -> ServiceRow]
      /\ s.paused \in [Consultants -> Time] /\ s.status \in [Consultants -> StatusRow]
  BY DEF Snapshot
<1>2. /\ n.queue = Reindexed(s.queue, Waiting(s) \ {c}) /\ n.paused = s.paused
      /\ n.active = [s.active EXCEPT ![c] = [id |-> id, at |-> now]]
      /\ n.status = Became(s.status, c, "service", now)
      /\ n = [queue |-> n.queue, active |-> n.active, paused |-> n.paused, status |-> n.status]
  BY DEF Started
<1> HIDE DEF n
<1>3. "service" \in Statuses
  BY DEF Statuses
<1>4. n.queue \in [Consultants -> QueueRow] /\ Waiting(n) = Waiting(s) \ {c}
  <2>1. /\ Reindexed(s.queue, Waiting(s) \ {c}) \in [Consultants -> QueueRow]
        /\ \A x \in Consultants : Reindexed(s.queue, Waiting(s) \ {c})[x].pos # 0 <=> x \in Waiting(s) \ {c}
    BY LineWithout, Zenon
  <2>2. /\ n.queue \in [Consultants -> QueueRow]
        /\ \A x \in Consultants : n.queue[x].pos # 0 <=> x \in Waiting(s) \ {c}
    BY <1>2, <2>1, Zenon
  <2> QED
    BY <2>2, WaitingRows
<1>5. n.status \in [Consultants -> StatusRow]
  BY <1>2, <1>3, StatusMoved
<1>6. [id |-> id, at |-> now] \in ServiceRow /\ id # 0
  BY SnapshotAssumption DEF ServiceRow, Ids, SnapshotAssumption
<1>7. /\ n.active \in [Consultants -> ServiceRow] /\ n.active[c].id = id
      /\ \A x \in Consultants \ {c} : n.active[x] = s.active[x]
  BY <1>1, <1>2, <1>6
<1>8. InService(n) = InService(s) \cup {c} /\ Paused(n) = Paused(s)
  BY <1>2, <1>6, <1>7 DEF InService, Paused
<1>9. n \in Snapshot
  BY <1>1, <1>2, <1>4, <1>5, <1>7 DEF Snapshot
<1> QED
  BY <1>2, <1>4, <1>7, <1>8, <1>9 DEF n

LEMMA FinishedTables ==
  ASSUME NEW s \in Snapshot, NEW c \in Consultants, NEW now \in Time
  PROVE  LET n == Finished(s, c, now) IN
         /\ n \in Snapshot
         /\ Waiting(n) = Waiting(s) \cup {c}
         /\ InService(n) = InService(s) \ {c}
         /\ \A x \in Consultants \ {c} : n.active[x] = s.active[x]
         /\ Paused(n) = Paused(s)
         /\ n.queue = AtEnd(s.queue, Waiting(s), c, now)
<1> DEFINE n == Finished(s, c, now)
<1>1. /\ s.queue \in [Consultants -> QueueRow] /\ s.active \in [Consultants -> ServiceRow]
      /\ s.paused \in [Consultants -> Time] /\ s.status \in [Consultants -> StatusRow]
  BY DEF Snapshot
<1>2. /\ n.queue = AtEnd(s.queue, Waiting(s), c, now) /\ n.paused = s.paused
      /\ n.active = [s.active EXCEPT ![c] = NoService]
      /\ n.status = Became(s.status, c, "queue", now)
      /\ n = [queue |-> n.queue, active |-> n.active, paused |-> n.paused, status |-> n.status]
  BY DEF Finished
<1> HIDE DEF n
<1>3. "queue" \in Statuses /\ 0 \in Time
  BY SnapshotAssumption DEF Statuses, Time, SnapshotAssumption
<1>4. n.queue \in [Consultants -> QueueRow] /\ Waiting(n) = Waiting(s) \cup {c}
  <2>1. /\ AtEnd(s.queue, Waiting(s), c, now) \in [Consultants -> QueueRow]
        /\ \A x \in Consultants : AtEnd(s.queue, Waiting(s), c, now)[x].pos # 0 <=> x \in Waiting(s) \cup {c}
    BY LineAppended, Zenon
  <2>2. /\ n.queue \in [Consultants -> QueueRow]
        /\ \A x \in Consultants : n.queue[x].pos # 0 <=> x \in Waiting(s) \cup {c}
    BY <1>2, <2>1, Zenon
  <2> QED
    BY <2>2, WaitingRows
<1>5. n.status \in [Consultants -> StatusRow]
  BY <1>2, <1>3, StatusMoved
<1>6. NoService \in ServiceRow
  BY <1>3 DEF NoService, ServiceRow
<1>7. n.active \in [Consultants -> ServiceRow] /\ n.active[c] = NoService
      /\ \A x \in Consultants \ {c} : n.active[x] = s.active[x]
  BY <1>1, <1>2, <1>6
<1>8. InService(n) = InService(s) \ {c} /\ Paused(n) = Paused(s)
  BY <1>2, <1>7 DEF InService, Paused, NoService
<1>9. n \in Snapshot
  BY <1>1, <1>2, <1>4, <1>5, <1>7 DEF Snapshot
<1> QED
  BY <1>2, <1>4, <1>7, <1>8, <1>9 DEF n

-----------------------------------------------------------------------------
(* The commands keep the tables sound and account for the services *)

\* The services whose consultants the roster does not have.
Lost(roster) == {db.active[x].id : x \in InService(db) \ roster}

LEMMA LoadedIsSound ==
  ASSUME IInv, NEW roster \in SUBSET Consultants, NEW now \in Time
  PROVE  LET s == Normalized(db, roster, now) IN
         /\ Sound(s)
         /\ Accounted(s, history, dropped \cup Lost(roster), started)
         /\ dropped \cup Lost(roster) \in SUBSET Ids
<1> DEFINE s == Normalized(db, roster, now)
<1>1. db \in Snapshot /\ Sound(db) /\ Accounted(db, history, dropped, started)
  BY DEF IInv, TypeOK
<1>2. /\ s \in Snapshot
      /\ Waiting(s) = Waiting(db) \cap roster
      /\ InService(s) = InService(db) \cap roster
      /\ Paused(s) = Paused(db) \cap roster
      /\ \A c \in InService(s) : s.active[c] = db.active[c]
      /\ s.queue = Reindexed(db.queue, Waiting(s))
  <2>1. s \in Snapshot
    BY <1>1, NormalizedTables, Zenon
  <2>2. Waiting(s) = Waiting(db) \cap roster
    BY <1>1, NormalizedTables, Zenon
  <2>3. InService(s) = InService(db) \cap roster
    BY <1>1, NormalizedTables, Zenon
  <2>4. Paused(s) = Paused(db) \cap roster
    BY <1>1, NormalizedTables, Zenon
  <2>5. \A c \in InService(s) : s.active[c] = db.active[c]
    BY <1>1, NormalizedTables, Zenon
  <2>6. s.queue = Reindexed(db.queue, Waiting(s))
    BY <2>2 DEF Normalized
  <2> QED
    BY <2>1, <2>2, <2>3, <2>4, <2>5, <2>6
<1> HIDE DEF s
<1>3. Cardinality(InService(s)) <= MaxServices
  <2>1. InService(db) \in SUBSET Consultants /\ InService(s) \in SUBSET InService(db)
    BY <1>2 DEF InService
  <2>2. /\ Cardinality(InService(s)) \in Nat /\ Cardinality(InService(db)) \in Nat
        /\ Cardinality(InService(s)) <= Cardinality(InService(db))
    BY <2>1, SmallerSubset
  <2> QED
    BY <1>1, <2>2, SnapshotAssumption DEF Sound, SnapshotAssumption
<1>4. Numbered(s.queue, Waiting(s))
  <2>1. db.queue \in [Consultants -> QueueRow]
    BY <1>1 DEF Snapshot
  <2>2. Waiting(db) \in SUBSET Consultants /\ Waiting(s) \in SUBSET Waiting(db)
    BY <1>2 DEF Waiting
  <2>3. Numbered(db.queue, Waiting(db))
    BY <1>1 DEF Sound
  <2>4. Numbered(Reindexed(db.queue, Waiting(s)), Waiting(s))
    BY <2>1, <2>2, <2>3, ReindexedNumbered
  <2> QED
    BY <1>2, <2>4
<1>5. Sound(s)
  BY <1>1, <1>2, <1>3, <1>4 DEF Sound
<1>6. Open(db) = Open(s) \cup Lost(roster) /\ Open(s) \cap Lost(roster) = {}
  <2>1. Open(s) = {db.active[c].id : c \in InService(db) \cap roster}
    BY <1>2 DEF Open
  <2>2. \A c, d \in InService(db) : db.active[c].id = db.active[d].id => c = d
    BY <1>1 DEF Accounted
  <2>3. Open(db) = {db.active[c].id : c \in InService(db)}
    BY DEF Open
  <2>4. Lost(roster) = {db.active[c].id : c \in InService(db) \ roster}
    BY DEF Lost
  <2>5. Open(db) = Open(s) \cup Lost(roster)
    BY <2>1, <2>3, <2>4
  <2>6. Open(s) \cap Lost(roster) = {}
    BY <2>1, <2>2, <2>4
  <2> QED
    BY <2>5, <2>6
<1>7. \A c, d \in InService(s) : s.active[c].id = s.active[d].id => c = d
  BY <1>1, <1>2 DEF Accounted
<1>8. Accounted(s, history, dropped \cup Lost(roster), started)
  BY <1>1, <1>6, <1>7 DEF Accounted
<1>9. started \in SUBSET Ids
  BY DEF IInv, TypeOK
<1>10. dropped \cup Lost(roster) \in SUBSET Ids
  BY <1>8, <1>9 DEF Accounted
<1> QED
  BY <1>5, <1>8, <1>10 DEF s

LEMMA QueuedIsSound ==
  ASSUME NEW s, Sound(s), NEW c \in Consultants, NEW now \in Time, NEW hist, NEW drop, NEW begun,
         Accounted(s, hist, drop, begun), NEW roster, CanQueue(s, roster, c)
  PROVE  Sound(Queued(s, c, now)) /\ Accounted(Queued(s, c, now), hist, drop, begun)
<1> DEFINE n == Queued(s, c, now)
<1>1. s \in Snapshot /\ c \notin Waiting(s) /\ c \notin InService(s) /\ c \notin Paused(s)
  BY DEF Sound, CanQueue
<1>2. /\ n \in Snapshot /\ Waiting(n) = Waiting(s) \cup {c} /\ InService(n) = InService(s)
      /\ n.active = s.active /\ Paused(n) = Paused(s) /\ n.queue = AtEnd(s.queue, Waiting(s), c, now)
  BY <1>1, QueuedTables
<1> HIDE DEF n
<1>3. Numbered(n.queue, Waiting(n))
  <2>1. Numbered(s.queue, Waiting(s))
    BY DEF Sound
  <2>2. Numbered(AtEnd(s.queue, Waiting(s), c, now), Waiting(s) \cup {c})
    BY <1>1, <2>1, LineAppendedNumbered, Zenon
  <2> QED
    BY <1>2, <2>2, Zenon
<1>4. Sound(n)
  BY <1>1, <1>2, <1>3 DEF Sound
<1>5. Accounted(n, hist, drop, begun)
  BY <1>2 DEF Accounted, Open
<1> QED
  BY <1>4, <1>5 DEF n

LEMMA PausedIsSound ==
  ASSUME NEW s, Sound(s), NEW c \in Consultants, NEW now \in Time \ {0}, NEW hist, NEW drop, NEW begun,
         Accounted(s, hist, drop, begun), NEW roster, CanPause(s, roster, c)
  PROVE  Sound(PausedNow(s, c, now)) /\ Accounted(PausedNow(s, c, now), hist, drop, begun)
<1> DEFINE n == PausedNow(s, c, now)
<1>1. s \in Snapshot /\ c \notin InService(s)
  BY DEF Sound, CanPause
<1>2. /\ n \in Snapshot /\ Waiting(n) = Waiting(s) \ {c} /\ InService(n) = InService(s)
      /\ n.active = s.active /\ Paused(n) = Paused(s) \cup {c}
      /\ n.queue = Reindexed(s.queue, Waiting(s) \ {c})
  BY <1>1, PausedNowTables
<1> HIDE DEF n
<1>3. Numbered(n.queue, Waiting(n))
  <2>1. Numbered(s.queue, Waiting(s))
    BY DEF Sound
  <2>2. Numbered(Reindexed(s.queue, Waiting(s) \ {c}), Waiting(s) \ {c})
    BY <1>1, <2>1, LineWithoutNumbered, Zenon
  <2> QED
    BY <1>2, <2>2, Zenon
<1>4. Sound(n)
  BY <1>1, <1>2, <1>3 DEF Sound
<1>5. Accounted(n, hist, drop, begun)
  BY <1>2 DEF Accounted, Open
<1> QED
  BY <1>4, <1>5 DEF n

LEMMA ResumedIsSound ==
  ASSUME NEW s, Sound(s), NEW c \in Consultants, NEW now \in Time, NEW hist, NEW drop, NEW begun,
         Accounted(s, hist, drop, begun), NEW roster, CanResume(s, roster, c)
  PROVE  Sound(Resumed(s, c, now)) /\ Accounted(Resumed(s, c, now), hist, drop, begun)
<1> DEFINE n == Resumed(s, c, now)
<1>1. s \in Snapshot /\ c \in Paused(s) /\ c \notin Waiting(s) /\ c \notin InService(s)
  BY DEF Sound, CanResume
<1>2. /\ n \in Snapshot /\ Waiting(n) = Waiting(s) \cup {c} /\ InService(n) = InService(s)
      /\ n.active = s.active /\ Paused(n) = Paused(s) \ {c}
      /\ n.queue = AtEnd(s.queue, Waiting(s), c, now)
  BY <1>1, ResumedTables
<1> HIDE DEF n
<1>3. Numbered(n.queue, Waiting(n))
  <2>1. Numbered(s.queue, Waiting(s))
    BY DEF Sound
  <2>2. Numbered(AtEnd(s.queue, Waiting(s), c, now), Waiting(s) \cup {c})
    BY <1>1, <2>1, LineAppendedNumbered, Zenon
  <2> QED
    BY <1>2, <2>2, Zenon
<1>4. Sound(n)
  BY <1>1, <1>2, <1>3 DEF Sound
<1>5. Accounted(n, hist, drop, begun)
  BY <1>2 DEF Accounted, Open
<1> QED
  BY <1>4, <1>5 DEF n

LEMMA StartedIsSound ==
  ASSUME NEW s, Sound(s), NEW c \in Consultants, NEW now \in Time, NEW hist, NEW drop, NEW begun,
         Accounted(s, hist, drop, begun), NEW roster, CanStart(s, roster, c), NEW id \in Ids, id \notin begun
  PROVE  /\ Sound(Started(s, c, id, now))
         /\ Accounted(Started(s, c, id, now), hist, drop, begun \cup {id})
<1> DEFINE n == Started(s, c, id, now)
<1>1. /\ s \in Snapshot /\ c \in Waiting(s) /\ c \notin InService(s) /\ c \notin Paused(s)
      /\ Cardinality(InService(s)) < MaxServices /\ id \in Ids
  BY DEF Sound, CanStart
<1>2. /\ n \in Snapshot /\ Waiting(n) = Waiting(s) \ {c} /\ InService(n) = InService(s) \cup {c}
      /\ n.active[c].id = id /\ \A x \in Consultants : x # c => n.active[x] = s.active[x]
      /\ Paused(n) = Paused(s) /\ n.queue = Reindexed(s.queue, Waiting(s) \ {c})
  <2>1. n \in Snapshot
    BY <1>1, StartedTables, Zenon
  <2>2. Waiting(n) = Waiting(s) \ {c}
    BY <1>1, StartedTables, Zenon
  <2>3. InService(n) = InService(s) \cup {c}
    BY <1>1, StartedTables, Zenon
  <2>4. s.active \in [Consultants -> ServiceRow]
    BY <1>1 DEF Snapshot
  <2>5. n.active[c].id = id
    BY <2>4 DEF Started
  <2>6. \A x \in Consultants : x # c => n.active[x] = s.active[x]
    BY <2>4 DEF Started
  <2>7. n.queue = Reindexed(s.queue, Waiting(s) \ {c}) /\ n.paused = s.paused
    BY DEF Started
  <2> QED
    BY <2>1, <2>2, <2>3, <2>5, <2>6, <2>7 DEF Paused
<1> HIDE DEF n
<1>3. Numbered(n.queue, Waiting(n))
  <2>1. Numbered(s.queue, Waiting(s))
    BY DEF Sound
  <2>2. Numbered(Reindexed(s.queue, Waiting(s) \ {c}), Waiting(s) \ {c})
    BY <1>1, <2>1, LineWithoutNumbered, Zenon
  <2> QED
    BY <1>2, <2>2, Zenon
<1>4. InService(s) \in SUBSET Consultants
  BY DEF InService
<1>5. Cardinality(InService(n)) <= MaxServices
  <2>1. IsFiniteSet(InService(s)) /\ Cardinality(InService(s)) \in Nat
    BY <1>4, ConsultantsFinite
  <2>2. Cardinality(InService(s) \cup {c}) = Cardinality(InService(s)) + 1
    BY <1>1, <2>1, FS_AddElement
  <2> QED
    BY <1>1, <1>2, <2>1, <2>2, SnapshotAssumption DEF SnapshotAssumption
<1>6. Sound(n)
  BY <1>1, <1>2, <1>3, <1>5 DEF Sound
<1>7. \A x \in InService(s) : n.active[x] = s.active[x]
  BY <1>1, <1>2, <1>4
<1>8. Open(n) = Open(s) \cup {id}
  BY <1>2, <1>7 DEF Open
<1>9. id \notin Open(s) \cup hist \cup drop
  BY DEF Accounted
<1>10. \A x, y \in InService(n) : n.active[x].id = n.active[y].id => x = y
  BY <1>2, <1>7, <1>9 DEF Accounted, Open
<1>11. Accounted(n, hist, drop, begun \cup {id})
  BY <1>8, <1>9, <1>10 DEF Accounted
<1> QED
  BY <1>6, <1>11 DEF n

LEMMA FinishedIsSound ==
  ASSUME NEW s, Sound(s), NEW c \in Consultants, NEW now \in Time, NEW hist, NEW drop, NEW begun,
         Accounted(s, hist, drop, begun), NEW roster, CanFinish(s, roster, c)
  PROVE  /\ Sound(Finished(s, c, now))
         /\ Accounted(Finished(s, c, now), hist \cup {s.active[c].id}, drop, begun)
<1> DEFINE n == Finished(s, c, now)
<1>1. s \in Snapshot /\ c \in InService(s) /\ c \notin Waiting(s) /\ c \notin Paused(s)
  BY DEF Sound, CanFinish
<1>2. /\ n \in Snapshot /\ Waiting(n) = Waiting(s) \cup {c} /\ InService(n) = InService(s) \ {c}
      /\ \A x \in Consultants \ {c} : n.active[x] = s.active[x]
      /\ Paused(n) = Paused(s) /\ n.queue = AtEnd(s.queue, Waiting(s), c, now)
  BY <1>1, FinishedTables
<1> HIDE DEF n
<1>3. Numbered(n.queue, Waiting(n))
  <2>1. Numbered(s.queue, Waiting(s))
    BY DEF Sound
  <2>2. Numbered(AtEnd(s.queue, Waiting(s), c, now), Waiting(s) \cup {c})
    BY <1>1, <2>1, LineAppendedNumbered, Zenon
  <2> QED
    BY <1>2, <2>2, Zenon
<1>4. InService(s) \in SUBSET Consultants
  BY DEF InService
<1>5. Cardinality(InService(n)) <= MaxServices
  <2>1. InService(n) \in SUBSET InService(s)
    BY <1>2
  <2>2. /\ Cardinality(InService(n)) \in Nat /\ Cardinality(InService(s)) \in Nat
        /\ Cardinality(InService(n)) <= Cardinality(InService(s))
    BY <1>4, <2>1, SmallerSubset
  <2> QED
    BY <2>2, SnapshotAssumption DEF Sound, SnapshotAssumption
<1>6. Sound(n)
  BY <1>1, <1>2, <1>3, <1>5 DEF Sound
<1>7. \A x \in InService(n) : n.active[x] = s.active[x]
  BY <1>2, <1>4
<1>8. \A x, y \in InService(s) : s.active[x].id = s.active[y].id => x = y
  BY DEF Accounted
<1>9. Open(s) = Open(n) \cup {s.active[c].id} /\ s.active[c].id \notin Open(n)
  BY <1>1, <1>2, <1>7, <1>8 DEF Open
<1>10. \A x, y \in InService(n) : n.active[x].id = n.active[y].id => x = y
  BY <1>2, <1>7, <1>8
<1>11. Accounted(n, hist \cup {s.active[c].id}, drop, begun)
  BY <1>9, <1>10 DEF Accounted
<1> QED
  BY <1>6, <1>11 DEF n

-----------------------------------------------------------------------------
(* The invariant *)

\* The transaction keeps the types of everything a command does not compute.
LEMMA PersistType ==
  ASSUME IInv, NEW roster \in SUBSET Consultants, NEW now \in Time, NEW c \in roster,
         NEW next, Persist(Normalized(db, roster, now), next, roster, c, now)
  PROVE  /\ sessions' \in Seq(Session)
         /\ db' = next
         /\ dropped' = dropped \cup Lost(roster)
         /\ dropped' \in SUBSET Ids
<1> DEFINE s == Normalized(db, roster, now)
<1>1. db \in Snapshot /\ sessions \in Seq(Session)
  BY DEF IInv, TypeOK
<1>2. dropped \cup Lost(roster) \in SUBSET Ids
  BY LoadedIsSound
<1>3. s \in Snapshot
  BY <1>1, NormalizedTables, Zenon
<1>4. s.status[c].st \in Statuses
  BY <1>1, NormalizedTables, Zenon
<1>5. s.status \in [Consultants -> StatusRow] /\ c \in Consultants
  BY <1>3 DEF Snapshot
<1>6. ClosedSession(s, c, now) \in Session
  BY <1>4, <1>5 DEF ClosedSession, Session, StatusRow
<1>7. Append(sessions, ClosedSession(s, c, now)) \in Seq(Session)
  BY <1>1, <1>6
<1>8. /\ db' = next /\ dropped' = dropped \cup Lost(roster)
      /\ sessions' = IF next.status[c] = s.status[c] THEN sessions
                     ELSE Append(sessions, ClosedSession(s, c, now))
  BY DEF Persist, Lost
<1> HIDE DEF s
<1> QED
  BY <1>1, <1>2, <1>7, <1>8

LEMMA InitIsSound == Init => IInv
<1> SUFFICES ASSUME Init PROVE IInv
  OBVIOUS
<1>1. 0 \in Time
  BY SnapshotAssumption DEF SnapshotAssumption, Time
<1>2. db \in Snapshot
  <2>1. NoEntry \in QueueRow /\ NoService \in ServiceRow /\ NoPause \in Time /\ NoStatus \in StatusRow
    BY <1>1 DEF NoEntry, QueueRow, NoService, ServiceRow, NoPause, NoStatus, StatusRow
  <2> QED
    BY <2>1 DEF Init, EmptyStore, Snapshot
<1>3. TypeOK
  BY <1>1, <1>2 DEF Init, TypeOK
<1>4. Waiting(db) = {} /\ InService(db) = {} /\ Paused(db) = {}
  BY DEF Init, EmptyStore, Waiting, InService, Paused, NoEntry, NoService
<1>5. Sound(db)
  BY <1>2, <1>4, FS_EmptySet, SnapshotAssumption DEF Sound, Numbered, SnapshotAssumption
<1>6. Accounted(db, history, dropped, started)
  BY <1>4 DEF Init, Accounted, Open
<1> QED
  BY <1>3, <1>5, <1>6 DEF IInv

\* Every command, on whatever roster it finds, leads from sound tables to sound
\* tables.
LEMMA CommandIsSound ==
  ASSUME IInv, NEW roster \in SUBSET Consultants, NEW now \in Time \ {0}, NEW c \in Consultants,
         Command(c, roster, now)
  PROVE  IInv'
<1> DEFINE s == Normalized(db, roster, now)
<1>1. now \in Time
  OBVIOUS
<1>2. Sound(s) /\ Accounted(s, history, dropped \cup Lost(roster), started)
  BY <1>1, LoadedIsSound
<1>3. history \in SUBSET Ids /\ started \in SUBSET Ids
  BY DEF IInv, TypeOK
<1> DEFINE Persisted(next) ==
             /\ sessions' \in Seq(Session) /\ clock' \in Time /\ db' = next
             /\ dropped' = dropped \cup Lost(roster) /\ dropped' \in SUBSET Ids
<1>4. ASSUME NEW next, c \in roster, Persist(s, next, roster, c, now)
      PROVE  Persisted(next)
  <2>1. clock' = now
    BY DEF Command
  <2> QED
    BY <1>1, <1>4, <2>1, PersistType
<1> HIDE DEF s
<1>5. ASSUME NEW next, Persisted(next), Sound(next), history' \in SUBSET Ids, started' \in SUBSET Ids,
             Accounted(next, history', dropped \cup Lost(roster), started')
      PROVE  IInv'
  <2>1. TypeOK'
    BY <1>5 DEF TypeOK, Sound
  <2>2. Sound(db)' /\ Accounted(db, history, dropped, started)'
    BY <1>5 DEF Sound, Accounted, Open, Waiting, InService, Paused, Numbered
  <2> QED
    BY <2>1, <2>2 DEF IInv
<1> HIDE DEF Persisted
<1>6. CASE AddToQueue(s, c, roster, now)
  <2>1. /\ CanQueue(s, roster, c) /\ c \in roster
        /\ Persist(s, Queued(s, c, now), roster, c, now) /\ history' = history /\ started' = started
    BY <1>6 DEF AddToQueue, CanQueue
  <2>2. Persisted(Queued(s, c, now))
    BY <1>4, <2>1
  <2>3. /\ Sound(Queued(s, c, now))
        /\ Accounted(Queued(s, c, now), history, dropped \cup Lost(roster), started)
    BY <1>1, <1>2, <2>1, QueuedIsSound, Zenon
  <2> QED
    BY <1>3, <1>5, <2>1, <2>2, <2>3
<1>7. CASE PauseLike(s, c, roster, now)
  <2>1. /\ CanPause(s, roster, c) /\ c \in roster
        /\ Persist(s, PausedNow(s, c, now), roster, c, now) /\ history' = history /\ started' = started
    BY <1>7 DEF PauseLike, CanPause
  <2>2. Persisted(PausedNow(s, c, now))
    BY <1>4, <2>1
  <2>3. /\ Sound(PausedNow(s, c, now))
        /\ Accounted(PausedNow(s, c, now), history, dropped \cup Lost(roster), started)
    BY <1>2, <2>1, PausedIsSound, Zenon
  <2> QED
    BY <1>3, <1>5, <2>1, <2>2, <2>3
<1>8. CASE Resume(s, c, roster, now)
  <2>1. /\ CanResume(s, roster, c) /\ c \in roster
        /\ Persist(s, Resumed(s, c, now), roster, c, now) /\ history' = history /\ started' = started
    BY <1>8 DEF Resume, CanResume
  <2>2. Persisted(Resumed(s, c, now))
    BY <1>4, <2>1
  <2>3. /\ Sound(Resumed(s, c, now))
        /\ Accounted(Resumed(s, c, now), history, dropped \cup Lost(roster), started)
    BY <1>1, <1>2, <2>1, ResumedIsSound, Zenon
  <2> QED
    BY <1>3, <1>5, <2>1, <2>2, <2>3
<1>9. CASE Start(s, c, roster, now)
  <2>1. PICK id \in Ids \ started :
          /\ Persist(s, Started(s, c, id, now), roster, c, now)
          /\ started' = started \cup {id}
    BY <1>9 DEF Start
  <2>2. CanStart(s, roster, c) /\ c \in roster /\ history' = history
    BY <1>9 DEF Start, CanStart
  <2>3. Persisted(Started(s, c, id, now))
    BY <1>4, <2>1, <2>2
  <2>4. id \in Ids /\ id \notin started
    OBVIOUS
  <2>5. /\ Sound(Started(s, c, id, now))
        /\ Accounted(Started(s, c, id, now), history, dropped \cup Lost(roster), started \cup {id})
    BY <1>1, <1>2, <2>2, <2>4, StartedIsSound, Zenon
  <2>6. started' \in SUBSET Ids
    BY <1>3, <2>1
  <2> QED
    BY <1>3, <1>5, <2>1, <2>2, <2>3, <2>5, <2>6
<1>10. CASE Finish(s, c, roster, now)
  <2>1. /\ CanFinish(s, roster, c) /\ c \in roster /\ c \in InService(s)
        /\ Persist(s, Finished(s, c, now), roster, c, now)
        /\ history' = history \cup {s.active[c].id} /\ started' = started
    BY <1>10 DEF Finish, CanFinish
  <2>2. Persisted(Finished(s, c, now))
    BY <1>4, <2>1
  <2>3. /\ Sound(Finished(s, c, now))
        /\ Accounted(Finished(s, c, now), history \cup {s.active[c].id},
                     dropped \cup Lost(roster), started)
    BY <1>1, <1>2, <2>1, FinishedIsSound, Zenon
  <2>4. history' \in SUBSET Ids
    BY <1>3, <2>1, <2>3 DEF Accounted
  <2> QED
    BY <1>3, <1>5, <2>1, <2>2, <2>3, <2>4
<1> QED
  BY <1>6, <1>7, <1>8, <1>9, <1>10 DEF Command, s

LEMMA StepIsSound == IInv /\ [Next]_vars => IInv'
<1>1. ASSUME IInv, Next PROVE IInv'
  <2>1. PICK c \in Consultants, roster \in SUBSET Consultants :
          clock < MaxTime /\ Command(c, roster, clock + 1)
    BY <1>1 DEF Next
  <2>2. clock + 1 \in Time \ {0}
    BY <1>1, <2>1, SnapshotAssumption DEF IInv, TypeOK, Time, SnapshotAssumption
  <2> QED
    BY <1>1, <2>1, <2>2, CommandIsSound
<1>2. ASSUME IInv, UNCHANGED vars PROVE IInv'
  BY <1>2 DEF IInv, vars, TypeOK, Sound, Accounted, Open, Waiting, InService, Paused, Numbered
<1> QED
  BY <1>1, <1>2

LEMMA Soundness == Spec => []IInv
<1> QED
  BY InitIsSound, StepIsSound, PTL DEF Spec

\* Every reachable state is typed: whatever the roster, a session carries a
\* status the consultant really had.
THEOREM TypeCorrect == Spec => []TypeOK
<1>1. IInv => TypeOK
  BY DEF IInv
<1> QED
  BY Soundness, <1>1, PTL

\* A consultant is never in two of the lists.
THEOREM OnePlaceAlways == Spec => []OnePlace
<1>1. IInv => OnePlace
  BY DEF IInv, Sound, OnePlace
<1> QED
  BY Soundness, <1>1, PTL

\* The limit of concurrent services is never exceeded.
THEOREM CapAlwaysRespected == Spec => []CapRespected
<1>1. IInv => CapRespected
  BY DEF IInv, Sound, CapRespected
<1> QED
  BY Soundness, <1>1, PTL

\* No service is lost, finished twice or open under two consultants.
THEOREM ServicesStayAccounted == Spec => []ServicesAccounted
<1>1. IInv => ServicesAccounted
  BY DEF IInv, Accounted, ServicesAccounted
<1> QED
  BY Soundness, <1>1, PTL

-----------------------------------------------------------------------------
(* The status of each consultant and the sessions *)

\* StatusSummarizes, said of any tables.
Summarizes(s) ==
  \A c \in Consultants :
    \/ s.status[c] = NoStatus /\ DerivedStatus(s, c) = "available"
    \/ /\ s.status[c].st = DerivedStatus(s, c)
       /\ s.status[c].since = DerivedSince(s, c, s.status[c].since)

LEMMA ReindexedMoments ==
  ASSUME NEW q, NEW S, NEW c \in S, c \in Consultants
  PROVE  Reindexed(q, S)[c].at = q[c].at
BY DEF Reindexed

\* A load derives the status again, but what it finds in the tables summarizes
\* them already: only a consultant who joins the roster gets another row.
LEMMA LoadedStatus ==
  ASSUME NEW s \in Snapshot, Summarizes(s), NEW roster \in SUBSET Consultants, NEW now \in Time
  PROVE  LET n == Normalized(s, roster, now) IN
         /\ Summarizes(n)
         /\ \A c \in Consultants :
              \/ c \notin roster /\ n.status[c] = NoStatus
              \/ c \in roster /\ n.status[c] = s.status[c] /\ s.status[c] # NoStatus
              \/ c \in roster /\ n.status[c] # NoStatus /\ n.status[c].since = now
<1> DEFINE n == Normalized(s, roster, now)
<1>1. /\ s.queue \in [Consultants -> QueueRow] /\ s.active \in [Consultants -> ServiceRow]
      /\ s.paused \in [Consultants -> Time] /\ s.status \in [Consultants -> StatusRow]
  BY DEF Snapshot
<1>2. Waiting(n) = Waiting(s) \cap roster
  BY NormalizedTables, Zenon
<1>3. InService(n) = InService(s) \cap roster
  BY NormalizedTables, Zenon
<1>4. Paused(n) = Paused(s) \cap roster
  BY NormalizedTables, Zenon
<1>5. /\ n.queue = Reindexed(s.queue, Waiting(s) \cap roster)
      /\ \A c \in roster : n.active[c] = s.active[c] /\ n.paused[c] = s.paused[c]
  BY DEF Normalized
<1>6. \A c \in Consultants : n.status[c] =
        IF c \notin roster THEN NoStatus
        ELSE IF DerivedStatus(s, c) = "available" /\ s.status[c].st = "available" THEN s.status[c]
        ELSE [st |-> DerivedStatus(s, c), since |-> DerivedSince(s, c, now)]
  BY DEF Normalized
<1> HIDE DEF n
<1>7. ASSUME NEW c \in Consultants, c \notin roster
      PROVE  n.status[c] = NoStatus /\ DerivedStatus(n, c) = "available"
  BY <1>2, <1>3, <1>4, <1>6, <1>7 DEF DerivedStatus
<1>8. ASSUME NEW c \in Consultants, c \in roster
      PROVE  /\ n.status[c].st = DerivedStatus(n, c)
             /\ n.status[c].since = DerivedSince(n, c, n.status[c].since)
             /\ \/ n.status[c] = s.status[c] /\ s.status[c] # NoStatus
                \/ n.status[c] # NoStatus /\ n.status[c].since = now
  <2>1. DerivedStatus(n, c) = DerivedStatus(s, c)
    BY <1>2, <1>3, <1>4, <1>8 DEF DerivedStatus
  <2>2. c \in Waiting(s) => n.queue[c].at = s.queue[c].at
    BY <1>5, <1>8, ReindexedMoments
  <2>3. \A t : DerivedSince(n, c, t) = DerivedSince(s, c, t)
    BY <1>2, <1>3, <1>4, <1>5, <1>8, <2>2 DEF DerivedSince
  <2>4. DerivedStatus(s, c) # "none"
    BY DEF DerivedStatus
  <2>5. CASE DerivedStatus(s, c) = "available" /\ s.status[c].st = "available"
    <3>0. n.status[c] = s.status[c]
      BY <1>6, <1>8, <2>5, Zenon
    <3>1. n.status[c] = s.status[c] /\ s.status[c] # NoStatus
      BY <2>5, <3>0 DEF NoStatus
    <3>2. c \notin InService(s) /\ c \notin Waiting(s) /\ c \notin Paused(s)
      BY <2>5 DEF DerivedStatus
    <3>3. \A t : DerivedSince(s, c, t) = t
      BY <3>2 DEF DerivedSince
    <3> QED
      BY <2>1, <2>3, <2>5, <3>1, <3>3
  <2>6. CASE DerivedStatus(s, c) = "available" /\ s.status[c].st # "available"
    <3>1. c \notin InService(s) /\ c \notin Waiting(s) /\ c \notin Paused(s)
      BY <2>6 DEF DerivedStatus
    <3>2. \A t : DerivedSince(s, c, t) = t
      BY <3>1 DEF DerivedSince
    <3>0. n.status[c] = [st |-> DerivedStatus(s, c), since |-> DerivedSince(s, c, now)]
      BY <1>6, <1>8, <2>6, Zenon
    <3>3. n.status[c].st = DerivedStatus(s, c) /\ n.status[c].since = now
      BY <3>0, <3>2
    <3> QED
      BY <2>1, <2>3, <2>4, <3>2, <3>3 DEF NoStatus
  <2>7. CASE DerivedStatus(s, c) # "available"
    <3>1. n.status[c] = [st |-> DerivedStatus(s, c), since |-> DerivedSince(s, c, now)]
      BY <1>6, <1>8, <2>7
    <3>2. /\ s.status[c].st = DerivedStatus(s, c)
          /\ s.status[c].since = DerivedSince(s, c, s.status[c].since)
      BY <2>7 DEF Summarizes
    <3>3. \A t : DerivedSince(s, c, t) = DerivedSince(s, c, now)
      BY <2>7 DEF DerivedSince, DerivedStatus
    <3>4. s.status[c] = [st |-> s.status[c].st, since |-> s.status[c].since]
      BY <1>1 DEF StatusRow
    <3>5. s.status[c].since = DerivedSince(s, c, now)
      BY <3>2, <3>3
    <3>6. n.status[c] = s.status[c]
      BY <3>1, <3>2, <3>4, <3>5
    <3>7. s.status[c] # NoStatus
      BY <2>4, <3>2 DEF NoStatus
    <3> QED
      BY <2>1, <2>3, <3>2, <3>6, <3>7
  <2> QED
    BY <2>5, <2>6, <2>7
<1>9. Summarizes(n)
  BY <1>7, <1>8 DEF Summarizes
<1> QED
  BY <1>7, <1>8, <1>9 DEF n

\* A command that moves c to the place "to" at the moment now, and says so.
LEMMA MovedSummary ==
  ASSUME NEW s \in Snapshot, Summarizes(s), NEW c \in Consultants, NEW to, NEW now, NEW n,
         n.status = Became(s.status, c, to, now), to \notin {"none", "available"},
         DerivedStatus(s, c) # to, DerivedStatus(n, c) = to, \A t : DerivedSince(n, c, t) = now,
         \A x \in Consultants : x # c => DerivedStatus(n, x) = DerivedStatus(s, x),
         \A x \in Consultants, t \in Time : x # c => DerivedSince(n, x, t) = DerivedSince(s, x, t)
  PROVE  /\ Summarizes(n)
         /\ n.status[c].since = now /\ n.status[c] # s.status[c]
         /\ \A x \in Consultants : x # c => n.status[x] = s.status[x]
<1>1. s.status \in [Consultants -> StatusRow]
  BY DEF Snapshot
<1>2. s.status[c].st # to
  BY DEF Summarizes, NoStatus
<1>3. n.status = [s.status EXCEPT ![c] = [st |-> to, since |-> now]]
  BY <1>2 DEF Became
<1>4. n.status[c] = [st |-> to, since |-> now]
  BY <1>1, <1>3
<1>5. \A x \in Consultants : x # c => n.status[x] = s.status[x] /\ s.status[x].since \in Time
  BY <1>1, <1>3 DEF StatusRow
<1>6. Summarizes(n)
  BY <1>4, <1>5 DEF Summarizes
<1> QED
  BY <1>2, <1>4, <1>5, <1>6

\* The rows of x are the same in the tables n and s.
SameRows(s, n, x) ==
  /\ x \in Waiting(n) <=> x \in Waiting(s)
  /\ x \in InService(n) <=> x \in InService(s)
  /\ x \in Paused(n) <=> x \in Paused(s)
  /\ x \in Waiting(s) => n.queue[x].at = s.queue[x].at
  /\ n.active[x] = s.active[x] /\ n.paused[x] = s.paused[x]

LEMMA SameRowsDerive ==
  ASSUME NEW s, NEW n, NEW x, SameRows(s, n, x)
  PROVE  DerivedStatus(n, x) = DerivedStatus(s, x) /\ \A t : DerivedSince(n, x, t) = DerivedSince(s, x, t)
BY DEF SameRows, DerivedStatus, DerivedSince

\* What every command makes of the loaded tables.
Summed(s, n, c, now) ==
  /\ Summarizes(n)
  /\ n.status[c].since = now /\ n.status[c] # s.status[c]
  /\ \A x \in Consultants : x # c => n.status[x] = s.status[x]

LEMMA MovedRows ==
  ASSUME NEW s \in Snapshot, Summarizes(s), NEW c \in Consultants, NEW to, NEW now, NEW n,
         n.status = Became(s.status, c, to, now), to \notin {"none", "available"},
         DerivedStatus(s, c) # to, DerivedStatus(n, c) = to, \A t : DerivedSince(n, c, t) = now,
         \A x \in Consultants : x # c => SameRows(s, n, x)
  PROVE  Summed(s, n, c, now)
<1>1. \A x \in Consultants : x # c => DerivedStatus(n, x) = DerivedStatus(s, x)
  BY SameRowsDerive
<1>2. \A x \in Consultants, t \in Time : x # c => DerivedSince(n, x, t) = DerivedSince(s, x, t)
  BY SameRowsDerive
<1> QED
  BY <1>1, <1>2, MovedSummary DEF Summed

LEMMA QueuedSummary ==
  ASSUME NEW s \in Snapshot, Summarizes(s), NEW c \in Consultants, NEW now \in Time, NEW roster,
         CanQueue(s, roster, c)
  PROVE  Summed(s, Queued(s, c, now), c, now)
<1> DEFINE n == Queued(s, c, now)
<1>1. s.queue \in [Consultants -> QueueRow]
  BY DEF Snapshot
<1>2. Waiting(n) = Waiting(s) \cup {c} /\ InService(n) = InService(s) /\ Paused(n) = Paused(s)
  BY QueuedTables
<1>3. /\ n.queue = AtEnd(s.queue, Waiting(s), c, now) /\ n.active = s.active /\ n.paused = s.paused
      /\ n.status = Became(s.status, c, "queue", now)
  BY DEF Queued
<1> HIDE DEF n
<1>4. n.queue[c].at = now /\ \A x \in Consultants : x # c => n.queue[x] = s.queue[x]
  BY <1>1, <1>3 DEF AtEnd
<1>5. c \notin Waiting(s) /\ c \notin InService(s) /\ c \notin Paused(s)
  BY DEF CanQueue
<1>6. /\ DerivedStatus(s, c) # "queue" /\ DerivedStatus(n, c) = "queue"
      /\ \A t : DerivedSince(n, c, t) = now
  BY <1>2, <1>4, <1>5 DEF DerivedStatus, DerivedSince
<1>7. \A x \in Consultants : x # c => SameRows(s, n, x)
  BY <1>2, <1>3, <1>4 DEF SameRows
<1> QED
  BY <1>3, <1>6, <1>7, MovedRows DEF n

LEMMA PausedSummary ==
  ASSUME NEW s \in Snapshot, Summarizes(s), NEW c \in Consultants, NEW now \in Time \ {0}, NEW roster,
         CanPause(s, roster, c)
  PROVE  Summed(s, PausedNow(s, c, now), c, now)
<1> DEFINE n == PausedNow(s, c, now)
<1>1. s.paused \in [Consultants -> Time]
  BY DEF Snapshot
<1>2. Waiting(n) = Waiting(s) \ {c} /\ InService(n) = InService(s) /\ Paused(n) = Paused(s) \cup {c}
  BY PausedNowTables
<1>3. /\ n.queue = Reindexed(s.queue, Waiting(s) \ {c}) /\ n.active = s.active
      /\ n.paused = [s.paused EXCEPT ![c] = now] /\ n.status = Became(s.status, c, "paused", now)
  BY DEF PausedNow
<1> HIDE DEF n
<1>4. n.paused[c] = now /\ \A x \in Consultants : x # c => n.paused[x] = s.paused[x]
  BY <1>1, <1>3
<1>5. \A x \in Consultants : x # c /\ x \in Waiting(s) => n.queue[x].at = s.queue[x].at
  BY <1>3, ReindexedMoments
<1>6. c \notin InService(s) /\ c \notin Paused(s)
  BY DEF CanPause
<1>7. /\ DerivedStatus(s, c) # "paused" /\ DerivedStatus(n, c) = "paused"
      /\ \A t : DerivedSince(n, c, t) = now
  BY <1>2, <1>4, <1>6 DEF DerivedStatus, DerivedSince
<1>8. \A x \in Consultants : x # c => SameRows(s, n, x)
  BY <1>2, <1>3, <1>4, <1>5 DEF SameRows
<1> QED
  BY <1>3, <1>7, <1>8, MovedRows DEF n

LEMMA ResumedSummary ==
  ASSUME NEW s, Sound(s), Summarizes(s), NEW c \in Consultants, NEW now \in Time, NEW roster,
         CanResume(s, roster, c)
  PROVE  Summed(s, Resumed(s, c, now), c, now)
<1> DEFINE n == Resumed(s, c, now)
<1>1. /\ s \in Snapshot /\ c \in Paused(s) /\ c \notin Waiting(s) /\ c \notin InService(s)
      /\ s.queue \in [Consultants -> QueueRow] /\ s.paused \in [Consultants -> Time]
  BY DEF Sound, CanResume, Snapshot
<1>2. Waiting(n) = Waiting(s) \cup {c} /\ InService(n) = InService(s) /\ Paused(n) = Paused(s) \ {c}
  BY <1>1, ResumedTables
<1>3. /\ n.queue = AtEnd(s.queue, Waiting(s), c, now) /\ n.active = s.active
      /\ n.paused = [s.paused EXCEPT ![c] = NoPause] /\ n.status = Became(s.status, c, "queue", now)
  BY <1>1 DEF Resumed
<1> HIDE DEF n
<1>4. n.queue[c].at = now /\ \A x \in Consultants : x # c => n.queue[x] = s.queue[x]
  BY <1>1, <1>3 DEF AtEnd
<1>5. \A x \in Consultants : x # c => n.paused[x] = s.paused[x]
  BY <1>1, <1>3
<1>6. /\ DerivedStatus(s, c) # "queue" /\ DerivedStatus(n, c) = "queue"
      /\ \A t : DerivedSince(n, c, t) = now
  BY <1>1, <1>2, <1>4 DEF DerivedStatus, DerivedSince
<1>7. \A x \in Consultants : x # c => SameRows(s, n, x)
  BY <1>2, <1>3, <1>4, <1>5 DEF SameRows
<1> QED
  BY <1>1, <1>3, <1>6, <1>7, MovedRows DEF n

LEMMA StartedSummary ==
  ASSUME NEW s \in Snapshot, Summarizes(s), NEW c \in Consultants, NEW id \in Ids, NEW now \in Time,
         NEW roster, CanStart(s, roster, c)
  PROVE  Summed(s, Started(s, c, id, now), c, now)
<1> DEFINE n == Started(s, c, id, now)
<1>1. s.active \in [Consultants -> ServiceRow]
  BY DEF Snapshot
<1>2. Waiting(n) = Waiting(s) \ {c}
  BY StartedTables, Zenon
<1>3. InService(n) = InService(s) \cup {c}
  BY StartedTables, Zenon
<1>4. /\ n.queue = Reindexed(s.queue, Waiting(s) \ {c}) /\ n.paused = s.paused
      /\ n.active = [s.active EXCEPT ![c] = [id |-> id, at |-> now]]
      /\ n.status = Became(s.status, c, "service", now)
  BY DEF Started
<1> HIDE DEF n
<1>5. n.active[c].at = now /\ \A x \in Consultants : x # c => n.active[x] = s.active[x]
  BY <1>1, <1>4
<1>6. \A x \in Consultants : x # c /\ x \in Waiting(s) => n.queue[x].at = s.queue[x].at
  BY <1>4, ReindexedMoments
<1>7. c \in Waiting(s) /\ c \notin InService(s) /\ Paused(n) = Paused(s)
  BY <1>4 DEF CanStart, Paused
<1>8. /\ DerivedStatus(s, c) # "service" /\ DerivedStatus(n, c) = "service"
      /\ \A t : DerivedSince(n, c, t) = now
  BY <1>3, <1>5, <1>7 DEF DerivedStatus, DerivedSince
<1>9. \A x \in Consultants : x # c => SameRows(s, n, x)
  BY <1>2, <1>3, <1>4, <1>5, <1>6, <1>7 DEF SameRows
<1> QED
  BY <1>4, <1>8, <1>9, MovedRows DEF n

LEMMA FinishedSummary ==
  ASSUME NEW s \in Snapshot, Summarizes(s), NEW c \in Consultants, NEW now \in Time, NEW roster,
         CanFinish(s, roster, c)
  PROVE  Summed(s, Finished(s, c, now), c, now)
<1> DEFINE n == Finished(s, c, now)
<1>1. s.queue \in [Consultants -> QueueRow] /\ s.active \in [Consultants -> ServiceRow]
  BY DEF Snapshot
<1>2. Waiting(n) = Waiting(s) \cup {c} /\ InService(n) = InService(s) \ {c} /\ Paused(n) = Paused(s)
  BY FinishedTables
<1>3. /\ n.queue = AtEnd(s.queue, Waiting(s), c, now) /\ n.paused = s.paused
      /\ n.active = [s.active EXCEPT ![c] = NoService]
      /\ n.status = Became(s.status, c, "queue", now)
  BY DEF Finished
<1> HIDE DEF n
<1>4. n.queue[c].at = now /\ \A x \in Consultants : x # c => n.queue[x] = s.queue[x]
  BY <1>1, <1>3 DEF AtEnd
<1>5. \A x \in Consultants : x # c => n.active[x] = s.active[x]
  BY <1>1, <1>3
<1>6. c \in InService(s) /\ c \notin Waiting(s)
  BY DEF CanFinish
<1>7. /\ DerivedStatus(s, c) # "queue" /\ DerivedStatus(n, c) = "queue"
      /\ \A t : DerivedSince(n, c, t) = now
  BY <1>2, <1>4, <1>6 DEF DerivedStatus, DerivedSince
<1>8. \A x \in Consultants : x # c => SameRows(s, n, x)
  BY <1>2, <1>3, <1>4, <1>5 DEF SameRows
<1> QED
  BY <1>3, <1>7, <1>8, MovedRows DEF n

\* SessionsAreDisjoint, said of any status table and log, up to the moment t.
Orderly(status, log, t) ==
  /\ \A i, j \in 1 .. Len(log) : i < j /\ log[i].who = log[j].who => log[i].to <= log[j].from
  /\ \A i \in 1 .. Len(log) :
       /\ log[i].from <= log[i].to /\ log[i].to <= t
       /\ status[log[i].who] # NoStatus => log[i].to <= status[log[i].who].since
  /\ \A c \in Consultants : status[c].since <= t

\* The transition closes the session of c at the moment now, after every other.
LEMMA SessionCloses ==
  ASSUME NEW log \in Seq(Session), NEW s \in Snapshot, NEW c \in Consultants, NEW now \in Time,
         NEW status, status[c].since = now, \A x \in Consultants : x # c => status[x] = s.status[x],
         s.status[c] # NoStatus, s.status[c].st \in Statuses, Orderly(s.status, log, now)
  PROVE  Orderly(status, Append(log, ClosedSession(s, c, now)), now)
<1> DEFINE new == ClosedSession(s, c, now)
           more == Append(log, new)
           n == Len(log)
<1>1. s.status \in [Consultants -> StatusRow]
  BY DEF Snapshot
<1>2. /\ new.who = c /\ new.from = s.status[c].since /\ new.to = now /\ new \in Session
  BY <1>1 DEF ClosedSession, Session, StatusRow
<1> HIDE DEF new
<1>3. /\ n \in Nat /\ Len(more) = n + 1 /\ more[n + 1] = new
      /\ \A i \in 1 .. n : more[i] = log[i] /\ log[i] \in Session
  BY <1>2
<1> HIDE DEF more, n
<1>4. \A x \in Consultants : s.status[x].since \in Time /\ s.status[x].since <= now
  BY <1>1 DEF Orderly, StatusRow
<1>5. \A i \in 1 .. n : /\ log[i].who \in Consultants /\ log[i].from \in Nat /\ log[i].to \in Nat
                        /\ log[i].from <= log[i].to /\ log[i].to <= now
                        /\ s.status[log[i].who] # NoStatus => log[i].to <= s.status[log[i].who].since
  BY <1>3 DEF Orderly, n, Session, Time
<1>6. now \in Nat /\ \A i \in 1 .. n + 1 : i \in 1 .. n \/ i = n + 1
  BY <1>3 DEF Time
<1>7. ASSUME NEW i \in 1 .. n + 1
      PROVE  /\ more[i].from <= more[i].to /\ more[i].to <= now
             /\ status[more[i].who] # NoStatus => more[i].to <= status[more[i].who].since
  <2>1. CASE i = n + 1
    BY <1>2, <1>3, <1>4, <1>6, <2>1
  <2>2. CASE i \in 1 .. n
    BY <1>3, <1>5, <2>2
  <2> QED
    BY <1>6, <2>1, <2>2
<1>8. ASSUME NEW i \in 1 .. n + 1, NEW j \in 1 .. n + 1, i < j, more[i].who = more[j].who
      PROVE  more[i].to <= more[j].from
  <2>1. i \in 1 .. n
    BY <1>3, <1>8
  <2>2. CASE j \in 1 .. n
    BY <1>3, <1>8, <2>1, <2>2 DEF Orderly, n
  <2>3. CASE j = n + 1
    BY <1>2, <1>3, <1>5, <1>8, <2>1, <2>3
  <2> QED
    BY <1>6, <2>2, <2>3
<1>9. \A x \in Consultants : status[x].since <= now
  BY <1>4, <1>6
<1>10. Orderly(status, more, now)
  BY <1>3, <1>7, <1>8, <1>9 DEF Orderly
<1> QED
  BY <1>10 DEF more, new

\* Loading the store keeps the log in order: who joins the roster is available
\* from now on.
LEMMA LoadedLog ==
  ASSUME NEW log \in Seq(Session), NEW s \in Snapshot, Summarizes(s), NEW t \in Time, NEW now \in Time,
         t <= now, Orderly(s.status, log, t), NEW roster \in SUBSET Consultants
  PROVE  Orderly(Normalized(s, roster, now).status, log, now)
<1> DEFINE status == Normalized(s, roster, now).status
<1>1. \A c \in Consultants :
        \/ status[c] = NoStatus
        \/ status[c] = s.status[c]
        \/ status[c].since = now
  BY LoadedStatus
<1> HIDE DEF status
<1>2. s.status \in [Consultants -> StatusRow]
  BY DEF Snapshot
<1>3. \A c \in Consultants : s.status[c].since \in Nat /\ s.status[c].since <= t
  BY <1>2 DEF StatusRow, Orderly, Time
<1>4. t \in Nat /\ now \in Nat /\ t <= now
  BY DEF Time
<1>5. \A i \in 1 .. Len(log) : /\ log[i].who \in Consultants /\ log[i].from \in Nat /\ log[i].to \in Nat
                               /\ log[i].from <= log[i].to /\ log[i].to <= t
                               /\ s.status[log[i].who] # NoStatus => log[i].to <= s.status[log[i].who].since
  <2>1. \A i \in 1 .. Len(log) : log[i] \in Session
    OBVIOUS
  <2> QED
    BY <2>1 DEF Orderly, Session, Time
<1>6. \A i \in 1 .. Len(log) :
        /\ log[i].to <= now
        /\ status[log[i].who] # NoStatus => log[i].to <= status[log[i].who].since
  BY <1>1, <1>4, <1>5
<1>7. \A c \in Consultants : status[c].since <= now
  BY <1>1, <1>3, <1>4 DEF NoStatus
<1>8. Orderly(status, log, now)
  BY <1>5, <1>6, <1>7 DEF Orderly
<1> QED
  BY <1>8 DEF status

\* The invariant behind StatusSummarizes and SessionsAreDisjoint.
LogInv == IInv /\ Summarizes(db) /\ Orderly(db.status, sessions, clock)

LEMMA InitLog == Init => LogInv
<1> SUFFICES ASSUME Init PROVE LogInv
  OBVIOUS
<1>1. Waiting(db) = {} /\ InService(db) = {} /\ Paused(db) = {}
  BY DEF Init, EmptyStore, Waiting, InService, Paused, NoEntry, NoService
<1>2. \A c \in Consultants : db.status[c] = NoStatus
  BY DEF Init, EmptyStore
<1>3. Summarizes(db)
  BY <1>1, <1>2 DEF Summarizes, DerivedStatus
<1>4. Len(sessions) = 0 /\ clock = 0
  BY DEF Init
<1>5. Orderly(db.status, sessions, clock)
  BY <1>2, <1>4 DEF Orderly, NoStatus
<1> QED
  BY <1>3, <1>5, InitIsSound DEF LogInv

LEMMA CommandLogs ==
  ASSUME LogInv, NEW roster \in SUBSET Consultants, NEW now \in Time \ {0}, clock <= now,
         NEW c \in Consultants, Command(c, roster, now)
  PROVE  LogInv'
<1> DEFINE s == Normalized(db, roster, now)
<1>1. /\ IInv /\ Summarizes(db) /\ db \in Snapshot /\ sessions \in Seq(Session)
      /\ clock \in Time /\ now \in Time
  BY DEF LogInv, IInv, TypeOK
<1>2. Sound(s) /\ s \in Snapshot
  BY <1>1, LoadedIsSound DEF Sound
<1>3. Summarizes(s) /\ (c \in roster => s.status[c] # NoStatus)
  BY <1>1, LoadedStatus
<1>4. c \in roster => s.status[c].st \in Statuses
  BY <1>1, NormalizedTables, Zenon
<1>5. Orderly(s.status, sessions, now)
  BY <1>1, LoadedLog DEF LogInv
<1>6. IInv'
  BY <1>1, CommandIsSound
<1> HIDE DEF s
<1>7. ASSUME NEW next, c \in roster, Summed(s, next, c, now), Persist(s, next, roster, c, now)
      PROVE  LogInv'
  <2>1. /\ db' = next /\ clock' = now
        /\ sessions' = Append(sessions, ClosedSession(s, c, now))
    BY <1>7 DEF Persist, Summed, Command
  <2>2. Summarizes(db')
    BY <1>7, <2>1 DEF Summed
  <2>3. Orderly(next.status, Append(sessions, ClosedSession(s, c, now)), now)
    BY <1>1, <1>2, <1>3, <1>4, <1>5, <1>7, SessionCloses DEF Summed
  <2>4. Orderly(db.status, sessions, clock)' <=> Orderly(db'.status, sessions', clock')
    BY DEF Orderly
  <2>5. Summarizes(db)' <=> Summarizes(db')
    BY DEF Summarizes, DerivedStatus, DerivedSince, Waiting, InService, Paused
  <2> QED
    BY <1>6, <2>1, <2>2, <2>3, <2>4, <2>5 DEF LogInv
<1>8. CASE AddToQueue(s, c, roster, now)
  <2>1. CanQueue(s, roster, c) /\ c \in roster /\ Persist(s, Queued(s, c, now), roster, c, now)
    BY <1>8 DEF AddToQueue, CanQueue
  <2>2. Summed(s, Queued(s, c, now), c, now)
    BY <1>1, <1>2, <1>3, <2>1, QueuedSummary
  <2> QED
    BY <1>7, <2>1, <2>2
<1>9. CASE PauseLike(s, c, roster, now)
  <2>1. CanPause(s, roster, c) /\ c \in roster /\ Persist(s, PausedNow(s, c, now), roster, c, now)
    BY <1>9 DEF PauseLike, CanPause
  <2>2. Summed(s, PausedNow(s, c, now), c, now)
    BY <1>2, <1>3, <2>1, PausedSummary
  <2> QED
    BY <1>7, <2>1, <2>2
<1>10. CASE Resume(s, c, roster, now)
  <2>1. CanResume(s, roster, c) /\ c \in roster /\ Persist(s, Resumed(s, c, now), roster, c, now)
    BY <1>10 DEF Resume, CanResume
  <2>2. Summed(s, Resumed(s, c, now), c, now)
    BY <1>1, <1>2, <1>3, <2>1, ResumedSummary
  <2> QED
    BY <1>7, <2>1, <2>2
<1>11. CASE Start(s, c, roster, now)
  <2>1. PICK id \in Ids \ started : Persist(s, Started(s, c, id, now), roster, c, now)
    BY <1>11 DEF Start
  <2>2. id \in Ids /\ CanStart(s, roster, c) /\ c \in roster
    BY <1>11 DEF Start, CanStart
  <2>3. Summed(s, Started(s, c, id, now), c, now)
    BY <1>1, <1>2, <1>3, <2>2, StartedSummary
  <2> QED
    BY <1>7, <2>1, <2>2, <2>3
<1>12. CASE Finish(s, c, roster, now)
  <2>1. CanFinish(s, roster, c) /\ c \in roster /\ Persist(s, Finished(s, c, now), roster, c, now)
    BY <1>12 DEF Finish, CanFinish
  <2>2. Summed(s, Finished(s, c, now), c, now)
    BY <1>1, <1>2, <1>3, <2>1, FinishedSummary
  <2> QED
    BY <1>7, <2>1, <2>2
<1> QED
  BY <1>8, <1>9, <1>10, <1>11, <1>12 DEF Command, s

LEMMA StepLogs == LogInv /\ [Next]_vars => LogInv'
<1>1. ASSUME LogInv, Next PROVE LogInv'
  <2>1. PICK c \in Consultants, roster \in SUBSET Consultants :
          clock < MaxTime /\ Command(c, roster, clock + 1)
    BY <1>1 DEF Next
  <2>2. clock + 1 \in Time \ {0} /\ clock <= clock + 1
    BY <1>1, <2>1, SnapshotAssumption DEF LogInv, IInv, TypeOK, Time, SnapshotAssumption
  <2> QED
    BY <1>1, <2>1, <2>2, CommandLogs
<1>2. ASSUME LogInv, UNCHANGED vars PROVE LogInv'
  <2>1. IInv'
    BY <1>2, StepIsSound DEF LogInv
  <2>2. db' = db /\ sessions' = sessions /\ clock' = clock
    BY <1>2 DEF vars
  <2> QED
    BY <1>2, <2>1, <2>2 DEF LogInv, Summarizes, DerivedStatus, DerivedSince, Waiting, InService, Paused, Orderly
<1> QED
  BY <1>1, <1>2

LEMMA LogHolds == Spec => []LogInv
<1> QED
  BY InitLog, StepLogs, PTL DEF Spec

\* operation_current_status always summarizes the lists.
THEOREM StatusAlwaysSummarizes == Spec => []StatusSummarizes
<1>1. LogInv => StatusSummarizes
  BY DEF LogInv, Summarizes, StatusSummarizes
<1> QED
  BY LogHolds, <1>1, PTL

\* The status sessions of a consultant never overlap, nor reach into the status
\* the consultant has now.
THEOREM SessionsStayDisjoint == Spec => []SessionsAreDisjoint
<1>1. LogInv => SessionsAreDisjoint
  BY DEF LogInv, Orderly, SessionsAreDisjoint
<1> QED
  BY LogHolds, <1>1, PTL

-----------------------------------------------------------------------------
(* The commands implement FilaBoard *)

PlaceOf(s) == [c \in Consultants |-> DerivedStatus(s, c)]

\* x is before y in the line.
Before(s, x, y) == x \in Waiting(s) /\ y \in Waiting(s) /\ s.queue[x].pos < s.queue[y].pos

LEMMA AheadPairs ==
  /\ Ahead \in SUBSET (Consultants \X Consultants)
  /\ \A x, y : <<x, y>> \in Ahead <=> Before(db, x, y)
<1>1. Waiting(db) \in SUBSET Consultants
  BY DEF Waiting
<1> QED
  BY <1>1 DEF Ahead, Before

\* The places of sound tables are the lists.
LEMMA PlacesAreLists ==
  ASSUME NEW s, Sound(s)
  PROVE  /\ \A c \in Consultants :
              /\ DerivedStatus(s, c) = "queue" <=> c \in Waiting(s)
              /\ DerivedStatus(s, c) = "service" <=> c \in InService(s)
              /\ DerivedStatus(s, c) = "paused" <=> c \in Paused(s)
              /\ DerivedStatus(s, c) \in {"available", "queue", "service", "paused"}
         /\ {c \in Consultants : PlaceOf(s)[c] = "queue"} = Waiting(s)
         /\ {c \in Consultants : PlaceOf(s)[c] = "service"} = InService(s)
<1>1. \A c \in Consultants :
        /\ DerivedStatus(s, c) = "queue" <=> c \in Waiting(s)
        /\ DerivedStatus(s, c) = "service" <=> c \in InService(s)
        /\ DerivedStatus(s, c) = "paused" <=> c \in Paused(s)
        /\ DerivedStatus(s, c) \in {"available", "queue", "service", "paused"}
  BY DEF Sound, DerivedStatus
<1>2. Waiting(s) \in SUBSET Consultants /\ InService(s) \in SUBSET Consultants
  BY DEF Waiting, InService
<1> QED
  BY <1>1, <1>2 DEF PlaceOf

\* The load takes the consultants who left out of the line and keeps the order
\* of the others.
LEMMA LoadKeepsOrder ==
  ASSUME NEW s, Sound(s), NEW roster \in SUBSET Consultants, NEW now \in Time,
         NEW x, NEW y
  PROVE  Before(Normalized(s, roster, now), x, y) <=> Before(s, x, y) /\ x \in roster /\ y \in roster
<1> DEFINE n == Normalized(s, roster, now)
           q == s.queue
           T == Waiting(s) \cap roster
<1>1. s \in Snapshot /\ Numbered(s.queue, Waiting(s))
  BY DEF Sound
<1>2. Waiting(n) = T
  BY <1>1, NormalizedTables, Zenon
<1>3. n.queue = Reindexed(q, T)
  BY DEF Normalized
<1>4. q \in [Consultants -> QueueRow] /\ T \in SUBSET Consultants
  BY <1>1 DEF Snapshot, Waiting
<1>5. \A a, b \in T : q[a].pos = q[b].pos => a = b
  BY <1>1 DEF Numbered
<1> HIDE DEF n, q, T
<1>6. ASSUME x \in T, y \in T
      PROVE  Reindexed(q, T)[x].pos < Reindexed(q, T)[y].pos <=> q[x].pos < q[y].pos
  BY <1>4, <1>5, <1>6, ReindexedOrder
<1>7. Before(n, x, y) <=> x \in T /\ y \in T /\ q[x].pos < q[y].pos
  BY <1>2, <1>3, <1>6 DEF Before
<1> QED
  BY <1>7 DEF Before, n, q, T

\* Taking c out of the line keeps the order of the others ...
LEMMA LeavingKeepsOrder ==
  ASSUME NEW s, Sound(s), NEW c \in Consultants, NEW n,
         Waiting(n) = Waiting(s) \ {c}, n.queue = Reindexed(s.queue, Waiting(s) \ {c}),
         NEW x, NEW y
  PROVE  Before(n, x, y) <=> Before(s, x, y) /\ x # c /\ y # c
<1> DEFINE q == s.queue
           T == Waiting(s) \ {c}
<1>1. s \in Snapshot /\ Numbered(s.queue, Waiting(s))
  BY DEF Sound
<1>2. q \in [Consultants -> QueueRow] /\ T \in SUBSET Consultants
  BY <1>1 DEF Snapshot, Waiting
<1>3. \A a, b \in T : q[a].pos = q[b].pos => a = b
  BY <1>1 DEF Numbered
<1> HIDE DEF q, T
<1>4. ASSUME x \in T, y \in T
      PROVE  Reindexed(q, T)[x].pos < Reindexed(q, T)[y].pos <=> q[x].pos < q[y].pos
  BY <1>2, <1>3, <1>4, ReindexedOrder
<1>5. Before(n, x, y) <=> x \in T /\ y \in T /\ q[x].pos < q[y].pos
  BY <1>4 DEF Before, q, T
<1> QED
  BY <1>5 DEF Before, q, T

\* ... and so does appending c, who then is behind everybody.
LEMMA JoiningKeepsOrder ==
  ASSUME NEW s, Sound(s), NEW c \in Consultants, c \notin Waiting(s), NEW now \in Time, NEW n,
         Waiting(n) = Waiting(s) \cup {c}, n.queue = AtEnd(s.queue, Waiting(s), c, now),
         NEW x, NEW y
  PROVE  Before(n, x, y) <=> Before(s, x, y) \/ (x \in Waiting(s) /\ y = c)
<1> DEFINE q == s.queue
           S == Waiting(s)
<1>1. s \in Snapshot /\ Numbered(q, S)
  BY DEF Sound
<1>2. q \in [Consultants -> QueueRow] /\ S \in SUBSET Consultants
  BY <1>1 DEF Snapshot, Waiting
<1> HIDE DEF q, S
<1>3. \A z \in S : q[z].pos \in Nat /\ q[z].pos <= Cardinality(S)
  BY <1>1, <1>2 DEF Numbered, QueueRow
<1>4. Cardinality(S) \in Nat
  BY <1>2, ConsultantsFinite
<1>5. n.queue[c].pos = Cardinality(S) + 1 /\ \A z \in S : n.queue[z] = q[z]
  BY <1>2 DEF AtEnd, q, S
<1>6. Before(n, x, y) <=> \/ x \in S /\ y \in S /\ q[x].pos < q[y].pos
                          \/ x \in S /\ y = c
  BY <1>3, <1>4, <1>5 DEF Before, S
<1> QED
  BY <1>6 DEF Before, q, S

\* How the tables n a command makes of the loaded tables s relate to them when
\* it moves c to the place "to".
MovesOnly(s, n, c, to) ==
  /\ \A x \in Consultants : x # c => DerivedStatus(n, x) = DerivedStatus(s, x)
  /\ DerivedStatus(n, c) = to
  /\ \A x, y : Before(n, x, y) <=>
       \/ Before(s, x, y) /\ x \in Waiting(n) /\ y \in Waiting(n)
       \/ to = "queue" /\ x \in Waiting(s) /\ y = c

LEMMA LeavingMoves ==
  ASSUME NEW s, Sound(s), NEW n, Sound(n), NEW c \in Consultants, NEW to,
         to # "queue", DerivedStatus(n, c) = to,
         Waiting(n) = Waiting(s) \ {c}, n.queue = Reindexed(s.queue, Waiting(s) \ {c}),
         InService(n) \ {c} = InService(s) \ {c}, Paused(n) \ {c} = Paused(s) \ {c}
  PROVE  MovesOnly(s, n, c, to)
<1>1. \A x \in Consultants : x # c => DerivedStatus(n, x) = DerivedStatus(s, x)
  BY DEF DerivedStatus
<1>2. ASSUME NEW x, NEW y
      PROVE  Before(n, x, y) <=> Before(s, x, y) /\ x \in Waiting(n) /\ y \in Waiting(n)
  <2>1. Before(n, x, y) <=> Before(s, x, y) /\ x # c /\ y # c
    BY LeavingKeepsOrder, Zenon
  <2> QED
    BY <2>1 DEF Before
<1> QED
  BY <1>1, <1>2 DEF MovesOnly

LEMMA JoiningMoves ==
  ASSUME NEW s, Sound(s), NEW n, Sound(n), NEW c \in Consultants, c \notin Waiting(s),
         NEW now \in Time,
         Waiting(n) = Waiting(s) \cup {c}, n.queue = AtEnd(s.queue, Waiting(s), c, now),
         InService(n) \ {c} = InService(s) \ {c}, Paused(n) \ {c} = Paused(s) \ {c}
  PROVE  MovesOnly(s, n, c, "queue")
<1>1. \A x \in Consultants : x # c => DerivedStatus(n, x) = DerivedStatus(s, x)
  BY DEF DerivedStatus
<1>2. DerivedStatus(n, c) = "queue"
  BY PlacesAreLists
<1>3. ASSUME NEW x, NEW y
      PROVE  Before(n, x, y) <=> \/ Before(s, x, y) /\ x \in Waiting(n) /\ y \in Waiting(n)
                                 \/ x \in Waiting(s) /\ y = c
  <2>1. Before(n, x, y) <=> Before(s, x, y) \/ (x \in Waiting(s) /\ y = c)
    BY JoiningKeepsOrder
  <2>2. Before(s, x, y) => x \in Waiting(s) /\ y \in Waiting(s)
    BY DEF Before
  <2>3. Waiting(s) \subseteq Waiting(n)
    BY SetExtensionality
  <2> QED
    BY <2>1, <2>2, <2>3
<1> QED
  BY <1>1, <1>2, <1>3 DEF MovesOnly

\* A command that moves one consultant is a move on the board.
LEMMA MoveOnBoard ==
  ASSUME IInv, IInv', NEW roster \in SUBSET Consultants, NEW now \in Time, NEW c \in roster, NEW to,
         MovesOnly(Normalized(db, roster, now), db', c, to),
         <<DerivedStatus(Normalized(db, roster, now), c), to>> \in Board!Moves,
         to = "service" => Cardinality(InService(Normalized(db, roster, now))) < MaxServices
  PROVE  Board!BoardNext
<1> DEFINE s == Normalized(db, roster, now)
           D == Consultants \ roster
           left == [x \in Consultants |-> IF x \in D THEN "available" ELSE Place[x]]
<1>1. Sound(db) /\ Sound(db') /\ Sound(s) /\ db \in Snapshot
  BY LoadedIsSound DEF IInv, TypeOK, Sound
<1>2. Waiting(s) = Waiting(db) \cap roster
  BY <1>1, NormalizedTables, Zenon
<1>3. InService(s) = InService(db) \cap roster
  BY <1>1, NormalizedTables, Zenon
<1>4. Paused(s) = Paused(db) \cap roster
  BY <1>1, NormalizedTables, Zenon
<1>5. \A x, y : Before(s, x, y) <=> Before(db, x, y) /\ x \in roster /\ y \in roster
  BY <1>1, LoadKeepsOrder
<1>6. MovesOnly(s, db', c, to)
  OBVIOUS
<1> HIDE DEF s
<1>7. left = PlaceOf(s)
  <2>1. \A x \in Consultants : (IF x \in D THEN "available" ELSE Place[x]) = DerivedStatus(s, x)
    BY <1>2, <1>3, <1>4 DEF Place, DerivedStatus
  <2> QED
    BY <2>1 DEF PlaceOf
<1>8. Place' = [left EXCEPT ![c] = to]
  <2>1. \A x \in Consultants : Place'[x] = IF x = c THEN to ELSE DerivedStatus(s, x)
    BY <1>6 DEF Place, MovesOnly
  <2> QED
    BY <1>7, <2>1 DEF Place, PlaceOf
<1>9. Board!InLine(Place') = Waiting(db') /\ Board!InLine(left) = Waiting(s)
  <2>1. Place' = PlaceOf(db')
    BY DEF Place, PlaceOf
  <2> QED
    BY <1>1, <1>7, <2>1, PlacesAreLists DEF Board!InLine
<1>10. {x \in Consultants : left[x] = "service"} = InService(s)
  BY <1>1, <1>7, PlacesAreLists
<1>11. <<left[c], to>> \in Board!Moves
  <2>1. left[c] = DerivedStatus(s, c)
    BY <1>7 DEF PlaceOf
  <2> QED
    BY <2>1 DEF s
<1>12. Ahead' = {pair \in Ahead : pair[1] \in Board!InLine(Place') /\ pair[2] \in Board!InLine(Place')}
                \cup {<<x, c>> : x \in IF to = "queue" THEN Board!InLine(left) ELSE {}}
  <2> DEFINE W == Waiting(db')
             joins == {<<x, c>> : x \in IF to = "queue" THEN Waiting(s) ELSE {}}
  <2>1. Ahead \in SUBSET (Consultants \X Consultants) /\ \A x, y : <<x, y>> \in Ahead <=> Before(db, x, y)
    BY AheadPairs
  <2>2. Ahead' \in SUBSET (Consultants \X Consultants) /\ \A x, y : <<x, y>> \in Ahead' <=> Before(db', x, y)
    <3>1. W \in SUBSET Consultants
      BY DEF Waiting
    <3> QED
      BY <3>1 DEF Ahead, Before
  <2>3. Waiting(s) \in SUBSET Consultants
    BY DEF Waiting
  <2>4. \A x \in W : x \in Waiting(s) \/ x = c
    <3>1. \A x \in W : x \in Consultants /\ DerivedStatus(db', x) = "queue"
      BY <1>1, PlacesAreLists DEF Waiting
    <3> QED
      BY <1>1, <1>6, <3>1, PlacesAreLists DEF MovesOnly
  <2>5. ASSUME NEW x, NEW y
        PROVE  <<x, y>> \in Ahead' <=>
                 \/ <<x, y>> \in Ahead /\ x \in W /\ y \in W
                 \/ <<x, y>> \in joins
    <3>1. <<x, y>> \in joins <=> to = "queue" /\ x \in Waiting(s) /\ y = c
      OBVIOUS
    <3>2. Before(db', x, y) <=> \/ Before(s, x, y) /\ x \in W /\ y \in W
                                \/ to = "queue" /\ x \in Waiting(s) /\ y = c
      BY <1>6 DEF MovesOnly
    <3>3. Before(db, x, y) /\ x \in W /\ y \in W => x \in roster /\ y \in roster
      BY <1>2, <2>4
    <3> QED
      BY <1>5, <2>1, <2>2, <3>1, <3>2, <3>3
  <2> QED
    BY <1>9, <2>1, <2>2, <2>3, <2>5
<1>13. Board!Move(c, to, D)
  <2>1. c \notin D
    OBVIOUS
  <2>2. to = "service" => Cardinality({x \in Consultants : left[x] = "service"}) < MaxServices
    BY <1>10 DEF s
  <2>3. \A S : Board!Cardinality(S) = Cardinality(S)
    BY DEF Board!Cardinality, Cardinality
  <2> HIDE DEF D
  <2> QED
    BY <1>8, <1>11, <1>12, <2>1, <2>2, <2>3 DEF Board!Move
<1>14. Place' # Place
  <2>1. left[c] # to
    BY <1>11 DEF Board!Moves
  <2>2. left[c] = Place[c]
    BY DEF D
  <2>3. Place'[c] = to
    BY <1>8 DEF Place
  <2> QED
    BY <2>1, <2>2, <2>3
<1> QED
  BY <1>13, <1>14 DEF Board!BoardNext, Board!Moves, Board!Places

LEMMA InitOnBoard == Init => Board!BoardInit
<1> SUFFICES ASSUME Init PROVE Board!BoardInit
  OBVIOUS
<1>1. Waiting(db) = {} /\ InService(db) = {} /\ Paused(db) = {}
  BY DEF Init, EmptyStore, Waiting, InService, Paused, NoEntry, NoService
<1>2. Place = [c \in Consultants |-> "available"]
  BY <1>1 DEF Place, DerivedStatus
<1>3. Ahead = {}
  BY <1>1 DEF Ahead
<1> QED
  BY <1>2, <1>3 DEF Board!BoardInit

LEMMA CommandOnBoard ==
  ASSUME IInv, NEW roster \in SUBSET Consultants, NEW now \in Time \ {0}, NEW c \in Consultants,
         Command(c, roster, now)
  PROVE  Board!BoardNext
<1> DEFINE s == Normalized(db, roster, now)
<1>1. now \in Time
  OBVIOUS
<1>2. Sound(s) /\ s \in Snapshot
  BY <1>1, LoadedIsSound DEF Sound
<1>3. IInv' /\ Sound(db')
  BY CommandIsSound DEF IInv
<1>4. ASSUME NEW to, c \in roster, MovesOnly(s, db', c, to), <<DerivedStatus(s, c), to>> \in Board!Moves,
             to = "service" => Cardinality(InService(s)) < MaxServices
      PROVE  Board!BoardNext
  BY <1>1, <1>3, <1>4, MoveOnBoard
<1> HIDE DEF s
<1>5. CASE AddToQueue(s, c, roster, now)
  <2>1. /\ c \in roster /\ c \notin Waiting(s) /\ c \notin InService(s) /\ c \notin Paused(s)
        /\ db' = Queued(s, c, now)
    BY <1>5 DEF AddToQueue, CanQueue, Persist
  <2>2. /\ Waiting(db') = Waiting(s) \cup {c} /\ InService(db') = InService(s) /\ Paused(db') = Paused(s)
        /\ db'.queue = AtEnd(s.queue, Waiting(s), c, now)
    BY <1>1, <1>2, <2>1, QueuedTables
  <2>3. MovesOnly(s, db', c, "queue")
    BY <1>1, <1>2, <1>3, <2>1, <2>2, JoiningMoves
  <2>4. DerivedStatus(s, c) = "available"
    BY <2>1 DEF DerivedStatus
  <2> QED
    BY <1>4, <2>1, <2>3, <2>4 DEF Board!Moves
<1>6. CASE PauseLike(s, c, roster, now)
  <2>1. /\ c \in roster /\ c \notin InService(s) /\ c \notin Paused(s)
        /\ db' = PausedNow(s, c, now)
    BY <1>6 DEF PauseLike, CanPause, Persist
  <2>2. /\ Waiting(db') = Waiting(s) \ {c} /\ InService(db') = InService(s)
        /\ Paused(db') = Paused(s) \cup {c}
        /\ db'.queue = Reindexed(s.queue, Waiting(s) \ {c})
    BY <1>2, <2>1, PausedNowTables
  <2>3. DerivedStatus(db', c) = "paused"
    BY <1>3, <2>2, PlacesAreLists
  <2>4. MovesOnly(s, db', c, "paused")
    BY <1>2, <1>3, <2>2, <2>3, LeavingMoves
  <2>5. DerivedStatus(s, c) \in {"available", "queue"}
    BY <2>1 DEF DerivedStatus
  <2> QED
    BY <1>4, <2>1, <2>4, <2>5 DEF Board!Moves
<1>7. CASE Resume(s, c, roster, now)
  <2>1. /\ c \in roster /\ c \in Paused(s) /\ db' = Resumed(s, c, now)
    BY <1>7 DEF Resume, CanResume, Persist
  <2>2. c \notin Waiting(s) /\ c \notin InService(s)
    BY <1>2, <2>1 DEF Sound
  <2>3. /\ Waiting(db') = Waiting(s) \cup {c} /\ InService(db') = InService(s)
        /\ Paused(db') = Paused(s) \ {c}
        /\ db'.queue = AtEnd(s.queue, Waiting(s), c, now)
    BY <1>1, <1>2, <2>1, <2>2, ResumedTables
  <2>4. MovesOnly(s, db', c, "queue")
    BY <1>1, <1>2, <1>3, <2>2, <2>3, JoiningMoves
  <2>5. DerivedStatus(s, c) = "paused"
    BY <2>1, <2>2 DEF DerivedStatus
  <2> QED
    BY <1>4, <2>1, <2>4, <2>5 DEF Board!Moves
<1>8. CASE Start(s, c, roster, now)
  <2>1. PICK id \in Ids \ started : db' = Started(s, c, id, now)
    BY <1>8 DEF Start, Persist
  <2>2. /\ c \in roster /\ c \in Waiting(s) /\ c \notin InService(s)
        /\ Cardinality(InService(s)) < MaxServices
    BY <1>8 DEF Start, CanStart
  <2>3. id \in Ids
    OBVIOUS
  <2>4. Waiting(db') = Waiting(s) \ {c}
    BY <1>1, <1>2, <2>1, <2>3, StartedTables, Zenon
  <2>5. InService(db') = InService(s) \cup {c}
    BY <1>1, <1>2, <2>1, <2>3, StartedTables, Zenon
  <2>6. /\ Paused(db') = Paused(s) /\ db'.queue = Reindexed(s.queue, Waiting(s) \ {c})
    BY <2>1 DEF Started, Paused
  <2>7. DerivedStatus(db', c) = "service"
    BY <2>5 DEF DerivedStatus
  <2>8. MovesOnly(s, db', c, "service")
    BY <1>2, <1>3, <2>4, <2>5, <2>6, <2>7, LeavingMoves
  <2>9. DerivedStatus(s, c) = "queue"
    BY <2>2 DEF DerivedStatus
  <2> QED
    BY <1>4, <2>2, <2>8, <2>9 DEF Board!Moves
<1>9. CASE Finish(s, c, roster, now)
  <2>1. /\ c \in roster /\ c \in InService(s) /\ c \notin Waiting(s)
        /\ db' = Finished(s, c, now)
    BY <1>9 DEF Finish, CanFinish, Persist
  <2>2. /\ Waiting(db') = Waiting(s) \cup {c} /\ InService(db') = InService(s) \ {c}
        /\ Paused(db') = Paused(s)
        /\ db'.queue = AtEnd(s.queue, Waiting(s), c, now)
    BY <1>1, <1>2, <2>1, FinishedTables
  <2>3. MovesOnly(s, db', c, "queue")
    BY <1>1, <1>2, <1>3, <2>1, <2>2, JoiningMoves
  <2>4. DerivedStatus(s, c) = "service"
    BY <2>1 DEF DerivedStatus
  <2> QED
    BY <1>4, <2>1, <2>3, <2>4 DEF Board!Moves
<1> QED
  BY <1>5, <1>6, <1>7, <1>8, <1>9 DEF Command, s

LEMMA StepOnBoard == IInv /\ [Next]_vars => [Board!BoardNext]_(Board!boardVars)
<1>1. ASSUME IInv, Next PROVE Board!BoardNext
  <2>1. PICK c \in Consultants, roster \in SUBSET Consultants :
          clock < MaxTime /\ Command(c, roster, clock + 1)
    BY <1>1 DEF Next
  <2>2. clock + 1 \in Time \ {0}
    BY <1>1, <2>1, SnapshotAssumption DEF IInv, TypeOK, Time, SnapshotAssumption
  <2> QED
    BY <1>1, <2>1, <2>2, CommandOnBoard
<1>2. ASSUME UNCHANGED vars PROVE UNCHANGED Board!boardVars
  BY <1>2 DEF vars, Board!boardVars, Place, Ahead, Waiting, DerivedStatus, InService, Paused
<1> QED
  BY <1>1, <1>2

\* The commands implement the promise of FilaBoard: whatever rosters they find,
\* each moves one consultant along an allowed way, within the limit, and leaves
\* the order of the others in the line alone.
THEOREM CommandsImplementBoard == Spec => ImplementsBoard
<1> QED
  BY InitOnBoard, StepOnBoard, Soundness, PTL DEF Spec, ImplementsBoard, Board!BoardSpec

-----------------------------------------------------------------------------
(* Requests that do not overlap *)

\* One request of the store is served at a time.
NoOverlap == \A x, y \in Busy : x = y

RecordOf(q, fields) == q = [f \in fields |-> q[f]]
RequestFields == {"pc", "cmd", "who", "roster", "k", "snap", "next", "last", "append",
                  "close", "id", "now", "del", "ins", "seen"}
TableNames == {"queue", "active", "paused", "status"}

\* A request that was accepted, whatever it has done since.
Asked(q) ==
  /\ RecordOf(q, RequestFields) /\ RecordOf(q.snap, TableNames) /\ RecordOf(q.del, TableNames)
  /\ clock < MaxTime
  /\ q.cmd \in {"queue", "pause", "resume", "start", "finish"}
  /\ q.who \in Consultants /\ q.roster \in SUBSET Consultants

\* What it is about to store is what its command makes of the tables s.
Plans(q, s) ==
  /\ Allowed(q, s)
  /\ q.now = clock + 1
  /\ q.id \in IF q.cmd = "start" THEN Ids \ started ELSE {0}
  /\ q.next = Result(q, s, q.id, q.now)
  /\ q.append = <<ClosedSession(s, q.who, q.now)>>
  /\ q.close = IF q.cmd = "finish" THEN {s.active[q.who].id} ELSE {}

Read(q, n)     == \A i \in 1 .. n : q.snap[Tables[i]] = db[Tables[i]]
Replaced(q, n) == \A i \in 1 .. n : q.del[Tables[i]] = Rows(db, Tables[i])

\* How far the only request is.
Loading(q) ==
  /\ q.id = 0
  /\ \/ q.pc = "roster" /\ q.k = 1
     \/ q.pc = "load" /\ q.k \in 1 .. 4 /\ Read(q, q.k - 1)
     \/ q.pc \in {"sessions", "apply"} /\ q.k = 1 /\ q.snap = db

Storing(q) ==
  /\ Plans(q, Normalized(db, q.roster, clock + 1))
  /\ \/ q.pc = "delete" /\ q.k \in 1 .. 4 /\ Replaced(q, q.k - 1)
     \/ q.pc = "insert" /\ q.k \in 1 .. 4 /\ Replaced(q, q.k - 1) /\ q.seen = Rows(db, Tables[q.k])
     \/ q.pc = "commit" /\ Replaced(q, 4)

Working(q) == Asked(q) /\ (Loading(q) \/ Storing(q))

Served == rq = [x \in Requests |-> rq[x]] /\ \A r \in Requests : rq[r] = Idle \/ Working(rq[r])

LEMMA TableOrder ==
  /\ Len(Tables) = 4 /\ Tables[1] = "queue" /\ Tables[2] = "active"
  /\ Tables[3] = "paused" /\ Tables[4] = "status"
  /\ \A t \in TableNames : \E i \in 1 .. 4 : t = Tables[i]
  /\ \A i \in 1 .. 4 : Tables[i] \in TableNames
BY DEF Tables, TableNames

LEMMA StoreIsRecord ==
  /\ RecordOf(EmptyStore, TableNames)
  /\ \A s \in Snapshot : RecordOf(s, TableNames)
BY DEF RecordOf, TableNames, EmptyStore, Snapshot

\* Tables that agree one by one are the same.
LEMMA SameTables ==
  ASSUME NEW s, NEW u, RecordOf(s, TableNames), RecordOf(u, TableNames),
         \A i \in 1 .. 4 : s[Tables[i]] = u[Tables[i]]
  PROVE  s = u
<1>1. \A t \in TableNames : s[t] = u[t]
  BY TableOrder
<1> QED
  BY <1>1 DEF RecordOf

LEMMA IdleIsRecord ==
  /\ RecordOf(Idle, RequestFields) /\ RecordOf(Idle.snap, TableNames) /\ RecordOf(Idle.del, TableNames)
  /\ Idle.pc = "idle" /\ Idle.id = 0 /\ Idle.seen = {} /\ Idle.k = 1 /\ Idle.roster = {}
BY StoreIsRecord DEF Idle, RecordOf, RequestFields, TableNames

LEMMA WorkingIsBusy ==
  ASSUME NEW q, Working(q)
  PROVE  q.pc \in {"roster", "load", "sessions", "apply", "delete", "insert", "commit"}
BY DEF Working, Loading, Storing

LEMMA Received ==
  ASSUME NEW cmd \in Commands, NEW c \in Consultants, clock < MaxTime
  PROVE  Working([Idle EXCEPT !.pc = "roster", !.cmd = cmd, !.who = c])
<1> DEFINE to == [Idle EXCEPT !.pc = "roster", !.cmd = cmd, !.who = c]
<1>1. /\ to.pc = "roster" /\ to.cmd = cmd /\ to.who = c /\ to.roster = {} /\ to.k = 1 /\ to.id = 0
      /\ to.snap = Idle.snap /\ to.del = Idle.del /\ RecordOf(to, RequestFields)
  BY IdleIsRecord DEF RecordOf, RequestFields
<1>2. cmd \in {"queue", "pause", "resume", "start", "finish"}
  BY RequestsAssumption DEF RequestsAssumption
<1> HIDE DEF to
<1>3. Working(to)
  BY <1>1, <1>2, IdleIsRecord DEF Working, Asked, Loading
<1> QED
  BY <1>3 DEF to

\* A change that leaves the command and its plan alone.
LEMMA StillPlans ==
  ASSUME NEW q, NEW s, Plans(q, s), NEW to, to.cmd = q.cmd, to.who = q.who, to.roster = q.roster,
         to.now = q.now, to.id = q.id, to.next = q.next, to.append = q.append, to.close = q.close
  PROVE  Plans(to, s)
BY DEF Plans, Allowed, Result

LEMMA RosterRead ==
  ASSUME NEW q, Working(q), q.pc = "roster", NEW roster \in Rosters
  PROVE  Working([q EXCEPT !.pc = "load", !.roster = roster])
<1> DEFINE to == [q EXCEPT !.pc = "load", !.roster = roster]
<1>0. Asked(q) /\ q.id = 0 /\ q.k = 1
  BY DEF Working, Loading, Storing
<1>1. /\ to.pc = "load" /\ to.cmd = q.cmd /\ to.who = q.who /\ to.roster = roster /\ to.k = 1
      /\ to.id = 0 /\ to.snap = q.snap /\ to.del = q.del /\ RecordOf(to, RequestFields)
  BY <1>0 DEF Asked, RecordOf, RequestFields
<1>2. roster \in SUBSET Consultants
  BY RequestsAssumption DEF RequestsAssumption
<1> HIDE DEF to
<1>3. Asked(to)
  BY <1>0, <1>1, <1>2 DEF Asked
<1>4. Loading(to)
  BY <1>1 DEF Loading, Read
<1> QED
  BY <1>3, <1>4 DEF Working, to

LEMMA TableRead ==
  ASSUME NEW q, Working(q), q.pc = "load", db \in Snapshot
  PROVE  Working([q EXCEPT !.snap[Tables[q.k]] = db[Tables[q.k]],
                     !.k = IF @ = Len(Tables) THEN 1 ELSE @ + 1,
                     !.pc = IF q.k = Len(Tables) THEN "sessions" ELSE "load"])
<1> DEFINE to == [q EXCEPT !.snap[Tables[q.k]] = db[Tables[q.k]],
                     !.k = IF @ = Len(Tables) THEN 1 ELSE @ + 1,
                     !.pc = IF q.k = Len(Tables) THEN "sessions" ELSE "load"]
           t == Tables[q.k]
<1>0. Asked(q) /\ q.id = 0 /\ q.k \in 1 .. 4 /\ Read(q, q.k - 1)
  BY DEF Working, Loading, Storing
<1>1. /\ to.pc = IF q.k = 4 THEN "sessions" ELSE "load"
      /\ to.k = IF q.k = 4 THEN 1 ELSE q.k + 1
      /\ to.snap = [q.snap EXCEPT ![t] = db[t]]
      /\ to.cmd = q.cmd /\ to.who = q.who /\ to.roster = q.roster /\ to.id = q.id /\ to.del = q.del
      /\ RecordOf(to, RequestFields)
  BY <1>0, TableOrder DEF Asked, RecordOf, RequestFields
<1> HIDE DEF to
<1>2. RecordOf(to.snap, TableNames)
  BY <1>0, <1>1 DEF Asked, RecordOf
<1>3. Asked(to)
  BY <1>0, <1>1, <1>2 DEF Asked
<1>4. Read(to, q.k)
  <2> SUFFICES ASSUME NEW i \in 1 .. q.k PROVE to.snap[Tables[i]] = db[Tables[i]]
    BY DEF Read
  <2>1. CASE i = q.k
    BY <2>1, <1>0, <1>1, TableOrder DEF Asked, RecordOf
  <2>2. CASE i # q.k
    <3>1. i \in 1 .. q.k - 1 /\ Tables[i] # t /\ Tables[i] \in TableNames
      BY <2>2, <1>0, TableOrder
    <3> QED
      BY <3>1, <1>0, <1>1 DEF Asked, RecordOf, Read
  <2> QED
    BY <2>1, <2>2
<1>5. CASE q.k = 4
  <2>1. to.snap = db
    BY <1>2, <1>4, <1>5, StoreIsRecord, SameTables DEF Read
  <2> QED
    BY <2>1, <1>0, <1>1, <1>3, <1>5 DEF Working, Loading, to
<1>6. CASE q.k # 4
  <2>1. Loading(to)
    BY <1>0, <1>1, <1>4, <1>6 DEF Loading, Read
  <2> QED
    BY <2>1, <1>3 DEF Working, to
<1> QED
  BY <1>5, <1>6

LEMMA SessionsRead ==
  ASSUME NEW q, Working(q), q.pc = "sessions", NEW log
  PROVE  Working([q EXCEPT !.pc = "apply", !.last = log])
<1> DEFINE to == [q EXCEPT !.pc = "apply", !.last = log]
<1>0. Asked(q) /\ q.id = 0 /\ q.k = 1 /\ q.snap = db
  BY DEF Working, Loading, Storing
<1>1. /\ to.pc = "apply" /\ to.cmd = q.cmd /\ to.who = q.who /\ to.roster = q.roster /\ to.k = 1
      /\ to.id = 0 /\ to.snap = q.snap /\ to.del = q.del /\ RecordOf(to, RequestFields)
  BY <1>0 DEF Asked, RecordOf, RequestFields
<1> HIDE DEF to
<1>2. Asked(to) /\ Loading(to)
  BY <1>0, <1>1 DEF Asked, Loading
<1> QED
  BY <1>2 DEF Working, to

\* An allowed command leads to typed tables, and changes the status of its
\* consultant: it closes a session of its own and never appends the last one loaded.
LEMMA AllowedMoves ==
  ASSUME LogInv, NEW q, Asked(q), NEW id, q.cmd = "start" => id \in Ids,
         Allowed(q, Normalized(db, q.roster, clock + 1))
  PROVE  LET s == Normalized(db, q.roster, clock + 1)
             next == Result(q, s, id, clock + 1)
         IN  next \in Snapshot /\ next.status[q.who] # s.status[q.who]
<1> DEFINE now == clock + 1
           s == Normalized(db, q.roster, now)
           c == q.who
<1>1. /\ IInv /\ Summarizes(db) /\ db \in Snapshot /\ clock \in Time
      /\ now \in Time /\ now # 0 /\ c \in Consultants /\ q.roster \in SUBSET Consultants
  BY SnapshotAssumption DEF LogInv, IInv, TypeOK, Asked, Time, SnapshotAssumption
<1>2. Sound(s) /\ s \in Snapshot
  BY <1>1, LoadedIsSound DEF Sound
<1>3. Summarizes(s)
  BY <1>1, LoadedStatus
<1> HIDE DEF s, now
<1>4. ASSUME NEW next, Summed(s, next, c, now)
      PROVE  next.status[c] # s.status[c]
  BY <1>4 DEF Summed
<1>10. (c \notin Waiting(s) /\ c \notin InService(s)) \/ c \notin Paused(s)
  BY <1>2 DEF Sound
<1>5. CASE q.cmd = "queue"
  <2>1. CanQueue(s, q.roster, c)
    BY <1>5 DEF Allowed, s, now
  <2>2. Result(q, s, id, now) = Queued(s, c, now)
    BY <1>5 DEF Result
  <2>3. Summed(s, Queued(s, c, now), c, now)
    BY <1>1, <1>2, <1>3, <2>1, QueuedSummary, Zenon
  <2>4. Queued(s, c, now) \in Snapshot
    BY <1>1, <1>2, QueuedTables
  <2> QED
    BY <1>4, <2>2, <2>3, <2>4 DEF s, now
<1>6. CASE q.cmd = "pause"
  <2>1. CanPause(s, q.roster, c)
    BY <1>6 DEF Allowed, s, now
  <2>2. Result(q, s, id, now) = PausedNow(s, c, now)
    BY <1>6 DEF Result
  <2>3. Summed(s, PausedNow(s, c, now), c, now)
    BY <1>1, <1>2, <1>3, <2>1, PausedSummary
  <2>4. PausedNow(s, c, now) \in Snapshot
    BY <1>1, <1>2, PausedNowTables
  <2> QED
    BY <1>4, <2>2, <2>3, <2>4 DEF s, now
<1>7. CASE q.cmd = "resume"
  <2>1. CanResume(s, q.roster, c)
    BY <1>7 DEF Allowed, s, now
  <2>2. Result(q, s, id, now) = Resumed(s, c, now)
    BY <1>7 DEF Result
  <2>3. Summed(s, Resumed(s, c, now), c, now)
    BY <1>1, <1>2, <1>3, <2>1, ResumedSummary, Zenon
  <2>4. Resumed(s, c, now) \in Snapshot
    BY <1>1, <1>2, <1>10, ResumedTables, <2>1 DEF CanResume
  <2> QED
    BY <1>4, <2>2, <2>3, <2>4 DEF s, now
<1>8. CASE q.cmd = "start"
  <2>1. CanStart(s, q.roster, c)
    BY <1>8 DEF Allowed, s, now
  <2>2. Result(q, s, id, now) = Started(s, c, id, now)
    BY <1>8 DEF Result
  <2>3. Summed(s, Started(s, c, id, now), c, now)
    BY <1>1, <1>2, <1>3, <1>8, <2>1, StartedSummary, Zenon
  <2>4. Started(s, c, id, now) \in Snapshot
    BY <1>1, <1>2, <1>8, StartedTables
  <2> QED
    BY <1>4, <2>2, <2>3, <2>4 DEF s, now
<1>9. CASE q.cmd = "finish"
  <2>1. CanFinish(s, q.roster, c)
    BY <1>9 DEF Allowed, s, now
  <2>2. Result(q, s, id, now) = Finished(s, c, now)
    BY <1>9 DEF Result
  <2>3. Summed(s, Finished(s, c, now), c, now)
    BY <1>1, <1>2, <1>3, <2>1, FinishedSummary, Zenon
  <2>4. Finished(s, c, now) \in Snapshot
    BY <1>1, <1>2, FinishedTables
  <2> QED
    BY <1>4, <2>2, <2>3, <2>4 DEF s, now
<1> QED
  BY <1>5, <1>6, <1>7, <1>8, <1>9 DEF Asked

LEMMA Planned ==
  ASSUME LogInv, NEW q, Working(q), q.pc = "apply", NEW id \in IF q.cmd = "start" THEN Ids \ started ELSE {0},
         Allowed(q, Normalized(q.snap, q.roster, clock + 1))
  PROVE  LET now  == clock + 1
             s    == Normalized(q.snap, q.roster, now)
             next == Result(q, s, id, now)
         IN  Working([q EXCEPT !.pc = "delete", !.next = next, !.id = id, !.now = now,
                       !.append = IF next.status[q.who] = s.status[q.who] THEN q.last
                                  ELSE <<ClosedSession(s, q.who, now)>>,
                       !.close = IF q.cmd = "finish" THEN {s.active[q.who].id} ELSE {}])
<1> DEFINE now  == clock + 1
           s    == Normalized(q.snap, q.roster, now)
           next == Result(q, s, id, now)
           log  == IF next.status[q.who] = s.status[q.who] THEN q.last
                   ELSE <<ClosedSession(s, q.who, now)>>
           done == IF q.cmd = "finish" THEN {s.active[q.who].id} ELSE {}
           to   == [q EXCEPT !.pc = "delete", !.next = next, !.id = id, !.now = now,
                       !.append = log, !.close = done]
<1>0. Asked(q) /\ q.k = 1 /\ q.snap = db
  BY DEF Working, Loading, Storing
<1>1. log = <<ClosedSession(s, q.who, now)>>
  BY <1>0, AllowedMoves
<1> HIDE DEF log, next, s, done
<1>2. /\ to.pc = "delete" /\ to.cmd = q.cmd /\ to.who = q.who /\ to.roster = q.roster /\ to.k = 1
      /\ to.id = id /\ to.snap = q.snap /\ to.del = q.del /\ to.next = next /\ to.now = now
      /\ to.append = log /\ to.close = done /\ RecordOf(to, RequestFields)
  BY <1>0 DEF Asked, RecordOf, RequestFields
<1> HIDE DEF to
<1>3. Asked(to)
  BY <1>0, <1>2 DEF Asked
<1>4. Allowed(to, s) /\ Result(to, s, id, now) = next
  BY <1>2 DEF Allowed, Result, s, next
<1>5. Plans(to, s)
  BY <1>1, <1>2, <1>4 DEF Plans, done
<1>6. Storing(to)
  BY <1>0, <1>2, <1>5 DEF Storing, Replaced, s
<1> QED
  BY <1>3, <1>6 DEF Working, to, log, next, s, done

\* The DELETE and the INSERTs of one table after the other.
LEMMA RowsDeleted ==
  ASSUME NEW q, Working(q), q.pc = "delete", NEW rows
  PROVE  Working([q EXCEPT !.pc = "insert", !.seen = Rows(db, Tables[q.k]), !.del[Tables[q.k]] = rows])
<1> DEFINE t  == Tables[q.k]
           to == [q EXCEPT !.pc = "insert", !.seen = Rows(db, t), !.del[t] = rows]
<1>0. Asked(q) /\ q.k \in 1 .. 4 /\ Replaced(q, q.k - 1) /\ Plans(q, Normalized(db, q.roster, clock + 1))
  BY DEF Working, Loading, Storing
<1>1. /\ to.pc = "insert" /\ to.cmd = q.cmd /\ to.who = q.who /\ to.roster = q.roster /\ to.k = q.k
      /\ to.id = q.id /\ to.snap = q.snap /\ to.next = q.next /\ to.now = q.now
      /\ to.append = q.append /\ to.close = q.close /\ RecordOf(to, RequestFields)
      /\ to.seen = Rows(db, t) /\ to.del = [q.del EXCEPT ![t] = rows]
  BY <1>0 DEF Asked, RecordOf, RequestFields
<1> HIDE DEF to
<1>2. RecordOf(to.del, TableNames)
  BY <1>0, <1>1 DEF Asked, RecordOf
<1>3. Asked(to)
  BY <1>0, <1>1, <1>2 DEF Asked
<1>4. Replaced(to, q.k - 1)
  <2> SUFFICES ASSUME NEW i \in 1 .. q.k - 1 PROVE to.del[Tables[i]] = Rows(db, Tables[i])
    BY DEF Replaced
  <2>1. Tables[i] # t /\ Tables[i] \in TableNames
    BY <1>0, TableOrder
  <2> QED
    BY <2>1, <1>0, <1>1 DEF Asked, RecordOf, Replaced
<1>5. Plans(to, Normalized(db, q.roster, clock + 1))
  BY <1>0, <1>1, StillPlans
<1>6. Storing(to)
  BY <1>0, <1>1, <1>4, <1>5 DEF Storing
<1> QED
  BY <1>3, <1>6 DEF Working, to

LEMMA RowsInserted ==
  ASSUME NEW q, Working(q), q.pc = "insert"
  PROVE  Working([q EXCEPT !.del[Tables[q.k]] = q.seen, !.ins = @ \cup {Tables[q.k]}, !.seen = {},
                     !.k = IF @ = Len(Tables) THEN 1 ELSE @ + 1,
                     !.pc = IF q.k = Len(Tables) THEN "commit" ELSE "delete"])
<1> DEFINE t  == Tables[q.k]
           to == [q EXCEPT !.del[t] = q.seen, !.ins = @ \cup {t}, !.seen = {},
                     !.k = IF @ = Len(Tables) THEN 1 ELSE @ + 1,
                     !.pc = IF q.k = Len(Tables) THEN "commit" ELSE "delete"]
<1>0. /\ Asked(q) /\ q.k \in 1 .. 4 /\ Replaced(q, q.k - 1) /\ q.seen = Rows(db, t)
      /\ Plans(q, Normalized(db, q.roster, clock + 1))
  BY DEF Working, Loading, Storing
<1>1. /\ to.pc = IF q.k = 4 THEN "commit" ELSE "delete"
      /\ to.k = IF q.k = 4 THEN 1 ELSE q.k + 1
      /\ to.cmd = q.cmd /\ to.who = q.who /\ to.roster = q.roster
      /\ to.id = q.id /\ to.snap = q.snap /\ to.next = q.next /\ to.now = q.now
      /\ to.append = q.append /\ to.close = q.close /\ RecordOf(to, RequestFields)
      /\ to.del = [q.del EXCEPT ![t] = q.seen]
  BY <1>0, TableOrder DEF Asked, RecordOf, RequestFields
<1> HIDE DEF to
<1>2. RecordOf(to.del, TableNames)
  BY <1>0, <1>1 DEF Asked, RecordOf
<1>3. Asked(to)
  BY <1>0, <1>1, <1>2 DEF Asked
<1>4. Replaced(to, q.k)
  <2> SUFFICES ASSUME NEW i \in 1 .. q.k PROVE to.del[Tables[i]] = Rows(db, Tables[i])
    BY DEF Replaced
  <2>1. CASE i = q.k
    BY <2>1, <1>0, <1>1, TableOrder DEF Asked, RecordOf
  <2>2. CASE i # q.k
    <3>1. i \in 1 .. q.k - 1 /\ Tables[i] # t /\ Tables[i] \in TableNames
      BY <2>2, <1>0, TableOrder
    <3> QED
      BY <3>1, <1>0, <1>1 DEF Asked, RecordOf, Replaced
  <2> QED
    BY <2>1, <2>2
<1>5. Plans(to, Normalized(db, q.roster, clock + 1))
  BY <1>0, <1>1, StillPlans
<1>6. Storing(to)
  BY <1>0, <1>1, <1>4, <1>5 DEF Storing
<1> QED
  BY <1>3, <1>6 DEF Working, to

\* What the transaction leaves in a table: the rows it deleted are all there were.
LEMMA MergedTable ==
  ASSUME NEW r \in Requests, NEW t, NEW row, rq[r].next[t] = [c \in Consultants |-> row[c]],
         rq[r].del[t] = Rows(db, t)
  PROVE  Merged(r, t) = rq[r].next[t]
BY DEF Merged, Rows

LEMMA MergedIsNext ==
  ASSUME NEW r \in Requests, Replaced(rq[r], 4), rq[r].next \in Snapshot, db \in Snapshot
  PROVE  [t \in DOMAIN db |-> Merged(r, t)] = rq[r].next
<1> DEFINE n == rq[r].next
<1>1. \A t \in TableNames : rq[r].del[t] = Rows(db, t)
  BY TableOrder DEF Replaced
<1>2. \A t \in TableNames : n[t] = [c \in Consultants |-> n[t][c]]
  BY DEF Snapshot, TableNames
<1>3. \A t \in TableNames : Merged(r, t) = n[t]
  BY <1>1, <1>2, MergedTable
<1>4. DOMAIN db = TableNames
  BY DEF Snapshot, TableNames
<1> QED
  BY <1>3, <1>4, StoreIsRecord DEF RecordOf

\* The transaction of the only request is its command, as one step.
LEMMA CommitIsCommand ==
  ASSUME LogInv, NEW r \in Requests, Working(rq[r]), Commit(r)
  PROVE  Next
<1> DEFINE q   == rq[r]
           c   == q.who
           now == clock + 1
           s   == Normalized(db, q.roster, now)
<1>1. /\ Asked(q) /\ Plans(q, s) /\ Replaced(q, 4)
  BY DEF Commit, Working, Loading, Storing
<1>2. /\ db \in Snapshot /\ sessions \in Seq(Session) /\ clock \in Nat
      /\ c \in Consultants /\ q.roster \in SUBSET Consultants /\ clock < MaxTime
  BY <1>1 DEF LogInv, IInv, TypeOK, Time, Asked
<1>3. q.next \in Snapshot /\ q.next.status[c] # s.status[c]
  BY <1>1, AllowedMoves DEF Plans
<1>4. db' = q.next
  BY <1>1, <1>2, <1>3, MergedIsNext DEF Commit
<1>5. sessions' = Append(sessions, ClosedSession(s, c, now))
  BY <1>1, <1>2 DEF Plans, Commit
<1>6. Persist(s, q.next, q.roster, c, now) /\ clock' = now
  BY <1>1, <1>2, <1>3, <1>4, <1>5 DEF Persist, Plans, Commit
<1>7. /\ history' = history \cup q.close /\ started' = started \cup ({q.id} \ {0})
      /\ q.next = Result(q, s, q.id, now) /\ Allowed(q, s)
      /\ q.id \in IF q.cmd = "start" THEN Ids \ started ELSE {0}
      /\ q.close = IF q.cmd = "finish" THEN {s.active[c].id} ELSE {}
  BY <1>1 DEF Plans, Commit
<1> HIDE DEF s, now
<1>8. ASSUME q.cmd = "queue" PROVE AddToQueue(s, c, q.roster, now)
  <2>1. CanQueue(s, q.roster, c) /\ q.next = Queued(s, c, now)
    BY <1>7, <1>8 DEF Allowed, Result
  <2>2. history' = history /\ started' = started
    BY <1>7, <1>8
  <2> QED
    BY <1>6, <2>1, <2>2 DEF AddToQueue
<1>9. ASSUME q.cmd = "pause" PROVE PauseLike(s, c, q.roster, now)
  <2>1. CanPause(s, q.roster, c) /\ q.next = PausedNow(s, c, now)
    BY <1>7, <1>9 DEF Allowed, Result
  <2>2. history' = history /\ started' = started
    BY <1>7, <1>9
  <2> QED
    BY <1>6, <2>1, <2>2 DEF PauseLike
<1>10. ASSUME q.cmd = "resume" PROVE Resume(s, c, q.roster, now)
  <2>1. CanResume(s, q.roster, c) /\ q.next = Resumed(s, c, now)
    BY <1>7, <1>10 DEF Allowed, Result
  <2>2. history' = history /\ started' = started
    BY <1>7, <1>10
  <2> QED
    BY <1>6, <2>1, <2>2 DEF Resume
<1>11. ASSUME q.cmd = "start" PROVE Start(s, c, q.roster, now)
  <2>1. CanStart(s, q.roster, c) /\ q.next = Started(s, c, q.id, now)
    BY <1>7, <1>11 DEF Allowed, Result
  <2>2. started' = started \cup {q.id} /\ q.id \in Ids \ started /\ history' = history
    BY <1>7, <1>11, SnapshotAssumption DEF SnapshotAssumption, Ids
  <2> QED
    BY <1>6, <2>1, <2>2 DEF Start
<1>12. ASSUME q.cmd = "finish" PROVE Finish(s, c, q.roster, now)
  <2>1. CanFinish(s, q.roster, c) /\ q.next = Finished(s, c, now)
    BY <1>7, <1>12 DEF Allowed, Result
  <2>2. history' = history \cup {s.active[c].id} /\ started' = started
    BY <1>7, <1>12
  <2> QED
    BY <1>6, <2>1, <2>2 DEF Finish
<1>13. Command(c, q.roster, now)
  <2>1. q.cmd \in {"queue", "pause", "resume", "start", "finish"}
    BY <1>1 DEF Asked
  <2> QED
    BY <2>1, <1>6, <1>8, <1>9, <1>10, <1>11, <1>12 DEF Command, s
<1> QED
  BY <1>2, <1>13 DEF Next, now

\* Every step of a request that is alone is such a command, or nothing.
RequestsInv == LogInv /\ Served

LEMMA OthersAreIdle ==
  ASSUME Served, NoOverlap, NEW r \in Requests, rq[r] # Idle
  PROVE  Working(rq[r]) /\ \A x \in Requests : x # r => rq[x] = Idle
<1>1. \A x \in Requests : rq[x] # Idle => rq[x].pc # "idle"
  BY WorkingIsBusy DEF Served
<1> QED
  BY <1>1 DEF Served, NoOverlap, Busy

\* A request moves on, or ends, and nothing is stored.
LEMMA OnlyItMoves ==
  ASSUME RequestsInv, NEW r \in Requests, NEW to, to = Idle \/ Working(to),
         rq' = [rq EXCEPT ![r] = to], UNCHANGED vars
  PROVE  RequestsInv'
<1>1. Served'
  <2>1. rq' = [x \in Requests |-> rq'[x]] /\ \A x \in Requests : rq'[x] = IF x = r THEN to ELSE rq[x]
    BY DEF RequestsInv, Served
  <2>2. \A q : Working(q)' <=> Working(q)
    BY DEF vars, Working, Asked, Loading, Storing, Plans, Read, Replaced, Rows
  <2> QED
    BY <2>1, <2>2 DEF RequestsInv, Served
<1>2. LogInv'
  BY StepLogs DEF RequestsInv
<1> QED
  BY <1>1, <1>2 DEF RequestsInv

LEMMA RequestStep ==
  ASSUME RequestsInv, NoOverlap, NoOverlap', NEW r \in Requests,
         \/ \E cmd \in Commands, c \in Consultants : Receive(r, cmd, c)
         \/ Step(r) \/ RequestFails(r)
  PROVE  RequestsInv' /\ [Next]_vars
<1> DEFINE q == rq[r]
<1>0. /\ LogInv /\ Served /\ db \in Snapshot /\ clock \in Nat
      /\ rq = [x \in Requests |-> rq[x]]
  BY DEF RequestsInv, LogInv, IInv, TypeOK, Served, Time
<1>1. q # Idle => Working(q) /\ \A x \in Requests : x # r => rq[x] = Idle
  BY <1>0, OthersAreIdle
<1>2. q.pc # "idle" => q # Idle
  BY IdleIsRecord
<1>3. ASSUME NEW to, to = Idle \/ Working(to), rq' = [rq EXCEPT ![r] = to], UNCHANGED vars
      PROVE  RequestsInv' /\ [Next]_vars
  BY <1>3, OnlyItMoves
<1>4. ASSUME NEW cmd \in Commands, NEW c \in Consultants, Receive(r, cmd, c)
      PROVE  RequestsInv' /\ [Next]_vars
  <2> DEFINE to == [Idle EXCEPT !.pc = "roster", !.cmd = cmd, !.who = c]
  <2>1. rq' = [rq EXCEPT ![r] = to] /\ UNCHANGED vars
    BY <1>4 DEF Receive
  <2>2. to.pc = "roster"
    BY DEF Idle
  <2> HIDE DEF to
  <2>3. \A x \in Requests : rq[x].pc = "idle"
    <3>1. rq[r].pc = "idle" /\ rq'[r].pc # "idle" /\ \A x \in Requests : x # r => rq'[x] = rq[x]
      BY <1>0, <1>4, <2>1, <2>2 DEF Receive
    <3> QED
      BY <3>1 DEF NoOverlap, Busy
  <2>4. Busy = {}
    BY <2>3 DEF Busy
  <2>5. clock < MaxTime
    <3>1. clock + Cardinality(Busy) < MaxTime
      BY <1>4 DEF Receive
    <3> QED
      BY <1>0, <2>4, <3>1, FS_EmptySet
  <2>6. Working(to)
    BY <2>5, Received DEF to
  <2> QED
    BY <1>3, <2>1, <2>6
<1>5. CASE LoadRoster(r)
  <2>1. PICK roster \in Rosters : rq' = [rq EXCEPT ![r].pc = "load", ![r].roster = roster]
    BY <1>5 DEF LoadRoster
  <2> DEFINE to == [q EXCEPT !.pc = "load", !.roster = roster]
  <2>2. rq' = [rq EXCEPT ![r] = to] /\ UNCHANGED vars
    BY <2>1, <1>0, <1>5 DEF LoadRoster
  <2>3. Working(to)
    BY <1>1, <1>2, <1>5, RosterRead DEF LoadRoster
  <2> QED
    BY <1>3, <2>2, <2>3
<1>6. CASE LoadTable(r)
  <2> DEFINE to == [q EXCEPT !.snap[Tables[q.k]] = db[Tables[q.k]],
                     !.k = IF @ = Len(Tables) THEN 1 ELSE @ + 1,
                     !.pc = IF q.k = Len(Tables) THEN "sessions" ELSE "load"]
  <2>1. rq' = [rq EXCEPT ![r] = to] /\ UNCHANGED vars
    BY <1>0, <1>6 DEF LoadTable, Table
  <2>2. Working(to)
    BY <1>0, <1>1, <1>2, <1>6, TableRead DEF LoadTable
  <2> QED
    BY <1>3, <2>1, <2>2
<1>7. CASE LoadSessions(r)
  <2> DEFINE to == [q EXCEPT !.pc = "apply", !.last = LastSession]
  <2>1. rq' = [rq EXCEPT ![r] = to] /\ UNCHANGED vars
    BY <1>0, <1>7 DEF LoadSessions
  <2>2. Working(to)
    BY <1>1, <1>2, <1>7, SessionsRead DEF LoadSessions
  <2> QED
    BY <1>3, <2>1, <2>2
<1>8. CASE Apply(r)
  <2> DEFINE now  == clock + 1
             s    == Normalized(q.snap, q.roster, now)
             id   == IF q.cmd = "start" THEN FreshId ELSE 0
             next == Result(q, s, id, now)
             to   == [q EXCEPT !.pc = "delete", !.next = next, !.id = id, !.now = now,
                        !.append = IF next.status[q.who] = s.status[q.who] THEN q.last
                                   ELSE <<ClosedSession(s, q.who, now)>>,
                        !.close = IF q.cmd = "finish" THEN {s.active[q.who].id} ELSE {}]
  <2>1. CASE Allowed(q, s)
    <3>1. rq' = [rq EXCEPT ![r] = to] /\ UNCHANGED vars
      BY <1>0, <1>8, <2>1 DEF Apply
    <3>2. q.cmd = "start" => FreshId \in FreshIds
      BY <1>8 DEF Apply, FreshId
    <3>3. id \in IF q.cmd = "start" THEN Ids \ started ELSE {0}
      BY <3>2 DEF FreshIds
    <3>4. Working(q) /\ q.pc = "apply"
      BY <1>1, <1>2, <1>8 DEF Apply
    <3> HIDE DEF id
    <3>5. Working(to)
      BY <1>0, <2>1, <3>3, <3>4, Planned
    <3> QED
      BY <1>3, <3>1, <3>5
  <2>2. CASE ~ Allowed(q, s)
    <3>1. rq' = [rq EXCEPT ![r] = Idle] /\ UNCHANGED vars
      BY <1>8, <2>2 DEF Apply
    <3> QED
      BY <1>3, <3>1
  <2> QED
    BY <2>1, <2>2
<1>9. CASE DeleteRows(r)
  <2> DEFINE t    == Tables[q.k]
             rows == Rows(db, t) \ DeletedByOthers(r, t)
             to   == [q EXCEPT !.pc = "insert", !.seen = Rows(db, t), !.del[t] = rows]
  <2>1. rq' = [rq EXCEPT ![r] = to] /\ UNCHANGED vars
    BY <1>0, <1>9 DEF DeleteRows, Table
  <2>2. Working(to)
    BY <1>1, <1>2, <1>9, RowsDeleted DEF DeleteRows
  <2> QED
    BY <1>3, <2>1, <2>2
<1>10. CASE InsertRows(r)
  <2> DEFINE t  == Tables[q.k]
             to == [q EXCEPT !.del[t] = q.seen, !.ins = @ \cup {t}, !.seen = {},
                     !.k = IF @ = Len(Tables) THEN 1 ELSE @ + 1,
                     !.pc = IF q.k = Len(Tables) THEN "commit" ELSE "delete"]
  <2>1. UNCHANGED vars /\ (rq' = [rq EXCEPT ![r] = to] \/ rq' = [rq EXCEPT ![r] = Idle])
    BY <1>0, <1>10 DEF InsertRows, Inserts, Table
  <2>2. Working(to)
    BY <1>1, <1>2, <1>10, RowsInserted DEF InsertRows
  <2> QED
    BY <1>3, <2>1, <2>2
<1>11. CASE DeadlockVictim(r) \/ RequestFails(r)
  BY <1>3, <1>11 DEF DeadlockVictim, RequestFails
<1>12. CASE Commit(r)
  <2>1. Working(q) /\ \A x \in Requests : x # r => rq[x] = Idle
    BY <1>1, <1>2, <1>12 DEF Commit
  <2>2. Next
    BY <1>0, <1>12, <2>1, CommitIsCommand
  <2>3. Served'
    <3>1. \A x \in Requests : [Idle EXCEPT !.seen = @ \ rq[r].del[Table(x)]] = Idle
      BY IdleIsRecord DEF RecordOf, RequestFields
    <3>2. rq' = [x \in Requests |-> Idle]
      BY <1>12, <2>1, <3>1 DEF Commit
    <3> QED
      BY <3>2 DEF Served
  <2> QED
    BY <1>0, <2>2, <2>3, StepLogs DEF RequestsInv
<1> QED
  BY <1>4, <1>5, <1>6, <1>7, <1>8, <1>9, <1>10, <1>11, <1>12 DEF Step

LEMMA InitServed == RequestsInit => RequestsInv
BY InitLog DEF RequestsInit, RequestsInv, Served

\* Requests that do not overlap are the atomic commands: what they store appears
\* at once, as one command makes it, or never.
THEOREM SerialRequestsAreCommands == []NoOverlap /\ RequestsSpec => ImplementsOperations
<1>1. RequestsInit => RequestsInv /\ Init
  BY InitServed DEF RequestsInit
<1>2. RequestsInv /\ NoOverlap /\ NoOverlap' /\ [RequestsNext]_requestVars => RequestsInv' /\ [Next]_vars
  <2> SUFFICES ASSUME RequestsInv, NoOverlap, NoOverlap', [RequestsNext]_requestVars
               PROVE  RequestsInv' /\ [Next]_vars
    OBVIOUS
  <2>1. CASE RequestsNext
    BY <2>1, RequestStep DEF RequestsNext
  <2>2. CASE UNCHANGED requestVars
    <3>1. UNCHANGED vars /\ rq' = rq
      BY <2>2 DEF requestVars
    <3>2. LogInv'
      BY <3>1, StepLogs DEF RequestsInv
    <3>3. \A q : Working(q)' <=> Working(q)
      BY <3>1 DEF vars, Working, Asked, Loading, Storing, Plans, Read, Replaced, Rows
    <3>4. Served'
      BY <3>1, <3>3 DEF RequestsInv, Served
    <3> QED
      BY <3>1, <3>2, <3>4 DEF RequestsInv
  <2> QED
    BY <2>1, <2>2
<1> QED
  BY <1>1, <1>2, PTL DEF RequestsSpec, ImplementsOperations, Spec

\* A server that has room for one request of the store has no other: it needs
\* no hypothesis about the behaviour.
THEOREM OneRequestIsSerial ==
  ASSUME \A x, y \in Requests : x = y
  PROVE  RequestsSpec => ImplementsOperations
<1>1. NoOverlap
  BY DEF NoOverlap, Busy
<1> QED
  BY <1>1, SerialRequestsAreCommands, PTL

\* Requests that do not overlap keep the promise of FilaBoard too, from the
\* first query to the commit: place, limit and the order of the line.
THEOREM SerialRequestsOnBoard == []NoOverlap /\ RequestsSpec => ImplementsBoard
<1> QED
  BY SerialRequestsAreCommands, CommandsImplementBoard, PTL DEF ImplementsOperations

-----------------------------------------------------------------------------
(* The panels of a store follow each other *)

CommandStates == [pc : {"none", "publish", "send", "drop", "again"}, mine : Nat,
                  todo : SUBSET Sockets, at : Sockets \cup {NoSocket}]
Refreshes == [pc : {"none", "asked", "read"}, page : SUBSET Nat, again : BOOLEAN]

\* The values the variables take, as far as a step can tell by itself.
LiveTypes ==
  /\ version \in 0 .. MaxCommits /\ shown \in [Screens -> SUBSET Nat]
  /\ refresh \in [Screens -> Refreshes] /\ quiet \in [Screens -> BOOLEAN]
  /\ command \in [Screens -> CommandStates]
  /\ linked \in [Screens -> Sockets \cup {NoSocket}]
  /\ channel \in [Sockets -> 0 .. BufferSize]
  /\ subscribed \subseteq Sockets /\ closed \subseteq Sockets
  /\ wire \in [Screens -> Nat] /\ missed \in [Screens -> BOOLEAN] /\ lost \in 0 .. MaxLost

\* Nobody shows, reads or runs a command that was not committed.
Committed ==
  \A s \in Screens :
    /\ shown[s] \subseteq Commits /\ refresh[s].page \subseteq Commits
    /\ command[s].mine <= version
    /\ command[s].pc # "none" => command[s].mine # 0

\* The hub's subscribers are the sockets of the screens, one each.
Linked ==
  /\ \A s, x \in Screens : linked[s] = linked[x] => s = x \/ linked[s] = NoSocket
  /\ \A k \in Sockets : k \in subscribed <=> \E s \in Screens : linked[s] = k
  /\ closed \cap subscribed = {}

\* A publisher that makes room in a channel still has that socket to do.
AtIsToDo ==
  \A s \in Screens : command[s].pc \in {"drop", "again"} =>
    command[s].at \in command[s].todo

LiveInv == LiveConstants /\ LiveTypes /\ Committed /\ Linked /\ AtIsToDo

LEMMA LiveTyped == LiveInv => LiveTypeOK
<1> SUFFICES ASSUME LiveInv PROVE LiveTypeOK
  OBVIOUS
<1> USE DEF LiveInv
<1>1. version \in Nat /\ NoSocket \notin Sockets
  BY DEF LiveTypes, LiveConstants
<1>2. shown \in [Screens -> SUBSET Commits]
  BY DEF LiveTypes, Committed
<1>3. refresh \in [Screens -> [pc : {"none", "asked", "read"}, page : SUBSET Commits, again : BOOLEAN]]
  BY DEF LiveTypes, Committed, Refreshes
<1>4. \A s \in Screens : command[s].mine \in 0 .. version
  BY <1>1 DEF LiveTypes, Committed, CommandStates
<1>5. command \in [Screens -> [pc : {"none", "publish", "send", "drop", "again"},
                              mine : 0 .. version, todo : SUBSET Sockets,
                              at : Sockets \cup {NoSocket}]]
  BY <1>4 DEF LiveTypes, CommandStates
<1>6. subscribed = {linked[s] : s \in Screens} \ {NoSocket} /\ closed \subseteq Sockets \ subscribed
  BY <1>1 DEF LiveTypes, Linked
<1> QED
  BY <1>2, <1>3, <1>5, <1>6 DEF LiveTypes, LiveTypeOK

LEMMA MissesType ==
  ASSUME LiveTypes, NEW L, Misses(L)
  PROVE  missed' \in [Screens -> BOOLEAN]
BY DEF LiveTypes, Misses

LEMMA NoneTypes == LiveConstants => NoCommand \in CommandStates /\ NoRefresh \in Refreshes
BY DEF LiveConstants, NoCommand, NoRefresh, CommandStates, Refreshes

LEMMA SentType ==
  ASSUME LiveTypes, NEW s \in Screens, NEW k, Sent(s, k)
  PROVE  command' \in [Screens -> CommandStates]
<1>1. command[s] \in CommandStates
  BY DEF LiveTypes
<1>2. [command[s] EXCEPT !.pc = "send", !.todo = @ \ {k}, !.at = NoSocket] \in CommandStates
  BY <1>1 DEF CommandStates
<1>3. command' = [command EXCEPT ![s] = [command[s] EXCEPT !.pc = "send", !.todo = @ \ {k}, !.at = NoSocket]]
  BY <1>1 DEF Sent, LiveTypes, CommandStates
<1> QED
  BY <1>2, <1>3 DEF LiveTypes

LEMMA DropType ==
  ASSUME LiveTypes, NEW s \in Screens, NEW k \in Sockets,
         command' = [command EXCEPT ![s].pc = "drop", ![s].at = k]
  PROVE  command' \in [Screens -> CommandStates]
<1>1. command[s] \in CommandStates
  BY DEF LiveTypes
<1>2. [command[s] EXCEPT !.pc = "drop", !.at = k] \in CommandStates
  BY <1>1 DEF CommandStates
<1>3. command' = [command EXCEPT ![s] = [command[s] EXCEPT !.pc = "drop", !.at = k]]
  BY <1>1 DEF LiveTypes, CommandStates
<1> QED
  BY <1>2, <1>3 DEF LiveTypes

LEMMA AddedType ==
  ASSUME LiveConstants, LiveTypes, NEW k \in Sockets, ~ Full(k), Added(k)
  PROVE  channel' \in [Sockets -> 0 .. BufferSize]
<1>1. channel[k] + 1 \in 0 .. BufferSize
  BY DEF LiveConstants, LiveTypes, Full
<1> QED
  BY <1>1 DEF Added, LiveTypes

LEMMA QueuesType ==
  ASSUME NEW s, NEW r \in Refreshes
  PROVE  Queues(s, r) \in Refreshes
BY DEF Queues, Followed, NoRefresh, Refreshes

LEMMA FollowingType ==
  ASSUME NEW s
  PROVE  /\ Following(s) \in Refreshes /\ Following(s).page = {} /\ ~ Following(s).again
         /\ Following(s).pc = IF refresh[s].again /\ ~ quiet[s] THEN "asked" ELSE "none"
BY DEF Following, NoRefresh, Refreshes

LEMMA LiveTypesStep == LiveInv /\ [LiveNext]_liveVars => LiveTypes'
<1> SUFFICES ASSUME LiveInv, [LiveNext]_liveVars PROVE LiveTypes'
  OBVIOUS
<1> USE DEF LiveInv
<1>1. ASSUME NEW s \in Screens, RunCommand(s) PROVE LiveTypes'
  <2>1. version' \in 0 .. MaxCommits /\ version + 1 \in Nat
    BY <1>1 DEF RunCommand, LiveTypes, LiveConstants
  <2>2. [command[s] EXCEPT !.pc = "publish", !.mine = version + 1] \in CommandStates
    <3>1. command[s] \in CommandStates
      BY DEF LiveTypes
    <3> QED
      BY <2>1, <3>1 DEF CommandStates
  <2>3. command' = [command EXCEPT ![s] = [command[s] EXCEPT !.pc = "publish", !.mine = version + 1]]
    BY <1>1 DEF RunCommand, LiveTypes, CommandStates
  <2>4. command' \in [Screens -> CommandStates]
    BY <2>2, <2>3 DEF LiveTypes
  <2> QED
    BY <1>1, <2>1, <2>4, MissesType DEF RunCommand, screen, hub, LiveTypes
<1>2. ASSUME NEW s \in Screens, CopySubscribers(s) PROVE LiveTypes'
  <2>1. [command[s] EXCEPT !.pc = "send", !.todo = subscribed] \in CommandStates
    <3>1. command[s] \in CommandStates /\ subscribed \in SUBSET Sockets
      BY DEF LiveTypes
    <3> QED
      BY <3>1 DEF CommandStates
  <2>2. command' = [command EXCEPT ![s] = [command[s] EXCEPT !.pc = "send", !.todo = subscribed]]
    BY <1>2 DEF CopySubscribers, LiveTypes, CommandStates
  <2>3. command' \in [Screens -> CommandStates]
    BY <2>1, <2>2 DEF LiveTypes
  <2> QED
    BY <1>2, <2>3, MissesType DEF CopySubscribers, screen, hub, LiveTypes
<1>3. ASSUME NEW s \in Screens, NEW k \in Sockets, TrySend(s, k) PROVE LiveTypes'
  <2>1. command' \in [Screens -> CommandStates]
    BY <1>3, SentType, DropType DEF TrySend
  <2>2. channel' \in [Sockets -> 0 .. BufferSize]
    BY <1>3, AddedType DEF TrySend, LiveTypes
  <2> QED
    BY <1>3, <2>1, <2>2 DEF TrySend, screen, LiveTypes
<1>4. ASSUME NEW s \in Screens, NEW k \in Sockets, Subscribe(s, k) PROVE LiveTypes'
  BY <1>4 DEF Subscribe, screen, hub, LiveTypes, LiveConstants
<1>5. ASSUME NEW s \in Screens, DropOldest(s) PROVE LiveTypes'
  <2>1. command' \in [Screens -> CommandStates]
    BY <1>5 DEF DropOldest, LiveTypes, CommandStates
  <2>2. channel' \in [Sockets -> 0 .. BufferSize]
    <3>1. \A n \in 0 .. BufferSize : (IF n = 0 THEN 0 ELSE n - 1) \in 0 .. BufferSize
      BY DEF LiveConstants
    <3> QED
      BY <1>5, <3>1 DEF DropOldest, LiveTypes
  <2> QED
    BY <1>5, <2>1, <2>2 DEF DropOldest, screen, LiveTypes
<1>6. ASSUME NEW s \in Screens, SendAgain(s) PROVE LiveTypes'
  <2>1. command[s].at \in Sockets
    BY <1>6 DEF SendAgain, AtIsToDo, LiveTypes, CommandStates
  <2>2. command' \in [Screens -> CommandStates]
    BY <1>6, <2>1, SentType DEF SendAgain
  <2>3. channel' \in [Sockets -> 0 .. BufferSize]
    BY <1>6, <2>1, AddedType DEF SendAgain, LiveTypes
  <2> QED
    BY <1>6, <2>2, <2>3 DEF SendAgain, screen, LiveTypes
<1>7. ASSUME NEW s \in Screens, SendPanics(s) PROVE LiveTypes'
  <2>1. command' \in [Screens -> CommandStates]
    BY <1>7, NoneTypes DEF SendPanics, LiveTypes
  <2> QED
    BY <1>7, <2>1, MissesType DEF SendPanics, screen, hub, LiveTypes
<1>8. ASSUME NEW s \in Screens, Answered(s) PROVE LiveTypes'
  <2>1. command' \in [Screens -> CommandStates]
    BY <1>8, NoneTypes DEF Answered, LiveTypes
  <2>2. shown' \in [Screens -> SUBSET Nat]
    BY <1>8 DEF Answered, LiveTypes, CommandStates
  <2> QED
    BY <1>8, <2>1, <2>2, MissesType DEF Answered, screen, hub, LiveTypes
<1>9. ASSUME NEW s \in Screens, SuppressionEnds(s) PROVE LiveTypes'
  BY <1>9 DEF SuppressionEnds, screen, hub, LiveTypes, LiveConstants
<1>10. ASSUME NEW s \in Screens, Unsubscribe(s) PROVE LiveTypes'
  <2>1. /\ wire' \in [Screens -> Nat] /\ linked' \in [Screens -> Sockets \cup {NoSocket}]
        /\ closed' \subseteq Sockets /\ subscribed' \subseteq Sockets
    BY <1>10 DEF Unsubscribe, LiveTypes
  <2>2. channel' \in [Sockets -> 0 .. BufferSize]
    BY <1>10 DEF Unsubscribe, LiveTypes, LiveConstants
  <2> QED
    BY <1>10, <2>1, <2>2, MissesType DEF Unsubscribe, screen, LiveTypes
<1>11. ASSUME NEW s \in Screens, TakeEvent(s) PROVE LiveTypes'
  <2>1. linked[s] \in Sockets /\ channel[linked[s]] \in 0 .. BufferSize
    BY <1>11 DEF TakeEvent, LiveTypes
  <2>2. channel' \in [Sockets -> 0 .. BufferSize]
    BY <1>11, <2>1 DEF TakeEvent, LiveTypes, LiveConstants
  <2> QED
    BY <1>11, <2>2 DEF TakeEvent, screen, LiveTypes
<1>12. ASSUME NEW s \in Screens, HearEvent(s) PROVE LiveTypes'
  <2>1. wire' \in [Screens -> Nat]
    BY <1>12 DEF HearEvent, LiveTypes
  <2>2. refresh' \in [Screens -> Refreshes]
    BY <1>12, QueuesType DEF HearEvent, LiveTypes
  <2> QED
    BY <1>12, <2>1, <2>2, MissesType DEF HearEvent, hub, LiveTypes
<1>13. ASSUME NEW s \in Screens, ReadSnapshot(s) PROVE LiveTypes'
  <2>1. refresh' \in [Screens -> Refreshes]
    <3>1. refresh[s] \in Refreshes /\ Commits \in SUBSET Nat
      BY DEF LiveTypes, Commits
    <3>2. [refresh[s] EXCEPT !.pc = "read", !.page = Commits] \in Refreshes
      BY <3>1 DEF Refreshes
    <3>3. refresh' = [refresh EXCEPT ![s] = [refresh[s] EXCEPT !.pc = "read", !.page = Commits]]
      BY <1>13 DEF ReadSnapshot, LiveTypes, Refreshes
    <3> QED
      BY <3>2, <3>3 DEF LiveTypes
  <2> QED
    BY <1>13, <2>1 DEF ReadSnapshot, hub, LiveTypes
<1>14. ASSUME NEW s \in Screens, SnapshotArrives(s) PROVE LiveTypes'
  <2>1. refresh' \in [Screens -> Refreshes] /\ shown' \in [Screens -> SUBSET Nat]
    BY <1>14, FollowingType DEF SnapshotArrives, LiveTypes, Refreshes
  <2> QED
    BY <1>14, <2>1, MissesType DEF SnapshotArrives, hub, LiveTypes
<1>15. ASSUME NEW s \in Screens, SnapshotFails(s) PROVE LiveTypes'
  <2>1. refresh' \in [Screens -> Refreshes]
    BY <1>15, FollowingType DEF SnapshotFails, LiveTypes
  <2>2. lost' \in 0 .. MaxLost
    BY <1>15 DEF SnapshotFails, LiveTypes, LiveConstants
  <2> QED
    BY <1>15, <2>1, <2>2, MissesType DEF SnapshotFails, hub, LiveTypes
<1>16. CASE UNCHANGED liveVars
  BY <1>16 DEF liveVars, screen, hub, LiveTypes, LiveConstants
<1> QED
  BY <1>1, <1>2, <1>3, <1>4, <1>5, <1>6, <1>7, <1>8, <1>9, <1>10, <1>11, <1>12, <1>13,
     <1>14, <1>15, <1>16 DEF LiveNext

LEMMA CommittedStep == LiveInv /\ [LiveNext]_liveVars => Committed'
<1> SUFFICES ASSUME LiveInv, [LiveNext]_liveVars PROVE Committed'
  OBVIOUS
<1> USE DEF LiveInv
<1>1. ASSUME NEW s \in Screens, RunCommand(s) PROVE Committed'
  <2>1. version \in Nat /\ version' = version + 1 /\ Commits \subseteq Commits'
    BY <1>1 DEF RunCommand, LiveTypes, Commits
  <2>2. \A x \in Screens : /\ command'[x].mine <= version'
                           /\ command'[x].pc # "none" => command'[x].mine # 0
    BY <1>1, <2>1 DEF RunCommand, Committed, LiveTypes, CommandStates
  <2> QED
    <3>1. \A x \in Screens : shown'[x] \subseteq Commits' /\ refresh'[x].page \subseteq Commits'
      BY <1>1, <2>1 DEF RunCommand, screen, Committed
    <3> QED
      BY <2>2, <3>1 DEF Committed
<1>2. ASSUME NEW s \in Screens, CopySubscribers(s) PROVE Committed'
  BY <1>2 DEF CopySubscribers, CommandStates, screen, hub, Committed, Commits, LiveTypes
<1>3. ASSUME NEW s \in Screens, NEW k \in Sockets, TrySend(s, k) PROVE Committed'
  <2>1. \A x \in Screens : command[x] \in CommandStates
    BY DEF LiveTypes
  <2>2. CASE Full(k)
    <3>1. command' = [command EXCEPT ![s].pc = "drop", ![s].at = k] /\ k \in command[s].todo
      BY <1>3, <2>2 DEF TrySend
    <3> QED
      BY <1>3, <2>1, <3>1 DEF TrySend, screen, CommandStates, Committed, Commits, LiveTypes
  <2>3. CASE ~ Full(k)
    <3>1. Sent(s, k)
      BY <1>3, <2>3 DEF TrySend
    <3> QED
      BY <1>3, <2>1, <3>1 DEF TrySend, Sent, screen, CommandStates, Committed, Commits, LiveTypes
  <2> QED
    BY <2>2, <2>3
<1>4. ASSUME NEW s \in Screens, NEW k \in Sockets, Subscribe(s, k) PROVE Committed'
  BY <1>4 DEF Subscribe, screen, hub, Committed, Commits, LiveTypes
<1>5. ASSUME NEW s \in Screens, DropOldest(s) PROVE Committed'
  BY <1>5 DEF DropOldest, CommandStates, screen, hub, Committed, Commits, LiveTypes
<1>6. ASSUME NEW s \in Screens, SendAgain(s) PROVE Committed'
  BY <1>6 DEF SendAgain, Sent, CommandStates, screen, hub, Committed, Commits, LiveTypes
<1>7. ASSUME NEW s \in Screens, SendPanics(s) PROVE Committed'
  BY <1>7 DEF SendPanics, NoCommand, screen, hub, Committed, Commits, LiveTypes
<1>8. ASSUME NEW s \in Screens, Answered(s) PROVE Committed'
  <2>1. command[s].mine \in Nat /\ version \in Nat /\ 0 <= version
    BY DEF LiveTypes, CommandStates
  <2>2. \A x \in Screens : /\ command'[x].mine <= version'
                           /\ command'[x].pc # "none" => command'[x].mine # 0
    BY <1>8, <2>1 DEF Answered, NoCommand, Committed, LiveTypes
  <2>3. command[s].mine \in Commits
    BY <1>8, <2>1 DEF Answered, Committed, Commits
  <2>4. \A x \in Screens : shown'[x] \subseteq Commits /\ refresh'[x] = refresh[x]
    BY <1>8, <2>3 DEF Answered, Committed, LiveTypes
  <2> QED
    <3>1. \A x \in Screens : shown'[x] \subseteq Commits' /\ refresh'[x].page \subseteq Commits'
      BY <1>8, <2>4 DEF Answered, Committed, Commits
    <3> QED
      BY <2>2, <3>1 DEF Committed
<1>9. ASSUME NEW s \in Screens, SuppressionEnds(s) PROVE Committed'
  BY <1>9 DEF SuppressionEnds, screen, hub, Committed, Commits, LiveTypes
<1>10. ASSUME NEW s \in Screens, Unsubscribe(s) PROVE Committed'
  BY <1>10 DEF Unsubscribe, screen, hub, Committed, Commits, LiveTypes
<1>11. ASSUME NEW s \in Screens, TakeEvent(s) PROVE Committed'
  BY <1>11 DEF TakeEvent, screen, hub, Committed, Commits, LiveTypes
<1>12. ASSUME NEW s \in Screens, HearEvent(s) PROVE Committed'
  BY <1>12 DEF HearEvent, Queues, Followed, NoRefresh, Refreshes, screen, hub, Committed,
     Commits, LiveTypes
<1>13. ASSUME NEW s \in Screens, ReadSnapshot(s) PROVE Committed'
  BY <1>13 DEF ReadSnapshot, Refreshes, screen, hub, Committed, Commits, LiveTypes
<1>14. ASSUME NEW s \in Screens, SnapshotArrives(s) PROVE Committed'
  BY <1>14, FollowingType DEF SnapshotArrives, Refreshes, screen, hub, Committed, Commits,
     LiveTypes
<1>15. ASSUME NEW s \in Screens, SnapshotFails(s) PROVE Committed'
  BY <1>15, FollowingType DEF SnapshotFails, Refreshes, screen, hub, Committed, Commits,
     LiveTypes
<1>16. CASE UNCHANGED liveVars
  BY <1>16 DEF liveVars, screen, hub, Committed, Commits, LiveTypes
<1> QED
  BY <1>1, <1>2, <1>3, <1>4, <1>5, <1>6, <1>7, <1>8, <1>9, <1>10, <1>11, <1>12, <1>13,
     <1>14, <1>15, <1>16 DEF LiveNext

LEMMA LinkedStep == LiveInv /\ [LiveNext]_liveVars => Linked'
<1> SUFFICES ASSUME LiveInv, [LiveNext]_liveVars PROVE Linked'
  OBVIOUS
<1> USE DEF LiveInv
<1>1. ASSUME NEW s \in Screens, RunCommand(s) PROVE Linked'
  BY <1>1 DEF RunCommand, screen, hub, Linked, LiveTypes
<1>2. ASSUME NEW s \in Screens, CopySubscribers(s) PROVE Linked'
  BY <1>2 DEF CopySubscribers, screen, hub, Linked, LiveTypes
<1>3. ASSUME NEW s \in Screens, NEW k \in Sockets, TrySend(s, k) PROVE Linked'
  BY <1>3 DEF TrySend, screen, hub, Linked, LiveTypes
<1>4. ASSUME NEW s \in Screens, NEW k \in Sockets, Subscribe(s, k) PROVE Linked'
  <2>1. \A x \in Screens : linked[x] # k
    BY <1>4 DEF Subscribe, Linked
  <2>2. linked' = [linked EXCEPT ![s] = k] /\ subscribed' = subscribed \cup {k}
        /\ closed' = closed /\ k \notin closed /\ linked[s] = NoSocket /\ NoSocket \notin Sockets
    BY <1>4 DEF Subscribe, LiveConstants
  <2> QED
    BY <2>1, <2>2 DEF Linked, LiveTypes
<1>5. ASSUME NEW s \in Screens, DropOldest(s) PROVE Linked'
  BY <1>5 DEF DropOldest, screen, hub, Linked, LiveTypes
<1>6. ASSUME NEW s \in Screens, SendAgain(s) PROVE Linked'
  BY <1>6 DEF SendAgain, screen, hub, Linked, LiveTypes
<1>7. ASSUME NEW s \in Screens, SendPanics(s) PROVE Linked'
  BY <1>7 DEF SendPanics, screen, hub, Linked, LiveTypes
<1>8. ASSUME NEW s \in Screens, Answered(s) PROVE Linked'
  BY <1>8 DEF Answered, screen, hub, Linked, LiveTypes
<1>9. ASSUME NEW s \in Screens, SuppressionEnds(s) PROVE Linked'
  BY <1>9 DEF SuppressionEnds, screen, hub, Linked, LiveTypes
<1>10. ASSUME NEW s \in Screens, Unsubscribe(s) PROVE Linked'
  <2> DEFINE k == linked[s]
  <2>1. /\ k \in Sockets /\ linked' = [linked EXCEPT ![s] = NoSocket]
        /\ subscribed' = subscribed \ {k} /\ closed' = closed \cup {k} /\ NoSocket \notin Sockets
    BY <1>10 DEF Unsubscribe, LiveConstants, LiveTypes
  <2>2. \A x \in Screens : x # s => linked[x] # k /\ linked'[x] = linked[x]
    BY <2>1 DEF Linked, LiveTypes
  <2>3. linked'[s] = NoSocket
    BY <2>1 DEF LiveTypes
  <2> HIDE DEF k
  <2>4. \A j \in Sockets : j \in subscribed' <=> \E x \in Screens : linked'[x] = j
    BY <2>1, <2>2, <2>3 DEF Linked, k
  <2>5. \A x, y \in Screens : linked'[x] = linked'[y] => x = y \/ linked'[x] = NoSocket
    BY <2>2, <2>3 DEF Linked
  <2> QED
    BY <2>1, <2>4, <2>5 DEF Linked
<1>11. ASSUME NEW s \in Screens, TakeEvent(s) PROVE Linked'
  BY <1>11 DEF TakeEvent, screen, hub, Linked, LiveTypes
<1>12. ASSUME NEW s \in Screens, HearEvent(s) PROVE Linked'
  BY <1>12 DEF HearEvent, screen, hub, Linked, LiveTypes
<1>13. ASSUME NEW s \in Screens, ReadSnapshot(s) PROVE Linked'
  BY <1>13 DEF ReadSnapshot, screen, hub, Linked, LiveTypes
<1>14. ASSUME NEW s \in Screens, SnapshotArrives(s) PROVE Linked'
  BY <1>14 DEF SnapshotArrives, screen, hub, Linked, LiveTypes
<1>15. ASSUME NEW s \in Screens, SnapshotFails(s) PROVE Linked'
  BY <1>15 DEF SnapshotFails, screen, hub, Linked, LiveTypes
<1>16. CASE UNCHANGED liveVars
  BY <1>16 DEF liveVars, screen, hub, Linked, LiveTypes
<1> QED
  BY <1>1, <1>2, <1>3, <1>4, <1>5, <1>6, <1>7, <1>8, <1>9, <1>10, <1>11, <1>12, <1>13,
     <1>14, <1>15, <1>16 DEF LiveNext

LEMMA AtStep == LiveInv /\ [LiveNext]_liveVars => AtIsToDo'
<1> SUFFICES ASSUME LiveInv, [LiveNext]_liveVars PROVE AtIsToDo'
  OBVIOUS
<1> USE DEF LiveInv
<1>1. ASSUME NEW s \in Screens, RunCommand(s) PROVE AtIsToDo'
  BY <1>1 DEF RunCommand, CommandStates, screen, hub, AtIsToDo, LiveTypes
<1>2. ASSUME NEW s \in Screens, CopySubscribers(s) PROVE AtIsToDo'
  BY <1>2 DEF CopySubscribers, CommandStates, screen, hub, AtIsToDo, LiveTypes
<1>3. ASSUME NEW s \in Screens, NEW k \in Sockets, TrySend(s, k) PROVE AtIsToDo'
  <2>1. \A x \in Screens : command[x] \in CommandStates
    BY DEF LiveTypes
  <2>2. CASE Full(k)
    <3>1. command' = [command EXCEPT ![s].pc = "drop", ![s].at = k] /\ k \in command[s].todo
      BY <1>3, <2>2 DEF TrySend
    <3> QED
      BY <1>3, <2>1, <3>1 DEF TrySend, screen, CommandStates, AtIsToDo, LiveTypes
  <2>3. CASE ~ Full(k)
    <3>1. Sent(s, k)
      BY <1>3, <2>3 DEF TrySend
    <3> QED
      BY <1>3, <2>1, <3>1 DEF TrySend, Sent, screen, CommandStates, AtIsToDo, LiveTypes
  <2> QED
    BY <2>2, <2>3
<1>4. ASSUME NEW s \in Screens, NEW k \in Sockets, Subscribe(s, k) PROVE AtIsToDo'
  BY <1>4 DEF Subscribe, screen, hub, AtIsToDo, LiveTypes
<1>5. ASSUME NEW s \in Screens, DropOldest(s) PROVE AtIsToDo'
  BY <1>5 DEF DropOldest, CommandStates, screen, hub, AtIsToDo, LiveTypes
<1>6. ASSUME NEW s \in Screens, SendAgain(s) PROVE AtIsToDo'
  BY <1>6 DEF SendAgain, Sent, CommandStates, screen, hub, AtIsToDo, LiveTypes
<1>7. ASSUME NEW s \in Screens, SendPanics(s) PROVE AtIsToDo'
  BY <1>7 DEF SendPanics, NoCommand, screen, hub, AtIsToDo, LiveTypes
<1>8. ASSUME NEW s \in Screens, Answered(s) PROVE AtIsToDo'
  BY <1>8 DEF Answered, NoCommand, CommandStates, screen, hub, AtIsToDo, LiveTypes
<1>9. ASSUME NEW s \in Screens, SuppressionEnds(s) PROVE AtIsToDo'
  BY <1>9 DEF SuppressionEnds, screen, hub, AtIsToDo, LiveTypes
<1>10. ASSUME NEW s \in Screens, Unsubscribe(s) PROVE AtIsToDo'
  BY <1>10 DEF Unsubscribe, screen, hub, AtIsToDo, LiveTypes
<1>11. ASSUME NEW s \in Screens, TakeEvent(s) PROVE AtIsToDo'
  BY <1>11 DEF TakeEvent, screen, hub, AtIsToDo, LiveTypes
<1>12. ASSUME NEW s \in Screens, HearEvent(s) PROVE AtIsToDo'
  BY <1>12 DEF HearEvent, screen, hub, AtIsToDo, LiveTypes
<1>13. ASSUME NEW s \in Screens, ReadSnapshot(s) PROVE AtIsToDo'
  BY <1>13 DEF ReadSnapshot, screen, hub, AtIsToDo, LiveTypes
<1>14. ASSUME NEW s \in Screens, SnapshotArrives(s) PROVE AtIsToDo'
  BY <1>14 DEF SnapshotArrives, screen, hub, AtIsToDo, LiveTypes
<1>15. ASSUME NEW s \in Screens, SnapshotFails(s) PROVE AtIsToDo'
  BY <1>15 DEF SnapshotFails, screen, hub, AtIsToDo, LiveTypes
<1>16. CASE UNCHANGED liveVars
  BY <1>16 DEF liveVars, screen, hub, AtIsToDo, LiveTypes
<1> QED
  BY <1>1, <1>2, <1>3, <1>4, <1>5, <1>6, <1>7, <1>8, <1>9, <1>10, <1>11, <1>12, <1>13,
     <1>14, <1>15, <1>16 DEF LiveNext

LEMMA InitLiveInv == LiveConstants /\ LiveInit => LiveInv
<1> SUFFICES ASSUME LiveConstants, LiveInit PROVE LiveInv
  OBVIOUS
<1>1. NoCommand \in CommandStates /\ NoRefresh \in Refreshes
  BY NoneTypes
<1>2. channel \in [Sockets -> 0 .. BufferSize]
  BY DEF LiveInit, LiveConstants
<1>3. subscribed \subseteq Sockets
  BY DEF LiveInit
<1>4. LiveTypes
  BY <1>1, <1>2, <1>3 DEF LiveInit, LiveTypes, LiveConstants
<1>5. Committed
  BY DEF LiveInit, Committed, NoRefresh, NoCommand
<1>6. Linked
  BY DEF LiveInit, Linked, LiveConstants
<1>7. AtIsToDo
  BY DEF LiveInit, AtIsToDo, NoCommand
<1> QED
  BY <1>4, <1>5, <1>6, <1>7 DEF LiveInv

LEMMA LiveInvStep == LiveInv /\ [LiveNext]_liveVars => LiveInv'
BY LiveTypesStep, CommittedStep, LinkedStep, AtStep DEF LiveInv, LiveConstants

\* Something is under way after which screen s loads a snapshot, or is known to have
\* missed it: a publisher that has its socket to do, an event, or a refresh that
\* reads, or must be followed by one that reads, all there is.
News(s) ==
  \/ \E x \in Screens : \/ command[x].pc = "publish"
                        \/ command[x].pc \in {"send", "drop", "again"} /\ linked[s] \in command[x].todo
  \/ linked[s] \in Sockets /\ channel[linked[s]] > 0
  \/ wire[s] > 0
  \/ refresh[s].pc = "asked" \/ (refresh[s].pc = "read" /\ refresh[s].again)

\* What s does not show yet is in the answer it is loading.
Loads(s) == Commits \subseteq shown[s] \cup (IF refresh[s].pc = "read" THEN refresh[s].page ELSE {})

Follows(s) == missed[s] \/ News(s) \/ Loads(s)

\* A step that takes none of the news of s, and nothing s shows or loads.
LEMMA NewsStay ==
  ASSUME NEW s \in Screens, Follows(s), missed[s] => missed'[s], News(s) => News(s)' \/ missed'[s],
         version' = version, shown'[s] = shown[s], refresh'[s] = refresh[s]
  PROVE  Follows(s)'
BY DEF Follows, Loads, Commits

\* A screen that shows everything follows.
LEMMA MissedOrCaughtUp ==
  ASSUME NEW s \in Screens, NEW L, Misses(L), missed[s] \/ s \in L
  PROVE  missed'[s] \/ Loads(s)'
BY DEF Misses, Loads, Commits

LEMMA MissedStays ==
  ASSUME NEW s \in Screens, NEW L, Misses(L), missed[s], ~ Loads(s)'
  PROVE  missed'[s]
BY MissedOrCaughtUp

LEMMA FollowsStep ==
  ASSUME LiveInv, LiveInv', [LiveNext]_liveVars, NEW x \in Screens, Follows(x)
  PROVE  Follows(x)'
<1> USE DEF LiveInv
<1>0. /\ linked[x] \in Sockets \cup {NoSocket} /\ NoSocket \notin Sockets
      /\ missed \in [Screens -> BOOLEAN] /\ BufferSize \in Nat \ {0} /\ subscribed \subseteq Sockets
      /\ command \in [Screens -> CommandStates] /\ channel \in [Sockets -> 0 .. BufferSize]
  BY DEF LiveTypes, LiveConstants
<1>1. ASSUME NEW s \in Screens, RunCommand(s) PROVE Follows(x)'
  <2>1. command'[s].pc = "publish"
    BY <1>1, <1>0 DEF RunCommand, CommandStates
  <2>2. News(x)'
    <3>1. \E y \in Screens : command'[y].pc = "publish"
      BY <2>1
    <3> QED
      BY <3>1 DEF News
  <2> QED
    BY <2>2 DEF Follows
<1>2. ASSUME NEW s \in Screens, CopySubscribers(s) PROVE Follows(x)'
  <2>1. CASE linked[x] \in subscribed
    <3>1. command'[s].pc = "send" /\ linked'[x] \in command'[s].todo
      BY <1>2, <1>0, <2>1 DEF CopySubscribers, CommandStates
    <3> QED
      BY <3>1 DEF Follows, News
  <2>2. CASE linked[x] \notin subscribed
    BY <1>2, <2>2, MissedOrCaughtUp DEF CopySubscribers, Follows
  <2> QED
    BY <2>1, <2>2
<1>3. ASSUME NEW s \in Screens, NEW k \in Sockets, TrySend(s, k) PROVE Follows(x)'
  <2>1. UNCHANGED <<version, shown, refresh, quiet, linked, wire, missed>>
    BY <1>3 DEF TrySend, screen
  <2>2. CASE Full(k)
    <3>1. /\ channel' = channel
          /\ \A y \in Screens : y # s => command'[y] = command[y]
          /\ command[s].pc = "send" /\ command'[s].pc = "drop" /\ command'[s].todo = command[s].todo
      BY <1>3, <1>0, <2>2 DEF TrySend, CommandStates
    <3>2. News(x) => News(x)'
      BY <2>1, <3>1 DEF News
    <3> QED
      BY <2>1, <3>2, NewsStay
  <2>3. CASE ~ Full(k)
    <3>1. /\ channel'[k] = channel[k] + 1 /\ \A j \in Sockets : j # k => channel'[j] = channel[j]
          /\ \A y \in Screens : y # s => command'[y] = command[y]
          /\ command[s].pc = "send" /\ command'[s].pc = "send"
          /\ command'[s].todo = command[s].todo \ {k}
      BY <1>3, <1>0, <2>3 DEF TrySend, CommandStates, Added, Sent
    <3>2. News(x) => News(x)'
      BY <1>0, <2>1, <3>1 DEF News
    <3> QED
      BY <2>1, <3>2, NewsStay
  <2> QED
    BY <2>2, <2>3
<1>4. ASSUME NEW s \in Screens, NEW k \in Sockets, Subscribe(s, k) PROVE Follows(x)'
  <2>1. /\ UNCHANGED <<version, shown, refresh, command, channel, wire, missed>>
        /\ linked[s] = NoSocket /\ \A y \in Screens : y # s => linked'[y] = linked[y]
    BY <1>4, <1>0 DEF Subscribe, screen, LiveTypes
  <2>2. \A y \in Screens : NoSocket \notin command[y].todo
    BY <1>0 DEF CommandStates
  <2>3. News(x) => News(x)'
    BY <1>0, <2>1, <2>2 DEF News
  <2> QED
    BY <2>1, <2>3, NewsStay
<1>5. ASSUME NEW s \in Screens, DropOldest(s) PROVE Follows(x)'
  <2>1. UNCHANGED <<version, shown, refresh, quiet, linked, wire, missed>>
    BY <1>5 DEF DropOldest, screen
  <2>2. /\ \A y \in Screens : y # s => command'[y] = command[y]
        /\ command[s].pc = "drop" /\ command'[s].pc = "again"
        /\ command'[s].todo = command[s].todo /\ command[s].at \in command[s].todo
        /\ \A j \in Sockets : j # command[s].at => channel'[j] = channel[j]
    BY <1>5, <1>0 DEF DropOldest, CommandStates, AtIsToDo
  <2>3. News(x) => News(x)'
    BY <2>1, <2>2 DEF News
  <2> QED
    BY <2>1, <2>3, NewsStay
<1>6. ASSUME NEW s \in Screens, SendAgain(s) PROVE Follows(x)'
  <2>1. UNCHANGED <<version, shown, refresh, quiet, linked, wire, missed>>
    BY <1>6 DEF SendAgain, screen
  <2>2. command[s].at \in Sockets
    BY <1>6, <1>0 DEF SendAgain, AtIsToDo, CommandStates
  <2>3. /\ \A y \in Screens : y # s => command'[y] = command[y]
        /\ command[s].pc = "again" /\ command'[s].pc = "send"
        /\ command'[s].todo = command[s].todo \ {command[s].at}
    BY <1>6, <1>0 DEF SendAgain, CommandStates, Sent
  <2>4. /\ channel'[command[s].at] > 0
        /\ \A j \in Sockets : j # command[s].at => channel'[j] = channel[j]
    BY <1>6, <1>0, <2>2 DEF SendAgain, Added, Full
  <2>5. News(x) => News(x)'
    BY <1>0, <2>1, <2>2, <2>3, <2>4 DEF News
  <2> QED
    BY <2>1, <2>5, NewsStay
<1>7. ASSUME NEW s \in Screens, SendPanics(s) PROVE Follows(x)'
  <2>1. UNCHANGED <<version, shown, refresh, quiet, linked, channel, wire>>
    BY <1>7 DEF SendPanics, screen, hub
  <2>2. \A y \in Screens : y # s => command'[y] = command[y]
    BY <1>7, <1>0 DEF SendPanics
  <2>3. command[s].pc # "publish"
    BY <1>7 DEF SendPanics
  <2>4. CASE linked[x] \in command[s].todo \/ missed[x]
    BY <1>7, <2>4, MissedOrCaughtUp DEF SendPanics, Follows
  <2>5. CASE ~ missed[x] /\ linked[x] \notin command[s].todo
    <3>1. News(x) => News(x)'
      BY <2>1, <2>2, <2>3, <2>5 DEF News
    <3>2. Loads(x) => Loads(x)'
      BY <2>1 DEF Loads, Commits
    <3> QED
      BY <2>5, <3>1, <3>2 DEF Follows
  <2> QED
    BY <2>4, <2>5
<1>8. ASSUME NEW s \in Screens, Answered(s) PROVE Follows(x)'
  <2>1. /\ UNCHANGED <<version, refresh, linked, channel, wire>> /\ Misses({})
        /\ shown[x] \subseteq shown'[x]
        /\ \A y \in Screens : y # s => command'[y] = command[y]
        /\ command[s].pc = "send" /\ command[s].todo = {}
    BY <1>8, <1>0 DEF Answered, hub, LiveTypes
  <2>2. CASE missed[x]
    BY <2>1, <2>2, MissedOrCaughtUp DEF Follows
  <2>3. CASE ~ missed[x]
    <3>1. News(x) => News(x)'
      BY <2>1 DEF News
    <3>2. Loads(x) => Loads(x)'
      BY <2>1 DEF Loads, Commits
    <3> QED
      BY <2>3, <3>1, <3>2 DEF Follows
  <2> QED
    BY <2>2, <2>3
<1>9. ASSUME NEW s \in Screens, SuppressionEnds(s) PROVE Follows(x)'
  <2>1. UNCHANGED <<version, shown, refresh, command, linked, channel, wire, missed>>
    BY <1>9 DEF SuppressionEnds, hub
  <2> QED
    BY <2>1 DEF Follows, News, Loads, Commits
<1>10. ASSUME NEW s \in Screens, Unsubscribe(s) PROVE Follows(x)'
  <2> DEFINE k == linked[s]
             lose == {y \in {s} : \/ channel[k] + wire[y] > 0
                                \/ \E z \in Screens : k \in command[z].todo}
  <2>1. /\ UNCHANGED <<version, shown, refresh, command>> /\ Misses(lose) /\ k \in Sockets
        /\ \A y \in Screens : y # s => linked'[y] = linked[y] /\ wire'[y] = wire[y]
        /\ \A j \in Sockets : j # k => channel'[j] = channel[j]
    BY <1>10, <1>0 DEF Unsubscribe, screen, LiveTypes
  <2>2. wire[s] \in Nat /\ channel[k] \in Nat
    BY <1>0, <2>1 DEF LiveTypes
  <2>3. CASE missed[x] \/ x \in lose
    BY <2>1, <2>3, MissedOrCaughtUp DEF Follows
  <2>4. CASE ~ missed[x] /\ x \notin lose /\ x # s
    <3>1. linked[x] # k
      BY <2>1, <2>4, <1>0 DEF Linked
    <3>2. News(x) => News(x)'
      BY <2>1, <2>4, <3>1 DEF News
    <3>3. Loads(x) => Loads(x)'
      BY <2>1 DEF Loads, Commits
    <3> QED
      BY <2>4, <3>2, <3>3 DEF Follows
  <2>5. CASE ~ missed[x] /\ x \notin lose /\ x = s
    <3>1. ~ (channel[k] > 0) /\ ~ (wire[s] > 0) /\ \A z \in Screens : k \notin command[z].todo
      BY <2>2, <2>5
    <3>2. News(x) => News(x)'
      BY <2>1, <2>5, <3>1 DEF News
    <3>3. Loads(x) => Loads(x)'
      BY <2>1 DEF Loads, Commits
    <3> QED
      BY <2>5, <3>2, <3>3 DEF Follows
  <2> QED
    BY <2>3, <2>4, <2>5
<1>11. ASSUME NEW s \in Screens, TakeEvent(s) PROVE Follows(x)'
  <2>1. /\ UNCHANGED <<version, shown, refresh, command, linked, missed>> /\ linked[s] \in Sockets
        /\ \A j \in Sockets : j # linked[s] => channel'[j] = channel[j]
        /\ \A y \in Screens : y # s => wire'[y] = wire[y]
        /\ wire'[s] = wire[s] + 1 /\ wire[s] \in Nat
    BY <1>11, <1>0 DEF TakeEvent, screen, LiveTypes
  <2>2. x # s => linked[x] # linked[s]
    BY <1>0, <2>1 DEF Linked
  <2>3. News(x) => News(x)'
    BY <2>1, <2>2 DEF News
  <2> QED
    BY <2>1, <2>3, NewsStay
<1>12. ASSUME NEW s \in Screens, HearEvent(s) PROVE Follows(x)'
  <2>1. /\ UNCHANGED <<version, shown, command, linked, channel>>
        /\ Misses({y \in {s} : quiet[y]})
        /\ \A y \in Screens : y # s => wire'[y] = wire[y] /\ refresh'[y] = refresh[y]
    BY <1>12, <1>0 DEF HearEvent, hub, LiveTypes
  <2>2. CASE missed[x] \/ (x = s /\ quiet[s])
    BY <2>1, <2>2, MissedOrCaughtUp DEF Follows
  <2>3. CASE ~ missed[x] /\ x = s /\ ~ quiet[s]
    <3>1. refresh[s] \in Refreshes /\ refresh'[s] = Queues(s, refresh[s])
      BY <1>12, <2>3 DEF HearEvent, LiveTypes
    <3>2. \/ refresh'[s].pc = "asked"
          \/ refresh'[s].pc = "read" /\ refresh'[s].again
      BY <3>1 DEF Queues, Followed, NoRefresh, Refreshes
    <3> QED
      BY <2>3, <3>2 DEF Follows, News
  <2>4. CASE ~ missed[x] /\ x # s
    <3>1. News(x) => News(x)'
      BY <2>1, <2>4 DEF News
    <3>2. Loads(x) => Loads(x)'
      BY <2>1, <2>4 DEF Loads, Commits
    <3> QED
      BY <2>4, <3>1, <3>2 DEF Follows
  <2> QED
    BY <2>2, <2>3, <2>4
<1>13. ASSUME NEW s \in Screens, ReadSnapshot(s) PROVE Follows(x)'
  <2>1. /\ UNCHANGED <<version, shown, command, linked, channel, wire, missed>>
        /\ \A y \in Screens : y # s => refresh'[y] = refresh[y]
        /\ refresh'[s].pc = "read" /\ refresh'[s].page = Commits
    BY <1>13 DEF ReadSnapshot, hub, LiveTypes, Refreshes
  <2>2. CASE x = s
    BY <2>1, <2>2 DEF Follows, Loads, Commits
  <2>3. CASE x # s
    BY <2>1, <2>3 DEF Follows, News, Loads, Commits
  <2> QED
    BY <2>2, <2>3
<1>14. ASSUME NEW s \in Screens, SnapshotArrives(s) PROVE Follows(x)'
  <2> DEFINE lose == {y \in {s} : ~ shown[y] \subseteq refresh[y].page \/ (refresh[y].again /\ quiet[y])}
  <2>1. /\ UNCHANGED <<version, command, linked, channel, wire>> /\ Misses(lose)
        /\ \A y \in Screens : y # s => refresh'[y] = refresh[y] /\ shown'[y] = shown[y]
        /\ refresh[s].pc = "read" /\ refresh'[s] = Following(s) /\ shown'[s] = refresh[s].page
    BY <1>14 DEF SnapshotArrives, hub, LiveTypes
  <2>2. CASE missed[x] \/ x \in lose
    BY <2>1, <2>2, MissedOrCaughtUp DEF Follows
  <2>3. CASE ~ missed[x] /\ x # s
    <3>1. News(x) => News(x)'
      BY <2>1, <2>3 DEF News
    <3>2. Loads(x) => Loads(x)'
      BY <2>1, <2>3 DEF Loads, Commits
    <3> QED
      BY <2>3, <3>1, <3>2 DEF Follows
  <2>4. CASE ~ missed[x] /\ x = s /\ x \notin lose
    <3>1. shown[s] \subseteq refresh[s].page /\ (refresh[s].again => ~ quiet[s])
      BY <2>4
    <3>2. CASE refresh[s].again
      <4>1. refresh'[s].pc = "asked"
        BY <2>1, <3>1, <3>2, FollowingType
      <4> QED
        BY <2>4, <4>1 DEF Follows, News
    <3>3. CASE ~ refresh[s].again
      <4>1. News(x) => News(x)'
        BY <2>1, <2>4, <3>3 DEF News
      <4>2. Loads(x) => Loads(x)'
        BY <2>1, <2>4, <3>1 DEF Loads, Commits
      <4> QED
        BY <2>4, <4>1, <4>2 DEF Follows
    <3> QED
      BY <3>2, <3>3
  <2> QED
    BY <2>2, <2>3, <2>4
<1>15. ASSUME NEW s \in Screens, SnapshotFails(s) PROVE Follows(x)'
  <2>1. /\ UNCHANGED <<version, shown, command, linked, channel, wire>> /\ Misses({s})
        /\ \A y \in Screens : y # s => refresh'[y] = refresh[y]
    BY <1>15 DEF SnapshotFails, hub, LiveTypes
  <2>2. CASE missed[x] \/ x = s
    BY <2>1, <2>2, MissedOrCaughtUp DEF Follows
  <2>3. CASE ~ missed[x] /\ x # s
    <3>1. News(x) => News(x)'
      BY <2>1, <2>3 DEF News
    <3>2. Loads(x) => Loads(x)'
      BY <2>1, <2>3 DEF Loads, Commits
    <3> QED
      BY <2>3, <3>1, <3>2 DEF Follows
  <2> QED
    BY <2>2, <2>3
<1>16. CASE UNCHANGED liveVars
  BY <1>16 DEF liveVars, screen, hub, Follows, News, Loads, Commits
<1> QED
  BY <1>1, <1>2, <1>3, <1>4, <1>5, <1>6, <1>7, <1>8, <1>9, <1>10, <1>11, <1>12, <1>13,
     <1>14, <1>15, <1>16 DEF LiveNext

LEMMA LiveInductive == LiveConstants /\ LiveSpec => []LiveInv
<1>1. LiveConstants /\ LiveInit => LiveInv
  BY InitLiveInv
<1>2. LiveInv /\ [LiveNext]_liveVars => LiveInv'
  BY LiveInvStep
<1> QED
  BY <1>1, <1>2, PTL DEF LiveSpec

\* For any number of screens and sockets and any buffer, no channel holds more than
\* its buffer, and who is subscribed has an open channel.
THEOREM ChannelsStayTyped == LiveConstants /\ LiveSpec => []LiveTypeOK
BY LiveInductive, LiveTyped, PTL

\* A screen that missed nothing shows every command once nothing is under way,
\* however many publishers drop each other's events.
THEOREM ScreensKeepFollowing == LiveConstants /\ LiveSpec => []ScreensFollow
<1>1. LiveInit => \A s \in Screens : Follows(s)
  BY DEF LiveInit, Follows, Loads, Commits
<1>2. LiveInv /\ LiveInv' /\ (\A s \in Screens : Follows(s)) /\ [LiveNext]_liveVars =>
        (\A s \in Screens : Follows(s))'
  BY FollowsStep
<1>3. LiveInv /\ (\A s \in Screens : Follows(s)) => ScreensFollow
  <2> SUFFICES ASSUME LiveInv, NEW s \in Screens, Follows(s), Settled(s), ~ missed[s]
               PROVE  shown[s] = Commits
    BY DEF ScreensFollow
  <2>1. /\ wire[s] = 0 /\ (linked[s] \in Sockets => channel[linked[s]] = 0)
        /\ refresh[s].pc = "none" /\ \A x \in Screens : command[x].pc = "none"
    BY DEF Settled, LiveInv, LiveConstants
  <2>2. ~ News(s)
    BY <2>1 DEF News
  <2> QED
    BY <2>1, <2>2 DEF Follows, Loads, LiveInv, Committed
<1> QED
  BY <1>1, <1>2, <1>3, LiveInductive, PTL DEF LiveSpec
=============================================================================
