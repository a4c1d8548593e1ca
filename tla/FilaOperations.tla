--------------------------- MODULE FilaOperations ---------------------------
(***************************************************************************)
(* The commands of the operations module of one store, each taken as one   *)
(* step: the behaviour the code has when the commands of a store do not    *)
(* overlap.  FilaConcurrent takes the commands apart.                      *)
(*                                                                         *)
(* The roster is synchronized from the platform directory when a command   *)
(* loads the store, so a command may find any roster.                      *)
(***************************************************************************)
EXTENDS FilaSnapshot, Sequences

VARIABLES
  db,        \* the four current-state tables
  sessions,  \* operation_status_sessions, in the order of insertion
  history,   \* operation_service_history: the service ids with an entry
  clock,     \* moment of the last command; every command has a later one
  started,   \* service ids handed out so far
  dropped    \* services whose consultant was no longer on the roster

vars == <<db, sessions, history, clock, started, dropped>>

Init ==
  /\ db = EmptyStore
  /\ sessions = <<>>
  /\ history = {}
  /\ clock = 0
  /\ started = {}
  /\ dropped = {}

Open(s) == {s.active[c].id : c \in InService(s)}

\* The transaction of a command that moved c: the tables, the session.  Every
\* command changes the status of c, so the last session is always a new one.
Persist(s, next, roster, c, now) ==
  /\ db' = next
  /\ sessions' = IF next.status[c] = s.status[c] THEN sessions
                 ELSE Append(sessions, ClosedSession(s, c, now))
  /\ dropped' = dropped \cup {db.active[x].id : x \in InService(db) \ roster}

AddToQueue(s, c, roster, now) ==
  /\ CanQueue(s, roster, c)
  /\ Persist(s, Queued(s, c, now), roster, c, now)
  /\ UNCHANGED <<history, started>>

PauseLike(s, c, roster, now) ==
  /\ CanPause(s, roster, c)
  /\ Persist(s, PausedNow(s, c, now), roster, c, now)
  /\ UNCHANGED <<history, started>>

Resume(s, c, roster, now) ==
  /\ CanResume(s, roster, c)
  /\ Persist(s, Resumed(s, c, now), roster, c, now)
  /\ UNCHANGED <<history, started>>

Start(s, c, roster, now) ==
  /\ CanStart(s, roster, c)
  /\ \E id \in Ids \ started :
       /\ Persist(s, Started(s, c, id, now), roster, c, now)
       /\ started' = started \cup {id}
  /\ UNCHANGED history

\* Seeded fault: no history entry.
FinishUnrecorded(s, c, roster, now) ==
  /\ CanFinish(s, roster, c)
  /\ Persist(s, Finished(s, c, now), roster, c, now)
  /\ UNCHANGED <<history, started>>

Finish(s, c, roster, now) ==
  /\ CanFinish(s, roster, c)
  /\ Persist(s, Finished(s, c, now), roster, c, now)
  /\ history' = history \cup {s.active[c].id}
  /\ UNCHANGED started

Command(c, roster, now) ==
  LET s == Normalized(db, roster, now) IN
  /\ clock' = now
  /\ \/ AddToQueue(s, c, roster, now)
     \/ PauseLike(s, c, roster, now)
     \/ Resume(s, c, roster, now)
     \/ Start(s, c, roster, now)
     \/ Finish(s, c, roster, now)

Next ==
  \E c \in Consultants, roster \in SUBSET Consultants :
    clock < MaxTime /\ Command(c, roster, clock + 1)

Spec == Init /\ [][Next]_vars

-----------------------------------------------------------------------------
(* Properties *)

TypeOK ==
  /\ db \in Snapshot
  /\ sessions \in Seq(Session)
  /\ history \in SUBSET Ids /\ started \in SUBSET Ids /\ dropped \in SUBSET Ids
  /\ clock \in Time

\* A consultant is waiting, in service or paused, never two of them, whatever
\* the commands and the rosters they found.
OnePlace ==
  /\ Waiting(db) \cap InService(db) = {}
  /\ Waiting(db) \cap Paused(db) = {}
  /\ InService(db) \cap Paused(db) = {}

\* The store never serves more customers at once than its settings allow.
CapRespected == Cardinality(InService(db)) <= MaxServices

\* operation_current_status summarizes the lists.
StatusSummarizes ==
  \A c \in Consultants :
    \/ db.status[c] = NoStatus /\ DerivedStatus(db, c) = "available"
    \/ /\ db.status[c].st = DerivedStatus(db, c)
       /\ db.status[c].since = DerivedSince(db, c, db.status[c].since)

\* Every service that was started is still open, or has its entry in the
\* history, or belonged to a consultant who left the roster; never two of
\* them: a finished service is not opened or finished again.
ServicesAccounted ==
  /\ started = Open(db) \cup history \cup dropped
  /\ Open(db) \cap (history \cup dropped) = {} /\ history \cap dropped = {}
  /\ \A c, d \in InService(db) : db.active[c].id = db.active[d].id => c = d

\* The status sessions of a consultant do not overlap and none reaches into
\* the current status: the reports may add them up.
SessionsAreDisjoint ==
  /\ \A i, j \in 1 .. Len(sessions) :
       i < j /\ sessions[i].who = sessions[j].who => sessions[i].to <= sessions[j].from
  /\ \A i \in 1 .. Len(sessions) :
       LET now == db.status[sessions[i].who] IN
       sessions[i].from <= sessions[i].to /\ (now # NoStatus => sessions[i].to <= now.since)

\* The shop-floor view of the tables.
Place == [c \in Consultants |-> DerivedStatus(db, c)]
Ahead == {pair \in Waiting(db) \X Waiting(db) : db.queue[pair[1]].pos < db.queue[pair[2]].pos}

Board == INSTANCE FilaBoard WITH place <- Place, ahead <- Ahead

\* The commands implement the promise of FilaBoard.
ImplementsBoard == Board!BoardSpec
=============================================================================
