--------------------------- MODULE FilaConcurrent ---------------------------
(***************************************************************************)
(* The commands of the operations module as the API process runs them:     *)
(* every HTTP request loads the store with one query per table and no      *)
(* transaction, computes the next snapshot in memory, and replaces the     *)
(* four current-state tables in one READ COMMITTED transaction, a DELETE   *)
(* and the INSERTs of each table in turn.  Nothing else orders the         *)
(* requests of a store.                                                    *)
(*                                                                         *)
(* Row locks follow PostgreSQL: a DELETE works on the rows it saw when it  *)
(* began and waits for a transaction that has deleted one of them; an      *)
(* INSERT waits for a transaction that has deleted or inserted its key and *)
(* fails when a row with that key remains.                                 *)
(***************************************************************************)
EXTENDS FilaOperations

CONSTANTS Requests, NoRequest,
          Commands,  \* the commands that are sent
          Rosters    \* the rosters the directory may give

ASSUME RequestsAssumption ==
  /\ IsFiniteSet(Requests)
  /\ Commands \subseteq {"queue", "pause", "resume", "start", "finish"}
  /\ Rosters \subseteq SUBSET Consultants

VARIABLE rq  \* rq[r]: an HTTP request in progress; the rest is what is committed

requestVars == <<vars, rq>>

Tables == <<"queue", "active", "paused", "status">>

Idle == [pc |-> "idle", cmd |-> "none", who |-> NoRequest, roster |-> {}, k |-> 1,
         snap |-> EmptyStore, next |-> EmptyStore, last |-> <<>>, append |-> <<>>,
         close |-> {}, id |-> 0, now |-> 0,
         del |-> [t \in {"queue", "active", "paused", "status"} |-> {}], ins |-> {}, seen |-> {}]

RequestsInit == Init /\ rq = [r \in Requests |-> Idle]

Rows(s, t) == {c \in Consultants : s[t][c] # EmptyStore[t][c]}

Table(r) == Tables[rq[r].k]

-----------------------------------------------------------------------------
(* Loading *)

Busy == {r \in Requests : rq[r].pc # "idle"}

\* The bound on the clock leaves every accepted request a moment of its own.
Receive(r, cmd, c) ==
  /\ rq[r].pc = "idle"
  /\ clock + Cardinality(Busy) < MaxTime
  /\ rq' = [rq EXCEPT ![r] = [Idle EXCEPT !.pc = "roster", !.cmd = cmd, !.who = c]]
  /\ UNCHANGED vars

\* ListRoster synchronizes with the directory first: any roster may result.
LoadRoster(r) ==
  /\ rq[r].pc = "roster"
  /\ \E roster \in Rosters :
       rq' = [rq EXCEPT ![r].pc = "load", ![r].roster = roster]
  /\ UNCHANGED vars

LoadTable(r) ==
  /\ rq[r].pc = "load"
  /\ rq' = [rq EXCEPT ![r].snap[Table(r)] = db[Table(r)],
                      ![r].k = IF @ = Len(Tables) THEN 1 ELSE @ + 1,
                      ![r].pc = IF rq[r].k = Len(Tables) THEN "sessions" ELSE "load"]
  /\ UNCHANGED vars

\* The last session in the order of started_at, then of insertion.
LastSession ==
  LET latest(i) == \A j \in 1 .. Len(sessions) :
        sessions[j].from < sessions[i].from \/ (sessions[j].from = sessions[i].from /\ j <= i)
  IN  IF sessions = <<>> THEN <<>>
      ELSE <<sessions[CHOOSE i \in 1 .. Len(sessions) : latest(i)]>>

LoadSessions(r) ==
  /\ rq[r].pc = "sessions"
  /\ rq' = [rq EXCEPT ![r].pc = "apply", ![r].last = LastSession]
  /\ UNCHANGED vars

-----------------------------------------------------------------------------
(* Computing *)

\* A request that is not allowed answers without persisting, or with an error.
Allowed(req, s) ==
  CASE req.cmd = "queue"  -> CanQueue(s, req.roster, req.who)
    [] req.cmd = "pause"  -> CanPause(s, req.roster, req.who)
    [] req.cmd = "resume" -> CanResume(s, req.roster, req.who)
    [] req.cmd = "start"  -> CanStart(s, req.roster, req.who)
    [] req.cmd = "finish" -> CanFinish(s, req.roster, req.who)

Result(req, s, id, now) ==
  CASE req.cmd = "queue"  -> Queued(s, req.who, now)
    [] req.cmd = "pause"  -> PausedNow(s, req.who, now)
    [] req.cmd = "resume" -> Resumed(s, req.who, now)
    [] req.cmd = "start"  -> Started(s, req.who, id, now)
    [] req.cmd = "finish" -> Finished(s, req.who, now)

\* createServiceID: the consultant, the second and three random bytes.  Which of
\* the unused ids it gives says nothing; MaxIds bounds them.
FreshIds == Ids \ (started \cup {rq[x].id : x \in Requests})
FreshId  == CHOOSE i \in FreshIds : TRUE

\* persistAndAck appends the last session it has: the one the command closed,
\* or, when the status did not change, the last one that was loaded.
Apply(r) ==
  LET now  == clock + 1
      c    == rq[r].who
      s    == Normalized(rq[r].snap, rq[r].roster, now)
      id   == IF rq[r].cmd = "start" THEN FreshId ELSE 0
      next == Result(rq[r], s, id, now) IN
  /\ rq[r].pc = "apply"
  /\ rq[r].cmd = "start" => FreshIds # {}
  /\ IF Allowed(rq[r], s)
     THEN rq' = [rq EXCEPT ![r].pc = "delete", ![r].next = next, ![r].id = id, ![r].now = now,
                   ![r].append = IF next.status[c] = s.status[c] THEN rq[r].last
                                 ELSE <<ClosedSession(s, c, now)>>,
                   ![r].close = IF rq[r].cmd = "finish" THEN {s.active[c].id} ELSE {}]
     ELSE rq' = [rq EXCEPT ![r] = Idle]
  /\ UNCHANGED vars

-----------------------------------------------------------------------------
(* The transaction *)

Inserted(x, t)        == IF t \in rq[x].ins THEN Rows(rq[x].next, t) ELSE {}
DeletedByOthers(r, t) == UNION {rq[x].del[t] : x \in Requests \ {r}}

\* The transactions whose row locks r waits for, once its DELETE has begun.
WaitsFor(r) ==
  {x \in Requests \ {r} :
     /\ rq[r].pc = "insert"
     /\ LET t == Table(r) IN
        \/ rq[r].seen \cap rq[x].del[t] # {}
        \/ Rows(rq[r].next, t) \cap (rq[x].del[t] \cup Inserted(x, t)) # {}}

\* The DELETE begins: it locks the rows it sees that nobody else has deleted.
DeleteRows(r) ==
  LET t == Table(r) IN
  /\ rq[r].pc = "delete"
  /\ rq' = [rq EXCEPT ![r].pc = "insert", ![r].seen = Rows(db, t),
                      ![r].del[t] = Rows(db, t) \ DeletedByOthers(r, t)]
  /\ UNCHANGED vars

Inserts(r, t) ==
  rq' = [rq EXCEPT ![r].del[t] = rq[r].seen, ![r].ins = @ \cup {t}, ![r].seen = {},
                   ![r].k = IF @ = Len(Tables) THEN 1 ELSE @ + 1,
                   ![r].pc = IF rq[r].k = Len(Tables) THEN "commit" ELSE "delete"]

KeyRemains(r, t) == Rows(rq[r].next, t) \cap (Rows(db, t) \ rq[r].seen) # {}

\* Seeded fault: the failed transaction is not rolled back.
InsertRowsLeaks(r) ==
  /\ rq[r].pc = "insert" /\ WaitsFor(r) = {}
  /\ IF KeyRemains(r, Table(r)) THEN rq' = [rq EXCEPT ![r].pc = "idle"] ELSE Inserts(r, Table(r))
  /\ UNCHANGED vars

\* It ends once the transactions it waits for have; then come the INSERTs.  A
\* key that is still there ends the request with an error.
InsertRows(r) ==
  /\ rq[r].pc = "insert" /\ WaitsFor(r) = {}
  /\ IF KeyRemains(r, Table(r)) THEN rq' = [rq EXCEPT ![r] = Idle] ELSE Inserts(r, Table(r))
  /\ UNCHANGED vars

\* PostgreSQL ends one of the transactions that wait for each other.
DeadlockVictim(r) ==
  /\ \E S \in SUBSET Requests : r \in S /\ \A x \in S : WaitsFor(x) \cap S # {}
  /\ rq' = [rq EXCEPT ![r] = Idle]
  /\ UNCHANGED vars

\* Seeded fault: the rows are inserted without the DELETE.
MergedKeepsRows(r, t) ==
  [c \in Consultants |-> IF c \in Rows(rq[r].next, t) THEN rq[r].next[t][c] ELSE db[t][c]]

Merged(r, t) ==
  [c \in Consultants |-> IF c \in Rows(rq[r].next, t) THEN rq[r].next[t][c]
                         ELSE IF c \in rq[r].del[t] THEN EmptyStore[t][c] ELSE db[t][c]]

\* Rows this transaction replaced are gone for the DELETEs that wait for it.
Commit(r) ==
  /\ rq[r].pc = "commit"
  /\ db' = [t \in DOMAIN db |-> Merged(r, t)]
  /\ sessions' = sessions \o rq[r].append
  /\ history' = history \cup rq[r].close
  /\ clock' = IF rq[r].now > clock THEN rq[r].now ELSE clock
  /\ started' = started \cup ({rq[r].id} \ {0})
  /\ dropped' = dropped \cup {db.active[x].id : x \in InService(db) \ rq[r].roster}
  /\ rq' = [x \in Requests |-> IF x = r THEN Idle
              ELSE [rq[x] EXCEPT !.seen = @ \ rq[r].del[Table(x)]]]

\* The connection, the database or the process fails: rollback.
RequestFails(r) ==
  /\ rq[r].pc # "idle"
  /\ rq' = [rq EXCEPT ![r] = Idle]
  /\ UNCHANGED vars

-----------------------------------------------------------------------------

Step(r) ==
  \/ LoadRoster(r) \/ LoadTable(r) \/ LoadSessions(r) \/ Apply(r)
  \/ DeleteRows(r) \/ InsertRows(r) \/ DeadlockVictim(r) \/ Commit(r)

RequestsNext ==
  \E r \in Requests :
    \/ \E cmd \in Commands, c \in Consultants : Receive(r, cmd, c)
    \/ Step(r) \/ RequestFails(r)

RequestsSpec == RequestsInit /\ [][RequestsNext]_requestVars

\* The server runs a request it has accepted to its end, and a transaction that
\* waits for a row lock has it before one that asks later.
FairRequestsSpec ==
  /\ RequestsSpec
  /\ \A r \in Requests : WF_requestVars(Step(r)) /\ SF_requestVars(InsertRows(r))

-----------------------------------------------------------------------------
(* Properties *)

\* Commands that do not overlap are the atomic commands of FilaOperations,
\* failures included: the four tables, the session and the history entry of a
\* command appear together or not at all.
ImplementsOperations == Spec

\* operation_active_services holds the services in progress: one that was
\* started stays there until it is finished or its consultant leaves.
OpenServicesStay == started \subseteq Open(db) \cup history \cup dropped

\* No request waits for ever on the rows of another: whatever ends a
\* transaction releases them, and a cycle of waits (three commands make one,
\* when the second commits between a DELETE and an INSERT of the first and the
\* third then deletes what it wrote) costs one of them an error.
RequestsEnd == \A r \in Requests : r \in Busy ~> r \notin Busy
=============================================================================
