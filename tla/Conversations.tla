---------------------------- MODULE Conversations ----------------------------
(***************************************************************************)
(* The conversation of one contact with a tenant: the rows that stand for  *)
(* it, how requests create and find them, and how the reconciliation every *)
(* request starts with (ensureTenantWhatsAppRegistry) turns a row of scope *)
(* "default" into one of the tenant's instance, merging it with the row    *)
(* that is already there.  Only rows of the instance are shown to          *)
(* operators; rows of scope "default" come from before the instances, and  *)
(* from the contact list, which opens a conversation without a scope.      *)
(*                                                                         *)
(* A request is one await at a time; the merge is a READ COMMITTED         *)
(* transaction that moves messages, rewrites the row that stays and        *)
(* deletes the other.  A request that throws answers with 500.             *)
(***************************************************************************)
EXTENDS Naturals, FiniteSets

CONSTANTS
  Rows,      \* identifiers of conversation rows
  NoRow,
  Calls,     \* requests and webhooks; the name is also that of its message
  Old,       \* a message from before the instances
  Operators, Nobody

ConvConstants == NoRow \notin Rows /\ Old \notin Calls /\ IsFiniteSet(Calls)

VARIABLES
  scope,    \* scope[c]: the instance's, "default", or that there is no such row
  assigned, \* assigned[c]: assignedToId
  last,     \* last[c]: lastMessageAt
  place,    \* place[m]: the conversation of message m
  stored,   \* messages stored
  call,     \* call[r]: a request
  now,
  answering, \* history: the operator that was assigned last
  raced,     \* history: an assignment came between a merge's reading and its end
  disturbed  \* history: merges during which another request took a step

conversations == <<scope, assigned, last>>
convVars == <<conversations, place, stored, call, now, answering, raced, disturbed>>

Kinds  == {"webhook", "create", "open", "send", "assign"}
Exists(c) == scope[c] \in {"default", "instance"}
InScope(s) == {c \in Rows : scope[c] = s}
AtRest == [kind |-> "none", pc |-> "idle", row |-> NoRow, seen |-> {}, stays |-> NoRow,
            goes |-> NoRow, shape |-> Nobody, latest |-> 0, moved |-> {}]

\* Nothing yet, or a conversation from before the instances, perhaps assigned.
ConvInit ==
  /\ \E c \in Rows \cup {NoRow}, o \in Operators \cup {Nobody} :
       /\ scope = [x \in Rows |-> IF x = c THEN "default" ELSE "unused"]
       /\ assigned = [x \in Rows |-> IF x = c THEN o ELSE Nobody]
       /\ place = [m \in Calls \cup {Old} |-> IF m = Old THEN c ELSE NoRow]
       /\ stored = IF c = NoRow THEN {} ELSE {Old}
       /\ answering = IF c = NoRow THEN Nobody ELSE o
  /\ last = [c \in Rows |-> 0] /\ now = 0
  /\ call = [r \in Calls |-> AtRest]
  /\ raced = FALSE /\ disturbed = {}

Merging(r) == call[r].pc \in {"scoped", "move", "rewrite"}

\* Request r moves on; every merge of another one is disturbed.
Goes(r, to) ==
  /\ call' = [call EXCEPT ![r] = to]
  /\ disturbed' = disturbed \cup {x \in Calls \ {r} : Merging(x)}
To(pc, r) == [call[r] EXCEPT !.pc = pc]
Ends(r)   == Goes(r, [AtRest EXCEPT !.pc = "done"])
Throws(r) == Goes(r, [AtRest EXCEPT !.pc = "failed"])

\* A request comes; sending and assigning name a row the panel once saw.
Begin(r, kind) ==
  /\ call[r].pc = "idle"
  /\ \E c \in IF kind \in {"send", "assign"} THEN {x \in Rows : scope[x] # "unused"} ELSE {NoRow} :
       Goes(r, [AtRest EXCEPT !.kind = kind, !.row = c,
                               !.pc = IF kind = "open" THEN "find" ELSE "legacy"])
  /\ UNCHANGED <<conversations, place, stored, now, answering, raced>>

-----------------------------------------------------------------------------
(* The reconciliation *)

Candidate(c) == [row |-> c, count |-> Cardinality({m \in stored : place[m] = c}),
                 last |-> last[c], assigned |-> assigned[c]]

\* compareConversationCanonical, as far as the rows of this model can differ.
Canonical(S) ==
  CHOOSE k \in S : \A x \in S : k.count > x.count \/ (k.count = x.count /\ k.last >= x.last)

\* mergeConversationShape: the assignment of the row that stays, or else of the other.
\* Seeded fault: the assignment of the row that was active last.
ShapeOfLatest(S) == (CHOOSE k \in S : \A x \in S : k.last >= x.last).assigned
Shape(S) ==
  IF Canonical(S).assigned # Nobody THEN Canonical(S).assigned
  ELSE IF \E k \in S : k.assigned # Nobody THEN (CHOOSE k \in S : k.assigned # Nobody).assigned
       ELSE Nobody

Latest(S) == CHOOSE n \in {k.last : k \in S} : \A k \in S : n >= k.last

\* The rows without an instance, which the query reads too, are taken to be those of
\* scope "default".
ReadLegacy(r) ==
  /\ call[r].pc = "legacy"
  /\ IF InScope("default") = {} THEN Goes(r, To("act", r))
     ELSE Goes(r, [To("scoped", r) EXCEPT !.seen = {Candidate(c) : c \in InScope("default")}])
  /\ UNCHANGED <<conversations, place, stored, now, answering, raced>>

ReadScoped(r) ==
  LET there == {Candidate(c) : c \in InScope("instance")}
      all   == there \cup {k \in call[r].seen : k.row \notin InScope("instance")}
      stays == Canonical(all).row
      goes  == {k.row : k \in all} \ {stays}
  IN  /\ call[r].pc = "scoped"
      /\ Goes(r, [To("move", r) EXCEPT !.seen = {}, !.stays = stays, !.shape = Shape(all), !.latest = Latest(all),
                    !.goes = IF goes = {} THEN NoRow ELSE CHOOSE c \in goes : TRUE])
      /\ UNCHANGED <<conversations, place, stored, now, answering, raced>>

\* The transaction begins: the messages of the row that goes are moved, as far as
\* they are there now.  It waits for a transaction that moves the same, and a row
\* that is gone takes none.
ToMove(c) == {m \in stored : place[m] = c}

MoveMessages(r) ==
  LET moved == ToMove(call[r].goes)
  IN  /\ call[r].pc = "move"
      /\ \A x \in Calls \ {r} : call[x].pc = "rewrite" => call[x].moved \cap moved = {}
      /\ IF moved # {} /\ ~ Exists(call[r].stays) THEN Throws(r)
         ELSE Goes(r, [To("rewrite", r) EXCEPT !.moved = moved])
      /\ UNCHANGED <<conversations, place, stored, now, answering, raced>>

\* Another transaction has moved messages to the row this one deletes.
Blocked(r) ==
  \E x \in Calls \ {r} : call[x].pc = "rewrite" /\ call[x].moved # {} /\ call[x].stays = call[r].goes

\* The row that stays takes the instance's scope while the other still has it, or
\* is gone: the transaction is rolled back.
\* Seeded fault: the other row is deleted first.
DeletesFirst(r) ==
  \/ ~ Exists(call[r].stays)
  \/ InScope("instance") \ {call[r].stays, call[r].goes} # {} /\ scope[call[r].stays] # "instance"
CannotRewrite(r) ==
  \/ ~ Exists(call[r].stays)
  \/ InScope("instance") \ {call[r].stays} # {} /\ scope[call[r].stays] # "instance"

\* The rewrite, the deletion (messages that are still there go too) and the commit.
Rewrite(r) ==
  LET q == call[r]
      gone == {q.goes} \ {NoRow}
  IN  /\ q.pc = "rewrite" /\ ~ CannotRewrite(r) /\ ~ Blocked(r)
      /\ scope' = [c \in Rows |-> IF c = q.stays THEN "instance"
                                  ELSE IF c \in gone /\ Exists(c) THEN "gone" ELSE scope[c]]
      /\ assigned' = [assigned EXCEPT ![q.stays] = q.shape]
      /\ last' = [last EXCEPT ![q.stays] = q.latest]
      /\ place' = [m \in DOMAIN place |-> IF m \in q.moved THEN q.stays
                                          ELSE IF place[m] \in gone THEN NoRow ELSE place[m]]
      /\ Goes(r, [q EXCEPT !.pc = "act", !.stays = NoRow, !.goes = NoRow, !.shape = Nobody,
                           !.latest = 0, !.moved = {}])
      /\ UNCHANGED <<stored, now, answering, raced>>

MergeThrows(r) ==
  /\ call[r].pc = "rewrite"
  /\ CannotRewrite(r) \/ (Blocked(r) /\ \E x \in Calls \ {r} : Blocked(x))
  /\ Throws(r)
  /\ UNCHANGED <<conversations, place, stored, now, answering, raced>>

-----------------------------------------------------------------------------
(* What the request is for *)

Unused == {c \in Rows : scope[c] = "unused"}

\* The unique key refuses a second row of a scope.
Refused(s) == InScope(s) # {}

Creates(r, s, next) ==
  IF Refused(s) THEN Throws(r) /\ UNCHANGED <<scope, last, now>>
  ELSE \E c \in Unused :
         /\ scope' = [scope EXCEPT ![c] = s]
         /\ last' = [last EXCEPT ![c] = now + 1] /\ now' = now + 1
         /\ Goes(r, [next EXCEPT !.row = c])

\* resolveMessageUpsertContext: the row is looked up, WhatsApp is asked for names
\* and pictures, and the row is updated or created.  POST /conversations does the same
\* without WhatsApp: Prisma carries out an upsert that reads messages, too, as a SELECT
\* and an INSERT or UPDATE.
LookUp(r) ==
  /\ call[r].pc = "act" /\ call[r].kind \in {"webhook", "create"}
  /\ \E c \in IF InScope("instance") = {} THEN {NoRow} ELSE InScope("instance") :
       Goes(r, [To("upsert", r) EXCEPT !.row = c])
  /\ UNCHANGED <<conversations, place, stored, now, answering, raced>>

\* The row is created, or updated in what is not modelled, and the request goes on.
Ensures(r, next) ==
  LET c == call[r].row
  IN  /\ call[r].pc = "upsert"
      /\ IF c = NoRow THEN Creates(r, "instance", next)
         ELSE (IF Exists(c) THEN Goes(r, next) ELSE Throws(r)) /\ UNCHANGED <<scope, last, now>>
      /\ UNCHANGED <<assigned, place, stored, answering, raced>>

Upsert(r) == call[r].kind = "webhook" /\ Ensures(r, To("store", r))
Create(r) == call[r].kind = "create" /\ Ensures(r, [AtRest EXCEPT !.pc = "done"])

\* Opening a conversation from the contact list looks for a row of any scope, and
\* creates one without a scope.
Find(r) ==
  /\ call[r].pc = "find"
  /\ IF \E c \in Rows : Exists(c) THEN Ends(r) ELSE Goes(r, To("open", r))
  /\ UNCHANGED <<conversations, place, stored, now, answering, raced>>

OpenConversation(r) ==
  /\ call[r].pc = "open"
  /\ Creates(r, "default", [AtRest EXCEPT !.pc = "done"])
  /\ UNCHANGED <<assigned, place, stored, answering, raced>>

FindById(r) ==
  /\ call[r].pc = "act" /\ call[r].kind \in {"send", "assign"}
  /\ IF scope[call[r].row] = "instance"
     THEN Goes(r, To(IF call[r].kind = "send" THEN "store" ELSE "assign", r))
     ELSE Ends(r)
  /\ UNCHANGED <<conversations, place, stored, now, answering, raced>>

\* The message is created; its foreign key refuses a row that is gone.
Store(r) ==
  LET c == call[r].row
  IN  /\ call[r].pc = "store"
      /\ IF Exists(c)
         THEN stored' = stored \cup {r} /\ place' = [place EXCEPT ![r] = c] /\ Goes(r, To("stamp", r))
         ELSE Throws(r) /\ UNCHANGED <<stored, place>>
      /\ UNCHANGED <<conversations, now, answering, raced>>

\* The row is stamped afterwards; it may be gone by then, and its message elsewhere.
Stamp(r) ==
  /\ call[r].pc = "stamp"
  /\ IF Exists(call[r].row)
     THEN last' = [last EXCEPT ![call[r].row] = now + 1] /\ now' = now + 1 /\ Ends(r)
     ELSE Throws(r) /\ UNCHANGED <<last, now>>
  /\ UNCHANGED <<scope, assigned, place, stored, answering, raced>>

AssignTo(r, o) ==
  LET c == call[r].row
  IN  /\ call[r].pc = "assign"
      /\ IF Exists(c)
         THEN /\ assigned' = [assigned EXCEPT ![c] = o] /\ answering' = o
              /\ raced' = (raced \/ \E x \in Calls : Merging(x))
              /\ Ends(r)
         ELSE Throws(r) /\ UNCHANGED <<assigned, answering, raced>>
      /\ UNCHANGED <<scope, last, place, stored, now>>

ConvNext ==
  \E r \in Calls :
    \/ \E kind \in Kinds : Begin(r, kind)
    \/ ReadLegacy(r) \/ ReadScoped(r) \/ MoveMessages(r) \/ Rewrite(r) \/ MergeThrows(r)
    \/ LookUp(r) \/ Upsert(r) \/ Create(r) \/ Find(r) \/ OpenConversation(r) \/ FindById(r)
    \/ Store(r) \/ Stamp(r) \/ \E o \in Operators \cup {Nobody} : AssignTo(r, o)

ConvSpec == ConvInit /\ [][ConvNext]_convVars

-----------------------------------------------------------------------------
\* Every state is typed, and a scope has one row.
ConvTypeOK ==
  /\ scope \in [Rows -> {"unused", "default", "instance", "gone"}]
  /\ \A s \in {"default", "instance"} : Cardinality(InScope(s)) <= 1
  /\ assigned \in [Rows -> Operators \cup {Nobody}] /\ last \in [Rows -> Nat]
  /\ place \in [Calls \cup {Old} -> Rows \cup {NoRow}]
  /\ stored \subseteq Calls \cup {Old} /\ now \in Nat
  /\ answering \in Operators \cup {Nobody} /\ raced \in BOOLEAN /\ disturbed \subseteq Calls
  /\ \A r \in Calls :
       /\ call[r].kind \in Kinds \cup {"none"}
       /\ {call[r].row, call[r].stays, call[r].goes} \subseteq Rows \cup {NoRow}
       /\ call[r].moved \subseteq Calls \cup {Old}

\* A message that was stored stays in a conversation, and one that a request stored
\* is where operators see it, although merges move messages and delete rows at the
\* same time: no deletion takes a message with it.
StoredIsVisible ==
  /\ \A m \in stored : place[m] \in Rows /\ Exists(place[m])
  /\ \A m \in stored \ {Old} : scope[place[m]] = "instance"

\* The operator assigned last stays assigned, through every merge, unless the
\* assignment came between a merge's reading of the rows and its end.
AssignmentStays ==
  raced \/ answering = Nobody \/ \E c \in Rows : Exists(c) /\ assigned[c] = answering

\* "duplicatas antigas por externalId + channel + scope sao consolidadas": a merge
\* that nothing disturbed does not fail.
DuplicatesAreConsolidated ==
  \A r \in Calls \ disturbed : call[r].pc = "rewrite" => ~ CannotRewrite(r)
=============================================================================
