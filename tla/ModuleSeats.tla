----------------------------- MODULE ModuleSeats -----------------------------
(***************************************************************************)
(* The seats of a client in one module of the platform: who of its users    *)
(* has one, against the limit of the client, and the accounts and           *)
(* memberships of those users, here and in another client (domain/core of   *)
(* plataforma-api).                                                         *)
(*                                                                         *)
(* Every statement of a request is a step.  A transaction is READ           *)
(* COMMITTED: a statement sees what others have committed, and waits for a  *)
(* row that another one has written; what it writes is seen when it         *)
(* commits.  A request may fail at any step, as it does when PostgreSQL     *)
(* breaks a deadlock.                                                       *)
(***************************************************************************)
EXTENDS SeatLimits

VARIABLES
  granted,    \* the rows in force, as committed
  admin,     \* admin[r]: a request
  home,      \* history: the client of the last change of a user
  gone,      \* history: users moved to another client and not a member here since
  stray,     \* history: users given a seat while the module or the membership was taken away
  torn       \* history: users whose status was changed by halves, or beside another change

seatVars == <<granted, admin, home, gone, stray, torn>>

Clients == {"here", "there"}
Module  == <<"module", "here">>       \* tenant_modules
Seat(u) == <<"seat", u>>              \* tenant_user_modules
Account(u) == <<"account", u>>        \* users.status
Deleted(u) == <<"deleted", u>>        \* users.deleted_at
Membership(c, u) == <<c, u>>          \* tenant_users
SeatRows == (({"seat", "account", "deleted"} \cup Clients) \X Users) \cup {Module}

Enabled == Module \in granted
Seated  == {u \in Users : Seat(u) \in granted}
InUse   == {u \in Seated : Membership("here", u) \in granted}

Idle == [kind |-> "none", pc |-> "idle", user |-> "none", client |-> "here", on |-> FALSE,
         sets |-> {}, clears |-> {}]

SeatInit ==
  /\ \E us \in SUBSET Users :
       granted = {Module} \cup {Account(u) : u \in us} \cup {Membership("here", u) : u \in us}
  /\ admin = [r \in Admins |-> Idle]
  /\ home = [u \in Users |-> "here"]
  /\ gone = {} /\ stray = {} /\ torn = {}

\* Nobody else has written these rows and not yet committed.
Free(r, rows) == \A x \in Admins \ {r} : rows \cap (admin[x].sets \cup admin[x].clears) = {}

Begins(r, kind, u, c, on, pc) ==
  /\ admin[r].pc = "idle"
  /\ admin' = [admin EXCEPT ![r] = [kind |-> kind, pc |-> pc, user |-> u, client |-> c, on |-> on,
                                    sets |-> {}, clears |-> {}]]
Done(r) == admin' = [admin EXCEPT ![r] = Idle]

\* A statement of a transaction puts the rows in `on' in force and those in `off' out.
After(q, on, off, pc) ==
  [q EXCEPT !.sets = (@ \ off) \cup on, !.clears = (@ \ on) \cup off, !.pc = pc]
Writes(r, on, off, pc) ==
  Free(r, on \cup off) /\ admin' = [admin EXCEPT ![r] = After(admin[r], on, off, pc)]
Goto(r, pc) == Writes(r, {}, {}, pc)
Puts(r, rows, pc) == IF admin[r].on THEN Writes(r, rows, {}, pc) ELSE Writes(r, {}, rows, pc)

-----------------------------------------------------------------------------
(* AssignTenantUserToModule, UnassignTenantUserFromModule *)

\* findActiveTenantModule
Assign(r, u) ==
  /\ Enabled /\ Begins(r, "assign", u, "here", TRUE, "membership")
  /\ UNCHANGED <<granted, home>>

Unassign(r, u) ==
  /\ Enabled /\ Begins(r, "unassign", u, "here", FALSE, "assignment")
  /\ UNCHANGED <<granted, home>>

ReadMembership(r) ==
  /\ admin[r].pc = "membership"
  /\ IF Membership("here", admin[r].user) \in granted THEN Goto(r, "assignment") ELSE Done(r)
  /\ UNCHANGED <<granted, home>>

\* Who has a seat already is told so, whatever the limit, and who has none has none
\* to give up.
ReadAssignment(r) ==
  /\ admin[r].pc = "assignment"
  /\ IF admin[r].on = (admin[r].user \in Seated) THEN Done(r)
     ELSE Goto(r, IF admin[r].on THEN "count" ELSE "write")
  /\ UNCHANGED <<granted, home>>

CountSeats(r) ==
  /\ admin[r].pc = "count"
  /\ IF HasRoom(Cardinality(InUse)) THEN Goto(r, "write") ELSE Done(r)
  /\ UNCHANGED <<granted, home>>

\* upsertAssignment, deactivateAssignment; the second count and the audit entry
\* only decide whether the transaction commits.
WriteSeat(r) ==
  /\ admin[r].pc = "write" /\ Puts(r, {Seat(admin[r].user)}, "commit")
  /\ UNCHANGED <<granted, home>>

-----------------------------------------------------------------------------
(* Users *)

\* getAdminUserByCoreUserID: a deleted user is not found.  An administrator of a
\* client acts in that client; for the platform's, active memberships come first.
Found(u) == Deleted(u) \notin granted
Scopes(u) == LET joined == {c \in Clients : Membership(c, u) \in granted}
             IN  IF joined = {} THEN Clients ELSE joined

\* UpdateAdminUserField "status", ApproveAdminUser and DeleteAdminUser: the user and
\* its client are read first.
ChangeStatus(r, u, c, on) ==
  /\ Found(u) /\ Begins(r, "status", u, c, on, "account")
  /\ UNCHANGED <<granted, home>>

Approve(r, u, c) ==
  /\ Found(u) /\ Begins(r, "approve", u, c, TRUE, "account")
  /\ UNCHANGED <<granted, home>>

Delete(r, u, c) ==
  /\ Found(u) /\ Begins(r, "delete", u, c, FALSE, "account")
  /\ UNCHANGED <<granted, home>>

\* CreateAdminUser, of a new user or again of one the platform has.
CreateUser(r, u) ==
  /\ Begins(r, "create", u, "here", TRUE, "account")
  /\ UNCHANGED <<granted, home>>

\* UpdateAdminUserField "coreTenantId", to a client that is not the one read; the
\* user is to be inactive if the directory rules of that client are not met.
Move(r, u, c, on) ==
  /\ Found(u) /\ \E from \in Scopes(u) : from # c
  /\ Begins(r, "move", u, c, on, "seats")
  /\ UNCHANGED <<granted, home>>

\* Two statements without a transaction.
StatusOfAccount(r) ==
  LET row == {Account(admin[r].user)}
  IN  /\ admin[r].kind = "status" /\ admin[r].pc = "account" /\ Free(r, row)
      /\ granted' = IF admin[r].on THEN granted \cup row ELSE granted \ row
      /\ Goto(r, "member") /\ UNCHANGED home

\* Seeded fault: the membership of another client is changed.
Elsewhere(c, u) == {Membership(d, u) : d \in Clients \ {c}}
Changed(c, u) == {Membership(c, u)}

StatusOfMembership(r) ==
  LET row == Changed(admin[r].client, admin[r].user)
  IN  /\ admin[r].kind = "status" /\ admin[r].pc = "member" /\ Free(r, row)
      /\ granted' = IF admin[r].on THEN granted \cup row ELSE granted \ row
      /\ home' = [home EXCEPT ![admin[r].user] = admin[r].client]
      /\ Done(r)

WriteAccount(r) ==
  LET u == admin[r].user
  IN  /\ admin[r].pc = "account"
      /\ \/ admin[r].kind = "approve" /\ Writes(r, {Account(u)}, {}, "member")
         \/ admin[r].kind = "delete" /\ Writes(r, {Deleted(u)}, {Account(u)}, "member")
         \/ admin[r].kind = "create" /\ Writes(r, {Account(u)}, {Deleted(u)}, "member")
         \/ admin[r].kind = "move" /\ Puts(r, {Account(u)}, "commit")
      /\ UNCHANGED <<granted, home>>

WriteMember(r) ==
  LET row == Changed(admin[r].client, admin[r].user)
  IN  /\ admin[r].pc = "member"
      /\ \/ admin[r].kind = "move" /\ Puts(r, row, "account")
         \/ admin[r].kind = "create" /\ Puts(r, row, "seat")
         \/ admin[r].kind \in {"approve", "delete"} /\ Puts(r, row, "commit")
      /\ UNCHANGED <<granted, home>>

\* An administrator gets a seat of every active module, without a count; others none.
SeatOfAdministrator(r) ==
  /\ admin[r].pc = "seat"
  /\ \/ Enabled /\ Writes(r, {Seat(admin[r].user)}, {}, "commit")
     \/ Goto(r, "commit")
  /\ UNCHANGED <<granted, home>>

\* Every seat of the user is given up, and every membership is suspended.
\* Seeded fault: only the memberships are.
KeepsSeats(u) == {}
GivesUpSeats(u) == {Seat(u)} \cap granted

GiveUpSeats(r) ==
  /\ admin[r].pc = "seats" /\ Writes(r, {}, GivesUpSeats(admin[r].user), "suspend")
  /\ UNCHANGED <<granted, home>>

Suspend(r) ==
  /\ admin[r].pc = "suspend"
  /\ Writes(r, {}, {Membership(c, admin[r].user) : c \in Clients} \cap granted, "member")
  /\ UNCHANGED <<granted, home>>

-----------------------------------------------------------------------------
(* replaceTenantModuleSet *)

ReplaceModules(r, on) ==
  /\ admin[r].pc = "idle" /\ Free(r, {Module})
  /\ admin' = [admin EXCEPT ![r] =
       [kind |-> "replace", pc |-> "sweep", user |-> "none", client |-> "here", on |-> on,
        sets |-> IF on THEN {Module} ELSE {}, clears |-> IF on THEN {} ELSE {Module}]]
  /\ UNCHANGED <<granted, home>>

\* The seats of modules that its first statement disabled, as others have committed
\* them.
SweepSeats(r) ==
  /\ admin[r].pc = "sweep"
  /\ Writes(r, {}, IF admin[r].on THEN {} ELSE {Seat(u) : u \in Seated}, "commit")
  /\ UNCHANGED <<granted, home>>

-----------------------------------------------------------------------------
Commit(r) ==
  /\ admin[r].pc = "commit" /\ Done(r)
  /\ granted' = (granted \ admin[r].clears) \cup admin[r].sets
  /\ home' = IF admin[r].kind \in {"approve", "delete", "create", "move"}
             THEN [home EXCEPT ![admin[r].user] = admin[r].client] ELSE home

Fails(r) == admin[r].pc # "idle" /\ Done(r) /\ UNCHANGED <<granted, home>>

-----------------------------------------------------------------------------
(* What excuses the properties *)

Changes(r, u) == admin[r].user = u /\ admin[r].kind \in {"status", "approve", "delete", "create", "move"}
Halfway(r, u) == admin[r].user = u /\ admin[r].kind = "status" /\ admin[r].pc = "member"

Gives(r, u) == admin[r].user = u /\ (admin[r].kind = "assign" \/ Seat(u) \in admin[r].sets)
Takes(r, u) ==
  \/ admin[r].kind = "replace" /\ ~ admin[r].on
  \/ admin[r].kind = "move" /\ admin[r].user = u /\ admin[r].pc # "seats"

Leaver(r) == IF admin[r].kind = "move" /\ admin[r].client = "there" THEN {admin[r].user} ELSE {}
Cut(r) == {u \in Users : Halfway(r, u)}

\* `leavers' have been moved to another client, `cut' have half a change of status.
History(leavers, cut) ==
  /\ gone' = {u \in gone \cup leavers : Membership("here", u) \notin granted'}
  /\ stray' = {u \in Users :
       \/ (\E r, x \in Admins : Gives(r, u) /\ Takes(x, u))'
       \/ u \in stray /\ (u \in Seated \/ \E r \in Admins : Gives(r, u))'}
  /\ torn' = torn \cup cut \cup {u \in Users :
       (\E r, x \in Admins : r # x /\ Changes(r, u) /\ Changes(x, u) /\ admin[r].kind = "status")'}

Request(r) ==
  \/ \E on \in BOOLEAN : ReplaceModules(r, on)
  \/ \E u \in Users :
       \/ Assign(r, u) \/ Unassign(r, u) \/ CreateUser(r, u)
       \/ \E c \in Clients : \/ Approve(r, u, c) \/ Delete(r, u, c)
                             \/ \E on \in BOOLEAN : ChangeStatus(r, u, c, on) \/ Move(r, u, c, on)

Proceeds(r) ==
  \/ ReadMembership(r) \/ ReadAssignment(r) \/ CountSeats(r) \/ WriteSeat(r)
  \/ StatusOfAccount(r) \/ StatusOfMembership(r)
  \/ WriteAccount(r) \/ WriteMember(r) \/ SeatOfAdministrator(r) \/ GiveUpSeats(r) \/ Suspend(r)
  \/ SweepSeats(r)

SeatNext ==
  \E r \in Admins :
    \/ (Request(r) \/ Proceeds(r)) /\ History({}, {})
    \/ Commit(r) /\ History(Leaver(r), {})
    \/ Fails(r) /\ History({}, Cut(r))

SeatSpec == SeatInit /\ [][SeatNext]_seatVars

\* The limit where nothing but seats changes: every request gives one or gives one up.
SeatsOnlyNext ==
  SeatNext /\ \A r \in Admins : admin'[r].kind \in {"none", "assign", "unassign"}
SeatsOnlySpec == SeatInit /\ [][SeatsOnlyNext]_seatVars

-----------------------------------------------------------------------------
SeatTypeOK ==
  /\ granted \subseteq SeatRows
  /\ home \in [Users -> Clients]
  /\ {gone, stray, torn} \subseteq SUBSET Users
  /\ \A r \in Admins :
       /\ admin[r].pc \in {"idle", "membership", "assignment", "count", "write", "account", "member",
                           "seat", "seats", "suspend", "sweep", "commit"}
       /\ admin[r].kind \notin {"none", "replace"} => admin[r].user \in Users
       /\ admin[r].client \in Clients /\ admin[r].on \in BOOLEAN
       /\ admin[r].sets \subseteq SeatRows /\ admin[r].clears \subseteq SeatRows
       /\ admin[r].sets \cap admin[r].clears = {}
       /\ \A x \in Admins \ {r} : Free(r, admin[r].sets \cup admin[r].clears)

\* "o limite de usuarios do modulo deve ser respeitado ao conceder acesso": no more
\* seats are in use than the limit.
LimitIsRespected == Cardinality(InUse) <= Limit

\* Nobody keeps a seat in a module the client does not have, or after leaving for
\* another client, however requests overlap or fail, unless the seat was being given
\* while the module or the membership was being taken away.
SeatsAreEarned == \A u \in Seated \ stray : Enabled /\ u \notin gone

\* An account is active exactly when the membership is that the last change was about,
\* although requests write the two in opposite orders, read the user before they begin
\* and fail, unless a change of the status, which is no transaction, was cut in half or
\* met another change.
AccountsFollowMembers ==
  \A u \in Users \ torn :
    (\A r \in Admins : ~ Halfway(r, u)) =>
      (Account(u) \in granted <=> Membership(home[u], u) \in granted)
=============================================================================
