-------------------------- MODULE ModuleSeatsProofs --------------------------
(***************************************************************************)
(* What ModuleSeats keeps for any users, limit and requests: types, seats   *)
(* that are earned and accounts that follow memberships.  The limit is not  *)
(* among them: two assignments that count before either commits pass it.    *)
(***************************************************************************)
EXTENDS ModuleSeats, TLAPS

Places == {"idle", "membership", "assignment", "count", "write", "account", "member", "seat",
           "seats", "suspend", "sweep", "commit"}
Asked  == [kind : {"none", "assign", "unassign", "status", "approve", "delete", "create", "move",
                   "replace"},
           pc : Places, user : Users \cup {"none"}, client : Clients, on : BOOLEAN,
           sets : SUBSET SeatRows, clears : SUBSET SeatRows]

SeatsOf(us) == {Seat(u) : u \in us}
Memberships(u) == {Membership(c, u) : c \in Clients}

\* What a request has written, by its kind and where it is.
Shape(q) ==
  LET u == q.user
      a == Account(u)
      m == Membership(q.client, u)
  IN  /\ q.kind = "none" => q.sets = {} /\ q.clears = {} /\ q.pc = "idle"
      /\ q.kind = "assign" =>
           /\ q.pc \in {"membership", "assignment", "count", "write", "commit"} /\ q.on
           /\ q.clears = {} /\ q.sets = IF q.pc = "commit" THEN {Seat(u)} ELSE {}
      /\ q.kind = "unassign" =>
           /\ q.pc \in {"assignment", "write", "commit"} /\ ~ q.on
           /\ q.sets = {} /\ q.clears = IF q.pc = "commit" THEN {Seat(u)} ELSE {}
      /\ q.kind = "status" => q.pc \in {"account", "member"} /\ q.sets = {} /\ q.clears = {}
      /\ q.kind = "approve" =>
           /\ q.pc \in {"account", "member", "commit"} /\ q.on /\ q.clears = {}
           /\ q.pc = "account" => q.sets = {}
           /\ q.pc = "member" => q.sets = {a}
           /\ q.pc = "commit" => q.sets = {a, m}
      /\ q.kind = "delete" =>
           /\ q.pc \in {"account", "member", "commit"} /\ ~ q.on
           /\ q.pc = "account" => q.sets = {} /\ q.clears = {}
           /\ q.pc = "member" => q.sets = {Deleted(u)} /\ q.clears = {a}
           /\ q.pc = "commit" => q.sets = {Deleted(u)} /\ q.clears = {a, m}
      /\ q.kind = "create" =>
           /\ q.pc \in {"account", "member", "seat", "commit"} /\ q.on /\ q.client = "here"
           /\ q.pc = "account" => q.sets = {} /\ q.clears = {}
           /\ q.pc # "account" => q.clears = {Deleted(u)}
           /\ q.pc = "member" => q.sets = {a}
           /\ q.pc = "seat" => q.sets = {a, m}
           /\ q.pc = "commit" => {a, m} \subseteq q.sets /\ q.sets \subseteq {a, m, Seat(u)}
      /\ q.kind = "move" =>
           /\ q.pc \in {"seats", "suspend", "member", "account", "commit"}
           /\ q.pc = "seats" => q.sets = {} /\ q.clears = {}
           /\ q.pc \in {"suspend", "member"} => q.sets = {}
           /\ q.pc = "account" => IF q.on THEN q.sets = {m} ELSE q.sets = {} /\ m \in q.clears
           /\ q.pc = "commit" => IF q.on THEN q.sets = {m, a} ELSE q.sets = {} /\ {m, a} \subseteq q.clears
           /\ q.clears \subseteq {Seat(u), a} \cup Memberships(u)
      /\ q.kind = "replace" =>
           /\ q.pc \in {"sweep", "commit"}
           /\ IF q.on THEN q.sets = {Module} /\ q.clears = {}
              ELSE q.sets = {} /\ Module \in q.clears /\ q.clears \subseteq {Module} \cup SeatsOf(Users)

\* A request that could be made: its rows, and its user if it has one.
Sound(q) ==
  /\ q \in Asked /\ Shape(q) /\ q.sets \cap q.clears = {}
  /\ q.kind \notin {"none", "replace"} => q.user \in Users

\* Inductive: requests are sound, and nobody writes a row that another one has written.
Typed ==
  /\ granted \in SUBSET SeatRows /\ home \in [Users -> Clients]
  /\ gone \in SUBSET Users /\ stray \in SUBSET Users /\ torn \in SUBSET Users
  /\ admin \in [Admins -> Asked]
  /\ \A r \in Admins : Sound(admin[r]) /\ Free(r, admin[r].sets \cup admin[r].clears)

-----------------------------------------------------------------------------
(* Rows *)

OwnRows ==
  /\ Module \in SeatRows
  /\ \A u \in Users : Seat(u) \in SeatRows /\ Account(u) \in SeatRows /\ Deleted(u) \in SeatRows
  /\ \A c \in Clients : \A u \in Users : Membership(c, u) \in SeatRows

OtherRows ==
  /\ \A u \in Users : Seat(u) # Module /\ Account(u) # Module /\ Deleted(u) # Module
  /\ \A u, v \in Users : /\ Seat(u) # Account(v) /\ Seat(u) # Deleted(v) /\ Account(u) # Deleted(v)
                         /\ Seat(u) = Seat(v) => u = v
                         /\ Account(u) = Account(v) => u = v
  /\ \A c \in Clients : \A u \in Users : Membership(c, u) # Module
  /\ \A c \in Clients : \A u, v \in Users :
       Membership(c, u) # Seat(v) /\ Membership(c, u) # Account(v) /\ Membership(c, u) # Deleted(v)
  /\ \A c, d \in Clients : \A u, v \in Users : Membership(c, u) = Membership(d, v) => c = d /\ u = v

\* The rows are rows, and no two are the same.
LEMMA Rows == OwnRows /\ OtherRows
<1>1. OwnRows BY DEF OwnRows, Module, Seat, Account, Deleted, Membership, SeatRows
<1>2. OtherRows BY DEF OtherRows, Module, Seat, Account, Deleted, Membership, Clients
<1> QED BY <1>1, <1>2

\* What a request becomes by a statement.
Becomes(n, q, on, off, pc) ==
  /\ n.kind = q.kind /\ n.user = q.user /\ n.client = q.client /\ n.on = q.on /\ n.pc = pc
  /\ n.sets = (q.sets \ off) \cup on /\ n.clears = (q.clears \ on) \cup off

LEMMA AfterFields ==
  ASSUME NEW q \in Asked, NEW on \in SUBSET SeatRows, NEW off \in SUBSET SeatRows,
         NEW pc \in Places, on \cap off = {}, q.sets \cap q.clears = {}
  PROVE  /\ After(q, on, off, pc) \in Asked
         /\ After(q, on, off, pc).sets \cap After(q, on, off, pc).clears = {}
         /\ Becomes(After(q, on, off, pc), q, on, off, pc)
<1> DEFINE s == (q.sets \ off) \cup on
           f == (q.clears \ on) \cup off
           n == [q EXCEPT !.sets = s, !.clears = f, !.pc = pc]
<1>1. s \in SUBSET SeatRows /\ f \in SUBSET SeatRows BY DEF Asked
<1>2. After(q, on, off, pc) = n BY DEF After, Asked
<1>3. s \cap f = {} OBVIOUS
<1> HIDE DEF s, f
<1>4. n \in Asked /\ n.kind = q.kind /\ n.user = q.user /\ n.client = q.client /\ n.on = q.on
        /\ n.pc = pc /\ n.sets = s /\ n.clears = f
  BY <1>1 DEF Asked
<1> HIDE DEF n
<1> QED BY <1>2, <1>3, <1>4 DEF s, f, Becomes

LEMMA IdleIsSound == Sound(Idle)
  BY Rows DEF Sound, Idle, Asked, Places, Shape, Clients

-----------------------------------------------------------------------------
(* One request moves *)

\* Types are kept when one request becomes another sound one that respects the rows
\* of the others.
LEMMA OneRequest ==
  ASSUME Typed, NEW r \in Admins, NEW q, Sound(q), Free(r, q.sets \cup q.clears),
         admin' = [admin EXCEPT ![r] = q],
         granted' \in SUBSET SeatRows, home' \in [Users -> Clients],
         gone' \in SUBSET Users, stray' \in SUBSET Users, torn' \in SUBSET Users
  PROVE  Typed'
<1>1. q \in Asked BY DEF Sound
<1>2. admin' \in [Admins -> Asked] BY <1>1 DEF Typed
<1>3. \A x \in Admins : admin'[x] = IF x = r THEN q ELSE admin[x] BY DEF Typed
<1>4. \A x \in Admins : Sound(admin'[x]) BY <1>3 DEF Typed
<1>5. ASSUME NEW x \in Admins, NEW y \in Admins \ {x}
      PROVE  (admin'[x].sets \cup admin'[x].clears) \cap (admin'[y].sets \cup admin'[y].clears) = {}
  <2>1. CASE x # r /\ y # r BY <2>1, <1>3 DEF Typed, Free
  <2>2. CASE x = r BY <2>2, <1>3 DEF Free
  <2>3. CASE y = r BY <2>3, <1>3 DEF Free
  <2> QED BY <2>1, <2>2, <2>3
<1>6. \A x \in Admins : Free(x, admin[x].sets \cup admin[x].clears)' BY <1>5 DEF Free
<1> QED BY <1>2, <1>4, <1>6 DEF Typed

LEMMA HistoryTyped ==
  ASSUME Typed, NEW leavers \in SUBSET Users, NEW cut \in SUBSET Users, History(leavers, cut)
  PROVE  /\ gone' \in SUBSET Users /\ stray' \in SUBSET Users /\ torn' \in SUBSET Users
         /\ \A u \in stray : u \in Seated' => u \in stray'
  BY DEF History, Typed

LEMMA WritesSound ==
  ASSUME Typed, NEW r \in Admins, NEW on \in SUBSET SeatRows, NEW off \in SUBSET SeatRows,
         NEW pc \in Places, on \cap off = {}, Writes(r, on, off, pc),
         \A n : Becomes(n, admin[r], on, off, pc) => Shape(n)
  PROVE  \E q : /\ Sound(q) /\ Free(r, q.sets \cup q.clears) /\ admin' = [admin EXCEPT ![r] = q]
                /\ Becomes(q, admin[r], on, off, pc)
<1> DEFINE old == admin[r]
           q == After(old, on, off, pc)
<1>1. old \in Asked /\ Sound(old) /\ Free(r, old.sets \cup old.clears) BY DEF Typed
<1>2. old.sets \cap old.clears = {} BY <1>1 DEF Sound
<1>3. \A n : Becomes(n, old, on, off, pc) => Shape(n) OBVIOUS
<1>4. Free(r, on \cup off) /\ admin' = [admin EXCEPT ![r] = q] BY DEF Writes
<1> HIDE DEF old
<1>5. q \in Asked /\ q.sets \cap q.clears = {} /\ Becomes(q, old, on, off, pc)
  BY <1>1, <1>2, AfterFields
<1> HIDE DEF q
<1>6. Sound(q) BY <1>1, <1>3, <1>5 DEF Sound, Becomes
<1>7. Free(r, q.sets \cup q.clears) BY <1>1, <1>4, <1>5 DEF Free, Becomes
<1> QED BY <1>4, <1>5, <1>6, <1>7 DEF old

-----------------------------------------------------------------------------
(* What the properties rest on *)

Given(q, u) == q.user = u /\ (q.kind = "assign" \/ Seat(u) \in q.sets)

\* The next commit of this request leaves no seat that it saw.
Ready(q, u) ==
  \/ q.kind = "replace" /\ ~ q.on /\ q.pc = "commit"
  \/ q.kind = "move" /\ q.user = u /\ q.pc # "seats"

GivenOnGround(q, u) == Enabled /\ (q.kind = "assign" /\ q.pc # "membership" => u \notin gone)

\* Inductive: a seat that is held or being given has its grounds, and who takes these
\* grounds away takes the seats too.
Earned ==
  /\ SeatsAreEarned
  /\ \A u \in gone : Membership("here", u) \notin granted
  /\ \A r \in Admins : \A u \in Users \ stray : Given(admin[r], u) => GivenOnGround(admin[r], u)
  /\ \A r, x \in Admins : \A u \in Users : Gives(r, u) /\ Takes(x, u) => u \in stray
  /\ \A r \in Admins : \A u \in Seated \ stray : Ready(admin[r], u) => Seat(u) \in admin[r].clears

\* Inductive: who was not excused has at most one change under way if that is one of the
\* status, and its account has changed before its membership.
Follow ==
  /\ AccountsFollowMembers
  /\ \A r, x \in Admins : \A u \in Users \ torn :
       Changes(r, u) /\ Changes(x, u) /\ admin[r].kind = "status" => r = x
  /\ \A r \in Admins : \A u \in Users \ torn :
       Halfway(r, u) => (Account(u) \in granted <=> admin[r].on)

\* The seats a sound request has written are of its user.
LEMMA SeatsWritten ==
  ASSUME NEW q, Sound(q), NEW u \in Users, Seat(u) \in q.sets
  PROVE  q.user = u /\ q.pc = "commit" /\ q.kind \in {"assign", "create"}
  BY Rows DEF Sound, Asked, Shape, OtherRows

\* A step that commits nothing.
QuietAs(r, q) ==
  /\ Sound(q) /\ Free(r, q.sets \cup q.clears) /\ admin' = [admin EXCEPT ![r] = q]
  /\ granted' = granted /\ home' = home
  /\ ~ (q.kind = "status" /\ q.pc = "member")
  /\ \A u \in Users \ stray : Given(q, u) => GivenOnGround(q, u)
  /\ \A u \in Seated \ stray : Ready(q, u) => Seat(u) \in q.clears
Quiet(r) == \E q : QuietAs(r, q)

LEMMA IdleIsQuiet ==
  ASSUME Typed, NEW r \in Admins, Done(r), granted' = granted, home' = home
  PROVE  Quiet(r)
<1>1. Free(r, Idle.sets \cup Idle.clears) BY DEF Idle, Free
<1>2. \A u \in Users : ~ Given(Idle, u) /\ ~ Ready(Idle, u) BY DEF Idle, Given, Ready
<1>3. Idle.kind = "none" BY DEF Idle
<1>4. QuietAs(r, Idle) BY <1>1, <1>2, <1>3, IdleIsSound DEF QuietAs, Done, Seated
<1> QED BY <1>4 DEF Quiet

LEMMA BeginsQuiet ==
  ASSUME NEW r \in Admins, NEW q \in Asked, q.user \in Users, q.sets = {}, q.clears = {}, Shape(q),
         admin' = [admin EXCEPT ![r] = q], granted' = granted, home' = home,
         q.kind \in {"assign", "unassign", "status", "approve", "delete", "create", "move"},
         q.kind = "assign" => q.pc = "membership" /\ Enabled,
         q.kind = "status" => q.pc = "account", q.kind = "move" => q.pc = "seats"
  PROVE  Quiet(r)
<1>1. Sound(q) BY DEF Sound
<1>2. Free(r, q.sets \cup q.clears) BY DEF Free
<1>3. \A v \in Users : Given(q, v) => GivenOnGround(q, v) BY DEF Given, GivenOnGround
<1>4. \A v \in Users : ~ Ready(q, v) BY DEF Ready
<1>5. QuietAs(r, q) BY <1>1, <1>2, <1>3, <1>4 DEF QuietAs, Seated
<1> QED BY <1>5 DEF Quiet

LEMMA RequestQuiet ==
  ASSUME Typed, Earned, NEW r \in Admins, Request(r)
  PROVE  Quiet(r)
<1>1. ASSUME NEW on \in BOOLEAN, ReplaceModules(r, on) PROVE Quiet(r)
  <2> DEFINE q == [kind |-> "replace", pc |-> "sweep", user |-> "none", client |-> "here", on |-> on,
                   sets |-> IF on THEN {Module} ELSE {}, clears |-> IF on THEN {} ELSE {Module}]
  <2>1. /\ q.kind = "replace" /\ q.pc = "sweep" /\ q.on = on
        /\ q.sets = (IF on THEN {Module} ELSE {}) /\ q.clears = (IF on THEN {} ELSE {Module})
    OBVIOUS
  <2>2. q \in Asked BY Rows DEF Asked, Places, Clients, OwnRows
  <2>3. admin' = [admin EXCEPT ![r] = q] /\ Free(r, {Module}) BY <1>1 DEF ReplaceModules
  <2> HIDE DEF q
  <2>4. Shape(q) BY <2>1 DEF Shape
  <2>5. Sound(q) BY <2>1, <2>2, <2>4 DEF Sound
  <2>6. Free(r, q.sets \cup q.clears) BY <2>1, <2>3 DEF Free
  <2>7. \A v \in Users : ~ Given(q, v) /\ ~ Ready(q, v) BY <2>1, Rows DEF Given, Ready, OtherRows
  <2>8. QuietAs(r, q) BY <1>1, <2>1, <2>3, <2>5, <2>6, <2>7 DEF QuietAs, ReplaceModules, Seated
  <2> QED BY <2>8 DEF Quiet
<1>2. ASSUME NEW u \in Users, Assign(r, u) PROVE Quiet(r)
  <2> DEFINE q == [kind |-> "assign", pc |-> "membership", user |-> u, client |-> "here", on |-> TRUE,
                   sets |-> {}, clears |-> {}]
  <2>1. q \in Asked BY DEF Asked, Places, Clients
  <2>2. Shape(q) BY DEF Shape
  <2> QED BY <1>2, <2>1, <2>2, BeginsQuiet DEF Assign, Begins
<1>3. ASSUME NEW u \in Users, Unassign(r, u) PROVE Quiet(r)
  <2> DEFINE q == [kind |-> "unassign", pc |-> "assignment", user |-> u, client |-> "here", on |-> FALSE,
                   sets |-> {}, clears |-> {}]
  <2>1. q \in Asked BY DEF Asked, Places, Clients
  <2>2. Shape(q) BY DEF Shape
  <2> QED BY <1>3, <2>1, <2>2, BeginsQuiet DEF Unassign, Begins
<1>4. ASSUME NEW u \in Users, CreateUser(r, u) PROVE Quiet(r)
  <2> DEFINE q == [kind |-> "create", pc |-> "account", user |-> u, client |-> "here", on |-> TRUE,
                   sets |-> {}, clears |-> {}]
  <2>1. q \in Asked BY DEF Asked, Places, Clients
  <2>2. Shape(q) BY DEF Shape
  <2> QED BY <1>4, <2>1, <2>2, BeginsQuiet DEF CreateUser, Begins
<1>5. ASSUME NEW u \in Users, NEW c \in Clients, Approve(r, u, c) PROVE Quiet(r)
  <2> DEFINE q == [kind |-> "approve", pc |-> "account", user |-> u, client |-> c, on |-> TRUE,
                   sets |-> {}, clears |-> {}]
  <2>1. q \in Asked BY DEF Asked, Places, Clients
  <2>2. Shape(q) BY DEF Shape
  <2> QED BY <1>5, <2>1, <2>2, BeginsQuiet DEF Approve, Begins
<1>6. ASSUME NEW u \in Users, NEW c \in Clients, Delete(r, u, c) PROVE Quiet(r)
  <2> DEFINE q == [kind |-> "delete", pc |-> "account", user |-> u, client |-> c, on |-> FALSE,
                   sets |-> {}, clears |-> {}]
  <2>1. q \in Asked BY DEF Asked, Places, Clients
  <2>2. Shape(q) BY DEF Shape
  <2> QED BY <1>6, <2>1, <2>2, BeginsQuiet DEF Delete, Begins
<1>7. ASSUME NEW u \in Users, NEW c \in Clients, NEW on \in BOOLEAN, ChangeStatus(r, u, c, on) PROVE Quiet(r)
  <2> DEFINE q == [kind |-> "status", pc |-> "account", user |-> u, client |-> c, on |-> on,
                   sets |-> {}, clears |-> {}]
  <2>1. q \in Asked BY DEF Asked, Places, Clients
  <2>2. Shape(q) BY DEF Shape
  <2> QED BY <1>7, <2>1, <2>2, BeginsQuiet DEF ChangeStatus, Begins
<1>8. ASSUME NEW u \in Users, NEW c \in Clients, NEW on \in BOOLEAN, Move(r, u, c, on) PROVE Quiet(r)
  <2> DEFINE q == [kind |-> "move", pc |-> "seats", user |-> u, client |-> c, on |-> on,
                   sets |-> {}, clears |-> {}]
  <2>1. q \in Asked BY DEF Asked, Places, Clients
  <2>2. Shape(q) BY DEF Shape
  <2> QED BY <1>8, <2>1, <2>2, BeginsQuiet DEF Move, Begins
<1> QED BY <1>1, <1>2, <1>3, <1>4, <1>5, <1>6, <1>7, <1>8 DEF Request

LEMMA WritesQuiet ==
  ASSUME Typed, Earned, NEW r \in Admins, NEW on \in SUBSET SeatRows, NEW off \in SUBSET SeatRows,
         NEW pc \in Places, on \cap off = {}, Writes(r, on, off, pc),
         \A n : Becomes(n, admin[r], on, off, pc) => Shape(n),
         granted' = granted, home' = home, admin[r].kind # "status",
         \A u \in Users : Seat(u) \in on =>
           admin[r].kind = "assign" \/ (Enabled /\ admin[r].kind \in {"create", "unassign"}),
         admin[r].kind = "assign" /\ admin[r].pc = "membership" =>
           Membership("here", admin[r].user) \in granted,
         admin[r].kind = "replace" /\ ~ admin[r].on => \A u \in Seated : Seat(u) \in off,
         admin[r].kind = "move" /\ admin[r].pc = "seats" /\ admin[r].user \in Seated =>
           Seat(admin[r].user) \in off
  PROVE  Quiet(r)
<1>1. PICK q : /\ Sound(q) /\ Free(r, q.sets \cup q.clears) /\ admin' = [admin EXCEPT ![r] = q]
               /\ Becomes(q, admin[r], on, off, pc)
  BY WritesSound
<1> USE <1>1 DEF Becomes
<1>2. ASSUME NEW u \in Users \ stray, Given(q, u) PROVE GivenOnGround(q, u)
  <2>1. CASE Given(admin[r], u)
    <3>1. GivenOnGround(admin[r], u) BY <2>1 DEF Earned
    <3>2. CASE admin[r].kind = "assign" /\ admin[r].pc = "membership"
      <4>1. admin[r].user = u BY <1>2 DEF Given
      <4>2. u \notin gone BY <3>2, <4>1 DEF Earned
      <4> QED BY <3>1, <4>2 DEF GivenOnGround
    <3>3. CASE ~ (admin[r].kind = "assign" /\ admin[r].pc = "membership")
      BY <3>1, <3>3 DEF GivenOnGround
    <3> QED BY <3>2, <3>3
  <2>2. CASE ~ Given(admin[r], u) BY <1>2, <2>2 DEF Given, GivenOnGround
  <2> QED BY <2>1, <2>2
<1>3. ASSUME NEW u \in Seated \ stray, Ready(q, u) PROVE Seat(u) \in q.clears
  <2>1. u \in Users BY DEF Seated
  <2>2. Seat(u) \notin on BY <1>3, <2>1 DEF Ready
  <2>3. CASE Ready(admin[r], u)
    <3>1. Seat(u) \in admin[r].clears BY <2>3 DEF Earned
    <3> QED BY <2>2, <3>1
  <2>4. CASE ~ Ready(admin[r], u) BY <1>3, <2>4 DEF Ready
  <2> QED BY <2>3, <2>4
<1>4. ~ (q.kind = "status" /\ q.pc = "member") OBVIOUS
<1>5. QuietAs(r, q) BY <1>2, <1>3, <1>4 DEF QuietAs
<1> QED BY <1>5 DEF Quiet

LEMMA GotoQuiet ==
  ASSUME Typed, Earned, NEW r \in Admins, NEW pc \in Places, Goto(r, pc),
         granted' = granted, home' = home,
         \A n : Becomes(n, admin[r], {}, {}, pc) => Shape(n),
         admin[r].kind \in {"assign", "unassign", "create"},
         admin[r].kind = "assign" /\ admin[r].pc = "membership" =>
           Membership("here", admin[r].user) \in granted
  PROVE  Quiet(r)
<1>1. Writes(r, {}, {}, pc) BY DEF Goto
<1> QED BY <1>1, WritesQuiet

\* The steps that write nothing that others can see.
LEMMA ProceedsQuiet ==
  ASSUME Typed, Earned, NEW r \in Admins, Proceeds(r),
         ~ StatusOfAccount(r), ~ StatusOfMembership(r)
  PROVE  Quiet(r)
<1> DEFINE old == admin[r]
<1>1. /\ Sound(old) /\ Shape(old) /\ old \in Asked
      /\ old.kind \notin {"none", "replace"} => old.user \in Users
      /\ old.client \in Clients /\ old.on \in BOOLEAN
  BY DEF Typed, Sound, Asked
<1> HIDE DEF old
<1>2. ASSUME ReadMembership(r) PROVE Quiet(r)
  <2>1. old.kind = "assign" BY <1>1, <1>2 DEF Shape, ReadMembership, old, Asked
  <2>2. \A n : Becomes(n, old, {}, {}, "assignment") => Shape(n)
    BY <1>1, <1>2, <2>1 DEF Becomes, Shape, ReadMembership, old
  <2> QED BY <1>2, <2>1, <2>2, IdleIsQuiet, GotoQuiet DEF ReadMembership, old, Places
<1>3. ASSUME ReadAssignment(r) PROVE Quiet(r)
  <2>1. old.kind \in {"assign", "unassign"} BY <1>1, <1>3 DEF Shape, ReadAssignment, old, Asked
  <2>2. CASE old.on = (old.user \in Seated)
    BY <1>3, <2>2, IdleIsQuiet DEF ReadAssignment, old
  <2>3. CASE ~ (old.on = (old.user \in Seated)) /\ old.on
    <3>1. Goto(r, "count") /\ granted' = granted /\ home' = home BY <1>3, <2>3 DEF ReadAssignment, old
    <3>2. \A n : Becomes(n, old, {}, {}, "count") => Shape(n)
      BY <1>1, <1>3, <2>1, <2>3 DEF Becomes, Shape, ReadAssignment, old
    <3>3. old.pc = "assignment" BY <1>3 DEF ReadAssignment, old
    <3> QED BY <2>1, <3>1, <3>2, <3>3, GotoQuiet DEF old, Places
  <2>4. CASE ~ (old.on = (old.user \in Seated)) /\ ~ old.on
    <3>1. Goto(r, "write") /\ granted' = granted /\ home' = home BY <1>3, <2>4 DEF ReadAssignment, old
    <3>2. \A n : Becomes(n, old, {}, {}, "write") => Shape(n)
      BY <1>1, <1>3, <2>1, <2>4 DEF Becomes, Shape, ReadAssignment, old
    <3>3. old.pc = "assignment" BY <1>3 DEF ReadAssignment, old
    <3> QED BY <2>1, <3>1, <3>2, <3>3, GotoQuiet DEF old, Places
  <2> QED BY <2>2, <2>3, <2>4
<1>4. ASSUME CountSeats(r) PROVE Quiet(r)
  <2>1. old.kind = "assign" BY <1>1, <1>4 DEF Shape, CountSeats, old, Asked
  <2>2. \A n : Becomes(n, old, {}, {}, "write") => Shape(n)
    BY <1>1, <1>4, <2>1 DEF Becomes, Shape, CountSeats, old
  <2> QED BY <1>4, <2>1, <2>2, IdleIsQuiet, GotoQuiet DEF CountSeats, old, Places
<1>5. ASSUME WriteSeat(r) PROVE Quiet(r)
  <2>1. old.kind \in {"assign", "unassign"} /\ old.user \in Users
    BY <1>1, <1>5 DEF Shape, WriteSeat, old, Asked
  <2> DEFINE row == {Seat(old.user)}
  <2>2. row \in SUBSET SeatRows /\ "commit" \in Places BY <2>1, Rows DEF OwnRows, Places
  <2>3. old.pc = "write" /\ granted' = granted /\ home' = home BY <1>5 DEF WriteSeat, old
  <2>4. CASE old.on
    <3>1. Writes(r, row, {}, "commit") BY <1>5, <2>4 DEF WriteSeat, Puts, old
    <3>2. old.kind = "assign" BY <1>1, <2>1, <2>4 DEF Shape
    <3>3. \A n : Becomes(n, old, row, {}, "commit") => Shape(n)
      BY <1>1, <2>3, <2>4, <3>2 DEF Becomes, Shape
    <3> HIDE DEF row
    <3> QED BY <2>2, <2>3, <3>1, <3>2, <3>3, WritesQuiet DEF old
  <2>5. CASE ~ old.on
    <3>1. Writes(r, {}, row, "commit") BY <1>5, <2>5 DEF WriteSeat, Puts, old
    <3>2. old.kind = "unassign" BY <1>1, <2>1, <2>5 DEF Shape
    <3>3. \A n : Becomes(n, old, {}, row, "commit") => Shape(n)
      BY <1>1, <2>3, <2>5, <3>2 DEF Becomes, Shape
    <3> QED BY <2>2, <2>3, <3>1, <3>2, <3>3, WritesQuiet DEF old
  <2> QED BY <2>4, <2>5
<1> DEFINE u == old.user
           a == Account(u)
           m == Membership(old.client, u)
<1>6. ASSUME old.kind \in {"approve", "delete", "create", "move"}
      PROVE  /\ u \in Users /\ a \in SeatRows /\ m \in SeatRows /\ Deleted(u) \in SeatRows /\ Seat(u) \in SeatRows
             /\ a # m /\ a # Deleted(u) /\ m # Deleted(u) /\ m # Seat(u) /\ a # Seat(u) /\ Seat(u) # Deleted(u)
             /\ \A v \in Users : Seat(v) \notin {a, m, Deleted(u)}
  BY <1>1, <1>6, Rows DEF OwnRows, OtherRows
<1> HIDE DEF u, a, m
<1>7. ASSUME WriteAccount(r) PROVE Quiet(r)
  <2>1. /\ old.kind \in {"approve", "delete", "create", "move"} /\ old.pc = "account"
        /\ granted' = granted /\ home' = home
    BY <1>7 DEF WriteAccount, old
  <2>2. CASE old.kind = "approve"
    <3>1. Writes(r, {a}, {}, "member") BY <1>7, <2>2 DEF WriteAccount, old, a, u
    <3>2. \A n : Becomes(n, old, {a}, {}, "member") => Shape(n)
      BY <1>1, <1>6, <2>1, <2>2 DEF Becomes, Shape, a, u
    <3> QED BY <1>6, <2>1, <2>2, <3>1, <3>2, WritesQuiet DEF old, Places
  <2>3. CASE old.kind = "delete"
    <3>1. Writes(r, {Deleted(u)}, {a}, "member") BY <1>7, <2>3 DEF WriteAccount, old, a, u
    <3>2. \A n : Becomes(n, old, {Deleted(u)}, {a}, "member") => Shape(n)
      BY <1>1, <1>6, <2>1, <2>3 DEF Becomes, Shape, a, u
    <3> QED BY <1>6, <2>1, <2>3, <3>1, <3>2, WritesQuiet DEF old, Places
  <2>4. CASE old.kind = "create"
    <3>1. Writes(r, {a}, {Deleted(u)}, "member") BY <1>7, <2>4 DEF WriteAccount, old, a, u
    <3>2. \A n : Becomes(n, old, {a}, {Deleted(u)}, "member") => Shape(n)
      BY <1>1, <1>6, <2>1, <2>4 DEF Becomes, Shape, a, u
    <3> QED BY <1>6, <2>1, <2>4, <3>1, <3>2, WritesQuiet DEF old, Places
  <2>5. CASE old.kind = "move" /\ old.on
    <3>1. Writes(r, {a}, {}, "commit") BY <1>7, <2>5 DEF WriteAccount, Puts, old, a, u
    <3>2. \A n : Becomes(n, old, {a}, {}, "commit") => Shape(n)
      BY <1>1, <1>6, <2>1, <2>5 DEF Becomes, Shape, a, u
    <3> QED BY <1>6, <2>1, <2>5, <3>1, <3>2, WritesQuiet DEF old, Places
  <2>6. CASE old.kind = "move" /\ ~ old.on
    <3>1. Writes(r, {}, {a}, "commit") BY <1>7, <2>6 DEF WriteAccount, Puts, old, a, u
    <3>2. \A n : Becomes(n, old, {}, {a}, "commit") => Shape(n)
      BY <1>1, <1>6, <2>1, <2>6 DEF Becomes, Shape, a, u
    <3> QED BY <1>6, <2>1, <2>6, <3>1, <3>2, WritesQuiet DEF old, Places
  <2> QED BY <2>1, <2>2, <2>3, <2>4, <2>5, <2>6
<1>8. ASSUME WriteMember(r) PROVE Quiet(r)
  <2>1. /\ old.kind \in {"approve", "delete", "create", "move"} /\ old.pc = "member"
        /\ granted' = granted /\ home' = home
    BY <1>8 DEF WriteMember, old
  <2>2. PICK pc \in Places :
          /\ pc = IF old.kind = "move" THEN "account" ELSE IF old.kind = "create" THEN "seat" ELSE "commit"
          /\ Puts(r, {m}, pc)
    BY <1>8, <2>1 DEF WriteMember, Changed, Places, m, u, old
  <2>3. CASE old.on
    <3>1. Writes(r, {m}, {}, pc) BY <2>2, <2>3 DEF Puts, old
    <3>2. \A n : Becomes(n, old, {m}, {}, pc) => Shape(n)
      BY <1>1, <1>6, <2>1, <2>2, <2>3 DEF Becomes, Shape, a, m, u, Memberships
    <3> QED BY <1>6, <2>1, <2>3, <3>1, <3>2, WritesQuiet DEF old
  <2>4. CASE ~ old.on
    <3>1. Writes(r, {}, {m}, pc) BY <2>2, <2>4 DEF Puts, old
    <3>2. \A n : Becomes(n, old, {}, {m}, pc) => Shape(n)
      BY <1>1, <1>6, <2>1, <2>2, <2>4 DEF Becomes, Shape, a, m, u, Memberships
    <3> QED BY <1>6, <2>1, <2>4, <3>1, <3>2, WritesQuiet DEF old
  <2> QED BY <2>3, <2>4
<1>9. ASSUME SeatOfAdministrator(r) PROVE Quiet(r)
  <2>1. old.kind = "create" /\ old.pc = "seat" /\ granted' = granted /\ home' = home /\ "commit" \in Places
    BY <1>1, <1>9 DEF Shape, SeatOfAdministrator, old, Asked, Places
  <2>2. CASE Enabled /\ Writes(r, {Seat(u)}, {}, "commit")
    <3>1. \A n : Becomes(n, old, {Seat(u)}, {}, "commit") => Shape(n)
      BY <1>1, <1>6, <2>1 DEF Becomes, Shape, a, m, u
    <3> QED BY <1>6, <2>1, <2>2, <3>1, WritesQuiet DEF old
  <2>3. CASE Goto(r, "commit")
    <3>1. \A n : Becomes(n, old, {}, {}, "commit") => Shape(n)
      BY <1>1, <1>6, <2>1 DEF Becomes, Shape, a, m, u
    <3> QED BY <2>1, <2>3, <3>1, GotoQuiet DEF old
  <2> QED BY <1>9, <2>2, <2>3 DEF SeatOfAdministrator, u, old
<1>10. ASSUME GiveUpSeats(r) PROVE Quiet(r)
  <2>1. /\ old.kind = "move" /\ old.pc = "seats" /\ granted' = granted /\ home' = home
        /\ "suspend" \in Places
    BY <1>1, <1>10 DEF Shape, GiveUpSeats, old, Asked, Places
  <2> DEFINE off == GivesUpSeats(u)
  <2>2. off \subseteq {Seat(u)} /\ (u \in Seated => Seat(u) \in off) BY DEF GivesUpSeats, Seated
  <2>3. Writes(r, {}, off, "suspend") BY <1>10 DEF GiveUpSeats, u, old
  <2> HIDE DEF off
  <2>4. \A n : Becomes(n, old, {}, off, "suspend") => Shape(n)
    BY <1>1, <1>6, <2>1, <2>2 DEF Becomes, Shape, a, m, u
  <2>5. u \in Seated => Seat(admin[r].user) \in off BY <2>2 DEF u, old
  <2> QED BY <1>6, <2>1, <2>2, <2>3, <2>4, <2>5, WritesQuiet DEF old, u
<1>11. ASSUME Suspend(r) PROVE Quiet(r)
  <2>1. /\ old.kind = "move" /\ old.pc = "suspend" /\ granted' = granted /\ home' = home
        /\ "member" \in Places
    BY <1>1, <1>11 DEF Shape, Suspend, old, Asked, Places
  <2> DEFINE off == Memberships(u) \cap granted
  <2>2. off \subseteq Memberships(u) /\ off \in SUBSET SeatRows BY DEF Typed
  <2>3. Writes(r, {}, off, "member") BY <1>11 DEF Suspend, u, old, Memberships
  <2> HIDE DEF off
  <2>4. \A n : Becomes(n, old, {}, off, "member") => Shape(n)
    BY <1>1, <1>6, <2>1, <2>2 DEF Becomes, Shape, a, m, u
  <2> QED BY <1>6, <2>1, <2>2, <2>3, <2>4, WritesQuiet DEF old
<1>12. ASSUME SweepSeats(r) PROVE Quiet(r)
  <2>1. /\ old.kind = "replace" /\ old.pc = "sweep" /\ granted' = granted /\ home' = home
        /\ "commit" \in Places
    BY <1>1, <1>12 DEF Shape, SweepSeats, old, Asked, Places
  <2> DEFINE off == IF old.on THEN {} ELSE SeatsOf(Seated)
  <2>2. Seated \subseteq Users BY DEF Seated
  <2>3. off \in SUBSET SeatRows /\ off \subseteq SeatsOf(Users) /\ (old.on => off = {})
    BY <2>2, Rows DEF SeatsOf, OwnRows
  <2>4. ~ old.on => \A v \in Seated : Seat(v) \in off BY DEF SeatsOf
  <2>5. Writes(r, {}, off, "commit") BY <1>12 DEF SweepSeats, SeatsOf, old
  <2> HIDE DEF off
  <2>6. \A n : Becomes(n, old, {}, off, "commit") => Shape(n)
    BY <1>1, <2>1, <2>3 DEF Becomes, Shape
  <2> QED BY <2>1, <2>3, <2>4, <2>5, <2>6, WritesQuiet DEF old
<1> QED
  BY <1>2, <1>3, <1>4, <1>5, <1>7, <1>8, <1>9, <1>10, <1>11, <1>12 DEF Proceeds

-----------------------------------------------------------------------------
(* Every step keeps what the properties rest on *)

\* A step that commits no seat and no module.
LEMMA EarnedKept ==
  ASSUME Typed, Earned, NEW r \in Admins, NEW q, admin' = [admin EXCEPT ![r] = q],
         NEW cut \in SUBSET Users, History({}, cut), Enabled' = Enabled, Seated' = Seated,
         \A u \in Users \ stray : Given(q, u) => GivenOnGround(q, u),
         \A u \in Seated \ stray : Ready(q, u) => Seat(u) \in q.clears
  PROVE  Earned'
<1>1. \A x \in Admins : admin'[x] = IF x = r THEN q ELSE admin[x] BY DEF Typed
<1>2. gone' \subseteq gone /\ \A u \in gone' : Membership("here", u) \notin granted'
  BY DEF History
<1>3. \A u \in Users : (\E x, y \in Admins : Gives(x, u) /\ Takes(y, u))' => u \in stray'
  BY DEF History
<1>4. \A u \in Users \ stray' : (u \in Seated' \/ \E x \in Admins : Gives(x, u)') => u \notin stray
  BY DEF History
<1>5. SeatsAreEarned' BY <1>2, <1>4 DEF SeatsAreEarned, Earned, Seated
<1>6. ASSUME NEW x \in Admins, NEW u \in Users \ stray', Given(admin'[x], u)
      PROVE  GivenOnGround(admin[x], u)'
  <2>1. Gives(x, u)' BY <1>6 DEF Gives, Given
  <2>2. u \in Users \ stray BY <2>1, <1>4
  <2>3. GivenOnGround(admin'[x], u) BY <1>1, <1>6, <2>2 DEF Earned
  <2> QED BY <1>2, <2>3 DEF GivenOnGround
<1>7. ASSUME NEW x \in Admins, NEW u \in Seated' \ stray', Ready(admin'[x], u)
      PROVE  Seat(u) \in admin'[x].clears
  <2>1. u \in Seated \ stray BY <1>4 DEF Seated
  <2> QED BY <1>1, <1>7, <2>1 DEF Earned
<1>8. \A x, y \in Admins : \A u \in Users : (Gives(x, u) /\ Takes(y, u))' => u \in stray'
  BY <1>3
<1> QED BY <1>2, <1>5, <1>6, <1>7, <1>8 DEF Earned

\* What History says of changes of the status.
LEMMA Torn ==
  ASSUME NEW leavers \in SUBSET Users, NEW cut \in SUBSET Users, History(leavers, cut)
  PROVE  /\ torn \subseteq torn' /\ cut \subseteq torn'
         /\ \A r, x \in Admins : \A u \in Users \ torn' :
              (Changes(r, u) /\ Changes(x, u) /\ admin[r].kind = "status" => r = x)'
  BY DEF History

LEMMA QuietKeeps ==
  ASSUME Typed, Earned, Follow, NEW r \in Admins, Quiet(r), NEW cut \in SUBSET Users,
         History({}, cut), \A u \in Users : Halfway(r, u) => u \in cut
  PROVE  Typed' /\ Earned' /\ Follow'
<1>1. PICK q : QuietAs(r, q) BY DEF Quiet
<1> USE <1>1 DEF QuietAs
<1>2. \A x \in Admins : admin'[x] = IF x = r THEN q ELSE admin[x] BY DEF Typed
<1>3. Typed'
  <2>1. granted' \in SUBSET SeatRows /\ home' \in [Users -> Clients] BY DEF Typed
  <2> QED BY <2>1, HistoryTyped, OneRequest
<1>4. Earned' BY EarnedKept DEF Enabled, Seated
<1>5. ASSUME NEW x \in Admins, NEW u \in Users \ torn', Halfway(x, u)'
      PROVE  (Account(u) \in granted <=> admin[x].on)'
  <2>1. x # r /\ Halfway(x, u) BY <1>2, <1>5 DEF Halfway
  <2> QED BY <1>2, <2>1, Torn DEF Follow
<1>6. ASSUME NEW u \in Users \ torn', \A x \in Admins : ~ Halfway(x, u)'
      PROVE  (Account(u) \in granted <=> Membership(home[u], u) \in granted)'
  <2>1. u \in Users \ torn /\ ~ Halfway(r, u) BY Torn
  <2>2. \A x \in Admins : ~ Halfway(x, u) BY <1>2, <1>6, <2>1 DEF Halfway
  <2> QED BY <2>1, <2>2 DEF Follow, AccountsFollowMembers
<1>7. AccountsFollowMembers' BY <1>6 DEF AccountsFollowMembers
<1>8. Follow' BY <1>5, <1>7, Torn DEF Follow
<1> QED BY <1>3, <1>4, <1>8

LEMMA StatusOfAccountKeeps ==
  ASSUME Typed, Earned, Follow, NEW r \in Admins, StatusOfAccount(r), History({}, {})
  PROVE  Typed' /\ Earned' /\ Follow'
<1> DEFINE u == admin[r].user
<1>1. /\ admin[r].kind = "status" /\ admin[r].pc = "account" /\ home' = home
      /\ granted' = IF admin[r].on THEN granted \cup {Account(u)} ELSE granted \ {Account(u)}
      /\ Writes(r, {}, {}, "member")
  BY DEF StatusOfAccount, Goto
<1>2. Sound(admin[r]) /\ u \in Users /\ Shape(admin[r]) /\ admin[r].on \in BOOLEAN
  BY <1>1 DEF Typed, Sound, Asked
<1>3. PICK q : /\ Sound(q) /\ Free(r, q.sets \cup q.clears) /\ admin' = [admin EXCEPT ![r] = q]
               /\ Becomes(q, admin[r], {}, {}, "member")
  <2>1. \A n : Becomes(n, admin[r], {}, {}, "member") => Shape(n)
    BY <1>1, <1>2 DEF Shape, Becomes
  <2> QED BY <1>1, <2>1, WritesSound DEF Places
<1> HIDE DEF u
<1>4. \A x \in Admins : admin'[x] = IF x = r THEN q ELSE admin[x] BY <1>3 DEF Typed
<1>5. /\ q.kind = "status" /\ q.pc = "member" /\ q.user = u /\ q.sets = {} /\ q.on = admin[r].on
  BY <1>1, <1>2, <1>3 DEF Becomes, Shape, u
<1>6. Enabled' = Enabled /\ Seated' = Seated
  BY <1>1, <1>2, Rows DEF Enabled, Seated, OtherRows
<1>7. Typed'
  <2>1. granted' \in SUBSET SeatRows BY <1>1, <1>2, Rows DEF OwnRows, Typed
  <2>2. home' \in [Users -> Clients] BY <1>1 DEF Typed
  <2> QED BY <1>3, <2>1, <2>2, HistoryTyped, OneRequest
<1>8. Earned' BY <1>3, <1>5, <1>6, EarnedKept DEF Given, Ready
<1>9. ASSUME NEW x \in Admins, NEW v \in Users \ torn', Halfway(x, v)'
      PROVE  (Account(v) \in granted <=> admin[x].on)'
  <2>1. CASE x = r BY <1>1, <1>2, <1>4, <1>5, <1>9, <2>1 DEF Halfway, u
  <2>2. CASE x # r
    <3>1. Halfway(x, v) BY <1>4, <1>9, <2>2 DEF Halfway
    <3>2. v # u BY <1>1, <2>2, <3>1, Torn DEF Halfway, Changes, Follow, u
    <3>3. Account(v) \in granted' <=> Account(v) \in granted
      BY <1>1, <1>2, <3>2, Rows DEF OtherRows
    <3> QED BY <1>4, <2>2, <3>1, <3>3, Torn DEF Follow
  <2> QED BY <2>1, <2>2
<1>10. ASSUME NEW v \in Users \ torn', \A x \in Admins : ~ Halfway(x, v)'
       PROVE  (Account(v) \in granted <=> Membership(home[v], v) \in granted)'
  <2>1. v # u BY <1>4, <1>5, <1>10 DEF Halfway
  <2>2. \A x \in Admins : ~ Halfway(x, v) BY <1>1, <1>4, <1>10, <2>1 DEF Halfway, u
  <2>3. home[v] \in Clients BY DEF Typed
  <2>4. /\ Account(v) \in granted' <=> Account(v) \in granted
        /\ Membership(home[v], v) \in granted' <=> Membership(home[v], v) \in granted
    BY <1>1, <1>2, <2>1, <2>3, Rows DEF OtherRows
  <2> QED BY <1>1, <2>2, <2>4, Torn DEF Follow, AccountsFollowMembers
<1>11. AccountsFollowMembers' BY <1>10 DEF AccountsFollowMembers
<1>12. Follow' BY <1>9, <1>11, Torn DEF Follow
<1> QED BY <1>7, <1>8, <1>12

LEMMA StatusOfMembershipKeeps ==
  ASSUME Typed, Earned, Follow, NEW r \in Admins, StatusOfMembership(r), History({}, {})
  PROVE  Typed' /\ Earned' /\ Follow'
<1> DEFINE u == admin[r].user
           c == admin[r].client
           m == Membership(c, u)
<1>1. /\ admin[r].kind = "status" /\ admin[r].pc = "member" /\ home' = [home EXCEPT ![u] = c]
      /\ granted' = IF admin[r].on THEN granted \cup {m} ELSE granted \ {m}
      /\ admin' = [admin EXCEPT ![r] = Idle]
  BY DEF StatusOfMembership, Changed, Done
<1>2. u \in Users /\ c \in Clients /\ m \in SeatRows /\ admin[r].on \in BOOLEAN
  BY <1>1, Rows DEF Typed, Sound, Asked, OwnRows
<1>3. Halfway(r, u) /\ Changes(r, u) BY <1>1 DEF Halfway, Changes
<1> HIDE DEF u, c
<1>4. \A x \in Admins : admin'[x] = IF x = r THEN Idle ELSE admin[x] BY <1>1 DEF Typed
<1>5. Enabled' = Enabled /\ Seated' = Seated
  BY <1>1, <1>2, Rows DEF Enabled, Seated, OtherRows
<1>6. \A v \in Users : Account(v) \in granted' <=> Account(v) \in granted
  BY <1>1, <1>2, Rows DEF OtherRows
<1>7. Typed'
  <2>1. granted' \in SUBSET SeatRows BY <1>1, <1>2 DEF Typed
  <2>2. home' \in [Users -> Clients] BY <1>1, <1>2 DEF Typed
  <2>3. Free(r, Idle.sets \cup Idle.clears) BY DEF Free, Idle
  <2> QED BY <1>1, <2>1, <2>2, <2>3, IdleIsSound, HistoryTyped, OneRequest
<1>8. Earned'
  <2>1. \A v \in Users : ~ Given(Idle, v) /\ ~ Ready(Idle, v) BY DEF Given, Ready, Idle
  <2> QED BY <1>1, <1>5, <2>1, EarnedKept DEF Seated
<1>9. ASSUME NEW x \in Admins, NEW v \in Users \ torn', Halfway(x, v)'
      PROVE  (Account(v) \in granted <=> admin[x].on)'
  <2>1. x # r /\ Halfway(x, v) BY <1>4, <1>9 DEF Halfway, Idle
  <2> QED BY <1>4, <1>6, <2>1, Torn DEF Follow
<1>10. ASSUME NEW v \in Users \ torn', \A x \in Admins : ~ Halfway(x, v)'
       PROVE  (Account(v) \in granted <=> Membership(home[v], v) \in granted)'
  <2>1. CASE v = u
    <3>1. Account(u) \in granted <=> admin[r].on BY <1>2, <1>3, <2>1, Torn DEF Follow
    <3>2. home'[u] = c BY <1>1, <1>2 DEF Typed
    <3> QED BY <1>1, <1>2, <1>6, <2>1, <3>1, <3>2
  <2>2. CASE v # u
    <3>1. \A x \in Admins : ~ Halfway(x, v) BY <1>4, <1>10, <2>2 DEF Halfway, u
    <3>2. home'[v] = home[v] /\ home[v] \in Clients BY <1>1, <2>2 DEF Typed
    <3>3. Membership(home[v], v) \in granted' <=> Membership(home[v], v) \in granted
      BY <1>1, <1>2, <2>2, <3>2, Rows DEF OtherRows
    <3> QED BY <1>6, <3>1, <3>2, <3>3, Torn DEF Follow, AccountsFollowMembers
  <2> QED BY <2>1, <2>2
<1>11. AccountsFollowMembers' BY <1>10 DEF AccountsFollowMembers
<1>12. Follow' BY <1>9, <1>11, Torn DEF Follow
<1> QED BY <1>7, <1>8, <1>12

\* What a request commits: the module is taken only with every seat that was seen, a user
\* leaves only without its seat, and account and membership are written together.
LEMMA Commits ==
  ASSUME NEW q, Sound(q), q.pc = "commit"
  PROVE  /\ Module \in q.clears => q.kind = "replace" /\ ~ q.on
         /\ q.kind \in {"approve", "delete", "create", "move"} =>
              /\ q.user \in Users /\ q.client \in Clients
              /\ \/ /\ Account(q.user) \in q.sets /\ Membership(q.client, q.user) \in q.sets
                 \/ /\ Account(q.user) \in q.clears /\ Membership(q.client, q.user) \in q.clears
         /\ \A v \in Users : Account(v) \in q.sets \cup q.clears =>
              q.kind \in {"approve", "delete", "create", "move"} /\ q.user = v
         /\ \A v \in Users : \A c \in Clients : Membership(c, v) \in q.sets \cup q.clears =>
              q.kind \in {"approve", "delete", "create", "move"} /\ q.user = v
         /\ q.kind = "create" => Membership("here", q.user) \in q.sets
<1> USE DEF Sound, Shape
<1>0. q.kind \in {"none", "assign", "unassign", "status", "approve", "delete", "create", "move",
                  "replace"} /\ q.client \in Clients
  BY DEF Asked
<1>1. CASE q.kind \in {"none", "status"} BY <1>1
<1>2. CASE q.kind \in {"assign", "unassign"} BY <1>2, Rows DEF OtherRows
<1>3. CASE q.kind = "approve" BY <1>0, <1>3, Rows DEF OtherRows
<1>4. CASE q.kind = "delete" BY <1>0, <1>4, Rows DEF OtherRows
<1>5. CASE q.kind = "create" BY <1>0, <1>5, Rows DEF OtherRows
<1>6. CASE q.kind = "move" BY <1>0, <1>6, Rows DEF OtherRows, Memberships
<1>7. CASE q.kind = "replace" BY <1>0, <1>7, Rows DEF OtherRows, SeatsOf
<1> QED BY <1>0, <1>1, <1>2, <1>3, <1>4, <1>5, <1>6, <1>7

LEMMA CommitKeeps ==
  ASSUME Typed, Earned, Follow, NEW r \in Admins, Commit(r), History(Leaver(r), {})
  PROVE  Typed' /\ Earned' /\ Follow'
<1> DEFINE q == admin[r]
           on == q.sets
           off == q.clears
<1>1. /\ Sound(q) /\ q.pc = "commit" /\ admin' = [admin EXCEPT ![r] = Idle]
      /\ granted' = (granted \ off) \cup on
      /\ home' = IF q.kind \in {"approve", "delete", "create", "move"}
                 THEN [home EXCEPT ![q.user] = q.client] ELSE home
  BY DEF Commit, Done, Typed
<1>2. on \in SUBSET SeatRows /\ off \in SUBSET SeatRows /\ on \cap off = {}
  BY <1>1 DEF Sound, Asked
<1>3. /\ Leaver(r) \in SUBSET Users
      /\ \A u \in Leaver(r) : q.kind = "move" /\ q.user = u
  BY <1>1, Commits DEF Leaver
<1>4. \A x \in Admins : admin'[x] = IF x = r THEN Idle ELSE admin[x] BY <1>1 DEF Typed
<1>5. gone' \in SUBSET Users /\ stray' \in SUBSET Users /\ torn' \in SUBSET Users
  BY <1>3 DEF History, Typed
<1>6. /\ torn \subseteq torn'
      /\ \A x, y \in Admins : \A u \in Users \ torn' :
           (Changes(x, u) /\ Changes(y, u) /\ admin[x].kind = "status" => x = y)'
  BY DEF History
<1>7. \A u \in Users : /\ ~ Given(Idle, u) /\ ~ Ready(Idle, u)
                       /\ Seat(u) \in on => Given(q, u) /\ q.kind \in {"assign", "create"}
  BY <1>1, SeatsWritten DEF Given, Ready, Idle
<1>8. Typed'
  <2>1. granted' \in SUBSET SeatRows BY <1>1, <1>2 DEF Typed
  <2>2. home' \in [Users -> Clients] BY <1>1, Commits DEF Typed
  <2>3. Free(r, Idle.sets \cup Idle.clears) BY DEF Free, Idle
  <2> QED BY <1>1, <1>5, <2>1, <2>2, <2>3, IdleIsSound, OneRequest
<1>9. Earned'
  <2>1. gone' = {u \in gone \cup Leaver(r) : Membership("here", u) \notin granted'}
    BY DEF History
  <2>2. \A u \in Users : (\E x, y \in Admins : Gives(x, u) /\ Takes(y, u))' => u \in stray'
    BY DEF History
  <2>3. \A u \in Users \ stray' : (u \in Seated' \/ \E x \in Admins : Gives(x, u)') => u \notin stray
    BY DEF History
  <2>4. \A u \in Users : u \in Seated' <=> (u \in Seated /\ Seat(u) \notin off) \/ Seat(u) \in on
    BY <1>1, <1>2 DEF Seated
  <2>5. ASSUME NEW u \in Seated' \ stray' PROVE Enabled' /\ u \notin gone'
    <3>1. u \in Users \ stray BY <2>3 DEF Seated
    <3>2. CASE Seat(u) \in on
      <4>1. Given(q, u) /\ q.kind \in {"assign", "create"} BY <1>7, <3>1, <3>2
      <4>2. GivenOnGround(q, u) BY <3>1, <4>1 DEF Earned
      <4>3. Enabled' BY <1>1, <4>1, <4>2, Commits DEF Enabled, GivenOnGround
      <4>4. u \notin gone'
        BY <1>1, <1>3, <2>1, <4>1, <4>2, Commits DEF GivenOnGround, Given
      <4> QED BY <4>3, <4>4
    <3>3. CASE u \in Seated /\ Seat(u) \notin off
      <4>1. Enabled /\ u \notin gone BY <3>1, <3>3 DEF Earned, SeatsAreEarned
      <4>2. ~ Ready(q, u) BY <3>1, <3>3 DEF Earned
      <4>3. Enabled' BY <1>1, <4>1, <4>2, Commits DEF Enabled, Ready
      <4>4. u \notin Leaver(r) BY <1>1, <1>3, <4>2 DEF Ready
      <4> QED BY <2>1, <4>1, <4>3, <4>4
    <3> QED BY <2>4, <3>1, <3>2, <3>3
  <2>6. ASSUME NEW x \in Admins, NEW u \in Users \ stray', Given(admin'[x], u)
        PROVE  GivenOnGround(admin[x], u)'
    <3>1. x # r /\ admin'[x] = admin[x] BY <1>4, <1>7, <2>6
    <3>2. Gives(x, u) /\ u \in Users \ stray BY <2>3, <2>6, <3>1 DEF Gives, Given
    <3>3. GivenOnGround(admin[x], u) BY <2>6, <3>1, <3>2 DEF Earned
    <3>4. ~ Takes(r, u) BY <3>2 DEF Earned
    <3>5. Enabled' BY <1>1, <3>3, <3>4, Commits DEF Enabled, GivenOnGround, Takes
    <3>6. u \notin Leaver(r) BY <1>1, <1>3, <3>4 DEF Takes
    <3> QED BY <2>1, <3>1, <3>3, <3>5, <3>6 DEF GivenOnGround
  <2>7. ASSUME NEW x \in Admins, NEW u \in Seated' \ stray', Ready(admin'[x], u)
        PROVE  Seat(u) \in admin'[x].clears
    <3>1. u \in Users \ stray BY <2>3 DEF Seated
    <3>2. x # r /\ admin'[x] = admin[x] BY <1>4, <1>7, <2>7, <3>1
    <3>3. CASE u \in Seated BY <2>7, <3>1, <3>2, <3>3 DEF Earned
    <3>4. CASE u \notin Seated
      <4>1. Given(q, u) BY <1>7, <2>4, <3>1, <3>4
      <4>2. Gives(r, u) /\ Takes(x, u) BY <2>7, <3>2, <4>1 DEF Gives, Given, Takes, Ready
      <4> QED BY <3>1, <4>2 DEF Earned
    <3> QED BY <3>3, <3>4
  <2>8. \A u \in gone' : Membership("here", u) \notin granted' BY <2>1
  <2>9. \A x, y \in Admins : \A u \in Users : (Gives(x, u) /\ Takes(y, u))' => u \in stray'
    BY <2>2
  <2>10. SeatsAreEarned' BY <2>5 DEF SeatsAreEarned
  <2> QED BY <2>6, <2>7, <2>8, <2>9, <2>10 DEF Earned
<1>10. ASSUME NEW x \in Admins, NEW v \in Users \ torn', Halfway(x, v)'
      PROVE  (Account(v) \in granted <=> admin[x].on)'
  <2>1. x # r /\ Halfway(x, v) BY <1>4, <1>10 DEF Halfway, Idle
  <2>2. ~ Changes(r, v) BY <2>1, <1>6 DEF Halfway, Changes, Follow
  <2>3. Account(v) \notin on \cup off BY <1>1, <2>2, Commits DEF Changes
  <2> QED BY <1>1, <1>4, <1>6, <2>1, <2>3 DEF Follow
<1>11. ASSUME NEW v \in Users \ torn', \A x \in Admins : ~ Halfway(x, v)'
      PROVE  (Account(v) \in granted <=> Membership(home[v], v) \in granted)'
  <2>1. CASE q.kind \in {"approve", "delete", "create", "move"} /\ q.user = v
    <3>1. home'[v] = q.client BY <1>1, <2>1 DEF Typed
    <3> QED BY <1>1, <1>2, <2>1, <3>1, Commits
  <2>2. CASE ~ (q.kind \in {"approve", "delete", "create", "move"} /\ q.user = v)
    <3>1. home'[v] = home[v] /\ home[v] \in Clients BY <1>1, <2>2 DEF Typed
    <3>2. Account(v) \notin on \cup off /\ Membership(home[v], v) \notin on \cup off
      BY <1>1, <2>2, <3>1, Commits
    <3>3. \A x \in Admins : ~ Halfway(x, v) BY <1>1, <1>4, <1>11 DEF Halfway
    <3> QED BY <1>1, <1>6, <3>1, <3>2, <3>3 DEF Follow, AccountsFollowMembers
  <2> QED BY <2>1, <2>2
<1>12. AccountsFollowMembers' BY <1>11 DEF AccountsFollowMembers
<1>13. Follow' BY <1>10, <1>12, <1>6 DEF Follow
<1> QED BY <1>8, <1>9, <1>13

-----------------------------------------------------------------------------
LEMMA InitKept == SeatInit => Typed /\ Earned /\ Follow
<1> SUFFICES ASSUME SeatInit PROVE Typed /\ Earned /\ Follow OBVIOUS
<1>1. /\ granted \in SUBSET SeatRows /\ Enabled
      /\ \A u \in Users : Account(u) \in granted <=> Membership("here", u) \in granted
  BY Rows DEF SeatInit, Enabled, OwnRows, OtherRows, Clients
<1>2. \A r \in Admins : admin[r] = Idle BY DEF SeatInit
<1>3. Typed
  <2>1. \A r \in Admins : Sound(admin[r]) /\ Free(r, admin[r].sets \cup admin[r].clears)
    BY <1>2, IdleIsSound DEF Free, Idle
  <2>2. admin \in [Admins -> Asked] BY IdleIsSound DEF SeatInit, Sound
  <2> QED BY <1>1, <2>1, <2>2 DEF Typed, SeatInit, Clients
<1>4. \A r \in Admins : \A u \in Users :
        /\ ~ Given(admin[r], u) /\ ~ Ready(admin[r], u) /\ ~ Changes(r, u) /\ ~ Halfway(r, u)
        /\ ~ Takes(r, u)
  BY <1>2 DEF Idle, Given, Ready, Changes, Halfway, Takes
<1>5. Earned BY <1>1, <1>4 DEF Earned, SeatsAreEarned, SeatInit, Seated
<1>6. \A u \in Users : home[u] = "here" BY DEF SeatInit
<1>7. Follow BY <1>1, <1>4, <1>6 DEF Follow, AccountsFollowMembers
<1> QED BY <1>3, <1>5, <1>7

LEMMA StepKept ==
  ASSUME Typed, Earned, Follow, [SeatNext]_seatVars
  PROVE  Typed' /\ Earned' /\ Follow'
<1>1. ASSUME NEW r \in Admins, Request(r), History({}, {}) PROVE Typed' /\ Earned' /\ Follow'
  <2>1. \A u \in Users : ~ Halfway(r, u)
    BY <1>1 DEF Request, ReplaceModules, Assign, Unassign, CreateUser, Approve, Delete, ChangeStatus,
                Move, Begins, Halfway
  <2> QED BY <1>1, <2>1, RequestQuiet, QuietKeeps
<1>2. ASSUME NEW r \in Admins, Proceeds(r), History({}, {}) PROVE Typed' /\ Earned' /\ Follow'
  <2>1. CASE StatusOfAccount(r) BY <1>2, <2>1, StatusOfAccountKeeps
  <2>2. CASE StatusOfMembership(r) BY <1>2, <2>2, StatusOfMembershipKeeps
  <2>3. CASE ~ StatusOfAccount(r) /\ ~ StatusOfMembership(r)
    <3>1. \A u \in Users : ~ Halfway(r, u)
      BY <1>2, <2>3 DEF Proceeds, ReadMembership, ReadAssignment, CountSeats, WriteSeat, WriteAccount,
                        WriteMember, SeatOfAdministrator, GiveUpSeats, Suspend, SweepSeats, Halfway
    <3> QED BY <1>2, <2>3, <3>1, ProceedsQuiet, QuietKeeps
  <2> QED BY <2>1, <2>2, <2>3
<1>3. ASSUME NEW r \in Admins, Commit(r), History(Leaver(r), {}) PROVE Typed' /\ Earned' /\ Follow'
  BY <1>3, CommitKeeps
<1>4. ASSUME NEW r \in Admins, Fails(r), History({}, Cut(r)) PROVE Typed' /\ Earned' /\ Follow'
  <2>1. Quiet(r) BY <1>4, IdleIsQuiet DEF Fails
  <2>2. PICK cut \in SUBSET Users : cut = Cut(r) BY DEF Cut
  <2>3. \A u \in Users : Halfway(r, u) => u \in cut BY <2>2 DEF Cut
  <2>4. History({}, cut) BY <1>4, <2>2 DEF History
  <2> QED BY <2>1, <2>3, <2>4, QuietKeeps
<1>5. CASE UNCHANGED seatVars
  BY <1>5 DEF seatVars, Typed, Earned, Follow, SeatsAreEarned, AccountsFollowMembers, Free, Seated,
              Enabled, Gives, Takes, Changes, Halfway, GivenOnGround
<1> QED BY <1>1, <1>2, <1>3, <1>4, <1>5 DEF SeatNext

LEMMA Kept == SeatSpec => [](Typed /\ Earned /\ Follow)
BY InitKept, StepKept, PTL DEF SeatSpec

\* The rows in force and the requests stay what the types say, and no row is written by two
\* requests before one of them commits.
THEOREM SeatsAreTyped == SeatSpec => []SeatTypeOK
<1>1. Typed => SeatTypeOK
  <2> SUFFICES ASSUME Typed PROVE SeatTypeOK OBVIOUS
  <2>1. \A r \in Admins : /\ Sound(admin[r]) /\ admin[r] \in Asked
                          /\ Free(r, admin[r].sets \cup admin[r].clears)
    BY DEF Typed
  <2> QED BY <2>1 DEF SeatTypeOK, Typed, Sound, Asked, Places
<1> QED BY <1>1, Kept, PTL

\* Nobody keeps a seat without a module or after leaving, unless it was being given while
\* these were taken away: who takes them away also takes every seat it saw, and a seat that
\* it did not see was still being given.
THEOREM SeatsStayEarned == SeatSpec => []SeatsAreEarned
<1>1. Earned => SeatsAreEarned BY DEF Earned
<1> QED BY <1>1, Kept, PTL

\* Accounts and memberships agree for every user whose changes of status were neither cut
\* in half nor overlapped.
THEOREM AccountsFollow == SeatSpec => []AccountsFollowMembers
<1>1. Follow => AccountsFollowMembers BY DEF Follow
<1> QED BY <1>1, Kept, PTL
=============================================================================
