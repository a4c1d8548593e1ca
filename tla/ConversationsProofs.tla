------------------------ MODULE ConversationsProofs ------------------------
(***************************************************************************)
(* Safety of a contact's conversation, for any number of requests, rows    *)
(* and operators: no merge loses a message, or the assignment.             *)
(***************************************************************************)
EXTENDS Conversations, FiniteSetTheorems, TLAPS

Someone == Operators \cup {Nobody}
Messages == Calls \cup {Old}
CandidateSet == [row : Rows, count : Nat, last : Nat, assigned : Someone]
Steps == {"idle", "legacy", "scoped", "move", "rewrite", "act", "upsert", "find", "open",
          "store", "stamp", "assign", "done", "failed"}
CallSet == [kind : Kinds \cup {"none"}, pc : Steps, row : Rows \cup {NoRow},
            seen : SUBSET CandidateSet, stays : Rows \cup {NoRow}, goes : Rows \cup {NoRow},
            shape : Someone, latest : Nat, moved : SUBSET Messages]

\* The values the variables take, as far as a step can tell by itself.
ConvTypes ==
  /\ scope \in [Rows -> {"unused", "default", "instance", "gone"}]
  /\ assigned \in [Rows -> Someone] /\ last \in [Rows -> Nat]
  /\ place \in [Messages -> Rows \cup {NoRow}] /\ stored \subseteq Messages
  /\ call \in [Calls -> CallSet] /\ now \in Nat
  /\ answering \in Someone /\ raced \in BOOLEAN /\ disturbed \subseteq Calls

\* The unique key: a scope has one row.
OneRow ==
  \A c, d \in Rows : scope[c] = scope[d] /\ scope[c] \in {"default", "instance"} => c = d

\* What a request knows of the rows, whatever the others did since it read them.
CallOK(r) ==
  /\ call[r].kind \in {"send", "assign"} => call[r].row \in Rows
  /\ call[r].pc \in {"store", "stamp", "assign"} =>
       call[r].row \in Rows /\ scope[call[r].row] = "instance"
  /\ call[r].pc = "upsert" /\ call[r].row # NoRow => scope[call[r].row] = "instance"
  /\ call[r].pc = "scoped" => \E k \in CandidateSet : call[r].seen = {k}
  /\ call[r].pc \in {"move", "rewrite"} => call[r].stays \in Rows /\ call[r].goes # call[r].stays
  /\ call[r].pc = "rewrite" /\ Old \in stored /\ place[Old] = call[r].goes =>
       Old \in call[r].moved \/ scope[call[r].goes] = "instance"

NoInstance == \A c \in Rows : scope[c] # "instance"

\* Where the assignment is, and what the merges under way make of it.
AssignedRows ==
  /\ \A c \in Rows : scope[c] = "instance" => assigned[c] = answering
  /\ NoInstance =>
       /\ \E c \in Rows : scope[c] = "default" /\ assigned[c] = answering
       /\ \A r \in Calls : call[r].pc \notin {"act", "upsert", "store", "stamp", "assign"}
AssignmentRead(r) ==
  /\ call[r].pc = "scoped" /\ NoInstance => \A k \in call[r].seen : k.assigned = answering
  /\ call[r].pc \in {"move", "rewrite"} /\ (\A c \in Rows : scope[c] = "instance" => c = call[r].stays) =>
       call[r].shape = answering
AssignmentOK ==
  ~ raced /\ answering # Nobody => AssignedRows /\ \A r \in Calls : AssignmentRead(r)

ConvInv ==
  /\ ConvConstants /\ ConvTypes /\ OneRow /\ StoredIsVisible
  /\ \A r \in Calls : CallOK(r)
  /\ AssignmentOK

-----------------------------------------------------------------------------
(* Steps of a request *)

LEMMA RestCall == AtRest \in CallSet
BY DEF AtRest, CallSet, Kinds, Steps, Someone, CandidateSet, Messages

LEMMA EndCalls ==
  ASSUME NEW pc \in Steps
  PROVE  /\ [AtRest EXCEPT !.pc = pc] \in CallSet
         /\ [AtRest EXCEPT !.pc = pc].pc = pc
         /\ [AtRest EXCEPT !.pc = pc].kind = "none"
BY RestCall DEF AtRest, CallSet

LEMMA GoesOn ==
  ASSUME ConvTypes, NEW r \in Calls, NEW to \in CallSet, Goes(r, to)
  PROVE  /\ call' \in [Calls -> CallSet] /\ call'[r] = to /\ disturbed' \subseteq Calls
         /\ \A x \in Calls : x # r => call'[x] = call[x]
BY DEF ConvTypes, Goes

LEMMA ToCall ==
  ASSUME ConvTypes, NEW r \in Calls, NEW pc \in Steps
  PROVE  /\ To(pc, r) \in CallSet /\ To(pc, r).pc = pc
         /\ To(pc, r).kind = call[r].kind /\ To(pc, r).row = call[r].row
         /\ To(pc, r).seen = call[r].seen /\ To(pc, r).stays = call[r].stays
         /\ To(pc, r).goes = call[r].goes /\ To(pc, r).shape = call[r].shape
         /\ To(pc, r).moved = call[r].moved
<1>1. call[r] \in CallSet
  BY DEF ConvTypes
<1> QED
  BY <1>1 DEF To, CallSet

\* A request that moves on as it is, or is over.
LEMMA Moves ==
  ASSUME ConvTypes, NEW r \in Calls, NEW pc \in Steps, Goes(r, To(pc, r))
  PROVE  /\ call' \in [Calls -> CallSet] /\ disturbed' \subseteq Calls
         /\ \A x \in Calls : x # r => call'[x] = call[x]
         /\ call'[r].pc = pc /\ call'[r].kind = call[r].kind /\ call'[r].row = call[r].row
         /\ call'[r].seen = call[r].seen /\ call'[r].stays = call[r].stays
         /\ call'[r].goes = call[r].goes /\ call'[r].shape = call[r].shape
         /\ call'[r].moved = call[r].moved
BY GoesOn, ToCall

LEMMA Stops ==
  ASSUME ConvTypes, NEW r \in Calls, Ends(r) \/ Throws(r)
  PROVE  /\ call' \in [Calls -> CallSet] /\ disturbed' \subseteq Calls
         /\ \A x \in Calls : x # r => call'[x] = call[x]
         /\ call'[r].pc \in {"done", "failed"} /\ call'[r].kind = "none"
<1>1. PICK pc \in {"done", "failed"} : Goes(r, [AtRest EXCEPT !.pc = pc])
  BY DEF Ends, Throws
<1> DEFINE to == [AtRest EXCEPT !.pc = pc]
<1>2. to \in CallSet /\ to.pc = pc /\ to.kind = "none"
  BY EndCalls DEF Steps
<1>3. Goes(r, to)
  BY <1>1
<1> HIDE DEF to
<1> QED
  BY <1>2, <1>3, GoesOn

LEMMA Stopped ==
  ASSUME NEW r \in Calls, call'[r].pc \in {"done", "failed"}, call'[r].kind = "none"
  PROVE  CallOK(r)' /\ AssignmentRead(r)'
BY DEF CallOK, AssignmentRead

-----------------------------------------------------------------------------
(* Candidates *)

LEMMA CandidateType ==
  ASSUME ConvConstants, ConvTypes, NEW c \in Rows
  PROVE  /\ Candidate(c) \in CandidateSet /\ Candidate(c).row = c
         /\ Candidate(c).assigned = assigned[c]
<1>1. IsFiniteSet(Messages)
  BY FS_AddElement DEF ConvConstants, Messages
<1>2. IsFiniteSet({m \in stored : place[m] = c})
  <2>1. {m \in stored : place[m] = c} \subseteq Messages
    BY DEF ConvTypes
  <2> QED
    BY <1>1, <2>1, FS_Subset
<1>3. Cardinality({m \in stored : place[m] = c}) \in Nat
  BY <1>2, FS_CardinalityType
<1> QED
  BY <1>3 DEF Candidate, CandidateSet, ConvTypes

\* Of one or two candidates one is canonical.
LEMMA CanonicalOfTwo ==
  ASSUME NEW j \in CandidateSet, NEW k \in CandidateSet
  PROVE  Canonical({j, k}) \in {j, k}
<1>1. j.count \in Nat /\ j.last \in Nat /\ k.count \in Nat /\ k.last \in Nat
  BY DEF CandidateSet
<1>2. \E b \in {j, k} : \A x \in {j, k} : b.count > x.count \/ (b.count = x.count /\ b.last >= x.last)
  <2>1. CASE j.count > k.count \/ (j.count = k.count /\ j.last >= k.last)
    BY <1>1, <2>1
  <2>2. CASE ~ (j.count > k.count \/ (j.count = k.count /\ j.last >= k.last))
    BY <1>1, <2>2
  <2> QED
    BY <2>1, <2>2
<1> QED
  BY <1>2 DEF Canonical

\* One of them was active last.
LEMMA LatestOfTwo ==
  ASSUME NEW j \in CandidateSet, NEW k \in CandidateSet
  PROVE  Latest({j, k}) \in Nat
<1>1. j.last \in Nat /\ k.last \in Nat
  BY DEF CandidateSet
<1>2. {x.last : x \in {j, k}} = {j.last, k.last}
  OBVIOUS
<1>3. \E n \in {j.last, k.last} : \A x \in {j, k} : n >= x.last
  <2>1. CASE j.last >= k.last
    BY <1>1, <2>1
  <2>2. CASE ~ (j.last >= k.last)
    BY <1>1, <2>2
  <2> QED
    BY <2>1, <2>2
<1> QED
  BY <1>1, <1>2, <1>3 DEF Latest

LEMMA ShapeType ==
  ASSUME NEW j \in CandidateSet, NEW k \in CandidateSet
  PROVE  Shape({j, k}) \in Someone
<1>1. Canonical({j, k}).assigned \in Someone /\ Nobody \in Someone
  BY CanonicalOfTwo DEF CandidateSet, Someone
<1>2. (\E x \in {j, k} : x.assigned # Nobody) =>
        (CHOOSE x \in {j, k} : x.assigned # Nobody) \in CandidateSet
  OBVIOUS
<1>3. (\E x \in {j, k} : x.assigned # Nobody) =>
        (CHOOSE x \in {j, k} : x.assigned # Nobody).assigned \in Someone
  BY <1>2 DEF CandidateSet
<1> QED
  BY <1>1, <1>3 DEF Shape

\* The reading of the instance's row: one or two candidates, one of which is that row
\* if there is one.
Found(r) == {Candidate(c) : c \in InScope("instance")}
            \cup {k \in call[r].seen : k.row \notin InScope("instance")}

LEMMA ScopedRead ==
  ASSUME ConvConstants, ConvTypes, OneRow, NEW r \in Calls, NEW k \in CandidateSet,
         call[r].seen = {k}
  PROVE  /\ NoInstance => Found(r) = {k}
         /\ \A c \in Rows : scope[c] = "instance" =>
              Found(r) = {Candidate(c)} \/ (Found(r) = {Candidate(c), k} /\ k.row # c)
<1>1. CASE NoInstance
  BY <1>1 DEF NoInstance, InScope, Found
<1>2. ASSUME NEW c \in Rows, scope[c] = "instance"
      PROVE  Found(r) = {Candidate(c)} \/ (Found(r) = {Candidate(c), k} /\ k.row # c)
  <2>1. InScope("instance") = {c}
    BY <1>2 DEF InScope, OneRow
  <2>2. Found(r) = {Candidate(c)} \cup {x \in {k} : x.row # c}
    BY <2>1 DEF Found
  <2> QED
    BY <2>2
<1>3. NoInstance \/ \E c \in Rows : scope[c] = "instance"
  BY DEF NoInstance
<1> QED
  BY <1>1, <1>2 DEF NoInstance

-----------------------------------------------------------------------------
(* Every action, as far as it changes requests and rows *)

\* The steps that only read, or find nothing to do.
Reads(r) ==
  /\ UNCHANGED <<conversations, place, stored, now, answering, raced>>
  /\ \A x \in Calls : x # r => call'[x] = call[x]

LEMMA BeginStep ==
  ASSUME ConvTypes, NEW r \in Calls, NEW kind \in Kinds, Begin(r, kind)
  PROVE  /\ Reads(r) /\ call' \in [Calls -> CallSet] /\ disturbed' \subseteq Calls
         /\ call'[r].pc \in {"find", "legacy"}
         /\ call'[r].kind \in {"send", "assign"} => call'[r].row \in Rows
         /\ call[r].pc = "idle"
<1>1. PICK c \in (IF kind \in {"send", "assign"} THEN {x \in Rows : scope[x] # "unused"} ELSE {NoRow}) :
        Goes(r, [AtRest EXCEPT !.kind = kind, !.row = c,
                               !.pc = IF kind = "open" THEN "find" ELSE "legacy"])
  BY DEF Begin
<1> DEFINE to == [AtRest EXCEPT !.kind = kind, !.row = c,
                                !.pc = IF kind = "open" THEN "find" ELSE "legacy"]
<1>2. to \in CallSet /\ to.kind = kind /\ to.row = c /\ to.pc \in {"find", "legacy"}
  <2>1. c \in Rows \cup {NoRow} /\ (IF kind = "open" THEN "find" ELSE "legacy") \in Steps
    BY DEF Steps
  <2> QED
    BY <2>1, RestCall DEF CallSet, AtRest
<1>3. Goes(r, to)
  BY <1>1
<1>4. kind \in {"send", "assign"} => c \in Rows
  BY <1>1
<1> HIDE DEF to
<1> QED
  BY <1>2, <1>3, <1>4, GoesOn DEF Reads, Begin

LEMMA LegacyStep ==
  ASSUME ConvConstants, ConvTypes, OneRow, NEW r \in Calls, ReadLegacy(r)
  PROVE  /\ Reads(r) /\ call' \in [Calls -> CallSet] /\ disturbed' \subseteq Calls
         /\ call'[r].kind = call[r].kind /\ call'[r].row = call[r].row
         /\ \/ call'[r].pc = "act" /\ \A c \in Rows : scope[c] # "default"
            \/ /\ call'[r].pc = "scoped"
               /\ \E c \in Rows : scope[c] = "default" /\ call'[r].seen = {Candidate(c)}
<1>1. CASE InScope("default") = {}
  BY <1>1, Moves DEF ReadLegacy, Reads, InScope, Steps
<1>2. CASE InScope("default") # {}
  <2>1. PICK c \in Rows : scope[c] = "default"
    BY <1>2 DEF InScope
  <2>2. InScope("default") = {c}
    BY <2>1 DEF InScope, OneRow
  <2>3. {Candidate(x) : x \in InScope("default")} = {Candidate(c)}
    BY <2>2
  <2> DEFINE to == [To("scoped", r) EXCEPT !.seen = {Candidate(c)}]
  <2>4. Goes(r, to)
    BY <1>2, <2>3 DEF ReadLegacy
  <2>5. /\ to \in CallSet /\ to.kind = call[r].kind /\ to.row = call[r].row
        /\ to.pc = "scoped" /\ to.seen = {Candidate(c)}
    <3>1. /\ To("scoped", r) \in CallSet /\ To("scoped", r).pc = "scoped"
          /\ To("scoped", r).kind = call[r].kind /\ To("scoped", r).row = call[r].row
      BY ToCall DEF Steps
    <3>2. {Candidate(c)} \in SUBSET CandidateSet
      BY <2>1, CandidateType
    <3> HIDE DEF Kinds, Steps
    <3> QED
      BY <3>1, <3>2 DEF CallSet
  <2> HIDE DEF to
  <2> QED
    BY <2>1, <2>4, <2>5, GoesOn DEF ReadLegacy, Reads
<1> QED
  BY <1>1, <1>2

\* Reading the instance's row makes the plan of the merge: which row stays, and with
\* which assignment.
LEMMA ScopedStep ==
  ASSUME ConvConstants, ConvTypes, OneRow, NEW r \in Calls, CallOK(r), ReadScoped(r)
  PROVE  /\ Reads(r) /\ call' \in [Calls -> CallSet] /\ disturbed' \subseteq Calls
         /\ call'[r].kind = call[r].kind /\ call'[r].row = call[r].row
         /\ call'[r].pc = "move" /\ call'[r].stays \in Rows /\ call'[r].goes # call'[r].stays
         /\ NoInstance => \E k \in CandidateSet :
              call[r].seen = {k} /\ (k.assigned # Nobody => call'[r].shape = k.assigned)
         /\ \A c \in Rows : scope[c] = "instance" /\ call'[r].stays = c /\ assigned[c] # Nobody =>
              call'[r].shape = assigned[c]
<1> DEFINE all   == Found(r)
           stays == Canonical(all).row
           others == {k.row : k \in all} \ {stays}
           goes  == IF others = {} THEN NoRow ELSE CHOOSE c \in others : TRUE
           to    == [To("move", r) EXCEPT !.seen = {}, !.stays = stays, !.shape = Shape(all),
                                          !.latest = Latest(all), !.goes = goes]
<1>1. PICK k \in CandidateSet : call[r].seen = {k}
  BY DEF ReadScoped, CallOK
<1>2. /\ NoInstance => all = {k}
      /\ \A c \in Rows : scope[c] = "instance" =>
           all = {Candidate(c)} \/ (all = {Candidate(c), k} /\ k.row # c)
  BY <1>1, ScopedRead
<1>3. Goes(r, to)
  BY DEF ReadScoped, Found
<1> HIDE DEF all, to
<1>4. PICK j \in CandidateSet, i \in CandidateSet : all = {i, j}
  <2>1. CASE NoInstance
    BY <1>2, <2>1
  <2>2. CASE ~ NoInstance
    <3>1. PICK c \in Rows : scope[c] = "instance"
      BY <2>2 DEF NoInstance
    <3>2. Candidate(c) \in CandidateSet
      BY CandidateType
    <3>3. CASE all = {Candidate(c)}
      <4>1. all = {Candidate(c), Candidate(c)}
        BY <3>3
      <4> QED
        BY <3>2, <4>1
    <3> QED
      BY <1>2, <3>1, <3>2, <3>3
  <2> QED
    BY <2>1, <2>2
<1>5. Canonical(all) \in all /\ Shape(all) \in Someone /\ Latest(all) \in Nat
  BY <1>4, CanonicalOfTwo, ShapeType, LatestOfTwo
<1>6. stays \in Rows /\ goes \in Rows \cup {NoRow} /\ goes # stays
  <2>1. stays \in Rows /\ \A x \in all : x.row \in Rows
    BY <1>4, <1>5 DEF CandidateSet
  <2>2. \A c \in others : c \in Rows /\ c # stays
    BY <2>1
  <2> HIDE DEF others, stays
  <2> QED
    BY <2>1, <2>2 DEF ConvConstants
<1>7. Canonical(all).assigned # Nobody => Shape(all) = Canonical(all).assigned
  BY DEF Shape
<1> HIDE DEF goes
<1>8. /\ to \in CallSet /\ to.kind = call[r].kind /\ to.row = call[r].row /\ to.pc = "move"
      /\ to.stays = stays /\ to.goes = goes /\ to.shape = Shape(all)
  <2>1. /\ To("move", r) \in CallSet /\ To("move", r).pc = "move"
        /\ To("move", r).kind = call[r].kind /\ To("move", r).row = call[r].row
    BY ToCall DEF Steps
  <2> HIDE DEF stays
  <2> QED
    BY <1>5, <1>6, <2>1 DEF CallSet, to
<1>9. /\ call' \in [Calls -> CallSet] /\ disturbed' \subseteq Calls
      /\ \A x \in Calls : x # r => call'[x] = call[x]
      /\ call'[r] = to
  BY <1>3, <1>8, GoesOn
<1>10. NoInstance => all = {k} /\ Canonical(all) = k
  BY <1>2, <1>5
<1>11. ASSUME NEW c \in Rows, scope[c] = "instance", stays = c, assigned[c] # Nobody
       PROVE  Shape(all) = assigned[c]
  <2>1. Candidate(c).row = c /\ Candidate(c).assigned = assigned[c]
    BY CandidateType
  <2>2. Canonical(all) = Candidate(c)
    BY <1>2, <1>5, <1>11, <2>1
  <2> QED
    BY <1>7, <1>11, <2>1, <2>2
<1> HIDE DEF stays
<1> QED
  BY <1>1, <1>6, <1>7, <1>8, <1>9, <1>10, <1>11 DEF ReadScoped, Reads

\* The messages the row that goes has now are planned to move.
LEMMA MoveStep ==
  ASSUME ConvTypes, NEW r \in Calls, MoveMessages(r)
  PROVE  /\ Reads(r) /\ call' \in [Calls -> CallSet] /\ disturbed' \subseteq Calls
         /\ \/ call'[r].pc \in {"done", "failed"} /\ call'[r].kind = "none"
            \/ /\ call[r].pc = "move" /\ call'[r].pc = "rewrite"
               /\ call'[r].kind = call[r].kind /\ call'[r].row = call[r].row
               /\ call'[r].stays = call[r].stays /\ call'[r].goes = call[r].goes
               /\ call'[r].shape = call[r].shape /\ call'[r].moved = ToMove(call[r].goes)
<1> DEFINE to == [To("rewrite", r) EXCEPT !.moved = ToMove(call[r].goes)]
<1>1. Throws(r) \/ Goes(r, to)
  BY DEF MoveMessages
<1>2. CASE Throws(r)
  BY <1>2, Stops DEF MoveMessages, Reads
<1>3. CASE Goes(r, to)
  <2>1. /\ to \in CallSet /\ to.pc = "rewrite" /\ to.kind = call[r].kind /\ to.row = call[r].row
        /\ to.stays = call[r].stays /\ to.goes = call[r].goes /\ to.shape = call[r].shape
        /\ to.moved = ToMove(call[r].goes)
    <3>1. ToMove(call[r].goes) \in SUBSET Messages
      BY DEF ToMove, ConvTypes
    <3>2. /\ To("rewrite", r) \in CallSet /\ To("rewrite", r).pc = "rewrite"
          /\ To("rewrite", r).kind = call[r].kind /\ To("rewrite", r).row = call[r].row
          /\ To("rewrite", r).stays = call[r].stays /\ To("rewrite", r).goes = call[r].goes
          /\ To("rewrite", r).shape = call[r].shape
      BY ToCall DEF Steps
    <3> QED
      BY <3>1, <3>2 DEF CallSet
  <2> HIDE DEF to
  <2> QED
    BY <1>3, <2>1, GoesOn DEF MoveMessages, Reads
<1> QED
  BY <1>1, <1>2, <1>3

\* A merge leaves one row of the instance, with its plan's assignment, and no row of
\* the instance goes.
LEMMA RewriteStep ==
  ASSUME ConvConstants, ConvTypes, OneRow, NEW r \in Calls, CallOK(r), Rewrite(r)
  PROVE  /\ call' \in [Calls -> CallSet] /\ disturbed' \subseteq Calls
         /\ \A x \in Calls : x # r => call'[x] = call[x]
         /\ call'[r].pc = "act" /\ call'[r].kind = call[r].kind /\ call'[r].row = call[r].row
         /\ UNCHANGED <<stored, now, answering, raced>> /\ last' \in [Rows -> Nat]
         /\ call[r].pc = "rewrite" /\ call[r].stays \in Rows
         /\ \A c \in Rows : scope[c] = "instance" => c = call[r].stays
         /\ scope[call[r].stays] \in {"default", "instance"}
         /\ scope' \in [Rows -> {"unused", "default", "instance", "gone"}]
         /\ \A c \in Rows :
              scope'[c] = IF c = call[r].stays THEN "instance"
                          ELSE IF c = call[r].goes /\ scope[c] = "default" THEN "gone" ELSE scope[c]
         /\ assigned' = [assigned EXCEPT ![call[r].stays] = call[r].shape]
         /\ place' \in [Messages -> Rows \cup {NoRow}]
         /\ \A m \in Messages :
              place'[m] = IF m \in call[r].moved THEN call[r].stays
                          ELSE IF place[m] = call[r].goes /\ call[r].goes # NoRow THEN NoRow ELSE place[m]
<1> DEFINE q == call[r]
           gone == {q.goes} \ {NoRow}
           to == [q EXCEPT !.pc = "act", !.stays = NoRow, !.goes = NoRow, !.shape = Nobody,
                           !.latest = 0, !.moved = {}]
<1>1. q \in CallSet /\ q.pc = "rewrite" /\ q.stays \in Rows /\ q.goes # q.stays
  BY DEF Rewrite, ConvTypes, CallOK
<1>2. Exists(q.stays) /\ (scope[q.stays] = "instance" \/ InScope("instance") \ {q.stays} = {})
  BY DEF Rewrite, CannotRewrite
<1>3. \A c \in Rows : scope[c] = "instance" => c = q.stays
  BY <1>1, <1>2 DEF OneRow, InScope
<1>4. to \in CallSet /\ to.pc = "act" /\ to.kind = q.kind /\ to.row = q.row
  BY <1>1 DEF CallSet, Steps, Someone, Messages
<1>5. Goes(r, to)
  BY DEF Rewrite
<1> HIDE DEF to
<1>6. /\ call' \in [Calls -> CallSet] /\ disturbed' \subseteq Calls
      /\ \A x \in Calls : x # r => call'[x] = call[x]
      /\ call'[r].pc = "act" /\ call'[r].kind = q.kind /\ call'[r].row = q.row
  BY <1>4, <1>5, GoesOn
<1>7. \A c \in Rows :
        scope'[c] = IF c = q.stays THEN "instance"
                    ELSE IF c \in gone /\ Exists(c) THEN "gone" ELSE scope[c]
  BY DEF Rewrite
<1>8. \A c \in Rows :
        scope'[c] = IF c = q.stays THEN "instance"
                    ELSE IF c = q.goes /\ scope[c] = "default" THEN "gone" ELSE scope[c]
  BY <1>3, <1>7 DEF ConvConstants, Exists
<1>9. scope' \in [Rows -> {"unused", "default", "instance", "gone"}]
  <2>1. scope' = [c \in Rows |-> scope'[c]]
    BY DEF Rewrite
  <2>2. \A c \in Rows : scope'[c] \in {"unused", "default", "instance", "gone"}
    BY <1>8 DEF ConvTypes
  <2> QED
    BY <2>1, <2>2
<1>10. \A m \in Messages :
         place'[m] = IF m \in q.moved THEN q.stays
                     ELSE IF place[m] = q.goes /\ q.goes # NoRow THEN NoRow ELSE place[m]
  BY DEF Rewrite, ConvTypes
<1>11. place' \in [Messages -> Rows \cup {NoRow}]
  <2>1. place' = [m \in Messages |-> place'[m]]
    BY DEF Rewrite, ConvTypes
  <2>2. \A m \in Messages : place'[m] \in Rows \cup {NoRow}
    BY <1>1, <1>10 DEF ConvTypes
  <2> QED
    BY <2>1, <2>2
<1>12. assigned' = [assigned EXCEPT ![q.stays] = q.shape] /\ UNCHANGED <<stored, now, answering, raced>>
  BY DEF Rewrite
<1>13. last' \in [Rows -> Nat]
  <2>1. q.latest \in Nat /\ last' = [last EXCEPT ![q.stays] = q.latest]
    BY <1>1 DEF Rewrite, CallSet
  <2> QED
    BY <2>1 DEF ConvTypes
<1> QED
  BY <1>1, <1>2, <1>3, <1>6, <1>8, <1>9, <1>10, <1>11, <1>12, <1>13 DEF Exists

LEMMA ThrownMerge ==
  ASSUME ConvTypes, NEW r \in Calls, MergeThrows(r)
  PROVE  /\ Reads(r) /\ call' \in [Calls -> CallSet] /\ disturbed' \subseteq Calls
         /\ call'[r].pc \in {"done", "failed"} /\ call'[r].kind = "none"
BY Stops DEF MergeThrows, Reads

LEMMA LookUpStep ==
  ASSUME ConvTypes, NEW r \in Calls, LookUp(r)
  PROVE  /\ Reads(r) /\ call' \in [Calls -> CallSet] /\ disturbed' \subseteq Calls
         /\ call'[r].pc = "upsert" /\ call'[r].kind \in {"webhook", "create"} /\ call[r].pc = "act"
         /\ call'[r].row \in Rows \cup {NoRow}
         /\ call'[r].row # NoRow => scope[call'[r].row] = "instance"
<1>1. PICK c \in (IF InScope("instance") = {} THEN {NoRow} ELSE InScope("instance")) :
        Goes(r, [To("upsert", r) EXCEPT !.row = c])
  BY DEF LookUp
<1> DEFINE to == [To("upsert", r) EXCEPT !.row = c]
<1>2. c \in Rows \cup {NoRow} /\ (c # NoRow => scope[c] = "instance")
  BY <1>1 DEF InScope
<1>3. to \in CallSet /\ to.pc = "upsert" /\ to.kind \in {"webhook", "create"} /\ to.row = c
  <2>1. To("upsert", r) \in CallSet /\ To("upsert", r).pc = "upsert" /\ To("upsert", r).kind \in {"webhook", "create"}
    BY ToCall DEF LookUp, Steps
  <2> QED
    BY <1>2, <2>1 DEF CallSet
<1>4. Goes(r, to)
  BY <1>1
<1> HIDE DEF to
<1> QED
  BY <1>2, <1>3, <1>4, GoesOn DEF LookUp, Reads

\* A row is created for a scope that has none.
LEMMA CreatesStep ==
  ASSUME ConvTypes, NEW r \in Calls, NEW s \in {"default", "instance"}, NEW next \in CallSet,
         Creates(r, s, next)
  PROVE  /\ call' \in [Calls -> CallSet] /\ disturbed' \subseteq Calls
         /\ \A x \in Calls : x # r => call'[x] = call[x]
         /\ last' \in [Rows -> Nat] /\ now' \in Nat
         /\ \/ scope' = scope /\ call'[r].pc \in {"done", "failed"} /\ call'[r].kind = "none"
            \/ \E c \in Rows :
                 /\ scope[c] = "unused" /\ scope' = [scope EXCEPT ![c] = s]
                 /\ \A d \in Rows : scope[d] # s
                 /\ call'[r].pc = next.pc /\ call'[r].kind = next.kind /\ call'[r].row = c
<1>1. CASE Refused(s)
  BY <1>1, Stops DEF Creates, ConvTypes
<1>2. CASE ~ Refused(s)
  <2>1. PICK c \in Unused : /\ scope' = [scope EXCEPT ![c] = s]
                            /\ last' = [last EXCEPT ![c] = now + 1] /\ now' = now + 1
                            /\ Goes(r, [next EXCEPT !.row = c])
    BY <1>2 DEF Creates
  <2> DEFINE to == [next EXCEPT !.row = c]
  <2>2. c \in Rows /\ scope[c] = "unused" /\ \A d \in Rows : scope[d] # s
    BY <1>2, <2>1 DEF Unused, Refused, InScope
  <2>3. to \in CallSet /\ to.pc = next.pc /\ to.kind = next.kind /\ to.row = c
    BY <2>2 DEF CallSet
  <2>4. Goes(r, to)
    BY <2>1
  <2>5. last' \in [Rows -> Nat] /\ now' \in Nat
    BY <2>1, <2>2 DEF ConvTypes
  <2> HIDE DEF to
  <2>6. /\ call' \in [Calls -> CallSet] /\ disturbed' \subseteq Calls
        /\ \A x \in Calls : x # r => call'[x] = call[x]
        /\ call'[r].pc = next.pc /\ call'[r].kind = next.kind /\ call'[r].row = c
    BY <2>3, <2>4, GoesOn
  <2> QED
    BY <2>1, <2>2, <2>5, <2>6
<1> QED
  BY <1>1, <1>2

-----------------------------------------------------------------------------
(* What the other requests know stays true *)

\* No step takes a row of the instance away.
InstancesStay == \A c \in Rows : scope[c] = "instance" => scope'[c] = "instance"

LEMMA OthersKnow ==
  ASSUME ConvTypes, NEW x \in Calls, call'[x] = call[x], CallOK(x), InstancesStay,
         Old \in stored' /\ place'[Old] = call[x].goes =>
           (Old \in stored /\ place[Old] = call[x].goes /\ call[x].goes \in Rows)
           \/ scope'[call[x].goes] = "instance"
  PROVE  CallOK(x)'
<1>1. call[x].pc \in {"store", "stamp", "assign"} =>
        call[x].row \in Rows /\ scope'[call[x].row] = "instance"
  BY DEF CallOK, InstancesStay
<1>2. ASSUME call[x].pc = "rewrite", Old \in stored', place'[Old] = call[x].goes
      PROVE  Old \in call[x].moved \/ scope'[call[x].goes] = "instance"
  BY <1>2 DEF CallOK, InstancesStay
<1>3. call[x].pc = "upsert" /\ call[x].row # NoRow => scope'[call[x].row] = "instance"
  BY DEF ConvTypes, CallSet, CallOK, InstancesStay
<1> QED
  BY <1>1, <1>2, <1>3 DEF CallOK

LEMMA OthersRead ==
  ASSUME NEW x \in Calls, call'[x] = call[x], AssignmentRead(x), InstancesStay, answering' = answering
  PROVE  AssignmentRead(x)'
<1>1. CASE call[x].pc = "scoped"
  BY <1>1 DEF AssignmentRead, InstancesStay, NoInstance
<1>2. CASE call[x].pc \in {"move", "rewrite"}
  BY <1>2 DEF AssignmentRead, InstancesStay
<1>3. CASE call[x].pc \notin {"scoped", "move", "rewrite"}
  BY <1>3 DEF AssignmentRead
<1> QED
  BY <1>1, <1>2, <1>3

\* A step that changes no more than its own request, and the time of a row.
Quiet(r) ==
  /\ UNCHANGED <<scope, assigned, place, stored, answering, raced>>
  /\ last' \in [Rows -> Nat] /\ now' \in Nat
  /\ call' \in [Calls -> CallSet] /\ disturbed' \subseteq Calls
  /\ \A x \in Calls : x # r => call'[x] = call[x]

LEMMA AfterQuiet ==
  ASSUME ConvInv, NEW r \in Calls, Quiet(r), CallOK(r)',
         ~ raced /\ answering # Nobody =>
           /\ AssignmentRead(r)'
           /\ NoInstance => call'[r].pc \notin {"act", "upsert", "store", "stamp", "assign"}
  PROVE  ConvInv'
<1>1. ConvTypes'
  BY DEF ConvInv, ConvTypes, Quiet
<1>2. OneRow' /\ StoredIsVisible' /\ InstancesStay
  BY DEF ConvInv, OneRow, StoredIsVisible, Exists, Quiet, InstancesStay
<1>3. ASSUME NEW x \in Calls PROVE CallOK(x)'
  <2>1. CASE x # r
    <3>1. Old \in stored' /\ place'[Old] = call[x].goes =>
            Old \in stored /\ place[Old] = call[x].goes /\ call[x].goes \in Rows
      BY DEF Quiet, ConvInv, StoredIsVisible
    <3> QED
      BY <1>2, <2>1, <3>1, OthersKnow DEF ConvInv, Quiet
  <2> QED
    BY <2>1
<1>4. ASSUME ~ raced, answering # Nobody
      PROVE  AssignedRows' /\ \A x \in Calls : AssignmentRead(x)'
  <2>1. AssignedRows /\ \A x \in Calls : AssignmentRead(x)
    BY <1>4 DEF ConvInv, AssignmentOK
  <2>2. AssignedRows'
    <3>1. \A x \in Calls : NoInstance => call'[x].pc \notin {"act", "upsert", "store", "stamp", "assign"}
      BY <1>4, <2>1 DEF AssignedRows, Quiet
    <3> QED
      BY <2>1, <3>1 DEF AssignedRows, NoInstance, Quiet
  <2>3. ASSUME NEW x \in Calls PROVE AssignmentRead(x)'
    BY <1>2, <1>4, <2>1, OthersRead DEF Quiet
  <2> QED
    BY <2>2, <2>3
<1>5. raced' = raced /\ answering' = answering
  BY DEF Quiet
<1>6. AssignmentOK'
  BY <1>4, <1>5 DEF AssignmentOK
<1>7. ConvConstants'
  BY DEF ConvInv, ConvConstants
<1> QED
  BY <1>1, <1>2, <1>3, <1>6, <1>7 DEF ConvInv

\* A request that is over knows nothing.
LEMMA AfterStop ==
  ASSUME ConvInv, NEW r \in Calls, Quiet(r), call'[r].pc \in {"done", "failed"}, call'[r].kind = "none"
  PROVE  ConvInv'
BY Stopped, AfterQuiet

\* A step that reads is quiet.
LEMMA ReadsQuietly ==
  ASSUME ConvInv, NEW r \in Calls, Reads(r), call' \in [Calls -> CallSet], disturbed' \subseteq Calls
  PROVE  Quiet(r)
BY DEF ConvInv, ConvTypes, Reads, Quiet, conversations

LEMMA AfterCreation ==
  ASSUME ConvInv, NEW r \in Calls, NEW s \in {"default", "instance"}, NEW c \in Rows,
         scope[c] = "unused", scope' = [scope EXCEPT ![c] = s], \A d \in Rows : scope[d] # s,
         UNCHANGED <<assigned, place, stored, answering, raced>>,
         last' \in [Rows -> Nat], now' \in Nat,
         call' \in [Calls -> CallSet], disturbed' \subseteq Calls,
         \A x \in Calls : x # r => call'[x] = call[x],
         call'[r].row = c, call'[r].pc \in {"store", "done"},
         s = "default" => call'[r].pc = "done",
         s = "instance" => call[r].pc \in {"act", "upsert"}
  PROVE  ConvInv'
<1>1. \A d \in Rows : scope'[d] = IF d = c THEN s ELSE scope[d]
  BY DEF ConvInv, ConvTypes
<1>2. ConvTypes'
  <2>1. scope' \in [Rows -> {"unused", "default", "instance", "gone"}]
    BY DEF ConvInv, ConvTypes
  <2> QED
    BY <2>1 DEF ConvInv, ConvTypes
<1>3. OneRow'
  BY <1>1 DEF ConvInv, OneRow
<1>4. StoredIsVisible' /\ InstancesStay
  <2>1. \A m \in stored : place[m] \in Rows /\ scope'[place[m]] = scope[place[m]]
    BY <1>1 DEF ConvInv, StoredIsVisible, Exists
  <2> QED
    BY <1>1, <2>1 DEF ConvInv, StoredIsVisible, Exists, InstancesStay
<1>5. ASSUME NEW x \in Calls PROVE CallOK(x)'
  <2>1. CASE x # r
    <3>1. Old \in stored' /\ place'[Old] = call[x].goes =>
            Old \in stored /\ place[Old] = call[x].goes /\ call[x].goes \in Rows
      BY DEF ConvInv, StoredIsVisible
    <3> QED
      BY <1>4, <2>1, <3>1, OthersKnow DEF ConvInv
  <2>2. CASE x = r
    BY <1>1, <2>2 DEF CallOK
  <2> QED
    BY <2>1, <2>2
<1>6. ASSUME ~ raced, answering # Nobody
      PROVE  AssignedRows' /\ \A x \in Calls : AssignmentRead(x)'
  <2>1. AssignedRows /\ \A x \in Calls : AssignmentRead(x)
    BY <1>6 DEF ConvInv, AssignmentOK
  <2>2. ~ NoInstance /\ s = "default"
    BY <2>1 DEF AssignedRows, NoInstance
  <2>3. AssignedRows'
    BY <1>1, <1>4, <2>1, <2>2 DEF AssignedRows, NoInstance, InstancesStay
  <2>4. ASSUME NEW x \in Calls PROVE AssignmentRead(x)'
    <3>1. CASE x # r
      BY <1>4, <2>1, <3>1, OthersRead
    <3>2. CASE x = r
      BY <2>2, <3>2 DEF AssignmentRead
    <3> QED
      BY <3>1, <3>2
  <2> QED
    BY <2>3, <2>4
<1>7. AssignmentOK' /\ ConvConstants'
  BY <1>6 DEF ConvInv, AssignmentOK, ConvConstants
<1> QED
  BY <1>2, <1>3, <1>4, <1>5, <1>7 DEF ConvInv

-----------------------------------------------------------------------------
(* The invariant, action by action *)

LEMMA InitConv ==
  ASSUME ConvConstants, ConvInit
  PROVE  ConvInv
<1>1. PICK c \in Rows \cup {NoRow}, o \in Operators \cup {Nobody} :
        /\ scope = [x \in Rows |-> IF x = c THEN "default" ELSE "unused"]
        /\ assigned = [x \in Rows |-> IF x = c THEN o ELSE Nobody]
        /\ place = [m \in Calls \cup {Old} |-> IF m = Old THEN c ELSE NoRow]
        /\ stored = IF c = NoRow THEN {} ELSE {Old}
        /\ answering = IF c = NoRow THEN Nobody ELSE o
  BY DEF ConvInit
<1>2. /\ last = [x \in Rows |-> 0] /\ now = 0 /\ call = [r \in Calls |-> AtRest]
      /\ raced = FALSE /\ disturbed = {}
  BY DEF ConvInit
<1>3. ConvTypes
  BY <1>1, <1>2, RestCall DEF ConvTypes, Someone, Messages
<1>4. OneRow /\ StoredIsVisible
  BY <1>1 DEF OneRow, StoredIsVisible, Exists
<1>5. \A r \in Calls : CallOK(r) /\ AssignmentRead(r)
                       /\ call[r].pc \notin {"act", "upsert", "store", "stamp", "assign"}
  BY <1>2 DEF CallOK, AssignmentRead, AtRest
<1>6. answering # Nobody => AssignedRows
  BY <1>1, <1>5 DEF AssignedRows, NoInstance, ConvConstants
<1> QED
  BY <1>3, <1>4, <1>5, <1>6 DEF ConvInv, AssignmentOK

LEMMA BeginKeeps ==
  ASSUME ConvInv, NEW r \in Calls, NEW kind \in Kinds, Begin(r, kind)
  PROVE  ConvInv'
<1>1. /\ Reads(r) /\ call' \in [Calls -> CallSet] /\ disturbed' \subseteq Calls
      /\ call'[r].pc \in {"find", "legacy"}
      /\ call'[r].kind \in {"send", "assign"} => call'[r].row \in Rows
  BY BeginStep DEF ConvInv
<1>2. CallOK(r)' /\ AssignmentRead(r)'
  BY <1>1 DEF CallOK, AssignmentRead
<1> QED
  BY <1>1, <1>2, ReadsQuietly, AfterQuiet

LEMMA LegacyKeeps ==
  ASSUME ConvInv, NEW r \in Calls, ReadLegacy(r)
  PROVE  ConvInv'
<1>1. ConvConstants /\ ConvTypes /\ OneRow /\ CallOK(r)
  BY DEF ConvInv
<1>2. /\ Reads(r) /\ call' \in [Calls -> CallSet] /\ disturbed' \subseteq Calls
      /\ call'[r].kind = call[r].kind /\ call'[r].row = call[r].row
      /\ \/ call'[r].pc = "act" /\ \A c \in Rows : scope[c] # "default"
         \/ /\ call'[r].pc = "scoped"
            /\ \E c \in Rows : scope[c] = "default" /\ call'[r].seen = {Candidate(c)}
  BY <1>1, LegacyStep
<1>3. CASE call'[r].pc = "act" /\ \A c \in Rows : scope[c] # "default"
  <2>1. CallOK(r)' /\ AssignmentRead(r)'
    BY <1>1, <1>2, <1>3 DEF CallOK, AssignmentRead
  <2>2. ~ raced /\ answering # Nobody => ~ NoInstance
    BY <1>3 DEF ConvInv, AssignmentOK, AssignedRows
  <2> QED
    BY <1>2, <2>1, <2>2, ReadsQuietly, AfterQuiet
<1>4. ASSUME call'[r].pc = "scoped", NEW c \in Rows, scope[c] = "default", call'[r].seen = {Candidate(c)}
      PROVE  ConvInv'
  <2>1. Candidate(c) \in CandidateSet /\ Candidate(c).assigned = assigned[c]
    BY <1>1, CandidateType
  <2>2. CallOK(r)'
    BY <1>1, <1>2, <1>4, <2>1 DEF CallOK
  <2>3. ASSUME ~ raced, answering # Nobody, NoInstance
        PROVE  assigned[c] = answering
    <3>1. PICK d \in Rows : scope[d] = "default" /\ assigned[d] = answering
      BY <2>3 DEF ConvInv, AssignmentOK, AssignedRows
    <3> QED
      BY <1>1, <1>4, <3>1 DEF OneRow
  <2>4. UNCHANGED <<scope, answering>>
    BY <1>2 DEF Reads, conversations
  <2>5. ~ raced /\ answering # Nobody => AssignmentRead(r)'
    BY <1>4, <2>1, <2>3, <2>4 DEF AssignmentRead, NoInstance
  <2> QED
    BY <1>2, <1>4, <2>2, <2>5, ReadsQuietly, AfterQuiet
<1> QED
  BY <1>2, <1>3, <1>4

LEMMA ScopedKeeps ==
  ASSUME ConvInv, NEW r \in Calls, ReadScoped(r)
  PROVE  ConvInv'
<1>1. ConvConstants /\ ConvTypes /\ OneRow /\ CallOK(r)
  BY DEF ConvInv
<1>2. /\ Reads(r) /\ call' \in [Calls -> CallSet] /\ disturbed' \subseteq Calls
      /\ call'[r].kind = call[r].kind /\ call'[r].row = call[r].row
      /\ call'[r].pc = "move" /\ call'[r].stays \in Rows /\ call'[r].goes # call'[r].stays
      /\ NoInstance => \E k \in CandidateSet :
           call[r].seen = {k} /\ (k.assigned # Nobody => call'[r].shape = k.assigned)
      /\ \A c \in Rows : scope[c] = "instance" /\ call'[r].stays = c /\ assigned[c] # Nobody =>
           call'[r].shape = assigned[c]
  BY <1>1, ScopedStep
<1>3. CallOK(r)'
  BY <1>1, <1>2 DEF CallOK
<1>4. ASSUME ~ raced, answering # Nobody
      PROVE  AssignmentRead(r)'
  <2>1. AssignedRows /\ AssignmentRead(r) /\ UNCHANGED <<scope, answering>> /\ call[r].pc = "scoped"
    BY <1>2, <1>4 DEF ConvInv, AssignmentOK, Reads, conversations, ReadScoped
  <2>2. NoInstance => call'[r].shape = answering
    BY <1>2, <1>4, <2>1 DEF AssignmentRead
  <2>3. ASSUME ~ NoInstance, \A c \in Rows : scope[c] = "instance" => c = call'[r].stays
        PROVE  call'[r].shape = answering
    BY <1>2, <1>4, <2>1, <2>3 DEF AssignedRows, NoInstance
  <2> QED
    BY <1>2, <2>1, <2>2, <2>3 DEF AssignmentRead
<1> QED
  BY <1>2, <1>3, <1>4, ReadsQuietly, AfterQuiet

LEMMA MoveKeeps ==
  ASSUME ConvInv, NEW r \in Calls, MoveMessages(r)
  PROVE  ConvInv'
<1>1. ConvTypes /\ CallOK(r)
  BY DEF ConvInv
<1>2. /\ Reads(r) /\ call' \in [Calls -> CallSet] /\ disturbed' \subseteq Calls
      /\ \/ call'[r].pc \in {"done", "failed"} /\ call'[r].kind = "none"
         \/ /\ call[r].pc = "move" /\ call'[r].pc = "rewrite"
            /\ call'[r].kind = call[r].kind /\ call'[r].row = call[r].row
            /\ call'[r].stays = call[r].stays /\ call'[r].goes = call[r].goes
            /\ call'[r].shape = call[r].shape /\ call'[r].moved = ToMove(call[r].goes)
  BY <1>1, MoveStep
<1>3. CASE call'[r].pc \in {"done", "failed"} /\ call'[r].kind = "none"
  BY <1>2, <1>3, ReadsQuietly, AfterStop
<1>4. CASE /\ call[r].pc = "move" /\ call'[r].pc = "rewrite"
           /\ call'[r].kind = call[r].kind /\ call'[r].row = call[r].row
           /\ call'[r].stays = call[r].stays /\ call'[r].goes = call[r].goes
           /\ call'[r].shape = call[r].shape /\ call'[r].moved = ToMove(call[r].goes)
  <2>1. UNCHANGED <<scope, place, stored, answering>>
    BY <1>2 DEF Reads, conversations
  <2>2. CallOK(r)'
    BY <1>1, <1>4, <2>1 DEF CallOK, ToMove
  <2>3. ~ raced /\ answering # Nobody => AssignmentRead(r)'
    BY <1>4, <2>1 DEF ConvInv, AssignmentOK, AssignmentRead
  <2> QED
    BY <1>2, <1>4, <2>2, <2>3, ReadsQuietly, AfterQuiet
<1> QED
  BY <1>2, <1>3, <1>4

LEMMA RewriteKeeps ==
  ASSUME ConvInv, NEW r \in Calls, Rewrite(r)
  PROVE  ConvInv'
<1> DEFINE stays == call[r].stays
           goes  == call[r].goes
<1>1. ConvConstants /\ ConvTypes /\ OneRow /\ CallOK(r) /\ StoredIsVisible
  BY DEF ConvInv
<1>2. /\ call' \in [Calls -> CallSet] /\ disturbed' \subseteq Calls
      /\ \A x \in Calls : x # r => call'[x] = call[x]
      /\ call'[r].pc = "act" /\ call'[r].kind = call[r].kind /\ call'[r].row = call[r].row
      /\ UNCHANGED <<stored, now, answering, raced>> /\ last' \in [Rows -> Nat]
      /\ call[r].pc = "rewrite" /\ stays \in Rows
      /\ \A c \in Rows : scope[c] = "instance" => c = stays
      /\ scope' \in [Rows -> {"unused", "default", "instance", "gone"}]
      /\ assigned' = [assigned EXCEPT ![stays] = call[r].shape]
      /\ place' \in [Messages -> Rows \cup {NoRow}]
  BY <1>1, RewriteStep
<1>3. \A c \in Rows : scope'[c] = IF c = stays THEN "instance"
                                  ELSE IF c = goes /\ scope[c] = "default" THEN "gone" ELSE scope[c]
  BY <1>1, RewriteStep
<1>4. \A m \in Messages :
        place'[m] = IF m \in call[r].moved THEN stays
                    ELSE IF place[m] = goes /\ goes # NoRow THEN NoRow ELSE place[m]
  BY <1>1, RewriteStep
<1>5. goes # stays /\ call[r].shape \in Someone /\ stored \subseteq Messages
  BY <1>1, <1>2 DEF CallOK, ConvTypes, CallSet
<1> HIDE DEF stays, goes
<1>6. ConvTypes'
  <2>1. assigned' \in [Rows -> Someone]
    BY <1>1, <1>2, <1>5 DEF ConvTypes
  <2> QED
    BY <1>1, <1>2, <2>1 DEF ConvTypes
<1>7. OneRow' /\ InstancesStay
  BY <1>1, <1>2, <1>3 DEF OneRow, InstancesStay
<1>8. ASSUME NEW m \in stored
      PROVE  \/ place'[m] = stays
             \/ place'[m] = place[m] /\ place[m] # goes
  <2>1. CASE m \in call[r].moved
    BY <1>4, <1>5, <2>1
  <2>2. CASE m \notin call[r].moved /\ place[m] = goes
    <3>1. goes \in Rows /\ (m # Old => scope[goes] = "instance")
      BY <1>1, <2>2 DEF StoredIsVisible
    <3>2. m = Old => scope[goes] = "instance"
      BY <1>1, <1>2, <2>2 DEF CallOK, goes
    <3> QED
      BY <1>2, <1>5, <3>1, <3>2
  <2>3. CASE m \notin call[r].moved /\ place[m] # goes
    BY <1>4, <1>5, <2>3
  <2> QED
    BY <2>1, <2>2, <2>3
<1>9. StoredIsVisible'
  BY <1>1, <1>2, <1>3, <1>8 DEF StoredIsVisible, Exists
<1>10. ASSUME NEW x \in Calls PROVE CallOK(x)'
  <2>1. CASE x # r
    <3>1. ASSUME Old \in stored', place'[Old] = call[x].goes
          PROVE  (Old \in stored /\ place[Old] = call[x].goes /\ call[x].goes \in Rows)
                 \/ scope'[call[x].goes] = "instance"
      BY <1>1, <1>2, <1>3, <1>8, <3>1 DEF StoredIsVisible
    <3> QED
      BY <1>1, <1>2, <1>7, <2>1, <3>1, OthersKnow DEF ConvInv
  <2>2. CASE x = r
    BY <1>1, <1>2, <2>2 DEF CallOK
  <2> QED
    BY <2>1, <2>2
<1>11. ASSUME ~ raced, answering # Nobody
       PROVE  AssignedRows' /\ \A x \in Calls : AssignmentRead(x)'
  <2>1. AssignedRows /\ \A x \in Calls : AssignmentRead(x)
    BY <1>11 DEF ConvInv, AssignmentOK
  <2>2. call[r].shape = answering
    BY <1>2, <2>1 DEF AssignmentRead, stays
  <2>3. AssignedRows'
    <3>1. \A c \in Rows : scope'[c] = "instance" => assigned'[c] = answering'
      BY <1>1, <1>2, <1>3, <2>2 DEF ConvTypes
    <3>2. ~ NoInstance'
      BY <1>2, <1>3 DEF NoInstance
    <3> QED
      BY <3>1, <3>2 DEF AssignedRows
  <2>4. ASSUME NEW x \in Calls PROVE AssignmentRead(x)'
    <3>1. CASE x # r
      BY <1>2, <1>7, <2>1, <3>1, OthersRead
    <3>2. CASE x = r
      BY <1>2, <3>2 DEF AssignmentRead
    <3> QED
      BY <3>1, <3>2
  <2> QED
    BY <2>3, <2>4
<1>12. AssignmentOK' /\ ConvConstants'
  BY <1>1, <1>2, <1>11 DEF AssignmentOK, ConvConstants
<1> QED
  BY <1>6, <1>7, <1>9, <1>10, <1>12 DEF ConvInv

LEMMA ThrowKeeps ==
  ASSUME ConvInv, NEW r \in Calls, MergeThrows(r)
  PROVE  ConvInv'
BY ThrownMerge, ReadsQuietly, AfterStop DEF ConvInv

LEMMA LookUpKeeps ==
  ASSUME ConvInv, NEW r \in Calls, LookUp(r)
  PROVE  ConvInv'
<1>1. /\ Reads(r) /\ call' \in [Calls -> CallSet] /\ disturbed' \subseteq Calls
      /\ call'[r].pc = "upsert" /\ call'[r].kind \in {"webhook", "create"} /\ call[r].pc = "act"
      /\ call'[r].row # NoRow => scope[call'[r].row] = "instance"
  BY LookUpStep DEF ConvInv
<1>2. scope' = scope
  BY <1>1 DEF Reads, conversations
<1>3. CallOK(r)' /\ AssignmentRead(r)'
  BY <1>1, <1>2 DEF CallOK, AssignmentRead
<1>4. ~ raced /\ answering # Nobody => ~ NoInstance
  BY <1>1 DEF ConvInv, AssignmentOK, AssignedRows
<1> QED
  BY <1>1, <1>3, <1>4, ReadsQuietly, AfterQuiet

\* A request that creates a row of the scope it was to create, or fails.
LEMMA CreatesKeeps ==
  ASSUME ConvInv, NEW r \in Calls, NEW s \in {"default", "instance"}, NEW next \in CallSet,
         Creates(r, s, next), UNCHANGED <<assigned, place, stored, answering, raced>>,
         next.pc \in {"store", "done"},
         s = "default" => next.pc = "done",
         s = "instance" => call[r].pc \in {"act", "upsert"}
  PROVE  ConvInv'
<1>1. /\ call' \in [Calls -> CallSet] /\ disturbed' \subseteq Calls
      /\ \A x \in Calls : x # r => call'[x] = call[x]
      /\ last' \in [Rows -> Nat] /\ now' \in Nat
      /\ \/ scope' = scope /\ call'[r].pc \in {"done", "failed"} /\ call'[r].kind = "none"
         \/ \E c \in Rows :
              /\ scope[c] = "unused" /\ scope' = [scope EXCEPT ![c] = s]
              /\ \A d \in Rows : scope[d] # s
              /\ call'[r].pc = next.pc /\ call'[r].kind = next.kind /\ call'[r].row = c
  BY CreatesStep DEF ConvInv
<1>2. CASE scope' = scope /\ call'[r].pc \in {"done", "failed"} /\ call'[r].kind = "none"
  <2>1. Quiet(r)
    BY <1>1, <1>2 DEF Quiet
  <2> QED
    BY <1>2, <2>1, AfterStop
<1>3. ASSUME NEW c \in Rows, scope[c] = "unused", scope' = [scope EXCEPT ![c] = s],
             \A d \in Rows : scope[d] # s, call'[r].pc = next.pc, call'[r].row = c
      PROVE  ConvInv'
  <2>1. call'[r].pc \in {"store", "done"} /\ (s = "default" => call'[r].pc = "done")
    BY <1>3
  <2> QED
    BY <1>1, <1>3, <2>1, AfterCreation
<1> QED
  BY <1>1, <1>2, <1>3

LEMMA UpsertKeeps ==
  ASSUME ConvInv, NEW r \in Calls, Upsert(r)
  PROVE  ConvInv'
<1>1. /\ ConvTypes /\ CallOK(r) /\ call[r].pc = "upsert"
      /\ UNCHANGED <<assigned, place, stored, answering, raced>>
  BY DEF ConvInv, Upsert, Ensures
<1>2. CASE Creates(r, "instance", To("store", r))
  <2>1. To("store", r) \in CallSet /\ To("store", r).pc = "store"
    BY <1>1, ToCall DEF Steps
  <2> QED
    BY <1>1, <1>2, <2>1, CreatesKeeps
<1>3. CASE Goes(r, To("store", r)) /\ call[r].row # NoRow /\ UNCHANGED <<scope, last, now>>
  <2>1. /\ call' \in [Calls -> CallSet] /\ disturbed' \subseteq Calls
        /\ \A x \in Calls : x # r => call'[x] = call[x]
        /\ call'[r].pc = "store" /\ call'[r].kind = call[r].kind /\ call'[r].row = call[r].row
    BY <1>1, <1>3, Moves DEF Steps
  <2>2. Quiet(r)
    BY <1>1, <1>3, <2>1 DEF Quiet, ConvTypes
  <2>3. CallOK(r)' /\ AssignmentRead(r)'
    BY <1>1, <1>3, <2>1 DEF ConvTypes, CallSet, CallOK, AssignmentRead
  <2>4. ~ raced /\ answering # Nobody => ~ NoInstance
    BY <1>1 DEF ConvInv, AssignmentOK, AssignedRows
  <2> QED
    BY <2>2, <2>3, <2>4, AfterQuiet
<1>4. CASE Throws(r) /\ UNCHANGED <<scope, last, now>>
  <2>1. Quiet(r) /\ call'[r].pc \in {"done", "failed"} /\ call'[r].kind = "none"
    BY <1>1, <1>4, Stops DEF Quiet, ConvTypes
  <2> QED
    BY <2>1, AfterStop
<1> QED
  BY <1>2, <1>3, <1>4 DEF Upsert, Ensures

LEMMA CreateKeeps ==
  ASSUME ConvInv, NEW r \in Calls, Create(r)
  PROVE  ConvInv'
<1> DEFINE next == [AtRest EXCEPT !.pc = "done"]
<1>1. ConvTypes /\ call[r].pc = "upsert" /\ UNCHANGED <<assigned, place, stored, answering, raced>>
  BY DEF ConvInv, Create, Ensures
<1>2. CASE (Ends(r) \/ Throws(r)) /\ UNCHANGED <<scope, last, now>>
  <2>1. Quiet(r) /\ call'[r].pc \in {"done", "failed"} /\ call'[r].kind = "none"
    BY <1>1, <1>2, Stops DEF Quiet, ConvTypes
  <2> QED
    BY <2>1, AfterStop
<1>3. CASE Creates(r, "instance", next)
  <2>1. next \in CallSet /\ next.pc = "done"
    BY EndCalls DEF Steps
  <2> HIDE DEF next
  <2> QED
    BY <1>1, <1>3, <2>1, CreatesKeeps
<1> QED
  BY <1>2, <1>3 DEF Create, Ensures, Ends

LEMMA FindKeeps ==
  ASSUME ConvInv, NEW r \in Calls, Find(r)
  PROVE  ConvInv'
<1>1. /\ ConvTypes /\ CallOK(r) /\ UNCHANGED <<conversations, place, stored, now, answering, raced>>
  BY DEF ConvInv, Find
<1>2. CASE Ends(r)
  <2>1. Quiet(r) /\ call'[r].pc \in {"done", "failed"} /\ call'[r].kind = "none"
    BY <1>1, <1>2, Stops DEF Quiet, ConvTypes, conversations
  <2> QED
    BY <2>1, AfterStop
<1>3. CASE Goes(r, To("open", r))
  <2>1. /\ call' \in [Calls -> CallSet] /\ disturbed' \subseteq Calls
        /\ \A x \in Calls : x # r => call'[x] = call[x]
        /\ call'[r].pc = "open" /\ call'[r].kind = call[r].kind /\ call'[r].row = call[r].row
    BY <1>1, <1>3, Moves DEF Steps
  <2>2. Quiet(r)
    BY <1>1, <2>1 DEF Quiet, ConvTypes, conversations
  <2>3. CallOK(r)' /\ AssignmentRead(r)'
    BY <1>1, <2>1 DEF CallOK, AssignmentRead
  <2> QED
    BY <2>1, <2>2, <2>3, AfterQuiet
<1> QED
  BY <1>2, <1>3 DEF Find

LEMMA OpenKeeps ==
  ASSUME ConvInv, NEW r \in Calls, OpenConversation(r)
  PROVE  ConvInv'
<1> DEFINE next == [AtRest EXCEPT !.pc = "done"]
<1>1. next \in CallSet /\ next.pc = "done"
  BY EndCalls DEF Steps
<1>2. Creates(r, "default", next) /\ UNCHANGED <<assigned, place, stored, answering, raced>>
  BY DEF OpenConversation
<1> HIDE DEF next
<1> QED
  BY <1>1, <1>2, CreatesKeeps

LEMMA FindByIdKeeps ==
  ASSUME ConvInv, NEW r \in Calls, FindById(r)
  PROVE  ConvInv'
<1>1. /\ ConvTypes /\ CallOK(r) /\ UNCHANGED <<conversations, place, stored, now, answering, raced>>
      /\ call[r].pc = "act" /\ call[r].kind \in {"send", "assign"}
  BY DEF ConvInv, FindById
<1>2. CASE Ends(r)
  <2>1. Quiet(r) /\ call'[r].pc \in {"done", "failed"} /\ call'[r].kind = "none"
    BY <1>1, <1>2, Stops DEF Quiet, ConvTypes, conversations
  <2> QED
    BY <2>1, AfterStop
<1>3. ASSUME NEW pc \in {"store", "assign"}, Goes(r, To(pc, r)), scope[call[r].row] = "instance"
      PROVE  ConvInv'
  <2>1. /\ call' \in [Calls -> CallSet] /\ disturbed' \subseteq Calls
        /\ \A x \in Calls : x # r => call'[x] = call[x]
        /\ call'[r].pc = pc /\ call'[r].kind = call[r].kind /\ call'[r].row = call[r].row
    BY <1>1, <1>3, Moves DEF Steps
  <2>2. Quiet(r)
    BY <1>1, <2>1 DEF Quiet, ConvTypes, conversations
  <2>3. CallOK(r)' /\ AssignmentRead(r)'
    BY <1>1, <1>3, <2>1 DEF CallOK, AssignmentRead, conversations
  <2>4. ~ raced /\ answering # Nobody => ~ NoInstance
    BY <1>1 DEF ConvInv, AssignmentOK, AssignedRows
  <2> QED
    BY <2>2, <2>3, <2>4, AfterQuiet
<1> QED
  BY <1>2, <1>3 DEF FindById

LEMMA StoreKeeps ==
  ASSUME ConvInv, NEW r \in Calls, Store(r)
  PROVE  ConvInv'
<1> DEFINE c == call[r].row
<1>1. /\ ConvConstants /\ ConvTypes /\ OneRow /\ CallOK(r) /\ StoredIsVisible
      /\ UNCHANGED <<conversations, now, answering, raced>> /\ call[r].pc = "store"
  BY DEF ConvInv, Store
<1>2. c \in Rows /\ scope[c] = "instance" /\ r \in Messages /\ r # Old
  BY <1>1 DEF CallOK, Messages, ConvConstants
<1>3. stored' = stored \cup {r} /\ place' = [place EXCEPT ![r] = c] /\ Goes(r, To("stamp", r))
  BY <1>2 DEF Store, Exists
<1>4. /\ call' \in [Calls -> CallSet] /\ disturbed' \subseteq Calls
      /\ \A x \in Calls : x # r => call'[x] = call[x]
      /\ call'[r].pc = "stamp" /\ call'[r].kind = call[r].kind /\ call'[r].row = c
  BY <1>1, <1>3, Moves DEF Steps
<1> HIDE DEF c
<1>5. UNCHANGED <<scope, assigned, last, now, answering, raced>>
  BY <1>1 DEF conversations
<1>6. \A m \in Messages : place'[m] = IF m = r THEN c ELSE place[m]
  BY <1>1, <1>3 DEF ConvTypes
<1>7. ConvTypes'
  <2>1. place' \in [Messages -> Rows \cup {NoRow}] /\ stored' \subseteq Messages
    BY <1>1, <1>2, <1>3 DEF ConvTypes
  <2> QED
    BY <1>1, <1>4, <1>5, <2>1 DEF ConvTypes
<1>8. OneRow' /\ InstancesStay
  BY <1>1, <1>5 DEF OneRow, InstancesStay
<1>9. StoredIsVisible'
  <2>1. stored \subseteq Messages
    BY <1>1 DEF ConvTypes
  <2> QED
    BY <1>1, <1>2, <1>3, <1>5, <1>6, <2>1 DEF StoredIsVisible, Exists
<1>10. ASSUME NEW x \in Calls PROVE CallOK(x)'
  <2>1. CASE x # r
    <3>1. Old \in stored' /\ place'[Old] = call[x].goes =>
            Old \in stored /\ place[Old] = call[x].goes /\ call[x].goes \in Rows
      BY <1>1, <1>2, <1>3, <1>6 DEF StoredIsVisible, Messages
    <3> QED
      BY <1>1, <1>4, <1>8, <2>1, <3>1, OthersKnow DEF ConvInv
  <2>2. CASE x = r
    BY <1>1, <1>2, <1>4, <1>5, <2>2 DEF CallOK
  <2> QED
    BY <2>1, <2>2
<1>11. ASSUME ~ raced, answering # Nobody
       PROVE  AssignedRows' /\ \A x \in Calls : AssignmentRead(x)'
  <2>1. AssignedRows /\ \A x \in Calls : AssignmentRead(x)
    BY <1>11 DEF ConvInv, AssignmentOK
  <2>2. AssignedRows'
    BY <1>2, <1>5, <2>1 DEF AssignedRows, NoInstance
  <2>3. ASSUME NEW x \in Calls PROVE AssignmentRead(x)'
    <3>1. CASE x # r
      BY <1>4, <1>5, <1>8, <2>1, <3>1, OthersRead
    <3>2. CASE x = r
      BY <1>4, <3>2 DEF AssignmentRead
    <3> QED
      BY <3>1, <3>2
  <2> QED
    BY <2>2, <2>3
<1>12. AssignmentOK' /\ ConvConstants'
  BY <1>1, <1>5, <1>11 DEF AssignmentOK, ConvConstants
<1> QED
  BY <1>7, <1>8, <1>9, <1>10, <1>12 DEF ConvInv

LEMMA StampKeeps ==
  ASSUME ConvInv, NEW r \in Calls, Stamp(r)
  PROVE  ConvInv'
<1>1. ConvTypes /\ CallOK(r) /\ UNCHANGED <<scope, assigned, place, stored, answering, raced>>
  BY DEF ConvInv, Stamp
<1>2. last' \in [Rows -> Nat] /\ now' \in Nat
  BY <1>1 DEF Stamp, CallOK, ConvTypes
<1>3. Ends(r) \/ Throws(r)
  BY DEF Stamp
<1>4. Quiet(r) /\ call'[r].pc \in {"done", "failed"} /\ call'[r].kind = "none"
  BY <1>1, <1>2, <1>3, Stops DEF Quiet
<1> QED
  BY <1>4, AfterStop

\* An assignment is read by a merge that comes later, or came between a merge's reading
\* and its end.
LEMMA AssignKeeps ==
  ASSUME ConvInv, NEW r \in Calls, NEW o \in Someone, AssignTo(r, o)
  PROVE  ConvInv'
<1> DEFINE c == call[r].row
<1>1. /\ ConvConstants /\ ConvTypes /\ OneRow /\ CallOK(r) /\ StoredIsVisible
      /\ UNCHANGED <<scope, last, place, stored, now>> /\ call[r].pc = "assign"
  BY DEF ConvInv, AssignTo
<1>2. c \in Rows /\ scope[c] = "instance"
  BY <1>1 DEF CallOK
<1>3. /\ assigned' = [assigned EXCEPT ![c] = o] /\ answering' = o
      /\ raced' = (raced \/ \E x \in Calls : Merging(x)) /\ Ends(r)
  BY <1>2 DEF AssignTo, Exists
<1>4. /\ call' \in [Calls -> CallSet] /\ disturbed' \subseteq Calls
      /\ \A x \in Calls : x # r => call'[x] = call[x]
      /\ call'[r].pc \in {"done", "failed"} /\ call'[r].kind = "none"
  BY <1>1, <1>3, Stops
<1> HIDE DEF c
<1>5. ConvTypes'
  <2>1. assigned' \in [Rows -> Someone] /\ raced' \in BOOLEAN
    BY <1>1, <1>3 DEF ConvTypes
  <2> QED
    BY <1>1, <1>3, <1>4, <2>1 DEF ConvTypes
<1>6. OneRow' /\ InstancesStay /\ StoredIsVisible'
  BY <1>1 DEF OneRow, InstancesStay, StoredIsVisible, Exists
<1>7. ASSUME NEW x \in Calls PROVE CallOK(x)'
  <2>1. CASE x # r
    <3>1. Old \in stored' /\ place'[Old] = call[x].goes =>
            Old \in stored /\ place[Old] = call[x].goes /\ call[x].goes \in Rows
      BY <1>1 DEF StoredIsVisible
    <3> QED
      BY <1>1, <1>4, <1>6, <2>1, <3>1, OthersKnow DEF ConvInv
  <2>2. CASE x = r
    BY <1>4, <2>2, Stopped
  <2> QED
    BY <2>1, <2>2
<1>8. ASSUME ~ raced'
      PROVE  AssignedRows' /\ \A x \in Calls : AssignmentRead(x)'
  <2>1. \A x \in Calls : call'[x].pc \notin {"scoped", "move", "rewrite"}
    BY <1>3, <1>4, <1>8 DEF Merging
  <2>2. \A x \in Calls : AssignmentRead(x)'
    BY <2>1 DEF AssignmentRead
  <2>3. \A d \in Rows : scope[d] = "instance" => assigned'[d] = o
    BY <1>1, <1>2, <1>3 DEF OneRow, ConvTypes
  <2>4. AssignedRows'
    BY <1>1, <1>2, <1>3, <2>3 DEF AssignedRows, NoInstance
  <2> QED
    BY <2>2, <2>4
<1>9. AssignmentOK' /\ ConvConstants'
  BY <1>1, <1>8 DEF AssignmentOK, ConvConstants
<1> QED
  BY <1>5, <1>6, <1>7, <1>9 DEF ConvInv

LEMMA ConvStays ==
  ASSUME ConvInv, [ConvNext]_convVars
  PROVE  ConvInv'
<1>1. CASE UNCHANGED convVars
  BY <1>1 DEF convVars, conversations, ConvInv, ConvConstants, ConvTypes, OneRow, StoredIsVisible, Exists,
              CallOK, AssignmentOK, AssignedRows, AssignmentRead, NoInstance
<1>2. ASSUME NEW r \in Calls,
             \/ \E kind \in Kinds : Begin(r, kind)
             \/ ReadLegacy(r) \/ ReadScoped(r) \/ MoveMessages(r) \/ Rewrite(r) \/ MergeThrows(r)
             \/ LookUp(r) \/ Upsert(r) \/ Create(r) \/ Find(r) \/ OpenConversation(r) \/ FindById(r)
             \/ Store(r) \/ Stamp(r) \/ \E o \in Someone : AssignTo(r, o)
      PROVE  ConvInv'
  BY <1>2, BeginKeeps, LegacyKeeps, ScopedKeeps, MoveKeeps, RewriteKeeps, ThrowKeeps, LookUpKeeps,
     UpsertKeeps, CreateKeeps, FindKeeps, OpenKeeps, FindByIdKeeps, StoreKeeps, StampKeeps, AssignKeeps
<1> QED
  BY <1>1, <1>2 DEF ConvNext, Someone

LEMMA ConvInvariant == ConvConstants /\ ConvSpec => []ConvInv
<1>1. ConvConstants /\ ConvInit => ConvInv
  BY InitConv
<1>2. ConvInv /\ [ConvNext]_convVars => ConvInv'
  BY ConvStays
<1> QED
  BY <1>1, <1>2, PTL DEF ConvSpec

-----------------------------------------------------------------------------
(* What follows *)

\* Every reachable state of a contact's conversations is typed, and no scope ever has
\* two rows, for any number of requests.
THEOREM ConversationsTyped == ConvConstants /\ ConvSpec => []ConvTypeOK
<1>1. ASSUME ConvInv PROVE ConvTypeOK
  <2>1. ConvTypes /\ OneRow
    BY <1>1 DEF ConvInv
  <2>2. ASSUME NEW s \in {"default", "instance"} PROVE Cardinality(InScope(s)) <= 1
    <3>1. CASE InScope(s) = {}
      BY <3>1, FS_EmptySet
    <3>2. CASE InScope(s) # {}
      <4>1. PICK c \in Rows : scope[c] = s
        BY <3>2 DEF InScope
      <4>2. InScope(s) = {c}
        BY <2>1, <4>1 DEF InScope, OneRow
      <4>3. Cardinality({c}) = 1
        BY FS_Singleton
      <4> QED
        BY <4>2, <4>3
    <3> QED
      BY <3>1, <3>2
  <2>3. \A r \in Calls : call[r] \in CallSet
    BY <2>1 DEF ConvTypes
  <2>4. \A r \in Calls :
          /\ call[r].kind \in Kinds \cup {"none"}
          /\ {call[r].row, call[r].stays, call[r].goes} \subseteq Rows \cup {NoRow}
          /\ call[r].moved \subseteq Calls \cup {Old}
    BY <2>3 DEF CallSet, Messages
  <2> QED
    BY <2>1, <2>2, <2>4 DEF ConvTypeOK, ConvTypes, Someone, Messages
<1> QED
  BY <1>1, ConvInvariant, PTL

\* No merge loses a message: what was stored stays in a conversation, and what a request
\* stored where operators see it, whatever merges and deletes rows at the same time
\* (reconcileTenantLegacyConversationScopes).
THEOREM MessagesStayVisible == ConvConstants /\ ConvSpec => []StoredIsVisible
<1>1. ConvInv => StoredIsVisible
  BY DEF ConvInv
<1> QED
  BY <1>1, ConvInvariant, PTL

\* The last assignment survives every merge, unless it came between the reading of the
\* rows a merge is made from and the merge's end (mergeConversationShape).
THEOREM AssignmentSurvives == ConvConstants /\ ConvSpec => []AssignmentStays
<1>1. ASSUME ConvInv PROVE AssignmentStays
  <2>1. CASE raced \/ answering = Nobody
    BY <2>1 DEF AssignmentStays
  <2>2. CASE ~ raced /\ answering # Nobody
    <3>1. \E c \in Rows : scope[c] \in {"default", "instance"} /\ assigned[c] = answering
      BY <1>1, <2>2 DEF ConvInv, AssignmentOK, AssignedRows, NoInstance
    <3> QED
      BY <3>1 DEF AssignmentStays, Exists
  <2> QED
    BY <1>1, <2>1, <2>2 DEF ConvInv, ConvTypes
<1> QED
  BY <1>1, ConvInvariant, PTL

=============================================================================
