-------------------------- MODULE MessageMarksProofs --------------------------
(***************************************************************************)
(* What the routes and webhooks keep of the marks of a message, for any    *)
(* contacts, emoji, number of overlapping jobs, marks and failures.        *)
(***************************************************************************)
EXTENDS MessageMarks, TLAPS

Kinds == Emoji \cup Scopes \cup {Nothing}

\* Every variable is typed, but for the reactions being one per actor.
Shaped ==
  /\ row \in [mine : BOOLEAN, external : BOOLEAN, text : {"original"} \cup Scopes, meta : Meta]
  /\ jobs \in [Jobs -> {Idle} \cup Job]
  /\ posted \in SUBSET Mark /\ keys \in SUBSET (Actors \X Kinds)
  /\ made \in 0 .. MaxMarks /\ written \in [Actors -> 0 .. MaxMarks]
  /\ shows \in [Actors -> Emoji \cup {Nothing}] /\ gone \in Scopes \cup {Nothing}
  /\ overlapped \in BOOLEAN /\ misled \in SUBSET Actors
  /\ failures \in 0 .. MaxMarkFaults

\* An actor has one reaction in the row and in whatever a job has read of it.
Single(meta) == \A i, k \in meta.items : i.who = k.who => i = k

\* A mark has its number but for one of a route that is still to be sent.
Fit(job) ==
  Single(job.saw) /\ IF job.pc = "send" THEN job.route /\ job.mark.who = Self ELSE job.mark.n > 0

AllSingle == Single(row.meta) /\ \A j \in Jobs : jobs[j].pc # "idle" => Fit(jobs[j])

MInv == Shaped /\ AllSingle

-----------------------------------------------------------------------------
(* The metadata a mark makes of metadata *)

LEMMA BlankMeta ==
  ASSUME NEW b \in BOOLEAN
  PROVE  Blank(b) \in Meta /\ Single(Blank(b)) /\ Blank(b).items = {} /\ Blank(b).deletion = Nothing
BY DEF Blank, Meta, Single

\* Whatever is applied to metadata is metadata, with one reaction per actor as before.
LEMMA AppliedMeta ==
  ASSUME NEW meta \in Meta, NEW mark, mark.who \in Actors, mark.is \in Kinds
  PROVE  /\ Applied(meta, mark) \in Meta
         /\ Single(meta) => Single(Applied(meta, mark))
         /\ Applied(meta, mark).correlated = meta.correlated
         /\ Applied(meta, mark).deletion = IF mark.is \in Scopes THEN mark.is ELSE meta.deletion
<1>1. CASE mark.is \in Scopes
  <2>1. Applied(meta, mark) = [meta EXCEPT !.items = {}, !.deletion = mark.is]
    BY <1>1 DEF Applied, Deleted
  <2>2. Applied(meta, mark) =
          [items |-> {}, deletion |-> mark.is, correlated |-> meta.correlated]
    BY <2>1 DEF Meta
  <2> QED BY <1>1, <2>2 DEF Meta, Single
<1>2. CASE mark.is \notin Scopes
  <2> DEFINE kept == {i \in meta.items : i.who # mark.who}
             new  == {[who |-> mark.who, emoji |-> e] : e \in {mark.is} \ {Nothing}}
  <2>1. Applied(meta, mark) = [meta EXCEPT !.items = kept \cup new]
    BY <1>2 DEF Applied, Reacted
  <2>2. Applied(meta, mark) =
          [items |-> kept \cup new, deletion |-> meta.deletion, correlated |-> meta.correlated]
    BY <2>1 DEF Meta
  <2>3. mark.is \in Emoji \cup {Nothing} BY <1>2 DEF Kinds
  <2>4. new \subseteq [who : Actors, emoji : Emoji] BY <2>3
  <2>5. kept \subseteq [who : Actors, emoji : Emoji] BY DEF Meta
  <2>6. Applied(meta, mark) \in Meta BY <2>2, <2>4, <2>5 DEF Meta
  <2>7. \A i, k \in new : i = k OBVIOUS
  <2>8. \A i \in new : i.who = mark.who OBVIOUS
  <2>9. Single(meta) => \A i, k \in kept \cup new : i.who = k.who => i = k
    BY <2>7, <2>8 DEF Single
  <2> HIDE DEF kept, new
  <2>10. Single(meta) => Single(Applied(meta, mark)) BY <2>2, <2>9 DEF Single
  <2> QED BY <1>2, <2>2, <2>6, <2>10
<1> QED BY <1>1, <1>2

-----------------------------------------------------------------------------
(* Types *)

LEMMA InitShaped == MarksInit => MInv
<1> SUFFICES ASSUME MarksInit PROVE MInv OBVIOUS
<1>1. PICK mine \in BOOLEAN :
        row = [mine |-> mine, external |-> ~ mine, text |-> "original", meta |-> Blank(mine)]
  BY DEF MarksInit
<1>2. Blank(mine) \in Meta /\ Single(Blank(mine)) BY BlankMeta
<1>3. row \in [mine : BOOLEAN, external : BOOLEAN, text : {"original"} \cup Scopes, meta : Meta]
  BY <1>1, <1>2
<1>4. \A j \in Jobs : jobs[j] = Idle BY DEF MarksInit
<1>5. \A j \in Jobs : jobs[j].pc = "idle" BY <1>4 DEF Idle
<1>6. AllSingle BY <1>1, <1>2, <1>5 DEF AllSingle
<1>7. jobs \in [Jobs -> {Idle} \cup Job] BY DEF MarksInit
<1>8. gone \in Scopes \cup {Nothing} /\ shows \in [Actors -> Emoji \cup {Nothing}] BY DEF MarksInit
<1>9. made \in 0 .. MaxMarks /\ written \in [Actors -> 0 .. MaxMarks] /\ failures \in 0 .. MaxMarkFaults
  BY MarksAssumption DEF MarksInit, MarksAssumption
<1> QED BY <1>3, <1>6, <1>7, <1>8, <1>9 DEF MInv, Shaped, MarksInit

\* Records with some fields exchanged, written out.
LEMMA MovedJob ==
  ASSUME NEW job \in Job, NEW pc, NEW saw
  PROVE  [job EXCEPT !.pc = pc, !.saw = saw]
           = [pc |-> pc, route |-> job.route, mark |-> job.mark, saw |-> saw]
<1>1. job = [pc |-> job.pc, route |-> job.route, mark |-> job.mark, saw |-> job.saw] BY DEF Job
<1>2. [[pc |-> job.pc, route |-> job.route, mark |-> job.mark, saw |-> job.saw] EXCEPT !.pc = pc]
        = [pc |-> pc, route |-> job.route, mark |-> job.mark, saw |-> job.saw]
  OBVIOUS
<1>3. [[pc |-> pc, route |-> job.route, mark |-> job.mark, saw |-> job.saw] EXCEPT !.saw = saw]
        = [pc |-> pc, route |-> job.route, mark |-> job.mark, saw |-> saw]
  OBVIOUS
<1>4. [[job EXCEPT !.pc = pc] EXCEPT !.saw = saw]
        = [pc |-> pc, route |-> job.route, mark |-> job.mark, saw |-> saw]
  BY <1>1, <1>2, <1>3
<1> QED BY <1>4

LEMMA RemarkedJob ==
  ASSUME NEW job \in Job, NEW pc, NEW mark
  PROVE  [job EXCEPT !.pc = pc, !.mark = mark]
           = [pc |-> pc, route |-> job.route, mark |-> mark, saw |-> job.saw]
<1>1. job = [pc |-> job.pc, route |-> job.route, mark |-> job.mark, saw |-> job.saw] BY DEF Job
<1>2. [[pc |-> job.pc, route |-> job.route, mark |-> job.mark, saw |-> job.saw] EXCEPT !.pc = pc]
        = [pc |-> pc, route |-> job.route, mark |-> job.mark, saw |-> job.saw]
  OBVIOUS
<1>3. [[pc |-> pc, route |-> job.route, mark |-> job.mark, saw |-> job.saw] EXCEPT !.mark = mark]
        = [pc |-> pc, route |-> job.route, mark |-> mark, saw |-> job.saw]
  OBVIOUS
<1>4. [[job EXCEPT !.pc = pc] EXCEPT !.mark = mark]
        = [pc |-> pc, route |-> job.route, mark |-> mark, saw |-> job.saw]
  BY <1>1, <1>2, <1>3
<1> QED BY <1>4

LEMMA NumberedJob ==
  ASSUME NEW job \in Job, NEW n
  PROVE  [job EXCEPT !.pc = "write", !.mark.n = n]
           = [pc |-> "write", route |-> job.route, saw |-> job.saw,
              mark |-> [who |-> job.mark.who, is |-> job.mark.is, n |-> n]]
<1>1. [job EXCEPT !.pc = "write", !.mark.n = n]
        = [job EXCEPT !.pc = "write", !.mark = [job.mark EXCEPT !.n = n]]
  BY DEF Job
<1>2. [job.mark EXCEPT !.n = n] = [who |-> job.mark.who, is |-> job.mark.is, n |-> n] BY DEF Job
<1> DEFINE m == [job.mark EXCEPT !.n = n]
<1> HIDE DEF m
<1>3. [job EXCEPT !.pc = "write", !.mark = m]
        = [pc |-> "write", route |-> job.route, mark |-> m, saw |-> job.saw]
  BY RemarkedJob
<1>4. [job EXCEPT !.pc = "write", !.mark.n = n]
        = [pc |-> "write", route |-> job.route, mark |-> m, saw |-> job.saw]
  BY <1>1, <1>3 DEF m
<1> QED BY <1>2, <1>4 DEF m

LEMMA CorrelatedMeta ==
  ASSUME NEW meta \in Meta, NEW c \in BOOLEAN
  PROVE  /\ [meta EXCEPT !.correlated = c]
              = [items |-> meta.items, deletion |-> meta.deletion, correlated |-> c]
         /\ [meta EXCEPT !.correlated = c] \in Meta
         /\ [meta EXCEPT !.correlated = c].items = meta.items
         /\ [meta EXCEPT !.correlated = c].deletion = meta.deletion
BY DEF Meta

\* A job at work is a record.
LEMMA JobAtWork ==
  ASSUME Shaped, NEW j \in Jobs, jobs[j].pc # "idle"
  PROVE  /\ jobs[j] \in Job
         /\ jobs[j] = [pc |-> jobs[j].pc, route |-> jobs[j].route, mark |-> jobs[j].mark, saw |-> jobs[j].saw]
         /\ jobs[j].saw \in Meta /\ jobs[j].route \in BOOLEAN
         /\ jobs[j].mark.who \in Actors /\ jobs[j].mark.is \in Kinds
         /\ jobs[j].mark.n \in 0 .. MaxMarks
<1>1. jobs[j] \in Job BY DEF Shaped, Idle
<1> QED BY <1>1 DEF Job, Kinds

\* Somebody marks the message: what WhatsApp shows stays typed.
LEMMA MarksShaped ==
  ASSUME Shaped, NEW a \in Actors, NEW is \in Kinds, Marks(a, is)
  PROVE  /\ posted' \in SUBSET Mark /\ made' \in 0 .. MaxMarks
         /\ shows' \in [Actors -> Emoji \cup {Nothing}] /\ gone' \in Scopes \cup {Nothing}
         /\ made + 1 \in 1 .. MaxMarks
<1>1. made + 1 \in 1 .. MaxMarks /\ made' = made + 1
  BY MarksAssumption DEF Marks, Shaped, MarksAssumption
<1>2. [who |-> a, is |-> is, n |-> made + 1] \in Mark BY <1>1 DEF Mark, Kinds
<1>3. posted' \in SUBSET Mark BY <1>2 DEF Marks, Shaped
<1>4. shows' \in [Actors -> Emoji \cup {Nothing}] /\ gone' \in Scopes \cup {Nothing}
  BY DEF Marks, Shaped, Kinds
<1> QED BY <1>1, <1>3, <1>4

\* A job that goes from work to rest, or on with something read.
LEMMA JobGoes ==
  ASSUME Shaped, AllSingle, NEW j \in Jobs, NEW next, jobs' = [jobs EXCEPT ![j] = next],
         \/ next = Idle
         \/ next \in Job /\ Fit(next),
         row' = row
  PROVE  jobs' \in [Jobs -> {Idle} \cup Job] /\ AllSingle'
<1>1. jobs' \in [Jobs -> {Idle} \cup Job] BY DEF Shaped
<1>2. jobs'[j] = next /\ \A x \in Jobs : x # j => jobs'[x] = jobs[x] BY DEF Shaped
<1>3. Idle.pc = "idle" BY DEF Idle
<1> QED BY <1>1, <1>2, <1>3 DEF AllSingle

LEMMA PhoneInv == ASSUME MInv, NEW a \in Actors, OnPhone(a) PROVE MInv'
<1>1. PICK is \in Kinds : Marks(a, is) BY DEF OnPhone, Kinds
<1> QED BY <1>1, MarksShaped DEF MInv, OnPhone, Shaped, AllSingle

LEMMA IdentifiedInv == ASSUME MInv, Identified PROVE MInv'
<1>1. row' \in [mine : BOOLEAN, external : BOOLEAN, text : {"original"} \cup Scopes, meta : Meta]
      /\ row'.meta = row.meta
  BY DEF MInv, Shaped, Identified
<1> QED BY <1>1 DEF MInv, Identified, Shaped, AllSingle, World

LEMMA RequestInv ==
  ASSUME MInv, NEW j \in Jobs, NEW is \in Kinds, RequestMark(j, is) PROVE MInv'
<1> DEFINE next == [pc |-> "send", route |-> TRUE, saw |-> row.meta,
                    mark |-> [who |-> Self, is |-> is, n |-> 0]]
<1>1. row.meta \in Meta /\ Single(row.meta) BY DEF MInv, Shaped, AllSingle
<1>2. 0 \in 0 .. MaxMarks BY MarksAssumption DEF MarksAssumption
<1>3. next \in Job /\ Fit(next) BY <1>1, <1>2 DEF Job, Actors, Kinds, Fit
<1>4. jobs' = [jobs EXCEPT ![j] = next] /\ row' = row BY DEF RequestMark
<1> HIDE DEF next
<1>5. jobs' \in [Jobs -> {Idle} \cup Job] /\ AllSingle' BY <1>3, <1>4, JobGoes DEF MInv
<1> QED BY <1>5 DEF MInv, Shaped, RequestMark, World

LEMMA SentJob ==
  ASSUME Shaped, NEW j \in Jobs, jobs[j] \in Job,
         jobs' = [jobs EXCEPT ![j].pc = "write", ![j].mark.n = made + 1]
  PROVE  jobs' = [jobs EXCEPT ![j] =
           [pc |-> "write", route |-> jobs[j].route, saw |-> jobs[j].saw,
            mark |-> [who |-> jobs[j].mark.who, is |-> jobs[j].mark.is, n |-> made + 1]]]
<1>1. jobs' = [jobs EXCEPT ![j] = [jobs[j] EXCEPT !.pc = "write", !.mark.n = made + 1]]
  BY DEF Shaped
<1> QED BY <1>1, NumberedJob

LEMMA SendInv == ASSUME MInv, NEW j \in Jobs, Send(j) PROVE MInv'
<1> DEFINE is == jobs[j].mark.is
<1>1. jobs[j].pc # "idle" /\ row' = row BY DEF Send
<1>2. /\ is \in Kinds /\ jobs[j] \in Job /\ Single(jobs[j].saw) /\ Self \in Actors
  BY <1>1, JobAtWork DEF MInv, AllSingle, Fit, Actors
<1> HIDE DEF is
<1>3. CASE /\ Marks(Self, is) /\ UNCHANGED failures
           /\ jobs' = [jobs EXCEPT ![j].pc = "write", ![j].mark.n = made + 1]
  <2> DEFINE next == [pc |-> "write", route |-> jobs[j].route, saw |-> jobs[j].saw,
                      mark |-> [who |-> jobs[j].mark.who, is |-> jobs[j].mark.is, n |-> made + 1]]
  <2>1. made + 1 \in 1 .. MaxMarks BY <1>2, <1>3, MarksShaped DEF MInv
  <2>2. next \in Job /\ Fit(next) BY <1>1, <1>2, <2>1 DEF Job, Fit, Send, MInv, AllSingle
  <2>3. jobs' = [jobs EXCEPT ![j] = next] BY <1>2, <1>3, SentJob DEF MInv
  <2> HIDE DEF next
  <2>4. jobs' \in [Jobs -> {Idle} \cup Job] /\ AllSingle' BY <1>1, <2>2, <2>3, JobGoes DEF MInv
  <2> QED BY <1>2, <1>3, <2>4, MarksShaped DEF MInv, Shaped, Send
<1>4. CASE jobs' = [jobs EXCEPT ![j] = Idle] /\ Fails
  <2>1. jobs' \in [Jobs -> {Idle} \cup Job] /\ AllSingle' BY <1>1, <1>4, JobGoes DEF MInv
  <2>2. failures' \in 0 .. MaxMarkFaults
    BY <1>4, MarksAssumption DEF Fails, MInv, Shaped, MarksAssumption
  <2>3. CASE Marks(Self, is)
    BY <1>2, <2>1, <2>2, <2>3, MarksShaped DEF MInv, Shaped, Send
  <2>4. CASE UNCHANGED <<World, posted>>
    BY <2>1, <2>2, <2>4 DEF MInv, Shaped, Send, World
  <2> QED BY <1>4, <2>3, <2>4 DEF Send, is
<1> QED BY <1>3, <1>4 DEF Send, is

LEMMA ReceiveInv == ASSUME MInv, NEW j \in Jobs, NEW mark \in posted, Receive(j, mark) PROVE MInv'
<1>1. mark \in Mark BY DEF MInv, Shaped
<1>2. /\ mark.who \in Actors /\ mark.is \in Kinds /\ mark.n \in 1 .. MaxMarks
      /\ mark = [who |-> mark.who, is |-> mark.is, n |-> mark.n]
  BY <1>1 DEF Mark, Kinds
<1>3. posted' \in SUBSET Mark BY DEF Receive, MInv, Shaped
<1>4. keys' \in SUBSET (Actors \X Kinds) BY <1>2 DEF Receive, MInv, Shaped, KeyOf
<1>5. CASE Misled(mark.who) /\ UNCHANGED jobs
  <2>1. misled' \in SUBSET Actors BY <1>2, <1>5 DEF Misled, MInv, Shaped
  <2> QED BY <1>3, <1>4, <1>5, <2>1 DEF Receive, World, MInv, Shaped, AllSingle
<1>6. CASE /\ jobs' = [jobs EXCEPT ![j] = [pc |-> "write", route |-> FALSE, mark |-> mark,
                                           saw |-> row.meta]]
           /\ UNCHANGED misled
  <2> DEFINE next == [pc |-> "write", route |-> FALSE, mark |-> mark, saw |-> row.meta]
  <2>1. row.meta \in Meta /\ Single(row.meta) BY DEF MInv, Shaped, AllSingle
  <2>2. mark \in [who : Actors, is : Emoji \cup Scopes \cup {Nothing}, n : 0 .. MaxMarks]
    BY <1>2 DEF Kinds
  <2>3. next \in Job /\ Fit(next) BY <1>2, <2>1, <2>2 DEF Job, Fit
  <2>4. jobs' = [jobs EXCEPT ![j] = next] /\ row' = row BY <1>6 DEF Receive
  <2> HIDE DEF next
  <2>5. jobs' \in [Jobs -> {Idle} \cup Job] /\ AllSingle' BY <2>3, <2>4, JobGoes DEF MInv
  <2> QED BY <1>3, <1>4, <1>6, <2>5 DEF Receive, World, MInv, Shaped
<1> QED BY <1>5, <1>6 DEF Receive

\* What Write does, written out.
LEMMA WriteEffect ==
  ASSUME MInv, NEW j \in Jobs, Write(j),
         NEW mark, mark = jobs[j].mark,
         NEW meta, meta = Applied(jobs[j].saw, mark),
         NEW stays, stays = (meta.correlated \/ (jobs[j].route /\ mark.is \in Scopes))
  PROVE  /\ stays \in BOOLEAN
         /\ row'.meta = [meta EXCEPT !.correlated = stays]
         /\ row'.meta \in Meta /\ Single(row'.meta)
         /\ row'.meta.items = meta.items /\ row'.meta.deletion = meta.deletion
         /\ row'.text = IF mark.is \in Scopes THEN mark.is ELSE row.text
         /\ row' \in [mine : BOOLEAN, external : BOOLEAN, text : {"original"} \cup Scopes, meta : Meta]
         /\ jobs' = [jobs EXCEPT ![j] =
              [pc |-> IF stays THEN "publish" ELSE "correlate", route |-> jobs[j].route,
               mark |-> mark, saw |-> IF stays THEN Unread ELSE row'.meta]]
<1>1. jobs[j].pc # "idle" BY DEF Write
<1>2. /\ jobs[j] \in Job /\ mark.who \in Actors /\ mark.is \in Kinds
      /\ jobs[j].saw \in Meta /\ jobs[j].route \in BOOLEAN /\ Single(jobs[j].saw)
  BY <1>1, JobAtWork DEF MInv, AllSingle, Fit
<1>3. meta \in Meta /\ Single(meta) BY <1>2, AppliedMeta
<1>4. stays \in BOOLEAN BY <1>2, <1>3 DEF Meta
<1> DEFINE full == [meta EXCEPT !.correlated = stays]
<1>5. /\ full = [items |-> meta.items, deletion |-> meta.deletion, correlated |-> stays]
      /\ full \in Meta /\ full.items = meta.items /\ full.deletion = meta.deletion
  BY <1>3, <1>4, CorrelatedMeta
<1>6. Single(full) BY <1>3, <1>5 DEF Single
<1> HIDE DEF full
<1>7. StoreMarks(mark, full) BY DEF Write, full
<1>8. row' = [row EXCEPT !.meta = full, !.text = IF mark.is \in Scopes THEN mark.is ELSE row.text]
  BY <1>7 DEF StoreMarks
<1>9. /\ row'.meta = full /\ row'.text = IF mark.is \in Scopes THEN mark.is ELSE row.text
      /\ row' \in [mine : BOOLEAN, external : BOOLEAN, text : {"original"} \cup Scopes, meta : Meta]
  BY <1>5, <1>8 DEF MInv, Shaped
<1>10. jobs' = [jobs EXCEPT ![j] = [jobs[j] EXCEPT !.pc = IF stays THEN "publish" ELSE "correlate",
                                                   !.saw = IF stays THEN Unread ELSE row'.meta]]
  BY DEF Write, MInv, Shaped
<1> DEFINE pc == IF stays THEN "publish" ELSE "correlate"
           saw == IF stays THEN Unread ELSE row'.meta
<1> HIDE DEF pc, saw
<1>11. [jobs[j] EXCEPT !.pc = pc, !.saw = saw]
         = [pc |-> pc, route |-> jobs[j].route, mark |-> mark, saw |-> saw]
  BY <1>2, MovedJob
<1>12. jobs' = [jobs EXCEPT ![j] = [pc |-> pc, route |-> jobs[j].route, mark |-> mark, saw |-> saw]]
  BY <1>10, <1>11 DEF pc, saw
<1> QED BY <1>4, <1>5, <1>6, <1>9, <1>12 DEF pc, saw, full

\* The job keeps its mark.
LEMMA WriteMoves ==
  ASSUME MInv, NEW j \in Jobs, Write(j)
  PROVE  /\ jobs'[j].pc \notin {"idle", "send", "write"} /\ jobs'[j].mark = jobs[j].mark
         /\ \A x \in Jobs : x # j => jobs'[x] = jobs[x]
<1> DEFINE mark == jobs[j].mark
           meta == Applied(jobs[j].saw, mark)
           stays == meta.correlated \/ (jobs[j].route /\ mark.is \in Scopes)
<1>1. jobs' = [jobs EXCEPT ![j] =
         [pc |-> IF stays THEN "publish" ELSE "correlate", route |-> jobs[j].route,
          mark |-> mark, saw |-> IF stays THEN Unread ELSE row'.meta]]
  BY WriteEffect
<1> HIDE DEF meta, stays
<1> QED BY <1>1 DEF MInv, Shaped

LEMMA WriteItems ==
  ASSUME MInv, NEW j \in Jobs, Write(j)
  PROVE  row'.meta.items = Applied(jobs[j].saw, jobs[j].mark).items
<1> DEFINE mark == jobs[j].mark
           meta == Applied(jobs[j].saw, mark)
           stays == meta.correlated \/ (jobs[j].route /\ mark.is \in Scopes)
<1>1. stays \in BOOLEAN /\ row'.meta = [meta EXCEPT !.correlated = stays] BY WriteEffect
<1>2. meta \in Meta
  <2>1. jobs[j].pc # "idle" BY DEF Write
  <2> QED BY <2>1, JobAtWork, AppliedMeta DEF MInv, AllSingle, Fit
<1> HIDE DEF meta, stays
<1>3. row'.meta.items = meta.items BY <1>1, <1>2, CorrelatedMeta
<1> QED BY <1>3 DEF meta

LEMMA CorrelateEffect ==
  ASSUME MInv, NEW j \in Jobs, Correlate(j)
  PROVE  /\ row'.meta \in Meta /\ Single(row'.meta)
         /\ row'.meta.items = jobs[j].saw.items /\ row'.meta.deletion = jobs[j].saw.deletion
         /\ row'.text = row.text
         /\ row' \in [mine : BOOLEAN, external : BOOLEAN, text : {"original"} \cup Scopes, meta : Meta]
         /\ jobs' = [jobs EXCEPT ![j] = [pc |-> "publish", route |-> jobs[j].route,
                                         mark |-> jobs[j].mark, saw |-> Unread]]
<1>1. jobs[j].pc # "idle" BY DEF Correlate
<1>2. jobs[j] \in Job /\ jobs[j].saw \in Meta /\ Single(jobs[j].saw)
  BY <1>1, JobAtWork DEF MInv, AllSingle, Fit
<1> DEFINE full == [jobs[j].saw EXCEPT !.correlated = TRUE]
<1>3. /\ full = [items |-> jobs[j].saw.items, deletion |-> jobs[j].saw.deletion, correlated |-> TRUE]
      /\ full \in Meta /\ full.items = jobs[j].saw.items /\ full.deletion = jobs[j].saw.deletion
  BY <1>2, CorrelatedMeta
<1>4. Single(full) BY <1>2, <1>3 DEF Single
<1>5. row' = [row EXCEPT !.meta = full] BY DEF Correlate
<1> HIDE DEF full
<1>6. /\ row'.meta = full /\ row'.text = row.text
      /\ row' \in [mine : BOOLEAN, external : BOOLEAN, text : {"original"} \cup Scopes, meta : Meta]
  BY <1>3, <1>5 DEF MInv, Shaped
<1>7. jobs' = [jobs EXCEPT ![j] = [jobs[j] EXCEPT !.pc = "publish", !.saw = Unread]]
  BY DEF Correlate, MInv, Shaped
<1>8. [jobs[j] EXCEPT !.pc = "publish", !.saw = Unread]
        = [pc |-> "publish", route |-> jobs[j].route, mark |-> jobs[j].mark, saw |-> Unread]
  BY <1>2, MovedJob
<1> QED BY <1>3, <1>4, <1>6, <1>7, <1>8

LEMMA UnreadMeta == Unread \in Meta /\ Single(Unread) /\ Unread.deletion = Nothing
BY BlankMeta DEF Unread

\* A job that goes on while the row changes.
LEMMA JobWrites ==
  ASSUME Shaped, AllSingle, NEW j \in Jobs, NEW next \in Job, jobs' = [jobs EXCEPT ![j] = next],
         Fit(next), Single(row'.meta)
  PROVE  jobs' \in [Jobs -> {Idle} \cup Job] /\ AllSingle'
<1>1. jobs' \in [Jobs -> {Idle} \cup Job] BY DEF Shaped
<1>2. jobs'[j] = next /\ \A x \in Jobs : x # j => jobs'[x] = jobs[x] BY DEF Shaped
<1> QED BY <1>1, <1>2 DEF AllSingle

LEMMA WriteInv == ASSUME MInv, NEW j \in Jobs, Write(j) PROVE MInv'
<1> DEFINE mark == jobs[j].mark
           meta == Applied(jobs[j].saw, mark)
           stays == meta.correlated \/ (jobs[j].route /\ mark.is \in Scopes)
           next == [pc |-> IF stays THEN "publish" ELSE "correlate", route |-> jobs[j].route,
                    mark |-> mark, saw |-> IF stays THEN Unread ELSE row'.meta]
<1>1. jobs[j].pc # "idle" BY DEF Write
<1>2. /\ mark.who \in Actors /\ mark.n \in 0 .. MaxMarks /\ jobs[j].route \in BOOLEAN
      /\ mark \in [who : Actors, is : Emoji \cup Scopes \cup {Nothing}, n : 0 .. MaxMarks]
  BY <1>1, JobAtWork DEF MInv, Job
<1>3. /\ stays \in BOOLEAN /\ row'.meta \in Meta /\ Single(row'.meta)
      /\ row' \in [mine : BOOLEAN, external : BOOLEAN, text : {"original"} \cup Scopes, meta : Meta]
      /\ jobs' = [jobs EXCEPT ![j] = next]
  BY WriteEffect
<1>4. written' = [written EXCEPT ![mark.who] = IF mark.n > @ THEN mark.n ELSE @]
      /\ (misled' = misled \/ misled' = misled \cup {mark.who})
      /\ overlapped' \in BOOLEAN
  BY DEF Write, Misled, Overlaps, MInv, Shaped
<1> HIDE DEF meta, stays
<1>5. mark.n > 0 BY DEF Write, MInv, AllSingle, Fit
<1>6. next \in Job /\ Fit(next) BY <1>2, <1>3, <1>5, UnreadMeta DEF Job, Fit
<1> HIDE DEF next
<1>7. jobs' \in [Jobs -> {Idle} \cup Job] /\ AllSingle' BY <1>3, <1>6, JobWrites DEF MInv
<1>8. written' \in [Actors -> 0 .. MaxMarks] /\ misled' \in SUBSET Actors
  BY <1>2, <1>4 DEF MInv, Shaped
<1> QED BY <1>3, <1>4, <1>7, <1>8 DEF MInv, Shaped, Write, World

LEMMA CorrelateInv == ASSUME MInv, NEW j \in Jobs, Correlate(j) PROVE MInv'
<1> DEFINE next == [pc |-> "publish", route |-> jobs[j].route, mark |-> jobs[j].mark, saw |-> Unread]
<1>1. jobs[j] \in Job BY JobAtWork DEF Correlate, MInv
<1>2. jobs[j].mark.n > 0 BY DEF Correlate, MInv, AllSingle, Fit
<1>3. next \in Job /\ Fit(next) BY <1>1, <1>2, UnreadMeta DEF Job, Fit
<1>4. /\ row' \in [mine : BOOLEAN, external : BOOLEAN, text : {"original"} \cup Scopes, meta : Meta]
      /\ Single(row'.meta) /\ jobs' = [jobs EXCEPT ![j] = next]
  BY CorrelateEffect
<1> HIDE DEF next
<1>5. jobs' \in [Jobs -> {Idle} \cup Job] /\ AllSingle' BY <1>3, <1>4, JobWrites DEF MInv
<1>6. overlapped' \in BOOLEAN BY DEF Correlate, Overlaps, MInv, Shaped
<1> QED BY <1>4, <1>5, <1>6 DEF MInv, Shaped, Correlate, World

LEMMA FinishInv == ASSUME MInv, NEW j \in Jobs, Finish(j) PROVE MInv'
<1>1. jobs' \in [Jobs -> {Idle} \cup Job] /\ AllSingle' BY JobGoes DEF MInv, Finish
<1> QED BY <1>1 DEF MInv, Shaped, Finish, World

\* A webhook's mark that fails was numbered by WhatsApp.
LEMMA FailInv ==
  ASSUME MInv, NEW j \in Jobs, Fail(j) PROVE MInv'
<1>1. jobs[j].pc # "idle" /\ row' = row /\ jobs' = [jobs EXCEPT ![j] = Idle] BY DEF Fail
<1>2. jobs' \in [Jobs -> {Idle} \cup Job] /\ AllSingle' BY <1>1, JobGoes DEF MInv
<1>3. failures' \in 0 .. MaxMarkFaults
  BY MarksAssumption DEF Fail, Fails, MInv, Shaped, MarksAssumption
<1>4. jobs[j] \in Job BY <1>1, JobAtWork DEF MInv
<1>5. jobs[j].mark \in Mark
  <2>1. jobs[j].mark.n > 0 BY <1>1 DEF Fail, MInv, AllSingle, Fit
  <2> QED BY <1>4, <2>1 DEF Job, Mark
<1>6. posted' \in SUBSET Mark /\ keys' \in SUBSET (Actors \X Kinds)
  BY <1>5 DEF Fail, MInv, Shaped
<1> QED BY <1>2, <1>3, <1>6 DEF MInv, Shaped, Fail, World

LEMMA StepInv == ASSUME MInv, [MarksNext]_marksVars PROVE MInv'
<1>1. CASE UNCHANGED marksVars
  BY <1>1 DEF MInv, Shaped, AllSingle, Fit, marksVars
<1>2. ASSUME NEW j \in Jobs, NEW is \in Emoji \cup Scopes \cup {Nothing}, RequestMark(j, is) PROVE MInv'
  BY <1>2, RequestInv DEF Kinds
<1> QED
  BY <1>1, <1>2, PhoneInv, IdentifiedInv, SendInv, ReceiveInv, WriteInv, CorrelateInv, FinishInv, FailInv
  DEF MarksNext

\* Every reachable state is typed, and an actor has at most one reaction, whoever
\* wrote the row and whatever was overwritten.
THEOREM MarksAreTyped == MarksSpec => []MarksTypeOK
<1>1. MInv => MarksTypeOK BY DEF MInv, Shaped, AllSingle, Single, MarksTypeOK, OneReactionPerActor, Kinds
<1> QED BY <1>1, InitShaped, StepInv, PTL DEF MarksSpec

-----------------------------------------------------------------------------
(* Deletions *)

\* Only a mark writes the text, and only a deletion changes it.
LEMMA TextOnlyDeleted ==
  ASSUME MInv, [MarksNext]_marksVars
  PROVE  row'.text = row.text \/ \E scope \in Scopes : row'.text = scope
<1>1. ASSUME NEW j \in Jobs, Write(j) PROVE row'.text = row.text \/ \E scope \in Scopes : row'.text = scope
  BY <1>1, WriteEffect
<1>2. ASSUME NEW j \in Jobs, Correlate(j) PROVE row'.text = row.text
  BY <1>2, CorrelateEffect
<1>3. ASSUME Identified PROVE row'.text = row.text
  BY <1>3 DEF Identified, MInv, Shaped
<1>4. CASE row' = row BY <1>4
<1> QED BY <1>1, <1>2, <1>3, <1>4
  DEF MarksNext, marksVars, OnPhone, RequestMark, Receive, Send, Finish, Fail

\* The text of a deleted message never comes back.
THEOREM DeletedForEver == MarksSpec => DeletedStaysDeleted
<1>1. MInv /\ [MarksNext]_marksVars => [row.text # "original" => row'.text # "original"]_marksVars
  <2>1. "original" \notin Scopes BY DEF Scopes
  <2> QED BY <2>1, TextOnlyDeleted
<1> QED BY <1>1, InitShaped, StepInv, PTL DEF MarksSpec, DeletedStaysDeleted

\* What jobs have read never says deleted of a text that is there.
DInv ==
  /\ row.meta.deletion # Nothing => row.text # "original"
  /\ \A j \in Jobs : jobs[j].pc # "idle" /\ jobs[j].saw.deletion # Nothing => row.text # "original"
  /\ row.text # "original" => row.meta.deletion = row.text \/ overlapped

\* A step that leaves text and metadata.
LEMMA SameDeletion ==
  ASSUME MInv, DInv, row'.text = row.text, row'.meta = row.meta, overlapped => overlapped',
         \A x \in Jobs : jobs'[x].pc # "idle" =>
           \/ jobs'[x].saw = row.meta
           \/ jobs'[x].saw = Unread
           \/ jobs[x].pc # "idle" /\ jobs'[x].saw = jobs[x].saw
  PROVE  DInv'
BY UnreadMeta DEF DInv

LEMMA DeletionStep == ASSUME MInv, MInv', DInv, [MarksNext]_marksVars PROVE DInv'
<1> USE DEF MInv, Shaped
<1>0. Idle.pc = "idle" /\ "original" \notin Scopes BY DEF Idle, Scopes
<1>1. ASSUME NEW a \in Actors, OnPhone(a) PROVE DInv' BY <1>1, SameDeletion DEF OnPhone
<1>2. ASSUME Identified PROVE DInv' BY <1>2, SameDeletion DEF Identified
<1>3. ASSUME NEW j \in Jobs, NEW is, RequestMark(j, is) PROVE DInv'
  BY <1>3, <1>0, SameDeletion DEF RequestMark
<1>4. ASSUME NEW j \in Jobs, NEW mark \in posted, Receive(j, mark) PROVE DInv'
  BY <1>4, <1>0, SameDeletion DEF Receive
<1>5. ASSUME NEW j \in Jobs, Send(j) PROVE DInv'
  <2>1. CASE jobs' = [jobs EXCEPT ![j] = Idle] BY <1>5, <2>1, <1>0, SameDeletion DEF Send
  <2>2. CASE jobs' = [jobs EXCEPT ![j].pc = "write", ![j].mark.n = made + 1]
    <3>1. jobs[j] \in Job BY <1>5, JobAtWork DEF Send
    <3>2. jobs' = [jobs EXCEPT ![j] =
            [pc |-> "write", route |-> jobs[j].route, saw |-> jobs[j].saw,
             mark |-> [who |-> jobs[j].mark.who, is |-> jobs[j].mark.is, n |-> made + 1]]]
      BY <3>1, <2>2, SentJob
    <3>3. jobs'[j].saw = jobs[j].saw /\ jobs[j].pc # "idle" BY <3>2, <1>5 DEF Send
    <3>4. \A x \in Jobs : x # j => jobs'[x] = jobs[x] BY <3>2
    <3> QED BY <1>5, <3>3, <3>4, SameDeletion DEF Send
  <2> QED BY <1>5, <2>1, <2>2 DEF Send, Fails
<1>6. ASSUME NEW j \in Jobs, Write(j) PROVE DInv'
  <2> DEFINE mark == jobs[j].mark
             meta == Applied(jobs[j].saw, mark)
             stays == meta.correlated \/ (jobs[j].route /\ mark.is \in Scopes)
  <2>1. /\ row'.meta.deletion = meta.deletion
        /\ row'.text = IF mark.is \in Scopes THEN mark.is ELSE row.text
        /\ jobs' = [jobs EXCEPT ![j] =
             [pc |-> IF stays THEN "publish" ELSE "correlate", route |-> jobs[j].route,
              mark |-> mark, saw |-> IF stays THEN Unread ELSE row'.meta]]
    BY <1>6, WriteEffect
  <2>2. jobs[j].pc # "idle" BY <1>6 DEF Write
  <2>3. meta.deletion = IF mark.is \in Scopes THEN mark.is ELSE jobs[j].saw.deletion
    BY <2>2, JobAtWork, AppliedMeta
  <2>4. overlapped' = (overlapped \/ row.meta # jobs[j].saw) BY <1>6 DEF Write, Overlaps
  <2>5. jobs'[j].saw \in {Unread, row'.meta} /\ \A x \in Jobs : x # j => jobs'[x] = jobs[x]
    BY <2>1
  <2>6. row.text # "original" => row'.text # "original" BY <2>1, <1>0
  <2> HIDE DEF mark, meta, stays
  <2>7. CASE mark.is \in Scopes
    <3>1. row'.text # "original" /\ row'.meta.deletion = row'.text BY <1>0, <2>1, <2>3, <2>7
    <3> QED BY <3>1 DEF DInv
  <2>8. CASE mark.is \notin Scopes
    <3>1. row'.text = row.text /\ row'.meta.deletion = jobs[j].saw.deletion BY <2>1, <2>3, <2>8
    <3>2. row'.meta.deletion # Nothing => row'.text # "original" BY <3>1, <2>2 DEF DInv
    <3>3. row'.text # "original" => row'.meta.deletion = row'.text \/ overlapped'
      BY <3>1, <2>4 DEF DInv
    <3>4. \A x \in Jobs : jobs'[x].pc # "idle" /\ jobs'[x].saw.deletion # Nothing => row'.text # "original"
      BY <2>5, <3>1, <3>2, UnreadMeta DEF DInv
    <3> QED BY <3>2, <3>3, <3>4 DEF DInv
  <2> QED BY <2>7, <2>8
<1>7. ASSUME NEW j \in Jobs, Correlate(j) PROVE DInv'
  <2>1. /\ row'.meta.deletion = jobs[j].saw.deletion /\ row'.text = row.text
        /\ jobs' = [jobs EXCEPT ![j] = [pc |-> "publish", route |-> jobs[j].route,
                                        mark |-> jobs[j].mark, saw |-> Unread]]
    BY <1>7, CorrelateEffect
  <2>2. jobs[j].pc # "idle" /\ overlapped' = (overlapped \/ row.meta # jobs[j].saw)
    BY <1>7 DEF Correlate, Overlaps
  <2>3. jobs'[j].saw = Unread /\ \A x \in Jobs : x # j => jobs'[x] = jobs[x] BY <2>1
  <2> QED BY <2>1, <2>2, <2>3, UnreadMeta DEF DInv
<1>8. ASSUME NEW j \in Jobs, Finish(j) PROVE DInv' BY <1>8, <1>0, SameDeletion DEF Finish
<1>9. ASSUME NEW j \in Jobs, Fail(j) PROVE DInv' BY <1>9, <1>0, SameDeletion DEF Fail
<1>10. CASE UNCHANGED marksVars BY <1>10, SameDeletion DEF marksVars
<1> QED BY <1>1, <1>2, <1>3, <1>4, <1>5, <1>6, <1>7, <1>8, <1>9, <1>10 DEF MarksNext

\* Text and metadata agree on a deletion unless writers overlapped, and metadata
\* never says deleted of a text that is there.
THEOREM DeletionsAreRecorded == MarksSpec => []DeletionIsRecorded
<1>1. MarksInit => DInv
  <2> SUFFICES ASSUME MarksInit PROVE DInv OBVIOUS
  <2>1. PICK mine \in BOOLEAN :
          row = [mine |-> mine, external |-> ~ mine, text |-> "original", meta |-> Blank(mine)]
    BY DEF MarksInit
  <2>2. row.meta.deletion = Nothing /\ row.text = "original" BY <2>1, BlankMeta
  <2>3. \A j \in Jobs : jobs[j].pc = "idle" BY DEF MarksInit, Idle
  <2> QED BY <2>2, <2>3 DEF DInv
<1>2. MInv /\ DInv /\ [MarksNext]_marksVars => (MInv /\ DInv)' BY StepInv, DeletionStep
<1>3. DInv => DeletionIsRecorded BY DEF DInv, DeletionIsRecorded
<1> QED BY <1>1, <1>2, <1>3, InitShaped, PTL DEF MarksSpec

-----------------------------------------------------------------------------
(* The row and WhatsApp *)

EmojisOf(meta, a) == {i.emoji : i \in {k \in meta.items : k.who = a}}
Just(emoji) == {emoji} \ {Nothing}

\* A job holds a mark that WhatsApp has numbered.
Holds(job) == job.pc \notin {"idle", "send"}

\* The mark numbered n of a is posted, or a webhook is about to write it.
Coming(a, n) ==
  \/ \E m \in posted : m.who = a /\ m.n = n
  \/ \E j \in Jobs : /\ jobs[j].pc = "write" /\ ~ jobs[j].route
                      /\ jobs[j].mark.who = a /\ jobs[j].mark.n = n

\* The last mark of a has the number n: it is what WhatsApp shows, nothing later is
\* under way, and it is written to the row or it is coming.
Last(a, n) ==
  /\ n <= made /\ written[a] <= n
  /\ \A m \in posted : m.who = a => m.n <= n /\ (m.n = n => m.is = shows[a])
  /\ \A j \in Jobs : Holds(jobs[j]) /\ jobs[j].mark.who = a =>
       jobs[j].mark.n <= n /\ (jobs[j].mark.n = n => jobs[j].mark.is = shows[a])
  /\ written[a] = n => overlapped \/ EmojisOf(row.meta, a) = Just(shows[a])
  /\ written[a] = n \/ Coming(a, n)

\* While WhatsApp shows the message, no deletion is under way.
Present ==
  /\ \A m \in posted : m.is \notin Scopes
  /\ \A j \in Jobs : Holds(jobs[j]) => jobs[j].mark.is \notin Scopes

WInv ==
  gone = Nothing => Present /\ \A a \in Actors : a \in misled \/ \E n \in 0 .. MaxMarks : Last(a, n)

\* A reaction leaves the other actors' reactions, and is the actor's only one.
LEMMA ReactedOwn ==
  ASSUME NEW meta \in Meta, NEW who \in Actors, NEW emoji \in Emoji \cup {Nothing}
  PROVE  EmojisOf(Reacted(meta, who, emoji), who) = Just(emoji)
<1> DEFINE kept == {i \in meta.items : i.who # who}
           new  == {[who |-> who, emoji |-> e] : e \in {emoji} \ {Nothing}}
<1>1. Reacted(meta, who, emoji).items = kept \cup new BY DEF Reacted, Meta
<1>2. \A i \in new : i.who = who /\ i.emoji = emoji /\ emoji # Nothing OBVIOUS
<1>3. emoji # Nothing => \E i \in new : i.emoji = emoji
  <2>1. ASSUME emoji # Nothing PROVE [who |-> who, emoji |-> emoji] \in new BY <2>1
  <2> QED BY <2>1
<1>4. {k \in kept \cup new : k.who = who} = new BY <1>2
<1>5. {i.emoji : i \in new} = Just(emoji) BY <1>2, <1>3 DEF Just
<1> HIDE DEF kept, new
<1> QED BY <1>1, <1>4, <1>5 DEF EmojisOf

LEMMA ReactedOthers ==
  ASSUME NEW meta \in Meta, NEW who \in Actors, NEW emoji \in Emoji \cup {Nothing},
         NEW a \in Actors, a # who
  PROVE  EmojisOf(Reacted(meta, who, emoji), a) = EmojisOf(meta, a)
<1> DEFINE kept == {i \in meta.items : i.who # who}
           new  == {[who |-> who, emoji |-> e] : e \in {emoji} \ {Nothing}}
<1>1. Reacted(meta, who, emoji).items = kept \cup new BY DEF Reacted, Meta
<1>2. \A i \in new : i.who = who OBVIOUS
<1>3. {k \in kept \cup new : k.who = a} = {k \in meta.items : k.who = a} BY <1>2
<1> HIDE DEF kept, new
<1> QED BY <1>1, <1>3 DEF EmojisOf

\* A reaction on WhatsApp becomes the last of its actor's marks.
LEMMA NewLast ==
  ASSUME MInv, WInv, NEW a \in Actors, NEW is \in Kinds, Marks(a, is), gone' = Nothing,
         UNCHANGED <<row, written, overlapped, misled>>,
         \A x \in Jobs : Holds(jobs'[x]) =>
           \/ jobs'[x] = jobs[x]
           \/ jobs'[x].mark = [who |-> a, is |-> is, n |-> made + 1],
         \A x \in Jobs : jobs[x].pc = "write" => jobs'[x] = jobs[x]
  PROVE  WInv'
<1> DEFINE mark == [who |-> a, is |-> is, n |-> made + 1]
<1>1. /\ gone = Nothing /\ made' = made + 1 /\ made < MaxMarks /\ posted' = posted \cup {mark}
      /\ made \in 0 .. MaxMarks /\ MaxMarks \in Nat
  BY MarksAssumption DEF Marks, MInv, Shaped, MarksAssumption
<1>2. is \notin Scopes /\ shows' = [shows EXCEPT ![a] = is]
  BY MarksAssumption DEF Marks, MarksAssumption, Scopes
<1>3. Present' BY <1>1, <1>2 DEF WInv, Present, Holds
<1>4. ASSUME NEW b \in Actors, b # a, b \notin misled PROVE \E n \in 0 .. MaxMarks : Last(b, n)'
  <2>1. PICK n \in 0 .. MaxMarks : Last(b, n) BY <1>1, <1>4 DEF WInv
  <2>2. shows'[b] = shows[b] BY <1>2, <1>4 DEF MInv, Shaped
  <2>3. written[b] \in Nat /\ n \in Nat BY <1>4 DEF MInv, Shaped
  <2>4. n <= made' /\ written'[b] <= n BY <2>1, <2>3, <1>1 DEF Last
  <2>5. \A m \in posted' : m.who = b => m.n <= n /\ (m.n = n => m.is = shows'[b])
    BY <2>1, <2>2, <1>1, <1>4 DEF Last
  <2>6. \A j \in Jobs : Holds(jobs'[j]) /\ jobs'[j].mark.who = b =>
          jobs'[j].mark.n <= n /\ (jobs'[j].mark.n = n => jobs'[j].mark.is = shows'[b])
    <3> SUFFICES ASSUME NEW j \in Jobs, Holds(jobs'[j]), jobs'[j].mark.who = b
                 PROVE  jobs'[j].mark.n <= n /\ (jobs'[j].mark.n = n => jobs'[j].mark.is = shows'[b])
      OBVIOUS
    <3>1. jobs'[j] = jobs[j] BY <1>4
    <3> QED BY <3>1, <2>1, <2>2 DEF Last
  <2>7. written'[b] = n \/ Coming(b, n)' BY <2>1, <1>1 DEF Last, Coming
  <2>8. written'[b] = n => overlapped' \/ EmojisOf(row.meta, b)' = Just(shows'[b])
    BY <2>1, <2>2 DEF Last, EmojisOf
  <2> QED BY <2>4, <2>5, <2>6, <2>7, <2>8 DEF Last
<1>5. PICK top \in 0 .. MaxMarks : top = made + 1 BY <1>1
<1>6. ASSUME a \notin misled PROVE Last(a, top)'
  <2>1. PICK n \in 0 .. MaxMarks : Last(a, n) BY <1>1, <1>5, <1>6 DEF WInv
  <2>2. written[a] \in Nat /\ n \in Nat /\ shows'[a] = is BY <1>2 DEF MInv, Shaped
  <2>3. n < top /\ written'[a] < top BY <2>1, <2>2, <1>1, <1>5 DEF Last
  <2>4. \A m \in posted : m.n \in Nat BY DEF MInv, Shaped, Mark
  <2>5. \A m \in posted' : m.who = a => m.n <= top /\ (m.n = top => m.is = shows'[a])
    BY <2>1, <2>2, <2>3, <2>4, <1>1, <1>5 DEF Last
  <2>6. \A j \in Jobs : Holds(jobs'[j]) /\ jobs'[j].mark.who = a =>
          jobs'[j].mark.n <= top /\ (jobs'[j].mark.n = top => jobs'[j].mark.is = shows'[a])
    <3> SUFFICES ASSUME NEW j \in Jobs, Holds(jobs'[j]), jobs'[j].mark.who = a
                 PROVE  /\ jobs'[j].mark.n <= top
                        /\ jobs'[j].mark.n = top => jobs'[j].mark.is = shows'[a]
      OBVIOUS
    <3>1. CASE jobs'[j] = jobs[j]
      <4>1. Holds(jobs[j]) /\ jobs[j].mark.n <= n BY <3>1, <2>1 DEF Last
      <4>2. jobs[j].pc # "idle" BY <4>1 DEF Holds
      <4>3. jobs[j].mark.n \in 0 .. MaxMarks BY <4>2, JobAtWork DEF MInv
      <4> QED BY <3>1, <4>1, <4>3, <2>2, <2>3, <1>1, <1>5
    <3>2. CASE jobs'[j].mark = mark BY <3>2, <2>2, <1>1, <1>5
    <3> QED BY <3>1, <3>2
  <2>7. Coming(a, top)' BY <1>1, <1>5 DEF Coming
  <2>8. top <= made' /\ written'[a] <= top /\ written'[a] # top
    BY <2>2, <2>3, <1>1, <1>5
  <2> QED BY <2>5, <2>6, <2>7, <2>8, <1>1, <1>5 DEF Last, Coming
<1> QED BY <1>3, <1>4, <1>5, <1>6 DEF WInv

\* A step that neither marks, writes nor moves a mark.
LEMMA SameLast ==
  ASSUME MInv, WInv, UNCHANGED <<made, shows, gone, posted, written>>,
         misled \subseteq misled', overlapped => overlapped',
         overlapped' \/ row'.meta.items = row.meta.items,
         \A x \in Jobs : Holds(jobs'[x]) => Holds(jobs[x]) /\ jobs'[x].mark = jobs[x].mark,
         \A x \in Jobs : jobs[x].pc = "write" /\ ~ jobs[x].route => jobs'[x] = jobs[x]
  PROVE  WInv'
<1>1. Present => Present' BY DEF Present
<1>2. ASSUME NEW a \in Actors, NEW n \in 0 .. MaxMarks, Last(a, n) PROVE Last(a, n)'
  <2>1. \A j \in Jobs : Holds(jobs'[j]) /\ jobs'[j].mark.who = a =>
          jobs'[j].mark.n <= n /\ (jobs'[j].mark.n = n => jobs'[j].mark.is = shows'[a])
    BY <1>2 DEF Last
  <2>2. written'[a] = n => overlapped' \/ EmojisOf(row.meta, a)' = Just(shows'[a])
    BY <1>2 DEF Last, EmojisOf
  <2>3. Coming(a, n) => Coming(a, n)' BY DEF Coming
  <2> QED BY <1>2, <2>1, <2>2, <2>3 DEF Last
<1> QED BY <1>1, <1>2 DEF WInv

LEMMA ReceiveLast == ASSUME MInv, WInv, NEW j \in Jobs, NEW mark \in posted, Receive(j, mark) PROVE WInv'
<1> SUFFICES ASSUME gone = Nothing PROVE Present' /\ \A a \in Actors : a \in misled' \/ \E n \in 0 .. MaxMarks : Last(a, n)'
  BY DEF WInv, Receive, World
<1>1. /\ posted' = posted \ {mark} /\ UNCHANGED <<made, shows, gone, row, written, overlapped>>
      /\ jobs[j].pc = "idle"
  BY DEF Receive, World
<1>2. mark.is \notin Scopes BY DEF WInv, Present
<1>3. CASE Misled(mark.who) /\ UNCHANGED jobs
  <2>1. Present' BY <1>1, <1>3 DEF WInv, Present
  <2>2. ASSUME NEW a \in Actors, a \notin misled' PROVE \E n \in 0 .. MaxMarks : Last(a, n)'
    <3>1. a \notin misled /\ a # mark.who BY <1>3, <2>2 DEF Misled
    <3>2. PICK n \in 0 .. MaxMarks : Last(a, n) BY <3>1 DEF WInv
    <3>3. Coming(a, n) => Coming(a, n)' BY <1>1, <1>3, <3>1 DEF Coming
    <3> QED BY <1>1, <1>3, <3>2, <3>3 DEF Last, EmojisOf
  <2> QED BY <2>1, <2>2
<1>4. CASE /\ jobs' = [jobs EXCEPT ![j] = [pc |-> "write", route |-> FALSE, mark |-> mark,
                                           saw |-> row.meta]]
           /\ UNCHANGED misled
  <2>1. /\ jobs'[j].pc = "write" /\ ~ jobs'[j].route /\ jobs'[j].mark = mark
        /\ \A x \in Jobs : x # j => jobs'[x] = jobs[x]
    BY <1>4 DEF MInv, Shaped
  <2>2. Present' BY <1>1, <1>2, <2>1 DEF WInv, Present
  <2>3. ASSUME NEW a \in Actors, a \notin misled' PROVE \E n \in 0 .. MaxMarks : Last(a, n)'
    <3>1. PICK n \in 0 .. MaxMarks : Last(a, n) BY <1>4, <2>3 DEF WInv
    <3>2. Coming(a, n) => Coming(a, n)'
      <4>1. ASSUME NEW m \in posted, m.who = a, m.n = n PROVE Coming(a, n)'
        BY <1>1, <2>1, <4>1 DEF Coming
      <4>2. ASSUME NEW x \in Jobs, jobs[x].pc = "write", ~ jobs[x].route,
                   jobs[x].mark.who = a, jobs[x].mark.n = n
            PROVE Coming(a, n)'
        BY <1>1, <2>1, <4>2 DEF Coming
      <4> QED BY <4>1, <4>2 DEF Coming
    <3>3. \A x \in Jobs : Holds(jobs'[x]) /\ jobs'[x].mark.who = a =>
            jobs'[x].mark.n <= n /\ (jobs'[x].mark.n = n => jobs'[x].mark.is = shows'[a])
      BY <1>1, <2>1, <3>1 DEF Last
    <3> QED BY <1>1, <3>1, <3>2, <3>3 DEF Last, EmojisOf
  <2> QED BY <2>2, <2>3
<1> QED BY <1>3, <1>4 DEF Receive

LEMMA WriteLast == ASSUME MInv, WInv, NEW j \in Jobs, Write(j) PROVE WInv'
<1> SUFFICES ASSUME gone = Nothing PROVE Present' /\ \A a \in Actors : a \in misled' \/ \E n \in 0 .. MaxMarks : Last(a, n)'
  BY DEF WInv, Write, World
<1> DEFINE mark == jobs[j].mark
           meta == Applied(jobs[j].saw, mark)
           stays == meta.correlated \/ (jobs[j].route /\ mark.is \in Scopes)
<1>1. /\ UNCHANGED <<posted, made, shows, gone>> /\ jobs[j].pc = "write"
      /\ written' = [written EXCEPT ![mark.who] = IF mark.n > @ THEN mark.n ELSE @]
      /\ overlapped' = (overlapped \/ row.meta # jobs[j].saw)
      /\ misled' = IF mark.n < written[mark.who] THEN misled \cup {mark.who} ELSE misled
  BY DEF Write, World, Overlaps, Misled
<1>0. /\ mark = jobs[j].mark /\ meta = Applied(jobs[j].saw, mark)
      /\ stays = (meta.correlated \/ (jobs[j].route /\ mark.is \in Scopes))
  OBVIOUS
<1> HIDE DEF mark, meta, stays
<1>2. row'.meta.items = meta.items BY <1>0, WriteItems
<1>3. /\ mark.who \in Actors /\ mark.is \in Kinds /\ mark.n \in 0 .. MaxMarks
      /\ jobs[j].saw \in Meta
  BY <1>1, <1>0, JobAtWork DEF MInv
<1>4. mark.is \in Emoji \cup {Nothing} /\ Holds(jobs[j])
  BY <1>1, <1>3, <1>0 DEF WInv, Present, Holds, Kinds
<1>5. /\ EmojisOf(row'.meta, mark.who) = Just(mark.is)
      /\ \A a \in Actors : a # mark.who => EmojisOf(row'.meta, a) = EmojisOf(jobs[j].saw, a)
  <2>1. mark.is \notin Scopes BY <1>4, <1>0 DEF WInv, Present
  <2>2. meta = Reacted(jobs[j].saw, mark.who, mark.is) BY <2>1, <1>0 DEF Applied
  <2>3. EmojisOf(meta, mark.who) = Just(mark.is) BY <1>3, <1>4, <2>2, ReactedOwn
  <2>4. \A a \in Actors : a # mark.who => EmojisOf(meta, a) = EmojisOf(jobs[j].saw, a)
    BY <1>3, <1>4, <2>2, ReactedOthers
  <2>5. \A a \in Actors : EmojisOf(row'.meta, a) = EmojisOf(meta, a) BY <1>2 DEF EmojisOf
  <2> QED BY <1>3, <2>3, <2>4, <2>5
<1>6. /\ Holds(jobs'[j]) /\ jobs'[j].mark = mark /\ jobs'[j].pc # "write"
      /\ \A x \in Jobs : x # j => jobs'[x] = jobs[x]
  BY <1>0, WriteMoves DEF Holds
<1>7. Present' BY <1>1, <1>4, <1>6 DEF WInv, Present, mark
<1>8. ASSUME NEW a \in Actors, a \notin misled' PROVE \E n \in 0 .. MaxMarks : Last(a, n)'
  <2>1. a \notin misled BY <1>1, <1>8
  <2>2. PICK n \in 0 .. MaxMarks : Last(a, n) BY <2>1 DEF WInv
  <2>3. \A x \in Jobs : Holds(jobs'[x]) /\ jobs'[x].mark.who = a =>
          jobs'[x].mark.n <= n /\ (jobs'[x].mark.n = n => jobs'[x].mark.is = shows'[a])
    BY <1>1, <1>4, <1>6, <2>2 DEF Last, mark
  <2>7. EmojisOf(row.meta, a)' = EmojisOf(row'.meta, a) BY DEF EmojisOf
  <2>4. \A m \in posted' : m.who = a => m.n <= n /\ (m.n = n => m.is = shows'[a])
    BY <1>1, <2>2 DEF Last
  <2>5. CASE a # mark.who
    <3>1. written'[a] = written[a] BY <1>1, <2>5 DEF MInv, Shaped
    <3>2. Coming(a, n) => Coming(a, n)' BY <1>1, <1>6, <2>5 DEF Coming, mark
    <3>3. overlapped' \/ EmojisOf(row.meta, a)' = EmojisOf(row.meta, a)
      BY <1>1, <1>5, <2>5, <2>7
    <3> QED BY <1>1, <2>2, <2>3, <2>4, <3>1, <3>2, <3>3 DEF Last
  <2>6. CASE a = mark.who
    <3>1. written[a] \in Nat /\ mark.n \in Nat /\ n \in Nat BY <1>3 DEF MInv, Shaped
    <3>2. ~ mark.n < written[a] BY <1>1, <1>8, <2>6
    <3>3. written'[a] = mark.n BY <1>1, <1>3, <2>6, <3>1, <3>2 DEF MInv, Shaped
    <3>4. mark.n <= n /\ (mark.n = n => mark.is = shows[a]) BY <1>4, <2>2, <2>6 DEF Last, mark
    <3>5. written'[a] = n => EmojisOf(row.meta, a)' = Just(shows'[a])
      <4>1. EmojisOf(row'.meta, a) = Just(mark.is) BY <1>5, <2>6
      <4>2. written'[a] = n => mark.is = shows'[a] BY <1>1, <3>3, <3>4
      <4> QED BY <4>1, <4>2, <2>7
    <3>6. mark.n # n => Coming(a, n)'
      <4> SUFFICES ASSUME mark.n # n PROVE Coming(a, n)' OBVIOUS
      <4>1. written[a] # n BY <3>1, <3>2, <3>4
      <4>2. Coming(a, n) BY <2>2, <4>1 DEF Last
      <4> QED BY <1>1, <1>6, <4>2 DEF Coming, mark
    <3> QED BY <1>1, <2>2, <2>3, <2>4, <3>3, <3>4, <3>5, <3>6 DEF Last
  <2> QED BY <2>5, <2>6
<1> QED BY <1>7, <1>8

LEMMA FailLast == ASSUME MInv, WInv, NEW j \in Jobs, Fail(j) PROVE WInv'
<1> SUFFICES ASSUME gone = Nothing PROVE Present' /\ \A a \in Actors : a \in misled' \/ \E n \in 0 .. MaxMarks : Last(a, n)'
  BY DEF WInv, Fail, World
<1>1. /\ UNCHANGED <<made, shows, gone, row, written, overlapped, misled>> /\ Holds(jobs[j])
      /\ posted' = IF jobs[j].route THEN posted ELSE posted \cup {jobs[j].mark}
  BY DEF Fail, World, Holds
<1>2. /\ ~ Holds(jobs'[j]) /\ \A x \in Jobs : x # j => jobs'[x] = jobs[x]
  BY DEF Fail, MInv, Shaped, Holds, Idle
<1>3. Present' BY <1>1, <1>2 DEF WInv, Present
<1>4. ASSUME NEW a \in Actors, a \notin misled' PROVE \E n \in 0 .. MaxMarks : Last(a, n)'
  <2>1. PICK n \in 0 .. MaxMarks : Last(a, n) BY <1>1, <1>4 DEF WInv
  <2>2. \A x \in Jobs : Holds(jobs'[x]) /\ jobs'[x].mark.who = a =>
          jobs'[x].mark.n <= n /\ (jobs'[x].mark.n = n => jobs'[x].mark.is = shows'[a])
    BY <1>1, <1>2, <2>1 DEF Last
  <2>3. \A m \in posted' : m.who = a => m.n <= n /\ (m.n = n => m.is = shows'[a])
    BY <1>1, <2>1 DEF Last
  <2>4. Coming(a, n) => Coming(a, n)'
    <3>1. ASSUME NEW m \in posted, m.who = a, m.n = n PROVE Coming(a, n)' BY <1>1, <3>1 DEF Coming
    <3>2. ASSUME NEW x \in Jobs, jobs[x].pc = "write", ~ jobs[x].route,
                 jobs[x].mark.who = a, jobs[x].mark.n = n
          PROVE Coming(a, n)'
      <4>1. CASE x = j
        <5>1. jobs[j].mark \in posted' BY <1>1, <3>2, <4>1
        <5> QED BY <3>2, <4>1, <5>1 DEF Coming
      <4>2. CASE x # j
        <5>1. jobs'[x] = jobs[x] BY <1>2, <4>2
        <5> QED BY <3>2, <5>1 DEF Coming
      <4> QED BY <4>1, <4>2
    <3> QED BY <3>1, <3>2 DEF Coming
  <2> QED BY <1>1, <2>1, <2>2, <2>3, <2>4 DEF Last, EmojisOf
<1> QED BY <1>3, <1>4

LEMMA PhoneLast == ASSUME MInv, WInv, NEW a \in Actors, OnPhone(a) PROVE WInv'
<1> SUFFICES ASSUME gone' = Nothing PROVE WInv' BY DEF WInv
<1>1. PICK is \in Kinds : Marks(a, is) BY DEF OnPhone, Kinds
<1>2. UNCHANGED <<row, jobs, written, overlapped, misled>> BY DEF OnPhone
<1> QED BY <1>1, <1>2, NewLast

\* A mark of the panel that is refused, or whose answer is lost, is held by no job.
LEMMA SendLast == ASSUME MInv, WInv, NEW j \in Jobs, Send(j) PROVE WInv'
<1> SUFFICES ASSUME gone' = Nothing PROVE WInv' BY DEF WInv
<1> DEFINE is == jobs[j].mark.is
<1>1. jobs[j].pc = "send" /\ UNCHANGED <<row, written, overlapped, misled>> BY DEF Send
<1>2. /\ is \in Kinds /\ jobs[j] \in Job /\ Self \in Actors /\ jobs[j].mark.who = Self
  BY <1>1, JobAtWork DEF MInv, AllSingle, Fit, Actors
<1> HIDE DEF is
<1>3. CASE /\ Marks(Self, is)
           /\ jobs' = [jobs EXCEPT ![j].pc = "write", ![j].mark.n = made + 1]
  <2> DEFINE mark == [who |-> jobs[j].mark.who, is |-> jobs[j].mark.is, n |-> made + 1]
             next == [pc |-> "write", route |-> jobs[j].route, saw |-> jobs[j].saw, mark |-> mark]
  <2>1. jobs' = [jobs EXCEPT ![j] = next] BY <1>2, <1>3, SentJob DEF MInv
  <2>2. next.mark = [who |-> Self, is |-> is, n |-> made + 1] BY <1>2 DEF is
  <2> HIDE DEF next
  <2>3. jobs'[j].mark = [who |-> Self, is |-> is, n |-> made + 1] BY <2>1, <2>2 DEF MInv, Shaped
  <2>4. \A x \in Jobs : x # j => jobs'[x] = jobs[x] BY <2>1 DEF MInv, Shaped
  <2>5. \A x \in Jobs : jobs[x].pc = "write" => jobs'[x] = jobs[x] BY <1>1, <2>4
  <2> QED BY <1>1, <1>2, <1>3, <2>3, <2>4, <2>5, NewLast
<1>4. CASE jobs' = [jobs EXCEPT ![j] = Idle]
  <2>1. /\ ~ Holds(jobs'[j]) /\ jobs[j].pc # "write"
        /\ \A x \in Jobs : x # j => jobs'[x] = jobs[x]
    BY <1>1, <1>4 DEF MInv, Shaped, Holds, Idle
  <2>2. CASE Marks(Self, is) BY <1>1, <1>2, <2>1, <2>2, NewLast
  <2>3. CASE UNCHANGED <<World, posted>> BY <1>1, <2>1, <2>3, SameLast DEF World
  <2> QED BY <1>4, <2>2, <2>3 DEF Send, is
<1> QED BY <1>3, <1>4 DEF Send, is

\* Steps that neither mark nor write a mark.
LEMMA RestLast ==
  ASSUME MInv, WInv, NEW j \in Jobs,
         Correlate(j) \/ Finish(j) \/ \E is \in Kinds : RequestMark(j, is)
  PROVE  WInv'
<1>1. CASE Correlate(j)
  <2>1. /\ UNCHANGED <<made, shows, gone, posted, written, misled>> /\ jobs[j].pc = "correlate"
        /\ overlapped' = (overlapped \/ row.meta # jobs[j].saw)
    BY <1>1 DEF Correlate, World, Overlaps
  <2>2. /\ row'.meta.items = jobs[j].saw.items
        /\ jobs' = [jobs EXCEPT ![j] = [pc |-> "publish", route |-> jobs[j].route,
                                         mark |-> jobs[j].mark, saw |-> Unread]]
    BY <1>1, CorrelateEffect
  <2>3. /\ jobs'[j].mark = jobs[j].mark /\ Holds(jobs[j])
        /\ \A x \in Jobs : x # j => jobs'[x] = jobs[x]
    BY <2>1, <2>2 DEF MInv, Shaped, Holds
  <2>4. overlapped' \/ row'.meta.items = row.meta.items BY <2>1, <2>2
  <2> QED BY <2>1, <2>3, <2>4, SameLast
<1>2. CASE Finish(j)
  <2>1. /\ UNCHANGED <<made, shows, gone, posted, written, misled, row, overlapped>>
        /\ jobs[j].pc = "publish" /\ jobs' = [jobs EXCEPT ![j] = Idle]
    BY <1>2 DEF Finish, World
  <2>2. ~ Holds(jobs'[j]) /\ \A x \in Jobs : x # j => jobs'[x] = jobs[x]
    BY <2>1 DEF MInv, Shaped, Holds, Idle
  <2> QED BY <2>1, <2>2, SameLast
<1>3. ASSUME NEW is \in Kinds, RequestMark(j, is) PROVE WInv'
  <2> DEFINE next == [pc |-> "send", route |-> TRUE, saw |-> row.meta,
                      mark |-> [who |-> Self, is |-> is, n |-> 0]]
  <2>1. /\ UNCHANGED <<made, shows, gone, posted, written, misled, row, overlapped>>
        /\ jobs[j].pc = "idle" /\ jobs' = [jobs EXCEPT ![j] = next]
    BY <1>3 DEF RequestMark, World
  <2>2. ~ Holds(next) BY DEF Holds
  <2> HIDE DEF next
  <2>3. ~ Holds(jobs'[j]) /\ \A x \in Jobs : x # j => jobs'[x] = jobs[x]
    BY <2>1, <2>2 DEF MInv, Shaped
  <2> QED BY <2>1, <2>3, SameLast
<1> QED BY <1>1, <1>2, <1>3

LEMMA LastStep == ASSUME MInv, WInv, [MarksNext]_marksVars PROVE WInv'
<1>1. CASE UNCHANGED marksVars BY <1>1, SameLast DEF marksVars
<1>2. CASE Identified
  <2>1. row'.meta = row.meta BY <1>2 DEF Identified, MInv, Shaped
  <2> QED BY <1>2, <2>1, SameLast DEF Identified, World
<1>3. ASSUME NEW j \in Jobs, NEW is \in Emoji \cup Scopes \cup {Nothing}, RequestMark(j, is)
      PROVE WInv'
  BY <1>3, RestLast DEF Kinds
<1> QED
  BY <1>1, <1>2, <1>3, PhoneLast, SendLast, ReceiveLast, WriteLast, RestLast, FailLast
  DEF MarksNext

LEMMA InitLast == MarksInit => WInv
<1> SUFFICES ASSUME MarksInit PROVE WInv OBVIOUS
<1>1. \A j \in Jobs : ~ Holds(jobs[j]) /\ jobs[j].pc = "idle" BY DEF MarksInit, Holds, Idle
<1>2. row.meta.items = {}
  <2>1. PICK mine \in BOOLEAN :
          row = [mine |-> mine, external |-> ~ mine, text |-> "original", meta |-> Blank(mine)]
    BY DEF MarksInit
  <2> QED BY <2>1 DEF Blank
<1>3. 0 \in 0 .. MaxMarks BY MarksAssumption DEF MarksAssumption
<1>4. ASSUME NEW a \in Actors PROVE Last(a, 0)
  <2>1. made = 0 /\ written[a] = 0 /\ shows[a] = Nothing /\ posted = {} BY DEF MarksInit
  <2>2. EmojisOf(row.meta, a) = Just(shows[a]) BY <1>2, <2>1 DEF EmojisOf, Just
  <2> QED BY <1>1, <2>1, <2>2 DEF Last
<1> QED BY <1>1, <1>3, <1>4 DEF WInv, Present, MarksInit

\* Once every webhook was handled the row shows what WhatsApp shows, but for the
\* overlaps and webhooks that RowMirrorsWhatsApp names: a refused call, a lost
\* answer and an exception are all repaired by the webhook of the mark.
THEOREM RowMirrors == MarksSpec => []RowMirrorsWhatsApp
<1>1. ASSUME MInv, WInv, Quiet, gone = Nothing, ~ overlapped, NEW a \in Actors, a \notin misled
      PROVE  {i.emoji : i \in {k \in row.meta.items : k.who = a}} = {shows[a]} \ {Nothing}
  <2>1. PICK n \in 0 .. MaxMarks : Last(a, n) BY <1>1 DEF WInv
  <2>2. \A j \in Jobs : jobs[j].pc = "idle" BY <1>1 DEF Quiet, Idle
  <2>3. ~ Coming(a, n) BY <1>1, <2>2 DEF Coming, Quiet
  <2>4. EmojisOf(row.meta, a) = Just(shows[a]) BY <1>1, <2>1, <2>3 DEF Last
  <2> QED BY <2>4 DEF EmojisOf, Just
<1>2. MInv /\ WInv => RowMirrorsWhatsApp BY <1>1 DEF RowMirrorsWhatsApp
<1>3. MInv /\ WInv /\ [MarksNext]_marksVars => (MInv /\ WInv)' BY StepInv, LastStep
<1> QED BY <1>2, <1>3, InitShaped, InitLast, PTL DEF MarksSpec
=============================================================================
