------------------------ MODULE FinanceSheetsProofs ------------------------
(***************************************************************************)
(* Safety of the finance editor, for any number of sheets, requests and    *)
(* acts of the user: what a sheet holds when nothing is under way, and     *)
(* that its lines are not replaced by those of a blank draft.              *)
(***************************************************************************)
EXTENDS FinanceSheets, TLAPS

\* What a step can tell of the variables' types by itself.
PutSet   == [pc : {"rest", "sent", "locked", "deleted", "committed", "read", "failed"},
             sheet : Sheets \cup {NoSheet}, line : LineSet]
MarkSet  == [pc : {"rest", "sent", "read", "blocked", "lined", "committed", "failed"},
             sheet : Sheets \cup {NoSheet}, to : BOOLEAN, line : LineSet, onScreen : BOOLEAN]
FetchSet == [pc : {"rest", "sent", "read"}, sheet : Sheets \cup {NoSheet}, line : LineSet,
             hydrates : {"never", "found", "always"}]

SheetTypes ==
  /\ lines \in [Sheets -> LineSet] /\ selected \in Sheets /\ draft \in LineSet
  /\ active \in [sheet : Sheets, line : LineSet]
  /\ timer \in BOOLEAN /\ queued \in BOOLEAN
  /\ put \in PutSet /\ mark \in [Marks -> MarkSet] /\ fetch \in [Fetches -> FetchSet]
  /\ put.pc # "rest" => put.sheet \in Sheets
  /\ \A i \in Marks : mark[i].pc # "rest" => mark[i].sheet \in Sheets
  /\ \A f \in Fetches : fetch[f].pc # "rest" => fetch[f].sheet \in Sheets
  /\ latest \in Fetches /\ acts \in 0 .. MaxActs
  /\ typed \in [Sheets -> Texts] /\ settled \in [Sheets -> BOOLEAN]
  /\ excuse \in [Sheets -> 0 .. 2]
  /\ queued => put.pc # "rest"

Spoilt(s) == excuse[s] = 2

\* A line that is not the sheet's own is nowhere that a sheet may get it from, unless
\* something happened that may cost it its lines: not stored, not about to be saved, not loaded.
OwnLines ==
  /\ \A s \in Sheets : lines[s].own \/ Spoilt(s)
  /\ put.pc # "rest" => put.line.own \/ Spoilt(put.sheet)
  /\ timer \/ queued => draft.own \/ Spoilt(selected)
  /\ active.line.own \/ Spoilt(active.sheet)
  /\ \A f \in Fetches : fetch[f].pc = "read" => fetch[f].line.own \/ Spoilt(fetch[f].sheet)
  /\ \A i \in Marks : mark[i].pc # "rest" => mark[i].line.own

\* The answer of a request replaces the draft.
Shown(f, ok) ==
  selected = fetch[f].sheet /\ (fetch[f].hydrates = "always" \/ (fetch[f].hydrates = "found" /\ ok))

\* A reload that shows what it finds has cost its sheet an excuse.
Refreshes ==
  \A f \in Fetches : fetch[f].pc # "rest" /\ fetch[f].hydrates = "found" => excuse[fetch[f].sheet] # 0

\* A mark that may still reach the screen is of the sheet on it.
MarksOnScreen ==
  \A i \in Marks : mark[i].onScreen => mark[i].pc # "rest" /\ mark[i].sheet = selected

Target(s)   == Line(TRUE, typed[s], settled[s])
Writing(s)  == put.sheet = s /\ put.pc \in {"sent", "locked", "deleted"}
Unmarked(s) == \A i \in Marks : mark[i].pc # "rest" => mark[i].sheet # s

\* What holds of a sheet without an excuse.
\* Away from the screen it is saved, and nothing of it is under way.
Left(s) ==
  s # selected =>
    lines[s] = Target(s) /\ Unmarked(s) /\ (put.pc # "rest" => put.sheet # s)

\* While it is loaded, nobody saves or marks.
Loaded(s) == s = selected /\ Loading(s) => lines[s] = Target(s) /\ Unmarked(s) /\ ~ Pending

\* On the screen the draft is what it should become, and what is stored differs only
\* while a save is due.
Drafted(s) ==
  s = selected =>
    /\ draft.own => draft = Target(s)
    /\ Unmarked(s) => \/ lines[s] = Target(s) \/ timer \/ queued
                      \/ Writing(s) \/ (put.sheet = s /\ put.pc = "failed")

\* Its mark is the last one, and the text is stored already.
Marked(s) ==
  \A i \in Marks : mark[i].pc # "rest" /\ mark[i].sheet = s =>
    /\ lines[s].text = typed[s] /\ mark[i].to = settled[s]
    /\ mark[i].pc = "committed" => lines[s] = Target(s)
    /\ \A j \in Marks : mark[j].pc # "rest" /\ mark[j].sheet = s => i = j

\* What is being saved is what it should become, or another save follows.
Saved(s) == Writing(s) => put.line = Target(s) \/ ((timer \/ queued) /\ Unmarked(s))

\* What was loaded is what is stored, until the answer that says otherwise.
Cached(s) ==
  /\ active.sheet = s => \/ active.line = lines[s]
                         \/ put.pc \in {"committed", "read"} /\ put.sheet = s
                         \/ \E i \in Marks : mark[i].pc = "committed" /\ mark[i].sheet = s
  /\ put.pc = "read" /\ put.sheet = s => put.line = lines[s]
  /\ \A f \in Fetches : fetch[f].pc = "read" /\ fetch[f].sheet = s => fetch[f].line = lines[s]

Faithful(s) == Left(s) /\ Loaded(s) /\ Drafted(s) /\ Marked(s) /\ Saved(s) /\ Cached(s)

SheetInv ==
  /\ MaxActs \in Nat /\ SheetTypes /\ OwnLines /\ Refreshes /\ MarksOnScreen
  /\ \A s \in Sheets : excuse[s] = 0 => Faithful(s)

-----------------------------------------------------------------------------
\* An excuse only grows.
LEMMA ExcuseGrows ==
  ASSUME SheetTypes, NEW x \in Sheets, NEW n \in 0 .. 2, Excuse(x, n)
  PROVE  /\ excuse' \in [Sheets -> 0 .. 2]
         /\ \A s \in Sheets : /\ Spoilt(s) => Spoilt(s)'
                              /\ excuse'[s] = 0 => excuse[s] = 0
                              /\ s # x => excuse'[s] = excuse[s]
         /\ n = 2 => Spoilt(x)'
         /\ excuse'[x] = 0 => n = 0
<1>1. Worse(x, n) \in 0 .. 2 /\ Worse(x, n) >= n /\ Worse(x, n) >= excuse[x]
  BY DEF Worse, SheetTypes
<1>2. excuse' = [excuse EXCEPT ![x] = Worse(x, n)] /\ excuse \in [Sheets -> 0 .. 2]
  BY DEF Excuse, SheetTypes
<1> QED
  BY <1>1, <1>2 DEF Spoilt

LEMMA ExcuseKept ==
  ASSUME SheetTypes, excuse' = excuse
  PROVE  /\ excuse' \in [Sheets -> 0 .. 2]
         /\ \A s \in Sheets : (Spoilt(s) => Spoilt(s)') /\ (excuse'[s] = 0 => excuse[s] = 0)
BY DEF SheetTypes, Spoilt

LEMMA FreshType == MaxActs \in Nat => Fresh \in LineSet
BY DEF Fresh, Line, LineSet, Texts

LEMMA RestTypes == MaxActs \in Nat => NoPut \in PutSet /\ NoMark \in MarkSet /\ NoFetch \in FetchSet
BY FreshType DEF NoPut, NoMark, NoFetch, PutSet, MarkSet, FetchSet

LEMMA MarkGoesType ==
  ASSUME SheetTypes, NEW i \in Marks, mark[i].pc # "rest",
         NEW pc \in {"sent", "read", "blocked", "lined", "committed", "failed"}, MarkGoes(i, pc)
  PROVE  /\ mark' \in [Marks -> MarkSet]
         /\ \A j \in Marks : j # i => mark'[j] = mark[j]
         /\ mark'[i].pc = pc /\ mark'[i].sheet = mark[i].sheet /\ mark'[i].to = mark[i].to
         /\ mark'[i].line = mark[i].line /\ mark'[i].onScreen = mark[i].onScreen
         /\ \A j \in Marks : mark'[j].pc # "rest" => mark'[j].sheet \in Sheets
         /\ \A j \in Marks : mark'[j].sheet = mark[j].sheet /\ (mark'[j].pc = "rest" <=> mark[j].pc = "rest")
<1>1. mark[i] \in MarkSet
  BY DEF SheetTypes
<1>2. [mark[i] EXCEPT !.pc = pc] \in MarkSet
  BY <1>1 DEF MarkSet
<1>3. mark' = [mark EXCEPT ![i] = [mark[i] EXCEPT !.pc = pc]]
  BY DEF MarkGoes, SheetTypes
<1>4. /\ mark' \in [Marks -> MarkSet] /\ \A j \in Marks : j # i => mark'[j] = mark[j]
      /\ mark'[i] = [mark[i] EXCEPT !.pc = pc]
  BY <1>2, <1>3 DEF SheetTypes
<1>5. /\ mark'[i].pc = pc /\ mark'[i].sheet = mark[i].sheet /\ mark'[i].to = mark[i].to
      /\ mark'[i].line = mark[i].line /\ mark'[i].onScreen = mark[i].onScreen
  BY <1>1, <1>4 DEF MarkSet
<1> QED
  BY <1>4, <1>5 DEF SheetTypes

LEMMA PutGoesType ==
  ASSUME SheetTypes, put.pc # "rest",
         NEW pc \in {"sent", "locked", "deleted", "committed", "failed"}, PutGoes(pc)
  PROVE  put' \in PutSet /\ put'.pc = pc /\ put'.sheet = put.sheet /\ put'.line = put.line
<1>1. put \in PutSet
  BY DEF SheetTypes
<1> QED
  BY <1>1 DEF PutGoes, PutSet

\* Rows that are new objects: marks go on without the screen.
LEMMA HydrateType ==
  ASSUME SheetTypes, NEW l \in LineSet, Hydrate(l)
  PROVE  /\ draft' = l /\ timer' = timer /\ mark' \in [Marks -> MarkSet]
         /\ \A j \in Marks : /\ mark'[j].pc = mark[j].pc /\ mark'[j].sheet = mark[j].sheet
                             /\ mark'[j].to = mark[j].to /\ mark'[j].line = mark[j].line
                             /\ mark'[j].onScreen = FALSE
<1>1. \A j \in Marks : mark[j] \in MarkSet /\ mark'[j] = [mark[j] EXCEPT !.onScreen = FALSE]
  BY DEF Hydrate, SheetTypes
<1>2. \A j \in Marks : mark'[j] \in MarkSet
  BY <1>1 DEF MarkSet
<1> QED
  BY <1>1, <1>2 DEF Hydrate, MarkSet

LEMMA LoadType ==
  ASSUME SheetTypes, MaxActs \in Nat, NEW f \in Fetches, NEW s \in Sheets, NEW h \in {"never", "found", "always"}, Load(f, s, h)
  PROVE  /\ fetch' \in [Fetches -> FetchSet] /\ latest' \in Fetches /\ fetch[f].pc = "rest"
         /\ \A g \in Fetches : g # f => fetch'[g] = fetch[g]
         /\ fetch'[f].pc = "sent" /\ fetch'[f].sheet = s /\ fetch'[f].hydrates = h
         /\ \A g \in Fetches : fetch'[g].pc # "rest" => fetch'[g].sheet \in Sheets
<1>1. [pc |-> "sent", sheet |-> s, line |-> Fresh, hydrates |-> h] \in FetchSet
  BY FreshType DEF FetchSet
<1> QED
  BY <1>1 DEF Load, SheetTypes

LEMMA SaveType ==
  ASSUME SheetTypes, SaveSheet
  PROVE  put' \in PutSet /\ put'.pc = "sent" /\ put'.sheet = selected /\ put'.line = draft
BY DEF SheetTypes, SaveSheet, PutSet

LEMMA StartType ==
  ASSUME SheetTypes, MaxActs \in Nat, StartQueued
  PROVE  /\ put' \in PutSet /\ queued' = FALSE
         /\ queued => put'.pc = "sent" /\ put'.sheet = selected /\ put'.line = draft
         /\ ~ queued => put'.pc = "rest"
BY SaveType, RestTypes DEF SheetTypes, StartQueued, NoPut

LEMMA PutReadType ==
  ASSUME SheetTypes, PutReads
  PROVE  put' \in PutSet /\ put'.pc = "read" /\ put'.sheet = put.sheet /\ put'.line = lines[put.sheet]
<1>1. put \in PutSet /\ lines[put.sheet] \in LineSet
  BY DEF SheetTypes, PutReads
<1> QED
  BY <1>1 DEF PutReads, PutSet

\* A commit lets the marks that wait for a line it deleted fail; a rollback lets them go on.
LEMMA ReleaseType ==
  ASSUME SheetTypes, NEW pc \in {"read", "failed"}, Release(pc)
  PROVE  /\ mark' \in [Marks -> MarkSet]
         /\ \A j \in Marks :
              /\ mark'[j].sheet = mark[j].sheet /\ (mark'[j].pc = "rest" <=> mark[j].pc = "rest")
              /\ mark'[j].pc = "committed" <=> mark[j].pc = "committed"
              /\ mark'[j].to = mark[j].to /\ mark'[j].line = mark[j].line
              /\ mark'[j].onScreen = mark[j].onScreen
<1>1. \A j \in Marks : mark[j] \in MarkSet
  BY DEF SheetTypes
<1>2. \A j \in Marks : \/ mark'[j] = mark[j]
                       \/ mark[j].pc = "blocked" /\ mark'[j] = [mark[j] EXCEPT !.pc = pc]
  BY DEF Release
<1>3. ASSUME NEW j \in Marks PROVE mark'[j] \in MarkSet
  <2>1. CASE mark'[j] = mark[j]
    BY <1>1, <2>1
  <2>2. CASE mark'[j] = [mark[j] EXCEPT !.pc = pc]
    <3>1. mark[j] \in MarkSet
      BY <1>1
    <3> QED
      BY <2>2, <3>1 DEF MarkSet
  <2> QED
    BY <1>2, <2>1, <2>2
<1>4. mark' \in [Marks -> MarkSet]
  BY <1>3 DEF Release
<1> QED
  BY <1>1, <1>2, <1>4 DEF MarkSet

LEMMA ReadType ==
  ASSUME SheetTypes, NEW f \in Fetches, FetchReads(f)
  PROVE  /\ fetch' \in [Fetches -> FetchSet]
         /\ \A g \in Fetches : g # f => fetch'[g] = fetch[g]
         /\ fetch'[f].pc = "read" /\ fetch'[f].sheet = fetch[f].sheet
         /\ fetch'[f].hydrates = fetch[f].hydrates /\ fetch'[f].line = lines[fetch[f].sheet]
         /\ \A g \in Fetches : fetch'[g].pc # "rest" => fetch'[g].sheet \in Sheets
<1>1. fetch[f] \in FetchSet /\ fetch[f].sheet \in Sheets /\ lines[fetch[f].sheet] \in LineSet
  BY DEF FetchReads, SheetTypes
<1>2. [fetch[f] EXCEPT !.pc = "read", !.line = lines[fetch[f].sheet]] \in FetchSet
  BY <1>1 DEF FetchSet
<1>3. fetch' = [fetch EXCEPT ![f] = [fetch[f] EXCEPT !.pc = "read", !.line = lines[fetch[f].sheet]]]
  BY <1>1 DEF FetchReads, SheetTypes, FetchSet
<1>4. /\ fetch' \in [Fetches -> FetchSet] /\ \A g \in Fetches : g # f => fetch'[g] = fetch[g]
      /\ fetch'[f] = [fetch[f] EXCEPT !.pc = "read", !.line = lines[fetch[f].sheet]]
  BY <1>2, <1>3 DEF SheetTypes
<1>5. /\ fetch'[f].pc = "read" /\ fetch'[f].sheet = fetch[f].sheet
      /\ fetch'[f].hydrates = fetch[f].hydrates /\ fetch'[f].line = lines[fetch[f].sheet]
  BY <1>1, <1>4 DEF FetchSet
<1> QED
  BY <1>1, <1>4, <1>5 DEF SheetTypes

LEMMA LineMarked ==
  ASSUME SheetTypes, NEW i \in Marks, MarkCommits(i)
  PROVE  /\ mark[i].sheet \in Sheets /\ lines' \in [Sheets -> LineSet]
         /\ \A s \in Sheets : s # mark[i].sheet => lines'[s] = lines[s]
         /\ \A s \in Sheets : lines'[s].own = lines[s].own /\ lines'[s].text = lines[s].text
         /\ lines'[mark[i].sheet].effective = mark[i].to
<1> DEFINE s == mark[i].sheet
<1>1. s \in Sheets /\ lines[s] \in LineSet /\ mark[i].to \in BOOLEAN
  BY DEF MarkCommits, SheetTypes, MarkSet
<1>2. lines' = [lines EXCEPT ![s] = [lines[s] EXCEPT !.effective = mark[i].to]]
  BY <1>1 DEF MarkCommits, SheetTypes, LineSet
<1> HIDE DEF s
<1>3. [lines[s] EXCEPT !.effective = mark[i].to] \in LineSet
  BY <1>1 DEF LineSet
<1>4. /\ lines' \in [Sheets -> LineSet] /\ lines'[s] = [lines[s] EXCEPT !.effective = mark[i].to]
      /\ \A x \in Sheets : x # s => lines'[x] = lines[x]
  BY <1>1, <1>2, <1>3 DEF SheetTypes
<1>5. lines'[s].own = lines[s].own /\ lines'[s].text = lines[s].text /\ lines'[s].effective = mark[i].to
  BY <1>1, <1>4 DEF LineSet
<1> QED
  BY <1>1, <1>4, <1>5 DEF s

-----------------------------------------------------------------------------
(* Every state is typed *)

LEMMA SheetTypesStep == MaxActs \in Nat /\ SheetTypes /\ [SheetNext]_sheetVars => SheetTypes'
<1> SUFFICES ASSUME MaxActs \in Nat, SheetTypes, [SheetNext]_sheetVars PROVE SheetTypes'
  OBVIOUS
<1>0. \A t \in Texts : t \in Nat
  BY DEF Texts
<1>1. CASE Type
  <2>1. acts + 1 \in Texts /\ acts' \in 0 .. MaxActs
    BY <1>1 DEF Type, Acts, Texts, SheetTypes
  <2>2. draft' \in LineSet
    <3>1. draft \in LineSet
      BY DEF SheetTypes
    <3> QED
      BY <1>1, <2>1, <3>1 DEF Type, LineSet
  <2>3. excuse' \in [Sheets -> 0 .. 2]
    BY <1>1, ExcuseGrows DEF Type, SheetTypes
  <2> QED
    BY <1>1, <2>1, <2>2, <2>3 DEF Type, SheetTypes
<1>2. CASE Resync
  <2>1. acts' \in 0 .. MaxActs
    BY <1>2 DEF Resync, Acts, SheetTypes
  <2>2. excuse' \in [Sheets -> 0 .. 2]
    BY <1>2, ExcuseGrows DEF Resync, SheetTypes
  <2> QED
    BY <1>2, <2>1, <2>2 DEF Resync, SheetTypes
<1>3. CASE TimerFires
  <2>1. CASE put.pc = "rest"
    BY <1>3, <2>1, SaveType DEF TimerFires, SheetTypes
  <2>2. CASE put.pc # "rest"
    BY <1>3, <2>2 DEF TimerFires, SheetTypes
  <2> QED
    BY <2>1, <2>2
<1>4. ASSUME NEW s \in Sheets, Select(s) PROVE SheetTypes'
  <2>1. acts' \in 0 .. MaxActs /\ selected' = s
    BY <1>4 DEF Select, Acts, SheetTypes
  <2>2. excuse' \in [Sheets -> 0 .. 2]
    BY <1>4 DEF Select, SheetTypes
  <2>3. CASE active.sheet = s
    <3>1. active.line \in LineSet /\ Hydrate(active.line) /\ UNCHANGED <<fetch, latest>>
      BY <1>4, <2>3 DEF Select, SheetTypes
    <3>2. draft' \in LineSet /\ timer' = timer /\ mark' \in [Marks -> MarkSet]
          /\ \A j \in Marks : mark'[j].pc = mark[j].pc /\ mark'[j].sheet = mark[j].sheet
      BY <3>1, HydrateType
    <3> QED
      BY <1>4, <2>1, <2>2, <3>1, <3>2 DEF Select, SheetTypes
  <2>4. CASE active.sheet # s
    <3>1. Fresh \in LineSet /\ Hydrate(Fresh)
      BY <1>4, <2>4, FreshType DEF Select
    <3>2. draft' \in LineSet /\ timer' = timer /\ mark' \in [Marks -> MarkSet]
          /\ \A j \in Marks : mark'[j].pc = mark[j].pc /\ mark'[j].sheet = mark[j].sheet
      BY <3>1, HydrateType
    <3>3. PICK f \in Fetches : Load(f, s, "always")
      BY <1>4, <2>4 DEF Select
    <3>4. /\ fetch' \in [Fetches -> FetchSet] /\ latest' \in Fetches
          /\ \A g \in Fetches : fetch'[g].pc # "rest" => fetch'[g].sheet \in Sheets
      BY <3>3, LoadType
    <3> QED
      BY <1>4, <2>1, <2>2, <3>2, <3>4 DEF Select, SheetTypes
  <2> QED
    BY <2>3, <2>4
<1>5. CASE PutLocks
  BY <1>5, PutGoesType DEF PutLocks, editor, SheetTypes
<1>6. CASE PutDeletes
  BY <1>6, PutGoesType DEF PutDeletes, editor, SheetTypes
<1>7. CASE PutCommits
  <2>1. put' \in PutSet /\ put'.pc = "committed" /\ put'.sheet = put.sheet
    BY <1>7, PutGoesType DEF PutCommits
  <2>2. lines' \in [Sheets -> LineSet]
    BY <1>7 DEF PutCommits, SheetTypes, PutSet
  <2>3. mark' \in [Marks -> MarkSet]
        /\ \A j \in Marks : mark'[j].sheet = mark[j].sheet /\ (mark'[j].pc = "rest" <=> mark[j].pc = "rest")
    BY <1>7, ReleaseType DEF PutCommits
  <2>4. excuse' \in [Sheets -> 0 .. 2]
    BY <1>7, ExcuseGrows DEF PutCommits, SheetTypes
  <2> QED
    BY <1>7, <2>1, <2>2, <2>3, <2>4 DEF PutCommits, editor, SheetTypes
<1>8. CASE PutAnswers
  <2>1. put' \in PutSet /\ queued' = FALSE /\ (put'.pc # "rest" => put'.sheet \in Sheets)
    BY <1>8, StartType DEF PutAnswers, SheetTypes
  <2>2. active' \in [sheet : Sheets, line : LineSet]
    BY <1>8 DEF PutAnswers, SheetTypes, PutSet
  <2> QED
    BY <1>8, <2>1, <2>2 DEF PutAnswers, SheetTypes
<1>9. CASE PutFails
  <2>1. put' \in PutSet /\ queued' = FALSE /\ (put'.pc # "rest" => put'.sheet \in Sheets)
    BY <1>9, StartType DEF PutFails, SheetTypes
  <2>2. excuse' \in [Sheets -> 0 .. 2]
    BY <1>9, ExcuseGrows DEF PutFails, SheetTypes
  <2>3. mark' \in [Marks -> MarkSet]
        /\ \A j \in Marks : mark'[j].sheet = mark[j].sheet /\ (mark'[j].pc = "rest" <=> mark[j].pc = "rest")
    BY <1>9, ReleaseType DEF PutFails
  <2> QED
    BY <1>9, <2>1, <2>2, <2>3 DEF PutFails, SheetTypes
<1>10. ASSUME NEW f \in Fetches, Refetch(f) PROVE SheetTypes'
  <2>1. active.sheet \in Sheets /\ acts' \in 0 .. MaxActs
    BY <1>10 DEF Refetch, Acts, SheetTypes
  <2>2. /\ fetch' \in [Fetches -> FetchSet] /\ latest' \in Fetches
        /\ \A g \in Fetches : fetch'[g].pc # "rest" => fetch'[g].sheet \in Sheets
    BY <1>10, <2>1, LoadType DEF Refetch
  <2> QED
    BY <1>10, <2>1, <2>2 DEF Refetch, editor, SheetTypes
<1>11. ASSUME NEW f \in Fetches, FetchReads(f) PROVE SheetTypes'
  <2>1. /\ fetch' \in [Fetches -> FetchSet]
        /\ \A g \in Fetches : fetch'[g].pc # "rest" => fetch'[g].sheet \in Sheets
    BY <1>11, ReadType
  <2> QED
    BY <1>11, <2>1 DEF FetchReads, editor, SheetTypes
<1>12. ASSUME NEW f \in Fetches, NEW ok \in BOOLEAN, FetchAnswers(f, ok) PROVE SheetTypes'
  <2>1. fetch[f] \in FetchSet /\ fetch[f].sheet \in Sheets /\ fetch[f].line \in LineSet
    BY <1>12 DEF FetchAnswers, SheetTypes, FetchSet
  <2>2. fetch' \in [Fetches -> FetchSet] /\ \A g \in Fetches : fetch'[g].pc # "rest" => fetch'[g].sheet \in Sheets
    BY <1>12, RestTypes DEF FetchAnswers, SheetTypes, NoFetch
  <2>3. active' \in [sheet : Sheets, line : LineSet]
    BY <1>12, <2>1 DEF FetchAnswers, SheetTypes
  <2>4. excuse' \in [Sheets -> 0 .. 2]
    BY <1>12, <2>1, ExcuseGrows DEF FetchAnswers
  <2>5. draft' \in LineSet /\ timer' = timer /\ mark' \in [Marks -> MarkSet]
        /\ \A j \in Marks : mark'[j].pc = mark[j].pc /\ mark'[j].sheet = mark[j].sheet
    <3> DEFINE l == IF ok THEN fetch[f].line ELSE Fresh
    <3>1. l \in LineSet
      BY <2>1, FreshType
    <3> HIDE DEF l
    <3>2. CASE Shown(f, ok)
      <4>1. Hydrate(l)
        BY <1>12, <3>2 DEF FetchAnswers, Shown, l
      <4> QED
        BY <3>1, <4>1, HydrateType
    <3>3. CASE ~ Shown(f, ok)
      BY <1>12, <3>3 DEF FetchAnswers, Shown, SheetTypes
    <3> QED
      BY <3>2, <3>3
  <2> QED
    BY <1>12, <2>2, <2>3, <2>4, <2>5 DEF FetchAnswers, SheetTypes
<1>13. ASSUME NEW i \in Marks, Mark(i) PROVE SheetTypes'
  <2>1. acts' \in 0 .. MaxActs /\ (~ draft.effective) \in BOOLEAN
    BY <1>13 DEF Mark, Acts, SheetTypes, LineSet
  <2>2. draft' \in LineSet
    <3>1. draft \in LineSet
      BY DEF SheetTypes
    <3> QED
      BY <1>13, <3>1 DEF Mark, LineSet
  <2>3. /\ mark' \in [Marks -> MarkSet] /\ \A j \in Marks : mark'[j].pc # "rest" => mark'[j].sheet \in Sheets
        /\ settled' \in [Sheets -> BOOLEAN]
    BY <1>13, <2>1 DEF Mark, MarkSet, SheetTypes
  <2>4. excuse' \in [Sheets -> 0 .. 2]
    BY <1>13, ExcuseGrows DEF Mark, SheetTypes
  <2> QED
    BY <1>13, <2>1, <2>2, <2>3, <2>4 DEF Mark, SheetTypes
<1>14. ASSUME NEW i \in Marks, MarkReads(i) PROVE SheetTypes'
  <2>1. /\ mark' \in [Marks -> MarkSet] /\ \A j \in Marks : mark'[j].pc # "rest" => mark'[j].sheet \in Sheets
    BY <1>14, MarkGoesType DEF MarkReads
  <2> QED
    BY <1>14, <2>1 DEF MarkReads, editor, SheetTypes
<1>15. ASSUME NEW i \in Marks, MarkUpdatesLine(i) PROVE SheetTypes'
  <2>1. /\ mark' \in [Marks -> MarkSet] /\ \A j \in Marks : mark'[j].pc # "rest" => mark'[j].sheet \in Sheets
    BY <1>15, MarkGoesType DEF MarkUpdatesLine
  <2> QED
    BY <1>15, <2>1 DEF MarkUpdatesLine, editor, SheetTypes
<1>16. ASSUME NEW i \in Marks, MarkCommits(i) PROVE SheetTypes'
  <2>1. /\ mark' \in [Marks -> MarkSet] /\ \A j \in Marks : mark'[j].pc # "rest" => mark'[j].sheet \in Sheets
    BY <1>16, MarkGoesType DEF MarkCommits
  <2>2. mark[i].sheet \in Sheets /\ lines' \in [Sheets -> LineSet]
    BY <1>16, LineMarked
  <2>3. excuse' \in [Sheets -> 0 .. 2]
    BY <1>16, <2>2, ExcuseGrows DEF MarkCommits
  <2> QED
    BY <1>16, <2>1, <2>2, <2>3 DEF MarkCommits, editor, SheetTypes
<1>17. ASSUME NEW i \in Marks, DeadlockDetected(i) PROVE SheetTypes'
  <2>1. CASE MarkGoes(i, "failed") /\ UNCHANGED put
    BY <1>17, <2>1, MarkGoesType DEF DeadlockDetected, editor, SheetTypes
  <2>2. CASE PutGoes("failed") /\ UNCHANGED mark
    BY <1>17, <2>2, PutGoesType DEF DeadlockDetected, editor, SheetTypes
  <2> QED
    BY <1>17, <2>1, <2>2 DEF DeadlockDetected
<1>18. ASSUME NEW i \in Marks, MarkAnswers(i) PROVE SheetTypes'
  <2>1. mark[i].sheet \in Sheets /\ draft' \in LineSet /\ active' \in [sheet : Sheets, line : LineSet]
    BY <1>18 DEF MarkAnswers, SheetTypes
  <2>2. /\ mark' \in [Marks -> MarkSet] /\ \A j \in Marks : mark'[j].pc # "rest" => mark'[j].sheet \in Sheets
    BY <1>18, RestTypes DEF MarkAnswers, SheetTypes, NoMark
  <2> QED
    BY <1>18, <2>1, <2>2 DEF MarkAnswers, SheetTypes
<1>19. ASSUME NEW i \in Marks, MarkFails(i) PROVE SheetTypes'
  <2>1. mark[i].sheet \in Sheets /\ draft' \in LineSet
    BY <1>19 DEF MarkFails, SheetTypes, MarkSet
  <2>2. /\ mark' \in [Marks -> MarkSet] /\ \A j \in Marks : mark'[j].pc # "rest" => mark'[j].sheet \in Sheets
    BY <1>19, RestTypes DEF MarkFails, SheetTypes, NoMark
  <2>3. excuse' \in [Sheets -> 0 .. 2]
    BY <1>19, <2>1, ExcuseGrows DEF MarkFails
  <2> QED
    BY <1>19, <2>1, <2>2, <2>3 DEF MarkFails, SheetTypes
<1>20. CASE UNCHANGED sheetVars
  BY <1>20 DEF sheetVars, editor, SheetTypes
<1>21. CASE PutReads
  BY <1>21, PutReadType DEF PutReads, editor, SheetTypes
<1>22. ASSUME NEW f \in Fetches, Refresh(f) PROVE SheetTypes'
  <2>1. acts' \in 0 .. MaxActs /\ excuse' \in [Sheets -> 0 .. 2]
    BY <1>22, ExcuseGrows DEF Refresh, Acts, SheetTypes
  <2>2. /\ fetch' \in [Fetches -> FetchSet] /\ latest' \in Fetches
        /\ \A g \in Fetches : fetch'[g].pc # "rest" => fetch'[g].sheet \in Sheets
    <3>1. selected \in Sheets
      BY DEF SheetTypes
    <3> QED
      BY <1>22, <3>1, LoadType DEF Refresh
  <2> QED
    BY <1>22, <2>1, <2>2 DEF Refresh, editor, SheetTypes
<1> QED
  BY <1>1, <1>2, <1>3, <1>4, <1>5, <1>6, <1>7, <1>8, <1>9, <1>10, <1>11, <1>12, <1>13,
     <1>14, <1>15, <1>16, <1>17, <1>18, <1>19, <1>20, <1>21, <1>22 DEF SheetNext

-----------------------------------------------------------------------------
(* Blank drafts are not saved *)

LEMMA OnScreenStep ==
  MaxActs \in Nat /\ SheetTypes /\ MarksOnScreen /\ [SheetNext]_sheetVars => MarksOnScreen'
<1> SUFFICES ASSUME MaxActs \in Nat, SheetTypes, MarksOnScreen, [SheetNext]_sheetVars PROVE MarksOnScreen'
  OBVIOUS
<1>1. CASE Type \/ Resync \/ TimerFires \/ PutLocks \/ PutDeletes \/ PutReads \/ PutAnswers
  BY <1>1 DEF Type, Resync, TimerFires, PutLocks, PutDeletes, PutReads, PutAnswers, editor, MarksOnScreen
<1>2. CASE PutCommits \/ PutFails
  <2>1. Release("failed") \/ Release("read")
    BY <1>2 DEF PutCommits, PutFails
  <2>2. UNCHANGED selected
    BY <1>2 DEF PutCommits, PutFails, editor
  <2> QED
    BY <2>1, <2>2, ReleaseType DEF MarksOnScreen
<1>3. ASSUME NEW s \in Sheets, Select(s) PROVE MarksOnScreen'
  <2>1. \E l \in LineSet : Hydrate(l)
    BY <1>3, FreshType DEF Select, SheetTypes
  <2> QED
    BY <2>1, HydrateType DEF MarksOnScreen
<1>4. ASSUME NEW f \in Fetches, Refetch(f) \/ Refresh(f) \/ FetchReads(f) PROVE MarksOnScreen'
  BY <1>4 DEF Refetch, Refresh, FetchReads, editor, MarksOnScreen
<1>5. ASSUME NEW f \in Fetches, NEW ok \in BOOLEAN, FetchAnswers(f, ok) PROVE MarksOnScreen'
  <2>1. fetch[f].line \in LineSet
    BY <1>5 DEF SheetTypes, FetchSet
  <2>2. (\E l \in LineSet : Hydrate(l)) \/ UNCHANGED mark
    BY <1>5, <2>1, FreshType DEF FetchAnswers
  <2>3. UNCHANGED selected
    BY <1>5 DEF FetchAnswers
  <2> QED
    BY <2>2, <2>3, HydrateType DEF MarksOnScreen
<1>6. ASSUME NEW i \in Marks, Mark(i) PROVE MarksOnScreen'
  BY <1>6 DEF Mark, MarksOnScreen, SheetTypes
<1>7. ASSUME NEW i \in Marks, NEW pc \in {"sent", "read", "blocked", "lined", "committed", "failed"},
             mark[i].pc # "rest", MarkGoes(i, pc), UNCHANGED selected
      PROVE  MarksOnScreen'
  <2>1. /\ \A j \in Marks : j # i => mark'[j] = mark[j]
        /\ mark'[i].pc # "rest" /\ mark'[i].sheet = mark[i].sheet /\ mark'[i].onScreen = mark[i].onScreen
    BY <1>7, MarkGoesType
  <2> QED
    BY <1>7, <2>1 DEF MarksOnScreen
<1>8. ASSUME NEW i \in Marks, MarkReads(i) \/ MarkUpdatesLine(i) \/ MarkCommits(i) PROVE MarksOnScreen'
  BY <1>7, <1>8 DEF MarkReads, MarkUpdatesLine, MarkCommits, editor
<1>9. ASSUME NEW i \in Marks, DeadlockDetected(i) PROVE MarksOnScreen'
  <2>1. CASE UNCHANGED mark
    BY <1>9, <2>1 DEF DeadlockDetected, editor, MarksOnScreen
  <2>2. CASE MarkGoes(i, "failed")
    BY <1>7, <1>9, <2>2 DEF DeadlockDetected, editor
  <2> QED
    BY <1>9, <2>1, <2>2 DEF DeadlockDetected
<1>10. ASSUME NEW i \in Marks, MarkAnswers(i) \/ MarkFails(i) PROVE MarksOnScreen'
  BY <1>10 DEF MarkAnswers, MarkFails, NoMark, MarksOnScreen, SheetTypes
<1>11. CASE UNCHANGED sheetVars
  BY <1>11 DEF sheetVars, editor, MarksOnScreen
<1> QED
  BY <1>1, <1>2, <1>3, <1>4, <1>5, <1>6, <1>8, <1>9, <1>10, <1>11 DEF SheetNext

LEMMA OwnLinesStep ==
  MaxActs \in Nat /\ SheetTypes /\ OwnLines /\ [SheetNext]_sheetVars => OwnLines'
<1> SUFFICES ASSUME MaxActs \in Nat, SheetTypes, OwnLines, [SheetNext]_sheetVars PROVE OwnLines'
  OBVIOUS
<1>0. /\ selected \in Sheets /\ active.sheet \in Sheets /\ (put.pc # "rest" => put.sheet \in Sheets)
      /\ (queued => put.pc # "rest") /\ \A i \in Marks : mark[i].pc # "rest" => mark[i].sheet \in Sheets
      /\ \A f \in Fetches : fetch[f].pc # "rest" => fetch[f].sheet \in Sheets
  BY DEF SheetTypes
<1>1. CASE Type
  <2>1. \A s \in Sheets : Spoilt(s) => Spoilt(s)'
    BY <1>0, <1>1, ExcuseGrows DEF Type
  <2>2. draft.own \/ Spoilt(selected)'
    BY <1>0, <1>1, ExcuseGrows DEF Type, Loading
  <2>3. draft'.own = draft.own
    BY <1>1 DEF Type, SheetTypes, LineSet
  <2> QED
    BY <1>0, <1>1, <2>1, <2>2, <2>3 DEF Type, OwnLines, Spoilt
<1>2. CASE Resync
  <2>1. \A s \in Sheets : Spoilt(s) => Spoilt(s)'
    BY <1>0, <1>2, ExcuseGrows DEF Resync
  <2>2. draft.own \/ Spoilt(selected)'
    BY <1>0, <1>2, ExcuseGrows DEF Resync, Loading
  <2> QED
    BY <1>0, <1>2, <2>1, <2>2 DEF Resync, OwnLines, Spoilt
<1>3. CASE TimerFires
  <2>1. CASE put.pc = "rest"
    <3>1. put'.sheet = selected /\ put'.line = draft
      BY <1>3, <2>1, SaveType DEF TimerFires
    <3> QED
      BY <1>3, <2>1, <3>1 DEF TimerFires, OwnLines, Spoilt
  <2>2. CASE put.pc # "rest"
    BY <1>3, <2>2 DEF TimerFires, OwnLines, Spoilt
  <2> QED
    BY <2>1, <2>2
<1>4. ASSUME NEW s \in Sheets, Select(s) PROVE OwnLines'
  <2>1. PICK l \in LineSet : Hydrate(l)
    BY <1>4, FreshType DEF Select, SheetTypes
  <2>2. /\ timer' = timer
        /\ \A j \in Marks : mark'[j].pc = mark[j].pc /\ mark'[j].line = mark[j].line
    BY <2>1, HydrateType
  <2>3. /\ \A x \in Sheets : Spoilt(x) => Spoilt(x)'
        /\ timer \/ queued => Spoilt(s)'
    BY <1>4, <1>0 DEF Select, Spoilt, Pending, SheetTypes
  <2>4. /\ selected' = s
        /\ \A f \in Fetches : fetch'[f].pc = "read" => fetch'[f] = fetch[f]
    <3>1. CASE UNCHANGED fetch
      BY <1>4, <3>1 DEF Select
    <3>2. CASE \E f \in Fetches : Load(f, s, "always")
      BY <1>4, <3>2, LoadType DEF Select
    <3> QED
      BY <1>4, <3>1, <3>2 DEF Select
  <2>5. UNCHANGED <<lines, active, queued, put>>
    BY <1>4 DEF Select
  <2> QED
    BY <1>0, <2>2, <2>3, <2>4, <2>5 DEF OwnLines
<1>5. CASE PutLocks \/ PutDeletes
  <2>1. put'.line = put.line /\ put'.sheet = put.sheet /\ put.pc # "rest"
    BY <1>5, PutGoesType DEF PutLocks, PutDeletes
  <2> QED
    BY <1>5, <2>1 DEF PutLocks, PutDeletes, editor, OwnLines, Spoilt
<1>6. CASE PutCommits
  <2>1. put'.line = put.line /\ put'.sheet = put.sheet /\ put.pc # "rest"
    BY <1>6, PutGoesType DEF PutCommits
  <2>2. \A s \in Sheets : Spoilt(s) => Spoilt(s)'
    BY <1>0, <1>6, <2>1, ExcuseGrows DEF PutCommits
  <2>3. \A s \in Sheets : lines'[s] = IF s = put.sheet THEN put.line ELSE lines[s]
    BY <1>6 DEF PutCommits, SheetTypes
  <2>4. \A j \in Marks : mark'[j].line = mark[j].line /\ (mark'[j].pc = "rest" <=> mark[j].pc = "rest")
    BY <1>6, ReleaseType DEF PutCommits
  <2> QED
    BY <1>0, <1>6, <2>1, <2>2, <2>3, <2>4 DEF PutCommits, editor, OwnLines
<1>7. ASSUME PutAnswers \/ PutFails PROVE OwnLines'
  <2>1. \A s \in Sheets : Spoilt(s) => Spoilt(s)'
    BY <1>0, <1>7, ExcuseGrows DEF PutAnswers, PutFails, Spoilt
  <2>2. /\ queued => put'.sheet = selected /\ put'.line = draft
        /\ ~ queued => put'.pc = "rest"
        /\ queued' = FALSE
    BY <1>7, StartType DEF PutAnswers, PutFails
  <2>3. active' = active \/ (active'.sheet = put.sheet /\ active'.line = put.line /\ put.pc # "rest" /\ put.sheet \in Sheets)
    BY <1>7, <1>0 DEF PutAnswers, PutFails, SheetTypes
  <2>4. UNCHANGED <<lines, selected, draft, timer, fetch>>
        /\ \A j \in Marks : mark'[j].line = mark[j].line /\ (mark'[j].pc = "rest" <=> mark[j].pc = "rest")
    BY <1>7, ReleaseType DEF PutAnswers, PutFails
  <2>5. active'.line.own \/ excuse'[active'.sheet] = 2
    BY <1>0, <2>1, <2>3 DEF OwnLines, Spoilt
  <2>6. put'.pc # "rest" => put'.line.own \/ excuse'[put'.sheet] = 2
    BY <1>0, <2>1, <2>2 DEF OwnLines, Spoilt
  <2> QED
    BY <1>0, <2>1, <2>2, <2>4, <2>5, <2>6 DEF OwnLines, Spoilt
<1>8. ASSUME NEW f \in Fetches, Refetch(f) \/ Refresh(f) PROVE OwnLines'
  <2>1. \A g \in Fetches : fetch'[g].pc = "read" => fetch'[g] = fetch[g]
    BY <1>8, <1>0, LoadType DEF Refetch, Refresh
  <2>2. \A s \in Sheets : Spoilt(s) => Spoilt(s)'
    BY <1>8, <1>0, ExcuseGrows DEF Refetch, Refresh, Spoilt
  <2>3. UNCHANGED <<lines, editor, put, mark>>
    BY <1>8 DEF Refetch, Refresh
  <2> QED
    BY <1>0, <2>1, <2>2, <2>3 DEF editor, OwnLines
<1>9. ASSUME NEW f \in Fetches, FetchReads(f) PROVE OwnLines'
  <2>1. /\ \A g \in Fetches : g # f => fetch'[g] = fetch[g]
        /\ fetch'[f].sheet = fetch[f].sheet /\ fetch'[f].line = lines[fetch[f].sheet]
        /\ fetch[f].sheet \in Sheets
    BY <1>9, <1>0, ReadType DEF FetchReads
  <2>2. UNCHANGED <<lines, draft, active, timer, queued, selected, put, mark, excuse>>
    BY <1>9 DEF FetchReads, editor
  <2>3. \A g \in Fetches : fetch'[g].pc = "read" => fetch'[g].line.own \/ excuse'[fetch'[g].sheet] = 2
    BY <2>1, <2>2 DEF OwnLines, Spoilt
  <2> QED
    BY <2>2, <2>3 DEF OwnLines, Spoilt
<1>10. ASSUME NEW f \in Fetches, NEW ok \in BOOLEAN, FetchAnswers(f, ok) PROVE OwnLines'
  <2> DEFINE s == fetch[f].sheet
             l == IF ok THEN fetch[f].line ELSE Fresh
  <2>0. s \in Sheets /\ fetch[f].line \in LineSet /\ l \in LineSet
    BY <1>0, <1>10, FreshType DEF FetchAnswers, SheetTypes, FetchSet
  <2>1. /\ \A x \in Sheets : Spoilt(x) => Spoilt(x)'
        /\ ~ ok /\ fetch[f].hydrates = "always" => excuse'[s] = 2
    BY <2>0, <1>10, ExcuseGrows DEF FetchAnswers, Spoilt
  <2>2. ok \/ fetch[f].hydrates = "always" => l.own \/ excuse'[s] = 2
    BY <1>10, <2>0, <2>1 DEF FetchAnswers, OwnLines, Spoilt
  <2>3. \A g \in Fetches : fetch'[g].pc = "read" => fetch'[g] = fetch[g]
    BY <1>10 DEF FetchAnswers, SheetTypes, NoFetch
  <2>4. active' = active \/ (ok /\ active'.sheet = s /\ active'.line = fetch[f].line)
    BY <1>10 DEF FetchAnswers
  <2> HIDE DEF l
  <2>5. /\ timer' = timer /\ \A j \in Marks : mark'[j].pc = mark[j].pc /\ mark'[j].line = mark[j].line
        /\ draft' = draft \/ (selected = s /\ draft' = l /\ (ok \/ fetch[f].hydrates = "always"))
    <3>2. CASE Shown(f, ok)
      <4>1. Hydrate(l) /\ selected = s /\ (ok \/ fetch[f].hydrates = "always")
        BY <1>10, <3>2 DEF FetchAnswers, Shown, l
      <4> QED
        BY <2>0, <3>2, <4>1, HydrateType
    <3>3. CASE ~ Shown(f, ok)
      BY <1>10, <3>3 DEF FetchAnswers, Shown
    <3> QED
      BY <3>2, <3>3
  <2>6. UNCHANGED <<lines, selected, queued, put>>
    BY <1>10 DEF FetchAnswers
  <2>7. active'.line.own \/ excuse'[active'.sheet] = 2
    BY <1>0, <2>0, <2>1, <2>2, <2>4 DEF OwnLines, Spoilt, l
  <2>8. timer' \/ queued' => draft'.own \/ excuse'[selected'] = 2
    BY <1>0, <2>1, <2>2, <2>5, <2>6 DEF OwnLines, Spoilt
  <2> HIDE DEF s
  <2> QED
    BY <1>0, <2>1, <2>3, <2>5, <2>6, <2>7, <2>8 DEF OwnLines, Spoilt
<1>11. ASSUME NEW i \in Marks, Mark(i) PROVE OwnLines'
  <2>1. \A s \in Sheets : Spoilt(s) => Spoilt(s)'
    BY <1>0, <1>11, ExcuseGrows DEF Mark
  <2>2. draft.own /\ draft'.own
    BY <1>11 DEF Mark, SheetTypes, LineSet
  <2>3. \A j \in Marks : mark'[j].pc # "rest" => mark'[j].line.own
    BY <1>11, <2>2 DEF Mark, SheetTypes, OwnLines
  <2> QED
    BY <1>0, <1>11, <2>1, <2>2, <2>3 DEF Mark, OwnLines
<1>12. ASSUME NEW i \in Marks, NEW pc \in {"sent", "read", "blocked", "lined", "committed", "failed"},
              mark[i].pc # "rest", MarkGoes(i, pc)
       PROVE  \A j \in Marks : mark'[j].pc # "rest" => mark'[j].line.own
  BY <1>12, MarkGoesType DEF OwnLines
<1>13. ASSUME NEW i \in Marks, MarkReads(i) \/ MarkUpdatesLine(i) PROVE OwnLines'
  <2>1. \A j \in Marks : mark'[j].pc # "rest" => mark'[j].line.own
    BY <1>12, <1>13 DEF MarkReads, MarkUpdatesLine
  <2> QED
    BY <1>13, <2>1 DEF MarkReads, MarkUpdatesLine, editor, OwnLines, Spoilt
<1>14. ASSUME NEW i \in Marks, MarkCommits(i) PROVE OwnLines'
  <2>1. \A j \in Marks : mark'[j].pc # "rest" => mark'[j].line.own
    BY <1>12, <1>14 DEF MarkCommits
  <2>2. mark[i].sheet \in Sheets /\ \A s \in Sheets : lines'[s].own = lines[s].own
    BY <1>14, LineMarked
  <2>3. \A s \in Sheets : Spoilt(s) => Spoilt(s)'
    BY <1>14, <2>2, ExcuseGrows DEF MarkCommits
  <2> QED
    BY <1>0, <1>14, <2>1, <2>2, <2>3 DEF MarkCommits, editor, OwnLines
<1>15. ASSUME NEW i \in Marks, DeadlockDetected(i) PROVE OwnLines'
  <2>1. CASE MarkGoes(i, "failed") /\ UNCHANGED put
    <3>1. \A j \in Marks : mark'[j].pc # "rest" => mark'[j].line.own
      BY <1>12, <1>15, <2>1 DEF DeadlockDetected
    <3> QED
      BY <1>15, <2>1, <3>1 DEF DeadlockDetected, editor, OwnLines, Spoilt
  <2>2. CASE PutGoes("failed") /\ UNCHANGED mark
    <3>1. put'.line = put.line /\ put'.sheet = put.sheet /\ put.pc # "rest"
      BY <1>15, <2>2, PutGoesType DEF DeadlockDetected
    <3> QED
      BY <1>15, <2>2, <3>1 DEF DeadlockDetected, editor, OwnLines, Spoilt
  <2> QED
    BY <1>15, <2>1, <2>2 DEF DeadlockDetected
<1>16. ASSUME NEW i \in Marks, MarkAnswers(i) PROVE OwnLines'
  <2>1. /\ \A j \in Marks : mark'[j].pc # "rest" => mark'[j] = mark[j]
        /\ draft' = draft \/ draft'.own
        /\ active'.line.own \/ active' = active
    BY <1>16 DEF MarkAnswers, SheetTypes, NoMark
  <2> QED
    BY <1>16, <2>1 DEF MarkAnswers, OwnLines, Spoilt
<1>17. ASSUME NEW i \in Marks, MarkFails(i) PROVE OwnLines'
  <2>1. \A s \in Sheets : Spoilt(s) => Spoilt(s)'
    BY <1>0, <1>17, ExcuseGrows DEF MarkFails
  <2>2. /\ \A j \in Marks : mark'[j].pc # "rest" => mark'[j] = mark[j]
        /\ draft' = draft \/ draft'.own
    BY <1>17 DEF MarkFails, SheetTypes, NoMark, OwnLines
  <2> QED
    BY <1>0, <1>17, <2>1, <2>2 DEF MarkFails, OwnLines
<1>18. CASE UNCHANGED sheetVars
  BY <1>18 DEF sheetVars, editor, OwnLines, Spoilt
<1>19. CASE PutReads
  BY <1>0, <1>19, PutReadType DEF PutReads, editor, OwnLines, Spoilt
<1> QED
  BY <1>1, <1>2, <1>3, <1>4, <1>5, <1>6, <1>7, <1>8, <1>9, <1>10, <1>11, <1>13,
     <1>14, <1>15, <1>16, <1>17, <1>18, <1>19 DEF SheetNext

-----------------------------------------------------------------------------
(* What a sheet without an excuse holds *)

\* A step beside sheet s, its draft and what is under way for it.
LEMMA Untouched ==
  ASSUME NEW s \in Sheets, Faithful(s),
         UNCHANGED <<selected, draft, timer, queued, typed, settled>>, lines'[s] = lines[s],
         put'.pc # "rest" => put.pc # "rest",
         put'.pc # "rest" /\ put'.sheet = s => put.pc # "rest" /\ put.sheet = s,
         Writing(s)' => Writing(s) /\ put'.line = put.line,
         Writing(s) \/ (put.sheet = s /\ put.pc = "failed") =>
           Writing(s)' \/ (put'.sheet = s /\ put'.pc = "failed"),
         put.sheet = s /\ put.pc \in {"committed", "read"} => put'.sheet = s /\ put'.pc \in {"committed", "read"},
         put'.pc = "read" /\ put'.sheet = s => put' = put \/ put'.line = lines[s],
         \A j \in Marks :
           /\ (mark'[j].pc # "rest" /\ mark'[j].sheet = s) <=> (mark[j].pc # "rest" /\ mark[j].sheet = s)
           /\ mark[j].pc # "rest" /\ mark[j].sheet = s =>
                mark'[j].to = mark[j].to /\ (mark'[j].pc = "committed" <=> mark[j].pc = "committed"),
         Loading(s)' => Loading(s),
         active'.sheet = s => active' = active \/ active'.line = lines[s],
         \A f \in Fetches : fetch'[f].pc = "read" /\ fetch'[f].sheet = s => fetch'[f].line = lines[s]
  PROVE  Faithful(s)'
<1>1. Unmarked(s)' <=> Unmarked(s)
  BY DEF Unmarked
<1>2. Target(s)' = Target(s)
  BY DEF Target
<1>3. Left(s)'
  BY <1>1, <1>2 DEF Faithful, Left
<1>4. Loaded(s)'
  BY <1>1, <1>2 DEF Faithful, Loaded, Pending
<1>5. Drafted(s)'
  BY <1>1, <1>2 DEF Faithful, Drafted
<1>6. Marked(s)'
  BY <1>2 DEF Faithful, Marked
<1>7. Saved(s)'
  BY <1>1, <1>2 DEF Faithful, Saved
<1>8. Cached(s)'
  <2>1. active'.sheet = s => \/ active'.line = lines'[s]
                             \/ put'.pc \in {"committed", "read"} /\ put'.sheet = s
                             \/ \E i \in Marks : mark'[i].pc = "committed" /\ mark'[i].sheet = s
    <3>1. CASE active' = active /\ active.sheet = s
      <4>1. CASE active.line = lines[s]
        BY <3>1, <4>1
      <4>2. CASE put.pc \in {"committed", "read"} /\ put.sheet = s
        BY <4>2
      <4>3. ASSUME NEW i \in Marks, mark[i].pc = "committed", mark[i].sheet = s
            PROVE  mark'[i].pc = "committed" /\ mark'[i].sheet = s
        BY <4>3
      <4> QED
        BY <3>1, <4>1, <4>2, <4>3 DEF Faithful, Cached
    <3> QED
      BY <3>1
  <2>2. put'.pc = "read" /\ put'.sheet = s => put'.line = lines'[s]
    BY DEF Faithful, Cached
  <2> QED
    BY <2>1, <2>2 DEF Cached
<1> QED
  BY <1>3, <1>4, <1>5, <1>6, <1>7, <1>8 DEF Faithful

\* Away from the screen nothing that touches the draft, or a save of the sheet on
\* the screen, concerns a sheet.
LEMMA StaysLeft ==
  ASSUME NEW s \in Sheets, Faithful(s), s # selected, s # selected', lines'[s] = lines[s],
         UNCHANGED <<typed, settled>>,
         put'.pc # "rest" /\ put'.sheet = s => put.pc # "rest" /\ put.sheet = s,
         \A j \in Marks : (mark'[j].pc # "rest" /\ mark'[j].sheet = s) => (mark[j].pc # "rest" /\ mark[j].sheet = s),
         active'.sheet = s => active' = active \/ active'.line = lines[s],
         \A f \in Fetches : fetch'[f].pc = "read" /\ fetch'[f].sheet = s => fetch'[f].line = lines[s]
  PROVE  Faithful(s)'
<1>1. lines[s] = Target(s) /\ Unmarked(s) /\ (put.pc # "rest" => put.sheet # s)
  BY DEF Faithful, Left
<1>2. lines'[s] = Target(s)' /\ Unmarked(s)' /\ (put'.pc # "rest" => put'.sheet # s)
  BY <1>1 DEF Target, Unmarked
<1>3. Left(s)' /\ Loaded(s)' /\ Drafted(s)'
  BY <1>2 DEF Left, Loaded, Drafted
<1>4. Marked(s)' /\ Saved(s)'
  BY <1>2 DEF Marked, Saved, Unmarked, Writing
<1>5. active.sheet = s => active.line = lines[s]
  BY <1>1 DEF Faithful, Cached, Unmarked
<1>6. Cached(s)'
  BY <1>2, <1>5 DEF Cached
<1> QED
  BY <1>3, <1>4, <1>6 DEF Faithful

LEMMA ExcuseFalls ==
  ASSUME MaxActs \in Nat, SheetTypes, [SheetNext]_sheetVars, NEW s \in Sheets, excuse'[s] = 0
  PROVE  excuse[s] = 0
<1>0. /\ selected \in Sheets /\ active.sheet \in Sheets /\ (put.pc # "rest" => put.sheet \in Sheets)
      /\ \A i \in Marks : mark[i].pc # "rest" => mark[i].sheet \in Sheets
      /\ \A f \in Fetches : fetch[f].pc # "rest" => fetch[f].sheet \in Sheets
  BY DEF SheetTypes
<1>1. ASSUME NEW x \in Sheets, NEW n \in 0 .. 2, Excuse(x, n) PROVE excuse[s] = 0
  BY <1>1, ExcuseGrows
<1>2. CASE Type
  BY <1>0, <1>1, <1>2 DEF Type
<1>3. CASE Resync
  BY <1>0, <1>1, <1>3 DEF Resync
<1>4. ASSUME NEW x \in Sheets, Select(x) PROVE excuse[s] = 0
  BY <1>4 DEF Select
<1>5. CASE PutCommits \/ PutFails
  BY <1>0, <1>1, <1>5 DEF PutCommits, PutFails
<1>6. ASSUME NEW f \in Fetches, NEW ok \in BOOLEAN, FetchAnswers(f, ok) PROVE excuse[s] = 0
  BY <1>0, <1>1, <1>6 DEF FetchAnswers
<1>7. ASSUME NEW i \in Marks, Mark(i) PROVE excuse[s] = 0
  BY <1>0, <1>1, <1>7 DEF Mark
<1>8. ASSUME NEW i \in Marks, MarkCommits(i) \/ MarkFails(i) PROVE excuse[s] = 0
  <2>1. mark[i].sheet \in Sheets
    BY <1>0, <1>8 DEF MarkCommits, MarkFails
  <2> QED
    BY <1>1, <1>8, <2>1 DEF MarkCommits, MarkFails
<1>9. CASE UNCHANGED excuse
  BY <1>9
<1>10. ASSUME NEW i \in Marks, MarkReads(i) \/ MarkUpdatesLine(i) \/ DeadlockDetected(i) \/ MarkAnswers(i)
       PROVE  UNCHANGED excuse
  BY <1>10 DEF MarkReads, MarkUpdatesLine, DeadlockDetected, MarkAnswers
<1>11. ASSUME NEW f \in Fetches, Refetch(f) \/ FetchReads(f) PROVE UNCHANGED excuse
  BY <1>11 DEF Refetch, FetchReads
<1>12. CASE TimerFires \/ PutLocks \/ PutDeletes \/ PutReads \/ PutAnswers \/ UNCHANGED sheetVars
  BY <1>9, <1>12 DEF TimerFires, PutLocks, PutDeletes, PutReads, PutAnswers, sheetVars
<1>13. ASSUME NEW f \in Fetches, Refresh(f) PROVE excuse[s] = 0
  BY <1>0, <1>1, <1>13 DEF Refresh
<1> QED
  BY <1>2, <1>3, <1>4, <1>5, <1>6, <1>7, <1>8, <1>9, <1>10, <1>11, <1>12, <1>13 DEF SheetNext

LEMMA RefreshesStep ==
  MaxActs \in Nat /\ SheetTypes /\ Refreshes /\ [SheetNext]_sheetVars => Refreshes'
<1> SUFFICES ASSUME MaxActs \in Nat, SheetTypes, Refreshes, [SheetNext]_sheetVars,
                    NEW g \in Fetches, fetch'[g].pc # "rest", fetch'[g].hydrates = "found"
             PROVE  excuse'[fetch'[g].sheet] # 0
  BY DEF Refreshes
<1>0. selected \in Sheets /\ active.sheet \in Sheets /\ (fetch[g].pc # "rest" => fetch[g].sheet \in Sheets)
  BY DEF SheetTypes
<1>1. ASSUME fetch[g].pc # "rest", fetch[g].hydrates = "found", fetch'[g].sheet = fetch[g].sheet
      PROVE  excuse'[fetch'[g].sheet] # 0
  BY <1>0, <1>1, ExcuseFalls DEF Refreshes
<1>2. CASE UNCHANGED fetch
  BY <1>1, <1>2
<1>3. ASSUME NEW s \in Sheets, Select(s) PROVE excuse'[fetch'[g].sheet] # 0
  <2>1. CASE \E f \in Fetches : Load(f, s, "always")
    BY <1>1, <2>1, LoadType
  <2> QED
    BY <1>2, <1>3, <2>1 DEF Select
<1>4. ASSUME NEW f \in Fetches, Refetch(f) PROVE excuse'[fetch'[g].sheet] # 0
  BY <1>0, <1>1, <1>4, LoadType DEF Refetch
<1>5. ASSUME NEW f \in Fetches, Refresh(f) PROVE excuse'[fetch'[g].sheet] # 0
  BY <1>0, <1>1, <1>5, LoadType, ExcuseGrows DEF Refresh
<1>6. ASSUME NEW f \in Fetches, FetchReads(f) PROVE excuse'[fetch'[g].sheet] # 0
  BY <1>1, <1>6, ReadType DEF FetchReads
<1>7. ASSUME NEW f \in Fetches, NEW ok \in BOOLEAN, FetchAnswers(f, ok) PROVE excuse'[fetch'[g].sheet] # 0
  BY <1>1, <1>7 DEF FetchAnswers, SheetTypes, NoFetch
<1>8. CASE Type \/ Resync \/ TimerFires \/ PutLocks \/ PutDeletes \/ PutCommits \/ PutReads \/ PutAnswers \/ PutFails
  BY <1>2, <1>8 DEF Type, Resync, TimerFires, PutLocks, PutDeletes, PutCommits, PutReads, PutAnswers, PutFails
<1>9. ASSUME NEW i \in Marks, \/ Mark(i) \/ MarkReads(i) \/ MarkUpdatesLine(i) \/ MarkCommits(i)
                              \/ DeadlockDetected(i) \/ MarkAnswers(i) \/ MarkFails(i)
      PROVE  UNCHANGED fetch
  BY <1>9 DEF Mark, MarkReads, MarkUpdatesLine, MarkCommits, DeadlockDetected, MarkAnswers, MarkFails
<1>10. CASE UNCHANGED sheetVars
  BY <1>2, <1>10 DEF sheetVars
<1> QED
  BY <1>2, <1>3, <1>4, <1>5, <1>6, <1>7, <1>8, <1>9, <1>10 DEF SheetNext

LEMMA NoMarks == ASSUME NEW s, MarksOf(s) = {} PROVE Unmarked(s)
BY DEF MarksOf, Unmarked

\* The user and the timer.
LEMMA FaithfulEdits ==
  ASSUME SheetInv, NEW s \in Sheets, Faithful(s), excuse'[s] = 0, Type \/ Resync \/ TimerFires
  PROVE  Faithful(s)'
<1>0. /\ selected \in Sheets /\ draft \in LineSet /\ put \in PutSet /\ typed \in [Sheets -> Texts]
      /\ (queued => put.pc # "rest") /\ SheetTypes /\ MaxActs \in Nat
  BY DEF SheetInv, SheetTypes
<1>1. CASE s # selected
  <2>1. UNCHANGED <<lines, selected, mark, fetch, active, settled>> /\ typed'[s] = typed[s]
    BY <1>0, <1>1 DEF Type, Resync, TimerFires
  <2>2. put'.pc # "rest" /\ put'.sheet = s => put.pc # "rest" /\ put.sheet = s
    BY <1>0, <1>1, SaveType DEF Type, Resync, TimerFires
  <2>3. /\ lines[s] = Target(s) /\ Unmarked(s) /\ (put.pc # "rest" => put.sheet # s)
    BY <1>1 DEF Faithful, Left
  <2>4. Cached(s)
    BY DEF Faithful
  <2>5. Left(s)' /\ Loaded(s)' /\ Drafted(s)' /\ Marked(s)' /\ Saved(s)' /\ Cached(s)'
    <3>1. Left(s)' /\ Loaded(s)' /\ Drafted(s)'
      BY <1>1, <2>1, <2>2, <2>3 DEF Left, Loaded, Drafted, Unmarked, Target
    <3>2. Marked(s)' /\ Saved(s)'
      BY <2>1, <2>2, <2>3 DEF Marked, Saved, Unmarked, Writing
    <3>3. Cached(s)'
      BY <2>1, <2>2, <2>3, <2>4 DEF Cached, Unmarked
    <3> QED
      BY <3>1, <3>2, <3>3
  <2> QED
    BY <2>5 DEF Faithful
<1>2. CASE s = selected /\ Type
  <2>1. ~ Loading(s) /\ MarksOf(s) = {}
    BY <1>0, <1>2, ExcuseGrows DEF Type
  <2>2. Unmarked(s) /\ draft.own
    BY <2>1, NoMarks DEF Loading
  <2>3. draft' = [draft EXCEPT !.text = acts + 1] /\ typed'[s] = acts + 1 /\ timer' = TRUE
        /\ UNCHANGED <<lines, selected, active, queued, put, mark, fetch, settled>>
    BY <1>0, <1>2 DEF Type
  <2>4. draft = Target(s)
    BY <1>2, <2>2 DEF Faithful, Drafted
  <2>5. draft' = Target(s)'
    BY <2>3, <2>4 DEF Target, Line
  <2>6. ~ Loading(s)' /\ Unmarked(s)'
    BY <1>0, <2>1, <2>2, <2>3 DEF Loading, Unmarked, LineSet
  <2>7. Left(s)' /\ Loaded(s)' /\ Drafted(s)'
    BY <1>2, <2>3, <2>5, <2>6 DEF Left, Loaded, Drafted
  <2>8. Marked(s)' /\ Saved(s)' /\ Cached(s)'
    BY <2>3, <2>6 DEF Marked, Saved, Unmarked, Faithful, Cached
  <2> QED
    BY <2>7, <2>8 DEF Faithful
<1>3. CASE s = selected /\ Resync
  <2>1. ~ Loading(s)
    BY <1>0, <1>3, ExcuseGrows DEF Resync
  <2>2. timer' = TRUE /\ UNCHANGED <<lines, selected, draft, active, queued, put, mark, fetch, typed, settled>>
    BY <1>3 DEF Resync
  <2>3. ~ Loading(s)' /\ Target(s)' = Target(s) /\ (Unmarked(s)' <=> Unmarked(s))
    BY <2>1, <2>2 DEF Loading, Target, Unmarked
  <2>4. Left(s)' /\ Loaded(s)' /\ Drafted(s)'
    BY <1>3, <2>2, <2>3 DEF Left, Loaded, Drafted, Faithful
  <2>5. Marked(s)' /\ Saved(s)' /\ Cached(s)'
    BY <2>2, <2>3 DEF Marked, Saved, Faithful, Cached, Writing
  <2> QED
    BY <2>4, <2>5 DEF Faithful
<1>4. CASE s = selected /\ TimerFires
  <2>1. ~ Loading(s) /\ draft.own
    BY <1>4 DEF TimerFires, Faithful, Loaded, Pending, Loading
  <2>2. UNCHANGED <<lines, selected, draft, active, mark, fetch, typed, settled>>
    BY <1>4 DEF TimerFires
  <2>3. ~ Loading(s)' /\ Target(s)' = Target(s) /\ (Unmarked(s)' <=> Unmarked(s))
    BY <2>1, <2>2 DEF Loading, Target, Unmarked
  <2>4. draft = Target(s)
    BY <1>4, <2>1 DEF Faithful, Drafted
  <2>5. CASE put.pc = "rest"
    <3>1. put'.pc = "sent" /\ put'.sheet = s /\ put'.line = Target(s)
      BY <1>0, <1>4, <2>4, <2>5, SaveType DEF TimerFires
    <3>2. Left(s)' /\ Loaded(s)' /\ Drafted(s)'
      BY <1>4, <2>2, <2>3, <2>4, <3>1 DEF Left, Loaded, Drafted, Writing
    <3>3. Marked(s)' /\ Saved(s)' /\ Cached(s)'
      BY <2>2, <2>3, <2>5, <3>1 DEF Marked, Saved, Faithful, Cached
    <3> QED
      BY <3>2, <3>3 DEF Faithful
  <2>6. CASE put.pc # "rest"
    <3>1. queued' = TRUE /\ put' = put
      BY <1>4, <2>6 DEF TimerFires
    <3>2. Left(s)' /\ Loaded(s)' /\ Drafted(s)'
      BY <1>4, <2>2, <2>3, <2>4, <3>1 DEF Left, Loaded, Drafted
    <3>3. timer
      BY <1>4 DEF TimerFires
    <3>4. Marked(s)' /\ Saved(s)' /\ Cached(s)'
      BY <2>2, <2>3, <3>1, <3>3 DEF Marked, Saved, Faithful, Cached, Writing
    <3> QED
      BY <3>2, <3>4 DEF Faithful
  <2> QED
    BY <2>5, <2>6
<1> QED
  BY <1>1, <1>2, <1>3, <1>4

\* Another sheet is selected.
LEMMA FaithfulSelect ==
  ASSUME SheetInv, NEW s \in Sheets, Faithful(s), excuse'[s] = 0, NEW x \in Sheets, Select(x)
  PROVE  Faithful(s)'
<1>0. /\ selected \in Sheets /\ active.line \in LineSet /\ SheetTypes /\ MaxActs \in Nat
  BY DEF SheetInv, SheetTypes
<1>1. x # selected /\ selected' = x /\ UNCHANGED <<lines, active, queued, put, typed, settled>>
  BY <1>0 DEF Select
<1>2. PICK l \in LineSet : Hydrate(l) /\ (active.sheet = x => l = active.line) /\ (active.sheet # x => l = Fresh)
  BY <1>0, FreshType DEF Select
<1>3. /\ draft' = l /\ timer' = timer
      /\ \A j \in Marks : /\ mark'[j].pc = mark[j].pc /\ mark'[j].sheet = mark[j].sheet
                          /\ mark'[j].to = mark[j].to
  BY <1>0, <1>2, HydrateType
<1>4. \A f \in Fetches : fetch'[f].pc = "read" => fetch'[f] = fetch[f]
  <2>1. UNCHANGED fetch \/ \E f \in Fetches : Load(f, x, "always")
    BY DEF Select
  <2> QED
    BY <1>0, <2>1, LoadType
<1>5. Target(s)' = Target(s) /\ (Unmarked(s)' <=> Unmarked(s))
  BY <1>1, <1>3 DEF Target, Unmarked
<1>6. \A f \in Fetches : fetch'[f].pc = "read" /\ fetch'[f].sheet = s => fetch'[f].line = lines[s]
  BY <1>4 DEF Faithful, Cached
<1>7. CASE s # x /\ s # selected
  BY <1>1, <1>3, <1>6, <1>7, StaysLeft
<1>8. CASE s = x \/ s = selected
  <2>1. ~ Pending /\ MarksOf(s) = {}
    BY <1>0, <1>8 DEF Select, SheetTypes
  <2>2. Unmarked(s) /\ put.pc = "rest" /\ ~ timer /\ ~ queued
    BY <2>1, NoMarks DEF Pending
  <2>3. lines[s] = Target(s)
    BY <1>8, <2>2 DEF Faithful, Left, Drafted, Writing
  <2>4. active.sheet = s => active.line = lines[s]
    BY <2>2 DEF Faithful, Cached, Unmarked
  <2>5. Left(s)' /\ Loaded(s)'
    BY <1>1, <1>3, <1>5, <2>2, <2>3 DEF Left, Loaded, Pending
  <2>6. Drafted(s)'
    <3>1. ~ Fresh.own
      BY DEF Fresh, Line
    <3> QED
      BY <1>1, <1>2, <1>3, <1>5, <2>3, <2>4, <3>1 DEF Drafted
  <2>7. Marked(s)' /\ Saved(s)'
    BY <1>1, <1>5, <2>2 DEF Marked, Saved, Unmarked, Writing
  <2>8. Cached(s)'
    BY <1>1, <1>6, <2>2, <2>4 DEF Cached
  <2> QED
    BY <2>5, <2>6, <2>7, <2>8 DEF Faithful
<1> QED
  BY <1>7, <1>8

\* The save of a sheet.
LEMMA FaithfulSaves ==
  ASSUME SheetInv, NEW s \in Sheets, Faithful(s), excuse'[s] = 0,
         PutLocks \/ PutDeletes \/ PutCommits \/ PutReads \/ PutAnswers \/ PutFails
  PROVE  Faithful(s)'
<1>0. /\ selected \in Sheets /\ put \in PutSet /\ (put.pc # "rest" => put.sheet \in Sheets)
      /\ lines \in [Sheets -> LineSet] /\ draft \in LineSet
      /\ (queued => put.pc # "rest") /\ SheetTypes /\ MaxActs \in Nat /\ OwnLines
  BY DEF SheetInv, SheetTypes
<1>1. CASE PutLocks \/ PutDeletes
  <2>1. /\ put.pc \in {"sent", "locked"} /\ put'.pc \in {"locked", "deleted"}
        /\ put'.sheet = put.sheet /\ put'.line = put.line
    BY <1>0, <1>1, PutGoesType DEF PutLocks, PutDeletes
  <2>2. UNCHANGED <<lines, editor, mark, fetch, typed, settled>>
    BY <1>1 DEF PutLocks, PutDeletes
  <2>3. Loading(s)' => Loading(s)
    BY <2>2 DEF Loading, editor
  <2>4. \A f \in Fetches : fetch'[f].pc = "read" /\ fetch'[f].sheet = s => fetch'[f].line = lines[s]
    BY <2>2 DEF Faithful, Cached
  <2>5. Writing(s)' <=> Writing(s)
    BY <2>1 DEF Writing
  <2> QED
    BY <2>1, <2>2, <2>3, <2>4, <2>5, Untouched DEF editor
<1>2. CASE PutCommits
  <2>1. /\ put.pc = "deleted" /\ put'.pc = "committed" /\ put'.sheet = put.sheet /\ put'.line = put.line
    BY <1>0, <1>2, PutGoesType DEF PutCommits
  <2>2. UNCHANGED <<editor, fetch, typed, settled>>
        /\ lines' = [lines EXCEPT ![put.sheet] = put.line]
    BY <1>2 DEF PutCommits
  <2>3. \A j \in Marks :
          /\ mark'[j].sheet = mark[j].sheet /\ (mark'[j].pc = "rest" <=> mark[j].pc = "rest")
          /\ mark'[j].pc = "committed" <=> mark[j].pc = "committed"
          /\ mark'[j].to = mark[j].to
    BY <1>0, <1>2, ReleaseType DEF PutCommits
  <2>4. Loading(s)' <=> Loading(s)
    BY <2>2 DEF Loading, editor
  <2>5. CASE s # put.sheet
    <3>1. lines'[s] = lines[s]
      BY <1>0, <2>2, <2>5
    <3>2. \A f \in Fetches : fetch'[f].pc = "read" /\ fetch'[f].sheet = s => fetch'[f].line = lines[s]
      BY <2>2 DEF Faithful, Cached
    <3>3. ~ Writing(s) /\ ~ Writing(s)'
      BY <2>1, <2>5 DEF Writing
    <3> QED
      BY <2>1, <2>2, <2>3, <2>4, <2>5, <3>1, <3>2, <3>3, Untouched DEF editor
  <2>6. CASE s = put.sheet
    <3>1. s = selected /\ Writing(s) /\ ~ Writing(s)' /\ lines'[s] = put.line
      BY <1>0, <2>1, <2>2, <2>6 DEF Faithful, Left, Writing
    <3>2. Target(s)' = Target(s) /\ (Unmarked(s)' <=> Unmarked(s))
      BY <2>2, <2>3 DEF Target, Unmarked
    <3>3. \A f \in Fetches : ~ (fetch[f].pc = "read" /\ fetch[f].sheet = s)
      <4>1. ~ Overtaken(s)
        BY <1>0, <1>2, <2>1, <2>6, ExcuseGrows DEF PutCommits
      <4> QED
        BY <4>1 DEF Overtaken
    <3>4. ~ Loading(s) /\ ~ Loading(s)'
      BY <2>1, <2>4, <3>1 DEF Faithful, Loaded, Pending
    <3>5. put.line = Target(s) \/ ((timer \/ queued) /\ Unmarked(s))
      BY <3>1 DEF Faithful, Saved
    <3>6. Left(s)' /\ Loaded(s)'
      BY <2>2, <3>1, <3>4 DEF Left, Loaded, editor
    <3>7. Drafted(s)'
      BY <2>2, <3>1, <3>2, <3>5 DEF Faithful, Drafted, editor
    <3>8. Marked(s)'
      <4>1. CASE Unmarked(s)
        BY <3>2, <4>1 DEF Unmarked, Marked
      <4>2. CASE put.line = Target(s)
        <5>1. lines'[s] = Target(s)' /\ lines'[s].text = typed'[s]
          BY <2>2, <3>1, <3>2, <4>2 DEF Target, Line
        <5> QED
          BY <2>2, <2>3, <5>1 DEF Faithful, Marked
      <4> QED
        BY <3>5, <4>1, <4>2
    <3>9. Saved(s)' /\ Cached(s)'
      BY <2>1, <2>2, <2>6, <3>1, <3>3 DEF Saved, Cached
    <3> QED
      BY <3>6, <3>7, <3>8, <3>9 DEF Faithful
  <2> QED
    BY <2>5, <2>6
<1>3. ASSUME PutAnswers \/ PutFails, s # put.sheet \/ PutAnswers PROVE Faithful(s)'
  <2>1. UNCHANGED <<lines, selected, draft, timer, fetch, typed, settled>> /\ put.pc # "rest"
    BY <1>3 DEF PutAnswers, PutFails
  <2>0. \A j \in Marks :
          /\ mark'[j].sheet = mark[j].sheet /\ (mark'[j].pc = "rest" <=> mark[j].pc = "rest")
          /\ mark'[j].pc = "committed" <=> mark[j].pc = "committed"
          /\ mark'[j].to = mark[j].to
    BY <1>0, <1>3, ReleaseType DEF PutAnswers, PutFails
  <2>2. /\ queued' = FALSE
        /\ queued => put'.pc = "sent" /\ put'.sheet = selected /\ put'.line = draft
        /\ ~ queued => put'.pc = "rest"
    BY <1>0, <1>3, StartType DEF PutAnswers, PutFails
  <2>3. active'.sheet = s => active'.line = lines[s] \/ (active' = active /\ put.sheet # s)
    <3>1. CASE PutAnswers
      <4>1. put.pc = "read" /\ (active' = active \/ (active'.sheet = put.sheet /\ active'.line = put.line))
        BY <1>0, <3>1 DEF PutAnswers, SheetTypes
      <4>2. put.sheet = s => put.line = lines[s]
        BY <4>1 DEF Faithful, Cached
      <4>3. CASE active.sheet = put.sheet
        BY <1>0, <3>1, <4>1, <4>2, <4>3 DEF PutAnswers, SheetTypes
      <4>4. CASE active.sheet # put.sheet
        BY <3>1, <4>4 DEF PutAnswers
      <4> QED
        BY <4>3, <4>4
    <3>2. CASE PutFails /\ s # put.sheet
      BY <3>2 DEF PutFails
    <3> QED
      BY <1>3, <3>1, <3>2
  <2>4. /\ Target(s)' = Target(s) /\ (Unmarked(s)' <=> Unmarked(s)) /\ (Loading(s)' <=> Loading(s))
    BY <2>0, <2>1 DEF Target, Unmarked, Loading
  <2>5. s = selected => ~ Loading(s)
    BY <2>1 DEF Faithful, Loaded, Pending
  <2>6. ~ Writing(s) /\ ~ (put.sheet = s /\ put.pc = "failed")
    BY <1>3 DEF Writing, PutAnswers
  <2>7. s = selected => draft = Target(s)
    BY <2>5 DEF Faithful, Drafted, Loading
  <2>8. Left(s)' /\ Loaded(s)'
    BY <2>1, <2>2, <2>4, <2>5 DEF Faithful, Left, Loaded
  <2>9. Drafted(s)' /\ Saved(s)'
    BY <2>1, <2>2, <2>4, <2>6, <2>7 DEF Faithful, Drafted, Saved, Writing
  <2>10. Marked(s)' /\ Cached(s)'
    <3>1. Marked(s)'
      BY <2>0, <2>1, <2>4 DEF Faithful, Marked
    <3>2. active.sheet = s /\ put.sheet # s =>
            active.line = lines[s] \/ \E i \in Marks : mark[i].pc = "committed" /\ mark[i].sheet = s
      BY DEF Faithful, Cached
    <3>3. Cached(s)'
      <4>1. put'.pc # "read"
        BY <2>2
      <4>2. \A g \in Fetches : fetch'[g].pc = "read" /\ fetch'[g].sheet = s => fetch'[g].line = lines'[s]
        BY <2>1 DEF Faithful, Cached
      <4>3. active'.sheet = s => \/ active'.line = lines'[s]
                                 \/ \E j \in Marks : mark'[j].pc = "committed" /\ mark'[j].sheet = s
        BY <2>0, <2>1, <2>3, <3>2
      <4> QED
        BY <4>1, <4>2, <4>3 DEF Cached
    <3> QED
      BY <3>1, <3>3
  <2> QED
    BY <2>8, <2>9, <2>10 DEF Faithful
<1>4. CASE PutAnswers
  BY <1>3, <1>4
<1>5. CASE PutFails
  <2>1. s # put.sheet
    BY <1>0, <1>5, ExcuseGrows DEF PutFails
  <2> QED
    BY <1>3, <1>5, <2>1
<1>6. CASE PutReads
  <2>1. /\ put.pc = "committed" /\ put'.pc = "read" /\ put'.sheet = put.sheet /\ put'.line = lines[put.sheet]
        /\ UNCHANGED <<lines, editor, mark, fetch, typed, settled>>
    BY <1>0, <1>6, PutReadType DEF PutReads
  <2>2. ~ Writing(s) /\ ~ Writing(s)' /\ Loading(s)' = Loading(s)
    BY <2>1 DEF Writing, Loading, editor
  <2>3. \A g \in Fetches : fetch'[g].pc = "read" /\ fetch'[g].sheet = s => fetch'[g].line = lines[s]
    BY <2>1 DEF Faithful, Cached
  <2> QED
    BY <2>1, <2>2, <2>3, Untouched DEF editor
<1> QED
  BY <1>1, <1>2, <1>4, <1>5, <1>6

\* The loading of a sheet.
LEMMA FaithfulFetches ==
  ASSUME SheetInv, NEW s \in Sheets, Faithful(s), excuse'[s] = 0, NEW f \in Fetches,
         Refetch(f) \/ Refresh(f) \/ FetchReads(f) \/ \E ok \in BOOLEAN : FetchAnswers(f, ok)
  PROVE  Faithful(s)'
<1>0. /\ SheetTypes /\ MaxActs \in Nat /\ OwnLines /\ selected \in Sheets /\ active.sheet \in Sheets
      /\ \A g \in Fetches : fetch[g].pc # "rest" => fetch[g].sheet \in Sheets
  BY DEF SheetInv, SheetTypes
<1>1. \A g \in Fetches : fetch[g].pc = "read" /\ fetch[g].sheet = s => fetch[g].line = lines[s]
  BY DEF Faithful, Cached
<1>2. CASE Refetch(f) \/ Refresh(f)
  <2>1. UNCHANGED <<lines, editor, put, mark, typed, settled>>
    BY <1>2 DEF Refetch, Refresh
  <2>2. /\ \A g \in Fetches : g # f => fetch'[g] = fetch[g]
        /\ fetch'[f].pc = "sent" /\ fetch'[f].hydrates # "always"
    BY <1>0, <1>2, LoadType DEF Refetch, Refresh
  <2>3. Loading(s)' => Loading(s)
    BY <2>1, <2>2 DEF Loading, editor
  <2>4. \A g \in Fetches : fetch'[g].pc = "read" /\ fetch'[g].sheet = s => fetch'[g].line = lines[s]
    BY <1>1, <2>2
  <2>5. (Writing(s)' <=> Writing(s)) /\ put' = put
    BY <2>1 DEF Writing
  <2> QED
    BY <2>1, <2>3, <2>4, <2>5, Untouched DEF editor
<1>3. CASE FetchReads(f)
  <2>1. UNCHANGED <<lines, editor, put, mark, typed, settled>> /\ fetch[f].pc = "sent"
    BY <1>3 DEF FetchReads
  <2>2. /\ \A g \in Fetches : g # f => fetch'[g] = fetch[g]
        /\ fetch'[f].sheet = fetch[f].sheet /\ fetch'[f].hydrates = fetch[f].hydrates
        /\ fetch'[f].line = lines[fetch[f].sheet]
    BY <1>0, <1>3, ReadType
  <2>3. Loading(s)' => Loading(s)
    BY <2>1, <2>2 DEF Loading, editor
  <2>4. \A g \in Fetches : fetch'[g].pc = "read" /\ fetch'[g].sheet = s => fetch'[g].line = lines[s]
    BY <1>1, <2>2
  <2>5. (Writing(s)' <=> Writing(s)) /\ put' = put
    BY <2>1 DEF Writing
  <2> QED
    BY <2>1, <2>3, <2>4, <2>5, Untouched DEF editor
<1>4. ASSUME NEW ok \in BOOLEAN, FetchAnswers(f, ok) PROVE Faithful(s)'
  <2>1. UNCHANGED <<lines, selected, queued, put, typed, settled>> /\ fetch[f].pc = "read"
    BY <1>4 DEF FetchAnswers
  <2>2. \A g \in Fetches : g # f => fetch'[g] = fetch[g]
    BY <1>0, <1>4 DEF FetchAnswers, SheetTypes
  <2>3. fetch'[f].pc = "rest"
    BY <1>0, <1>4 DEF FetchAnswers, SheetTypes, NoFetch
  <2>4. \A g \in Fetches : fetch'[g].pc = "read" /\ fetch'[g].sheet = s => fetch'[g].line = lines[s]
    BY <1>1, <2>2, <2>3
  <2>0. excuse[s] = 0
    BY <1>0, <1>4, <2>1, ExcuseGrows DEF FetchAnswers
  <2>5. fetch[f].sheet = s => (ok \/ fetch[f].hydrates # "always") /\ fetch[f].hydrates # "found"
    BY <1>0, <1>4, <2>0, <2>1, ExcuseGrows DEF FetchAnswers, SheetInv, Refreshes
  <2>6. active'.sheet = s => active' = active \/ active'.line = lines[s]
    BY <1>1, <1>4, <2>1 DEF FetchAnswers
  <2>7. (Writing(s)' <=> Writing(s)) /\ Target(s)' = Target(s)
    BY <2>1 DEF Writing, Target
  <2>8. CASE Shown(f, ok)
    <3>1. PICK l \in LineSet : Hydrate(l) /\ (ok => l = fetch[f].line)
      BY <1>0, <1>4, <2>8, FreshType DEF FetchAnswers, Shown, SheetTypes, FetchSet
    <3>2. /\ draft' = l /\ timer' = timer
          /\ \A j \in Marks : mark'[j].pc = mark[j].pc /\ mark'[j].sheet = mark[j].sheet
      BY <1>0, <3>1, HydrateType
    <3>3. CASE s # selected
      BY <2>1, <2>4, <2>6, <3>2, <3>3, StaysLeft
    <3>4. CASE s = selected
      <4>1. Loading(s) /\ ok
        BY <2>1, <2>5, <2>8, <3>4 DEF Loading, Shown
      <4>2. lines[s] = Target(s) /\ Unmarked(s) /\ ~ Pending
        BY <3>4, <4>1 DEF Faithful, Loaded
      <4>3. put.pc = "rest" /\ ~ timer /\ ~ queued
        BY <4>2 DEF Pending
      <4>4. Unmarked(s)' /\ l = lines[s]
        BY <1>1, <2>1, <2>8, <3>1, <3>2, <3>4, <4>1, <4>2 DEF Unmarked, Shown
      <4>5. Left(s)' /\ Loaded(s)' /\ Drafted(s)'
        BY <2>1, <2>7, <3>2, <3>4, <4>2, <4>3, <4>4 DEF Left, Loaded, Drafted, Pending
      <4>6. Marked(s)' /\ Saved(s)'
        BY <2>1, <4>3, <4>4 DEF Marked, Unmarked, Saved, Writing
      <4>7. active.sheet = s => active.line = lines[s]
        BY <4>2, <4>3 DEF Faithful, Cached, Unmarked
      <4>8. Cached(s)'
        BY <2>1, <2>4, <2>6, <4>3, <4>7 DEF Cached
      <4> QED
        BY <4>5, <4>6, <4>8 DEF Faithful
    <3> QED
      BY <3>3, <3>4
  <2>9. CASE ~ Shown(f, ok)
    <3>1. UNCHANGED <<draft, mark, timer>>
      BY <1>4, <2>9 DEF FetchAnswers, Shown
    <3>2. Loading(s)' => Loading(s)
      BY <2>2, <2>3, <3>1 DEF Loading
    <3> QED
      BY <2>1, <2>4, <2>6, <2>7, <3>1, <3>2, Untouched
  <2> QED
    BY <2>8, <2>9
<1> QED
  BY <1>2, <1>3, <1>4

\* The marks.
LEMMA FaithfulMarks ==
  ASSUME SheetInv, NEW s \in Sheets, Faithful(s), excuse'[s] = 0, NEW i \in Marks,
         \/ Mark(i) \/ MarkReads(i) \/ MarkUpdatesLine(i) \/ MarkCommits(i)
         \/ DeadlockDetected(i) \/ MarkAnswers(i) \/ MarkFails(i)
  PROVE  Faithful(s)'
<1>0. /\ SheetTypes /\ MaxActs \in Nat /\ OwnLines /\ MarksOnScreen /\ selected \in Sheets
      /\ \A j \in Marks : mark[j].pc # "rest" => mark[j].sheet \in Sheets
      /\ draft \in LineSet /\ lines \in [Sheets -> LineSet] /\ put \in PutSet
      /\ mark \in [Marks -> MarkSet] /\ active \in [sheet : Sheets, line : LineSet]
      /\ ~ Spoilt(s)
  <2>1. excuse[s] = 0
    BY ExcuseFalls DEF SheetInv, SheetNext
  <2> QED
    BY <2>1 DEF SheetInv, SheetTypes, Spoilt
<1>1. \A f \in Fetches : fetch[f].pc = "read" /\ fetch[f].sheet = s => fetch[f].line = lines[s]
  BY DEF Faithful, Cached
<1>2. CASE Mark(i)
  <2>1. UNCHANGED <<lines, selected, active, timer, queued, put, fetch, typed>> /\ mark[i].pc = "rest" /\ draft.own
    BY <1>2 DEF Mark
  <2>2. /\ \A j \in Marks : j # i => mark'[j] = mark[j]
        /\ mark'[i].pc = "sent" /\ mark'[i].sheet = selected /\ mark'[i].to = ~ draft.effective
        /\ draft' = [draft EXCEPT !.effective = ~ draft.effective]
        /\ settled' = [settled EXCEPT ![selected] = ~ draft.effective]
    BY <1>0, <1>2 DEF Mark
  <2>3. CASE s # selected
    <3>1. UNCHANGED settled[s]
      BY <1>0, <2>2, <2>3 DEF SheetTypes
    <3>2. lines[s] = Target(s) /\ Unmarked(s) /\ (put.pc # "rest" => put.sheet # s)
      BY <2>3 DEF Faithful, Left
    <3>3. Target(s)' = Target(s) /\ Unmarked(s)'
      BY <2>1, <2>2, <2>3, <3>1, <3>2 DEF Target, Unmarked
    <3>4. Left(s)' /\ Loaded(s)' /\ Drafted(s)'
      BY <2>1, <2>3, <3>2, <3>3 DEF Left, Loaded, Drafted
    <3>5. Marked(s)' /\ Saved(s)'
      BY <2>1, <3>2, <3>3 DEF Marked, Unmarked, Saved, Writing
    <3>6. Cached(s)'
      BY <2>1, <3>2 DEF Faithful, Cached, Unmarked
    <3> QED
      BY <3>4, <3>5, <3>6 DEF Faithful
  <2>4. CASE s = selected
    <3>1. ~ Loading(s) /\ ~ Pending /\ MarksOf(s) = {}
      BY <1>0, <1>2, <2>4, ExcuseGrows DEF Mark
    <3>2. Unmarked(s) /\ put.pc = "rest" /\ ~ timer /\ ~ queued
      BY <3>1, NoMarks DEF Pending
    <3>3. draft = Target(s) /\ lines[s] = Target(s)
      BY <2>1, <2>4, <3>2 DEF Faithful, Drafted, Writing
    <3>4. settled'[s] = ~ draft.effective /\ typed'[s] = typed[s]
      BY <1>0, <2>1, <2>2, <2>4 DEF SheetTypes
    <3>5. draft' = Target(s)'
      BY <2>2, <3>3, <3>4 DEF Target, Line
    <3>6. ~ Loading(s)'
      <4>1. draft'.own
        BY <1>0, <2>1, <2>2 DEF LineSet
      <4> QED
        BY <2>1, <3>1, <4>1 DEF Loading
    <3>7. ~ Unmarked(s)' /\ \A j \in Marks : mark'[j].pc # "rest" /\ mark'[j].sheet = s => j = i
      BY <2>2, <2>4, <3>2 DEF Unmarked
    <3>8. Left(s)' /\ Loaded(s)' /\ Drafted(s)'
      BY <2>1, <2>4, <3>5, <3>6, <3>7 DEF Left, Loaded, Drafted
    <3>9. Marked(s)'
      <4>1. lines[s].text = typed[s]
        BY <3>3 DEF Target, Line
      <4> QED
        BY <2>1, <2>2, <3>4, <3>7, <4>1 DEF Marked
    <3>10. active.sheet = s => active.line = lines[s]
      BY <3>2 DEF Faithful, Cached, Unmarked
    <3>11. Saved(s)' /\ Cached(s)'
      BY <1>1, <2>1, <3>2, <3>10 DEF Saved, Cached, Writing
    <3> QED
      BY <3>8, <3>9, <3>11 DEF Faithful
  <2> QED
    BY <2>3, <2>4
<1>3. ASSUME NEW pc \in {"read", "blocked", "lined", "failed"}, MarkGoes(i, pc),
             mark[i].pc # "rest", mark[i].pc # "committed",
             UNCHANGED <<lines, editor, put, fetch, typed, settled>>
      PROVE  Faithful(s)'
  <2>1. /\ \A j \in Marks : j # i => mark'[j] = mark[j]
        /\ mark'[i].pc = pc /\ mark'[i].sheet = mark[i].sheet /\ mark'[i].to = mark[i].to
    BY <1>0, <1>3, MarkGoesType
  <2>2. \A j \in Marks :
           /\ (mark'[j].pc # "rest" /\ mark'[j].sheet = s) <=> (mark[j].pc # "rest" /\ mark[j].sheet = s)
           /\ mark'[j].to = mark[j].to /\ (mark'[j].pc = "committed" <=> mark[j].pc = "committed")
    BY <1>3, <2>1
  <2>3. (Writing(s)' <=> Writing(s)) /\ Loading(s)' = Loading(s)
    BY <1>3 DEF Writing, Loading, editor
  <2> QED
    BY <1>1, <1>3, <2>2, <2>3, Untouched DEF editor
<1>4. CASE MarkReads(i) \/ MarkUpdatesLine(i)
  BY <1>3, <1>4 DEF MarkReads, MarkUpdatesLine
<1>5. CASE DeadlockDetected(i)
  <2>1. CASE MarkGoes(i, "failed") /\ UNCHANGED put
    BY <1>3, <1>5, <2>1 DEF DeadlockDetected
  <2>2. CASE PutGoes("failed") /\ UNCHANGED mark
    <3>1. /\ put.pc = "locked" /\ put'.pc = "failed" /\ put'.sheet = put.sheet
          /\ UNCHANGED <<lines, editor, mark, fetch, typed, settled>>
      BY <1>0, <1>5, <2>2, PutGoesType DEF DeadlockDetected
    <3>2. (Writing(s) => put'.sheet = s /\ put'.pc = "failed") /\ ~ Writing(s)' /\ Loading(s)' = Loading(s)
      BY <3>1 DEF Writing, Loading, editor
    <3> QED
      BY <1>1, <3>1, <3>2, Untouched DEF editor
  <2> QED
    BY <1>5, <2>1, <2>2 DEF DeadlockDetected
<1>6. CASE MarkCommits(i)
  <2>1. /\ mark[i].sheet \in Sheets
        /\ \A x \in Sheets : x # mark[i].sheet => lines'[x] = lines[x]
        /\ \A x \in Sheets : lines'[x].own = lines[x].own /\ lines'[x].text = lines[x].text
        /\ lines'[mark[i].sheet].effective = mark[i].to /\ lines' \in [Sheets -> LineSet]
    BY <1>0, <1>6, LineMarked
  <2>2. /\ \A j \in Marks : j # i => mark'[j] = mark[j]
        /\ mark[i].pc = "lined" /\ mark'[i].pc = "committed" /\ mark'[i].sheet = mark[i].sheet
        /\ mark'[i].to = mark[i].to
    BY <1>0, <1>6, MarkGoesType DEF MarkCommits
  <2>3. UNCHANGED <<editor, put, fetch, typed, settled>>
    BY <1>6 DEF MarkCommits
  <2>4. (Writing(s)' <=> Writing(s)) /\ Loading(s)' = Loading(s) /\ Target(s)' = Target(s)
    BY <2>3 DEF Writing, Loading, editor, Target
  <2>5. CASE s # mark[i].sheet
    BY <1>1, <2>1, <2>2, <2>3, <2>4, <2>5, Untouched DEF editor
  <2>6. CASE s = mark[i].sheet
    <3>1. s = selected /\ ~ Unmarked(s) /\ ~ Unmarked(s)'
      BY <2>2, <2>6 DEF Faithful, Left, Unmarked
    <3>2. ~ Loading(s)
      BY <3>1 DEF Faithful, Loaded
    <3>3. lines[s].own /\ lines[s].text = typed[s] /\ mark[i].to = settled[s]
      BY <1>0, <2>2, <2>6 DEF OwnLines, Faithful, Marked
    <3>4. lines'[s] = Target(s)
      BY <2>1, <2>6, <3>3 DEF Target, Line, LineSet
    <3>5. \A f \in Fetches : ~ (fetch[f].pc = "read" /\ fetch[f].sheet = s)
      <4>1. ~ Overtaken(s)
        BY <1>0, <1>6, <2>1, <2>6, ExcuseGrows DEF MarkCommits
      <4> QED
        BY <4>1 DEF Overtaken
    <3>9. ~ (put'.pc = "read" /\ put'.sheet = s)
      <4>1. ~ Overtaken(s)
        BY <1>0, <1>6, <2>1, <2>6, ExcuseGrows DEF MarkCommits
      <4> QED
        BY <2>3, <4>1 DEF Overtaken
    <3>6. Left(s)' /\ Loaded(s)' /\ Drafted(s)'
      BY <2>3, <2>4, <3>1, <3>2 DEF Left, Loaded, Drafted, Faithful, editor
    <3>7. Marked(s)'
      <4>1. lines'[s].text = typed'[s]
        BY <2>3, <3>4 DEF Target, Line
      <4> QED
        BY <2>2, <2>3, <2>4, <3>4, <4>1 DEF Marked, Faithful
    <3>8. Saved(s)' /\ Cached(s)'
      BY <2>2, <2>3, <2>4, <2>6, <3>1, <3>5, <3>9 DEF Saved, Cached, Faithful
    <3> QED
      BY <3>6, <3>7, <3>8 DEF Faithful
  <2> QED
    BY <2>5, <2>6
<1>7. ASSUME MarkAnswers(i) \/ MarkFails(i), s # mark[i].sheet PROVE Faithful(s)'
  <2>1. /\ UNCHANGED <<lines, selected, timer, queued, put, fetch, typed, settled>> /\ mark[i].pc # "rest"
        /\ active' = active \/ active'.sheet # s
    BY <1>0, <1>7 DEF MarkAnswers, MarkFails
  <2>2. /\ \A j \in Marks : j # i => mark'[j] = mark[j]
        /\ mark'[i].pc = "rest"
    BY <1>0, <1>7 DEF MarkAnswers, MarkFails, NoMark
  <2>3. CASE s # selected
    BY <1>1, <2>1, <2>2, <2>3, StaysLeft
  <2>4. CASE s = selected
    <3>1. draft' = draft
      BY <1>0, <1>7, <2>4 DEF MarkAnswers, MarkFails, MarksOnScreen
    <3>2. (Writing(s)' <=> Writing(s)) /\ Loading(s)' = Loading(s)
      BY <2>1, <3>1 DEF Writing, Loading
    <3>3. \A j \in Marks :
            /\ (mark'[j].pc # "rest" /\ mark'[j].sheet = s) <=> (mark[j].pc # "rest" /\ mark[j].sheet = s)
            /\ mark[j].pc # "rest" /\ mark[j].sheet = s =>
                mark'[j].to = mark[j].to /\ (mark'[j].pc = "committed" <=> mark[j].pc = "committed")
      BY <1>7, <2>2
    <3> QED
      BY <1>1, <2>1, <3>1, <3>2, <3>3, Untouched
  <2> QED
    BY <2>3, <2>4
<1>8. CASE MarkFails(i)
  <2>1. mark[i].sheet \in Sheets
    BY <1>0, <1>8 DEF MarkFails
  <2>2. s # mark[i].sheet
    BY <1>0, <1>8, <2>1, ExcuseGrows DEF MarkFails
  <2> QED
    BY <1>7, <1>8, <2>2
<1>9. CASE MarkAnswers(i) /\ s = mark[i].sheet
  <2>1. UNCHANGED <<lines, selected, timer, queued, put, fetch, typed, settled>> /\ mark[i].pc = "committed"
    BY <1>9 DEF MarkAnswers
  <2>2. /\ \A j \in Marks : j # i => mark'[j] = mark[j]
        /\ mark'[i].pc = "rest"
    BY <1>0, <1>9 DEF MarkAnswers, NoMark
  <2>3. s = selected /\ ~ Unmarked(s)
    BY <1>9, <2>1 DEF Faithful, Left, Unmarked
  <2>4. ~ Loading(s) /\ lines[s] = Target(s)
    BY <1>9, <2>1, <2>3 DEF Faithful, Loaded, Marked
  <2>5. Unmarked(s)'
    BY <1>9, <2>1, <2>2 DEF Faithful, Marked, Unmarked
  <2>6. draft = Target(s) /\ lines[s].own
    BY <2>3, <2>4 DEF Faithful, Drafted, Loading, Target, Line
  <2>7. draft' = Target(s) /\ Target(s)' = Target(s) /\ draft'.own
    BY <1>9, <2>1, <2>4, <2>6 DEF MarkAnswers, Target, Line
  <2>8. ~ Loading(s)'
    BY <2>1, <2>4, <2>7 DEF Loading
  <2>9. Left(s)' /\ Loaded(s)' /\ Drafted(s)'
    BY <2>1, <2>3, <2>4, <2>7, <2>8 DEF Left, Loaded, Drafted
  <2>10. Marked(s)'
    BY <2>5 DEF Marked, Unmarked
  <2>11. Writing(s) => put.line = Target(s)
    BY <2>3 DEF Faithful, Saved
  <2>12. active'.sheet = s => active'.line = lines[s]
    BY <1>0, <1>9 DEF MarkAnswers, OwnLines
  <2>13. Saved(s)' /\ Cached(s)'
    <3>1. put'.pc = "read" /\ put'.sheet = s => put'.line = lines'[s]
      BY <2>1 DEF Faithful, Cached
    <3> QED
      BY <1>1, <2>1, <2>7, <2>11, <2>12, <3>1 DEF Saved, Cached, Writing
  <2> QED
    BY <2>9, <2>10, <2>13 DEF Faithful
<1> QED
  BY <1>2, <1>4, <1>5, <1>6, <1>7, <1>8, <1>9

-----------------------------------------------------------------------------
(* The theorems *)

LEMMA SheetInvInit == MaxActs \in Nat /\ SheetInit => SheetInv
<1> SUFFICES ASSUME MaxActs \in Nat, SheetInit PROVE SheetInv
  OBVIOUS
<1>0. Line(TRUE, 0, FALSE) \in LineSet /\ Line(TRUE, 0, FALSE).own
  BY DEF Line, LineSet, Texts
<1>1. /\ selected \in Sheets /\ lines = [s \in Sheets |-> Line(TRUE, 0, FALSE)]
      /\ draft = Line(TRUE, 0, FALSE) /\ active = [sheet |-> selected, line |-> Line(TRUE, 0, FALSE)]
  BY DEF SheetInit
<1>2. /\ put \in PutSet /\ mark \in [Marks -> MarkSet] /\ fetch \in [Fetches -> FetchSet]
      /\ timer = FALSE /\ queued = FALSE /\ latest \in Fetches
  BY RestTypes DEF SheetInit
<1>3. /\ put.pc = "rest" /\ \A i \in Marks : mark[i].pc = "rest" /\ mark[i].onScreen = FALSE
      /\ \A f \in Fetches : fetch[f].pc = "rest"
  BY DEF SheetInit, NoPut, NoMark, NoFetch
<1>4. /\ typed \in [Sheets -> Texts] /\ settled \in [Sheets -> BOOLEAN] /\ acts \in 0 .. MaxActs
      /\ excuse \in [Sheets -> 0 .. 2]
  BY DEF SheetInit, Texts
<1>5. SheetTypes
  BY <1>0, <1>1, <1>2, <1>3, <1>4 DEF SheetTypes
<1>6. OwnLines /\ Refreshes /\ MarksOnScreen
  BY <1>0, <1>1, <1>2, <1>3 DEF OwnLines, Refreshes, MarksOnScreen
<1>7. ASSUME NEW s \in Sheets PROVE Faithful(s)
  <2>1. lines[s] = Target(s) /\ Unmarked(s) /\ put.pc = "rest" /\ ~ timer /\ ~ queued
    BY <1>1 DEF SheetInit, Target, Unmarked, NoMark, NoPut
  <2>2. \A f \in Fetches : fetch[f].pc = "rest"
    BY DEF SheetInit, NoFetch
  <2>3. Left(s) /\ Loaded(s) /\ Drafted(s)
    BY <1>1, <2>1 DEF Left, Loaded, Drafted, Pending, SheetInit
  <2>4. Marked(s) /\ Saved(s) /\ Cached(s)
    BY <1>1, <2>1, <2>2 DEF Marked, Unmarked, Saved, Writing, Cached
  <2> QED
    BY <2>3, <2>4 DEF Faithful
<1> QED
  BY <1>5, <1>6, <1>7 DEF SheetInv

LEMMA SheetInvStep == SheetInv /\ [SheetNext]_sheetVars => SheetInv'
<1> SUFFICES ASSUME SheetInv, [SheetNext]_sheetVars PROVE SheetInv'
  OBVIOUS
<1>1. SheetTypes' /\ OwnLines' /\ Refreshes' /\ MarksOnScreen'
  BY SheetTypesStep, OwnLinesStep, RefreshesStep, OnScreenStep DEF SheetInv
<1>2. ASSUME NEW s \in Sheets, excuse'[s] = 0 PROVE Faithful(s)'
  <2>1. Faithful(s)
    BY <1>2, ExcuseFalls DEF SheetInv
  <2>2. CASE UNCHANGED sheetVars
    <3>1. /\ UNCHANGED <<selected, draft, timer, queued, typed, settled, lines, put, mark, fetch, active>>
      BY <2>2 DEF sheetVars, editor
    <3>2. (Writing(s)' <=> Writing(s)) /\ Loading(s)' = Loading(s)
      BY <3>1 DEF Writing, Loading
    <3>3. \A f \in Fetches : fetch'[f].pc = "read" /\ fetch'[f].sheet = s => fetch'[f].line = lines[s]
      BY <2>1, <3>1 DEF Faithful, Cached
    <3> QED
      BY <2>1, <3>1, <3>2, <3>3, Untouched
  <2> QED
    BY <1>2, <2>1, <2>2, FaithfulEdits, FaithfulSelect, FaithfulSaves, FaithfulFetches,
       FaithfulMarks DEF SheetNext
<1> QED
  BY <1>1, <1>2 DEF SheetInv

LEMMA SheetInductive == MaxActs \in Nat /\ SheetSpec => []SheetInv
<1>1. MaxActs \in Nat /\ SheetInit => SheetInv
  BY SheetInvInit
<1>2. SheetInv /\ [SheetNext]_sheetVars => SheetInv'
  BY SheetInvStep
<1> QED
  BY <1>1, <1>2, PTL DEF SheetSpec

\* Every reachable state of the editor and of the service is typed, and another save
\* waits only for one in flight.
THEOREM EditorTyped == MaxActs \in Nat /\ SheetSpec => []SheetTypeOK
<1>1. SheetInv => SheetTypeOK
  BY DEF SheetInv, SheetTypes, SheetTypeOK, PutSet, MarkSet, FetchSet
<1> QED
  BY <1>1, SheetInductive, PTL

\* For any number of sheets and overlapping requests, the autosave never replaces the
\* lines of a sheet by those of the blank draft, except after what LinesAreNotWiped names.
THEOREM LinesStay == MaxActs \in Nat /\ SheetSpec => []LinesAreNotWiped
<1>1. SheetInv => LinesAreNotWiped
  BY DEF SheetInv, OwnLines, Spoilt, LinesAreNotWiped
<1> QED
  BY <1>1, SheetInductive, PTL

\* Once nothing is under way, every sheet without an excuse holds what the user typed
\* and marked last, however saves, marks, deadlocks and reloads interleaved.
THEOREM EditsAreSaved == MaxActs \in Nat /\ SheetSpec => []SavedAsEdited
<1>1. SheetInv => SavedAsEdited
  <2> SUFFICES ASSUME SheetInv, ~ Pending, \A i \in Marks : mark[i].pc = "rest",
                      NEW s \in Sheets, excuse[s] = 0
               PROVE  lines[s] = Target(s)
    BY DEF SavedAsEdited, Target
  <2>1. Faithful(s) /\ Unmarked(s) /\ ~ timer /\ ~ queued /\ put.pc = "rest"
    BY DEF SheetInv, Unmarked, Pending
  <2> QED
    BY <2>1 DEF Faithful, Left, Drafted, Writing
<1> QED
  BY <1>1, SheetInductive, PTL

=============================================================================
