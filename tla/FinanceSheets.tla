--------------------------- MODULE FinanceSheets ---------------------------
(***************************************************************************)
(* The finance editor: one screen (finance.vue, useFinancesManager.ts) that *)
(* edits a draft of the selected sheet and saves the whole of it after a    *)
(* pause, marks a line as settled with a request of its own, and loads      *)
(* sheets; and the transactions of the finance service that serve it.       *)
(*                                                                         *)
(* A sheet has one line of its own here: a text and its mark.  A save       *)
(* (ReplaceSheet) updates the sheet's row, deletes the lines and inserts    *)
(* those of the draft; a mark (PatchLine) updates the line, then the row of *)
(* the sheet: they lock in opposite orders.  Until a sheet is loaded the    *)
(* draft holds a fresh line instead.                                        *)
(***************************************************************************)
EXTENDS Naturals, FiniteSets

CONSTANTS
  Sheets, NoSheet,
  MaxActs,     \* acts of the user and events that reach the page
  Marks,       \* requests that mark a line
  Fetches      \* requests that load a sheet

VARIABLES
  lines,     \* lines[s]: the stored line of sheet s
  selected,  \* selectedSheetId
  draft,     \* the line on the screen
  active,    \* activeSheet: the sheet loaded last and its line
  timer,     \* saveTimer is running
  queued,    \* sheetPersistQueued
  put,       \* the save in flight; sheetPersistInFlight while it is not at rest
  mark, fetch,
  latest,    \* activeDetailRequestId
  acts,      \* acts so far; a text is the number of the act that typed it
  typed,     \* history: the text the user typed last in each sheet
  settled,   \* history: the mark the user set last
  excuse     \* history: 1 after what may cost a sheet an edit, 2 after what may cost it its lines

editor    == <<selected, draft, active, timer, queued>>
sheetVars == <<lines, editor, put, mark, fetch, latest, acts, typed, settled, excuse>>

Line(own, text, effective) == [own |-> own, text |-> text, effective |-> effective]
Fresh == Line(FALSE, 0, FALSE)
Texts == 0..MaxActs
LineSet == [own : BOOLEAN, text : Texts, effective : BOOLEAN]

NoPut   == [pc |-> "rest", sheet |-> NoSheet, line |-> Fresh]
NoMark  == [pc |-> "rest", sheet |-> NoSheet, to |-> FALSE, line |-> Fresh, onScreen |-> FALSE]
NoFetch == [pc |-> "rest", sheet |-> NoSheet, line |-> Fresh, hydrates |-> "never"]

SheetInit ==
  /\ lines = [s \in Sheets |-> Line(TRUE, 0, FALSE)]
  /\ selected \in Sheets
  /\ draft = lines[selected] /\ active = [sheet |-> selected, line |-> lines[selected]]
  /\ timer = FALSE /\ queued = FALSE /\ put = NoPut
  /\ mark = [i \in Marks |-> NoMark]
  /\ fetch = [f \in Fetches |-> NoFetch] /\ latest \in Fetches
  /\ acts = 0 /\ typed = [s \in Sheets |-> 0] /\ settled = [s \in Sheets |-> FALSE]
  /\ excuse = [s \in Sheets |-> 0]

Acts == acts < MaxActs /\ acts' = acts + 1
Worse(s, n) == IF n > excuse[s] THEN n ELSE excuse[s]
Excuse(s, n) == excuse' = [excuse EXCEPT ![s] = Worse(s, n)]

MarksOf(s) == {i \in Marks : mark[i].pc # "rest" /\ mark[i].sheet = s}
Loading(s) == ~ draft.own \/ \E f \in Fetches : fetch[f].pc # "rest" /\ fetch[f].hydrates = "always" /\ fetch[f].sheet = s
Pending == timer \/ queued \/ put.pc # "rest"

-----------------------------------------------------------------------------
(* The user and the page *)

\* queuePersist
Type ==
  /\ Acts
  /\ draft' = [draft EXCEPT !.text = acts + 1] /\ timer' = TRUE
  /\ typed' = [typed EXCEPT ![selected] = acts + 1]
  /\ Excuse(selected, IF Loading(selected) THEN 2 ELSE IF MarksOf(selected) # {} THEN 1 ELSE 0)
  /\ UNCHANGED <<lines, selected, active, queued, put, mark, fetch, latest, settled>>

\* The recurring clients were fetched again, which starts the timer of itself.
Resync ==
  /\ Acts /\ timer' = TRUE
  /\ Excuse(selected, IF Loading(selected) THEN 2 ELSE 0)
  /\ UNCHANGED <<lines, selected, draft, active, queued, put, mark, fetch, latest, typed, settled>>

\* persist: one save at a time, of what is selected and drafted when it starts.
SaveSheet == put' = [pc |-> "sent", sheet |-> selected, line |-> draft]

TimerFires ==
  /\ timer /\ timer' = FALSE
  /\ IF put.pc = "rest" THEN SaveSheet /\ queued' = FALSE ELSE queued' = TRUE /\ UNCHANGED put
  /\ UNCHANGED <<lines, selected, draft, active, mark, fetch, latest, acts, typed, settled, excuse>>

\* onEffectiveToggle, persistLineEffective: the row on the screen changes first.
Mark(i) ==
  /\ Acts /\ mark[i].pc = "rest" /\ draft.own
  /\ draft' = [draft EXCEPT !.effective = ~ @]
  /\ mark' = [mark EXCEPT ![i] = [pc |-> "sent", sheet |-> selected, to |-> ~ draft.effective,
                                  line |-> draft, onScreen |-> TRUE]]
  /\ settled' = [settled EXCEPT ![selected] = ~ draft.effective]
  /\ Excuse(selected, IF Loading(selected) THEN 2 ELSE IF Pending \/ MarksOf(selected) # {} THEN 1 ELSE 0)
  /\ UNCHANGED <<lines, selected, active, timer, queued, put, fetch, latest, typed>>

\* hydrate: the rows of the draft are new objects; answers to marks of the old
\* ones no longer reach the screen.
\* Seeded fault: rows that are put into an empty draft are saved.
HydrateSaves(line) ==
  /\ draft' = line /\ mark' = [i \in Marks |-> [mark[i] EXCEPT !.onScreen = FALSE]]
  /\ timer' = TRUE
Hydrate(line) ==
  /\ draft' = line /\ mark' = [i \in Marks |-> [mark[i] EXCEPT !.onScreen = FALSE]]
  /\ UNCHANGED timer

Load(f, s, hydrates) ==
  /\ fetch[f].pc = "rest"
  /\ fetch' = [fetch EXCEPT ![f] = [pc |-> "sent", sheet |-> s, line |-> Fresh, hydrates |-> hydrates]]
  /\ latest' = f

Select(s) ==
  /\ Acts /\ s # selected /\ selected' = s
  /\ IF active.sheet = s THEN Hydrate(active.line) /\ UNCHANGED <<fetch, latest>>
     ELSE Hydrate(Fresh) /\ \E f \in Fetches : Load(f, s, "always")
  /\ excuse' = [x \in Sheets |-> IF x \in {s, selected} /\ (Pending \/ MarksOf(x) # {}) THEN 2 ELSE excuse[x]]
  /\ UNCHANGED <<lines, active, queued, put, typed, settled>>

\* A finances event arrives: the sheet loaded last is loaded again, not the draft.
Refetch(f) ==
  /\ Acts /\ Load(f, active.sheet, "never")
  /\ UNCHANGED <<lines, editor, put, mark, typed, settled, excuse>>

\* A mark of a recurring client's row failed; that row is not modelled, but the whole
\* draft is replaced by what is loaded now.
Refresh(f) ==
  /\ Acts /\ Load(f, selected, "found") /\ Excuse(selected, 1)
  /\ UNCHANGED <<lines, editor, put, mark, typed, settled>>

FetchReads(f) ==
  /\ fetch[f].pc = "sent"
  /\ fetch' = [fetch EXCEPT ![f].pc = "read", ![f].line = lines[fetch[f].sheet]]
  /\ UNCHANGED <<lines, editor, put, mark, latest, acts, typed, settled, excuse>>

FetchAnswers(f, ok) ==
  LET q == fetch[f]
      shown == selected = q.sheet /\ (q.hydrates = "always" \/ (q.hydrates = "found" /\ ok))
  IN  /\ q.pc = "read"
      /\ fetch' = [fetch EXCEPT ![f] = NoFetch]
      /\ IF ok /\ latest = f THEN active' = [sheet |-> q.sheet, line |-> q.line] ELSE UNCHANGED active
      /\ IF shown THEN Hydrate(IF ok THEN q.line ELSE Fresh) ELSE UNCHANGED <<draft, mark, timer>>
      /\ Excuse(q.sheet, IF ok \/ q.hydrates # "always" THEN 0 ELSE 2)
      /\ UNCHANGED <<lines, selected, queued, put, latest, acts, typed, settled>>

-----------------------------------------------------------------------------
(* ReplaceSheet *)

PutGoes(pc) == put' = [put EXCEPT !.pc = pc]

\* UPDATE finance_sheets locks its row; DELETE waits for a line that is being marked.
PutLocks ==
  /\ put.pc = "sent" /\ PutGoes("locked")
  /\ UNCHANGED <<lines, editor, mark, fetch, latest, acts, typed, settled, excuse>>

PutDeletes ==
  /\ put.pc = "locked"
  /\ \A i \in MarksOf(put.sheet) : mark[i].pc # "lined"
  /\ PutGoes("deleted")
  /\ UNCHANGED <<lines, editor, mark, fetch, latest, acts, typed, settled, excuse>>

\* Updates that waited for the lines of the save go on.
Release(pc) == mark' = [i \in Marks |-> IF i \in MarksOf(put.sheet) /\ mark[i].pc = "blocked"
                                       THEN [mark[i] EXCEPT !.pc = pc] ELSE mark[i]]

\* What was read before it is stored is old when it is answered.
Overtaken(s) ==
  \/ \E f \in Fetches : fetch[f].pc = "read" /\ fetch[f].sheet = s
  \/ put.pc = "read" /\ put.sheet = s

\* The lines are inserted and committed; an update that waited for a deleted line
\* finds no row, although one with the same id is there.
PutCommits ==
  /\ put.pc = "deleted" /\ PutGoes("committed")
  /\ lines' = [lines EXCEPT ![put.sheet] = put.line]
  /\ Release("failed")
  /\ Excuse(put.sheet, IF Overtaken(put.sheet) THEN 1 ELSE 0)
  /\ UNCHANGED <<editor, fetch, latest, acts, typed, settled>>

\* The save is over; one that was asked for in the meantime starts at once.
\* Seeded fault: it is forgotten.
ForgetQueued == put' = NoPut /\ queued' = FALSE
StartQueued == (IF queued THEN SaveSheet ELSE put' = NoPut) /\ queued' = FALSE

\* loadSheetDetail: the answer is read after the commit.
PutReads ==
  /\ put.pc = "committed"
  /\ put' = [put EXCEPT !.pc = "read", !.line = lines[put.sheet]]
  /\ UNCHANGED <<lines, editor, mark, fetch, latest, acts, typed, settled, excuse>>

PutAnswers ==
  /\ put.pc = "read" /\ StartQueued
  /\ IF active.sheet = put.sheet THEN active' = [active EXCEPT !.line = put.line] ELSE UNCHANGED active
  /\ UNCHANGED <<lines, selected, draft, timer, mark, fetch, latest, acts, typed, settled, excuse>>

\* A statement fails, or the answer is lost after the commit; before it the save is
\* rolled back, and an update that waited for its lines goes on.
PutFails ==
  /\ put.pc # "rest" /\ StartQueued
  /\ Release("read")
  /\ Excuse(put.sheet, 1)
  /\ UNCHANGED <<lines, selected, draft, active, timer, fetch, latest, acts, typed, settled>>

-----------------------------------------------------------------------------
(* PatchLine *)

MarkGoes(i, pc) == mark' = [mark EXCEPT ![i].pc = pc]
Locked(s) == put.sheet = s /\ put.pc \in {"locked", "deleted"}

\* The line is found outside of the transaction.
MarkReads(i) ==
  /\ mark[i].pc = "sent"
  /\ MarkGoes(i, IF lines[mark[i].sheet].own THEN "read" ELSE "failed")
  /\ UNCHANGED <<lines, editor, put, fetch, latest, acts, typed, settled, excuse>>

MarkUpdatesLine(i) ==
  LET s == mark[i].sheet
  IN  /\ mark[i].pc = "read"
      /\ \A j \in MarksOf(s) : mark[j].pc # "lined"
      /\ MarkGoes(i, IF put.sheet = s /\ put.pc = "deleted" THEN "blocked"
                     ELSE IF lines[s].own THEN "lined" ELSE "failed")
      /\ UNCHANGED <<lines, editor, put, fetch, latest, acts, typed, settled, excuse>>

MarkCommits(i) ==
  LET s == mark[i].sheet
  IN  /\ mark[i].pc = "lined" /\ ~ Locked(s)
      /\ lines' = [lines EXCEPT ![s].effective = mark[i].to]
      /\ MarkGoes(i, "committed")
      /\ Excuse(s, IF Overtaken(s) THEN 1 ELSE 0)
      /\ UNCHANGED <<editor, put, fetch, latest, acts, typed, settled>>

\* The save holds the sheet and waits for the line, the mark the other way round.
DeadlockDetected(i) ==
  /\ mark[i].pc = "lined" /\ put.sheet = mark[i].sheet /\ put.pc = "locked"
  /\ \/ MarkGoes(i, "failed") /\ UNCHANGED put
     \/ PutGoes("failed") /\ UNCHANGED mark
  /\ UNCHANGED <<lines, editor, fetch, latest, acts, typed, settled, excuse>>

\* The answer carries the whole line as it is stored now; the row takes all of it.
MarkAnswers(i) ==
  LET s == mark[i].sheet
  IN  /\ mark[i].pc = "committed" /\ lines[s].own
      /\ draft' = IF mark[i].onScreen THEN lines[s] ELSE draft
      /\ active' = IF active.sheet = s /\ active.line.own THEN [active EXCEPT !.line = lines[s]] ELSE active
      /\ mark' = [mark EXCEPT ![i] = NoMark]
      /\ UNCHANGED <<lines, selected, timer, queued, put, fetch, latest, acts, typed, settled, excuse>>

\* The mark fails anywhere, or its answer is lost: the row on the screen becomes what it
\* was before, whatever was typed since.
MarkFails(i) ==
  /\ mark[i].pc # "rest"
  /\ draft' = IF mark[i].onScreen THEN mark[i].line ELSE draft
  /\ mark' = [mark EXCEPT ![i] = NoMark]
  /\ Excuse(mark[i].sheet, 1)
  /\ UNCHANGED <<lines, selected, active, timer, queued, put, fetch, latest, acts, typed, settled>>

SheetNext ==
  \/ Type \/ Resync \/ TimerFires
  \/ \E s \in Sheets : Select(s)
  \/ PutLocks \/ PutDeletes \/ PutCommits \/ PutReads \/ PutAnswers \/ PutFails
  \/ \E f \in Fetches : Refetch(f) \/ Refresh(f) \/ FetchReads(f) \/ \E ok \in BOOLEAN : FetchAnswers(f, ok)
  \/ \E i \in Marks : \/ Mark(i) \/ MarkReads(i) \/ MarkUpdatesLine(i) \/ MarkCommits(i)
                      \/ DeadlockDetected(i) \/ MarkAnswers(i) \/ MarkFails(i)

SheetSpec == SheetInit /\ [][SheetNext]_sheetVars

-----------------------------------------------------------------------------
\* Every state is typed, and a draft with a line of the sheet's own was loaded from it.
SheetTypeOK ==
  /\ lines \in [Sheets -> LineSet] /\ selected \in Sheets /\ draft \in LineSet
  /\ active.sheet \in Sheets /\ active.line \in LineSet
  /\ {timer, queued} \subseteq BOOLEAN
  /\ put.pc \in {"rest", "sent", "locked", "deleted", "committed", "read", "failed"} /\ put.line \in LineSet
  /\ \A i \in Marks : mark[i].pc \in {"rest", "sent", "read", "blocked", "lined", "committed", "failed"}
  /\ \A f \in Fetches : fetch[f].pc \in {"rest", "sent", "read"}
  /\ typed \in [Sheets -> Texts] /\ settled \in [Sheets -> BOOLEAN]
  /\ queued => put.pc # "rest"

\* Once nothing is under way, a sheet holds what the user typed and marked last,
\* however saves, marks, deadlocks and reloads interleaved, except after what its
\* excuse names: a failed request, leaving a sheet before it was saved, editing
\* while a mark is under way or marking while a save is, editing before the sheet
\* was loaded, and an answer that a save or a mark overtook.
SavedAsEdited ==
  ~ Pending /\ (\A i \in Marks : mark[i].pc = "rest") =>
    \A s \in Sheets : excuse[s] = 0 => lines[s] = Line(TRUE, typed[s], settled[s])

\* A sheet loses its lines to the empty draft only if it was entered with a save
\* pending, edited or resynchronized before it was loaded, or its loading failed.
LinesAreNotWiped ==
  \A s \in Sheets : lines[s].own \/ excuse[s] = 2
=============================================================================
