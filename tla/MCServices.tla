----------------------------- MODULE MCServices -----------------------------
(***************************************************************************)
(* The smaller components, one at a time: `part' is chosen once, and the   *)
(* variables of the others stay as they are.                               *)
(***************************************************************************)
EXTENDS FilaOperations, FilaLive, Conversations, ModuleSeats, FinanceSheets, TLC

CONSTANTS c1, c2, c3, a1, a2  \* the consultants or calls; the screens, users or sheets

ASSUME ServicesAssumption == LiveConstants /\ ConvConstants /\ MaxActs \in Nat

VARIABLE part

\* The name of a row says nothing: rows are used in the order of theirs.
LeastNames == \A i, j \in Rows : i < j /\ scope[i] = "unused" => scope[j] = "unused"

\* Three requests do not reach far enough from nothing, so they may also find what
\* a message, an assignment and a slow opening leave: two rows, the first assigned.
Duplicated ==
  /\ scope = [c \in Rows |-> IF c = 1 THEN "instance" ELSE IF c = 2 THEN "default" ELSE "unused"]
  /\ \E o \in Operators : assigned = [c \in Rows |-> IF c = 1 THEN o ELSE Nobody] /\ answering = o
  /\ last = [c \in Rows |-> IF c < 3 THEN c + 1 ELSE 0] /\ now = 3
  /\ place = [m \in Calls \cup {Old} |-> IF m = Old THEN 1 ELSE NoRow] /\ stored = {Old}
  /\ call = [r \in Calls |-> AtRest]
  /\ raced = FALSE /\ disturbed = {}

\* A snapshot fails only in behaviours that begin with empty channels.
OneOfTwo == lost = 0 <=> \A k \in Sockets : channel[k] = 0

\* The parts that are not there: of their variables only those are more than 0 that
\* their invariants look at.
NoSeats   == SeatInit /\ granted = {Module}
NoScreens ==
  /\ command = [s \in Screens |-> [pc |-> "away"]]
  /\ version = 0 /\ shown = 0 /\ refresh = 0 /\ quiet = 0 /\ linked = 0 /\ channel = 0
  /\ subscribed = 0 /\ closed = 0 /\ wire = 0 /\ missed = 0 /\ lost = 0
NoCalls ==
  /\ stored = {} /\ raced = TRUE
  /\ scope = 0 /\ assigned = 0 /\ last = 0 /\ place = 0 /\ call = 0 /\ now = 0
  /\ answering = 0 /\ disturbed = 0
NoEditor  ==
  /\ lines = [s \in Sheets |-> Line(TRUE, 0, FALSE)] /\ timer = TRUE
  /\ selected = 0 /\ draft = 0 /\ active = 0 /\ queued = 0 /\ put = 0 /\ mark = 0 /\ fetch = 0
  /\ latest = 0 /\ acts = 0 /\ typed = 0 /\ settled = 0 /\ excuse = 0

ServicesInit ==
  /\ Init
  /\ \/ part = "commands" /\ NoSeats /\ NoScreens /\ NoCalls /\ NoEditor
     \/ part = "seats" /\ SeatInit /\ NoScreens /\ NoCalls /\ NoEditor
     \/ part = "live" /\ LiveInit /\ OneOfTwo /\ NoSeats /\ NoCalls /\ NoEditor
     \/ /\ part = "conversations" /\ ((ConvInit /\ LeastNames) \/ Duplicated)
        /\ NoSeats /\ NoScreens /\ NoEditor
     \/ part = "sheets" /\ SheetInit /\ NoSeats /\ NoScreens /\ NoCalls

\* A screen listens again only when there is something to hear: before, nobody
\* would notice.
EndsInTime == \A s \in Screens : quiet[s] /\ ~ quiet'[s] => wire[s] > 0

\* The only user's accounts are excused once a change of the status was cut in half;
\* a behaviour ends there.
NotTorn == torn' = {}

ServicesNext ==
  /\ UNCHANGED part
  /\ \/ part = "commands" /\ Next /\ UNCHANGED <<seatVars, liveVars, convVars, sheetVars>>
     \/ part = "seats" /\ SeatNext /\ NotTorn /\ UNCHANGED <<vars, liveVars, convVars, sheetVars>>
     \/ part = "live" /\ LiveNext /\ EndsInTime /\ UNCHANGED <<vars, seatVars, convVars, sheetVars>>
     \/ /\ part = "conversations" /\ ConvNext /\ LeastNames'
        /\ UNCHANGED <<vars, seatVars, liveVars, sheetVars>>
     \/ part = "sheets" /\ SheetNext /\ UNCHANGED <<vars, seatVars, liveVars, convVars>>

ServicesSpec ==
  ServicesInit /\ [][ServicesNext]_<<part, vars, seatVars, liveVars, convVars, sheetVars>>

\* Every permutation of the consultants or calls, swaps of the screens, users or
\* sheets, and of the administrators' requests, marks or fetches.  The parts run
\* alone, so an exchange of two consultants may swap the screens as well.
Swap(x, y) == x :> y @@ y :> x
Symmetry == {Swap(c1, c2) @@ Swap(a1, a2), Swap(c2, c3) @@ Swap(a1, a2)} \cup Permutations(Admins)

-----------------------------------------------------------------------------
\* Every state of the four parts beside the commands is typed; a scope of
\* conversations has one row.
ComponentsTyped ==
  /\ SeatTypeOK
  /\ part = "live" => LiveTypeOK
  /\ part = "conversations" => ConvTypeOK
  /\ part = "sheets" => SheetTypeOK
=============================================================================
