----------------------------- MODULE FilaBoard -----------------------------
(***************************************************************************)
(* What the service queue ("fila de atendimento") of a store promises, as  *)
(* the people on the shop floor see it: every consultant is in exactly one *)
(* place, moves only along the allowed ways, is called up only while there *)
(* is room, and nobody in the line is ever overtaken by a change made for  *)
(* somebody else.                                                          *)
(***************************************************************************)
EXTENDS Naturals, FiniteSets

CONSTANTS Consultants,
          MaxServices     \* max_concurrent_services of the store

VARIABLES place,          \* place[c]
          ahead           \* ahead: the pairs <<x, y>> where x is before y in the line

boardVars == <<place, ahead>>

Places == {"available", "queue", "service", "paused"}

\* join, pause or task (from the line or not), resume, start, finish
Moves == {<<"available", "queue">>,  <<"available", "paused">>, <<"queue", "paused">>,
          <<"paused", "queue">>,     <<"queue", "service">>,    <<"service", "queue">>}

InLine(p) == {c \in Consultants : p[c] = "queue"}

BoardInit ==
  /\ place = [c \in Consultants |-> "available"]
  /\ ahead = {}

\* One command moves consultant c; the consultants in D have left the roster,
\* which the command notices.
Move(c, to, D) ==
  LET left == [x \in Consultants |-> IF x \in D THEN "available" ELSE place[x]] IN
  /\ c \notin D
  /\ <<left[c], to>> \in Moves
  /\ to = "service" => Cardinality({x \in Consultants : left[x] = "service"}) < MaxServices
  /\ place' = [left EXCEPT ![c] = to]
  /\ ahead' = {pair \in ahead : pair[1] \in InLine(place') /\ pair[2] \in InLine(place')}
              \cup {<<x, c>> : x \in IF to = "queue" THEN InLine(left) ELSE {}}

\* A command moves somebody.
BoardNext ==
  /\ place' # place
  /\ \E c \in Consultants, to \in Places, D \in SUBSET Consultants : Move(c, to, D)

BoardSpec == BoardInit /\ [][BoardNext]_boardVars
=============================================================================
