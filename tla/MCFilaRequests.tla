--------------------------- MODULE MCFilaRequests ---------------------------
(***************************************************************************)
(* Two stores, one at a time: in the first, requests come one after the    *)
(* other, with every command; in the second, two of them overlap.  `part'  *)
(* is chosen once, and the other store stays empty.                        *)
(***************************************************************************)
EXTENDS MCFilaConcurrent

CONSTANT Both   \* the requests that overlap

VARIABLES part, db2, sessions2, history2, clock2, started2, dropped2, rq2

Overlap == INSTANCE FilaConcurrent WITH
  Requests <- Both, MaxTime <- 3, Commands <- {"queue", "start"}, Rosters <- Everybody,
  db <- db2, sessions <- sessions2, history <- history2, clock <- clock2,
  started <- started2, dropped <- dropped2, rq <- rq2

overlapVars == <<db2, sessions2, history2, clock2, started2, dropped2, rq2>>

BothInit == part \in {"serial", "overlap"} /\ RequestsInit /\ Overlap!RequestsInit

BothNext ==
  /\ UNCHANGED part
  /\ \/ part = "serial" /\ RequestsNext /\ UNCHANGED overlapVars
     \/ part = "overlap" /\ Overlap!RequestsNext /\ UNCHANGED requestVars

\* The fairness is that of FairRequestsSpec.
BothSpec ==
  /\ BothInit /\ [][BothNext]_<<requestVars, overlapVars, part>>
  /\ \A r \in Both : /\ WF_overlapVars(part = "overlap" /\ Overlap!Step(r))
                     /\ SF_overlapVars(part = "overlap" /\ Overlap!InsertRows(r))

\* Two requests of a store that overlap both come to an end: see RequestsEnd.
OverlappingEnd == Overlap!RequestsEnd
=============================================================================
