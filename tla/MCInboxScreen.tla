--------------------------- MODULE MCInboxScreen ---------------------------
EXTENDS InboxScreen
CONSTANTS ca, cb, m1
AllInOne == [m \in Messages |-> ca]

\* An operator who reads and sends nothing.
ReadingSpec ==
  /\ ScreenInit /\ [][ScreenNext /\ Asks({"post"})' = {}]_screenVars
  /\ ScreenFairness
=============================================================================
