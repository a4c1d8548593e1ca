------------------------------- MODULE FilaLive -------------------------------
(***************************************************************************)
(* How the panels of a store follow each other's commands: the command is  *)
(* committed, the realtime hub of the API sends one event to the channel   *)
(* of every socket subscribed to the store, the socket's goroutine passes  *)
(* it on, and the panel that hears it loads a snapshot.                    *)
(*                                                                         *)
(* The store is the number of commands committed, a screen the set of      *)
(* those it shows: a snapshot replaces the set, the answer to a screen's   *)
(* own command adds that command.  The panel uses nothing of an event but  *)
(* that it came, so a channel is the number of events in it.               *)
(***************************************************************************)
EXTENDS Naturals, FiniteSets

CONSTANTS
  Screens,      \* panels that show the store
  Sockets,      \* connections, each with its subscription, used once
  NoSocket,
  BufferSize,   \* of a subscription's channel; the service uses 1
  MaxCommits,   \* bound: commands
  MaxLost       \* bound: snapshots that fail

LiveConstants ==
  /\ NoSocket \notin Sockets /\ BufferSize \in Nat \ {0}
  /\ MaxCommits \in Nat /\ MaxLost \in Nat

VARIABLES
  version,    \* commands committed
  shown,      \* shown[s]: the commands screen s shows
  refresh,    \* refresh[s]: the snapshot s is loading, and whether another must follow
  quiet,      \* quiet[s]: events are ignored since s ran a command (1.5 s)
  command,    \* command[s]: the command s is running, and the request that runs it
  linked,     \* linked[s]: the socket of s
  channel,    \* channel[k]: events in the subscription of socket k
  subscribed, \* the hub's subscribers
  closed,     \* subscriptions whose channel is closed
  wire,       \* wire[s]: events on their way from the socket's goroutine to s
  missed,     \* history, missed[s]: s lost an event or a command since it was up to date
  lost        \* snapshots that failed, also before

screen   == <<shown, refresh, quiet>>
hub      == <<channel, subscribed, closed>>
liveVars == <<version, screen, command, linked, hub, wire, missed, lost>>

Commits  == 1 .. version
NoRefresh == [pc |-> "none", page |-> {}, again |-> FALSE]
NoCommand == [pc |-> "none", mine |-> 0, todo |-> {}, at |-> NoSocket]

\* The screens are loaded; a socket that is open may still hold the event of an
\* earlier command.
LiveInit ==
  /\ version = 0 /\ shown = [s \in Screens |-> {}]
  /\ refresh = [s \in Screens |-> NoRefresh] /\ quiet = [s \in Screens |-> FALSE]
  /\ command = [s \in Screens |-> NoCommand]
  /\ linked \in [Screens -> Sockets \cup {NoSocket}]
  /\ \A s, x \in Screens : linked[s] = linked[x] => s = x \/ linked[s] = NoSocket
  /\ subscribed = {linked[s] : s \in Screens} \ {NoSocket} /\ closed = {}
  /\ \E n \in 0 .. BufferSize, slow \in subscribed \cup {NoSocket} :
       channel = [k \in Sockets |-> IF k = slow THEN n ELSE 0]
  /\ wire = [s \in Screens |-> 0] /\ missed = [s \in Screens |-> FALSE] /\ lost \in 0 .. MaxLost

\* The screens of L miss something; one that shows every command misses nothing.
Misses(L) ==
  missed' = [s \in Screens |-> (missed[s] \/ s \in L) /\ shown'[s] # 1 .. version']

-----------------------------------------------------------------------------
\* A command: the store is written, then the event is published, then the panel
\* has its answer.  What comes before the commit, and an answer with an error,
\* change nothing here and are no steps of their own.

RunCommand(s) ==
  /\ command[s].pc = "none" /\ version < MaxCommits
  /\ version' = version + 1
  /\ command' = [command EXCEPT ![s].pc = "publish", ![s].mine = version + 1]
  /\ UNCHANGED <<screen, linked, hub, wire, lost>>
  /\ Misses({})

\* Publish copies the subscribers and leaves the lock.
CopySubscribers(s) ==
  /\ command[s].pc = "publish"
  /\ command' = [command EXCEPT ![s].pc = "send", ![s].todo = subscribed]
  /\ UNCHANGED <<version, screen, linked, hub, wire, lost>>
  /\ Misses({x \in Screens : linked[x] \notin subscribed})

Full(k) == channel[k] = BufferSize
Added(k) == channel' = [channel EXCEPT ![k] = @ + 1]
Sent(s, k) == command' = [command EXCEPT ![s].pc = "send", ![s].todo = @ \ {k}, ![s].at = NoSocket]

\* The first select: send, or else make room.
TrySend(s, k) ==
  /\ command[s].pc = "send" /\ k \in command[s].todo /\ k \notin closed
  /\ IF Full(k)
     THEN /\ command' = [command EXCEPT ![s].pc = "drop", ![s].at = k]
          /\ UNCHANGED channel
     ELSE Added(k) /\ Sent(s, k)
  /\ UNCHANGED <<version, screen, linked, subscribed, closed, wire, missed, lost>>

\* The second select: the oldest event goes, if the socket has not taken it.
DropOldest(s) ==
  /\ command[s].pc = "drop"
  /\ channel' = [channel EXCEPT ![command[s].at] = IF @ = 0 THEN 0 ELSE @ - 1]
  /\ command' = [command EXCEPT ![s].pc = "again"]
  /\ UNCHANGED <<version, screen, linked, subscribed, closed, wire, missed, lost>>

\* The third select: send, or give up because another publisher was faster.
\* Seeded faults: the event is not sent again; room is taken for granted.
NeverSendAgain(s) ==
  /\ command[s].pc = "again" /\ Sent(s, command[s].at)
  /\ UNCHANGED <<version, screen, linked, hub, wire, missed, lost>>

SendAgainBlindly(s) ==
  /\ command[s].pc = "again" /\ Sent(s, command[s].at) /\ Added(command[s].at)
  /\ UNCHANGED <<version, screen, linked, subscribed, closed, wire, missed, lost>>

SendAgain(s) ==
  LET k == command[s].at
  IN  /\ command[s].pc = "again" /\ k \notin closed
      /\ IF Full(k) THEN UNCHANGED channel ELSE Added(k)
      /\ Sent(s, k)
      /\ UNCHANGED <<version, screen, linked, subscribed, closed, wire, missed, lost>>

\* A send on a channel that was closed meanwhile panics: the request is answered
\* with 500, and the sockets that were left hear nothing.
SendPanics(s) ==
  LET left == command[s].todo
  IN  /\ \/ command[s].pc = "send" /\ left \cap closed # {}
         \/ command[s].pc = "again" /\ command[s].at \in closed
      /\ command' = [command EXCEPT ![s] = NoCommand]
      /\ UNCHANGED <<version, screen, linked, hub, wire, lost>>
      /\ Misses({x \in Screens : linked[x] \in left} \cup {s})

\* runCommand: events are ignored for a while, and the delta is shown.
Answered(s) ==
  /\ command[s].pc = "send" /\ command[s].todo = {}
  /\ command' = [command EXCEPT ![s] = NoCommand]
  /\ quiet' = [quiet EXCEPT ![s] = TRUE]
  /\ shown' = [shown EXCEPT ![s] = @ \cup {command[s].mine}]
  /\ UNCHANGED <<version, refresh, linked, hub, wire, lost>>
  /\ Misses({})

SuppressionEnds(s) ==
  /\ quiet[s] /\ quiet' = [quiet EXCEPT ![s] = FALSE]
  /\ UNCHANGED <<version, shown, refresh, command, linked, hub, wire, missed, lost>>

-----------------------------------------------------------------------------
\* The socket.  Nothing is loaded when it opens.

Subscribe(s, k) ==
  /\ linked[s] = NoSocket /\ k \notin subscribed \cup closed
  /\ linked' = [linked EXCEPT ![s] = k] /\ subscribed' = subscribed \cup {k}
  /\ UNCHANGED <<version, screen, command, channel, closed, wire, missed, lost>>

\* The connection breaks: the subscription is closed, with what is in it.
Unsubscribe(s) ==
  LET k == linked[s]
  IN  /\ k # NoSocket
      /\ linked' = [linked EXCEPT ![s] = NoSocket]
      /\ subscribed' = subscribed \ {k} /\ closed' = closed \cup {k}
      /\ wire' = [wire EXCEPT ![s] = 0] /\ channel' = [channel EXCEPT ![k] = 0]
      /\ UNCHANGED <<version, screen, command, lost>>
      /\ Misses({x \in {s} : \/ channel[k] + wire[s] > 0
                             \/ \E y \in Screens : k \in command[y].todo})

TakeEvent(s) ==
  LET k == linked[s]
  IN  /\ k # NoSocket /\ channel[k] > 0
      /\ channel' = [channel EXCEPT ![k] = @ - 1]
      /\ wire' = [wire EXCEPT ![s] = @ + 1]
      /\ UNCHANGED <<version, screen, command, linked, subscribed, closed, missed, lost>>

-----------------------------------------------------------------------------
\* The panel.  queueWorkspaceRefresh: an event is ignored while its own command is
\* fresh, asks for a snapshot, or notes that another must follow.

Followed(r) == [r EXCEPT !.again = TRUE]

Queues(s, r) == IF r.pc = "none" THEN [NoRefresh EXCEPT !.pc = "asked"] ELSE Followed(r)

HearEvent(s) ==
  /\ wire[s] > 0
  /\ wire' = [wire EXCEPT ![s] = @ - 1]
  /\ refresh' = IF quiet[s] THEN refresh ELSE [refresh EXCEPT ![s] = Queues(s, @)]
  /\ UNCHANGED <<version, shown, quiet, command, linked, hub, lost>>
  /\ Misses({x \in {s} : quiet[s]})

ReadSnapshot(s) ==
  /\ refresh[s].pc = "asked"
  /\ refresh' = [refresh EXCEPT ![s].pc = "read", ![s].page = Commits]
  /\ UNCHANGED <<version, shown, quiet, command, linked, hub, wire, missed, lost>>

\* The refresh that must follow is asked for unless events are ignored again.
Following(s) ==
  IF refresh[s].again /\ ~ quiet[s] THEN [NoRefresh EXCEPT !.pc = "asked"] ELSE NoRefresh

SnapshotArrives(s) ==
  /\ refresh[s].pc = "read"
  /\ shown' = [shown EXCEPT ![s] = refresh[s].page]
  /\ refresh' = [refresh EXCEPT ![s] = Following(s)]
  /\ UNCHANGED <<version, quiet, command, linked, hub, wire, lost>>
  /\ Misses({x \in {s} : ~ shown[s] \subseteq refresh[s].page \/ (refresh[s].again /\ quiet[s])})

SnapshotFails(s) ==
  /\ refresh[s].pc # "none" /\ lost < MaxLost /\ lost' = lost + 1
  /\ refresh' = [refresh EXCEPT ![s] = Following(s)]
  /\ UNCHANGED <<version, shown, quiet, command, linked, hub, wire>>
  /\ Misses({s})

LiveNext ==
  \E s \in Screens :
    \/ RunCommand(s) \/ CopySubscribers(s)
    \/ \E k \in Sockets : TrySend(s, k) \/ Subscribe(s, k)
    \/ DropOldest(s) \/ SendAgain(s) \/ SendPanics(s) \/ Answered(s)
    \/ SuppressionEnds(s) \/ Unsubscribe(s) \/ TakeEvent(s) \/ HearEvent(s)
    \/ ReadSnapshot(s) \/ SnapshotArrives(s) \/ SnapshotFails(s)

LiveSpec == LiveInit /\ [][LiveNext]_liveVars

-----------------------------------------------------------------------------
\* Every state is typed: no channel holds more than its buffer, and whoever is
\* subscribed has an open channel.
LiveTypeOK ==
  /\ version \in 0 .. MaxCommits /\ shown \in [Screens -> SUBSET Commits]
  /\ refresh \in [Screens -> [pc : {"none", "asked", "read"}, page : SUBSET Commits, again : BOOLEAN]]
  /\ quiet \in [Screens -> BOOLEAN]
  /\ command \in [Screens -> [pc : {"none", "publish", "send", "drop", "again"},
                              mine : 0 .. version, todo : SUBSET Sockets,
                              at : Sockets \cup {NoSocket}]]
  /\ linked \in [Screens -> Sockets \cup {NoSocket}]
  /\ channel \in [Sockets -> 0 .. BufferSize]
  /\ subscribed = {linked[s] : s \in Screens} \ {NoSocket}
  /\ closed \subseteq Sockets \ subscribed
  /\ wire \in [Screens -> Nat] /\ missed \in [Screens -> BOOLEAN] /\ lost \in 0 .. MaxLost

\* Nothing that would bring screen s news is under way.
Settled(s) ==
  /\ \A x \in Screens : command[x].pc = "none"
  /\ refresh[s].pc = "none" /\ wire[s] = 0
  /\ linked[s] # NoSocket => channel[linked[s]] = 0

\* A screen shows every command of every screen once nothing is under way, although
\* its channel holds one event, two publishers drop each other's, and a refresh takes
\* the place of several: unless since it was last up to date a connection broke or a
\* send panicked, a snapshot failed or was older than what it replaced, or an event
\* came while the screen ignored them.
ScreensFollow ==
  \A s \in Screens : Settled(s) /\ ~ missed[s] => shown[s] = Commits
===============================================================================
