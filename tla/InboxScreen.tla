----------------------------- MODULE InboxScreen -----------------------------
(***************************************************************************)
(* The inbox of the panel in one browser tab: the list of messages on the  *)
(* screen, the lists it keeps of the conversations shown before, and what  *)
(* changes them: the operator, socket events, the refresh of the heartbeat *)
(* or, while the socket is down, of the fallback poll, the freshness check *)
(* and the watch over messages that were just sent.  Answers are merged    *)
(* when they arrive, the last arrival wins, and nothing is compared.  A    *)
(* watcher copies the list shown into the kept ones whenever it changes.   *)
(*                                                                         *)
(* Of a message only its status is told apart.  An answer shows the rows   *)
(* of the moment of the question and arrives any time later.               *)
(***************************************************************************)
EXTENDS Naturals, FiniteSets

CONSTANTS
  Conversations, Messages,
  Of,           \* Of[m]: the conversation of message m
  MaxAsked,     \* bound: loads, refreshes and polls on their way
  MaxSwitches,  \* bound: conversations opened, and returns to the tab
  MaxBreaks     \* bound: failed calls and lost connections

\* The message the screen shows until m has its row; its id is a local one.
Temp(m) == <<"temp", m>>

ASSUME ScreenAssumption ==
  /\ Of \in [Messages -> Conversations]
  /\ {MaxAsked, MaxSwitches, MaxBreaks} \subseteq Nat
  /\ \A m \in Messages : Temp(m) \notin Messages

VARIABLES
  server,              \* server[m]: status of m's row
  active, visible,     \* the conversation selected, and the one whose list is shown
  list, cache,         \* the list on the screen, and the one kept per conversation
  asked,               \* requests on their way
  events,              \* socket events on their way
  socket, heartbeat,   \* the connection, and the timer that runs while it is up
  watched,             \* watched[m]: which of the two watches run for m
  crossed,             \* history: an answer met another conversation on the screen,
                       \* or brought back a list kept before
  switches, breaks

view       == <<active, visible, list, cache>>
link       == <<socket, heartbeat>>
screenVars == <<server, view, asked, events, link, watched, crossed,
                switches, breaks>>

Entries == Messages \cup {Temp(m) : m \in Messages}
ConversationOf(e) == IF e \in Messages THEN Of[e] ELSE Of[e[2]]
Shown == {"none", "PENDING", "SENT", "FAILED"}
List  == [Entries -> Shown]
NoList == [e \in Entries |-> "none"]
Only(e, st) == [NoList EXCEPT ![e] = st]

ScreenInit ==
  /\ server = [m \in Messages |-> "none"]
  /\ active \in Conversations /\ visible = active
  /\ list = NoList /\ cache = [c \in Conversations |-> NoList]
  /\ asked = {} /\ events = {} /\ socket = "up" /\ heartbeat = "set"
  /\ watched = [m \in Messages |-> {}]
  /\ crossed = FALSE /\ switches = 0 /\ breaks = 0

\* mergeMessages: the later chunk wins, whatever its age.
Merged(old, new) == [e \in Entries |-> IF new[e] = "none" THEN old[e] ELSE new[e]]

\* The rows of conversation c as the API lists them.
Page(c) == [e \in Entries |-> IF e \in Messages /\ ConversationOf(e) = c THEN server[e] ELSE "none"]

\* A refresh remembers whether its conversation was the active one, and its kept list.
Question(kind, c, was, page) ==
  [kind |-> kind, conv |-> c, was |-> was, page |-> page,
   kept |-> IF kind \in {"sync", "refresh"} THEN cache[c] ELSE NoList]
Asks(kinds) == {q \in asked : q.kind \in kinds}
Ask(q) ==
  /\ q.kind # "list" => Cardinality(Asks({"load", "refresh", "watch"})) < MaxAsked
  /\ asked' = asked \cup {q}
Breaks == breaks < MaxBreaks /\ breaks' = breaks + 1

\* The list shown becomes l, of conversation c; the watcher keeps a copy of it.
Shows(c, l, kept) ==
  visible' = c /\ list' = l /\ cache' = [kept EXCEPT ![c] = l]

Posting(m) == \E q \in Asks({"post"}) : q.page[Temp(m)] # "none"

\* An answer about conversation c arrives while another is selected or shown.
Crosses(c) == crossed' = (crossed \/ c # active \/ c # visible)

Publish(m, st, kind) ==
  events' = IF socket = "up" THEN events \cup {[m |-> m, st |-> st, kind |-> kind]} ELSE events

-----------------------------------------------------------------------------
\* The server.

\* A message of the contact, or one that a colleague sends.
Arrives(m) ==
  /\ server[m] = "none" /\ ~ Posting(m)
  /\ \E st \in {"PENDING", "SENT"} :
       server' = [server EXCEPT ![m] = st] /\ Publish(m, st, "created")
  /\ UNCHANGED <<view, asked, link, watched, crossed, switches, breaks>>

\* The POST creates the row and its event before it answers.
Accepts(m) ==
  /\ server[m] = "none" /\ Posting(m)
  /\ server' = [server EXCEPT ![m] = "PENDING"]
  /\ Publish(m, "PENDING", "created")
  /\ UNCHANGED <<view, asked, link, watched, crossed, switches, breaks>>

\* The worker publishes the status only, a webhook the whole row.
Settles(m) ==
  /\ server[m] = "PENDING"
  /\ \E st \in {"SENT", "FAILED"}, kind \in {"partial", "full"} :
       /\ kind = "full" => st = "SENT"
       /\ server' = [server EXCEPT ![m] = st] /\ Publish(m, st, kind)
  /\ UNCHANGED <<view, asked, link, watched, crossed, switches, breaks>>

-----------------------------------------------------------------------------
\* Opening a conversation.

\* selectConversation, loadConversationMessages: a kept list is shown, and perhaps
\* refreshed; without one the page is asked for, unless it has been already.
Select(c) ==
  LET kept == cache[c] # NoList
      load == Question("load", c, TRUE, Page(c))
  IN  /\ c # active /\ switches < MaxSwitches /\ switches' = switches + 1
      /\ active' = c
      /\ IF kept THEN Shows(c, cache[c], cache) ELSE UNCHANGED <<visible, list, cache>>
      /\ \/ kept /\ UNCHANGED asked
         \/ kept /\ Ask(Question("refresh", c, TRUE, Page(c)))
         \/ ~ kept /\ IF \E q \in asked : q.kind = "load" /\ q.conv = c
                      THEN UNCHANGED asked ELSE Ask(load)
      /\ UNCHANGED <<server, events, link, watched, crossed, breaks>>

Loaded(q) ==
  /\ q \in asked /\ q.kind = "load"
  /\ Shows(q.conv, q.page, cache)
  /\ asked' = asked \ {q}
  /\ crossed' = (crossed \/ q.conv # active)
  /\ UNCHANGED <<server, active, events, link, watched, switches, breaks>>

-----------------------------------------------------------------------------
\* Refreshing.  The heartbeat, the poll while the socket is down, a reconnection and
\* the tab that becomes visible ask for the list of conversations first, and then for
\* the messages of the conversation that is active by that time; a refresh that is
\* on its way is joined.
\* Seeded fault: refreshes are not joined.
SyncingNever == FALSE
Syncing == Asks({"list", "sync"}) # {}
ListQuestion == Question("list", active, TRUE, NoList)
SyncQuestion == Question("sync", active, TRUE, Page(active))
Join == IF Syncing THEN UNCHANGED asked ELSE Ask(ListQuestion)

Beat ==
  /\ socket = "up" /\ heartbeat = "set"
  /\ heartbeat' = "waits" /\ Join
  /\ UNCHANGED <<server, view, events, socket, watched, crossed, switches, breaks>>

Poll ==
  /\ socket = "down" /\ ~ Syncing /\ Join
  /\ UNCHANGED <<server, view, events, link, watched, crossed, switches, breaks>>

\* handleVisibilityChange, which listens while the socket is up.
BecomesVisible ==
  /\ socket = "up" /\ ~ Syncing /\ Join
  /\ switches < MaxSwitches /\ switches' = switches + 1
  /\ UNCHANGED <<server, view, events, link, watched, crossed, breaks>>

\* The list arrives; loadConversations catches its own failure.
Listed(q) ==
  /\ q \in asked /\ q.kind = "list"
  /\ asked' = (asked \ {q}) \cup {SyncQuestion}
  /\ UNCHANGED <<server, view, events, link, watched, crossed, switches, breaks>>

\* checkFreshness: for a conversation that was active when the check began, and
\* whose newest message (which one is left open) is not on the screen.
Freshen(c) ==
  /\ c = active \/ cache[c] # NoList
  /\ \E m \in Messages : Of[m] = c /\ server[m] # "none" /\ list[m] = "none"
  /\ Ask(Question("refresh", c, c = active, Page(c)))
  /\ UNCHANGED <<server, view, events, link, watched, crossed, switches, breaks>>

\* refreshConversationMessages has decided before it asked whether its conversation
\* is the active one; it merges the answer into the list shown if that is the
\* conversation's, or into the one kept when it asked, which crosses if it brings an
\* older list back.  The timer is set again after the answer, or, the seeded fault, is not.
NeverRests == UNCHANGED heartbeat
Rests == heartbeat' = IF heartbeat = "waits" THEN "set" ELSE heartbeat

Refreshed(q) ==
  LET base == IF visible = q.conv THEN list ELSE q.kept
      next == Merged(base, q.page)
  IN  /\ q \in asked /\ q.kind \in {"sync", "refresh"}
      /\ IF q.was
         THEN Shows(q.conv, next, cache)
         ELSE cache' = [cache EXCEPT ![q.conv] = next] /\ UNCHANGED <<visible, list>>
      /\ crossed' = (crossed \/ q.conv # active \/ (visible # q.conv /\ q.kept # NoList))
      /\ asked' = asked \ {q}
      /\ IF q.kind = "sync" THEN Rests ELSE UNCHANGED heartbeat
      /\ UNCHANGED <<server, active, events, socket, watched, switches, breaks>>

\* A heartbeat whose refresh fails is not set again; the poll is.  A freshness check
\* or a watch that fails is one that has not asked.
Lost(q) ==
  /\ q \in asked /\ q.kind \in {"load", "sync"} /\ Breaks
  /\ asked' = asked \ {q}
  /\ heartbeat' = IF q.kind = "sync" /\ heartbeat = "waits" THEN "dead" ELSE heartbeat
  /\ UNCHANGED <<server, view, events, socket, watched, crossed, switches>>

-----------------------------------------------------------------------------
\* The socket.

\* message.created and a message.updated that carries the whole row are merged into
\* the list shown if it is their conversation's, or else into the one that is kept;
\* message.updated first overwrites its message wherever the screen has it.
\* Seeded fault: the conversation selected is taken for the one shown.
Selected(c) == active = c
IsVisible(c) == visible = c

ReceiveEvent(ev) ==
  LET c      == Of[ev.m]
      row    == Only(ev.m, ev.st)
      merges == ev.kind # "partial"
      finds  == ev.kind # "created" /\ list[ev.m] # "none"
      kept   == IF merges /\ ~ IsVisible(c) /\ cache[c] # NoList
                THEN [cache EXCEPT ![c] = Merged(@, row)] ELSE cache
  IN  /\ ev \in events /\ events' = events \ {ev}
      /\ IF finds \/ (merges /\ IsVisible(c))
         THEN Shows(visible, Merged(list, row), kept)
         ELSE cache' = kept /\ UNCHANGED <<visible, list>>
      /\ UNCHANGED <<server, active, asked, link, watched, crossed, switches, breaks>>

\* Events are not kept for a socket that is down.
Disconnect ==
  /\ socket = "up" /\ Breaks
  /\ socket' = "down" /\ heartbeat' = "off" /\ events' = {}
  /\ UNCHANGED <<server, view, asked, watched, crossed, switches>>

Connect ==
  /\ socket = "down"
  /\ socket' = "up" /\ heartbeat' = "set"
  /\ Join
  /\ UNCHANGED <<server, view, events, watched, crossed, switches, breaks>>

-----------------------------------------------------------------------------
\* Sending.

SendFromPanel(m) ==
  LET temp == Only(Temp(m), "PENDING")
  IN  /\ Of[m] = active /\ server[m] = "none" /\ list[Temp(m)] = "none"
      /\ \A q \in asked : q.kind # "post"
      /\ Shows(visible, Merged(list, temp), cache)
      /\ asked' = asked \cup {Question("post", active, TRUE, temp)}
      /\ Crosses(active)
      /\ UNCHANGED <<server, active, events, link, watched, switches, breaks>>

\* Seeded fault: the row is merged and the temporary message stays.
AnsweredBeside(m, st) == Merged(list, Only(m, st))
AnsweredBy(m, st) == Merged([list EXCEPT ![Temp(m)] = "none"], Only(m, st))

\* The temporary message gives way to the row that was created, and both watches
\* start.
Posted(m, q) ==
  /\ q \in asked /\ q.kind = "post" /\ q.page[Temp(m)] # "none" /\ server[m] # "none"
  /\ Shows(visible, AnsweredBy(m, "PENDING"), cache)
  /\ asked' = asked \ {q}
  /\ watched' = [watched EXCEPT ![m] = {"poll", "verify"}]
  /\ Crosses(q.conv)
  /\ UNCHANGED <<server, active, events, link, switches, breaks>>

\* The POST fails, or its answer is lost.
PostFails(m, q) ==
  /\ q \in asked /\ q.kind = "post" /\ q.page[Temp(m)] # "none" /\ Breaks
  /\ Shows(visible, Merged(list, Only(Temp(m), "FAILED")), cache)
  /\ asked' = asked \ {q}
  /\ Crosses(q.conv)
  /\ UNCHANGED <<server, active, events, link, watched, switches>>

\* reconcilePendingMessageStatus and verifySend ask for the row; the first merges
\* any answer, the second only one that is not PENDING.
Watch(m) ==
  /\ watched[m] # {}
  /\ Ask(Question("watch", Of[m], TRUE, Only(m, server[m])))
  /\ UNCHANGED <<server, view, events, link, watched, crossed, switches, breaks>>

Seen(m, q) ==
  /\ q \in asked /\ q.kind = "watch" /\ q.page[m] # "none"
  /\ IF "poll" \in watched[m] \/ q.page[m] # "PENDING"
     THEN Shows(visible, Merged(list, q.page), cache) /\ Crosses(q.conv)
     ELSE UNCHANGED <<visible, list, cache, crossed>>
  /\ watched' = IF q.page[m] = "PENDING" THEN watched ELSE [watched EXCEPT ![m] = {}]
  /\ asked' = asked \ {q}
  /\ UNCHANGED <<server, active, events, link, switches, breaks>>

\* The five polls are over; the verification finds that the screen does not say
\* PENDING, or, after 60 seconds, makes it say FAILED.
WatchEnds(m) ==
  /\ \/ /\ "poll" \in watched[m]
        /\ watched' = [watched EXCEPT ![m] = @ \ {"poll"}]
        /\ UNCHANGED <<visible, list, cache>>
     \/ /\ "verify" \in watched[m]
        /\ watched' = [watched EXCEPT ![m] = @ \ {"verify"}]
        /\ IF list[m] = "PENDING"
           THEN Shows(visible, [list EXCEPT ![m] = "FAILED"], cache)
           ELSE UNCHANGED <<visible, list, cache>>
  /\ UNCHANGED <<server, active, asked, events, link, crossed, switches, breaks>>

ScreenNext ==
  \/ \E m \in Messages : Arrives(m) \/ Accepts(m) \/ Settles(m)
  \/ \E m \in Messages :
       \/ SendFromPanel(m) \/ Watch(m) \/ WatchEnds(m)
       \/ \E q \in asked : Posted(m, q) \/ PostFails(m, q) \/ Seen(m, q)
  \/ \E c \in Conversations : Select(c) \/ Freshen(c)
  \/ \E q \in asked : Loaded(q) \/ Listed(q) \/ Refreshed(q) \/ Lost(q)
  \/ \E ev \in events : ReceiveEvent(ev)
  \/ Beat \/ Poll \/ BecomesVisible \/ Disconnect \/ Connect

\* Every request ends, events arrive, and the timers of the heartbeat, the poll, the
\* freshness check and the watches run while the tab is visible.
ScreenFairness ==
  /\ \A kind \in {"list", "load", "sync", "refresh"} :
       WF_screenVars(\E q \in Asks({kind}) : Loaded(q) \/ Listed(q) \/ Refreshed(q))
  /\ \A m \in Messages :
       /\ WF_screenVars(Accepts(m) \/ \E q \in asked : Posted(m, q) \/ PostFails(m, q))
       /\ WF_screenVars(\E q \in asked : Seen(m, q))
       /\ WF_screenVars(Watch(m)) /\ WF_screenVars(WatchEnds(m))
  /\ WF_screenVars(\E ev \in events : ReceiveEvent(ev))
  /\ WF_screenVars(Beat \/ Poll) /\ WF_screenVars(Freshen(active))

ScreenSpec == ScreenInit /\ [][ScreenNext]_screenVars
ScreenFairSpec == ScreenSpec /\ ScreenFairness

-----------------------------------------------------------------------------
\* Every state is typed, and of the refreshes of heartbeat, poll and reconnection at
\* most one is on its way: the later ones join it.
ScreenTypeOK ==
  /\ server \in [Messages -> Shown]
  /\ active \in Conversations /\ visible \in Conversations
  /\ list \in List /\ cache \in [Conversations -> List]
  /\ asked \subseteq [kind : {"list", "load", "sync", "refresh", "post", "watch"}, conv : Conversations,
                      was : BOOLEAN, page : List, kept : List]
  /\ events \subseteq [m : Messages, st : Shown, kind : {"created", "partial", "full"}]
  /\ socket \in {"up", "down"} /\ heartbeat \in {"set", "waits", "off", "dead"}
  /\ watched \in [Messages -> SUBSET {"poll", "verify"}]
  /\ crossed \in BOOLEAN
  /\ Cardinality(Asks({"list", "sync"})) <= 1
  /\ switches \in 0 .. MaxSwitches /\ breaks \in 0 .. MaxBreaks

Foreign(l, c) == {e \in Entries : l[e] # "none" /\ ConversationOf(e) # c}

\* A list, shown or kept, holds messages of its own conversation, unless an answer
\* arrived after the operator had gone elsewhere: then the list of one
\* conversation receives, and for good, the messages of another.
OwnMessagesOnly ==
  ~ crossed => Foreign(list, visible) = {} /\ \A c \in Conversations : Foreign(cache[c], c) = {}

\* A temporary PENDING message, on the screen or in a kept list, is one whose POST is
\* on its way, unless an answer has met another conversation: the event of the new
\* row, the answer of the POST and the refreshes race, and none leaves a phantom.
PendingIsOnItsWay ==
  ~ crossed =>
    \A m \in Messages, l \in {list} \cup {cache[c] : c \in Conversations} :
      l[Temp(m)] = "PENDING" => Posting(m)

\* The screen shows the conversation that is selected, as the server has it.
UpToDate ==
  /\ visible = active
  /\ \A m \in Messages : Of[m] = active => list[m] = server[m]

\* Whatever events are lost or late, whatever answers cross, the screen comes to
\* show what the server has and stays so, as long as the heartbeat lives.
ScreenCatchesUp == <>[]UpToDate \/ <>[](heartbeat = "dead")

\* "A inbox nunca ficar desatualizada, mesmo quando o socket esta connected mas
\* silencioso": the same without that proviso.
NeverOutdated == <>[]UpToDate
=============================================================================
