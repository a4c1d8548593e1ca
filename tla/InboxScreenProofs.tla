-------------------------- MODULE InboxScreenProofs --------------------------
(***************************************************************************)
(* Safety of the inbox of the panel, for any conversations and messages    *)
(* and any number of requests, events, switches and failures.              *)
(***************************************************************************)
EXTENDS InboxScreen, FiniteSetTheorems, TLAPS

-----------------------------------------------------------------------------
(* Facts about lists *)

\* A list that holds messages of conversation c only.
Own(l, c) == \A e \in Entries : l[e] # "none" => ConversationOf(e) = c

\* A list that holds no temporary message.
NoTemps(l) == \A m \in Messages : l[Temp(m)] = "none"

LEMMA OwnMeansNoForeign ==
  ASSUME NEW l, NEW c
  PROVE  Own(l, c) <=> Foreign(l, c) = {}
BY DEF Own, Foreign

LEMMA EntriesOfMessages ==
  ASSUME NEW m \in Messages
  PROVE  /\ m \in Entries /\ Temp(m) \in Entries
         /\ ConversationOf(m) = Of[m] /\ ConversationOf(Temp(m)) = Of[m]
         /\ \A x \in Messages : Temp(m) # x /\ (Temp(x) = Temp(m) => x = m)
BY ScreenAssumption DEF ScreenAssumption, Entries, ConversationOf, Temp

LEMMA NoListFacts ==
  /\ NoList \in List /\ NoTemps(NoList) /\ \A c : Own(NoList, c)
BY EntriesOfMessages DEF NoList, List, Shown, Own, NoTemps

LEMMA OnlyFacts ==
  ASSUME NEW x \in Entries, NEW st \in Shown
  PROVE  /\ Only(x, st) \in List /\ Only(x, st)[x] = st
         /\ \A e \in Entries : e # x => Only(x, st)[e] = "none"
         /\ Own(Only(x, st), ConversationOf(x))
         /\ x \in Messages => NoTemps(Only(x, st))
BY EntriesOfMessages DEF Only, NoList, List, Shown, Own, NoTemps

LEMMA MergedFacts ==
  ASSUME NEW old \in List, NEW new \in List
  PROVE  /\ Merged(old, new) \in List
         /\ \A e \in Entries :
              Merged(old, new)[e] = IF new[e] = "none" THEN old[e] ELSE new[e]
         /\ \A c : Own(old, c) /\ Own(new, c) => Own(Merged(old, new), c)
         /\ NoTemps(new) => \A m \in Messages : Merged(old, new)[Temp(m)] = old[Temp(m)]
BY EntriesOfMessages DEF Merged, List, Own, NoTemps

LEMMA PageFacts ==
  ASSUME server \in [Messages -> Shown], NEW c
  PROVE  Page(c) \in List /\ Own(Page(c), c) /\ NoTemps(Page(c))
BY EntriesOfMessages DEF Page, List, Shown, Own, NoTemps

-----------------------------------------------------------------------------
(* The invariant *)

Kinds == {"list", "load", "sync", "refresh", "post", "watch"}
Asked == [kind : Kinds, conv : Conversations, was : BOOLEAN, page : List, kept : List]

\* The answer to a request is about its conversation; only a POST has a temporary
\* message, and just one.
Honest(q) ==
  /\ q \in Asked
  /\ Own(q.page, q.conv)
  /\ ~ crossed => Own(q.kept, q.conv)
  /\ q.kind # "post" => NoTemps(q.page)
  /\ q.kind = "post" => \E m \in Messages : q.page = Only(Temp(m), "PENDING")

TypesOK ==
  /\ server \in [Messages -> Shown]
  /\ active \in Conversations /\ visible \in Conversations
  /\ events \subseteq [m : Messages, st : Shown, kind : {"created", "partial", "full"}]
  /\ socket \in {"up", "down"} /\ heartbeat \in {"set", "waits", "off", "dead"}
  /\ watched \in [Messages -> SUBSET {"poll", "verify"}]
  /\ crossed \in BOOLEAN
  /\ switches \in 0 .. MaxSwitches /\ breaks \in 0 .. MaxBreaks

\* List l is sound as the one of conversation c while an answer has crossed or not
\* (cr) and the requests a are on their way.
Sound(l, c, cr, a) ==
  /\ l \in List
  /\ ~ cr => /\ Own(l, c)
             /\ \A m \in Messages : l[Temp(m)] = "PENDING" =>
                  \E q \in a : q.kind = "post" /\ q.page[Temp(m)] # "none"

\* The lists on the screen and kept are sound.
ListsOK ==
  /\ Sound(list, visible, crossed, asked)
  /\ cache \in [Conversations -> List]
  /\ \A c \in Conversations : Sound(cache[c], c, crossed, asked)

OneSync == \A p, q \in Asks({"list", "sync"}) : p = q

IInv == TypesOK /\ ListsOK /\ OneSync /\ \A q \in asked : Honest(q)

LEMMA Typed == IInv => ScreenTypeOK
<1> SUFFICES ASSUME IInv PROVE ScreenTypeOK
  OBVIOUS
<1>1. Cardinality(Asks({"list", "sync"})) <= 1
  <2>1. CASE Asks({"list", "sync"}) = {}
    BY <2>1, FS_EmptySet
  <2>2. CASE Asks({"list", "sync"}) # {}
    <3>1. PICK q \in Asks({"list", "sync"}) : TRUE
      BY <2>2
    <3>2. Asks({"list", "sync"}) = {q}
      BY <3>1 DEF IInv, OneSync
    <3> QED
      BY <3>2, FS_Singleton
  <2> QED
    BY <2>1, <2>2
<1>2. asked \subseteq Asked
  BY DEF IInv, Honest
<1> QED
  BY <1>1, <1>2 DEF IInv, TypesOK, ListsOK, Sound, ScreenTypeOK, Asked, Kinds

LEMMA InitIInv == ScreenInit => IInv
<1> SUFFICES ASSUME ScreenInit PROVE IInv
  OBVIOUS
<1>1. NoList \in List /\ \A c : Own(NoList, c)
  BY NoListFacts
<1>2. TypesOK
  <2>1. [m \in Messages |-> "none"] \in [Messages -> Shown]
    BY DEF Shown
  <2>2. 0 \in 0 .. MaxSwitches /\ 0 \in 0 .. MaxBreaks
    BY ScreenAssumption DEF ScreenAssumption
  <2> QED
    BY <1>1, <2>1, <2>2 DEF ScreenInit, TypesOK
<1>3. \A c, cr, a : Sound(NoList, c, cr, a)
  BY NoListFacts DEF Sound, NoTemps
<1>4. ListsOK
  BY <1>1, <1>3 DEF ScreenInit, ListsOK
<1> QED
  BY <1>2, <1>4 DEF ScreenInit, IInv, OneSync, Asks

-----------------------------------------------------------------------------
(* What a request is when it is sent *)

LEMMA QuestionHonest ==
  ASSUME IInv, NEW kind \in Kinds, NEW c \in Conversations, NEW was \in BOOLEAN, NEW page \in List,
         Own(page, c),
         IF kind = "post" THEN \E m \in Messages : page = Only(Temp(m), "PENDING") ELSE NoTemps(page)
  PROVE  Honest(Question(kind, c, was, page)) /\ Question(kind, c, was, page).kind = kind
<1> DEFINE q == Question(kind, c, was, page)
           kept == IF kind \in {"sync", "refresh"} THEN cache[c] ELSE NoList
<1>1. kept \in List /\ (~ crossed => Own(kept, c))
  BY NoListFacts DEF IInv, ListsOK, Sound
<1>2. /\ q.kind = kind /\ q.conv = c /\ q.was = was /\ q.page = page /\ q.kept = kept
      /\ q = [kind |-> kind, conv |-> c, was |-> was, page |-> page, kept |-> kept]
  BY DEF Question
<1>3. q \in Asked
  BY <1>1, <1>2 DEF Asked
<1> HIDE DEF q, kept
<1>4. Honest(q)
  BY <1>1, <1>2, <1>3 DEF Honest
<1> QED
  BY <1>2, <1>4 DEF q

LEMMA KindsDiffer ==
  "watch" \in Kinds /\ "post" \in Kinds /\ "watch" # "post" /\ TRUE \in BOOLEAN
BY DEF Kinds

\* A step answers requests, asks one, or turns the list of conversations into a
\* question about the active one.
AsksOne ==
  \/ asked' \subseteq asked
  \/ \E q : /\ asked' = asked \cup {q} /\ Honest(q)
            /\ q.kind \in {"list", "sync"} => ~ Syncing
  \/ \E p \in Asks({"list"}) : \E q :
       asked' = (asked \ {p}) \cup {q} /\ Honest(q) /\ q.kind = "sync"

LEMMA AskPage ==
  ASSUME IInv, NEW kind \in {"load", "refresh"}, NEW c \in Conversations, NEW was \in BOOLEAN,
         Ask(Question(kind, c, was, Page(c)))
  PROVE  AsksOne
BY QuestionHonest, PageFacts DEF IInv, TypesOK, AsksOne, Ask, Kinds

LEMMA JoinAsks == ASSUME IInv, Join PROVE AsksOne
<1>1. active \in Conversations
  BY DEF IInv, TypesOK
<1>2. Honest(ListQuestion) /\ ListQuestion.kind = "list"
  <2>1. /\ NoList \in List /\ Own(NoList, active) /\ NoTemps(NoList)
        /\ "list" \in Kinds /\ "list" # "post" /\ TRUE \in BOOLEAN
    BY NoListFacts DEF Kinds
  <2> DEFINE page == NoList
  <2>2. page \in List /\ Own(page, active) /\ NoTemps(page)
    BY <2>1
  <2> HIDE DEF page
  <2>3. Honest(Question("list", active, TRUE, page)) /\ Question("list", active, TRUE, page).kind = "list"
    BY <1>1, <2>1, <2>2, QuestionHonest
  <2> QED
    BY <2>3 DEF ListQuestion, page
<1>3. asked' = asked \/ (~ Syncing /\ asked' = asked \cup {ListQuestion})
  BY DEF Join, Ask
<1> QED
  BY <1>2, <1>3 DEF AsksOne

LEMMA CrossedGrows == IInv /\ [ScreenNext]_screenVars => (crossed => crossed')
BY DEF IInv, TypesOK, ScreenNext, screenVars, view, link, Arrives, Accepts, Settles, Select, Loaded,
   Beat, Poll, BecomesVisible, Listed, Freshen, Refreshed, Lost, ReceiveEvent, Disconnect, Connect,
   SendFromPanel, Posted, PostFails, Watch, Seen, WatchEnds, Crosses

LEMMA AskStep == IInv /\ [ScreenNext]_screenVars => AsksOne
<1> SUFFICES ASSUME IInv, [ScreenNext]_screenVars PROVE AsksOne
  OBVIOUS
<1>1. ASSUME NEW m \in Messages, Arrives(m) PROVE AsksOne
  BY <1>1 DEF Arrives, AsksOne
<1>2. ASSUME NEW m \in Messages, Accepts(m) PROVE AsksOne
  BY <1>2 DEF Accepts, AsksOne
<1>3. ASSUME NEW m \in Messages, Settles(m) PROVE AsksOne
  BY <1>3 DEF Settles, AsksOne
<1>4. ASSUME NEW m \in Messages, SendFromPanel(m) PROVE AsksOne
  <2>1. /\ Temp(m) \in Entries /\ "PENDING" \in Shown /\ Of[m] \in Conversations
        /\ ConversationOf(Temp(m)) = Of[m]
    BY EntriesOfMessages, ScreenAssumption DEF ScreenAssumption, Shown
  <2>2. Honest(Question("post", active, TRUE, Only(Temp(m), "PENDING")))
        /\ Question("post", active, TRUE, Only(Temp(m), "PENDING")).kind = "post"
    <3>1. active \in Conversations /\ Of[m] = active
      BY <1>4 DEF SendFromPanel, IInv, TypesOK
    <3> DEFINE page == Only(Temp(m), "PENDING")
    <3>2. page \in List /\ Own(page, active) /\ \E x \in Messages : page = Only(Temp(x), "PENDING")
      BY <2>1, <3>1, OnlyFacts
    <3> HIDE DEF page
    <3>3. /\ Honest(Question("post", active, TRUE, page))
          /\ Question("post", active, TRUE, page).kind = "post"
      BY <3>1, <3>2, QuestionHonest, KindsDiffer
    <3> QED
      BY <3>3 DEF page
  <2> QED
    BY <1>4, <2>2 DEF SendFromPanel, AsksOne
<1>5. ASSUME NEW m \in Messages, Watch(m) PROVE AsksOne
  <2>1. /\ m \in Entries /\ server[m] \in Shown /\ Of[m] \in Conversations
        /\ ConversationOf(m) = Of[m]
    BY EntriesOfMessages, ScreenAssumption DEF ScreenAssumption, IInv, TypesOK
  <2>2. Honest(Question("watch", Of[m], TRUE, Only(m, server[m])))
        /\ Question("watch", Of[m], TRUE, Only(m, server[m])).kind = "watch"
    <3> DEFINE page == Only(m, server[m])
    <3>1. page \in List /\ Own(page, Of[m]) /\ NoTemps(page)
      BY <2>1, OnlyFacts
    <3> HIDE DEF page
    <3>2. /\ Honest(Question("watch", Of[m], TRUE, page))
          /\ Question("watch", Of[m], TRUE, page).kind = "watch"
      BY <2>1, <3>1, QuestionHonest, KindsDiffer
    <3> QED
      BY <3>2 DEF page
  <2> QED
    BY <1>5, <2>2 DEF Watch, Ask, AsksOne
<1>6. ASSUME NEW m \in Messages, WatchEnds(m) PROVE AsksOne
  BY <1>6 DEF WatchEnds, AsksOne
<1>7. ASSUME NEW m \in Messages, NEW q \in asked, Posted(m, q) PROVE AsksOne
  BY <1>7 DEF Posted, AsksOne
<1>8. ASSUME NEW m \in Messages, NEW q \in asked, PostFails(m, q) PROVE AsksOne
  BY <1>8 DEF PostFails, AsksOne
<1>9. ASSUME NEW m \in Messages, NEW q \in asked, Seen(m, q) PROVE AsksOne
  BY <1>9 DEF Seen, AsksOne
<1>10. ASSUME NEW c \in Conversations, Select(c) PROVE AsksOne
  <2>1. \/ asked' = asked
        \/ \E kind \in {"load", "refresh"} : Ask(Question(kind, c, TRUE, Page(c)))
    BY <1>10 DEF Select
  <2> QED
    BY <2>1, AskPage DEF AsksOne
<1>11. ASSUME NEW c \in Conversations, Freshen(c) PROVE AsksOne
  BY <1>11, AskPage DEF Freshen
<1>12. ASSUME NEW q \in asked, Loaded(q) PROVE AsksOne
  BY <1>12 DEF Loaded, AsksOne
<1>13. ASSUME NEW q \in asked, Refreshed(q) PROVE AsksOne
  BY <1>13 DEF Refreshed, AsksOne
<1>14. ASSUME NEW q \in asked, Lost(q) PROVE AsksOne
  BY <1>14 DEF Lost, AsksOne
<1>15. ASSUME NEW ev \in events, ReceiveEvent(ev) PROVE AsksOne
  BY <1>15 DEF ReceiveEvent, AsksOne
<1>16. ASSUME Beat PROVE AsksOne
  BY <1>16, JoinAsks DEF Beat
<1>17. ASSUME Poll \/ BecomesVisible PROVE AsksOne
  BY <1>17, JoinAsks DEF Poll, BecomesVisible
<1>18. ASSUME Disconnect PROVE AsksOne
  BY <1>18 DEF Disconnect, AsksOne
<1>19. ASSUME Connect PROVE AsksOne
  BY <1>19, JoinAsks DEF Connect
<1>20. ASSUME NEW q \in asked, Listed(q) PROVE AsksOne
  <2>1. active \in Conversations /\ Page(active) \in List
        /\ Own(Page(active), active) /\ NoTemps(Page(active))
    BY PageFacts DEF IInv, TypesOK
  <2>2. Honest(SyncQuestion) /\ SyncQuestion.kind = "sync"
    <3> DEFINE page == Page(active)
    <3>1. page \in List /\ Own(page, active) /\ NoTemps(page)
      BY <2>1
    <3>2. "sync" \in Kinds /\ "sync" # "post" /\ TRUE \in BOOLEAN
      BY DEF Kinds
    <3> HIDE DEF page
    <3>3. /\ Honest(Question("sync", active, TRUE, page))
          /\ Question("sync", active, TRUE, page).kind = "sync"
      BY <2>1, <3>1, <3>2, QuestionHonest
    <3> QED
      BY <3>3 DEF SyncQuestion, page
  <2>3. q \in Asks({"list"}) /\ asked' = (asked \ {q}) \cup {SyncQuestion}
    BY <1>20 DEF Listed, Asks
  <2> QED
    BY <2>2, <2>3 DEF AsksOne
<1>21. CASE UNCHANGED screenVars
  BY <1>21 DEF screenVars, view, link, AsksOne
<1> QED
  BY <1>1, <1>2, <1>3, <1>4, <1>5, <1>6, <1>7, <1>8, <1>9, <1>10, <1>11, <1>12, <1>13, <1>14,
     <1>15, <1>16, <1>17, <1>18, <1>19, <1>20, <1>21 DEF ScreenNext

LEMMA AskedStep ==
  IInv /\ [ScreenNext]_screenVars => OneSync' /\ \A q \in asked' : Honest(q)'
<1> SUFFICES ASSUME IInv, [ScreenNext]_screenVars
             PROVE  OneSync' /\ \A q \in asked' : Honest(q)'
  OBVIOUS
<1>1. \A q : Honest(q) => Honest(q)'
  BY CrossedGrows DEF Honest
<1>2. CASE asked' \subseteq asked
  BY <1>1, <1>2 DEF IInv, OneSync, Asks
<1>3. ASSUME NEW q, asked' = asked \cup {q}, Honest(q), q.kind \in {"list", "sync"} => ~ Syncing
      PROVE  OneSync' /\ \A p \in asked' : Honest(p)'
  BY <1>1, <1>3 DEF IInv, OneSync, Syncing, Asks
<1>4. ASSUME NEW p \in Asks({"list"}), NEW q, asked' = (asked \ {p}) \cup {q}, Honest(q), q.kind = "sync"
      PROVE  OneSync' /\ \A x \in asked' : Honest(x)'
  <2>1. \A x \in Asks({"list", "sync"}) : x = p
    BY DEF IInv, OneSync, Asks
  <2>2. Asks({"list", "sync"})' = {q}
    BY <1>4, <2>1 DEF Asks
  <2>3. \A x \in asked' : Honest(x)'
    BY <1>1, <1>4 DEF IInv
  <2> QED
    BY <2>2, <2>3 DEF OneSync
<1> QED
  BY <1>2, <1>3, <1>4, AskStep DEF AsksOne

-----------------------------------------------------------------------------
(* What a step does to the rest of the state *)

LEMMA TypesStep == IInv /\ [ScreenNext]_screenVars => TypesOK'
<1> SUFFICES ASSUME IInv, [ScreenNext]_screenVars PROVE TypesOK'
  OBVIOUS
<1>1. ASSUME NEW m \in Messages, Arrives(m) PROVE TypesOK'
  BY <1>1 DEF Arrives, Publish, Shown, view, link, IInv, TypesOK
<1>2. ASSUME NEW m \in Messages, Accepts(m) PROVE TypesOK'
  BY <1>2 DEF Accepts, Publish, Shown, view, link, IInv, TypesOK
<1>3. ASSUME NEW m \in Messages, Settles(m) PROVE TypesOK'
  BY <1>3 DEF Settles, Publish, Shown, view, link, IInv, TypesOK
<1>4. ASSUME NEW m \in Messages, SendFromPanel(m) PROVE TypesOK'
  BY <1>4 DEF SendFromPanel, Shows, Crosses, view, link, IInv, TypesOK
<1>5. ASSUME NEW m \in Messages, Watch(m) PROVE TypesOK'
  BY <1>5 DEF Watch, Ask, view, link, IInv, TypesOK
<1>6. ASSUME NEW m \in Messages, WatchEnds(m) PROVE TypesOK'
  <2>1. visible' = visible
    BY <1>6 DEF WatchEnds, Shows
  <2>2. watched' \in [Messages -> SUBSET {"poll", "verify"}]
    BY <1>6 DEF WatchEnds, IInv, TypesOK
  <2> QED
    BY <1>6, <2>1, <2>2 DEF WatchEnds, view, link, IInv, TypesOK
<1>7. ASSUME NEW m \in Messages, NEW q \in asked, Posted(m, q) PROVE TypesOK'
  BY <1>7 DEF Posted, Shows, view, link, Crosses, IInv, TypesOK
<1>8. ASSUME NEW m \in Messages, NEW q \in asked, PostFails(m, q) PROVE TypesOK'
  <2>1. breaks' \in 0 .. MaxBreaks
    BY <1>8, ScreenAssumption DEF PostFails, view, link, Breaks, ScreenAssumption, IInv, TypesOK
  <2> QED
    BY <1>8, <2>1 DEF PostFails, Shows, view, link, Crosses, IInv, TypesOK
<1>9. ASSUME NEW m \in Messages, NEW q \in asked, Seen(m, q) PROVE TypesOK'
  <2>1. visible' = visible /\ crossed' \in BOOLEAN
    BY <1>9 DEF Seen, Shows, Crosses, IInv, TypesOK
  <2>2. watched' \in [Messages -> SUBSET {"poll", "verify"}]
    BY <1>9 DEF Seen, IInv, TypesOK
  <2> QED
    BY <1>9, <2>1, <2>2 DEF Seen, view, link, IInv, TypesOK
<1>10. ASSUME NEW c \in Conversations, Select(c) PROVE TypesOK'
  <2>1. switches' \in 0 .. MaxSwitches
    BY <1>10, ScreenAssumption DEF Select, view, link, ScreenAssumption, IInv, TypesOK
  <2>2. visible' \in {visible, c}
    BY <1>10 DEF Select, Shows
  <2> QED
    BY <1>10, <2>1, <2>2 DEF Select, view, link, IInv, TypesOK
<1>11. ASSUME NEW c \in Conversations, Freshen(c) PROVE TypesOK'
  BY <1>11 DEF Freshen, Ask, view, link, IInv, TypesOK
<1>12. ASSUME NEW q \in asked, Loaded(q) PROVE TypesOK'
  BY <1>12 DEF Loaded, Shows, view, link, IInv, TypesOK, Honest, Asked
<1>13. ASSUME NEW q \in asked, Refreshed(q) PROVE TypesOK'
  <2>1. q.conv \in Conversations
    BY DEF IInv, Honest, Asked
  <2>2. visible' \in {visible, q.conv}
    BY <1>13 DEF Refreshed, Shows
  <2>3. /\ heartbeat' \in {heartbeat, "set"} /\ crossed' \in BOOLEAN
        /\ UNCHANGED <<server, active, events, socket, watched, switches, breaks>>
    BY <1>13 DEF Refreshed, view, link, Rests, IInv, TypesOK
  <2> QED
    BY <2>1, <2>2, <2>3 DEF IInv, TypesOK
<1>14. ASSUME NEW q \in asked, Lost(q) PROVE TypesOK'
  <2>1. breaks' \in 0 .. MaxBreaks
    BY <1>14, ScreenAssumption DEF Lost, Breaks, ScreenAssumption, IInv, TypesOK
  <2> QED
    BY <1>14, <2>1 DEF Lost, view, link, IInv, TypesOK
<1>15. ASSUME NEW ev \in events, ReceiveEvent(ev) PROVE TypesOK'
  <2>1. visible' = visible
    BY <1>15 DEF ReceiveEvent, Shows
  <2> QED
    BY <1>15, <2>1 DEF ReceiveEvent, view, link, IInv, TypesOK
<1>16. ASSUME Beat PROVE TypesOK'
  BY <1>16 DEF Beat, view, link, IInv, TypesOK
<1>17. ASSUME Poll \/ BecomesVisible PROVE TypesOK'
  <2>1. switches' \in 0 .. MaxSwitches
    BY <1>17, ScreenAssumption DEF Poll, BecomesVisible, ScreenAssumption, IInv, TypesOK
  <2> QED
    BY <1>17, <2>1 DEF Poll, BecomesVisible, view, link, IInv, TypesOK
<1>18. ASSUME Disconnect PROVE TypesOK'
  <2>1. breaks' \in 0 .. MaxBreaks
    BY <1>18, ScreenAssumption DEF Disconnect, Breaks, ScreenAssumption, IInv, TypesOK
  <2> QED
    BY <1>18, <2>1 DEF Disconnect, view, link, IInv, TypesOK
<1>19. ASSUME Connect PROVE TypesOK'
  BY <1>19 DEF Connect, view, link, IInv, TypesOK
<1>20. ASSUME NEW q \in asked, Listed(q) PROVE TypesOK'
  BY <1>20 DEF Listed, view, link, IInv, TypesOK
<1>21. CASE UNCHANGED screenVars
  BY <1>21 DEF screenVars, view, link, IInv, TypesOK
<1> QED
  BY <1>1, <1>2, <1>3, <1>4, <1>5, <1>6, <1>7, <1>8, <1>9, <1>10, <1>11, <1>12, <1>13, <1>14,
     <1>15, <1>16, <1>17, <1>18, <1>19, <1>20, <1>21 DEF ScreenNext

-----------------------------------------------------------------------------
(* What a step does to the lists *)

LEMMA SoundPage ==
  ASSUME NEW l \in List, NEW c, Own(l, c), NoTemps(l), NEW cr, NEW a
  PROVE  Sound(l, c, cr, a)
BY DEF Sound, NoTemps

LEMMA SoundMerged ==
  ASSUME NEW old, NEW new, NEW c, NEW cr, NEW a, Sound(old, c, cr, a), Sound(new, c, cr, a)
  PROVE  Sound(Merged(old, new), c, cr, a)
<1>1. /\ Merged(old, new) \in List
      /\ \A e \in Entries : Merged(old, new)[e] = IF new[e] = "none" THEN old[e] ELSE new[e]
      /\ Own(old, c) /\ Own(new, c) => Own(Merged(old, new), c)
  BY MergedFacts DEF Sound
<1>2. \A m \in Messages : Merged(old, new)[Temp(m)] \in {old[Temp(m)], new[Temp(m)]}
  BY <1>1, EntriesOfMessages
<1> QED
  BY <1>1, <1>2 DEF Sound

LEMMA StillSound ==
  ASSUME NEW l, NEW c, NEW cr, NEW cs, NEW a, NEW b, Sound(l, c, cr, a),
         cr => cs, \A q \in a : q.kind = "post" => q \in b
  PROVE  Sound(l, c, cs, b)
BY DEF Sound

\* The POST of m is answered: the lists without its temporary message stay sound.
LEMMA PostAnswered ==
  ASSUME IInv, NEW m \in Messages, NEW q \in asked, q.kind = "post", q.page[Temp(m)] # "none",
         NEW l, NEW c, NEW cs, Sound(l, c, crossed, asked), crossed => cs,
         ~ cs => l[Temp(m)] # "PENDING"
  PROVE  Sound(l, c, cs, asked \ {q})
<1>1. PICK y \in Messages : q.page = Only(Temp(y), "PENDING")
  BY DEF IInv, Honest
<1>2. \A x \in Messages : x # m => q.page[Temp(x)] = "none"
  BY <1>1, EntriesOfMessages, OnlyFacts DEF Shown
<1> QED
  BY <1>2 DEF Sound

LEMMA Quiet ==
  ASSUME IInv, visible' = visible, list' = list, cache' = cache, crossed => crossed',
         \A q \in asked : q.kind = "post" => q \in asked'
  PROVE  ListsOK'
<1>1. Sound(list, visible, crossed', asked')
  BY StillSound DEF IInv, ListsOK
<1>2. \A c \in Conversations : Sound(cache[c], c, crossed', asked')
  BY StillSound DEF IInv, ListsOK
<1> QED
  BY <1>1, <1>2 DEF IInv, ListsOK

LEMMA ShowsSound ==
  ASSUME NEW c \in Conversations, NEW l, NEW kept \in [Conversations -> List], Shows(c, l, kept),
         Sound(l, c, crossed', asked'),
         \A d \in Conversations \ {c} : Sound(kept[d], d, crossed', asked')
  PROVE  ListsOK'
<1>1. l \in List
  BY DEF Sound
<1>2. /\ visible' = c /\ list' = l /\ cache' \in [Conversations -> List]
      /\ cache'[c] = l /\ \A d \in Conversations \ {c} : cache'[d] = kept[d]
  BY <1>1 DEF Shows
<1>3. \A d \in Conversations : Sound(cache'[d], d, crossed', asked')
  BY <1>2
<1> QED
  BY <1>2, <1>3 DEF ListsOK

\* The list shown changes, and no POST is answered.
LEMMA ShowsMore ==
  ASSUME IInv, NEW new, Shows(visible, Merged(list, new), cache), crossed => crossed',
         \A q \in asked : q.kind = "post" => q \in asked',
         Sound(new, visible, crossed', asked')
  PROVE  ListsOK'
<1>1. /\ visible \in Conversations /\ cache \in [Conversations -> List]
      /\ Sound(list, visible, crossed', asked')
      /\ \A d \in Conversations : Sound(cache[d], d, crossed', asked')
  BY StillSound DEF IInv, TypesOK, ListsOK
<1>2. Sound(Merged(list, new), visible, crossed', asked')
  BY <1>1, SoundMerged
<1> QED
  BY <1>1, <1>2, ShowsSound

LEMMA ListsStep == IInv /\ [ScreenNext]_screenVars => ListsOK'
<1> SUFFICES ASSUME IInv, [ScreenNext]_screenVars PROVE ListsOK'
  OBVIOUS
<1>0. /\ crossed => crossed'
      /\ visible \in Conversations /\ active \in Conversations
      /\ list \in List /\ cache \in [Conversations -> List]
  BY CrossedGrows DEF IInv, TypesOK, ListsOK, Sound
<1>1. ASSUME NEW m \in Messages, Arrives(m) \/ Accepts(m) \/ Settles(m) PROVE ListsOK'
  BY <1>0, <1>1, Quiet DEF Arrives, Accepts, Settles, view
<1>2. ASSUME NEW m \in Messages, SendFromPanel(m) PROVE ListsOK'
  <2> DEFINE temp == Only(Temp(m), "PENDING")
             post == Question("post", active, TRUE, temp)
  <2>1. temp \in List /\ Own(temp, Of[m]) /\ temp[Temp(m)] = "PENDING"
        /\ \A x \in Messages : x # m => temp[Temp(x)] = "none"
    BY EntriesOfMessages, OnlyFacts DEF Shown
  <2>2. post.kind = "post" /\ post.page = temp
    BY DEF Question
  <2>3. /\ Shows(visible, Merged(list, temp), cache) /\ asked' = asked \cup {post}
        /\ ~ crossed' => Of[m] = visible
    BY <1>2 DEF SendFromPanel, Crosses
  <2> HIDE DEF temp, post
  <2>4. Sound(temp, visible, crossed', asked')
    BY <2>1, <2>2, <2>3 DEF Sound
  <2> QED
    BY <1>0, <2>3, <2>4, ShowsMore
<1>3. ASSUME NEW m \in Messages, Watch(m) PROVE ListsOK'
  BY <1>0, <1>3, Quiet DEF Watch, Ask, view
<1>4. ASSUME NEW m \in Messages, WatchEnds(m) PROVE ListsOK'
  <2>1. CASE UNCHANGED <<visible, list, cache>>
    BY <1>0, <1>4, <2>1, Quiet DEF WatchEnds
  <2>2. CASE list[m] = "PENDING" /\ Shows(visible, [list EXCEPT ![m] = "FAILED"], cache)
    <3> DEFINE failed == [list EXCEPT ![m] = "FAILED"]
    <3>1. /\ m \in Entries /\ failed \in List
          /\ \A e \in Entries : failed[e] # "none" => list[e] # "none"
          /\ \A x \in Messages : failed[Temp(x)] = list[Temp(x)]
      BY <1>0, <2>2, EntriesOfMessages DEF List, Shown
    <3>2. crossed' = crossed /\ asked' = asked
      BY <1>4 DEF WatchEnds
    <3> HIDE DEF failed
    <3>3. Sound(failed, visible, crossed', asked')
      BY <3>1, <3>2 DEF IInv, ListsOK, Sound, Own
    <3>4. \A d \in Conversations : Sound(cache[d], d, crossed', asked')
      BY <3>2 DEF IInv, ListsOK
    <3>5. Shows(visible, failed, cache)
      BY <2>2 DEF failed
    <3> QED
      BY <1>0, <3>3, <3>4, <3>5, ShowsSound
  <2> QED
    BY <1>4, <2>1, <2>2 DEF WatchEnds
<1>5. ASSUME NEW m \in Messages, NEW q \in asked, Posted(m, q) \/ PostFails(m, q) PROVE ListsOK'
  <2>1. /\ q.kind = "post" /\ q.page[Temp(m)] # "none" /\ asked' = asked \ {q}
        /\ ~ crossed' => ~ crossed /\ q.conv = visible
    BY <1>5 DEF Posted, PostFails, Crosses
  <2>2. q.conv = Of[m]
    BY <2>1, EntriesOfMessages DEF IInv, Honest, Own
  <2>3. \A d \in Conversations \ {visible} : Sound(cache[d], d, crossed', asked')
    <3> TAKE d \in Conversations \ {visible}
    <3>1. Sound(cache[d], d, crossed, asked)
      BY DEF IInv, ListsOK
    <3>2. ~ crossed' => cache[d][Temp(m)] # "PENDING"
      BY <2>1, <2>2, <3>1, EntriesOfMessages DEF Sound, Own
    <3> QED
      BY <1>0, <2>1, <3>1, <3>2, PostAnswered
  <2> DEFINE rest == [list EXCEPT ![Temp(m)] = "none"]
  <2>4. /\ rest \in List /\ rest[Temp(m)] = "none"
        /\ \A e \in Entries : rest[e] # "none" => rest[e] = list[e]
    BY <1>0, EntriesOfMessages DEF List, Shown
  <2>5. Sound(list, visible, crossed, asked)
    BY DEF IInv, ListsOK
  <2> HIDE DEF rest
  <2>6. Sound(rest, visible, crossed, asked)
    BY <2>4, <2>5, EntriesOfMessages DEF Sound, Own
  <2>7. Sound(rest, visible, crossed', asked')
    BY <1>0, <2>1, <2>4, <2>6, PostAnswered
  <2>8. CASE Posted(m, q)
    <3> DEFINE row == Only(m, "PENDING")
    <3>1. row \in List /\ Own(row, Of[m]) /\ NoTemps(row)
      BY EntriesOfMessages, OnlyFacts DEF Shown
    <3>2. Shows(visible, Merged(rest, row), cache)
      BY <2>8 DEF Posted, AnsweredBy, rest
    <3> HIDE DEF row
    <3>3. Sound(row, visible, crossed', asked')
      BY <2>1, <2>2, <3>1 DEF Sound, NoTemps
    <3> QED
      BY <1>0, <2>3, <2>7, <3>2, <3>3, SoundMerged, ShowsSound
  <2>9. CASE PostFails(m, q)
    <3> DEFINE temp == Only(Temp(m), "FAILED")
    <3>1. temp \in List /\ Own(temp, Of[m]) /\ \A x \in Messages : temp[Temp(x)] # "PENDING"
      BY EntriesOfMessages, OnlyFacts DEF Shown
    <3>2. temp[Temp(m)] = "FAILED"
      BY EntriesOfMessages, OnlyFacts DEF Shown
    <3>3. Shows(visible, Merged(list, temp), cache)
      BY <2>9 DEF PostFails
    <3> HIDE DEF temp
    <3>4. Sound(temp, visible, crossed', asked')
      BY <2>1, <2>2, <3>1 DEF Sound
    <3>5. Merged(list, temp) = Merged(rest, temp)
      <4>1. temp \in List /\ list \in List
        BY <1>0, <3>1
      <4>2. \A e \in Entries : temp[e] = "none" => rest[e] = list[e]
        BY <1>0, <3>2 DEF rest, List
      <4> QED
        BY <4>2 DEF Merged
    <3> QED
      BY <1>0, <2>3, <2>7, <3>3, <3>4, <3>5, SoundMerged, ShowsSound
  <2> QED
    BY <1>5, <2>8, <2>9
<1>6. ASSUME NEW m \in Messages, NEW q \in asked, Seen(m, q) PROVE ListsOK'
  <2>1. q.kind = "watch" /\ asked' = asked \ {q}
    BY <1>6 DEF Seen
  <2>2. CASE UNCHANGED <<visible, list, cache>>
    BY <1>0, <2>1, <2>2, Quiet
  <2>3. CASE Shows(visible, Merged(list, q.page), cache) /\ Crosses(q.conv)
    <3>1. q.page \in List /\ Own(q.page, q.conv) /\ NoTemps(q.page)
      BY <2>1 DEF IInv, Honest, Asked
    <3>2. ~ crossed' => q.conv = visible
      BY <2>3 DEF Crosses
    <3>3. Sound(q.page, visible, crossed', asked')
      BY <3>1, <3>2 DEF Sound, NoTemps
    <3> QED
      BY <1>0, <2>1, <2>3, <3>3, ShowsMore
  <2> QED
    BY <1>6, <2>2, <2>3 DEF Seen
<1>7. ASSUME NEW c \in Conversations, Select(c) PROVE ListsOK'
  <2>1. crossed' = crossed /\ \A q \in asked : q \in asked'
    BY <1>7 DEF Select, Ask
  <2>2. CASE UNCHANGED <<visible, list, cache>>
    BY <1>0, <2>1, <2>2, Quiet
  <2>3. CASE Shows(c, cache[c], cache)
    <3>1. \A d \in Conversations : Sound(cache[d], d, crossed', asked')
      BY <2>1, StillSound DEF IInv, ListsOK
    <3> QED
      BY <1>0, <2>3, <3>1, ShowsSound
  <2> QED
    BY <1>7, <2>2, <2>3 DEF Select
<1>8. ASSUME NEW c \in Conversations, Freshen(c) PROVE ListsOK'
  BY <1>0, <1>8, Quiet DEF Freshen, Ask, view
<1>9. ASSUME NEW q \in asked, Loaded(q) PROVE ListsOK'
  <2>1. Shows(q.conv, q.page, cache) /\ asked' = asked \ {q} /\ q.kind = "load"
    BY <1>9 DEF Loaded
  <2>2. /\ q.conv \in Conversations /\ q.page \in List
        /\ Own(q.page, q.conv) /\ NoTemps(q.page)
    BY <2>1 DEF IInv, Honest, Asked
  <2>3. Sound(q.page, q.conv, crossed', asked')
    BY <2>2, SoundPage
  <2>4. \A d \in Conversations : Sound(cache[d], d, crossed', asked')
    BY <1>0, <2>1, StillSound DEF IInv, ListsOK
  <2> QED
    BY <1>0, <2>1, <2>2, <2>3, <2>4, ShowsSound
<1>10. ASSUME NEW q \in asked, Refreshed(q) PROVE ListsOK'
  <2> DEFINE base == IF visible = q.conv THEN list ELSE q.kept
             next == Merged(base, q.page)
  <2>1. /\ q.kind \in {"sync", "refresh"} /\ asked' = asked \ {q}
        /\ ~ crossed' => ~ crossed /\ (visible = q.conv \/ q.kept = NoList)
        /\ \/ Shows(q.conv, next, cache)
           \/ cache' = [cache EXCEPT ![q.conv] = next] /\ visible' = visible /\ list' = list
    BY <1>10 DEF Refreshed
  <2>2. /\ q.conv \in Conversations /\ q.page \in List /\ q.kept \in List
        /\ Own(q.page, q.conv) /\ NoTemps(q.page)
    BY <2>1 DEF IInv, Honest, Asked
  <2>3. /\ Sound(list, visible, crossed', asked')
        /\ \A d \in Conversations : Sound(cache[d], d, crossed', asked')
    BY <1>0, <2>1, StillSound DEF IInv, ListsOK
  <2>4. Sound(NoList, q.conv, crossed', asked')
    BY NoListFacts, SoundPage
  <2>5. Sound(base, q.conv, crossed', asked')
    <3>1. CASE visible = q.conv
      BY <2>3, <3>1
    <3>2. CASE visible # q.conv /\ crossed'
      BY <2>2, <3>2 DEF Sound
    <3>3. CASE visible # q.conv /\ ~ crossed'
      BY <2>1, <2>4, <3>3
    <3> QED
      BY <3>1, <3>2, <3>3
  <2> HIDE DEF base
  <2>6. Sound(next, q.conv, crossed', asked')
    BY <2>2, <2>5, SoundPage, SoundMerged
  <2> HIDE DEF next
  <2>7. CASE Shows(q.conv, next, cache)
    BY <1>0, <2>2, <2>3, <2>6, <2>7, ShowsSound
  <2>8. CASE cache' = [cache EXCEPT ![q.conv] = next] /\ visible' = visible /\ list' = list
    <3>1. next \in List
      BY <2>6 DEF Sound
    <3>2. cache' \in [Conversations -> List]
          /\ \A d \in Conversations : cache'[d] = IF d = q.conv THEN next ELSE cache[d]
      BY <1>0, <2>8, <3>1
    <3>3. \A d \in Conversations : Sound(cache'[d], d, crossed', asked')
      BY <2>3, <2>6, <3>2
    <3> QED
      BY <2>3, <2>8, <3>2, <3>3 DEF ListsOK
  <2> QED
    BY <2>1, <2>7, <2>8
<1>11. ASSUME NEW q \in asked, Lost(q) \/ Listed(q) PROVE ListsOK'
  <2>1. /\ q.kind # "post" /\ visible' = visible /\ list' = list /\ cache' = cache
        /\ \A p \in asked : p # q => p \in asked'
    BY <1>11 DEF Lost, Listed, view
  <2> QED
    BY <1>0, <2>1, Quiet
<1>12. ASSUME NEW ev \in events, ReceiveEvent(ev) PROVE ListsOK'
  <2> DEFINE c    == Of[ev.m]
             row  == Only(ev.m, ev.st)
             kept == IF ev.kind # "partial" /\ ~ IsVisible(c) /\ cache[c] # NoList
                     THEN [cache EXCEPT ![c] = Merged(@, row)] ELSE cache
  <2>1. /\ ev.m \in Messages /\ ev.m \in Entries /\ c \in Conversations
        /\ row \in List /\ Own(row, c) /\ NoTemps(row) /\ ConversationOf(ev.m) = c
    BY EntriesOfMessages, OnlyFacts, ScreenAssumption DEF ScreenAssumption, IInv, TypesOK
  <2>2. /\ crossed' = crossed /\ asked' = asked
        /\ \/ /\ list[ev.m] # "none" \/ c = visible
              /\ Shows(visible, Merged(list, row), kept)
           \/ cache' = kept /\ visible' = visible /\ list' = list
    BY <1>12 DEF ReceiveEvent, IsVisible
  <2> HIDE DEF row
  <2>3. /\ Sound(list, visible, crossed, asked)
        /\ \A d \in Conversations : Sound(cache[d], d, crossed, asked)
    BY DEF IInv, ListsOK
  <2>4. Sound(row, c, crossed, asked)
    BY <2>1, SoundPage
  <2>5. Sound(Merged(cache[c], row), c, crossed, asked)
    BY <2>1, <2>3, <2>4, SoundMerged
  <2>6. Merged(cache[c], row) \in List
    BY <2>5 DEF Sound
  <2>7. kept \in [Conversations -> List]
        /\ \A d \in Conversations : kept[d] \in {cache[d]} \/ (d = c /\ kept[d] = Merged(cache[c], row))
    BY <1>0, <2>1, <2>6
  <2> HIDE DEF kept
  <2>8. \A d \in Conversations : Sound(kept[d], d, crossed, asked)
    BY <2>3, <2>5, <2>7
  <2>9. CASE cache' = kept /\ visible' = visible /\ list' = list
    BY <2>2, <2>3, <2>7, <2>8, <2>9 DEF ListsOK
  <2>10. CASE Shows(visible, Merged(list, row), kept) /\ (list[ev.m] # "none" \/ c = visible)
    <3>1. ~ crossed => c = visible
      BY <2>1, <2>3, <2>10 DEF Sound, Own
    <3>2. Sound(row, visible, crossed, asked)
      BY <2>1, <2>4, <3>1 DEF Sound
    <3>3. Sound(Merged(list, row), visible, crossed', asked')
      BY <2>2, <2>3, <3>2, SoundMerged
    <3> QED
      BY <1>0, <2>2, <2>7, <2>8, <2>10, <3>3, ShowsSound
  <2> QED
    BY <2>2, <2>9, <2>10
<1>13. ASSUME Beat \/ Poll \/ BecomesVisible \/ Connect PROVE ListsOK'
  BY <1>0, <1>13, Quiet DEF Beat, Poll, BecomesVisible, Connect, Join, Ask, view
<1>14. ASSUME Disconnect PROVE ListsOK'
  BY <1>0, <1>14, Quiet DEF Disconnect, view
<1>15. CASE UNCHANGED screenVars
  BY <1>0, <1>15, Quiet DEF screenVars, view
<1> QED
  BY <1>1, <1>2, <1>3, <1>4, <1>5, <1>6, <1>7, <1>8, <1>9, <1>10, <1>11, <1>12, <1>13, <1>14,
     <1>15 DEF ScreenNext

-----------------------------------------------------------------------------
(* Theorems *)

LEMMA Inductive == ScreenSpec => []IInv
<1>1. IInv /\ [ScreenNext]_screenVars => IInv'
  BY AskedStep, TypesStep, ListsStep DEF IInv
<1> QED
  BY <1>1, InitIInv, PTL DEF ScreenSpec

\* Every state of the panel is typed, and the heartbeat, the poll and the
\* reconnection have one refresh on its way among them, however they alternate.
THEOREM ScreenTyped == ScreenSpec => []ScreenTypeOK
BY Inductive, Typed, PTL

\* Until an answer arrives after the operator has gone elsewhere, every list, shown
\* or kept, holds messages of its own conversation only.
THEOREM ListsStayOwn == ScreenSpec => []OwnMessagesOnly
<1>1. IInv => OwnMessagesOnly
  BY OwnMeansNoForeign DEF IInv, ListsOK, Sound, OwnMessagesOnly
<1> QED
  BY <1>1, Inductive, PTL

\* Until then a temporary message that says PENDING, on the screen or in a kept list,
\* has its POST on its way: events, answers and refreshes leave no phantom.
THEOREM PendingStaysAwaited == ScreenSpec => []PendingIsOnItsWay
<1>1. IInv => PendingIsOnItsWay
  BY DEF IInv, ListsOK, Sound, PendingIsOnItsWay, Posting, Asks
<1> QED
  BY <1>1, Inductive, PTL
=============================================================================
