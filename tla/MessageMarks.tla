---------------------------- MODULE MessageMarks ----------------------------
(***************************************************************************)
(* What is done to one message of the inbox after it was sent or received: *)
(* reactions and deletions.  Both live in the row's metadataJson, which    *)
(* every writer rewrites as a whole from the row it read before: the panel *)
(* routes (after a call to Evolution) and the webhooks Evolution posts for *)
(* the same marks and for those made on the phones.                        *)
(*                                                                         *)
(* WhatsApp numbers the marks (a history variable): of one actor's marks   *)
(* the one with the highest number counts.                                 *)
(***************************************************************************)
EXTENDS Naturals, FiniteSets

CONSTANTS
  Contacts,     \* people of the conversation; Self is the number of the panel
  Self, Emoji, Nothing,
  Jobs,         \* requests and webhooks being handled
  MaxMarks,     \* bound: marks made on WhatsApp
  MaxMarkFaults \* bound: calls that fail

Actors == Contacts \cup {Self}
Scopes == {"EVERYONE", "ME"}

ASSUME MarksAssumption ==
  /\ Self \notin Contacts /\ Nothing \notin Emoji \cup Scopes /\ Emoji \cap Scopes = {}
  /\ {MaxMarks, MaxMarkFaults} \subseteq Nat

VARIABLES
  row,       \* the message's row
  jobs,      \* jobs[j]: a request or webhook
  posted,    \* the webhooks Evolution has to post
  keys,      \* idempotency keys that are claimed or done
  made,      \* number of the last mark made on WhatsApp
  shows,     \* shows[a]: the reaction WhatsApp shows of actor a
  gone,      \* the scope of the deletion on WhatsApp
  written,   \* written[a]: highest number of a's marks written to the row
  overlapped, \* a job wrote although the row had changed since it read it
  misled,    \* actors whose mark was ignored, or handled after a later one
  failures

marksVars == <<row, jobs, posted, keys, made, shows, gone, written, overlapped, misled, failures>>

\* A mark: an actor's emoji (Nothing removes it) or deletion of the message.
Mark == [who : Actors, is : Emoji \cup Scopes \cup {Nothing}, n : 1 .. MaxMarks]
Meta == [items : SUBSET [who : Actors, emoji : Emoji], deletion : Scopes \cup {Nothing},
         correlated : BOOLEAN]
Idle == [pc |-> "idle"]
Job  == [pc : {"send", "write", "correlate", "publish"}, route : BOOLEAN,
         mark : [who : Actors, is : Emoji \cup Scopes \cup {Nothing}, n : 0 .. MaxMarks],
         saw : Meta]

Blank(correlated) == [items |-> {}, deletion |-> Nothing, correlated |-> correlated]
Unread == Blank(FALSE)

\* A message of the panel, with a correlation id but no external id until the
\* worker stores it, or a customer's from the imported history, where it is the
\* other way round.
MarksInit ==
  /\ \E mine \in BOOLEAN :
       row = [mine |-> mine, external |-> ~ mine, text |-> "original",
              meta |-> Blank(mine)]
  /\ jobs = [j \in Jobs |-> Idle] /\ posted = {} /\ keys = {}
  /\ made = 0 /\ written = [a \in Actors |-> 0]
  /\ shows = [a \in Actors |-> Nothing] /\ gone = Nothing
  /\ overlapped = FALSE /\ misled = {} /\ failures = 0

World == <<made, shows, gone>>
Misled(a) == misled' = misled \cup {a}
Fails == failures < MaxMarkFaults /\ failures' = failures + 1

-----------------------------------------------------------------------------
\* withMessageReactionMetadata: the actor's entry is dropped and the new one added.
RemovalIgnored(meta, who, emoji) ==
  IF emoji = Nothing THEN meta
  ELSE [meta EXCEPT !.items = {i \in @ : i.who # who} \cup {[who |-> who, emoji |-> emoji]}]
ReactedTwice(meta, who, emoji) ==
  [meta EXCEPT !.items = @ \cup {[who |-> who, emoji |-> e] : e \in {emoji} \ {Nothing}}]
Reacted(meta, who, emoji) ==
  [meta EXCEPT !.items = {i \in @ : i.who # who} \cup
                         {[who |-> who, emoji |-> e] : e \in {emoji} \ {Nothing}}]

\* buildDeletionMetadata, buildDeletedForAllMetadata: the reactions go.
DeletedQuietly(meta, scope) == [meta EXCEPT !.items = {}]
Deleted(meta, scope) == [meta EXCEPT !.items = {}, !.deletion = scope]

Applied(meta, mark) ==
  IF mark.is \in Scopes THEN Deleted(meta, mark.is) ELSE Reacted(meta, mark.who, mark.is)

\* The idempotency key of a webhook has no moment: equal marks share it.
KeyOf(mark) == <<mark.who, mark.is>>

\* Actor a marks the message on WhatsApp, and Evolution posts a webhook of it.
Marks(a, is) ==
  LET mark == [who |-> a, is |-> is, n |-> made + 1]
  IN  /\ gone = Nothing /\ made < MaxMarks /\ made' = made + 1
      /\ IF is \in Scopes
         THEN gone' = is /\ UNCHANGED shows
         ELSE shows' = [shows EXCEPT ![a] = is] /\ UNCHANGED gone
      /\ posted' = posted \cup {mark}

\* On a phone: a reaction, or the deletion of the panel's message by its number.
OnPhone(a) ==
  /\ \/ \E e \in (Emoji \cup {Nothing}) \ {shows[a]} : Marks(a, e)
     \/ a = Self /\ row.mine /\ \E s \in Scopes : Marks(a, s)
  /\ UNCHANGED <<row, jobs, keys, written, overlapped, misled, failures>>

\* The worker stores the external id; no other column changes.
Identified ==
  /\ ~ row.external
  /\ row' = [row EXCEPT !.external = TRUE]
  /\ UNCHANGED <<jobs, posted, keys, World, written, overlapped, misled, failures>>

-----------------------------------------------------------------------------
\* The routes.  A reaction is refused, and a deletion skips the message, while it
\* has no external id; a deletion is only for messages of the panel.
RequestMark(j, is) ==
  /\ jobs[j].pc = "idle" /\ row.external
  /\ is \in Scopes => row.mine /\ is = "EVERYONE"
  /\ jobs' = [jobs EXCEPT ![j] = [pc |-> "send", route |-> TRUE, saw |-> row.meta,
                                  mark |-> [who |-> Self, is |-> is, n |-> 0]]]
  /\ UNCHANGED <<row, posted, keys, World, written, overlapped, misled, failures>>

\* sendReaction, deleteMessageForEveryone: carried out, or refused, or carried out
\* although the route sees an error and writes nothing.
Send(j) ==
  LET is == jobs[j].mark.is
      refused == jobs' = [jobs EXCEPT ![j] = Idle] /\ Fails
  IN  /\ jobs[j].pc = "send"
      /\ \/ /\ Marks(Self, is)
            /\ jobs' = [jobs EXCEPT ![j].pc = "write", ![j].mark.n = made + 1]
            /\ UNCHANGED failures
         \/ Marks(Self, is) /\ refused
         \/ refused /\ UNCHANGED <<World, posted>>
      /\ UNCHANGED <<row, keys, written, overlapped, misled>>

\* A webhook is claimed, and its message looked up.  A webhook whose key is claimed
\* or done is ignored, even if it is another mark; one whose message has no
\* external id yet does not find it, and is done.
Receive(j, mark) ==
  LET taken == KeyOf(mark) \in keys
  IN  /\ mark \in posted /\ jobs[j].pc = "idle"
      /\ posted' = posted \ {mark}
      /\ keys' = keys \cup {KeyOf(mark)}
      /\ IF taken \/ ~ row.external
         THEN Misled(mark.who) /\ UNCHANGED jobs
         ELSE /\ jobs' = [jobs EXCEPT ![j] = [pc |-> "write", route |-> FALSE, mark |-> mark,
                                              saw |-> row.meta]]
              /\ UNCHANGED misled
      /\ UNCHANGED <<row, World, written, overlapped, failures>>

\* message.update: the metadata as read, with the mark.
StoreWholeRow(mark, meta) ==
  row' = [row EXCEPT !.meta = meta, !.text = IF mark.is \in Scopes THEN mark.is ELSE "original"]
StoreMarks(mark, meta) ==
  row' = [row EXCEPT !.meta = meta, !.text = IF mark.is \in Scopes THEN mark.is ELSE @]

\* The row has changed since the job read it.
Overlaps(j) == overlapped' = (overlapped \/ row.meta # jobs[j].saw)

Write(j) ==
  LET mark == jobs[j].mark
      meta == Applied(jobs[j].saw, mark)
      stays == meta.correlated \/ (jobs[j].route /\ mark.is \in Scopes)
  IN  /\ jobs[j].pc = "write"
      /\ StoreMarks(mark, [meta EXCEPT !.correlated = stays])
      /\ jobs' = [jobs EXCEPT ![j].pc = IF stays THEN "publish" ELSE "correlate",
                              ![j].saw = IF stays THEN Unread ELSE row'.meta]
      /\ written' = [written EXCEPT ![mark.who] = IF mark.n > @ THEN mark.n ELSE @]
      /\ Overlaps(j)
      /\ IF mark.n < written[mark.who] THEN Misled(mark.who) ELSE UNCHANGED misled
      /\ UNCHANGED <<posted, keys, World, failures>>

\* A row without a correlation id is updated a second time, from the result of the
\* first update.
Correlate(j) ==
  /\ jobs[j].pc = "correlate"
  /\ row' = [row EXCEPT !.meta = [jobs[j].saw EXCEPT !.correlated = TRUE]]
  /\ Overlaps(j)
  /\ jobs' = [jobs EXCEPT ![j].pc = "publish", ![j].saw = Unread]
  /\ UNCHANGED <<posted, keys, World, written, misled, failures>>

\* The event is published and the webhook's key is done.
Finish(j) ==
  /\ jobs[j].pc = "publish"
  /\ jobs' = [jobs EXCEPT ![j] = Idle]
  /\ UNCHANGED <<row, posted, keys, World, written, overlapped, misled, failures>>

\* An await throws: a route answers with an error and a webhook releases its key,
\* so that Evolution posts it again.
Fail(j) ==
  LET mark == jobs[j].mark
  IN  /\ jobs[j].pc \in {"write", "correlate", "publish"} /\ Fails
      /\ jobs' = [jobs EXCEPT ![j] = Idle]
      /\ IF jobs[j].route
         THEN UNCHANGED <<posted, keys>>
         ELSE posted' = posted \cup {mark} /\ keys' = keys \ {KeyOf(mark)}
      /\ UNCHANGED <<row, World, written, overlapped, misled>>

MarksNext ==
  \/ \E a \in Actors : OnPhone(a)
  \/ Identified
  \/ \E j \in Jobs :
       \/ \E is \in Emoji \cup Scopes \cup {Nothing} : RequestMark(j, is)
       \/ \E mark \in posted : Receive(j, mark)
       \/ Send(j) \/ Write(j) \/ Correlate(j) \/ Finish(j) \/ Fail(j)

MarksSpec == MarksInit /\ [][MarksNext]_marksVars

-----------------------------------------------------------------------------
\* "granularidade por ator": an actor has at most one reaction, whichever of the
\* routes and webhooks wrote it and whatever they overwrote.
OneReactionPerActor ==
  \A i, k \in row.meta.items : i.who = k.who => i = k

\* Every state is typed, and reactions are OneReactionPerActor.
MarksTypeOK ==
  /\ OneReactionPerActor
  /\ row \in [mine : BOOLEAN, external : BOOLEAN, text : {"original"} \cup Scopes, meta : Meta]
  /\ jobs \in [Jobs -> {Idle} \cup Job]
  /\ posted \subseteq Mark /\ keys \subseteq Actors \X (Emoji \cup Scopes \cup {Nothing})
  /\ made \in 0 .. MaxMarks /\ written \in [Actors -> 0 .. MaxMarks]
  /\ shows \in [Actors -> Emoji \cup {Nothing}] /\ gone \in Scopes \cup {Nothing}
  /\ overlapped \in BOOLEAN /\ misled \subseteq Actors
  /\ failures \in 0 .. MaxMarkFaults

\* A deleted message's text never comes back, whoever writes the row with what.
DeletedStaysDeleted == [][row.text # "original" => row'.text # "original"]_marksVars

\* The two columns of a deletion, both written at once but the metadata also by
\* reactions: metadata never says deleted of a text that is there, and only an
\* overlap loses what it says of one that is gone.
DeletionIsRecorded ==
  /\ row.meta.deletion # Nothing => row.text # "original"
  /\ row.text # "original" => row.meta.deletion = row.text \/ overlapped

Quiet == posted = {} /\ \A j \in Jobs : jobs[j] = Idle

\* Once every webhook was handled the row shows what WhatsApp shows for an actor,
\* unless writers overlapped, a webhook was handled after a later one, came before
\* the external id, or had the key of an earlier one.  Failed calls and lost
\* answers are no excuse: the webhook of the mark repairs them.
RowMirrorsWhatsApp ==
  Quiet /\ gone = Nothing /\ ~ overlapped =>
    \A a \in Actors \ misled :
      {i.emoji : i \in {k \in row.meta.items : k.who = a}} = {shows[a]} \ {Nothing}
=============================================================================
