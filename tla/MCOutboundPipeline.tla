------------------------- MODULE MCOutboundPipeline -------------------------
EXTENDS OutboundPipeline, TLC

\* One error of every retry category; after 0, 500 and 503 acceptance is
\* unknown.
HttpError(s, b) == [axios |-> TRUE, status |-> s, body |-> b, code |-> "other"]
MCErrors == {HttpError(s, "other") : s \in {0, 404, 409, 429, 500, 503}}

PlainKind   == [m \in Msgs |-> "plain"]
StickerKind == [m \in Msgs |-> "sticker"]

\* An event that announces a message changes nothing but the step its process
\* is at, and nobody else reads that: the next step of the system is its.
Announced ==
  /\ \A h \in Handlers : hd[h].pc \in {"publish", "announce"} => hd'[h].pc # hd[h].pc
  /\ \A w \in Workers : wk[w].pc = "announce" => wk'[w].pc # "announce"

PipelineNext == Next /\ Announced
PipelineSpec == Init /\ [][PipelineNext]_vars

\* The attempts do not depend on the ids WhatsApp gives: every answer leaves its
\* id out, as ProviderAccepts allows.
Anonymous == \A w \in Workers : wk'[w].ext = NoExt

AttemptsSpec == Init /\ [][PipelineNext /\ Anonymous]_vars

Symmetry == Permutations(Msgs) \cup Permutations(Jobs) \cup Permutations(Handlers)
              \cup Permutations(Workers)
=============================================================================
