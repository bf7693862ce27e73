------------------------------- MODULE Answer -------------------------------
(***************************************************************************)
(* One answer, from the merged message of a debounce flush to the last     *)
(* Send API call: what is heard and seen, what the prompt carries (the     *)
(* message, the pre-fetched knowledge, the recap of what was shown), the   *)
(* generation with its tool calls and its retry, and the delivery part by  *)
(* part, while the panel edits knowledge, products and personas.  What     *)
(* handover, logging and orders do is modelled elsewhere; here they decide *)
(* only whether the turn is silent and whether a failure is handed over.   *)
(***************************************************************************)
EXTENDS Intake, Knowledge, Persona

CONSTANTS Recordings, Spoken,  \* the voice notes, and what the model says of one
          Pictures, Shown,     \* the photos, and what the model says of one
          Photos,              \* Photos[p]: the urls of a product's images
          Web,                 \* the urls with an http scheme
          AdProduct,           \* state.adProduct, or None
          MaxCalls,            \* tool calls of a generation (AGENT_MAX_STEPS)
          MaxCards,            \* MAX_GALLERY_CARDS
          MaxShown,            \* MAX of collectShownProductIds
          MaxImages,           \* MAX_IMAGES
          MaxNote,             \* AGENT_KNOWLEDGE_MAX_ENTRIES
          MaxBubbles,          \* MESSENGER_MAX_BUBBLES
          Scenarios,           \* by name, the settings, replies and panel requests
          Posts                \* by the same name, what may be posted in a debounce window

VARIABLES turn,      \* turn[t]: the turn's local variables
          last,      \* conversations.state.lastProductIds
          scenario,  \* the name of the history's scenario
          left       \* the panel requests it has left

answerVars == <<turn, last, scenario, left>>
Setting == Scenarios[scenario]
vars == <<answerVars, knowledgeVars, personaVars>>

ASSUME AnswerBounds == /\ {MaxCards, MaxShown, MaxImages, MaxNote, MaxBubbles, MaxEntries} \subseteq Nat \ {0}
                       /\ MaxNote <= MaxEntries /\ MaxCalls \in Nat

Lines == {"words", "greeting", "faq", "number"}
\* Paragraphs of a generated text: with words, or markup and emoji alone.
Paragraphs == {"words", "markup", "emoji"}
Files == Pictures \cup Recordings
ASSUME SwitchesAreNamed == \A name \in DOMAIN Scenarios : Scenarios[name].switches \subseteq Switches
ASSUME LastIsProducts ==
    \A name \in DOMAIN Scenarios : Scenarios[name].last \subseteq Products /\ Cardinality(Scenarios[name].last) <= MaxShown
ASSUME RepliesAreTexts ==
    \A name \in DOMAIN Scenarios : Scenarios[name].replies \subseteq Seq(Paragraphs) /\ Scenarios[name].calls \in 0..MaxCalls
ASSUME PostsAreEvents ==
    \A name \in DOMAIN Scenarios : Posts[name] \subseteq Seq(Post(Lines, Files)) /\ Missing # <<>>
ASSUME FilesHaveSizes ==
    /\ MaxBytes \in Nat /\ Sure \in Nat
    /\ \A f \in Files : f.answered \in BOOLEAN /\ {f.declared, f.bytes} \subseteq Nat
    /\ \A s \in Spoken \ {Missing} : {s.words, s.intelligible} \subseteq BOOLEAN /\ s.confidence \in Nat
ASSUME AdIsProduct == AdProduct \in Products \cup {None}
\* The store is finite, and its first rows are rows.
ASSUME StoreIsFinite ==
    /\ IsFiniteSet(Products) /\ IsFiniteSet(Entries)
    /\ FirstShelf \in [Products -> {"published", "draft", "gone"}] /\ FirstEntry \in [Entries -> Entry \cup {None}]
    /\ \A p \in Products : Photos[p] \in Seq(ToSet(Photos[p]))
Messages == [typed : Lines \cup {"none"}, photo : Files \cup {Missing}, voice : Files \cup {Missing}, ad : BOOLEAN]
NoMessage == [typed |-> "none", photo |-> Missing, voice |-> Missing, ad |-> FALSE]
NoQuery == [products |-> {}, asked |-> FALSE, for |-> "note", room |-> 0]

Idle == [pc |-> "new", msg |-> NoMessage, state |-> {}, says |-> Missing, put |-> {},
         query |-> NoQuery, found |-> {}, recap |-> {},
         tries |-> 0, calls |-> 0, cards |-> {}, matched |-> {}, media |-> {}, sink |-> <<>>,
         plan |-> <<>>, at |-> 1, photos |-> <<>>, got |-> <<>>, ids |-> {}]

Part == [part : {"line", "more", "fallback"}, of : {{}}] \cup [part : {"bubble"}, of : SUBSET Nat]
        \cup [part : {"cards"}, of : SUBSET Products] \cup [part : {"photo"}, of : Web]

TypeOKTurn(r) ==
    /\ r.pc \in {"new", "hear", "gate", "on", "context", "specific", "global", "recap", "generate",
                 "think", "send", "photos", "failed", "silent", "done", "missed",
                 "answered", "unreached", "unanswered"}
    /\ r.msg \in Messages /\ r.state \subseteq Products
    /\ r.says \in Spoken \cup {Missing}
    /\ r.put \subseteq {"typed", "transcript", "unheard", "attributes", "confirm"}
    /\ r.query.products \subseteq Products /\ r.query.room \in 0..MaxEntries
    /\ r.found \subseteq Entries /\ Cardinality(r.found) <= MaxEntries
    /\ r.recap \subseteq Products
    /\ r.tries \in 0..2 /\ r.calls \in 0..MaxCalls
    /\ r.matched \subseteq r.cards /\ r.cards \subseteq Products /\ r.media \subseteq Products
    /\ \A i \in DOMAIN r.plan : r.plan[i] \in Part
    /\ r.at \in 1..Len(r.plan) + Len(r.photos) + 1 /\ r.ids \subseteq Products
    /\ Len(r.photos) <= MaxImages
    /\ \A i \in DOMAIN r.got : r.got[i] \in Part

TypeOK ==
    /\ TypeOKKnowledge /\ TypeOKPersona
    /\ \A t \in Turns : TypeOKTurn(turn[t])
    /\ last \subseteq Products /\ Cardinality(last) <= MaxShown

\* Whether awaited calls fail in this history.
Fails == Setting.faults

-----------------------------------------------------------------------------
(* The message. *)

\* What the patterns tell of the merged text: a greeting is the whole text, a keyword of an
\* FAQ may be anywhere, and a number is a text without a letter.
Kind(text) ==
    CASE text = <<>> -> "none"
      [] "faq" \in ToSet(text) -> "faq"
      [] ToSet(text) = {"number"} -> "number"
      [] text = <<"greeting">> -> "greeting"
      [] OTHER -> "words"

\* What the posts of a debounce window have put into the batch.
Batch(posts) == FlattenSeq([i \in DOMAIN posts |-> Enqueued(Setting.guard, Setting.hears, posts[i])])

\* The merged batch reaches handleMessage, which reads the conversation first.
Arrive(t, posts) ==
    LET m == MergeTurns(Batch(posts)) IN
    /\ turn[t].pc = "new" /\ Batch(posts) # <<>>
    /\ turn' = [turn EXCEPT ![t].pc = "hear", ![t].state = last,
                  ![t].msg = [typed |-> Kind(m.text), photo |-> m.lastImageUrl, voice |-> m.lastAudioUrl,
                              ad |-> m.adRef # Missing]]
    /\ UNCHANGED <<last, left>>

\* The voice pre-step, before the gate.
Hear(t) ==
    /\ turn[t].pc = "hear"
    /\ IF turn[t].msg.voice # Missing
       THEN \E says \in Spoken : turn' = [turn EXCEPT ![t].pc = "gate", ![t].says = says]
       ELSE turn' = [turn EXCEPT ![t].pc = "gate"]
    /\ UNCHANGED <<last, left>>

\* ai_state, or a message that was answered before: nothing is said.
Gate(t) ==
    /\ turn[t].pc = "gate"
    /\ \/ turn' = [turn EXCEPT ![t].pc = "on"]
       \/ turn' = [turn EXCEPT ![t] = [Idle EXCEPT !.pc = "silent"]]
    /\ UNCHANGED <<last, left>>

\* A query that handleMessage awaits fails: processBatch falls back.
Throw(t) ==
    /\ Fails /\ turn[t].pc \in {"hear", "gate"}
    /\ turn' = [turn EXCEPT ![t] = [Idle EXCEPT !.pc = "failed"]]
    /\ UNCHANGED <<last, left>>

-----------------------------------------------------------------------------
(* The reply as it is delivered. *)

\* stripEmojis(stripImageMarkup(text)).trim(): markup and emoji leave nothing, and so many
\* paragraphs are left.
Clean(text) == Cardinality({i \in DOMAIN text : text[i] = "words"})

\* splitIntoBubbles: the last bubble takes the paragraphs that are over the cap.
Bubbles(n, cap) ==
    [i \in 1..Min({n, cap}) |-> [part |-> "bubble", of |-> IF i = cap THEN i..n ELSE {i}]]
TextParts(n) == Bubbles(n, IF Setting.paces THEN MaxBubbles ELSE 1)

\* extractProducts and formatMessengerReply: at most MaxCards cards in one template, and a
\* note when there are more.  Which cards are first does not matter to what is checked.
CardParts(cs) ==
    LET kept == CHOOSE s \in kSubset(Min({MaxCards, Cardinality(cs)}), cs) : TRUE
    IN IF cs = {} THEN <<>>
       ELSE <<[part |-> "cards", of |-> kept]>>
            \o (IF Cardinality(cs) > MaxCards THEN <<[part |-> "more", of |-> {}]>> ELSE <<>>)

\* Mutant: no cap.
Unseen_all(urls, url) == IF url \in Web /\ ~Contains(urls, url) THEN Append(urls, url) ELSE urls
Unseen(urls, url) == IF url \in Web /\ ~Contains(urls, url) /\ Len(urls) < MaxImages THEN Append(urls, url) ELSE urls
\* sanitizeMediaUrls.  What is pushed later does not change what it keeps of the rest, so the
\* sink is kept as it will be sanitised.
Sanitised(sink, urls) ==
    LET upTo[i \in 0..Len(urls)] == IF i = 0 THEN sink ELSE Unseen(upTo[i-1], urls[i])
    IN upTo[Len(urls)]

Deliver(t, parts, photos, ids) ==
    turn' = [turn EXCEPT ![t] = [Idle EXCEPT !.pc = "send", !.plan = parts, !.photos = photos, !.ids = ids]]
AnswerLine == <<[part |-> "line", of |-> {}]>>
\* TriageService.reply: what the lite model says, or the fixed line when it fails or says
\* nothing.
SocialLine == AnswerLine

-----------------------------------------------------------------------------
(* Before the generation. *)

Social(m) == m.typed = "greeting" /\ m.photo = Missing /\ m.voice = Missing /\ ~m.ad

\* tryTriage.  A failure, a first touch or a summary that waits leaves the turn to the agent.
Triage(t) ==
    /\ turn[t].pc = "on" /\ Setting.triages /\ Social(turn[t].msg)
    /\ Deliver(t, SocialLine, <<>>, {})
    /\ UNCHANGED <<last, left>>

Heard(t) == Transcription(TRUE, turn[t].msg.voice, turn[t].says)
Unheard(t) == turn[t].msg.voice # Missing /\ ~Heard(t).ok
VoiceAlone(t) == turn[t].msg.typed = "none" /\ turn[t].msg.photo = Missing

\* handleUnusableVoiceTurn: a line that asks her to type or to send it again, or the handoff
\* line; a write that fails is thrown.
Degrade(t) ==
    /\ turn[t].pc = "on" /\ Unheard(t) /\ VoiceAlone(t)
    /\ \/ Deliver(t, AnswerLine, <<>>, {})
       \/ Fails /\ turn' = [turn EXCEPT ![t] = [Idle EXCEPT !.pc = "failed"]]
    /\ UNCHANGED <<last, left>>

\* composeVoiceTurn: llmText.
Compose(t) ==
    (IF turn[t].msg.typed # "none" THEN {"typed"} ELSE {})
    \cup (IF turn[t].msg.voice # Missing /\ Heard(t).ok /\ Heard(t).words THEN {"transcript"} ELSE {})

\* buildVoiceNote and buildVisionNote.
VoiceNote(t) == IF Unheard(t) THEN {"unheard"} ELSE {}
VisionNote(v) ==
    IF ~v.attributes THEN {}
    ELSE {"attributes"} \cup (IF v.reason = "low_confidence" THEN {"confirm"} ELSE {})

SeenNotes(m) ==
    IF m.photo = Missing THEN {{}}
    ELSE {VisionNote(Vision(enabled, m.photo, says)) : enabled \in BOOLEAN, says \in Shown}

\* The vision pre-step and the notes of the message itself.
See(t) ==
    /\ turn[t].pc = "on" /\ ~(Unheard(t) /\ VoiceAlone(t))
    /\ \E notes \in SeenNotes(turn[t].msg) :
         turn' = [turn EXCEPT ![t].pc = "context", ![t].msg.voice = Missing, ![t].says = Missing,
                              ![t].put = Compose(t) \cup VoiceNote(t) \cup notes]
    /\ UNCHANGED <<last, left>>

-----------------------------------------------------------------------------
(* Retrieval: for the pre-fetched note, and for the get_knowledge tool. *)

\* isInformationalQuery and isFaqIntent; what a transcript asks is left open.
Informational(t) == turn[t].msg.typed \in {"words", "greeting", "faq"} \/ "transcript" \in turn[t].put
MaybeFaq(t) == turn[t].msg.typed = "faq" \/ "transcript" \in turn[t].put
CertainlyFaq(t) == turn[t].msg.typed = "faq"

\* getRelevant: the product tier first when there are products.
Retrieve(t, products, asked, for) ==
    [turn[t] EXCEPT !.pc = IF products = {} THEN "global" ELSE "specific", !.found = {},
                    !.query = [products |-> products, asked |-> asked, for |-> for, room |-> MaxEntries]]
\* The note is made, or the tool has answered.
Retrieved(t, found) ==
    [turn[t] EXCEPT !.pc = IF turn[t].query.for = "note" THEN "recap" ELSE "think", !.found = found, !.query = NoQuery]

\* n entries were read of the product's tier: the store's may fill the rest of the room.
ThenGlobal(t, told, n) == [turn[t] EXCEPT !.pc = "global", !.found = told, !.query.room = @ - n]

\* prefetchKnowledgeNote off, or gated and no FAQ intent.
SkipPrefetch(t) ==
    /\ turn[t].pc = "context"
    /\ Setting.prefetch = "off" \/ (Setting.prefetch = "gated" /\ ~CertainlyFaq(t))
    /\ turn' = [turn EXCEPT ![t].pc = "recap"]
    /\ UNCHANGED <<last, left>>

\* resolveProductContext for a photo: the best published match, if any.
Resembled(t) ==
    IF turn[t].msg.photo # Missing THEN {{p} : p \in {q \in Products : shelf[q] = "published"}} \cup {{}} ELSE {{}}
InContext(t, match) ==
    IF match # {} THEN match
    ELSE IF turn[t].state # {} THEN turn[t].state
    ELSE {AdProduct} \ {None}

Prefetch(t) ==
    /\ turn[t].pc = "context"
    /\ Setting.prefetch = "always" \/ (Setting.prefetch = "gated" /\ MaybeFaq(t))
    /\ \E match \in Resembled(t) :
         LET products == InContext(t, match) IN
         turn' = [turn EXCEPT ![t] = IF products # {} THEN Retrieve(t, products, FALSE, "note")
                                       ELSE IF Informational(t) THEN Retrieve(t, {}, TRUE, "note")
                                       ELSE [@ EXCEPT !.pc = "recap"]]
    /\ UNCHANGED <<last, left>>

\* The visual search fails, or a query does: no note, or an error for the model.
RetrievalFails(t) ==
    /\ Fails /\ turn[t].pc \in {"context", "specific", "global"}
    /\ turn' = [turn EXCEPT ![t] = Retrieved(t, {})]
    /\ UNCHANGED <<last, left>>

\* The entries of a tier that are told: all of a tool's, the first of the note's.
Told(t, read) ==
    LET most == IF turn[t].query.for = "note" THEN MaxNote - Cardinality(turn[t].found) ELSE MaxEntries
    IN kSubset(Min({most, Cardinality(read)}), read)

ReadSpecific(t) ==
    /\ turn[t].pc = "specific"
    /\ \E read \in FindRelevant(turn[t].query.products, turn[t].query.asked, MaxEntries) :
       \E told \in Told(t, read) :
         turn' = [turn EXCEPT ![t] =
                    IF Cardinality(read) = MaxEntries THEN Retrieved(t, told)
                    ELSE ThenGlobal(t, told, Cardinality(read))]
    /\ UNCHANGED <<last, left>>

\* The store's entries fill the room.  With nothing at all the pre-fetch asks once more,
\* with her words.
ReadGlobal(t) ==
    /\ turn[t].pc = "global"
    /\ \E read \in FindRelevant({None}, turn[t].query.asked, turn[t].query.room) :
       \E told \in Told(t, read) :
         LET q == turn[t].query
             nothing == Cardinality(read) = 0 /\ q.room = MaxEntries
         IN turn' = [turn EXCEPT ![t] =
                       IF nothing /\ q.for = "note" /\ ~q.asked /\ Informational(t)
                       THEN Retrieve(t, {}, TRUE, "note")
                       ELSE Retrieved(t, @.found \cup told)]
    /\ UNCHANGED <<last, left>>

Recallable(p) == shelf[p] = "published"

\* buildShownProductsRecap: each product is read by itself; those that fail are skipped.
Recap(t) ==
    /\ turn[t].pc = "recap"
    /\ turn[t].state # {} /\ Setting.recaps
    /\ \E p \in turn[t].state :
         turn' = [turn EXCEPT ![t].state = @ \ {p},
                              ![t].recap = IF Recallable(p) THEN @ \cup {p} ELSE @]
    /\ UNCHANGED <<last, left>>
RecapMisses(t) ==
    /\ Fails /\ turn[t].pc = "recap" /\ turn[t].state # {} /\ Setting.recaps
    /\ \E p \in turn[t].state : turn' = [turn EXCEPT ![t].state = @ \ {p}]
    /\ UNCHANGED <<last, left>>
RecapEnds(t) ==
    /\ turn[t].pc = "recap" /\ (turn[t].state = {} \/ ~Setting.recaps)
    /\ turn' = [turn EXCEPT ![t].pc = "generate", ![t].state = {}]
    /\ UNCHANGED <<last, left>>

-----------------------------------------------------------------------------
(* The generation. *)

\* generate(): the first call or the retry; it begins when it has its prompt.  The sink of
\* photos is the turn's, the tool results are the call's.
Generate(t) ==
    /\ turn[t].pc = "generate"
    /\ \/ (AskActive(t) \/ ReadActive(t)) /\ UNCHANGED turn
       \/ /\ Cached(t) \/ ReadFails(t) \/ Fill(t)
          /\ turn' = [turn EXCEPT ![t].pc = "think", ![t].tries = @ + 1, ![t].calls = 0,
                                  ![t].cards = {}, ![t].matched = {}, ![t].media = {}]
    /\ UNCHANGED <<last, left>>

CanCall(t, tool) == turn[t].pc = "think" /\ turn[t].calls < Setting.calls /\ tool \in Setting.tools
OnSale == {p \in Products : shelf[p] = "published"}

\* search_products and find_similar_by_image; list_all_products shows cards too, but what it
\* lists is not remembered as shown.  Which products a search finds while the panel
\* publishes and unpublishes them is Shop's matter: here they are any.
Search(t) ==
    /\ CanCall(t, "search")
    /\ \E ps \in SUBSET Products, listed \in BOOLEAN :
         turn' = [turn EXCEPT ![t].calls = @ + 1, ![t].cards = @ \cup ps,
                              ![t].matched = IF listed THEN @ ELSE @ \cup ps]
    /\ UNCHANGED <<last, left>>

\* get_product_media: the product counts as shown even if it is not found.
ShowMedia(t, p) ==
    /\ CanCall(t, "media")
    /\ turn' = [turn EXCEPT ![t].calls = @ + 1, ![t].media = @ \cup {p},
                            ![t].sink = IF p \in OnSale THEN Sanitised(@, Photos[p]) ELSE @]
    /\ UNCHANGED <<last, left>>

\* get_knowledge, on whatever products and words the model chooses.
LookUp(t) ==
    /\ CanCall(t, "knowledge")
    /\ \E products \in {{}} \cup {{p} : p \in Products}, asked \in BOOLEAN :
         turn' = [turn EXCEPT ![t] = [Retrieve(t, products, asked, "tool") EXCEPT !.calls = @ + 1]]
    /\ UNCHANGED <<last, left>>

\* collectShownProductIds: the products of photos before those of searches.
ShownIds(r) ==
    {s \in SUBSET (r.media \cup r.matched) :
        /\ Cardinality(s) = Min({MaxShown, Cardinality(r.media \cup r.matched)})
        /\ s \subseteq r.media \/ r.media \subseteq s}

\* generate() returned text.
Respond(t) ==
    /\ turn[t].pc = "think"
    /\ \E text \in Setting.replies, ids \in ShownIds(turn[t]) :
         /\ Clean(text) # 0
         /\ Deliver(t, TextParts(Clean(text)) \o CardParts(turn[t].cards), turn[t].sink, ids)
    /\ UNCHANGED <<last, left>>

\* Nothing is left of the text: one more generation if the finish reason admits it, otherwise
\* the handoff line, or the fallback when the escalation fails too.
RespondEmpty(t) ==
    /\ turn[t].pc = "think"
    /\ \E text \in Setting.replies : Clean(text) = 0
    /\ \/ /\ turn[t].tries = 1
          /\ turn' = [turn EXCEPT ![t].pc = "generate"]
       \/ \E ids \in ShownIds(turn[t]) :
             Deliver(t, AnswerLine \o CardParts(turn[t].cards), turn[t].sink, ids)
    /\ UNCHANGED <<last, left>>

\* generate() throws: finishFailedTurn has no tool results and sends no photos.
GenerateThrows(t) ==
    /\ Fails /\ turn[t].pc = "think"
    /\ Deliver(t, AnswerLine, <<>>, {})
    /\ UNCHANGED <<last, left>>

-----------------------------------------------------------------------------
(* The delivery: processBatch. *)

Got(t, part) == Append(turn[t].got, part)
\* The part at t's place of the plan has been dealt with.
Onward(t, got) ==
    turn' = [turn EXCEPT ![t].got = got, ![t].at = @ + 1,
                         ![t].pc = IF turn[t].at < Len(turn[t].plan) THEN "send" ELSE "photos"]

\* Mutant: a part that fails is skipped, as a photo is.
SendFails_goesOn(t, got) == Onward(t, got)
\* Mutant: the catch only logs.
SendFails_logs(t, got) == turn' = [turn EXCEPT ![t].got = got, ![t].pc = "done"]
\* postToSendApi throws, and nothing more of the reply is sent.
SendFails(t, got) == turn' = [turn EXCEPT ![t].got = got, ![t].pc = "failed"]

\* A bubble, the carousel or the note.  A call that fails may have reached her: its answer
\* was lost, or did not come in time.
Send(t) ==
    /\ turn[t].pc = "send"
    /\ LET got == Got(t, turn[t].plan[turn[t].at])
       IN \/ Onward(t, got)
          \/ Fails /\ SendFails(t, turn[t].got)
          \/ Fails /\ SendFails(t, got)
    /\ UNCHANGED <<last, left>>

\* The photos, each by itself: a failure is logged.
SendPhoto(t) ==
    LET i == turn[t].at - Len(turn[t].plan) IN
    /\ turn[t].pc = "photos" /\ i <= Len(turn[t].photos)
    /\ \E got \in {turn[t].got, Got(t, [part |-> "photo", of |-> turn[t].photos[i]])} : Onward(t, got)
    /\ UNCHANGED <<last, left>>

Complete(t) ==
    /\ turn[t].pc = "photos" /\ turn[t].at > Len(turn[t].plan) + Len(turn[t].photos)
    /\ turn' = [turn EXCEPT ![t].pc = "done"]
    /\ UNCHANGED <<last, left>>

\* The catch of processBatch: FALLBACK_REPLY, once.
Fallback(t) ==
    LET got == Got(t, [part |-> "fallback", of |-> {}]) IN
    /\ turn[t].pc = "failed"
    /\ \/ turn' = [turn EXCEPT ![t].got = got, ![t].pc = "done"]
       \/ turn' = [turn EXCEPT ![t].pc = "missed"]
       \/ turn' = [turn EXCEPT ![t].got = got, ![t].pc = "missed"]
    /\ UNCHANGED <<last, left>>

\* processBatch returns, and its variables are gone.
Return(t) ==
    /\ turn[t].pc \in {"done", "missed"}
    /\ turn' = [turn EXCEPT ![t] =
                  [Idle EXCEPT !.ids = turn[t].ids,
                               !.pc = IF turn[t].pc = "missed" THEN "unreached"
                                      ELSE IF turn[t].got # <<>> THEN "answered" ELSE "unanswered"]]
    /\ UNCHANGED <<last, left>>

\* mergeState(lastProductIds) is not awaited: it lands later, or is lost.
Remember(t) ==
    /\ turn[t].ids # {}
    /\ turn' = [turn EXCEPT ![t].ids = {}]
    /\ last' \in {last, turn[t].ids}
    /\ UNCHANGED left

-----------------------------------------------------------------------------

Init ==
    /\ InitKnowledge /\ InitPersona
    /\ turn = [t \in Turns |-> Idle]
    /\ scenario \in DOMAIN Scenarios
    /\ last = Setting.last
    /\ left = Setting.panel

Talk(t) ==
    \/ Hear(t) \/ Gate(t) \/ Throw(t) \/ Triage(t) \/ Degrade(t) \/ See(t)
    \/ SkipPrefetch(t) \/ Prefetch(t) \/ RetrievalFails(t) \/ ReadSpecific(t) \/ ReadGlobal(t)
    \/ Recap(t) \/ RecapMisses(t) \/ RecapEnds(t)
    \/ Search(t) \/ LookUp(t) \/ (\E p \in Products : ShowMedia(t, p))
    \/ Respond(t) \/ RespondEmpty(t) \/ GenerateThrows(t)
    \/ Send(t) \/ SendPhoto(t) \/ Complete(t) \/ Fallback(t) \/ Return(t) \/ Remember(t)

\* What a turn does once it has begun.
Proceed(t) ==
    /\ Generate(t) \/ (Talk(t) /\ UNCHANGED personaVars)
    /\ UNCHANGED <<scenario, knowledgeVars>>

\* The turns of a conversation begin in their order, each when the one before is past its
\* generation: what a turn and an earlier one share is lastProductIds, which lands later.
\* Those of different customers overlap as they like; they share the prompt.
Begin(t) ==
    /\ \E i \in DOMAIN Setting.turns :
         /\ Setting.turns[i] = t
         /\ Setting.apart \/ \A j \in 1..(i - 1) : turn[Setting.turns[j]].pc \in
                {"send", "photos", "failed", "silent", "done", "missed", "answered", "unreached", "unanswered"}
    /\ \E posts \in Posts[scenario] : Arrive(t, posts)
    /\ UNCHANGED <<scenario, knowledgeVars, personaVars>>

\* The panel; a request in flight is finished whatever the bound.
Panel ==
    \/ /\ left.entries > 0 /\ EditEntries
       /\ left' = [left EXCEPT !.entries = @ - 1]
       /\ UNCHANGED <<turn, last, scenario, personaVars>>
    \/ /\ left.products > 0 /\ EditProducts
       /\ left' = [left EXCEPT !.products = @ - 1]
       /\ UNCHANGED <<turn, last, scenario, personaVars>>
    \/ Write /\ UNCHANGED <<answerVars, personaVars>>
Personnel ==
    \/ \E s \in Setting.switches : Switch(s) /\ UNCHANGED <<answerVars, knowledgeVars>>
    \/ Setting.minutes /\ Expire /\ UNCHANGED <<answerVars, knowledgeVars>>
    \/ /\ left.personas > 0 /\ EditPersona
       /\ left' = [left EXCEPT !.personas = @ - 1]
       /\ UNCHANGED <<turn, last, scenario, knowledgeVars>>

Next == (\E t \in Turns : Begin(t) \/ Proceed(t)) \/ Panel \/ Personnel

\* Every await of a turn is answered, with an error if need be: the Send API calls have a
\* timeout, the queries and the models' calls are taken to end.
Spec == Init /\ [][Next]_vars /\ \A t \in Turns : WF_vars(Proceed(t))

-----------------------------------------------------------------------------

\* She gets the parts of the reply in their order and none after one whose call failed, but
\* for the fallback, sent at most once and last; photos come only after the whole reply, in
\* their order, each once.
InOrder ==
    \A t \in Turns :
        LET r == turn[t]
            all == Len(r.got)
        IN /\ IsInjective(r.photos)
           /\ \A i \in DOMAIN r.plan : r.plan[i].part \notin {"photo", "fallback"}
           /\ \E n \in 0..all :
                /\ n <= Len(r.plan) /\ \A i \in 1..n : r.got[i] = r.plan[i]
                /\ \/ n = all
                   \/ n = all - 1 /\ r.got[all] = [part |-> "fallback", of |-> {}]
                   \/ /\ n = Len(r.plan)
                      /\ \E place \in [(n+1)..all -> DOMAIN r.photos] :
                           /\ \A i \in (n+1)..all : r.got[i] = [part |-> "photo", of |-> r.photos[place[i]]]
                           /\ \A i, j \in (n+1)..all : i < j => place[i] < place[j]

\* "Never leave the customer silent": a turn that is not the bot's to keep silent on ends
\* with something she received, or with a fallback that could not be sent either.
Answered ==
    \A t \in Turns : turn[t].pc = "gate" ~> turn[t].pc \in {"silent", "answered", "unreached"}

\* A note the model could hear: published where anyone may fetch it, not too long, not
\* merely guessed at.
Clear(f, says) ==
    /\ f.answered /\ PublicUrl(f.url)
    /\ f.bytes \in 1..MaxBytes /\ f.declared <= MaxBytes /\ MediaType(f) # Missing /\ ~TooLong(f)
    /\ says # Missing /\ says.words /\ says.intelligible /\ says.confidence >= Sure

\* The agent is given the words of a voice note exactly when they were clear; a turn whose
\* words were not and that says nothing else is asked back and never reaches it, and none
\* that can be understood is asked back.
NothingGuessed ==
    [][\A t \in Turns :
         LET r == turn[t]
             clear == r.msg.voice # Missing /\ Clear(r.msg.voice, r.says)
         IN r.pc = "on" =>
              CASE turn'[t].pc = "context" ->
                       /\ "transcript" \in turn'[t].put <=> clear
                       /\ r.msg.photo # Missing \/ turn'[t].put \cap {"typed", "transcript"} # {}
                [] turn'[t].pc \in {"send", "failed"} -> ~clear /\ r.msg.photo = Missing
                [] OTHER -> TRUE]_turn
=============================================================================
