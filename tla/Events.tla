-------------------------------- MODULE Events --------------------------------
(***************************************************************************)
(* From the raw events of Messenger's POSTs to the one message of a        *)
(* flushed batch: the schema of the body, normalizeEvent, the gate on      *)
(* voice notes, toIncoming and the content of mergeTurns.  When a batch is *)
(* flushed is in Inbound, who is attributed to an ad in Threads.           *)
(*                                                                         *)
(* A text is the sequence of its lines, a line being of a kind the later   *)
(* stages tell apart, <<>> the empty string; its ends have no blanks.  The *)
(* url of an attachment stands for the file behind it.                     *)
(***************************************************************************)
EXTENDS Sequences, SequencesExt

CONSTANT Missing    \* null and undefined

\* messagingEventSchema, on the lines of texts and the files there are.  An absent message
\* or postback has nothing in it; the referrals are those of the message, the event and the
\* postback; `fits` tells whether every field is of its type and length.
Event(lines, files) ==
    LET text == Seq(lines) \cup {Missing} IN
    [fits : BOOLEAN, mid : STRING \cup {Missing}, text : text,
     quick : [payload : text, title : text] \cup {Missing},
     attachments : Seq([type : {"image", "audio", "video"}, url : files \cup {Missing}]),
     title : text, payload : text, referrals : Seq([ref : BOOLEAN, other : BOOLEAN] \cup {Missing})]

\* A POST: whether its signature is that of its body, whether it is about a page, its events.
Post(lines, files) == [signed : BOOLEAN, page : BOOLEAN, events : Seq(Event(lines, files))]

\* canActivate: without a secret nothing is checked, which production refuses.
Admitted(guard, post) == IF guard.secret THEN post.signed ELSE ~guard.production

\* The places of a list at which something is, and the first or the last of the values there.
Present(values) == {i \in DOMAIN values : values[i] # Missing}
FirstOf(values) == IF Present(values) = {} THEN Missing ELSE values[Min(Present(values))]
LastOf(values) == IF Present(values) = {} THEN Missing ELSE values[Max(Present(values))]
\* A text, or the empty one.
OrEmpty(text) == IF text = Missing THEN <<>> ELSE text

\* extractText: a quick reply's payload, its title or the text; the text; a postback's title
\* and payload.
ExtractText(event) ==
    IF event.quick # Missing THEN FirstOf(<<event.quick.payload, event.quick.title, event.text, <<>>>>)
    ELSE IF event.text \notin {Missing, <<>>} THEN event.text
    ELSE OrEmpty(event.title) \o OrEmpty(event.payload)

\* The url of the first attachment of a type, though a later one alone may have one.
FirstUrl(event, type) ==
    LET found == {i \in DOMAIN event.attachments : event.attachments[i].type = type}
    IN IF found = {} THEN Missing ELSE event.attachments[Min(found)].url
\* extractImageUrl, extractAudioUrl.
ImageUrl(event) == FirstUrl(event, "image")
AudioUrl(event) == FirstUrl(event, "audio")

\* extractReferral: of the three places the first that has one, be it empty.
ExtractReferral(event) == FirstOf(event.referrals)
\* normalizeReferral and its callers: an empty one is as none.
Referred(event) ==
    LET r == ExtractReferral(event) IN r # Missing /\ (r.ref \/ r.other)

\* normalizeEvent: Missing without text, image and audio.
NormalizeEvent(event) ==
    LET text == ExtractText(event)
        image == ImageUrl(event)
        audio == AudioUrl(event)
    IN IF text = <<>> /\ image = Missing /\ audio = Missing THEN Missing
       ELSE [text |-> text, image |-> image, audio |-> audio, mid |-> event.mid,
             referral |-> IF Referred(event) THEN ExtractReferral(event) ELSE Missing]

\* filterAudio: with transcription off a voice note is as none.
FilterAudio(hears, m) ==
    IF m = Missing \/ hears THEN m
    ELSE IF m.text = <<>> /\ m.image = Missing THEN Missing
    ELSE [m EXCEPT !.audio = Missing]

\* toIncoming: of the referral, its slug on a field of its own.
ToIncoming(m) ==
    [text |-> m.text, lastImageUrl |-> m.image, lastAudioUrl |-> m.audio, externalMessageId |-> m.mid,
     adRef |-> IF m.referral # Missing /\ m.referral.ref THEN "ref" ELSE Missing]

\* Each message id once, at its first place; what has none is kept.
Deduped(items) ==
    LET repeats(kept, item) ==
          /\ item.externalMessageId # Missing
          /\ \E i \in DOMAIN kept : kept[i].externalMessageId = item.externalMessageId
        kept[i \in 0..Len(items)] ==
          IF i = 0 THEN <<>>
          ELSE IF repeats(kept[i-1], items[i]) THEN kept[i-1] ELSE Append(kept[i-1], items[i])
    IN kept[Len(items)]

\* handleWebhook: what a POST puts into the debounce buffer.  One event that does not fit
\* the schema drops them all.
Enqueued(guard, hears, post) ==
    LET heard(i) == FilterAudio(hears, NormalizeEvent(post.events[i]))
        incoming(i) == IF heard(i) = Missing THEN <<>> ELSE <<ToIncoming(heard(i))>>
    IN IF ~Admitted(guard, post) \/ ~post.page \/ \E i \in DOMAIN post.events : ~post.events[i].fits THEN <<>>
       ELSE Deduped(FlattenSeq([i \in DOMAIN post.events |-> incoming(i)]))

\* mergeTurns: the texts line by line, and the last photo, voice note and ad.
MergeTurns(items) ==
    LET batch == Deduped(items)
        each(field) == [i \in DOMAIN batch |-> batch[i][field]]
    IN [text |-> FlattenSeq(each("text")), lastImageUrl |-> LastOf(each("lastImageUrl")),
        lastAudioUrl |-> LastOf(each("lastAudioUrl")), adRef |-> LastOf(each("adRef"))]
===============================================================================
