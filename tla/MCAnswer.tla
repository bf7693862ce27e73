------------------------------ MODULE MCAnswer ------------------------------
(* Two turns, two products, three entries (one of a product, one of the      *)
(* store, one draft), two personas and two switches.                         *)
EXTENDS Answer

CONSTANTS t1, t2, p1, p2, e1, e2, e3, a1, a2, s1, s2, u1, u2, u3, key

MCFirstShelf == [p \in Products |-> "published"]
MCFirstEntry == [e \in Entries |-> CASE e = e1 -> [product |-> p1, published |-> TRUE]
                                     [] e = e2 -> [product |-> None, published |-> TRUE]
                                     [] OTHER -> [product |-> None, published |-> FALSE]]
\* The second image is shared, and one was stored with a key that is no url.
MCPhotos == [p \in Products |-> IF p = p1 THEN <<u1, key, u2>> ELSE <<u2, u3>>]

Public == [class |-> "ipv4", a |-> 100, b |-> 63]
Url(ips) == [scheme |-> "https", host |-> "cdn", addresses |-> ips]
File == [url |-> Url({Public}), answered |-> TRUE, declared |-> 1, bytes |-> 1,
         header |-> "audio/mp4", magic |-> Missing, seconds |-> 2]
MCRecordings ==
    {File,
     [File EXCEPT !.bytes = 2], [File EXCEPT !.bytes = 0], [File EXCEPT !.seconds = 3],
     [File EXCEPT !.header = Missing, !.magic = "audio/mpeg", !.seconds = Missing],
     [File EXCEPT !.answered = FALSE],
     [File EXCEPT !.url = Url({Public, [class |-> "mapped", a |-> 10, b |-> 0]})],
     [File EXCEPT !.url = Url({[class |-> "link-local", a |-> 0, b |-> 0]})]}
MCSpoken ==
    {Missing} \cup [words : BOOLEAN, intelligible : {TRUE}, confidence : {1}]
              \cup [words : {TRUE}, intelligible : BOOLEAN, confidence : {0}]
MCPictures == {File, [File EXCEPT !.answered = FALSE], [File EXCEPT !.declared = 2], [File EXCEPT !.bytes = 0]}
MCShown == {Missing} \cup [clothing : BOOLEAN, confidence : {0, 1}]

Bare == [fits |-> TRUE, mid |-> Missing, text |-> Missing, quick |-> Missing, attachments |-> <<>>,
         title |-> Missing, payload |-> Missing, referrals |-> <<Missing, Missing, Missing>>]
Text(mid, line) == [Bare EXCEPT !.mid = mid, !.text = <<line>>]
Upload(mid, type, f) == [Bare EXCEPT !.mid = mid, !.attachments = <<[type |-> type, url |-> f]>>]
Ad == [ref |-> TRUE, other |-> TRUE]
GetStarted == [Bare EXCEPT !.title = <<"words">>, !.payload = <<"faq">>, !.referrals[3] = Ad]
\* Posts that Messenger has signed, by their events.
Signed(bodies) == [i \in DOMAIN bodies |-> [signed |-> TRUE, page |-> TRUE, events |-> bodies[i]]]
\* One post of one event.
Alone(event) == Signed(<< <<event>> >>)
Typed(line) == Alone(Text("m1", line))

\* Texts alone, answered with a quick reply, a button or a burst, with an ad and again.
Texts ==
    {Typed(line) : line \in Lines} \cup
    {Alone(GetStarted),
     Alone([Text("m1", "greeting") EXCEPT !.referrals[1] = Ad]),
     Alone([Text("m1", "words") EXCEPT !.quick = [payload |-> Missing, title |-> <<"number">>]]),
     Alone([Text("m1", "faq") EXCEPT !.quick = [payload |-> <<>>, title |-> Missing]]),
     Alone([Bare EXCEPT !.referrals[2] = Ad]),
     Alone(Upload("m1", "video", File)),
     [Typed("words") EXCEPT ![1].page = FALSE],
     [Typed("words") EXCEPT ![1].signed = FALSE] \o Typed("number"),
     Signed(<< <<Text("m1", "greeting")>>, <<Text("m2", "greeting")>> >>),
     Signed(<< <<Text("m1", "number")>>, <<Text("m1", "number"), Text("m2", "number")>> >>),
     Signed(<< <<Text("m1", "words"), [Text("m2", "words") EXCEPT !.fits = FALSE]>>, <<Text("m3", "faq")>> >>)}
\* Voice notes and photos, alone, with words, and more than one.
Uploads ==
    {Alone(Upload("m1", "audio", f)) : f \in MCRecordings}
    \cup {Signed(<< <<Upload("m1", "audio", f), Text("m2", "words")>> >>) : f \in MCRecordings}
    \cup {Signed(<< <<Upload("m1", "image", g)>>, <<Upload("m2", "audio", f)>> >>) : f \in MCRecordings, g \in MCPictures}
    \cup {Alone(Upload("m1", "image", g)) : g \in MCPictures}
    \cup {Signed(<< <<Upload("m1", "audio", File)>>, <<Upload("m2", "audio", f)>> >>) : f \in MCRecordings}
    \cup {Alone([Upload("m1", "audio", Missing) EXCEPT !.attachments = @ \o <<[type |-> "audio", url |-> File]>>])}

Edits(e, p, a) == [entries |-> e, products |-> p, personas |-> a]
\* One short message and its one short answer.
Quiet == [guard |-> [secret |-> TRUE, production |-> TRUE], hears |-> TRUE, triages |-> FALSE, paces |-> TRUE, recaps |-> FALSE, prefetch |-> "off",
          last |-> {}, turns |-> <<t1>>, replies |-> {<<"words">>},
          calls |-> 0, tools |-> {"search", "media", "knowledge"}, minutes |-> FALSE, faults |-> TRUE,
          apart |-> FALSE, switches |-> {}, panel |-> Edits(0, 0, 0)]
Replies == {<<>>, <<"emoji">>, <<"words">>, <<"markup", "words", "emoji", "words", "words">>}

Histories ==
    \* every message, with voice notes and photos of every kind
    "intake" :> Quiet
    @@ "deaf" :> [Quiet EXCEPT !.guard = [secret |-> FALSE, production |-> FALSE], !.hears = FALSE, !.triages = TRUE]
    \* every reply, tool call and failure of the delivery
    @@ "bubbles" :> [Quiet EXCEPT !.replies = Replies, !.calls = 2]
    @@ "whole" :> [Quiet EXCEPT !.replies = Replies, !.calls = 1, !.paces = FALSE]
    \* retrieval while the panel edits, with and without a product in context
    @@ "gated" :> [Quiet EXCEPT !.prefetch = "gated", !.panel = Edits(1, 0, 0)]
    @@ "always" :> [Quiet EXCEPT !.prefetch = "always", !.recaps = TRUE, !.panel = Edits(0, 1, 0), !.last = {p1}]
    @@ "tool" :> [Quiet EXCEPT !.calls = 1, !.tools = {"knowledge"}, !.faults = FALSE, !.panel = Edits(1, 0, 0)]
    \* a second turn that recalls what the first has shown
    @@ "recap" :> [Quiet EXCEPT !.recaps = TRUE, !.faults = FALSE, !.turns = <<t1, t2>>, !.calls = 1, !.tools = {"search"},
                                !.panel = Edits(0, 1, 0)]
    \* the persona is edited and switched
    @@ "personas" :> [Quiet EXCEPT !.minutes = TRUE, !.faults = FALSE,
                                   !.switches = {s1, s2}, !.panel = Edits(0, 0, 2)]
    \* two customers fill the cached prompt at once
    @@ "prompts" :> [Quiet EXCEPT !.minutes = TRUE, !.faults = FALSE, !.turns = <<t1, t2>>, !.apart = TRUE,
                                  !.switches = {s1}, !.panel = Edits(0, 0, 1)]

\* The same as one table, which TLC looks up faster than the chain.
MCScenarios == [name \in DOMAIN Histories |-> Histories[name]]

\* What is posted matters to the first stages; the other scenarios have one message.
MCPosts ==
    [name \in DOMAIN MCScenarios |->
        CASE name \in {"intake", "deaf"} -> Texts \cup Uploads
          [] name \in {"gated", "always"} -> {Typed("faq"), Signed(<< <<Text("m1", "number"), Upload("m2", "image", File)>> >>)}
          [] OTHER -> {Typed("words")}]
=============================================================================
