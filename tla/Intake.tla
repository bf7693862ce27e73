------------------------------- MODULE Intake -------------------------------
(***************************************************************************)
(* What becomes of a customer's voice note or photo before the agent sees  *)
(* her message: the download (downloadAudio, downloadImage), the           *)
(* transcription and the extraction of attributes.  None of them throws,   *)
(* keeps state or reads any, so each is an operator on what the network    *)
(* and the model did.  A file has a url (scheme, host, the addresses the   *)
(* host resolves to), the outcome of the request, the advertised and the   *)
(* real size, the type the header and the bytes tell, and a duration.      *)
(***************************************************************************)
EXTENDS Naturals, Events

CONSTANTS MaxBytes,    \* AUDIO_MAX_BYTES, VISION_MAX_IMAGE_BYTES
          MaxSeconds,  \* AUDIO_MAX_DURATION_SEC
          Sure         \* TRANSCRIPTION_MIN_CONFIDENCE, VISION_MIN_CONFIDENCE

\* isPrivateIpv4 on the first two octets of an address.
PrivateIpv4(a, b) ==
    \/ a \in {0, 10, 127} \/ a >= 224
    \/ a = 169 /\ b = 254
    \/ a = 172 /\ b \in 16..31
    \/ a = 192 /\ b = 168
    \/ a = 100 /\ b \in 64..127

\* isPrivateOrReservedIp; the IPv6 classes are told by prefix, and a mapped address is
\* judged by the IPv4 address it holds.
Private(ip) ==
    IF ip.class \in {"ipv4", "mapped"} THEN PrivateIpv4(ip.a, ip.b)
    ELSE ip.class \in {"loopback", "link-local", "unique-local"}

\* assertPublicHttpUrl: a literal is judged as it is, a name by all it resolves to.
PublicUrl(url) ==
    /\ url.scheme \in {"http", "https"}
    /\ url.host # "localhost"
    /\ url.addresses # {}
    /\ \A ip \in url.addresses : ~Private(ip)

\* The header's type if it is one of the supported, else the one of the magic bytes.
MediaType(f) == IF f.header # Missing THEN f.header ELSE f.magic

\* downloadAudio, in the order of its checks.
Downloaded(f) ==
    IF ~PublicUrl(f.url) \/ ~f.answered THEN "fetch_failed"
    ELSE IF f.declared > MaxBytes \/ f.bytes > MaxBytes THEN "too_large"
    ELSE IF f.bytes = 0 \/ MediaType(f) = Missing THEN "unsupported_format"
    ELSE "ok"

\* downloadImage: too large is a failure of the fetch, and an empty body is no image.
DownloadedImage(f) ==
    IF ~PublicUrl(f.url) \/ ~f.answered \/ f.declared > MaxBytes THEN "ImageFetchError"
    ELSE IF f.bytes = 0 THEN "ImageDecodeError"
    ELSE IF f.bytes > MaxBytes THEN "ImageFetchError"
    ELSE IF MediaType(f) = Missing THEN "ImageDecodeError"
    ELSE "ok"

\* sniffMp4DurationSec: only an MP4 tells its duration, and not every one.
Seconds(f) == IF MediaType(f) = "audio/mp4" THEN f.seconds ELSE Missing

TooLong(f) == Seconds(f) # Missing /\ Seconds(f) > MaxSeconds

\* What a model says of a file is Missing when the call threw or its answer does not fit the
\* schema; otherwise what it found and how sure it is.
Unusable(reason, words) == [ok |-> FALSE, reason |-> reason, words |-> words]

\* Mutant: the confidence is not looked at.
Judged_anyConfidence(says) ==
    IF ~says.words \/ ~says.intelligible THEN Unusable("unintelligible", says.words)
    ELSE [ok |-> TRUE, reason |-> Missing, words |-> TRUE]
\* The transcript of a recording that was not clear is kept for the admin.
Judged(says) ==
    IF ~says.words \/ ~says.intelligible THEN Unusable("unintelligible", says.words)
    ELSE IF says.confidence < Sure THEN Unusable("low_confidence", TRUE)
    ELSE [ok |-> TRUE, reason |-> Missing, words |-> TRUE]

\* TranscriptionService.transcribe.
Transcription(enabled, f, says) ==
    IF ~enabled THEN Unusable("disabled", FALSE)
    ELSE IF Downloaded(f) # "ok" THEN Unusable(Downloaded(f), FALSE)
    ELSE IF TooLong(f) THEN Unusable("too_long", FALSE)
    ELSE IF says = Missing THEN Unusable("model_failed", FALSE)
    ELSE Judged(says)

\* VisionService.extractAttributes: whether there are attributes, and why not.  A colour
\* the catalog does not know stays as the model named it.
Vision(enabled, f, says) ==
    LET none(why) == [attributes |-> FALSE, reason |-> why] IN
    IF ~enabled THEN none("disabled")
    ELSE IF DownloadedImage(f) # "ok" THEN none("fetch_failed")
    ELSE IF says = Missing THEN none("model_failed")
    ELSE IF ~says.clothing THEN none("not_a_product")
    ELSE [attributes |-> TRUE, reason |-> IF says.confidence < Sure THEN "low_confidence" ELSE Missing]
=============================================================================
