---------------------------- MODULE VideoMetadata ----------------------------
(***************************************************************************)
(* What the API makes of a link and of an answer of the YouTube Data API:   *)
(* ParseYouTubeURL (streams/url.go), Client.Fetch (youtube/client.go), and  *)
(* normalizeMetadata with the CHECKs of stream.streams behind it.           *)
(*                                                                         *)
(* Names, titles and pictures are abstracted to whether the code accepts    *)
(* them.  Times and durations are small numbers; NULL is Go's nil.          *)
(***************************************************************************)
EXTENDS Integers, Sequences

CONSTANTS
  Videos,
  MaxDuration,   \* the largest time.Duration
  NULL

ASSUME MaxDurationIsNumber == MaxDuration \in Nat
ASSUME NullIsNoVideo == NULL \notin Videos

-----------------------------------------------------------------------------
(* Links *)

\* The host stands for its aliases (www, m, music), "path" for what follows:
\* one segment, watch with one or with two v, a segment under another one.
\* "escapes" is how often the video ID is percent-encoded.
Link == [scheme : {"https", "http", "other"},
         authority : {"host", "user@host", "host:port"},
         host : {"youtu.be", "youtube.com", "youtube-nocookie.com", "other"},
         path : {"segment", "watch", "watch twice", "live", "shorts", "embed",
                 "other"},
         video : Videos \union {NULL},
         escapes : Nat]

\* How often the video ID is decoded, -1 if the place has none.  url.Path is
\* decoded already when PathUnescape decodes it again.
Decodings(host, path) ==
  CASE host = "youtu.be" /\ path = "segment" -> 2
    [] host = "youtube.com" /\ path \in {"watch", "live", "shorts", "embed"} -> 1
    [] host = "youtube-nocookie.com" /\ path = "embed" -> 2
    [] OTHER -> -1

\* ParseYouTubeURL: the video, or NULL for ErrInvalidYouTubeURL.
ParseYouTubeURL(link) ==
  IF /\ link.scheme \in {"https", "http"}
     /\ link.authority = "host"
     /\ link.escapes <= Decodings(link.host, link.path)
  THEN link.video ELSE NULL

-----------------------------------------------------------------------------
(* Answers of the YouTube Data API *)

Answer == [delivered : BOOLEAN,   \* a 2xx answer with JSON, within 10 seconds
           items : 0 .. 2,
           same : BOOLEAN,        \* the item has the ID that was asked for
           live : BOOLEAN,        \* it has liveStreamingDetails
           named : BOOLEAN,       \* title and channel are not blank
           thumbnail : {"none", "https", "invalid"},
           duration : Seq(Nat) \union {NULL},   \* its components; NULL: empty
           iso8601 : BOOLEAN,                   \* it has the form of a duration
           scheduledStart : Nat \union {NULL},
           actualStart : Nat \union {NULL},
           actualEnd : Nat \union {NULL}]

\* time.Duration(float64): out of range the result depends on the processor,
\* a negative number on amd64, the largest one on arm64.
Converted(amount) == IF amount <= MaxDuration THEN {amount} ELSE {-1, MaxDuration}

Total(parts) ==
  LET sum[i \in 0 .. Len(parts)] == IF i = 0 THEN 0 ELSE sum[i - 1] + parts[i]
  IN  sum[Len(parts)]

\* parseDuration: the results it may have, without its errors.
ParseDuration(answer) ==
  IF answer.duration = NULL THEN {NULL}
  ELSE LET components ==
             {p \in [DOMAIN answer.duration -> -1 .. MaxDuration] :
                \A i \in DOMAIN p : p[i] \in Converted(answer.duration[i])}
       IN  {Total(p) : p \in {p \in components :
              (\A i \in DOMAIN p : p[i] >= 0) /\ Total(p) <= MaxDuration}}

\* An error of it is possible.
Overflows(answer) ==
  /\ answer.duration # NULL
  /\ \/ \E i \in DOMAIN answer.duration : answer.duration[i] > MaxDuration
     \/ Total(answer.duration) > MaxDuration

LifecycleStatus(answer) ==
  CASE answer.actualEnd # NULL -> "ended"
    [] answer.actualEnd = NULL /\ answer.actualStart # NULL -> "live"
    [] answer.actualEnd = NULL /\ answer.actualStart = NULL
         /\ answer.scheduledStart # NULL -> "scheduled"
    [] OTHER -> "unknown"

Metadata == [lifecycle : {"scheduled", "live", "ended", "unknown"},
             actualStart : Nat \union {NULL},
             actualEnd : Nat \union {NULL},
             duration : Int \union {NULL}]

ASSUME NullIsNoMetadata == NULL \notin Metadata

\* Faulty variant: an answer about another video means that there is none.
FetchErrorHasty(answer) ==
  CASE ~answer.delivered -> "provider"
    [] answer.delivered /\ (answer.items # 1 \/ ~answer.same \/ ~answer.live)
         -> "unavailable"
    [] OTHER -> "none"

\* The error of Fetch: ErrVideoUnavailable, ErrMetadataProviderUnavailable.
FetchError(answer) ==
  IF ~answer.delivered THEN "provider"
  ELSE IF answer.items = 0 THEN "unavailable"
  ELSE IF answer.items # 1 \/ ~answer.same THEN "provider"
  ELSE IF ~answer.live THEN "unavailable"
  ELSE IF \/ ~answer.named
          \/ answer.duration # NULL /\ ~answer.iso8601
          \/ answer.thumbnail = "invalid" THEN "provider"
  ELSE "none"

\* The metadata Fetch may return of an answer without these errors (where the
\* duration overflows it may return ErrMetadataProviderUnavailable, too).
Fetched(answer) ==
  {[lifecycle |-> LifecycleStatus(answer),
    actualStart |-> answer.actualStart,
    actualEnd |-> answer.actualEnd,
    duration |-> d] : d \in ParseDuration(answer)}

-----------------------------------------------------------------------------
(* normalizeMetadata and stream.streams *)

InOrder(metadata) ==
  (metadata.actualStart # NULL /\ metadata.actualEnd # NULL)
    => metadata.actualStart <= metadata.actualEnd

\* Faulty variant: the order of start and end is left to the table.
AcceptsDisorder(metadata) == metadata.duration # NULL => metadata.duration >= 0

\* normalizeMetadata accepts.
Accepts(metadata) ==
  /\ metadata.duration # NULL => metadata.duration >= 0
  /\ InOrder(metadata)

\* streams_duration_nonnegative_check, streams_actual_time_order_check: a row
\* that fails them fails its statement.
Storable(metadata) ==
  /\ metadata.duration # NULL => metadata.duration >= 0
  /\ InOrder(metadata)
=============================================================================
