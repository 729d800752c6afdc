------------------------- MODULE StreamCatalogProofs -------------------------
(***************************************************************************)
(* Proofs about StreamCatalog, for every set of videos, users, monitors and   *)
(* links.                                                                  *)
(*                                                                         *)
(* CatalogInv speaks of the table and of reservations; what is stored there   *)
(* was fetched before, so IInv says the same of what users and monitors hold  *)
(* between their calls, and that only an active reservation is claimed.      *)
(***************************************************************************)
EXTENDS StreamCatalog, TLAPS

\* A user between fetch and insert holds metadata that normalizeMetadata has
\* accepted, and has an answer otherwise.
RequestInv(u) ==
  /\ user[u] \in Request
  /\ user[u].pc # "idle" => user[u].video \in Videos /\ user[u].status = 0
  /\ user[u].pc = "creating" =>
       user[u].metadata \in Metadata /\ Storable(user[u].metadata)
  /\ user[u].status = 422 =>
       user[u].video \in Videos /\ broadcast[user[u].video] \in Unavailable
  /\ user[u].status # 500

\* A monitor between fetch and write.
MonitorInv(m) ==
  /\ mon[m] \in Monitor
  /\ mon[m].pc # "idle" => mon[m].video \in Videos /\ mon[m].state \in Active
  /\ mon[m].pc = "applying" => mon[m].metadata \in Metadata
  /\ mon[m].error = "unavailable" =>
       mon[m].video \in Videos /\ broadcast[mon[m].video] \in Unavailable

ReservationClaims ==
  \A v \in Videos : rsv[v].claim # NULL => rsv[v].state \in Active

ActorsInv ==
  /\ user \in [Users -> Request]
  /\ mon \in [Monitors -> Monitor]
  /\ DOMAIN streams = Videos
  /\ \A u \in Users : RequestInv(u)
  /\ \A m \in Monitors : MonitorInv(m)
  /\ ReservationClaims

IInv == ActorsInv /\ CatalogInv

-----------------------------------------------------------------------------
(* What Fetch makes of an answer *)

\* The components of a duration are summed up one by one.
LEMMA TotalOfShort ==
  ASSUME NEW n \in {1, 2}, NEW p \in [1 .. n -> Int]
  PROVE  Total(p) \in Int
<1>1. p \in Seq(Int) /\ Len(p) = n
  OBVIOUS
<1> DEFINE f == [i \in 0 .. Len(p) |-> IF i = 0 THEN 0
                                       ELSE IF i = 1 THEN p[1] ELSE p[1] + p[2]]
           sum == CHOOSE g : g = [i \in 0 .. Len(p) |->
                                    IF i = 0 THEN 0 ELSE g[i - 1] + p[i]]
<1>2. f = [i \in 0 .. Len(p) |-> IF i = 0 THEN 0 ELSE f[i - 1] + p[i]]
  BY <1>1
<1>3. sum = [i \in 0 .. Len(p) |-> IF i = 0 THEN 0 ELSE sum[i - 1] + p[i]]
  BY <1>2
<1>4. Total(p) = sum[Len(p)]
  BY DEF Total
<1> HIDE DEF sum, f
<1>5. sum[0] = 0
  BY <1>1, <1>3
<1>6. sum[1] = 0 + p[1]
  BY <1>1, <1>3, <1>5
<1>7. n = 2 => sum[2] = sum[1] + p[2]
  BY <1>1, <1>3
<1> QED
  BY <1>1, <1>4, <1>6, <1>7

\* What is said of an answer that is not the truth is true, but for the one
\* thing that is out of order.
LEMMA AnswerFields ==
  ASSUME NEW v \in Videos, NEW a \in Answers(v)
  PROVE  /\ a.items = 0 => broadcast[v] = "gone"
         /\ ~a.live => broadcast[v] = "no broadcast"
         /\ a.actualStart \in Nat \union {NULL}
         /\ a.actualEnd \in Nat \union {NULL}
         /\ a.duration \in {NULL, <<1, 1>>, <<0>>, <<1, MaxDuration>>,
                            <<MaxDuration + 1>>}
<1> DEFINE t == Truth(v)
<1>1. t.items = 0 => broadcast[v] = "gone"
  BY DEF Truth
<1>2. ~t.live => broadcast[v] = "no broadcast"
  BY DEF Truth
<1>3. t.actualStart \in Nat \union {NULL}
  <2>1. t.actualStart \in {NULL, 1, 2}
    BY DEF Truth
  <2> QED
    BY <2>1
<1>4. t.actualEnd \in Nat \union {NULL}
  <2>1. t.actualEnd \in {NULL, 1, 2}
    BY DEF Truth
  <2> QED
    BY <2>1
<1>5. t.duration \in {NULL, <<1, 1>>}
  BY DEF Truth
<1>6. t = [delivered |-> t.delivered, items |-> t.items, same |-> t.same,
              live |-> t.live, named |-> t.named, thumbnail |-> t.thumbnail,
              duration |-> t.duration, iso8601 |-> t.iso8601,
              scheduledStart |-> t.scheduledStart,
              actualStart |-> t.actualStart, actualEnd |-> t.actualEnd]
  BY DEF Truth
<1>7. \/ a = t
      \/ a = [t EXCEPT !.delivered = FALSE]
      \/ a = [t EXCEPT !.items = 2]
      \/ a = [t EXCEPT !.same = FALSE]
      \/ a = [t EXCEPT !.named = FALSE]
      \/ a = [t EXCEPT !.thumbnail = "invalid"]
      \/ a = [t EXCEPT !.scheduledStart = NULL]
      \/ a = [t EXCEPT !.duration = <<0>>, !.iso8601 = FALSE]
      \/ a = [t EXCEPT !.duration = <<0>>]
      \/ a = [t EXCEPT !.duration = <<1, MaxDuration>>]
      \/ a = [t EXCEPT !.duration = <<MaxDuration + 1>>]
  BY DEF Answers
<1> HIDE DEF t
<1>8. ~a.live => ~t.live
  BY <1>6, <1>7
<1>9. a.items \in {t.items, 2}
  BY <1>6, <1>7
<1>10. a.actualStart = t.actualStart /\ a.actualEnd = t.actualEnd
  BY <1>6, <1>7
<1>11. a.duration \in {t.duration, <<0>>, <<1, MaxDuration>>, <<MaxDuration + 1>>}
  BY <1>6, <1>7
<1>12. /\ a.items = 0 => broadcast[v] = "gone"
       /\ a.actualStart \in Nat \union {NULL}
       /\ a.actualEnd \in Nat \union {NULL}
       /\ a.duration \in {NULL, <<1, 1>>, <<0>>, <<1, MaxDuration>>,
                          <<MaxDuration + 1>>}
  BY <1>1, <1>3, <1>4, <1>5, <1>9, <1>10, <1>11
<1> QED
  BY <1>2, <1>8, <1>12

LEMMA FetchedMetadata ==
  ASSUME NEW v \in Videos, NEW a \in Answers(v), NEW metadata \in Fetched(a)
  PROVE  metadata \in Metadata
<1>1. ASSUME NEW d \in ParseDuration(a)
      PROVE  d \in Int \union {NULL}
  <2>1. CASE a.duration = NULL
    BY <1>1, <2>1 DEF ParseDuration
  <2>2. CASE a.duration # NULL
    <3>1. PICK n \in {1, 2} : DOMAIN a.duration = 1 .. n
      <4>1. a.duration \in {<<1, 1>>, <<0>>, <<1, MaxDuration>>, <<MaxDuration + 1>>}
        BY <2>2, AnswerFields
      <4> QED
        BY <4>1
    <3>2. PICK p \in [1 .. n -> -1 .. MaxDuration] : d = Total(p)
      BY <1>1, <2>2, <3>1 DEF ParseDuration
    <3>3. p \in [1 .. n -> Int]
      BY <3>2, MaxDurationIsNumber
    <3> QED
      BY <3>2, <3>3, TotalOfShort
  <2> QED
    BY <2>1, <2>2
<1>2. LifecycleStatus(a) \in {"scheduled", "live", "ended", "unknown"}
  BY DEF LifecycleStatus
<1>3. PICK d \in ParseDuration(a) :
        metadata = [lifecycle |-> LifecycleStatus(a),
                    actualStart |-> a.actualStart,
                    actualEnd |-> a.actualEnd,
                    duration |-> d]
  BY DEF Fetched
<1>4. a.actualStart \in Nat \union {NULL} /\ a.actualEnd \in Nat \union {NULL}
  BY AnswerFields
<1> QED
  BY <1>1, <1>2, <1>3, <1>4 DEF Metadata

\* A fetch that succeeds has metadata, and one that finds the video missing is
\* right about it.
LEMMA FetchIsRight ==
  ASSUME NEW v \in Videos, NEW error, NEW metadata, Fetches(v, error, metadata)
  PROVE  /\ error \in Results
         /\ error = "none" => metadata \in Metadata
         /\ error # "none" => metadata = NULL
         /\ error = "unavailable" => broadcast[v] \in Unavailable
<1>1. PICK a \in Answers(v) :
        \/ /\ FetchError(a) # "none"
           /\ error = FetchError(a) /\ metadata = NULL
        \/ /\ FetchError(a) = "none"
           /\ error = "none" /\ metadata \in Fetched(a)
        \/ /\ FetchError(a) = "none" /\ Overflows(a)
           /\ error = "provider" /\ metadata = NULL
  BY DEF Fetches
<1>2. FetchError(a) \in Results
  BY DEF FetchError, Results
<1>3. FetchError(a) = "unavailable" => broadcast[v] \in Unavailable
  BY AnswerFields DEF FetchError, Unavailable
<1>4. CASE FetchError(a) # "none" /\ error = FetchError(a) /\ metadata = NULL
  BY <1>2, <1>3, <1>4
<1>5. CASE error = "none" /\ metadata \in Fetched(a)
  BY <1>5, FetchedMetadata DEF Results
<1>6. CASE error = "provider" /\ metadata = NULL
  BY <1>6 DEF Results
<1> QED
  BY <1>1, <1>4, <1>5, <1>6

-----------------------------------------------------------------------------
(* YouTube *)

\* A video that is gone stays so, and what never was a broadcast may go.
LEMMA BroadcastStep ==
  ASSUME IInv, NEW v \in Videos, BroadcastGoesOn(v)
  PROVE  IInv'
<1>1. /\ broadcast' \in [Videos -> Phase]
      /\ \A w \in Videos : broadcast[w] \in Unavailable => broadcast'[w] \in Unavailable
  BY DEF BroadcastGoesOn, IInv, CatalogInv, TypeOK, Phase, Unavailable
<1>2. reversed' = reversed /\ streams' = streams /\ rsv' = rsv /\ user' = user /\ mon' = mon
  BY DEF BroadcastGoesOn
<1>3. \A u \in Users : RequestInv(u)'
  BY <1>1, <1>2 DEF IInv, ActorsInv, RequestInv
<1>4. \A m \in Monitors : MonitorInv(m)'
  <2> SUFFICES ASSUME NEW m \in Monitors PROVE MonitorInv(m)'
    OBVIOUS
  <2>1. MonitorInv(m)
    BY DEF IInv, ActorsInv
  <2> QED
    BY <1>1, <1>2, <2>1 DEF MonitorInv
<1>5. ActorsInv'
  BY <1>2, <1>3, <1>4 DEF IInv, ActorsInv, ReservationClaims
<1>6. CatalogInv'
  BY <1>1, <1>2 DEF IInv, CatalogInv, TypeOK, CollectedIsComplete,
     TableNeverRefuses, OnlyGoneIsUnavailable, ActorsInv, RequestInv
<1> QED
  BY <1>5, <1>6 DEF IInv

-----------------------------------------------------------------------------
(* Registration *)

AnsweredWith(video, status) ==
  [NoRequest EXCEPT !.video = video, !.status = status]

LEMMA AnsweredRequest ==
  ASSUME NEW video \in Videos, NEW status \in {201, 409, 422, 503}
  PROVE  LET r == AnsweredWith(video, status)
         IN  /\ r \in Request /\ r.pc = "idle" /\ r.status = status
             /\ r.video = video
<1> DEFINE r == AnsweredWith(video, status)
<1>0. r = [NoRequest EXCEPT !.video = video, !.status = status]
  BY DEF AnsweredWith
<1> HIDE DEF r
<1>1. r.pc = "idle" /\ r.video = video
  BY <1>0 DEF NoRequest
<1>2. r.status = status
  BY <1>0 DEF NoRequest
<1> DEFINE s == [NoRequest EXCEPT !.video = video]
<1>3. s \in Request
  BY DEF NoRequest, Request
<1>4. r = [s EXCEPT !.status = status]
  BY <1>0
<1> HIDE DEF s
<1>5. r \in Request
  BY <1>3, <1>4 DEF Request
<1> QED
  BY <1>1, <1>2, <1>5 DEF r

FetchedBy(request, metadata) ==
  [request EXCEPT !.pc = "creating", !.metadata = metadata]

LEMMA CreatingRequest ==
  ASSUME NEW request \in Request, NEW metadata \in Metadata
  PROVE  LET r == FetchedBy(request, metadata)
         IN  /\ r \in Request /\ r.pc = "creating" /\ r.metadata = metadata
             /\ r.video = request.video /\ r.status = request.status
<1> DEFINE r == FetchedBy(request, metadata)
<1>0. r = [request EXCEPT !.pc = "creating", !.metadata = metadata]
  BY DEF FetchedBy
<1> HIDE DEF r
<1>1. r.pc = "creating" /\ r.video = request.video /\ r.status = request.status
  BY <1>0 DEF Request
<1>2. r.metadata = metadata
  BY <1>0 DEF Request
<1> DEFINE s == [request EXCEPT !.pc = "creating"]
<1>3. s \in Request
  BY <1>0 DEF Request
<1>4. r = [s EXCEPT !.metadata = metadata]
  BY <1>0
<1> HIDE DEF s
<1>5. r \in Request
  BY <1>3, <1>4 DEF Request
<1> QED
  BY <1>1, <1>2, <1>5 DEF r

\* A step of one user, who writes at most a row that was not there.
LEMMA UserStep ==
  ASSUME IInv, NEW u \in Users, NEW r \in Request,
         user' = [user EXCEPT ![u] = r], RequestInv(u)',
         broadcast' = broadcast, rsv' = rsv, mon' = mon,
         DOMAIN streams' = Videos,
         \A v \in Videos : streams[v] # NULL => streams'[v] = streams[v],
         \A v \in Videos : streams'[v] # NULL => streams'[v] \in Metadata
  PROVE  IInv'
<1>1. user'[u] = r /\ \A w \in Users \ {u} : user'[w] = user[w]
  BY DEF IInv, ActorsInv
<1>2. \A w \in Users : RequestInv(w)'
  BY <1>1 DEF IInv, ActorsInv, RequestInv
<1>3. \A m \in Monitors : MonitorInv(m)'
  BY DEF IInv, ActorsInv, MonitorInv
<1>4. ActorsInv'
  BY <1>2, <1>3 DEF IInv, ActorsInv, ReservationClaims
<1>5. CollectedIsComplete'
  BY DEF IInv, CatalogInv, CollectedIsComplete
<1>6. TypeOK'
  BY DEF IInv, CatalogInv, TypeOK
<1>7. TableNeverRefuses' /\ OnlyGoneIsUnavailable'
  BY <1>2 DEF RequestInv, TableNeverRefuses, OnlyGoneIsUnavailable, IInv, CatalogInv
<1> QED
  BY <1>4, <1>5, <1>6, <1>7 DEF IInv, CatalogInv

LEMMA RegisterStep ==
  ASSUME IInv, NEW u \in Users, NEW link \in Links, Register(u, link)
  PROVE  IInv'
<1> DEFINE video == ParseYouTubeURL(link)
           r == IF video = NULL THEN [NoRequest EXCEPT !.status = 400]
                ELSE [NoRequest EXCEPT !.pc = "fetching", !.video = video]
<1>1. video \in Videos \union {NULL}
  BY LinksAssumption DEF ParseYouTubeURL
<1>2. user' = [user EXCEPT ![u] = r]
  BY DEF Register
<1> HIDE DEF video
<1>3. CASE video = NULL
  <2>1. r \in Request /\ r.pc = "idle" /\ r.status = 400
    BY <1>3 DEF NoRequest, Request
  <2> HIDE DEF r
  <2>2. RequestInv(u)'
    BY <1>2, <2>1 DEF RequestInv, IInv, ActorsInv
  <2> QED
    BY <1>2, <2>1, <2>2, UserStep DEF Register, IInv, ActorsInv, CatalogInv, TypeOK
<1>4. CASE video # NULL
  <2>1. /\ r \in Request /\ r.pc = "fetching" /\ r.status = 0
        /\ r.video \in Videos
    BY <1>1, <1>4 DEF NoRequest, Request
  <2> HIDE DEF r
  <2>2. RequestInv(u)'
    BY <1>2, <2>1 DEF RequestInv, IInv, ActorsInv
  <2> QED
    BY <1>2, <2>1, <2>2, UserStep DEF Register, IInv, ActorsInv, CatalogInv, TypeOK
<1> QED
  BY <1>3, <1>4

\* An answer to the user that is true of the broadcast and not a 500.
LEMMA AnsweredStep ==
  ASSUME IInv, NEW u \in Users, NEW status \in {201, 409, 422, 503},
         user[u].pc # "idle", Answered(u, status),
         status = 422 => broadcast[user[u].video] \in Unavailable,
         broadcast' = broadcast, rsv' = rsv, mon' = mon,
         DOMAIN streams' = Videos,
         \A v \in Videos : streams[v] # NULL => streams'[v] = streams[v],
         \A v \in Videos : streams'[v] # NULL => streams'[v] \in Metadata
  PROVE  IInv'
<1>1. PICK video \in Videos : video = user[u].video
  BY DEF IInv, ActorsInv, RequestInv
<1> DEFINE r == AnsweredWith(video, status)
<1>2. user' = [user EXCEPT ![u] = r]
  BY <1>1 DEF Answered, AnsweredWith
<1>3. /\ r \in Request /\ r.pc = "idle" /\ r.status = status
      /\ r.video = user[u].video
  BY <1>1, AnsweredRequest
<1> HIDE DEF r
<1>4. RequestInv(u)'
  BY <1>1, <1>2, <1>3 DEF RequestInv, IInv, ActorsInv
<1> QED
  BY <1>2, <1>3, <1>4, UserStep

LEMMA UserFetchesStep ==
  ASSUME IInv, NEW u \in Users, UserFetches(u)
  PROVE  IInv'
<1>0. /\ broadcast' = broadcast /\ streams' = streams /\ rsv' = rsv /\ mon' = mon
      /\ DOMAIN streams = Videos
      /\ \A v \in Videos : streams[v] # NULL => streams[v] \in Metadata
      /\ user[u].pc = "fetching" /\ user[u].video \in Videos
  BY DEF UserFetches, IInv, ActorsInv, RequestInv, CatalogInv, TypeOK
<1>1. PICK error \in Results, metadata \in Observed(user[u].video) :
        /\ Fetches(user[u].video, error, metadata)
        /\ IF error = "unavailable" THEN Answered(u, 422)
           ELSE IF error = "provider" \/ ~Accepts(metadata) THEN Answered(u, 503)
           ELSE user' = [user EXCEPT ![u].pc = "creating",
                                     ![u].metadata = metadata]
  BY DEF UserFetches
<1>2. /\ error = "none" => metadata \in Metadata
      /\ error = "unavailable" => broadcast[user[u].video] \in Unavailable
  BY <1>0, <1>1, FetchIsRight
<1>3. CASE error = "unavailable"
  BY <1>0, <1>1, <1>2, <1>3, AnsweredStep
<1>4. CASE error # "unavailable" /\ (error = "provider" \/ ~Accepts(metadata))
  BY <1>0, <1>1, <1>4, AnsweredStep
<1>5. CASE error = "none" /\ Accepts(metadata)
  <2>1. PICK request \in Request : request = user[u]
    BY DEF IInv, ActorsInv
  <2> DEFINE r == FetchedBy(request, metadata)
  <2>2. user' = [user EXCEPT ![u] = r]
    BY <1>1, <1>5, <2>1 DEF IInv, ActorsInv, FetchedBy
  <2>3. /\ r \in Request /\ r.pc = "creating" /\ r.metadata = metadata
        /\ r.video = user[u].video /\ r.status = user[u].status
    BY <1>2, <1>5, <2>1, CreatingRequest
  <2> HIDE DEF r
  <2>4. Storable(metadata)
    BY <1>5 DEF Accepts, Storable
  <2>5. RequestInv(u)'
    <3>1. user'[u] = r
      BY <2>2 DEF IInv, ActorsInv
    <3>2. r.status = 0
      BY <1>0, <2>3 DEF IInv, ActorsInv, RequestInv
    <3> QED
      BY <1>0, <1>2, <1>5, <2>3, <2>4, <3>1, <3>2 DEF RequestInv
  <2> QED
    BY <1>0, <2>2, <2>3, <2>5, UserStep
<1> QED
  BY <1>3, <1>4, <1>5 DEF Results

LEMMA CreateStep ==
  ASSUME IInv, NEW u \in Users, Create(u)
  PROVE  IInv'
<1>1. /\ user[u].video \in Videos
      /\ user[u].metadata \in Metadata /\ Storable(user[u].metadata)
      /\ user[u].pc = "creating"
  BY DEF Create, IInv, ActorsInv, RequestInv
<1>2. streams' = IF streams[user[u].video] = NULL
                 THEN [streams EXCEPT ![user[u].video] = user[u].metadata]
                 ELSE streams
  BY <1>1 DEF Create
<1>3. Answered(u, IF streams[user[u].video] # NULL THEN 409 ELSE 201)
  BY <1>1 DEF Create
<1>4. /\ DOMAIN streams' = Videos
      /\ \A v \in Videos : streams[v] # NULL => streams'[v] = streams[v]
      /\ \A v \in Videos : streams'[v] # NULL => streams'[v] \in Metadata
  BY <1>1, <1>2 DEF IInv, ActorsInv, CatalogInv, TypeOK
<1>5. PICK status \in {201, 409} : Answered(u, status)
  BY <1>3
<1> QED
  BY <1>1, <1>4, <1>5, AnsweredStep DEF Create

-----------------------------------------------------------------------------
(* Reservations *)

\* The row of one reservation changes, and no monitor notices.
LEMMA ReservationStep ==
  ASSUME IInv, NEW v \in Videos, NEW r \in Rsv,
         rsv' = [rsv EXCEPT ![v] = r],
         r.claim = NULL,
         r.error = "none", r.state # "collecting",
         broadcast' = broadcast, streams' = streams, user' = user, mon' = mon
  PROVE  IInv'
<1>1. rsv'[v] = r /\ \A w \in Videos \ {v} : rsv'[w] = rsv[w]
  BY DEF IInv, CatalogInv, TypeOK
<1>2. \A u \in Users : RequestInv(u)'
  BY DEF IInv, ActorsInv, RequestInv
<1>3. \A m \in Monitors : MonitorInv(m)'
  BY DEF IInv, ActorsInv, MonitorInv
<1>4. ReservationClaims'
  BY <1>1 DEF IInv, ActorsInv, ReservationClaims
<1>5. CatalogInv'
  BY <1>1 DEF IInv, CatalogInv, TypeOK, CollectedIsComplete,
     TableNeverRefuses, OnlyGoneIsUnavailable
<1> QED
  BY <1>2, <1>3, <1>4, <1>5 DEF IInv, ActorsInv

LEMMA ReserveStep ==
  ASSUME IInv, NEW v \in Videos, Reserve(v) \/ Cancel(v) \/ Completed(v)
  PROVE  IInv'
<1>1. PICK state \in {"monitored", "canceled", "none"} :
        rsv' = [rsv EXCEPT ![v] = [NoRsv EXCEPT !.state = state]]
  BY DEF Reserve, Cancel, Completed, NoRsv
<1> DEFINE r == [NoRsv EXCEPT !.state = state]
<1>2. /\ r \in Rsv /\ r.claim = NULL /\ r.error = "none"
      /\ r.state # "collecting"
  BY DEF NoRsv, Rsv, Active
<1> HIDE DEF r
<1> QED
  BY <1>1, <1>2, ReservationStep DEF Reserve, Cancel, Completed, r

-----------------------------------------------------------------------------
(* Monitors *)

\* A monitor takes a step with its own row, or with none.  What it writes of a
\* row keeps what CatalogInv says of it.
LEMMA MonitorStep ==
  ASSUME IInv, NEW m \in Monitors, NEW n \in Monitor,
         mon' = [mon EXCEPT ![m] = n], MonitorInv(m)',
         broadcast' = broadcast, streams' = streams, user' = user,
         NEW v \in Videos, NEW r \in Rsv,
         rsv' = [rsv EXCEPT ![v] = r],
         r.claim # NULL => r.state \in Active,
         r.state = "collecting" => rsv[v].state = "collecting",
         r.error = "unavailable" => broadcast[v] \in Unavailable
  PROVE  IInv'
<1>1. mon'[m] = n /\ \A o \in Monitors \ {m} : mon'[o] = mon[o]
  BY DEF IInv, ActorsInv
<1>2. rsv'[v] = r /\ \A w \in Videos \ {v} : rsv'[w] = rsv[w]
  BY DEF IInv, CatalogInv, TypeOK
<1>3. \A u \in Users : RequestInv(u)'
  BY DEF IInv, ActorsInv, RequestInv
<1>4. \A o \in Monitors : MonitorInv(o)'
  BY <1>1 DEF IInv, ActorsInv, MonitorInv
<1>5. ReservationClaims'
  BY <1>2 DEF IInv, ActorsInv, ReservationClaims
<1>6. CatalogInv'
  BY <1>2 DEF IInv, CatalogInv, TypeOK, CollectedIsComplete,
     TableNeverRefuses, OnlyGoneIsUnavailable
<1> QED
  BY <1>3, <1>4, <1>5, <1>6 DEF IInv, ActorsInv

LEMMA ClaimStep ==
  ASSUME IInv, NEW m \in Monitors, NEW v \in Videos, Claim(m, v)
  PROVE  IInv'
<1> DEFINE n == [Idle EXCEPT !.pc = "fetching", !.video = v,
                             !.state = rsv[v].state]
           r == [rsv[v] EXCEPT !.claim = m]
<1>1. rsv[v] \in Rsv /\ rsv[v].state \in Active
  BY DEF Claim, IInv, CatalogInv, TypeOK
<1>2. /\ n \in Monitor /\ n.pc = "fetching" /\ n.video = v
      /\ n.state = rsv[v].state /\ n.error = "none"
  BY <1>1 DEF Idle, Monitor
<1>3. /\ r \in Rsv /\ r.claim = m /\ r.state = rsv[v].state
      /\ r.error = rsv[v].error
  BY <1>1 DEF Rsv
<1>4. /\ mon' = [mon EXCEPT ![m] = n] /\ rsv' = [rsv EXCEPT ![v] = r]
      /\ broadcast' = broadcast /\ streams' = streams /\ user' = user
  BY DEF Claim
<1> HIDE DEF n, r
<1>5. MonitorInv(m)'
  BY <1>1, <1>2, <1>4 DEF IInv, ActorsInv, MonitorInv
<1>6. rsv[v].error = "unavailable" => broadcast[v] \in Unavailable
  BY DEF IInv, CatalogInv, OnlyGoneIsUnavailable
<1> QED
  <2>1. r.claim # NULL => r.state \in Active
    BY <1>1, <1>3
  <2>2. r.state = "collecting" => rsv[v].state = "collecting"
    BY <1>3
  <2>3. r.error = "unavailable" => broadcast[v] \in Unavailable
    BY <1>3, <1>6
  <2> QED
    BY <1>2, <1>3, <1>4, <1>5, <2>1, <2>2, <2>3, MonitorStep

AfterFetch(monitor, error, metadata) ==
  [monitor EXCEPT !.pc = IF error = "none" THEN "applying" ELSE "failing",
                  !.metadata = metadata, !.error = error]

LEMMA FetchedMonitor ==
  ASSUME NEW monitor \in Monitor, NEW error \in Results,
         NEW metadata \in Metadata \union {NULL}
  PROVE  LET n == AfterFetch(monitor, error, metadata)
         IN  /\ n \in Monitor /\ n.video = monitor.video
             /\ n.state = monitor.state
             /\ n.metadata = metadata /\ n.error = error
             /\ n.pc = "applying" => error = "none"
<1> DEFINE n == AfterFetch(monitor, error, metadata)
<1>0. n = [monitor EXCEPT
             !.pc = IF error = "none" THEN "applying" ELSE "failing",
             !.metadata = metadata, !.error = error]
  BY DEF AfterFetch
<1> HIDE DEF n
<1>1. n.video = monitor.video /\ n.state = monitor.state
  BY <1>0 DEF Monitor
<1>2. n.metadata = metadata
  BY <1>0 DEF Monitor
<1>3. n.error = error
  BY <1>0 DEF Monitor
<1>4. n.pc = "applying" => error = "none"
  BY <1>0 DEF Monitor
<1> DEFINE pc == IF error = "none" THEN "applying" ELSE "failing"
           o == [monitor EXCEPT !.pc = pc]
           p == [o EXCEPT !.metadata = metadata]
<1>5. o \in Monitor
  BY <1>0 DEF Monitor
<1>6. n = [p EXCEPT !.error = error]
  BY <1>0
<1> HIDE DEF o
<1>7. p \in Monitor
  BY <1>5 DEF Monitor
<1> HIDE DEF p
<1>8. n \in Monitor
  BY <1>6, <1>7 DEF Monitor, Results
<1> QED
  BY <1>1, <1>2, <1>3, <1>4, <1>8 DEF n

LEMMA MonitorFetchesStep ==
  ASSUME IInv, NEW m \in Monitors, MonitorFetches(m)
  PROVE  IInv'
<1>1. PICK v \in Videos : v = mon[m].video
  BY DEF MonitorFetches, IInv, ActorsInv, MonitorInv
<1>2. PICK error \in Results, metadata \in Observed(v) :
        /\ Fetches(v, error, metadata)
        /\ mon' = [mon EXCEPT
             ![m].pc = IF error = "none" THEN "applying" ELSE "failing",
             ![m].metadata = metadata, ![m].error = error]
  BY <1>1 DEF MonitorFetches
<1>3. /\ error = "none" => metadata \in Metadata
      /\ error # "none" => metadata = NULL
      /\ error = "unavailable" => broadcast[v] \in Unavailable
  BY <1>2, FetchIsRight
<1>4. metadata \in Metadata \union {NULL}
  BY <1>3
<1>5. /\ mon[m] \in Monitor /\ mon[m].video = v /\ mon[m].state \in Active
  BY <1>1 DEF MonitorFetches, IInv, ActorsInv, MonitorInv
<1>6. PICK monitor \in Monitor : monitor = mon[m]
  BY <1>5
<1> DEFINE n == AfterFetch(monitor, error, metadata)
<1>7. mon' = [mon EXCEPT ![m] = n]
  BY <1>2, <1>6 DEF IInv, ActorsInv, AfterFetch
<1>8. /\ n \in Monitor
      /\ n.video = v /\ n.state \in Active /\ n.error = error
      /\ n.metadata = metadata /\ (n.pc = "applying" => error = "none")
  BY <1>4, <1>5, <1>6, FetchedMonitor
<1> HIDE DEF n
<1>9. MonitorInv(m)'
  <2>1. mon'[m] = n /\ broadcast' = broadcast
    BY <1>7 DEF IInv, ActorsInv, MonitorFetches
  <2> QED
    BY <1>3, <1>8, <2>1 DEF MonitorInv
<1>10. /\ rsv' = [rsv EXCEPT ![v] = rsv[v]] /\ rsv[v] \in Rsv
       /\ rsv[v].claim # NULL => rsv[v].state \in Active
       /\ rsv[v].error = "unavailable" => broadcast[v] \in Unavailable
  BY DEF MonitorFetches, IInv, ActorsInv, CatalogInv, TypeOK, ReservationClaims,
     OnlyGoneIsUnavailable
<1> QED
  BY <1>7, <1>8, <1>9, <1>10, MonitorStep DEF MonitorFetches

LEMMA IdleMonitor ==
  Idle \in Monitor /\ Idle.pc = "idle" /\ Idle.error = "none"
  BY DEF Idle, Monitor

LEMMA RecordFailureStep ==
  ASSUME IInv, NEW m \in Monitors, RecordFailure(m)
  PROVE  IInv'
<1>1. PICK v \in Videos : v = mon[m].video
  BY DEF RecordFailure, IInv, ActorsInv, MonitorInv
<1>2. PICK state \in {mon[m].state, "failed"} :
        rsv' = [rsv EXCEPT ![v] =
                  [state |-> state, claim |-> NULL, error |-> mon[m].error]]
  BY <1>1 DEF RecordFailure
<1> DEFINE r == [state |-> state, claim |-> NULL, error |-> mon[m].error]
<1>3. /\ mon[m] \in Monitor /\ mon[m].state \in Active
      /\ mon[m].error = "unavailable" => broadcast[v] \in Unavailable
  BY <1>1 DEF RecordFailure, IInv, ActorsInv, MonitorInv
<1>4. /\ r \in Rsv /\ r.claim = NULL /\ r.state # "collecting"
      /\ r.error = mon[m].error
  BY <1>2, <1>3 DEF Rsv, Monitor, Active
<1>5. rsv' = [rsv EXCEPT ![v] = r]
  BY <1>2
<1> HIDE DEF r
<1>6. MonitorInv(m)'
  BY IdleMonitor DEF RecordFailure, IInv, ActorsInv, MonitorInv
<1> QED
  BY <1>3, <1>4, <1>5, <1>6, IdleMonitor, MonitorStep DEF RecordFailure

LEMMA GivesUpStep ==
  ASSUME IInv, NEW m \in Monitors, GivesUp(m)
  PROVE  IInv'
<1>1. PICK v \in Videos : v = mon[m].video
  BY DEF GivesUp, IInv, ActorsInv, MonitorInv
<1> DEFINE r == IF rsv[v].claim = m THEN [rsv[v] EXCEPT !.claim = NULL] ELSE rsv[v]
<1>2. rsv[v] \in Rsv
  BY DEF IInv, CatalogInv, TypeOK
<1>3. /\ r \in Rsv /\ r.state = rsv[v].state /\ r.error = rsv[v].error
      /\ r.claim \in {NULL, rsv[v].claim}
  BY <1>2 DEF Rsv
<1>4. rsv' = [rsv EXCEPT ![v] = r]
  BY <1>1 DEF GivesUp, Holds, IInv, CatalogInv, TypeOK
<1> HIDE DEF r
<1>5. MonitorInv(m)'
  BY IdleMonitor DEF GivesUp, IInv, ActorsInv, MonitorInv
<1>6. /\ rsv[v].error = "unavailable" => broadcast[v] \in Unavailable
      /\ rsv[v].claim # NULL => rsv[v].state \in Active
  BY DEF IInv, CatalogInv, OnlyGoneIsUnavailable, ActorsInv, ReservationClaims
<1> QED
  BY <1>3, <1>4, <1>5, <1>6, IdleMonitor, MonitorStep DEF GivesUp

\* The row that a monitor writes, and the state that it gives its reservation.
LEMMA ApplyRows ==
  ASSUME IInv, NEW m \in Monitors, Apply(m), NEW v \in Videos, v = mon[m].video
  PROVE  /\ mon[m].metadata \in Metadata /\ mon[m].metadata # NULL
         /\ streams' = IF Upserted(mon[m].metadata)
                       THEN [streams EXCEPT ![v] = mon[m].metadata] ELSE streams
         /\ rsv[v].claim = m /\ rsv[v].state \in Active
         /\ rsv'[v] = [state |-> Target(mon[m].state, mon[m].metadata),
                       claim |-> NULL, error |-> "none"]
         /\ \A w \in Videos \ {v} : rsv'[w] = rsv[w]
         /\ Target(mon[m].state, mon[m].metadata) \in Active \union {"collecting"}
         /\ Target(mon[m].state, mon[m].metadata) = "collecting" =>
              /\ mon[m].metadata.lifecycle = "ended"
              /\ mon[m].metadata.duration # NULL
<1>1. mon[m].metadata \in Metadata /\ mon[m].state \in Active
  BY DEF Apply, IInv, ActorsInv, MonitorInv
<1>2. rsv[v].claim = m /\ rsv[v].state \in Active
  BY NullIsNoMonitor DEF Apply, Holds, IInv, ActorsInv, ReservationClaims
<1>3. /\ rsv'[v] = [state |-> Target(mon[m].state, mon[m].metadata),
                    claim |-> NULL, error |-> "none"]
      /\ \A w \in Videos \ {v} : rsv'[w] = rsv[w]
  BY DEF Apply, NoRsv, IInv, CatalogInv, TypeOK
<1>4. /\ Target(mon[m].state, mon[m].metadata) \in Active \union {"collecting"}
      /\ Target(mon[m].state, mon[m].metadata) = "collecting" =>
           /\ mon[m].metadata.lifecycle = "ended"
           /\ mon[m].metadata.duration # NULL
  BY <1>1 DEF Target, Active
<1> QED
  BY <1>1, <1>2, <1>3, <1>4, NullIsNoMetadata DEF Apply

LEMMA ApplyStep ==
  ASSUME IInv, NEW m \in Monitors, Apply(m)
  PROVE  IInv'
<1>1. PICK v \in Videos : v = mon[m].video
  BY DEF Apply, IInv, ActorsInv, MonitorInv
<1>2. PICK metadata \in Metadata : metadata = mon[m].metadata
  BY <1>1, ApplyRows
<1>3. PICK state : state = Target(mon[m].state, mon[m].metadata)
  OBVIOUS
<1>4. /\ metadata # NULL
      /\ streams' = IF metadata.lifecycle = "ended"
                    THEN [streams EXCEPT ![v] = metadata] ELSE streams
      /\ rsv[v].state \in Active
      /\ rsv'[v] = [state |-> state, claim |-> NULL, error |-> "none"]
      /\ \A w \in Videos \ {v} : rsv'[w] = rsv[w]
      /\ state \in Active \union {"collecting"}
      /\ state = "collecting" =>
           metadata.lifecycle = "ended" /\ metadata.duration # NULL
  BY <1>1, <1>2, <1>3, ApplyRows DEF Upserted
<1>5. /\ mon' = [mon EXCEPT ![m] = Idle]
      /\ broadcast' = broadcast /\ user' = user
  BY DEF Apply
<1>6. rsv' \in [Videos -> Rsv]
  <2>1. [state |-> state, claim |-> NULL, error |-> "none"] \in Rsv
    BY <1>4 DEF Rsv
  <2>2. DOMAIN rsv' = Videos /\ rsv' = [w \in Videos |-> rsv'[w]]
    BY DEF Apply, IInv, CatalogInv, TypeOK
  <2> QED
    BY <1>4, <2>1, <2>2 DEF IInv, CatalogInv, TypeOK
<1>7. TypeOK'
  BY <1>4, <1>5, <1>6 DEF IInv, ActorsInv, CatalogInv, TypeOK
<1>8. CollectedIsComplete'
  BY <1>4 DEF IInv, ActorsInv, CatalogInv, CollectedIsComplete
<1>9. TableNeverRefuses' /\ OnlyGoneIsUnavailable'
  BY <1>4, <1>5 DEF IInv, CatalogInv, TableNeverRefuses, OnlyGoneIsUnavailable
<1>10. \A u \in Users : RequestInv(u)'
  BY <1>5 DEF IInv, ActorsInv, RequestInv
<1>11. \A o \in Monitors : MonitorInv(o)'
  BY <1>5, IdleMonitor DEF IInv, ActorsInv, MonitorInv
<1>12. ReservationClaims'
  BY <1>4 DEF IInv, ActorsInv, ReservationClaims
<1>13. /\ user' \in [Users -> Request] /\ mon' \in [Monitors -> Monitor]
       /\ DOMAIN streams' = Videos
  BY <1>4, <1>5, IdleMonitor DEF IInv, ActorsInv
<1> QED
  BY <1>7, <1>8, <1>9, <1>10, <1>11, <1>12, <1>13 DEF IInv, ActorsInv, CatalogInv

-----------------------------------------------------------------------------
LEMMA Initially == Init => IInv
<1> SUFFICES ASSUME Init PROVE IInv
  OBVIOUS
<1>1. NoRequest \in Request /\ NoRequest.pc = "idle" /\ NoRequest.status = 0
  BY DEF NoRequest, Request
<1>2. /\ NoRsv \in Rsv /\ NoRsv.claim = NULL /\ NoRsv.state = "none"
      /\ NoRsv.error = "none"
  BY DEF NoRsv, Rsv
<1>3. /\ \A u \in Users : user[u] = NoRequest
      /\ \A m \in Monitors : mon[m] = Idle
      /\ \A v \in Videos : rsv[v] = NoRsv /\ streams[v] = NULL
  BY DEF Init
<1>4. /\ user \in [Users -> Request] /\ mon \in [Monitors -> Monitor]
      /\ rsv \in [Videos -> Rsv] /\ DOMAIN streams = Videos
  BY <1>1, <1>2, IdleMonitor DEF Init
<1>5. broadcast \in [Videos -> Phase]
  BY DEF Init, Phase
<1>6. \A u \in Users : RequestInv(u)
  BY <1>1, <1>3 DEF RequestInv
<1>7. \A m \in Monitors : MonitorInv(m)
  BY <1>3, IdleMonitor DEF MonitorInv
<1>8. ActorsInv
  BY <1>2, <1>3, <1>4, <1>6, <1>7 DEF ActorsInv, ReservationClaims
<1>9. CatalogInv
  BY <1>1, <1>2, <1>3, <1>4, <1>5
     DEF CatalogInv, TypeOK, CollectedIsComplete, TableNeverRefuses,
         OnlyGoneIsUnavailable
<1> QED
  BY <1>8, <1>9 DEF IInv

LEMMA Inductive == IInv /\ [Next]_vars => IInv'
<1> SUFFICES ASSUME IInv, [Next]_vars PROVE IInv'
  OBVIOUS
<1>1. ASSUME NEW v \in Videos,
             BroadcastGoesOn(v) \/ Reserve(v) \/ Cancel(v) \/ Completed(v)
      PROVE  IInv'
  BY <1>1, BroadcastStep, ReserveStep
<1>2. ASSUME NEW u \in Users, NEW link \in Links, Register(u, link)
      PROVE  IInv'
  BY <1>2, RegisterStep
<1>3. ASSUME NEW u \in Users, UserFetches(u) \/ Create(u)
      PROVE  IInv'
  BY <1>3, UserFetchesStep, CreateStep
<1>4. ASSUME NEW m \in Monitors, NEW v \in Videos, Claim(m, v)
      PROVE  IInv'
  BY <1>4, ClaimStep
<1>5. ASSUME NEW m \in Monitors,
             MonitorFetches(m) \/ RecordFailure(m) \/ Apply(m) \/ GivesUp(m)
      PROVE  IInv'
  BY <1>5, MonitorFetchesStep, RecordFailureStep, ApplyStep, GivesUpStep
<1>6. CASE UNCHANGED vars
  <2>1. ActorsInv'
    BY <1>6 DEF vars, IInv, ActorsInv, RequestInv, MonitorInv, ReservationClaims
  <2>2. CatalogInv'
    BY <1>6 DEF vars, IInv, CatalogInv, TypeOK, CollectedIsComplete,
       TableNeverRefuses, OnlyGoneIsUnavailable
  <2> QED
    BY <2>1, <2>2 DEF IInv
<1> QED
  BY <1>1, <1>2, <1>3, <1>4, <1>5, <1>6 DEF Next

LEMMA Invariance == Spec => []IInv
  BY Initially, Inductive, PTL DEF Spec

\* Whatever users and monitors fetched before and store late: what is collected
\* is stored as ended with a duration, no CHECK of the table refuses what the
\* code accepts, and only a broadcast that is gone, or never was one, fails a
\* reservation for good or is refused as unavailable.
THEOREM CatalogHolds == Spec => []CatalogInv
  BY Invariance, PTL DEF IInv

\* No late writer takes a stream that is stored as ended back: a registration
\* leaves the row that is there, and a monitor writes only what is over.
THEOREM EndedIsFinal == Spec => EndedStaysEnded
<1> DEFINE Stays(v) ==
      (streams[v] # NULL /\ streams[v].lifecycle = "ended")
        => (streams'[v] # NULL /\ streams'[v].lifecycle = "ended")
<1>1. IInv /\ [Next]_vars => [\A v \in Videos : Stays(v)]_vars
  <2> SUFFICES ASSUME IInv, Next, NEW v \in Videos PROVE Stays(v)
    BY DEF vars
  <2>1. ASSUME NEW u \in Users, Create(u)
        PROVE  Stays(v)
    BY <2>1 DEF Create, IInv, ActorsInv
  <2>2. ASSUME NEW m \in Monitors, Apply(m)
        PROVE  Stays(v)
    <3>1. PICK w \in Videos : w = mon[m].video
      BY <2>2 DEF Apply, IInv, ActorsInv, MonitorInv
    <3>2. /\ mon[m].metadata # NULL
          /\ streams' = IF mon[m].metadata.lifecycle = "ended"
                        THEN [streams EXCEPT ![w] = mon[m].metadata] ELSE streams
      BY <2>2, <3>1, ApplyRows DEF Upserted
    <3> QED
      BY <3>2 DEF IInv, ActorsInv
  <2>3. CASE streams' = streams
    BY <2>3
  <2> QED
    BY <2>1, <2>2, <2>3 DEF Next, BroadcastGoesOn, Reserve, Cancel, Completed,
       Register, UserFetches, Claim, MonitorFetches, RecordFailure, GivesUp
<1> QED
  BY <1>1, Invariance, PTL DEF Spec, EndedStaysEnded
=============================================================================
