---------------------------- MODULE StreamCatalog ----------------------------
(***************************************************************************)
(* stream.streams and its two writers: users who register a stream           *)
(* (streams/service.go), and the monitors of reservations, which write what   *)
(* they saw of a broadcast that is over (reservations/repository.go).  Both   *)
(* ask YouTube first and write afterwards, while the broadcast goes on and    *)
(* others write.                                                            *)
(*                                                                         *)
(* Of a reservation there is what decides about the catalogue: Reservation    *)
(* has its states, jobs and fences.  A claim is the monitor that holds it;    *)
(* that a monitor without it writes nothing is a property of that module.     *)
(***************************************************************************)
EXTENDS VideoMetadata, FiniteSets

CONSTANTS
  Users, Monitors,
  Links          \* the links users enter

ASSUME LinksAssumption ==
  \A link \in Links : link.video \in Videos \union {NULL} /\ link.escapes \in Nat

ASSUME NullIsNoMonitor == NULL \notin Monitors

VARIABLES
  broadcast,  \* where the broadcast of a video stands
  reversed,   \* the videos of which YouTube says that they ended before they began
  streams,    \* stream.streams
  rsv,        \* the latest reservation of a video
  user,       \* the POST /v1/streams of a user
  mon         \* the claim a monitor works on

vars == <<broadcast, reversed, streams, rsv, user, mon>>

Phase == {"announced", "live", "over", "archived", "gone", "no broadcast"}

Active == {"monitored", "waiting_for_archive"}

Rsv == [state : Active \union {"none", "collecting", "failed", "canceled"},
        claim : Monitors \union {NULL},
        error : {"none", "provider", "unavailable"}]

NoRsv == [state |-> "none", claim |-> NULL, error |-> "none"]

Request == [pc : {"idle", "fetching", "creating"},
            video : Videos \union {NULL},
            metadata : Metadata \union {NULL},
            status : {0, 201, 400, 409, 422, 500, 503}]

Monitor == [pc : {"idle", "fetching", "applying", "failing"},
            video : Videos \union {NULL},
            state : Active \union {"none"},   \* as the claim returned it
            metadata : Metadata \union {NULL},
            error : {"none", "provider", "unavailable"}]

NoRequest == [pc |-> "idle", video |-> NULL, metadata |-> NULL, status |-> 0]

Idle == [pc |-> "idle", video |-> NULL, state |-> "none", metadata |-> NULL,
         error |-> "none"]

Init ==
  /\ broadcast \in [Videos -> {"announced", "no broadcast"}]
  /\ reversed \in SUBSET Videos
  /\ streams = [v \in Videos |-> NULL]
  /\ rsv = [v \in Videos |-> NoRsv]
  /\ user = [u \in Users |-> NoRequest]
  /\ mon = [m \in Monitors |-> Idle]

-----------------------------------------------------------------------------
(* YouTube *)

BroadcastGoesOn(v) ==
  /\ \/ broadcast[v] = "announced" /\ broadcast' = [broadcast EXCEPT ![v] = "live"]
     \/ broadcast[v] = "live" /\ broadcast' = [broadcast EXCEPT ![v] = "over"]
     \/ broadcast[v] = "over" /\ broadcast' = [broadcast EXCEPT ![v] = "archived"]
     \/ broadcast[v] # "gone" /\ broadcast' = [broadcast EXCEPT ![v] = "gone"]
  /\ UNCHANGED <<reversed, streams, rsv, user, mon>>

\* What there is to say of a video.  Before the archive is there the duration
\* is missing or zero.
Truth(v) ==
  LET over == broadcast[v] \in {"over", "archived"}
  IN  [delivered |-> TRUE,
       items |-> IF broadcast[v] = "gone" THEN 0 ELSE 1,
       same |-> TRUE,
       live |-> broadcast[v] # "no broadcast",
       named |-> TRUE,
       thumbnail |-> "https",
       duration |-> IF broadcast[v] = "archived" THEN <<1, 1>> ELSE NULL,
       iso8601 |-> TRUE,
       scheduledStart |-> 0,
       actualStart |-> IF ~over /\ broadcast[v] # "live" THEN NULL
                       ELSE IF v \in reversed THEN 2 ELSE 1,
       actualEnd |-> IF ~over THEN NULL
                     ELSE IF v \in reversed THEN 1 ELSE 2]

\* An answer says the truth, or one thing about it is out of order.
Answers(v) ==
  LET t == Truth(v)
  IN  {t, [t EXCEPT !.delivered = FALSE]}
      \union (IF t.items = 0 THEN {}
              ELSE {[t EXCEPT !.items = 2], [t EXCEPT !.same = FALSE],
                    [t EXCEPT !.named = FALSE],
                    [t EXCEPT !.thumbnail = "invalid"],
                    [t EXCEPT !.scheduledStart = NULL],
                    [t EXCEPT !.duration = <<0>>, !.iso8601 = FALSE],
                    [t EXCEPT !.duration = <<0>>],
                    [t EXCEPT !.duration = <<1, MaxDuration>>],
                    [t EXCEPT !.duration = <<MaxDuration + 1>>]})

\* The metadata that may be made of these answers, and none.
Observed(v) ==
  {NULL} \union UNION {Fetched(answer) : answer \in
                         {a \in Answers(v) : FetchError(a) = "none"}}

\* Client.Fetch: an error, or metadata.
Fetches(v, error, metadata) ==
  \E answer \in Answers(v) :
    \/ /\ FetchError(answer) # "none"
       /\ error = FetchError(answer) /\ metadata = NULL
    \/ /\ FetchError(answer) = "none"
       /\ error = "none" /\ metadata \in Fetched(answer)
    \/ /\ FetchError(answer) = "none" /\ Overflows(answer)
       /\ error = "provider" /\ metadata = NULL

Results == {"none", "provider", "unavailable"}

-----------------------------------------------------------------------------
(* Registration: POST /v1/streams *)

Register(u, link) ==
  LET video == ParseYouTubeURL(link)
  IN  /\ user[u].pc = "idle"
      /\ user' = [user EXCEPT ![u] =
           IF video = NULL THEN [NoRequest EXCEPT !.status = 400]
           ELSE [NoRequest EXCEPT !.pc = "fetching", !.video = video]]
      /\ UNCHANGED <<broadcast, reversed, streams, rsv, mon>>

Answered(u, status) ==
  user' = [user EXCEPT ![u] = [NoRequest EXCEPT !.video = user[u].video,
                                               !.status = status]]

\* fetchMetadata
UserFetches(u) ==
  /\ user[u].pc = "fetching"
  /\ \E error \in Results, metadata \in Observed(user[u].video) :
       /\ Fetches(user[u].video, error, metadata)
       /\ IF error = "unavailable" THEN Answered(u, 422)
          ELSE IF error = "provider" \/ ~Accepts(metadata) THEN Answered(u, 503)
          ELSE user' = [user EXCEPT ![u].pc = "creating",
                                    ![u].metadata = metadata]
  /\ UNCHANGED <<broadcast, reversed, streams, rsv, mon>>

\* Faulty variant: the registration overwrites the row that is there.
CreateByUpsert(u) ==
  LET video == user[u].video
  IN  /\ user[u].pc = "creating"
      /\ Answered(u, 201)
      /\ streams' = [streams EXCEPT ![video] = user[u].metadata]
      /\ UNCHANGED <<broadcast, reversed, rsv, mon>>

\* Create: the table's CHECKs come before its unique key.
Create(u) ==
  LET video == user[u].video
      metadata == user[u].metadata
  IN  /\ user[u].pc = "creating"
      /\ Answered(u, IF ~Storable(metadata) THEN 500
                     ELSE IF streams[video] # NULL THEN 409 ELSE 201)
      /\ streams' = IF Storable(metadata) /\ streams[video] = NULL
                    THEN [streams EXCEPT ![video] = metadata] ELSE streams
      /\ UNCHANGED <<broadcast, reversed, rsv, mon>>

-----------------------------------------------------------------------------
(* Reservations *)

Reserve(v) ==
  /\ rsv[v].state \notin Active \union {"collecting"}
  /\ rsv' = [rsv EXCEPT ![v] = [NoRsv EXCEPT !.state = "monitored"]]
  /\ UNCHANGED <<broadcast, reversed, streams, user, mon>>

Cancel(v) ==
  /\ rsv[v].state \in Active
  /\ rsv' = [rsv EXCEPT ![v] = [NoRsv EXCEPT !.state = "canceled"]]
  /\ UNCHANGED <<broadcast, reversed, streams, user, mon>>

\* SyncCollection of a job that has succeeded.
Completed(v) ==
  /\ rsv[v].state = "collecting"
  /\ rsv' = [rsv EXCEPT ![v] = NoRsv]
  /\ UNCHANGED <<broadcast, reversed, streams, user, mon>>

\* ClaimDue, also of a row whose claim has expired.
Claim(m, v) ==
  /\ mon[m].pc = "idle"
  /\ rsv[v].state \in Active
  /\ rsv[v].claim # m
  /\ rsv' = [rsv EXCEPT ![v].claim = m]
  /\ mon' = [mon EXCEPT ![m] = [Idle EXCEPT !.pc = "fetching", !.video = v,
                                            !.state = rsv[v].state]]
  /\ UNCHANGED <<broadcast, reversed, streams, user>>

MonitorFetches(m) ==
  /\ mon[m].pc = "fetching"
  /\ \E error \in Results, metadata \in Observed(mon[m].video) :
       /\ Fetches(mon[m].video, error, metadata)
       /\ mon' = [mon EXCEPT
            ![m].pc = IF error = "none" THEN "applying" ELSE "failing",
            ![m].metadata = metadata, ![m].error = error]
  /\ UNCHANGED <<broadcast, reversed, streams, rsv, user>>

Holds(m) == rsv[mon[m].video].claim = m

\* RecordFailure.  A failure of the provider is the last one that is allowed,
\* or it is not.
RecordFailure(m) ==
  /\ mon[m].pc = "failing"
  /\ Holds(m)
  /\ \E state \in {mon[m].state, "failed"} :
       /\ mon[m].error = "unavailable" => state = "failed"
       /\ rsv' = [rsv EXCEPT ![mon[m].video] =
                    [state |-> state, claim |-> NULL, error |-> mon[m].error]]
  /\ mon' = [mon EXCEPT ![m] = Idle]
  /\ UNCHANGED <<broadcast, reversed, streams, user>>

\* stateFromMetadata
Target(state, metadata) ==
  CASE metadata.lifecycle = "ended" /\ state = "monitored" -> "waiting_for_archive"
    [] metadata.lifecycle = "ended" /\ state = "waiting_for_archive"
         /\ metadata.duration # NULL -> "collecting"
    [] OTHER -> state

Upserted(metadata) == metadata.lifecycle = "ended"

\* Faulty variant: the row is committed before the claim is checked.
ApplyUnfenced(m) ==
  LET video == mon[m].video
      metadata == mon[m].metadata
  IN  /\ mon[m].pc = "applying"
      /\ Upserted(metadata) => Storable(metadata)
      /\ streams' = IF Upserted(metadata)
                    THEN [streams EXCEPT ![video] = metadata] ELSE streams
      /\ rsv' = IF Holds(m)
                THEN [rsv EXCEPT ![video] = [NoRsv EXCEPT
                        !.state = Target(mon[m].state, metadata)]]
                ELSE rsv
      /\ mon' = [mon EXCEPT ![m] = Idle]
      /\ UNCHANGED <<broadcast, reversed, user>>

\* ApplyMetadata: one transaction.
Apply(m) ==
  LET video == mon[m].video
      metadata == mon[m].metadata
  IN  /\ mon[m].pc = "applying"
      /\ Holds(m)
      /\ Upserted(metadata) => Storable(metadata)
      /\ streams' = IF Upserted(metadata)
                    THEN [streams EXCEPT ![video] = metadata] ELSE streams
      /\ rsv' = [rsv EXCEPT ![video] = [NoRsv EXCEPT
                   !.state = Target(mon[m].state, metadata)]]
      /\ mon' = [mon EXCEPT ![m] = Idle]
      /\ UNCHANGED <<broadcast, reversed, user>>

\* ErrLeaseLost, a statement that fails (the table refuses what the monitor
\* does not check), or the end of the process.  The claim expires.
GivesUp(m) ==
  /\ mon[m].pc # "idle"
  /\ mon' = [mon EXCEPT ![m] = Idle]
  /\ rsv' = IF Holds(m) THEN [rsv EXCEPT ![mon[m].video].claim = NULL] ELSE rsv
  /\ UNCHANGED <<broadcast, reversed, streams, user>>

-----------------------------------------------------------------------------
Next ==
  \/ \E v \in Videos :
       \/ BroadcastGoesOn(v)
       \/ Reserve(v)
       \/ Cancel(v)
       \/ Completed(v)
  \/ \E u \in Users :
       \/ \E link \in Links : Register(u, link)
       \/ UserFetches(u)
       \/ Create(u)
  \/ \E m \in Monitors :
       \/ \E v \in Videos : Claim(m, v)
       \/ MonitorFetches(m)
       \/ RecordFailure(m)
       \/ Apply(m)
       \/ GivesUp(m)

Spec == Init /\ [][Next]_vars

-----------------------------------------------------------------------------
(* Properties *)

TypeOK ==
  /\ broadcast \in [Videos -> Phase]
  /\ \A v \in Videos : streams[v] # NULL => streams[v] \in Metadata
  /\ rsv \in [Videos -> Rsv]

\* What is collected has been seen complete: the stream of a reservation that
\* collects is stored as ended, with a duration, although users register it,
\* other monitors write what they fetched before, and claims are lost.
CollectedIsComplete ==
  \A v \in Videos : rsv[v].state = "collecting" =>
    /\ streams[v] # NULL
    /\ streams[v].lifecycle = "ended" /\ streams[v].duration # NULL

\* Whatever YouTube answers, what passes normalizeMetadata passes the CHECKs
\* of stream.streams: it is never the table that refuses a registration.
TableNeverRefuses == \A u \in Users : user[u].status # 500

\* Only a video that is gone or never was a broadcast makes a reservation fail
\* for good, or a registration be refused as unavailable: failures of YouTube
\* and answers that make no sense are temporary.
Unavailable == {"gone", "no broadcast"}
OnlyGoneIsUnavailable ==
  /\ \A u \in Users : user[u].status = 422 =>
       broadcast[user[u].video] \in Unavailable
  /\ \A v \in Videos : rsv[v].error = "unavailable" =>
       broadcast[v] \in Unavailable

\* What the table, reservations and answers may say of broadcasts together.
CatalogInv ==
  /\ TypeOK
  /\ CollectedIsComplete
  /\ TableNeverRefuses
  /\ OnlyGoneIsUnavailable

\* What was fetched while the broadcast went on, and is stored late, never
\* makes a stream that is stored as ended go back.
EndedStaysEnded ==
  [][\A v \in Videos :
       (streams[v] # NULL /\ streams[v].lifecycle = "ended")
         => (streams'[v] # NULL /\ streams'[v].lifecycle = "ended")]_vars
=============================================================================
