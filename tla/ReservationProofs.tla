-------------------------- MODULE ReservationProofs --------------------------
(***************************************************************************)
(* Proofs about what the checks of the monitor do (Reservation) and when     *)
(* they come (ReservationSchedule), for all values of the constants.        *)
(***************************************************************************)
EXTENDS ReservationMonitor, FiniteSetTheorems, SequenceTheorems, TLAPS

Working(m) == mon[m].pc # "idle"

\* The monitor's transaction has locked the stream of its broadcast.
InArchive(m) == mon[m].pc \in {"linking", "updating"}

Open(r) == rsv[r].state \notin Terminal \union {"absent"}

-----------------------------------------------------------------------------
(* The inductive invariant *)

\* Rows: the CHECKs, an absent row holds nothing, and the unique index.
RowInv ==
  /\ ConstraintsHold
  /\ \A r \in Reservations :
       /\ rsv[r].state = "absent" => rsv[r].job = NULL /\ rsv[r].video = NULL
       /\ rsv[r].state # "absent" => rsv[r].video \in Videos
  /\ \A r, s \in Reservations :
       Open(r) /\ Open(s) /\ rsv[r].video = rsv[s].video => r = s

\* Links: a job has the broadcast of its reservation, and the success that
\* completed a reservation is not taken back.
JobInv ==
  /\ LinkedBothWays
  /\ OneActiveJobPerStream
  /\ \A j \in Jobs : jobs[j].status = "absent" => jobs[j] = AbsentJob
  /\ \A r \in Reservations : rsv[r].job # NULL =>
       jobs[rsv[r].job].video = rsv[r].video
  /\ \A r \in Reservations : rsv[r].state = "completed" =>
       jobs[rsv[r].job].status = "succeeded"

\* The row under a claim that stands is the row that the claim returned, but
\* for the lease, which may have run out.
ClaimStands(m) ==
  Holds(m) => rsv[mon[m].rsv] = [mon[m].seen EXCEPT !.lease = rsv[mon[m].rsv].lease]

\* What a monitor remembers, at each point of a check.
Remembered(m) ==
  /\ mon[m].pc = "idle" => mon[m] = Idle
  /\ Working(m) =>
       /\ mon[m].rsv \in Reservations
       /\ mon[m].seen.state \in Monitored
       /\ mon[m].seen.video \in Videos
       /\ ClaimStands(m)
  /\ mon[m].pc = "checking" => mon[m].job = NULL
  /\ mon[m].pc = "linking" =>
       /\ mon[m].job = NULL
       /\ mon[m].seen.state = "waiting_for_archive"
       /\ mon[m].target = "collecting"
  /\ mon[m].pc = "updating" =>
       \/ /\ mon[m].job \in Jobs
          /\ mon[m].seen.state = "waiting_for_archive"
          /\ mon[m].target = "collecting"
       \/ /\ mon[m].job = NULL
          /\ mon[m].seen.state \in CanCancel
          /\ mon[m].target = "waiting_for_archive"

ClaimInv == \A m \in Monitors : Remembered(m)

\* One transaction at a time has a stream locked, and a user's transaction has
\* seen that the stream has no active job.
LockInv ==
  /\ \A m, n \in Monitors :
       InArchive(m) /\ InArchive(n) /\ mon[m].seen.video = mon[n].seen.video
         => m = n
  /\ \A c \in Clients : client[c] # NULL =>
       /\ \A m \in Monitors : InArchive(m) => mon[m].seen.video # client[c]
       /\ \A d \in Clients : client[d] = client[c] => d = c
       /\ ActiveJobs(client[c]) = {}

\* The job that a monitor is about to link, if its claim still stands.
Linkable(m) ==
  LET job == jobs[mon[m].job]
  IN  \/ /\ job.status = "active"
         /\ job.reservation = NULL
         /\ job.video = mon[m].seen.video
      \/ job = AbsentJob /\ ActiveJobs(mon[m].seen.video) = {}

ChosenInv ==
  \A m \in Monitors : mon[m].job # NULL /\ Holds(m) =>
    /\ Linkable(m)
    /\ \A n \in Monitors : mon[n].job = mon[m].job /\ Holds(n) => n = m

IInv ==
  /\ TypeOK
  /\ RowInv
  /\ JobInv
  /\ ClaimInv
  /\ LockInv
  /\ ChosenInv
  /\ TrailIsHistory

-----------------------------------------------------------------------------
(* Revisions: the one after an update is fresh. *)

\* RevisionsAssumption leaves a value that neither the row nor a claim has.
LEMMA FreshRevision ==
  ASSUME TypeOK, NEW r \in Reservations
  PROVE  /\ NextRevision(r) \in Revisions
         /\ NextRevision(r) # rsv[r].revision
         /\ \A m \in Monitors : mon[m].rsv = r => NextRevision(r) # mon[m].seen.revision
<1> DEFINE claimed == [m \in Monitors |-> mon[m].seen.revision]
           seen == {claimed[m] : m \in Monitors}
           used == seen \union {rsv[r].revision}
<1>1. IsFiniteSet(seen) /\ Cardinality(seen) <= Cardinality(Monitors)
  <2>1. claimed \in Surjection(Monitors, seen)
    BY DEF Surjection
  <2>2. QED
    BY <2>1, FS_Surjection, RevisionsAssumption DEF RevisionsAssumption
<1>2. IsFiniteSet(used) /\ Cardinality(used) <= Cardinality(Monitors) + 1
  <2>1. IsFiniteSet(used) /\ (Cardinality(used) = Cardinality(seen)
                              \/ Cardinality(used) = Cardinality(seen) + 1)
    BY <1>1, FS_AddElement
  <2>2. Cardinality(seen) \in Nat /\ Cardinality(Monitors) \in Nat
    BY <1>1, FS_CardinalityType, RevisionsAssumption DEF RevisionsAssumption
  <2>3. QED
    BY <1>1, <2>1, <2>2
<1>3. \E n \in Revisions : n \notin used
  <2>1. SUFFICES ASSUME Revisions \subseteq used PROVE FALSE
    OBVIOUS
  <2>2. Cardinality(Revisions) <= Cardinality(used)
    BY <1>2, <2>1, FS_Subset
  <2>3. /\ Cardinality(Revisions) \in Nat /\ Cardinality(used) \in Nat
        /\ Cardinality(Monitors) \in Nat
    BY <1>2, FS_CardinalityType, RevisionsAssumption DEF RevisionsAssumption
  <2>4. QED
    BY <1>2, <2>2, <2>3, RevisionsAssumption DEF RevisionsAssumption
<1>4. \E n \in Revisions :
        /\ n # rsv[r].revision
        /\ \A m \in Monitors : mon[m].rsv = r => n # mon[m].seen.revision
  BY <1>3
<1>5. QED
  BY <1>4 DEF NextRevision

LEMMA InitIInv == Init => IInv
<1> SUFFICES ASSUME Init PROVE IInv
  OBVIOUS
<1>1. TypeOK
  BY AttemptsAssumption, RevisionsAssumption
     DEF AttemptsAssumption, RevisionsAssumption, Init, TypeOK, AbsentRow, Row, State,
         AbsentJob, Job, Idle, Monitor, Monitored, Terminal, CanCancel
<1>2. RowInv
  BY DEF Init, RowInv, ConstraintsHold, RowConstraints, AbsentRow, Open
<1>3. JobInv
  BY NullAssumption
     DEF Init, JobInv, LinkedBothWays, OneActiveJobPerStream, ActiveJobs, AbsentRow,
         AbsentJob, NullAssumption
<1>4. ClaimInv /\ LockInv /\ ChosenInv
  BY DEF Init, ClaimInv, Remembered, Working, LockInv, InArchive, ChosenInv, Idle
<1>5. TrailIsHistory
  BY DEF Init, TrailIsHistory, AbsentRow
<1>6. QED
  BY <1>1, <1>2, <1>3, <1>4, <1>5 DEF IInv

-----------------------------------------------------------------------------
(* Updates of one row *)

\* Statement of the table: row r becomes another one, under a new revision.
Updates(r, row) ==
  /\ rsv' = [rsv EXCEPT ![r] = row]
  /\ row.revision = NextRevision(r)

\* An update that leaves the broadcast and the job of its row alone and obeys
\* the constraints.
Legal(r, row) ==
  /\ rsv[r].state # "absent" /\ row.state # "absent"
  /\ row.video = rsv[r].video /\ row.job = rsv[r].job
  /\ RowConstraints(row)
  /\ rsv[r].state \in Terminal => row.state = rsv[r].state
  /\ row.state = "completed" => jobs[row.job].status = "succeeded"

\* The history stays one whatever the new state is, if the transition is
\* recorded with the state that it leaves.
LEMMA TrailStep ==
  ASSUME TypeOK, TrailIsHistory, NEW r \in Reservations, NEW row \in Row,
         rsv' = [rsv EXCEPT ![r] = row], Recorded(r, rsv[r].state, row.state)
  PROVE  /\ TrailIsHistory'
         /\ trail' \in [Reservations -> Seq(State \X State)]
<1> DEFINE entry == <<rsv[r].state, row.state>>
           t == trail[r]
<1>0. t \in Seq(State \X State) /\ entry \in State \X State
  BY DEF TypeOK, Row
<1>1. CASE rsv[r].state = row.state
  BY <1>1 DEF TypeOK, Recorded, TrailIsHistory
<1>2. CASE rsv[r].state # row.state
  <2>1. trail' = [trail EXCEPT ![r] = Append(t, entry)]
    BY <1>2 DEF Recorded
  <2>2. /\ Append(t, entry) \in Seq(State \X State)
        /\ Len(Append(t, entry)) = Len(t) + 1
        /\ \A i \in 1 .. Len(t) : Append(t, entry)[i] = t[i]
        /\ Append(t, entry)[Len(t) + 1] = entry
        /\ Append(t, entry) # <<>>
    <3> HIDE DEF t, entry
    <3>1. QED
      BY <1>0, AppendProperties
  <2>3. ASSUME NEW i \in 1 .. Len(t) + 1
        PROVE  Append(t, entry)[i][1] =
                 IF i = 1 THEN "absent" ELSE Append(t, entry)[i - 1][2]
    <3>1. CASE i = Len(t) + 1
      <4>1. entry[1] = IF t = <<>> THEN "absent" ELSE t[Len(t)][2]
        BY DEF TrailIsHistory
      <4>2. (t = <<>>) <=> (Len(t) = 0)
        BY <1>0
      <4>3. Len(t) \in Nat
        BY <1>0
      <4>4. QED
        BY <2>2, <3>1, <4>1, <4>2, <4>3
    <3>2. CASE i # Len(t) + 1
      <4>1. i \in 1 .. Len(t) /\ (i # 1 => i - 1 \in 1 .. Len(t))
        BY <1>0, <3>2
      <4>2. t[i][1] = IF i = 1 THEN "absent" ELSE t[i - 1][2]
        BY <4>1 DEF TrailIsHistory
      <4>3. QED
        BY <2>2, <4>1, <4>2
    <3>3. QED
      BY <3>1, <3>2
  <2>4. QED
    BY <2>1, <2>2, <2>3 DEF TypeOK, TrailIsHistory
<1>3. QED
  BY <1>1, <1>2

\* An update under a new revision leaves the other claims on the row without
\* standing, and the claims on other rows as they were.
LEMMA OtherClaims ==
  ASSUME IInv, NEW r \in Reservations, NEW row, Updates(r, row),
         NEW n \in Monitors, Working(n), mon'[n] = mon[n], Holds(n)'
  PROVE  /\ Holds(n)
         /\ mon[n].rsv # r
         /\ rsv'[mon[n].rsv] = rsv[mon[n].rsv]
<1>1. mon[n].rsv \in Reservations
  BY DEF IInv, ClaimInv, Remembered
<1>2. mon[n].rsv # r
  BY <1>1, FreshRevision DEF IInv, TypeOK, Updates, Holds
<1>3. QED
  BY <1>1, <1>2 DEF IInv, TypeOK, Updates, Holds

\* A monitor that goes on remembers the right row if its claim stands no better
\* than before and the row did not change, except for its lease.
LEMMA KeptClaim ==
  ASSUME NEW n \in Monitors, Remembered(n), mon'[n] = mon[n],
         Working(n) /\ Holds(n)' =>
           /\ Holds(n)
           /\ rsv'[mon[n].rsv] = [rsv[mon[n].rsv] EXCEPT !.lease = rsv'[mon[n].rsv].lease]
  PROVE  Remembered(n)'
<1>1. Working(n)' => Working(n) /\ ClaimStands(n)'
  <2>1. ASSUME Working(n), Holds(n)'
        PROVE  rsv'[mon[n].rsv] = [mon[n].seen EXCEPT !.lease = rsv'[mon[n].rsv].lease]
    <3>1. rsv[mon[n].rsv] = [mon[n].seen EXCEPT !.lease = rsv[mon[n].rsv].lease]
      BY <2>1 DEF Remembered, ClaimStands
    <3>2. QED
      BY <2>1, <3>1
  <2>2. QED
    BY <2>1 DEF Working, ClaimStands
<1>2. QED
  BY <1>1 DEF Remembered, Working

\* The row part and the job part of the invariant survive a legal update.
LEMMA LegalRow ==
  ASSUME IInv, NEW r \in Reservations, NEW row \in Row, Legal(r, row),
         rsv' = [rsv EXCEPT ![r] = row], UNCHANGED jobs
  PROVE  RowInv' /\ JobInv'
<1>1. /\ rsv'[r] = row
      /\ \A s \in Reservations : s # r => rsv'[s] = rsv[s]
  BY DEF IInv, TypeOK
<1>2. ConstraintsHold'
  BY <1>1 DEF IInv, RowInv, ConstraintsHold, Legal
<1>3. \A s \in Reservations : Open(s)' => Open(s)
  BY <1>1 DEF Open, Legal
<1>4. \A s \in Reservations : rsv'[s].video = rsv[s].video /\ rsv'[s].job = rsv[s].job
  BY <1>1 DEF Legal
<1>5. RowInv'
  BY <1>1, <1>2, <1>3, <1>4 DEF IInv, RowInv, Legal
<1>6. JobInv'
  BY <1>1, <1>4 DEF IInv, JobInv, Legal, LinkedBothWays, OneActiveJobPerStream,
                    ActiveJobs
<1>7. QED
  BY <1>5, <1>6

\* What ClaimDue leaves in the memory of its monitor.
Claim(r, row) == [Idle EXCEPT !.pc = "checking", !.rsv = r, !.seen = row]

\* The monitors after an update of row r: some have finished, some have claimed
\* it, the others go on.
Goes(n, r, row) ==
  \/ mon'[n] = mon[n]
  \/ mon'[n] = Idle
  \/ mon'[n] = Claim(r, row) /\ row.state \in Monitored

LEMMA ClaimType ==
  ASSUME NEW r \in Reservations, NEW row \in Row
  PROVE  /\ Claim(r, row) \in Monitor
         /\ Claim(r, row).pc = "checking" /\ Claim(r, row).rsv = r
         /\ Claim(r, row).seen = row /\ Claim(r, row).job = NULL
BY DEF Claim, Idle, Monitor, State

LEMMA IdleType ==
  /\ Idle \in Monitor
  /\ Idle.pc = "idle" /\ Idle.rsv = NULL /\ Idle.job = NULL
BY AttemptsAssumption, RevisionsAssumption
   DEF AttemptsAssumption, RevisionsAssumption, AbsentRow, Row, State, Idle, Monitor

\* Every legal update of one row under a new revision keeps the invariant, if
\* its transition is recorded: those of Cancel and of the monitors' claims and
\* of their fenced updates that link no job.
LEMMA UpdateStep ==
  ASSUME IInv, NEW r \in Reservations, NEW row \in Row,
         Updates(r, row), Legal(r, row), Recorded(r, rsv[r].state, row.state),
         mon' \in [Monitors -> Monitor], \A n \in Monitors : Goes(n, r, row),
         UNCHANGED <<jobs, client>>
  PROVE  IInv'
<1>1. RowInv' /\ JobInv'
  BY LegalRow DEF Updates
<1>2. TrailIsHistory' /\ TypeOK'
  BY TrailStep DEF IInv, TypeOK, Updates
<1>3. rsv'[r] = row /\ row.video \in Videos
  BY DEF IInv, TypeOK, Updates, Legal, RowInv
<1>4. ASSUME NEW n \in Monitors
      PROVE  \/ mon'[n] = mon[n]
             \/ mon'[n] = Idle /\ ~InArchive(n)' /\ mon'[n].job = NULL
             \/ mon'[n] = Claim(r, row) /\ ~InArchive(n)' /\ mon'[n].job = NULL
  BY ClaimType, IdleType DEF Goes, InArchive
<1>5. ClaimInv'
  <2> SUFFICES ASSUME NEW n \in Monitors PROVE Remembered(n)'
    BY DEF ClaimInv
  <2>1. CASE mon'[n] = mon[n]
    <3>1. Working(n) => ClaimStands(n)'
      BY <2>1, OtherClaims DEF IInv, ClaimInv, Remembered, ClaimStands
    <3>2. QED
      BY <2>1, <3>1 DEF IInv, ClaimInv, Remembered, Working
  <2>2. CASE mon'[n] = Idle
    BY <2>2, IdleType DEF Remembered, Working
  <2>3. CASE mon'[n] = Claim(r, row) /\ row.state \in Monitored
    <3>1. mon'[n].rsv = r /\ mon'[n].seen = row
      BY <2>3, ClaimType
    <3>2. ClaimStands(n)'
      BY <1>3, <3>1 DEF ClaimStands, Row
    <3>3. QED
      BY <1>3, <2>3, <3>1, <3>2, ClaimType DEF Remembered
  <2>4. QED
    BY <2>1, <2>2, <2>3 DEF Goes
<1>6. LockInv'
  BY <1>4 DEF IInv, LockInv, InArchive, ActiveJobs
<1>7. ChosenInv'
  <2>1. \A n \in Monitors : mon'[n].job # NULL => mon'[n] = mon[n] /\ Working(n)
    BY <1>4 DEF IInv, ClaimInv, Remembered, Working, Idle
  <2>2. \A n \in Monitors : mon'[n].job # NULL /\ Holds(n)' => Holds(n)
    BY <2>1, OtherClaims
  <2>3. \A n \in Monitors : mon'[n] = mon[n] /\ Linkable(n) => Linkable(n)'
    BY DEF Linkable, ActiveJobs
  <2>4. QED
    BY <2>1, <2>2, <2>3 DEF IInv, ChosenInv
<1>8. QED
  BY <1>1, <1>2, <1>5, <1>6, <1>7 DEF IInv

-----------------------------------------------------------------------------
(* The actions of the API and of workers *)

LEMMA ReleasedRow ==
  ASSUME TypeOK, NEW r \in Reservations, NEW row \in Row
  PROVE  LET new == Released(r, row) IN
         /\ new \in Row
         /\ new.lease = "none" /\ new.revision = NextRevision(r)
         /\ new.state = row.state /\ new.video = row.video
         /\ new.stream = row.stream /\ new.job = row.job
         /\ new.attempts = row.attempts /\ new.error = row.error
BY FreshRevision DEF Released, Row

LEMMA CancelStep == ASSUME IInv, NEW r \in Reservations, Cancel(r) PROVE IInv'
<1> DEFINE row == [Released(r, rsv[r]) EXCEPT !.state = "canceled"]
<1>1. rsv[r] \in Row /\ rsv[r].state \in CanCancel
  BY DEF IInv, TypeOK, Cancel
<1>2. /\ row \in Row
      /\ row.lease = "none" /\ row.revision = NextRevision(r)
      /\ row.state = "canceled" /\ row.video = rsv[r].video
      /\ row.stream = rsv[r].stream /\ row.job = rsv[r].job
  BY <1>1, ReleasedRow DEF IInv, Row, State, Terminal
<1>3. Legal(r, row)
  BY <1>1, <1>2
     DEF Legal, RowConstraints, IInv, RowInv, ConstraintsHold, CanCancel, Terminal
<1>4. Updates(r, row) /\ Recorded(r, rsv[r].state, row.state)
  <2>1. rsv' = [rsv EXCEPT ![r] = row] /\ Recorded(r, rsv[r].state, "canceled")
    BY DEF Cancel, IInv, TypeOK
  <2>2. QED
    BY <1>2, <2>1 DEF Updates
<1>5. mon' \in [Monitors -> Monitor] /\ \A n \in Monitors : Goes(n, r, row)
  BY DEF Cancel, IInv, TypeOK, Goes
<1> HIDE DEF row
<1>6. QED
  BY <1>2, <1>3, <1>4, <1>5, UpdateStep DEF Cancel

LEMMA CreateStep ==
  ASSUME IInv, NEW r \in Reservations, NEW v \in Videos, Create(r, v)
  PROVE  IInv'
<1> DEFINE row == [AbsentRow EXCEPT !.state = "scheduled", !.video = v]
<1>1. /\ row \in Row
      /\ row.state = "scheduled" /\ row.video = v /\ row.job = NULL
      /\ row.lease = "none"
  <2>1. AbsentRow \in Row /\ AbsentRow.job = NULL /\ AbsentRow.lease = "none"
    BY AttemptsAssumption, RevisionsAssumption
       DEF AttemptsAssumption, RevisionsAssumption, AbsentRow, Row, State
  <2>2. "scheduled" \in State
    BY DEF State, Monitored, CanCancel
  <2>3. QED
    BY <2>1, <2>2 DEF Row
<1>2. /\ rsv[r].state = "absent" /\ rsv[r].job = NULL /\ rsv[r].lease = "none"
      /\ rsv' = [rsv EXCEPT ![r] = row]
      /\ Recorded(r, rsv[r].state, row.state)
      /\ UNCHANGED <<jobs, mon, client>>
      /\ ActiveReservations(v) = {}
  BY <1>1 DEF Create, IInv, RowInv, ConstraintsHold, RowConstraints, Monitored, CanCancel
<1> HIDE DEF row
<1>3. TrailIsHistory' /\ TypeOK'
  BY <1>1, <1>2, TrailStep DEF IInv, TypeOK
<1>4. rsv'[r] = row /\ \A s \in Reservations : s # r => rsv'[s] = rsv[s]
  BY <1>2 DEF IInv, TypeOK
<1>5. RowInv'
  <2>1. ConstraintsHold'
    BY <1>1, <1>4 DEF IInv, RowInv, ConstraintsHold, RowConstraints
  <2>2. \A s \in Reservations : Open(s) => rsv[s].video # v
    BY <1>2 DEF ActiveReservations, Open
  <2>3. \A s \in Reservations : s # r => Open(s)' = Open(s)
    BY <1>4 DEF Open
  <2>4. QED
    BY <1>1, <1>4, <2>1, <2>2, <2>3 DEF IInv, RowInv
<1>6. JobInv'
  BY <1>1, <1>2, <1>4, NullAssumption
     DEF IInv, JobInv, LinkedBothWays, OneActiveJobPerStream, ActiveJobs, NullAssumption
<1>7. ASSUME NEW n \in Monitors, Working(n)
      PROVE  /\ Holds(n)' <=> Holds(n)
             /\ Holds(n) => rsv'[mon[n].rsv] = rsv[mon[n].rsv]
  <2>1. mon[n].rsv \in Reservations
    BY <1>7 DEF IInv, ClaimInv, Remembered
  <2>2. CASE mon[n].rsv = r
    BY <1>1, <1>2, <1>4, <2>2 DEF Holds
  <2>3. CASE mon[n].rsv # r
    BY <1>2, <1>4, <2>1, <2>3 DEF Holds
  <2>4. QED
    BY <2>2, <2>3
<1>8. ClaimInv'
  <2>1. \A n \in Monitors : Working(n) =>
          rsv[mon[n].rsv] \in Row
    BY DEF IInv, TypeOK, ClaimInv, Remembered
  <2>2. \A w \in Row : w = [w EXCEPT !.lease = w.lease]
    BY DEF Row
  <2>3. ASSUME NEW n \in Monitors PROVE Remembered(n)'
    <3>1. Remembered(n) /\ mon'[n] = mon[n]
      BY <1>2 DEF IInv, ClaimInv
    <3>2. QED
      BY <1>7, <2>1, <2>2, <3>1, KeptClaim
  <2>4. QED
    BY <2>3 DEF ClaimInv
<1>9. LockInv'
  BY <1>2 DEF IInv, LockInv, InArchive, ActiveJobs
<1>10. ChosenInv'
  <2>1. \A n \in Monitors : mon[n].job # NULL => Working(n)
    BY DEF IInv, ClaimInv, Remembered, Working, Idle
  <2>2. QED
    BY <1>2, <1>7, <2>1 DEF IInv, ChosenInv, Linkable, ActiveJobs
<1>11. QED
  BY <1>3, <1>5, <1>6, <1>8, <1>9, <1>10 DEF IInv

LEMMA LeaseExpiresStep == ASSUME IInv, NEW r \in Reservations, LeaseExpires(r) PROVE IInv'
<1> DEFINE row == [rsv[r] EXCEPT !.lease = "expired"]
<1>0. rsv[r] \in Row /\ rsv[r].lease = "live"
  BY DEF LeaseExpires, IInv, TypeOK
<1>1. /\ row \in Row /\ row.lease = "expired" /\ row.revision = rsv[r].revision
      /\ row.state = rsv[r].state /\ row.video = rsv[r].video
      /\ row.job = rsv[r].job /\ row.stream = rsv[r].stream
  BY <1>0 DEF Row
<1>2. /\ rsv' = [rsv EXCEPT ![r] = row]
      /\ UNCHANGED <<trail, jobs, mon, client>>
  BY DEF LeaseExpires
<1>3. \A s \in Reservations :
        /\ rsv'[s] = [rsv[s] EXCEPT !.lease = rsv'[s].lease]
        /\ s # r => rsv'[s] = rsv[s]
  <2>1. \A s \in Reservations : rsv[s] = [rsv[s] EXCEPT !.lease = rsv[s].lease]
    BY DEF IInv, TypeOK, Row
  <2>2. row = [rsv[r] EXCEPT !.lease = row.lease]
    BY <1>0, <1>1 DEF Row
  <2>3. rsv'[r] = row /\ \A s \in Reservations : s # r => rsv'[s] = rsv[s]
    BY <1>2 DEF IInv, TypeOK
  <2>4. QED
    BY <2>1, <2>2, <2>3
<1> HIDE DEF row
<1>4. TrailIsHistory' /\ TypeOK'
  <2>1. Recorded(r, rsv[r].state, row.state)
    BY <1>1, <1>2 DEF Recorded
  <2>2. QED
    BY <1>1, <1>2, <2>1, TrailStep DEF IInv, TypeOK
<1>5. rsv'[r] = row
  BY <1>2 DEF IInv, TypeOK
<1>6. RowInv' /\ JobInv'
  <2>1. ConstraintsHold'
    <3>1. RowConstraints(rsv[r])
      BY DEF IInv, RowInv, ConstraintsHold
    <3>2. RowConstraints(row)
      BY <1>0, <1>1, <3>1 DEF RowConstraints
    <3>3. \A s \in Reservations : s # r => rsv'[s] = rsv[s]
      BY <1>3
    <3>4. QED
      BY <1>5, <3>2, <3>3 DEF IInv, RowInv, ConstraintsHold
  <2>2. \A s \in Reservations : /\ rsv'[s].state = rsv[s].state
                                /\ rsv'[s].video = rsv[s].video
                                /\ rsv'[s].job = rsv[s].job
    BY <1>1, <1>3, <1>5
  <2>3. QED
    BY <1>2, <2>1, <2>2
       DEF IInv, RowInv, Open, JobInv, LinkedBothWays, OneActiveJobPerStream, ActiveJobs
<1>7. ASSUME NEW n \in Monitors, Working(n) PROVE Holds(n)' <=> Holds(n)
  <2>1. mon[n].rsv \in Reservations
    BY <1>7 DEF IInv, ClaimInv, Remembered
  <2>2. CASE mon[n].rsv = r
    BY <1>0, <1>1, <1>2, <1>5, <2>2 DEF Holds
  <2>3. CASE mon[n].rsv # r
    BY <1>2, <1>3, <2>1, <2>3 DEF Holds
  <2>4. QED
    BY <2>2, <2>3
<1>8. ClaimInv'
  <2>1. ASSUME NEW n \in Monitors PROVE Remembered(n)'
    <3>1. Remembered(n) /\ mon'[n] = mon[n] /\ (Working(n) => mon[n].rsv \in Reservations)
      BY <1>2 DEF IInv, ClaimInv, Remembered
    <3>2. QED
      BY <1>3, <1>7, <3>1, KeptClaim
  <2>2. QED
    BY <2>1 DEF ClaimInv
<1>9. LockInv'
  BY <1>2 DEF IInv, LockInv, InArchive, ActiveJobs
<1>10. ChosenInv'
  <2>1. \A n \in Monitors : mon[n].job # NULL => Working(n)
    BY DEF IInv, ClaimInv, Remembered, Working, Idle
  <2>2. QED
    BY <1>2, <1>7, <2>1 DEF IInv, ChosenInv, Linkable, ActiveJobs
<1>11. QED
  BY <1>4, <1>6, <1>8, <1>9, <1>10 DEF IInv

\* Steps that leave the rows and the monitors alone leave every claim as it was.
LEMMA RowsKept ==
  ASSUME IInv, UNCHANGED <<rsv, trail, mon>>
  PROVE  /\ RowInv' /\ ClaimInv' /\ TrailIsHistory'
         /\ \A n \in Monitors : Holds(n)' <=> Holds(n)
BY DEF IInv, RowInv, ConstraintsHold, Open, ClaimInv, Remembered, Working, ClaimStands,
       Holds, TrailIsHistory

LEMMA RequestLockStep ==
  ASSUME IInv, NEW c \in Clients, NEW v \in Videos, RequestLock(c, v)
  PROVE  IInv'
<1>1. /\ client' = [client EXCEPT ![c] = v]
      /\ client'[c] = v /\ \A d \in Clients : d # c => client'[d] = client[d]
      /\ UNCHANGED <<rsv, trail, jobs, mon>>
  BY DEF RequestLock, IInv, TypeOK
<1>2. TypeOK'
  BY <1>1 DEF IInv, TypeOK
<1>3. JobInv' /\ ChosenInv'
  BY <1>1, RowsKept DEF IInv, JobInv, LinkedBothWays, OneActiveJobPerStream, ActiveJobs,
                        ChosenInv, Linkable
<1>4. LockInv'
  <2>1. /\ \A m \in Monitors : InArchive(m) => mon[m].seen.video # v
        /\ \A d \in Clients : client[d] # v
        /\ ActiveJobs(v) = {}
    BY DEF RequestLock, StreamLocked, InArchive
  <2>2. QED
    BY <1>1, <2>1 DEF IInv, LockInv, InArchive, ActiveJobs
<1>5. QED
  BY <1>1, <1>2, <1>3, <1>4, RowsKept DEF IInv

LEMMA RequestAbortsStep ==
  ASSUME IInv, NEW c \in Clients, RequestAborts(c)
  PROVE  IInv'
<1>1. /\ client' = [client EXCEPT ![c] = NULL]
      /\ client'[c] = NULL /\ \A d \in Clients : d # c => client'[d] = client[d]
      /\ UNCHANGED <<rsv, trail, jobs, mon>>
  BY DEF RequestAborts, IInv, TypeOK
<1>2. TypeOK'
  BY <1>1 DEF IInv, TypeOK
<1>3. JobInv' /\ ChosenInv'
  BY <1>1, RowsKept DEF IInv, JobInv, LinkedBothWays, OneActiveJobPerStream, ActiveJobs,
                        ChosenInv, Linkable
<1>4. LockInv'
  BY <1>1 DEF IInv, LockInv, InArchive, ActiveJobs
<1>5. QED
  BY <1>1, <1>2, <1>3, <1>4, RowsKept DEF IInv

LEMMA RequestInsertStep ==
  ASSUME IInv, NEW c \in Clients, RequestInsert(c)
  PROVE  IInv'
<1>1. PICK v \in Videos : v = client[c]
  BY DEF RequestInsert, IInv, TypeOK
<1> DEFINE row == [video |-> v, reservation |-> NULL, status |-> "active"]
<1>2. row.video = v /\ row.reservation = NULL /\ row.status = "active"
  OBVIOUS
<1>3. PICK j \in UnusedJobs : jobs' = [jobs EXCEPT ![j] = row]
  BY <1>1 DEF RequestInsert
<1>4. /\ j \in Jobs /\ jobs[j] = AbsentJob
      /\ \A m \in Monitors : mon[m].job # j
      /\ v = client[c] /\ v # NULL
      /\ client' = [client EXCEPT ![c] = NULL]
      /\ UNCHANGED <<rsv, trail, mon>>
  BY <1>3, <1>1 DEF RequestInsert, UnusedJobs, JobLocked, IInv, JobInv, TypeOK
<1> HIDE DEF row
<1>5. /\ jobs'[j] = row /\ \A k \in Jobs : k # j => jobs'[k] = jobs[k]
      /\ client'[c] = NULL /\ \A d \in Clients : d # c => client'[d] = client[d]
  BY <1>3, <1>4 DEF IInv, TypeOK
<1>6. TypeOK'
  <2>1. row \in Job
    BY <1>4 DEF Job, row
  <2>2. QED
    BY <1>3, <1>4, <2>1 DEF IInv, TypeOK
<1>7. jobs[j].reservation = NULL /\ jobs[j].status = "absent"
  BY <1>4 DEF AbsentJob
<1>8. \A u : u # v => ActiveJobs(u)' = ActiveJobs(u)
  BY <1>2, <1>4, <1>5, <1>7 DEF ActiveJobs
<1>9. ActiveJobs(v) = {} /\ ActiveJobs(v)' = {j}
  <2>1. ActiveJobs(v) = {}
    BY <1>4 DEF IInv, LockInv
  <2>2. QED
    BY <1>2, <1>4, <1>5, <2>1 DEF ActiveJobs
<1>10. JobInv'
  <2>1. LinkedBothWays'
    BY <1>2, <1>4, <1>5, <1>7 DEF IInv, JobInv, LinkedBothWays
  <2>2. OneActiveJobPerStream'
    BY <1>8, <1>9 DEF IInv, JobInv, OneActiveJobPerStream
  <2>3. \A r \in Reservations : rsv[r].job # j
    BY <1>4, <1>7, NullAssumption DEF IInv, JobInv, LinkedBothWays, NullAssumption
  <2>4. \A k \in Jobs : jobs'[k].status = "absent" => jobs'[k] = AbsentJob
    BY <1>2, <1>5 DEF IInv, JobInv
  <2>5. \A r \in Reservations : rsv[r].job # NULL => rsv[r].job \in Jobs
    BY DEF IInv, TypeOK, Row
  <2>6. \A r \in Reservations : rsv[r].state = "completed" => rsv[r].job # NULL
    BY DEF IInv, RowInv, ConstraintsHold, RowConstraints
  <2>7. QED
    BY <1>4, <1>5, <2>1, <2>2, <2>3, <2>4, <2>5, <2>6 DEF IInv, JobInv
<1>11. LockInv'
  <2>1. \A d \in Clients : d # c /\ client[d] # NULL => client[d] # v
    BY <1>4 DEF IInv, LockInv
  <2>2. QED
    BY <1>4, <1>5, <1>8, <2>1 DEF IInv, LockInv, InArchive
<1>12. ChosenInv'
  <2>1. \A m \in Monitors : mon[m].job # NULL => mon[m].job \in Jobs /\ mon[m].seen.video # v
    BY <1>4, NullAssumption DEF IInv, LockInv, InArchive, NullAssumption, ClaimInv,
       Remembered, TypeOK, Monitor, Idle
  <2>2. QED
    BY <1>4, <1>5, <1>8, <2>1, RowsKept DEF IInv, ChosenInv, Linkable
<1>13. QED
  BY <1>4, <1>6, <1>10, <1>11, <1>12, RowsKept DEF IInv

LEMMA JobEndsStep ==
  ASSUME IInv, NEW j \in Jobs, NEW outcome \in Outcomes, JobEnds(j, outcome)
  PROVE  IInv'
<1> DEFINE row == [jobs[j] EXCEPT !.status = outcome]
<1>1. /\ jobs' = [jobs EXCEPT ![j] = row]
      /\ jobs[j].status = "active" /\ jobs[j] \in Job
      /\ \A m \in Monitors : mon[m].job # j
      /\ UNCHANGED <<rsv, trail, mon, client>>
  BY DEF JobEnds, JobLocked, IInv, TypeOK
<1>2. /\ row \in Job /\ row.status = outcome
      /\ row.video = jobs[j].video /\ row.reservation = jobs[j].reservation
      /\ outcome \notin {"absent", "active"}
  BY <1>1, OutcomesAssumption DEF OutcomesAssumption, Job
<1> HIDE DEF row
<1>3. jobs'[j] = row /\ \A k \in Jobs : k # j => jobs'[k] = jobs[k]
  BY <1>1 DEF IInv, TypeOK
<1>4. TypeOK'
  BY <1>1, <1>2 DEF IInv, TypeOK
<1>5. \A v : ActiveJobs(v)' \subseteq ActiveJobs(v)
  BY <1>2, <1>3 DEF ActiveJobs
<1>6. JobInv'
  <2>1. LinkedBothWays'
    BY <1>1, <1>2, <1>3 DEF IInv, JobInv, LinkedBothWays
  <2>2. OneActiveJobPerStream'
    BY <1>5 DEF IInv, JobInv, OneActiveJobPerStream
  <2>3. \A k \in Jobs : jobs'[k].status = "absent" => jobs'[k] = AbsentJob
    BY <1>2, <1>3 DEF IInv, JobInv
  <2>4. \A r \in Reservations : rsv[r].job # NULL =>
          jobs'[rsv[r].job].video = jobs[rsv[r].job].video
    BY <1>2, <1>3 DEF IInv, TypeOK, Row
  <2>5. \A r \in Reservations : rsv[r].state = "completed" =>
          rsv[r].job \in Jobs /\ rsv[r].job # j
    BY <1>1 DEF IInv, TypeOK, Row, RowInv, ConstraintsHold, RowConstraints, JobInv
  <2>6. QED
    BY <1>1, <1>3, <2>1, <2>2, <2>3, <2>4, <2>5 DEF IInv, JobInv
<1>7. LockInv'
  BY <1>1, <1>5 DEF IInv, LockInv, InArchive
<1>8. ChosenInv'
  <2>1. \A m \in Monitors : mon[m].job # NULL => mon[m].job \in Jobs /\ mon[m].job # j
    BY <1>1 DEF IInv, TypeOK, Monitor
  <2>2. \A v : ActiveJobs(v) = {} => ActiveJobs(v)' = {}
    BY <1>5
  <2>3. QED
    BY <1>1, <1>3, <2>1, <2>2, RowsKept DEF IInv, ChosenInv, Linkable
<1>9. QED
  BY <1>1, <1>4, <1>6, <1>7, <1>8, RowsKept DEF IInv

-----------------------------------------------------------------------------
(* The actions of a monitor *)

LEMMA ClaimDueStep ==
  ASSUME IInv, NEW m \in Monitors, NEW r \in Reservations, ClaimDue(m, r)
  PROVE  IInv'
<1> DEFINE row == [rsv[r] EXCEPT !.lease = "live", !.revision = NextRevision(r)]
<1>1. rsv[r] \in Row /\ rsv[r].state \in Monitored
  BY DEF ClaimDue, IInv, TypeOK
<1>2. /\ row \in Row
      /\ row.lease = "live" /\ row.revision = NextRevision(r)
      /\ row.state = rsv[r].state /\ row.video = rsv[r].video
      /\ row.stream = rsv[r].stream /\ row.job = rsv[r].job
  BY <1>1, FreshRevision DEF IInv, Row
<1>3. Legal(r, row)
  BY <1>1, <1>2 DEF Legal, RowConstraints, IInv, RowInv, ConstraintsHold, Monitored,
                    CanCancel, Terminal
<1>4. /\ rsv' = [rsv EXCEPT ![r] = row]
      /\ mon' = [mon EXCEPT ![m] = Claim(r, row)]
      /\ UNCHANGED <<trail, jobs, client>>
  BY DEF ClaimDue, Claim
<1> HIDE DEF row
<1>5. Updates(r, row) /\ Recorded(r, rsv[r].state, row.state)
  BY <1>2, <1>4 DEF Updates, Recorded
<1>6. mon' \in [Monitors -> Monitor] /\ \A n \in Monitors : Goes(n, r, row)
  BY <1>1, <1>2, <1>4, ClaimType DEF IInv, TypeOK, Goes
<1>7. QED
  BY <1>2, <1>3, <1>4, <1>5, <1>6, UpdateStep

\* The ways on that a check of the broadcast or of the collection may find.
Advances(from, to) ==
  \/ to = from
  \/ <<from, to>> \in Lifecycle!Forward
  \/ from \in CanCancel /\ to = "failed"
  \/ from = "collecting" /\ to = "completed"

\* A fenced update that links no job.
Checks(m) ==
  /\ Working(m) /\ Holds(m)
  /\ \E row \in Row :
       /\ Persist(m, row)
       /\ Legal(mon[m].rsv, [row EXCEPT !.lease = "none"])
       /\ Advances(rsv[mon[m].rsv].state, row.state)
       /\ row.job = rsv[mon[m].rsv].job
  /\ UNCHANGED <<jobs, client>>

\* Such an update: its transition starts from the state that
\* the monitor has seen, which is that of the row.
LEMMA PersistStep ==
  ASSUME IInv, NEW m \in Monitors, Working(m), NEW row \in Row, Persist(m, row),
         Legal(mon[m].rsv, [row EXCEPT !.lease = "none"]), UNCHANGED <<jobs, client>>
  PROVE  IInv'
<1> DEFINE r == mon[m].rsv
           new == Released(r, row)
<1>1. r \in Reservations /\ Holds(m) /\ mon[m].seen.state = rsv[r].state
  <2>1. /\ mon[m].rsv \in Reservations /\ mon[m].seen \in Row
        /\ rsv[r] = [mon[m].seen EXCEPT !.lease = rsv[r].lease]
    BY DEF Persist, IInv, ClaimInv, Remembered, ClaimStands, TypeOK, Monitor
  <2>2. rsv[r].state = mon[m].seen.state
    BY <2>1 DEF Row
  <2>3. QED
    BY <2>1, <2>2 DEF Persist
<1>2. PICK s \in Reservations : s = r
  BY <1>1
<1>3. PICK update \in Row : update = new
  BY <1>1, ReleasedRow DEF IInv
<1>4. /\ update.lease = "none" /\ update.revision = NextRevision(s)
      /\ update.state = row.state /\ update.video = row.video
      /\ update.stream = row.stream /\ update.job = row.job
  BY <1>2, <1>3, ReleasedRow DEF IInv
<1>5. Legal(s, update)
  <2> DEFINE free == [row EXCEPT !.lease = "none"]
  <2>1. /\ free.lease = "none" /\ free.state = row.state /\ free.video = row.video
        /\ free.stream = row.stream /\ free.job = row.job
    BY DEF Row
  <2>2. Legal(s, free)
    BY <1>2
  <2> HIDE DEF free
  <2>3. QED
    BY <1>4, <2>1, <2>2 DEF Legal, RowConstraints
<1>6. Updates(s, update) /\ Recorded(s, rsv[s].state, update.state)
  BY <1>1, <1>2, <1>3, <1>4 DEF Persist, Updates
<1>7. mon' \in [Monitors -> Monitor] /\ \A n \in Monitors : Goes(n, s, update)
  BY IdleType DEF Persist, IInv, TypeOK, Goes
<1>8. QED
  BY <1>5, <1>6, <1>7, UpdateStep

\* The row that a monitor with a standing claim finds is the one it has seen.
LEMMA SeenRow ==
  ASSUME IInv, NEW m \in Monitors, Working(m), Holds(m)
  PROVE  /\ mon[m].rsv \in Reservations /\ mon[m].rsv # NULL
         /\ rsv[mon[m].rsv] \in Row
         /\ RowConstraints(rsv[mon[m].rsv])
         /\ rsv[mon[m].rsv].state = mon[m].seen.state
         /\ rsv[mon[m].rsv].video = mon[m].seen.video
         /\ rsv[mon[m].rsv].job = mon[m].seen.job
         /\ rsv[mon[m].rsv].attempts = mon[m].seen.attempts
         /\ mon[m].seen.state \in Monitored
         /\ mon[m].seen.video \in Videos
<1>1. /\ mon[m].rsv \in Reservations /\ mon[m].seen \in Row
      /\ rsv[mon[m].rsv] = [mon[m].seen EXCEPT !.lease = rsv[mon[m].rsv].lease]
      /\ mon[m].seen.state \in Monitored
      /\ mon[m].seen.video \in Videos
  BY DEF IInv, ClaimInv, Remembered, ClaimStands, TypeOK, Monitor
<1>2. QED
  BY <1>1, NullAssumption
     DEF IInv, TypeOK, RowInv, ConstraintsHold, Row, NullAssumption

\* The row that a check of the broadcast writes, whatever it saw.
LEMMA CheckedRow ==
  ASSUME IInv, NEW m \in Monitors, Working(m), Holds(m), NEW target \in State
  PROVE  LET row == Checked(m, target) IN
         /\ row \in Row
         /\ row.state = target /\ row.error = "none"
         /\ row.video = rsv[mon[m].rsv].video /\ row.job = rsv[mon[m].rsv].job
         /\ row.stream = rsv[mon[m].rsv].stream
<1>1. \A n \in 0 .. MaxMonitorAttempts : Counted(n) \in 0 .. MaxMonitorAttempts
  BY AttemptsAssumption DEF AttemptsAssumption, Counted
<1>2. rsv[mon[m].rsv] \in Row
  BY SeenRow
<1>3. QED
  BY <1>1, <1>2 DEF Checked, Row

\* stateFromMetadata
LEMMA Targets ==
  ASSUME NEW state \in CanCancel, NEW seen \in Observations
  PROVE  /\ seen \notin Over => Target(state, seen) \in {state, "live", "monitoring"}
         /\ seen \notin Over /\ Target(state, seen) # state =>
              <<state, Target(state, seen)>> \in
                {<<"scheduled", "live">>, <<"scheduled", "monitoring">>,
                 <<"monitoring", "live">>}
         /\ seen \in Over => \/ Target(state, seen) = "waiting_for_archive"
                             \/ /\ Target(state, seen) = "collecting"
                                /\ state = "waiting_for_archive"
BY DEF CanCancel, Observations, Over, Target

LEMMA ApplyMetadataChecks ==
  ASSUME IInv, NEW m \in Monitors, NEW seen \in Observations \ Over, ApplyMetadata(m, seen)
  PROVE  Checks(m)
<1> DEFINE target == Target(mon[m].seen.state, seen)
           row == [Checked(m, target) EXCEPT !.job = NULL]
<1>1. /\ Working(m) /\ Holds(m) /\ Persist(m, row) /\ UNCHANGED <<jobs, client>>
      /\ mon[m].seen.state # "collecting"
  BY DEF ApplyMetadata, Ready, Checking, Working, Persist
<1>2. /\ mon[m].seen.state \in CanCancel
      /\ rsv[mon[m].rsv].state = mon[m].seen.state
      /\ RowConstraints(rsv[mon[m].rsv])
      /\ mon[m].rsv \in Reservations
  BY <1>1, SeenRow DEF Monitored
<1>3. target \in State /\ target \in {mon[m].seen.state, "live", "monitoring"}
  BY <1>2, Targets DEF State, Monitored, CanCancel
<1>4. rsv[mon[m].rsv].job = NULL
  BY <1>2 DEF RowConstraints, CanCancel
<1> HIDE DEF target
<1>5. /\ row \in Row /\ row.state = target /\ row.job = NULL
      /\ row.video = rsv[mon[m].rsv].video /\ row.stream = rsv[mon[m].rsv].stream
  BY <1>1, <1>3, CheckedRow DEF Row
<1> HIDE DEF row
<1>6. Legal(mon[m].rsv, [row EXCEPT !.lease = "none"])
  <2> DEFINE free == [row EXCEPT !.lease = "none"]
  <2>1. /\ free.lease = "none" /\ free.state = row.state /\ free.video = row.video
        /\ free.stream = row.stream /\ free.job = row.job
    BY <1>5 DEF Row
  <2> HIDE DEF free
  <2>2. RowConstraints(free)
    BY <1>2, <1>3, <1>4, <1>5, <2>1 DEF RowConstraints, CanCancel
  <2>3. QED
    BY <1>2, <1>3, <1>4, <1>5, <2>1, <2>2 DEF Legal, CanCancel, Terminal, free
<1>7. Advances(rsv[mon[m].rsv].state, row.state)
  BY <1>1, <1>2, <1>5, Targets DEF Advances, Lifecycle!Forward, target
<1>8. QED
  BY <1>1, <1>4, <1>5, <1>6, <1>7 DEF Checks, row

LEMMA RecordFailureChecks ==
  ASSUME IInv, NEW m \in Monitors, NEW error \in FetchErrors, RecordFailure(m, error)
  PROVE  Checks(m)
<1>1. PICK target \in {"failed", mon[m].seen.state} :
        /\ Persist(m, [Checked(m, target) EXCEPT !.error = error])
        /\ Working(m) /\ Holds(m) /\ UNCHANGED <<jobs, client>>
        /\ mon[m].seen.state # "collecting"
  BY DEF RecordFailure, Ready, Checking, Working, Persist
<1> DEFINE row == [Checked(m, target) EXCEPT !.error = error]
<1>2. /\ mon[m].seen.state \in CanCancel
      /\ rsv[mon[m].rsv].state = mon[m].seen.state
      /\ RowConstraints(rsv[mon[m].rsv])
      /\ mon[m].rsv \in Reservations
  BY <1>1, SeenRow DEF Monitored
<1>3. target \in State
  BY <1>2 DEF State, Monitored, Terminal
<1>4. /\ row \in Row /\ row.state = target /\ row.job = rsv[mon[m].rsv].job
      /\ row.video = rsv[mon[m].rsv].video /\ row.stream = rsv[mon[m].rsv].stream
  BY <1>1, <1>3, CheckedRow DEF Row, FetchErrors
<1>5. rsv[mon[m].rsv].job = NULL
  BY <1>2 DEF RowConstraints, CanCancel
<1> HIDE DEF row
<1>6. Legal(mon[m].rsv, [row EXCEPT !.lease = "none"])
  <2> DEFINE free == [row EXCEPT !.lease = "none"]
  <2>1. /\ free.lease = "none" /\ free.state = row.state /\ free.video = row.video
        /\ free.stream = row.stream /\ free.job = row.job
    BY <1>4 DEF Row
  <2> HIDE DEF free
  <2>2. RowConstraints(free)
    BY <1>1, <1>2, <1>4, <1>5, <2>1 DEF RowConstraints, CanCancel
  <2>3. QED
    BY <1>1, <1>2, <1>4, <1>5, <2>1, <2>2 DEF Legal, CanCancel, Terminal, free
<1>7. Advances(rsv[mon[m].rsv].state, row.state)
  BY <1>2, <1>4 DEF Advances
<1>8. QED
  BY <1>1, <1>4, <1>6, <1>7 DEF Checks, row

LEMMA SyncCollectionChecks ==
  ASSUME IInv, NEW m \in Monitors, SyncCollection(m)
  PROVE  Checks(m)
<1> DEFINE state == IF jobs[mon[m].seen.job].status = "succeeded" THEN "completed"
                    ELSE "collecting"
           row == [rsv[mon[m].rsv] EXCEPT !.state = state]
<1>1. /\ Working(m) /\ Holds(m) /\ Persist(m, row) /\ UNCHANGED <<jobs, client>>
      /\ mon[m].seen.state = "collecting"
  BY DEF SyncCollection, Checking, Working, Persist
<1>2. /\ rsv[mon[m].rsv] \in Row
      /\ rsv[mon[m].rsv].state = "collecting"
      /\ rsv[mon[m].rsv].job = mon[m].seen.job
      /\ RowConstraints(rsv[mon[m].rsv])
      /\ mon[m].rsv \in Reservations
  BY <1>1, SeenRow
<1>3. /\ state \in {"completed", "collecting"} /\ state \in State
      /\ state = "completed" => jobs[mon[m].seen.job].status = "succeeded"
  BY DEF State, Monitored, Terminal
<1> HIDE DEF state
<1>4. /\ row \in Row /\ row.state = state /\ row.job = rsv[mon[m].rsv].job
      /\ row.video = rsv[mon[m].rsv].video /\ row.stream = rsv[mon[m].rsv].stream
  BY <1>2, <1>3 DEF Row
<1> HIDE DEF row
<1>5. Legal(mon[m].rsv, [row EXCEPT !.lease = "none"])
  <2> DEFINE free == [row EXCEPT !.lease = "none"]
  <2>1. /\ free.lease = "none" /\ free.state = row.state /\ free.video = row.video
        /\ free.stream = row.stream /\ free.job = row.job
    BY <1>4 DEF Row
  <2> HIDE DEF free
  <2>2. RowConstraints(free)
    BY <1>2, <1>3, <1>4, <2>1 DEF RowConstraints
  <2>3. QED
    BY <1>2, <1>3, <1>4, <2>1, <2>2 DEF Legal, Terminal, free
<1>6. Advances(rsv[mon[m].rsv].state, row.state)
  BY <1>2, <1>3, <1>4 DEF Advances
<1>7. QED
  BY <1>1, <1>4, <1>5, <1>6 DEF Checks, row

\* A monitor gives up: its transaction leaves nothing.
LEMMA MonitorStopsStep ==
  ASSUME IInv, NEW m \in Monitors, mon' = [mon EXCEPT ![m] = Idle],
         UNCHANGED <<rsv, trail, jobs, client>>
  PROVE  IInv'
<1>1. /\ mon'[m] = Idle /\ \A n \in Monitors : n # m => mon'[n] = mon[n]
      /\ mon' \in [Monitors -> Monitor]
  BY IdleType DEF IInv, TypeOK
<1>2. TypeOK' /\ RowInv' /\ JobInv' /\ TrailIsHistory'
  BY <1>1 DEF IInv, TypeOK, RowInv, ConstraintsHold, Open, JobInv, LinkedBothWays,
              OneActiveJobPerStream, ActiveJobs, TrailIsHistory
<1>3. \A n \in Monitors : n # m => (Holds(n)' <=> Holds(n))
  BY <1>1 DEF Holds
<1>4. ClaimInv'
  <2>1. Remembered(m)'
    BY <1>1, IdleType DEF Remembered, Working
  <2>2. ASSUME NEW n \in Monitors, n # m PROVE Remembered(n)'
    BY <1>1, <1>3, <2>2 DEF IInv, ClaimInv, Remembered, Working, ClaimStands
  <2>3. QED
    BY <2>1, <2>2 DEF ClaimInv
<1>5. LockInv'
  BY <1>1, IdleType DEF IInv, LockInv, InArchive, ActiveJobs
<1>6. ChosenInv'
  BY <1>1, <1>3, IdleType DEF IInv, ChosenInv, Linkable, ActiveJobs
<1>7. QED
  BY <1>2, <1>4, <1>5, <1>6 DEF IInv

LEMMA ObserveStreamStep ==
  ASSUME IInv, NEW m \in Monitors, NEW seen \in Over, ObserveStream(m, seen)
  PROVE  IInv'
<1> DEFINE target == Target(mon[m].seen.state, seen)
           next == [mon[m] EXCEPT !.pc = IF target = "collecting" THEN "linking"
                                         ELSE "updating", !.target = target]
<1>1. /\ mon[m] \in Monitor /\ mon[m].pc = "checking" /\ mon[m].job = NULL
      /\ mon[m].seen.state \in CanCancel /\ Remembered(m) /\ Working(m)
  BY DEF ObserveStream, Ready, Checking, IInv, TypeOK, ClaimInv, Remembered, Working,
         Monitored
<1>2. /\ target \in State
      /\ \/ target = "waiting_for_archive"
         \/ target = "collecting" /\ mon[m].seen.state = "waiting_for_archive"
  BY <1>1, Targets DEF Observations, Over, State, Monitored, CanCancel
<1>3. /\ mon' = [mon EXCEPT ![m] = next]
      /\ UNCHANGED <<rsv, trail, jobs, client>>
      /\ ~StreamLocked(mon[m].seen.video)
  BY DEF ObserveStream, IInv, TypeOK
<1> HIDE DEF target
<1>4. /\ next \in Monitor /\ next.rsv = mon[m].rsv /\ next.seen = mon[m].seen
      /\ next.job = NULL /\ next.target = target
      /\ next.pc = IF target = "collecting" THEN "linking" ELSE "updating"
  BY <1>1, <1>2 DEF Monitor
<1> HIDE DEF next
<1>5. /\ mon'[m] = next /\ \A n \in Monitors : n # m => mon'[n] = mon[n]
      /\ mon' \in [Monitors -> Monitor]
  BY <1>3, <1>4 DEF IInv, TypeOK
<1>6. TypeOK' /\ RowInv' /\ JobInv' /\ TrailIsHistory'
  BY <1>3, <1>5 DEF IInv, TypeOK, RowInv, ConstraintsHold, Open, JobInv, LinkedBothWays,
                    OneActiveJobPerStream, ActiveJobs, TrailIsHistory
<1>7. \A n \in Monitors : Holds(n)' <=> Holds(n)
  BY <1>3, <1>4, <1>5 DEF Holds
<1>8. ClaimInv'
  <2>1. Remembered(m)'
    BY <1>1, <1>2, <1>3, <1>4, <1>5, <1>7 DEF Remembered, Working, ClaimStands
  <2>2. ASSUME NEW n \in Monitors, n # m PROVE Remembered(n)'
    BY <1>3, <1>5, <1>7, <2>2 DEF IInv, ClaimInv, Remembered, Working, ClaimStands
  <2>3. QED
    BY <2>1, <2>2 DEF ClaimInv
<1>9. LockInv'
  <2>1. /\ \A n \in Monitors : InArchive(n) => mon[n].seen.video # mon[m].seen.video
        /\ \A c \in Clients : client[c] # mon[m].seen.video
    BY <1>3 DEF StreamLocked, InArchive
  <2>2. QED
    BY <1>3, <1>4, <1>5, <2>1 DEF IInv, LockInv, InArchive, ActiveJobs
<1>10. ChosenInv'
  <2>1. \A n \in Monitors : mon'[n].job # NULL => n # m /\ mon'[n] = mon[n]
    BY <1>4, <1>5
  <2>2. QED
    BY <1>3, <1>5, <1>7, <2>1 DEF IInv, ChosenInv, Linkable, ActiveJobs
<1>11. QED
  BY <1>6, <1>8, <1>9, <1>10 DEF IInv

LEMMA EnsureJobStep == ASSUME IInv, NEW m \in Monitors, EnsureJob(m) PROVE IInv'
<1>1. PICK j \in EnsuredJobs(mon[m].rsv, mon[m].seen.video) :
        mon' = [mon EXCEPT ![m].pc = "updating", ![m].job = j]
  BY DEF EnsureJob
<1> DEFINE next == [mon[m] EXCEPT !.pc = "updating", !.job = j]
           v == mon[m].seen.video
<1>2. /\ mon[m] \in Monitor /\ mon[m].pc = "linking" /\ mon[m].job = NULL
      /\ Remembered(m) /\ Working(m) /\ InArchive(m)
      /\ j \in Jobs /\ j # NULL
      /\ UNCHANGED <<rsv, trail, jobs, client>>
  BY <1>1, NullAssumption
     DEF EnsureJob, IInv, TypeOK, ClaimInv, Remembered, Working, InArchive, EnsuredJobs,
         ActiveJobs, UnusedJobs, NullAssumption
<1>3. mon' = [mon EXCEPT ![m] = next]
  BY <1>1 DEF IInv, TypeOK
<1>4. /\ next \in Monitor /\ next.rsv = mon[m].rsv /\ next.seen = mon[m].seen
      /\ next.job = j /\ next.target = mon[m].target /\ next.pc = "updating"
  BY <1>2 DEF Monitor
<1> HIDE DEF next
<1>5. /\ mon'[m] = next /\ \A n \in Monitors : n # m => mon'[n] = mon[n]
      /\ mon' \in [Monitors -> Monitor]
  BY <1>3, <1>4 DEF IInv, TypeOK
<1>6. TypeOK' /\ RowInv' /\ JobInv' /\ TrailIsHistory'
  BY <1>2, <1>5 DEF IInv, TypeOK, RowInv, ConstraintsHold, Open, JobInv, LinkedBothWays,
                    OneActiveJobPerStream, ActiveJobs, TrailIsHistory
<1>7. \A n \in Monitors : Holds(n)' <=> Holds(n)
  BY <1>2, <1>4, <1>5 DEF Holds
<1>8. ClaimInv'
  <2>1. Remembered(m)'
    BY <1>2, <1>4, <1>5, <1>7 DEF Remembered, Working, ClaimStands
  <2>2. ASSUME NEW n \in Monitors, n # m PROVE Remembered(n)'
    BY <1>2, <1>5, <1>7, <2>2 DEF IInv, ClaimInv, Remembered, Working, ClaimStands
  <2>3. QED
    BY <2>1, <2>2 DEF ClaimInv
<1>9. LockInv'
  BY <1>2, <1>4, <1>5 DEF IInv, LockInv, InArchive, ActiveJobs
<1>10. Holds(m) =>
         \/ j \in ActiveJobs(v) /\ jobs[j].reservation = NULL
         \/ j \in UnusedJobs /\ ActiveJobs(v) = {}
  <2> SUFFICES ASSUME Holds(m)
               PROVE  \/ j \in ActiveJobs(v) /\ jobs[j].reservation = NULL
                      \/ j \in UnusedJobs /\ ActiveJobs(v) = {}
    OBVIOUS
  <2>1. /\ RowConstraints(rsv[mon[m].rsv]) /\ mon[m].rsv \in Reservations
        /\ rsv[mon[m].rsv].state = "waiting_for_archive"
    BY <1>2, SeenRow DEF Remembered
  <2>2. rsv[mon[m].rsv].job = NULL
    BY <2>1 DEF RowConstraints
  <2>3. {k \in Jobs : jobs[k].reservation = mon[m].rsv} = {}
    BY <2>1, <2>2, NullAssumption DEF IInv, JobInv, LinkedBothWays, NullAssumption
  <2>4. QED
    BY <1>1, <2>3 DEF EnsuredJobs
<1>11. Holds(m) =>
         /\ Linkable(m)'
         /\ \A n \in Monitors : Holds(n) /\ mon[n].job = j => n = m
  <2> SUFFICES ASSUME Holds(m)
               PROVE  /\ Linkable(m)'
                      /\ \A n \in Monitors : Holds(n) /\ mon[n].job = j => n = m
    OBVIOUS
  <2>1. CASE j \in ActiveJobs(v) /\ jobs[j].reservation = NULL
    <3>1. Linkable(m)'
      BY <1>2, <1>4, <1>5, <2>1 DEF Linkable, ActiveJobs
    <3>2. ASSUME NEW n \in Monitors, Holds(n), mon[n].job = j PROVE n = m
      <4>1. Linkable(n) /\ InArchive(n)
        BY <1>2, <3>2, NullAssumption
           DEF IInv, ChosenInv, ClaimInv, Remembered, Working, Idle, InArchive,
               TypeOK, Monitor
      <4>2. mon[n].seen.video = v
        BY <2>1, <3>2, <4>1 DEF Linkable, ActiveJobs, AbsentJob
      <4>3. QED
        BY <1>2, <4>1, <4>2 DEF IInv, LockInv
    <3>3. QED
      BY <3>1, <3>2
  <2>2. CASE j \in UnusedJobs /\ ActiveJobs(v) = {}
    <3>1. jobs[j] = AbsentJob /\ \A n \in Monitors : mon[n].job # j
      BY <2>2 DEF UnusedJobs, JobLocked, IInv, JobInv
    <3>2. QED
      BY <1>2, <1>4, <1>5, <2>2, <3>1 DEF Linkable, ActiveJobs
  <2>3. QED
    BY <1>10, <2>1, <2>2
<1>12. ChosenInv'
  <2>1. \A n \in Monitors : n # m /\ Linkable(n) => Linkable(n)'
    BY <1>2, <1>5 DEF Linkable, ActiveJobs
  <2>2. QED
    BY <1>4, <1>5, <1>7, <1>11, <2>1 DEF IInv, ChosenInv
<1>13. QED
  BY <1>6, <1>8, <1>9, <1>12 DEF IInv

\* A commit of metadata without a job moves the row to the archive wait.
LEMMA CommitWaitChecks ==
  ASSUME IInv, NEW m \in Monitors, CommitMetadata(m), mon[m].job = NULL
  PROVE  Checks(m)
<1> DEFINE row == [Checked(m, "waiting_for_archive") EXCEPT !.stream = TRUE, !.job = NULL]
<1>1. /\ Working(m) /\ Holds(m)
      /\ mon[m].seen.state \in CanCancel
      /\ mon[m].target = "waiting_for_archive"
  BY NullAssumption DEF CommitMetadata, Persist, Working, IInv, ClaimInv, Remembered,
                        NullAssumption
<1>2. Persist(m, row) /\ UNCHANGED <<jobs, client>>
  BY <1>1 DEF CommitMetadata
<1>3. /\ rsv[mon[m].rsv].state \in CanCancel
      /\ RowConstraints(rsv[mon[m].rsv])
  BY <1>1, SeenRow
<1>4. rsv[mon[m].rsv].job = NULL
  BY <1>3 DEF RowConstraints, CanCancel
<1>5. /\ row \in Row /\ row.state = "waiting_for_archive" /\ row.job = NULL
      /\ row.video = rsv[mon[m].rsv].video /\ row.stream = TRUE
  <2> DEFINE checked == Checked(m, "waiting_for_archive")
  <2>1. "waiting_for_archive" \in State
    BY DEF State, Monitored, CanCancel
  <2>2. /\ checked \in Row /\ checked.state = "waiting_for_archive"
        /\ checked.video = rsv[mon[m].rsv].video
    BY <1>1, <2>1, CheckedRow
  <2> HIDE DEF checked
  <2>3. [checked EXCEPT !.stream = TRUE, !.job = NULL] \in Row
    BY <2>2 DEF Row
  <2>4. QED
    BY <2>2, <2>3 DEF checked, Row
<1> HIDE DEF row
<1>6. Legal(mon[m].rsv, [row EXCEPT !.lease = "none"])
  <2> DEFINE free == [row EXCEPT !.lease = "none"]
  <2>1. /\ free.lease = "none" /\ free.state = row.state /\ free.video = row.video
        /\ free.stream = row.stream /\ free.job = row.job
    BY <1>5 DEF Row
  <2> HIDE DEF free
  <2>2. RowConstraints(free)
    BY <1>5, <2>1 DEF RowConstraints
  <2>3. QED
    BY <1>3, <1>4, <1>5, <2>1, <2>2 DEF Legal, CanCancel, Terminal, free
<1>7. Advances(rsv[mon[m].rsv].state, row.state)
  BY <1>3, <1>5 DEF Advances, CanCancel, Lifecycle!Forward
<1>8. QED
  BY <1>1, <1>2, <1>4, <1>5, <1>6, <1>7 DEF Checks, row

\* What a commit that links a job changes: the row and the job, together.
Links(m, r, j) ==
  /\ mon[m].rsv = r /\ mon[m].job = j
  /\ Working(m) /\ Holds(m) /\ InArchive(m)
  /\ mon[m].seen.video = rsv[r].video
  /\ rsv[r].state = "waiting_for_archive" /\ rsv[r].job = NULL
  /\ \A s \in Reservations : rsv[s].job # j
  /\ jobs[j].reservation = NULL /\ jobs[j].status \in {"absent", "active"}
  /\ ActiveJobs(rsv[r].video) \subseteq {j}
  /\ jobs' = [jobs EXCEPT ![j] = [video |-> rsv[r].video, reservation |-> r,
                                  status |-> "active"]]
  /\ \E row \in Row :
       /\ Updates(r, row)
       /\ row.state = "collecting" /\ row.video = rsv[r].video /\ row.job = j
       /\ row.stream = TRUE /\ row.lease = "none"
       /\ Recorded(r, rsv[r].state, row.state)
  /\ mon' = [mon EXCEPT ![m] = Idle]
  /\ UNCHANGED client

LEMMA CommitLinks ==
  ASSUME IInv, NEW m \in Monitors, CommitMetadata(m), mon[m].job # NULL
  PROVE  \E r \in Reservations, j \in Jobs : Links(m, r, j)
<1>1. /\ Working(m) /\ Holds(m) /\ InArchive(m)
      /\ mon[m].seen.state = "waiting_for_archive"
      /\ mon[m].target = "collecting"
      /\ mon[m].job \in Jobs
  BY DEF CommitMetadata, Persist, Working, InArchive, IInv, ClaimInv, Remembered
<1>2. PICK j \in Jobs : j = mon[m].job
  BY <1>1
<1>3. PICK r \in Reservations : r = mon[m].rsv
  BY <1>1, SeenRow
<1>4. /\ rsv[r] \in Row /\ RowConstraints(rsv[r]) /\ r # NULL /\ j # NULL
      /\ rsv[r].state = "waiting_for_archive"
      /\ rsv[r].video = mon[m].seen.video
  BY <1>1, <1>2, <1>3, SeenRow, NullAssumption DEF NullAssumption
<1>5. rsv[r].job = NULL
  BY <1>4 DEF RowConstraints
<1>6. Linkable(m)
  BY <1>1, <1>2, <1>4 DEF IInv, ChosenInv
<1>7. /\ jobs[j].reservation = NULL /\ jobs[j].status \in {"absent", "active"}
      /\ ActiveJobs(rsv[r].video) \subseteq {j}
  <2>1. CASE jobs[j] = AbsentJob /\ ActiveJobs(rsv[r].video) = {}
    BY <2>1 DEF AbsentJob
  <2>2. CASE /\ jobs[j].status = "active" /\ jobs[j].reservation = NULL
             /\ jobs[j].video = rsv[r].video
    <3>1. j \in ActiveJobs(rsv[r].video) /\ rsv[r].video \in Videos
      BY <1>4, <2>2 DEF ActiveJobs, IInv, RowInv
    <3>2. QED
      BY <2>2, <3>1 DEF IInv, JobInv, OneActiveJobPerStream
  <2>3. QED
    BY <1>2, <1>4, <1>6, <2>1, <2>2 DEF Linkable
<1>8. \A s \in Reservations : rsv[s].job # j
  BY <1>7, NullAssumption DEF IInv, JobInv, LinkedBothWays, NullAssumption
<1>9. jobs' = [jobs EXCEPT ![j] = [video |-> rsv[r].video, reservation |-> r,
                                   status |-> "active"]]
  BY <1>2, <1>3, <1>4, <1>7 DEF CommitMetadata
<1>10. \E row \in Row :
         /\ Updates(r, row)
         /\ row.state = "collecting" /\ row.video = rsv[r].video /\ row.job = j
         /\ row.stream = TRUE /\ row.lease = "none"
         /\ Recorded(r, rsv[r].state, row.state)
  <2> DEFINE row == [Checked(m, "collecting") EXCEPT !.stream = TRUE, !.job = j]
             new == Released(r, row)
  <2>1. Persist(m, row)
    BY <1>1, <1>2 DEF CommitMetadata
  <2>2. /\ row \in Row /\ row.state = "collecting" /\ row.video = rsv[r].video
        /\ row.job = j /\ row.stream = TRUE
    <3> DEFINE checked == Checked(m, "collecting")
    <3>1. "collecting" \in State
      BY DEF State, Monitored
    <3>2. /\ checked \in Row /\ checked.state = "collecting"
          /\ checked.video = rsv[r].video
      BY <1>1, <1>3, <3>1, CheckedRow
    <3> HIDE DEF checked
    <3>3. [checked EXCEPT !.stream = TRUE, !.job = j] \in Row
      BY <3>2 DEF Row
    <3>4. QED
      BY <3>2, <3>3 DEF checked, Row
  <2> HIDE DEF row
  <2>3. /\ new \in Row /\ new.state = "collecting" /\ new.video = rsv[r].video
        /\ new.job = j /\ new.stream = TRUE /\ new.lease = "none"
        /\ new.revision = NextRevision(r)
    BY <2>2, ReleasedRow DEF IInv
  <2> HIDE DEF new
  <2>4. rsv' = [rsv EXCEPT ![r] = new] /\ Recorded(r, rsv[r].state, new.state)
    BY <1>1, <1>3, <1>4, <2>1, <2>2, <2>3 DEF Persist, new
  <2>5. QED
    BY <2>3, <2>4 DEF Updates
<1>11. mon' = [mon EXCEPT ![m] = Idle] /\ UNCHANGED client
  BY DEF CommitMetadata, Persist
<1>12. QED
  BY <1>1, <1>2, <1>3, <1>4, <1>5, <1>7, <1>8, <1>9, <1>10, <1>11 DEF Links

LEMMA LinkStep ==
  ASSUME IInv, NEW m \in Monitors, NEW r \in Reservations, NEW j \in Jobs, Links(m, r, j)
  PROVE  IInv'
<1> DEFINE job == [video |-> rsv[r].video, reservation |-> r, status |-> "active"]
<1>1. PICK row \in Row :
        /\ Updates(r, row)
        /\ row.state = "collecting" /\ row.video = rsv[r].video /\ row.job = j
        /\ row.stream = TRUE /\ row.lease = "none"
        /\ Recorded(r, rsv[r].state, row.state)
  BY DEF Links
<1>2. PICK v \in Videos : v = rsv[r].video
  BY DEF Links, IInv, RowInv
<1>3. /\ jobs' = [jobs EXCEPT ![j] = [video |-> v, reservation |-> r, status |-> "active"]]
      /\ mon' = [mon EXCEPT ![m] = Idle]
      /\ UNCHANGED client
      /\ mon[m].rsv = r /\ mon[m].job = j /\ Holds(m) /\ InArchive(m)
      /\ mon[m].seen.video = v
      /\ rsv[r].state = "waiting_for_archive" /\ rsv[r].job = NULL
      /\ \A s \in Reservations : rsv[s].job # j
      /\ jobs[j].reservation = NULL /\ jobs[j].status \in {"absent", "active"}
      /\ ActiveJobs(v) \subseteq {j}
      /\ r # NULL /\ j # NULL
  BY <1>2, NullAssumption DEF Links, NullAssumption
<1>4. /\ rsv'[r] = row /\ \A s \in Reservations : s # r => rsv'[s] = rsv[s]
      /\ mon'[m] = Idle /\ \A n \in Monitors : n # m => mon'[n] = mon[n]
      /\ jobs'[j] = [video |-> v, reservation |-> r, status |-> "active"]
      /\ \A k \in Jobs : k # j => jobs'[k] = jobs[k]
  BY <1>1, <1>3 DEF Updates, IInv, TypeOK
<1>5. TypeOK' /\ TrailIsHistory'
  <2>1. [video |-> v, reservation |-> r, status |-> "active"] \in Job
    BY DEF Job
  <2>2. jobs' \in [Jobs -> Job] /\ mon' \in [Monitors -> Monitor]
    BY <1>3, <2>1, IdleType DEF IInv, TypeOK
  <2>3. TrailIsHistory' /\ trail' \in [Reservations -> Seq(State \X State)]
    BY <1>1, TrailStep DEF IInv, Updates
  <2>4. rsv' \in [Reservations -> Row]
    BY <1>1 DEF IInv, TypeOK, Updates
  <2>5. QED
    BY <1>3, <2>2, <2>3, <2>4 DEF IInv, TypeOK
<1>6. RowInv'
  <2>1. ConstraintsHold'
    BY <1>1, <1>3, <1>4 DEF IInv, RowInv, ConstraintsHold, RowConstraints, Monitored
  <2>2. \A s \in Reservations : Open(s)' = Open(s) /\ rsv'[s].video = rsv[s].video
    BY <1>1, <1>3, <1>4 DEF Open, Terminal
  <2>3. QED
    BY <1>1, <1>2, <1>4, <2>1, <2>2 DEF IInv, RowInv
<1>7. \A u : u # v => ActiveJobs(u)' = ActiveJobs(u)
  <2>1. jobs[j].status = "active" => jobs[j].video = v
    BY <1>3 DEF Links, IInv, ChosenInv, Linkable, AbsentJob
  <2>2. QED
    BY <1>4, <2>1 DEF ActiveJobs
<1>8. ActiveJobs(v)' = {j}
  BY <1>3, <1>4 DEF ActiveJobs
<1>9. JobInv'
  <2>1. LinkedBothWays'
    <3>1. \A k \in Jobs : jobs'[k].reservation = IF k = j THEN r ELSE jobs[k].reservation
      BY <1>4
    <3>2. \A s \in Reservations : rsv'[s].job = IF s = r THEN j ELSE rsv[s].job
      BY <1>1, <1>4
    <3>3. QED
      BY <1>3, <3>1, <3>2, NullAssumption DEF IInv, JobInv, LinkedBothWays, NullAssumption
  <2>2. OneActiveJobPerStream'
    BY <1>7, <1>8 DEF IInv, JobInv, OneActiveJobPerStream
  <2>3. \A k \in Jobs : jobs'[k].status = "absent" => jobs'[k] = AbsentJob
    BY <1>4 DEF IInv, JobInv
  <2>4. \A s \in Reservations : rsv[s].job # NULL => rsv[s].job \in Jobs
    BY DEF IInv, TypeOK, Row
  <2>5. \A s \in Reservations : rsv[s].state = "completed" => rsv[s].job # NULL
    BY DEF IInv, RowInv, ConstraintsHold, RowConstraints
  <2>6. QED
    BY <1>1, <1>2, <1>3, <1>4, <2>1, <2>2, <2>3, <2>4, <2>5 DEF IInv, JobInv
<1>10. \A n \in Monitors : n # m /\ Working(n) /\ Holds(n)' =>
         Holds(n) /\ rsv'[mon[n].rsv] = rsv[mon[n].rsv]
  BY <1>1, <1>4, OtherClaims
<1>11. ClaimInv'
  <2>1. Remembered(m)'
    BY <1>4, IdleType DEF Remembered, Working
  <2>2. ASSUME NEW n \in Monitors, n # m PROVE Remembered(n)'
    <3>1. Remembered(n) /\ mon'[n] = mon[n]
      BY <1>4, <2>2 DEF IInv, ClaimInv
    <3>2. Working(n) => rsv[mon[n].rsv] = [rsv[mon[n].rsv] EXCEPT
                                             !.lease = rsv[mon[n].rsv].lease]
      BY <3>1 DEF Remembered, IInv, TypeOK, Row
    <3>3. QED
      BY <1>10, <2>2, <3>1, <3>2, KeptClaim
  <2>3. QED
    BY <2>1, <2>2 DEF ClaimInv
<1>12. LockInv'
  <2>1. \A c \in Clients : client[c] # NULL => client[c] # v
    BY <1>3 DEF IInv, LockInv
  <2>2. \A n \in Monitors : InArchive(n)' => n # m /\ InArchive(n) /\ mon'[n] = mon[n]
    BY <1>4, IdleType DEF InArchive
  <2>3. \A c \in Clients : client[c] # NULL => ActiveJobs(client[c])' = {}
    BY <1>3, <1>7, <2>1 DEF IInv, LockInv
  <2>4. \A c \in Clients : client'[c] = client[c]
    BY <1>3
  <2>5. \A n, k \in Monitors :
          InArchive(n)' /\ InArchive(k)' /\ mon'[n].seen.video = mon'[k].seen.video => n = k
    BY <2>2 DEF IInv, LockInv
  <2>6. \A c \in Clients : client[c] # NULL =>
          /\ \A n \in Monitors : InArchive(n)' => mon'[n].seen.video # client[c]
          /\ \A d \in Clients : client[d] = client[c] => d = c
    BY <2>2 DEF IInv, LockInv
  <2>7. QED
    BY <2>3, <2>4, <2>5, <2>6 DEF LockInv
<1>13. ChosenInv'
  <2>1. ASSUME NEW n \in Monitors, n # m, mon[n].job # NULL, Holds(n)'
        PROVE  Linkable(n)' /\ Holds(n) /\ mon[n].job # j
    <3>1. /\ Working(n) /\ InArchive(n) /\ mon[n].job \in Jobs
      BY <2>1 DEF IInv, ClaimInv, Remembered, Working, InArchive, Idle, TypeOK, Monitor
    <3>2. Holds(n) /\ Linkable(n) /\ mon[n].job # j
      BY <1>3, <1>10, <2>1, <3>1 DEF IInv, ChosenInv
    <3>3. mon[n].seen.video # v
      BY <1>3, <2>1, <3>1 DEF IInv, LockInv
    <3>4. QED
      BY <1>4, <1>7, <2>1, <3>1, <3>2, <3>3 DEF Linkable
  <2>2. QED
    BY <1>4, <2>1, IdleType DEF IInv, ChosenInv
<1>14. QED
  BY <1>5, <1>6, <1>9, <1>11, <1>12, <1>13 DEF IInv

LEMMA ChecksStep == ASSUME IInv, NEW m \in Monitors, Checks(m) PROVE IInv'
BY PersistStep DEF Checks

-----------------------------------------------------------------------------
(* Invariance *)

\* What a check of a monitor does, besides aborting: it updates the row, goes
\* on inside its transaction, commits a link, or finds that its claim is lost.
LEMMA CheckCases ==
  ASSUME IInv, NEW m \in Monitors, Check(m)
  PROVE  \/ Checks(m)
         \/ \E seen \in Over : ObserveStream(m, seen)
         \/ EnsureJob(m)
         \/ \E r \in Reservations, j \in Jobs : Links(m, r, j)
         \/ LeaseLost(m)
<1>1. ASSUME NEW seen \in Observations \ Over, ApplyMetadata(m, seen) PROVE Checks(m)
  BY <1>1, ApplyMetadataChecks
<1>2. ASSUME NEW error \in FetchErrors, RecordFailure(m, error) PROVE Checks(m)
  BY <1>2, RecordFailureChecks
<1>3. CASE SyncCollection(m)
  BY <1>3, SyncCollectionChecks
<1>4. CASE CommitMetadata(m)
  BY <1>4, CommitWaitChecks, CommitLinks
<1>5. QED
  BY <1>1, <1>2, <1>3, <1>4 DEF Check

LEMMA NextIInv == IInv /\ [Next]_vars => IInv'
<1> SUFFICES ASSUME IInv, [Next]_vars PROVE IInv'
  OBVIOUS
<1>1. CASE Api
  <2>1. ASSUME NEW r \in Reservations, NEW v \in Videos, Create(r, v) PROVE IInv'
    BY <2>1, CreateStep
  <2>2. ASSUME NEW r \in Reservations, Cancel(r) PROVE IInv'
    BY <2>2, CancelStep
  <2>3. ASSUME NEW c \in Clients, NEW v \in Videos, RequestLock(c, v) PROVE IInv'
    BY <2>3, RequestLockStep
  <2>4. ASSUME NEW c \in Clients, RequestInsert(c) PROVE IInv'
    BY <2>4, RequestInsertStep
  <2>5. ASSUME NEW c \in Clients, RequestAborts(c) PROVE IInv'
    BY <2>5, RequestAbortsStep
  <2>6. QED
    BY <1>1, <2>1, <2>2, <2>3, <2>4, <2>5 DEF Api
<1>2. ASSUME NEW j \in Jobs, NEW outcome \in Outcomes, JobEnds(j, outcome) PROVE IInv'
  BY <1>2, JobEndsStep
<1>3. ASSUME NEW r \in Reservations, LeaseExpires(r) PROVE IInv'
  BY <1>3, LeaseExpiresStep
<1>4. ASSUME NEW m \in Monitors, NEW r \in Reservations, ClaimDue(m, r) PROVE IInv'
  BY <1>4, ClaimDueStep
<1>5. ASSUME NEW m \in Monitors, Check(m) PROVE IInv'
  <2>1. CASE LeaseLost(m)
    BY <2>1, MonitorStopsStep DEF LeaseLost
  <2>2. CASE ~LeaseLost(m)
    BY <1>5, <2>2, CheckCases, ChecksStep, ObserveStreamStep, EnsureJobStep, LinkStep
  <2>3. QED
    BY <2>1, <2>2
<1>6. ASSUME NEW m \in Monitors, Abort(m) PROVE IInv'
  BY <1>6, MonitorStopsStep DEF Abort
<1>7. CASE UNCHANGED vars
  BY <1>7 DEF vars, IInv, TypeOK, RowInv, ConstraintsHold, Open, JobInv, LinkedBothWays,
     OneActiveJobPerStream, ActiveJobs, ClaimInv, Remembered, Working, ClaimStands, Holds,
     LockInv, InArchive, ChosenInv, Linkable, TrailIsHistory
<1>8. QED
  BY <1>1, <1>2, <1>3, <1>4, <1>5, <1>6, <1>7 DEF Next

LEMMA Invariance == Spec => []IInv
BY InitIInv, NextIInv, PTL DEF Spec

\* Whoever writes them, the rows of reservations and jobs are of their types,
\* obey the CHECKs, and never give a stream two active jobs.
THEOREM RowsAreAllowed == Spec => []ReservationInv
<1>1. IInv => ReservationInv
  BY DEF IInv, RowInv, JobInv, ReservationInv
<1>2. QED
  BY <1>1, Invariance, PTL

\* The transitions that are recorded are the history of the row, although they
\* are recorded with the state that a monitor saw when it claimed.
THEOREM TrailIsComplete == Spec => []TrailIsHistory
<1>1. IInv => TrailIsHistory
  BY DEF IInv
<1>2. QED
  BY <1>1, Invariance, PTL

\* A job that stands in the way of a link is linked to nobody: one of another
\* reservation would be of a reservation of the same broadcast that is open,
\* and the unique index allows one, or completed, and then the job is over.
LEMMA NobodyInTheWay == IInv => LinkNeverRefused
<1> SUFFICES ASSUME IInv, NEW m \in Monitors, mon[m].pc = "linking", Holds(m),
                    NEW j \in ActiveJobs(mon[m].seen.video), jobs[j].reservation # NULL
             PROVE  FALSE
  BY DEF LinkNeverRefused
<1>1. /\ mon[m].rsv \in Reservations
      /\ rsv[mon[m].rsv].state = "waiting_for_archive"
      /\ rsv[mon[m].rsv].video = mon[m].seen.video
  BY SeenRow DEF IInv, ClaimInv, Remembered, Working
<1>2. PICK r \in Reservations : r = jobs[j].reservation
  BY DEF IInv, TypeOK, Job, ActiveJobs
<1>3. rsv[r].job = j /\ j # NULL
  BY <1>2, NullAssumption DEF IInv, JobInv, LinkedBothWays, ActiveJobs, NullAssumption
<1>4. rsv[r].state \in {"collecting", "completed"}
  <2>1. rsv[r].state \in State /\ RowConstraints(rsv[r])
    BY DEF IInv, TypeOK, Row, RowInv, ConstraintsHold
  <2>2. QED
    BY <1>3, <2>1 DEF State, Monitored, CanCancel, Terminal, RowConstraints, IInv, RowInv
<1>5. rsv[r].video = rsv[mon[m].rsv].video
  BY <1>1, <1>3 DEF IInv, JobInv, ActiveJobs
<1>6. rsv[r].state # "completed"
  BY <1>3 DEF IInv, JobInv, ActiveJobs
<1>7. Open(r) /\ Open(mon[m].rsv)
  BY <1>1, <1>4, <1>6 DEF Open, Terminal
<1>8. QED
  BY <1>1, <1>4, <1>5, <1>6, <1>7 DEF IInv, RowInv

\* A reservation and its job stay linked to each other, and a monitor whose
\* claim stands is never refused the link.
THEOREM LinksHold == Spec => []LinkInv
<1>1. IInv => LinkInv
  BY NobodyInTheWay DEF IInv, JobInv, LinkInv
<1>2. QED
  BY <1>1, Invariance, PTL

-----------------------------------------------------------------------------
(* The reservations implement ReservationLifecycle. *)

phase == [r \in Reservations |-> rsv[r].state]
linked == [r \in Reservations |-> rsv[r].job]
succeeded == {j \in Jobs : jobs[j].status = "succeeded"}

LEMMA RowIsMapped ==
  ASSUME TypeOK, NEW r \in Reservations, NEW row, NEW state, NEW job,
         rsv' = [rsv EXCEPT ![r] = row], row.state = state, row.job = job
  PROVE  /\ phase' = [phase EXCEPT ![r] = state]
         /\ linked' = [linked EXCEPT ![r] = job]
         /\ state = rsv[r].state => UNCHANGED phase
         /\ job = rsv[r].job => UNCHANGED linked
BY DEF TypeOK, phase, linked

LEMMA LifecycleInit == Init => Lifecycle!Init
BY DEF Init, Lifecycle!Init, AbsentRow, AbsentJob

LEMMA LifecycleStep ==
  ASSUME IInv, [Next]_vars
  PROVE  [Lifecycle!Next]_<<phase, linked, succeeded>>
<1>1. CASE UNCHANGED <<rsv, jobs>>
  BY <1>1 DEF phase, linked, succeeded
<1>2. ASSUME NEW r \in Reservations, NEW v \in Videos, Create(r, v)
      PROVE  Lifecycle!Create(r)
  <2>1. rsv[r].state = "absent" /\ rsv[r].job = NULL /\ UNCHANGED jobs
    BY <1>2 DEF Create, IInv, RowInv
  <2>2. PICK row : row.state = "scheduled" /\ row.job = NULL /\ rsv' = [rsv EXCEPT ![r] = row]
    BY <1>2 DEF Create, AbsentRow
  <2>3. /\ phase[r] = "absent" /\ phase' = [phase EXCEPT ![r] = "scheduled"]
        /\ UNCHANGED linked
    <3>1. phase[r] = rsv[r].state
      BY DEF phase
    <3>2. QED
      BY <2>1, <2>2, <3>1, RowIsMapped DEF IInv
  <2>4. UNCHANGED succeeded
    BY <2>1 DEF succeeded
  <2>5. QED
    BY <2>3, <2>4 DEF Lifecycle!Create, phase, linked, succeeded
<1>3. ASSUME NEW r \in Reservations, Cancel(r)
      PROVE  Lifecycle!Stop(r)
  <2>1. PICK row : /\ row.state = "canceled" /\ row.job = rsv[r].job
                   /\ rsv' = [rsv EXCEPT ![r] = row]
    <3>1. rsv[r] \in Row
      BY DEF IInv, TypeOK
    <3>2. rsv' = [rsv EXCEPT ![r] = [Released(r, rsv[r]) EXCEPT !.state = "canceled"]]
      BY <1>3 DEF Cancel, IInv, TypeOK
    <3>3. QED
      BY <3>1, <3>2, ReleasedRow DEF IInv, Row
  <2>2. rsv[r].state \in CanCancel /\ UNCHANGED jobs
    BY <1>3 DEF Cancel
  <2>3. /\ phase[r] \in CanCancel /\ phase' = [phase EXCEPT ![r] = "canceled"]
        /\ UNCHANGED linked
    <3>1. phase[r] = rsv[r].state
      BY DEF phase
    <3>2. QED
      BY <2>1, <2>2, <3>1, RowIsMapped DEF IInv
  <2>4. UNCHANGED succeeded
    BY <2>2 DEF succeeded
  <2>5. QED
    BY <2>3, <2>4 DEF Lifecycle!Stop, Lifecycle!Watching, CanCancel, phase, linked, succeeded
<1>4. ASSUME NEW j \in Jobs, NEW outcome \in Outcomes, JobEnds(j, outcome)
      PROVE  Lifecycle!JobSucceeds(j) \/ UNCHANGED <<phase, linked, succeeded>>
  <2>1. /\ UNCHANGED rsv /\ jobs[j].status = "active"
        /\ jobs'[j].status = outcome /\ \A k \in Jobs : k # j => jobs'[k] = jobs[k]
    BY <1>4 DEF JobEnds, IInv, TypeOK, Job
  <2>2. outcome = "succeeded" => succeeded' = succeeded \union {j}
    BY <2>1 DEF succeeded
  <2>3. outcome # "succeeded" => UNCHANGED succeeded
    BY <2>1 DEF succeeded
  <2>4. QED
    BY <2>1, <2>2, <2>3 DEF Lifecycle!JobSucceeds, phase, linked, succeeded
<1>5. ASSUME NEW c \in Clients, RequestInsert(c)
      PROVE  UNCHANGED <<phase, linked, succeeded>>
  <2>1. PICK j \in UnusedJobs :
          \E job : job.status = "active" /\ jobs' = [jobs EXCEPT ![j] = job]
    BY <1>5 DEF RequestInsert
  <2>2. UNCHANGED succeeded /\ UNCHANGED rsv
    BY <1>5, <2>1 DEF RequestInsert, UnusedJobs, succeeded, IInv, TypeOK
  <2>3. QED
    BY <2>2 DEF phase, linked
<1>6. ASSUME NEW r \in Reservations, NEW row,
             rsv' = [rsv EXCEPT ![r] = row], UNCHANGED jobs,
             row.state = rsv[r].state, row.job = rsv[r].job
      PROVE  UNCHANGED <<phase, linked, succeeded>>
  BY <1>6, RowIsMapped DEF IInv, succeeded
<1>7. ASSUME NEW r \in Reservations, LeaseExpires(r)
      PROVE  UNCHANGED <<phase, linked, succeeded>>
  <2> DEFINE row == [rsv[r] EXCEPT !.lease = "expired"]
  <2>1. row.state = rsv[r].state /\ row.job = rsv[r].job
    BY DEF IInv, TypeOK, Row
  <2>2. QED
    BY <1>6, <1>7, <2>1 DEF LeaseExpires, IInv, TypeOK
<1>8. ASSUME NEW m \in Monitors, NEW r \in Reservations, ClaimDue(m, r)
      PROVE  UNCHANGED <<phase, linked, succeeded>>
  <2> DEFINE row == [rsv[r] EXCEPT !.lease = "live", !.revision = NextRevision(r)]
  <2>1. row.state = rsv[r].state /\ row.job = rsv[r].job
    BY DEF IInv, TypeOK, Row
  <2>2. QED
    BY <1>6, <1>8, <2>1 DEF ClaimDue
<1>9. ASSUME NEW m \in Monitors, Checks(m)
      PROVE  \/ UNCHANGED <<phase, linked, succeeded>>
             \/ \E r \in Reservations :
                  Lifecycle!Follow(r) \/ Lifecycle!Stop(r) \/ Lifecycle!Complete(r)
  <2>1. PICK r \in Reservations : r = mon[m].rsv
    BY <1>9, SeenRow DEF Checks
  <2>2. PICK row \in Row :
          /\ Persist(m, row)
          /\ Legal(r, [row EXCEPT !.lease = "none"])
          /\ Advances(rsv[r].state, row.state)
          /\ row.job = rsv[r].job
          /\ UNCHANGED jobs
    BY <1>9, <2>1 DEF Checks
  <2>3. PICK new : /\ new.state = row.state /\ new.job = row.job
                   /\ rsv' = [rsv EXCEPT ![r] = new]
    BY <2>1, <2>2, ReleasedRow DEF Persist, IInv
  <2>4. /\ phase' = [phase EXCEPT ![r] = row.state]
        /\ UNCHANGED <<linked, succeeded>>
        /\ row.state = rsv[r].state => UNCHANGED phase
        /\ phase[r] = rsv[r].state
    <3>1. phase[r] = rsv[r].state
      BY DEF phase
    <3>2. UNCHANGED succeeded
      BY <2>2 DEF succeeded
    <3>3. new.state = row.state /\ new.job = rsv[r].job
      BY <2>2, <2>3
    <3>4. phase' = [phase EXCEPT ![r] = row.state]
      BY <2>3, <3>3 DEF IInv, TypeOK, phase
    <3>5. UNCHANGED linked
      BY <2>3, <3>3, RowIsMapped DEF IInv
    <3>6. row.state = rsv[r].state => UNCHANGED phase
      BY <2>3, <3>3, RowIsMapped DEF IInv
    <3>7. QED
      BY <3>1, <3>2, <3>4, <3>5, <3>6
  <2>5. CASE <<rsv[r].state, row.state>> \in Lifecycle!Forward
    <3>1. row.state \in {pair[2] : pair \in {p \in Lifecycle!Forward : p[1] = phase[r]}}
      BY <2>4, <2>5
    <3>2. Lifecycle!Follow(r)
      BY <2>4, <3>1 DEF Lifecycle!Follow, phase, linked, succeeded
    <3>3. QED
      BY <3>2
  <2>6. CASE rsv[r].state \in CanCancel /\ row.state = "failed"
    <3>1. Lifecycle!Stop(r)
      BY <2>4, <2>6 DEF Lifecycle!Stop, Lifecycle!Watching, CanCancel, phase, linked,
                        succeeded
    <3>2. QED
      BY <3>1
  <2>7. CASE rsv[r].state = "collecting" /\ row.state = "completed"
    <3>1. rsv[r].job \in succeeded
      <4>1. jobs[rsv[r].job].status = "succeeded"
        BY <2>2, <2>7 DEF Legal, Row
      <4>2. rsv[r].job \in Jobs
        BY <2>7 DEF IInv, TypeOK, Row, RowInv, ConstraintsHold, RowConstraints
      <4>3. QED
        BY <4>1, <4>2 DEF succeeded
    <3>2. Lifecycle!Complete(r)
      BY <2>4, <2>7, <3>1 DEF Lifecycle!Complete, phase, linked, succeeded
    <3>3. QED
      BY <3>2
  <2>8. QED
    BY <2>2, <2>4, <2>5, <2>6, <2>7 DEF Advances
<1>10. ASSUME NEW m \in Monitors, NEW r \in Reservations, NEW j \in Jobs, Links(m, r, j)
       PROVE  Lifecycle!Collect(r, j)
  <2>1. PICK row \in Row :
          /\ rsv' = [rsv EXCEPT ![r] = row] /\ row.state = "collecting" /\ row.job = j
    BY <1>10 DEF Links, Updates
  <2>2. /\ rsv[r].state = "waiting_for_archive"
        /\ \A s \in Reservations : rsv[s].job # j
        /\ jobs[j].status # "succeeded"
    BY <1>10 DEF Links
  <2>3. UNCHANGED succeeded
    <3>1. PICK job : job.status = "active" /\ jobs' = [jobs EXCEPT ![j] = job]
      BY <1>10 DEF Links
    <3>2. QED
      BY <2>2, <3>1 DEF succeeded, IInv, TypeOK
  <2>4. /\ phase[r] = "waiting_for_archive" /\ phase' = [phase EXCEPT ![r] = "collecting"]
        /\ \A s \in Reservations : linked[s] # j
        /\ linked' = [linked EXCEPT ![r] = j]
    <3>1. phase[r] = rsv[r].state /\ \A s \in Reservations : linked[s] = rsv[s].job
      BY DEF phase, linked
    <3>2. phase' = [phase EXCEPT ![r] = "collecting"]
      BY <2>1, RowIsMapped DEF IInv
    <3>3. linked' = [linked EXCEPT ![r] = j]
      BY <2>1 DEF IInv, TypeOK, linked
    <3>4. QED
      BY <2>2, <3>1, <3>2, <3>3
  <2>5. QED
    BY <2>3, <2>4 DEF Lifecycle!Collect, phase, linked, succeeded
<1>11. QED
  <2>1. CASE Api
    BY <1>1, <1>2, <1>3, <1>5, <2>1 DEF Api, RequestLock, RequestAborts, Lifecycle!Next
  <2>2. ASSUME NEW m \in Monitors, Check(m)
        PROVE  [Lifecycle!Next]_<<phase, linked, succeeded>>
    <3>1. CASE Checks(m)
      BY <1>9, <3>1 DEF Lifecycle!Next
    <3>2. CASE \E r \in Reservations, j \in Jobs : Links(m, r, j)
      BY <1>10, <3>2 DEF Lifecycle!Next
    <3>3. QED
      BY <1>1, <2>2, <3>1, <3>2, CheckCases DEF ObserveStream, EnsureJob, LeaseLost
  <2>3. ASSUME NEW m \in Monitors, Abort(m) PROVE UNCHANGED <<rsv, jobs>>
    BY <2>3 DEF Abort
  <2>4. QED
    BY <1>1, <1>4, <1>7, <1>8, <2>1, <2>2, <2>3 DEF Next, vars, Lifecycle!Next

\* Every step of the API, the monitors and the workers is one that the
\* lifecycle of ADR 0004 allows, or invisible to it.
THEOREM ReservationsImplementLifecycle == Spec => ImplementsLifecycle
BY LifecycleInit, LifecycleStep, Invariance, PTL
   DEF Spec, ImplementsLifecycle, Lifecycle!Spec, Lifecycle!vars, phase, linked, succeeded

-----------------------------------------------------------------------------
(* The schedule of the checks (ReservationSchedule): an abstraction of its    *)
(* own, with times instead of monitors.                                     *)

\* Minutes until a row may be claimed.
Longer(a, b) == IF a >= b THEN a ELSE b
Wait(r) == Longer(Longer(schedule[r].next, schedule[r].lease), 0)

\* The longest wait after a check that succeeds.
AllowanceOf(state, start) ==
  CASE state = "scheduled" ->
         IF start = NULL THEN 15 ELSE IF start <= 16 THEN 1
         ELSE IF start < 30 THEN start - 15 ELSE 15
    [] state = "monitoring" -> 1
    [] state = "live" -> 2
    [] OTHER -> 30

Allowance(r) == AllowanceOf(schedule[r].state, broadcast[r].start)

\* What a row has been behind, and what it will be until its next check, is
\* within the interval of the schedule, but for the faults so far.
Punctual(r) ==
  schedule[r].state \in Schedule!Waiting =>
    /\ ~Schedule!Behind(r) => lag[r] = 0
    /\ lag[r] + Wait(r) <= Allowance(r) + 8 * faults

PunctualInv ==
  /\ Schedule!TypeOK
  /\ \A r \in Reservations \ Refused : Punctual(r)

LEMMA PhaseNumbers ==
  /\ \A b : /\ Schedule!Before(b, "live") <=> b.phase < 2
            /\ Schedule!Before(b, "over") <=> b.phase < 3
            /\ Schedule!Before(b, "archived") <=> b.phase < 4
  /\ \A i \in 1 .. 4 : /\ Schedule!Phases[i] = "live" <=> i = 2
                       /\ Schedule!Phases[i] = "over" <=> i = 3
                       /\ Schedule!Phases[i] = "archived" <=> i = 4
<1>1. /\ Schedule!Phases[1] = "announced" /\ Schedule!Phases[2] = "live"
      /\ Schedule!Phases[3] = "over" /\ Schedule!Phases[4] = "archived"
  BY SMT DEF Schedule!Phases
<1>2. \A i \in 1 .. 4 : i = 1 \/ i = 2 \/ i = 3 \/ i = 4
  BY SMT
<1>3. /\ (CHOOSE i \in 1 .. 4 : Schedule!Phases[i] = "live") = 2
      /\ (CHOOSE i \in 1 .. 4 : Schedule!Phases[i] = "over") = 3
      /\ (CHOOSE i \in 1 .. 4 : Schedule!Phases[i] = "archived") = 4
  <2>1. 2 \in 1 .. 4 /\ 3 \in 1 .. 4 /\ 4 \in 1 .. 4
    BY SMT
  <2> QED
    BY <1>1, <1>2, <2>1
<1>4. \A i \in 1 .. 4 : /\ Schedule!Phases[i] = "live" <=> i = 2
                        /\ Schedule!Phases[i] = "over" <=> i = 3
                        /\ Schedule!Phases[i] = "archived" <=> i = 4
  BY <1>1, <1>2
<1> QED
  BY <1>3, <1>4 DEF Schedule!Before

LEMMA ScheduleFields ==
  ASSUME Schedule!TypeOK, NEW r \in Reservations
  PROVE  /\ schedule[r] \in Schedule!Row
         /\ schedule[r].state \in
              Schedule!Waiting \union {"collecting", "completed", "failed"}
         /\ schedule[r].next \in -MaxOverdue .. 30 /\ schedule[r].lease \in 0 .. 2
         /\ schedule[r].attempts \in 0 .. 5
         /\ broadcast[r] \in Schedule!Broadcast /\ broadcast[r].phase \in 1 .. 4
         /\ broadcast[r].start \in Nat \union {NULL}
         /\ lag[r] \in 0 .. 31 + 8 * MaxFaults
         /\ faults \in 0 .. MaxFaults
<1>1. /\ schedule[r] \in Schedule!Row /\ broadcast[r] \in Schedule!Broadcast
      /\ lag[r] \in 0 .. 31 + 8 * MaxFaults /\ faults \in 0 .. MaxFaults
  BY DEF Schedule!TypeOK, Schedule!MaxLag
<1> QED
  BY <1>1 DEF Schedule!Row, Schedule!Broadcast

LEMMA BackoffIsBounded ==
  ASSUME NEW attempt \in 1 .. 5, NEW initial \in 1 .. 2
  PROVE  /\ Schedule!Backoff(attempt, initial, 30) \in 1 .. 30
         /\ initial = 1 /\ attempt < 5 => Schedule!Backoff(attempt, initial, 30) <= 8
<1> DEFINE table == <<1, 2, 4, 8, 16>>
<1>1. /\ table[1] = 1 /\ table[2] = 2 /\ table[3] = 4 /\ table[4] = 8
      /\ table[5] = 16
  BY SMT
<1>2. Schedule!Backoff(attempt, initial, 30) =
        IF initial * table[attempt] < 30 THEN initial * table[attempt] ELSE 30
  BY DEF Schedule!Backoff
<1> HIDE DEF table
<1>3. attempt = 1 \/ attempt = 2 \/ attempt = 3 \/ attempt = 4 \/ attempt = 5
  BY SMT
<1> QED
  BY <1>1, <1>2, <1>3, SMT

LEMMA AttemptIsBounded ==
  ASSUME Schedule!TypeOK, NEW r \in Reservations
  PROVE  Schedule!Attempt(r) \in 1 .. 5
  BY ScheduleFields, SMT DEF Schedule!Attempt, Schedule!LastAttempt

LEMMA AllowanceCases ==
  ASSUME NEW state \in Schedule!Waiting, NEW start \in Nat \union {NULL}
  PROVE  /\ state = "scheduled" /\ start = NULL => AllowanceOf(state, start) = 15
         /\ state = "scheduled" /\ start # NULL =>
              AllowanceOf(state, start) =
                IF start <= 16 THEN 1 ELSE IF start < 30 THEN start - 15 ELSE 15
         /\ state = "monitoring" => AllowanceOf(state, start) = 1
         /\ state = "live" => AllowanceOf(state, start) = 2
         /\ state = "waiting_for_archive" => AllowanceOf(state, start) = 30
         /\ AllowanceOf(state, start) \in 1 .. 30
<1>1. /\ state = "scheduled" => AllowanceOf(state, start) =
           IF start = NULL THEN 15 ELSE IF start <= 16 THEN 1
           ELSE IF start < 30 THEN start - 15 ELSE 15
      /\ state = "monitoring" => AllowanceOf(state, start) = 1
      /\ state = "live" => AllowanceOf(state, start) = 2
      /\ state = "waiting_for_archive" => AllowanceOf(state, start) = 30
  BY DEF AllowanceOf
<1>2. state \in {"scheduled", "monitoring", "live", "waiting_for_archive"}
  BY DEF Schedule!Waiting
<1>3. AllowanceOf(state, start) \in 1 .. 30
  BY <1>1, <1>2, SMT
<1> QED
  BY <1>1, <1>3

LEMMA ScheduleNumbers ==
  ASSUME Schedule!TypeOK, NEW r \in Reservations
  PROVE  /\ schedule[r].state \in Schedule!Waiting => Allowance(r) \in 1 .. 30
         /\ Wait(r) \in Nat /\ lag[r] \in Nat /\ faults \in Nat
<1>1. schedule[r].state \in Schedule!Waiting => Allowance(r) \in 1 .. 30
  BY ScheduleFields, AllowanceCases DEF Allowance
<1>2. schedule[r].next \in Int /\ schedule[r].lease \in Int
  BY ScheduleFields, SMT
<1>3. Wait(r) \in Nat
  BY <1>2, SMT DEF Wait, Longer
<1>4. lag[r] \in Nat /\ faults \in Nat
  <2>1. lag[r] \in 0 .. 31 + 8 * MaxFaults /\ faults \in 0 .. MaxFaults
    BY ScheduleFields
  <2> QED
    BY <2>1, SMT
<1> QED
  BY <1>1, <1>3, <1>4

LEMMA NextCheckIsAllowed ==
  ASSUME NEW state \in Schedule!Waiting \union {"collecting"},
         NEW start \in Nat \union {NULL}, NEW attempt \in 1 .. 5
  PROVE  /\ Schedule!NextCheck(state, start, attempt) \in 1 .. 30
         /\ state \in Schedule!Waiting =>
              Schedule!NextCheck(state, start, attempt) <= AllowanceOf(state, start)
<1> DEFINE next == Schedule!NextCheck(state, start, attempt)
<1>1. state \in {"scheduled", "monitoring", "live", "waiting_for_archive", "collecting"}
  BY DEF Schedule!Waiting
<1>2. CASE state = "scheduled"
  <2>1. next = IF start # NULL /\ start <= 15 THEN 1
               ELSE IF start # NULL /\ start - 15 < 15 THEN start - 15
               ELSE 15
    BY <1>2 DEF Schedule!NextCheck
  <2>2. state \in Schedule!Waiting
    BY <1>2 DEF Schedule!Waiting
  <2> HIDE DEF next
  <2>3. CASE start = NULL
    BY <1>2, <2>1, <2>2, <2>3, AllowanceCases, SMT DEF next
  <2>4. CASE start # NULL
    <3>1. AllowanceOf(state, start) =
            IF start <= 16 THEN 1 ELSE IF start < 30 THEN start - 15 ELSE 15
      BY <1>2, <2>2, <2>4, AllowanceCases
    <3> QED
      BY <2>1, <2>4, <3>1, SMT DEF next
  <2> QED
    BY <2>3, <2>4
<1>3. CASE state = "monitoring"
  <2>1. next = 1 /\ state \in Schedule!Waiting
    BY <1>3 DEF Schedule!NextCheck, Schedule!Waiting
  <2> QED
    BY <1>3, <2>1, AllowanceCases, SMT
<1>4. CASE state = "live"
  <2>1. next = 2 /\ state \in Schedule!Waiting
    BY <1>4 DEF Schedule!NextCheck, Schedule!Waiting
  <2> QED
    BY <1>4, <2>1, AllowanceCases, SMT
<1>5. CASE state = "waiting_for_archive"
  <2>1. next = Schedule!Backoff(attempt, 2, 30) /\ state \in Schedule!Waiting
    BY <1>5 DEF Schedule!NextCheck, Schedule!Waiting
  <2>2. next \in 1 .. 30
    <3>1. 2 \in 1 .. 2
      BY SMT
    <3> QED
      BY <2>1, <3>1, BackoffIsBounded
  <2> HIDE DEF next
  <2> QED
    BY <1>5, <2>1, <2>2, AllowanceCases, SMT DEF next
<1>6. CASE state = "collecting"
  <2>1. next = 1 /\ state \notin Schedule!Waiting
    BY <1>6 DEF Schedule!NextCheck, Schedule!Waiting
  <2> QED
    BY <2>1, SMT
<1> QED
  BY <1>1, <1>2, <1>3, <1>4, <1>5, <1>6

LEMMA ScheduleInit ==
  ASSUME Schedule!Init
  PROVE  PunctualInv
<1>1. Schedule!TypeOK
  <2>1. schedule \in [Reservations -> Schedule!Row]
    <3>1. [state |-> "scheduled", next |-> 0, lease |-> 0, attempts |-> 0]
            \in Schedule!Row
      BY BoundsAssumption, SMT DEF Schedule!Row, Schedule!Waiting
    <3> QED
      BY <3>1 DEF Schedule!Init
  <2>2. broadcast \in [Reservations -> Schedule!Broadcast]
    <3>1. [phase : {1, 3}, start : Starts] \subseteq Schedule!Broadcast
      BY StartsAssumption, SMT DEF Schedule!Broadcast
    <3> QED
      BY <3>1 DEF Schedule!Init
  <2>3. lag \in [Reservations -> 0 .. Schedule!MaxLag] /\ faults \in 0 .. MaxFaults
    BY BoundsAssumption, SMT DEF Schedule!Init, Schedule!MaxLag
  <2> QED
    BY <2>1, <2>2, <2>3 DEF Schedule!TypeOK
<1>2. ASSUME NEW r \in Reservations \ Refused PROVE Punctual(r)
  <2>1. /\ schedule[r].state = "scheduled" /\ schedule[r].next = 0
        /\ schedule[r].lease = 0 /\ lag[r] = 0 /\ faults = 0
    BY DEF Schedule!Init
  <2>2. Wait(r) = 0
    BY <2>1, SMT DEF Wait, Longer
  <2>3. Allowance(r) \in 1 .. 30
    BY <1>1, <2>1, ScheduleFields, AllowanceCases DEF Allowance, Schedule!Waiting
  <2> QED
    BY <2>1, <2>2, <2>3, SMT DEF Punctual
<1> QED
  BY <1>1, <1>2 DEF PunctualInv

\* A row that nothing happens to, however many faults others have.
LEMMA OthersStayPunctual ==
  ASSUME Schedule!TypeOK, NEW r \in Reservations, Punctual(r),
         faults' \in Nat, faults' >= faults,
         schedule'[r] = schedule[r], broadcast'[r] = broadcast[r], lag'[r] = lag[r]
  PROVE  Punctual(r)'
<1>1. /\ Schedule!Behind(r)' = Schedule!Behind(r)
      /\ Wait(r)' = Wait(r) /\ Allowance(r)' = Allowance(r)
  BY PhaseNumbers DEF Schedule!Behind, Wait, Allowance
<1>2. /\ schedule[r].state \in Schedule!Waiting => Allowance(r) \in 1 .. 30
      /\ Wait(r) \in Nat /\ lag[r] \in Nat /\ faults \in Nat
  BY ScheduleNumbers
<1>3. CASE schedule[r].state \in Schedule!Waiting
  <2>1. Allowance(r) \in Int
    BY <1>2, <1>3
  <2>2. lag[r] + Wait(r) <= Allowance(r) + 8 * faults'
    BY <1>2, <1>3, <2>1, SMT DEF Punctual
  <2> QED
    BY <1>1, <1>3, <2>2 DEF Punctual
<1> QED
  BY <1>3 DEF Punctual

\* The types after a check of r, and what remains to be shown of r itself.
LEMMA CheckStep ==
  ASSUME PunctualInv, NEW r \in Reservations,
         NEW new \in Schedule!Row, schedule' = [schedule EXCEPT ![r] = new],
         lag' = lag \/ lag' = [lag EXCEPT ![r] = 0],
         faults' \in 0 .. MaxFaults, faults' >= faults, broadcast' = broadcast,
         r \notin Refused => Punctual(r)'
  PROVE  PunctualInv'
<1>1. Schedule!TypeOK /\ MaxFaults \in Nat
  BY BoundsAssumption DEF PunctualInv
<1>2. Schedule!TypeOK'
  <2>1. schedule' \in [Reservations -> Schedule!Row]
    BY <1>1 DEF Schedule!TypeOK
  <2>2. lag' \in [Reservations -> 0 .. Schedule!MaxLag]
    <3>1. 0 \in 0 .. Schedule!MaxLag
      BY <1>1, SMT DEF Schedule!MaxLag
    <3> QED
      BY <1>1, <3>1 DEF Schedule!TypeOK
  <2> QED
    BY <1>1, <2>1, <2>2 DEF Schedule!TypeOK
<1>3. ASSUME NEW q \in Reservations \ Refused, q # r PROVE Punctual(q)'
  <2>1. schedule'[q] = schedule[q] /\ lag'[q] = lag[q]
    BY <1>1, <1>3 DEF Schedule!TypeOK
  <2>2. Punctual(q) /\ faults' \in Nat
    BY <1>1, <1>3, SMT DEF PunctualInv
  <2> QED
    BY <1>1, <2>1, <2>2, OthersStayPunctual
<1> QED
  BY <1>2, <1>3 DEF PunctualInv

LEMMA TargetOfObservation ==
  ASSUME NEW state \in Schedule!Waiting, NEW b, b.phase \in 1 .. 4
  PROVE  /\ Schedule!Target(state, b) \in Schedule!Waiting \union {"collecting"}
         /\ b.phase >= 2 /\ state \in {"scheduled", "monitoring"}
              => Schedule!Target(state, b) # state
         /\ b.phase >= 3 /\ state = "live" => Schedule!Target(state, b) # state
         /\ b.phase = 4 /\ state = "waiting_for_archive"
              => Schedule!Target(state, b) # state
<1> DEFINE target == Schedule!Target(state, b)
           p == b.phase
<1>1. target =
        CASE p < 2 /\ b.start = NULL /\ state = "scheduled" -> "monitoring"
          [] p = 2 /\ state \in {"scheduled", "monitoring"} -> "live"
          [] ~(p < 3) /\ state \in {"scheduled", "monitoring", "live"}
               -> "waiting_for_archive"
          [] p = 4 /\ state = "waiting_for_archive" -> "collecting"
          [] OTHER -> state
  BY PhaseNumbers DEF Schedule!Target
<1>2. state \in {"scheduled", "monitoring", "live", "waiting_for_archive"}
  BY DEF Schedule!Waiting
<1>3. p = 1 \/ p = 2 \/ p = 3 \/ p = 4
  BY SMT
<1> HIDE DEF target, p
<1>4. CASE state \in {"scheduled", "monitoring"}
  <2>1. CASE p = 1
    BY <1>1, <1>4, <2>1, SMT DEF Schedule!Waiting, target, p
  <2>2. CASE p = 2
    BY <1>1, <1>4, <2>2, SMT DEF Schedule!Waiting, target, p
  <2>3. CASE p = 3 \/ p = 4
    BY <1>1, <1>4, <2>3, SMT DEF Schedule!Waiting, target, p
  <2> QED
    BY <1>3, <2>1, <2>2, <2>3
<1>5. CASE state = "live"
  BY <1>1, <1>3, <1>5, SMT DEF Schedule!Waiting, target, p
<1>6. CASE state = "waiting_for_archive"
  BY <1>1, <1>3, <1>6, SMT DEF Schedule!Waiting, target, p
<1> QED
  BY <1>2, <1>4, <1>5, <1>6

\* A successful check shows what there was to notice.
LEMMA AppliesStep ==
  ASSUME PunctualInv, NEW r \in Reservations,
         Schedule!Applies(r)
  PROVE  PunctualInv'
<1> DEFINE target == Schedule!Target(schedule[r].state, broadcast[r])
           next == Schedule!NextCheck(target, broadcast[r].start, Schedule!Attempt(r))
           new == [state |-> target, next |-> next,
                   lease |-> 0, attempts |-> Schedule!Attempt(r)]
<1>1. /\ Schedule!TypeOK /\ schedule[r].state \in Schedule!Waiting
      /\ schedule' = [schedule EXCEPT ![r] = new]
      /\ lag' = IF target = schedule[r].state THEN lag ELSE [lag EXCEPT ![r] = 0]
      /\ broadcast' = broadcast /\ faults' = faults
  BY DEF PunctualInv, Schedule!Applies
<1>2. target \in Schedule!Waiting \union {"collecting"}
  BY <1>1, ScheduleFields, TargetOfObservation
<1>3. /\ next \in 1 .. 30
      /\ target \in Schedule!Waiting => next <= AllowanceOf(target, broadcast[r].start)
  BY <1>1, <1>2, ScheduleFields, AttemptIsBounded, NextCheckIsAllowed
<1>4. Schedule!Behind(r) => target # schedule[r].state
  <2>1. broadcast[r].phase \in 1 .. 4
    BY <1>1, ScheduleFields
  <2>2. /\ ~(broadcast[r].phase < 2) <=> broadcast[r].phase >= 2
        /\ ~(broadcast[r].phase < 3) <=> broadcast[r].phase >= 3
        /\ ~(broadcast[r].phase < 4) <=> broadcast[r].phase = 4
    BY <2>1, SMT
  <2> QED
    BY <1>1, <2>1, <2>2, TargetOfObservation, PhaseNumbers DEF Schedule!Behind
<1>5. new \in Schedule!Row
  <2>1. next \in -MaxOverdue .. 30 /\ 0 \in 0 .. 2 /\ Schedule!Attempt(r) \in 0 .. 5
    <3>1. MaxOverdue \in Nat /\ Schedule!Attempt(r) \in 1 .. 5
      BY <1>1, AttemptIsBounded, BoundsAssumption
    <3> HIDE DEF next
    <3> QED
      BY <1>3, <3>1, SMT
  <2> QED
    BY <1>2, <2>1 DEF Schedule!Row
<1> HIDE DEF next
<1>6. ASSUME r \notin Refused PROVE Punctual(r)'
  <2>1. schedule'[r] = new
    BY <1>1 DEF Schedule!TypeOK
  <2>2. /\ schedule'[r].state = target /\ schedule'[r].next = next
        /\ schedule'[r].lease = 0
    BY <2>1
  <2>3. CASE target \notin Schedule!Waiting
    BY <2>2, <2>3 DEF Punctual
  <2>4. CASE target \in Schedule!Waiting
    <3>1. lag'[r] = 0
      <4>1. CASE target = schedule[r].state
        <5>1. ~Schedule!Behind(r) /\ Punctual(r) /\ lag' = lag
          BY <1>1, <1>4, <1>6, <4>1 DEF PunctualInv
        <5> QED
          BY <1>1, <5>1 DEF Punctual
      <4>2. CASE target # schedule[r].state
        BY <1>1, <4>2 DEF Schedule!TypeOK
      <4> QED
        BY <4>1, <4>2
    <3>2. Wait(r)' = next
      <4> HIDE DEF target
      <4> QED
        BY <1>3, <2>2, SMT DEF Wait, Longer
    <3>3. Allowance(r)' = AllowanceOf(target, broadcast[r].start)
      BY <1>1, <2>2 DEF Allowance
    <3>4. Allowance(r)' \in Nat /\ faults' \in Nat /\ next <= Allowance(r)'
      <4>1. AllowanceOf(target, broadcast[r].start) \in 1 .. 30 /\ faults \in 0 .. MaxFaults
        BY <1>1, <2>4, ScheduleFields, AllowanceCases
      <4> HIDE DEF target
      <4> QED
        BY <1>1, <1>3, <2>4, <3>3, <4>1, SMT
    <3>5. lag'[r] + Wait(r)' <= Allowance(r)' + 8 * faults'
      <4> HIDE DEF target
      <4> QED
        BY <1>3, <3>1, <3>2, <3>4, SMT
    <3> QED
      BY <3>1, <3>5 DEF Punctual
  <2> QED
    BY <2>3, <2>4
<1>7. lag' = lag \/ lag' = [lag EXCEPT ![r] = 0]
  BY <1>1
<1>8. faults' \in 0 .. MaxFaults /\ faults' >= faults
  <2>1. faults \in 0 .. MaxFaults /\ MaxFaults \in Nat
    BY <1>1, BoundsAssumption DEF Schedule!TypeOK
  <2> QED
    BY <1>1, <2>1, SMT
<1> HIDE DEF target, new
<1> QED
  BY <1>1, <1>5, <1>6, <1>7, <1>8, CheckStep

LEMMA SyncStep ==
  ASSUME PunctualInv, NEW r \in Reservations,
         Schedule!SyncCollection(r)
  PROVE  PunctualInv'
<1>1. PICK target \in {"collecting", "completed"} :
        schedule' = [schedule EXCEPT ![r].state = target, ![r].next = 1, ![r].lease = 0]
  BY DEF Schedule!SyncCollection
<1> DEFINE new == [schedule[r] EXCEPT !.state = target, !.next = 1, !.lease = 0]
<1>2. /\ Schedule!TypeOK
      /\ lag' = lag /\ broadcast' = broadcast /\ faults' = faults
  BY DEF PunctualInv, Schedule!SyncCollection
<1>3. schedule' = [schedule EXCEPT ![r] = new]
  BY <1>1, <1>2 DEF Schedule!TypeOK
<1>4. new \in Schedule!Row
  <2>1. 1 \in -MaxOverdue .. 30 /\ 0 \in 0 .. 2
    BY BoundsAssumption, SMT
  <2>2. schedule[r] \in Schedule!Row
    BY <1>2, ScheduleFields
  <2> QED
    BY <2>1, <2>2 DEF Schedule!Row
<1>5. Punctual(r)'
  <2>1. schedule'[r].state = target
    <3>1. schedule'[r] = new /\ schedule[r] \in Schedule!Row
      BY <1>2, <1>3, ScheduleFields DEF Schedule!TypeOK
    <3> QED
      BY <3>1 DEF Schedule!Row
  <2> QED
    BY <2>1 DEF Punctual, Schedule!Waiting
<1>6. faults' \in 0 .. MaxFaults /\ faults' >= faults
  <2>1. faults \in 0 .. MaxFaults /\ MaxFaults \in Nat
    BY <1>2, BoundsAssumption DEF Schedule!TypeOK
  <2> QED
    BY <1>2, <2>1, SMT
<1> HIDE DEF new
<1> QED
  BY <1>2, <1>3, <1>4, <1>5, <1>6, CheckStep

\* A row that is checked now has waited for as long as it had to.
LEMMA DueWaitsNoLonger ==
  ASSUME Schedule!TypeOK, NEW r \in Reservations, Schedule!First(r)
  PROVE  Wait(r) = 0
<1>1. schedule[r].next <= 0 /\ schedule[r].lease = 0
  BY DEF Schedule!First, Schedule!Due
<1>2. schedule[r].next \in Int
  BY ScheduleFields, SMT
<1> QED
  BY <1>1, <1>2, SMT DEF Wait, Longer

\* One fault more, and a wait of up to eight minutes.
LEMMA FaultStep ==
  ASSUME PunctualInv, NEW r \in Reservations,
         Schedule!First(r), faults < MaxFaults, faults' = faults + 1,
         NEW new \in Schedule!Row, schedule' = [schedule EXCEPT ![r] = new],
         new.state \in Schedule!Waiting =>
           new.state = schedule[r].state /\ new.next <= 8,
         lag' = lag, broadcast' = broadcast
  PROVE  PunctualInv'
<1>1. Schedule!TypeOK /\ schedule'[r] = new
  BY DEF PunctualInv, Schedule!TypeOK
<1>2. faults' \in 0 .. MaxFaults /\ faults' >= faults
  <2>1. faults \in 0 .. MaxFaults /\ MaxFaults \in Nat
    BY <1>1, BoundsAssumption DEF Schedule!TypeOK
  <2> QED
    BY <2>1, SMT
<1>3. ASSUME r \notin Refused, new.state \in Schedule!Waiting PROVE Punctual(r)'
  <2>1. /\ Punctual(r) /\ Wait(r) = 0 /\ schedule[r].state = new.state
        /\ new.next <= 8
    BY <1>1, <1>3, DueWaitsNoLonger DEF PunctualInv
  <2>2. /\ Allowance(r)' = Allowance(r)
        /\ Schedule!Behind(r)' = Schedule!Behind(r)
    BY <1>1, <2>1, PhaseNumbers DEF Allowance, Schedule!Behind
  <2>3. Wait(r)' <= 8 /\ Wait(r)' \in Nat
    <3>1. new.next \in -MaxOverdue .. 30 /\ new.lease \in 0 .. 2
      BY DEF Schedule!Row
    <3>2. new.next \in Int /\ new.lease \in Nat /\ new.lease <= 2
      BY <3>1, SMT
    <3>3. Wait(r)' = Longer(Longer(new.next, new.lease), 0)
      BY <1>1 DEF Wait
    <3> QED
      BY <2>1, <3>2, <3>3, SMT DEF Longer
  <2>4. Allowance(r) \in Nat /\ lag[r] \in Nat /\ faults \in Nat
    <3>1. Allowance(r) \in 1 .. 30 /\ lag[r] \in Nat /\ faults \in Nat
      BY <1>1, <1>3, <2>1, ScheduleNumbers
    <3> QED
      BY <3>1, SMT
  <2>5. lag[r] <= Allowance(r) + 8 * faults
    <3>1. lag[r] + Wait(r) <= Allowance(r) + 8 * faults
      BY <1>3, <2>1 DEF Punctual
    <3> QED
      BY <2>1, <2>4, <3>1, SMT
  <2>6. lag'[r] + Wait(r)' <= Allowance(r)' + 8 * faults'
    <3> DEFINE a == Allowance(r)
               w == Wait(r)'
               l == lag[r]
    <3>1. Allowance(r)' = a /\ lag'[r] = l /\ a \in Nat /\ l \in Nat /\ w \in Nat
          /\ w <= 8 /\ l <= a + 8 * faults /\ faults \in Nat
      BY <2>2, <2>3, <2>4, <2>5
    <3> HIDE DEF a, w, l
    <3>2. l + w <= a + 8 * (faults + 1)
      BY <3>1, SMT
    <3> QED
      BY <3>1, <3>2 DEF w
  <2>7. ~Schedule!Behind(r)' => lag'[r] = 0
    BY <1>3, <2>1, <2>2 DEF Punctual
  <2> QED
    BY <2>6, <2>7 DEF Punctual
<1>4. ASSUME r \notin Refused PROVE Punctual(r)'
  BY <1>1, <1>3, <1>4 DEF Punctual
<1> QED
  BY <1>2, <1>4, CheckStep

LEMMA FailureStep ==
  ASSUME PunctualInv, NEW r \in Reservations,
         Schedule!RecordFailure(r)
  PROVE  PunctualInv'
<1> DEFINE final == Schedule!Attempt(r) >= Schedule!LastAttempt
           state == IF final THEN "failed" ELSE schedule[r].state
           next == IF final THEN 0 ELSE Schedule!Backoff(Schedule!Attempt(r), 1, 30)
           new == [state |-> state, next |-> next,
                   lease |-> 0, attempts |-> Schedule!Attempt(r)]
<1>1. /\ Schedule!TypeOK /\ schedule[r].state \in Schedule!Waiting
      /\ Schedule!First(r) /\ faults < MaxFaults /\ faults' = faults + 1
      /\ schedule' = [schedule EXCEPT ![r] = new]
      /\ lag' = lag /\ broadcast' = broadcast
  BY DEF PunctualInv, Schedule!RecordFailure
<1>2. /\ state \in Schedule!Waiting \union {"failed"}
      /\ state \in Schedule!Waiting => ~final /\ state = schedule[r].state
  BY <1>1 DEF Schedule!Waiting
<1>3. next \in 0 .. 30 /\ (~final => next <= 8)
  <2>1. Schedule!Attempt(r) \in 1 .. 5 /\ 1 \in 1 .. 2
    BY <1>1, AttemptIsBounded, SMT
  <2>2. ~final => Schedule!Attempt(r) < 5
    BY <2>1, SMT DEF Schedule!LastAttempt
  <2>3. /\ Schedule!Backoff(Schedule!Attempt(r), 1, 30) \in 1 .. 30
        /\ Schedule!Attempt(r) < 5 => Schedule!Backoff(Schedule!Attempt(r), 1, 30) <= 8
    BY <2>1, BackoffIsBounded
  <2> HIDE DEF final
  <2> QED
    BY <2>2, <2>3, SMT
<1> HIDE DEF next, state, final
<1>4. new \in Schedule!Row
  <2>1. next \in -MaxOverdue .. 30 /\ 0 \in 0 .. 2 /\ Schedule!Attempt(r) \in 0 .. 5
    <3>1. MaxOverdue \in Nat /\ Schedule!Attempt(r) \in 1 .. 5
      BY <1>1, AttemptIsBounded, BoundsAssumption
    <3> QED
      BY <1>3, <3>1, SMT
  <2> QED
    BY <1>2, <2>1 DEF Schedule!Row
<1>5. new.state \in Schedule!Waiting => new.state = schedule[r].state /\ new.next <= 8
  BY <1>2, <1>3
<1> HIDE DEF new
<1> QED
  BY <1>1, <1>4, <1>5, FaultStep

\* Of a claim that nothing follows, only the lease remains.
LEMMA ClaimedRow ==
  ASSUME Schedule!TypeOK, NEW r \in Reservations,
         Schedule!Claimed(r)
  PROVE  \E new \in Schedule!Row :
           /\ schedule' = [schedule EXCEPT ![r] = new]
           /\ new.state = schedule[r].state /\ new.next = schedule[r].next
<1> DEFINE new == [schedule[r] EXCEPT !.lease = Schedule!LeaseDuration]
<1>1. schedule' = [schedule EXCEPT ![r] = new]
  BY DEF Schedule!Claimed
<1>2. schedule[r] \in Schedule!Row /\ Schedule!LeaseDuration \in 0 .. 2
  BY ScheduleFields, SMT DEF Schedule!LeaseDuration
<1>3. /\ new \in Schedule!Row
      /\ new.state = schedule[r].state /\ new.next = schedule[r].next
  BY <1>2 DEF Schedule!Row
<1> HIDE DEF new
<1> QED
  BY <1>1, <1>3

LEMMA RefusedStep ==
  ASSUME PunctualInv, NEW r \in Reservations,
         Schedule!UpsertIsRefused(r)
  PROVE  PunctualInv'
<1>1. /\ Schedule!TypeOK /\ r \in Refused /\ Schedule!Claimed(r)
      /\ lag' = lag /\ broadcast' = broadcast /\ faults' = faults
  BY DEF PunctualInv, Schedule!UpsertIsRefused
<1>2. PICK new \in Schedule!Row : schedule' = [schedule EXCEPT ![r] = new]
  BY <1>1, ClaimedRow
<1>3. faults' \in 0 .. MaxFaults /\ faults' >= faults
  <2>1. faults \in 0 .. MaxFaults /\ MaxFaults \in Nat
    BY <1>1, BoundsAssumption DEF Schedule!TypeOK
  <2> QED
    BY <1>1, <2>1, SMT
<1> QED
  BY <1>1, <1>2, <1>3, CheckStep

LEMMA LostStep ==
  ASSUME PunctualInv, NEW r \in Reservations,
         Schedule!CheckIsLost(r)
  PROVE  PunctualInv'
<1>1. /\ Schedule!TypeOK /\ Schedule!Claimed(r) /\ Schedule!First(r)
      /\ faults < MaxFaults /\ faults' = faults + 1
      /\ lag' = lag /\ broadcast' = broadcast
  BY DEF PunctualInv, Schedule!CheckIsLost
<1>2. PICK new \in Schedule!Row :
        /\ schedule' = [schedule EXCEPT ![r] = new]
        /\ new.state = schedule[r].state /\ new.next = schedule[r].next
  BY <1>1, ClaimedRow
<1>3. new.next <= 8
  <2>1. schedule[r].next <= 0 /\ schedule[r].next \in -MaxOverdue .. 30
    BY <1>1, ScheduleFields DEF Schedule!First, Schedule!Due
  <2> QED
    BY <1>2, <2>1, SMT
<1> QED
  BY <1>1, <1>2, <1>3, FaultStep

\* What the row already was behind stays, and what it was not is new.
LEMMA BroadcastStep ==
  ASSUME PunctualInv, NEW r \in Reservations,
         Schedule!BroadcastGoesOn(r)
  PROVE  PunctualInv'
<1> DEFINE b == [broadcast[r] EXCEPT !.phase = broadcast[r].phase + 1]
<1>1. /\ Schedule!TypeOK /\ broadcast[r].phase < 4
      /\ broadcast' = [broadcast EXCEPT ![r] = b]
      /\ schedule' = schedule /\ lag' = lag /\ faults' = faults
  BY DEF PunctualInv, Schedule!BroadcastGoesOn, Schedule!TypeOK
<1>2. /\ broadcast[r] \in Schedule!Broadcast /\ broadcast[r].phase \in 1 .. 4
      /\ faults \in Nat
  BY <1>1, ScheduleFields, ScheduleNumbers
<1>3. /\ b \in Schedule!Broadcast /\ b.start = broadcast[r].start
      /\ b.phase = broadcast[r].phase + 1
  <2>1. broadcast[r].phase + 1 \in 1 .. 4
    BY <1>1, <1>2, SMT
  <2> QED
    BY <1>2, <2>1 DEF Schedule!Broadcast
<1> HIDE DEF b
<1>4. Schedule!TypeOK'
  BY <1>1, <1>3 DEF Schedule!TypeOK
<1>5. ASSUME r \notin Refused PROVE Punctual(r)'
  <2>1. /\ broadcast'[r] = b /\ Wait(r)' = Wait(r) /\ Allowance(r)' = Allowance(r)
    BY <1>1, <1>3 DEF Schedule!TypeOK, Wait, Allowance
  <2>2. Schedule!Behind(r) => Schedule!Behind(r)'
    <3>1. /\ ~(broadcast[r].phase < 2) => ~(b.phase < 2)
          /\ ~(broadcast[r].phase < 3) => ~(b.phase < 3)
          /\ ~(broadcast[r].phase < 4) => ~(b.phase < 4)
      BY <1>2, <1>3, SMT
    <3> QED
      BY <1>1, <2>1, <3>1, PhaseNumbers DEF Schedule!Behind
  <2>3. Punctual(r)
    BY <1>5 DEF PunctualInv
  <2> QED
    BY <1>1, <2>1, <2>2, <2>3 DEF Punctual
<1>6. ASSUME NEW q \in Reservations \ Refused, q # r PROVE Punctual(q)'
  <2>1. broadcast'[q] = broadcast[q] /\ faults' \in Nat /\ faults' >= faults
    BY <1>1, <1>2, <1>6, SMT DEF Schedule!TypeOK
  <2>2. Punctual(q)
    BY <1>6 DEF PunctualInv
  <2> QED
    BY <1>1, <2>1, <2>2, OthersStayPunctual
<1> QED
  BY <1>4, <1>5, <1>6 DEF PunctualInv

\* The minute that brings a planned start nearer takes at most a minute from
\* the longest wait.
LEMMA AllowanceShrinksSlowly ==
  ASSUME NEW state \in Schedule!Waiting, NEW start \in Nat \union {NULL},
         NEW then \in Nat \union {NULL},
         then = start \/ (start \in Nat /\ start # NULL /\ then = start - 1)
  PROVE  /\ AllowanceOf(state, then) >= AllowanceOf(state, start) - 1
         /\ then = start \/ state # "scheduled" =>
              AllowanceOf(state, then) = AllowanceOf(state, start)
<1>1. state \in {"scheduled", "monitoring", "live", "waiting_for_archive"}
  BY DEF Schedule!Waiting
<1>2. /\ AllowanceOf(state, start) \in 1 .. 30
      /\ AllowanceOf(state, then) \in 1 .. 30
  BY AllowanceCases
<1>3. then = start \/ state # "scheduled" =>
        AllowanceOf(state, then) = AllowanceOf(state, start)
  BY <1>1, AllowanceCases
<1>4. CASE state = "scheduled" /\ then # start
  <2>1. /\ start \in Nat /\ then = start - 1
        /\ AllowanceOf(state, start) =
             IF start <= 16 THEN 1 ELSE IF start < 30 THEN start - 15 ELSE 15
    BY <1>4, AllowanceCases
  <2>2. AllowanceOf(state, then) =
          IF then = NULL THEN 15
          ELSE IF then <= 16 THEN 1 ELSE IF then < 30 THEN then - 15 ELSE 15
    BY <1>4, AllowanceCases
  <2>3. AllowanceOf(state, then) >= AllowanceOf(state, start) - 1
    BY <2>1, <2>2, SMT
  <2> QED
    BY <1>3, <2>3
<1> QED
  <2>1. CASE then = start \/ state # "scheduled"
    BY <1>2, <1>3, <2>1, SMT
  <2> QED
    BY <1>1, <1>4, <2>1

\* A minute that nobody is due in.
LEMMA TickStep ==
  ASSUME PunctualInv, Schedule!Tick
  PROVE  PunctualInv'
<1> DEFINE next(r) == IF schedule[r].next > -MaxOverdue THEN schedule[r].next - 1
                      ELSE schedule[r].next
           lease(r) == IF schedule[r].lease > 0 THEN schedule[r].lease - 1
                       ELSE schedule[r].lease
           start(r) == IF /\ broadcast[r].start # NULL /\ broadcast[r].start > 0
                          /\ Schedule!Before(broadcast[r], "live")
                       THEN broadcast[r].start - 1 ELSE broadcast[r].start
           late(r) == IF Schedule!Behind(r) /\ r \notin Refused /\ lag[r] < Schedule!MaxLag
                      THEN lag[r] + 1 ELSE lag[r]
<1>1. /\ Schedule!TypeOK /\ MaxOverdue \in Nat /\ MaxFaults \in Nat
      /\ Schedule!Due = {} /\ faults' = faults
      /\ schedule' = [r \in Reservations |->
           [schedule[r] EXCEPT !.next = next(r), !.lease = lease(r)]]
      /\ broadcast' = [r \in Reservations |-> [broadcast[r] EXCEPT !.start = start(r)]]
      /\ lag' = [r \in Reservations |-> late(r)]
  <2>1. /\ Schedule!TypeOK /\ MaxOverdue \in Nat /\ MaxFaults \in Nat
        /\ Schedule!Due = {} /\ faults' = faults
    BY BoundsAssumption DEF PunctualInv, Schedule!Tick
  <2>2. schedule' = [r \in Reservations |->
          [schedule[r] EXCEPT !.next = next(r), !.lease = lease(r)]]
    BY <2>1 DEF Schedule!Tick, Schedule!TypeOK, Schedule!Row
  <2>3. broadcast' = [r \in Reservations |-> [broadcast[r] EXCEPT !.start = start(r)]]
    BY <2>1 DEF Schedule!Tick, Schedule!TypeOK, Schedule!Broadcast
  <2>4. lag' = [r \in Reservations |-> late(r)]
    BY DEF Schedule!Tick
  <2> QED
    BY <2>1, <2>2, <2>3, <2>4
<1>2. ASSUME NEW r \in Reservations
      PROVE  /\ next(r) \in -MaxOverdue .. 30 /\ lease(r) \in 0 .. 2
             /\ start(r) \in Nat \union {NULL}
             /\ late(r) \in 0 .. Schedule!MaxLag
  <2>1. /\ schedule[r].next \in -MaxOverdue .. 30 /\ schedule[r].lease \in 0 .. 2
        /\ broadcast[r].start \in Nat \union {NULL}
        /\ lag[r] \in 0 .. Schedule!MaxLag
    BY <1>1, ScheduleFields DEF Schedule!TypeOK
  <2>2. next(r) \in -MaxOverdue .. 30 /\ lease(r) \in 0 .. 2
    <3> DEFINE n == schedule[r].next
               d == schedule[r].lease
    <3>1. MaxOverdue \in Nat /\ n \in -MaxOverdue .. 30 /\ d \in 0 .. 2
      BY <1>1, <2>1
    <3>2. /\ next(r) = IF n > -MaxOverdue THEN n - 1 ELSE n
          /\ lease(r) = IF d > 0 THEN d - 1 ELSE d
      OBVIOUS
    <3> HIDE DEF n, d, next, lease
    <3> QED
      BY <3>1, <3>2, SMT
  <2>3. start(r) \in Nat \union {NULL}
    <3> DEFINE s == broadcast[r].start
    <3>1. s \in Nat \union {NULL} /\ (s # NULL /\ s > 0 => s - 1 \in Nat)
      <4>1. s \in Nat \union {NULL}
        BY <2>1
      <4> HIDE DEF s
      <4> QED
        BY <4>1, SMT
    <3>2. start(r) = s \/ (s # NULL /\ s > 0 /\ start(r) = s - 1)
      OBVIOUS
    <3> HIDE DEF s, start
    <3> QED
      BY <3>1, <3>2
  <2>4. Schedule!MaxLag \in Nat
    <3>1. MaxFaults \in Nat
      BY <1>1
    <3> QED
      BY <3>1, SMT DEF Schedule!MaxLag
  <2>5. late(r) \in 0 .. Schedule!MaxLag
    BY <2>1, <2>4, SMT
  <2> QED
    BY <2>2, <2>3, <2>5
<1>3. ASSUME NEW r \in Reservations
      PROVE  /\ schedule'[r] = [schedule[r] EXCEPT !.next = next(r), !.lease = lease(r)]
             /\ schedule'[r] \in Schedule!Row
             /\ schedule'[r].state = schedule[r].state
             /\ schedule'[r].next = next(r) /\ schedule'[r].lease = lease(r)
             /\ broadcast'[r] \in Schedule!Broadcast
             /\ broadcast'[r].phase = broadcast[r].phase
             /\ broadcast'[r].start = start(r)
             /\ lag'[r] = late(r)
  <2>1. schedule[r] \in Schedule!Row /\ broadcast[r] \in Schedule!Broadcast
    BY <1>1, ScheduleFields
  <2> HIDE DEF next, lease, start, late
  <2>2. /\ schedule'[r] = [schedule[r] EXCEPT !.next = next(r), !.lease = lease(r)]
        /\ broadcast'[r] = [broadcast[r] EXCEPT !.start = start(r)]
        /\ lag'[r] = late(r)
    BY <1>1
  <2>3. /\ schedule'[r] \in Schedule!Row
        /\ schedule'[r].state = schedule[r].state
        /\ schedule'[r].next = next(r) /\ schedule'[r].lease = lease(r)
    BY <1>2, <2>1, <2>2 DEF Schedule!Row
  <2>4. /\ broadcast'[r] \in Schedule!Broadcast
        /\ broadcast'[r].phase = broadcast[r].phase
        /\ broadcast'[r].start = start(r)
    BY <1>2, <2>1, <2>2 DEF Schedule!Broadcast
  <2> QED
    BY <2>2, <2>3, <2>4
<1>4. Schedule!TypeOK'
  <2> HIDE DEF next, lease, start, late
  <2>1. schedule' \in [Reservations -> Schedule!Row]
    BY <1>1, <1>3
  <2>2. broadcast' \in [Reservations -> Schedule!Broadcast]
    BY <1>1, <1>3
  <2>3. lag' \in [Reservations -> 0 .. Schedule!MaxLag]
    BY <1>1, <1>2
  <2> QED
    BY <1>1, <2>1, <2>2, <2>3 DEF Schedule!TypeOK
<1>5. ASSUME NEW r \in Reservations \ Refused, schedule[r].state \in Schedule!Waiting
      PROVE  Punctual(r)'
  <2>1. Schedule!Behind(r)' <=> Schedule!Behind(r)
    <3>1. /\ schedule'[r].state = schedule[r].state
          /\ broadcast'[r].phase = broadcast[r].phase
      BY <1>3
    <3> QED
      BY <3>1, PhaseNumbers DEF Schedule!Behind
  <2>2. /\ Wait(r)' = Wait(r) - 1 /\ Wait(r) \in Nat \ {0}
    <3>1. schedule[r].next > 0 \/ schedule[r].lease > 0
      <4>1. ~(schedule[r].next <= 0 /\ schedule[r].lease = 0)
        BY <1>1, <1>5 DEF Schedule!Due
      <4>2. schedule[r].next \in -MaxOverdue .. 30 /\ schedule[r].lease \in 0 .. 2
        BY <1>1, ScheduleFields
      <4> QED
        BY <4>1, <4>2, SMT
    <3>2. schedule[r].next \in -MaxOverdue .. 30 /\ schedule[r].lease \in 0 .. 2
      BY <1>1, ScheduleFields
    <3>3. Wait(r)' = Longer(Longer(next(r), lease(r)), 0)
      BY <1>3 DEF Wait
    <3> DEFINE n == schedule[r].next
               d == schedule[r].lease
               m == next(r)
               c == lease(r)
    <3>4. /\ m = IF n > -MaxOverdue THEN n - 1 ELSE n
          /\ c = IF d > 0 THEN d - 1 ELSE d
          /\ Wait(r) = Longer(Longer(n, d), 0) /\ Wait(r)' = Longer(Longer(m, c), 0)
          /\ n > 0 \/ d > 0
          /\ n \in -MaxOverdue .. 30 /\ d \in 0 .. 2 /\ MaxOverdue \in Nat
      BY <1>1, <3>1, <3>2, <3>3 DEF Wait
    <3> HIDE DEF n, d, m, c
    <3> QED
      BY <3>4, SMT DEF Longer
  <2>3. /\ Allowance(r)' \in 1 .. 30 /\ Allowance(r) \in 1 .. 30
        /\ Allowance(r)' >= Allowance(r) - 1
        /\ Schedule!Behind(r) => Allowance(r)' = Allowance(r)
    <3>1. /\ broadcast[r].start \in Nat \union {NULL} /\ start(r) \in Nat \union {NULL}
          /\ broadcast[r].phase \in 1 .. 4
      BY <1>1, <1>2, ScheduleFields
    <3>2. \/ start(r) = broadcast[r].start
          \/ /\ broadcast[r].start \in Nat /\ broadcast[r].start # NULL
             /\ start(r) = broadcast[r].start - 1
      BY <3>1
    <3>3. Schedule!Behind(r) =>
            start(r) = broadcast[r].start \/ schedule[r].state # "scheduled"
      BY PhaseNumbers DEF Schedule!Behind
    <3>4. /\ Allowance(r) = AllowanceOf(schedule[r].state, broadcast[r].start)
          /\ Allowance(r)' = AllowanceOf(schedule[r].state, start(r))
      BY <1>3 DEF Allowance
    <3> HIDE DEF start
    <3>5. /\ AllowanceOf(schedule[r].state, start(r)) >=
               AllowanceOf(schedule[r].state, broadcast[r].start) - 1
          /\ start(r) = broadcast[r].start \/ schedule[r].state # "scheduled" =>
               AllowanceOf(schedule[r].state, start(r)) =
                 AllowanceOf(schedule[r].state, broadcast[r].start)
      BY <1>5, <3>1, <3>2, AllowanceShrinksSlowly
    <3>6. /\ AllowanceOf(schedule[r].state, broadcast[r].start) \in 1 .. 30
          /\ AllowanceOf(schedule[r].state, start(r)) \in 1 .. 30
      BY <1>5, <3>1, AllowanceCases
    <3> QED
      BY <3>3, <3>4, <3>5, <3>6
  <2>4. /\ Schedule!Behind(r) => lag'[r] \in Int /\ lag'[r] <= lag[r] + 1
        /\ ~Schedule!Behind(r) => lag'[r] = lag[r]
    <3>1. lag[r] \in Nat
      BY <1>1, ScheduleNumbers
    <3>2. lag'[r] = late(r)
      BY <1>3
    <3>3. /\ lag'[r] = lag[r] \/ lag'[r] = lag[r] + 1
          /\ ~Schedule!Behind(r) => lag'[r] = lag[r]
      BY <3>2
    <3> QED
      BY <3>1, <3>3, SMT
  <2>5. /\ ~Schedule!Behind(r) => lag[r] = 0
        /\ lag[r] + Wait(r) <= Allowance(r) + 8 * faults
        /\ lag[r] \in Nat /\ faults \in Nat
    BY <1>1, <1>5, ScheduleNumbers DEF PunctualInv, Punctual
  <2>6. lag'[r] + Wait(r)' <= Allowance(r)' + 8 * faults
    <3> DEFINE a == Allowance(r)
               b == Allowance(r)'
               w == Wait(r)
               v == Wait(r)'
               l == lag[r]
               k == lag'[r]
    <3>1. CASE Schedule!Behind(r)
      <4>1. /\ a \in 1 .. 30 /\ b = a /\ w \in Nat \ {0} /\ v = w - 1
            /\ k \in Int /\ l \in Nat /\ k <= l + 1
            /\ l + w <= a + 8 * faults /\ faults \in Nat
        BY <2>2, <2>3, <2>4, <2>5, <3>1
      <4> HIDE DEF a, b, w, v, l, k
      <4>2. k + v <= b + 8 * faults
        BY <4>1, SMT
      <4> QED
        BY <4>2 DEF k, v, b
    <3>2. CASE ~Schedule!Behind(r)
      <4>1. /\ a \in 1 .. 30 /\ b \in 1 .. 30 /\ b >= a - 1
            /\ w \in Nat \ {0} /\ v = w - 1 /\ k = l /\ l \in Nat
            /\ l + w <= a + 8 * faults /\ faults \in Nat
        BY <2>2, <2>3, <2>4, <2>5, <3>2
      <4> HIDE DEF a, b, w, v, l, k
      <4>2. k + v <= b + 8 * faults
        BY <4>1, SMT
      <4> QED
        BY <4>2 DEF k, v, b
    <3> QED
      BY <3>1, <3>2
  <2>7. ~Schedule!Behind(r)' => lag'[r] = 0
    BY <2>1, <2>4, <2>5
  <2> QED
    BY <1>1, <2>6, <2>7 DEF Punctual
<1>6. ASSUME NEW r \in Reservations \ Refused, schedule[r].state \notin Schedule!Waiting
      PROVE  Punctual(r)'
  BY <1>3, <1>6 DEF Punctual
<1> HIDE DEF next, lease, start, late
<1> QED
  BY <1>4, <1>5, <1>6 DEF PunctualInv

LEMMA ScheduleNext ==
  ASSUME PunctualInv, [Schedule!Next]_Schedule!vars
  PROVE  PunctualInv'
<1>1. ASSUME NEW r \in Reservations, Schedule!RunOnce(r) PROVE PunctualInv'
  BY <1>1, AppliesStep, SyncStep, FailureStep, RefusedStep, LostStep
     DEF Schedule!RunOnce
<1>2. ASSUME UNCHANGED Schedule!vars PROVE PunctualInv'
  <2>1. /\ schedule' = schedule /\ broadcast' = broadcast
        /\ lag' = lag /\ faults' = faults
    BY <1>2 DEF Schedule!vars
  <2>2. Schedule!TypeOK'
    BY <2>1 DEF PunctualInv, Schedule!TypeOK
  <2>3. ASSUME NEW q \in Reservations \ Refused PROVE Punctual(q)'
    <3>1. Schedule!TypeOK /\ Punctual(q)
      BY DEF PunctualInv
    <3>2. faults' \in Nat /\ faults' >= faults
      BY <2>1, <3>1, ScheduleNumbers, SMT
    <3> QED
      BY <2>1, <3>1, <3>2, OthersStayPunctual
  <2> QED
    BY <2>2, <2>3 DEF PunctualInv
<1> QED
  BY <1>1, <1>2, BroadcastStep, TickStep DEF Schedule!Next

LEMMA PunctualIsInTime ==
  ASSUME PunctualInv
  PROVE  Schedule!ScheduleInv
<1>1. Schedule!TypeOK
  BY DEF PunctualInv
<1>2. ASSUME NEW r \in Reservations \ Refused, Schedule!Behind(r)
      PROVE  lag[r] <= Schedule!Patience(r) + 8 * faults
  <2>1. schedule[r].state \in Schedule!Waiting
    BY <1>2 DEF Schedule!Behind, Schedule!Waiting
  <2>2. /\ lag[r] + Wait(r) <= Allowance(r) + 8 * faults
        /\ Wait(r) \in Nat /\ lag[r] \in Nat /\ faults \in Nat
        /\ Allowance(r) \in 1 .. 30
    BY <1>1, <2>1, ScheduleNumbers DEF PunctualInv, Punctual
  <2>3. Schedule!Patience(r) \in Int /\ Allowance(r) <= Schedule!Patience(r)
    <3> DEFINE s == broadcast[r].start
               p == Schedule!Patience(r)
               a == Allowance(r)
    <3>1. s \in Nat \union {NULL}
      BY <1>1, ScheduleFields
    <3>2. a = AllowanceOf(schedule[r].state, s)
      BY DEF Allowance
    <3>3. /\ schedule[r].state = "scheduled" =>
               p = IF s # NULL /\ s < 15 THEN 1 ELSE 15
          /\ schedule[r].state = "monitoring" => p = 1
          /\ schedule[r].state = "live" => p = 2
          /\ schedule[r].state = "waiting_for_archive" => p = 30
      BY DEF Schedule!Patience
    <3>4. schedule[r].state \in {"scheduled", "monitoring", "live", "waiting_for_archive"}
      BY <2>1 DEF Schedule!Waiting
    <3> HIDE DEF a, s, p
    <3>5. /\ schedule[r].state = "scheduled" /\ s = NULL => a = 15
          /\ schedule[r].state = "scheduled" /\ s # NULL =>
               a = IF s <= 16 THEN 1 ELSE IF s < 30 THEN s - 15 ELSE 15
          /\ schedule[r].state = "monitoring" => a = 1
          /\ schedule[r].state = "live" => a = 2
          /\ schedule[r].state = "waiting_for_archive" => a = 30
      BY <2>1, <3>1, <3>2, AllowanceCases
    <3>6. p \in Int /\ a <= p
      BY <3>1, <3>3, <3>4, <3>5, SMT
    <3> QED
      BY <3>6 DEF a, p
  <2>4. lag[r] <= Schedule!Patience(r) + 8 * faults
    <3> DEFINE a == Allowance(r)
               p == Schedule!Patience(r)
               w == Wait(r)
               l == lag[r]
    <3>1. /\ a \in 1 .. 30 /\ p \in Int /\ a <= p /\ w \in Nat /\ l \in Nat
          /\ faults \in Nat /\ l + w <= a + 8 * faults
      BY <2>2, <2>3
    <3> HIDE DEF a, p, w, l
    <3>2. l <= p + 8 * faults
      BY <3>1, SMT
    <3> QED
      BY <3>2 DEF l, p
  <2> QED
    BY <2>4
<1> QED
  BY <1>1, <1>2 DEF Schedule!ScheduleInv, Schedule!NoticedInTime

\* Whatever other reservations do, and however early or late a broadcast
\* begins, ends or is archived, the monitor notices within one interval of its
\* schedule; each failed call and each lost check costs eight minutes at most
\* (nextCheck, boundedBackoff, ClaimDue's lease and ApplyMetadata).
THEOREM ChangesAreNoticedInTime == MonitorSpec => []ScheduleInv
<1>1. MonitorInit => PunctualInv
  BY ScheduleInit DEF MonitorInit
<1>2. PunctualInv /\ [MonitorNext]_monitorVars => PunctualInv'
  <2> SUFFICES ASSUME PunctualInv, [MonitorNext]_monitorVars PROVE PunctualInv'
    OBVIOUS
  <2>1. Schedule!Next \/ UNCHANGED Schedule!vars
    BY DEF MonitorNext, monitorVars, scheduleVars, Schedule!vars
  <2> QED
    BY <2>1, ScheduleNext
<1>3. PunctualInv => ScheduleInv
  BY PunctualIsInTime DEF ScheduleInv
<1> QED
  BY <1>1, <1>2, <1>3, PTL DEF MonitorSpec
=============================================================================
