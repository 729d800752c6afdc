-------------------------- MODULE ApiProcessesProofs --------------------------
(***************************************************************************)
(* What the start of the API promises (Migrations) and what its requests     *)
(* promise (HttpApi), for any number of processes, releases, clients, rows    *)
(* and faults: MigrationInv, HttpInv, and that HttpApi implements             *)
(* ApiContract.                                                              *)
(*                                                                         *)
(* A step of the composition is a step of one of the two or a stutter, and    *)
(* they share no variable: each has an inductive invariant of its own.        *)
(***************************************************************************)
EXTENDS ApiProcesses, TLAPS

-----------------------------------------------------------------------------
(* The migrations *)

InSession ==
  {"checking", "executing", "recording", "committing", "unlocking"}
AtMigration == {"executing", "recording", "committing"}

\* Whoever is between pg_advisory_lock and pg_advisory_unlock has the lock.
LockIsHeld == \A p \in Processes : pc[p] \in InSession => lock = p

\* A process that waits for the lock is at the first migration; one that checks
\* has not gone past the schema; one that applies a migration applies the next;
\* one that has come through has them all.
ItemsFollowSchema ==
  \A p \in Processes :
    /\ At(p, "locking") => item[p] = 1
    /\ At(p, "checking") => item[p] <= Len(schema) + 1
    /\ pc[p] \in AtMigration => item[p] = Len(schema) + 1 /\ item[p] <= Release[p]
    /\ pc[p] \in {"unlocking", "serving"} => Release[p] <= Len(schema)

SchemaInv ==
  /\ TypeOK
  /\ AppliedOnceInOrder
  /\ StartsDoNotCollide
  /\ LockIsHeld
  /\ ItemsFollowSchema

LEMMA ToSetIsSegment ==
  ASSUME schema \in Seq(Nat), \A i \in DOMAIN schema : schema[i] = i
  PROVE  ToSet(schema) = 1 .. Len(schema)
  BY SMT DEF ToSet

LEMMA MigrationInit == Init => SchemaInv
<1> SUFFICES ASSUME Init PROVE SchemaInv
  OBVIOUS
<1>1. TypeOK
  BY ReleaseIsNumber, MaxFaultsIsNumber, SMT DEF Init, TypeOK, Position
<1>2. AppliedOnceInOrder
  BY SMT DEF Init, AppliedOnceInOrder, ToSet
<1>3. StartsDoNotCollide /\ LockIsHeld /\ ItemsFollowSchema
  BY SMT DEF Init, StartsDoNotCollide, LockIsHeld, ItemsFollowSchema, At,
             InSession, AtMigration
<1> QED
  BY <1>1, <1>2, <1>3 DEF SchemaInv

\* A step that leaves the schema and the ledger: one process goes on to a
\* position and an item that the schema allows, and takes the lock from nobody.
GoesOn(p, position, i) ==
  /\ UNCHANGED <<schema, ledger>>
  /\ pc' = [pc EXCEPT ![p] = position]
  /\ item' = [item EXCEPT ![p] = i]
  /\ faults' \in 0 .. MaxFaults
  /\ lock' \in Processes \union {NULL}
  /\ \A q \in Processes \ {p} : lock = q => lock' = q
  /\ position \in InSession => lock' = p
  /\ position = "locking" => i = 1
  /\ position = "checking" => i <= Len(schema) + 1
  /\ position \in AtMigration => i = Len(schema) + 1 /\ i <= Release[p]
  /\ position \in {"unlocking", "serving"} => Release[p] <= Len(schema)

LEMMA ProcessGoesOn ==
  ASSUME SchemaInv, NEW p \in Processes, NEW position \in Position,
         NEW i \in 1 .. Release[p] + 1, GoesOn(p, position, i)
  PROVE  SchemaInv'
<1> USE DEF GoesOn
<1>1. /\ pc'[p] = position /\ item'[p] = i
      /\ \A q \in Processes \ {p} : pc'[q] = pc[q] /\ item'[q] = item[q]
  BY DEF SchemaInv, TypeOK
<1>2. TypeOK'
  BY ReleaseIsNumber, SMT DEF SchemaInv, TypeOK
<1>3. AppliedOnceInOrder'
  BY DEF SchemaInv, AppliedOnceInOrder
<1>4. StartsDoNotCollide'
  BY <1>1 DEF SchemaInv, StartsDoNotCollide, At, Position
<1>5. LockIsHeld'
  BY <1>1 DEF SchemaInv, LockIsHeld
<1>6. ItemsFollowSchema'
  BY <1>1, SMT DEF SchemaInv, ItemsFollowSchema, At
<1> QED
  BY <1>2, <1>3, <1>4, <1>5, <1>6 DEF SchemaInv

\* A migration is committed, and its process goes to the next or ends.
Commits(p, position, i) ==
  /\ Committed(p)
  /\ pc' = [pc EXCEPT ![p] = position]
  /\ item' = [item EXCEPT ![p] = i]
  /\ faults' \in 0 .. MaxFaults
  /\ lock' \in Processes \union {NULL}
  /\ position = "checking" => lock' = p

LEMMA MigrationIsCommitted ==
  ASSUME SchemaInv, NEW p \in Processes, At(p, "committing"),
         NEW position \in {"checking", "down"}, NEW i \in {item[p], item[p] + 1},
         Commits(p, position, i)
  PROVE  SchemaInv'
<1> USE DEF Commits
<1>1. /\ pc'[p] = position /\ item'[p] = i
      /\ \A q \in Processes \ {p} : pc'[q] = pc[q] /\ item'[q] = item[q]
  BY DEF SchemaInv, TypeOK
<1>2. /\ lock = p
      /\ item[p] = Len(schema) + 1 /\ item[p] <= Release[p]
      /\ item[p] \in Nat /\ Release[p] \in Nat
      /\ schema \in Seq(Nat)
  BY ReleaseIsNumber
     DEF SchemaInv, TypeOK, LockIsHeld, ItemsFollowSchema, At, InSession, AtMigration
<1>3. \A q \in Processes \ {p} : pc[q] \notin InSession
  BY <1>2 DEF SchemaInv, LockIsHeld
<1>4. schema' = Append(schema, Len(schema) + 1) /\ ledger' = ledger \union {Len(schema) + 1}
  BY <1>2 DEF Committed
<1>5. /\ schema' \in Seq(Nat) /\ Len(schema') = Len(schema) + 1
      /\ \A k \in DOMAIN schema' : schema'[k] = k
  BY <1>2, <1>4, SMT DEF SchemaInv, AppliedOnceInOrder
<1>6. TypeOK'
  <2>1. ledger' \subseteq Nat
    <3>1. ledger \subseteq Nat
      BY DEF SchemaInv, TypeOK
    <3> QED
      BY <1>2, <1>4, <3>1
  <2>2. /\ pc' \in [Processes -> Position \union {"conflict"}]
        /\ item' \in [Processes -> Nat]
        /\ \A q \in Processes : item'[q] \in 1 .. Release[q] + 1
    BY <1>1, <1>2, SMT DEF SchemaInv, TypeOK, Position
  <2> QED
    BY <1>5, <2>1, <2>2 DEF TypeOK
<1>7. AppliedOnceInOrder'
  <2>1. ToSet(schema)' = 1 .. Len(schema')
    BY <1>5, SMT DEF ToSet
  <2>2. ledger = 1 .. Len(schema)
    BY ToSetIsSegment, <1>2 DEF SchemaInv, AppliedOnceInOrder
  <2>3. ledger' = 1 .. Len(schema')
    BY <1>2, <1>4, <1>5, <2>2, SMT
  <2> QED
    BY <1>5, <2>1, <2>3 DEF AppliedOnceInOrder
<1>8. StartsDoNotCollide'
  BY <1>1 DEF SchemaInv, StartsDoNotCollide, At
<1>9. LockIsHeld'
  BY <1>1, <1>3 DEF LockIsHeld, InSession
<1>10. ItemsFollowSchema'
  BY <1>1, <1>2, <1>3, <1>5, ReleaseIsNumber, SMT
     DEF SchemaInv, ItemsFollowSchema, At, InSession, AtMigration
<1> QED
  BY <1>6, <1>7, <1>8, <1>9, <1>10 DEF SchemaInv

LEMMA MigrationStep == SchemaInv /\ [Next]_vars => SchemaInv'
<1>1. ASSUME SchemaInv, UNCHANGED vars PROVE SchemaInv'
  BY <1>1 DEF SchemaInv, TypeOK, AppliedOnceInOrder, StartsDoNotCollide, LockIsHeld,
              ItemsFollowSchema, At, vars
<1>2. ASSUME SchemaInv, NEW p \in Processes,
             Start(p) \/ Apply(p) \/ Fails(p) \/ CommitReplyLost(p)
      PROVE  SchemaInv'
  <2>1. /\ item[p] \in 1 .. Release[p] + 1 /\ item[p] \in Nat
        /\ Release[p] \in Nat \ {0}
        /\ lock \in Processes \union {NULL}
        /\ item = [item EXCEPT ![p] = item[p]]
        /\ pc = [pc EXCEPT ![p] = pc[p]]
    BY <1>2, ReleaseIsNumber DEF SchemaInv, TypeOK
  <2>2. /\ faults \in 0 .. MaxFaults
        /\ faults < MaxFaults => faults + 1 \in 0 .. MaxFaults
    BY <1>2, MaxFaultsIsNumber DEF SchemaInv, TypeOK
  <2>3. schema \in Seq(Nat) /\ Len(schema) \in Nat
    BY <1>2 DEF SchemaInv, TypeOK
  <2>4. /\ pc[p] \in InSession => lock = p
        /\ pc[p] = "locking" => item[p] = 1
        /\ pc[p] = "checking" => item[p] <= Len(schema) + 1
        /\ pc[p] \in AtMigration => item[p] = Len(schema) + 1 /\ item[p] <= Release[p]
        /\ pc[p] \in {"unlocking", "serving"} => Release[p] <= Len(schema)
    BY <1>2 DEF SchemaInv, LockIsHeld, ItemsFollowSchema, At
  <2>5. ToSet(schema) = 1 .. Len(schema) /\ ledger = 1 .. Len(schema)
    BY <1>2, <2>3, ToSetIsSegment DEF SchemaInv, AppliedOnceInOrder
  <2>6. CASE Start(p)
    <3>1. GoesOn(p, "locking", 1)
      BY <2>1, <2>2, <2>3, <2>4, <2>6, SMT
         DEF GoesOn, Start, Goes, At, InSession, AtMigration
    <3> QED
      BY <1>2, <2>1, <3>1, ProcessGoesOn DEF Position
  <2>7. CASE Lock(p)
    <3>1. GoesOn(p, "checking", item[p])
      BY <2>1, <2>2, <2>3, <2>4, <2>7, NullIsNoProcess, SMT
         DEF GoesOn, Lock, Goes, At, InSession, AtMigration
    <3> QED
      BY <1>2, <2>1, <3>1, ProcessGoesOn DEF Position
  <2>8. CASE Check(p)
    <3>1. CASE item[p] > Release[p]
      <4>1. GoesOn(p, "unlocking", item[p])
        BY <2>1, <2>2, <2>3, <2>4, <2>8, <3>1, SMT
           DEF GoesOn, Check, Goes, At, InSession, AtMigration
      <4> QED
        BY <1>2, <2>1, <4>1, ProcessGoesOn DEF Position
    <3>2. CASE item[p] <= Release[p] /\ item[p] \in ledger
      <4>1. GoesOn(p, "checking", item[p] + 1)
        BY <2>1, <2>2, <2>3, <2>4, <2>5, <2>8, <3>2, SMT
           DEF GoesOn, Check, Goes, At, InSession, AtMigration
      <4>2. item[p] + 1 \in 1 .. Release[p] + 1
        BY <2>1, <3>2, SMT
      <4> QED
        BY <1>2, <4>1, <4>2, ProcessGoesOn DEF Position
    <3>3. CASE item[p] <= Release[p] /\ item[p] \notin ledger
      <4>1. GoesOn(p, "executing", item[p])
        BY <2>1, <2>2, <2>3, <2>4, <2>5, <2>8, <3>3, SMT
           DEF GoesOn, Check, Goes, At, InSession, AtMigration
      <4> QED
        BY <1>2, <2>1, <4>1, ProcessGoesOn DEF Position
    <3> QED
      BY <2>1, <3>1, <3>2, <3>3, SMT
  <2>9. CASE Execute(p)
    <3>1. item[p] \notin ToSet(schema)
      BY <2>3, <2>4, <2>5, <2>9, SMT DEF Execute, At, AtMigration
    <3>2. GoesOn(p, "recording", item[p])
      BY <2>1, <2>2, <2>3, <2>4, <2>9, <3>1, SMT
         DEF GoesOn, Execute, Goes, At, InSession, AtMigration
    <3> QED
      BY <1>2, <2>1, <3>2, ProcessGoesOn DEF Position
  <2>10. CASE Record(p)
    <3>1. GoesOn(p, "committing", item[p])
      BY <2>1, <2>2, <2>3, <2>4, <2>10, SMT
         DEF GoesOn, Record, Goes, At, InSession, AtMigration
    <3> QED
      BY <1>2, <2>1, <3>1, ProcessGoesOn DEF Position
  <2>11. CASE Commit(p)
    <3>1. Commits(p, "checking", item[p] + 1)
      BY <2>1, <2>2, <2>3, <2>4, <2>11, SMT
         DEF Commits, Commit, Goes, At, InSession, AtMigration
    <3> QED
      BY <1>2, <2>1, <2>11, <3>1, MigrationIsCommitted DEF Commit
  <2>12. CASE Unlock(p)
    <3>1. GoesOn(p, "serving", item[p])
      BY <2>1, <2>2, <2>3, <2>4, <2>12, SMT
         DEF GoesOn, Unlock, Goes, At, InSession, AtMigration
    <3> QED
      BY <1>2, <2>1, <3>1, ProcessGoesOn DEF Position
  <2>13. CASE Fails(p)
    <3>1. GoesOn(p, "down", item[p])
      BY <2>1, <2>2, <2>3, <2>4, <2>13, SMT
         DEF GoesOn, Fails, Goes, At, InSession, AtMigration, Ends, GivesUpLock
    <3> QED
      BY <1>2, <2>1, <3>1, ProcessGoesOn DEF Position
  <2>14. CASE CommitReplyLost(p)
    <3>1. Commits(p, "down", item[p])
      BY <2>1, <2>2, <2>3, <2>4, <2>14, SMT
         DEF Commits, CommitReplyLost, Goes, At, InSession, AtMigration, Ends, GivesUpLock
    <3> QED
      BY <1>2, <2>1, <2>14, <3>1, MigrationIsCommitted DEF CommitReplyLost
  <2> QED
    BY <1>2, <2>6, <2>7, <2>8, <2>9, <2>10, <2>11, <2>12, <2>13, <2>14 DEF Apply
<1> QED
  BY <1>1, <1>2 DEF Next

-----------------------------------------------------------------------------
(* The requests *)

\* What a client's transaction knows: its stream is there, the lock is its own,
\* and what it has found out under the lock stays true.
CallIsTrue(c) ==
  LET call == client[c]
  IN  /\ call.pc = "idle" => call = Http!NoCall
      /\ call.pc # "answering" => call.status = NULL
      /\ call.pc \in {"open", "locked", "inserting"} =>
           /\ call.op \in {"StartCollection", "RetryCollection"}
           /\ call.op = "RetryCollection" => call.ref \in DOMAIN jobs
           /\ call.begun # 0
      /\ call.pc \in {"locked", "inserting"} =>
           streamLock = c /\ registered = TRUE
      /\ call.pc = "inserting" =>
           /\ Http!ActiveJobs = {}
           /\ call.op = "RetryCollection" => jobs[call.ref].status = "retryable"
      /\ call.status = 202 /\ call.op = "RetryCollection" => call.shown > call.ref

\* The rows are within the bounds; an active row is the last one.
RowsAreOrdered ==
  /\ Len(jobs) <= MaxJobs
  /\ Len(reservations) <= MaxReservations
  /\ Http!ActiveJobs \subseteq {Len(jobs)}
  /\ Http!ActiveReservations \subseteq {Len(reservations)}
  /\ jobs # <<>> => registered = TRUE

\* Some job was asked for last: what the choice of Latest is made from.
SomeJobIsLatest ==
  jobs # <<>> =>
    \E j \in DOMAIN jobs : \A k \in DOMAIN jobs : jobs[k].begun <= jobs[j].begun

RequestInv ==
  /\ Http!TypeOK
  /\ RowsAreOrdered
  /\ SomeJobIsLatest
  /\ \A c \in Clients : CallIsTrue(c)

LEMMA RequestInit == Http!Init => RequestInv
<1> SUFFICES ASSUME Http!Init PROVE RequestInv
  OBVIOUS
<1>1. Http!NoCall \in Http!Call
  BY BoundsAreNumbers, SMT DEF Http!NoCall, Http!Call, Http!Statuses, Http!Commands
<1>2. Http!TypeOK
  <2>1. client \in [Clients -> Http!Call]
    BY <1>1 DEF Http!Init
  <2>2. registered \in BOOLEAN
    BY DEF Http!Init
  <2>3. /\ jobs \in Seq(Http!Job) /\ reservations \in Seq(Http!Reservation)
        /\ streamLock \in Clients \union {NULL} /\ clock \in 0 .. MaxTransactions
    BY BoundsAreNumbers, SMT DEF Http!Init
  <2> QED
    BY <2>1, <2>2, <2>3 DEF Http!TypeOK
<1>3. RowsAreOrdered
  BY BoundsAreNumbers, SMT
     DEF Http!Init, RowsAreOrdered, Http!ActiveJobs, Http!ActiveReservations
<1>4. SomeJobIsLatest
  BY DEF Http!Init, SomeJobIsLatest
<1>5. ASSUME NEW c \in Clients PROVE CallIsTrue(c)
  <2>1. client[c] = Http!NoCall
    BY DEF Http!Init
  <2> QED
    BY <2>1, NullIsNoStatus, SMT DEF CallIsTrue, Http!NoCall
<1> QED
  BY <1>2, <1>3, <1>4, <1>5 DEF RequestInv

\* A client's call becomes t; the others see what they have seen before.
CallBecomes(c, t) ==
  /\ client' = [client EXCEPT ![c] = t]
  /\ registered' \in BOOLEAN
  /\ registered = TRUE => registered' = TRUE
  /\ streamLock' \in Clients \union {NULL}
  /\ streamLock' = streamLock \/ streamLock \in {c, NULL}
  /\ clock' \in 0 .. MaxTransactions

\* ... and the jobs are left alone.
LEMMA CallGoesOn ==
  ASSUME RequestInv, NEW c \in Clients, NEW t \in Http!Call, CallBecomes(c, t),
         CallIsTrue(c)', UNCHANGED jobs,
         reservations' \in Seq(Http!Reservation),
         Len(reservations') <= MaxReservations,
         Http!ActiveReservations' \subseteq {Len(reservations')}
  PROVE  RequestInv'
<1>1. /\ client'[c] = t
      /\ \A d \in Clients \ {c} : client'[d] = client[d]
      /\ client' \in [Clients -> Http!Call]
  BY DEF RequestInv, Http!TypeOK, CallBecomes
<1>2. Http!TypeOK'
  BY <1>1 DEF RequestInv, Http!TypeOK, CallBecomes
<1>3. RowsAreOrdered'
  BY DEF RequestInv, RowsAreOrdered, CallBecomes, Http!ActiveJobs
<1>4. SomeJobIsLatest'
  BY DEF RequestInv, SomeJobIsLatest
<1>5. ASSUME NEW d \in Clients \ {c} PROVE CallIsTrue(d)'
  <2>1. CallIsTrue(d) /\ client'[d] = client[d]
    BY <1>1, <1>5 DEF RequestInv
  <2>2. streamLock = d => streamLock' = d
    BY NullIsNoClient DEF CallBecomes
  <2> QED
    BY <2>1, <2>2 DEF CallIsTrue, CallBecomes, Http!ActiveJobs
<1> QED
  BY <1>2, <1>3, <1>4, <1>5 DEF RequestInv
\* The reservations are within the bound, and only the last one is not over.
ReservationsAreInOrder ==
  /\ reservations \in Seq(Http!Reservation)
  /\ Len(reservations) <= MaxReservations
  /\ Http!ActiveReservations \subseteq {Len(reservations)}

AnswerOf(call, status, shown) ==
  [call EXCEPT !.pc = "answering", !.status = status, !.begun = 0,
               !.shown = shown]

LEMMA AnswerIsCall ==
  ASSUME NEW call \in Http!Call, NEW status \in Http!Statuses,
         NEW shown \in 0 .. MaxJobs
  PROVE  LET t == AnswerOf(call, status, shown)
         IN  /\ t \in Http!Call
             /\ t.pc = "answering" /\ t.status = status /\ t.shown = shown
             /\ t.op = call.op /\ t.ref = call.ref
<1> DEFINE t1 == [call EXCEPT !.pc = "answering"]
           t2 == [t1 EXCEPT !.status = status]
           t3 == [t2 EXCEPT !.begun = 0]
           t4 == [t3 EXCEPT !.shown = shown]
<1>1. t1 \in Http!Call /\ t1.pc = "answering" /\ t1.op = call.op /\ t1.ref = call.ref
  BY SMT DEF Http!Call
<1> HIDE DEF t1
<1>2. /\ t2 \in Http!Call
      /\ t2.pc = "answering" /\ t2.op = call.op /\ t2.ref = call.ref
      /\ t2.status = status
  BY <1>1, SMT DEF Http!Call
<1> HIDE DEF t2
<1>3. /\ t3 \in Http!Call
      /\ t3.pc = "answering" /\ t3.op = call.op /\ t3.ref = call.ref
      /\ t3.status = status
  BY <1>2, BoundsAreNumbers, SMT DEF Http!Call
<1> HIDE DEF t3
<1>4. /\ t4 \in Http!Call
      /\ t4.pc = "answering" /\ t4.op = call.op /\ t4.ref = call.ref
      /\ t4.status = status /\ t4.shown = shown
  BY <1>3, SMT DEF Http!Call
<1>5. t4 = AnswerOf(call, status, shown)
  BY DEF t1, t2, t3, t4, AnswerOf
<1> QED
  BY <1>4, <1>5

\* An answer that changes no job.
LEMMA CallIsAnswered ==
  ASSUME RequestInv, NEW c \in Clients, NEW status \in Http!Statuses,
         NEW shown \in 0 .. MaxJobs, Http!Answers(c, status, shown),
         status = 202 => client[c].op # "RetryCollection",
         registered' \in BOOLEAN, registered = TRUE => registered' = TRUE,
         UNCHANGED jobs, clock' \in 0 .. MaxTransactions, ReservationsAreInOrder'
  PROVE  RequestInv'
<1> DEFINE t == AnswerOf(client[c], status, shown)
<1>1. client[c] \in Http!Call
  BY DEF RequestInv, Http!TypeOK
<1>2. /\ t \in Http!Call
      /\ t.pc = "answering" /\ t.status = status /\ t.op = client[c].op
  BY <1>1, AnswerIsCall
<1>3. CallBecomes(c, t)
  <2>1. client' = [client EXCEPT ![c] = t]
    BY DEF Http!Answers, AnswerOf
  <2>2. /\ streamLock' \in Clients \union {NULL}
        /\ streamLock' = streamLock \/ streamLock \in {c, NULL}
    BY DEF Http!Answers, RequestInv, Http!TypeOK
  <2> QED
    BY <2>1, <2>2 DEF CallBecomes
<1> HIDE DEF t
<1>4. CallIsTrue(c)'
  <2>1. client'[c] = t
    BY <1>3 DEF CallBecomes, RequestInv, Http!TypeOK
  <2> QED
    BY <1>2, <2>1 DEF CallIsTrue
<1> QED
  BY <1>2, <1>3, <1>4, CallGoesOn DEF ReservationsAreInOrder

LEMMA RequestStutter == RequestInv /\ UNCHANGED Http!vars => RequestInv'
  BY DEF RequestInv, Http!TypeOK, RowsAreOrdered, SomeJobIsLatest, CallIsTrue,
         Http!vars, Http!ActiveJobs, Http!ActiveReservations
\* The command is accepted: a call of its own, about a row that is there or 0.
AcceptedCall(op, ref) ==
  [Http!NoCall EXCEPT !.pc = "accepted", !.op = op, !.ref = ref]

LEMMA AcceptedIsCall ==
  ASSUME NEW op \in Http!Commands, NEW ref \in Nat
  PROVE  LET t == AcceptedCall(op, ref)
         IN  /\ t \in Http!Call
             /\ t.pc = "accepted" /\ t.op = op /\ t.ref = ref /\ t.status = NULL
<1> DEFINE t0 == Http!NoCall
           t1 == [t0 EXCEPT !.pc = "accepted"]
           t2 == [t1 EXCEPT !.op = op]
           t3 == [t2 EXCEPT !.ref = ref]
<1>1. t0 \in Http!Call /\ t0.status = NULL
  BY BoundsAreNumbers, SMT DEF Http!NoCall, Http!Call
<1> HIDE DEF t0
<1>2. t1 \in Http!Call /\ t1.pc = "accepted" /\ t1.status = NULL
  BY <1>1, SMT DEF Http!Call
<1> HIDE DEF t1
<1>3. t2 \in Http!Call /\ t2.pc = "accepted" /\ t2.op = op /\ t2.status = NULL
  BY <1>2, SMT DEF Http!Call
<1> HIDE DEF t2
<1>4. /\ t3 \in Http!Call
      /\ t3.pc = "accepted" /\ t3.op = op /\ t3.ref = ref /\ t3.status = NULL
  BY <1>3, SMT DEF Http!Call
<1>5. t3 = AcceptedCall(op, ref)
  BY DEF t0, t1, t2, t3, AcceptedCall
<1> QED
  BY <1>4, <1>5

\* A call whose transaction goes to another point.
GoesTo(call, point) == [call EXCEPT !.pc = point]

LEMMA GoesToIsCall ==
  ASSUME NEW call \in Http!Call, NEW point \in {"locked", "inserting"}
  PROVE  LET t == GoesTo(call, point)
         IN  /\ t \in Http!Call /\ t.pc = point
             /\ t.op = call.op /\ t.ref = call.ref /\ t.begun = call.begun
             /\ t.status = call.status
  BY SMT DEF GoesTo, Http!Call

Opened(call, begun) == [call EXCEPT !.pc = "open", !.begun = begun]

LEMMA OpenedIsCall ==
  ASSUME NEW call \in Http!Call, NEW begun \in 0 .. MaxTransactions
  PROVE  LET t == Opened(call, begun)
         IN  /\ t \in Http!Call /\ t.pc = "open"
             /\ t.op = call.op /\ t.ref = call.ref /\ t.begun = begun
             /\ t.status = call.status
<1> DEFINE t1 == [call EXCEPT !.pc = "open"]
           t2 == [t1 EXCEPT !.begun = begun]
<1>1. /\ t1 \in Http!Call /\ t1.pc = "open"
      /\ t1.op = call.op /\ t1.ref = call.ref /\ t1.status = call.status
  BY SMT DEF Http!Call
<1> HIDE DEF t1
<1>2. /\ t2 \in Http!Call /\ t2.pc = "open"
      /\ t2.op = call.op /\ t2.ref = call.ref /\ t2.begun = begun
      /\ t2.status = call.status
  BY <1>1, SMT DEF Http!Call
<1>3. t2 = Opened(call, begun)
  BY DEF t1, t2, Opened
<1> QED
  BY <1>2, <1>3

LEMMA AcceptKeeps ==
  ASSUME RequestInv, NEW c \in Clients, NEW request \in Http!AcceptedCommands,
         NEW ref \in 0 .. Http!MaxRef, Http!Accept(c, request, ref)
  PROVE  RequestInv'
<1> DEFINE t == AcceptedCall(request.op, ref)
<1>1. request.op \in Http!Commands
  BY DEF Http!AcceptedCommands
<1>2. ref \in Nat
  BY BoundsAreNumbers, SMT DEF Http!MaxRef
<1>3. t \in Http!Call /\ t.pc = "accepted" /\ t.status = NULL
  BY <1>1, <1>2, AcceptedIsCall
<1>4. CallBecomes(c, t)
  BY DEF Http!Accept, CallBecomes, AcceptedCall, RequestInv, Http!TypeOK, Http!Rows
<1> HIDE DEF t
<1>5. client'[c] = t
  BY <1>4 DEF CallBecomes, RequestInv, Http!TypeOK
<1>6. CallIsTrue(c)'
  BY <1>3, <1>5, NullIsNoStatus DEF CallIsTrue
<1> QED
  BY <1>3, <1>4, <1>6, CallGoesOn
     DEF Http!Accept, Http!Rows, RequestInv, Http!TypeOK, RowsAreOrdered,
         Http!ActiveReservations

LEMMA ReservationsStay ==
  RequestInv /\ UNCHANGED reservations => ReservationsAreInOrder'
  BY DEF ReservationsAreInOrder, RequestInv, Http!TypeOK, RowsAreOrdered,
         Http!ActiveReservations

LEMMA CreateStreamKeeps ==
  ASSUME RequestInv, NEW c \in Clients, Http!CreateStream(c)
  PROVE  RequestInv'
<1>1. /\ client[c].op # "RetryCollection" /\ 0 \in 0 .. MaxJobs
      /\ UNCHANGED <<jobs, reservations>> /\ clock' \in 0 .. MaxTransactions
  BY BoundsAreNumbers DEF Http!CreateStream, Http!Ready, RequestInv, Http!TypeOK
<1>2. ReservationsAreInOrder'
  BY <1>1, ReservationsStay
<1>3. PICK status \in Http!Statuses : Http!Answers(c, status, 0)
  BY SMT DEF Http!CreateStream, Http!problemFor, Http!Statuses
<1>4. registered' \in BOOLEAN /\ (registered = TRUE => registered' = TRUE)
  BY DEF Http!CreateStream, RequestInv, Http!TypeOK
<1> QED
  BY <1>1, <1>2, <1>3, <1>4, CallIsAnswered

LEMMA BeginKeeps ==
  ASSUME RequestInv, NEW c \in Clients, Http!Begin(c)
  PROVE  RequestInv'
<1>1. /\ UNCHANGED <<registered, jobs, reservations>>
      /\ clock' = clock + 1 /\ clock' \in 0 .. MaxTransactions /\ clock' # 0
  BY BoundsAreNumbers, SMT DEF Http!Begin, Http!Rows, RequestInv, Http!TypeOK
<1>2. ReservationsAreInOrder'
  BY <1>1, ReservationsStay
<1>3. registered \in BOOLEAN /\ client[c] \in Http!Call
  BY DEF RequestInv, Http!TypeOK
<1>4. CASE client[c].op = "RetryCollection" /\ client[c].ref \notin DOMAIN jobs
  <2>1. PICK status \in Http!Statuses : status # 202 /\ Http!Answers(c, status, 0)
    BY <1>4, SMT DEF Http!Begin, Http!collectionProblemFor, Http!Statuses
  <2>2. 0 \in 0 .. MaxJobs
    BY BoundsAreNumbers, SMT
  <2>3. registered' \in BOOLEAN /\ (registered = TRUE => registered' = TRUE)
    BY <1>1, <1>3
  <2>4. UNCHANGED jobs /\ clock' \in 0 .. MaxTransactions
    BY <1>1
  <2> QED
    BY <1>2, <2>1, <2>2, <2>3, <2>4, CallIsAnswered
<1>5. CASE client[c].op = "RetryCollection" => client[c].ref \in DOMAIN jobs
  <2> DEFINE t == Opened(client[c], clock')
  <2>1. /\ t \in Http!Call /\ t.pc = "open"
        /\ t.op = client[c].op /\ t.ref = client[c].ref /\ t.begun = clock'
        /\ t.status = client[c].status
    BY <1>1, <1>3, OpenedIsCall
  <2>2. /\ client' = [client EXCEPT ![c] = t] /\ UNCHANGED streamLock
        /\ client[c].op \in {"StartCollection", "RetryCollection"}
        /\ client[c].pc = "accepted"
    BY <1>5 DEF Http!Begin, Opened
  <2> HIDE DEF t
  <2>3. CallBecomes(c, t)
    BY <1>1, <2>2 DEF CallBecomes, RequestInv, Http!TypeOK
  <2>4. client'[c] = t /\ client[c].status = NULL
    BY <2>2 DEF RequestInv, Http!TypeOK, CallIsTrue
  <2>5. CallIsTrue(c)'
    BY <1>1, <1>5, <2>1, <2>2, <2>4, NullIsNoStatus DEF CallIsTrue
  <2> QED
    BY <1>1, <1>2, <2>1, <2>3, <2>5, CallGoesOn DEF ReservationsAreInOrder
<1> QED
  BY <1>4, <1>5

\* The rows stay, and the call is answered or goes to another point.
LEMMA TransactionGoesOn ==
  ASSUME RequestInv, NEW c \in Clients, NEW point \in {"locked", "inserting"},
         client' = [client EXCEPT ![c].pc = point],
         UNCHANGED <<registered, jobs, reservations, clock>>,
         client[c].pc \in {"open", "locked"},
         streamLock' = c, streamLock \in {c, NULL}, registered = TRUE,
         point = "inserting" =>
           /\ Http!ActiveJobs = {}
           /\ client[c].op = "RetryCollection" =>
                jobs[client[c].ref].status = "retryable"
  PROVE  RequestInv'
<1> DEFINE t == GoesTo(client[c], point)
<1>1. /\ t \in Http!Call /\ t.pc = point
      /\ t.op = client[c].op /\ t.ref = client[c].ref /\ t.begun = client[c].begun
      /\ t.status = client[c].status
  BY GoesToIsCall DEF RequestInv, Http!TypeOK
<1>2. client' = [client EXCEPT ![c] = t]
  BY DEF GoesTo
<1> HIDE DEF t
<1>3. CallBecomes(c, t)
  BY <1>2 DEF CallBecomes, RequestInv, Http!TypeOK
<1>4. /\ client'[c] = t /\ CallIsTrue(c)
  BY <1>2 DEF RequestInv, Http!TypeOK
<1>5. CallIsTrue(c)'
  BY <1>1, <1>4, NullIsNoStatus DEF CallIsTrue, Http!ActiveJobs
<1>6. ReservationsAreInOrder'
  BY ReservationsStay
<1> QED
  BY <1>1, <1>3, <1>5, <1>6, CallGoesOn DEF ReservationsAreInOrder
\* An answer of a command that has found no row to change.
LEMMA CallIsRefused ==
  ASSUME RequestInv, NEW c \in Clients, NEW status \in Http!Statuses, status # 202,
         Http!Answers(c, status, 0), UNCHANGED <<Http!Rows, clock>>
  PROVE  RequestInv'
<1>1. 0 \in 0 .. MaxJobs
  BY BoundsAreNumbers, SMT
<1>2. /\ registered' \in BOOLEAN /\ (registered = TRUE => registered' = TRUE)
      /\ UNCHANGED jobs /\ clock' \in 0 .. MaxTransactions
  BY DEF Http!Rows, RequestInv, Http!TypeOK
<1>3. ReservationsAreInOrder'
  BY ReservationsStay DEF Http!Rows
<1> QED
  BY <1>1, <1>2, <1>3, CallIsAnswered

LEMMA LockStreamKeeps ==
  ASSUME RequestInv, NEW c \in Clients, Http!LockStream(c)
  PROVE  RequestInv'
<1>1. UNCHANGED <<registered, jobs, reservations, clock>> /\ client[c].pc = "open"
  BY DEF Http!LockStream, Http!Rows
<1>2. CASE ~registered
  <2>1. PICK status \in Http!Statuses : status # 202 /\ Http!Answers(c, status, 0)
    BY <1>2, SMT DEF Http!LockStream, Http!collectionProblemFor, Http!Statuses
  <2> QED
    BY <1>1, <2>1, CallIsRefused DEF Http!Rows
<1>3. CASE registered
  <2>1. registered = TRUE
    BY <1>3 DEF RequestInv, Http!TypeOK
  <2>2. /\ client' = [client EXCEPT ![c].pc = "locked"]
        /\ streamLock = NULL /\ streamLock' = c
    BY <1>3 DEF Http!LockStream
  <2> QED
    BY <1>1, <2>1, <2>2, TransactionGoesOn
<1> QED
  BY <1>2, <1>3

LEMMA CheckForStartKeeps ==
  ASSUME RequestInv, NEW c \in Clients, Http!CheckForStart(c)
  PROVE  RequestInv'
<1>1. /\ UNCHANGED <<registered, jobs, reservations, clock>>
      /\ client[c].pc = "locked" /\ client[c].op = "StartCollection"
  BY DEF Http!CheckForStart, Http!Rows, Http!Locked
<1>2. registered = TRUE /\ streamLock = c
  BY <1>1 DEF RequestInv, CallIsTrue
<1>3. CASE Http!ActiveJobs = {} /\ Http!Inserting(c)
  BY <1>1, <1>2, <1>3, TransactionGoesOn DEF Http!Inserting
<1>4. ASSUME NEW j \in Http!ActiveJobs, Http!Answers(c, 202, j) PROVE RequestInv'
  <2>1. j \in 0 .. MaxJobs
    BY BoundsAreNumbers, SMT
       DEF RequestInv, Http!TypeOK, RowsAreOrdered, Http!ActiveJobs
  <2>2. PICK status \in Http!Statuses : Http!Answers(c, status, j)
    BY <1>4, SMT DEF Http!Statuses
  <2>3. /\ registered' \in BOOLEAN /\ (registered = TRUE => registered' = TRUE)
        /\ UNCHANGED jobs /\ clock' \in 0 .. MaxTransactions
        /\ client[c].op # "RetryCollection"
    BY <1>1 DEF RequestInv, Http!TypeOK
  <2>4. ReservationsAreInOrder'
    BY <1>1, ReservationsStay
  <2> QED
    BY <2>1, <2>2, <2>3, <2>4, CallIsAnswered
<1> QED
  BY <1>3, <1>4 DEF Http!CheckForStart

LEMMA CheckForRetryKeeps ==
  ASSUME RequestInv, NEW c \in Clients, Http!CheckForRetry(c)
  PROVE  RequestInv'
<1>1. /\ UNCHANGED <<registered, jobs, reservations, clock>>
      /\ client[c].pc = "locked" /\ client[c].op = "RetryCollection"
  BY DEF Http!CheckForRetry, Http!Rows, Http!Locked
<1>2. registered = TRUE /\ streamLock = c
  BY <1>1 DEF RequestInv, CallIsTrue
<1>3. CASE jobs[client[c].ref].status # "retryable" \/ Http!ActiveJobs # {}
  <2>1. PICK status \in Http!Statuses : status # 202 /\ Http!Answers(c, status, 0)
    BY <1>3, SMT DEF Http!CheckForRetry, Http!collectionProblemFor, Http!Statuses
  <2> QED
    BY <1>1, <2>1, CallIsRefused DEF Http!Rows
<1>4. CASE jobs[client[c].ref].status = "retryable" /\ Http!ActiveJobs = {}
  <2>1. Http!Inserting(c)
    BY <1>4 DEF Http!CheckForRetry
  <2> QED
    BY <1>1, <1>2, <1>4, <2>1, TransactionGoesOn DEF Http!Inserting
<1> QED
  BY <1>3, <1>4

\* The new job is active, the last one, and not the job that is retried; the
\* lock keeps every other client from inserting.
LEMMA InsertJobKeeps ==
  ASSUME RequestInv, NEW c \in Clients, Http!InsertJob(c)
  PROVE  RequestInv'
<1> DEFINE new == [begun |-> client[c].begun, status |-> "active"]
           n == Len(jobs) + 1
           t == AnswerOf(client[c], 202, n)
<1>1. /\ client[c] \in Http!Call /\ client[c].pc = "inserting"
      /\ client[c].begun \in 1 .. MaxTransactions
      /\ streamLock = c /\ registered = TRUE /\ Http!ActiveJobs = {}
      /\ client[c].op = "RetryCollection" => client[c].ref \in DOMAIN jobs
  BY SMT DEF Http!InsertJob, RequestInv, Http!TypeOK, CallIsTrue, Http!Call
<1>2. /\ UNCHANGED <<registered, reservations, clock>>
      /\ jobs \in Seq(Http!Job) /\ Len(jobs) \in Nat /\ Len(jobs) < MaxJobs
      /\ jobs' = Append(jobs, new) /\ new \in Http!Job
  BY <1>1 DEF Http!InsertJob, RequestInv, Http!TypeOK, Http!Job
<1>3. new.status = "active" /\ new.begun = client[c].begun
  OBVIOUS
<1> HIDE DEF new
<1>4. /\ jobs' \in Seq(Http!Job) /\ Len(jobs') = n /\ jobs'[n] = new
      /\ DOMAIN jobs' = DOMAIN jobs \union {n} /\ n \notin DOMAIN jobs
      /\ \A j \in DOMAIN jobs : jobs'[j] = jobs[j]
      /\ n \in 0 .. MaxJobs
  BY <1>2, BoundsAreNumbers, SMT
<1>5. /\ t \in Http!Call
      /\ t.pc = "answering" /\ t.status = 202 /\ t.shown = n
      /\ t.op = client[c].op /\ t.ref = client[c].ref
  <2>1. 202 \in Http!Statuses
    BY SMT DEF Http!Statuses
  <2> QED
    BY <1>1, <1>4, <2>1, AnswerIsCall
<1>6. client' = [client EXCEPT ![c] = t] /\ streamLock' = NULL
  BY <1>1, <1>2, <1>4 DEF Http!InsertJob, Http!Answers, AnswerOf
<1> HIDE DEF n, t
<1>7. /\ client'[c] = t /\ client' \in [Clients -> Http!Call]
      /\ \A d \in Clients \ {c} : client'[d] = client[d]
  BY <1>5, <1>6 DEF RequestInv, Http!TypeOK
<1>8. Http!TypeOK'
  BY <1>2, <1>4, <1>6, <1>7 DEF RequestInv, Http!TypeOK
<1>9. Http!ActiveJobs' = {n}
  BY <1>1, <1>3, <1>4 DEF Http!ActiveJobs
<1>10. RowsAreOrdered'
  <2>1. Len(jobs') <= MaxJobs
    BY <1>2, <1>4, BoundsAreNumbers, SMT DEF n
  <2>2. jobs' # <<>> => registered' = TRUE
    BY <1>1, <1>2
  <2>3. UNCHANGED Http!ActiveReservations /\ UNCHANGED Len(reservations)
    BY <1>2 DEF Http!ActiveReservations
  <2> QED
    BY <1>2, <1>4, <1>9, <2>1, <2>2, <2>3 DEF RequestInv, RowsAreOrdered
<1>11. SomeJobIsLatest'
  <2>1. \A j \in DOMAIN jobs' : jobs'[j].begun \in Nat
    <3>1. \A j \in DOMAIN jobs' : jobs'[j] \in Http!Job
      BY <1>4
    <3>2. \A job \in Http!Job : job.begun \in Nat
      BY BoundsAreNumbers, SMT DEF Http!Job
    <3> QED
      BY <3>1, <3>2
  <2>2. CASE jobs = <<>>
    <3>1. DOMAIN jobs' = {n}
      <4>1. DOMAIN jobs = {}
        BY <2>2
      <4> QED
        BY <1>4, <4>1
    <3>2. n \in DOMAIN jobs' /\ \A j \in DOMAIN jobs' : jobs'[j].begun <= jobs'[n].begun
      BY <2>1, <3>1, SMT
    <3> QED
      BY <3>2 DEF SomeJobIsLatest
  <2>3. CASE jobs # <<>>
    <3>1. PICK k \in DOMAIN jobs : \A j \in DOMAIN jobs : jobs[j].begun <= jobs[k].begun
      BY <2>3 DEF RequestInv, SomeJobIsLatest
    <3>2. CASE jobs'[n].begun <= jobs'[k].begun
      <4>1. k \in DOMAIN jobs' /\ \A j \in DOMAIN jobs' : jobs'[j].begun <= jobs'[k].begun
        BY <1>4, <3>1, <3>2
      <4> QED
        BY <4>1 DEF SomeJobIsLatest
    <3>3. CASE jobs'[k].begun < jobs'[n].begun
      <4>1. n \in DOMAIN jobs' /\ \A j \in DOMAIN jobs' : jobs'[j].begun <= jobs'[n].begun
        BY <1>4, <2>1, <3>1, <3>3, SMT
      <4> QED
        BY <4>1 DEF SomeJobIsLatest
    <3> QED
      BY <1>4, <2>1, <3>1, <3>2, <3>3, SMT
  <2> QED
    BY <2>2, <2>3
<1>12. ASSUME NEW d \in Clients PROVE CallIsTrue(d)'
  <2>1. CASE d = c
    <3>1. client[c].op = "RetryCollection" => n > client[c].ref
      BY <1>1, <1>2, SMT DEF n
    <3> QED
      BY <1>5, <1>7, <2>1, <3>1 DEF CallIsTrue
  <2>2. CASE d # c
    <3>1. /\ client'[d] = client[d] /\ CallIsTrue(d)
          /\ client[d].pc \notin {"locked", "inserting"}
      BY <1>1, <1>7, <1>12, <2>2 DEF RequestInv, CallIsTrue
    <3> QED
      BY <1>2, <1>4, <3>1 DEF CallIsTrue
  <2> QED
    BY <2>1, <2>2
<1> QED
  BY <1>8, <1>10, <1>11, <1>12 DEF RequestInv
LEMMA CreateReservationKeeps ==
  ASSUME RequestInv, NEW c \in Clients, Http!CreateReservation(c)
  PROVE  RequestInv'
<1>1. /\ UNCHANGED <<registered, jobs, clock>>
      /\ client[c].op # "RetryCollection"
      /\ 0 \in 0 .. MaxJobs
  BY BoundsAreNumbers DEF Http!CreateReservation, Http!Ready
<1>2. /\ registered' \in BOOLEAN /\ (registered = TRUE => registered' = TRUE)
      /\ UNCHANGED jobs /\ clock' \in 0 .. MaxTransactions
  BY <1>1 DEF RequestInv, Http!TypeOK
<1>3. CASE Http!ActiveReservations # {}
  <2>1. PICK status \in Http!Statuses : status # 202 /\ Http!Answers(c, status, 0)
    BY <1>3, SMT DEF Http!CreateReservation, Http!reservationProblemFor, Http!Statuses
  <2> QED
    BY <1>1, <1>3, <2>1, CallIsRefused DEF Http!CreateReservation, Http!Rows
<1>4. CASE Http!ActiveReservations = {}
  <2>1. PICK status \in Http!Statuses : status # 202 /\ Http!Answers(c, status, 0)
    BY <1>4, SMT DEF Http!CreateReservation, Http!Statuses
  <2>2. /\ reservations' = Append(reservations, "open")
        /\ Len(reservations) < MaxReservations
        /\ reservations \in Seq(Http!Reservation)
    BY <1>4 DEF Http!CreateReservation, RequestInv, Http!TypeOK
  <2>3. /\ reservations' \in Seq(Http!Reservation)
        /\ Len(reservations') = Len(reservations) + 1
        /\ Len(reservations') <= MaxReservations
        /\ \A r \in DOMAIN reservations' :
             \/ r \in DOMAIN reservations /\ reservations'[r] = reservations[r]
             \/ r = Len(reservations')
    BY <2>2, BoundsAreNumbers, SMT DEF Http!Reservation
  <2>4. Http!ActiveReservations' \subseteq {Len(reservations')}
    BY <1>4, <2>3 DEF Http!ActiveReservations
  <2>5. ReservationsAreInOrder'
    BY <2>3, <2>4 DEF ReservationsAreInOrder
  <2> QED
    BY <1>1, <1>2, <2>1, <2>5, CallIsAnswered
<1> QED
  BY <1>3, <1>4

\* A reservation that changes was active before.
LEMMA ReservationsChange ==
  ASSUME RequestInv, NEW r \in DOMAIN reservations, reservations[r] # "over",
         NEW state \in Http!Reservation,
         reservations' = [reservations EXCEPT ![r] = state]
  PROVE  ReservationsAreInOrder'
<1>1. /\ reservations \in Seq(Http!Reservation)
      /\ Len(reservations) <= MaxReservations
      /\ Http!ActiveReservations \subseteq {Len(reservations)}
  BY DEF RequestInv, Http!TypeOK, RowsAreOrdered
<1>2. /\ reservations' \in Seq(Http!Reservation)
      /\ Len(reservations') = Len(reservations)
      /\ DOMAIN reservations' = DOMAIN reservations
      /\ \A q \in DOMAIN reservations \ {r} : reservations'[q] = reservations[q]
  BY <1>1, SMT
<1>3. Http!ActiveReservations' \subseteq Http!ActiveReservations
  BY <1>2 DEF Http!ActiveReservations
<1> QED
  BY <1>1, <1>2, <1>3 DEF ReservationsAreInOrder

LEMMA CancelReservationKeeps ==
  ASSUME RequestInv, NEW c \in Clients, Http!CancelReservation(c)
  PROVE  RequestInv'
<1> DEFINE r == client[c].ref
<1>1. /\ UNCHANGED <<registered, jobs, clock>>
      /\ client[c].op # "RetryCollection"
      /\ 0 \in 0 .. MaxJobs
  BY BoundsAreNumbers DEF Http!CancelReservation, Http!Ready
<1>2. /\ registered' \in BOOLEAN /\ (registered = TRUE => registered' = TRUE)
      /\ UNCHANGED jobs /\ clock' \in 0 .. MaxTransactions
  BY <1>1 DEF RequestInv, Http!TypeOK
<1>3. CASE r \notin DOMAIN reservations \/ reservations[r] # "open"
  <2>1. PICK status \in Http!Statuses : status # 202 /\ Http!Answers(c, status, 0)
    BY <1>3, SMT DEF Http!CancelReservation, Http!reservationProblemFor, Http!Statuses
  <2>2. UNCHANGED reservations
    BY <1>3 DEF Http!CancelReservation
  <2> QED
    BY <1>1, <2>1, <2>2, CallIsRefused DEF Http!Rows
<1>4. CASE r \in DOMAIN reservations /\ reservations[r] = "open"
  <2>1. PICK status \in Http!Statuses : status # 202 /\ Http!Answers(c, status, 0)
    BY <1>4, SMT DEF Http!CancelReservation, Http!Statuses
  <2>2. reservations' = [reservations EXCEPT ![r] = "over"]
    BY <1>4 DEF Http!CancelReservation
  <2>3. "over" \in Http!Reservation /\ reservations[r] # "over"
    BY <1>4 DEF Http!Reservation
  <2>4. ReservationsAreInOrder'
    BY <1>4, <2>2, <2>3, ReservationsChange
  <2> QED
    BY <1>1, <1>2, <2>1, <2>4, CallIsAnswered
<1> QED
  BY <1>3, <1>4

LEMMA CallEnds ==
  ASSUME RequestInv, NEW c \in Clients,
         client' = [client EXCEPT ![c] = Http!NoCall],
         streamLock' = streamLock \/ (streamLock = c /\ streamLock' = NULL),
         UNCHANGED <<Http!Rows, clock>>
  PROVE  RequestInv'
<1>1. Http!NoCall \in Http!Call /\ Http!NoCall.status = NULL /\ Http!NoCall.pc = "idle"
  BY BoundsAreNumbers, SMT DEF Http!NoCall, Http!Call
<1>2. CallBecomes(c, Http!NoCall)
  BY DEF CallBecomes, Http!Rows, RequestInv, Http!TypeOK
<1>3. client'[c] = Http!NoCall
  BY DEF RequestInv, Http!TypeOK
<1>4. CallIsTrue(c)'
  BY <1>1, <1>3, NullIsNoStatus DEF CallIsTrue, Http!NoCall
<1>5. ReservationsAreInOrder' /\ UNCHANGED jobs
  BY ReservationsStay DEF Http!Rows
<1> QED
  BY <1>1, <1>2, <1>4, <1>5, CallGoesOn DEF ReservationsAreInOrder

LEMMA JobEndsKeeps ==
  ASSUME RequestInv, NEW j \in DOMAIN jobs, Http!JobEnds(j)
  PROVE  RequestInv'
<1>1. PICK status \in {"over", "retryable"} : jobs' = [jobs EXCEPT ![j].status = status]
  BY DEF Http!JobEnds
<1>2. /\ UNCHANGED <<registered, reservations, streamLock, clock, client>>
      /\ jobs[j].status = "active" /\ jobs \in Seq(Http!Job) /\ jobs[j] \in Http!Job
  BY DEF Http!JobEnds, RequestInv, Http!TypeOK
<1> DEFINE t == [jobs[j] EXCEPT !.status = status]
<1>3. t \in Http!Job /\ t.status = status /\ t.begun = jobs[j].begun
  BY <1>2, SMT DEF Http!Job
<1>4. jobs' = [jobs EXCEPT ![j] = t]
  BY <1>1
<1> HIDE DEF t
<1>5. /\ jobs' \in Seq(Http!Job) /\ Len(jobs') = Len(jobs)
      /\ DOMAIN jobs' = DOMAIN jobs /\ jobs'[j] = t
      /\ \A k \in DOMAIN jobs \ {j} : jobs'[k] = jobs[k]
  BY <1>2, <1>3, <1>4, SMT
<1>6. j \in Http!ActiveJobs /\ Http!ActiveJobs' \subseteq Http!ActiveJobs
  BY <1>2, <1>3, <1>5 DEF Http!ActiveJobs
<1>7. Http!TypeOK'
  BY <1>2, <1>5 DEF RequestInv, Http!TypeOK
<1>8. RowsAreOrdered'
  <2>1. jobs # <<>>
    BY <1>2
  <2> QED
    BY <1>2, <1>5, <1>6, <2>1 DEF RequestInv, RowsAreOrdered, Http!ActiveReservations
<1>9. SomeJobIsLatest'
  <2>1. \A k \in DOMAIN jobs : jobs'[k].begun = jobs[k].begun
    BY <1>3, <1>5
  <2>2. jobs # <<>>
    BY <1>2
  <2> QED
    BY <1>5, <2>1, <2>2 DEF RequestInv, SomeJobIsLatest
<1>10. ASSUME NEW c \in Clients PROVE CallIsTrue(c)'
  <2>1. CallIsTrue(c) /\ client[c].pc # "inserting"
    BY <1>6, <1>10 DEF RequestInv, CallIsTrue
  <2> QED
    BY <1>2, <1>5, <2>1 DEF CallIsTrue
<1> QED
  BY <1>7, <1>8, <1>9, <1>10 DEF RequestInv

LEMMA ReservationGoesOnKeeps ==
  ASSUME RequestInv, NEW r \in DOMAIN reservations, Http!ReservationGoesOn(r)
  PROVE  RequestInv'
<1>1. PICK state \in {"collecting", "over"} :
        reservations' = [reservations EXCEPT ![r] = state]
  BY DEF Http!ReservationGoesOn
<1>2. /\ UNCHANGED <<registered, jobs, streamLock, clock, client>>
      /\ reservations[r] # "over"
  BY DEF Http!ReservationGoesOn
<1>3. ReservationsAreInOrder'
  BY <1>1, <1>2, ReservationsChange DEF Http!Reservation
<1>4. Http!TypeOK' /\ RowsAreOrdered'
  BY <1>2, <1>3
     DEF ReservationsAreInOrder, RequestInv, Http!TypeOK, RowsAreOrdered, Http!ActiveJobs
<1>5. SomeJobIsLatest' /\ \A c \in Clients : CallIsTrue(c)'
  BY <1>2 DEF RequestInv, SomeJobIsLatest, CallIsTrue, Http!ActiveJobs
<1> QED
  BY <1>4, <1>5 DEF RequestInv

LEMMA RequestStep == RequestInv /\ [Http!Next]_(Http!vars) => RequestInv'
<1>1. ASSUME RequestInv, NEW c \in Clients, Http!Reply(c) \/ Http!Fails(c)
      PROVE  RequestInv'
  BY <1>1, CallEnds DEF Http!Reply, Http!Fails
<1> QED
  BY <1>1, RequestStutter, AcceptKeeps, CreateStreamKeeps, BeginKeeps, LockStreamKeeps,
     CheckForStartKeeps, CheckForRetryKeeps, InsertJobKeeps, CreateReservationKeeps,
     CancelReservationKeeps, JobEndsKeeps, ReservationGoesOnKeeps
     DEF Http!Next
-----------------------------------------------------------------------------
(* What the invariants say *)

LEMMA MigrationInvHolds == SchemaInv => MigrationInv
<1>1. ASSUME SchemaInv PROVE ServingIsMigrated
  <2>1. ToSet(schema) = 1 .. Len(schema)
    BY <1>1, ToSetIsSegment DEF SchemaInv, TypeOK, AppliedOnceInOrder
  <2> QED
    BY <1>1, <2>1, ReleaseIsNumber, SMT
       DEF ServingIsMigrated, SchemaInv, TypeOK, ItemsFollowSchema, At
<1> QED
  BY <1>1 DEF SchemaInv, MigrationInv

LEMMA ContractIsCheckedAlways == Http!ContractIsChecked
<1> SUFFICES ASSUME NEW request \in Http!Request, Http!Accepted(request)
             PROVE  /\ request.op \in {"StartCollection", "RetryCollection"}
                         => request.body \notin {"{options}", "too long"}
                    /\ request.query \in {"none", "valid"}
                         \/ request = [op |-> "ListReservations", id |-> "none",
                                       query |-> "out of range", body |-> "none"]
  BY DEF Http!ContractIsChecked
<1>1. request.op \in {"StartCollection", "RetryCollection"}
        => request.body \notin {"{options}", "too long"}
  BY DEF Http!Accepted, Http!AllowsOptions
<1>2. request.query \in {"none", "valid"}
        \/ request = [op |-> "ListReservations", id |-> "none",
                      query |-> "out of range", body |-> "none"]
  <2>1. CASE request.query = "none"
    BY <2>1
  <2>2. CASE request \in [op : {"ListStreams", "ListReservations"}, id : {"none"},
                          query : Http!Queries, body : {"none"}]
    <3>1. /\ request.op \in {"ListStreams", "ListReservations"} /\ request.id = "none"
          /\ request.query \in {"valid", "not a number", "out of range"}
          /\ request.body = "none"
      BY <2>2 DEF Http!Queries
    <3>2. request = [op |-> request.op, id |-> "none", query |-> request.query,
                     body |-> "none"]
      BY <2>2, SMT
    <3>3. request.query # "not a number"
      BY <3>1 DEF Http!Accepted, Http!StreamParams, Http!ReservationParams
    <3>4. request.op = "ListStreams" => request.query # "out of range"
      BY DEF Http!Accepted, Http!StreamHandler
    <3> QED
      BY <3>1, <3>2, <3>3, <3>4
  <2>3. CASE request \in [op : {"ListChatMessages", "SearchChatMessages",
                                "GetChatActivity"},
                          id : Http!IDs, query : Http!Queries, body : {"none"}]
    <3>1. /\ request.op \in {"ListChatMessages", "SearchChatMessages", "GetChatActivity"}
          /\ request.query \in {"valid", "not a number", "out of range"}
      BY <2>3 DEF Http!Queries
    <3>2. request.query \notin {"not a number", "out of range"}
      BY <3>1
         DEF Http!Accepted, Http!StreamParams, Http!MessageParams, Http!MessageHandler
    <3> QED
      BY <3>1, <3>2
  <2>4. \/ request.query = "none"
        \/ request \in [op : {"ListStreams", "ListReservations"}, id : {"none"},
                        query : Http!Queries, body : {"none"}]
        \/ request \in [op : {"ListChatMessages", "SearchChatMessages",
                              "GetChatActivity"},
                        id : Http!IDs, query : Http!Queries, body : {"none"}]
    BY DEF Http!Request
  <2> QED
    BY <2>1, <2>2, <2>3, <2>4
<1> QED
  BY <1>1, <1>2

LEMMA HttpInvHolds == RequestInv => HttpInv
<1> SUFFICES ASSUME RequestInv PROVE HttpInv
  OBVIOUS
<1>1. Http!LatestShowsActive
  <2> SUFFICES ASSUME NEW j \in Http!ActiveJobs
               PROVE  \/ Http!Latest = j
                      \/ Http!Latest < j /\ Http!Latest \notin Http!ActiveJobs
    BY DEF Http!LatestShowsActive
  <2>1. /\ j \in DOMAIN jobs /\ jobs \in Seq(Http!Job)
        /\ Http!ActiveJobs \subseteq {Len(jobs)} /\ j = Len(jobs)
    BY DEF RequestInv, Http!TypeOK, RowsAreOrdered, Http!ActiveJobs
  <2>2. \E k \in DOMAIN jobs : \A i \in DOMAIN jobs : jobs[i].begun <= jobs[k].begun
    BY <2>1 DEF RequestInv, SomeJobIsLatest
  <2>3. Http!Latest \in DOMAIN jobs
    BY <2>2 DEF Http!Latest
  <2> QED
    BY <2>1, <2>3, SMT
<1>2. Http!RetryIsAnotherJob
  BY DEF RequestInv, CallIsTrue, Http!RetryIsAnotherJob
<1> QED
  BY <1>1, <1>2, ContractIsCheckedAlways DEF HttpInv, Http!HttpInv, RequestInv

\* A step of the composition is a step of one part that leaves the other alone.
LEMMA Invariance == ApiSpec => [](SchemaInv /\ RequestInv)
<1>1. ApiInit => SchemaInv /\ RequestInv
  BY MigrationInit, RequestInit DEF ApiInit
<1>2. SchemaInv /\ RequestInv /\ [ApiNext]_apiVars => (SchemaInv /\ RequestInv)'
  BY MigrationStep, RequestStep DEF ApiNext, apiVars, requestVars, Http!vars
<1> QED
  BY <1>1, <1>2, PTL DEF ApiSpec

(***************************************************************************)
(* migrations.go: the schema has had the migrations in their order, each      *)
(* once and without a gap, the ledger is true of it, whoever serves has them  *)
(* all, and no start fails because of another one; for any processes, of any  *)
(* releases, that start and fail any number of times.                         *)
(***************************************************************************)
THEOREM MigrationsHold == ApiSpec => []MigrationInv
  BY Invariance, MigrationInvHolds, PTL

(***************************************************************************)
(* router.go and the repositories behind it: what the OpenAPI document        *)
(* excludes is rejected, polling shows the job that is active, and a retry    *)
(* answers with another job; for any number of clients and rows.              *)
(***************************************************************************)
THEOREM RequestsHold == ApiSpec => []HttpInv
  BY Invariance, HttpInvHolds, PTL
-----------------------------------------------------------------------------
(* HttpApi implements ApiContract: the mapping, in operators of its own *)

RetryableIn(js) == {j \in DOMAIN js : js[j].status = "retryable"}

OpenIn(rs) == {r \in DOMAIN rs : rs[r] = "open"}
ReservedIn(rs) == IF OpenIn(rs) = {} THEN 0 ELSE CHOOSE r \in OpenIn(rs) : TRUE
BusyIn(rs) == \E r \in DOMAIN rs : rs[r] = "collecting"

CallOf(call) ==
  [pc |-> CASE call.pc = "idle" -> "idle"
            [] call.pc = "answering" -> "performed"
            [] OTHER -> "asked",
   op |-> call.op, id |-> call.ref,
   result |-> Http!Result(call.status)]

Calls == [c \in Clients |-> CallOf(client[c])]
Active == Http!ActiveJobs # {}
Retryable == RetryableIn(jobs)
Reserved == ReservedIn(reservations)
Busy == BusyIn(reservations)

C == INSTANCE ApiContract WITH
       Ids <- 1 .. Http!MaxRef, active <- Active, retryable <- Retryable,
       reserved <- Reserved, busy <- Busy, calls <- Calls

LEMMA MappingIsContract ==
  /\ Http!Contract!Init <=> C!Init
  /\ [Http!Contract!Next]_(Http!Contract!vars) <=> [C!Next]_(C!vars)
<1> USE DEF Calls, CallOf, Active, Retryable, RetryableIn, Reserved, ReservedIn, OpenIn,
            Busy, BusyIn
<1>1. Http!Contract!Init <=> C!Init
  BY DEF Http!Contract!Init, C!Init, Http!Contract!NoCall, C!NoCall
<1>2. Http!Contract!vars = C!vars
  BY DEF Http!Contract!vars, C!vars
<1>3. Http!Contract!Next <=> C!Next
  <2>1. ASSUME NEW c \in Clients PROVE Http!Contract!Ask(c) <=> C!Ask(c)
    BY DEF Http!Contract!Ask, C!Ask, Http!Contract!Commands, C!Commands
  <2>2. ASSUME NEW c \in Clients PROVE Http!Contract!Perform(c) <=> C!Perform(c)
    BY DEF Http!Contract!Perform, C!Perform, Http!Contract!Possible, C!Possible,
           Http!Contract!Effect, C!Effect
  <2>3. ASSUME NEW c \in Clients PROVE Http!Contract!Answer(c) <=> C!Answer(c)
    BY DEF Http!Contract!Answer, C!Answer, Http!Contract!NoCall, C!NoCall
  <2>4. Http!Contract!Others <=> C!Others
    BY DEF Http!Contract!Others, C!Others
  <2> QED
    BY <2>1, <2>2, <2>3, <2>4 DEF Http!Contract!Next, C!Next
<1>4. Http!Contract!vars' = C!vars'
  BY DEF Http!Contract!vars, C!vars
<1> QED
  BY <1>1, <1>2, <1>3, <1>4
\* Of reservations that are in order one at most can be seen.
InOrder(rs) ==
  /\ rs \in Seq(Http!Reservation)
  /\ {r \in DOMAIN rs : rs[r] # "over"} \subseteq {Len(rs)}

LEMMA OneIsSeen ==
  ASSUME NEW rs, InOrder(rs)
  PROVE  /\ \A r \in DOMAIN rs : rs[r] = "open" => ReservedIn(rs) = r /\ ~BusyIn(rs)
         /\ \A r \in DOMAIN rs : rs[r] = "collecting" => ReservedIn(rs) = 0 /\ BusyIn(rs)
         /\ (\A r \in DOMAIN rs : rs[r] = "over") => ReservedIn(rs) = 0 /\ ~BusyIn(rs)
         /\ ReservedIn(rs) = 0 \/ (ReservedIn(rs) \in DOMAIN rs
                                   /\ rs[ReservedIn(rs)] = "open")
         /\ 0 \notin DOMAIN rs
<1>1. \A r, q \in DOMAIN rs : rs[r] # "over" /\ rs[q] # "over" => r = q
  BY DEF InOrder
<1>2. ASSUME NEW r \in DOMAIN rs, rs[r] = "open"
      PROVE  ReservedIn(rs) = r /\ ~BusyIn(rs)
  <2>1. OpenIn(rs) = {r}
    BY <1>1, <1>2 DEF OpenIn
  <2> QED
    BY <1>1, <1>2, <2>1 DEF ReservedIn, BusyIn
<1>3. ASSUME NEW r \in DOMAIN rs, rs[r] = "collecting"
      PROVE  ReservedIn(rs) = 0 /\ BusyIn(rs)
  <2>1. OpenIn(rs) = {}
    BY <1>1, <1>3 DEF OpenIn
  <2> QED
    BY <1>3, <2>1 DEF ReservedIn, BusyIn
<1>4. (\A r \in DOMAIN rs : rs[r] = "over") => ReservedIn(rs) = 0 /\ ~BusyIn(rs)
  BY DEF ReservedIn, BusyIn, OpenIn
<1>5. ReservedIn(rs) = 0 \/ (ReservedIn(rs) \in DOMAIN rs /\ rs[ReservedIn(rs)] = "open")
  BY DEF ReservedIn, OpenIn
<1>6. 0 \notin DOMAIN rs
  BY SMT DEF InOrder
<1> QED
  BY <1>2, <1>3, <1>4, <1>5, <1>6

LEMMA ReservationsSeen ==
  ASSUME RequestInv
  PROVE  InOrder(reservations)
  BY DEF RequestInv, Http!TypeOK, RowsAreOrdered, InOrder, Http!ActiveReservations

LEMMA ReservationsSeenNext ==
  ASSUME RequestInv'
  PROVE  InOrder(reservations')
  BY DEF RequestInv, Http!TypeOK, RowsAreOrdered, InOrder, Http!ActiveReservations

\* A call that becomes t becomes it in the contract.
LEMMA CallIsMapped ==
  ASSUME RequestInv, NEW c \in Clients, NEW t, client' = [client EXCEPT ![c] = t]
  PROVE  Calls[c] = CallOf(client[c]) /\ Calls' = [Calls EXCEPT ![c] = CallOf(t)]
  BY DEF RequestInv, Http!TypeOK, Calls

Performed(c, result) ==
  Calls' = [Calls EXCEPT ![c].pc = "performed", ![c].result = result]

LEMMA AnswerIsMapped ==
  ASSUME RequestInv, NEW c \in Clients, NEW status \in Http!Statuses,
         NEW shown \in 0 .. MaxJobs, Http!Answers(c, status, shown),
         client[c].pc \in {"accepted", "open", "locked", "inserting"}
  PROVE  /\ Calls[c].pc = "asked"
         /\ Calls[c].op = client[c].op /\ Calls[c].id = client[c].ref
         /\ status \in {200, 201, 202} => Performed(c, "done")
         /\ status \in {404, 409, 422, 503} => Performed(c, "refused")
<1> DEFINE t == AnswerOf(client[c], status, shown)
<1>1. client[c] \in Http!Call
  BY DEF RequestInv, Http!TypeOK
<1>2. /\ t.pc = "answering" /\ t.status = status
      /\ t.op = client[c].op /\ t.ref = client[c].ref
  BY <1>1, AnswerIsCall
<1>3. client' = [client EXCEPT ![c] = t]
  BY DEF Http!Answers, AnswerOf
<1> HIDE DEF t
<1>4. Calls[c] = CallOf(client[c]) /\ Calls' = [Calls EXCEPT ![c] = CallOf(t)]
  BY <1>3, CallIsMapped
<1>5. /\ CallOf(client[c]).pc = "asked"
      /\ CallOf(client[c]).op = client[c].op /\ CallOf(client[c]).id = client[c].ref
  BY DEF CallOf
<1>6. CallOf(t) = [CallOf(client[c]) EXCEPT !.pc = "performed",
                                            !.result = Http!Result(status)]
  <2>1. CallOf(client[c]) = [pc |-> "asked", op |-> client[c].op,
                             id |-> client[c].ref,
                             result |-> Http!Result(client[c].status)]
    BY DEF CallOf
  <2>2. CallOf(t) = [pc |-> "performed", op |-> client[c].op, id |-> client[c].ref,
                     result |-> Http!Result(status)]
    BY <1>2 DEF CallOf
  <2> DEFINE u == [CallOf(client[c]) EXCEPT !.pc = "performed"]
  <2>3. u = [pc |-> "performed", op |-> client[c].op, id |-> client[c].ref,
             result |-> Http!Result(client[c].status)]
    BY <2>1, SMT
  <2> HIDE DEF u
  <2>4. [u EXCEPT !.result = Http!Result(status)]
          = [pc |-> "performed", op |-> client[c].op, id |-> client[c].ref,
             result |-> Http!Result(status)]
    BY <2>3, SMT
  <2> QED
    BY <2>2, <2>4 DEF u
<1>7. Performed(c, Http!Result(status))
  BY <1>4, <1>6 DEF Performed
<1>8. status \in {200, 201, 202} => Http!Result(status) = "done"
  BY NullIsNoStatus, SMT DEF Http!Result
<1>9. status \in {404, 409, 422, 503} => Http!Result(status) = "refused"
  BY NullIsNoStatus, SMT DEF Http!Result
<1> QED
  BY <1>4, <1>5, <1>7, <1>8, <1>9

\* What a client is refused changes nothing; what it is granted takes effect.
LEMMA RefusedIsPerformed ==
  ASSUME RequestInv, NEW c \in Clients, NEW status \in {404, 409, 422, 503},
         Http!Answers(c, status, 0), UNCHANGED Http!Rows,
         client[c].pc \in {"accepted", "open", "locked", "inserting"},
         ~C!Possible(client[c].op, client[c].ref) \/ client[c].op = "CreateStream"
  PROVE  C!Perform(c)
<1>1. status \in Http!Statuses /\ 0 \in 0 .. MaxJobs
  BY BoundsAreNumbers, SMT DEF Http!Statuses
<1>2. /\ Calls[c].pc = "asked"
      /\ Calls[c].op = client[c].op /\ Calls[c].id = client[c].ref
      /\ Performed(c, "refused")
  BY <1>1, AnswerIsMapped
<1>3. UNCHANGED <<registered, Active, Retryable, Reserved, Busy>>
  BY DEF Http!Rows, Active, Retryable, Reserved, Busy, Http!ActiveJobs
<1> QED
  BY <1>2, <1>3 DEF C!Perform, Performed

LEMMA DoneIsPerformed ==
  ASSUME RequestInv, NEW c \in Clients, NEW status \in {200, 201, 202},
         NEW shown \in 0 .. MaxJobs, Http!Answers(c, status, shown),
         client[c].pc \in {"accepted", "open", "locked", "inserting"},
         C!Possible(client[c].op, client[c].ref), C!Effect(client[c].op)
  PROVE  C!Perform(c)
<1>1. status \in Http!Statuses
  BY SMT DEF Http!Statuses
<1>2. /\ Calls[c].pc = "asked"
      /\ Calls[c].op = client[c].op /\ Calls[c].id = client[c].ref
      /\ Performed(c, "done")
  BY <1>1, AnswerIsMapped
<1> QED
  BY <1>2 DEF C!Perform, Performed
LEMMA NothingYet == Http!Result(NULL) = "none"
  BY NullIsNoStatus, SMT DEF Http!Result

LEMMA AcceptIsAsk ==
  ASSUME RequestInv, NEW c \in Clients, NEW request \in Http!AcceptedCommands,
         NEW ref \in 0 .. Http!MaxRef, Http!Accept(c, request, ref)
  PROVE  C!Ask(c)
<1> DEFINE t == AcceptedCall(request.op, ref)
<1>1. request.op \in Http!Commands /\ ref \in Nat /\ ref \in 1 .. Http!MaxRef \union {0}
  BY BoundsAreNumbers, SMT DEF Http!AcceptedCommands, Http!MaxRef
<1>2. t.pc = "accepted" /\ t.op = request.op /\ t.ref = ref /\ t.status = NULL
  BY <1>1, AcceptedIsCall
<1>3. client' = [client EXCEPT ![c] = t]
  BY DEF Http!Accept, AcceptedCall
<1> HIDE DEF t
<1>4. Calls[c] = CallOf(client[c]) /\ Calls' = [Calls EXCEPT ![c] = CallOf(t)]
  BY <1>3, CallIsMapped
<1>5. Calls[c].pc = "idle"
  BY <1>4 DEF Http!Accept, CallOf
<1>6. CallOf(t) = [pc |-> "asked", op |-> request.op, id |-> ref, result |-> "none"]
  BY <1>2, NothingYet DEF CallOf
<1>7. UNCHANGED <<registered, Active, Retryable, Reserved, Busy>>
  BY DEF Http!Accept, Http!Rows, Active, Retryable, Reserved, Busy, Http!ActiveJobs
<1> QED
  BY <1>1, <1>4, <1>5, <1>6, <1>7 DEF C!Ask, Http!Commands, C!Commands

LEMMA NoCallIsAnswered ==
  ASSUME RequestInv, NEW c \in Clients, client[c].pc # "idle",
         client' = [client EXCEPT ![c] = Http!NoCall], UNCHANGED Http!Rows
  PROVE  C!Answer(c)
<1>1. CallOf(Http!NoCall) = C!NoCall
  BY NothingYet DEF CallOf, Http!NoCall, C!NoCall
<1>2. Calls[c] = CallOf(client[c]) /\ Calls' = [Calls EXCEPT ![c] = C!NoCall]
  BY <1>1, CallIsMapped
<1>3. Calls[c].pc # "idle"
  BY <1>2 DEF CallOf
<1>4. UNCHANGED <<registered, Active, Retryable, Reserved, Busy>>
  BY DEF Http!Rows, Active, Retryable, Reserved, Busy, Http!ActiveJobs
<1> QED
  BY <1>2, <1>3, <1>4 DEF C!Answer

\* The points of a transaction are one to its client.
LEMMA PointIsMapped ==
  ASSUME RequestInv, NEW c \in Clients, NEW t,
         client' = [client EXCEPT ![c] = t], UNCHANGED Http!Rows,
         client[c].pc \in {"accepted", "open", "locked"},
         t.pc \in {"open", "locked", "inserting"},
         t.op = client[c].op, t.ref = client[c].ref, t.status = client[c].status
  PROVE  UNCHANGED C!vars
<1>1. Calls[c] = CallOf(client[c]) /\ Calls' = [Calls EXCEPT ![c] = CallOf(t)]
  BY CallIsMapped
<1>2. CallOf(client[c]) = [pc |-> "asked", op |-> client[c].op, id |-> client[c].ref,
                           result |-> Http!Result(client[c].status)]
  BY DEF CallOf
<1>3. CallOf(t) = [pc |-> "asked", op |-> client[c].op, id |-> client[c].ref,
                   result |-> Http!Result(client[c].status)]
  BY DEF CallOf
<1>4. Calls' = Calls
  BY <1>1, <1>2, <1>3 DEF Calls
<1>5. UNCHANGED <<registered, Active, Retryable, Reserved, Busy>>
  BY DEF Http!Rows, Active, Retryable, Reserved, Busy, Http!ActiveJobs
<1> QED
  BY <1>4, <1>5 DEF C!vars

\* The effect of a command, in the parts that the proofs give.
LEMMA EffectIs ==
  ASSUME NEW op \in C!Commands,
         registered' = (registered \/ op = "CreateStream"),
         Active' = (Active \/ op \in {"StartCollection", "RetryCollection"}),
         op = "CreateReservation" => Reserved' \in 1 .. Http!MaxRef,
         op = "CancelReservation" => Reserved' = 0,
         op \notin {"CreateReservation", "CancelReservation"} => UNCHANGED Reserved,
         UNCHANGED <<Retryable, Busy>>
  PROVE  C!Effect(op)
  BY DEF C!Effect, C!Commands

LEMMA CreateStreamIsMapped ==
  ASSUME RequestInv, NEW c \in Clients, Http!CreateStream(c)
  PROVE  C!Perform(c)
<1>1. /\ client[c].pc = "accepted" /\ client[c].op = "CreateStream"
      /\ UNCHANGED <<jobs, reservations>>
      /\ UNCHANGED <<Active, Retryable, Reserved, Busy>>
  BY DEF Http!CreateStream, Http!Ready, Active, Retryable, Reserved, Busy,
         Http!ActiveJobs
<1>2. CASE UNCHANGED registered
           /\ \E status \in {404, 409, 422, 503} : Http!Answers(c, status, 0)
  BY <1>1, <1>2, RefusedIsPerformed DEF Http!Rows
<1>3. CASE ~registered /\ registered' = TRUE /\ Http!Answers(c, 201, 0)
  <2>1. C!Possible("CreateStream", client[c].ref)
    BY <1>3 DEF C!Possible
  <2>2. C!Effect("CreateStream")
    <3>1. registered' = (registered \/ "CreateStream" = "CreateStream")
      BY <1>3
    <3>2. Active' = (Active \/ "CreateStream" \in {"StartCollection", "RetryCollection"})
      BY <1>1 DEF Active
    <3>3. UNCHANGED <<Retryable, Busy, Reserved>>
      BY <1>1
    <3> QED
      BY <3>1, <3>2, <3>3, EffectIs DEF C!Commands
  <2>3. PICK status \in {200, 201, 202} : Http!Answers(c, status, 0)
    BY <1>3
  <2>4. 0 \in 0 .. MaxJobs
    BY BoundsAreNumbers, SMT
  <2> QED
    BY <1>1, <2>1, <2>2, <2>3, <2>4, DoneIsPerformed
<1>4. registered \in BOOLEAN
  BY DEF RequestInv, Http!TypeOK
<1>5. CASE \E err \in {"ErrVideoUnavailable", "ErrMetadataProviderUnavailable"} :
             UNCHANGED registered /\ Http!Answers(c, Http!problemFor(err), 0)
  BY <1>2, <1>5, SMT DEF Http!problemFor
<1>6. CASE registered = TRUE /\ registered' = TRUE /\ Http!Answers(c, 409, 0)
  BY <1>2, <1>6
<1>7. Http!problemFor("ErrYouTubeVideoIDExists") = 409
  BY DEF Http!problemFor
<1>8. \/ \E err \in {"ErrVideoUnavailable", "ErrMetadataProviderUnavailable"} :
             UNCHANGED registered /\ Http!Answers(c, Http!problemFor(err), 0)
      \/ registered /\ registered' = TRUE /\ Http!Answers(c, 409, 0)
      \/ ~registered /\ registered' = TRUE /\ Http!Answers(c, 201, 0)
  BY <1>7 DEF Http!CreateStream
<1> QED
  BY <1>3, <1>4, <1>5, <1>6, <1>8
LEMMA BeginIsMapped ==
  ASSUME RequestInv, NEW c \in Clients, Http!Begin(c)
  PROVE  C!Perform(c) \/ UNCHANGED C!vars
<1>1. /\ UNCHANGED Http!Rows /\ client[c].pc = "accepted"
      /\ client[c].op \in {"StartCollection", "RetryCollection"}
      /\ client[c] \in Http!Call
  BY DEF Http!Begin, RequestInv, Http!TypeOK
<1>2. CASE client[c].op = "RetryCollection" /\ client[c].ref \notin DOMAIN jobs
  <2>1. Http!Answers(c, 404, 0)
    BY <1>2, SMT DEF Http!Begin, Http!collectionProblemFor
  <2>2. PICK status \in {404, 409, 422, 503} : Http!Answers(c, status, 0)
    BY <2>1
  <2>3. ~C!Possible(client[c].op, client[c].ref)
    BY <1>2 DEF C!Possible, Retryable, RetryableIn
  <2> QED
    BY <1>1, <2>2, <2>3, RefusedIsPerformed
<1>3. CASE client[c].op = "RetryCollection" => client[c].ref \in DOMAIN jobs
  <2> DEFINE t == Opened(client[c], clock')
  <2>1. clock' \in 0 .. MaxTransactions
    BY BoundsAreNumbers, SMT DEF Http!Begin, RequestInv, Http!TypeOK
  <2>2. /\ t.pc = "open" /\ t.op = client[c].op /\ t.ref = client[c].ref
        /\ t.status = client[c].status
    BY <1>1, <2>1, OpenedIsCall
  <2>3. client' = [client EXCEPT ![c] = t]
    BY <1>3 DEF Http!Begin, Opened
  <2> HIDE DEF t
  <2> QED
    BY <1>1, <2>2, <2>3, PointIsMapped
<1> QED
  BY <1>2, <1>3

LEMMA GoesToIsMapped ==
  ASSUME RequestInv, NEW c \in Clients, NEW point \in {"locked", "inserting"},
         client' = [client EXCEPT ![c].pc = point], UNCHANGED Http!Rows,
         client[c].pc \in {"open", "locked"}
  PROVE  UNCHANGED C!vars
<1> DEFINE t == GoesTo(client[c], point)
<1>1. /\ t.pc = point /\ t.op = client[c].op /\ t.ref = client[c].ref
      /\ t.status = client[c].status
  BY GoesToIsCall DEF RequestInv, Http!TypeOK
<1>2. client' = [client EXCEPT ![c] = t]
  BY DEF GoesTo
<1> HIDE DEF t
<1> QED
  BY <1>1, <1>2, PointIsMapped

LEMMA LockStreamIsMapped ==
  ASSUME RequestInv, NEW c \in Clients, Http!LockStream(c)
  PROVE  C!Perform(c) \/ UNCHANGED C!vars
<1>1. UNCHANGED Http!Rows /\ client[c].pc = "open"
  BY DEF Http!LockStream
<1>2. CASE ~registered
  <2>1. PICK status \in {404, 409, 422, 503} : Http!Answers(c, status, 0)
    BY <1>2, SMT DEF Http!LockStream, Http!collectionProblemFor
  <2>2. /\ client[c].op \in {"StartCollection", "RetryCollection"}
        /\ client[c].op = "RetryCollection" => client[c].ref \in DOMAIN jobs
    BY <1>1 DEF RequestInv, CallIsTrue
  <2>3. DOMAIN jobs = {}
    BY <1>2 DEF RequestInv, RowsAreOrdered
  <2>4. client[c].op = "StartCollection"
    BY <2>2, <2>3
  <2>5. ~C!Possible(client[c].op, client[c].ref)
    BY <1>2, <2>4 DEF C!Possible
  <2> QED
    BY <1>1, <2>1, <2>5, RefusedIsPerformed
<1>3. CASE registered
  <2>1. client' = [client EXCEPT ![c].pc = "locked"]
    BY <1>3 DEF Http!LockStream
  <2> QED
    BY <1>1, <2>1, GoesToIsMapped
<1> QED
  BY <1>2, <1>3

LEMMA CheckForStartIsMapped ==
  ASSUME RequestInv, NEW c \in Clients, Http!CheckForStart(c)
  PROVE  C!Perform(c) \/ UNCHANGED C!vars
<1>1. /\ UNCHANGED Http!Rows
      /\ client[c].pc = "locked" /\ client[c].op = "StartCollection"
  BY DEF Http!CheckForStart, Http!Locked
<1>2. CASE Http!Inserting(c)
  BY <1>1, <1>2, GoesToIsMapped DEF Http!Inserting
<1>3. ASSUME NEW j \in Http!ActiveJobs, Http!Answers(c, 202, j) PROVE C!Perform(c)
  <2>1. j \in 0 .. MaxJobs
    BY BoundsAreNumbers, SMT
       DEF RequestInv, Http!TypeOK, RowsAreOrdered, Http!ActiveJobs
  <2>2. PICK status \in {200, 201, 202} : Http!Answers(c, status, j)
    BY <1>3
  <2>3. registered = TRUE
    BY <1>1 DEF RequestInv, CallIsTrue
  <2>4. C!Possible("StartCollection", client[c].ref)
    BY <2>3 DEF C!Possible
  <2>5. C!Effect("StartCollection")
    <3>1. registered' = (registered \/ "StartCollection" = "CreateStream")
      BY <1>1, <2>3 DEF Http!Rows
    <3>2. Active /\ Active'
      BY <1>1 DEF Active, Http!ActiveJobs, Http!Rows
    <3>3. Active' = (Active \/ "StartCollection" \in {"StartCollection", "RetryCollection"})
      BY <3>2
    <3>4. UNCHANGED <<Retryable, Busy, Reserved>>
      BY <1>1 DEF Http!Rows, Retryable, Busy, Reserved
    <3> QED
      BY <3>1, <3>3, <3>4, EffectIs DEF C!Commands
  <2> QED
    BY <1>1, <2>1, <2>2, <2>4, <2>5, DoneIsPerformed
<1> QED
  BY <1>2, <1>3 DEF Http!CheckForStart

LEMMA CheckForRetryIsMapped ==
  ASSUME RequestInv, NEW c \in Clients, Http!CheckForRetry(c)
  PROVE  C!Perform(c) \/ UNCHANGED C!vars
<1>1. /\ UNCHANGED Http!Rows
      /\ client[c].pc = "locked" /\ client[c].op = "RetryCollection"
  BY DEF Http!CheckForRetry, Http!Locked
<1>2. CASE jobs[client[c].ref].status # "retryable" \/ Http!ActiveJobs # {}
  <2>1. PICK status \in {404, 409, 422, 503} : Http!Answers(c, status, 0)
    BY <1>2, SMT DEF Http!CheckForRetry, Http!collectionProblemFor
  <2>2. ~C!Possible(client[c].op, client[c].ref)
    BY <1>1, <1>2 DEF C!Possible, Retryable, RetryableIn, Active
  <2> QED
    BY <1>1, <2>1, <2>2, RefusedIsPerformed
<1>3. CASE Http!Inserting(c)
  BY <1>1, <1>3, GoesToIsMapped DEF Http!Inserting
<1> QED
  BY <1>2, <1>3 DEF Http!CheckForRetry

LEMMA InsertJobIsMapped ==
  ASSUME RequestInv, NEW c \in Clients, Http!InsertJob(c)
  PROVE  C!Perform(c)
<1> DEFINE new == [begun |-> client[c].begun, status |-> "active"]
           n == Len(jobs) + 1
<1>1. /\ client[c].pc = "inserting"
      /\ client[c].op \in {"StartCollection", "RetryCollection"}
      /\ client[c].op = "RetryCollection" =>
           /\ client[c].ref \in DOMAIN jobs
           /\ jobs[client[c].ref].status = "retryable"
      /\ registered = TRUE /\ Http!ActiveJobs = {}
  BY DEF Http!InsertJob, RequestInv, CallIsTrue
<1>2. /\ UNCHANGED <<registered, reservations>>
      /\ jobs \in Seq(Http!Job) /\ Len(jobs) < MaxJobs
      /\ jobs' = Append(jobs, new)
  BY DEF Http!InsertJob, RequestInv, Http!TypeOK
<1>3. new.status = "active"
  OBVIOUS
<1> HIDE DEF new
<1>4. /\ Len(jobs') = n /\ jobs'[n] = new /\ n \notin DOMAIN jobs
      /\ DOMAIN jobs' = DOMAIN jobs \union {n}
      /\ \A j \in DOMAIN jobs : jobs'[j] = jobs[j]
      /\ n \in 0 .. MaxJobs
  BY <1>2, BoundsAreNumbers, SMT
<1>5. PICK status \in {200, 201, 202} : Http!Answers(c, status, n)
  BY <1>4 DEF Http!InsertJob
<1> HIDE DEF n
<1>6. C!Possible(client[c].op, client[c].ref)
  BY <1>1 DEF C!Possible, Retryable, RetryableIn, Active
<1>7. C!Effect(client[c].op)
  <2>1. registered' = (registered \/ client[c].op = "CreateStream")
    BY <1>1, <1>2
  <2>2. Active'
    BY <1>3, <1>4 DEF Active, Http!ActiveJobs
  <2>3. Active' = (Active \/ client[c].op \in {"StartCollection", "RetryCollection"})
    BY <1>1, <2>2
  <2>4. Retryable' = Retryable
    BY <1>3, <1>4 DEF Retryable, RetryableIn
  <2>5. UNCHANGED <<Busy, Reserved>>
    BY <1>2 DEF Busy, Reserved
  <2> QED
    BY <1>1, <2>1, <2>3, <2>4, <2>5, EffectIs DEF C!Commands
<1> QED
  BY <1>1, <1>4, <1>5, <1>6, <1>7, DoneIsPerformed
LEMMA CreateReservationIsMapped ==
  ASSUME RequestInv, NEW c \in Clients, Http!CreateReservation(c)
  PROVE  C!Perform(c)
<1>1. /\ UNCHANGED <<registered, jobs>>
      /\ client[c].pc = "accepted" /\ client[c].op = "CreateReservation"
  BY DEF Http!CreateReservation, Http!Ready
<1>2. InOrder(reservations) /\ reservations \in Seq(Http!Reservation)
  BY ReservationsSeen DEF InOrder
<1>3. CASE Http!ActiveReservations # {}
  <2>1. PICK status \in {404, 409, 422, 503} : Http!Answers(c, status, 0)
    BY <1>3, SMT DEF Http!CreateReservation, Http!reservationProblemFor
  <2>2. PICK r \in DOMAIN reservations : reservations[r] \in {"open", "collecting"}
    BY <1>2, <1>3 DEF Http!ActiveReservations, Http!Reservation
  <2>3. Reserved # 0 \/ Busy
    BY <1>2, <2>2, OneIsSeen DEF Reserved, Busy
  <2>4. ~C!Possible(client[c].op, client[c].ref)
    BY <1>1, <2>3 DEF C!Possible
  <2>5. UNCHANGED Http!Rows
    BY <1>1, <1>3 DEF Http!CreateReservation, Http!Rows
  <2> QED
    BY <1>1, <2>1, <2>4, <2>5, RefusedIsPerformed
<1>4. CASE Http!ActiveReservations = {}
  <2>1. PICK status \in {200, 201, 202} : Http!Answers(c, status, 0)
    BY <1>4 DEF Http!CreateReservation
  <2>2. 0 \in 0 .. MaxJobs
    BY BoundsAreNumbers, SMT
  <2>3. Reserved = 0 /\ ~Busy
    BY <1>2, <1>4, OneIsSeen DEF Reserved, Busy, Http!ActiveReservations
  <2>4. C!Possible(client[c].op, client[c].ref)
    BY <1>1, <2>3 DEF C!Possible
  <2> DEFINE n == Len(reservations) + 1
  <2>5. /\ reservations' = Append(reservations, "open")
        /\ Len(reservations) < MaxReservations
    BY <1>4 DEF Http!CreateReservation
  <2>6. n \in DOMAIN reservations' /\ reservations'[n] = "open"
    BY <1>2, <2>5, SMT
  <2>7. n \in 1 .. Http!MaxRef
    BY <1>2, <2>5, BoundsAreNumbers, SMT DEF Http!MaxRef
  <2> HIDE DEF n
  <2>8. RequestInv'
    BY CreateReservationKeeps
  <2>9. InOrder(reservations')
    BY <2>8, ReservationsSeenNext
  <2>10. Reserved' = n /\ ~Busy'
    BY <2>6, <2>9, OneIsSeen DEF Reserved, Busy
  <2>11. C!Effect(client[c].op)
    <3>1. registered' = (registered \/ "CreateReservation" = "CreateStream")
      BY <1>1 DEF RequestInv, Http!TypeOK
    <3>2. Active' = (Active \/ "CreateReservation" \in {"StartCollection", "RetryCollection"})
      BY <1>1 DEF Active, Http!ActiveJobs
    <3>3. UNCHANGED Retryable
      BY <1>1 DEF Retryable
    <3>4. UNCHANGED Busy
      BY <2>3, <2>10 DEF Busy, BusyIn
    <3> QED
      BY <1>1, <2>7, <2>10, <3>1, <3>2, <3>3, <3>4, EffectIs DEF C!Commands
  <2> QED
    BY <1>1, <2>1, <2>2, <2>4, <2>11, DoneIsPerformed
<1> QED
  BY <1>3, <1>4

LEMMA CancelReservationIsMapped ==
  ASSUME RequestInv, NEW c \in Clients, Http!CancelReservation(c)
  PROVE  C!Perform(c)
<1> DEFINE r == client[c].ref
<1>1. /\ UNCHANGED <<registered, jobs>>
      /\ client[c].pc = "accepted" /\ client[c].op = "CancelReservation"
  BY DEF Http!CancelReservation, Http!Ready
<1>2. InOrder(reservations) /\ reservations \in Seq(Http!Reservation)
  BY ReservationsSeen DEF InOrder
<1>3. CASE r \notin DOMAIN reservations \/ reservations[r] # "open"
  <2>1. PICK status \in {404, 409, 422, 503} : Http!Answers(c, status, 0)
    BY <1>3, SMT DEF Http!CancelReservation, Http!reservationProblemFor
  <2>2. UNCHANGED Http!Rows
    BY <1>1, <1>3 DEF Http!CancelReservation, Http!Rows
  <2>3. r = 0 \/ r # Reserved
    BY <1>2, <1>3, OneIsSeen DEF Reserved
  <2>4. ~C!Possible(client[c].op, r)
    BY <1>1, <2>3 DEF C!Possible
  <2> QED
    BY <1>1, <2>1, <2>2, <2>4, RefusedIsPerformed
<1>4. CASE r \in DOMAIN reservations /\ reservations[r] = "open"
  <2>1. PICK status \in {200, 201, 202} : Http!Answers(c, status, 0)
    BY <1>4 DEF Http!CancelReservation
  <2>2. 0 \in 0 .. MaxJobs
    BY BoundsAreNumbers, SMT
  <2>3. r # 0 /\ Reserved = r /\ ~Busy
    BY <1>2, <1>4, OneIsSeen DEF Reserved, Busy
  <2>4. C!Possible(client[c].op, r)
    BY <1>1, <2>3 DEF C!Possible
  <2>5. reservations' = [reservations EXCEPT ![r] = "over"]
    BY <1>4 DEF Http!CancelReservation
  <2>6. \A q \in DOMAIN reservations' : reservations'[q] = "over"
    BY <1>2, <1>4, <2>5 DEF InOrder
  <2>7. RequestInv'
    BY CancelReservationKeeps
  <2>8. InOrder(reservations')
    BY <2>7, ReservationsSeenNext
  <2>9. Reserved' = 0 /\ ~Busy'
    BY <2>6, <2>8, OneIsSeen DEF Reserved, Busy
  <2>10. C!Effect(client[c].op)
    <3>1. registered' = (registered \/ "CancelReservation" = "CreateStream")
      BY <1>1 DEF RequestInv, Http!TypeOK
    <3>2. Active' = (Active \/ "CancelReservation" \in {"StartCollection", "RetryCollection"})
      BY <1>1 DEF Active, Http!ActiveJobs
    <3>3. UNCHANGED Retryable
      BY <1>1 DEF Retryable
    <3>4. UNCHANGED Busy
      BY <2>3, <2>9 DEF Busy, BusyIn
    <3> QED
      BY <1>1, <2>9, <3>1, <3>2, <3>3, <3>4, EffectIs DEF C!Commands
  <2> QED
    BY <1>1, <2>1, <2>2, <2>4, <2>10, DoneIsPerformed
<1> QED
  BY <1>3, <1>4

LEMMA JobEndsIsMapped ==
  ASSUME RequestInv, NEW j \in DOMAIN jobs, Http!JobEnds(j)
  PROVE  C!Others
<1>1. /\ UNCHANGED <<registered, reservations, client>>
      /\ jobs \in Seq(Http!Job) /\ jobs[j].status = "active" /\ jobs[j] \in Http!Job
      /\ Http!ActiveJobs \subseteq {Len(jobs)}
  BY DEF Http!JobEnds, RequestInv, Http!TypeOK, RowsAreOrdered
<1>2. PICK status \in {"over", "retryable"} : jobs' = [jobs EXCEPT ![j].status = status]
  BY DEF Http!JobEnds
<1> DEFINE t == [jobs[j] EXCEPT !.status = status]
<1>3. t.status = status /\ jobs' = [jobs EXCEPT ![j] = t]
  BY <1>1, <1>2, SMT DEF Http!Job
<1> HIDE DEF t
<1>4. /\ DOMAIN jobs' = DOMAIN jobs /\ jobs'[j] = t
      /\ \A k \in DOMAIN jobs \ {j} : jobs'[k] = jobs[k]
  BY <1>1, <1>3
<1>5. Active
  BY <1>1 DEF Active, Http!ActiveJobs
<1>6. ~Active'
  BY <1>1, <1>3, <1>4 DEF Active, Http!ActiveJobs
<1>7. Retryable \subseteq Retryable'
  BY <1>1, <1>4 DEF Retryable, RetryableIn
<1>8. UNCHANGED <<registered, Reserved, Busy, Calls>>
  BY <1>1 DEF Reserved, Busy, Calls
<1>9. Active' = FALSE
  BY <1>6 DEF Active
<1> QED
  BY <1>5, <1>7, <1>8, <1>9 DEF C!Others

LEMMA ReservationGoesOnIsMapped ==
  ASSUME RequestInv, NEW r \in DOMAIN reservations, Http!ReservationGoesOn(r)
  PROVE  C!Others
<1>1. /\ UNCHANGED <<registered, jobs, client>>
      /\ InOrder(reservations) /\ reservations \in Seq(Http!Reservation)
      /\ reservations[r] \in {"open", "collecting"}
  BY ReservationsSeen DEF Http!ReservationGoesOn, InOrder, Http!Reservation
<1>2. PICK state \in {"collecting", "over"} \ {reservations[r]} :
        reservations' = [reservations EXCEPT ![r] = state]
  BY DEF Http!ReservationGoesOn
<1>3. InOrder(reservations')
  <2>1. RequestInv'
    BY ReservationGoesOnKeeps
  <2> QED
    BY <2>1, ReservationsSeenNext
<1>4. /\ DOMAIN reservations' = DOMAIN reservations /\ reservations'[r] = state
      /\ \A q \in DOMAIN reservations \ {r} : reservations'[q] = "over"
  BY <1>1, <1>2 DEF InOrder
<1>5. UNCHANGED <<registered, Active, Retryable, Calls>>
  BY <1>1 DEF Active, Retryable, Calls, Http!ActiveJobs
<1>6. Reserved' = 0 /\ Busy' \in BOOLEAN
  <2>1. CASE state = "collecting"
    BY <1>3, <1>4, <2>1, OneIsSeen DEF Reserved, Busy, BusyIn
  <2>2. CASE state = "over"
    BY <1>3, <1>4, <2>2, OneIsSeen DEF Reserved, Busy, BusyIn
  <2> QED
    BY <1>2, <2>1, <2>2
<1>7. CASE reservations[r] = "open"
  <2>1. Reserved # 0
    BY <1>1, <1>7, OneIsSeen DEF Reserved
  <2> QED
    BY <1>5, <1>6, <2>1 DEF C!Others
<1>8. CASE reservations[r] = "collecting"
  <2>1. Reserved = 0 /\ Busy
    BY <1>1, <1>8, OneIsSeen DEF Reserved, Busy
  <2>2. ~Busy'
    BY <1>2, <1>3, <1>4, <1>8, OneIsSeen DEF Busy
  <2>3. Busy' = FALSE
    BY <2>2 DEF Busy, BusyIn
  <2> QED
    BY <1>5, <1>6, <2>1, <2>3 DEF C!Others
<1> QED
  BY <1>1, <1>7, <1>8

LEMMA ContractInit == Http!Init => C!Init
<1> SUFFICES ASSUME Http!Init PROVE C!Init
  OBVIOUS
<1>1. registered = FALSE /\ jobs = <<>> /\ reservations = <<>>
      /\ \A c \in Clients : client[c] = Http!NoCall
  BY DEF Http!Init
<1>2. DOMAIN jobs = {} /\ DOMAIN reservations = {}
  BY <1>1
<1>3. Active = FALSE /\ Retryable = {} /\ Reserved = 0
  BY <1>2 DEF Active, Http!ActiveJobs, Retryable, RetryableIn, Reserved, ReservedIn, OpenIn
<1>4. Busy = FALSE
  BY <1>2 DEF Busy, BusyIn
<1>5. CallOf(Http!NoCall) = C!NoCall
  BY NothingYet DEF CallOf, Http!NoCall, C!NoCall
<1>6. Calls = [c \in Clients |-> C!NoCall]
  BY <1>1, <1>5 DEF Calls
<1> QED
  BY <1>1, <1>3, <1>4, <1>6 DEF C!Init

LEMMA ContractStutter == UNCHANGED Http!vars => UNCHANGED C!vars
  BY DEF Http!vars, C!vars, Active, Http!ActiveJobs, Retryable, Reserved, Busy, Calls

LEMMA ContractStep == RequestInv /\ [Http!Next]_(Http!vars) => [C!Next]_(C!vars)
<1>1. ASSUME RequestInv, NEW c \in Clients, Http!Reply(c) \/ Http!Fails(c)
      PROVE  C!Answer(c)
  BY <1>1, NoCallIsAnswered DEF Http!Reply, Http!Fails
<1> QED
  BY <1>1, ContractStutter, AcceptIsAsk, CreateStreamIsMapped, BeginIsMapped,
     LockStreamIsMapped, CheckForStartIsMapped, CheckForRetryIsMapped, InsertJobIsMapped,
     CreateReservationIsMapped, CancelReservationIsMapped, JobEndsIsMapped,
     ReservationGoesOnIsMapped
     DEF Http!Next, C!Next

(***************************************************************************)
(* router.go and the repositories behind it: every command takes effect at    *)
(* most once, in one moment between request and answer, and an answer other   *)
(* than 500 tells what that was; for any number of clients and rows.          *)
(***************************************************************************)
THEOREM RequestsImplementContract == ApiSpec => ImplementsContract
<1>1. ApiInit => Http!Contract!Init
  BY ContractInit, MappingIsContract DEF ApiInit
<1>2. SchemaInv /\ RequestInv /\ [ApiNext]_apiVars
        => [Http!Contract!Next]_(Http!Contract!vars)
  <2>1. [ApiNext]_apiVars => [Http!Next]_(Http!vars)
    BY DEF ApiNext, apiVars, requestVars, Http!vars
  <2> QED
    BY <2>1, ContractStep, MappingIsContract
<1> QED
  BY <1>1, <1>2, Invariance, PTL
     DEF ApiSpec, ImplementsContract, Http!ImplementsContract, Http!Contract!Spec
=============================================================================
