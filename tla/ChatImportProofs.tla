--------------------------- MODULE ChatImportProofs ---------------------------
(***************************************************************************)
(* What a collection leaves in the table of chat messages (ChatImport), for   *)
(* any messages, artifacts, batch size and number of attempts: ImportInv and   *)
(* FirstWriteWins.                                                           *)
(*                                                                         *)
(* ImportInv speaks of the attempt that has succeeded only.  The inductive     *)
(* invariant follows every attempt through its artifact: what it has parsed    *)
(* is stored, by whichever attempt, or in its batch, and its counts are those  *)
(* of the rows that carry its number.                                        *)
(***************************************************************************)
EXTENDS ChatImport, FiniteSetTheorems, TLAPS

\* The rows that an attempt has inserted.
RowsOf(a) == {m \in Messages : stored[m] = a}

\* An artifact up to its next action: every action was a message that is stored
\* or in the batch, or was skipped; and every action was counted once.
Followed(r) ==
  /\ r.artifact \in Artifacts
  /\ r.next <= Len(r.artifact) + 1
  /\ r.saved + r.duplicate + r.skipped + Len(r.batch) = r.next - 1
  /\ \A i \in 1 .. r.next - 1 :
       \/ r.artifact[i] = "skipped"
       \/ /\ r.artifact[i] \in Messages
          /\ r.artifact[i] \in ToSet(r.batch) \/ stored[r.artifact[i]] # NULL

AttemptIsTrue(a) ==
  LET r == run[a]
  IN  /\ a > job.attempt => r = Unclaimed
      /\ IsFiniteSet(RowsOf(a))
      /\ r.result # "failed" => r.saved = Cardinality(RowsOf(a))
      /\ r.step = "starting" =>
           /\ r.next = 1 /\ r.batch = <<>> /\ r.result = "none"
           /\ r.saved = 0 /\ r.duplicate = 0 /\ r.skipped = 0
      /\ r.step = "importing" => r.result = "none" /\ Followed(r)
      /\ r.result = "succeeded" =>
           /\ r.step \in {"reporting", "over"}
           /\ r.batch = <<>> /\ r.next = Len(r.artifact) + 1
           /\ Followed(r)

\* The row of the job tells what its last attempt reported.
JobIsTrue ==
  /\ job.status # "queued" => job.attempt # 0
  /\ job.status = "succeeded" =>
       /\ Winner.step = "over" /\ Winner.result # "failed"
       /\ job.processed = Winner.saved /\ job.skipped = Winner.skipped

IInv ==
  /\ TypeOK
  /\ \A a \in Attempts : AttemptIsTrue(a)
  /\ JobIsTrue
-----------------------------------------------------------------------------
(* What an attempt becomes *)

Starting(r) == [r EXCEPT !.step = "starting"]
Over(r) == [r EXCEPT !.step = "over"]
Dead(r) == [r EXCEPT !.step = "over", !.batch = <<>>]
NoData(r) == [r EXCEPT !.step = "reporting", !.result = "no_data"]
Importing(r, artifact) == [r EXCEPT !.step = "importing", !.artifact = artifact]
WithMessage(r, m) == [r EXCEPT !.next = @ + 1, !.batch = Append(@, m)]
WithSkipped(r) == [r EXCEPT !.next = @ + 1, !.skipped = @ + 1]
WithSaved(r, n) ==
  [r EXCEPT !.batch = <<>>, !.saved = @ + n, !.duplicate = @ + (Len(r.batch) - n)]
Finished(r) ==
  [r EXCEPT !.step = "reporting", !.result = "succeeded", !.batch = <<>>]

LEMMA StartingIsRun ==
  ASSUME NEW r \in Run
  PROVE  LET t == Starting(r)
         IN  /\ t \in Run
             /\ t.step = "starting" /\ t.artifact = r.artifact /\ t.next = r.next
             /\ t.batch = r.batch /\ t.saved = r.saved /\ t.duplicate = r.duplicate
             /\ t.skipped = r.skipped /\ t.result = r.result /\ t.error = r.error
  BY SMT DEF Run, Starting

LEMMA BatchIsRun ==
  ASSUME NEW r \in Run, NEW b \in Seq(Messages)
  PROVE  LET t == [r EXCEPT !.batch = b]
         IN  /\ t \in Run
             /\ t.batch = b /\ t.step = r.step /\ t.artifact = r.artifact
             /\ t.next = r.next /\ t.saved = r.saved /\ t.duplicate = r.duplicate
             /\ t.skipped = r.skipped /\ t.result = r.result /\ t.error = r.error
  BY SMT DEF Run

LEMMA OverIsRun ==
  ASSUME NEW r \in Run
  PROVE  LET t == Over(r)
         IN  /\ t \in Run
             /\ t.step = "over" /\ t.artifact = r.artifact /\ t.next = r.next
             /\ t.batch = r.batch /\ t.saved = r.saved /\ t.duplicate = r.duplicate
             /\ t.skipped = r.skipped /\ t.result = r.result /\ t.error = r.error
  BY SMT DEF Run, Over

LEMMA DeadIsRun ==
  ASSUME NEW r \in Run
  PROVE  LET t == Dead(r)
         IN  /\ t \in Run
             /\ t.step = "over" /\ t.batch = <<>> /\ t.artifact = r.artifact
             /\ t.next = r.next /\ t.saved = r.saved /\ t.duplicate = r.duplicate
             /\ t.skipped = r.skipped /\ t.result = r.result /\ t.error = r.error
<1> DEFINE t1 == [r EXCEPT !.step = "over"]
           t2 == [t1 EXCEPT !.batch = <<>>]
<1>1. /\ t1 \in Run
      /\ t1.step = "over" /\ t1.artifact = r.artifact /\ t1.next = r.next
      /\ t1.batch = r.batch /\ t1.saved = r.saved /\ t1.duplicate = r.duplicate
      /\ t1.skipped = r.skipped /\ t1.result = r.result /\ t1.error = r.error
  BY SMT DEF Run
<1> HIDE DEF t1
<1>0. <<>> \in Seq(Messages)
  BY SMT DEF Run
<1>2. /\ t2 \in Run
      /\ t2.step = "over" /\ t2.batch = <<>> /\ t2.artifact = r.artifact
      /\ t2.next = r.next /\ t2.saved = r.saved /\ t2.duplicate = r.duplicate
      /\ t2.skipped = r.skipped /\ t2.result = r.result /\ t2.error = r.error
  BY <1>0, <1>1, BatchIsRun
<1>3. t2 = Dead(r)
  BY DEF t1, t2, Dead
<1> QED
  BY <1>2, <1>3

LEMMA NoDataIsRun ==
  ASSUME NEW r \in Run
  PROVE  LET t == NoData(r)
         IN  /\ t \in Run
             /\ t.step = "reporting" /\ t.result = "no_data" /\ t.artifact = r.artifact
             /\ t.next = r.next /\ t.batch = r.batch /\ t.saved = r.saved
             /\ t.duplicate = r.duplicate /\ t.skipped = r.skipped /\ t.error = r.error
<1> DEFINE t1 == [r EXCEPT !.step = "reporting"]
           t2 == [t1 EXCEPT !.result = "no_data"]
<1>1. /\ t1 \in Run
      /\ t1.step = "reporting" /\ t1.artifact = r.artifact /\ t1.next = r.next
      /\ t1.batch = r.batch /\ t1.saved = r.saved /\ t1.duplicate = r.duplicate
      /\ t1.skipped = r.skipped /\ t1.result = r.result /\ t1.error = r.error
  BY SMT DEF Run, Results
<1> HIDE DEF t1
<1>2. /\ t2 \in Run
      /\ t2.step = "reporting" /\ t2.result = "no_data" /\ t2.artifact = r.artifact
      /\ t2.next = r.next /\ t2.batch = r.batch /\ t2.saved = r.saved
      /\ t2.duplicate = r.duplicate /\ t2.skipped = r.skipped /\ t2.error = r.error
  BY <1>1, SMT DEF Run, Results
<1>3. t2 = NoData(r)
  BY DEF t1, t2, NoData
<1> QED
  BY <1>2, <1>3

LEMMA ImportingIsRun ==
  ASSUME NEW r \in Run, NEW artifact \in Artifacts
  PROVE  LET t == Importing(r, artifact)
         IN  /\ t \in Run
             /\ t.step = "importing" /\ t.artifact = artifact /\ t.next = r.next
             /\ t.batch = r.batch /\ t.saved = r.saved /\ t.duplicate = r.duplicate
             /\ t.skipped = r.skipped /\ t.result = r.result /\ t.error = r.error
<1> DEFINE t1 == [r EXCEPT !.step = "importing"]
           t2 == [t1 EXCEPT !.artifact = artifact]
<1>1. /\ t1 \in Run
      /\ t1.step = "importing" /\ t1.artifact = r.artifact /\ t1.next = r.next
      /\ t1.batch = r.batch /\ t1.saved = r.saved /\ t1.duplicate = r.duplicate
      /\ t1.skipped = r.skipped /\ t1.result = r.result /\ t1.error = r.error
  BY SMT DEF Run
<1> HIDE DEF t1
<1>2. /\ t2 \in Run
      /\ t2.step = "importing" /\ t2.artifact = artifact /\ t2.next = r.next
      /\ t2.batch = r.batch /\ t2.saved = r.saved /\ t2.duplicate = r.duplicate
      /\ t2.skipped = r.skipped /\ t2.result = r.result /\ t2.error = r.error
  BY <1>1, SMT DEF Run
<1>3. t2 = Importing(r, artifact)
  BY DEF t1, t2, Importing
<1> QED
  BY <1>2, <1>3

LEMMA WithMessageIsRun ==
  ASSUME NEW r \in Run, NEW m \in Messages
  PROVE  LET t == WithMessage(r, m)
         IN  /\ t \in Run
             /\ t.next = r.next + 1 /\ t.batch = Append(r.batch, m) /\ t.step = r.step
             /\ t.artifact = r.artifact /\ t.saved = r.saved /\ t.duplicate = r.duplicate
             /\ t.skipped = r.skipped /\ t.result = r.result /\ t.error = r.error
<1> DEFINE t1 == [r EXCEPT !.next = r.next + 1]
           t2 == [t1 EXCEPT !.batch = Append(r.batch, m)]
<1>1. /\ t1 \in Run
      /\ t1.next = r.next + 1 /\ t1.step = r.step /\ t1.artifact = r.artifact
      /\ t1.batch = r.batch /\ t1.saved = r.saved /\ t1.duplicate = r.duplicate
      /\ t1.skipped = r.skipped /\ t1.result = r.result /\ t1.error = r.error
  BY SMT DEF Run
<1> HIDE DEF t1
<1>0. Append(r.batch, m) \in Seq(Messages)
  BY SMT DEF Run
<1>2. /\ t2 \in Run
      /\ t2.next = r.next + 1 /\ t2.batch = Append(r.batch, m) /\ t2.step = r.step
      /\ t2.artifact = r.artifact /\ t2.saved = r.saved /\ t2.duplicate = r.duplicate
      /\ t2.skipped = r.skipped /\ t2.result = r.result /\ t2.error = r.error
  BY <1>0, <1>1, BatchIsRun
<1>3. t2 = WithMessage(r, m)
  BY DEF t1, t2, WithMessage
<1> QED
  BY <1>2, <1>3

LEMMA WithSkippedIsRun ==
  ASSUME NEW r \in Run
  PROVE  LET t == WithSkipped(r)
         IN  /\ t \in Run
             /\ t.next = r.next + 1 /\ t.skipped = r.skipped + 1 /\ t.step = r.step
             /\ t.artifact = r.artifact /\ t.batch = r.batch /\ t.saved = r.saved
             /\ t.duplicate = r.duplicate /\ t.result = r.result /\ t.error = r.error
<1> DEFINE t1 == [r EXCEPT !.next = r.next + 1]
           t2 == [t1 EXCEPT !.skipped = r.skipped + 1]
<1>1. /\ t1 \in Run
      /\ t1.next = r.next + 1 /\ t1.step = r.step /\ t1.artifact = r.artifact
      /\ t1.batch = r.batch /\ t1.saved = r.saved /\ t1.duplicate = r.duplicate
      /\ t1.skipped = r.skipped /\ t1.result = r.result /\ t1.error = r.error
  BY SMT DEF Run
<1> HIDE DEF t1
<1>2. /\ t2 \in Run
      /\ t2.next = r.next + 1 /\ t2.skipped = r.skipped + 1 /\ t2.step = r.step
      /\ t2.artifact = r.artifact /\ t2.batch = r.batch /\ t2.saved = r.saved
      /\ t2.duplicate = r.duplicate /\ t2.result = r.result /\ t2.error = r.error
  BY <1>1, SMT DEF Run
<1>3. t2 = WithSkipped(r)
  BY DEF t1, t2, WithSkipped
<1> QED
  BY <1>2, <1>3

LEMMA WithSavedIsRun ==
  ASSUME NEW r \in Run, NEW n \in Nat, n <= Len(r.batch)
  PROVE  LET t == WithSaved(r, n)
         IN  /\ t \in Run
             /\ t.batch = <<>> /\ t.saved = r.saved + n
             /\ t.duplicate = r.duplicate + (Len(r.batch) - n)
             /\ t.step = r.step /\ t.artifact = r.artifact /\ t.next = r.next
             /\ t.skipped = r.skipped /\ t.result = r.result /\ t.error = r.error
<1> DEFINE t1 == [r EXCEPT !.batch = <<>>]
           t2 == [t1 EXCEPT !.saved = r.saved + n]
           more == r.duplicate + (Len(r.batch) - n)
           t3 == [t2 EXCEPT !.duplicate = more]
<1>0. <<>> \in Seq(Messages) /\ more \in Nat
  BY SMT DEF Run
<1> HIDE DEF more
<1>1. /\ t1 \in Run
      /\ t1.batch = <<>> /\ t1.step = r.step /\ t1.artifact = r.artifact
      /\ t1.next = r.next /\ t1.saved = r.saved /\ t1.duplicate = r.duplicate
      /\ t1.skipped = r.skipped /\ t1.result = r.result /\ t1.error = r.error
  BY <1>0, BatchIsRun
<1> HIDE DEF t1
<1>2. /\ t2 \in Run
      /\ t2.batch = <<>> /\ t2.saved = r.saved + n /\ t2.step = r.step
      /\ t2.artifact = r.artifact /\ t2.next = r.next /\ t2.duplicate = r.duplicate
      /\ t2.skipped = r.skipped /\ t2.result = r.result /\ t2.error = r.error
  BY <1>1, SMT DEF Run
<1> HIDE DEF t2
<1>3. /\ t3 \in Run
      /\ t3.batch = <<>> /\ t3.saved = r.saved + n /\ t3.duplicate = more
      /\ t3.step = r.step /\ t3.artifact = r.artifact /\ t3.next = r.next
      /\ t3.skipped = r.skipped /\ t3.result = r.result /\ t3.error = r.error
  BY <1>0, <1>2, SMT DEF Run
<1>4. t3 = WithSaved(r, n)
  BY DEF t1, t2, t3, more, WithSaved
<1> QED
  BY <1>3, <1>4 DEF more

LEMMA FinishedIsRun ==
  ASSUME NEW r \in Run
  PROVE  LET t == Finished(r)
         IN  /\ t \in Run
             /\ t.step = "reporting" /\ t.batch = <<>> /\ t.result = "succeeded"
             /\ t.artifact = r.artifact /\ t.next = r.next /\ t.saved = r.saved
             /\ t.duplicate = r.duplicate /\ t.skipped = r.skipped /\ t.error = r.error
<1> DEFINE t1 == [r EXCEPT !.step = "reporting"]
           t2 == [t1 EXCEPT !.result = "succeeded"]
           t3 == [t2 EXCEPT !.batch = <<>>]
<1>1. /\ t1 \in Run
      /\ t1.step = "reporting" /\ t1.artifact = r.artifact /\ t1.next = r.next
      /\ t1.batch = r.batch /\ t1.saved = r.saved /\ t1.duplicate = r.duplicate
      /\ t1.skipped = r.skipped /\ t1.result = r.result /\ t1.error = r.error
  BY SMT DEF Run, Results
<1> HIDE DEF t1
<1>2. /\ t2 \in Run
      /\ t2.step = "reporting" /\ t2.result = "succeeded" /\ t2.artifact = r.artifact
      /\ t2.next = r.next /\ t2.batch = r.batch /\ t2.saved = r.saved
      /\ t2.duplicate = r.duplicate /\ t2.skipped = r.skipped /\ t2.error = r.error
  BY <1>1, SMT DEF Run, Results
<1> HIDE DEF t2
<1>0. <<>> \in Seq(Messages)
  BY SMT DEF Run, Results
<1>3. /\ t3 \in Run
      /\ t3.step = "reporting" /\ t3.batch = <<>> /\ t3.result = "succeeded"
      /\ t3.artifact = r.artifact /\ t3.next = r.next /\ t3.saved = r.saved
      /\ t3.duplicate = r.duplicate /\ t3.skipped = r.skipped /\ t3.error = r.error
  BY <1>0, <1>2, BatchIsRun
<1>4. t3 = Finished(r)
  BY DEF t1, t2, t3, Finished
<1> QED
  BY <1>3, <1>4

LEMMA FailingIsRun ==
  ASSUME NEW r \in Run, NEW code \in CollectionErrorCode
  PROVE  LET t == Failing(r, code)
         IN  /\ t \in Run
             /\ t.step = "reporting" /\ t.batch = <<>> /\ t.result = "failed"
             /\ t.error = code /\ t.artifact = r.artifact /\ t.next = r.next
             /\ t.saved = r.saved /\ t.duplicate = r.duplicate /\ t.skipped = r.skipped
<1> DEFINE t1 == [r EXCEPT !.step = "reporting"]
           t2 == [t1 EXCEPT !.result = "failed"]
           t3 == [t2 EXCEPT !.error = code]
           t4 == [t3 EXCEPT !.batch = <<>>]
<1>1. /\ t1 \in Run
      /\ t1.step = "reporting" /\ t1.artifact = r.artifact /\ t1.next = r.next
      /\ t1.batch = r.batch /\ t1.saved = r.saved /\ t1.duplicate = r.duplicate
      /\ t1.skipped = r.skipped /\ t1.result = r.result /\ t1.error = r.error
  BY SMT DEF Run, Results
<1> HIDE DEF t1
<1>2. /\ t2 \in Run
      /\ t2.step = "reporting" /\ t2.result = "failed" /\ t2.artifact = r.artifact
      /\ t2.next = r.next /\ t2.batch = r.batch /\ t2.saved = r.saved
      /\ t2.duplicate = r.duplicate /\ t2.skipped = r.skipped /\ t2.error = r.error
  BY <1>1, SMT DEF Run, Results
<1> HIDE DEF t2
<1>3. /\ t3 \in Run
      /\ t3.step = "reporting" /\ t3.result = "failed" /\ t3.error = code
      /\ t3.artifact = r.artifact /\ t3.next = r.next /\ t3.batch = r.batch
      /\ t3.saved = r.saved /\ t3.duplicate = r.duplicate /\ t3.skipped = r.skipped
  BY <1>2, SMT DEF Run, Results
<1> HIDE DEF t3
<1>0. <<>> \in Seq(Messages)
  BY SMT DEF Run, Results
<1>4. /\ t4 \in Run
      /\ t4.step = "reporting" /\ t4.batch = <<>> /\ t4.result = "failed"
      /\ t4.error = code /\ t4.artifact = r.artifact /\ t4.next = r.next
      /\ t4.saved = r.saved /\ t4.duplicate = r.duplicate /\ t4.skipped = r.skipped
  BY <1>0, <1>3, BatchIsRun
<1>5. t4 = Failing(r, code)
  BY DEF t1, t2, t3, t4, Failing
<1> QED
  BY <1>4, <1>5

-----------------------------------------------------------------------------
(* The rows *)

\* The rows that a batch inserts are no more than its messages.
LEMMA InsertedIsFinite ==
  ASSUME NEW batch \in Seq(Messages)
  PROVE  /\ ToSet(batch) \subseteq Messages
         /\ IsFiniteSet(Inserted(batch))
         /\ Cardinality(Inserted(batch)) \in Nat
         /\ Cardinality(Inserted(batch)) <= Len(batch)
<1>1. Len(batch) \in Nat /\ DOMAIN batch = 1 .. Len(batch)
  OBVIOUS
<1>2. batch \in Surjection(1 .. Len(batch), ToSet(batch))
  BY <1>1 DEF Surjection, ToSet
<1>3. IsFiniteSet(1 .. Len(batch)) /\ Cardinality(1 .. Len(batch)) = Len(batch)
  BY <1>1, FS_Interval, SMT
<1>4. IsFiniteSet(ToSet(batch)) /\ Cardinality(ToSet(batch)) <= Len(batch)
  BY <1>2, <1>3, FS_Surjection
<1>5. Inserted(batch) \in SUBSET ToSet(batch)
  BY DEF Inserted
<1>6. /\ IsFiniteSet(Inserted(batch))
      /\ Cardinality(Inserted(batch)) <= Cardinality(ToSet(batch))
  BY <1>4, <1>5, FS_Subset
<1>7. Cardinality(Inserted(batch)) \in Nat /\ Cardinality(ToSet(batch)) \in Nat
  BY <1>4, <1>6, FS_CardinalityType
<1>8. ToSet(batch) \subseteq Messages
  BY DEF ToSet
<1> QED
  BY <1>1, <1>4, <1>6, <1>7, <1>8, SMT

\* Rows are inserted by one attempt, and none is changed.
RowsGrow(a) ==
  /\ stored' \in [Messages -> Attempts \union {NULL}]
  /\ \A m \in Messages : stored'[m] = stored[m] \/ (stored[m] = NULL /\ stored'[m] = a)

LEMMA UpsertGrows ==
  ASSUME TypeOK, NEW a \in Attempts, NEW batch \in Seq(Messages),
         stored' = Upsert(a, batch), IsFiniteSet(RowsOf(a))
  PROVE  /\ RowsGrow(a)
         /\ IsFiniteSet(RowsOf(a)')
         /\ Cardinality(RowsOf(a)')
              = Cardinality(RowsOf(a)) + Cardinality(Inserted(batch))
         /\ \A m \in ToSet(batch) : stored'[m] # NULL
<1>1. /\ a # NULL /\ a \in Nat
      /\ ToSet(batch) \subseteq Messages /\ Inserted(batch) \subseteq ToSet(batch)
  <2>1. a # NULL /\ a \in Nat
    BY NullIsNoAttempt, MaxAttemptsIsNumber DEF Attempts
  <2>2. ToSet(batch) \subseteq Messages
    BY InsertedIsFinite
  <2> QED
    BY <2>1, <2>2 DEF Inserted
<1>2. RowsGrow(a)
  BY <1>1 DEF RowsGrow, Upsert, TypeOK, Inserted
<1>3. RowsOf(a)' = RowsOf(a) \union Inserted(batch)
  BY <1>1 DEF RowsOf, Upsert
<1>4. RowsOf(a) \intersect Inserted(batch) = {}
  BY <1>1 DEF RowsOf, Inserted
<1>5. /\ IsFiniteSet(RowsOf(a) \union Inserted(batch))
      /\ Cardinality(RowsOf(a) \union Inserted(batch))
           = Cardinality(RowsOf(a)) + Cardinality(Inserted(batch)) - Cardinality({})
  BY <1>4, InsertedIsFinite, FS_Union
<1>6. Cardinality({}) = 0
  BY FS_EmptySet
<1>7. Cardinality(RowsOf(a)) \in Nat /\ Cardinality(Inserted(batch)) \in Nat
  BY FS_CardinalityType, InsertedIsFinite
<1>8. \A m \in ToSet(batch) : stored'[m] # NULL
  BY <1>1 DEF Upsert, Inserted
<1> QED
  BY <1>2, <1>3, <1>5, <1>6, <1>7, <1>8, SMT

LEMMA RowsStay ==
  ASSUME TypeOK, NEW a, UNCHANGED stored
  PROVE  RowsGrow(a) /\ UNCHANGED RowsOf(a)
  BY DEF RowsGrow, TypeOK, RowsOf

-----------------------------------------------------------------------------
(* The invariant *)

\* A call of one attempt: its state becomes t, and it may insert rows.
AttemptBecomes(a, t) ==
  /\ run' = [run EXCEPT ![a] = t]
  /\ RowsGrow(a)

LEMMA OthersStayTrue ==
  ASSUME IInv, NEW a \in Attempts, NEW t \in Run, AttemptBecomes(a, t),
         job'.attempt = job.attempt, NEW b \in Attempts \ {a}
  PROVE  AttemptIsTrue(b)'
<1>1. run'[b] = run[b] /\ AttemptIsTrue(b)
  BY DEF IInv, TypeOK, AttemptBecomes
<1>2. a \in Nat /\ b \in Nat /\ a # NULL /\ b # NULL
  BY NullIsNoAttempt, MaxAttemptsIsNumber DEF Attempts
<1>3. RowsOf(b)' = RowsOf(b)
  BY <1>2 DEF AttemptBecomes, RowsGrow, RowsOf
<1>4. ASSUME Followed(run[b]) PROVE Followed(run[b])'
  <2>1. \A m \in Messages : stored[m] # NULL => stored'[m] # NULL
    BY DEF AttemptBecomes, RowsGrow
  <2> QED
    BY <1>1, <1>4, <2>1 DEF Followed
<1> QED
  BY <1>1, <1>3, <1>4 DEF AttemptIsTrue

LEMMA AttemptGoesOn ==
  ASSUME IInv, NEW a \in Attempts, NEW t \in Run, AttemptBecomes(a, t),
         UNCHANGED job, run[a].step # "over", AttemptIsTrue(a)'
  PROVE  IInv'
<1>1. run'[a] = t /\ \A b \in Attempts \ {a} : run'[b] = run[b]
  BY DEF IInv, TypeOK, AttemptBecomes
<1>2. TypeOK'
  BY DEF IInv, TypeOK, AttemptBecomes, RowsGrow
<1>3. \A b \in Attempts : AttemptIsTrue(b)'
  BY OthersStayTrue
<1>4. JobIsTrue'
  <2>1. CASE job.status = "succeeded"
    <3>1. job.attempt \in Attempts
      BY <2>1, MaxAttemptsIsNumber, SMT DEF IInv, TypeOK, Job, JobIsTrue, Attempts
    <3>2. job.attempt # a
      BY <2>1 DEF IInv, JobIsTrue, Winner
    <3>3. Winner' = Winner
      BY <1>1, <3>1, <3>2 DEF Winner
    <3> QED
      BY <3>3 DEF IInv, JobIsTrue
  <2>2. CASE job.status # "succeeded"
    BY <2>2 DEF IInv, JobIsTrue
  <2> QED
    BY <2>1, <2>2
<1> QED
  BY <1>2, <1>3, <1>4 DEF IInv

\* What every step of an attempt may use.
LEMMA AttemptFacts ==
  ASSUME IInv, NEW a \in Attempts, run[a].step # "unclaimed"
  PROVE  /\ run[a] \in Run /\ TypeOK /\ AttemptIsTrue(a)
         /\ ~(a > job.attempt)
         /\ IsFiniteSet(RowsOf(a)) /\ Cardinality(RowsOf(a)) \in Nat
  BY FS_CardinalityType DEF IInv, TypeOK, AttemptIsTrue, Unclaimed

\* An attempt that fails: no promise is left but that its rows are finite.
LEMMA FailingKeeps ==
  ASSUME IInv, NEW a \in Attempts, NEW code \in CollectionErrorCode,
         run' = [run EXCEPT ![a] = Failing(run[a], code)],
         run[a].step \in {"starting", "importing"}, UNCHANGED job,
         RowsGrow(a), IsFiniteSet(RowsOf(a)')
  PROVE  IInv'
<1> DEFINE t == Failing(run[a], code)
<1>1. run[a] \in Run /\ ~(a > job.attempt)
  BY AttemptFacts
<1>2. t \in Run /\ t.step = "reporting" /\ t.result = "failed"
  BY <1>1, FailingIsRun
<1> HIDE DEF t
<1>3. AttemptBecomes(a, t)
  BY DEF AttemptBecomes, t
<1>4. run'[a] = t
  BY DEF t, IInv, TypeOK
<1>5. AttemptIsTrue(a)'
  BY <1>1, <1>2, <1>4 DEF AttemptIsTrue
<1> QED
  BY <1>2, <1>3, <1>5, AttemptGoesOn
LEMMA ClaimKeeps ==
  ASSUME IInv, Claim
  PROVE  IInv'
<1> DEFINE a == job.attempt + 1
           t == Starting(run[a])
<1>1. /\ job \in Job /\ job.attempt \in Nat /\ a \in Attempts /\ a \in Nat
      /\ job.status # "succeeded"
  BY MaxAttemptsIsNumber, SMT DEF IInv, TypeOK, Job, Claim, Attempts
<1>2. run[a] = Unclaimed /\ run[a] \in Run
  BY <1>1, SMT DEF IInv, TypeOK, AttemptIsTrue
<1>3. /\ t \in Run /\ t.step = "starting"
      /\ t.next = 1 /\ t.batch = <<>> /\ t.result = "none"
      /\ t.saved = 0 /\ t.duplicate = 0 /\ t.skipped = 0
  BY <1>2, StartingIsRun, SMT DEF Unclaimed
<1>4. run' = [run EXCEPT ![a] = t] /\ UNCHANGED stored
  BY DEF Claim, Starting
<1> HIDE DEF t
<1>5. job' \in Job /\ job'.status = "running" /\ job'.attempt = a
  <2> DEFINE j == [job EXCEPT !.status = "running"]
  <2>1. j \in Job /\ j.status = "running" /\ j.attempt = job.attempt
    BY <1>1, SMT DEF Job
  <2> HIDE DEF j
  <2>2. a \in 0 .. MaxAttempts
    BY <1>1, SMT DEF Attempts
  <2> HIDE DEF a
  <2>3. /\ [j EXCEPT !.attempt = a] \in Job
        /\ [j EXCEPT !.attempt = a].status = "running"
        /\ [j EXCEPT !.attempt = a].attempt = a
    BY <2>1, <2>2, SMT DEF Job
  <2>4. job' = [j EXCEPT !.attempt = a]
    BY DEF Claim, j, a
  <2> QED
    BY <2>3, <2>4
<1>6. TypeOK'
  BY <1>1, <1>3, <1>4, <1>5 DEF IInv, TypeOK
<1>7. \A b \in Attempts \ {a} : run'[b] = run[b]
  BY <1>4 DEF IInv, TypeOK
<1>8. run'[a] = t
  BY <1>1, <1>4 DEF IInv, TypeOK
<1>9. ASSUME NEW b \in Attempts PROVE AttemptIsTrue(b)'
  <2>1. RowsOf(b)' = RowsOf(b) /\ AttemptIsTrue(b) /\ b \in Nat
    BY <1>4, MaxAttemptsIsNumber DEF IInv, RowsOf, Attempts
  <2>2. CASE b = a
    <3>1. ~(a > job'.attempt)
      BY <1>1, <1>5, SMT
    <3>2. t.saved = Cardinality(RowsOf(a))
      BY <1>2, <1>3, <2>1, <2>2 DEF AttemptIsTrue, Unclaimed
    <3> QED
      BY <1>3, <1>8, <2>1, <2>2, <3>1, <3>2 DEF AttemptIsTrue
  <2>3. CASE b # a
    <3>1. run'[b] = run[b] /\ (b > job'.attempt => b > job.attempt)
      BY <1>1, <1>5, <1>7, <2>1, <2>3, SMT
    <3> QED
      BY <1>4, <2>1, <3>1 DEF AttemptIsTrue, Followed
  <2> QED
    BY <2>2, <2>3
<1>10. JobIsTrue'
  BY <1>1, <1>5, SMT DEF JobIsTrue
<1> QED
  BY <1>6, <1>9, <1>10 DEF IInv

LEMMA DieKeeps ==
  ASSUME IInv, NEW a \in Attempts, Die(a)
  PROVE  IInv'
<1> DEFINE t == Dead(run[a])
<1>1. /\ run[a] \in Run /\ TypeOK /\ AttemptIsTrue(a) /\ ~(a > job.attempt)
      /\ run[a].step \in {"starting", "importing", "reporting"}
  BY AttemptFacts DEF Die
<1>2. /\ t \in Run
      /\ t.step = "over" /\ t.batch = <<>> /\ t.artifact = run[a].artifact
      /\ t.next = run[a].next /\ t.saved = run[a].saved
      /\ t.duplicate = run[a].duplicate /\ t.skipped = run[a].skipped
      /\ t.result = run[a].result
  BY <1>1, DeadIsRun
<1>3. run' = [run EXCEPT ![a] = t] /\ UNCHANGED <<stored, job>>
  BY DEF Die, Dead
<1> HIDE DEF t
<1>4. AttemptBecomes(a, t) /\ UNCHANGED RowsOf(a) /\ run'[a] = t
  BY <1>1, <1>3, RowsStay DEF AttemptBecomes, TypeOK
<1>5. ASSUME t.result = "succeeded" PROVE Followed(run[a])'
  BY <1>1, <1>2, <1>3, <1>4, <1>5 DEF AttemptIsTrue, Followed
<1>6. AttemptIsTrue(a)'
  BY <1>1, <1>2, <1>3, <1>4, <1>5 DEF AttemptIsTrue
<1> QED
  BY <1>1, <1>2, <1>3, <1>4, <1>6, AttemptGoesOn

LEMMA RunYtDlpKeeps ==
  ASSUME IInv, NEW a \in Attempts, RunYtDlp(a)
  PROVE  IInv'
<1>1. /\ run[a] \in Run /\ TypeOK /\ AttemptIsTrue(a) /\ ~(a > job.attempt)
      /\ run[a].step = "starting" /\ UNCHANGED <<stored, job>>
  BY AttemptFacts DEF RunYtDlp
<1>2. RowsGrow(a) /\ UNCHANGED RowsOf(a) /\ IsFiniteSet(RowsOf(a)')
  BY <1>1, RowsStay DEF AttemptIsTrue
<1>3. ASSUME NEW code \in CollectionErrorCode,
             run' = [run EXCEPT ![a] = Failing(run[a], code)]
      PROVE  IInv'
  BY <1>1, <1>2, <1>3, FailingKeeps
<1>4. CASE run' = [run EXCEPT ![a].step = "reporting", ![a].result = "no_data"]
  <2> DEFINE t == NoData(run[a])
  <2>1. /\ t \in Run /\ t.step = "reporting" /\ t.result = "no_data"
        /\ t.saved = run[a].saved
    BY <1>1, NoDataIsRun
  <2>2. run' = [run EXCEPT ![a] = t]
    BY <1>4 DEF NoData
  <2> HIDE DEF t
  <2>3. AttemptBecomes(a, t) /\ run'[a] = t
    BY <1>1, <1>2, <2>2 DEF AttemptBecomes, TypeOK
  <2>4. AttemptIsTrue(a)'
    BY <1>1, <1>2, <2>1, <2>3 DEF AttemptIsTrue
  <2> QED
    BY <1>1, <2>1, <2>3, <2>4, AttemptGoesOn
<1>5. ASSUME NEW artifact \in Artifacts,
             run' = [run EXCEPT ![a].step = "importing", ![a].artifact = artifact]
      PROVE  IInv'
  <2> DEFINE t == Importing(run[a], artifact)
  <2>1. /\ t \in Run /\ t.step = "importing" /\ t.artifact = artifact
        /\ t.next = run[a].next /\ t.batch = run[a].batch
        /\ t.saved = run[a].saved /\ t.duplicate = run[a].duplicate
        /\ t.skipped = run[a].skipped /\ t.result = run[a].result
    BY <1>1, ImportingIsRun
  <2>2. run' = [run EXCEPT ![a] = t]
    BY <1>5 DEF Importing
  <2> HIDE DEF t
  <2>3. AttemptBecomes(a, t) /\ run'[a] = t
    BY <1>1, <1>2, <2>2 DEF AttemptBecomes, TypeOK
  <2>4. /\ t.next = 1 /\ t.batch = <<>> /\ t.result = "none"
        /\ t.saved = 0 /\ t.duplicate = 0 /\ t.skipped = 0
    BY <1>1, <2>1 DEF AttemptIsTrue
  <2>5. Len(artifact) \in Nat /\ Len(<<>>) = 0
    BY ArtifactsAreSequences
  <2>6. Followed(run[a])'
    <3>1. /\ run'[a].artifact = artifact /\ run'[a].next = 1
          /\ run'[a].saved = 0 /\ run'[a].duplicate = 0 /\ run'[a].skipped = 0
          /\ Len(run'[a].batch) = 0
      BY <2>1, <2>3, <2>4, <2>5
    <3>2. 1 .. run'[a].next - 1 = {} /\ 0 + 0 + 0 + 0 = 1 - 1 /\ 1 <= Len(artifact) + 1
      BY <2>5, <3>1, SMT
    <3> QED
      BY <3>1, <3>2 DEF Followed
  <2>7. AttemptIsTrue(a)'
    BY <1>1, <1>2, <2>1, <2>3, <2>4, <2>6 DEF AttemptIsTrue
  <2> QED
    BY <1>1, <2>1, <2>3, <2>7, AttemptGoesOn
<1>6. \A p \in ProcessResult : Classified(p) # "none" => Classified(p) \in CollectionErrorCode
  BY SMT DEF ProcessResult, Classified, FailureReason, ReasonCode, CollectionErrorCode
<1>7. "WORKER_DISK_CAPACITY_LOW" \in CollectionErrorCode
  BY DEF CollectionErrorCode
<1> QED
  BY <1>3, <1>4, <1>5, <1>6, <1>7 DEF RunYtDlp
LEMMA AppendedIsThere ==
  ASSUME NEW batch \in Seq(Messages), NEW m \in Messages
  PROVE  /\ Append(batch, m) \in Seq(Messages)
         /\ Len(Append(batch, m)) = Len(batch) + 1
         /\ ToSet(batch) \subseteq ToSet(Append(batch, m))
         /\ m \in ToSet(Append(batch, m))
<1> DEFINE more == Append(batch, m)
<1>1. /\ more \in Seq(Messages) /\ Len(more) = Len(batch) + 1
      /\ \A i \in DOMAIN batch : i \in DOMAIN more /\ more[i] = batch[i]
      /\ Len(batch) + 1 \in DOMAIN more /\ more[Len(batch) + 1] = m
  BY SMT
<1> HIDE DEF more
<1>2. ToSet(batch) \subseteq ToSet(more) /\ m \in ToSet(more)
  BY <1>1 DEF ToSet
<1> QED
  BY <1>1, <1>2 DEF more

\* One more action is behind the attempt: a message that is in the batch now,
\* or one that was skipped.
LEMMA ParseKeeps ==
  ASSUME IInv, NEW a \in Attempts, Parse(a)
  PROVE  IInv'
<1> DEFINE r == run[a]
<1>1. /\ r \in Run /\ TypeOK /\ AttemptIsTrue(a) /\ ~(a > job.attempt)
      /\ r.step = "importing" /\ UNCHANGED <<stored, job>>
  BY AttemptFacts DEF Parse
<1>2. RowsGrow(a) /\ UNCHANGED RowsOf(a) /\ IsFiniteSet(RowsOf(a)')
  BY <1>1, RowsStay DEF AttemptIsTrue
<1>3. Followed(r) /\ r.result = "none" /\ r.saved = Cardinality(RowsOf(a))
  BY <1>1 DEF AttemptIsTrue
<1>4. /\ r.next \in Nat \ {0} /\ r.saved \in Nat /\ r.duplicate \in Nat
      /\ r.skipped \in Nat /\ r.batch \in Seq(Messages) /\ Len(r.batch) \in Nat
      /\ Len(r.artifact) \in Nat /\ r.next <= Len(r.artifact)
  <2>1. /\ r.next \in Nat \ {0} /\ r.saved \in Nat /\ r.duplicate \in Nat
        /\ r.skipped \in Nat /\ r.batch \in Seq(Messages)
    BY <1>1 DEF Run
  <2>2. Len(r.batch) \in Nat
    BY <2>1
  <2>3. Len(r.artifact) \in Nat
    BY <1>3, ArtifactsAreSequences DEF Followed
  <2>4. r.next <= Len(r.artifact)
    BY <2>1, <2>3, SMT DEF Parse, AtEnd
  <2> QED
    BY <2>1, <2>2, <2>3, <2>4
<1>5. ASSUME NEW t \in Run, run' = [run EXCEPT ![a] = t],
             t.step = r.step, t.result = r.result, t.saved = r.saved,
             t.duplicate = r.duplicate, t.artifact = r.artifact, t.next = r.next + 1,
             t.skipped + Len(t.batch) = r.skipped + Len(r.batch) + 1,
             t.skipped \in Nat, t.batch \in Seq(Messages),
             ToSet(r.batch) \subseteq ToSet(t.batch),
             \/ Current(a) = "skipped"
             \/ Current(a) \in Messages /\ Current(a) \in ToSet(t.batch)
      PROVE  IInv'
  <2>1. AttemptBecomes(a, t) /\ run'[a] = t
    BY <1>1, <1>2, <1>5 DEF AttemptBecomes, TypeOK
  <2>2. /\ t.next <= Len(t.artifact) + 1
        /\ t.saved + t.duplicate + t.skipped + Len(t.batch) = t.next - 1
    <3>1. Len(t.batch) \in Nat
      BY <1>5
    <3>2. r.saved + r.duplicate + r.skipped + Len(r.batch) = r.next - 1
      BY <1>3 DEF Followed
    <3>3. t.next <= Len(t.artifact) + 1
      BY <1>4, <1>5, SMT
    <3>4. r.saved + r.duplicate + t.skipped + Len(t.batch) = (r.next + 1) - 1
      <4> DEFINE n == r.next
                 s == r.saved
                 d == r.duplicate
                 k == r.skipped
                 b == Len(r.batch)
                 more == t.skipped
                 c == Len(t.batch)
      <4>1. n \in Nat /\ s \in Nat /\ d \in Nat /\ k \in Nat /\ b \in Nat
        BY <1>4
      <4>2. more \in Nat /\ c \in Nat /\ more + c = k + b + 1
        BY <1>5, <3>1
      <4>3. s + d + k + b = n - 1
        BY <3>2
      <4> HIDE DEF n, s, d, k, b, more, c
      <4>4. s + d + more + c = (n + 1) - 1
        BY <4>1, <4>2, <4>3, SMT
      <4> QED
        BY <4>4 DEF n, s, d, more, c
    <3> QED
      BY <1>5, <3>3, <3>4
  <2>3. ASSUME NEW i \in 1 .. t.next - 1
        PROVE  \/ t.artifact[i] = "skipped"
               \/ /\ t.artifact[i] \in Messages
                  /\ t.artifact[i] \in ToSet(t.batch) \/ stored[t.artifact[i]] # NULL
    <3>1. CASE i = r.next
      BY <1>5, <3>1 DEF Current
    <3>2. CASE i # r.next
      <4>1. i \in 1 .. r.next - 1
        BY <1>4, <1>5, <3>2, SMT
      <4> QED
        BY <1>3, <1>5, <4>1 DEF Followed
    <3> QED
      BY <3>1, <3>2
  <2>4. Followed(run[a])'
    BY <1>1, <1>3, <1>5, <2>1, <2>2, <2>3 DEF Followed
  <2>5. AttemptIsTrue(a)'
    BY <1>1, <1>2, <1>3, <1>5, <2>1, <2>4 DEF AttemptIsTrue
  <2> QED
    BY <1>1, <2>1, <2>5, AttemptGoesOn
<1>6. CASE Current(a) \in Messages
           /\ run' = [run EXCEPT ![a] = WithMessage(run[a], Current(a))]
  <2> DEFINE m == Current(a)
             t == WithMessage(r, m)
  <2>1. /\ t \in Run /\ t.next = r.next + 1 /\ t.batch = Append(r.batch, m)
        /\ t.step = r.step /\ t.artifact = r.artifact /\ t.saved = r.saved
        /\ t.duplicate = r.duplicate /\ t.skipped = r.skipped /\ t.result = r.result
    BY <1>1, <1>6, WithMessageIsRun
  <2>2. run' = [run EXCEPT ![a] = t]
    BY <1>6
  <2> HIDE DEF t
  <2> HIDE DEF m
  <2>3. /\ t.batch \in Seq(Messages) /\ Len(t.batch) = Len(r.batch) + 1
        /\ ToSet(r.batch) \subseteq ToSet(t.batch) /\ m \in ToSet(t.batch)
    BY <1>4, <1>6, <2>1, AppendedIsThere DEF m
  <2>4. t.skipped \in Nat /\ t.skipped + Len(t.batch) = r.skipped + Len(r.batch) + 1
    <3>1. t.skipped = r.skipped /\ Len(t.batch) = Len(r.batch) + 1
      BY <2>1, <2>3
    <3> QED
      BY <1>4, <3>1, SMT
  <2>5. Current(a) \in Messages /\ Current(a) \in ToSet(t.batch)
    BY <1>6, <2>3 DEF m
  <2> QED
    BY <1>5, <2>1, <2>2, <2>3, <2>4, <2>5
<1>7. CASE Current(a) = "skipped"
           /\ run' = [run EXCEPT ![a] = WithSkipped(run[a])]
  <2> DEFINE t == WithSkipped(r)
  <2>1. /\ t \in Run /\ t.next = r.next + 1 /\ t.skipped = r.skipped + 1
        /\ t.step = r.step /\ t.artifact = r.artifact /\ t.saved = r.saved
        /\ t.duplicate = r.duplicate /\ t.batch = r.batch /\ t.result = r.result
    BY <1>1, WithSkippedIsRun
  <2>2. run' = [run EXCEPT ![a] = t]
    BY <1>7
  <2> HIDE DEF t
  <2>3. t.skipped \in Nat /\ t.batch \in Seq(Messages)
    BY <1>4, <2>1
  <2>4. t.skipped + Len(t.batch) = r.skipped + Len(r.batch) + 1
    <3>1. t.skipped = r.skipped + 1 /\ Len(t.batch) = Len(r.batch)
      BY <2>1
    <3> QED
      BY <1>4, <3>1, SMT
  <2>5. ToSet(r.batch) \subseteq ToSet(t.batch)
    BY <2>1
  <2> QED
    BY <1>5, <1>7, <2>1, <2>2, <2>3, <2>4, <2>5
<1>8. CASE run' = [run EXCEPT ![a] = Failing(run[a], "YTDLP_OUTPUT_CHANGED")]
  <2>1. "YTDLP_OUTPUT_CHANGED" \in CollectionErrorCode
    BY DEF CollectionErrorCode
  <2> QED
    BY <1>1, <1>2, <1>8, <2>1, FailingKeeps
<1>9. ASSUME NEW m
      PROVE  [run EXCEPT ![a].next = @ + 1, ![a].batch = Append(@, m)]
               = [run EXCEPT ![a] = WithMessage(run[a], m)]
  BY DEF WithMessage
<1>10. [run EXCEPT ![a].next = @ + 1, ![a].skipped = @ + 1]
         = [run EXCEPT ![a] = WithSkipped(run[a])]
  BY DEF WithSkipped
<1>11. [run EXCEPT ![a] = Failing(@, "YTDLP_OUTPUT_CHANGED")]
         = [run EXCEPT ![a] = Failing(run[a], "YTDLP_OUTPUT_CHANGED")]
  OBVIOUS
<1> QED
  BY <1>6, <1>7, <1>8, <1>9, <1>10, <1>11 DEF Parse

\* What was in the batch is stored, some of it perhaps before: only the rows
\* inserted now are counted as saved.
LEMMA SaveBatchKeeps ==
  ASSUME IInv, NEW a \in Attempts, SaveBatch(a)
  PROVE  IInv'
<1> DEFINE r == run[a]
           n == Cardinality(Inserted(r.batch))
           t == WithSaved(r, n)
<1>1. /\ r \in Run /\ TypeOK /\ AttemptIsTrue(a) /\ ~(a > job.attempt)
      /\ r.step = "importing" /\ UNCHANGED job /\ stored' = Upsert(a, r.batch)
      /\ IsFiniteSet(RowsOf(a)) /\ Cardinality(RowsOf(a)) \in Nat
  BY AttemptFacts DEF SaveBatch
<1>2. Followed(r) /\ r.result = "none" /\ r.saved = Cardinality(RowsOf(a))
  BY <1>1 DEF AttemptIsTrue
<1>3. /\ r.next \in Nat \ {0} /\ r.saved \in Nat /\ r.duplicate \in Nat
      /\ r.skipped \in Nat /\ r.batch \in Seq(Messages) /\ Len(r.batch) \in Nat
  <2>1. /\ r.next \in Nat \ {0} /\ r.saved \in Nat /\ r.duplicate \in Nat
        /\ r.skipped \in Nat /\ r.batch \in Seq(Messages)
    BY <1>1 DEF Run
  <2> QED
    BY <2>1
<1>4. n \in Nat /\ n <= Len(r.batch)
  BY <1>3, InsertedIsFinite
<1>5. /\ RowsGrow(a) /\ IsFiniteSet(RowsOf(a)')
      /\ Cardinality(RowsOf(a)') = Cardinality(RowsOf(a)) + n
      /\ \A m \in ToSet(r.batch) : stored'[m] # NULL
  BY <1>1, <1>3, UpsertGrows
<1>6. run' = [run EXCEPT ![a] = t]
  BY DEF SaveBatch, Saved, WithSaved
<1> HIDE DEF n
<1>7. /\ t \in Run
      /\ t.batch = <<>> /\ t.saved = r.saved + n
      /\ t.duplicate = r.duplicate + (Len(r.batch) - n)
      /\ t.step = r.step /\ t.artifact = r.artifact /\ t.next = r.next
      /\ t.skipped = r.skipped /\ t.result = r.result
  BY <1>1, <1>4, WithSavedIsRun
<1> HIDE DEF t
<1>8. AttemptBecomes(a, t) /\ run'[a] = t
  BY <1>1, <1>5, <1>6 DEF AttemptBecomes, TypeOK
<1>9. t.saved + t.duplicate + t.skipped + Len(t.batch) = t.next - 1
  <2> DEFINE s == r.saved
             d == r.duplicate
             k == r.skipped
             b == Len(r.batch)
             next == r.next
  <2>1. /\ s \in Nat /\ d \in Nat /\ k \in Nat /\ b \in Nat /\ next \in Nat
        /\ n \in Nat
    BY <1>3, <1>4
  <2>2. s + d + k + b = next - 1
    BY <1>2 DEF Followed
  <2>3. /\ t.saved = s + n /\ t.duplicate = d + (b - n) /\ t.skipped = k
        /\ Len(t.batch) = 0 /\ t.next = next
    BY <1>7
  <2> HIDE DEF s, d, k, b, next
  <2>4. (s + n) + (d + (b - n)) + k + 0 = next - 1
    BY <2>1, <2>2, SMT
  <2> QED
    BY <2>3, <2>4
<1>10. ASSUME NEW i \in 1 .. t.next - 1
       PROVE  \/ t.artifact[i] = "skipped"
              \/ t.artifact[i] \in Messages /\ stored'[t.artifact[i]] # NULL
  <2>1. \/ r.artifact[i] = "skipped"
        \/ /\ r.artifact[i] \in Messages
           /\ r.artifact[i] \in ToSet(r.batch) \/ stored[r.artifact[i]] # NULL
    BY <1>2, <1>7 DEF Followed
  <2>2. \A m \in Messages : stored[m] # NULL => stored'[m] # NULL
    BY <1>5 DEF RowsGrow
  <2> QED
    BY <1>5, <1>7, <2>1, <2>2
<1>11. Followed(run[a])'
  <2>1. t.artifact \in Artifacts /\ t.next <= Len(t.artifact) + 1
    BY <1>2, <1>7 DEF Followed
  <2> QED
    BY <1>8, <1>9, <1>10, <2>1 DEF Followed
<1>12. AttemptIsTrue(a)'
  <2>1. run'[a].saved = Cardinality(RowsOf(a)')
    BY <1>2, <1>5, <1>7, <1>8
  <2> QED
    BY <1>1, <1>2, <1>5, <1>7, <1>8, <1>11, <2>1 DEF AttemptIsTrue
<1> QED
  BY <1>1, <1>7, <1>8, <1>12, AttemptGoesOn

LEMMA SaveBatchFailsKeeps ==
  ASSUME IInv, NEW a \in Attempts, SaveBatchFails(a)
  PROVE  IInv'
<1>1. /\ run[a] \in Run /\ TypeOK /\ IsFiniteSet(RowsOf(a))
      /\ run[a].step = "importing" /\ UNCHANGED job
      /\ stored' = stored \/ stored' = Upsert(a, run[a].batch)
      /\ run' = [run EXCEPT ![a] = Failing(run[a], "CHAT_IMPORT_FAILED")]
  BY AttemptFacts DEF SaveBatchFails
<1>2. run[a].batch \in Seq(Messages)
  BY <1>1 DEF Run
<1>3. RowsGrow(a) /\ IsFiniteSet(RowsOf(a)')
  BY <1>1, <1>2, RowsStay, UpsertGrows
<1>4. "CHAT_IMPORT_FAILED" \in CollectionErrorCode
  BY DEF CollectionErrorCode
<1> QED
  BY <1>1, <1>3, <1>4, FailingKeeps

\* The whole artifact is behind the attempt and its batch is saved.
LEMMA FinishImportKeeps ==
  ASSUME IInv, NEW a \in Attempts, FinishImport(a)
  PROVE  IInv'
<1> DEFINE r == run[a]
           t == Finished(r)
<1>1. /\ r \in Run /\ TypeOK /\ AttemptIsTrue(a) /\ ~(a > job.attempt)
      /\ r.step = "importing" /\ r.batch = <<>> /\ AtEnd(a)
      /\ UNCHANGED <<stored, job>>
  BY AttemptFacts DEF FinishImport, Imported
<1>2. RowsGrow(a) /\ UNCHANGED RowsOf(a)
  BY <1>1, RowsStay
<1>3. Followed(r) /\ r.result = "none" /\ r.saved = Cardinality(RowsOf(a))
  BY <1>1 DEF AttemptIsTrue
<1>4. /\ t \in Run
      /\ t.step = "reporting" /\ t.batch = <<>> /\ t.result = "succeeded"
      /\ t.artifact = r.artifact /\ t.next = r.next /\ t.saved = r.saved
      /\ t.duplicate = r.duplicate /\ t.skipped = r.skipped
  BY <1>1, FinishedIsRun
<1>5. run' = [run EXCEPT ![a] = t]
  BY DEF FinishImport, Finished
<1> HIDE DEF t
<1>6. AttemptBecomes(a, t) /\ run'[a] = t
  BY <1>1, <1>2, <1>5 DEF AttemptBecomes, TypeOK
<1>7. r.next = Len(r.artifact) + 1
  <2>1. r.next \in Nat
    BY <1>1 DEF Run
  <2>2. Len(r.artifact) \in Nat
    BY <1>3, ArtifactsAreSequences DEF Followed
  <2> QED
    BY <1>1, <1>3, <2>1, <2>2, SMT DEF Followed, AtEnd
<1>8. Followed(run[a])'
  BY <1>1, <1>3, <1>4, <1>6 DEF Followed
<1>9. AttemptIsTrue(a)'
  BY <1>1, <1>2, <1>3, <1>4, <1>6, <1>7, <1>8 DEF AttemptIsTrue
<1> QED
  BY <1>1, <1>4, <1>6, <1>9, AttemptGoesOn

-----------------------------------------------------------------------------
(* The report *)

JobFailed(code) == [job EXCEPT !.status = "failed", !.error = code]
JobSucceeded(processed, skipped) ==
  [job EXCEPT !.status = "succeeded", !.processed = processed, !.skipped = skipped]

LEMMA JobFailedIsJob ==
  ASSUME job \in Job, NEW code \in CollectionErrorCode \union {"none"}
  PROVE  LET j == JobFailed(code)
         IN  j \in Job /\ j.status = "failed" /\ j.attempt = job.attempt
<1> DEFINE j1 == [job EXCEPT !.status = "failed"]
           j2 == [j1 EXCEPT !.error = code]
<1>1. j1 \in Job /\ j1.status = "failed" /\ j1.attempt = job.attempt
  BY SMT DEF Job
<1> HIDE DEF j1
<1>2. j2 \in Job /\ j2.status = "failed" /\ j2.attempt = job.attempt
  BY <1>1, SMT DEF Job
<1>3. j2 = JobFailed(code)
  BY DEF j1, j2, JobFailed
<1> QED
  BY <1>2, <1>3

LEMMA JobSucceededIsJob ==
  ASSUME job \in Job, NEW processed \in Nat, NEW skipped \in Nat
  PROVE  LET j == JobSucceeded(processed, skipped)
         IN  /\ j \in Job /\ j.status = "succeeded" /\ j.attempt = job.attempt
             /\ j.processed = processed /\ j.skipped = skipped
<1> DEFINE j1 == [job EXCEPT !.status = "succeeded"]
           j2 == [j1 EXCEPT !.processed = processed]
           j3 == [j2 EXCEPT !.skipped = skipped]
<1>1. j1 \in Job /\ j1.status = "succeeded" /\ j1.attempt = job.attempt
  BY SMT DEF Job
<1> HIDE DEF j1
<1>2. /\ j2 \in Job /\ j2.status = "succeeded" /\ j2.attempt = job.attempt
      /\ j2.processed = processed
  BY <1>1, SMT DEF Job
<1> HIDE DEF j2
<1>3. /\ j3 \in Job /\ j3.status = "succeeded" /\ j3.attempt = job.attempt
      /\ j3.processed = processed /\ j3.skipped = skipped
  BY <1>2, SMT DEF Job
<1>4. j3 = JobSucceeded(processed, skipped)
  BY DEF j1, j2, j3, JobSucceeded
<1> QED
  BY <1>3, <1>4

\* The row changes for the last attempt alone, and only while it is running.
LEMMA ReportKeeps ==
  ASSUME IInv, NEW a \in Attempts, Report(a)
  PROVE  IInv'
<1> DEFINE r == run[a]
           t == Over(r)
<1>1. /\ r \in Run /\ TypeOK /\ AttemptIsTrue(a) /\ ~(a > job.attempt)
      /\ r.step = "reporting" /\ UNCHANGED stored
  BY AttemptFacts DEF Report
<1>2. RowsGrow(a) /\ UNCHANGED RowsOf(a)
  BY <1>1, RowsStay
<1>3. /\ t \in Run
      /\ t.step = "over" /\ t.batch = r.batch /\ t.result = r.result
      /\ t.artifact = r.artifact /\ t.next = r.next /\ t.saved = r.saved
      /\ t.duplicate = r.duplicate /\ t.skipped = r.skipped
  BY <1>1, OverIsRun
<1>4. run' = [run EXCEPT ![a] = t]
  BY DEF Report, Over
<1> HIDE DEF t
<1>5. AttemptBecomes(a, t) /\ run'[a] = t
  BY <1>1, <1>2, <1>4 DEF AttemptBecomes, TypeOK
<1>6. /\ r.saved \in Nat /\ r.skipped \in Nat
      /\ r.error \in CollectionErrorCode \union {"none"}
  BY <1>1 DEF Run
<1>7. job \in Job
  BY <1>1 DEF TypeOK
<1>8. \/ /\ job.status = "running" /\ job.attempt = a /\ r.result = "failed"
         /\ job' = JobFailed(r.error)
      \/ /\ job.status = "running" /\ job.attempt = a /\ r.result # "failed"
         /\ job' = JobSucceeded(r.saved, r.skipped)
      \/ UNCHANGED job
  BY DEF Report, JobFailed, JobSucceeded
<1>9. job' \in Job /\ job'.attempt = job.attempt
  BY <1>6, <1>7, <1>8, JobFailedIsJob, JobSucceededIsJob
<1>10. TypeOK'
  BY <1>1, <1>3, <1>4, <1>9 DEF TypeOK
<1>11. AttemptIsTrue(a)'
  <2>1. ASSUME Followed(r) PROVE Followed(run[a])'
    BY <1>1, <1>3, <1>5, <2>1 DEF Followed
  <2> QED
    BY <1>1, <1>2, <1>3, <1>5, <1>9, <2>1 DEF AttemptIsTrue
<1>12. \A b \in Attempts : AttemptIsTrue(b)'
  BY <1>3, <1>5, <1>9, <1>11, OthersStayTrue
<1>13. JobIsTrue'
  <2>1. CASE /\ job.status = "running" /\ job.attempt = a /\ r.result = "failed"
             /\ job' = JobFailed(r.error)
    BY <1>6, <1>7, <2>1, JobFailedIsJob DEF JobIsTrue, IInv
  <2>2. CASE /\ job.status = "running" /\ job.attempt = a /\ r.result # "failed"
             /\ job' = JobSucceeded(r.saved, r.skipped)
    <3>1. /\ job'.status = "succeeded" /\ job'.attempt = a
          /\ job'.processed = r.saved /\ job'.skipped = r.skipped
      BY <1>6, <1>7, <2>2, JobSucceededIsJob
    <3>2. Winner' = t
      BY <1>5, <3>1 DEF Winner
    <3>3. a # 0
      BY MaxAttemptsIsNumber, SMT DEF Attempts
    <3> QED
      BY <1>3, <2>2, <3>1, <3>2, <3>3 DEF JobIsTrue
  <2>3. CASE UNCHANGED job /\ job.status = "succeeded"
    <3>1. job.attempt \in Attempts
      BY <1>7, <2>3, MaxAttemptsIsNumber, SMT DEF IInv, Job, JobIsTrue, Attempts
    <3>2. job.attempt # a
      BY <1>1, <2>3 DEF IInv, JobIsTrue, Winner
    <3>3. Winner' = Winner
      BY <1>1, <1>4, <2>3, <3>1, <3>2 DEF Winner, TypeOK
    <3> QED
      BY <2>3, <3>3 DEF IInv, JobIsTrue
  <2>4. CASE UNCHANGED job /\ job.status # "succeeded"
    BY <2>4 DEF IInv, JobIsTrue
  <2> QED
    BY <1>8, <2>1, <2>2, <2>3, <2>4
<1> QED
  BY <1>10, <1>12, <1>13 DEF IInv

-----------------------------------------------------------------------------
(* The specification *)

LEMMA InitIsTrue ==
  ASSUME Init
  PROVE  IInv
<1>1. Unclaimed \in Run
  <2>1. <<>> \in Seq(Messages)
    OBVIOUS
  <2> QED
    BY <2>1, SMT DEF Unclaimed, Run, Results
<1>2. job \in Job /\ job.status = "queued" /\ job.attempt = 0
  BY MaxAttemptsIsNumber, SMT DEF Init, Job
<1>3. TypeOK
  BY <1>1, <1>2 DEF Init, TypeOK
<1>4. ASSUME NEW a \in Attempts PROVE AttemptIsTrue(a)
  <2>1. run[a] = Unclaimed
    BY DEF Init
  <2>2. a # NULL
    BY NullIsNoAttempt, MaxAttemptsIsNumber DEF Attempts
  <2>3. RowsOf(a) = {}
    BY <2>2 DEF Init, RowsOf
  <2>4. IsFiniteSet(RowsOf(a)) /\ Cardinality(RowsOf(a)) = 0
    BY <2>3, FS_EmptySet
  <2> QED
    BY <2>1, <2>4 DEF AttemptIsTrue, Unclaimed
<1>5. JobIsTrue
  BY <1>2 DEF JobIsTrue
<1> QED
  BY <1>3, <1>4, <1>5 DEF IInv

LEMMA StutterKeeps ==
  ASSUME IInv, UNCHANGED vars
  PROVE  IInv'
<1>1. TypeOK'
  BY DEF IInv, TypeOK, vars
<1>2. \A a \in Attempts : AttemptIsTrue(a)'
  BY DEF IInv, AttemptIsTrue, RowsOf, Followed, vars
<1>3. JobIsTrue'
  BY DEF IInv, JobIsTrue, Winner, vars
<1> QED
  BY <1>1, <1>2, <1>3 DEF IInv

LEMMA NextKeeps ==
  ASSUME IInv, [Next]_vars
  PROVE  IInv'
<1>1. CASE Claim
  BY <1>1, ClaimKeeps
<1>2. ASSUME NEW a \in Attempts, Collect(a) PROVE IInv'
  <2>1. CASE RunYtDlp(a)
    BY <2>1, RunYtDlpKeeps
  <2>2. CASE Parse(a)
    BY <2>2, ParseKeeps
  <2>3. CASE SaveBatch(a)
    BY <2>3, SaveBatchKeeps
  <2>4. CASE SaveBatchFails(a)
    BY <2>4, SaveBatchFailsKeeps
  <2>5. CASE FinishImport(a)
    BY <2>5, FinishImportKeeps
  <2>6. CASE Report(a)
    BY <2>6, ReportKeeps
  <2>7. CASE Die(a)
    BY <2>7, DieKeeps
  <2> QED
    BY <1>2, <2>1, <2>2, <2>3, <2>4, <2>5, <2>6, <2>7 DEF Collect
<1>3. CASE UNCHANGED vars
  BY <1>3, StutterKeeps
<1> QED
  BY <1>1, <1>2, <1>3 DEF Next

LEMMA Invariance == Spec => []IInv
  BY InitIsTrue, NextKeeps, PTL DEF Spec

\* The inductive invariant at the attempt that has succeeded.
LEMMA TrueAttemptsSuffice ==
  ASSUME IInv
  PROVE  ImportInv
<1> DEFINE w == job.attempt
           r == run[w]
<1>1. TypeOK
  BY DEF IInv
<1>2. ASSUME job.status = "succeeded"
      PROVE  /\ w \in Attempts /\ AttemptIsTrue(w) /\ r \in Run
             /\ r.result # "failed"
             /\ job.processed = r.saved /\ job.skipped = r.skipped
  <2>1. w \in Attempts
    BY <1>1, <1>2, MaxAttemptsIsNumber, SMT DEF IInv, TypeOK, Job, JobIsTrue, Attempts
  <2> QED
    BY <1>1, <1>2, <2>1 DEF IInv, TypeOK, JobIsTrue, Winner
<1>3. ASSUME job.status = "succeeded", r.result = "succeeded"
      PROVE  /\ Followed(r) /\ r.batch = <<>> /\ r.next = Len(r.artifact) + 1
             /\ Len(r.artifact) \in Nat
             /\ DOMAIN r.artifact = 1 .. Len(r.artifact)
             /\ r.next - 1 = Len(r.artifact)
  <2>1. Followed(r) /\ r.batch = <<>> /\ r.next = Len(r.artifact) + 1
    BY <1>2, <1>3 DEF AttemptIsTrue
  <2>2. /\ Len(r.artifact) \in Nat
        /\ DOMAIN r.artifact = 1 .. Len(r.artifact)
    BY <2>1, ArtifactsAreSequences DEF Followed
  <2>3. r.next - 1 = Len(r.artifact)
    BY <2>1, <2>2, SMT
  <2> QED
    BY <2>1, <2>2, <2>3
<1>4. SuccessIsComplete
  <2> SUFFICES ASSUME job.status = "succeeded", r.result = "succeeded",
                      NEW m \in ToSet(r.artifact) \ {"skipped"}
               PROVE  m \in Messages /\ stored[m] # NULL
    BY DEF SuccessIsComplete, Winner
  <2>1. PICK i \in 1 .. Len(r.artifact) : r.artifact[i] = m
    BY <1>3 DEF ToSet
  <2>2. i \in 1 .. r.next - 1
    BY <1>3, <2>1
  <2>3. m \in Messages /\ (m \in ToSet(r.batch) \/ stored[m] # NULL)
    BY <1>3, <2>1, <2>2 DEF Followed
  <2>4. ToSet(r.batch) = {}
    BY <1>3 DEF ToSet
  <2> QED
    BY <2>3, <2>4
<1>5. CountsAreOfTheAttempt
  <2> SUFFICES ASSUME job.status = "succeeded"
               PROVE  /\ job.processed = Cardinality(RowsOf(w))
                      /\ r.result = "succeeded" =>
                           job.processed + r.duplicate + job.skipped = Len(r.artifact)
    BY DEF CountsAreOfTheAttempt, Winner, RowsOf
  <2>1. job.processed = Cardinality(RowsOf(w))
    BY <1>2 DEF AttemptIsTrue
  <2>2. ASSUME r.result = "succeeded"
        PROVE  job.processed + r.duplicate + job.skipped = Len(r.artifact)
    <3>1. /\ r.saved + r.duplicate + r.skipped + Len(r.batch) = Len(r.artifact)
          /\ Len(r.batch) = 0
      BY <1>3, <2>2 DEF Followed
    <3>2. r.saved \in Nat /\ r.duplicate \in Nat /\ r.skipped \in Nat
      BY <1>2 DEF Run
    <3> DEFINE s == r.saved
               d == r.duplicate
               k == r.skipped
    <3>3. s + d + k + 0 = Len(r.artifact) /\ s \in Nat /\ d \in Nat /\ k \in Nat
      BY <3>1, <3>2
    <3> HIDE DEF s, d, k
    <3>4. s + d + k = Len(r.artifact)
      BY <3>3, SMT
    <3> QED
      BY <1>2, <3>4 DEF s, d, k
  <2> QED
    BY <2>1, <2>2
<1> QED
  BY <1>1, <1>4, <1>5 DEF ImportInv

\* A succeeded job has stored all that its artifact held, and its counts are
\* those of its own attempt, whatever attempts ran before and beside it, for
\* any artifacts, batch size and number of attempts (ChatImport.ImportInv).
THEOREM ImportsHold == Spec => []ImportInv
  BY Invariance, TrueAttemptsSuffice, PTL

-----------------------------------------------------------------------------
(* Stored messages *)

LEMMA StepKeepsRows ==
  ASSUME IInv, [Next]_vars, NEW m \in Messages, stored[m] # NULL
  PROVE  stored'[m] = stored[m]
<1>1. ASSUME NEW a \in Attempts, NEW batch, stored' = Upsert(a, batch)
      PROVE  stored'[m] = stored[m]
  BY <1>1 DEF Upsert, Inserted
<1>2. ASSUME UNCHANGED stored PROVE stored'[m] = stored[m]
  BY <1>2
<1>3. CASE Claim
  BY <1>2, <1>3 DEF Claim
<1>4. ASSUME NEW a \in Attempts, Collect(a) PROVE stored'[m] = stored[m]
  <2>1. CASE SaveBatch(a)
    BY <1>1, <2>1 DEF SaveBatch
  <2>2. CASE SaveBatchFails(a)
    BY <1>1, <1>2, <2>2 DEF SaveBatchFails
  <2>3. CASE RunYtDlp(a) \/ Parse(a) \/ FinishImport(a) \/ Report(a) \/ Die(a)
    BY <1>2, <2>3 DEF RunYtDlp, Parse, FinishImport, Report, Die
  <2> QED
    BY <1>4, <2>1, <2>2, <2>3 DEF Collect
<1>5. CASE UNCHANGED vars
  BY <1>2, <1>5 DEF vars
<1> QED
  BY <1>3, <1>4, <1>5 DEF Next

\* A stored message is never changed or removed, by whatever attempt writes
\* next to it (ChatImport.FirstWriteWins: INSERT ... ON CONFLICT DO NOTHING).
THEOREM StoredMessagesStay == Spec => FirstWriteWins
<1> DEFINE Stays == \A m \in Messages : stored[m] # NULL => stored'[m] = stored[m]
<1>1. ASSUME IInv, [Next]_vars PROVE [Stays]_vars
  BY <1>1, StepKeepsRows
<1> HIDE DEF Stays
<1>2. Spec => [][Stays]_vars
  BY <1>1, Invariance, PTL DEF Spec
<1> QED
  BY <1>2 DEF Stays, FirstWriteWins
================================================================================
