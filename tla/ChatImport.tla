----------------------------- MODULE ChatImport -----------------------------
(***************************************************************************)
(* What the attempts of one collection job do to the stored chat messages   *)
(* of its stream: running yt-dlp, classifying how it ended, importing the   *)
(* artifact in batches, and reporting counts that the API publishes.        *)
(*                                                                         *)
(* The import is not fenced by the lease: an attempt whose lease was taken   *)
(* over keeps writing messages until it notices, beside its successor.  Only *)
(* the report at the end is fenced.  An attempt may die at any step.         *)
(***************************************************************************)
EXTENDS Naturals, FiniteSets, SequencesExt, CollectionErrors

CONSTANTS
  Messages,     \* external message ids of the stream's replay
  Artifacts,    \* contents yt-dlp may leave: sequences of parsed actions
  BatchSize,
  MaxAttempts,  \* bound: claims of the job
  NULL

Action == Messages \union {"skipped", "malformed"}

ASSUME ArtifactsAreSequences == Artifacts \subseteq Seq(Action)
ASSUME BatchSizeIsPositive == BatchSize \in Nat \ {0}
ASSUME MaxAttemptsIsNumber == MaxAttempts \in Nat
ASSUME NullIsNoAttempt == NULL \notin Nat
ASSUME NullIsNoArtifact == NULL \notin Artifacts

Attempts == 1 .. MaxAttempts

VARIABLES
  stored,  \* message id -> the attempt that inserted its row, or NULL
  run,     \* attempt -> the state of its collector
  job      \* the row of the job

vars == <<stored, run, job>>

Results == {"none", "succeeded", "no_data", "failed"}

Run ==
  [step      : {"unclaimed", "starting", "importing", "reporting", "over"},
   artifact  : Artifacts \union {NULL},
   next      : Nat \ {0},       \* position of the next action to parse
   batch     : Seq(Messages),
   saved     : Nat,
   duplicate : Nat,
   skipped   : Nat,
   result    : Results,
   error     : CollectionErrorCode \union {"none"}]

Unclaimed ==
  [step |-> "unclaimed", artifact |-> NULL, next |-> 1, batch |-> <<>>,
   saved |-> 0, duplicate |-> 0, skipped |-> 0, result |-> "none",
   error |-> "none"]

Job ==
  [status    : {"queued", "running", "succeeded", "failed"},
   attempt   : 0 .. MaxAttempts,
   processed : Nat,
   skipped   : Nat,
   error     : CollectionErrorCode \union {"none"}]

TypeOK ==
  /\ stored \in [Messages -> Attempts \union {NULL}]
  /\ run \in [Attempts -> Run]
  /\ job \in Job

Init ==
  /\ stored = [m \in Messages |-> NULL]
  /\ run = [a \in Attempts |-> Unclaimed]
  /\ job = [status |-> "queued", attempt |-> 0, processed |-> 0,
            skipped |-> 0, error |-> "none"]

-----------------------------------------------------------------------------
\* claim_next: the first claim, or a takeover after the lease expired.
Claim ==
  /\ job.status \in {"queued", "running"}
  /\ job.attempt < MaxAttempts
  /\ job' = [job EXCEPT !.status = "running", !.attempt = @ + 1]
  /\ run' = [run EXCEPT ![job.attempt + 1].step = "starting"]
  /\ UNCHANGED stored

\* A crash, a cancellation or a lost heartbeat: the attempt reports nothing.
\* What it has imported stays, its unsaved batch is lost.
Die(a) ==
  /\ run[a].step \in {"starting", "importing", "reporting"}
  /\ run' = [run EXCEPT ![a].step = "over", ![a].batch = <<>>]
  /\ UNCHANGED <<stored, job>>

Failing(r, code) ==
  [r EXCEPT !.step = "reporting", !.result = "failed", !.error = code,
            !.batch = <<>>]

\* How yt-dlp can end.
ProcessResult ==
  [termination : {"exited", "timed_out"},
   reason      : {"none", "access_denied", "replay_not_available",
                  "source_not_ready"},
   exitCode    : {0, 1},
   partial     : BOOLEAN,                    \* *.part in the temp directory
   files       : {"none", "one", "several"}] \* *.live_chat.json

\* failure_reason is kept only for a failed process or an unready source.
FailureReason(p) ==
  IF p.exitCode # 0 \/ p.reason = "source_not_ready" THEN p.reason ELSE "none"

ReasonCode ==
  [access_denied        |-> "YOUTUBE_ACCESS_DENIED",
   replay_not_available |-> "CHAT_REPLAY_NOT_AVAILABLE",
   source_not_ready     |-> "SOURCE_NOT_READY"]

\* The checks of collect() in their order, "none" if yt-dlp did its work.
Classified(p) ==
  CASE p.termination = "timed_out" -> "YTDLP_TIMEOUT"
    [] FailureReason(p) # "none"   -> ReasonCode[FailureReason(p)]
    [] p.exitCode # 0              -> "YTDLP_PROCESS_FAILED"
    [] p.partial                   -> "YTDLP_OUTPUT_CHANGED"
    [] OTHER                       -> "none"

\* yt-dlp runs to its end, and the importer looks at what it left.
RunYtDlp(a) ==
  /\ run[a].step = "starting"
  /\ \/ run' = [run EXCEPT ![a] = Failing(@, "WORKER_DISK_CAPACITY_LOW")]
     \/ \E p \in ProcessResult :
          \/ /\ Classified(p) # "none"
             /\ run' = [run EXCEPT ![a] = Failing(@, Classified(p))]
          \/ /\ Classified(p) = "none"
             /\ p.files # "one"
             /\ run' = [run EXCEPT ![a].step = "reporting",
                                   ![a].result = "no_data"]
          \/ /\ Classified(p) = "none"
             /\ p.files = "one"
             /\ \E artifact \in Artifacts :
                  run' = [run EXCEPT ![a].step = "importing",
                                     ![a].artifact = artifact]
  /\ UNCHANGED <<stored, job>>

-----------------------------------------------------------------------------
(* The import loop of collect() *)

Current(a) == run[a].artifact[run[a].next]
AtEnd(a) == run[a].next > Len(run[a].artifact)

\* One action of the artifact is parsed; a full batch is saved first.
Parse(a) ==
  /\ run[a].step = "importing"
  /\ Len(run[a].batch) < BatchSize
  /\ ~AtEnd(a)
  /\ \/ /\ Current(a) \in Messages
        /\ run' = [run EXCEPT ![a].next = @ + 1,
                              ![a].batch = Append(@, Current(a))]
     \/ /\ Current(a) = "skipped"
        /\ run' = [run EXCEPT ![a].next = @ + 1, ![a].skipped = @ + 1]
     \/ /\ Current(a) = "malformed"
        /\ run' = [run EXCEPT ![a] = Failing(@, "YTDLP_OUTPUT_CHANGED")]
  /\ UNCHANGED <<stored, job>>

\* The rows that INSERT ... ON CONFLICT DO NOTHING RETURNING id returns: a
\* message stored before, or twice in the batch, is not among them.
Inserted(batch) == {m \in ToSet(batch) : stored[m] = NULL}

\* Faulty variant: ON CONFLICT DO UPDATE.
UpsertOverwriting(a, batch) ==
  [m \in Messages |-> IF m \in ToSet(batch) THEN a ELSE stored[m]]

Upsert(a, batch) ==
  [m \in Messages |-> IF m \in Inserted(batch) THEN a ELSE stored[m]]

\* Faulty variant: counts the messages it sent instead of the rows returned.
SavedSent(r) ==
  [r EXCEPT !.batch = <<>>, !.saved = @ + Len(r.batch)]

Saved(r) ==
  LET n == Cardinality(Inserted(r.batch)) IN
    [r EXCEPT !.batch = <<>>, !.saved = @ + n,
              !.duplicate = @ + (Len(r.batch) - n)]

SaveBatch(a) ==
  /\ run[a].step = "importing"
  /\ \/ Len(run[a].batch) = BatchSize
     \/ AtEnd(a) /\ run[a].batch # <<>>
  /\ stored' = Upsert(a, run[a].batch)
  /\ run' = [run EXCEPT ![a] = Saved(@)]
  /\ UNCHANGED job

\* The statement fails, perhaps after it was committed.
SaveBatchFails(a) ==
  /\ run[a].step = "importing"
  /\ run[a].batch # <<>>
  /\ Len(run[a].batch) = BatchSize \/ AtEnd(a)
  /\ stored' \in {stored, Upsert(a, run[a].batch)}
  /\ run' = [run EXCEPT ![a] = Failing(@, "CHAT_IMPORT_FAILED")]
  /\ UNCHANGED job

\* Faulty variant: forgets the last, partial batch.
ImportedWithoutLastBatch(a) == run[a].step = "importing" /\ AtEnd(a)

Imported(a) ==
  run[a].step = "importing" /\ AtEnd(a) /\ run[a].batch = <<>>

FinishImport(a) ==
  /\ Imported(a)
  /\ run' = [run EXCEPT ![a].step = "reporting", ![a].result = "succeeded",
                        ![a].batch = <<>>]
  /\ UNCHANGED <<stored, job>>

-----------------------------------------------------------------------------
\* mark_succeeded and mark_failed, which match no row unless the attempt is
\* the latest one; JobResult.failed reports no counts.
Report(a) ==
  /\ run[a].step = "reporting"
  /\ run' = [run EXCEPT ![a].step = "over"]
  /\ IF job.status = "running" /\ job.attempt = a
       THEN job' = IF run[a].result = "failed"
                     THEN [job EXCEPT !.status = "failed",
                                      !.error = run[a].error]
                     ELSE [job EXCEPT !.status = "succeeded",
                                      !.processed = run[a].saved,
                                      !.skipped = run[a].skipped]
       ELSE UNCHANGED job
  /\ UNCHANGED stored

Collect(a) ==
  \/ RunYtDlp(a)
  \/ Parse(a)
  \/ SaveBatch(a)
  \/ SaveBatchFails(a)
  \/ FinishImport(a)
  \/ Report(a)
  \/ Die(a)

Next == Claim \/ \E a \in Attempts : Collect(a)

Spec == Init /\ [][Next]_vars

-----------------------------------------------------------------------------
(* What the API publishes *)

PublicStatus ==
  IF job.status = "succeeded" /\ job.processed = 0 /\ job.skipped = 0
    THEN "no_data" ELSE job.status

(* Properties *)

Winner == run[job.attempt]

\* A succeeded job has stored every message of the artifact its attempt read,
\* also when an earlier attempt had already stored some of them, and when a
\* stale attempt imports the same messages at the same time.
SuccessIsComplete ==
  job.status = "succeeded" /\ Winner.result = "succeeded" =>
    ToSet(Winner.artifact) \ {"skipped"}
      \subseteq {m \in Messages : stored[m] # NULL}

\* The counts of a succeeded job are those of its attempt alone: the rows that
\* this attempt inserted, whatever other attempts inserted before or meanwhile,
\* and the actions it skipped.
CountsAreOfTheAttempt ==
  job.status = "succeeded" =>
    /\ job.processed = Cardinality({m \in Messages : stored[m] = job.attempt})
    /\ Winner.result = "succeeded" =>
         job.processed + Winner.duplicate + job.skipped = Len(Winner.artifact)

\* What holds of the attempts, the messages and the job, with their types: a
\* success is complete, and its counts are its own.
ImportInv == TypeOK /\ SuccessIsComplete /\ CountsAreOfTheAttempt

\* A stored message keeps the content it was first stored with; no later
\* attempt, and no attempt that failed, changes or removes it.
FirstWriteWins ==
  [][\A m \in Messages : stored[m] # NULL => stored'[m] = stored[m]]_vars

=============================================================================
