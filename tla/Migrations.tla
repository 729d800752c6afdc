------------------------------ MODULE Migrations ------------------------------
(***************************************************************************)
(* API processes that apply the migrations when they start (migrations.go,   *)
(* main.go): an advisory lock of the session, a ledger of names, and one     *)
(* transaction per migration.                                               *)
(*                                                                         *)
(* Migrations are numbered in the order of their names.  A release contains  *)
(* the migrations up to some number, and processes of two releases may start *)
(* at once.  A session that ends, however it ends, rolls its transaction     *)
(* back and gives up its locks.  A migration whose objects exist fails.      *)
(***************************************************************************)
EXTENDS Naturals, Sequences, FiniteSets, SequencesExt

CONSTANTS
  Processes,
  Release,    \* process -> number of its last migration
  MaxFaults,  \* bound: crashes and failed statements
  NULL

ASSUME ReleaseIsNumber == Release \in [Processes -> Nat \ {0}]
ASSUME MaxFaultsIsNumber == MaxFaults \in Nat
ASSUME NullIsNoProcess == NULL \notin Processes

VARIABLES
  schema,   \* the committed migrations, in the order of their commits
  ledger,   \* the names in public.schema_migrations
  lock,     \* the session that holds the advisory lock
  pc,       \* where a process stands
  item,     \* the migration it is at
  faults    \* how many faults there have been

vars == <<schema, ledger, lock, pc, item, faults>>

Position == {"down", "locking", "checking", "executing", "recording",
             "committing", "unlocking", "serving"}

TypeOK ==
  /\ schema \in Seq(Nat)
  /\ ledger \subseteq Nat
  /\ lock \in Processes \union {NULL}
  /\ pc \in [Processes -> Position \union {"conflict"}]
  /\ item \in [Processes -> Nat]
  /\ \A p \in Processes : item[p] \in 1 .. Release[p] + 1
  /\ faults \in 0 .. MaxFaults

Init ==
  /\ schema = <<>>
  /\ ledger = {}
  /\ lock = NULL
  /\ pc = [p \in Processes |-> "down"]
  /\ item = [p \in Processes |-> 1]
  /\ faults = 0

At(p, position) == pc[p] = position
Goes(p, position) == pc' = [pc EXCEPT ![p] = position]

\* The transaction of another session that has executed the same migration:
\* the objects it creates make a second execution wait.
InDoubt(p) ==
  \E q \in Processes \ {p} :
    item[q] = item[p] /\ pc[q] \in {"recording", "committing"}

\* The process is not running: at the first, after a fault, or because a
\* migration that it executed was in the schema.
Ended(p) == pc[p] \in {"down", "conflict"}

GivesUpLock(p) == lock' = IF lock = p THEN NULL ELSE lock

-----------------------------------------------------------------------------

Start(p) ==
  /\ Ended(p)
  /\ Goes(p, "locking")
  /\ item' = [item EXCEPT ![p] = 1]
  /\ UNCHANGED <<schema, ledger, lock, faults>>

\* Faulty variant: pg_advisory_xact_lock, which ends with its statement.
LockStatement(p) ==
  /\ At(p, "locking")
  /\ lock = NULL
  /\ Goes(p, "checking")
  /\ UNCHANGED <<schema, ledger, lock, item, faults>>

\* pg_advisory_lock; the ledger is created if it does not exist.
Lock(p) ==
  /\ At(p, "locking")
  /\ lock = NULL
  /\ lock' = p
  /\ Goes(p, "checking")
  /\ UNCHANGED <<schema, ledger, item, faults>>

\* The next migration: the loop ends, or the ledger has it, or it is executed.
Check(p) ==
  /\ At(p, "checking")
  /\ IF item[p] > Release[p] THEN Goes(p, "unlocking") /\ UNCHANGED item
     ELSE IF item[p] \in ledger
     THEN item' = [item EXCEPT ![p] = @ + 1] /\ UNCHANGED pc
     ELSE Goes(p, "executing") /\ UNCHANGED item
  /\ UNCHANGED <<schema, ledger, lock, faults>>

\* A migration that is in the schema already fails, and log.Fatal ends the
\* process.
Execute(p) ==
  /\ At(p, "executing")
  /\ ~InDoubt(p)
  /\ IF item[p] \in ToSet(schema)
     THEN GivesUpLock(p) /\ Goes(p, "conflict")
     ELSE Goes(p, "recording") /\ UNCHANGED lock
  /\ UNCHANGED <<schema, ledger, item, faults>>

Record(p) ==
  /\ At(p, "recording")
  /\ Goes(p, "committing")
  /\ UNCHANGED <<schema, ledger, lock, item, faults>>

Committed(p) ==
  /\ schema' = Append(schema, item[p])
  /\ ledger' = ledger \union {item[p]}

Commit(p) ==
  /\ At(p, "committing")
  /\ Committed(p)
  /\ item' = [item EXCEPT ![p] = @ + 1]
  /\ Goes(p, "checking")
  /\ UNCHANGED <<lock, faults>>

\* Faulty variant: the pool keeps the session, and the session keeps the lock.
ReleaseOnly(p) ==
  /\ At(p, "unlocking")
  /\ Goes(p, "serving")
  /\ UNCHANGED <<schema, ledger, lock, item, faults>>

Unlock(p) ==
  /\ At(p, "unlocking")
  /\ lock' = NULL
  /\ Goes(p, "serving")
  /\ UNCHANGED <<schema, ledger, item, faults>>

\* The process ends and its session with it: a crash, a stop, the 15 seconds
\* for the start, or log.Fatal after a statement that failed.
Ends(p) ==
  /\ GivesUpLock(p)
  /\ Goes(p, "down")
  /\ UNCHANGED item

Fails(p) ==
  /\ ~Ended(p)
  /\ faults < MaxFaults
  /\ faults' = faults + 1
  /\ Ends(p)
  /\ UNCHANGED <<schema, ledger>>

\* The commit takes place, and its reply is lost.
CommitReplyLost(p) ==
  /\ At(p, "committing")
  /\ faults < MaxFaults
  /\ faults' = faults + 1
  /\ Committed(p)
  /\ Ends(p)

Apply(p) ==
  Lock(p) \/ Check(p) \/ Execute(p) \/ Record(p) \/ Commit(p) \/ Unlock(p)

Next ==
  \E p \in Processes :
    Start(p) \/ Apply(p) \/ Fails(p) \/ CommitReplyLost(p)

Spec == Init /\ [][Next]_vars

(***************************************************************************)
(* The deployment starts a process that has ended.  PostgreSQL hands the     *)
(* lock to the sessions that wait for it in turn.                           *)
(***************************************************************************)
Fairness == \A p \in Processes : WF_vars(Start(p)) /\ SF_vars(Apply(p))

FairSpec == Spec /\ Fairness

-----------------------------------------------------------------------------
(* What the start promises *)

(***************************************************************************)
(* docs/operations/production-canary-and-rollback.md:45: the ledger contains *)
(* every migration exactly once.  The schema has had them in their order,    *)
(* each once and without a gap, and the ledger is true of it: whatever       *)
(* processes of two releases start, fail and start again.                   *)
(***************************************************************************)
AppliedOnceInOrder ==
  /\ \A i \in DOMAIN schema : schema[i] = i
  /\ ledger = ToSet(schema)

(***************************************************************************)
(* A process serves requests only if the schema has every migration of its   *)
(* release.                                                                 *)
(***************************************************************************)
ServingIsMigrated ==
  \A p \in Processes :
    At(p, "serving") => 1 .. Release[p] \subseteq ToSet(schema)

(***************************************************************************)
(* A start never fails because another one applies the same migrations:      *)
(* migrations/README.md says that the lock serializes concurrent runners.    *)
(***************************************************************************)
StartsDoNotCollide == \A p \in Processes : ~At(p, "conflict")

(***************************************************************************)
(* What holds of the schema, the ledger and the processes, with the types.   *)
(***************************************************************************)
MigrationInv ==
  /\ TypeOK
  /\ AppliedOnceInOrder
  /\ ServingIsMigrated
  /\ StartsDoNotCollide

(***************************************************************************)
(* After the faults every process comes to serve.                           *)
(***************************************************************************)
EveryProcessServes == \A p \in Processes : <>[]At(p, "serving")
=============================================================================
