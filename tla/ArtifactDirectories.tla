------------------------- MODULE ArtifactDirectories -------------------------
(***************************************************************************)
(* The attempt directories of the workers that share a root                   *)
(* (ArtifactDirectoryManager in observability.py, collect in chat_replay.py,  *)
(* main in app.py): every start and every attempt first sweeps the root, then *)
(* looks for free space; an attempt makes a directory and removes it.         *)
(*                                                                         *)
(* A directory is "old" when its mtime is behind the cutoff.  Free space is   *)
(* counted in directories, and the one of each process always fits.          *)
(***************************************************************************)
EXTENDS Naturals, FiniteSets

CONSTANTS
  Processes,  \* worker processes, each with its own supervisor
  Dirs,       \* names that mkdtemp may give
  Room,       \* directories that leave minimum_free_bytes free
  MaxFaults,  \* bound: crashes, removals that fail and attempts that hang
  NULL

VARIABLES
  dir,      \* name -> the directory
  worker,   \* process -> where it stands
  overrun,  \* an attempt has taken longer than orphan_after
  faults

vars == <<dir, worker, overrun, faults>>

Worker ==
  [main : {"down", "starting", "idle", "preparing", "creating", "working"},
   todo : SUBSET Dirs,             \* what is left of root.iterdir()
   victim : Dirs \union {NULL},    \* the candidate that rmtree is called for
   own : Dirs \union {NULL}]       \* attempt_directory

Resting(main) == [main |-> main, todo |-> {}, victim |-> NULL, own |-> NULL]

TypeOK ==
  /\ dir \in [Dirs -> {"absent", "recent", "old"}]
  /\ worker \in [Processes -> Worker]
  /\ overrun \in BOOLEAN
  /\ faults \in 0 .. MaxFaults

Init ==
  /\ dir = [d \in Dirs |-> "absent"]
  /\ worker = [p \in Processes |-> Resting("down")]
  /\ overrun = FALSE
  /\ faults = 0

Present == {d \in Dirs : dir[d] # "absent"}
CapacityOk == Cardinality(Present) <= Room
Goes(p, main) == worker' = [worker EXCEPT ![p] = Resting(main)]

-----------------------------------------------------------------------------
(* prepare *)

Lists(p, main) ==
  worker' = [worker EXCEPT ![p] = [Resting(main) EXCEPT !.todo = Present]]

\* Faulty variant: the space is looked at before the sweep.
StartCheckingFirst(p) ==
  /\ worker[p].main = "down"
  /\ IF CapacityOk THEN Lists(p, "starting") ELSE Goes(p, "down")
  /\ UNCHANGED <<dir, overrun, faults>>

\* The supervisor starts the process.
Start(p) ==
  /\ worker[p].main = "down"
  /\ Lists(p, "starting")
  /\ UNCHANGED <<dir, overrun, faults>>

\* A job has been claimed.
Prepare(p) ==
  /\ worker[p].main = "idle"
  /\ Lists(p, "preparing")
  /\ UNCHANGED <<dir, overrun, faults>>

Sweeping(p) == worker[p].main \in {"starting", "preparing"}

\* Faulty variant: mtime is not looked at.
IsAnyOrphan(d) == dir[d] # "absent"

\* is_dir and st_mtime < cutoff.
IsOrphan(d) == dir[d] = "old"

Examine(p) ==
  /\ Sweeping(p) /\ worker[p].victim = NULL
  /\ \E d \in worker[p].todo :
       worker' = [worker EXCEPT ![p].todo = @ \ {d},
                                ![p].victim = IF IsOrphan(d) THEN d ELSE NULL]
  /\ UNCHANGED <<dir, overrun, faults>>

\* stat, _directory_bytes and rmtree raise OSError if another sweep was faster,
\* and that ends the process, in collect as at the start.
Remove(p) ==
  LET d == worker[p].victim
  IN  /\ Sweeping(p) /\ d # NULL
      /\ IF dir[d] = "absent" THEN Goes(p, "down") /\ UNCHANGED dir
         ELSE /\ dir' = [dir EXCEPT ![d] = "absent"]
              /\ worker' = [worker EXCEPT ![p].victim = NULL]
      /\ UNCHANGED <<overrun, faults>>

\* InsufficientDiskCapacity ends a start; an attempt fails, to be retried.
CheckCapacity(p) ==
  /\ Sweeping(p) /\ worker[p].todo = {} /\ worker[p].victim = NULL
  /\ Goes(p, IF worker[p].main = "starting"
             THEN IF CapacityOk THEN "idle" ELSE "down"
             ELSE IF CapacityOk THEN "creating" ELSE "idle")
  /\ UNCHANGED <<dir, overrun, faults>>

-----------------------------------------------------------------------------
(* collect *)

\* Names are random: none is given that another sweep still knows.
Held == UNION {worker[p].todo \union {worker[p].victim} : p \in Processes}

MakeDirectory(p) ==
  /\ worker[p].main = "creating"
  /\ \E d \in Dirs \ (Present \union Held) :
       /\ dir' = [dir EXCEPT ![d] = "recent"]
       /\ worker' = [worker EXCEPT ![p].main = "working", ![p].own = d]
  /\ UNCHANGED <<overrun, faults>>

\* finally: rmtree, which ignores errors.
RemoveOwn(p) ==
  /\ worker[p].main = "working"
  /\ dir' = [dir EXCEPT ![worker[p].own] = "absent"]
  /\ Goes(p, "idle")
  /\ UNCHANGED <<overrun, faults>>

Fault == faults < MaxFaults /\ faults' = faults + 1

\* ... for instance because a helper of yt-dlp still writes into it.
LeavesOwn(p) ==
  /\ worker[p].main = "working"
  /\ Goes(p, "idle")
  /\ Fault
  /\ UNCHANGED <<dir, overrun>>

Crash(p) ==
  /\ worker[p].main # "down"
  /\ Goes(p, "down")
  /\ Fault
  /\ UNCHANGED <<dir, overrun>>

-----------------------------------------------------------------------------
(* Time *)

Owned(d) == \E p \in Processes : worker[p].own = d

GetsOld(d) == dir[d] = "recent" /\ dir' = [dir EXCEPT ![d] = "old"]

Age(d) ==
  /\ ~Owned(d)
  /\ GetsOld(d)
  /\ UNCHANGED <<worker, overrun, faults>>

\* yt-dlp has a deadline; the import and a process that is stopped have none.
Overrun(d) ==
  /\ Owned(d)
  /\ GetsOld(d)
  /\ overrun' = TRUE
  /\ Fault
  /\ UNCHANGED worker

Sweep(p) == Examine(p) \/ Remove(p) \/ CheckCapacity(p)

Next ==
  \/ \E p \in Processes :
       \/ Start(p) \/ Sweep(p)
       \/ Prepare(p) \/ MakeDirectory(p) \/ RemoveOwn(p)
       \/ LeavesOwn(p) \/ Crash(p)
  \/ \E d \in Dirs : Age(d) \/ Overrun(d)

Spec == Init /\ [][Next]_vars

(***************************************************************************)
(* The supervisor restarts, threads are scheduled and time passes.  Jobs need *)
(* not come, and attempts need not end.                                      *)
(***************************************************************************)
Fairness ==
  /\ \A p \in Processes : WF_vars(Start(p)) /\ WF_vars(Sweep(p))
  /\ \A d \in Dirs : WF_vars(Age(d))

-----------------------------------------------------------------------------
(* Properties *)

(***************************************************************************)
(* docs/operations/observability.md:51: the sweeps of all workers leave the   *)
(* directories of running attempts alone, as long as no attempt takes longer  *)
(* than orphan_after.                                                       *)
(***************************************************************************)
RunningAttemptsKeepTheirs ==
  ~overrun =>
    \A p \in Processes : worker[p].own # NULL => dir[worker[p].own] # "absent"

(***************************************************************************)
(* A worker comes to claim jobs although directories that others left behind  *)
(* fill the disk, and although sweeps that meet fail each other's starts.    *)
(***************************************************************************)
WorkersStart ==
  \A p \in Processes : worker[p].main = "down" ~> worker[p].main = "idle"
=============================================================================
