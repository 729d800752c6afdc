-------------------------- MODULE AttemptHostProofs --------------------------
(***************************************************************************)
(* Proofs about AttemptHost, for every group of processes, every set of        *)
(* workers and directories, and every number of faults.                      *)
(*                                                                         *)
(* GroupInv says how far the parent is from what it has sent and collected.   *)
(* DirectoriesInv says why a sweep that looks at a directory first and        *)
(* removes it later does not meet one that is in use: the directory of an      *)
(* attempt is recent, it is nobody else's, and no sweep has chosen it.        *)
(***************************************************************************)
EXTENDS AttemptHost, TLAPS

GroupInv ==
  /\ TypeOK
  /\ reaped <=> pc = "returned"
  /\ pc \in {"polling", "waiting", "terminating"} => signalled = "none"
  /\ pc \in {"terminating", "grace", "reaping"} =>
       termination \in {"cancelled", "timed_out"}
  /\ termination = "exited" => signalled = "none"
  /\ termination = "cancelled" => cancellation
  /\ termination = "timed_out" => late

DirectoriesInv ==
  /\ Directories!TypeOK
  /\ \A p \in Processes : (worker[p].own # NULL) <=> (worker[p].main = "working")
  /\ ~overrun =>
       /\ \A p \in Processes : worker[p].own # NULL => dir[worker[p].own] = "recent"
       /\ \A p, q \in Processes :
            worker[p].own # NULL /\ worker[p].own = worker[q].own => p = q
       /\ \A p, q \in Processes :
            worker[p].victim # NULL => worker[p].victim # worker[q].own

IInv == followed \in {"group", "directories"} /\ GroupInv /\ DirectoriesInv

-----------------------------------------------------------------------------
(* The process group *)

LEMMA HitStep ==
  ASSUME TypeOK, NEW targets
  PROVE  HitBy(targets) \in [Members -> {"unborn", "running", "dying", "dead"}]
  BY DEF TypeOK, HitBy

LEMMA ParentStep ==
  ASSUME GroupInv, Parent
  PROVE  GroupInv'
<1>1. CASE Poll
  <2>1. TypeOK'
    BY <1>1 DEF GroupInv, TypeOK, Poll, Reap, Unchanged
  <2> QED
    BY <1>1, <2>1 DEF GroupInv, TypeOK, Poll, Reap, Unchanged
<1>2. CASE Wait
  <2>1. TypeOK'
    BY <1>2 DEF GroupInv, TypeOK, Wait, Reap, Unchanged
  <2> QED
    BY <1>2, <2>1 DEF GroupInv, TypeOK, Wait, Reap, Unchanged
<1>3. CASE Terminate
  <2>1. TypeOK'
    BY <1>3, HitStep DEF GroupInv, TypeOK, Terminate, Reap, Unchanged
  <2> QED
    BY <1>3, <2>1 DEF GroupInv, TypeOK, Terminate, Reap, Unchanged
<1>4. CASE Grace
  <2>1. TypeOK'
    BY <1>4, HitStep DEF GroupInv, TypeOK, Grace, Reap, Unchanged
  <2> QED
    BY <1>4, <2>1 DEF GroupInv, TypeOK, Grace, Reap, Unchanged
<1>5. CASE FinalWait
  <2>1. TypeOK'
    BY <1>5 DEF GroupInv, TypeOK, FinalWait, Reap, Unchanged
  <2> QED
    BY <1>5, <2>1 DEF GroupInv, TypeOK, FinalWait, Reap, Unchanged
<1> QED
  BY <1>1, <1>2, <1>3, <1>4, <1>5 DEF Parent

LEMMA GroupStep ==
  ASSUME GroupInv, [Next]_vars
  PROVE  GroupInv'
<1>1. CASE Parent
  BY <1>1, ParentStep
<1>2. CASE Cancel
  BY <1>2 DEF GroupInv, TypeOK, Cancel
<1>3. CASE DeadlinePasses
  BY <1>3 DEF GroupInv, TypeOK, DeadlinePasses
<1>4. ASSUME NEW p \in Members, Exit(p)
      PROVE  GroupInv'
  BY <1>4 DEF GroupInv, TypeOK, Exit
<1>5. ASSUME NEW p \in Helpers, StartHelper(p)
      PROVE  GroupInv'
  BY <1>5 DEF GroupInv, TypeOK, StartHelper, Members
<1>6. CASE UNCHANGED vars
  BY <1>6 DEF GroupInv, TypeOK, vars
<1> QED
  BY <1>1, <1>2, <1>3, <1>4, <1>5, <1>6 DEF Next, Finished

-----------------------------------------------------------------------------
(* The directories *)

Worker == Directories!Worker

LEMMA RestingWorker ==
  ASSUME NEW main \in {"down", "starting", "idle", "preparing", "creating"}
  PROVE  LET w == Directories!Resting(main)
         IN  /\ w \in Worker
             /\ w.main = main /\ w.own = NULL /\ w.victim = NULL
  BY DEF Worker, Directories!Worker, Directories!Resting

\* A worker without an attempt comes to another point at which it has none.
LEMMA WithoutAttempt ==
  ASSUME DirectoriesInv, NEW p \in Processes, NEW w \in Worker,
         worker' = [worker EXCEPT ![p] = w],
         w.own = NULL, w.main # "working",
         ~overrun => \A q \in Processes : w.victim # NULL =>
                       w.victim # worker[q].own,
         dir' = dir, overrun' = overrun, faults' \in 0 .. MaxFaults
  PROVE  DirectoriesInv'
<1>1. worker'[p] = w /\ \A q \in Processes \ {p} : worker'[q] = worker[q]
  BY DEF DirectoriesInv, Directories!TypeOK
<1>2. Directories!TypeOK'
  BY DEF DirectoriesInv, Directories!TypeOK, Worker
<1>3. \A q \in Processes : (worker'[q].own # NULL) <=> (worker'[q].main = "working")
  BY <1>1 DEF DirectoriesInv
<1>4. ASSUME ~overrun
      PROVE  /\ \A q \in Processes :
                  worker'[q].own # NULL => dir[worker'[q].own] = "recent"
             /\ \A q, r \in Processes :
                  worker'[q].own # NULL /\ worker'[q].own = worker'[r].own => q = r
             /\ \A q, r \in Processes :
                  worker'[q].victim # NULL => worker'[q].victim # worker'[r].own
  BY <1>1, <1>4 DEF DirectoriesInv
<1> QED
  BY <1>2, <1>3, <1>4 DEF DirectoriesInv

LEMMA StoppedWorker ==
  ASSUME DirectoriesInv, NEW p \in Processes,
         NEW main \in {"down", "starting", "idle", "preparing", "creating"},
         Directories!Goes(p, main),
         dir' = dir, overrun' = overrun, faults' \in 0 .. MaxFaults
  PROVE  DirectoriesInv'
  BY WithoutAttempt, RestingWorker DEF Directories!Goes

LEMMA ListingStep ==
  ASSUME DirectoriesInv, NEW p \in Processes,
         NEW main \in {"starting", "preparing"}, Directories!Lists(p, main),
         dir' = dir, overrun' = overrun, faults' = faults
  PROVE  DirectoriesInv'
<1> DEFINE w == [Directories!Resting(main) EXCEPT !.todo = Directories!Present]
<1>1. /\ w \in Worker /\ w.main = main /\ w.own = NULL /\ w.victim = NULL
  BY DEF Worker, Directories!Worker, Directories!Resting, Directories!Present
<1>2. worker' = [worker EXCEPT ![p] = w]
  BY DEF Directories!Lists
<1>3. faults' \in 0 .. MaxFaults
  BY DEF DirectoriesInv, Directories!TypeOK
<1> HIDE DEF w
<1> QED
  BY <1>1, <1>2, <1>3, WithoutAttempt

\* A worker of which the sweep has another candidate, or none.
Swept(w, t, d) == [w EXCEPT !.todo = t, !.victim = d]

LEMMA SweepingWorker ==
  ASSUME NEW w \in Worker, NEW t \in SUBSET Dirs, NEW d \in Dirs \union {NULL}
  PROVE  LET n == Swept(w, t, d)
         IN  n \in Worker /\ n.main = w.main /\ n.own = w.own /\ n.victim = d
<1> DEFINE m == [w EXCEPT !.todo = t]
           n == Swept(w, t, d)
<1>1. m \in Worker
  BY DEF Worker, Directories!Worker
<1>2. m.main = w.main /\ m.own = w.own
  BY DEF Worker, Directories!Worker
<1>3. n = [m EXCEPT !.victim = d]
  BY DEF Swept
<1> HIDE DEF m, n
<1>4. n \in Worker
  BY <1>1, <1>3 DEF Worker, Directories!Worker
<1>5. n.main = m.main /\ n.own = m.own /\ n.victim = d
  BY <1>1, <1>3 DEF Worker, Directories!Worker
<1> QED
  BY <1>2, <1>4, <1>5 DEF n

\* What a sweep chooses is old, and what an attempt uses is not.
LEMMA ExamineStep ==
  ASSUME DirectoriesInv, NEW p \in Processes, Directories!Examine(p)
  PROVE  DirectoriesInv'
<1>1. PICK d \in worker[p].todo :
        worker' = [worker EXCEPT ![p].todo = @ \ {d},
                                 ![p].victim = IF Directories!IsOrphan(d) THEN d
                                               ELSE NULL]
  BY DEF Directories!Examine
<1>2. /\ worker[p] \in Worker /\ d \in Dirs /\ worker[p].todo \in SUBSET Dirs
      /\ worker[p].main # "working" /\ worker[p].own = NULL
  BY <1>1 DEF DirectoriesInv, Directories!TypeOK, Worker, Directories!Worker,
     Directories!Examine, Directories!Sweeping
<1>3. PICK victim \in Dirs \union {NULL} :
        victim = IF Directories!IsOrphan(d) THEN d ELSE NULL
  BY <1>2
<1>4. PICK todo \in SUBSET Dirs : todo = worker[p].todo \ {d}
  BY <1>2
<1> DEFINE w == Swept(worker[p], todo, victim)
<1>5. worker' = [worker EXCEPT ![p] = w]
  BY <1>1, <1>3, <1>4 DEF DirectoriesInv, Directories!TypeOK, Swept
<1>6. /\ w \in Worker /\ w.main # "working" /\ w.own = NULL /\ w.victim = victim
  BY <1>2, SweepingWorker
<1> HIDE DEF w
<1>7. ~overrun => \A q \in Processes : victim # NULL => victim # worker[q].own
  BY <1>3 DEF DirectoriesInv, Directories!IsOrphan
<1>8. dir' = dir /\ overrun' = overrun /\ faults' \in 0 .. MaxFaults
  BY DEF Directories!Examine, DirectoriesInv, Directories!TypeOK
<1> QED
  BY <1>5, <1>6, <1>7, <1>8, WithoutAttempt

\* What a sweep removes is no attempt's.
LEMMA RemoveStep ==
  ASSUME DirectoriesInv, NEW p \in Processes, Directories!Remove(p)
  PROVE  DirectoriesInv'
<1>0. faults' \in 0 .. MaxFaults /\ overrun' = overrun
  BY DEF Directories!Remove, DirectoriesInv, Directories!TypeOK
<1>1. PICK d \in Dirs : d = worker[p].victim
  BY DEF Directories!Remove, DirectoriesInv, Directories!TypeOK, Directories!Worker
<1>2. CASE dir[d] = "absent"
  BY <1>0, <1>1, <1>2, StoppedWorker DEF Directories!Remove
<1>3. CASE dir[d] # "absent"
  <2>1. /\ dir' = [dir EXCEPT ![d] = "absent"]
        /\ worker' = [worker EXCEPT ![p].victim = NULL]
        /\ worker[p] \in Worker
    BY <1>1, <1>3 DEF Directories!Remove, DirectoriesInv, Directories!TypeOK, Worker
  <2> DEFINE w == [worker[p] EXCEPT !.victim = NULL]
  <2>2. /\ w \in Worker /\ w.main = worker[p].main /\ w.own = worker[p].own
        /\ w.victim = NULL
    BY <2>1 DEF Worker, Directories!Worker
  <2>3. worker' = [worker EXCEPT ![p] = w]
    BY <2>1
  <2> HIDE DEF w
  <2>4. worker'[p] = w /\ \A q \in Processes \ {p} : worker'[q] = worker[q]
    BY <2>3 DEF DirectoriesInv, Directories!TypeOK
  <2>5. Directories!TypeOK'
    BY <1>0, <2>1, <2>2, <2>3 DEF DirectoriesInv, Directories!TypeOK, Worker
  <2>6. \A q \in Processes : worker'[q].own = worker[q].own
                             /\ worker'[q].main = worker[q].main
                             /\ worker'[q].victim \in {worker[q].victim, NULL}
    BY <2>2, <2>4
  <2>7. ~overrun => \A q \in Processes : worker[q].own # d
    BY <1>1, NullIsNoDirectory DEF DirectoriesInv
  <2>8. ~overrun => \A q \in Processes :
          worker'[q].own # NULL => dir'[worker'[q].own] = "recent"
    <3>1. \A q \in Processes : worker[q].own \in Dirs \union {NULL}
      BY DEF DirectoriesInv, Directories!TypeOK, Directories!Worker
    <3> QED
      BY <2>1, <2>6, <2>7, <3>1 DEF DirectoriesInv, Directories!TypeOK
  <2> QED
    BY <1>0, <2>5, <2>6, <2>8 DEF DirectoriesInv
<1> QED
  BY <1>2, <1>3

LEMMA CheckCapacityStep ==
  ASSUME DirectoriesInv, NEW p \in Processes, Directories!CheckCapacity(p)
  PROVE  DirectoriesInv'
<1>1. PICK main \in {"idle", "down", "creating"} : Directories!Goes(p, main)
  BY DEF Directories!CheckCapacity
<1>2. dir' = dir /\ overrun' = overrun /\ faults' \in 0 .. MaxFaults
  BY DEF Directories!CheckCapacity, DirectoriesInv, Directories!TypeOK
<1> QED
  BY <1>1, <1>2, StoppedWorker

\* The name is new: no directory has it, and no sweep remembers it.
LEMMA MakeDirectoryStep ==
  ASSUME DirectoriesInv, NEW p \in Processes, Directories!MakeDirectory(p)
  PROVE  DirectoriesInv'
<1>1. PICK d \in Dirs \ (Directories!Present \union Directories!Held) :
        /\ dir' = [dir EXCEPT ![d] = "recent"]
        /\ worker' = [worker EXCEPT ![p].main = "working", ![p].own = d]
  BY DEF Directories!MakeDirectory
<1>2. /\ d \in Dirs /\ dir[d] = "absent"
      /\ \A q \in Processes : worker[q].victim # d
  BY <1>1 DEF Directories!Present, Directories!Held
<1>3. worker[p] \in Worker /\ worker[p].own = NULL
  BY DEF Directories!MakeDirectory, DirectoriesInv, Directories!TypeOK, Worker
<1> DEFINE m == [worker[p] EXCEPT !.main = "working"]
           w == [m EXCEPT !.own = d]
<1>4. m \in Worker /\ m.main = "working" /\ m.victim = worker[p].victim
  BY <1>3 DEF Worker, Directories!Worker
<1>5. worker' = [worker EXCEPT ![p] = w]
  BY <1>1 DEF DirectoriesInv, Directories!TypeOK
<1> HIDE DEF m
<1>6. /\ w \in Worker /\ w.main = "working" /\ w.victim = worker[p].victim
      /\ w.own = d
  BY <1>2, <1>4 DEF Worker, Directories!Worker
<1> HIDE DEF w
<1>7. worker'[p] = w /\ \A q \in Processes \ {p} : worker'[q] = worker[q]
  BY <1>5 DEF DirectoriesInv, Directories!TypeOK
<1>8. overrun' = overrun /\ faults' = faults
  BY DEF Directories!MakeDirectory
<1>9. Directories!TypeOK'
  BY <1>1, <1>2, <1>5, <1>6, <1>8 DEF DirectoriesInv, Directories!TypeOK, Worker
<1>10. \A q \in Processes : (worker'[q].own # NULL) <=> (worker'[q].main = "working")
  BY <1>2, <1>6, <1>7, NullIsNoDirectory DEF DirectoriesInv
<1>11. \A q \in Processes : worker[q].own \in Dirs \union {NULL}
  BY DEF DirectoriesInv, Directories!TypeOK, Directories!Worker
<1>12. ~overrun => \A q \in Processes : worker[q].own # d
  BY <1>2, NullIsNoDirectory DEF DirectoriesInv
<1>13. ~overrun => \A q \in Processes :
         worker'[q].own # NULL => dir'[worker'[q].own] = "recent"
  BY <1>1, <1>2, <1>6, <1>7, <1>11, <1>12 DEF DirectoriesInv, Directories!TypeOK
<1>14. ~overrun => \A q, r \in Processes :
         worker'[q].own # NULL /\ worker'[q].own = worker'[r].own => q = r
  BY <1>6, <1>7, <1>12 DEF DirectoriesInv
<1>15. ~overrun => \A q, r \in Processes :
         worker'[q].victim # NULL => worker'[q].victim # worker'[r].own
  <2>1. \A q \in Processes : worker'[q].victim = worker[q].victim
    BY <1>6, <1>7
  <2> QED
    BY <1>2, <1>6, <1>7, <2>1 DEF DirectoriesInv
<1> QED
  BY <1>8, <1>9, <1>10, <1>13, <1>14, <1>15 DEF DirectoriesInv

\* An attempt removes its own directory, which is nobody else's.
LEMMA RemoveOwnStep ==
  ASSUME DirectoriesInv, NEW p \in Processes, Directories!RemoveOwn(p)
  PROVE  DirectoriesInv'
<1>1. PICK d \in Dirs : d = worker[p].own
  BY DEF Directories!RemoveOwn, DirectoriesInv, Directories!TypeOK, Directories!Worker
<1> DEFINE w == Directories!Resting("idle")
<1>2. /\ w \in Worker /\ w.main = "idle" /\ w.own = NULL /\ w.victim = NULL
  BY RestingWorker
<1>3. /\ worker' = [worker EXCEPT ![p] = w]
      /\ dir' = [dir EXCEPT ![d] = "absent"]
      /\ overrun' = overrun /\ faults' = faults
  BY <1>1 DEF Directories!RemoveOwn, Directories!Goes
<1> HIDE DEF w
<1>4. worker'[p] = w /\ \A q \in Processes \ {p} : worker'[q] = worker[q]
  BY <1>3 DEF DirectoriesInv, Directories!TypeOK
<1>5. Directories!TypeOK'
  BY <1>2, <1>3 DEF DirectoriesInv, Directories!TypeOK, Worker
<1>6. \A q \in Processes : (worker'[q].own # NULL) <=> (worker'[q].main = "working")
  BY <1>2, <1>4 DEF DirectoriesInv
<1>7. \A q \in Processes : worker[q].own \in Dirs \union {NULL}
  BY DEF DirectoriesInv, Directories!TypeOK, Directories!Worker
<1>8. ~overrun => \A q \in Processes \ {p} : worker[q].own # d
  BY <1>1, NullIsNoDirectory DEF DirectoriesInv
<1>9. ASSUME ~overrun
      PROVE  /\ \A q \in Processes :
                  worker'[q].own # NULL => dir'[worker'[q].own] = "recent"
             /\ \A q, r \in Processes :
                  worker'[q].own # NULL /\ worker'[q].own = worker'[r].own => q = r
             /\ \A q, r \in Processes :
                  worker'[q].victim # NULL => worker'[q].victim # worker'[r].own
  <2>1. \A q \in Processes :
          worker'[q].own # NULL => dir'[worker'[q].own] = "recent"
    BY <1>2, <1>3, <1>4, <1>7, <1>8, <1>9 DEF DirectoriesInv, Directories!TypeOK
  <2>2. \A q, r \in Processes :
          worker'[q].own # NULL /\ worker'[q].own = worker'[r].own => q = r
    BY <1>2, <1>4, <1>9 DEF DirectoriesInv
  <2>3. \A q, r \in Processes :
          worker'[q].victim # NULL => worker'[q].victim # worker'[r].own
    BY <1>2, <1>4, <1>9 DEF DirectoriesInv
  <2> QED
    BY <2>1, <2>2, <2>3
<1> QED
  BY <1>3, <1>5, <1>6, <1>9 DEF DirectoriesInv

LEMMA AbandonStep ==
  ASSUME DirectoriesInv, NEW p \in Processes,
         Directories!LeavesOwn(p) \/ Directories!Crash(p)
  PROVE  DirectoriesInv'
<1>1. PICK main \in {"idle", "down"} : Directories!Goes(p, main)
  BY DEF Directories!LeavesOwn, Directories!Crash
<1>2. dir' = dir /\ overrun' = overrun /\ faults' \in 0 .. MaxFaults
  BY MaxFaultsIsNumber
  DEF Directories!LeavesOwn, Directories!Crash, Directories!Fault, DirectoriesInv,
      Directories!TypeOK
<1> QED
  BY <1>1, <1>2, StoppedWorker

\* The directory of an attempt gets old only by an overrun.
LEMMA AgeStep ==
  ASSUME DirectoriesInv, NEW d \in Dirs,
         Directories!Age(d) \/ Directories!Overrun(d)
  PROVE  DirectoriesInv'
<1>1. dir' = [dir EXCEPT ![d] = "old"] /\ worker' = worker
  BY DEF Directories!Age, Directories!Overrun, Directories!GetsOld
<1>2. faults' \in 0 .. MaxFaults
  BY MaxFaultsIsNumber
  DEF Directories!Age, Directories!Overrun, Directories!Fault, DirectoriesInv,
      Directories!TypeOK
<1>3. CASE Directories!Age(d)
  <2>1. overrun' = overrun /\ \A p \in Processes : worker[p].own # d
    BY <1>3 DEF Directories!Age, Directories!Owned
  <2> QED
    BY <1>1, <1>2, <2>1 DEF DirectoriesInv, Directories!TypeOK
<1>4. CASE Directories!Overrun(d)
  <2>1. overrun' = TRUE
    BY <1>4 DEF Directories!Overrun
  <2>2. Directories!TypeOK'
    BY <1>1, <1>2, <2>1 DEF DirectoriesInv, Directories!TypeOK
  <2> QED
    BY <1>1, <2>1, <2>2 DEF DirectoriesInv
<1> QED
  BY <1>3, <1>4

LEMMA DirectoriesStep ==
  ASSUME DirectoriesInv, Directories!Next
  PROVE  DirectoriesInv'
<1>1. ASSUME NEW p \in Processes, Directories!Start(p) \/ Directories!Prepare(p)
      PROVE  DirectoriesInv'
  BY <1>1, ListingStep DEF Directories!Start, Directories!Prepare
<1>2. ASSUME NEW p \in Processes, Directories!Sweep(p)
      PROVE  DirectoriesInv'
  BY <1>2, ExamineStep, RemoveStep, CheckCapacityStep DEF Directories!Sweep
<1>3. ASSUME NEW p \in Processes, Directories!MakeDirectory(p)
      PROVE  DirectoriesInv'
  BY <1>3, MakeDirectoryStep
<1>4. ASSUME NEW p \in Processes, Directories!RemoveOwn(p)
      PROVE  DirectoriesInv'
  BY <1>4, RemoveOwnStep
<1>5. ASSUME NEW p \in Processes, Directories!LeavesOwn(p) \/ Directories!Crash(p)
      PROVE  DirectoriesInv'
  BY <1>5, AbandonStep
<1>6. ASSUME NEW d \in Dirs, Directories!Age(d) \/ Directories!Overrun(d)
      PROVE  DirectoriesInv'
  BY <1>6, AgeStep
<1> QED
  BY <1>1, <1>2, <1>3, <1>4, <1>5, <1>6 DEF Directories!Next

-----------------------------------------------------------------------------
(* The host *)

LEMMA Initially == HostInit => IInv
<1> SUFFICES ASSUME HostInit PROVE IInv
  OBVIOUS
<1>1. GroupInv
  <2>1. proc \in [Members -> {"unborn", "running", "dying", "dead"}]
    BY DEF HostInit, Init
  <2>2. stubborn \subseteq Members /\ cancellation \in BOOLEAN /\ late \in BOOLEAN
    BY DEF HostInit, Init
  <2>3. pc = "polling" /\ termination = "none" /\ signalled = "none"
    BY DEF HostInit, Init
  <2>4. reaped \in BOOLEAN /\ ~reaped
    BY DEF HostInit, Init
  <2>5. TypeOK
    BY <2>1, <2>2, <2>3, <2>4 DEF TypeOK
  <2> QED
    BY <2>3, <2>4, <2>5 DEF GroupInv
<1>2. Directories!TypeOK
  <2>1. worker \in [Processes -> Directories!Worker]
    BY RestingWorker DEF HostInit, Directories!Init, Worker
  <2>2. dir \in [Dirs -> {"absent", "recent", "old"}] /\ overrun \in BOOLEAN
    BY DEF HostInit, Directories!Init
  <2>3. faults \in 0 .. MaxFaults
    BY MaxFaultsIsNumber DEF HostInit, Directories!Init
  <2> QED
    BY <2>1, <2>2, <2>3 DEF Directories!TypeOK
<1>3. \A p \in Processes : worker[p].own = NULL /\ worker[p].victim = NULL
                           /\ worker[p].main = "down"
  BY RestingWorker DEF HostInit, Directories!Init
<1>4. DirectoriesInv
  BY <1>2, <1>3 DEF DirectoriesInv
<1> QED
  BY <1>1, <1>4 DEF HostInit, IInv

LEMMA Inductive == IInv /\ [HostNext]_hostVars => IInv'
<1> SUFFICES ASSUME IInv, [HostNext]_hostVars PROVE IInv'
  OBVIOUS
<1>1. ASSUME UNCHANGED groupVars
      PROVE  GroupInv'
  BY <1>1, GroupStep DEF IInv, groupVars
<1>2. ASSUME UNCHANGED directoryVars
      PROVE  DirectoriesInv'
  BY <1>2 DEF IInv, directoryVars, DirectoriesInv, Directories!TypeOK
<1>3. CASE Next /\ UNCHANGED directoryVars /\ UNCHANGED followed
  BY <1>2, <1>3, GroupStep DEF IInv
<1>4. CASE Directories!Next /\ UNCHANGED groupVars /\ UNCHANGED followed
  BY <1>1, <1>4, DirectoriesStep DEF IInv
<1>5. CASE UNCHANGED hostVars
  BY <1>1, <1>2, <1>5 DEF IInv, hostVars
<1> QED
  BY <1>3, <1>4, <1>5 DEF HostNext

LEMMA Invariance == HostSpec => []IInv
  BY Initially, Inductive, PTL DEF HostSpec

\* What a caller of run may conclude from its result: yt-dlp is gone and its
\* exit status collected, a run in which a signal was sent is never reported as
\* exited, and one reported as cancelled or timed out was.
THEOREM ResultsAreTrue == HostSpec => []ResultInv
<1>1. IInv => ResultInv
  BY DEF IInv, GroupInv, ResultInv, LeaderIsGone, TerminationIsTrue
<1> QED
  BY <1>1, Invariance, PTL

\* The sweeps of any number of workers never remove the directory of a running
\* attempt that is not older than orphan_after, although they decide first and
\* remove later.
THEOREM SweepsSpareAttempts == HostSpec => []DirectoryInv
<1>1. IInv => DirectoryInv
  BY DEF IInv, DirectoriesInv, DirectoryInv, Directories!RunningAttemptsKeepTheirs
<1> QED
  BY <1>1, Invariance, PTL

\* SIGTERM and SIGKILL go to the group only while its leader has not been
\* reaped, so that its number still names it.
THEOREM SignalsStayInTheGroup == HostSpec => NoSignalToStrangers
<1>1. IInv /\ [HostNext]_hostVars => [signalled' # signalled => ~reaped']_vars
  <2> SUFFICES ASSUME IInv, HostNext, signalled' # signalled PROVE ~reaped'
    BY DEF hostVars, groupVars
  <2>1. Parent
    BY DEF HostNext, groupVars, vars, Next, Cancel, DeadlinePasses, Exit,
       StartHelper, Finished
  <2> QED
    BY <2>1 DEF IInv, GroupInv, Parent, Poll, Wait, Terminate, Grace, FinalWait
<1> QED
  BY <1>1, Invariance, PTL DEF HostSpec, NoSignalToStrangers
=============================================================================
