----------------------------- MODULE AttemptHost -----------------------------
(***************************************************************************)
(* What attempts use of their host besides the database: the process group of *)
(* yt-dlp (YtDlpProcess) and the directories (ArtifactDirectories).          *)
(*                                                                         *)
(* The group belongs to one attempt, which is somewhere in "working" all the  *)
(* while; the directories are shared.  Neither reads the state of the other:  *)
(* what a helper that outlives its attempt does to a directory is the failed  *)
(* removal there.  So a behaviour follows one of them.                       *)
(***************************************************************************)
EXTENDS YtDlpProcess, Naturals, FiniteSets

CONSTANTS Processes, Dirs, Room, MaxFaults, NULL

ASSUME NullIsNoDirectory == NULL \notin Dirs
ASSUME MaxFaultsIsNumber == MaxFaults \in Nat
ASSUME EnoughNames == Cardinality(Dirs) >= Cardinality(Processes) + MaxFaults
ASSUME OwnDirectoriesFit == Room + 1 >= Cardinality(Processes)

VARIABLES
  followed,   \* "group" or "directories"
  dir, worker, overrun, faults

groupVars == vars
directoryVars == <<dir, worker, overrun, faults>>
hostVars == <<followed, groupVars, directoryVars>>

Directories == INSTANCE ArtifactDirectories

HostInit ==
  /\ Init
  /\ Directories!Init
  /\ \/ followed = "group"
     \/ followed = "directories" /\ stubborn = {} /\ ~cancellation /\ ~late

HostNext ==
  /\ \/ followed = "group" /\ Next /\ UNCHANGED directoryVars
     \/ followed = "directories" /\ Directories!Next /\ UNCHANGED groupVars
  /\ UNCHANGED followed

\* Each part's own fairness, for the part that is followed.
GroupFairness ==
  /\ WF_vars(followed = "group" /\ Parent)
  /\ \A p \in Members :
       WF_vars(followed = "group" /\ proc[p] = "dying" /\ Exit(p))
DirectoryFairness ==
  /\ \A p \in Processes :
       /\ WF_directoryVars(followed = "directories" /\ Directories!Start(p))
       /\ WF_directoryVars(followed = "directories" /\ Directories!Sweep(p))
  /\ \A d \in Dirs :
       WF_directoryVars(followed = "directories" /\ Directories!Age(d))

HostSpec ==
  HostInit /\ [][HostNext]_hostVars /\ GroupFairness /\ DirectoryFairness

-----------------------------------------------------------------------------

(***************************************************************************)
(* The directories of running attempts are left alone by the sweeps of all    *)
(* workers, unless an attempt takes longer than orphan_after.                *)
(***************************************************************************)
DirectoryInv == Directories!TypeOK /\ Directories!RunningAttemptsKeepTheirs

(***************************************************************************)
(* Every worker that ended comes to claim jobs again, also on a full disk.    *)
(***************************************************************************)
WorkersStart ==
  followed = "directories" => Directories!WorkersStart
=============================================================================
