------------------------- MODULE WorkerProcessProofs -------------------------
(***************************************************************************)
(* Proofs about WorkerProcess, for every set of jobs and processes and every *)
(* number of faults.                                                        *)
(*                                                                         *)
(* IInv adds to AttemptInv how the two threads of a process, its claim and    *)
(* its row go together.  ExclusiveAttempts is not inductive: what keeps a     *)
(* second process away is that a claim, as long as nothing was delayed, owns  *)
(* its row, and that over delays no two processes hold the same attempt.     *)
(***************************************************************************)
EXTENDS WorkerProcess, TLAPS

Working == {"running", "joining", "finishing"}

\* The threads of a process: a claim exactly while there is an attempt, a
\* heartbeat thread only then, and it has been joined before the attempt is
\* finished.
Threads(p) ==
  /\ proc[p].main \in Working =>
       proc[p].claim.job \in Jobs /\ proc[p].claim.attempt # 0
  /\ proc[p].main \notin Working =>
       proc[p].claim = NoClaim /\ proc[p].beat = "off"
  /\ proc[p].main = "joining" => proc[p].result # "none"
  /\ proc[p].main = "finishing" =>
       proc[p].beat = "ended" /\ proc[p].result \in {"succeeded", "failed"}

\* A result was returned for the attempt the process works on.
ResultsWereReturned ==
  \A p \in Processes :
    proc[p].main \in {"joining", "finishing"}
      /\ proc[p].result \in {"succeeded", "failed"} =>
        <<proc[p].claim.job, proc[p].claim.attempt, proc[p].result>> \in returned

\* The attempts of the table are ahead of those the processes work on, and no
\* two processes work on the same one.
ClaimsAreApart ==
  /\ \A p \in Processes : proc[p].claim # NoClaim =>
       proc[p].claim.attempt <= row[proc[p].claim.job].attempt
  /\ \A p, q \in Processes :
       proc[p].claim # NoClaim /\ proc[p].claim = proc[q].claim => p = q

\* Without a delay who has a claim owns its row.
ClaimsAreOwned ==
  ~delayed => \A p \in Processes : proc[p].claim # NoClaim => Owns(p)

\* Without a fault nothing was delayed and no attempt ended in an error.
FaultsComeFirst ==
  faults = 0 =>
    /\ ~delayed
    /\ \A p \in Processes :
         /\ proc[p].main # "down" /\ ~proc[p].cancellation
         /\ ~proc[p].beatError /\ proc[p].result \notin {"cancelled", "error"}

IInv ==
  /\ TypeOK
  /\ \A p \in Processes : Threads(p)
  /\ ResultsWereReturned
  /\ ClaimsAreApart
  /\ ClaimsAreOwned
  /\ FaultsComeFirst
  /\ OutcomeWasReturned

-----------------------------------------------------------------------------
(* Steps of one process that leave the table alone *)

\* Such a step keeps the claim of the process or gives it up.
LEMMA ProcessStep ==
  ASSUME IInv, NEW p \in Processes, NEW t \in Process,
         proc' = [proc EXCEPT ![p] = t],
         row' = row, delayed' = delayed,
         returned \subseteq returned',
         returned' \subseteq Jobs \X Nat \X {"succeeded", "failed"},
         faults' \in faults .. MaxFaults,
         t.claim \in {proc[p].claim, NoClaim},
         Threads(p)',
         t.main \in {"joining", "finishing"} /\ t.result \in {"succeeded", "failed"}
           => <<t.claim.job, t.claim.attempt, t.result>> \in returned',
         faults' = 0 => /\ t.main # "down" /\ ~t.cancellation
                        /\ ~t.beatError /\ t.result \notin {"cancelled", "error"}
  PROVE  IInv'
<1>1. proc'[p] = t /\ \A q \in Processes \ {p} : proc'[q] = proc[q]
  BY DEF IInv, TypeOK
<1>2. TypeOK'
  BY MaxFaultsIsNumber DEF IInv, TypeOK
<1>3. \A q \in Processes : Threads(q)'
  BY <1>1 DEF IInv, Threads
<1>4. ResultsWereReturned'
  BY <1>1 DEF IInv, ResultsWereReturned
<1>5. ClaimsAreApart'
  BY <1>1 DEF IInv, ClaimsAreApart
<1>6. ClaimsAreOwned'
  BY <1>1 DEF IInv, ClaimsAreOwned, Owns
<1>7. FaultsComeFirst'
  <2>1. faults' = 0 => faults = 0
    BY MaxFaultsIsNumber DEF IInv, TypeOK
  <2> QED
    BY <1>1, <2>1 DEF IInv, FaultsComeFirst
<1>8. OutcomeWasReturned'
  BY DEF IInv, OutcomeWasReturned
<1> QED
  BY <1>2, <1>3, <1>4, <1>5, <1>6, <1>7, <1>8 DEF IInv

LEMMA StoppedProcess ==
  /\ Down \in Process /\ Started \in Process
  /\ Down.main = "down" /\ Started.main = "polling"
  /\ Down.claim = NoClaim /\ Started.claim = NoClaim
  /\ Down.beat = "off" /\ Started.beat = "off"
  /\ ~Started.cancellation /\ ~Started.beatError /\ Started.result = "none"
  /\ ~Down.cancellation /\ ~Down.beatError /\ Down.result = "none"
  BY DEF Down, Started, Process, NoClaim

\* A process ends only after a fault.
LEMMA StopStep ==
  ASSUME IInv, NEW p \in Processes, Stop(p), row' = row, returned' = returned,
         delayed' = delayed, faults' \in faults .. MaxFaults, faults' # 0
  PROVE  IInv'
<1>1. proc' = [proc EXCEPT ![p] = Down]
  BY DEF Stop
<1>2. proc'[p] = Down
  BY <1>1 DEF IInv, TypeOK
<1>3. Threads(p)'
  BY <1>2, StoppedProcess DEF Threads, Working
<1> QED
  BY <1>1, <1>3, StoppedProcess, ProcessStep DEF IInv, TypeOK

LEMMA FaultStep ==
  ASSUME IInv, Fault
  PROVE  faults' \in faults .. MaxFaults /\ faults' # 0
  BY MaxFaultsIsNumber DEF IInv, TypeOK, Fault

LEMMA NoFaultStep ==
  ASSUME IInv, NoFault
  PROVE  faults' \in faults .. MaxFaults /\ faults' = faults
  BY MaxFaultsIsNumber DEF IInv, TypeOK, NoFault

-----------------------------------------------------------------------------
(* The main thread *)

LEMMA PollStep ==
  ASSUME IInv, NEW p \in Processes, Poll(p)
  PROVE  IInv'
<1>0. faults' \in faults .. MaxFaults /\ faults' = faults
  BY NoFaultStep DEF Poll
<1>1. CASE proc[p].cancellation
  BY <1>0, <1>1, StopStep DEF Poll, IInv, FaultsComeFirst
<1>2. CASE ~proc[p].cancellation
  <2> DEFINE t == [proc[p] EXCEPT !.main = "claiming"]
  <2>1. t \in Process /\ proc[p] \in Process
    BY DEF IInv, TypeOK, Process
  <2>2. /\ t.main = "claiming" /\ t.claim = proc[p].claim
        /\ t.cancellation = proc[p].cancellation /\ t.beat = proc[p].beat
        /\ t.beatError = proc[p].beatError /\ t.result = proc[p].result
    BY <2>1 DEF Process
  <2>3. proc' = [proc EXCEPT ![p] = t] /\ proc[p].main = "polling"
    BY <1>2 DEF Poll
  <2> HIDE DEF t
  <2>4. Threads(p)'
    BY <2>1, <2>2, <2>3 DEF IInv, TypeOK, Threads, Working
  <2> QED
    BY <1>0, <2>1, <2>2, <2>3, <2>4, ProcessStep
       DEF Poll, IInv, TypeOK, FaultsComeFirst
<1> QED
  BY <1>1, <1>2

LEMMA RunnerReturnsStep ==
  ASSUME IInv, NEW p \in Processes, RunnerReturns(p)
  PROVE  IInv'
<1>0. faults' \in faults .. MaxFaults /\ faults' = faults
  BY NoFaultStep DEF RunnerReturns
<1>1. PICK outcome \in {"succeeded", "failed", "cancelled"} :
        /\ RunnerEnds(p, outcome)
        /\ outcome = "cancelled" => proc[p].cancellation /\ returned' = returned
        /\ outcome # "cancelled" => returned' = returned \union
             {<<proc[p].claim.job, proc[p].claim.attempt, outcome>>}
  BY DEF RunnerReturns
<1> DEFINE t == [proc[p] EXCEPT !.main = "joining", !.result = outcome]
<1>2. t \in Process /\ proc[p] \in Process
  BY DEF IInv, TypeOK, Process
<1>3. /\ t.main = "joining" /\ t.claim = proc[p].claim
      /\ t.cancellation = proc[p].cancellation /\ t.beat = proc[p].beat
      /\ t.beatError = proc[p].beatError /\ t.result = outcome
  BY <1>2 DEF Process
<1>4. /\ proc' = [proc EXCEPT ![p] = t] /\ proc[p].main = "running"
      /\ row' = row /\ delayed' = delayed
  BY <1>1 DEF RunnerEnds
<1> HIDE DEF t
<1>5. Threads(p)'
  BY <1>2, <1>3, <1>4 DEF IInv, TypeOK, Threads, Working
<1>6. proc[p].claim.job \in Jobs /\ proc[p].claim.attempt \in Nat
  BY <1>2, <1>4 DEF IInv, Threads, Working, Process
<1>7. /\ returned \subseteq returned'
      /\ returned' \subseteq Jobs \X Nat \X {"succeeded", "failed"}
  BY <1>1, <1>6 DEF IInv, TypeOK
<1>8. faults' = 0 => /\ ~t.cancellation /\ ~t.beatError
                     /\ t.result \notin {"cancelled", "error"}
  BY <1>0, <1>1, <1>3 DEF IInv, FaultsComeFirst
<1> QED
  BY <1>0, <1>1, <1>2, <1>3, <1>4, <1>5, <1>7, <1>8, ProcessStep

LEMMA RunnerRaisesStep ==
  ASSUME IInv, NEW p \in Processes, RunnerRaises(p)
  PROVE  IInv'
<1>0. faults' \in faults .. MaxFaults /\ faults' # 0
  BY FaultStep DEF RunnerRaises
<1> DEFINE t == [proc[p] EXCEPT !.main = "joining", !.result = "error"]
<1>2. t \in Process /\ proc[p] \in Process
  BY DEF IInv, TypeOK, Process
<1>3. /\ t.main = "joining" /\ t.claim = proc[p].claim
      /\ t.beat = proc[p].beat /\ t.result = "error"
  BY <1>2 DEF Process
<1>4. /\ proc' = [proc EXCEPT ![p] = t] /\ proc[p].main = "running"
      /\ row' = row /\ delayed' = delayed /\ returned' = returned
  BY DEF RunnerRaises, RunnerEnds
<1> HIDE DEF t
<1>5. Threads(p)'
  BY <1>2, <1>3, <1>4 DEF IInv, TypeOK, Threads, Working
<1> QED
  BY <1>0, <1>2, <1>3, <1>4, <1>5, ProcessStep DEF IInv, TypeOK

LEMMA JoinStep ==
  ASSUME IInv, NEW p \in Processes, Join(p)
  PROVE  IInv'
<1>0. faults' \in faults .. MaxFaults /\ faults' = faults
  BY NoFaultStep DEF Join
<1>1. CASE proc[p].beatError \/ proc[p].result \in {"cancelled", "error"}
  BY <1>0, <1>1, StopStep DEF Join, IInv, FaultsComeFirst
<1>2. CASE ~proc[p].beatError /\ proc[p].result \notin {"cancelled", "error"}
  <2> DEFINE t == [proc[p] EXCEPT !.main = "finishing"]
  <2>1. t \in Process /\ proc[p] \in Process
    BY DEF IInv, TypeOK, Process
  <2>2. /\ t.main = "finishing" /\ t.claim = proc[p].claim
        /\ t.cancellation = proc[p].cancellation /\ t.beat = proc[p].beat
        /\ t.beatError = proc[p].beatError /\ t.result = proc[p].result
    BY <2>1 DEF Process
  <2>3. /\ proc' = [proc EXCEPT ![p] = t] /\ proc[p].main = "joining"
        /\ proc[p].beat = "ended"
    BY <1>2 DEF Join
  <2> HIDE DEF t
  <2>4. proc[p].result \in {"succeeded", "failed"}
    BY <1>2, <2>1, <2>3 DEF IInv, Threads, Process
  <2>5. Threads(p)'
    BY <2>1, <2>2, <2>3, <2>4 DEF IInv, TypeOK, Threads, Working
  <2> QED
    BY <1>0, <2>1, <2>2, <2>3, <2>5, ProcessStep
       DEF Join, IInv, TypeOK, FaultsComeFirst, ResultsWereReturned
<1> QED
  BY <1>1, <1>2

-----------------------------------------------------------------------------
(* The heartbeat thread, signals and restarts *)

\* The heartbeat thread goes from one of its points to another.
LEMMA BeatStep ==
  ASSUME IInv, NEW p \in Processes, NEW beat \in {"waiting", "calling", "ended"},
         proc[p].beat \in {"waiting", "calling"},
         proc' = [proc EXCEPT ![p].beat = beat],
         row' = row, returned' = returned, delayed' = delayed,
         faults' \in faults .. MaxFaults, faults' = faults
  PROVE  IInv'
<1> DEFINE t == [proc[p] EXCEPT !.beat = beat]
<1>1. t \in Process /\ proc[p] \in Process
  BY DEF IInv, TypeOK, Process
<1>2. /\ t.main = proc[p].main /\ t.claim = proc[p].claim
      /\ t.cancellation = proc[p].cancellation /\ t.beat = beat
      /\ t.beatError = proc[p].beatError /\ t.result = proc[p].result
  BY <1>1 DEF Process
<1>3. proc' = [proc EXCEPT ![p] = t]
  OBVIOUS
<1> HIDE DEF t
<1>4. proc[p].main \in {"running", "joining"}
  BY DEF IInv, Threads, Working
<1>5. Threads(p)'
  BY <1>1, <1>2, <1>3, <1>4 DEF IInv, TypeOK, Threads, Working
<1> QED
  BY <1>1, <1>2, <1>3, <1>4, <1>5, ProcessStep
     DEF IInv, TypeOK, FaultsComeFirst, ResultsWereReturned

LEMMA BeatFailedStep ==
  ASSUME IInv, NEW p \in Processes, proc[p].beat = "calling", BeatFailed(p),
         row' = row, returned' = returned, delayed' = delayed,
         faults' \in faults .. MaxFaults, faults' # 0
  PROVE  IInv'
<1> DEFINE t == [proc[p] EXCEPT !.beat = "ended", !.beatError = TRUE,
                                !.cancellation = TRUE]
<1>1. t \in Process /\ proc[p] \in Process
  BY DEF IInv, TypeOK, Process
<1>2. /\ t.main = proc[p].main /\ t.claim = proc[p].claim
      /\ t.beat = "ended" /\ t.result = proc[p].result
  BY <1>1 DEF Process
<1>3. proc' = [proc EXCEPT ![p] = t]
  BY DEF BeatFailed
<1> HIDE DEF t
<1>4. proc[p].main \in {"running", "joining"}
  BY DEF IInv, Threads, Working
<1>5. Threads(p)'
  BY <1>1, <1>2, <1>3, <1>4 DEF IInv, TypeOK, Threads, Working
<1> QED
  BY <1>1, <1>2, <1>3, <1>4, <1>5, ProcessStep
     DEF IInv, TypeOK, ResultsWereReturned

\* A heartbeat that finds its row taken comes after a fault.
LEMMA BeatCallStep ==
  ASSUME IInv, NEW p \in Processes, BeatCall(p)
  PROVE  IInv'
<1>0. faults' \in faults .. MaxFaults /\ faults' = faults
  BY NoFaultStep DEF BeatCall
<1>1. proc[p].claim # NoClaim
  BY DEF BeatCall, IInv, Threads, Working, NoClaim
<1>2. CASE Owns(p)
  BY <1>0, <1>2, BeatStep DEF BeatCall
<1>3. CASE ~Owns(p)
  <2>1. faults # 0
    BY <1>1, <1>3 DEF IInv, FaultsComeFirst, ClaimsAreOwned
  <2> QED
    BY <1>0, <1>3, <2>1, BeatFailedStep DEF BeatCall
<1> QED
  BY <1>2, <1>3

LEMMA SignalStep ==
  ASSUME IInv, NEW p \in Processes, Signal(p)
  PROVE  IInv'
<1>0. faults' \in faults .. MaxFaults /\ faults' # 0
  BY FaultStep DEF Signal
<1> DEFINE t == [proc[p] EXCEPT !.cancellation = TRUE]
<1>1. t \in Process /\ proc[p] \in Process
  BY DEF IInv, TypeOK, Process
<1>2. /\ t.main = proc[p].main /\ t.claim = proc[p].claim
      /\ t.beat = proc[p].beat /\ t.result = proc[p].result
  BY <1>1 DEF Process
<1>3. proc' = [proc EXCEPT ![p] = t]
  BY DEF Signal
<1> HIDE DEF t
<1>4. Threads(p)'
  BY <1>1, <1>2, <1>3 DEF IInv, TypeOK, Threads, Working
<1> QED
  BY <1>0, <1>1, <1>2, <1>3, <1>4, ProcessStep
     DEF IInv, TypeOK, ResultsWereReturned, Signal

LEMMA RestartStep ==
  ASSUME IInv, NEW p \in Processes, Restart(p)
  PROVE  IInv'
<1>0. faults' \in faults .. MaxFaults /\ faults' = faults
  BY NoFaultStep DEF Restart
<1>1. faults # 0 /\ proc' = [proc EXCEPT ![p] = Started]
  BY DEF Restart, IInv, FaultsComeFirst
<1>2. proc'[p] = Started
  BY <1>1 DEF IInv, TypeOK
<1>3. Threads(p)'
  BY <1>2, StoppedProcess DEF Threads, Working
<1> QED
  BY <1>0, <1>1, <1>3, StoppedProcess, ProcessStep DEF Restart, IInv, TypeOK

-----------------------------------------------------------------------------
(* Steps of the table *)

\* A row changes under nobody, or nobody is left without a delay.
LEMMA RowStep ==
  ASSUME IInv, NEW j \in Jobs, NEW r \in Row,
         row' = [row EXCEPT ![j] = r],
         proc' = proc, returned' = returned,
         faults' \in faults .. MaxFaults, delayed' \in BOOLEAN,
         delayed => delayed', faults' = 0 => ~delayed',
         r.attempt = row[j].attempt,
         r.status \in {"queued", "running"},
         ~delayed' => \A p \in Processes :
           proc[p].claim # [job |-> j, attempt |-> row[j].attempt]
  PROVE  IInv'
<1>1. row'[j] = r /\ \A i \in Jobs \ {j} : row'[i] = row[i]
  BY DEF IInv, TypeOK
<1>2. TypeOK'
  BY MaxFaultsIsNumber DEF IInv, TypeOK
<1>3. \A q \in Processes : Threads(q)'
  BY DEF IInv, Threads
<1>4. ResultsWereReturned'
  BY DEF IInv, ResultsWereReturned
<1>5. \A p \in Processes : proc[p].claim # NoClaim => proc[p].claim.job \in Jobs
  BY DEF IInv, Threads
<1>6. ClaimsAreApart'
  BY <1>1, <1>5 DEF IInv, ClaimsAreApart
<1>7. ClaimsAreOwned'
  <2> SUFFICES ASSUME ~delayed', NEW p \in Processes, proc[p].claim # NoClaim
               PROVE  Owns(p)'
    BY DEF ClaimsAreOwned
  <2>1. Owns(p)
    BY DEF IInv, ClaimsAreOwned, TypeOK
  <2>2. proc[p].claim = [job |-> proc[p].claim.job,
                         attempt |-> proc[p].claim.attempt]
    BY DEF IInv, TypeOK, Process
  <2>3. proc[p].claim.job # j
    BY <2>1, <2>2 DEF Owns
  <2> QED
    BY <1>1, <1>5, <2>1, <2>3 DEF Owns
<1>8. FaultsComeFirst'
  <2>1. faults' = 0 => faults = 0
    BY MaxFaultsIsNumber DEF IInv, TypeOK
  <2> QED
    BY <2>1 DEF IInv, FaultsComeFirst
<1>9. OutcomeWasReturned'
  BY <1>1 DEF IInv, OutcomeWasReturned
<1> QED
  BY <1>2, <1>3, <1>4, <1>6, <1>7, <1>8, <1>9 DEF IInv

\* What is requested has no process yet, and an attempt that nobody serves
\* expires for nobody: only ExpireServed is a delay.
LEMMA RequestStep ==
  ASSUME IInv, NEW j \in Jobs, Request(j)
  PROVE  IInv'
<1>0. faults' \in faults .. MaxFaults /\ faults' = faults
  BY NoFaultStep DEF Request
<1> DEFINE r == [row[j] EXCEPT !.status = "queued"]
<1>1. r \in Row /\ row[j] \in Row
  BY DEF IInv, TypeOK, Row
<1>2. r.attempt = row[j].attempt /\ r.status = "queued"
  BY <1>1 DEF Row
<1>3. row' = [row EXCEPT ![j] = r]
  BY DEF Request
<1> HIDE DEF r
<1>4. ~delayed => \A p \in Processes :
        proc[p].claim # [job |-> j, attempt |-> row[j].attempt]
  <2> SUFFICES ASSUME ~delayed, NEW p \in Processes,
                      proc[p].claim = [job |-> j, attempt |-> row[j].attempt]
               PROVE  FALSE
    OBVIOUS
  <2>1. proc[p].claim.job = j /\ proc[p].claim # NoClaim
    BY NullIsNoJob DEF NoClaim
  <2> QED
    BY <2>1 DEF IInv, ClaimsAreOwned, Owns, Request
<1> QED
  BY <1>0, <1>1, <1>2, <1>3, <1>4, RowStep
     DEF Request, IInv, TypeOK, FaultsComeFirst

LEMMA ExpiresStep ==
  ASSUME IInv, NEW j \in Jobs, ExpireUnserved(j) \/ ExpireServed(j)
  PROVE  IInv'
<1>0. faults' \in faults .. MaxFaults /\ (faults' = faults \/ faults' # 0)
  BY NoFaultStep, FaultStep DEF ExpireUnserved, ExpireServed
<1> DEFINE r == [row[j] EXCEPT !.lease = "expired"]
<1>1. r \in Row /\ row[j] \in Row
  BY DEF IInv, TypeOK, Row
<1>2. r.attempt = row[j].attempt /\ r.status = row[j].status
  BY <1>1 DEF Row
<1>3. /\ row' = [row EXCEPT ![j] = r] /\ row[j].status = "running"
      /\ proc' = proc /\ returned' = returned
  BY DEF ExpireUnserved, ExpireServed, Expires
<1> HIDE DEF r
<1>4. /\ delayed' \in BOOLEAN /\ (delayed => delayed')
      /\ (faults' = 0 => ~delayed')
  <2>1. CASE ExpireUnserved(j)
    BY <2>1, NoFaultStep DEF ExpireUnserved, IInv, TypeOK, FaultsComeFirst
  <2>2. CASE ExpireServed(j)
    BY <2>2, FaultStep DEF ExpireServed
  <2> QED
    BY <2>1, <2>2
<1>5. ~delayed' => \A p \in Processes :
        proc[p].claim # [job |-> j, attempt |-> row[j].attempt]
  BY DEF ExpireUnserved, ExpireServed, Served
<1> QED
  BY <1>0, <1>1, <1>2, <1>3, <1>4, <1>5, RowStep

-----------------------------------------------------------------------------
(* Claims *)

\* Who claims a job opens an attempt that nobody has worked on; without a
\* delay nobody works on the job at all.
LEMMA Unserved ==
  ASSUME IInv, NEW j \in Jobs, Claimable(j)
  PROVE  /\ row[j].attempt + 1 \in Nat /\ row[j].attempt + 1 # 0
         /\ \A p \in Processes : proc[p].claim # NoClaim =>
              /\ proc[p].claim # [job |-> j, attempt |-> row[j].attempt + 1]
              /\ proc[p].claim.job \in Jobs
              /\ ~delayed => proc[p].claim.job # j
<1>1. row[j] \in Row /\ row[j].attempt \in Nat
  BY DEF IInv, TypeOK, Row
<1>2. ASSUME NEW p \in Processes, proc[p].claim # NoClaim
      PROVE  /\ proc[p].claim # [job |-> j, attempt |-> row[j].attempt + 1]
             /\ proc[p].claim.job \in Jobs
             /\ ~delayed => proc[p].claim.job # j
  <2>1. proc[p].claim.job \in Jobs
    BY <1>2 DEF IInv, Threads
  <2>2. proc[p].claim # [job |-> j, attempt |-> row[j].attempt + 1]
    BY <1>1, <1>2 DEF IInv, ClaimsAreApart
  <2>3. ~delayed => proc[p].claim.job # j
    BY <1>2 DEF IInv, ClaimsAreOwned, Owns, Claimable
  <2> QED
    BY <2>1, <2>2, <2>3
<1> QED
  BY <1>1, <1>2

\* The table after a claim, whoever gets to hear of it.
LEMMA ClaimedTable ==
  ASSUME IInv, NEW j \in Jobs, Claimable(j),
         row' = [row EXCEPT ![j] = ClaimedRow(j)]
  PROVE  /\ row' \in [Jobs -> Row]
         /\ \A i \in Jobs \ {j} : row'[i] = row[i]
         /\ row'[j].attempt = row[j].attempt + 1
         /\ row'[j].status = "running" /\ row'[j].lease = "live"
  BY Unserved DEF IInv, TypeOK, Row, ClaimedRow

LEMMA ClaimStep ==
  ASSUME IInv, NEW p \in Processes, NEW j \in Jobs, Claimable(j),
         row' = [row EXCEPT ![j] = ClaimedRow(j)],
         proc[p].main = "claiming",
         proc' = [proc EXCEPT
                    ![p] = [@ EXCEPT
                      !.main = "running", !.beat = "waiting",
                      !.claim = [job |-> j, attempt |-> row[j].attempt + 1]]],
         faults' = faults, returned' = returned, delayed' = delayed
  PROVE  IInv'
<1>0. /\ row' \in [Jobs -> Row]
      /\ \A i \in Jobs \ {j} : row'[i] = row[i]
      /\ row'[j].attempt = row[j].attempt + 1
      /\ row'[j].status = "running" /\ row'[j].lease = "live"
  BY ClaimedTable
<1> DEFINE claim == [job |-> j, attempt |-> row[j].attempt + 1]
           t == [proc[p] EXCEPT !.main = "running", !.beat = "waiting",
                                !.claim = claim]
<1>1. claim \in [job : Jobs \union {NULL}, attempt : Nat]
  BY Unserved
<1>2. t \in Process /\ proc[p] \in Process
  BY <1>1 DEF IInv, TypeOK, Process
<1>3. /\ t.main = "running" /\ t.beat = "waiting" /\ t.claim = claim
      /\ t.cancellation = proc[p].cancellation
      /\ t.beatError = proc[p].beatError /\ t.result = proc[p].result
  BY <1>2 DEF Process
<1>4. claim.job = j /\ claim.attempt = row[j].attempt + 1 /\ claim # NoClaim
  BY Unserved DEF NoClaim
<1>5. claim = [job |-> j, attempt |-> row[j].attempt + 1]
  OBVIOUS
<1>6. proc' = [proc EXCEPT ![p] = t]
  OBVIOUS
<1> HIDE DEF t, claim
<1>7. proc'[p] = t /\ \A q \in Processes \ {p} : proc'[q] = proc[q]
  BY <1>6 DEF IInv, TypeOK
<1>8. TypeOK'
  BY <1>2, <1>6, <1>0 DEF IInv, TypeOK
<1>9. \A q \in Processes : Threads(q)'
  <2>1. Threads(p)'
    BY <1>3, <1>4, <1>7, Unserved DEF Threads, Working
  <2> QED
    BY <1>7, <2>1 DEF IInv, Threads
<1>10. ResultsWereReturned'
  BY <1>3, <1>7 DEF IInv, ResultsWereReturned
<1>11. ClaimsAreApart'
  <2>1. \A q \in Processes : proc'[q].claim # NoClaim =>
          proc'[q].claim.attempt <= row'[proc'[q].claim.job].attempt
    <3> SUFFICES ASSUME NEW q \in Processes, proc'[q].claim # NoClaim
                 PROVE  proc'[q].claim.attempt <= row'[proc'[q].claim.job].attempt
      OBVIOUS
    <3>1. row[j].attempt \in Nat
      BY DEF IInv, TypeOK, Row
    <3>2. CASE q = p
      BY <1>3, <1>4, <1>7, <3>1, <3>2, <1>0
    <3>3. CASE q # p
      <4>1. /\ proc[q].claim.job \in Jobs
            /\ proc[q].claim.attempt <= row[proc[q].claim.job].attempt
        BY <1>7, <3>3, Unserved DEF IInv, ClaimsAreApart
      <4>2. proc[q].claim.attempt \in Nat
        BY DEF IInv, TypeOK, Process
      <4> QED
        BY <1>7, <3>1, <3>3, <4>1, <4>2, <1>0
    <3> QED
      BY <3>2, <3>3
  <2>2. \A q, s \in Processes :
          proc'[q].claim # NoClaim /\ proc'[q].claim = proc'[s].claim => q = s
    BY <1>3, <1>4, <1>5, <1>7, Unserved DEF IInv, ClaimsAreApart
  <2> QED
    BY <2>1, <2>2 DEF ClaimsAreApart
<1>12. ClaimsAreOwned'
  <2> SUFFICES ASSUME ~delayed, NEW q \in Processes, proc'[q].claim # NoClaim
               PROVE  Owns(q)'
    BY DEF ClaimsAreOwned
  <2>1. CASE q = p
    BY <1>3, <1>4, <1>7, <2>1, <1>0 DEF Owns
  <2>2. CASE q # p
    <3>1. Owns(q) /\ proc[q].claim.job \in Jobs \ {j}
      BY <1>7, <2>2, Unserved DEF IInv, ClaimsAreOwned
    <3> QED
      BY <1>7, <2>2, <3>1, <1>0 DEF Owns
  <2> QED
    BY <2>1, <2>2
<1>13. FaultsComeFirst'
  BY <1>3, <1>7 DEF IInv, FaultsComeFirst
<1>14. OutcomeWasReturned'
  BY <1>0 DEF IInv, OutcomeWasReturned
<1> QED
  BY <1>8, <1>9, <1>10, <1>11, <1>12, <1>13, <1>14 DEF IInv

\* No job is there to be claimed.
LEMMA NothingClaimedStep ==
  ASSUME IInv, NEW p \in Processes, proc[p].main = "claiming",
         proc' = [proc EXCEPT ![p].main = "polling"],
         row' = row, faults' = faults, returned' = returned, delayed' = delayed
  PROVE  IInv'
<1> DEFINE t == [proc[p] EXCEPT !.main = "polling"]
<1>1. t \in Process /\ proc[p] \in Process
  BY DEF IInv, TypeOK, Process
<1>2. /\ t.main = "polling" /\ t.claim = proc[p].claim
      /\ t.cancellation = proc[p].cancellation /\ t.beat = proc[p].beat
      /\ t.beatError = proc[p].beatError /\ t.result = proc[p].result
  BY <1>1 DEF Process
<1>3. proc' = [proc EXCEPT ![p] = t]
  OBVIOUS
<1> HIDE DEF t
<1>4. Threads(p)'
  BY <1>1, <1>2, <1>3 DEF IInv, TypeOK, Threads, Working
<1>5. faults' \in faults .. MaxFaults
  BY MaxFaultsIsNumber DEF IInv, TypeOK
<1> QED
  BY <1>1, <1>2, <1>3, <1>4, <1>5, ProcessStep DEF IInv, TypeOK, FaultsComeFirst

LEMMA ClaimNextStep ==
  ASSUME IInv, NEW p \in Processes, ClaimNext(p)
  PROVE  IInv'
  BY ClaimStep, NothingClaimedStep DEF ClaimNext, NoFault

\* The claim is committed and its process ends: the job is served by nobody.
LEMMA ClaimIsLostStep ==
  ASSUME IInv, NEW p \in Processes, NEW j \in Jobs, Claimable(j),
         row' = [row EXCEPT ![j] = ClaimedRow(j)],
         Stop(p), faults' \in faults .. MaxFaults, faults' # 0,
         returned' = returned, delayed' = delayed
  PROVE  IInv'
<1>0. /\ row' \in [Jobs -> Row]
      /\ \A i \in Jobs \ {j} : row'[i] = row[i]
      /\ row'[j].attempt = row[j].attempt + 1
      /\ row'[j].status = "running" /\ row'[j].lease = "live"
  BY ClaimedTable
<1>1. /\ proc' = [proc EXCEPT ![p] = Down] /\ proc'[p] = Down
      /\ \A q \in Processes \ {p} : proc'[q] = proc[q]
  BY DEF Stop, IInv, TypeOK
<1>2. TypeOK'
  BY <1>1, <1>0, StoppedProcess, MaxFaultsIsNumber DEF IInv, TypeOK
<1>3. \A q \in Processes : Threads(q)'
  BY <1>1, StoppedProcess DEF IInv, Threads, Working
<1>4. ResultsWereReturned'
  BY <1>1, StoppedProcess DEF IInv, ResultsWereReturned
<1>5. ClaimsAreApart'
  <2>1. \A q \in Processes : proc'[q].claim # NoClaim =>
          proc'[q].claim.attempt <= row'[proc'[q].claim.job].attempt
    <3> SUFFICES ASSUME NEW q \in Processes, proc'[q].claim # NoClaim
                 PROVE  proc'[q].claim.attempt <= row'[proc'[q].claim.job].attempt
      OBVIOUS
    <3>1. /\ q # p /\ proc'[q] = proc[q]
          /\ proc[q].claim.job \in Jobs
          /\ proc[q].claim.attempt <= row[proc[q].claim.job].attempt
      BY <1>1, StoppedProcess, Unserved DEF IInv, ClaimsAreApart
    <3>2. proc[q].claim.attempt \in Nat /\ row[j].attempt \in Nat
      BY DEF IInv, TypeOK, Process, Row
    <3> QED
      BY <3>1, <3>2, <1>0
  <2>2. \A q, s \in Processes :
          proc'[q].claim # NoClaim /\ proc'[q].claim = proc'[s].claim => q = s
    BY <1>1, StoppedProcess DEF IInv, ClaimsAreApart
  <2> QED
    BY <2>1, <2>2 DEF ClaimsAreApart
<1>6. ClaimsAreOwned'
  <2> SUFFICES ASSUME ~delayed, NEW q \in Processes, proc'[q].claim # NoClaim
               PROVE  Owns(q)'
    BY DEF ClaimsAreOwned
  <2>1. /\ proc'[q] = proc[q] /\ Owns(q) /\ proc[q].claim.job \in Jobs \ {j}
    BY <1>1, StoppedProcess, Unserved DEF IInv, ClaimsAreOwned
  <2> QED
    BY <2>1, <1>0 DEF Owns
<1>7. FaultsComeFirst'
  BY DEF FaultsComeFirst
<1>8. OutcomeWasReturned'
  BY <1>0 DEF IInv, OutcomeWasReturned
<1> QED
  BY <1>2, <1>3, <1>4, <1>5, <1>6, <1>7, <1>8 DEF IInv

LEMMA ClaimCallFailsStep ==
  ASSUME IInv, NEW p \in Processes, ClaimCallFails(p)
  PROVE  IInv'
<1>0. faults' \in faults .. MaxFaults /\ faults' # 0
  BY FaultStep DEF ClaimCallFails
<1> QED
  BY <1>0, ClaimIsLostStep, StopStep DEF ClaimCallFails

-----------------------------------------------------------------------------
(* The end of an attempt *)

\* The owner writes the outcome and gives its claim up, whether it goes on
\* polling or ends.
LEMMA OutcomeStep ==
  ASSUME IInv, NEW p \in Processes, proc[p].main = "finishing", Owns(p),
         row' = FinishedRow(p),
         NEW t \in Process, proc' = [proc EXCEPT ![p] = t],
         t.main \notin Working, t.claim = NoClaim, t.beat = "off",
         faults' \in faults .. MaxFaults,
         faults' = 0 => /\ t.main # "down" /\ ~t.cancellation
                        /\ ~t.beatError /\ t.result \notin {"cancelled", "error"},
         returned' = returned, delayed' = delayed
  PROVE  IInv'
<1>0. PICK j \in Jobs : j = proc[p].claim.job
  BY DEF IInv, Threads, Working
<1>1. proc'[p] = t /\ \A q \in Processes \ {p} : proc'[q] = proc[q]
  BY DEF IInv, TypeOK
<1>2. proc[p].result \in {"succeeded", "failed"}
  BY DEF IInv, Threads
<1>3. /\ row' \in [Jobs -> Row]
      /\ \A i \in Jobs \ {j} : row'[i] = row[i]
      /\ row'[j].attempt = row[j].attempt /\ row'[j].status = proc[p].result
  BY <1>0, <1>2 DEF FinishedRow, IInv, TypeOK, Row
<1>4. TypeOK'
  BY <1>3, MaxFaultsIsNumber DEF IInv, TypeOK
<1>5. \A q \in Processes : Threads(q)'
  BY <1>1 DEF IInv, Threads, Working
<1>6. ResultsWereReturned'
  BY <1>1 DEF IInv, ResultsWereReturned, Working
<1>7. ClaimsAreApart'
  BY <1>1, <1>3 DEF IInv, ClaimsAreApart, Threads
<1>8. ClaimsAreOwned'
  <2> SUFFICES ASSUME ~delayed, NEW q \in Processes, proc'[q].claim # NoClaim
               PROVE  Owns(q)'
    BY DEF ClaimsAreOwned
  <2>1. /\ q # p /\ proc'[q] = proc[q] /\ Owns(q) /\ proc[q].claim.job \in Jobs
    BY <1>1 DEF IInv, ClaimsAreOwned, Threads
  <2>2. proc[q].claim.job # j
    <3>1. SUFFICES ASSUME proc[q].claim.job = j  PROVE FALSE
      OBVIOUS
    <3>2. /\ proc[p].claim \in [job : Jobs \union {NULL}, attempt : Nat]
          /\ proc[q].claim \in [job : Jobs \union {NULL}, attempt : Nat]
      BY DEF IInv, TypeOK, Process
    <3>3. proc[q].claim = proc[p].claim
      BY <1>0, <2>1, <3>1, <3>2 DEF Owns
    <3> QED
      BY <2>1, <3>3 DEF IInv, ClaimsAreApart, Owns
  <2> QED
    BY <1>3, <2>1, <2>2 DEF Owns
<1>9. FaultsComeFirst'
  <2>1. faults' = 0 => faults = 0
    BY MaxFaultsIsNumber DEF IInv, TypeOK
  <2> QED
    BY <1>1, <2>1 DEF IInv, FaultsComeFirst
<1>10. OutcomeWasReturned'
  <2>1. <<j, row[j].attempt, proc[p].result>> \in returned
    BY <1>0, <1>2 DEF IInv, ResultsWereReturned, Owns
  <2> QED
    BY <1>3, <2>1 DEF IInv, OutcomeWasReturned
<1> QED
  BY <1>4, <1>5, <1>6, <1>7, <1>8, <1>9, <1>10 DEF IInv

\* A process that has lost its lease writes nothing and ends, after a fault.
LEMMA FinishStep ==
  ASSUME IInv, NEW p \in Processes, Finish(p)
  PROVE  IInv'
<1>0. faults' \in faults .. MaxFaults /\ faults' = faults
  BY NoFaultStep DEF Finish
<1>1. CASE Owns(p)
  <2> DEFINE t == [Started EXCEPT !.cancellation = proc[p].cancellation,
                                  !.beat = IF proc[p].beat = "ended" THEN "off"
                                           ELSE proc[p].beat]
  <2>1. proc[p] \in Process /\ proc[p].beat = "ended"
    BY DEF Finish, IInv, TypeOK, Threads
  <2>2. t \in Process
    BY <2>1, StoppedProcess DEF Process
  <2>3. /\ t.main = "polling" /\ t.claim = NoClaim /\ t.beat = "off"
        /\ ~t.beatError /\ t.result = "none"
        /\ t.cancellation = proc[p].cancellation
    BY <2>1 DEF Started
  <2>4. /\ proc' = [proc EXCEPT ![p] = t] /\ row' = FinishedRow(p)
        /\ proc[p].main = "finishing"
    BY <1>1 DEF Finish
  <2> HIDE DEF t
  <2> QED
    BY <1>0, <1>1, <2>2, <2>3, <2>4, OutcomeStep
       DEF Finish, IInv, FaultsComeFirst, Working
<1>2. CASE ~Owns(p)
  <2>1. proc[p].claim # NoClaim
    BY NullIsNoJob DEF Finish, IInv, Threads, Working, NoClaim
  <2>2. faults # 0
    BY <1>2, <2>1 DEF IInv, FaultsComeFirst, ClaimsAreOwned
  <2> QED
    BY <1>0, <1>2, <2>2, StopStep DEF Finish
<1> QED
  BY <1>1, <1>2

LEMMA FinishCallFailsStep ==
  ASSUME IInv, NEW p \in Processes, FinishCallFails(p)
  PROVE  IInv'
<1>0. faults' \in faults .. MaxFaults /\ faults' # 0
  BY FaultStep DEF FinishCallFails
<1>1. CASE Owns(p) /\ row' = FinishedRow(p)
  BY <1>0, <1>1, OutcomeStep, StoppedProcess DEF FinishCallFails, Stop, Working
<1>2. CASE row' = row
  BY <1>0, <1>2, StopStep DEF FinishCallFails
<1> QED
  BY <1>1, <1>2 DEF FinishCallFails

-----------------------------------------------------------------------------
LEMMA Initially == Init => IInv
<1> SUFFICES ASSUME Init PROVE IInv
  OBVIOUS
<1>1. TypeOK
  <2>1. row \in [Jobs -> Row]
    BY DEF Init, Row
  <2>2. proc \in [Processes -> Process]
    BY StoppedProcess DEF Init
  <2>3. faults \in 0 .. MaxFaults /\ returned = {}
    BY MaxFaultsIsNumber DEF Init
  <2>4. delayed \in BOOLEAN
    BY DEF Init
  <2> QED
    BY <2>1, <2>2, <2>3, <2>4 DEF TypeOK
<1>2. \A p \in Processes : proc[p] = Started
  BY DEF Init
<1>3. \A p \in Processes : Threads(p)
  BY <1>2, StoppedProcess DEF Threads, Working
<1>4. ResultsWereReturned /\ ClaimsAreApart /\ ClaimsAreOwned /\ FaultsComeFirst
  BY <1>2, StoppedProcess
     DEF Init, ResultsWereReturned, ClaimsAreApart, ClaimsAreOwned, FaultsComeFirst
<1>5. OutcomeWasReturned
  BY DEF Init, OutcomeWasReturned
<1> QED
  BY <1>1, <1>3, <1>4, <1>5 DEF IInv

LEMMA Inductive == IInv /\ [Next]_vars => IInv'
<1> SUFFICES ASSUME IInv, [Next]_vars PROVE IInv'
  OBVIOUS
<1>1. ASSUME NEW j \in Jobs, Request(j)
      PROVE  IInv'
  BY <1>1, RequestStep
<1>2. ASSUME NEW j \in Jobs, ExpireUnserved(j) \/ ExpireServed(j)
      PROVE  IInv'
  BY <1>2, ExpiresStep
<1>3. ASSUME NEW p \in Processes, Loop(p)
      PROVE  IInv'
  BY <1>3, PollStep, ClaimNextStep, RunnerReturnsStep, JoinStep, FinishStep
     DEF Loop
<1>4. ASSUME NEW p \in Processes, Beat(p)
      PROVE  IInv'
  <2>1. CASE BeatDue(p)
    BY <2>1, NoFaultStep, BeatStep DEF BeatDue
  <2>2. CASE BeatCall(p)
    BY <2>2, BeatCallStep
  <2>3. CASE BeatStops(p)
    BY <2>3, NoFaultStep, BeatStep DEF BeatStops
  <2> QED
    BY <1>4, <2>1, <2>2, <2>3 DEF Beat
<1>5. ASSUME NEW p \in Processes, Disturb(p)
      PROVE  IInv'
  <2>1. CASE BeatCallFails(p)
    BY <2>1, FaultStep, BeatFailedStep DEF BeatCallFails
  <2>2. CASE Crash(p)
    BY <2>2, FaultStep, StopStep DEF Crash
  <2> QED
    BY <1>5, <2>1, <2>2, ClaimCallFailsStep, RunnerRaisesStep,
       FinishCallFailsStep, SignalStep DEF Disturb
<1>6. ASSUME NEW p \in Processes, Restart(p)
      PROVE  IInv'
  BY <1>6, RestartStep
<1>7. CASE UNCHANGED vars
  BY <1>7 DEF vars, IInv, TypeOK, Threads, ResultsWereReturned, ClaimsAreApart,
     ClaimsAreOwned, Owns, FaultsComeFirst, OutcomeWasReturned
<1> QED
  BY <1>1, <1>2, <1>3, <1>4, <1>5, <1>6, <1>7 DEF Next

LEMMA Invariance == Spec => []IInv
  BY Initially, Inductive, PTL DEF Spec

\* Two claims of one job that own its row are of one attempt, and one attempt
\* has one process.
LEMMA Exclusion == IInv => AttemptInv
<1> SUFFICES ASSUME IInv PROVE AttemptInv
  OBVIOUS
<1>1. ExclusiveAttempts
  <2> SUFFICES ASSUME ~delayed, NEW p \in Processes, NEW q \in Processes,
                      proc[p].claim.job = proc[q].claim.job,
                      proc[p].claim # NoClaim
               PROVE  p = q
    BY DEF ExclusiveAttempts
  <2>1. /\ proc[p].claim \in [job : Jobs \union {NULL}, attempt : Nat]
        /\ proc[q].claim \in [job : Jobs \union {NULL}, attempt : Nat]
    BY DEF IInv, TypeOK, Process
  <2>2. proc[p].claim.job # NULL
    BY NullIsNoJob DEF IInv, Threads
  <2>3. proc[q].claim # NoClaim
    BY <2>2 DEF NoClaim
  <2>4. Owns(p) /\ Owns(q)
    BY <2>3 DEF IInv, ClaimsAreOwned
  <2>5. proc[p].claim = proc[q].claim
    BY <2>1, <2>4 DEF Owns
  <2> QED
    BY <2>5 DEF IInv, ClaimsAreApart
<1>2. NoSelfInflictedStop
  BY DEF IInv, FaultsComeFirst, NoSelfInflictedStop
<1> QED
  BY <1>1, <1>2 DEF IInv, AttemptInv

\* The main loop and its heartbeat thread, over crashes, restarts, lost replies
\* and shutdowns: a job is attempted by one process at a time unless a lease
\* expires under the process that serves it, no process stops itself without a
\* fault, and every outcome in the table is the one its latest attempt returned.
THEOREM AttemptsHold == Spec => []AttemptInv
  BY Invariance, Exclusion, PTL
=============================================================================
