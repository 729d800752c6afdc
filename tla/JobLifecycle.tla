---------------------------- MODULE JobLifecycle ----------------------------
(***************************************************************************)
(* What the job queue promises, without leases, clocks or transactions:     *)
(* a stream has at most one unfinished job, an unfinished job is attempted  *)
(* one or more times, and the first reported outcome is final.              *)
(***************************************************************************)
EXTENDS Naturals

CONSTANTS Jobs, Streams, NULL

VARIABLE
  life  \* job id -> its stream, phase and number of attempts

Phases == {"absent", "queued", "running", "succeeded", "failed"}
Life == [stream : Streams \union {NULL}, phase : Phases, attempt : Nat]

Unfinished(j) == life[j].phase \in {"queued", "running"}

Init == life = [j \in Jobs |-> [stream |-> NULL, phase |-> "absent",
                                attempt |-> 0]]

Request(j, s) ==
  /\ life[j].phase = "absent"
  /\ \A k \in Jobs : life[k].stream = s => ~Unfinished(k)
  /\ life' = [life EXCEPT ![j] = [stream |-> s, phase |-> "queued",
                                  attempt |-> 0]]

Attempt(j) ==
  /\ Unfinished(j)
  /\ life' = [life EXCEPT ![j].phase = "running", ![j].attempt = @ + 1]

Finish(j, outcome) ==
  /\ life[j].phase = "running"
  /\ life' = [life EXCEPT ![j].phase = outcome]

Next ==
  \E j \in Jobs :
    \/ \E s \in Streams : Request(j, s)
    \/ Attempt(j)
    \/ \E outcome \in {"succeeded", "failed"} : Finish(j, outcome)

Spec == Init /\ [][Next]_life
=============================================================================
