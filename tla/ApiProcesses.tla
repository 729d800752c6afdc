----------------------------- MODULE ApiProcesses -----------------------------
(***************************************************************************)
(* The API from its start on (cmd/api/main.go): the processes of a            *)
(* deployment apply the migrations (Migrations), and once they serve they     *)
(* handle requests (HttpApi).                                               *)
(*                                                                         *)
(* ListenAndServe comes after Migrate.  That requests come only when every    *)
(* process of the deployment serves and no fault of the start is left is a    *)
(* bound; the faults of HttpApi come then.                                   *)
(***************************************************************************)
EXTENDS Migrations

CONSTANTS Clients, MaxJobs, MaxReservations, MaxTransactions

ASSUME BoundsAreNumbers ==
  MaxJobs \in Nat /\ MaxReservations \in Nat /\ MaxTransactions \in Nat
ASSUME NullIsNoClient == NULL \notin Clients
ASSUME NullIsNoStatus == NULL \notin Nat

VARIABLES registered, jobs, reservations, streamLock, clock, client

requestVars == <<registered, jobs, reservations, streamLock, clock, client>>
apiVars == <<vars, requestVars>>

Http == INSTANCE HttpApi WITH lock <- streamLock

Serving == faults = MaxFaults /\ \A p \in Processes : At(p, "serving")

ApiInit == Init /\ Http!Init

ApiNext ==
  \/ Next /\ UNCHANGED requestVars
  \/ Serving /\ Http!Next /\ UNCHANGED vars

\* Processes start as Migrations says; no client has to ask for anything.
ApiSpec == ApiInit /\ [][ApiNext]_apiVars /\ Fairness

-----------------------------------------------------------------------------

(***************************************************************************)
(* router.go and the repositories behind it: what the OpenAPI document       *)
(* excludes is rejected, polling shows the job that is active, and a retry   *)
(* answers with another job.                                                *)
(***************************************************************************)
HttpInv == Http!HttpInv

(***************************************************************************)
(* Every command takes effect at most once, in one moment between request    *)
(* and answer, and an answer other than 500 tells what that was.             *)
(***************************************************************************)
ImplementsContract == Http!ImplementsContract
=============================================================================
