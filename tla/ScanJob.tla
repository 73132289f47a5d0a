------------------------------- MODULE ScanJob -------------------------------
(***************************************************************************)
(* What a scan job promises (spec.md 4.2 and 3), one job per slot: it is   *)
(* started, opens one inventory session, hands at most one result to the   *)
(* result store, and leaves Running exactly once, as Completed when it     *)
(* handed a result and as Failed otherwise, closing its session as it      *)
(* leaves.  A result is one the job's configuration allows (Results).  A   *)
(* dying process kills every running job where it stands; an orderly stop *)
(* may close a killed job's session, an abrupt one leaves it open.         *)
(***************************************************************************)
CONSTANTS
    Threads,      \* job slots
    Configs,      \* configurations a job may start under
    Results(_),   \* Results(c): the results a job under configuration c may hand over
    NIL

VARIABLE job

Statuses == {"Idle", "Running", "Completed", "Failed", "Killed"}

Init == job = [t \in Threads |->
                 [status |-> "Idle", cfg |-> NIL, session |-> FALSE, result |-> NIL]]

Start(t) ==
    /\ job[t].status # "Running"
    /\ \E c \in Configs :
         job' = [job EXCEPT ![t] = [status |-> "Running", cfg |-> c,
                                    session |-> FALSE, result |-> NIL]]

OpenSession(t) ==
    /\ job[t].status = "Running" /\ ~job[t].session /\ job[t].result = NIL
    /\ job' = [job EXCEPT ![t].session = TRUE]

HandOver(t) ==
    /\ job[t].status = "Running" /\ job[t].session /\ job[t].result = NIL
    /\ \E r \in Results(job[t].cfg) : job' = [job EXCEPT ![t].result = r]

Finish(t) ==
    /\ job[t].status = "Running"
    /\ job' = [job EXCEPT ![t].status = IF job[t].result = NIL THEN "Failed"
                                                               ELSE "Completed",
                          ![t].session = FALSE]

Kill ==
    \E closed \in SUBSET Threads :
      job' = [t \in Threads |->
                IF job[t].status = "Running"
                THEN [job[t] EXCEPT !.status = "Killed",
                                    !.session = job[t].session /\ t \notin closed]
                ELSE job[t]]

Next == Kill \/ \E t \in Threads : Start(t) \/ OpenSession(t) \/ HandOver(t) \/ Finish(t)

Safety == Init /\ [][Next]_job

(* A running job does not stay running: it finishes or is killed.          *)
Liveness == \A t \in Threads : WF_job(Finish(t))

Spec == Safety /\ Liveness
=============================================================================
