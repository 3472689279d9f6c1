---------------------------- MODULE VspmService ----------------------------
(***************************************************************************)
(* What the five calls of vspm_public.h (lines 19-40) promise a client of  *)
(* one or more handles: a job that vspm_entry_job accepted is reported by  *)
(* its callback at most once, callbacks of one handle run one at a time,   *)
(* and nothing is owed and no callback runs once vspm_quit_driver has      *)
(* returned R_VSPM_OK.  VspmApi implements it with a kernel driver, a      *)
(* callback thread and two resources; FdpmApi is written on top of it.     *)
(***************************************************************************)
EXTENDS FiniteSets

CONSTANTS
    Handles,    \* the handles a client may hold
    Jobs,       \* the job identifiers the driver hands out
    NoJob       \* "no callback is running"

ASSUME ServiceAssumption == NoJob \notin Jobs

VARIABLES
    session,    \* session[h]: what the client may do with handle h
    owed,       \* owed[h]: jobs accepted, neither reported nor dropped
    running     \* running[h]: the job whose callback executes, or NoJob

svcVars == <<session, owed, running>>

SvcTypeOK ==
    /\ session \in [Handles -> {"down", "up", "quitting", "failed"}]
    /\ owed \in [Handles -> SUBSET Jobs]
    /\ running \in [Handles -> Jobs \cup {NoJob}]

SvcInit ==
    /\ session = [h \in Handles |-> "down"]
    /\ owed = [h \in Handles |-> {}]
    /\ running = [h \in Handles |-> NoJob]

\* Jobs the driver still knows of, on any handle.
Known == (UNION {owed[h] \cup {running[h]} : h \in Handles}) \ {NoJob}

-----------------------------------------------------------------------------

\* vspm_init_driver returned R_VSPM_OK.
SvcInitDriver(h) ==
    /\ session[h] = "down"
    /\ session' = [session EXCEPT ![h] = "up"]
    /\ UNCHANGED <<owed, running>>

\* The driver accepted a job of vspm_entry_job under an identifier not in use.
SvcEntryJob(h, j) ==
    /\ session[h] = "up"
    /\ j \notin Known
    /\ owed' = [owed EXCEPT ![h] = @ \cup {j}]
    /\ UNCHANGED <<session, running>>

\* The callback thread of h enters the callback of job j ...
SvcBeginCallback(h, j) ==
    /\ session[h] # "down"
    /\ running[h] = NoJob
    /\ j \in owed[h]
    /\ owed' = [owed EXCEPT ![h] = @ \ {j}]
    /\ running' = [running EXCEPT ![h] = j]
    /\ UNCHANGED session

\* ... and leaves it.
SvcEndCallback(h) ==
    /\ running[h] # NoJob
    /\ running' = [running EXCEPT ![h] = NoJob]
    /\ UNCHANGED <<session, owed>>

\* Jobs that will not be reported: cancelled, or dropped by the driver.
SvcDropJobs(h, D) ==
    /\ D \subseteq owed[h]
    /\ owed' = [owed EXCEPT ![h] = @ \ D]
    /\ UNCHANGED <<session, running>>

\* vspm_quit_driver got past its first ioctl; the driver may drop jobs.
SvcStartQuit(h, D) ==
    /\ session[h] \in {"up", "failed"}
    /\ D \subseteq owed[h]
    /\ session' = [session EXCEPT ![h] = "quitting"]
    /\ owed' = [owed EXCEPT ![h] = @ \ D]
    /\ UNCHANGED running

\* vspm_quit_driver returned R_VSPM_NG part of the way through.
SvcQuitFails(h, D) ==
    /\ session[h] = "quitting"
    /\ D \subseteq owed[h]
    /\ session' = [session EXCEPT ![h] = "failed"]
    /\ owed' = [owed EXCEPT ![h] = @ \ D]
    /\ UNCHANGED running

\* vspm_quit_driver returned R_VSPM_OK.
SvcQuitDone(h) ==
    /\ session[h] = "quitting"
    /\ owed[h] = {}
    /\ running[h] = NoJob
    /\ session' = [session EXCEPT ![h] = "down"]
    /\ UNCHANGED <<owed, running>>

SvcNext ==
    \E h \in Handles :
        \/ SvcInitDriver(h)
        \/ \E j \in Jobs : SvcEntryJob(h, j) \/ SvcBeginCallback(h, j)
        \/ SvcEndCallback(h)
        \/ \E D \in SUBSET owed[h] :
              SvcDropJobs(h, D) \/ SvcStartQuit(h, D) \/ SvcQuitFails(h, D)
        \/ SvcQuitDone(h)

SvcSpec == SvcInit /\ [][SvcNext]_svcVars
=============================================================================
