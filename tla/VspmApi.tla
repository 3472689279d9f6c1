------------------------------ MODULE VspmApi ------------------------------
(***************************************************************************)
(* vspm_api.c: vspm_init_driver, vspm_quit_driver, vspm_entry_job,         *)
(* vspm_cancel_job and the callback thread vspm_cb_thread, with the kernel *)
(* driver behind /dev/vspm_if as an external component.                    *)
(*                                                                         *)
(* Three parties act on one handle: the thread inside init or quit (its    *)
(* program counter is call[h]), the callback thread (thr[h]) and the       *)
(* driver (queued[h], done[h], stop[h]).  A client enters and cancels jobs *)
(* only between a successful init and the call of quit: vspm_api.c has no  *)
(* lock of its own, and its callers in this repository keep that rule.     *)
(*                                                                         *)
(* Left out: the calls that change no state of the library (a null         *)
(* argument, a refused QUIT or ENTRY, vspm_cancel_job answering EBUSY or   *)
(* ENOENT, vspm_get_status) and the particular error code of a failure.    *)
(***************************************************************************)
EXTENDS FiniteSets

CONSTANTS Handles, Jobs, NoJob

ASSUME ApiAssumption == NoJob \notin Jobs

VARIABLES
    call,      \* call[h]: where init or quit stands for handle h
    mem,       \* mem[h]: struct vspm_handle is allocated
    fd,        \* fd[h]: hdl->fd is an open descriptor of the driver
    thr,       \* thr[h]: the callback thread
    cur,       \* cur[h]: the job in the thread's cb_info
    stop,      \* stop[h]: the driver answers the thread with ercd < 0
    queued,    \* queued[h]: jobs the driver accepted and has not finished
    done,      \* done[h]: finished jobs not yet handed to the thread
    entering   \* entering[h]: accepted jobs whose *job_id is not stored yet

ctlVars == <<call, mem, fd>>
thrVars == <<thr, cur>>
drvVars == <<stop, queued, done>>
vars == <<call, mem, fd, thr, cur, stop, queued, done, entering>>

InitPcs == {"open", "init", "create", "wait_thread",
            "err_exit4", "err_exit3", "err_exit2"}
QuitPcs == {"stop", "join", "close", "free"}
Pcs == {"none", "ready", "stuck"} \cup InitPcs \cup QuitPcs
ThreadPcs == {"none", "wait", "blocked", "call", "exited"}

Owed(h) == queued[h] \cup done[h]
InUse == UNION {Owed(h) \cup entering[h] \cup {cur[h]} : h \in Handles}

Init ==
    /\ call = [h \in Handles |-> "none"]
    /\ mem = [h \in Handles |-> FALSE]
    /\ fd = [h \in Handles |-> FALSE]
    /\ thr = [h \in Handles |-> "none"]
    /\ cur = [h \in Handles |-> NoJob]
    /\ stop = [h \in Handles |-> FALSE]
    /\ queued = [h \in Handles |-> {}]
    /\ done = [h \in Handles |-> {}]
    /\ entering = [h \in Handles |-> {}]

Goto(h, from, to) == call[h] = from /\ call' = [call EXCEPT ![h] = to]

\* A step of the calling thread that changes nothing but where it is.
Move(h, from, to) ==
    Goto(h, from, to) /\ UNCHANGED <<mem, fd, thrVars, drvVars, entering>>

-----------------------------------------------------------------------------
(* vspm_init_driver                                                        *)

Malloc(h) ==
    /\ Goto(h, "none", "open")
    /\ mem' = [mem EXCEPT ![h] = TRUE]
    /\ UNCHANGED <<fd, thrVars, drvVars, entering>>

\* A fresh descriptor has no stop request pending.
OpenDevice(h) ==
    /\ Goto(h, "open", "init")
    /\ fd' = [fd EXCEPT ![h] = TRUE]
    /\ stop' = [stop EXCEPT ![h] = FALSE]
    /\ UNCHANGED <<mem, thrVars, queued, done, entering>>

OpenFails(h) == Move(h, "open", "err_exit2")

InitIoctl(h) == Move(h, "init", "create")

InitIoctlFails(h) == Move(h, "init", "err_exit3")

CreateThread(h) ==
    /\ Goto(h, "create", "wait_thread")
    /\ thr' = [thr EXCEPT ![h] = "wait"]
    /\ UNCHANGED <<mem, fd, cur, drvVars, entering>>

\* Mutant of CreateThreadFails: the descriptor is not closed.
CreateFailsKeepsFd(h) == Move(h, "create", "err_exit2")

\* Mutant of CreateThreadFails: joins the thread it has not created.
CreateFailsJoins(h) == Move(h, "create", "err_exit4")

\* One of the pthread_attr_ calls, or pthread_create itself.
CreateThreadFails(h) == Move(h, "create", "err_exit3")

\* The driver answers WAIT_THREAD once the thread waits for interrupts.
WaitThread(h) == thr[h] = "blocked" /\ Move(h, "wait_thread", "ready")

\* The wait was interrupted, or the driver itself has given up the session and
\* answers the callback thread as if it were stopped.
WaitThreadFails(h) ==
    /\ Goto(h, "wait_thread", "err_exit4")
    /\ stop' \in {stop, [stop EXCEPT ![h] = TRUE]}
    /\ UNCHANGED <<mem, fd, thrVars, queued, done, entering>>

\* The unwinding joins a thread that the library has not asked to stop.
UnwindJoin(h) ==
    /\ thr[h] = "exited"
    /\ Goto(h, "err_exit4", "err_exit3")
    /\ thr' = [thr EXCEPT ![h] = "none"]
    /\ UNCHANGED <<mem, fd, cur, drvVars, entering>>

UnwindClose(h) ==
    /\ Goto(h, "err_exit3", "err_exit2")
    /\ fd' = [fd EXCEPT ![h] = FALSE]
    /\ UNCHANGED <<mem, thrVars, drvVars, entering>>

UnwindFree(h) ==
    /\ Goto(h, "err_exit2", "none")
    /\ mem' = [mem EXCEPT ![h] = FALSE]
    /\ UNCHANGED <<fd, thrVars, drvVars, entering>>

InitStep(h) ==
    \/ OpenDevice(h) \/ OpenFails(h)
    \/ InitIoctl(h) \/ InitIoctlFails(h)
    \/ CreateThread(h) \/ CreateThreadFails(h)
    \/ WaitThread(h) \/ WaitThreadFails(h)
    \/ UnwindJoin(h) \/ UnwindClose(h) \/ UnwindFree(h)

-----------------------------------------------------------------------------
(* vspm_quit_driver                                                        *)

\* VSPM_IOC_CMD_QUIT succeeds; the driver may drop any of its jobs.  A client
\* whose earlier quit failed may call again while the descriptor is open.
QuitIoctl(h) ==
    /\ call[h] \in {"ready", "stuck"}
    /\ fd[h]
    /\ entering[h] = {}
    /\ call' = [call EXCEPT ![h] = "stop"]
    /\ \E D \in SUBSET Owed(h) :
          /\ queued' = [queued EXCEPT ![h] = @ \ D]
          /\ done' = [done EXCEPT ![h] = @ \ D]
    /\ UNCHANGED <<mem, fd, thrVars, stop, entering>>

\* Mutant of StopThread: the thread is not joined.
StopThreadOnly(h) ==
    /\ Goto(h, "stop", "close")
    /\ stop' = [stop EXCEPT ![h] = TRUE]
    /\ UNCHANGED <<mem, fd, thrVars, queued, done, entering>>

\* Mutant of StopThread: VSPM_IOC_CMD_STOP_THREAD is left out.
JoinThreadOnly(h) ==
    /\ Goto(h, "stop", "join")
    /\ stop' = [stop EXCEPT ![h] = FALSE]
    /\ UNCHANGED <<mem, fd, thrVars, queued, done, entering>>

StopThread(h) ==
    /\ Goto(h, "stop", "join")
    /\ stop' = [stop EXCEPT ![h] = TRUE]
    /\ UNCHANGED <<mem, fd, thrVars, queued, done, entering>>

StopThreadFails(h) == Move(h, "stop", "stuck")

\* Mutant of JoinThread: pthread_detach in the place of pthread_join.
DetachThread(h) ==
    /\ Goto(h, "join", "close")
    /\ thr' = [thr EXCEPT ![h] = "none"]
    /\ UNCHANGED <<mem, fd, cur, drvVars, entering>>

JoinThread(h) ==
    /\ thr[h] = "exited"
    /\ Goto(h, "join", "close")
    /\ thr' = [thr EXCEPT ![h] = "none"]
    /\ UNCHANGED <<mem, fd, cur, drvVars, entering>>

\* pthread_join answers EDEADLK to the callback thread itself, that is, when
\* the callback is what called vspm_quit_driver.
JoinThreadFails(h) == thr[h] = "call" /\ Move(h, "join", "stuck")

\* Releasing the last descriptor makes the driver forget the session's jobs;
\* the descriptor is gone even when close reports an error.
Close(h, to) ==
    /\ Goto(h, "close", to)
    /\ fd' = [fd EXCEPT ![h] = FALSE]
    /\ queued' = [queued EXCEPT ![h] = {}]
    /\ done' = [done EXCEPT ![h] = {}]
    /\ UNCHANGED <<mem, thrVars, stop, entering>>

CloseDevice(h) == Close(h, "free")
CloseFails(h) == Close(h, "stuck")

FreeHandle(h) ==
    /\ Goto(h, "free", "none")
    /\ mem' = [mem EXCEPT ![h] = FALSE]
    /\ UNCHANGED <<fd, thrVars, drvVars, entering>>

QuitStep(h) ==
    \/ StopThread(h) \/ StopThreadFails(h)
    \/ JoinThread(h) \/ JoinThreadFails(h)
    \/ CloseDevice(h) \/ CloseFails(h)
    \/ FreeHandle(h)

-----------------------------------------------------------------------------
(* vspm_entry_job and vspm_cancel_job                                      *)

\* The ioctl takes the job; from here on its callback may run ...
EntryIoctl(h, j) ==
    /\ call[h] = "ready"
    /\ j \notin InUse
    /\ queued' = [queued EXCEPT ![h] = @ \cup {j}]
    /\ entering' = [entering EXCEPT ![h] = @ \cup {j}]
    /\ UNCHANGED <<ctlVars, thrVars, stop, done>>

\* ... although *job_id is assigned only now.
EntryStore(h, j) ==
    /\ j \in entering[h]
    /\ entering' = [entering EXCEPT ![h] = @ \ {j}]
    /\ UNCHANGED <<ctlVars, thrVars, drvVars>>

\* The driver takes back a job it has not finished.  Whether it reports the
\* cancelled job through the callback is the driver's choice.
CancelJob(h, j) ==
    /\ call[h] = "ready"
    /\ j \in queued[h] \ entering[h]
    /\ queued' = [queued EXCEPT ![h] = @ \ {j}]
    /\ done' \in {done, [done EXCEPT ![h] = @ \cup {j}]}
    /\ UNCHANGED <<ctlVars, thrVars, stop, entering>>

-----------------------------------------------------------------------------
(* The driver and vspm_cb_thread                                           *)

\* The hardware finishes a job.
JobFinishes(h, j) ==
    /\ j \in queued[h]
    /\ queued' = [queued EXCEPT ![h] = @ \ {j}]
    /\ done' = [done EXCEPT ![h] = @ \cup {j}]
    /\ UNCHANGED <<ctlVars, thrVars, stop, entering>>

\* The thread reads hdl->fd and enters VSPM_IOC_CMD_WAIT_INTERRUPT.
ThreadWaits(h) ==
    /\ thr[h] = "wait"
    /\ thr' = [thr EXCEPT ![h] = "blocked"]
    /\ UNCHANGED <<ctlVars, cur, drvVars, entering>>

\* Mutant of ThreadInterrupted: the result of the ioctl is not tested.
InterruptedIgnored(h) ==
    /\ thr[h] = "blocked"
    /\ thr' = [thr EXCEPT ![h] = "call"]
    /\ UNCHANGED <<ctlVars, cur, drvVars, entering>>

\* The ioctl fails, for instance on a signal: "continue".
ThreadInterrupted(h) ==
    /\ thr[h] = "blocked"
    /\ thr' = [thr EXCEPT ![h] = "wait"]
    /\ UNCHANGED <<ctlVars, cur, drvVars, entering>>

\* The ioctl returns a finished job and the thread calls its cb_func.
ThreadCalls(h, j) ==
    /\ thr[h] = "blocked"
    /\ j \in done[h]
    /\ thr' = [thr EXCEPT ![h] = "call"]
    /\ cur' = [cur EXCEPT ![h] = j]
    /\ done' = [done EXCEPT ![h] = @ \ {j}]
    /\ UNCHANGED <<ctlVars, stop, queued, entering>>

\* Mutant of ThreadReturns: the loop ends after one callback.
ReturnsOnce(h) ==
    /\ thr[h] = "call"
    /\ thr' = [thr EXCEPT ![h] = "exited"]
    /\ cur' = [cur EXCEPT ![h] = NoJob]
    /\ UNCHANGED <<ctlVars, drvVars, entering>>

ThreadReturns(h) ==
    /\ thr[h] = "call"
    /\ thr' = [thr EXCEPT ![h] = "wait"]
    /\ cur' = [cur EXCEPT ![h] = NoJob]
    /\ UNCHANGED <<ctlVars, drvVars, entering>>

\* cb_info.ercd < 0: the driver's answer to VSPM_IOC_CMD_STOP_THREAD.
ThreadStops(h) ==
    /\ thr[h] = "blocked"
    /\ stop[h]
    /\ thr' = [thr EXCEPT ![h] = "exited"]
    /\ UNCHANGED <<ctlVars, cur, drvVars, entering>>

ThreadStep(h) ==
    \/ ThreadWaits(h) \/ ThreadInterrupted(h) \/ ThreadStops(h)
    \/ ThreadReturns(h)
    \/ \E j \in Jobs : ThreadCalls(h, j)

JobStep(h, j) ==
    \/ EntryIoctl(h, j) \/ EntryStore(h, j)
    \/ CancelJob(h, j) \/ JobFinishes(h, j)

Next ==
    \E h \in Handles :
        \/ Malloc(h) \/ InitStep(h)
        \/ QuitIoctl(h) \/ QuitStep(h)
        \/ ThreadStep(h)
        \/ \E j \in Jobs : JobStep(h, j)

Spec == Init /\ [][Next]_vars

-----------------------------------------------------------------------------
(* Fairness.  A thread that can run runs; a library call makes progress;   *)
(* the driver finishes its jobs; and a WAIT_INTERRUPT that is interrupted  *)
(* again and again is still answered in the end.                           *)

Fairness ==
    \A h \in Handles :
        /\ WF_vars(InitStep(h)) /\ WF_vars(QuitStep(h))
        /\ WF_vars(ThreadWaits(h)) /\ WF_vars(ThreadReturns(h))
        /\ SF_vars(ThreadStops(h))
        /\ \A j \in Jobs :
              /\ SF_vars(ThreadCalls(h, j))
              /\ WF_vars(JobFinishes(h, j)) /\ WF_vars(EntryStore(h, j))

FairSpec == Spec /\ Fairness

-----------------------------------------------------------------------------
(* Properties                                                              *)

\* The types, and the two facts about the thread that its types express: a
\* callback executes exactly when cb_info holds a job.
TypeOK ==
    /\ call \in [Handles -> Pcs]
    /\ mem \in [Handles -> BOOLEAN]
    /\ fd \in [Handles -> BOOLEAN]
    /\ thr \in [Handles -> ThreadPcs]
    /\ cur \in [Handles -> Jobs \cup {NoJob}]
    /\ stop \in [Handles -> BOOLEAN]
    /\ queued \in [Handles -> SUBSET Jobs]
    /\ done \in [Handles -> SUBSET Jobs]
    /\ entering \in [Handles -> SUBSET Jobs]
    /\ \A h \in Handles : thr[h] = "call" <=> cur[h] # NoJob

\* The callback thread reads hdl->fd (vspm_api.c:38) on every turn of its
\* loop: whichever way init or quit ends, the handle is not freed and the
\* descriptor not closed while the thread may still turn.
HandleOutlivesThread ==
    \A h \in Handles :
        thr[h] \in {"wait", "blocked", "call"} => mem[h] /\ fd[h]

\* A call that leaves the client without a handle (init failed, at any of its
\* error exits, or quit succeeded) leaves no memory, no descriptor, no thread
\* and no job behind.
NothingLeftBehind ==
    \A h \in Handles :
        call[h] = "none" =>
            ~mem[h] /\ ~fd[h] /\ thr[h] = "none" /\ Owed(h) = {}

\* pthread_join is called only for a thread that exists and has not been
\* joined, also by a client that calls quit again after it failed.
JoinsLiveThread ==
    \A h \in Handles : call[h] \in {"err_exit4", "join"} => thr[h] # "none"

\* The service the header promises: see VspmService.
SessionOf(pc) ==
    IF pc \in QuitPcs THEN "quitting"
    ELSE IF pc = "ready" THEN "up"
    ELSE IF pc = "stuck" THEN "failed"
    ELSE "down"

Service == INSTANCE VspmService WITH
    session <- [h \in Handles |-> SessionOf(call[h])],
    owed <- [h \in Handles |-> Owed(h)],
    running <- cur

\* vspm_api.c implements that service: no callback without a session, each
\* accepted job reported at most once, one callback at a time, and nothing
\* owed or running when vspm_quit_driver has returned R_VSPM_OK.
ServiceSpec == Service!SvcSpec

\* vspm_quit_driver returns, whatever jobs are queued when it is called and
\* however often the thread's ioctl is interrupted.
QuitReturns ==
    \A h \in Handles :
        call[h] \in QuitPcs ~> call[h] \in {"none", "stuck"}

\* An accepted job is reported or given up; it stays in the driver for ever
\* only when a quit failed half way and the client let it rest there.
EveryJobSettled ==
    \A h \in Handles, j \in Jobs :
        j \in Owed(h) ~> j \notin Owed(h) \/ call[h] = "stuck"

\* vspm_init_driver returns, with or without a handle.  This is what its
\* callers wait for (fdpm_tp.c:146-149 prints the code of a failed init).
InitReturns ==
    \A h \in Handles :
        call[h] \in InitPcs ~> call[h] \in {"none", "ready"}
=============================================================================
