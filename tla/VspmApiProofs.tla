--------------------------- MODULE VspmApiProofs ---------------------------
(***************************************************************************)
(* Proofs about VspmApi, for any set of handles and of jobs.               *)
(*                                                                         *)
(* The inductive invariant says, for each place the calling thread can be  *)
(* at, which of the three resources (memory, descriptor, thread) exist and *)
(* whether the driver may still hold jobs.                                 *)
(***************************************************************************)
EXTENDS VspmApi, TLAPS

\* Where the descriptor is open and where the callback thread exists; a
\* failed quit has kept both or lost both.
FdPcs == {"init", "create", "wait_thread", "err_exit4", "err_exit3",
          "ready", "stop", "join", "close"}
ThrPcs == {"wait_thread", "err_exit4", "ready", "stop", "join"}

Resources(h) ==
    /\ mem[h] <=> call[h] # "none"
    /\ call[h] # "stuck" => (fd[h] <=> call[h] \in FdPcs)
    /\ call[h] # "stuck" => (thr[h] # "none" <=> call[h] \in ThrPcs)
    /\ call[h] = "stuck" => (fd[h] <=> thr[h] # "none")

JobsOnlyInSession(h) ==
    /\ Owed(h) # {} =>
          fd[h] /\ call[h] \in {"ready", "stop", "join", "close", "stuck"}
    /\ cur[h] # NoJob => call[h] \in {"ready", "stop", "join", "stuck"}
    /\ entering[h] # {} => call[h] = "ready"

\* A job belongs to one handle and is in one place: in the driver's queue,
\* finished, or in the callback.
JobsApart ==
    /\ \A h \in Handles :
          queued[h] \cap done[h] = {} /\ cur[h] \notin Owed(h)
    /\ \A g, h \in Handles :
          g # h => /\ Owed(g) \cap (Owed(h) \cup {cur[h]}) = {}
                   /\ cur[g] = NoJob \/ cur[g] # cur[h]

IInv ==
    /\ TypeOK
    /\ \A h \in Handles : Resources(h) /\ JobsOnlyInSession(h)
    /\ JobsApart

-----------------------------------------------------------------------------

\* Before the first vspm_init_driver there is nothing at all.
LEMMA InitIInv == Init => IInv
BY ApiAssumption DEF Init, IInv, TypeOK, Resources, JobsOnlyInSession,
   JobsApart, Owed, Pcs, InitPcs, QuitPcs, ThreadPcs, FdPcs, ThrPcs

\* The steps of vspm_init_driver touch resources only.
LEMMA InitStepIInv ==
    ASSUME IInv, NEW h \in Handles, Malloc(h) \/ InitStep(h)
    PROVE  IInv'
<1> USE ApiAssumption DEF IInv, TypeOK, Pcs, InitPcs, QuitPcs, ThreadPcs,
        FdPcs, ThrPcs, Resources, JobsOnlyInSession, JobsApart, Owed,
        Goto, Move, ctlVars, thrVars, drvVars
<1>1. CASE Malloc(h)
  BY <1>1 DEF Malloc
<1>2. CASE OpenDevice(h)
  BY <1>2 DEF OpenDevice
<1>3. CASE OpenFails(h)
  BY <1>3 DEF OpenFails
<1>4. CASE InitIoctl(h)
  BY <1>4 DEF InitIoctl
<1>5. CASE InitIoctlFails(h)
  BY <1>5 DEF InitIoctlFails
<1>6. CASE CreateThread(h)
  BY <1>6 DEF CreateThread
<1>7. CASE CreateThreadFails(h)
  BY <1>7 DEF CreateThreadFails
<1>8. CASE WaitThread(h)
  BY <1>8 DEF WaitThread
<1>9. CASE WaitThreadFails(h)
  <2>1. stop' \in [Handles -> BOOLEAN]
    BY <1>9 DEF WaitThreadFails
  <2>2. /\ call[h] = "wait_thread"
        /\ call' = [call EXCEPT ![h] = "err_exit4"]
        /\ UNCHANGED <<mem, fd, thr, cur, queued, done, entering>>
    BY <1>9 DEF WaitThreadFails
  <2>3. TypeOK'
    BY <2>1, <2>2
  <2>4. \A g \in Handles : Resources(g)' /\ JobsOnlyInSession(g)'
    BY <2>2
  <2>5. JobsApart'
    BY <2>2
  <2> QED
    BY <2>3, <2>4, <2>5
<1>10. CASE UnwindJoin(h)
  BY <1>10 DEF UnwindJoin
<1>11. CASE UnwindClose(h)
  BY <1>11 DEF UnwindClose
<1>12. CASE UnwindFree(h)
  BY <1>12 DEF UnwindFree
<1>13. QED
  BY <1>1, <1>2, <1>3, <1>4, <1>5, <1>6, <1>7, <1>8, <1>9, <1>10,
     <1>11, <1>12 DEF InitStep

\* The steps of vspm_quit_driver; once quit has begun no entry call is open.
LEMMA QuitStepIInv ==
    ASSUME IInv, NEW h \in Handles, QuitIoctl(h) \/ QuitStep(h)
    PROVE  IInv'
<1> USE ApiAssumption DEF IInv, TypeOK, Pcs, InitPcs, QuitPcs, ThreadPcs,
        FdPcs, ThrPcs, Resources, JobsOnlyInSession, JobsApart, Owed,
        Goto, Move, ctlVars, thrVars, drvVars
<1>1. CASE QuitIoctl(h)
  BY <1>1 DEF QuitIoctl
<1>2. CASE StopThread(h)
  BY <1>2 DEF StopThread
<1>3. CASE StopThreadFails(h)
  BY <1>3 DEF StopThreadFails
<1>4. CASE JoinThread(h)
  BY <1>4 DEF JoinThread
<1>5. CASE JoinThreadFails(h)
  BY <1>5 DEF JoinThreadFails
<1>6. CASE CloseDevice(h)
  BY <1>6 DEF CloseDevice, Close
<1>7. CASE CloseFails(h)
  BY <1>7 DEF CloseFails, Close
<1>8. CASE FreeHandle(h)
  BY <1>8 DEF FreeHandle
<1>9. QED
  BY <1>1, <1>2, <1>3, <1>4, <1>5, <1>6, <1>7, <1>8 DEF QuitStep

\* The steps of vspm_cb_thread.
LEMMA ThreadStepIInv ==
    ASSUME IInv, NEW h \in Handles, ThreadStep(h)
    PROVE  IInv'
<1> USE ApiAssumption DEF IInv, TypeOK, Pcs, InitPcs, QuitPcs, ThreadPcs,
        FdPcs, ThrPcs, Resources, JobsOnlyInSession, JobsApart, Owed,
        Goto, Move, ctlVars, thrVars, drvVars
<1>1. CASE ThreadWaits(h)
  BY <1>1 DEF ThreadWaits
<1>2. CASE ThreadInterrupted(h)
  BY <1>2 DEF ThreadInterrupted
<1>3. CASE ThreadStops(h)
  BY <1>3 DEF ThreadStops
<1>4. CASE ThreadReturns(h)
  BY <1>4 DEF ThreadReturns
<1>5. ASSUME NEW j \in Jobs, ThreadCalls(h, j)
     PROVE  IInv'
  BY <1>5 DEF ThreadCalls
<1>6. QED
  BY <1>1, <1>2, <1>3, <1>4, <1>5 DEF ThreadStep

\* A job enters, leaves or moves within the driver.
LEMMA JobStepIInv ==
    ASSUME IInv, NEW h \in Handles, NEW j \in Jobs, JobStep(h, j)
    PROVE  IInv'
<1> USE ApiAssumption DEF IInv, TypeOK, Pcs, InitPcs, QuitPcs, ThreadPcs,
        FdPcs, ThrPcs, Resources, JobsOnlyInSession, JobsApart, Owed,
        Goto, Move, ctlVars, thrVars, drvVars
<1>1. CASE EntryIoctl(h, j)
  BY <1>1 DEF EntryIoctl, InUse
<1>2. CASE EntryStore(h, j)
  BY <1>2 DEF EntryStore
<1>3. CASE CancelJob(h, j)
  BY <1>3 DEF CancelJob
<1>4. CASE JobFinishes(h, j)
  BY <1>4 DEF JobFinishes
<1>5. QED
  BY <1>1, <1>2, <1>3, <1>4 DEF JobStep

\* No step of a client, of the callback thread or of the driver breaks it.
LEMMA NextIInv == IInv /\ [Next]_vars => IInv'
<1> SUFFICES ASSUME IInv, [Next]_vars
             PROVE  IInv'
  OBVIOUS
<1>1. CASE Next
  BY <1>1, InitStepIInv, QuitStepIInv, ThreadStepIInv, JobStepIInv DEF Next
<1>2. CASE UNCHANGED vars
  BY <1>2 DEF vars, IInv, TypeOK, Resources, JobsOnlyInSession, JobsApart,
     Owed
<1>3. QED BY <1>1, <1>2

\* The inductive invariant holds of vspm_api.c for every set of handles and
\* jobs, whichever calls fail.
THEOREM Invariance == Spec => []IInv
BY InitIInv, NextIInv, PTL DEF Spec

-----------------------------------------------------------------------------

\* The types hold, and cb_info holds a job exactly while its callback runs.
THEOREM TypeCorrect == Spec => []TypeOK
<1>1. IInv => TypeOK BY DEF IInv
<1>2. QED BY <1>1, Invariance, PTL

\* vspm_cb_thread never turns its loop on a freed handle or on a closed
\* descriptor, whichever calls of init and quit fail.
THEOREM HandleSafety == Spec => []HandleOutlivesThread
<1>1. IInv => HandleOutlivesThread
  BY DEF IInv, HandleOutlivesThread, Resources, FdPcs, ThrPcs
<1>2. QED BY <1>1, Invariance, PTL

\* A client left without a handle has left nothing behind.
THEOREM CleanFailure == Spec => []NothingLeftBehind
<1>1. IInv => NothingLeftBehind
  BY DEF IInv, NothingLeftBehind, Resources, JobsOnlyInSession, FdPcs, ThrPcs
<1>2. QED BY <1>1, Invariance, PTL

\* pthread_join is called for a thread that exists and is not joined yet.
THEOREM JoinSafety == Spec => []JoinsLiveThread
<1>1. IInv => JoinsLiveThread
  BY DEF IInv, JoinsLiveThread, Resources, ThrPcs
<1>2. QED BY <1>1, Invariance, PTL

-----------------------------------------------------------------------------
(* VspmApi implements VspmService.  Most steps do not show; of the others  *)
(* each lemma names the step of the service it is.                         *)

SessionBar == [h \in Handles |-> SessionOf(call[h])]
OwedBar == [h \in Handles |-> Owed(h)]
Hidden == UNCHANGED <<SessionBar, OwedBar, cur>>

\* What the client may do at each place of init and quit.
LEMMA SessionOfPcs ==
    /\ \A pc \in InitPcs \cup {"none"} : SessionOf(pc) = "down"
    /\ \A pc \in QuitPcs : SessionOf(pc) = "quitting"
    /\ SessionOf("ready") = "up" /\ SessionOf("stuck") = "failed"
BY DEF SessionOf, InitPcs, QuitPcs

\* How the refinement mapping moves when one handle moves.
LEMMA SessionMoves ==
    ASSUME TypeOK, NEW h \in Handles, NEW pc,
           call' = [call EXCEPT ![h] = pc]
    PROVE  SessionBar' = [SessionBar EXCEPT ![h] = SessionOf(pc)]
BY DEF TypeOK, SessionBar

\* ... and how it rests when none does.
LEMMA SessionStays ==
    ASSUME call' = call
    PROVE  SessionBar' = SessionBar
BY DEF SessionBar

\* The same for the jobs the driver owes: one handle's set changes ...
LEMMA OwedMoves ==
    ASSUME NEW h \in Handles, NEW O,
           Owed(h)' = O, \A g \in Handles \ {h} : Owed(g)' = Owed(g)
    PROVE  OwedBar' = [OwedBar EXCEPT ![h] = O]
BY DEF OwedBar

\* ... or none does.
LEMMA OwedStays ==
    ASSUME \A g \in Handles : Owed(g)' = Owed(g)
    PROVE  OwedBar' = OwedBar
BY DEF OwedBar

\* The initial states of vspm_api.c are initial states of the service.
LEMMA InitRefines == Init => Service!SvcInit
<1> SUFFICES ASSUME Init PROVE Service!SvcInit
  OBVIOUS
<1>1. \A h \in Handles : SessionOf(call[h]) = "down" /\ Owed(h) = {}
  BY SessionOfPcs DEF Init, Owed
<1>2. cur = [h \in Handles |-> NoJob]
  BY DEF Init
<1>3. QED BY <1>1, <1>2 DEF Service!SvcInit

\* vspm_init_driver does not show before it succeeds.
LEMMA InitHidden ==
    ASSUME IInv, NEW h \in Handles, Malloc(h) \/ InitStep(h), ~WaitThread(h)
    PROVE  Hidden
<1>1. PICK pc \in InitPcs \cup {"none"} : call' = [call EXCEPT ![h] = pc]
  BY DEF Malloc, InitStep, OpenDevice, OpenFails, InitIoctl, InitIoctlFails,
     CreateThread, CreateThreadFails, WaitThreadFails, UnwindJoin,
     UnwindClose, UnwindFree, Goto, Move, InitPcs
<1>2. call[h] \in InitPcs \cup {"none"}
  BY DEF Malloc, InitStep, OpenDevice, OpenFails, InitIoctl, InitIoctlFails,
     CreateThread, CreateThreadFails, WaitThreadFails, UnwindJoin,
     UnwindClose, UnwindFree, Goto, Move, InitPcs
<1>3. UNCHANGED <<queued, done, cur>>
  BY DEF Malloc, InitStep, OpenDevice, OpenFails, InitIoctl, InitIoctlFails,
     CreateThread, CreateThreadFails, WaitThreadFails, UnwindJoin,
     UnwindClose, UnwindFree, Move, thrVars, drvVars
<1>4. SessionBar' = SessionBar
  BY <1>1, <1>2, SessionOfPcs DEF SessionBar, IInv, TypeOK
<1>5. OwedBar' = OwedBar
  BY <1>3 DEF OwedBar, Owed
<1>6. QED BY <1>3, <1>4, <1>5 DEF Hidden

\* Stopping and joining the thread do not show.
LEMMA QuitHidden ==
    ASSUME IInv, NEW h \in Handles, StopThread(h) \/ JoinThread(h)
    PROVE  Hidden
<1>1. /\ call[h] \in QuitPcs
      /\ \E pc \in QuitPcs : call' = [call EXCEPT ![h] = pc]
  BY DEF StopThread, JoinThread, Goto, Move, QuitPcs
<1>2. UNCHANGED <<queued, done, cur>>
  BY DEF StopThread, JoinThread, thrVars, drvVars
<1>3. SessionBar' = SessionBar
  BY <1>1, SessionOfPcs DEF SessionBar, IInv, TypeOK
<1>4. OwedBar' = OwedBar
  BY <1>2 DEF OwedBar, Owed
<1>5. QED BY <1>2, <1>3, <1>4 DEF Hidden

\* The loop of vspm_cb_thread shows only where it calls the callback.
LEMMA ThreadHidden ==
    ASSUME NEW h, ThreadWaits(h) \/ ThreadInterrupted(h) \/ ThreadStops(h)
    PROVE  Hidden
BY SessionStays, OwedStays
   DEF ThreadWaits, ThreadInterrupted, ThreadStops, Hidden, Owed, ctlVars,
       drvVars

\* Storing *job_id and finishing a job do not show.
LEMMA JobHidden ==
    ASSUME IInv, NEW h \in Handles, NEW j \in Jobs,
           EntryStore(h, j) \/ JobFinishes(h, j)
    PROVE  Hidden
<1>1. \A g \in Handles : Owed(g)' = Owed(g)
  BY DEF EntryStore, JobFinishes, IInv, TypeOK, Owed, drvVars
<1>2. QED
  BY <1>1, SessionStays, OwedStays
     DEF EntryStore, JobFinishes, Hidden, ctlVars, thrVars

\* vspm_init_driver succeeds: the WAIT_THREAD ioctl is answered.
LEMMA InitDone ==
    ASSUME IInv, NEW h \in Handles, WaitThread(h)
    PROVE  Service!SvcInitDriver(h)
<1>1. /\ SessionBar[h] = "down"
      /\ SessionBar' = [SessionBar EXCEPT ![h] = "up"]
  <2>1. call[h] = "wait_thread" /\ call' = [call EXCEPT ![h] = "ready"]
    BY DEF WaitThread, Move, Goto
  <2>2. SessionBar' = [SessionBar EXCEPT ![h] = SessionOf("ready")]
    BY <2>1, SessionMoves DEF IInv
  <2>3. SessionBar[h] = "down"
    BY <2>1, SessionOfPcs DEF SessionBar, InitPcs
  <2>4. QED BY <2>2, <2>3, SessionOfPcs
<1>2. OwedBar' = OwedBar /\ cur' = cur
  BY OwedStays DEF WaitThread, Move, Owed, thrVars, drvVars
<1>3. QED BY <1>1, <1>2 DEF Service!SvcInitDriver, SessionBar, OwedBar

\* VSPM_IOC_CMD_QUIT begins the end of the session.
LEMMA QuitBegins ==
    ASSUME IInv, NEW h \in Handles, QuitIoctl(h)
    PROVE  \E D \in SUBSET Owed(h) : Service!SvcStartQuit(h, D)
<1>1. PICK D \in SUBSET Owed(h) :
          /\ queued' = [queued EXCEPT ![h] = @ \ D]
          /\ done' = [done EXCEPT ![h] = @ \ D]
  BY DEF QuitIoctl
<1>2. /\ SessionBar[h] \in {"up", "failed"}
      /\ SessionBar' = [SessionBar EXCEPT ![h] = "quitting"]
  <2>1. SessionBar' = [SessionBar EXCEPT ![h] = SessionOf("stop")]
    BY SessionMoves DEF QuitIoctl, IInv
  <2>2. SessionBar[h] \in {"up", "failed"}
    BY SessionOfPcs DEF QuitIoctl, SessionBar
  <2>3. QED BY <2>1, <2>2, SessionOfPcs DEF QuitPcs
<1>3. /\ Owed(h)' = Owed(h) \ D
      /\ \A g \in Handles \ {h} : Owed(g)' = Owed(g)
  BY <1>1 DEF IInv, TypeOK, Owed
<1>4. OwedBar' = [OwedBar EXCEPT ![h] = @ \ D]
  BY <1>3, OwedMoves DEF OwedBar
<1>5. cur' = cur
  BY DEF QuitIoctl, thrVars
<1>6. Service!SvcStartQuit(h, D)
  BY <1>2, <1>4, <1>5 DEF Service!SvcStartQuit, SessionBar, OwedBar
<1>7. QED BY <1>6

\* Each failure of vspm_quit_driver past its first ioctl is the service's.
LEMMA QuitFailures ==
    ASSUME IInv, NEW h \in Handles,
           StopThreadFails(h) \/ JoinThreadFails(h) \/ CloseFails(h)
    PROVE  \E D \in SUBSET Owed(h) : Service!SvcQuitFails(h, D)
<1>1. /\ SessionBar[h] = "quitting"
      /\ SessionBar' = [SessionBar EXCEPT ![h] = "failed"]
  BY SessionMoves, SessionOfPcs
     DEF StopThreadFails, JoinThreadFails, CloseFails, Close, Goto, Move,
         SessionBar, IInv, QuitPcs
<1>2. cur' = cur
  BY DEF StopThreadFails, JoinThreadFails, CloseFails, Close, Move, thrVars
<1>3. PICK D \in SUBSET Owed(h) :
          /\ Owed(h)' = Owed(h) \ D
          /\ \A g \in Handles \ {h} : Owed(g)' = Owed(g)
  <2>1. CASE StopThreadFails(h) \/ JoinThreadFails(h)
    <3>1. \A g \in Handles : Owed(g)' = Owed(g)
      BY <2>1 DEF StopThreadFails, JoinThreadFails, Move, Owed, drvVars
    <3>2. WITNESS {} \in SUBSET Owed(h)
    <3>3. QED BY <3>1
  <2>2. CASE CloseFails(h)
    <3>1. Owed(h)' = {} /\ \A g \in Handles \ {h} : Owed(g)' = Owed(g)
      BY <2>2 DEF CloseFails, Close, IInv, TypeOK, Owed
    <3>2. WITNESS Owed(h) \in SUBSET Owed(h)
    <3>3. QED BY <3>1
  <2>3. QED BY <2>1, <2>2
<1>4. OwedBar' = [OwedBar EXCEPT ![h] = @ \ D]
  BY <1>3, OwedMoves DEF OwedBar
<1>5. Service!SvcQuitFails(h, D)
  BY <1>1, <1>2, <1>4 DEF Service!SvcQuitFails, SessionBar, OwedBar
<1>6. QED BY <1>5

\* Closing the descriptor drops what the driver still owed.
LEMMA CloseDrops ==
    ASSUME IInv, NEW h \in Handles, CloseDevice(h)
    PROVE  Service!SvcDropJobs(h, Owed(h))
<1>1. /\ SessionBar' = [SessionBar EXCEPT ![h] = "quitting"]
      /\ SessionBar[h] = "quitting"
  BY SessionMoves, SessionOfPcs
     DEF CloseDevice, Close, Goto, Move, SessionBar, IInv, QuitPcs
<1>2. SessionBar' = SessionBar
  BY <1>1 DEF SessionBar
<1>3. Owed(h)' = {} /\ \A g \in Handles \ {h} : Owed(g)' = Owed(g)
  BY DEF CloseDevice, Close, IInv, TypeOK, Owed
<1>4. OwedBar' = [OwedBar EXCEPT ![h] = @ \ Owed(h)]
  BY <1>3, OwedMoves DEF OwedBar
<1>5. QED
  BY <1>2, <1>4 DEF CloseDevice, Close, Service!SvcDropJobs, SessionBar,
     OwedBar, thrVars

\* The thread was joined and the device closed before the handle is freed,
\* so nothing is owed and no callback executes.
LEMMA QuitEnds ==
    ASSUME IInv, NEW h \in Handles, FreeHandle(h)
    PROVE  Service!SvcQuitDone(h)
<1>1. call[h] = "free" /\ call' = [call EXCEPT ![h] = "none"]
  BY DEF FreeHandle, Goto
<1>2. SessionBar[h] = "quitting"
  BY <1>1, SessionOfPcs DEF SessionBar, QuitPcs
<1>3. SessionBar' = [SessionBar EXCEPT ![h] = "down"]
  <2>1. SessionBar' = [SessionBar EXCEPT ![h] = SessionOf("none")]
    BY <1>1, SessionMoves DEF IInv
  <2>2. QED BY <2>1, SessionOfPcs
<1>4. Owed(h) = {} /\ cur[h] = NoJob
  BY <1>1 DEF IInv, JobsOnlyInSession
<1>5. OwedBar' = OwedBar /\ cur' = cur
  BY OwedStays DEF FreeHandle, Owed, thrVars, drvVars
<1>6. QED
  BY <1>2, <1>3, <1>4, <1>5 DEF Service!SvcQuitDone, SessionBar, OwedBar

\* A callback begins only in a session: a job is owed only there.
LEMMA CallbackBegins ==
    ASSUME IInv, NEW h \in Handles, NEW j \in Jobs, ThreadCalls(h, j)
    PROVE  Service!SvcBeginCallback(h, j)
<1>1. j \in Owed(h) /\ j \notin queued[h]
  BY DEF ThreadCalls, IInv, JobsApart, Owed
<1>2. SessionBar[h] # "down"
  <2>1. call[h] \in {"ready", "stop", "join", "close", "stuck"}
    BY <1>1 DEF IInv, JobsOnlyInSession
  <2>2. QED BY <2>1, SessionOfPcs DEF SessionBar, QuitPcs
<1>3. SessionBar' = SessionBar
  BY SessionStays DEF ThreadCalls, ctlVars
<1>4. /\ Owed(h)' = Owed(h) \ {j}
      /\ \A g \in Handles \ {h} : Owed(g)' = Owed(g)
  BY <1>1 DEF ThreadCalls, IInv, TypeOK, Owed
<1>5. OwedBar' = [OwedBar EXCEPT ![h] = @ \ {j}]
  BY <1>4, OwedMoves DEF OwedBar
<1>6. cur[h] = NoJob /\ cur' = [cur EXCEPT ![h] = j]
  BY DEF ThreadCalls, IInv, TypeOK
<1>7. QED
  BY <1>1, <1>2, <1>3, <1>5, <1>6
     DEF Service!SvcBeginCallback, SessionBar, OwedBar

\* The return of cb_func is the end of the service's callback.
LEMMA CallbackEnds ==
    ASSUME IInv, NEW h \in Handles, ThreadReturns(h)
    PROVE  Service!SvcEndCallback(h)
<1>1. SessionBar' = SessionBar /\ OwedBar' = OwedBar
  BY SessionStays, OwedStays DEF ThreadReturns, Owed, ctlVars, drvVars
<1>2. cur[h] # NoJob /\ cur' = [cur EXCEPT ![h] = NoJob]
  BY DEF ThreadReturns, IInv, TypeOK
<1>3. QED BY <1>1, <1>2 DEF Service!SvcEndCallback, SessionBar, OwedBar

\* VSPM_IOC_CMD_ENTRY is the service's acceptance of the job.
LEMMA JobEntered ==
    ASSUME IInv, NEW h \in Handles, NEW j \in Jobs, EntryIoctl(h, j)
    PROVE  Service!SvcEntryJob(h, j)
<1>1. \A g \in Handles : j \notin Owed(g) /\ j # cur[g]
  BY DEF EntryIoctl, InUse
<1>2. j \notin Service!Known
  BY <1>1 DEF Service!Known
<1>3. SessionBar[h] = "up" /\ SessionBar' = SessionBar
  BY SessionStays, SessionOfPcs DEF EntryIoctl, SessionBar, ctlVars
<1>4. /\ Owed(h)' = Owed(h) \cup {j}
      /\ \A g \in Handles \ {h} : Owed(g)' = Owed(g)
  BY DEF EntryIoctl, IInv, TypeOK, Owed
<1>5. OwedBar' = [OwedBar EXCEPT ![h] = @ \cup {j}]
  BY <1>4, OwedMoves DEF OwedBar
<1>6. cur' = cur
  BY DEF EntryIoctl, thrVars
<1>7. QED
  BY <1>2, <1>3, <1>5, <1>6 DEF Service!SvcEntryJob, SessionBar, OwedBar

\* A cancelled job is dropped, or stays owed if the driver will report it.
LEMMA JobCancelled ==
    ASSUME IInv, NEW h \in Handles, NEW j \in Jobs, CancelJob(h, j)
    PROVE  \E D \in SUBSET Owed(h) : Service!SvcDropJobs(h, D)
<1>1. SessionBar' = SessionBar /\ cur' = cur
  BY SessionStays DEF CancelJob, ctlVars, thrVars
<1>2. PICK D \in SUBSET Owed(h) :
          /\ Owed(h)' = Owed(h) \ D
          /\ \A g \in Handles \ {h} : Owed(g)' = Owed(g)
  <2>1. CASE done' = done
    <3>1. /\ Owed(h)' = Owed(h) \ {j}
          /\ \A g \in Handles \ {h} : Owed(g)' = Owed(g)
      BY <2>1 DEF CancelJob, IInv, TypeOK, JobsApart, Owed
    <3>2. {j} \subseteq Owed(h)
      BY DEF CancelJob, Owed
    <3>3. QED BY <3>1, <3>2
  <2>2. CASE done' = [done EXCEPT ![h] = @ \cup {j}]
    <3>1. \A g \in Handles : Owed(g)' = Owed(g)
      BY <2>2 DEF CancelJob, IInv, TypeOK, Owed
    <3>2. WITNESS {} \in SUBSET Owed(h)
    <3>3. QED BY <3>1
  <2>3. QED BY <2>1, <2>2 DEF CancelJob
<1>3. OwedBar' = [OwedBar EXCEPT ![h] = @ \ D]
  BY <1>2, OwedMoves DEF OwedBar
<1>4. Service!SvcDropJobs(h, D)
  BY <1>1, <1>3 DEF Service!SvcDropJobs, SessionBar, OwedBar
<1>5. QED BY <1>4

\* Every step is a step of the service or does not show.
LEMMA NextRefines ==
    IInv /\ [Next]_vars => [Service!SvcNext]_(Service!svcVars)
<1> SUFFICES ASSUME IInv, [Next]_vars
             PROVE  Service!SvcNext \/ Hidden
  BY DEF Service!svcVars, Hidden, SessionBar, OwedBar
<1>1. ASSUME NEW h \in Handles, Malloc(h) \/ InitStep(h)
      PROVE  Service!SvcNext \/ Hidden
  BY <1>1, InitHidden, InitDone DEF Service!SvcNext
<1>2. ASSUME NEW h \in Handles, QuitIoctl(h) \/ QuitStep(h)
      PROVE  Service!SvcNext \/ Hidden
  <2>1. CASE QuitIoctl(h)
    BY <2>1, QuitBegins DEF Service!SvcNext
  <2>2. CASE StopThread(h) \/ JoinThread(h)
    BY <2>2, QuitHidden
  <2>3. CASE StopThreadFails(h) \/ JoinThreadFails(h) \/ CloseFails(h)
    BY <2>3, QuitFailures DEF Service!SvcNext
  <2>4. CASE CloseDevice(h)
    BY <2>4, CloseDrops DEF Service!SvcNext
  <2>5. CASE FreeHandle(h)
    BY <2>5, QuitEnds DEF Service!SvcNext
  <2>6. QED BY <1>2, <2>1, <2>2, <2>3, <2>4, <2>5 DEF QuitStep
<1>3. ASSUME NEW h \in Handles, ThreadStep(h)
      PROVE  Service!SvcNext \/ Hidden
  <2>1. CASE ThreadWaits(h) \/ ThreadInterrupted(h) \/ ThreadStops(h)
    BY <2>1, ThreadHidden
  <2>2. CASE ThreadReturns(h)
    BY <2>2, CallbackEnds DEF Service!SvcNext
  <2>3. ASSUME NEW j \in Jobs, ThreadCalls(h, j)
        PROVE  Service!SvcNext \/ Hidden
    BY <2>3, CallbackBegins DEF Service!SvcNext
  <2>4. QED BY <1>3, <2>1, <2>2, <2>3 DEF ThreadStep
<1>4. ASSUME NEW h \in Handles, NEW j \in Jobs, JobStep(h, j)
      PROVE  Service!SvcNext \/ Hidden
  <2>1. CASE EntryIoctl(h, j)
    BY <2>1, JobEntered DEF Service!SvcNext
  <2>2. CASE EntryStore(h, j) \/ JobFinishes(h, j)
    BY <2>2, JobHidden
  <2>3. CASE CancelJob(h, j)
    BY <2>3, JobCancelled DEF Service!SvcNext
  <2>4. QED BY <1>4, <2>1, <2>2, <2>3 DEF JobStep
<1>5. CASE UNCHANGED vars
  BY <1>5, SessionStays, OwedStays DEF vars, Hidden, Owed
<1>6. QED BY <1>1, <1>2, <1>3, <1>4, <1>5 DEF Next

\* vspm_api.c, with any number of handles and jobs and whichever of its
\* system calls fail, provides the service vspm_public.h describes.
THEOREM Refinement == Spec => ServiceSpec
BY Invariance, InitRefines, NextRefines, PTL
   DEF Spec, ServiceSpec, Service!SvcSpec
=============================================================================
