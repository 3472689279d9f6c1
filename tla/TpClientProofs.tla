--------------------------- MODULE TpClientProofs ---------------------------
(***************************************************************************)
(* Proofs about TpClient, for any set of programs and of job identifiers:  *)
(* what main and the callback thread know of each other, and the memory    *)
(* and images of the jobs.  IInv says that a program never has two jobs    *)
(* with the driver, and where main can be while it has one; MInv, what is  *)
(* allocated and which images are finished then.                           *)
(***************************************************************************)
EXTENDS TpClient, FiniteSetTheorems, SequenceTheorems, TLAPS

ClientTypeOK ==
    /\ SvcTypeOK
    /\ prog \in AllPrograms /\ pc \in Pcs
    /\ cb_info \in {"none", "live", "freed"}
    /\ early \in BOOLEAN
    /\ ercd \in {"OK", "init", "entry", "quit"}

\* The driver has one job at most, and does not execute it twice.
OneJob ==
    /\ \A j, k \in owed[Hdl] : j = k
    /\ running[Hdl] # NoJob => owed[Hdl] = {}

\* Where main is with its session: none before vspm_init_driver, none after a
\* vspm_quit_driver that has succeeded.
Session ==
    /\ pc \in {"alloc", "init", "show_last"} => session[Hdl] = "down"
    /\ session[Hdl] = "quitting" => pc \in {"quit", "err_quit"}
    /\ pc \in {"init", "params"} => n = 1
    /\ pc = "params" => ~Sample
    /\ pc \in {"release", "exit", "done"} /\ session[Hdl] # "down" =>
          \/ ercd = "quit"
          \/ ~Sample /\ n = 1
    /\ Busy => session[Hdl] # "down"

WaitPcs == {"wait", "waiting", "check", "check_id"}

\* A sample that has a job is in the wait for its callback, with the block the
\* callback fills in, or has given up after an early wake.
SampleWaits ==
    Sample =>
        /\ pc \in WaitPcs => cb_info = "live" /\ job_id # NoJob
        /\ Busy =>
              \/ pc \in {"wait", "waiting"} /\ got_id = NoJob
              \/ early /\ pc \in {"check", "check_id"} /\ got_id = NoJob
              \/ early /\ pc \in {"err_exit2", "err_quit", "release", "exit",
                                  "done"}
        /\ pc = "entry" => got_id = NoJob /\ cb_info = "live"
        /\ pc \in {"quit", "show_last"} => ~Busy

\* The callback main waits for is still to come, executes, or has posted.
FrameDue == pc = "wait" /\ ercd = "OK"

FrameWaits ==
    ~Sample =>
        IF FrameDue
        THEN \/ sem = 1 /\ ~Busy
             \/ sem = 0 /\ owed[Hdl] = {} /\ running[Hdl] # NoJob
             \/ sem = 0 /\ owed[Hdl] # {} /\ running[Hdl] = NoJob
        ELSE sem = 0 /\ ~Busy

IInv ==
    /\ ClientTypeOK
    /\ OneJob
    /\ Session
    /\ SampleWaits
    /\ FrameWaits

-----------------------------------------------------------------------------

\* A program starts without a session and without a job.
LEMMA InitIInv == Init => IInv
BY ClientAssumption
   DEF Init, SvcInit, IInv, ClientTypeOK, SvcTypeOK, Pcs, OneJob, Session,
       SampleWaits, WaitPcs, FrameWaits, FrameDue, Sample, Busy, AllPrograms

\* The steps before the first test, and those that are not of main.
StartStep ==
    AllocateStep \/ InitDriver \/ InitDriverFails \/ MakeStartParameter

CallbackStep ==
    Reports \/ CallbackEnds \/ DriverDrops \/ WakesEarly \/ UNCHANGED vars

\* Before the first job nothing is with the driver.
LEMMA StartStepIInv ==
    ASSUME IInv, StartStep
    PROVE  IInv'
<1> USE ClientAssumption, ServiceAssumption
    DEF IInv, ClientTypeOK, SvcTypeOK, Pcs, OneJob, Session, SampleWaits,
        WaitPcs, FrameWaits, FrameDue, Sample, Busy, AllPrograms, Goto,
        svcVars, allocVars, testVars
<1>1. CASE AllocateStep
  <2>1. ClientTypeOK'
    BY <1>1 DEF AllocateStep, Allocate, AllocateWarns, AllocateFails,
           Allocated
  <2>2. OneJob'
    BY <1>1 DEF AllocateStep, Allocate, AllocateWarns, AllocateFails,
           Allocated
  <2>3. Session'
    BY <1>1 DEF AllocateStep, Allocate, AllocateWarns, AllocateFails,
           Allocated
  <2>4. SampleWaits'
    BY <1>1 DEF AllocateStep, Allocate, AllocateWarns, AllocateFails,
           Allocated
  <2>5. FrameWaits'
    BY <1>1 DEF AllocateStep, Allocate, AllocateWarns, AllocateFails,
           Allocated
  <2> QED
    BY <2>1, <2>2, <2>3, <2>4, <2>5 DEF IInv
<1>2. CASE InitDriver
  <2>1. ClientTypeOK'
    BY <1>2 DEF InitDriver, SvcInitDriver
  <2>2. OneJob'
    BY <1>2 DEF InitDriver, SvcInitDriver
  <2>3. Session'
    BY <1>2 DEF InitDriver, SvcInitDriver
  <2>4. SampleWaits'
    BY <1>2 DEF InitDriver, SvcInitDriver
  <2>5. FrameWaits'
    BY <1>2 DEF InitDriver, SvcInitDriver
  <2> QED
    BY <2>1, <2>2, <2>3, <2>4, <2>5 DEF IInv
<1>3. CASE InitDriverFails \/ MakeStartParameter
  <2>1. ClientTypeOK'
    BY <1>3 DEF InitDriverFails, MakeStartParameter
  <2>2. OneJob'
    BY <1>3 DEF InitDriverFails, MakeStartParameter
  <2>3. Session'
    BY <1>3 DEF InitDriverFails, MakeStartParameter
  <2>4. SampleWaits'
    BY <1>3 DEF InitDriverFails, MakeStartParameter
  <2>5. FrameWaits'
    BY <1>3 DEF InitDriverFails, MakeStartParameter
  <2> QED
    BY <2>1, <2>2, <2>3, <2>4, <2>5 DEF IInv
<1> QED
  BY <1>1, <1>2, <1>3 DEF StartStep

\* A test, and a frame, has its one job between Entry and the end of the wait.
LEMMA TestStepIInv ==
    ASSUME IInv, TestStep \/ FrameStep \/ Show
    PROVE  IInv'
<1> USE ClientAssumption, ServiceAssumption
    DEF IInv, ClientTypeOK, SvcTypeOK, Pcs, OneJob, Session, SampleWaits,
        WaitPcs, FrameWaits, FrameDue, Sample, Busy, AllPrograms, Goto,
        svcVars, allocVars, testVars
<1>1. CASE TestBegin \/ TestBeginFails \/ FrameBegin
  <2>1. ClientTypeOK'
    BY <1>1 DEF TestBegin, TestBeginFails, FrameBegin
  <2>2. OneJob'
    BY <1>1 DEF TestBegin, TestBeginFails, FrameBegin
  <2>3. Session'
    BY <1>1 DEF TestBegin, TestBeginFails, FrameBegin
  <2>4. SampleWaits'
    BY <1>1 DEF TestBegin, TestBeginFails, FrameBegin
  <2>5. FrameWaits'
    BY <1>1 DEF TestBegin, TestBeginFails, FrameBegin
  <2> QED
    BY <2>1, <2>2, <2>3, <2>4, <2>5 DEF IInv
<1>2. ASSUME NEW j \in Jobs, EntryAccepted(j)
     PROVE  IInv'
  <2>1. ClientTypeOK'
    BY <1>2 DEF EntryAccepted, SvcEntryJob
  <2>2. OneJob'
    BY <1>2 DEF EntryAccepted, SvcEntryJob
  <2>3. Session'
    BY <1>2 DEF EntryAccepted, SvcEntryJob
  <2>4. SampleWaits'
    BY <1>2 DEF EntryAccepted, SvcEntryJob
  <2>5. FrameWaits'
    BY <1>2 DEF EntryAccepted, SvcEntryJob
  <2> QED
    BY <2>1, <2>2, <2>3, <2>4, <2>5 DEF IInv
<1>3. CASE EntryRefused \/ FrameRefused
  <2>1. ClientTypeOK'
    BY <1>3 DEF EntryRefused, FrameRefused
  <2>2. OneJob'
    BY <1>3 DEF EntryRefused, FrameRefused
  <2>3. Session'
    BY <1>3 DEF EntryRefused, FrameRefused
  <2>4. SampleWaits'
    BY <1>3 DEF EntryRefused, FrameRefused
  <2>5. FrameWaits'
    BY <1>3 DEF EntryRefused, FrameRefused
  <2> QED
    BY <2>1, <2>2, <2>3, <2>4, <2>5 DEF IInv
<1>4. CASE Wait \/ SemWait \/ Show
  <2>1. ClientTypeOK'
    BY <1>4 DEF Wait, SemWait, Show
  <2>2. OneJob'
    BY <1>4 DEF Wait, SemWait, Show
  <2>3. Session'
    BY <1>4 DEF Wait, SemWait, Show
  <2>4. SampleWaits'
    BY <1>4 DEF Wait, SemWait, Show
  <2>5. FrameWaits'
    BY <1>4 DEF Wait, SemWait, Show
  <2> QED
    BY <2>1, <2>2, <2>3, <2>4, <2>5 DEF IInv
<1>5. CASE CheckErcd
  <2>1. ClientTypeOK'
    BY <1>5 DEF CheckErcd, TestFails
  <2>2. OneJob'
    BY <1>5 DEF CheckErcd, TestFails
  <2>3. Session'
    BY <1>5 DEF CheckErcd, TestFails
  <2>4. SampleWaits'
    BY <1>5 DEF CheckErcd, TestFails
  <2>5. FrameWaits'
    BY <1>5 DEF CheckErcd, TestFails
  <2> QED
    BY <2>1, <2>2, <2>3, <2>4, <2>5 DEF IInv
<1>6. CASE CheckJobId
  <2>1. ClientTypeOK'
    BY <1>6 DEF CheckJobId, TestFails, TestPasses
  <2>2. OneJob'
    BY <1>6 DEF CheckJobId, TestFails, TestPasses
  <2>3. Session'
    BY <1>6 DEF CheckJobId, TestFails, TestPasses
  <2>4. SampleWaits'
    BY <1>6 DEF CheckJobId, TestFails, TestPasses
  <2>5. FrameWaits'
    BY <1>6 DEF CheckJobId, TestFails, TestPasses
  <2> QED
    BY <2>1, <2>2, <2>3, <2>4, <2>5 DEF IInv
<1> QED
  BY <1>1, <1>2, <1>3, <1>4, <1>5, <1>6 DEF TestStep, FrameStep

\* The end of the session, and of the program.
LEMMA QuitStepIInv ==
    ASSUME IInv, QuitStep \/ ShowLast \/ ReleaseMemory \/ Exit
    PROVE  IInv'
<1> USE ClientAssumption, ServiceAssumption
    DEF IInv, ClientTypeOK, SvcTypeOK, Pcs, OneJob, Session, SampleWaits,
        WaitPcs, FrameWaits, FrameDue, Sample, Busy, AllPrograms, Goto,
        svcVars, allocVars, testVars
<1>1. CASE QuitBegin
  <2>1. ClientTypeOK'
    BY <1>1 DEF QuitBegin, SvcStartQuit
  <2>2. OneJob'
    BY <1>1 DEF QuitBegin, SvcStartQuit
  <2>3. Session'
    BY <1>1 DEF QuitBegin, SvcStartQuit
  <2>4. SampleWaits'
    BY <1>1 DEF QuitBegin, SvcStartQuit
  <2>5. FrameWaits'
    BY <1>1 DEF QuitBegin, SvcStartQuit
  <2> QED
    BY <2>1, <2>2, <2>3, <2>4, <2>5 DEF IInv
<1>2. CASE QuitRefused
  <2>1. ClientTypeOK'
    BY <1>2 DEF QuitRefused
  <2>2. OneJob'
    BY <1>2 DEF QuitRefused
  <2>3. Session'
    <3>1. pc \in {"test", "err_exit2"} /\ pc' = "release" /\ ercd' = "quit"
      BY <1>2 DEF QuitRefused
    <3>2. UNCHANGED <<svcVars, prog, n>>
      BY <1>2 DEF QuitRefused
    <3> QED
      BY <3>1, <3>2
  <2>4. SampleWaits'
    BY <1>2 DEF QuitRefused
  <2>5. FrameWaits'
    BY <1>2 DEF QuitRefused
  <2> QED
    BY <2>1, <2>2, <2>3, <2>4, <2>5 DEF IInv
<1>3. CASE QuitDone
  <2>1. ClientTypeOK'
    BY <1>3 DEF QuitDone, SvcQuitDone
  <2>2. OneJob'
    BY <1>3 DEF QuitDone, SvcQuitDone
  <2>3. Session'
    BY <1>3 DEF QuitDone, SvcQuitDone
  <2>4. SampleWaits'
    BY <1>3 DEF QuitDone, SvcQuitDone
  <2>5. FrameWaits'
    BY <1>3 DEF QuitDone, SvcQuitDone
  <2> QED
    BY <2>1, <2>2, <2>3, <2>4, <2>5 DEF IInv
<1>4. CASE QuitFails
  <2>1. ClientTypeOK'
    BY <1>4 DEF QuitFails, SvcQuitFails
  <2>2. OneJob'
    BY <1>4 DEF QuitFails, SvcQuitFails
  <2>3. Session'
    <3>1. pc \in {"quit", "err_quit"} /\ pc' = "release" /\ ercd' = "quit"
      BY <1>4 DEF QuitFails
    <3>2. /\ session' = [session EXCEPT ![Hdl] = "failed"]
          /\ owed'[Hdl] \subseteq owed[Hdl]
          /\ UNCHANGED <<running, prog, n>>
      BY <1>4 DEF QuitFails, SvcQuitFails
    <3> QED
      BY <3>1, <3>2
  <2>4. SampleWaits'
    BY <1>4 DEF QuitFails, SvcQuitFails
  <2>5. FrameWaits'
    BY <1>4 DEF QuitFails, SvcQuitFails
  <2> QED
    BY <2>1, <2>2, <2>3, <2>4, <2>5 DEF IInv
<1>5. CASE ShowLast \/ ReleaseMemory \/ Exit
  <2>1. ClientTypeOK'
    BY <1>5 DEF ShowLast, ReleaseMemory, Exit
  <2>2. OneJob'
    BY <1>5 DEF ShowLast, ReleaseMemory, Exit
  <2>3. Session'
    BY <1>5 DEF ShowLast, ReleaseMemory, Exit
  <2>4. SampleWaits'
    BY <1>5 DEF ShowLast, ReleaseMemory, Exit
  <2>5. FrameWaits'
    BY <1>5 DEF ShowLast, ReleaseMemory, Exit
  <2> QED
    BY <2>1, <2>2, <2>3, <2>4, <2>5 DEF IInv
<1> QED
  BY <1>1, <1>2, <1>3, <1>4, <1>5 DEF QuitStep

\* The callback thread, the driver, and pthread_cond_wait.
LEMMA CallbackStepIInv ==
    ASSUME IInv, CallbackStep
    PROVE  IInv'
<1> USE ClientAssumption, ServiceAssumption
    DEF IInv, ClientTypeOK, SvcTypeOK, Pcs, OneJob, Session, SampleWaits,
        WaitPcs, FrameWaits, FrameDue, Sample, Busy, AllPrograms, Goto,
        svcVars, allocVars, testVars
<1>1. ASSUME NEW j \in Jobs, NEW result \in {"OK", "NG"},
             CallbackBegin(j, result)
     PROVE  IInv'
  <2>1. ClientTypeOK'
    BY <1>1 DEF CallbackBegin, SvcBeginCallback
  <2>2. OneJob'
    BY <1>1 DEF CallbackBegin, SvcBeginCallback
  <2>3. Session'
    BY <1>1 DEF CallbackBegin, SvcBeginCallback
  <2>4. SampleWaits'
    BY <1>1 DEF CallbackBegin, SvcBeginCallback
  <2>5. FrameWaits'
    BY <1>1 DEF CallbackBegin, SvcBeginCallback
  <2> QED
    BY <2>1, <2>2, <2>3, <2>4, <2>5 DEF IInv
<1>2. CASE CallbackSignals
  <2>1. ClientTypeOK'
    BY <1>2 DEF CallbackSignals, SvcEndCallback
  <2>2. OneJob'
    BY <1>2 DEF CallbackSignals, SvcEndCallback
  <2>3. Session'
    BY <1>2 DEF CallbackSignals, SvcEndCallback
  <2>4. SampleWaits'
    BY <1>2 DEF CallbackSignals, SvcEndCallback
  <2>5. FrameWaits'
    BY <1>2 DEF CallbackSignals, SvcEndCallback
  <2> QED
    BY <2>1, <2>2, <2>3, <2>4, <2>5 DEF IInv
<1>3. CASE CallbackPosts
  <2>1. ClientTypeOK'
    BY <1>3 DEF CallbackPosts, SvcEndCallback
  <2>2. OneJob'
    BY <1>3 DEF CallbackPosts, SvcEndCallback
  <2>3. Session'
    BY <1>3 DEF CallbackPosts, SvcEndCallback
  <2>4. SampleWaits'
    BY <1>3 DEF CallbackPosts, SvcEndCallback
  <2>5. FrameWaits'
    BY <1>3 DEF CallbackPosts, SvcEndCallback
  <2> QED
    BY <2>1, <2>2, <2>3, <2>4, <2>5 DEF IInv
<1>4. CASE DriverDrops
  <2>1. ClientTypeOK'
    BY <1>4 DEF DriverDrops, SvcDropJobs
  <2>2. OneJob'
    BY <1>4 DEF DriverDrops, SvcDropJobs
  <2>3. Session'
    BY <1>4 DEF DriverDrops, SvcDropJobs
  <2>4. SampleWaits'
    BY <1>4 DEF DriverDrops, SvcDropJobs
  <2>5. FrameWaits'
    BY <1>4 DEF DriverDrops, SvcDropJobs
  <2> QED
    BY <2>1, <2>2, <2>3, <2>4, <2>5 DEF IInv
<1>5. CASE WakesEarly
  <2>1. ClientTypeOK'
    BY <1>5 DEF WakesEarly
  <2>2. OneJob'
    BY <1>5 DEF WakesEarly
  <2>3. Session'
    BY <1>5 DEF WakesEarly
  <2>4. SampleWaits'
    BY <1>5 DEF WakesEarly
  <2>5. FrameWaits'
    BY <1>5 DEF WakesEarly
  <2> QED
    BY <2>1, <2>2, <2>3, <2>4, <2>5 DEF IInv
<1>6. CASE UNCHANGED vars
  <2>1. ClientTypeOK'
    BY <1>6 DEF vars
  <2>2. OneJob'
    BY <1>6 DEF vars
  <2>3. Session'
    BY <1>6 DEF vars
  <2>4. SampleWaits'
    BY <1>6 DEF vars
  <2>5. FrameWaits'
    BY <1>6 DEF vars
  <2> QED
    BY <2>1, <2>2, <2>3, <2>4, <2>5 DEF IInv
<1> QED
  BY <1>1, <1>2, <1>3, <1>4, <1>5, <1>6 DEF CallbackStep, Reports, CallbackEnds

\* The invariant always holds.
THEOREM Invariance == Spec => []IInv
<1>1. IInv /\ [Next]_vars => IInv'
  BY StartStepIInv, TestStepIInv, QuitStepIInv, CallbackStepIInv
     DEF Next, MainStep, StartStep, CallbackStep
<1>2. QED
  BY <1>1, InitIInv, PTL DEF Spec

-----------------------------------------------------------------------------

\* The callback of a sample always finds its cb_info, unless pthread_cond_wait
\* has returned without a signal.
THEOREM CbInfoSafety == Spec => []CbInfoOutlivesCallback
<1>1. IInv => CbInfoOutlivesCallback
  BY DEF IInv, SampleWaits, WaitPcs, CbInfoOutlivesCallback
<1>2. QED
  BY <1>1, Invariance, PTL

\* No callback of fdpm_tp.c is lost and none counts for the next frame.
THEOREM SemaphoreSafety == Spec => []SemaphoreExact
<1>1. ASSUME IInv, ~Sample PROVE SemaphoreExact
  <2>1. owed[Hdl] = {} \/ \E j \in Jobs : owed[Hdl] = {j}
    BY <1>1, ClientAssumption DEF IInv, OneJob, ClientTypeOK, SvcTypeOK
  <2>2. /\ owed[Hdl] = {} => Cardinality(owed[Hdl]) = 0
        /\ owed[Hdl] # {} => Cardinality(owed[Hdl]) = 1
    BY <2>1, FS_EmptySet, FS_Singleton
  <2> QED
    BY <1>1, <2>1, <2>2 DEF IInv, FrameWaits, FrameDue, Busy, SemaphoreExact
<1>2. IInv => SemaphoreExact
  BY <1>1 DEF SemaphoreExact
<1>3. QED
  BY <1>2, Invariance, PTL

\* No program ends with an open session, unless its last call was a
\* vspm_quit_driver that failed; but fdpm_tp.c after a failure before its first
\* frame.
THEOREM SessionSafety == Spec => []ExitClosesSession
<1>1. IInv => ExitClosesSession
  BY DEF IInv, Session, ExitClosesSession
<1>2. QED
  BY <1>1, Invariance, PTL
-----------------------------------------------------------------------------
(* Memory, the numbers of the tests, and the images.                         *)

\* What main has allocated when it is past the first k buffers: those it cannot
\* do without, and one medium of vspm_tp_lossy.c at least.
AllocatedTo(k) ==
    /\ fds \subseteq {Buffers[i][1] : i \in 1 .. k}
    /\ \A i \in 1 .. k :
          /\ Buffers[i][2] \in {"return", "release"} => Buffers[i][1] \in fds
          /\ Buffers[i][2] = "warn_medium" => LossyMedia # {}

EndPcs == {"exit", "done"}

\* A buffer is allocated as long as priv holds its fd, until the exit frees it.
Memory ==
    /\ bufs \subseteq fds
    /\ pc \notin EndPcs => bufs = fds
    /\ pc = "alloc" => n <= Len(Buffers) /\ AllocatedTo(n - 1)
    /\ pc \notin EndPcs \cup {"alloc"} => AllocatedTo(Len(Buffers))
    /\ pc = "exit" => bufs = {} \/ (prog = "colorkey" /\ bufs = {"in0"})

\* The number of a test is one of the table while main is in the test, and
\* while the driver has its job; the block of a test exists in the test only.
Numbers ==
    /\ pc = "test" => n <= Len(Tests) + 1
    /\ pc \in WaitPcs \cup {"entry", "show", "err_exit2", "err_quit"} =>
          n <= Len(Tests)
    /\ Busy => n <= Len(Tests)
    /\ cb_info = "live" => Sample /\ pc \in WaitPcs \cup {"entry"}

\* The image test k writes is finished.
Finished(k) == Tests[k].writes \in ready

\* The images a sample has drawn or had made are finished: those of the tests
\* that have passed, and that of the current one when its callback executes or
\* has left the result "well".
Images ==
    /\ pc \notin EndPcs \cup {"alloc"} => Drawn \subseteq ready
    /\ Sample /\ ~early /\ pc \notin EndPcs \cup {"alloc"} =>
          /\ \A k \in 1 .. n - 1 : k <= Len(Tests) => Finished(k)
          /\ pc \in WaitPcs =>
                /\ running[Hdl] # NoJob /\ outcome = "OK" => Finished(n)
                /\ got_id # NoJob /\ got_ercd = "OK" => Finished(n)
          /\ pc \in {"check", "check_id"} => got_id # NoJob
          /\ pc = "check_id" => got_ercd = "OK"
          /\ pc = "show" => Finished(n)

\* The second invariant; its steps need the first.
MInv ==
    /\ TypeOK
    /\ Memory
    /\ Numbers
    /\ Images

-----------------------------------------------------------------------------
(* The tables: what follows of every program is used of any.               *)

\* Each program allocates up to five buffers, and only vspm_tp_lossy.c can do
\* without one, a medium.
LEMMA BufferTable ==
    ASSUME prog \in AllPrograms
    PROVE  /\ Len(Buffers) \in 2 .. 5
           /\ \A i \in 1 .. Len(Buffers) :
                 /\ Buffers[i][1] \in Names
                 /\ Buffers[i][2] \in {"return", "release", "warn",
                                       "warn_medium"}
                 /\ Buffers[i][2] = "warn_medium" => Buffers[i][1] = "mid1"
                 /\ Buffers[i][2] = "return" =>
                       i = 1 \/ (prog = "colorkey" /\ i = 2)
           /\ prog = "colorkey" => Buffers[1][1] = "in0"
<1>1. CASE prog = "uds"
  BY <1>1 DEF Buffers, UdsBuffers, Names
<1>2. CASE prog = "lossy"
  BY <1>2 DEF Buffers, LossyBuffers, Names
<1>3. CASE prog = "colorkey"
  BY <1>3 DEF Buffers, ColorkeyBuffers, Names
<1>4. CASE prog = "fdpm"
  BY <1>4 DEF Buffers, FdpmBuffers, Names
<1> QED
  BY <1>1, <1>2, <1>3, <1>4 DEF AllPrograms

Places == (Names \cup {"refs", "outs"}) \X (0 .. NUM_FRAME - 1)

\* The images a program draws have places.
LEMMA DrawnTable ==
    ASSUME prog \in AllPrograms
    PROVE  Drawn \subseteq Places
BY DEF AllPrograms, Drawn, UdsDrawn, LossyDrawn, ColorkeyDrawn, FdpmDrawn,
       Places, Names, NUM_FRAME

\* Sequences that are written out.
LEMMA JoinTwo ==
    ASSUME NEW a, NEW b
    PROVE  <<a>> \o <<b>> = <<a, b>>
<1> DEFINE S == {a, b}
           s == <<a>> \o <<b>>
           t == <<a, b>>
<1>1. <<a>> \in Seq(S) /\ <<b>> \in Seq(S) /\ t \in Seq(S)
  OBVIOUS
<1>2. s \in Seq(S) /\ Len(s) = 2 /\ s[1] = a /\ s[2] = b
  BY <1>1, ConcatProperties
<1>3. Len(t) = 2 /\ t[1] = a /\ t[2] = b
  OBVIOUS
<1>4. Len(s) = Len(t) /\ \A i \in 1 .. Len(s) : s[i] = t[i]
  BY <1>2, <1>3
<1> HIDE DEF S, s, t
<1>5. s = t
  BY <1>1, <1>2, <1>4, SeqEqual
<1> QED
  BY <1>5 DEF s, t

\* The same for the third element.
LEMMA JoinThree ==
    ASSUME NEW a, NEW b, NEW c
    PROVE  <<a, b>> \o <<c>> = <<a, b, c>>
<1> DEFINE S == {a, b, c}
           s == <<a, b>> \o <<c>>
           t == <<a, b, c>>
<1>1. <<a, b>> \in Seq(S) /\ <<c>> \in Seq(S) /\ t \in Seq(S)
  OBVIOUS
<1>2. s \in Seq(S) /\ Len(s) = 3 /\ s[1] = a /\ s[2] = b /\ s[3] = c
  BY <1>1, ConcatProperties
<1>3. Len(t) = 3 /\ t[1] = a /\ t[2] = b /\ t[3] = c
  OBVIOUS
<1>4. Len(s) = Len(t) /\ \A i \in 1 .. Len(s) : s[i] = t[i]
  BY <1>2, <1>3
<1> HIDE DEF S, s, t
<1>5. s = t
  BY <1>1, <1>2, <1>4, SeqEqual
<1> QED
  BY <1>5 DEF s, t

\* vspm_tp_lossy.c makes an image in each medium it has and blends them.
LEMMA LossyTable ==
    /\ Len(LossyTests) \in 1 .. 3
    /\ \A k \in 1 .. Len(LossyTests) :
          \/ /\ k = Len(LossyTests)
             /\ LossyTests[k] = LossyBlendTest
          \/ /\ k < Len(LossyTests)
             /\ \E mid \in LossyMedia : LossyTests[k] = LossyImageTest(mid)
    /\ \A mid \in LossyMedia : \E k \in 1 .. Len(LossyTests) - 1 :
          LossyTests[k] = LossyImageTest(mid)
<1>1. CASE "mid0" \in fds /\ "mid1" \in fds
  <2>1. LossyTests = <<LossyImageTest("mid0"), LossyImageTest("mid1"),
                       LossyBlendTest>>
    <3>1. LossyTests = (<<LossyImageTest("mid0")>>
                        \o <<LossyImageTest("mid1")>>) \o <<LossyBlendTest>>
      BY <1>1 DEF LossyTests
    <3>2. <<LossyImageTest("mid0")>> \o <<LossyImageTest("mid1")>>
             = <<LossyImageTest("mid0"), LossyImageTest("mid1")>>
      BY JoinTwo
    <3> QED
      BY <3>1, <3>2, JoinThree
  <2> QED
    BY <1>1, <2>1 DEF LossyMedia
<1>2. CASE "mid0" \in fds /\ "mid1" \notin fds
  <2>1. LossyTests = <<LossyImageTest("mid0"), LossyBlendTest>>
    <3>1. LossyTests = <<LossyImageTest("mid0")>> \o <<LossyBlendTest>>
      BY <1>2 DEF LossyTests
    <3> QED
      BY <3>1, JoinTwo
  <2> QED
    BY <1>2, <2>1 DEF LossyMedia
<1>3. CASE "mid0" \notin fds /\ "mid1" \in fds
  <2>1. LossyTests = <<LossyImageTest("mid1"), LossyBlendTest>>
    <3>1. LossyTests = <<LossyImageTest("mid1")>> \o <<LossyBlendTest>>
      BY <1>3 DEF LossyTests
    <3> QED
      BY <3>1, JoinTwo
  <2> QED
    BY <1>3, <2>1 DEF LossyMedia
<1>4. CASE "mid0" \notin fds /\ "mid1" \notin fds
  <2>1. LossyTests = <<LossyBlendTest>>
    BY <1>4 DEF LossyTests
  <2> QED
    BY <1>4, <2>1 DEF LossyMedia
<1> QED
  BY <1>1, <1>2, <1>3, <1>4

\* Every program has one to six tests, and each writes to a place and shows its
\* result or not.
LEMMA TestTable ==
    ASSUME prog \in AllPrograms
    PROVE  /\ Len(Tests) \in 1 .. NUM_FRAME
           /\ \A k \in 1 .. Len(Tests) : /\ Tests[k].writes \in Places
                                         /\ Tests[k].shown \in BOOLEAN
<1> USE DEF NUM_FRAME, Places, Names
<1>1. CASE prog = "uds"
  <2> DEFINE a == UdsTest(FALSE, TRUE)
             b == UdsTest(TRUE, FALSE)
  <2>1. Tests = <<a, b>>
    BY <1>1 DEF Tests
  <2>2. /\ a.writes \in Places /\ a.shown \in BOOLEAN
        /\ b.writes \in Places /\ b.shown \in BOOLEAN
    BY DEF UdsTest
  <2> HIDE DEF a, b
  <2> QED
    BY <2>1, <2>2
<1>2. CASE prog = "lossy"
  <2>1. Tests = LossyTests
    BY <1>2 DEF Tests
  <2>2. /\ LossyBlendTest.writes \in Places
        /\ LossyBlendTest.shown \in BOOLEAN
    BY DEF LossyBlendTest
  <2>3. ASSUME NEW mid \in LossyMedia
        PROVE  /\ LossyImageTest(mid).writes \in Places
               /\ LossyImageTest(mid).shown \in BOOLEAN
    BY <2>3 DEF LossyImageTest, LossyMedia
  <2> QED
    BY <2>1, <2>2, <2>3, LossyTable
<1>3. CASE prog = "colorkey"
  <2> DEFINE a == ColorkeyTest(TRUE)
             b == ColorkeyTest(FALSE)
  <2>1. Tests = <<a, b>>
    BY <1>3 DEF Tests
  <2>2. /\ a.writes \in Places /\ a.shown \in BOOLEAN
        /\ b.writes \in Places /\ b.shown \in BOOLEAN
    BY DEF ColorkeyTest
  <2> HIDE DEF a, b
  <2> QED
    BY <2>1, <2>2
<1>4. CASE prog = "fdpm"
  <2>1. Tests = [f \in 1 .. NUM_FRAME |-> FdpmFrame(f - 1)]
    BY <1>4 DEF Tests
  <2>2. Len(Tests) = NUM_FRAME
    BY <2>1
  <2>3. \A k \in 1 .. NUM_FRAME : Tests[k] = FdpmFrame(k - 1)
    BY <2>1
  <2>4. ASSUME NEW f \in 0 .. NUM_FRAME - 1
        PROVE  FdpmFrame(f).writes \in Places /\ FdpmFrame(f).shown \in BOOLEAN
    BY DEF FdpmFrame
  <2> QED
    BY <2>2, <2>3, <2>4
<1> QED
  BY <1>1, <1>2, <1>3, <1>4 DEF AllPrograms

\* A test uses buffers that main has, or could not do without.
LEMMA TestBuffers ==
    ASSUME prog \in AllPrograms, AllocatedTo(Len(Buffers)),
           NEW k \in 1 .. Len(Tests)
    PROVE  Tests[k].uses \ {"unset"} \subseteq fds
<1>1. CASE prog = "uds"
  <2>1. Tests = <<UdsTest(FALSE, TRUE), UdsTest(TRUE, FALSE)>>
    BY <1>1 DEF Tests
  <2>2. {"in", "out", "dl"} \subseteq fds
    BY <1>1 DEF AllocatedTo, Buffers, UdsBuffers
  <2> QED
    BY <2>1, <2>2 DEF UdsTest
<1>2. CASE prog = "lossy"
  <2>1. Tests = LossyTests
    BY <1>2 DEF Tests
  <2>2. {"in", "out"} \subseteq fds
    <3>1. /\ Len(LossyBuffers) = 5
          /\ LossyBuffers[1] = <<"in", "return">>
          /\ LossyBuffers[4] = <<"out", "release">>
      BY DEF LossyBuffers
    <3>2. Buffers = LossyBuffers
      BY <1>2 DEF Buffers
    <3> QED
      BY <3>1, <3>2 DEF AllocatedTo
  <2>3. LossyBlendTest.uses \subseteq fds
    BY <2>2 DEF LossyBlendTest, LossyMedia
  <2>4. ASSUME NEW mid \in LossyMedia
        PROVE  LossyImageTest(mid).uses \ {"unset"} \subseteq fds
    BY <2>2, <2>4 DEF LossyImageTest, LossyMedia
  <2> QED
    BY <2>1, <2>3, <2>4, LossyTable
<1>3. CASE prog = "colorkey"
  <2>1. Tests = <<ColorkeyTest(TRUE), ColorkeyTest(FALSE)>>
    BY <1>3 DEF Tests
  <2>2. {"in0", "in1", "out"} \subseteq fds
    BY <1>3 DEF AllocatedTo, Buffers, ColorkeyBuffers
  <2> QED
    BY <2>1, <2>2 DEF ColorkeyTest
<1>4. CASE prog = "fdpm"
  <2>1. Tests = [f \in 1 .. NUM_FRAME |-> FdpmFrame(f - 1)]
    BY <1>4 DEF Tests
  <2>2. {"frames", "stlmsk"} \subseteq fds
    BY <1>4 DEF AllocatedTo, Buffers, FdpmBuffers
  <2> QED
    BY <2>1, <2>2 DEF FdpmFrame, NUM_FRAME
<1> QED
  BY <1>1, <1>2, <1>3, <1>4 DEF AllPrograms

\* A test reads images that main has drawn or an earlier test has made.
LEMMA TestSources ==
    ASSUME prog \in AllPrograms, NEW k \in 1 .. Len(Tests),
           NEW p \in Tests[k].reads
    PROVE  p \in Drawn \/ (Sample /\ \E i \in 1 .. k - 1 : Tests[i].writes = p)
<1>1. CASE prog = "uds"
  <2>1. Tests = <<UdsTest(FALSE, TRUE), UdsTest(TRUE, FALSE)>>
    BY <1>1 DEF Tests
  <2> QED
    BY <1>1, <2>1 DEF UdsTest, Drawn, UdsDrawn
<1>2. CASE prog = "lossy"
  <2>1. Tests = LossyTests /\ Sample
    BY <1>2 DEF Tests, Sample
  <2>2. CASE k < Len(LossyTests)
    <3>1. PICK mid \in LossyMedia : LossyTests[k] = LossyImageTest(mid)
      BY <2>1, <2>2, LossyTable
    <3>2. p = <<"in", 0>>
      BY <2>1, <3>1 DEF LossyImageTest
    <3> QED
      BY <1>2, <3>2 DEF Drawn, LossyDrawn
  <2>3. CASE k = Len(LossyTests)
    <3>1. LossyTests[k] = LossyBlendTest
      BY <2>1, <2>3, LossyTable
    <3>2. PICK mid \in LossyMedia : p = <<mid, 0>>
      BY <2>1, <3>1 DEF LossyBlendTest
    <3>3. PICK i \in 1 .. Len(LossyTests) - 1 :
             LossyTests[i] = LossyImageTest(mid)
      BY LossyTable
    <3>4. LossyTests[i].writes = p
      BY <3>2, <3>3 DEF LossyImageTest
    <3> QED
      BY <2>1, <2>3, <3>4
  <2> QED
    BY <2>1, <2>2, <2>3, LossyTable
<1>3. CASE prog = "colorkey"
  <2>1. Tests = <<ColorkeyTest(TRUE), ColorkeyTest(FALSE)>>
    BY <1>3 DEF Tests
  <2> QED
    BY <1>3, <2>1 DEF ColorkeyTest, Drawn, ColorkeyDrawn
<1>4. CASE prog = "fdpm"
  <2>1. Tests = [f \in 1 .. NUM_FRAME |-> FdpmFrame(f - 1)]
    BY <1>4 DEF Tests
  <2>2. PICK d \in {1, 0, NUM_FRAME - 1} :
           p = <<"refs", (k - 1 + d) % NUM_FRAME>>
    BY <2>1 DEF FdpmFrame, NUM_FRAME
  <2>3. (k - 1 + d) % NUM_FRAME \in 0 .. NUM_FRAME - 1
    BY <2>1 DEF NUM_FRAME
  <2> QED
    BY <1>4, <2>2, <2>3 DEF Drawn, FdpmDrawn
<1> QED
  BY <1>1, <1>2, <1>3, <1>4 DEF AllPrograms

-----------------------------------------------------------------------------

\* A program starts with nothing.
LEMMA InitMInv == Init => MInv
<1> SUFFICES ASSUME Init PROVE MInv
  OBVIOUS
<1>1. TypeOK
  BY InitIInv DEF Init, TypeOK, IInv, ClientTypeOK, NUM_FRAME
<1>2. Memory
  BY <1>1, BufferTable, ClientAssumption
     DEF Init, TypeOK, Memory, EndPcs, AllocatedTo
<1>3. Numbers
  BY ClientAssumption DEF Init, SvcInit, Numbers, WaitPcs, Busy
<1>4. Images
  BY DEF Init, Images, EndPcs, WaitPcs
<1> QED
  BY <1>1, <1>2, <1>3, <1>4 DEF MInv

\* The tables of a program do not change once it has allocated its buffers.
LEMMA SameTables ==
    ASSUME UNCHANGED <<prog, fds>>
    PROVE  /\ Tests' = Tests /\ Buffers' = Buffers /\ Drawn' = Drawn
           /\ LossyMedia' = LossyMedia /\ Sample' = Sample
BY DEF Tests, LossyTests, LossyBlendTest, LossyMedia, Buffers, Drawn, Sample

\* Main allocates one buffer after the other.
LEMMA AllocateMInv ==
    ASSUME IInv, MInv, AllocateStep
    PROVE  MInv'
<1> USE DEF MInv
<1>1. /\ pc = "alloc" /\ n \in 1 .. Len(Buffers)
      /\ AllocatedTo(n - 1) /\ bufs = fds
  BY DEF AllocateStep, Allocate, AllocateWarns, AllocateFails, Allocated,
         Goto, Memory, EndPcs, TypeOK
<1>2. prog \in AllPrograms /\ prog' = prog /\ Buffers' = Buffers
  BY DEF AllocateStep, Allocate, AllocateWarns, AllocateFails, Allocated,
         IInv, ClientTypeOK, Buffers
<1>3. /\ ~Busy' /\ cb_info' = cb_info /\ cb_info # "live"
      /\ running' = running /\ Drawn' = Drawn
  BY <1>1 DEF AllocateStep, Allocate, AllocateWarns, AllocateFails,
         Allocated, Busy, IInv, Session, svcVars, testVars, Numbers, WaitPcs,
         Drawn
<1>4. CASE AllocateFails
  <2>1. TypeOK'
    BY <1>4 DEF AllocateFails, Goto, TypeOK, SvcTypeOK, svcVars, testVars, Pcs
  <2>2. Memory'
    <3>1. /\ pc' = "exit" /\ fds' = fds
          /\ bufs' = IF Buffers[n][2] = "return" THEN fds ELSE {}
      BY <1>1, <1>4 DEF AllocateFails, Goto
    <3>2. fds \subseteq {Buffers[i][1] : i \in 1 .. n - 1}
      BY <1>1 DEF AllocatedTo
    <3>3. CASE Buffers[n][2] = "return"
      <4>1. n = 1 \/ (prog = "colorkey" /\ n = 2)
        BY <1>1, <1>2, <3>3, BufferTable
      <4>2. n = 1 => fds = {}
        BY <3>2
      <4>3. prog = "colorkey" /\ n = 2 => fds \subseteq {"in0"}
        BY <1>2, <3>2, BufferTable
      <4> QED
        BY <1>2, <3>1, <3>3, <4>1, <4>2, <4>3 DEF Memory, EndPcs
    <3> QED
      BY <3>1, <3>3 DEF Memory, EndPcs
  <2>3. Numbers'
    BY <1>3, <1>4 DEF AllocateFails, Goto, Numbers, WaitPcs
  <2>4. Images'
    BY <1>4 DEF AllocateFails, Goto, Images, EndPcs, WaitPcs
  <2> QED
    BY <2>1, <2>2, <2>3, <2>4
<1>5. CASE Allocate \/ AllocateWarns
  <2>1. /\ pc' = IF n = Len(Buffers) THEN "init" ELSE "alloc"
        /\ n' = IF n = Len(Buffers) THEN 1 ELSE n + 1
        /\ ready' = IF n = Len(Buffers) THEN Drawn ELSE ready
        /\ early' = early /\ bufs' = fds'
        /\ \/ fds' = fds \cup {Buffers[n][1]}
           \/ /\ fds' = fds
              /\ Buffers[n][2] \notin {"return", "release"}
              /\ Buffers[n][2] = "warn_medium" => LossyMedia # {}
    BY <1>1, <1>5 DEF Allocate, AllocateWarns, Allocated, Goto, testVars
  <2>2. Len(Buffers) \in 2 .. 5 /\ Buffers[n][1] \in Names
    BY <1>1, <1>2, BufferTable
  <2>3. TypeOK'
    <3>1. n' \in 1 .. NUM_FRAME + 1 /\ fds' \subseteq Names /\ pc' \in Pcs
      BY <1>1, <2>1, <2>2 DEF TypeOK, NUM_FRAME, Pcs
    <3>2. ready' \subseteq Places
      BY <1>2, <2>1, DrawnTable DEF TypeOK, Places
    <3> QED
      BY <1>5, <2>1, <3>1, <3>2
         DEF Allocate, AllocateWarns, Allocated, TypeOK, SvcTypeOK, svcVars,
             testVars, Places
  <2>4. Memory'
    <3>1. fds' \subseteq {Buffers'[i][1] : i \in 1 .. n}
      BY <1>1, <1>2, <2>1 DEF AllocatedTo
    <3>2. fds \subseteq fds' /\ LossyMedia \subseteq LossyMedia'
      BY <2>1 DEF LossyMedia
    <3>3. ASSUME NEW i \in 1 .. n
          PROVE  /\ Buffers'[i][2] \in {"return", "release"} =>
                       Buffers'[i][1] \in fds'
                 /\ Buffers'[i][2] = "warn_medium" => LossyMedia' # {}
      <4>1. CASE i < n
        BY <1>1, <1>2, <3>2, <4>1 DEF AllocatedTo
      <4>2. CASE i = n
        <5>1. Buffers[n][2] = "warn_medium" => Buffers[n][1] = "mid1"
          BY <1>1, <1>2, BufferTable
        <5>2. "mid1" \in fds' => LossyMedia' # {}
          BY DEF LossyMedia
        <5> QED
          BY <1>2, <2>1, <3>2, <4>2, <5>1, <5>2
      <4> QED
        BY <1>1, <4>1, <4>2
    <3>4. CASE n = Len(Buffers)
      <4>1. AllocatedTo(Len(Buffers))'
        BY <1>2, <3>1, <3>3, <3>4 DEF AllocatedTo
      <4> QED
        BY <2>1, <3>4, <4>1 DEF Memory, EndPcs
    <3>5. CASE n # Len(Buffers)
      <4>1. n' - 1 = n /\ n' <= Len(Buffers')
        BY <1>1, <1>2, <2>1, <2>2, <3>5
      <4>2. AllocatedTo(n - 1)'
        BY <3>1, <3>3, <4>1 DEF AllocatedTo
      <4> QED
        BY <2>1, <3>5, <4>1, <4>2 DEF Memory, EndPcs
    <3> QED
      BY <3>4, <3>5
  <2>5. Numbers'
    BY <1>3, <2>1 DEF Numbers, WaitPcs
  <2>6. Images'
    BY <1>3, <2>1, <2>2 DEF Images, EndPcs, WaitPcs
  <2> QED
    BY <2>3, <2>4, <2>5, <2>6
<1> QED
  BY <1>4, <1>5 DEF AllocateStep

\* The steps after the allocation.
SetUpStep == InitDriver \/ InitDriverFails \/ MakeStartParameter

LaterStep ==
    \/ SetUpStep \/ TestStep \/ FrameStep \/ Show
    \/ QuitStep \/ ShowLast \/ CallbackStep

\* They neither allocate nor free.
LEMMA LaterMemory ==
    ASSUME MInv, LaterStep
    PROVE  Memory' /\ UNCHANGED <<prog, fds, bufs>>
<1> DEFINE Early == EndPcs \cup {"alloc"}
           Kept == UNCHANGED <<prog, fds, bufs>> /\
                      \/ UNCHANGED <<pc, n>>
                      \/ pc \notin Early /\ pc' \notin Early
<1> USE DEF Goto, svcVars, allocVars, testVars, EndPcs
<1>1. SetUpStep \/ Show \/ ShowLast => Kept
  BY DEF SetUpStep, InitDriver, InitDriverFails, MakeStartParameter, Show,
         ShowLast
<1>2. TestStep => Kept
  BY DEF TestStep, TestBegin, TestBeginFails, EntryAccepted, EntryRefused,
         Wait, CheckErcd, CheckJobId, TestFails, TestPasses
<1>3. FrameStep => Kept
  BY DEF FrameStep, FrameBegin, FrameRefused, SemWait
<1>4. QuitStep => Kept
  BY DEF QuitStep, QuitBegin, QuitRefused, QuitDone, QuitFails
<1>5. CallbackStep => Kept
  BY DEF CallbackStep, Reports, CallbackBegin, CallbackEnds, CallbackSignals,
         CallbackPosts, DriverDrops, WakesEarly, vars
<1>6. Kept
  BY <1>1, <1>2, <1>3, <1>4, <1>5 DEF LaterStep
<1>7. Buffers' = Buffers /\ LossyMedia' = LossyMedia
  BY <1>6, SameTables
<1>8. Memory'
  BY <1>6, <1>7 DEF MInv, Memory, AllocatedTo
<1> QED
  BY <1>6, <1>8

\* Before the first test there is nothing to show.
LEMMA SetUpMInv ==
    ASSUME IInv, MInv, SetUpStep
    PROVE  MInv'
<1> USE ServiceAssumption, ClientAssumption
    DEF Goto, WaitPcs, Busy, svcVars, testVars, allocVars
<1>a. /\ IInv /\ MInv /\ Memory' /\ TypeOK /\ Numbers /\ Images /\ Session
      /\ SampleWaits /\ FrameWaits /\ UNCHANGED <<prog, fds, bufs>>
      /\ Tests' = Tests /\ Drawn' = Drawn /\ Sample' = Sample
  BY LaterMemory, SameTables DEF LaterStep, MInv, IInv
<1>b. /\ Len(Tests) \in 1 .. NUM_FRAME
      /\ \A k \in 1 .. Len(Tests) : /\ Tests[k].writes \in Places
                                    /\ Tests[k].shown \in BOOLEAN
  BY TestTable DEF IInv, ClientTypeOK
<1>1. CASE SetUpStep
  <2>1. TypeOK'
    BY <1>a, <1>b, <1>1
       DEF SetUpStep, InitDriver, InitDriverFails, MakeStartParameter,
           SvcInitDriver, TypeOK, SvcTypeOK, Pcs, Places, NUM_FRAME, Numbers
  <2>2. Numbers'
    BY <1>a, <1>b, <1>1
       DEF SetUpStep, InitDriver, InitDriverFails, MakeStartParameter,
           SvcInitDriver, Numbers, TypeOK, Session, SampleWaits, FrameWaits,
           FrameDue
  <2>3. Images'
    BY <1>a, <1>b, <1>1
       DEF SetUpStep, InitDriver, InitDriverFails, MakeStartParameter,
           SvcInitDriver, Images, Finished, EndPcs, TypeOK, SampleWaits,
           Numbers
  <2> QED
    BY <1>a, <2>1, <2>2, <2>3 DEF MInv
<1> QED
  BY <1>1

\* A test that passes has its image.
LEMMA TestMInv ==
    ASSUME IInv, MInv, TestStep \/ FrameStep \/ Show
    PROVE  MInv'
<1> USE ServiceAssumption, ClientAssumption
    DEF Goto, WaitPcs, Busy, svcVars, testVars, allocVars
<1>a. /\ IInv /\ MInv /\ Memory' /\ TypeOK /\ Numbers /\ Images /\ Session
      /\ SampleWaits /\ FrameWaits /\ UNCHANGED <<prog, fds, bufs>>
      /\ Tests' = Tests /\ Drawn' = Drawn /\ Sample' = Sample
  BY LaterMemory, SameTables DEF LaterStep, MInv, IInv
<1>b. /\ Len(Tests) \in 1 .. NUM_FRAME
      /\ \A k \in 1 .. Len(Tests) : /\ Tests[k].writes \in Places
                                    /\ Tests[k].shown \in BOOLEAN
  BY TestTable DEF IInv, ClientTypeOK
<1>1. CASE TestBegin \/ TestBeginFails \/ FrameBegin
  <2>1. TypeOK'
    BY <1>a, <1>b, <1>1
       DEF TestBegin, TestBeginFails, FrameBegin, TypeOK, SvcTypeOK, Pcs,
           Places, NUM_FRAME, Numbers
  <2>2. Numbers'
    BY <1>a, <1>b, <1>1
       DEF TestBegin, TestBeginFails, FrameBegin, Numbers, TypeOK, Session,
           SampleWaits, FrameWaits, FrameDue
  <2>3. Images'
    BY <1>a, <1>b, <1>1
       DEF TestBegin, TestBeginFails, FrameBegin, Images, Finished, EndPcs,
           TypeOK, SampleWaits, Numbers
  <2> QED
    BY <1>a, <2>1, <2>2, <2>3 DEF MInv
<1>2. ASSUME NEW j \in Jobs,
             EntryAccepted(j)
      PROVE  MInv'
  <2>1. TypeOK'
    BY <1>a, <1>b, <1>2
       DEF EntryAccepted, SvcEntryJob, TypeOK, SvcTypeOK, Pcs, Places,
           NUM_FRAME, Numbers
  <2>2. Numbers'
    BY <1>a, <1>b, <1>2
       DEF EntryAccepted, SvcEntryJob, Numbers, TypeOK, Session, SampleWaits,
           FrameWaits, FrameDue
  <2>3. Images'
    BY <1>a, <1>b, <1>2
       DEF EntryAccepted, SvcEntryJob, Images, Finished, EndPcs, TypeOK,
           SampleWaits, Numbers
  <2> QED
    BY <1>a, <2>1, <2>2, <2>3 DEF MInv
<1>3. CASE EntryRefused \/ FrameRefused
  <2>1. TypeOK'
    BY <1>a, <1>b, <1>3
       DEF EntryRefused, FrameRefused, TypeOK, SvcTypeOK, Pcs, Places,
           NUM_FRAME, Numbers
  <2>2. Numbers'
    BY <1>a, <1>b, <1>3
       DEF EntryRefused, FrameRefused, Numbers, TypeOK, Session, SampleWaits,
           FrameWaits, FrameDue
  <2>3. Images'
    BY <1>a, <1>b, <1>3
       DEF EntryRefused, FrameRefused, Images, Finished, EndPcs, TypeOK,
           SampleWaits, Numbers
  <2> QED
    BY <1>a, <2>1, <2>2, <2>3 DEF MInv
<1>4. CASE Wait \/ SemWait
  <2>1. TypeOK'
    BY <1>a, <1>b, <1>4
       DEF Wait, SemWait, TypeOK, SvcTypeOK, Pcs, Places, NUM_FRAME, Numbers
  <2>2. Numbers'
    BY <1>a, <1>b, <1>4
       DEF Wait, SemWait, Numbers, TypeOK, Session, SampleWaits, FrameWaits,
           FrameDue
  <2>3. Images'
    BY <1>a, <1>b, <1>4
       DEF Wait, SemWait, Images, Finished, EndPcs, TypeOK, SampleWaits,
           Numbers
  <2> QED
    BY <1>a, <2>1, <2>2, <2>3 DEF MInv
<1>7. CASE Show
  <2>1. TypeOK'
    BY <1>a, <1>b, <1>7
       DEF Show, TypeOK, SvcTypeOK, Pcs, Places, NUM_FRAME, Numbers
  <2>2. Numbers'
    BY <1>a, <1>b, <1>7
       DEF Show, Numbers, TypeOK, Session, SampleWaits, FrameWaits, FrameDue
  <2>3. Images'
    BY <1>a, <1>b, <1>7
       DEF Show, Images, Finished, EndPcs, TypeOK, SampleWaits, Numbers
  <2> QED
    BY <1>a, <2>1, <2>2, <2>3 DEF MInv
<1>5. CASE CheckErcd
  <2>1. TypeOK'
    BY <1>a, <1>b, <1>5
       DEF CheckErcd, TestFails, TypeOK, SvcTypeOK, Pcs, Places, NUM_FRAME,
           Numbers
  <2>2. Numbers'
    BY <1>a, <1>b, <1>5
       DEF CheckErcd, TestFails, Numbers, TypeOK, Session, SampleWaits,
           FrameWaits, FrameDue
  <2>3. Images'
    BY <1>a, <1>b, <1>5
       DEF CheckErcd, TestFails, Images, Finished, EndPcs, TypeOK,
           SampleWaits, Numbers
  <2> QED
    BY <1>a, <2>1, <2>2, <2>3 DEF MInv
<1>6. CASE CheckJobId
  <2>1. TypeOK'
    <3>1. n \in 1 .. Len(Tests)
      BY <1>a, <1>6 DEF CheckJobId, Numbers, TypeOK
    <3>2. /\ pc' \in {"err_exit2", "show", "test"} /\ n' \in {n, n + 1}
          /\ cb_info' = "freed"
          /\ UNCHANGED <<svcVars, prog, allocVars, ercd, job_id, got_id,
                          got_ercd, early, outcome, sem>>
      BY <1>6 DEF CheckJobId, TestFails, TestPasses
    <3> QED
      BY <1>a, <1>b, <3>1, <3>2 DEF TypeOK, SvcTypeOK, Pcs, NUM_FRAME
  <2>2. Numbers'
    BY <1>a, <1>b, <1>6
       DEF CheckJobId, TestFails, TestPasses, Numbers, TypeOK, Session,
           SampleWaits, FrameWaits, FrameDue
  <2>3. Images'
    BY <1>a, <1>b, <1>6
       DEF CheckJobId, TestFails, TestPasses, Images, Finished, EndPcs,
           TypeOK, SampleWaits, Numbers
  <2> QED
    BY <1>a, <2>1, <2>2, <2>3 DEF MInv
<1> QED
  BY <1>1, <1>2, <1>3, <1>4, <1>7, <1>5, <1>6 DEF TestStep, FrameStep

\* The images stay what they are.
LEMMA QuitMInv ==
    ASSUME IInv, MInv, QuitStep \/ ShowLast
    PROVE  MInv'
<1> USE ServiceAssumption, ClientAssumption
    DEF Goto, WaitPcs, Busy, svcVars, testVars, allocVars
<1>a. /\ IInv /\ MInv /\ Memory' /\ TypeOK /\ Numbers /\ Images /\ Session
      /\ SampleWaits /\ FrameWaits /\ UNCHANGED <<prog, fds, bufs>>
      /\ Tests' = Tests /\ Drawn' = Drawn /\ Sample' = Sample
  BY LaterMemory, SameTables DEF LaterStep, MInv, IInv
<1>b. /\ Len(Tests) \in 1 .. NUM_FRAME
      /\ \A k \in 1 .. Len(Tests) : /\ Tests[k].writes \in Places
                                    /\ Tests[k].shown \in BOOLEAN
  BY TestTable DEF IInv, ClientTypeOK
<1>1. CASE QuitBegin
  <2>1. TypeOK'
    BY <1>a, <1>b, <1>1
       DEF QuitBegin, SvcStartQuit, TypeOK, SvcTypeOK, Pcs, Places, NUM_FRAME,
           Numbers
  <2>2. Numbers'
    BY <1>a, <1>b, <1>1
       DEF QuitBegin, SvcStartQuit, Numbers, TypeOK, Session, SampleWaits,
           FrameWaits, FrameDue
  <2>3. Images'
    BY <1>a, <1>b, <1>1
       DEF QuitBegin, SvcStartQuit, Images, Finished, EndPcs, TypeOK,
           SampleWaits, Numbers
  <2> QED
    BY <1>a, <2>1, <2>2, <2>3 DEF MInv
<1>2. CASE QuitRefused \/ ShowLast
  <2>1. TypeOK'
    BY <1>a, <1>b, <1>2
       DEF QuitRefused, ShowLast, TypeOK, SvcTypeOK, Pcs, Places, NUM_FRAME,
           Numbers
  <2>2. Numbers'
    BY <1>a, <1>b, <1>2
       DEF QuitRefused, ShowLast, Numbers, TypeOK, Session, SampleWaits,
           FrameWaits, FrameDue
  <2>3. Images'
    BY <1>a, <1>b, <1>2
       DEF QuitRefused, ShowLast, Images, Finished, EndPcs, TypeOK,
           SampleWaits, Numbers
  <2> QED
    BY <1>a, <2>1, <2>2, <2>3 DEF MInv
<1>3. CASE QuitDone
  <2>1. TypeOK'
    BY <1>a, <1>b, <1>3
       DEF QuitDone, SvcQuitDone, TypeOK, SvcTypeOK, Pcs, Places, NUM_FRAME,
           Numbers
  <2>2. Numbers'
    BY <1>a, <1>b, <1>3
       DEF QuitDone, SvcQuitDone, Numbers, TypeOK, Session, SampleWaits,
           FrameWaits, FrameDue
  <2>3. Images'
    BY <1>a, <1>b, <1>3
       DEF QuitDone, SvcQuitDone, Images, Finished, EndPcs, TypeOK,
           SampleWaits, Numbers
  <2> QED
    BY <1>a, <2>1, <2>2, <2>3 DEF MInv
<1>4. CASE QuitFails
  <2>1. TypeOK'
    BY <1>a, <1>b, <1>4
       DEF QuitFails, SvcQuitFails, TypeOK, SvcTypeOK, Pcs, Places, NUM_FRAME,
           Numbers
  <2>2. Numbers'
    BY <1>a, <1>b, <1>4
       DEF QuitFails, SvcQuitFails, Numbers, TypeOK, Session, SampleWaits,
           FrameWaits, FrameDue
  <2>3. Images'
    BY <1>a, <1>b, <1>4
       DEF QuitFails, SvcQuitFails, Images, Finished, EndPcs, TypeOK,
           SampleWaits, Numbers
  <2> QED
    BY <1>a, <2>1, <2>2, <2>3 DEF MInv
<1> QED
  BY <1>1, <1>2, <1>3, <1>4 DEF QuitStep

\* A callback that reports success leaves a finished image.
LEMMA CallbackMInv ==
    ASSUME IInv, MInv, CallbackStep
    PROVE  MInv'
<1> USE ServiceAssumption, ClientAssumption
    DEF Goto, WaitPcs, Busy, svcVars, testVars, allocVars
<1>a. /\ IInv /\ MInv /\ Memory' /\ TypeOK /\ Numbers /\ Images /\ Session
      /\ SampleWaits /\ FrameWaits /\ UNCHANGED <<prog, fds, bufs>>
      /\ Tests' = Tests /\ Drawn' = Drawn /\ Sample' = Sample
  BY LaterMemory, SameTables DEF LaterStep, MInv, IInv
<1>b. /\ Len(Tests) \in 1 .. NUM_FRAME
      /\ \A k \in 1 .. Len(Tests) : /\ Tests[k].writes \in Places
                                    /\ Tests[k].shown \in BOOLEAN
  BY TestTable DEF IInv, ClientTypeOK
<1>1. ASSUME NEW j \in Jobs, NEW result \in {"OK", "NG"},
             CallbackBegin(j, result)
      PROVE  MInv'
  <2>1. TypeOK'
    BY <1>a, <1>b, <1>1
       DEF CallbackBegin, SvcBeginCallback, TypeOK, SvcTypeOK, Pcs, Places,
           NUM_FRAME, Numbers
  <2>2. Numbers'
    BY <1>a, <1>b, <1>1
       DEF CallbackBegin, SvcBeginCallback, Numbers, TypeOK, Session,
           SampleWaits, FrameWaits, FrameDue
  <2>3. Images'
    BY <1>a, <1>b, <1>1
       DEF CallbackBegin, SvcBeginCallback, Images, Finished, EndPcs, TypeOK,
           SampleWaits, Numbers
  <2> QED
    BY <1>a, <2>1, <2>2, <2>3 DEF MInv
<1>2. CASE CallbackSignals
  <2>1. TypeOK'
    BY <1>a, <1>b, <1>2
       DEF CallbackSignals, SvcEndCallback, TypeOK, SvcTypeOK, Pcs, Places,
           NUM_FRAME, Numbers
  <2>2. Numbers'
    BY <1>a, <1>b, <1>2
       DEF CallbackSignals, SvcEndCallback, Numbers, TypeOK, Session,
           SampleWaits, FrameWaits, FrameDue
  <2>3. Images'
    BY <1>a, <1>b, <1>2
       DEF CallbackSignals, SvcEndCallback, Images, Finished, EndPcs, TypeOK,
           SampleWaits, Numbers
  <2> QED
    BY <1>a, <2>1, <2>2, <2>3 DEF MInv
<1>3. CASE CallbackPosts
  <2>1. TypeOK'
    BY <1>a, <1>b, <1>3
       DEF CallbackPosts, SvcEndCallback, TypeOK, SvcTypeOK, Pcs, Places,
           NUM_FRAME, Numbers
  <2>2. Numbers'
    BY <1>a, <1>b, <1>3
       DEF CallbackPosts, SvcEndCallback, Numbers, TypeOK, Session,
           SampleWaits, FrameWaits, FrameDue
  <2>3. Images'
    BY <1>a, <1>b, <1>3
       DEF CallbackPosts, SvcEndCallback, Images, Finished, EndPcs, TypeOK,
           SampleWaits, Numbers
  <2> QED
    BY <1>a, <2>1, <2>2, <2>3 DEF MInv
<1>4. CASE DriverDrops
  <2>1. TypeOK'
    BY <1>a, <1>b, <1>4
       DEF DriverDrops, SvcDropJobs, TypeOK, SvcTypeOK, Pcs, Places,
           NUM_FRAME, Numbers
  <2>2. Numbers'
    BY <1>a, <1>b, <1>4
       DEF DriverDrops, SvcDropJobs, Numbers, TypeOK, Session, SampleWaits,
           FrameWaits, FrameDue
  <2>3. Images'
    BY <1>a, <1>b, <1>4
       DEF DriverDrops, SvcDropJobs, Images, Finished, EndPcs, TypeOK,
           SampleWaits, Numbers
  <2> QED
    BY <1>a, <2>1, <2>2, <2>3 DEF MInv
<1>5. CASE WakesEarly \/ UNCHANGED vars
  <2>1. TypeOK'
    <3>1. CASE WakesEarly
      BY <1>a, <1>b, <3>1
         DEF WakesEarly, TypeOK, SvcTypeOK, Pcs, Places, NUM_FRAME, Numbers
    <3>2. CASE UNCHANGED vars
      BY <1>a, <3>2 DEF vars, TypeOK, SvcTypeOK
    <3> QED
      BY <1>5, <3>1, <3>2
  <2>2. Numbers'
    BY <1>a, <1>b, <1>5
       DEF WakesEarly, vars, Numbers, TypeOK, Session, SampleWaits,
           FrameWaits, FrameDue
  <2>3. Images'
    BY <1>a, <1>b, <1>5
       DEF WakesEarly, vars, Images, Finished, EndPcs, TypeOK, SampleWaits,
           Numbers
  <2> QED
    BY <1>a, <2>1, <2>2, <2>3 DEF MInv
<1> QED
  BY <1>1, <1>2, <1>3, <1>4, <1>5 DEF CallbackStep, Reports, CallbackEnds

\* The exit frees what there is.
LEMMA EndMInv ==
    ASSUME MInv, ReleaseMemory \/ Exit
    PROVE  MInv'
<1> USE DEF MInv, Goto, EndPcs, WaitPcs, svcVars, testVars, Busy
<1>1. TypeOK'
  BY DEF ReleaseMemory, Exit, TypeOK, SvcTypeOK, Pcs, allocVars
<1>2. Memory'
  BY DEF ReleaseMemory, Exit, Memory, allocVars
<1>3. Numbers'
  <2>1. Tests' = Tests
    BY SameTables DEF ReleaseMemory, Exit, allocVars
  <2> QED
    BY <2>1 DEF ReleaseMemory, Exit, Numbers
<1>4. Images'
  BY DEF ReleaseMemory, Exit, Images
<1> QED
  BY <1>1, <1>2, <1>3, <1>4

\* The second invariant always holds, too.
THEOREM MemoryInvariance == Spec => []MInv
<1>1. IInv /\ MInv /\ [Next]_vars => MInv'
  BY AllocateMInv, SetUpMInv, TestMInv, QuitMInv, CallbackMInv, EndMInv
     DEF Next, MainStep, SetUpStep, CallbackStep
<1>2. QED
  BY <1>1, InitMInv, Invariance, PTL DEF Spec

-----------------------------------------------------------------------------

\* Every variable keeps its type, the number of the test among them.
THEOREM TypeCorrect == Spec => []TypeOK
<1>1. MInv => TypeOK
  BY DEF MInv
<1>2. QED
  BY <1>1, MemoryInvariance, PTL

\* No job reads an image that is not finished, and none is shown.
THEOREM ImageSafety == Spec => []ImagesReady
<1>1. IInv /\ MInv => ImagesReady
  <2> SUFFICES ASSUME IInv, MInv PROVE ImagesReady
    OBVIOUS
  <2>1. pc \in {"entry", "show", "show_last"} => ~Busy
    BY DEF IInv, SampleWaits, FrameWaits, FrameDue, WaitPcs, Session
  <2>2. ASSUME pc = "entry", ~early, NEW p \in Tests[n].reads
        PROVE  p \in ready
    <3>1. n \in 1 .. Len(Tests) /\ prog \in AllPrograms
      BY <2>2 DEF MInv, TypeOK, Numbers, IInv, ClientTypeOK
    <3>2. p \in Drawn \/ (Sample /\ \E i \in 1 .. n - 1 : Tests[i].writes = p)
      BY <2>2, <3>1, TestSources
    <3> QED
      BY <2>2, <3>1, <3>2 DEF MInv, Images, Finished, EndPcs, TypeOK
  <2>3. pc = "show" => early \/ ~Sample \/ Tests[n].writes \in ready
    BY DEF MInv, Images, Finished, EndPcs
  <2> QED
    BY <2>1, <2>2, <2>3 DEF ImagesReady
<1>2. QED
  BY <1>1, Invariance, MemoryInvariance, PTL

\* The buffers a job names are allocated while the driver works on it, unless
\* an early wake and a failed vspm_quit_driver come together.
THEOREM BufferSafety == Spec => []BuffersOutliveJobs
<1>1. IInv /\ MInv => BuffersOutliveJobs
  <2> SUFFICES ASSUME IInv, MInv, Busy, pc # "done"
               PROVE  Tests[n].uses \ {"unset"} \subseteq bufs
                      \/ (early /\ ercd = "quit")
    BY DEF BuffersOutliveJobs
  <2>1. CASE pc = "exit"
    BY <2>1 DEF IInv, Session, SampleWaits, FrameWaits, FrameDue, WaitPcs
  <2>2. CASE pc # "exit"
    <3>1. pc # "alloc"
      BY DEF IInv, Session
    <3>2. AllocatedTo(Len(Buffers)) /\ bufs = fds
      BY <2>2, <3>1 DEF MInv, Memory, EndPcs
    <3>3. n \in 1 .. Len(Tests) /\ prog \in AllPrograms
      BY DEF MInv, TypeOK, Numbers, IInv, ClientTypeOK
    <3> QED
      BY <3>2, <3>3, TestBuffers
  <2> QED
    BY <2>1, <2>2
<1>2. QED
  BY <1>1, Invariance, MemoryInvariance, PTL

\* Every exit frees what the program has allocated, once, but for the first
\* input of vspm_tp_colorkey.c.
THEOREM ReleaseSafety == Spec => []ExitReleases
<1>1. MInv => ExitReleases
  BY DEF MInv, Memory, Numbers, EndPcs, WaitPcs, ExitReleases
<1>2. QED
  BY <1>1, MemoryInvariance, PTL

-----------------------------------------------------------------------------

\* The session main relies on when it calls the library: none before
\* vspm_init_driver, one that is up when it enters a job or begins to quit.
CallsInSession ==
    /\ pc = "init" => session[Hdl] = "down"
    /\ pc \in WaitPcs \cup {"params", "test", "entry", "show", "err_exit2"} =>
          session[Hdl] = "up"
    /\ pc \in {"quit", "err_quit"} => session[Hdl] = "quitting"

\* Main calls vspm_init_driver, vspm_entry_job and vspm_quit_driver only where
\* the service allows it: no exit and no failed test leads to a call on a
\* session that is not up.
THEOREM ProtocolSafety == Spec => []CallsInSession
<1> USE ClientAssumption
    DEF CallsInSession, WaitPcs, Goto, svcVars, testVars, allocVars
<1>1. Init => CallsInSession
  BY DEF Init, SvcInit
<1>2. ASSUME IInv, CallsInSession, [Next]_vars
      PROVE  CallsInSession'
  <2>1. SvcTypeOK /\ Session
    BY <1>2 DEF IInv, ClientTypeOK
  <2>2. AllocateStep \/ InitDriver \/ InitDriverFails \/ MakeStartParameter =>
           CallsInSession'
    BY <1>2, <2>1 DEF AllocateStep, Allocate, AllocateWarns, AllocateFails,
           Allocated, InitDriver, SvcInitDriver, InitDriverFails,
           MakeStartParameter, Session, SvcTypeOK
  <2>3. TestStep \/ FrameStep \/ Show => CallsInSession'
    BY <1>2 DEF TestStep, TestBegin, TestBeginFails, EntryAccepted,
           SvcEntryJob, EntryRefused, Wait, CheckErcd, CheckJobId, TestFails,
           TestPasses, FrameStep, FrameBegin, FrameRefused, SemWait, Show
  <2>4. QuitStep \/ ShowLast \/ ReleaseMemory \/ Exit => CallsInSession'
    BY <1>2, <2>1 DEF QuitStep, QuitBegin, SvcStartQuit, QuitRefused,
           QuitDone, SvcQuitDone, QuitFails, SvcQuitFails, ShowLast,
           ReleaseMemory, Exit, SvcTypeOK
  <2>5. Reports \/ CallbackEnds \/ DriverDrops \/ WakesEarly =>
           CallsInSession'
    BY <1>2 DEF Reports, CallbackBegin, SvcBeginCallback, CallbackEnds,
           CallbackSignals, CallbackPosts, SvcEndCallback, DriverDrops,
           SvcDropJobs, WakesEarly
  <2>6. UNCHANGED vars => CallsInSession'
    BY <1>2 DEF vars
  <2> QED
    BY <1>2, <2>2, <2>3, <2>4, <2>5, <2>6 DEF Next, MainStep
<1>3. QED
  BY <1>1, <1>2, Invariance, PTL DEF Spec

\* A program is a client of the service: each of its steps is a step of
\* VspmService or leaves the service alone.
THEOREM ServiceUse == Spec => SvcSpec
<1>1. Init => SvcInit
  BY DEF Init
<1>2. ASSUME [Next]_vars PROVE [SvcNext]_svcVars
  <2> USE ClientAssumption
      DEF SvcNext, testVars, allocVars
  <2>1. AllocateStep \/ InitDriver \/ InitDriverFails \/ MakeStartParameter =>
           [SvcNext]_svcVars
    BY DEF AllocateStep, Allocate, AllocateWarns, AllocateFails, Allocated,
           InitDriver, InitDriverFails, MakeStartParameter
  <2>2. TestStep \/ FrameStep \/ Show => [SvcNext]_svcVars
    BY DEF TestStep, TestBegin, TestBeginFails, EntryAccepted, EntryRefused,
           Wait, CheckErcd, CheckJobId, FrameStep, FrameBegin, FrameRefused,
           SemWait, Show
  <2>3. QuitStep \/ ShowLast \/ ReleaseMemory \/ Exit => [SvcNext]_svcVars
    BY DEF QuitStep, QuitBegin, QuitRefused, QuitDone, QuitFails, ShowLast,
           ReleaseMemory, Exit
  <2>4. Reports \/ CallbackEnds \/ DriverDrops \/ WakesEarly =>
           [SvcNext]_svcVars
    BY DEF Reports, CallbackBegin, CallbackEnds, CallbackSignals,
           CallbackPosts, DriverDrops, WakesEarly
  <2>5. UNCHANGED vars => [SvcNext]_svcVars
    BY DEF vars
  <2> QED
    BY <1>2, <2>1, <2>2, <2>3, <2>4, <2>5 DEF Next, MainStep
<1>3. QED
  BY <1>1, <1>2, PTL DEF Spec, SvcSpec
=============================================================================
