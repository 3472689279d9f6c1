------------------------------ MODULE TpClient -----------------------------
(***************************************************************************)
(* The programs of vspm_if-tp-user as clients of VspmService: the samples  *)
(* vspm_tp_uds.c, vspm_tp_lossy.c and vspm_tp_colorkey.c, and the test     *)
(* program fdpm_tp.c.  A run is one process: its main thread, and the      *)
(* callback thread of its one handle.                                      *)
(*                                                                         *)
(* Main allocates buffers, opens a session, enters one job after the other *)
(* and waits for the callback of each, a sample with a condition variable  *)
(* in a block of its own (cb_info), fdpm_tp.c with a semaphore.  Every     *)
(* call may fail.  The samples share all code but the tables of buffers    *)
(* and tests; what differs in fdpm_tp.c is an action of its own.           *)
(*                                                                         *)
(* A section under cb_info->mutex is one step.  pthread_cond_wait may also *)
(* return without a signal, as POSIX allows; early remembers that it did.  *)
(* A place <<b, n>> is image n in buffer b.                                *)
(*                                                                         *)
(* Left out: the block priv, which every exit frees, and failures of       *)
(* mmngr_free_in_user_ext and of the output, which change nothing else.    *)
(***************************************************************************)
EXTENDS VspmService, Integers, Sequences

CONSTANTS
    Hdl,        \* the handle of the process
    Programs    \* the programs explored

AllPrograms == {"uds", "lossy", "colorkey", "fdpm"}

ASSUME ClientAssumption ==
    /\ Handles = {Hdl}
    /\ Programs \subseteq AllPrograms

VARIABLES
    prog,       \* the program of this run
    pc,         \* where main is
    n,          \* the buffer to allocate next, then the test or frame
    fds,        \* buffers whose fd in priv is not 0
    bufs,       \* buffers that are allocated
    ready,      \* places that hold a finished image
    ercd,       \* "OK", or the call that failed when the last vspm_ call has:
                \* "init", "entry" or "quit"
    job_id,     \* main's local job_id
    cb_info,    \* the block of the test: "none", "live" or "freed"
    got_id,     \* cb_info->job_id and
    got_ercd,   \* cb_info->ercd; NoJob and "OK" (zeros) after memset
    outcome,    \* the result of the job whose callback executes
    sem,        \* start_sem of fdpm_tp.c
    early       \* a wait of this run has ended without a signal

allocVars == <<fds, bufs, ready>>
testVars == <<job_id, cb_info, got_id, got_ercd, early>>
vars == <<svcVars, prog, pc, n, allocVars, ercd, testVars, outcome, sem>>

Sample == prog # "fdpm"

Pcs == {"alloc", "init", "params", "test", "entry", "wait", "waiting",
        "check", "check_id", "show", "err_exit2", "quit", "err_quit",
        "show_last", "release", "exit", "done"}

-----------------------------------------------------------------------------
(* What the programs allocate: buffers in order, each with what a failed   *)
(* allocation of it does.  "return" frees nothing, "release" frees all so  *)
(* far, "warn" goes on, "warn_medium" too if there is a medium buffer.     *)

UdsBuffers == <<<<"in", "return">>, <<"out", "release">>, <<"dl", "release">>>>

LossyBuffers ==
    <<<<"in", "return">>, <<"mid0", "warn">>, <<"mid1", "warn_medium">>,
      <<"out", "release">>, <<"dl", "release">>>>

ColorkeyBuffers ==
    <<<<"in0", "return">>, <<"in1", "return">>, <<"out", "release">>,
      <<"dl", "release">>>>

FdpmBuffers == <<<<"frames", "return">>, <<"stlmsk", "release">>>>

Buffers ==
    CASE prog = "uds" -> UdsBuffers
      [] prog = "lossy" -> LossyBuffers
      [] prog = "colorkey" -> ColorkeyBuffers
      [] prog = "fdpm" -> FdpmBuffers

\* The images the program draws itself, before its first job.
NUM_FRAME == 6

UdsDrawn == {<<"in", 0>>}

LossyDrawn == {<<"in", 0>>}

ColorkeyDrawn == {<<"in0", 0>>, <<"in1", 0>>}

FdpmDrawn == {<<"refs", f>> : f \in 0 .. NUM_FRAME - 1}

Drawn ==
    CASE prog = "uds" -> UdsDrawn
      [] prog = "lossy" -> LossyDrawn
      [] prog = "colorkey" -> ColorkeyDrawn
      [] prog = "fdpm" -> FdpmDrawn

(* The jobs: the buffers the driver works on, the places a job reads and   *)
(* the one it writes, and whether main looks at the result before it goes  *)
(* on (output_fb, or the dump of the frame).  "dl" is used where dl_par    *)
(* names it; "unset" stands for the memory that dl_par of an uncleared     *)
(* vsp_par may name.                                                       *)

UdsTest(scaleup, shown) ==
    [uses |-> {"in", "out"} \cup (IF scaleup THEN {"dl"} ELSE {}),
     reads |-> {<<"in", 0>>}, writes |-> <<"out", 0>>, shown |-> shown]

LossyImageTest(mid) ==
    [uses |-> {"in", mid, "unset"}, reads |-> {<<"in", 0>>},
     writes |-> <<mid, 0>>, shown |-> FALSE]

LossyMedia == {"mid0", "mid1"} \cap fds

LossyBlendTest ==
    [uses |-> LossyMedia \cup {"out"}, reads |-> LossyMedia \X {0},
     writes |-> <<"out", 0>>, shown |-> FALSE]

ColorkeyTest(shown) ==
    [uses |-> {"in0", "in1", "out"}, reads |-> {<<"in0", 0>>, <<"in1", 0>>},
     writes |-> <<"out", 0>>, shown |-> shown]

\* Frame f refers to the next and the previous one, in a ring.
FdpmFrame(f) ==
    [uses |-> {"frames", "stlmsk"},
     reads |-> {<<"refs", (f + d) % NUM_FRAME>> : d \in {1, 0, NUM_FRAME - 1}},
     writes |-> <<"outs", f>>, shown |-> TRUE]

LossyTests ==
    (IF "mid0" \in fds THEN <<LossyImageTest("mid0")>> ELSE <<>>)
    \o (IF "mid1" \in fds THEN <<LossyImageTest("mid1")>> ELSE <<>>)
    \o <<LossyBlendTest>>

Tests ==
    CASE prog = "uds" -> <<UdsTest(FALSE, TRUE), UdsTest(TRUE, FALSE)>>
      [] prog = "lossy" -> LossyTests
      [] prog = "colorkey" -> <<ColorkeyTest(TRUE), ColorkeyTest(FALSE)>>
      [] prog = "fdpm" -> [f \in 1 .. NUM_FRAME |-> FdpmFrame(f - 1)]

-----------------------------------------------------------------------------

Init ==
    /\ SvcInit
    /\ prog \in Programs
    /\ pc = "alloc" /\ n = 1
    /\ fds = {} /\ bufs = {} /\ ready = {}
    /\ ercd = "OK" /\ job_id = NoJob
    /\ cb_info = "none" /\ got_id = NoJob /\ got_ercd = "OK"
    /\ outcome = "OK" /\ sem = 0 /\ early = FALSE

Goto(from, to) ==
    /\ pc = from
    /\ pc' = to

(* allocate_memory                                                         *)

\* After the last buffer the images are drawn.
Allocated ==
    /\ Goto("alloc", IF n = Len(Buffers) THEN "init" ELSE "alloc")
    /\ n' = IF n = Len(Buffers) THEN 1 ELSE n + 1
    /\ ready' = IF n = Len(Buffers) THEN Drawn ELSE ready
    /\ UNCHANGED <<svcVars, prog, ercd, testVars, outcome, sem>>

Allocate ==
    /\ Allocated
    /\ fds' = fds \cup {Buffers[n][1]}
    /\ bufs' = bufs \cup {Buffers[n][1]}

\* "Warning: failed to allocate memory for non-lossy!!"
AllocateWarns ==
    /\ Allocated
    /\ \/ Buffers[n][2] = "warn"
       \/ Buffers[n][2] = "warn_medium" /\ LossyMedia # {}
    /\ UNCHANGED <<fds, bufs>>

\* Mutant of AllocateFails: main goes to err_exit1.
AllocateFailsTwice ==
    /\ Goto("alloc", "release")
    /\ Buffers[n][2] # "warn"
    /\ Buffers[n][2] = "warn_medium" => LossyMedia = {}
    /\ bufs' = IF Buffers[n][2] = "return" THEN bufs ELSE bufs \ fds
    /\ UNCHANGED <<svcVars, prog, n, fds, ready, ercd, testVars, outcome, sem>>

\* main goes to err_exit0.
AllocateFails ==
    /\ Goto("alloc", "exit")
    /\ Buffers[n][2] # "warn"
    /\ Buffers[n][2] = "warn_medium" => LossyMedia = {}
    /\ bufs' = IF Buffers[n][2] = "return" THEN bufs ELSE bufs \ fds
    /\ UNCHANGED <<svcVars, prog, n, fds, ready, ercd, testVars, outcome, sem>>

(* vspm_init_driver, and the start parameters of fdpm_tp.c                 *)

InitDriver ==
    /\ Goto("init", IF Sample THEN "test" ELSE "params")
    /\ SvcInitDriver(Hdl)
    /\ UNCHANGED <<prog, n, allocVars, ercd, testVars, outcome, sem>>

InitDriverFails ==
    /\ Goto("init", "release")
    /\ ercd' = "init"
    /\ UNCHANGED <<svcVars, prog, n, allocVars, testVars, outcome, sem>>

\* Five blocks; the exit frees those it has got.  A failure leaves the session
\* open.
MakeStartParameter ==
    /\ Goto("params", "test") \/ Goto("params", "release")
    /\ UNCHANGED <<svcVars, prog, n, allocVars, ercd, testVars, outcome, sem>>

-----------------------------------------------------------------------------
(* One test of a sample                                                    *)

TestBegin ==
    /\ Goto("test", "entry")
    /\ Sample
    /\ n <= Len(Tests)
    /\ cb_info' = "live"
    /\ got_id' = NoJob /\ got_ercd' = "OK"
    /\ UNCHANGED <<svcVars, prog, n, allocVars, ercd, job_id, early, outcome,
                   sem>>

\* malloc fails.
TestBeginFails ==
    /\ Goto("test", "err_exit2")
    /\ Sample
    /\ n <= Len(Tests)
    /\ UNCHANGED <<svcVars, prog, n, allocVars, ercd, testVars, outcome, sem>>

EntryAccepted(j) ==
    /\ Goto("entry", "wait")
    /\ SvcEntryJob(Hdl, j)
    /\ job_id' = j
    /\ ercd' = "OK"
    /\ UNCHANGED <<prog, n, allocVars, cb_info, got_id, got_ercd, early,
                   outcome, sem>>

\* Mutant of EntryRefused: main goes to err_exit1.
EntryRefusedAndLeaves ==
    /\ Goto("entry", "release")
    /\ Sample
    /\ cb_info' = "freed"
    /\ ercd' = "entry"
    /\ UNCHANGED <<svcVars, prog, n, allocVars, job_id, got_id, got_ercd,
                   early, outcome, sem>>

EntryRefused ==
    /\ Goto("entry", "err_exit2")
    /\ Sample
    /\ cb_info' = "freed"
    /\ ercd' = "entry"
    /\ UNCHANGED <<svcVars, prog, n, allocVars, job_id, got_id, got_ercd,
                   early, outcome, sem>>

\* Mutant of Wait: goes on at once.
WaitNot ==
    /\ Goto("wait", "check")
    /\ Sample
    /\ UNCHANGED <<svcVars, prog, n, allocVars, ercd, testVars, outcome, sem>>

\* pthread_mutex_lock, pthread_cond_wait: no condition is tested.
Wait ==
    /\ Goto("wait", "waiting")
    /\ Sample
    /\ UNCHANGED <<svcVars, prog, n, allocVars, ercd, testVars, outcome, sem>>

\* pthread_cond_wait returns, and nobody has signalled.
WakesEarly ==
    /\ Goto("waiting", "check")
    /\ early' = TRUE
    /\ UNCHANGED <<svcVars, prog, n, allocVars, ercd, job_id, cb_info, got_id,
                   got_ercd, outcome, sem>>

\* Destroys and frees; main goes to err_exit2.
TestFails ==
    /\ pc' = "err_exit2"
    /\ cb_info' = "freed"
    /\ n' = n

TestPasses ==
    /\ pc' = IF Tests[n].shown THEN "show" ELSE "test"
    /\ n' = IF Tests[n].shown THEN n ELSE n + 1
    /\ cb_info' = "freed"

\* Mutant of CheckErcd: looks at the job_id only.
CheckNothing ==
    /\ Goto("check", "check_id")
    /\ UNCHANGED <<svcVars, prog, n, allocVars, ercd, testVars, outcome, sem>>

\* cb_info->ercd != 0, read without the mutex ...
CheckErcd ==
    /\ pc = "check"
    /\ \/ got_ercd = "NG" /\ TestFails
       \/ got_ercd = "OK" /\ pc' = "check_id" /\ UNCHANGED <<cb_info, n>>
    /\ UNCHANGED <<svcVars, prog, allocVars, ercd, job_id, got_id, got_ercd,
                   early, outcome, sem>>

\* ... || cb_info->job_id != job_id
CheckJobId ==
    /\ pc = "check_id"
    /\ IF got_id = job_id THEN TestPasses ELSE TestFails
    /\ UNCHANGED <<svcVars, prog, allocVars, ercd, job_id, got_id, got_ercd,
                   early, outcome, sem>>

(* One frame of fdpm_tp.c                                                  *)

FrameBegin ==
    /\ Goto("test", "entry")
    /\ ~Sample
    /\ n <= Len(Tests)
    /\ UNCHANGED <<svcVars, prog, n, allocVars, ercd, testVars, outcome, sem>>

\* "vspm_entry_job() Failed!!", and on to sem_wait.
FrameRefused ==
    /\ Goto("entry", "wait")
    /\ ~Sample
    /\ ercd' = "entry"
    /\ UNCHANGED <<svcVars, prog, n, allocVars, testVars, outcome, sem>>

\* Mutant of SemWait: goes on when there is nothing to take.
SemTryWait ==
    /\ Goto("wait", "show")
    /\ ~Sample
    /\ sem' = IF sem > 0 THEN sem - 1 ELSE sem
    /\ UNCHANGED <<svcVars, prog, n, allocVars, ercd, testVars, outcome>>

SemWait ==
    /\ Goto("wait", "show")
    /\ ~Sample
    /\ sem > 0
    /\ sem' = sem - 1
    /\ UNCHANGED <<svcVars, prog, n, allocVars, ercd, testVars, outcome>>

\* output_fb, or the dump of the frame into a file.
Show ==
    /\ Goto("show", "test")
    /\ n' = n + 1
    /\ UNCHANGED <<svcVars, prog, allocVars, ercd, testVars, outcome, sem>>

-----------------------------------------------------------------------------
(* The driver, and cb_func on the callback thread                          *)

\* The driver has finished job j, well or not, and the thread takes it.
CallbackBegin(j, result) ==
    /\ pc # "done"
    /\ SvcBeginCallback(Hdl, j)
    /\ outcome' = result
    /\ ready' = IF result = "OK" THEN ready \cup {Tests[n].writes} ELSE ready
    /\ UNCHANGED <<prog, pc, n, fds, bufs, ercd, testVars, sem>>

\* cb_func of a sample, under cb_info->mutex: a thread that waits is woken.
\* On a block that was freed it does nothing known.
CallbackSignals ==
    /\ Sample
    /\ pc # "done"
    /\ SvcEndCallback(Hdl)
    /\ got_id' = IF cb_info = "live" THEN running[Hdl] ELSE got_id
    /\ got_ercd' = IF cb_info = "live" THEN outcome ELSE got_ercd
    /\ pc' = IF pc = "waiting" THEN "check" ELSE pc
    /\ UNCHANGED <<prog, n, allocVars, ercd, job_id, cb_info, early, outcome,
                   sem>>

\* cb_func of fdpm_tp.c prints the result and posts.
CallbackPosts ==
    /\ ~Sample
    /\ pc # "done"
    /\ SvcEndCallback(Hdl)
    /\ sem' = sem + 1
    /\ UNCHANGED <<prog, pc, n, allocVars, ercd, testVars, outcome>>

DriverDrops ==
    /\ session[Hdl] = "quitting"
    /\ owed[Hdl] # {}
    /\ SvcDropJobs(Hdl, owed[Hdl])
    /\ UNCHANGED <<prog, pc, n, allocVars, ercd, testVars, outcome, sem>>

-----------------------------------------------------------------------------
(* The end: vspm_quit_driver after the last test or at err_exit2           *)

QuitBegin ==
    /\ \/ n > Len(Tests) /\ Goto("test", "quit")
       \/ Goto("err_exit2", "err_quit")
    /\ \E D \in SUBSET owed[Hdl] : SvcStartQuit(Hdl, D)
    /\ UNCHANGED <<prog, n, allocVars, ercd, testVars, outcome, sem>>

QuitRefused ==
    /\ \/ n > Len(Tests) /\ Goto("test", "release")
       \/ Goto("err_exit2", "release")
    /\ ercd' = "quit"
    /\ UNCHANGED <<svcVars, prog, n, allocVars, testVars, outcome, sem>>

QuitDone ==
    /\ \/ Goto("quit", IF Sample THEN "show_last" ELSE "release")
       \/ Goto("err_quit", "release")
    /\ SvcQuitDone(Hdl)
    /\ ercd' = "OK"
    /\ UNCHANGED <<prog, n, allocVars, testVars, outcome, sem>>

\* Mutant of QuitFails: err_exit2 tries again.
QuitRetries ==
    /\ Goto("quit", "err_exit2") \/ Goto("err_quit", "err_exit2")
    /\ \E D \in SUBSET owed[Hdl] : SvcQuitFails(Hdl, D)
    /\ ercd' = "quit"
    /\ UNCHANGED <<prog, n, allocVars, testVars, outcome, sem>>

QuitFails ==
    /\ Goto("quit", "release") \/ Goto("err_quit", "release")
    /\ \E D \in SUBSET owed[Hdl] : SvcQuitFails(Hdl, D)
    /\ ercd' = "quit"
    /\ UNCHANGED <<prog, n, allocVars, testVars, outcome, sem>>

ShowLast ==
    /\ Goto("show_last", "release")
    /\ UNCHANGED <<svcVars, prog, n, allocVars, ercd, testVars, outcome, sem>>

\* Mutant of ReleaseMemory: the fds are reset before they are tested.
ReleaseNothing ==
    /\ Goto("release", "exit")
    /\ fds' = {}
    /\ UNCHANGED <<svcVars, prog, n, bufs, ready, ercd, testVars, outcome,
                   sem>>

\* release_memory tests each fd and resets none.
ReleaseMemory ==
    /\ Goto("release", "exit")
    /\ bufs' = bufs \ fds
    /\ UNCHANGED <<svcVars, prog, n, fds, ready, ercd, testVars, outcome, sem>>

\* main returns.
Exit ==
    /\ Goto("exit", "done")
    /\ UNCHANGED <<svcVars, prog, n, allocVars, ercd, testVars, outcome, sem>>

-----------------------------------------------------------------------------

AllocateStep == Allocate \/ AllocateWarns \/ AllocateFails

TestStep ==
    \/ TestBegin \/ TestBeginFails
    \/ \E j \in Jobs : EntryAccepted(j)
    \/ EntryRefused \/ Wait \/ CheckErcd \/ CheckJobId

FrameStep == FrameBegin \/ FrameRefused \/ SemWait

QuitStep == QuitBegin \/ QuitRefused \/ QuitDone \/ QuitFails

MainStep ==
    \/ AllocateStep
    \/ InitDriver \/ InitDriverFails \/ MakeStartParameter
    \/ TestStep \/ FrameStep \/ Show
    \/ QuitStep \/ ShowLast \/ ReleaseMemory \/ Exit

Reports == \E j \in Jobs, result \in {"OK", "NG"} : CallbackBegin(j, result)

CallbackEnds == CallbackSignals \/ CallbackPosts

Next == MainStep \/ WakesEarly \/ Reports \/ CallbackEnds \/ DriverDrops

Spec == Init /\ [][Next]_vars

(* Main and the callback thread are scheduled, the driver reports its jobs *)
(* or drops them with the session; nobody has to wake a waiting thread.    *)
Fairness ==
    /\ WF_vars(MainStep)
    /\ WF_vars(Reports)
    /\ WF_vars(CallbackEnds)
    /\ WF_vars(DriverDrops)

FairSpec == Spec /\ Fairness

-----------------------------------------------------------------------------
(* Properties                                                              *)

Names == {"in", "in0", "in1", "mid0", "mid1", "out", "dl", "frames", "stlmsk"}

TypeOK ==
    /\ SvcTypeOK
    /\ prog \in Programs /\ pc \in Pcs
    /\ n \in 1 .. NUM_FRAME + 1
    /\ fds \subseteq Names /\ bufs \subseteq fds
    /\ ready \subseteq (Names \cup {"refs", "outs"}) \X (0 .. NUM_FRAME - 1)
    /\ ercd \in {"OK", "init", "entry", "quit"} /\ got_ercd \in {"OK", "NG"}
    /\ outcome \in {"OK", "NG"}
    /\ job_id \in Jobs \cup {NoJob} /\ got_id \in Jobs \cup {NoJob}
    /\ cb_info \in {"none", "live", "freed"}
    /\ sem \in Nat /\ early \in BOOLEAN

\* The driver works on a job of this process, or its callback executes.
Busy == owed[Hdl] # {} \/ running[Hdl] # NoJob

\* Main looks at images and enters jobs only while the driver touches none of
\* them, even after an early wake.  Without one, the sources of a job and the
\* image that is shown are finished ("check callback information"); fdpm_tp.c
\* dumps a frame whatever the result was.
ImagesReady ==
    /\ pc \in {"entry", "show", "show_last"} => ~Busy
    /\ pc = "entry" => early \/ Tests[n].reads \subseteq ready
    /\ pc = "show" => early \/ ~Sample \/ Tests[n].writes \in ready

\* The driver never works on buffers that are freed, with one exception: after
\* an early wake the test fails at once, and when vspm_quit_driver fails too,
\* err_exit1 frees the buffers of a job that is still to come.  Nothing is said
\* of the memory an unset dl_par names.
BuffersOutliveJobs ==
    Busy /\ pc # "done" =>
        \/ Tests[n].uses \ {"unset"} \subseteq bufs
        \/ early /\ ercd = "quit"

\* The callback always finds its cb_info, unless main has given up early.
CbInfoOutlivesCallback ==
    Sample /\ Busy => cb_info = "live" \/ early

\* start_sem counts exactly the callback that main waits for: there is no lost
\* wake, and no callback counts for the next frame.
SemaphoreExact ==
    ~Sample =>
        LET due == pc = "wait" /\ ercd = "OK"
        IN  /\ sem + Cardinality(owed[Hdl])
                   + (IF running[Hdl] = NoJob THEN 0 ELSE 1)
                   = IF due THEN 1 ELSE 0

\* Every exit frees each buffer it has got, and frees it once; vspm_tp_colorkey
\* alone leaves its first input when the second one cannot be allocated.
ExitReleases ==
    /\ pc = "release" => fds \subseteq bufs
    /\ pc = "exit" =>
        /\ cb_info # "live"
        /\ \/ bufs = {}
           \/ prog = "colorkey" /\ bufs = {"in0"}

\* Every exit has ended its session, or its last call was a vspm_quit_driver
\* that failed; fdpm_tp.c alone leaves the session open when it cannot allocate
\* its start parameters, before the first frame.
ExitClosesSession ==
    pc = "done" /\ session[Hdl] # "down" =>
        \/ ercd = "quit"
        \/ ~Sample /\ n = 1

\* Main waits for a callback that nothing announces any more: it is over, or
\* there was no job.
Missed ==
    \/ Sample /\ pc = "waiting" /\ ~Busy
    \/ ~Sample /\ pc = "wait" /\ ercd = "entry"

\* A program ends, or hangs in one of two ways: a sample that has missed its
\* callback, fdpm_tp.c after an entry that was refused.
ProgramEnds == <>[](pc = "done" \/ Missed)

\* "wait callback": the wait for the callback of an accepted job ends.
WaitEnds == pc \in {"wait", "waiting"} ~> pc \notin {"wait", "waiting"}
=============================================================================
