---------------------------- MODULE VspApiProofs ----------------------------
(***************************************************************************)
(* Proofs about VspApi, for any number of application threads, handles,    *)
(* records and jobs: who frees a callback record, as long as no call of    *)
(* vspm_quit_driver has failed.  A failed quit is stable, so the ownership *)
(* invariant need only survive the steps that keep every quit successful;  *)
(* none of those releases a handle, and the walk of DriverQuit, which      *)
(* takes records from the list without regard to the callback, is not      *)
(* among them.                                                             *)
(***************************************************************************)
EXTENDS VspApi, TLAPS

QuitPcs == {"quit_wait", "quit_walk", "quit_del"}

\* A thread inside Entry has a handle the client may use, and its record.
EntryCalls ==
    \A t \in Threads :
        pc[t] = "entry_job" => hdl[t] \in open /\ cb[t] \in Recs

\* A thread inside DriverQuit has its handle to itself.
QuitCalls ==
    /\ \A t \in Threads :
          pc[t] \in QuitPcs => hdl[t] \in hdl_mem \ open
    /\ \A t, u \in Threads :
          pc[t] \in QuitPcs /\ hdl[u] = hdl[t] => t = u

\* What the session of a handle can be.
Sessions ==
    /\ \A h \in open : session[h] = "up"
    /\ \A h \in Handles :
          owed[h] # {} \/ running[h] # NoJob => session[h] # "down"
    /\ \A t \in Threads :
          /\ pc[t] = "quit_wait" => session[hdl[t]] = "quitting"
          /\ pc[t] \in {"quit_walk", "quit_del"} =>
                session[hdl[t]] \in {"up", "failed"}

\* Each job came with a record.
JobsHaveRecords ==
    \A h \in Handles :
        /\ \A j \in owed[h] : user_data[j] \in Recs
        /\ cbpc[h] # "idle" =>
              running[h] \in Jobs /\ user_data[running[h]] \in Recs
        /\ cbpc[h] = "idle" => running[h] = NoJob

IInv ==
    /\ TypeOK
    /\ EntryCalls
    /\ QuitCalls
    /\ Sessions
    /\ JobsHaveRecords

-----------------------------------------------------------------------------

\* Nothing is open, and no thread is in a call.
LEMMA InitIInv == Init => IInv
<1> SUFFICES ASSUME Init PROVE IInv
  OBVIOUS
<1>1. TypeOK
  BY DEF Init, SvcInit, TypeOK, SvcTypeOK, CallPcs, CbPcs
<1>2. EntryCalls /\ QuitCalls
  BY DEF Init, EntryCalls, QuitCalls, QuitPcs
<1>3. Sessions /\ JobsHaveRecords
  BY DEF Init, SvcInit, Sessions, JobsHaveRecords
<1> QED
  BY <1>1, <1>2, <1>3 DEF IInv

\* Entry works on a handle that stays open.
LEMMA EntryStepIInv ==
    ASSUME IInv, NEW t \in Threads, EntryStep(t)
    PROVE  IInv'
<1> USE VspAssumption, ServiceAssumption
    DEF IInv, TypeOK, SvcTypeOK, CallPcs, CbPcs, Threads, Goto, Return,
        svcVars, memVars, locals, cbVars, ubVars, Use, CbInfo, QuitPcs,
        EntryCalls, QuitCalls, Sessions, JobsHaveRecords
<1>1. ASSUME NEW h \in Handles, NEW r \in Recs, EntryAdd(t, h, r)
     PROVE  IInv'
  <2>1. TypeOK'
    BY <1>1 DEF EntryAdd
  <2>2. EntryCalls'
    BY <1>1 DEF EntryAdd
  <2>3. QuitCalls'
    BY <1>1 DEF EntryAdd
  <2>4. Sessions'
    BY <1>1 DEF EntryAdd
  <2>5. JobsHaveRecords'
    BY <1>1 DEF EntryAdd
  <2> QED
    BY <2>1, <2>2, <2>3, <2>4, <2>5 DEF IInv
<1>2. ASSUME NEW j \in Jobs, EntryAccepted(t, j)
     PROVE  IInv'
  <2>1. TypeOK'
    BY <1>2 DEF EntryAccepted, SvcEntryJob, Known
  <2>2. EntryCalls'
    BY <1>2 DEF EntryAccepted, SvcEntryJob, Known
  <2>3. QuitCalls'
    BY <1>2 DEF EntryAccepted, SvcEntryJob, Known
  <2>4. Sessions'
    BY <1>2 DEF EntryAccepted, SvcEntryJob, Known
  <2>5. JobsHaveRecords'
    BY <1>2 DEF EntryAccepted, SvcEntryJob, Known
  <2> QED
    BY <2>1, <2>2, <2>3, <2>4, <2>5 DEF IInv
<1>3. CASE EntryRefused(t)
  <2>1. TypeOK'
    BY <1>3 DEF EntryRefused
  <2>2. EntryCalls'
    BY <1>3 DEF EntryRefused
  <2>3. QuitCalls'
    BY <1>3 DEF EntryRefused
  <2>4. Sessions'
    BY <1>3 DEF EntryRefused
  <2>5. JobsHaveRecords'
    BY <1>3 DEF EntryRefused
  <2> QED
    BY <2>1, <2>2, <2>3, <2>4, <2>5 DEF IInv
<1> QED
  BY <1>1, <1>2, <1>3 DEF EntryStep

\* DriverQuit takes the handle from the client first.
LEMMA QuitStepIInv ==
    ASSUME IInv, NEW t \in Threads, QuitStep(t)
    PROVE  IInv'
<1> USE VspAssumption, ServiceAssumption
    DEF IInv, TypeOK, SvcTypeOK, CallPcs, CbPcs, Threads, Goto, Return,
        svcVars, memVars, locals, cbVars, ubVars, Use, CbInfo, QuitPcs,
        EntryCalls, QuitCalls, Sessions, JobsHaveRecords
<1>1. ASSUME NEW h \in Handles, QuitBegin(t, h)
     PROVE  IInv'
  <2>1. TypeOK'
    BY <1>1 DEF QuitBegin, Leave, SvcStartQuit
  <2>2. EntryCalls'
    BY <1>1 DEF QuitBegin, Leave, SvcStartQuit
  <2>3. QuitCalls'
    BY <1>1 DEF QuitBegin, Leave, SvcStartQuit
  <2>4. Sessions'
    BY <1>1 DEF QuitBegin, Leave, SvcStartQuit
  <2>5. JobsHaveRecords'
    BY <1>1 DEF QuitBegin, Leave, SvcStartQuit
  <2> QED
    BY <2>1, <2>2, <2>3, <2>4, <2>5 DEF IInv
<1>2. ASSUME NEW h \in Handles, QuitRefused(t, h)
     PROVE  IInv'
  <2>1. TypeOK'
    BY <1>2 DEF QuitRefused, Leave, WalkFrom
  <2>2. EntryCalls'
    BY <1>2 DEF QuitRefused, Leave, WalkFrom
  <2>3. QuitCalls'
    BY <1>2 DEF QuitRefused, Leave, WalkFrom
  <2>4. Sessions'
    BY <1>2 DEF QuitRefused, Leave, WalkFrom
  <2>5. JobsHaveRecords'
    BY <1>2 DEF QuitRefused, Leave, WalkFrom
  <2> QED
    BY <2>1, <2>2, <2>3, <2>4, <2>5 DEF IInv
<1>3. CASE QuitDone(t)
  <2>1. TypeOK'
    BY <1>3 DEF QuitDone, SvcQuitDone
  <2>2. EntryCalls'
    BY <1>3 DEF QuitDone, SvcQuitDone
  <2>3. QuitCalls'
    BY <1>3 DEF QuitDone, SvcQuitDone
  <2>4. Sessions'
    BY <1>3 DEF QuitDone, SvcQuitDone
  <2>5. JobsHaveRecords'
    BY <1>3 DEF QuitDone, SvcQuitDone
  <2> QED
    BY <2>1, <2>2, <2>3, <2>4, <2>5 DEF IInv
<1>4. CASE QuitFails(t)
  <2>1. TypeOK'
    BY <1>4 DEF QuitFails, SvcQuitFails, WalkFrom
  <2>2. EntryCalls'
    BY <1>4 DEF QuitFails, SvcQuitFails, WalkFrom
  <2>3. QuitCalls'
    BY <1>4 DEF QuitFails, SvcQuitFails, WalkFrom
  <2>4. Sessions'
    BY <1>4 DEF QuitFails, SvcQuitFails, WalkFrom
  <2>5. JobsHaveRecords'
    BY <1>4 DEF QuitFails, SvcQuitFails, WalkFrom
  <2> QED
    BY <2>1, <2>2, <2>3, <2>4, <2>5 DEF IInv
<1>5. CASE QuitWalk(t)
  <2>1. TypeOK'
    BY <1>5 DEF QuitWalk, Successors
  <2>2. EntryCalls'
    BY <1>5 DEF QuitWalk, Successors
  <2>3. QuitCalls'
    BY <1>5 DEF QuitWalk, Successors
  <2>4. Sessions'
    BY <1>5 DEF QuitWalk, Successors
  <2>5. JobsHaveRecords'
    BY <1>5 DEF QuitWalk, Successors
  <2> QED
    BY <2>1, <2>2, <2>3, <2>4, <2>5 DEF IInv
<1>6. CASE QuitDel(t)
  <2>1. TypeOK'
    <3>1. cb_list' \in [Handles -> SUBSET Recs] /\ cb_mem' \subseteq Recs
      BY <1>6 DEF QuitDel
    <3> QED
      BY <1>6, <3>1 DEF QuitDel
  <2>2. EntryCalls'
    BY <1>6 DEF QuitDel
  <2>3. QuitCalls'
    BY <1>6 DEF QuitDel
  <2>4. Sessions'
    BY <1>6 DEF QuitDel
  <2>5. JobsHaveRecords'
    BY <1>6 DEF QuitDel
  <2> QED
    BY <2>1, <2>2, <2>3, <2>4, <2>5 DEF IInv
<1>7. CASE QuitFree(t)
  <2>1. TypeOK'
    BY <1>7 DEF QuitFree
  <2>2. EntryCalls'
    BY <1>7 DEF QuitFree
  <2>3. QuitCalls'
    BY <1>7 DEF QuitFree
  <2>4. Sessions'
    BY <1>7 DEF QuitFree
  <2>5. JobsHaveRecords'
    BY <1>7 DEF QuitFree
  <2> QED
    BY <2>1, <2>2, <2>3, <2>4, <2>5 DEF IInv
<1> QED
  BY <1>1, <1>2, <1>3, <1>4, <1>5, <1>6, <1>7 DEF QuitStep

\* A callback has a job, and the job its record.
LEMMA CallbackStepIInv ==
    ASSUME IInv, NEW h \in Handles, CallbackStep(h)
    PROVE  IInv'
<1> USE VspAssumption, ServiceAssumption
    DEF IInv, TypeOK, SvcTypeOK, CallPcs, CbPcs, Threads, Goto, Return,
        svcVars, memVars, locals, cbVars, ubVars, Use, CbInfo, QuitPcs,
        EntryCalls, QuitCalls, Sessions, JobsHaveRecords
<1>1. ASSUME NEW j \in Jobs, CallbackBegin(h, j)
     PROVE  IInv'
  <2>1. TypeOK'
    BY <1>1 DEF CallbackBegin, SvcBeginCallback
  <2>2. EntryCalls'
    BY <1>1 DEF CallbackBegin, SvcBeginCallback
  <2>3. QuitCalls'
    BY <1>1 DEF CallbackBegin, SvcBeginCallback
  <2>4. Sessions'
    BY <1>1 DEF CallbackBegin, SvcBeginCallback
  <2>5. JobsHaveRecords'
    BY <1>1 DEF CallbackBegin, SvcBeginCallback
  <2> QED
    BY <2>1, <2>2, <2>3, <2>4, <2>5 DEF IInv
<1>2. CASE CallbackRead(h)
  <2>1. TypeOK'
    BY <1>2 DEF CallbackRead
  <2>2. EntryCalls'
    BY <1>2 DEF CallbackRead
  <2>3. QuitCalls'
    BY <1>2 DEF CallbackRead
  <2>4. Sessions'
    BY <1>2 DEF CallbackRead
  <2>5. JobsHaveRecords'
    BY <1>2 DEF CallbackRead
  <2> QED
    BY <2>1, <2>2, <2>3, <2>4, <2>5 DEF IInv
<1>3. CASE CallbackDel(h)
  <2>1. TypeOK'
    <3>1. cb_list' \in [Handles -> SUBSET Recs]
      <4>1. \A g \in Handles : cb_list'[g] \subseteq cb_list[g]
        BY <1>3 DEF CallbackDel
      <4>2. cb_list' = [g \in Handles |-> cb_list'[g]]
        BY <1>3 DEF CallbackDel
      <4> QED
        BY <4>1, <4>2
    <3> QED
      BY <1>3, <3>1 DEF CallbackDel
  <2>2. EntryCalls'
    BY <1>3 DEF CallbackDel
  <2>3. QuitCalls'
    BY <1>3 DEF CallbackDel
  <2>4. Sessions'
    BY <1>3 DEF CallbackDel
  <2>5. JobsHaveRecords'
    BY <1>3 DEF CallbackDel
  <2> QED
    BY <2>1, <2>2, <2>3, <2>4, <2>5 DEF IInv
<1>4. CASE CallbackCancelled(h)
  <2>1. TypeOK'
    BY <1>4 DEF CallbackCancelled, SvcEndCallback
  <2>2. EntryCalls'
    BY <1>4 DEF CallbackCancelled, SvcEndCallback
  <2>3. QuitCalls'
    BY <1>4 DEF CallbackCancelled, SvcEndCallback
  <2>4. Sessions'
    BY <1>4 DEF CallbackCancelled, SvcEndCallback
  <2>5. JobsHaveRecords'
    BY <1>4 DEF CallbackCancelled, SvcEndCallback
  <2> QED
    BY <2>1, <2>2, <2>3, <2>4, <2>5 DEF IInv
<1>5. CASE CallbackEnd(h)
  <2>1. TypeOK'
    BY <1>5 DEF CallbackEnd, SvcEndCallback
  <2>2. EntryCalls'
    BY <1>5 DEF CallbackEnd, SvcEndCallback
  <2>3. QuitCalls'
    BY <1>5 DEF CallbackEnd, SvcEndCallback
  <2>4. Sessions'
    BY <1>5 DEF CallbackEnd, SvcEndCallback
  <2>5. JobsHaveRecords'
    BY <1>5 DEF CallbackEnd, SvcEndCallback
  <2> QED
    BY <2>1, <2>2, <2>3, <2>4, <2>5 DEF IInv
<1> QED
  BY <1>1, <1>2, <1>3, <1>4, <1>5 DEF CallbackStep

\* The other steps: DriverInitialize, Cancel, and what happens around them.
OtherStep ==
    \/ \E h \in Handles : DriverInitialize(h) \/ DriverDrops(h)
    \/ \E t \in Threads, h \in Handles, j \in Jobs : Cancel(t, h, j)
    \/ Dies
    \/ UNCHANGED vars

\* DriverInitialize opens a handle no thread works on.
LEMMA OtherStepIInv ==
    ASSUME IInv, OtherStep
    PROVE  IInv'
<1> USE VspAssumption, ServiceAssumption
    DEF IInv, TypeOK, SvcTypeOK, CallPcs, CbPcs, Threads, Goto, Return,
        svcVars, memVars, locals, cbVars, ubVars, Use, CbInfo, QuitPcs,
        EntryCalls, QuitCalls, Sessions, JobsHaveRecords
<1>1. ASSUME NEW h \in Handles, DriverInitialize(h)
     PROVE  IInv'
  <2>1. TypeOK'
    BY <1>1 DEF DriverInitialize, SvcInitDriver
  <2>2. EntryCalls'
    BY <1>1 DEF DriverInitialize, SvcInitDriver
  <2>3. QuitCalls'
    BY <1>1 DEF DriverInitialize, SvcInitDriver
  <2>4. Sessions'
    BY <1>1 DEF DriverInitialize, SvcInitDriver
  <2>5. JobsHaveRecords'
    BY <1>1 DEF DriverInitialize, SvcInitDriver
  <2> QED
    BY <2>1, <2>2, <2>3, <2>4, <2>5 DEF IInv
<1>2. ASSUME NEW h \in Handles, DriverDrops(h)
     PROVE  IInv'
  <2>1. TypeOK'
    BY <1>2 DEF DriverDrops, SvcDropJobs
  <2>2. EntryCalls'
    BY <1>2 DEF DriverDrops, SvcDropJobs
  <2>3. QuitCalls'
    BY <1>2 DEF DriverDrops, SvcDropJobs
  <2>4. Sessions'
    BY <1>2 DEF DriverDrops, SvcDropJobs
  <2>5. JobsHaveRecords'
    BY <1>2 DEF DriverDrops, SvcDropJobs
  <2> QED
    BY <2>1, <2>2, <2>3, <2>4, <2>5 DEF IInv
<1>3. ASSUME NEW t \in Threads, NEW h \in Handles, NEW j \in Jobs,
             Cancel(t, h, j)
     PROVE  IInv'
  <2>1. TypeOK'
    BY <1>3 DEF Cancel, SvcDropJobs
  <2>2. EntryCalls'
    BY <1>3 DEF Cancel, SvcDropJobs
  <2>3. QuitCalls'
    BY <1>3 DEF Cancel, SvcDropJobs
  <2>4. Sessions'
    BY <1>3 DEF Cancel, SvcDropJobs
  <2>5. JobsHaveRecords'
    BY <1>3 DEF Cancel, SvcDropJobs
  <2> QED
    BY <2>1, <2>2, <2>3, <2>4, <2>5 DEF IInv
<1>4. CASE Dies
  <2>1. TypeOK'
    BY <1>4 DEF Dies
  <2>2. EntryCalls'
    BY <1>4 DEF Dies
  <2>3. QuitCalls'
    BY <1>4 DEF Dies
  <2>4. Sessions'
    BY <1>4 DEF Dies
  <2>5. JobsHaveRecords'
    BY <1>4 DEF Dies
  <2> QED
    BY <2>1, <2>2, <2>3, <2>4, <2>5 DEF IInv
<1>5. CASE UNCHANGED vars
  <2>1. TypeOK'
    BY <1>5 DEF vars
  <2>2. EntryCalls'
    BY <1>5 DEF vars
  <2>3. QuitCalls'
    BY <1>5 DEF vars
  <2>4. Sessions'
    BY <1>5 DEF vars
  <2>5. JobsHaveRecords'
    BY <1>5 DEF vars
  <2> QED
    BY <2>1, <2>2, <2>3, <2>4, <2>5 DEF IInv
<1> QED
  BY <1>1, <1>2, <1>3, <1>4, <1>5 DEF OtherStep

\* Every step is one of those.
LEMMA Steps ==
    ASSUME [Next]_vars
    PROVE  \/ \E t \in Threads : EntryStep(t) \/ QuitStep(t)
           \/ \E h \in Handles : CallbackStep(h)
           \/ OtherStep
BY DEF Next, OtherStep

\* Every variable always has its type, and the invariant holds, whatever
\* quits fail and whatever freed memory is used.
THEOREM Invariance == Spec => []IInv
<1>1. IInv /\ [Next]_vars => IInv'
  BY Steps, EntryStepIInv, QuitStepIInv, CallbackStepIInv, OtherStepIInv
<1>2. QED
  BY <1>1, InitIInv, PTL DEF Spec

\* The type invariant of VspApi.
THEOREM TypeCorrect == Spec => []TypeOK
<1>1. IInv => TypeOK
  BY DEF IInv
<1>2. QED
  BY <1>1, Invariance, PTL

-----------------------------------------------------------------------------

NoQuitFailed == \A h \in Handles : ~QuitFailed(h)

KnownOf(h) == owed[h] \cup ({running[h]} \ {NoJob})

\* A listed record is allocated and names its list as its parent.
Lists ==
    \A h \in Handles :
        /\ h \notin hdl_mem => cb_list[h] = {}
        /\ \A r \in cb_list[h] : r \in cb_mem /\ parent_hdl[r] = h

\* Entry's record is listed, one thread has it, and no job leads to it before
\* the driver has it.
Entering ==
    /\ \A t \in Threads :
          pc[t] = "entry_job" =>
              /\ cb[t] \in cb_list[hdl[t]]
              /\ \A h \in Handles : \A j \in KnownOf(h) : user_data[j] # cb[t]
    /\ \A t, u \in Threads :
          pc[t] = "entry_job" /\ pc[u] = "entry_job" /\ cb[t] = cb[u]
             => t = u

\* Where the record of a job is: on the list of the handle until the callback
\* takes it off.
Reported ==
    \A h \in Handles :
        /\ \A j \in owed[h] : user_data[j] \in cb_list[h]
        /\ cbpc[h] \in {"read", "del"} => CbInfo(h) \in cb_list[h]
        /\ cbpc[h] = "del" => cb_hdl[h] = h
        /\ cbpc[h] = "user" =>
              /\ CbInfo(h) \in cb_mem \ cb_list[h]
              /\ parent_hdl[CbInfo(h)] = h

\* Different jobs lead to different records.
Apart ==
    /\ \A h \in Handles : running[h] \notin owed[h]
    /\ \A g, h \in Handles : \A j \in KnownOf(g), k \in KnownOf(h) :
          user_data[j] = user_data[k] => j = k

\* No allocated record is forgotten.
Kept ==
    \A r \in cb_mem :
        \/ \E h \in Handles : r \in cb_list[h]
        \/ \E h \in Handles : cbpc[h] = "user" /\ CbInfo(h) = r

Owned ==
    /\ Lists
    /\ Entering
    /\ Reported
    /\ Apart
    /\ Kept
    /\ ub = {}

OInv == NoQuitFailed => Owned

\* The initial state: no records.
LEMMA InitOInv == Init => OInv
BY DEF Init, SvcInit, OInv, Owned, Lists, Entering, Reported, Apart, Kept,
       KnownOf

\* A handle whose quit has failed stays so.
LEMMA FailureStays ==
    ASSUME IInv, [Next]_vars, NoQuitFailed'
    PROVE  NoQuitFailed
<1> USE VspAssumption, ServiceAssumption
    DEF IInv, TypeOK, SvcTypeOK, Threads, Goto, Return, svcVars, memVars,
        locals, cbVars, ubVars, Use, QuitPcs, EntryCalls, QuitCalls,
        Sessions, NoQuitFailed, QuitFailed
<1>1. ASSUME NEW t \in Threads, EntryStep(t)
     PROVE  NoQuitFailed
  <2>1. ASSUME NEW h \in Handles, NEW r \in Recs, EntryAdd(t, h, r)
       PROVE  NoQuitFailed
    BY <2>1 DEF EntryAdd
  <2>2. ASSUME NEW j \in Jobs, EntryAccepted(t, j)
       PROVE  NoQuitFailed
    BY <2>2 DEF EntryAccepted, SvcEntryJob, Known
  <2>3. CASE EntryRefused(t)
    BY <2>3 DEF EntryRefused
  <2> QED
    BY <1>1, <2>1, <2>2, <2>3 DEF EntryStep
<1>2. ASSUME NEW t \in Threads, QuitStep(t)
     PROVE  NoQuitFailed
  <2>1. ASSUME NEW h \in Handles, QuitBegin(t, h)
       PROVE  NoQuitFailed
    BY <2>1 DEF QuitBegin, Leave, SvcStartQuit
  <2>2. ASSUME NEW h \in Handles, QuitRefused(t, h)
       PROVE  NoQuitFailed
    BY <2>2 DEF QuitRefused, Leave, WalkFrom
  <2>3. CASE QuitDone(t)
    BY <2>3 DEF QuitDone, SvcQuitDone
  <2>4. CASE QuitFails(t)
    BY <2>4 DEF QuitFails, SvcQuitFails, WalkFrom
  <2>5. CASE QuitWalk(t)
    BY <2>5 DEF QuitWalk, Successors
  <2>6. CASE QuitDel(t)
    BY <2>6 DEF QuitDel
  <2>7. CASE QuitFree(t)
    BY <2>7 DEF QuitFree
  <2> QED
    BY <1>2, <2>1, <2>2, <2>3, <2>4, <2>5, <2>6, <2>7 DEF QuitStep
<1>3. ASSUME NEW h \in Handles, CallbackStep(h)
     PROVE  NoQuitFailed
  <2>1. ASSUME NEW j \in Jobs, CallbackBegin(h, j)
       PROVE  NoQuitFailed
    BY <2>1 DEF CallbackBegin, SvcBeginCallback
  <2>2. CASE CallbackRead(h)
    BY <2>2 DEF CallbackRead
  <2>3. CASE CallbackDel(h)
    BY <2>3 DEF CallbackDel
  <2>4. CASE CallbackCancelled(h)
    BY <2>4 DEF CallbackCancelled, SvcEndCallback
  <2>5. CASE CallbackEnd(h)
    BY <2>5 DEF CallbackEnd, SvcEndCallback
  <2> QED
    BY <1>3, <2>1, <2>2, <2>3, <2>4, <2>5 DEF CallbackStep
<1>4. CASE OtherStep
  <2>1. ASSUME NEW h \in Handles, DriverInitialize(h)
       PROVE  NoQuitFailed
    BY <2>1 DEF DriverInitialize, SvcInitDriver
  <2>2. ASSUME NEW h \in Handles, DriverDrops(h)
       PROVE  NoQuitFailed
    BY <2>2 DEF DriverDrops, SvcDropJobs
  <2>3. ASSUME NEW t \in Threads, NEW h \in Handles, NEW j \in Jobs,
               Cancel(t, h, j)
       PROVE  NoQuitFailed
    BY <2>3 DEF Cancel, SvcDropJobs
  <2>4. CASE Dies
    BY <2>4 DEF Dies
  <2>5. CASE UNCHANGED vars
    BY <2>5 DEF vars
  <2> QED
    BY <1>4, <2>1, <2>2, <2>3, <2>4, <2>5 DEF OtherStep
<1> QED
  BY <1>1, <1>2, <1>3, <1>4, Steps

\* As long as no quit has failed, no thread walks a list to release it, and a
\* handle with a session is allocated.
LEMMA NoWalk ==
    ASSUME IInv, NoQuitFailed
    PROVE  /\ \A t \in Threads : pc[t] \notin {"quit_walk", "quit_del"}
           /\ \A h \in Handles : session[h] # "down" => h \in hdl_mem
<1>1. ASSUME NEW t \in Threads, pc[t] \in {"quit_walk", "quit_del"}
      PROVE  FALSE
  <2>1. /\ hdl[t] \in Handles \ open
        /\ session[hdl[t]] \in {"up", "failed"}
    BY <1>1 DEF IInv, TypeOK, QuitCalls, QuitPcs, Sessions
  <2> QED
    BY <2>1 DEF NoQuitFailed, QuitFailed
<1>2. ASSUME NEW h \in Handles, session[h] # "down"
      PROVE  h \in hdl_mem
  BY <1>2 DEF NoQuitFailed, QuitFailed, IInv, TypeOK
<1> QED
  BY <1>1, <1>2

\* A job that is not known is neither owed nor reported by any handle.
LEMMA NotKnown ==
    ASSUME NEW j \in Jobs \ Known, NEW h \in Handles
    PROVE  j \notin owed[h] /\ j # running[h]
<1> DEFINE S == {owed[g] \cup {running[g]} : g \in Handles}
<1>1. j # NoJob /\ j \notin UNION S
  BY ServiceAssumption DEF Known
<1>2. owed[h] \cup {running[h]} \in S
  OBVIOUS
<1> QED
  BY <1>1, <1>2

\* Different jobs lead to different records as long as no job comes or goes.
LEMMA SameJobs ==
    ASSUME Apart, UNCHANGED <<owed, running, user_data>>
    PROVE  Apart'
BY DEF Apart, KnownOf

\* Entry lists a fresh record and, with its job, gives it to the driver.
LEMMA EntryStepOwned ==
    ASSUME IInv, NoQuitFailed, Owned, NEW t \in Threads, EntryStep(t)
    PROVE  Owned'
<1> USE VspAssumption, ServiceAssumption
    DEF IInv, TypeOK, SvcTypeOK, CallPcs, CbPcs, Threads, Goto, Return,
        svcVars, memVars, locals, cbVars, ubVars, Use, CbInfo, QuitPcs,
        EntryCalls, QuitCalls, Sessions, JobsHaveRecords, NoQuitFailed,
        QuitFailed, KnownOf, Owned, Lists, Entering, Reported, Apart, Kept
<1>1. ASSUME NEW h \in Handles, NEW r \in Recs, EntryAdd(t, h, r)
     PROVE  Owned'
  <2>1. Lists'
    BY <1>1, NoWalk DEF EntryAdd
  <2>2. Entering'
    BY <1>1, NoWalk DEF EntryAdd
  <2>3. Reported'
    BY <1>1, NoWalk DEF EntryAdd
  <2>4. Apart'
    <3>1. Apart /\ UNCHANGED <<owed, running, user_data>>
      BY <1>1 DEF EntryAdd
    <3> HIDE DEF IInv, Owned, Apart
    <3> QED
      BY <3>1, SameJobs
  <2>5. Kept'
    <3>1. /\ Kept /\ cb_mem' = cb_mem \cup {r} /\ h \in Handles
          /\ cb_list' = [cb_list EXCEPT ![h] = @ \cup {r}]
          /\ cb_list \in [Handles -> SUBSET Recs]
          /\ UNCHANGED <<running, user_data, cbpc>>
      BY <1>1 DEF EntryAdd
    <3> HIDE DEF IInv, Owned
    <3> QED
      BY <3>1
  <2>6. ub' = {}
    BY <1>1, NoWalk DEF EntryAdd
  <2> QED
    BY <2>1, <2>2, <2>3, <2>4, <2>5, <2>6 DEF Owned
<1>2. ASSUME NEW j \in Jobs, EntryAccepted(t, j)
     PROVE  Owned'
  <2>1. Lists'
    BY <1>2, NoWalk DEF EntryAccepted, SvcEntryJob, Known
  <2>2. Entering'
    BY <1>2, NoWalk DEF EntryAccepted, SvcEntryJob, Known
  <2>3. Reported'
    BY <1>2, NoWalk DEF EntryAccepted, SvcEntryJob, Known
  <2>4. Apart'
    BY <1>2, NoWalk DEF EntryAccepted, SvcEntryJob, Known
  <2>5. Kept'
    <3>1. \A g \in Handles : j # running[g]
      BY <1>2, NotKnown DEF EntryAccepted, SvcEntryJob
    <3>2. UNCHANGED <<cb_mem, cb_list, cbpc, running>>
      BY <1>2 DEF EntryAccepted, SvcEntryJob
    <3>3. \A g \in Handles : cbpc[g] = "user" => CbInfo(g)' = CbInfo(g)
      BY <1>2, <3>1, <3>2 DEF EntryAccepted
    <3> QED
      BY <3>2, <3>3
  <2>6. ub' = {}
    BY <1>2, NoWalk DEF EntryAccepted, SvcEntryJob, Known
  <2> QED
    BY <2>1, <2>2, <2>3, <2>4, <2>5, <2>6 DEF Owned
<1>3. CASE EntryRefused(t)
  <2>1. Lists'
    BY <1>3, NoWalk DEF EntryRefused
  <2>2. Entering'
    BY <1>3, NoWalk DEF EntryRefused
  <2>3. Reported'
    BY <1>3, NoWalk DEF EntryRefused
  <2>4. Apart'
    BY <1>3, NoWalk DEF EntryRefused
  <2>5. Kept'
    BY <1>3, NoWalk DEF EntryRefused
  <2>6. ub' = {}
    BY <1>3, NoWalk DEF EntryRefused
  <2> QED
    BY <2>1, <2>2, <2>3, <2>4, <2>5, <2>6 DEF Owned
<1> QED
  BY <1>1, <1>2, <1>3 DEF EntryStep

\* A quit that does not fail takes jobs out of the driver and moves no record.
LEMMA QuitStepOwned ==
    ASSUME IInv, NoQuitFailed, Owned, NEW t \in Threads, QuitStep(t),
           NoQuitFailed'
    PROVE  Owned'
<1> USE VspAssumption, ServiceAssumption
    DEF IInv, TypeOK, SvcTypeOK, CallPcs, CbPcs, Threads, Goto, Return,
        svcVars, memVars, locals, cbVars, ubVars, Use, CbInfo, QuitPcs,
        EntryCalls, QuitCalls, Sessions, JobsHaveRecords, NoQuitFailed,
        QuitFailed, KnownOf, Owned, Lists, Entering, Reported, Apart, Kept
<1>1. ASSUME NEW h \in Handles, QuitBegin(t, h)
     PROVE  Owned'
  <2>1. Lists'
    BY <1>1, NoWalk DEF QuitBegin, Leave, SvcStartQuit
  <2>2. Entering'
    BY <1>1, NoWalk DEF QuitBegin, Leave, SvcStartQuit
  <2>3. Reported'
    BY <1>1, NoWalk DEF QuitBegin, Leave, SvcStartQuit
  <2>4. Apart'
    BY <1>1, NoWalk DEF QuitBegin, Leave, SvcStartQuit
  <2>5. Kept'
    BY <1>1, NoWalk DEF QuitBegin, Leave, SvcStartQuit
  <2>6. ub' = {}
    BY <1>1, NoWalk DEF QuitBegin, Leave, SvcStartQuit
  <2> QED
    BY <2>1, <2>2, <2>3, <2>4, <2>5, <2>6 DEF Owned
<1>2. CASE QuitDone(t)
  <2>1. Lists'
    BY <1>2, NoWalk DEF QuitDone, SvcQuitDone
  <2>2. Entering'
    BY <1>2, NoWalk DEF QuitDone, SvcQuitDone
  <2>3. Reported'
    BY <1>2, NoWalk DEF QuitDone, SvcQuitDone
  <2>4. Apart'
    BY <1>2, NoWalk DEF QuitDone, SvcQuitDone
  <2>5. Kept'
    BY <1>2, NoWalk DEF QuitDone, SvcQuitDone
  <2>6. ub' = {}
    BY <1>2, NoWalk DEF QuitDone, SvcQuitDone
  <2> QED
    BY <2>1, <2>2, <2>3, <2>4, <2>5, <2>6 DEF Owned
<1>3. ASSUME NEW h \in Handles, QuitRefused(t, h)
     PROVE  FALSE
  BY <1>3 DEF QuitRefused, Leave
<1>4. CASE QuitFails(t)
  BY <1>4 DEF QuitFails, SvcQuitFails
<1>5. CASE QuitWalk(t) \/ QuitDel(t) \/ QuitFree(t)
  BY <1>5, NoWalk DEF QuitWalk, QuitDel, QuitFree
<1> QED
  BY <1>1, <1>2, <1>3, <1>4, <1>5 DEF QuitStep

\* The callback always finds its record on the list, and frees it last.
LEMMA CallbackStepOwned ==
    ASSUME IInv, NoQuitFailed, Owned, NEW h \in Handles, CallbackStep(h)
    PROVE  Owned'
<1> USE VspAssumption, ServiceAssumption
    DEF IInv, TypeOK, SvcTypeOK, CallPcs, CbPcs, Threads, Goto, Return,
        svcVars, memVars, locals, cbVars, ubVars, Use, CbInfo, QuitPcs,
        EntryCalls, QuitCalls, Sessions, JobsHaveRecords, NoQuitFailed,
        QuitFailed, KnownOf, Owned, Lists, Entering, Reported, Apart, Kept
<1>1. ASSUME NEW j \in Jobs, CallbackBegin(h, j)
     PROVE  Owned'
  <2>1. Lists'
    BY <1>1, NoWalk DEF CallbackBegin, SvcBeginCallback
  <2>2. Entering'
    BY <1>1, NoWalk DEF CallbackBegin, SvcBeginCallback
  <2>3. Reported'
    BY <1>1, NoWalk DEF CallbackBegin, SvcBeginCallback
  <2>4. Apart'
    BY <1>1, NoWalk DEF CallbackBegin, SvcBeginCallback
  <2>5. Kept'
    BY <1>1, NoWalk DEF CallbackBegin, SvcBeginCallback
  <2>6. ub' = {}
    BY <1>1, NoWalk DEF CallbackBegin, SvcBeginCallback
  <2> QED
    BY <2>1, <2>2, <2>3, <2>4, <2>5, <2>6 DEF Owned
<1>2. CASE CallbackRead(h)
  <2>1. Lists'
    BY <1>2, NoWalk DEF CallbackRead
  <2>2. Entering'
    BY <1>2, NoWalk DEF CallbackRead
  <2>3. Reported'
    BY <1>2, NoWalk DEF CallbackRead
  <2>4. Apart'
    BY <1>2, NoWalk DEF CallbackRead
  <2>5. Kept'
    BY <1>2, NoWalk DEF CallbackRead
  <2>6. ub' = {}
    BY <1>2, NoWalk DEF CallbackRead
  <2> QED
    BY <2>1, <2>2, <2>3, <2>4, <2>5, <2>6 DEF Owned
<1>3. CASE CallbackDel(h)
  <2>1. Lists'
    BY <1>3, NoWalk DEF CallbackDel
  <2>2. Entering'
    BY <1>3, NoWalk DEF CallbackDel
  <2>3. Reported'
    BY <1>3, NoWalk DEF CallbackDel
  <2>4. Apart'
    BY <1>3, NoWalk DEF CallbackDel
  <2>5. Kept'
    BY <1>3, NoWalk DEF CallbackDel
  <2>6. ub' = {}
    BY <1>3, NoWalk DEF CallbackDel
  <2> QED
    BY <2>1, <2>2, <2>3, <2>4, <2>5, <2>6 DEF Owned
<1>4. CASE CallbackCancelled(h)
  <2>1. Lists'
    BY <1>4, NoWalk DEF CallbackCancelled, SvcEndCallback
  <2>2. Entering'
    BY <1>4, NoWalk DEF CallbackCancelled, SvcEndCallback
  <2>3. Reported'
    BY <1>4, NoWalk DEF CallbackCancelled, SvcEndCallback
  <2>4. Apart'
    BY <1>4, NoWalk DEF CallbackCancelled, SvcEndCallback
  <2>5. Kept'
    BY <1>4, NoWalk DEF CallbackCancelled, SvcEndCallback
  <2>6. ub' = {}
    BY <1>4, NoWalk DEF CallbackCancelled, SvcEndCallback
  <2> QED
    BY <2>1, <2>2, <2>3, <2>4, <2>5, <2>6 DEF Owned
<1>5. CASE CallbackEnd(h)
  <2>1. Lists'
    BY <1>5, NoWalk DEF CallbackEnd, SvcEndCallback
  <2>2. Entering'
    BY <1>5, NoWalk DEF CallbackEnd, SvcEndCallback
  <2>3. Reported'
    BY <1>5, NoWalk DEF CallbackEnd, SvcEndCallback
  <2>4. Apart'
    BY <1>5, NoWalk DEF CallbackEnd, SvcEndCallback
  <2>5. Kept'
    BY <1>5, NoWalk DEF CallbackEnd, SvcEndCallback
  <2>6. ub' = {}
    BY <1>5, NoWalk DEF CallbackEnd, SvcEndCallback
  <2> QED
    BY <2>1, <2>2, <2>3, <2>4, <2>5, <2>6 DEF Owned
<1> QED
  BY <1>1, <1>2, <1>3, <1>4, <1>5 DEF CallbackStep

\* DriverInitialize finds an empty list; Cancel leaves the record on it.
LEMMA OtherStepOwned ==
    ASSUME IInv, NoQuitFailed, Owned, OtherStep
    PROVE  Owned'
<1> USE VspAssumption, ServiceAssumption
    DEF IInv, TypeOK, SvcTypeOK, CallPcs, CbPcs, Threads, Goto, Return,
        svcVars, memVars, locals, cbVars, ubVars, Use, CbInfo, QuitPcs,
        EntryCalls, QuitCalls, Sessions, JobsHaveRecords, NoQuitFailed,
        QuitFailed, KnownOf, Owned, Lists, Entering, Reported, Apart, Kept
<1>1. ASSUME NEW h \in Handles, DriverInitialize(h)
     PROVE  Owned'
  <2>1. Lists'
    BY <1>1, NoWalk DEF DriverInitialize, SvcInitDriver
  <2>2. Entering'
    BY <1>1, NoWalk DEF DriverInitialize, SvcInitDriver
  <2>3. Reported'
    BY <1>1, NoWalk DEF DriverInitialize, SvcInitDriver
  <2>4. Apart'
    BY <1>1, NoWalk DEF DriverInitialize, SvcInitDriver
  <2>5. Kept'
    BY <1>1, NoWalk DEF DriverInitialize, SvcInitDriver
  <2>6. ub' = {}
    BY <1>1, NoWalk DEF DriverInitialize, SvcInitDriver
  <2> QED
    BY <2>1, <2>2, <2>3, <2>4, <2>5, <2>6 DEF Owned
<1>2. ASSUME NEW h \in Handles, DriverDrops(h)
     PROVE  Owned'
  <2>1. Lists'
    BY <1>2, NoWalk DEF DriverDrops, SvcDropJobs
  <2>2. Entering'
    BY <1>2, NoWalk DEF DriverDrops, SvcDropJobs
  <2>3. Reported'
    BY <1>2, NoWalk DEF DriverDrops, SvcDropJobs
  <2>4. Apart'
    BY <1>2, NoWalk DEF DriverDrops, SvcDropJobs
  <2>5. Kept'
    BY <1>2, NoWalk DEF DriverDrops, SvcDropJobs
  <2>6. ub' = {}
    BY <1>2, NoWalk DEF DriverDrops, SvcDropJobs
  <2> QED
    BY <2>1, <2>2, <2>3, <2>4, <2>5, <2>6 DEF Owned
<1>3. ASSUME NEW t \in Threads, NEW h \in Handles, NEW j \in Jobs,
             Cancel(t, h, j)
     PROVE  Owned'
  <2>1. Lists'
    BY <1>3, NoWalk DEF Cancel, SvcDropJobs
  <2>2. Entering'
    BY <1>3, NoWalk DEF Cancel, SvcDropJobs
  <2>3. Reported'
    BY <1>3, NoWalk DEF Cancel, SvcDropJobs
  <2>4. Apart'
    BY <1>3, NoWalk DEF Cancel, SvcDropJobs
  <2>5. Kept'
    BY <1>3, NoWalk DEF Cancel, SvcDropJobs
  <2>6. ub' = {}
    BY <1>3, NoWalk DEF Cancel, SvcDropJobs
  <2> QED
    BY <2>1, <2>2, <2>3, <2>4, <2>5, <2>6 DEF Owned
<1>4. CASE Dies
  <2>1. Lists'
    BY <1>4, NoWalk DEF Dies
  <2>2. Entering'
    BY <1>4, NoWalk DEF Dies
  <2>3. Reported'
    BY <1>4, NoWalk DEF Dies
  <2>4. Apart'
    BY <1>4, NoWalk DEF Dies
  <2>5. Kept'
    BY <1>4, NoWalk DEF Dies
  <2>6. ub' = {}
    BY <1>4, NoWalk DEF Dies
  <2> QED
    BY <2>1, <2>2, <2>3, <2>4, <2>5, <2>6 DEF Owned
<1>5. CASE UNCHANGED vars
  <2>1. Lists'
    BY <1>5, NoWalk DEF vars
  <2>2. Entering'
    BY <1>5, NoWalk DEF vars
  <2>3. Reported'
    BY <1>5, NoWalk DEF vars
  <2>4. Apart'
    BY <1>5, NoWalk DEF vars
  <2>5. Kept'
    BY <1>5, NoWalk DEF vars
  <2>6. ub' = {}
    BY <1>5, NoWalk DEF vars
  <2> QED
    BY <2>1, <2>2, <2>3, <2>4, <2>5, <2>6 DEF Owned
<1> QED
  BY <1>1, <1>2, <1>3, <1>4, <1>5 DEF OtherStep

\* The ownership invariant always holds.
THEOREM Ownership == Spec => []OInv
<1>1. IInv /\ OInv /\ [Next]_vars => OInv'
  BY Steps, FailureStays, EntryStepOwned, QuitStepOwned, CallbackStepOwned,
     OtherStepOwned DEF OInv
<1>2. QED
  BY <1>1, InitOInv, Invariance, PTL DEF Spec

-----------------------------------------------------------------------------

\* As long as no quit has failed, every allocated record has one owner, a freed
\* one none, and the record of a job the driver will report is listed: no
\* double free and no lost record between Entry and the callbacks.
THEOREM RecordOwnership == Spec => []RecordsOwned
<1>1. ASSUME IInv, Owned PROVE RecordsOwned
  <2>1. ASSUME NEW r \in Recs
        PROVE  IF r \in cb_mem THEN \E o \in Owners(r) : Owners(r) = {o}
               ELSE Owners(r) = {}
    <3> DEFINE L == {h \in Handles : r \in cb_list[h]}
               C == {h \in Handles : cbpc[h] = "user" /\ CbInfo(h) = r}
    <3>1. /\ \A g, h \in L : g = h
          /\ \A g, h \in C : g = h
      BY <1>1 DEF Owned, Lists, Reported
    <3>2. L = {} \/ C = {}
      BY <1>1 DEF Owned, Lists, Reported
    <3>3. r \in cb_mem <=> L # {} \/ C # {}
      BY <1>1 DEF Owned, Lists, Reported, Kept
    <3>4. Owners(r) = {<<"list", h>> : h \in L} \cup
                      {<<"callback", h>> : h \in C}
      BY DEF Owners
    <3>5. CASE L # {}
      <4>1. PICK x \in L : L = {x}
        BY <3>1, <3>5
      <4>2. Owners(r) = {<<"list", x>>}
        BY <3>2, <3>4, <3>5, <4>1
      <4> QED
        BY <3>3, <3>5, <4>2
    <3>6. CASE C # {}
      <4>1. PICK x \in C : C = {x}
        BY <3>1, <3>6
      <4>2. Owners(r) = {<<"callback", x>>}
        BY <3>2, <3>4, <3>6, <4>1
      <4> QED
        BY <3>3, <3>6, <4>2
    <3>7. CASE L = {} /\ C = {}
      BY <3>3, <3>4, <3>7
    <3> QED
      BY <3>5, <3>6, <3>7
  <2>2. \A h \in Handles : \A j \in owed[h] : user_data[j] \in cb_list[h]
    BY <1>1 DEF Owned, Reported
  <2> QED
    BY <2>1, <2>2 DEF RecordsOwned
<1>2. IInv /\ OInv => RecordsOwned
  BY <1>1 DEF OInv, NoQuitFailed, RecordsOwned
<1>3. QED
  BY <1>2, Invariance, Ownership, PTL

\* As long as no quit has failed, neither Entry nor a callback uses a record or
\* a handle that was freed.
THEOREM NoUseOfFreedMemory == Spec => []NoUseAfterFree
<1>1. OInv => NoUseAfterFree
  BY DEF OInv, Owned, NoQuitFailed, NoUseAfterFree
<1>2. QED
  BY <1>1, Ownership, PTL

\* As long as no quit has failed, the callback of a request reports the result
\* of that request: no other job the driver knows of leads to its record.
THEOREM ResultSafety == Spec => []ResultBelongsToRequest
<1>1. ASSUME IInv, Owned PROVE ResultBelongsToRequest
  <2> SUFFICES ASSUME NEW h \in Handles, NEW j \in Known,
                      cbpc[h] = "user", user_data[j] = CbInfo(h)
               PROVE  j = running[h]
    BY DEF ResultBelongsToRequest
  <2>1. PICK g \in Handles : j \in KnownOf(g)
    BY DEF Known, KnownOf
  <2>2. running[h] \in KnownOf(h)
    BY <1>1, ServiceAssumption DEF IInv, JobsHaveRecords, KnownOf
  <2> QED
    BY <1>1, <2>1, <2>2 DEF Owned, Apart, CbInfo
<1>2. IInv /\ OInv => ResultBelongsToRequest
  BY <1>1 DEF OInv, NoQuitFailed, ResultBelongsToRequest
<1>3. QED
  BY <1>2, Invariance, Ownership, PTL

-----------------------------------------------------------------------------

\* A thread inside VSPM_lib_Entry works on a session that is up, and one in
\* VSPM_lib_DriverQuit on a handle nobody else is in a call with: the callers
\* of vspm_entry_job and vspm_quit_driver keep the rule vspm_api.c needs.
CallsInSession ==
    /\ \A t \in Threads : pc[t] = "entry_job" => session[hdl[t]] = "up"
    /\ \A t, u \in Threads :
          pc[t] = "quit_wait" /\ t # u => hdl[u] # hdl[t]

\* This holds for the clients of the model, also after a quit has failed.
THEOREM CallSafety == Spec => []CallsInSession
<1>1. IInv => CallsInSession
  BY DEF IInv, EntryCalls, QuitCalls, QuitPcs, Sessions, CallsInSession
<1>2. QED
  BY <1>1, Invariance, PTL

\* The layer is a client of the service: every step is a step of VspmService on
\* a handle the layer has, or leaves the service alone.
THEOREM ServiceUse == Spec => SvcSpec
<1>1. Init => SvcInit
  BY DEF Init
<1>2. ASSUME IInv, [Next]_vars PROVE [SvcNext]_svcVars
  <2> USE DEF Goto, Return, locals, memVars, cbVars, ubVars
  <2>1. ASSUME NEW t \in Threads, pc[t] \in QuitPcs \cup {"entry_job"}
        PROVE  hdl[t] \in Handles
    BY <1>2, <2>1 DEF IInv, TypeOK, EntryCalls, QuitCalls
  <2>2. ASSUME NEW h \in Handles,
               DriverInitialize(h) \/ CallbackStep(h) \/ DriverDrops(h)
        PROVE  [SvcNext]_svcVars
    BY <2>2
       DEF DriverInitialize, CallbackStep, CallbackBegin, CallbackRead,
           CallbackDel, CallbackCancelled, CallbackEnd, DriverDrops, SvcNext
  <2>3. ASSUME NEW t \in Threads, EntryStep(t) PROVE [SvcNext]_svcVars
    <3>1. ASSUME NEW j \in Jobs, EntryAccepted(t, j) PROVE [SvcNext]_svcVars
      BY <2>1, <3>1 DEF EntryAccepted, SvcNext
    <3> QED
      BY <2>3, <3>1 DEF EntryStep, EntryAdd, EntryRefused
  <2>4. ASSUME NEW t \in Threads, QuitStep(t) PROVE [SvcNext]_svcVars
    <3>1. ASSUME NEW h \in Handles, QuitBegin(t, h) PROVE [SvcNext]_svcVars
      BY <3>1 DEF QuitBegin, SvcNext
    <3>2. CASE QuitDone(t)
      BY <2>1, <3>2 DEF QuitDone, QuitPcs, SvcNext
    <3>3. CASE QuitFails(t)
      BY <2>1, <3>3 DEF QuitFails, QuitPcs, SvcNext
    <3> QED
      BY <2>4, <3>1, <3>2, <3>3
         DEF QuitStep, QuitRefused, QuitWalk, QuitDel, QuitFree
  <2>5. ASSUME NEW t \in Threads, NEW h \in Handles, NEW j \in Jobs,
               Cancel(t, h, j)
        PROVE  [SvcNext]_svcVars
    BY <2>5 DEF Cancel, SvcNext
  <2>6. Dies \/ UNCHANGED vars => [SvcNext]_svcVars
    BY DEF Dies, vars
  <2> QED
    BY <1>2, <2>2, <2>3, <2>4, <2>5, <2>6 DEF Next
<1>3. QED
  BY <1>1, <1>2, Invariance, PTL DEF Spec, SvcSpec
=============================================================================
