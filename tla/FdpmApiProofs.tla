--------------------------- MODULE FdpmApiProofs ---------------------------
(***************************************************************************)
(* Proofs about FdpmApi, for any number of application threads, handles,   *)
(* records and jobs, and any set of the five calls in use, drv_FDPM_Cancel *)
(* and its races included.                                                 *)
(*                                                                         *)
(* The inductive invariant splits the handles in use into those on the     *)
(* list, which only a holder of fdp_hdl_mutex works with, and those that   *)
(* one application thread is opening or closing.                           *)
(***************************************************************************)
EXTENDS FdpmApi, TLAPS

\* A thread inside Start, Cancel or Status holds the lock and a listed handle.
LockHeld ==
    \A t \in Threads :
        pc[t] \in LockedPcs => fdp_hdl_mutex = t /\ hdl[t] \in hdl_list

\* A thread inside Open or Close has its handle to itself.
PrivatePcs == ClosePcs \cup {"open_add"}

PrivateHandles ==
    /\ \A t \in Threads :
          pc[t] \in PrivatePcs => t \in Apps /\ hdl[t] \in hdl_mem \ hdl_list
    /\ \A t, u \in Threads :
          t # u /\ pc[t] \in PrivatePcs /\ pc[u] \in PrivatePcs
             => hdl[t] # hdl[u]

\* The session of a handle is up while it is listed or about to be, down
\* before its release, and never up without the memory of the handle.
Sessions ==
    /\ \A h \in hdl_list : session[h] = "up"
    /\ \A h \in Handles : session[h] # "down" => h \in hdl_mem
    /\ \A t \in Threads :
          /\ pc[t] = "open_add" => session[hdl[t]] = "up"
          /\ pc[t] = "close_drain" => session[hdl[t]] = "down"

\* Jobs belong to a session, and each came with a record.
JobsHaveRecords ==
    /\ \A h \in Handles :
          /\ owed[h] # {} \/ running[h] # NoJob => session[h] # "down"
          /\ \A j \in owed[h] : user_data[j] \in Recs
          /\ cbpc[h] # "idle" =>
                running[h] \in Jobs /\ user_data[running[h]] \in Recs
          /\ cbpc[h] = "idle" => running[h] = NoJob
    /\ \A t \in Threads :
          pc[t] \in {"start_lock", "start_entry", "start_store"}
             => cb[t] \in Recs

\* Handles on the list have different ids, so an id names one handle.
IdsUnique ==
    \A g, h \in hdl_list : id[g] = id[h] => g = h

\* The ids on the list were given out, each to one handle.
IdsGivenOut ==
    /\ \A h \in hdl_list : id[h] <= seed_id
    /\ IdsUnique

IInv ==
    /\ TypeOK
    /\ LockHeld
    /\ PrivateHandles
    /\ Sessions
    /\ JobsHaveRecords
    /\ IdsGivenOut

-----------------------------------------------------------------------------

\* Nothing is open, and no thread is in a call.
LEMMA InitIInv == Init => IInv
<1> SUFFICES ASSUME Init PROVE IInv
  OBVIOUS
<1>1. TypeOK
  BY DEF Init, SvcInit, TypeOK, SvcTypeOK, CallPcs, CbPcs
<1>2. LockHeld /\ PrivateHandles
  BY DEF Init, LockHeld, LockedPcs, PrivateHandles, PrivatePcs, ClosePcs
<1>3. Sessions /\ JobsHaveRecords /\ IdsGivenOut
  BY DEF Init, SvcInit, Sessions, JobsHaveRecords, IdsGivenOut, IdsUnique
<1> QED
  BY <1>1, <1>2, <1>3 DEF IInv

\* drv_FDPM_Open: the handle is private until vspm_if_add_handle lists it.
LEMMA OpenStepIInv ==
    ASSUME IInv, NEW t \in Apps, OpenStep(t)
    PROVE  IInv'
<1> USE FdpmAssumption, ServiceAssumption
    DEF IInv, TypeOK, SvcTypeOK, CallPcs, CbPcs, Threads, Goto, Return,
        svcVars, lockVars, memVars, locals, ubVars, Touch, Dies,
        Wrongs, LockHeld, LockedPcs, PrivateHandles, PrivatePcs, ClosePcs,
        Sessions, JobsHaveRecords, IdsGivenOut, IdsUnique, get_handle, Ids
<1>1. CASE OpenAdd(t)
  BY <1>1 DEF OpenAdd
<1>2. ASSUME NEW h \in Handles, OpenInit(t, h)
     PROVE  IInv'
  BY <1>2 DEF OpenInit, SvcInitDriver
<1> QED
  BY <1>1, <1>2 DEF OpenStep

\* drv_FDPM_Close: vspm_if_del_handle makes the handle private again.
LEMMA CloseStepIInv ==
    ASSUME IInv, NEW t \in Apps, CloseStep(t)
    PROVE  IInv'
<1> USE FdpmAssumption, ServiceAssumption
    DEF IInv, TypeOK, SvcTypeOK, CallPcs, CbPcs, Threads, Goto, Return,
        svcVars, lockVars, memVars, locals, ubVars, Touch, Dies,
        Wrongs, LockHeld, LockedPcs, PrivateHandles, PrivatePcs, ClosePcs,
        Sessions, JobsHaveRecords, IdsGivenOut, IdsUnique, get_handle, Ids
<1>1. ASSUME NEW i \in Ids, NEW h \in Handles, CloseDel(t, i, h)
     PROVE  IInv'
  BY <1>1 DEF CloseDel
<1>2. CASE CloseQuit(t)
  BY <1>2 DEF CloseQuit, SvcStartQuit
<1>3. CASE CloseQuitRefused(t)
  BY <1>3 DEF CloseQuitRefused
<1>4. CASE CloseQuitDone(t)
  BY <1>4 DEF CloseQuitDone, SvcQuitDone
<1>5. CASE CloseQuitFails(t)
  BY <1>5 DEF CloseQuitFails, SvcQuitFails
<1>6. ASSUME NEW r \in Recs, CloseDrain(t, r)
     PROVE  IInv'
  BY <1>6 DEF CloseDrain
<1>7. CASE CloseFree(t)
  BY <1>7 DEF CloseFree
<1> QED
  BY <1>1, <1>2, <1>3, <1>4, <1>5, <1>6, <1>7 DEF CloseStep

\* drv_FDPM_Start holds the lock from the search to the stored job_id.
LEMMA StartStepIInv ==
    ASSUME IInv, NEW t \in Threads, StartStep(t)
    PROVE  IInv'
<1> USE FdpmAssumption, ServiceAssumption
    DEF IInv, TypeOK, SvcTypeOK, CallPcs, CbPcs, Threads, Goto, Return,
        svcVars, lockVars, memVars, locals, ubVars, Touch, Dies,
        Wrongs, LockHeld, LockedPcs, PrivateHandles, PrivatePcs, ClosePcs,
        Sessions, JobsHaveRecords, IdsGivenOut, IdsUnique, get_handle, Ids
<1>1. ASSUME NEW r \in Recs, StartMalloc(t, r)
     PROVE  IInv'
  BY <1>1 DEF StartMalloc
<1>2. ASSUME NEW i \in Ids, StartNoHandle(t, i)
     PROVE  IInv'
  BY <1>2 DEF StartNoHandle
<1>3. ASSUME NEW i \in Ids, NEW h \in Handles, StartAdd(t, i, h)
     PROVE  IInv'
  BY <1>3 DEF StartAdd
<1>4. ASSUME NEW j \in Jobs, StartEntry(t, j)
     PROVE  IInv'
  BY <1>4 DEF StartEntry, SvcEntryJob, Known
<1>5. CASE StartRefused(t)
  BY <1>5 DEF StartRefused
<1>6. CASE StartStore(t)
  BY <1>6 DEF StartStore
<1>7. CASE StartDies(t)
  BY <1>7 DEF StartDies
<1> QED
  BY <1>1, <1>2, <1>3, <1>4, <1>5, <1>6, <1>7 DEF StartStep

\* drv_FDPM_Cancel holds the lock while it empties the list.
LEMMA CancelStepIInv ==
    ASSUME IInv, NEW t \in Threads, CancelStep(t)
    PROVE  IInv'
<1> USE FdpmAssumption, ServiceAssumption
    DEF IInv, TypeOK, SvcTypeOK, CallPcs, CbPcs, Threads, Goto, Return,
        svcVars, lockVars, memVars, locals, ubVars, Touch, LockParent, Dies,
        Wrongs, LockHeld, LockedPcs, PrivateHandles, PrivatePcs, ClosePcs,
        Sessions, JobsHaveRecords, IdsGivenOut, IdsUnique, get_handle, Ids
<1>1. ASSUME NEW i \in Ids, NEW h \in Handles, CancelBegin(t, i, h)
     PROVE  IInv'
  BY <1>1 DEF CancelBegin
<1>2. CASE CancelTest(t)
  BY <1>2 DEF CancelTest
<1>3. CASE CancelEnd(t)
  BY <1>3 DEF CancelEnd
<1>4. CASE CancelLoad(t)
  BY <1>4 DEF CancelLoad
<1>5. CASE CancelRead(t)
  BY <1>5 DEF CancelRead
<1>6. CASE CancelDies(t)
  <2>1. CASE Dies("cancel_read")
    BY <2>1
  <2>2. CASE Dies("cancel_lock")
    BY <2>2
  <2> QED
    BY <1>6, <2>1, <2>2 DEF CancelDies
<1>7. CASE CancelDel(t)
  <2>1. PICK pc1 \in {"cancel_job", "cancel_test"} :
            pc' = [pc EXCEPT ![t] = pc1]
    BY <1>7 DEF CancelDel
  <2>2. cb_list' \in [Handles -> SUBSET Recs]
    <3>1. /\ cb_list \in [Handles -> SUBSET Recs]
          /\ cb_list' = [cb_list EXCEPT ![del_hdl[t]] = @ \ {cb[t]}]
      BY <1>7 DEF CancelDel
    <3> HIDE DEF IInv
    <3> QED
      BY <3>1
  <2>3. TypeOK'
    BY <1>7, <2>1, <2>2 DEF CancelDel
  <2>4. LockHeld'
    BY <1>7, <2>1, <2>2 DEF CancelDel
  <2>5. PrivateHandles'
    BY <1>7, <2>1, <2>2 DEF CancelDel
  <2>6. Sessions'
    BY <1>7, <2>1, <2>2 DEF CancelDel
  <2>7. JobsHaveRecords'
    BY <1>7, <2>1, <2>2 DEF CancelDel
  <2>8. IdsGivenOut'
    BY <1>7, <2>1, <2>2 DEF CancelDel
  <2> QED
    BY <2>3, <2>4, <2>5, <2>6, <2>7, <2>8 DEF IInv
<1>8. CASE CancelJob(t)
  <2>1. CASE SvcDropJobs(hdl[t], owed[hdl[t]] \cap {job_id[cb[t]]})
    BY <1>8, <2>1 DEF CancelJob, SvcDropJobs
  <2>2. CASE UNCHANGED svcVars
    BY <1>8, <2>2 DEF CancelJob
  <2> QED
    BY <1>8, <2>1, <2>2 DEF CancelJob
<1>9. CASE CancelFree(t)
  BY <1>9 DEF CancelFree
<1> QED
  BY <1>1, <1>2, <1>3, <1>4, <1>5, <1>6, <1>7, <1>8, <1>9 DEF CancelStep

\* drv_FDPM_Status holds the lock around its ioctl.
LEMMA StatusStepIInv ==
    ASSUME IInv, NEW t \in Threads, StatusStep(t)
    PROVE  IInv'
<1> USE FdpmAssumption, ServiceAssumption
    DEF IInv, TypeOK, SvcTypeOK, CallPcs, CbPcs, Threads, Goto, Return,
        svcVars, lockVars, memVars, locals, ubVars, Touch, Dies,
        Wrongs, LockHeld, LockedPcs, PrivateHandles, PrivatePcs, ClosePcs,
        Sessions, JobsHaveRecords, IdsGivenOut, IdsUnique, get_handle, Ids
<1>1. ASSUME NEW i \in Ids, NEW h \in Handles, StatusBegin(t, i, h)
     PROVE  IInv'
  BY <1>1 DEF StatusBegin
<1>2. CASE StatusEnd(t)
  BY <1>2 DEF StatusEnd
<1> QED
  BY <1>1, <1>2 DEF StatusStep

\* The callback takes a job out of the driver and never the global lock.
LEMMA CallbackStepIInv ==
    ASSUME IInv, NEW h \in Handles, CallbackStep(h)
    PROVE  IInv'
<1> USE FdpmAssumption, ServiceAssumption
    DEF IInv, TypeOK, SvcTypeOK, CallPcs, CbPcs, Threads, Goto, Return,
        svcVars, lockVars, memVars, locals, ubVars, Touch, LockParent, Dies,
        Wrongs, LockHeld, LockedPcs, PrivateHandles, PrivatePcs, ClosePcs,
        Sessions, JobsHaveRecords, IdsGivenOut, IdsUnique, get_handle, Ids
<1>1. ASSUME NEW j \in Jobs, CallbackBegin(h, j)
     PROVE  IInv'
  BY <1>1 DEF CallbackBegin, SvcBeginCallback
<1>2. CASE CallbackRead(h)
  BY <1>2 DEF CallbackRead, CbInfo
<1>3. CASE CallbackDies(h)
  <2>1. CASE Dies("callback_read")
    BY <2>1
  <2>2. CASE Dies("callback_lock")
    BY <2>2
  <2> QED
    BY <1>3, <2>1, <2>2 DEF CallbackDies
<1>4. CASE CallbackDel(h)
  <2>1. cb_list' \in [Handles -> SUBSET Recs]
    <3>1. /\ cb_list \in [Handles -> SUBSET Recs]
          /\ cb_list' = [cb_list EXCEPT ![del_hdl[h]] = @ \ {CbInfo(h)}]
      BY <1>4 DEF CallbackDel
    <3> HIDE DEF IInv
    <3> QED
      BY <3>1
  <2>2. TypeOK'
    BY <1>4, <2>1 DEF CallbackDel
  <2>3. LockHeld'
    BY <1>4, <2>1 DEF CallbackDel
  <2>4. PrivateHandles'
    BY <1>4, <2>1 DEF CallbackDel
  <2>5. Sessions'
    BY <1>4, <2>1 DEF CallbackDel
  <2>6. JobsHaveRecords'
    BY <1>4, <2>1 DEF CallbackDel
  <2>7. IdsGivenOut'
    BY <1>4, <2>1 DEF CallbackDel
  <2> QED
    BY <2>2, <2>3, <2>4, <2>5, <2>6, <2>7 DEF IInv
<1>5. CASE CallbackCancelled(h)
  BY <1>5 DEF CallbackCancelled, SvcEndCallback
<1>6. CASE CallbackEnd(h)
  BY <1>6 DEF CallbackEnd, SvcEndCallback, CbInfo
<1> QED
  BY <1>1, <1>2, <1>3, <1>4, <1>5, <1>6 DEF CallbackStep, CallbackDisconnects

\* A session that ends loses jobs, nothing else.
LEMMA DriverDropsIInv ==
    ASSUME IInv, NEW h \in Handles, DriverDrops(h)
    PROVE  IInv'
BY DEF DriverDrops, SvcDropJobs, IInv, TypeOK, SvcTypeOK, svcVars, lockVars,
       memVars, locals, ubVars, LockHeld, LockedPcs, PrivateHandles,
       PrivatePcs, ClosePcs, Sessions, JobsHaveRecords, IdsGivenOut,
       IdsUnique, CallPcs, CbPcs, Threads

\* No step of an application thread, a callback thread or the driver breaks it.
LEMMA NextIInv == IInv /\ [Next]_vars => IInv'
<1> SUFFICES ASSUME IInv, [Next]_vars
             PROVE  IInv'
  OBVIOUS
<1>1. CASE Next
  BY <1>1, OpenStepIInv, CloseStepIInv, StartStepIInv, CancelStepIInv,
     StatusStepIInv, CallbackStepIInv, DriverDropsIInv DEF Next
<1>2. CASE UNCHANGED vars
  BY <1>2 DEF vars, svcVars, lockVars, memVars, locals, ubVars, IInv,
     TypeOK, SvcTypeOK, LockHeld, PrivateHandles, Sessions, JobsHaveRecords,
     IdsGivenOut, IdsUnique
<1> QED
  BY <1>1, <1>2

\* The inductive invariant holds for any clients, with all races of Cancel.
THEOREM Invariance == Spec => []IInv
BY InitIInv, NextIInv, PTL DEF Spec

-----------------------------------------------------------------------------

\* The types hold, and every handle on hdl_list is allocated memory.
THEOREM TypeCorrect == Spec => []TypeOK
<1>1. IInv => TypeOK BY DEF IInv
<1>2. QED BY <1>1, Invariance, PTL

\* Whoever is inside Start, Cancel or Status holds fdp_hdl_mutex and works on
\* a listed handle whose session is up: the callers of vspm_entry_job and
\* vspm_cancel_job keep the rule vspm_api.c needs.
THEOREM CallSafety == Spec => []CallsOnLiveHandle
<1>1. IInv => CallsOnLiveHandle
  BY DEF IInv, CallsOnLiveHandle, LockHeld, Sessions
<1>2. QED BY <1>1, Invariance, PTL

\* Two open handles never share the id the client knows them by.
THEOREM IdSafety == Spec => []IdsUnique
<1>1. IInv => IdsUnique BY DEF IInv, IdsGivenOut
<1>2. QED BY <1>1, Invariance, PTL

-----------------------------------------------------------------------------

\* The layer is a client of the service: every step is a step of VspmService on
\* a handle the layer has, or leaves the service alone.
THEOREM ServiceUse == Spec => SvcSpec
<1>1. Init => SvcInit
  BY DEF Init
<1>2. ASSUME IInv, [Next]_vars PROVE [SvcNext]_svcVars
  <2> USE DEF Goto, Return, locals, memVars, lockVars, ubVars
  <2>1. ASSUME NEW t \in Threads, pc[t] \in LockedPcs \cup PrivatePcs
        PROVE  hdl[t] \in Handles
    BY <1>2, <2>1 DEF IInv, TypeOK, LockHeld, PrivateHandles
  <2>2. ASSUME NEW t \in Apps, OpenStep(t) PROVE [SvcNext]_svcVars
    BY <2>2 DEF OpenStep, OpenAdd, OpenInit, SvcNext
  <2>3. ASSUME NEW t \in Apps, CloseStep(t) PROVE [SvcNext]_svcVars
    <3>1. t \in Threads
      BY DEF Threads
    <3>2. CASE CloseQuit(t)
      BY <2>1, <3>1, <3>2 DEF CloseQuit, PrivatePcs, ClosePcs, SvcNext
    <3>3. CASE CloseQuitDone(t)
      BY <2>1, <3>1, <3>3 DEF CloseQuitDone, PrivatePcs, ClosePcs, SvcNext
    <3>4. CASE CloseQuitFails(t)
      BY <2>1, <3>1, <3>4 DEF CloseQuitFails, PrivatePcs, ClosePcs, SvcNext
    <3> QED
      BY <2>3, <3>2, <3>3, <3>4
         DEF CloseStep, CloseDel, CloseQuitRefused, CloseDrain, CloseFree
  <2>4. ASSUME NEW t \in Threads, StartStep(t) PROVE [SvcNext]_svcVars
    <3>1. ASSUME NEW j \in Jobs, StartEntry(t, j) PROVE [SvcNext]_svcVars
      BY <2>1, <3>1 DEF StartEntry, LockedPcs, SvcNext
    <3> QED
      BY <2>4, <3>1
         DEF StartStep, StartMalloc, StartNoHandle, StartAdd, StartRefused,
             StartStore, StartDies, Dies
  <2>5. ASSUME NEW t \in Threads, CancelStep(t) PROVE [SvcNext]_svcVars
    <3>1. CASE CancelJob(t)
      BY <2>1, <3>1 DEF CancelJob, LockedPcs, SvcNext
    <3> QED
      BY <2>5, <3>1
         DEF CancelStep, CancelBegin, CancelTest, CancelEnd, CancelLoad,
             CancelRead, CancelDies, CancelDel, CancelFree, Dies
  <2>6. ASSUME NEW t \in Threads, StatusStep(t) PROVE [SvcNext]_svcVars
    BY <2>6 DEF StatusStep, StatusBegin, StatusEnd
  <2>7. ASSUME NEW h \in Handles, CallbackStep(h) \/ DriverDrops(h)
        PROVE  [SvcNext]_svcVars
    BY <2>7
       DEF CallbackStep, CallbackBegin, CallbackDisconnects, CallbackRead,
           CallbackDies, CallbackDel, CallbackCancelled, CallbackEnd,
           DriverDrops, Dies, SvcNext
  <2>8. UNCHANGED vars => [SvcNext]_svcVars
    BY DEF vars
  <2> QED
    BY <1>2, <2>2, <2>3, <2>4, <2>5, <2>6, <2>7, <2>8 DEF Next
<1>3. QED
  BY <1>1, <1>2, Invariance, PTL DEF Spec, SvcSpec
=============================================================================
