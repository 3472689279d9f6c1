------------------------- MODULE FdpmResultProofs -------------------------
(***************************************************************************)
(* What clients of the FDP API can rely on.  For clients that do not use   *)
(* drv_FDPM_Cancel each callback finds the record of its own request, so   *)
(* the result belongs to it.  For all clients FdpmApi implements the       *)
(* promise of FdpmRequests until a late callback, which only exists with   *)
(* Cancel.                                                                 *)
(***************************************************************************)
EXTENDS FdpmOwnershipProofs

NoCancel == "cancel" \notin Calls

CancelPcs == {"cancel_test", "cancel_load", "cancel_read", "cancel_del",
              "cancel_job", "cancel_free"}

\* The record of job j is on the list of handle h, and holds j or will.
HasRecord(h, j) ==
    /\ user_data[j] \in cb_list[h]
    /\ \/ job_id[user_data[j]] = j
       \/ \E t \in Threads :
             pc[t] = "start_store" /\ cb[t] = user_data[j] /\ rsp[t] = j

\* Until its callback takes it off, the record of a job is on the list.
Reported ==
    \A h \in Handles :
        /\ \A j \in Jobs :
              j \in owed[h] \/ (running[h] = j /\ cbpc[h] # "user")
                 => HasRecord(h, j)
        /\ cbpc[h] = "del" => del_hdl[h] = h

NInv ==
    /\ \A t \in Threads : pc[t] \notin CancelPcs
    /\ Reported
    /\ OnlyStoreAfterFree

\* Different jobs the driver knows lead to different records.
LEMMA Apart ==
    ASSUME IInv, OInv, NInv,
           NEW g \in Handles, NEW h \in Handles,
           NEW j \in Jobs, NEW k \in Jobs,
           InUse(g, j), InUse(h, k), user_data[j] = user_data[k]
    PROVE  j = k
<1> DEFINE r == user_data[j]
<1> USE ServiceAssumption
    DEF IInv, OInv, NInv, TypeOK, SvcTypeOK, JobsHaveRecords, CbInfo, CbPcs
<1>1. /\ r \in cb_list[g] \/ (running[g] = j /\ cbpc[g] = "user")
      /\ r \in cb_list[h] \/ (running[h] = k /\ cbpc[h] = "user")
  BY DEF InUse, Reported, HasRecord
<1>2. parent_hdl[r] = g /\ parent_hdl[r] = h
  BY <1>1 DEF Lists, Reporting
<1>3. CASE cbpc[g] = "user" /\ (running[g] = j \/ running[g] = k)
  BY <1>1, <1>2, <1>3 DEF Reporting
<1>4. CASE ~(cbpc[g] = "user" /\ (running[g] = j \/ running[g] = k))
  <2>1. HasRecord(g, j) /\ HasRecord(g, k)
    BY <1>2, <1>4 DEF InUse, Reported
  <2>2. Leads(j, r) /\ Leads(k, r)
    BY DEF Leads
  <2> QED
    BY <2>1, <2>2 DEF HasRecord, StaleJobs, LockHeld, LockedPcs
<1> QED
  BY <1>3, <1>4

\* While Start enters a job, no other job leads to its record.
LEMMA EntersAlone ==
    ASSUME IInv, OInv, NInv, NEW t \in Threads, pc[t] = "start_entry",
           NEW h \in Handles, NEW j \in Jobs, InUse(h, j)
    PROVE  user_data[j] # cb[t]
<1> USE ServiceAssumption
    DEF IInv, OInv, NInv, TypeOK, SvcTypeOK, JobsHaveRecords, CbInfo, CbPcs,
        LockHeld, LockedPcs
<1> SUFFICES ASSUME user_data[j] = cb[t] PROVE FALSE
  OBVIOUS
<1>1. cb[t] \in cb_list[hdl[t]] /\ hdl[t] \in Handles
  BY DEF Entering
<1>2. ~(running[h] = j /\ cbpc[h] = "user")
  BY <1>1 DEF Lists, Reporting
<1>3. HasRecord(h, j)
  BY <1>2 DEF InUse, Reported
<1>4. job_id[cb[t]] = j
  BY <1>3 DEF HasRecord
<1> QED
  BY <1>4 DEF StaleJobs, Leads

\* A callback finds its own handle in its record, which Close waits with.
LEMMA OwnHandle ==
    ASSUME IInv, NInv, NEW h \in Handles, cbpc[h] = "del"
    PROVE  del_hdl[h] = h /\ h \in hdl_mem
<1>1. running[h] # NoJob
  BY ServiceAssumption DEF IInv, JobsHaveRecords
<1> QED
  BY <1>1 DEF IInv, JobsHaveRecords, Sessions, NInv, Reported

\* Open finds the list of its handle empty.
LEMMA OpenStepNInv ==
    ASSUME NoCancel, IInv, OInv, NInv, NEW t \in Apps, OpenStep(t)
    PROVE  NInv'
<1> USE FdpmAssumption, ServiceAssumption
    DEF IInv, TypeOK, SvcTypeOK, Threads, Goto, Return, MayCall, OInv, NInv,
        NoCancel, CancelPcs, svcVars, lockVars, memVars, locals, ubVars,
        Touch, Dies, CbInfo, LockHeld, LockedPcs, get_handle
<1>1. CASE OpenAdd(t)
  <2>1. (\A u \in Threads : pc[u] \notin CancelPcs)'
    BY <1>1 DEF OpenAdd
  <2>2. Reported'
    BY <1>1 DEF OpenAdd, Reported, HasRecord, Lists, Placed
  <2>3. OnlyStoreAfterFree'
    BY <1>1 DEF OpenAdd, OnlyStoreAfterFree, Lists, Fresh, Entering,
       Reporting
  <2> QED
    BY <2>1, <2>2, <2>3
<1>2. ASSUME NEW h \in Handles, OpenInit(t, h)
     PROVE  NInv'
  <2>1. (\A u \in Threads : pc[u] \notin CancelPcs)'
    BY <1>2 DEF OpenInit
  <2>2. Reported'
    BY <1>2 DEF OpenInit, SvcInitDriver, Reported, HasRecord, Lists, Placed
  <2>3. OnlyStoreAfterFree'
    BY <1>2 DEF OpenInit, OnlyStoreAfterFree, Lists, Fresh, Entering,
       Reporting
  <2> QED
    BY <2>1, <2>2, <2>3
<1> QED
  BY <1>1, <1>2 DEF OpenStep

\* What Close takes off the list belongs to no job: the session is over.
LEMMA CloseStepNInv ==
    ASSUME NoCancel, IInv, OInv, NInv, NEW t \in Apps, CloseStep(t)
    PROVE  NInv'
<1> USE FdpmAssumption, ServiceAssumption
    DEF IInv, TypeOK, SvcTypeOK, Threads, Goto, Return, MayCall, OInv, NInv,
        NoCancel, CancelPcs, svcVars, lockVars, memVars, locals, ubVars,
        Touch, Dies, CbInfo, LockHeld, LockedPcs, get_handle
<1>1. ASSUME NEW i \in Ids, NEW h \in Handles, CloseDel(t, i, h)
     PROVE  NInv'
  <2>1. (\A u \in Threads : pc[u] \notin CancelPcs)'
    BY <1>1 DEF CloseDel
  <2>2. Reported'
    BY <1>1 DEF CloseDel, Reported, HasRecord, Lists, Placed
  <2>3. OnlyStoreAfterFree'
    BY <1>1 DEF CloseDel, OnlyStoreAfterFree, Lists, Fresh, Entering,
       Reporting
  <2> QED
    BY <2>1, <2>2, <2>3
<1>2. CASE CloseQuit(t)
  <2>1. (\A u \in Threads : pc[u] \notin CancelPcs)'
    BY <1>2 DEF CloseQuit
  <2>2. Reported'
    BY <1>2 DEF CloseQuit, SvcStartQuit, Reported, HasRecord, Lists, Placed
  <2>3. OnlyStoreAfterFree'
    BY <1>2 DEF CloseQuit, OnlyStoreAfterFree, Lists, Fresh, Entering,
       Reporting
  <2> QED
    BY <2>1, <2>2, <2>3
<1>3. CASE CloseQuitRefused(t)
  <2>1. (\A u \in Threads : pc[u] \notin CancelPcs)'
    BY <1>3 DEF CloseQuitRefused
  <2>2. Reported'
    BY <1>3 DEF CloseQuitRefused, Reported, HasRecord, Lists, Placed
  <2>3. OnlyStoreAfterFree'
    BY <1>3 DEF CloseQuitRefused, OnlyStoreAfterFree, Lists, Fresh,
       Entering, Reporting
  <2> QED
    BY <2>1, <2>2, <2>3
<1>4. CASE CloseQuitDone(t)
  <2>1. (\A u \in Threads : pc[u] \notin CancelPcs)'
    BY <1>4 DEF CloseQuitDone
  <2>2. Reported'
    BY <1>4 DEF CloseQuitDone, SvcQuitDone, Reported, HasRecord, Lists,
       Placed
  <2>3. OnlyStoreAfterFree'
    BY <1>4 DEF CloseQuitDone, OnlyStoreAfterFree, Lists, Fresh, Entering,
       Reporting
  <2> QED
    BY <2>1, <2>2, <2>3
<1>5. CASE CloseQuitFails(t)
  <2>1. (\A u \in Threads : pc[u] \notin CancelPcs)'
    BY <1>5 DEF CloseQuitFails
  <2>2. Reported'
    BY <1>5 DEF CloseQuitFails, SvcQuitFails, Reported, HasRecord, Lists,
       Placed
  <2>3. OnlyStoreAfterFree'
    BY <1>5 DEF CloseQuitFails, OnlyStoreAfterFree, Lists, Fresh, Entering,
       Reporting
  <2> QED
    BY <2>1, <2>2, <2>3
<1>6. ASSUME NEW r \in Recs, CloseDrain(t, r)
     PROVE  NInv'
  <2>a. /\ hdl[t] \in Handles /\ r \in cb_list[hdl[t]] /\ r \in cb_mem
        /\ session[hdl[t]] = "down"
    BY <1>6 DEF CloseDrain, PrivateHandles, PrivatePcs, ClosePcs, Sessions,
       Lists
  <2>b. \A j \in Jobs : ~InUse(hdl[t], j)
    BY <2>a DEF JobsHaveRecords, InUse
  <2>c. \A g \in Handles \ {hdl[t]} : cb_list'[g] = cb_list[g]
    BY <1>6 DEF CloseDrain
  <2>1. (\A u \in Threads : pc[u] \notin CancelPcs)'
    BY <1>6 DEF CloseDrain
  <2>2. Reported'
    BY <1>6, <2>b, <2>c DEF CloseDrain, Reported, HasRecord, InUse
  <2>3. OnlyStoreAfterFree'
    BY <1>6, <2>a DEF CloseDrain, OnlyStoreAfterFree
  <2> QED
    BY <2>1, <2>2, <2>3
<1>7. CASE CloseFree(t)
  <2>1. (\A u \in Threads : pc[u] \notin CancelPcs)'
    BY <1>7 DEF CloseFree
  <2>2. Reported'
    BY <1>7 DEF CloseFree, Reported, HasRecord, Lists, Placed
  <2>3. OnlyStoreAfterFree'
    BY <1>7 DEF CloseFree, OnlyStoreAfterFree, Lists, Fresh, Entering,
       Reporting
  <2> QED
    BY <2>1, <2>2, <2>3
<1> QED
  BY <1>1, <1>2, <1>3, <1>4, <1>5, <1>6, <1>7 DEF CloseStep

\* Start lists the record before the driver has the job, and stores the job's
\* identifier in no record but its own.
LEMMA StartStepNInv ==
    ASSUME NoCancel, IInv, OInv, NInv, NEW t \in Threads, StartStep(t)
    PROVE  NInv'
<1> USE FdpmAssumption, ServiceAssumption
    DEF IInv, TypeOK, SvcTypeOK, Threads, Goto, Return, MayCall, OInv, NInv,
        NoCancel, CancelPcs, svcVars, lockVars, memVars, locals, ubVars,
        Touch, Dies, CbInfo, LockHeld, LockedPcs, get_handle
<1>1. ASSUME NEW r \in Recs, StartMalloc(t, r)
     PROVE  NInv'
  <2>1. (\A u \in Threads : pc[u] \notin CancelPcs)'
    BY <1>1 DEF StartMalloc
  <2>2. Reported'
    BY <1>1 DEF StartMalloc, Reported, HasRecord, Lists, Placed
  <2>3. OnlyStoreAfterFree'
    BY <1>1 DEF StartMalloc, OnlyStoreAfterFree, Lists, Fresh, Entering,
       Reporting
  <2> QED
    BY <2>1, <2>2, <2>3
<1>2. ASSUME NEW i \in Ids, StartNoHandle(t, i)
     PROVE  NInv'
  <2>1. (\A u \in Threads : pc[u] \notin CancelPcs)'
    BY <1>2 DEF StartNoHandle
  <2>2. Reported'
    BY <1>2 DEF StartNoHandle, Reported, HasRecord, Lists, Placed
  <2>3. OnlyStoreAfterFree'
    BY <1>2 DEF StartNoHandle, OnlyStoreAfterFree, Lists, Fresh, Entering,
       Reporting
  <2> QED
    BY <2>1, <2>2, <2>3
<1>3. ASSUME NEW i \in Ids, NEW h \in Handles, StartAdd(t, i, h)
     PROVE  NInv'
  <2>1. (\A u \in Threads : pc[u] \notin CancelPcs)'
    BY <1>3 DEF StartAdd
  <2>2. Reported'
    BY <1>3 DEF StartAdd, Reported, HasRecord, Lists, Placed
  <2>3. OnlyStoreAfterFree'
    BY <1>3 DEF StartAdd, OnlyStoreAfterFree, Lists, Fresh, Entering,
       Reporting
  <2> QED
    BY <2>1, <2>2, <2>3
<1>4. ASSUME NEW j \in Jobs, StartEntry(t, j)
     PROVE  NInv'
  <2>a. /\ user_data' = [user_data EXCEPT ![j] = cb[t]]
        /\ owed' = [owed EXCEPT ![hdl[t]] = @ \cup {j}]
        /\ rsp' = [rsp EXCEPT ![t] = j]
        /\ pc[t] = "start_entry" /\ pc' = [pc EXCEPT ![t] = "start_store"]
        /\ fdp_hdl_mutex = t /\ hdl[t] \in Handles
        /\ UNCHANGED <<running, cbpc, cb, cb_list, job_id, del_hdl>>
    BY <1>4 DEF StartEntry, SvcEntryJob
  <2>b. \A g \in Handles : ~InUse(g, j)
    BY <1>4, NotKnown DEF StartEntry, SvcEntryJob, InUse
  <2>1. (\A u \in Threads : pc[u] \notin CancelPcs)'
    BY <1>4 DEF StartEntry
  <2>2. Reported'
    <3>1. ASSUME NEW g \in Handles, g = hdl[t]
          PROVE  HasRecord(g, j)'
      BY <2>a, <3>1 DEF HasRecord, Entering
    <3>2. ASSUME NEW g \in Handles, NEW k \in Jobs, k # j, HasRecord(g, k)
          PROVE  HasRecord(g, k)'
      <4>1. \A u \in Threads : pc[u] # "start_store"
        BY <2>a
      <4> QED
        BY <2>a, <3>2, <4>1 DEF HasRecord
    <3>3. ASSUME NEW g \in Handles, NEW k \in Jobs,
                 \/ k \in owed'[g]
                 \/ running'[g] = k /\ cbpc'[g] # "user"
          PROVE  HasRecord(g, k)'
      <4>1. CASE k = j
        <5>1. g = hdl[t]
          BY <2>a, <2>b, <3>3, <4>1 DEF InUse
        <5> QED
          BY <3>1, <4>1, <5>1
      <4>2. CASE k # j
        BY <2>a, <3>2, <3>3, <4>2 DEF Reported
      <4> QED
        BY <4>1, <4>2
    <3> QED
      BY <2>a, <3>3 DEF Reported
  <2>3. OnlyStoreAfterFree'
    BY <1>4 DEF StartEntry, OnlyStoreAfterFree, Lists, Fresh, Entering,
       Reporting
  <2> QED
    BY <2>1, <2>2, <2>3
<1>5. CASE StartRefused(t)
  <2>1. (\A u \in Threads : pc[u] \notin CancelPcs)'
    BY <1>5 DEF StartRefused
  <2>2. Reported'
    <3>1. \A g \in Handles, k \in Jobs : InUse(g, k) => user_data[k] # cb[t]
      BY <1>5, EntersAlone DEF StartRefused
    <3>2. /\ UNCHANGED <<owed, running, cbpc, user_data, job_id>>
          /\ \A g \in Handles : \A r \in cb_list[g] :
                r # cb[t] => r \in cb_list'[g]
          /\ pc[t] = "start_entry"
          /\ \A u \in Threads \ {t} :
                pc'[u] = pc[u] /\ cb'[u] = cb[u] /\ rsp'[u] = rsp[u]
      BY <1>5 DEF StartRefused
    <3>3. \A g \in Handles : cbpc[g] = "del" => del_hdl'[g] = del_hdl[g]
      BY <1>5 DEF StartRefused, Placed
    <3> QED
      BY <3>1, <3>2, <3>3 DEF Reported, HasRecord, InUse
  <2>3. OnlyStoreAfterFree'
    BY <1>5 DEF StartRefused, OnlyStoreAfterFree, Lists, Fresh, Entering,
       Reporting
  <2> QED
    BY <2>1, <2>2, <2>3
<1>6. CASE StartStore(t)
  <2>1. (\A u \in Threads : pc[u] \notin CancelPcs)'
    BY <1>6 DEF StartStore
  <2>2. Reported'
    <3>1. /\ UNCHANGED <<owed, running, cbpc, user_data, cb_list>>
          /\ cb[t] \in Recs /\ job_id' = [job_id EXCEPT ![cb[t]] = rsp[t]]
          /\ pc[t] = "start_store"
          /\ \A u \in Threads : pc[u] = "start_store" => u = t
      BY <1>6 DEF StartStore, JobsHaveRecords
    <3>2. \A g \in Handles : cbpc[g] = "del" => del_hdl'[g] = del_hdl[g]
      BY <1>6 DEF StartStore, Placed
    <3>3. ASSUME NEW g \in Handles, NEW k \in Jobs,
                 InUse(g, k), HasRecord(g, k)
          PROVE  HasRecord(g, k)'
      <4>1. CASE user_data[k] = cb[t]
        <5>1. Leads(k, cb[t])
          BY <3>3, <4>1 DEF Leads
        <5>2. rsp[t] = k
          BY <3>1, <3>3, <4>1, <5>1 DEF HasRecord, StaleJobs
        <5> QED
          BY <3>1, <3>3, <4>1, <5>2 DEF HasRecord
      <4>2. CASE user_data[k] # cb[t]
        BY <3>1, <3>3, <4>2 DEF HasRecord
      <4> QED
        BY <4>1, <4>2
    <3> QED
      BY <3>1, <3>2, <3>3 DEF Reported, InUse
  <2>3. OnlyStoreAfterFree'
    BY <1>6 DEF StartStore, OnlyStoreAfterFree, Lists, Fresh, Entering,
       Reporting
  <2> QED
    BY <2>1, <2>2, <2>3
<1>7. CASE StartDies(t)
  <2>1. (\A u \in Threads : pc[u] \notin CancelPcs)'
    BY <1>7 DEF StartDies
  <2>2. Reported'
    BY <1>7 DEF StartDies, Reported, HasRecord, Lists, Placed
  <2>3. OnlyStoreAfterFree'
    BY <1>7 DEF StartDies, OnlyStoreAfterFree, Lists, Fresh, Entering,
       Reporting
  <2> QED
    BY <2>1, <2>2, <2>3
<1> QED
  BY <1>1, <1>2, <1>3, <1>4, <1>5, <1>6, <1>7 DEF StartStep

\* Status moves no record.
LEMMA StatusStepNInv ==
    ASSUME NoCancel, IInv, OInv, NInv, NEW t \in Threads, StatusStep(t)
    PROVE  NInv'
<1> USE FdpmAssumption, ServiceAssumption
    DEF IInv, TypeOK, SvcTypeOK, Threads, Goto, Return, MayCall, OInv, NInv,
        NoCancel, CancelPcs, svcVars, lockVars, memVars, locals, ubVars,
        Touch, Dies, CbInfo, LockHeld, LockedPcs, get_handle
<1>1. ASSUME NEW i \in Ids, NEW h \in Handles, StatusBegin(t, i, h)
     PROVE  NInv'
  <2>1. (\A u \in Threads : pc[u] \notin CancelPcs)'
    BY <1>1 DEF StatusBegin
  <2>2. Reported'
    BY <1>1 DEF StatusBegin, Reported, HasRecord, Lists, Placed
  <2>3. OnlyStoreAfterFree'
    BY <1>1 DEF StatusBegin, OnlyStoreAfterFree, Lists, Fresh, Entering,
       Reporting
  <2> QED
    BY <2>1, <2>2, <2>3
<1>2. CASE StatusEnd(t)
  <2>1. (\A u \in Threads : pc[u] \notin CancelPcs)'
    BY <1>2 DEF StatusEnd
  <2>2. Reported'
    BY <1>2 DEF StatusEnd, Reported, HasRecord, Lists, Placed
  <2>3. OnlyStoreAfterFree'
    BY <1>2 DEF StatusEnd, OnlyStoreAfterFree, Lists, Fresh, Entering,
       Reporting
  <2> QED
    BY <2>1, <2>2, <2>3
<1> QED
  BY <1>1, <1>2 DEF StatusStep

\* The callback finds its own record on its own list.
LEMMA CallbackStepNInv ==
    ASSUME NoCancel, IInv, OInv, NInv, NEW h \in Handles, CallbackStep(h)
    PROVE  NInv'
<1> USE FdpmAssumption, ServiceAssumption
    DEF IInv, TypeOK, SvcTypeOK, Threads, Goto, Return, MayCall, OInv, NInv,
        NoCancel, CancelPcs, svcVars, lockVars, memVars, locals, ubVars,
        Touch, Dies, CbInfo, LockHeld, LockedPcs, get_handle
<1>1. ASSUME NEW j \in Jobs, CallbackBegin(h, j)
     PROVE  NInv'
  <2>1. (\A u \in Threads : pc[u] \notin CancelPcs)'
    BY <1>1 DEF CallbackBegin
  <2>2. Reported'
    BY <1>1 DEF CallbackBegin, SvcBeginCallback, Reported, HasRecord, Lists,
       Placed
  <2>3. OnlyStoreAfterFree'
    BY <1>1 DEF CallbackBegin, OnlyStoreAfterFree, Lists, Fresh, Entering,
       Reporting
  <2> QED
    BY <2>1, <2>2, <2>3
<1>2. CASE CallbackRead(h)
  <2>a. /\ cbpc[h] = "read" /\ cbpc' = [cbpc EXCEPT ![h] = "del"]
        /\ del_hdl' = [del_hdl EXCEPT ![h] = parent_hdl[CbInfo(h)]]
        /\ UNCHANGED <<svcVars, cb_list, user_data, job_id, pc, cb, rsp>>
    BY <1>2 DEF CallbackRead
  <2>b. CbInfo(h) \in cb_list[h]
    BY <2>a DEF JobsHaveRecords, Reported, HasRecord
  <2>c. parent_hdl[CbInfo(h)] = h /\ CbInfo(h) \in cb_mem
    BY <2>b DEF Lists
  <2>1. (\A u \in Threads : pc[u] \notin CancelPcs)'
    BY <1>2 DEF CallbackRead
  <2>2. Reported'
    BY <2>a, <2>c DEF Reported, HasRecord
  <2>3. OnlyStoreAfterFree'
    BY <1>2, <2>c DEF CallbackRead, OnlyStoreAfterFree
  <2> QED
    BY <2>1, <2>2, <2>3
<1>3. CASE CallbackDies(h)
  <2>1. (\A u \in Threads : pc[u] \notin CancelPcs)'
    BY <1>3 DEF CallbackDies
  <2>2. Reported'
    BY <1>3 DEF CallbackDies, Reported, HasRecord, Lists, Placed
  <2>3. OnlyStoreAfterFree'
    <3>1. CASE cbpc[h] = "read" /\ CbInfo(h) \notin Listed
      <4>1. running[h] \in Jobs
        BY <3>1 DEF JobsHaveRecords
      <4>2. CbInfo(h) \in cb_list[h]
        BY <3>1, <4>1 DEF Reported, HasRecord
      <4>3. CbInfo(h) \in Listed
        BY <4>2 DEF Lists, Listed
      <4> QED
        BY <3>1, <4>3
    <3>2. CASE cbpc[h] = "del" /\ del_hdl[h] \notin hdl_mem
      BY <3>2, OwnHandle
    <3> QED
      BY <1>3, <3>1, <3>2 DEF CallbackDies
  <2> QED
    BY <2>1, <2>2, <2>3
<1>4. CASE CallbackDel(h)
  <2>a. /\ cbpc[h] = "del" /\ cbpc' = [cbpc EXCEPT ![h] = "user"]
        /\ running[h] \in Jobs /\ HasRecord(h, running[h]) /\ del_hdl[h] = h
        /\ cb_list' = [cb_list EXCEPT ![h] = @ \ {CbInfo(h)}]
        /\ del_hdl' = [del_hdl EXCEPT ![h] = Null]
        /\ UNCHANGED <<svcVars, user_data, job_id, pc, cb, rsp>>
    BY <1>4 DEF CallbackDel, JobsHaveRecords, Reported
  <2>b. \A g \in Handles, k \in Jobs :
            InUse(g, k) /\ k # running[h] => user_data[k] # CbInfo(h)
    BY <2>a, Apart DEF InUse
  <2>1. (\A u \in Threads : pc[u] \notin CancelPcs)'
    BY <1>4 DEF CallbackDel
  <2>2. Reported'
    <3>1. \A g \in Handles, k \in Jobs :
              InUse(g, k) /\ HasRecord(g, k) /\ k # running[h]
                 => HasRecord(g, k)'
      BY <2>a, <2>b DEF HasRecord
    <3>2. \A g \in Handles : InUse(g, running[h]) => g = h
      BY <2>a DEF JobsApart, InUse
    <3>3. running[h] \notin owed[h]
      BY DEF JobsApart
    <3> QED
      BY <2>a, <3>1, <3>2, <3>3 DEF Reported, InUse
  <2>3. OnlyStoreAfterFree'
    <3>1. OwnRequest(h)
      BY <2>a DEF OwnRequest, HasRecord
    <3>2. LockParent(h, "callback_lock") = {}
      BY <2>a, OwnHandle DEF LockParent
    <3> QED
      BY <1>4, <3>1, <3>2 DEF CallbackDel, OnlyStoreAfterFree
  <2> QED
    BY <2>1, <2>2, <2>3
<1>5. CASE CallbackCancelled(h)
  <2>1. (\A u \in Threads : pc[u] \notin CancelPcs)'
    BY <1>5 DEF CallbackCancelled
  <2>2. Reported'
    BY <1>5 DEF CallbackCancelled, SvcEndCallback, Reported, HasRecord,
       Lists, Placed
  <2>3. OnlyStoreAfterFree'
    <3>1. LockParent(h, "callback_lock") = {}
      BY <1>5, OwnHandle DEF CallbackCancelled, LockParent
    <3> QED
      BY <1>5, <3>1 DEF CallbackCancelled, OnlyStoreAfterFree
  <2> QED
    BY <2>1, <2>2, <2>3
<1>6. CASE CallbackEnd(h)
  <2>1. (\A u \in Threads : pc[u] \notin CancelPcs)'
    BY <1>6 DEF CallbackEnd
  <2>2. Reported'
    BY <1>6 DEF CallbackEnd, SvcEndCallback, Reported, HasRecord, Lists,
       Placed
  <2>3. OnlyStoreAfterFree'
    BY <1>6 DEF CallbackEnd, OnlyStoreAfterFree, Lists, Fresh, Entering,
       Reporting
  <2> QED
    BY <2>1, <2>2, <2>3
<1> QED
  BY <1>1, <1>2, <1>3, <1>4, <1>5, <1>6 DEF CallbackStep, CallbackDisconnects

\* A session that ends only takes jobs out of the driver.
LEMMA DriverDropsNInv ==
    ASSUME NoCancel, IInv, OInv, NInv, NEW h \in Handles, DriverDrops(h)
    PROVE  NInv'
<1> USE FdpmAssumption, ServiceAssumption
    DEF IInv, TypeOK, SvcTypeOK, Threads, Goto, Return, MayCall, OInv, NInv,
        NoCancel, CancelPcs, svcVars, lockVars, memVars, locals, ubVars,
        Touch, Dies, CbInfo, LockHeld, LockedPcs, get_handle
<1>1. CASE DriverDrops(h)
  <2>1. (\A u \in Threads : pc[u] \notin CancelPcs)'
    BY <1>1 DEF DriverDrops
  <2>2. Reported'
    BY <1>1 DEF DriverDrops, SvcDropJobs, Reported, HasRecord, Lists, Placed
  <2>3. OnlyStoreAfterFree'
    BY <1>1 DEF DriverDrops, OnlyStoreAfterFree, Lists, Fresh, Entering,
       Reporting
  <2> QED
    BY <2>1, <2>2, <2>3
<1> QED
  BY <1>1

\* Nobody calls Cancel, so no thread is inside it.
LEMMA NoCancelStep ==
    ASSUME NoCancel, NInv, NEW t \in Threads
    PROVE  ~CancelStep(t)
BY DEF NoCancel, NInv, CancelPcs, CancelStep, CancelBegin, CancelTest,
   CancelEnd, CancelLoad, CancelRead, CancelDies, CancelDel, CancelJob,
   CancelFree, Goto, Return, MayCall

\* Without Cancel no step separates a job from its record.
LEMMA NextNInv ==
    ASSUME NoCancel, IInv, OInv, NInv, [Next]_vars
    PROVE  NInv'
<1>1. CASE Next
  BY <1>1, OpenStepNInv, CloseStepNInv, StartStepNInv, NoCancelStep,
     StatusStepNInv, CallbackStepNInv, DriverDropsNInv DEF Next
<1>2. CASE UNCHANGED vars
  BY <1>2 DEF vars, svcVars, lockVars, memVars, locals, ubVars, NInv,
     Reported, HasRecord, OnlyStoreAfterFree
<1> QED
  BY <1>1, <1>2

\* For clients that do not use Cancel, the record of each job stays where the
\* callback looks for it.
THEOREM RequestsReported == ASSUME NoCancel PROVE Spec => []NInv
<1>1. Init => NInv
  BY ServiceAssumption
     DEF Init, SvcInit, NInv, Reported, OnlyStoreAfterFree, CancelPcs, Threads
<1>2. IInv /\ (NoLateCallback => OInv) /\ NInv /\ [Next]_vars => NInv'
  <2>1. NInv => NoLateCallback
    BY DEF NInv, OnlyStoreAfterFree, NoLateCallback
  <2> QED
    BY <2>1, NextNInv
<1>3. QED
  BY <1>1, <1>2, Invariance, Ownership, PTL DEF Spec

\* The only use of freed memory is the store of the job identifier in Start,
\* and no callback takes the record of another request.
THEOREM OnlyStoreTouchesFreed ==
    ASSUME NoCancel PROVE Spec => []OnlyStoreAfterFree
<1>1. NInv => OnlyStoreAfterFree BY DEF NInv
<1>2. QED BY <1>1, RequestsReported, PTL

\* No handle is freed while its closer, a job of the driver, a callback or a
\* Cancel leads to it, the one they reach through a record included.  Without
\* Cancel there is no exception.  With it a late callback may read another
\* handle from its record, reused by now, and lock it when it is freed.
THEOREM HandleSafety == Spec => []HandleOutlivesUse
<1>1. ASSUME IInv, NoLateCallback => OInv, NoCancel => NInv
      PROVE  HandleOutlivesUse
  <2>1. \A t \in Apps : pc[t] \in ClosePcs => hdl[t] \in hdl_mem
    BY <1>1 DEF IInv, PrivateHandles, PrivatePcs, Threads
  <2>2. \A h \in Handles :
            owed[h] # {} \/ running[h] # NoJob => h \in hdl_mem
    BY <1>1 DEF IInv, Sessions, JobsHaveRecords
  <2>3. ASSUME NEW h \in Handles, cbpc[h] = "del"
        PROVE  \/ del_hdl[h] \in hdl_mem
               \/ "cancel" \in Calls /\ del_hdl[h] # h
    <3>1. CASE NoCancel
      BY <1>1, <2>3, <3>1, OwnHandle
    <3>2. CASE ~NoCancel
      <4>1. running[h] # NoJob
        BY <1>1, <2>3, ServiceAssumption DEF IInv, JobsHaveRecords
      <4>2. h \in hdl_mem
        BY <2>2, <4>1
      <4> QED
        BY <3>2, <4>2 DEF NoCancel
    <3> QED
      BY <3>1, <3>2
  <2>4. ASSUME NEW t \in Threads, pc[t] = "cancel_del", NoLateCallback
        PROVE  del_hdl[t] \in hdl_mem
    <3>1. del_hdl[t] = hdl[t]
      BY <1>1, <2>4 DEF OInv, Loaded
    <3> QED
      BY <1>1, <2>4, <3>1 DEF IInv, TypeOK, LockHeld, LockedPcs
  <2> QED
    BY <2>1, <2>2, <2>3, <2>4 DEF HandleOutlivesUse
<1>2. Spec => [](NoCancel => NInv)
  <2>1. CASE NoCancel
    <3>1. NInv => (NoCancel => NInv) OBVIOUS
    <3> QED BY <2>1, <3>1, RequestsReported, PTL
  <2>2. CASE ~NoCancel
    <3>1. NoCancel => NInv BY <2>2
    <3> QED BY <3>1, PTL
  <2> QED BY <2>1, <2>2
<1> QED
  BY <1>1, <1>2, Invariance, Ownership, PTL

\* The callback of a request reports the result of that request: no other job
\* the driver knows of, on any handle, leads to the same record.
THEOREM ResultSafety == ASSUME NoCancel PROVE Spec => []ResultBelongsToRequest
<1>1. ASSUME IInv, OInv, NInv PROVE ResultBelongsToRequest
  <2> SUFFICES ASSUME NEW h \in Handles, NEW j \in Known,
                      cbpc[h] = "user", user_data[j] = CbInfo(h)
               PROVE  j = running[h]
    BY DEF ResultBelongsToRequest
  <2>1. PICK g \in Handles : j \in Jobs /\ InUse(g, j)
    BY <1>1 DEF IInv, TypeOK, SvcTypeOK, Known, InUse
  <2>2. running[h] \in Jobs /\ InUse(h, running[h])
    BY <1>1 DEF IInv, JobsHaveRecords, InUse
  <2> QED
    BY <1>1, <2>1, <2>2, Apart DEF CbInfo
<1>2. NInv => NoLateCallback
  BY DEF NInv, OnlyStoreAfterFree, NoLateCallback
<1>3. QED
  BY <1>1, <1>2, Invariance, Ownership, RequestsReported, PTL

-----------------------------------------------------------------------------
(* FdpmApi implements FdpmRequests: each step is a step of the promise, or  *)
(* the client does not see it.                                             *)

\* A thread gets into Cancel only by calling it.
CancelsCalled == \A t \in Threads : pc[t] \in CancelPcs => "cancel" \in Calls

StartingPcs == {"start_entry", "start_store"}

\* At most one thread is between vspm_if_add_fdp_cb_info and the return of
\* Start, because it holds fdp_hdl_mutex.
LEMMA OneStarter ==
    ASSUME IInv, NEW t \in Threads, NEW u \in Threads,
           pc[t] \in LockedPcs, pc[u] \in LockedPcs
    PROVE  t = u
BY DEF IInv, LockHeld

\* What a step may change without the client seeing it: the handles ...
LEMMA KeepHandles ==
    ASSUME hdl_list' = hdl_list, hdl_mem' = hdl_mem,
           \A t \in Threads : pc'[t] = "open_add" <=> pc[t] = "open_add",
           \A t \in Threads : pc[t] = "open_add" => hdl'[t] = hdl[t]
    PROVE  HandleNow' = HandleNow
<1>1. \A h \in Handles : Opening(h)' <=> Opening(h)
  BY DEF Opening
<1> QED
  BY <1>1 DEF HandleNow

\* ... the requests that wait ...
LEMMA KeepWaiting ==
    ASSUME \A h \in Handles : cb_list'[h] = cb_list[h],
           \A h \in Handles : \A r \in cb_list[h] : job_id'[r] = job_id[r],
           \A t \in Threads : pc'[t] \in StartingPcs <=> pc[t] \in StartingPcs,
           \A t \in Threads :
              pc[t] \in StartingPcs =>
                 pc'[t] = pc[t] /\ cb'[t] = cb[t] /\ rsp'[t] = rsp[t]
    PROVE  WaitingNow' = WaitingNow
<1>1. ASSUME NEW r PROVE Starting(r)' = Starting(r)
  BY DEF Starting, StartingPcs
<1>2. ASSUME NEW h \in Handles, NEW r \in cb_list[h], NEW j
      PROVE  HasJob(r, j)' <=> HasJob(r, j)
  BY <1>1, <1>2 DEF HasJob, Starting, StartingPcs
<1>3. ASSUME NEW h \in Handles
      PROVE  {q \in cb_list'[h] \X Jobs : HasJob(q[1], q[2])'}
             = {q \in cb_list[h] \X Jobs : HasJob(q[1], q[2])}
  BY <1>2
<1> QED
  BY <1>3 DEF WaitingNow

\* ... and the reports.
LEMMA KeepReports ==
    ASSUME \A h \in Handles : cbpc'[h] = "user" <=> cbpc[h] = "user",
           \A h \in Handles :
              cbpc[h] = "user" =>
                 /\ running'[h] = running[h]
                 /\ user_data'[running[h]] = user_data[running[h]]
    PROVE  ReportingNow' = ReportingNow
BY DEF ReportingNow, CbInfo

\* A step the client does not see.
LEMMA Unseen ==
    ASSUME HandleNow' = HandleNow, WaitingNow' = WaitingNow,
           ReportingNow' = ReportingNow
    PROVE  [Requests!Next]_requestVars
BY DEF requestVars

\* drv_FDPM_Open
LEMMA OpenView ==
    ASSUME IInv, OInv, NEW t \in Apps, OpenStep(t)
    PROVE  [Requests!Next]_requestVars
<1> USE DEF Goto, Return, locals, memVars, lockVars, ubVars, svcVars
<1>0. t \in Threads
  BY DEF Threads
<1>1. ASSUME NEW h \in Handles, OpenInit(t, h)
      PROVE  [Requests!Next]_requestVars
  <2>1. cb_list[h] = {}
    BY <1>1 DEF OpenInit, OInv, Lists
  <2>2. h \notin hdl_list
    BY <1>1 DEF OpenInit, IInv, TypeOK
  <2>3. ASSUME NEW g \in Handles, g # h PROVE Opening(g)' <=> Opening(g)
    BY <1>0, <1>1, <2>3 DEF OpenInit, Opening, IInv, TypeOK
  <2>4. Opening(h)'
    BY <1>0, <1>1 DEF OpenInit, Opening, IInv, TypeOK
  <2>5. HandleNow' = HandleNow
    BY <1>1, <2>2, <2>3, <2>4 DEF OpenInit, HandleNow
  <2>6. WaitingNow' = WaitingNow
    BY <1>0, <1>1, <2>1, KeepWaiting
       DEF OpenInit, SvcInitDriver, IInv, TypeOK, StartingPcs
  <2>7. ReportingNow' = ReportingNow
    BY <1>1, KeepReports DEF OpenInit, SvcInitDriver
  <2> QED
    BY <2>5, <2>6, <2>7, Unseen
<1>2. CASE OpenAdd(t)
  <2> DEFINE h == hdl[t]
  <2>1. h \in Handles /\ h \notin hdl_list /\ h \in hdl_mem
    BY <1>0, <1>2 DEF OpenAdd, IInv, TypeOK, PrivateHandles, PrivatePcs
  <2>2. Opening(h)
    BY <1>0, <1>2 DEF OpenAdd, Opening
  <2>3. ASSUME NEW g \in Handles, g # h PROVE Opening(g)' <=> Opening(g)
    BY <1>0, <1>2, <2>3 DEF OpenAdd, Opening, IInv, TypeOK
  <2>4. HandleNow' = [HandleNow EXCEPT ![h] = "open"]
    BY <1>2, <2>1, <2>3 DEF OpenAdd, HandleNow
  <2>5. HandleNow[h] = "closed"
    BY <2>1, <2>2 DEF HandleNow
  <2>6. WaitingNow' = WaitingNow
    BY <1>0, <1>2, KeepWaiting DEF OpenAdd, IInv, TypeOK, StartingPcs
  <2>7. ReportingNow' = ReportingNow
    BY <1>2, KeepReports DEF OpenAdd
  <2>8. Requests!Open(h)
    BY <2>4, <2>5, <2>6, <2>7 DEF Requests!Open
  <2> QED
    BY <2>1, <2>8 DEF Requests!Next
<1> QED
  BY <1>1, <1>2 DEF OpenStep

\* drv_FDPM_Close
LEMMA CloseView ==
    ASSUME IInv, OInv, NEW t \in Apps, CloseStep(t)
    PROVE  [Requests!Next]_requestVars
<1> USE DEF Goto, Return, locals, memVars, lockVars, ubVars, svcVars
<1>0. t \in Threads
  BY DEF Threads
<1>1. ASSUME NEW i \in Ids, NEW h \in Handles, CloseDel(t, i, h)
      PROVE  [Requests!Next]_requestVars
  <2>1. h \in hdl_list /\ h \in hdl_mem
    BY <1>1 DEF CloseDel, get_handle, IInv, TypeOK
  <2>2. ~Opening(h)
    BY <2>1 DEF Opening, IInv, PrivateHandles, PrivatePcs
  <2>3. ASSUME NEW g \in Handles PROVE Opening(g)' <=> Opening(g)
    BY <1>0, <1>1 DEF CloseDel, Opening, IInv, TypeOK
  <2>4. HandleNow' = [HandleNow EXCEPT ![h] = "closing"]
    BY <1>1, <2>1, <2>2, <2>3 DEF CloseDel, HandleNow
  <2>5. HandleNow[h] = "open"
    BY <2>1 DEF HandleNow
  <2>6. WaitingNow' = WaitingNow
    BY <1>0, <1>1, KeepWaiting DEF CloseDel, IInv, TypeOK, StartingPcs
  <2>7. ReportingNow' = ReportingNow
    BY <1>1, KeepReports DEF CloseDel
  <2>8. Requests!Close(h)
    BY <2>4, <2>5, <2>6, <2>7 DEF Requests!Close
  <2> QED
    BY <2>8 DEF Requests!Next
<1>2. CASE CloseQuit(t) \/ CloseQuitRefused(t) \/ CloseQuitDone(t)
           \/ CloseQuitFails(t)
  <2> USE DEF CloseQuit, CloseQuitRefused, CloseQuitDone, CloseQuitFails,
              SvcStartQuit, SvcQuitDone, SvcQuitFails
  <2>1. HandleNow' = HandleNow
    BY <1>0, <1>2, KeepHandles DEF IInv, TypeOK
  <2>2. WaitingNow' = WaitingNow
    BY <1>0, <1>2, KeepWaiting DEF IInv, TypeOK, StartingPcs
  <2>3. ReportingNow' = ReportingNow
    BY <1>2, KeepReports
  <2> QED
    BY <2>1, <2>2, <2>3, Unseen
<1>3. ASSUME NEW r \in Recs, CloseDrain(t, r)
      PROVE  [Requests!Next]_requestVars
  <2> DEFINE h == hdl[t]
             q == <<r, job_id[r]>>
  <2>1. /\ h \in Handles /\ h \notin hdl_list /\ h \in hdl_mem
        /\ r \in cb_list[h] /\ parent_hdl[r] = h
    BY <1>0, <1>3
       DEF CloseDrain, IInv, TypeOK, PrivateHandles, PrivatePcs, ClosePcs,
           OInv, Lists
  <2>2. ~Opening(h)
    BY <1>0, <1>3 DEF CloseDrain, Opening, IInv, PrivateHandles, PrivatePcs,
       ClosePcs
  <2>3. HandleNow[h] = "closing"
    BY <2>1, <2>2 DEF HandleNow
  <2>4. ASSUME NEW u \in Starting(r) PROVE FALSE
    <3>1. u \in Threads /\ cb[u] = r /\ hdl[u] \in hdl_list
      BY <2>4 DEF Starting, IInv, LockHeld, LockedPcs
    <3>2. r \notin cb_list[hdl[u]]
      BY <2>1, <3>1 DEF IInv, TypeOK, OInv, Lists
    <3>3. CASE pc[u] = "start_entry"
      BY <3>1, <3>2, <3>3 DEF OInv, Entering
    <3>4. CASE pc[u] = "start_store"
      <4>1. hdl[u] \in Handles
        BY <3>1 DEF IInv, TypeOK
      <4>2. cbpc[hdl[u]] = "user" /\ CbInfo(hdl[u]) = r
        BY <2>1, <3>1, <3>2, <3>4 DEF OInv, StoredJobs, CbInfo
      <4>3. parent_hdl[r] = hdl[u]
        BY <4>1, <4>2 DEF OInv, Reporting
      <4> QED
        BY <2>1, <3>1, <4>3
    <3> QED
      BY <2>4, <3>3, <3>4 DEF Starting
  <2>5. Starting(r) = {}
    BY <2>4
  <2>6. job_id[r] \in Jobs
    BY <2>1, <2>5 DEF OInv, ListedJobs, Starting
  <2>7. q \in WaitingNow[h]
    BY <2>1, <2>5, <2>6 DEF WaitingNow, HasJob
  <2>8. HandleNow' = HandleNow
    BY <1>0, <1>3, KeepHandles DEF CloseDrain, IInv, TypeOK
  <2>9. ReportingNow' = ReportingNow
    BY <1>3, KeepReports DEF CloseDrain
  <2>10. ASSUME NEW x, NEW j PROVE HasJob(x, j)' <=> HasJob(x, j)
    BY <1>0, <1>3 DEF CloseDrain, HasJob, Starting, IInv, TypeOK
  <2>11. WaitingNow' = [WaitingNow EXCEPT ![h] = @ \ {q}]
    <3>1. ASSUME NEW g \in Handles, g # h PROVE cb_list'[g] = cb_list[g]
      BY <1>3, <3>1 DEF CloseDrain
    <3>2. cb_list'[h] = cb_list[h] \ {r}
      BY <1>3, <2>1 DEF CloseDrain, IInv, TypeOK
    <3>3. ASSUME NEW j PROVE HasJob(r, j) <=> j = job_id[r]
      BY <2>5 DEF HasJob
    <3>4. {p \in cb_list'[h] \X Jobs : HasJob(p[1], p[2])'}
            = {p \in cb_list[h] \X Jobs : HasJob(p[1], p[2])} \ {q}
      BY <2>10, <3>2, <3>3
    <3>5. ASSUME NEW g \in Handles, g # h
          PROVE  {p \in cb_list'[g] \X Jobs : HasJob(p[1], p[2])'}
                 = {p \in cb_list[g] \X Jobs : HasJob(p[1], p[2])}
      BY <2>10, <3>1, <3>5
    <3> QED
      BY <2>1, <3>4, <3>5 DEF WaitingNow
  <2>12. Requests!Withdraw(h, q)
    BY <2>3, <2>7, <2>8, <2>9, <2>11 DEF Requests!Withdraw
  <2>13. q \in Recs \X Jobs
    BY <2>6
  <2> QED
    BY <2>1, <2>12, <2>13 DEF Requests!Next
<1>4. CASE CloseFree(t)
  <2> DEFINE h == hdl[t]
  <2>1. h \in Handles /\ h \notin hdl_list /\ h \in hdl_mem
    BY <1>0, <1>4
       DEF CloseFree, IInv, TypeOK, PrivateHandles, PrivatePcs, ClosePcs
  <2>2. ~Opening(h)
    BY <1>0, <1>4 DEF CloseFree, Opening, IInv, PrivateHandles, PrivatePcs,
       ClosePcs
  <2>3. HandleNow[h] = "closing"
    BY <2>1, <2>2 DEF HandleNow
  <2>4. WaitingNow[h] = {}
    BY <1>4, <2>1 DEF CloseFree, WaitingNow
  <2>5. cbpc[h] = "idle"
    BY <1>0, <1>4, <2>1, ServiceAssumption
       DEF CloseFree, IInv, Sessions, JobsHaveRecords
  <2>6. ReportingNow[h] = NoRequest
    BY <2>1, <2>5 DEF ReportingNow
  <2>7. ASSUME NEW g \in Handles PROVE Opening(g)' <=> Opening(g)
    BY <1>0, <1>4 DEF CloseFree, Opening, IInv, TypeOK
  <2>8. HandleNow' = [HandleNow EXCEPT ![h] = "closed"]
    BY <1>4, <2>1, <2>7 DEF CloseFree, HandleNow
  <2>9. WaitingNow' = WaitingNow
    BY <1>0, <1>4, KeepWaiting DEF CloseFree, IInv, TypeOK, StartingPcs
  <2>10. ReportingNow' = ReportingNow
    BY <1>4, KeepReports DEF CloseFree
  <2>11. Requests!Closed(h)
    BY <2>3, <2>4, <2>6, <2>8, <2>9, <2>10 DEF Requests!Closed
  <2> QED
    BY <2>1, <2>11 DEF Requests!Next
<1> QED
  BY <1>1, <1>2, <1>3, <1>4 DEF CloseStep

\* A listed record no Start works on holds the identifier of its job.
LEMMA JobOfRecord ==
    ASSUME IInv, OInv, NEW h \in Handles, NEW r \in cb_list[h],
           Starting(r) = {}
    PROVE  job_id[r] \in Jobs /\ (\A j : HasJob(r, j) <=> j = job_id[r])
BY DEF OInv, ListedJobs, Starting, HasJob

\* One that Start has listed has no job before the driver accepts it.
LEMMA NoJobYet ==
    ASSUME IInv, NEW t \in Threads, pc[t] = "start_entry"
    PROVE  /\ \A j : ~HasJob(cb[t], j)
           /\ \A r : r # cb[t] => Starting(r) = {}
<1>1. \A u \in Threads : pc[u] \in StartingPcs => u = t
  BY OneStarter DEF LockedPcs, StartingPcs
<1> QED
  BY <1>1 DEF HasJob, Starting, StartingPcs

\* The driver takes a job: the request is new, and waits.
LEMMA EntryView ==
    ASSUME IInv, OInv, NEW t \in Threads, NEW j \in Jobs, StartEntry(t, j)
    PROVE  [Requests!Next]_requestVars
<1> DEFINE h == hdl[t]
           r == cb[t]
           q == <<r, j>>
<1> USE DEF Goto, locals, memVars, lockVars, ubVars, svcVars
<1>1. /\ pc[t] = "start_entry" /\ h \in hdl_list /\ h \in Handles
      /\ r \in Recs /\ r \in cb_list[h] /\ parent_hdl[r] = h
  BY DEF StartEntry, IInv, TypeOK, LockHeld, LockedPcs, JobsHaveRecords, OInv,
     Entering, Lists
<1>2. /\ \A k : ~HasJob(r, k)
      /\ \A x : x # r => Starting(x) = {}
  BY <1>1, NoJobYet
<1>3. HandleNow[h] = "open"
  BY <1>1 DEF HandleNow
<1>4. j \notin Known
  BY DEF StartEntry, SvcEntryJob
<1>5. ASSUME NEW g \in Handles, NEW p \in WaitingNow[g]
      PROVE  p[1] # r /\ (HandleNow[g] = "open" => p[2] # j)
  <2>1. p[1] \in cb_list[g] /\ p[2] \in Jobs /\ HasJob(p[1], p[2])
    BY <1>5 DEF WaitingNow
  <2>2. p[1] # r
    BY <1>2, <2>1
  <2>3. p[2] = job_id[p[1]]
    BY <1>2, <2>1, <2>2, JobOfRecord
  <2>4. ASSUME HandleNow[g] = "open" PROVE p[2] \in Known
    <3>1. session[g] = "up"
      BY <2>4 DEF HandleNow, IInv, Sessions
    <3>2. Pending(g, p[2])
      BY <1>2, <2>1, <2>2, <2>3, <3>1
         DEF OInv, ListedJobs, Starting
    <3> QED
      BY <2>1, <3>2, ServiceAssumption DEF Pending, Known
  <2> QED
    BY <1>4, <2>2, <2>4
<1>6. ASSUME NEW g \in Handles, ReportingNow[g] # NoRequest
      PROVE  ReportingNow[g][1] # r /\ ReportingNow[g][2] # j
  <2>1. cbpc[g] = "user" /\ ReportingNow[g] = <<CbInfo(g), running[g]>>
    BY <1>6 DEF ReportingNow
  <2>2. CbInfo(g) # r
    BY <1>1, <2>1 DEF OInv, Reporting
  <2>3. running[g] \in Known
    BY <2>1, ServiceAssumption DEF IInv, JobsHaveRecords, Known
  <2> QED
    BY <1>4, <2>1, <2>2, <2>3
<1>7. Requests!New(q)
  BY <1>5, <1>6 DEF Requests!New
<1>8. HandleNow' = HandleNow
  BY <1>1, KeepHandles DEF StartEntry, IInv, TypeOK
<1>9. ReportingNow' = ReportingNow
  <2>1. ASSUME NEW g \in Handles, cbpc[g] = "user" PROVE running[g] # j
    BY <1>4, <2>1, ServiceAssumption DEF IInv, JobsHaveRecords, Known
  <2> QED
    BY <2>1, KeepReports DEF StartEntry, SvcEntryJob, IInv, TypeOK
<1>10. WaitingNow' = [WaitingNow EXCEPT ![h] = @ \cup {q}]
  <2>1. ASSUME NEW x, x = r PROVE Starting(x)' = {t}
    BY <1>1, <2>1, OneStarter
       DEF StartEntry, IInv, TypeOK, Starting, LockedPcs
  <2>2. ASSUME NEW x, x = r, NEW k PROVE HasJob(x, k)' <=> k = j
    <3>1. pc'[t] = "start_store" /\ rsp'[t] = j
      BY DEF StartEntry, IInv, TypeOK
    <3> QED
      BY <2>1, <2>2, <3>1 DEF HasJob
  <2>3. ASSUME NEW x, x # r, NEW k PROVE HasJob(x, k)' <=> HasJob(x, k)
    <3>1. Starting(x)' = {} /\ Starting(x) = {}
      BY <1>1, <1>2, <2>3 DEF Starting, StartEntry, IInv, TypeOK
    <3> QED
      BY <3>1 DEF HasJob, StartEntry
  <2>4. cb_list' = cb_list
    BY DEF StartEntry
  <2>5. {p \in cb_list'[h] \X Jobs : HasJob(p[1], p[2])'}
          = {p \in cb_list[h] \X Jobs : HasJob(p[1], p[2])} \cup {q}
    <3>1. ASSUME NEW p \in cb_list[h] \X Jobs
          PROVE  HasJob(p[1], p[2])' <=> HasJob(p[1], p[2]) \/ p = q
      <4>1. p = <<p[1], p[2]>>
        OBVIOUS
      <4>2. CASE p[1] = r
        BY <1>2, <2>2, <4>1, <4>2
      <4>3. CASE p[1] # r
        BY <2>3, <4>3
      <4> QED
        BY <4>2, <4>3
    <3>2. q \in cb_list[h] \X Jobs
      BY <1>1
    <3> QED
      BY <2>4, <3>1, <3>2
  <2>6. ASSUME NEW g \in Handles, g # h
        PROVE  {p \in cb_list'[g] \X Jobs : HasJob(p[1], p[2])'}
               = {p \in cb_list[g] \X Jobs : HasJob(p[1], p[2])}
    <3>1. r \notin cb_list[g]
      BY <1>1, <2>6 DEF OInv, Lists
    <3> QED
      BY <2>3, <2>4, <3>1
  <2> QED
    BY <1>1, <2>5, <2>6 DEF WaitingNow
<1>11. Requests!Accept(h, q)
  BY <1>3, <1>7, <1>8, <1>9, <1>10 DEF Requests!Accept
<1>12. q \in Recs \X Jobs
  BY <1>1
<1> QED
  BY <1>1, <1>11, <1>12 DEF Requests!Next

\* The other steps of drv_FDPM_Start are not seen.
LEMMA StartView ==
    ASSUME IInv, OInv, NEW t \in Threads, StartStep(t)
    PROVE  [Requests!Next]_requestVars
<1> USE DEF Goto, Return, locals, memVars, lockVars, ubVars, svcVars
<1>1. ASSUME NEW r \in Recs, StartMalloc(t, r)
      PROVE  [Requests!Next]_requestVars
  <2>1. \A h \in Handles : r \notin cb_list[h]
    BY <1>1 DEF StartMalloc, OInv, Lists
  <2>2. HandleNow' = HandleNow
    BY <1>1, KeepHandles DEF StartMalloc, IInv, TypeOK
  <2>3. WaitingNow' = WaitingNow
    BY <1>1, <2>1, KeepWaiting DEF StartMalloc, IInv, TypeOK, StartingPcs
  <2>4. ReportingNow' = ReportingNow
    BY <1>1, KeepReports DEF StartMalloc
  <2> QED
    BY <2>2, <2>3, <2>4, Unseen
<1>2. ASSUME NEW i \in Ids, StartNoHandle(t, i)
      PROVE  [Requests!Next]_requestVars
  <2>2. HandleNow' = HandleNow
    BY <1>2, KeepHandles DEF StartNoHandle, IInv, TypeOK
  <2>3. WaitingNow' = WaitingNow
    BY <1>2, KeepWaiting DEF StartNoHandle, IInv, TypeOK, StartingPcs
  <2>4. ReportingNow' = ReportingNow
    BY <1>2, KeepReports DEF StartNoHandle
  <2> QED
    BY <2>2, <2>3, <2>4, Unseen
<1>3. ASSUME NEW i \in Ids, NEW h \in Handles, StartAdd(t, i, h)
      PROVE  [Requests!Next]_requestVars
  <2> DEFINE r == cb[t]
  <2>1. r \in Recs /\ parent_hdl[r] = Null
    BY <1>3 DEF StartAdd, IInv, JobsHaveRecords, OInv, Fresh
  <2>2. \A g \in Handles : r \notin cb_list[g]
    BY <2>1, FdpmAssumption DEF OInv, Lists
  <2>3. \A u \in Threads : pc[u] \notin StartingPcs
    BY <1>3, FdpmAssumption
       DEF StartAdd, IInv, LockHeld, LockedPcs, StartingPcs, Threads
  <2>4. ASSUME NEW x, x # r PROVE Starting(x) = {} /\ Starting(x)' = {}
    BY <1>3, <2>3, <2>4 DEF Starting, StartingPcs, StartAdd, IInv, TypeOK
  <2>5. ASSUME NEW x, x # r, NEW j PROVE HasJob(x, j)' <=> HasJob(x, j)
    BY <1>3, <2>4, <2>5 DEF HasJob, StartAdd
  <2>6. ASSUME NEW x, x = r, NEW j PROVE ~HasJob(x, j)'
    <3>1. t \in Starting(x)'
      BY <1>3, <2>6 DEF Starting, StartAdd, IInv, TypeOK
    <3>2. \A u \in Threads : pc'[u] # "start_store"
      BY <1>3, <2>3 DEF StartingPcs, StartAdd, IInv, TypeOK
    <3> QED
      BY <3>1, <3>2 DEF HasJob, Starting
  <2>7. ASSUME NEW g \in Handles
        PROVE  {p \in cb_list'[g] \X Jobs : HasJob(p[1], p[2])'}
               = {p \in cb_list[g] \X Jobs : HasJob(p[1], p[2])}
    <3>1. cb_list'[g] \ {r} = cb_list[g] /\ cb_list[g] \subseteq cb_list'[g]
      BY <1>3, <2>2 DEF StartAdd, IInv, TypeOK
    <3>2. ASSUME NEW p \in cb_list'[g] \X Jobs
          PROVE  HasJob(p[1], p[2])'
                    <=> p \in cb_list[g] \X Jobs /\ HasJob(p[1], p[2])
      <4>1. p = <<p[1], p[2]>> /\ p[2] \in Jobs
        OBVIOUS
      <4>2. CASE p[1] = r
        BY <2>2, <2>6, <4>2
      <4>3. CASE p[1] # r
        BY <2>5, <3>1, <4>1, <4>3
      <4> QED
        BY <4>2, <4>3
    <3> QED
      BY <3>1, <3>2
  <2>8. WaitingNow' = WaitingNow
    BY <2>7 DEF WaitingNow
  <2>9. HandleNow' = HandleNow
    BY <1>3, KeepHandles DEF StartAdd, IInv, TypeOK
  <2>10. ReportingNow' = ReportingNow
    BY <1>3, KeepReports DEF StartAdd
  <2> QED
    BY <2>8, <2>9, <2>10, Unseen
<1>4. ASSUME NEW j \in Jobs, StartEntry(t, j)
      PROVE  [Requests!Next]_requestVars
  BY <1>4, EntryView
<1>5. CASE StartRefused(t)
  <2> DEFINE r == cb[t]
  <2>1. pc[t] = "start_entry" /\ hdl[t] \in Handles
    BY <1>5 DEF StartRefused, IInv, TypeOK, LockHeld, LockedPcs
  <2>2. /\ \A k : ~HasJob(r, k)
        /\ \A x : x # r => Starting(x) = {}
    BY <2>1, NoJobYet
  <2>3. ASSUME NEW x PROVE Starting(x)' = {}
    BY <1>5, <2>1, OneStarter
       DEF StartRefused, IInv, TypeOK, Starting, LockedPcs
  <2>4. ASSUME NEW x, x # r, NEW j PROVE HasJob(x, j)' <=> HasJob(x, j)
    BY <1>5, <2>2, <2>3, <2>4 DEF HasJob, StartRefused
  <2>5. ASSUME NEW g \in Handles
        PROVE  {p \in cb_list'[g] \X Jobs : HasJob(p[1], p[2])'}
               = {p \in cb_list[g] \X Jobs : HasJob(p[1], p[2])}
    <3>1. cb_list'[g] \subseteq cb_list[g]
      BY <1>5, <2>1 DEF StartRefused, IInv, TypeOK
    <3>2. \A x \in cb_list[g] : x # r => x \in cb_list'[g]
      BY <1>5, <2>1 DEF StartRefused, IInv, TypeOK
    <3>3. r \notin cb_list'[g]
      BY <1>5, <2>1 DEF StartRefused, IInv, TypeOK, OInv, Entering, Lists
    <3> QED
      BY <2>2, <2>4, <3>1, <3>2, <3>3
  <2>6. WaitingNow' = WaitingNow
    BY <2>5 DEF WaitingNow
  <2>7. HandleNow' = HandleNow
    BY <1>5, KeepHandles DEF StartRefused, IInv, TypeOK
  <2>8. ReportingNow' = ReportingNow
    BY <1>5, KeepReports DEF StartRefused
  <2> QED
    BY <2>6, <2>7, <2>8, Unseen
<1>6. CASE StartStore(t)
  <2> DEFINE r == cb[t]
  <2>1. pc[t] = "start_store" /\ r \in Recs
    BY <1>6 DEF StartStore, IInv, JobsHaveRecords
  <2>2. \A u \in Threads : pc[u] \in StartingPcs => u = t
    BY <2>1, OneStarter DEF LockedPcs, StartingPcs
  <2>3. ASSUME NEW x PROVE Starting(x)' = {}
    BY <1>6, <2>2 DEF StartStore, IInv, TypeOK, Starting, StartingPcs
  <2>4. ASSUME NEW x \in Recs, NEW j PROVE HasJob(x, j)' <=> HasJob(x, j)
    <3>1. CASE x = r
      <4>1. HasJob(x, j)' <=> j = rsp[t]
        BY <1>6, <2>1, <2>3, <3>1 DEF HasJob, StartStore, IInv, TypeOK
      <4>2. Starting(x) = {t}
        BY <2>1, <2>2, <3>1 DEF Starting, StartingPcs
      <4> QED
        BY <2>1, <4>1, <4>2 DEF HasJob
    <3>2. CASE x # r
      <4>1. Starting(x) = {}
        BY <2>2, <3>2 DEF Starting, StartingPcs
      <4> QED
        BY <1>6, <2>3, <3>2, <4>1 DEF HasJob, StartStore, IInv, TypeOK
    <3> QED
      BY <3>1, <3>2
  <2>5. ASSUME NEW g \in Handles
        PROVE  {p \in cb_list'[g] \X Jobs : HasJob(p[1], p[2])'}
               = {p \in cb_list[g] \X Jobs : HasJob(p[1], p[2])}
    BY <1>6, <2>4 DEF StartStore, IInv, TypeOK
  <2>6. WaitingNow' = WaitingNow
    BY <2>5 DEF WaitingNow
  <2>7. HandleNow' = HandleNow
    BY <1>6, KeepHandles DEF StartStore, IInv, TypeOK
  <2>8. ReportingNow' = ReportingNow
    BY <1>6, KeepReports DEF StartStore
  <2> QED
    BY <2>6, <2>7, <2>8, Unseen
<1>7. CASE StartDies(t)
  BY <1>7
     DEF StartDies, Dies, requestVars, HandleNow, Opening, WaitingNow, HasJob,
         Starting, ReportingNow, CbInfo
<1> QED
  BY <1>1, <1>2, <1>3, <1>4, <1>5, <1>6, <1>7 DEF StartStep

\* drv_FDPM_Cancel withdraws the request whose record it takes off the list.
LEMMA CancelView ==
    ASSUME IInv, OInv, CancelsCalled, NEW t \in Threads, CancelStep(t)
    PROVE  [Requests!Next]_requestVars
<1> USE DEF Goto, Return, locals, memVars, lockVars, ubVars, svcVars
<1>1. ASSUME NEW i \in Ids, NEW h \in Handles, CancelBegin(t, i, h)
      PROVE  [Requests!Next]_requestVars
  <2>1. HandleNow' = HandleNow
    BY <1>1, KeepHandles DEF CancelBegin, IInv, TypeOK
  <2>2. WaitingNow' = WaitingNow
    BY <1>1, KeepWaiting DEF CancelBegin, IInv, TypeOK, StartingPcs
  <2>3. ReportingNow' = ReportingNow
    BY <1>1, KeepReports DEF CancelBegin
  <2> QED
    BY <2>1, <2>2, <2>3, Unseen
<1>2. CASE CancelTest(t) \/ CancelEnd(t) \/ CancelLoad(t) \/ CancelRead(t)
           \/ CancelFree(t)
  <2> USE DEF CancelTest, CancelEnd, CancelLoad, CancelRead, CancelFree
  <2>1. HandleNow' = HandleNow
    BY <1>2, KeepHandles DEF IInv, TypeOK
  <2>2. WaitingNow' = WaitingNow
    BY <1>2, KeepWaiting DEF IInv, TypeOK, StartingPcs
  <2>3. ReportingNow' = ReportingNow
    BY <1>2, KeepReports
  <2> QED
    BY <2>1, <2>2, <2>3, Unseen
<1>3. CASE CancelJob(t)
  <2>1. HandleNow' = HandleNow
    BY <1>3, KeepHandles DEF CancelJob, IInv, TypeOK
  <2>2. WaitingNow' = WaitingNow
    BY <1>3, KeepWaiting DEF CancelJob, IInv, TypeOK, StartingPcs
  <2>3. ReportingNow' = ReportingNow
    BY <1>3, KeepReports DEF CancelJob, SvcDropJobs
  <2> QED
    BY <2>1, <2>2, <2>3, Unseen
<1>4. CASE CancelDies(t)
  BY <1>4
     DEF CancelDies, Dies, requestVars, HandleNow, Opening, WaitingNow,
         HasJob, Starting, ReportingNow, CbInfo
<1>5. CASE CancelDel(t)
  <2> DEFINE h == hdl[t]
             r == cb[t]
             q == <<r, job_id[r]>>
  <2>1. /\ pc[t] = "cancel_del" /\ h \in Handles /\ r \in Recs
        /\ del_hdl[t] = h /\ h \in hdl_list
    BY <1>5 DEF CancelDel, IInv, TypeOK, LockHeld, LockedPcs, OInv, Loaded
  <2>2. ASSUME NEW x PROVE Starting(x) = {}
    BY <2>1, OneStarter DEF Starting, LockedPcs
  <2>3. HandleNow' = HandleNow
    BY <1>5, KeepHandles DEF CancelDel, IInv, TypeOK
  <2>4. ReportingNow' = ReportingNow
    BY <1>5, KeepReports DEF CancelDel
  <2>5. CASE r \notin cb_list[h]
    <3>1. cb_list' = cb_list
      BY <1>5, <2>1, <2>5 DEF CancelDel, IInv, TypeOK
    <3>2. WaitingNow' = WaitingNow
      BY <1>5, <3>1, KeepWaiting DEF CancelDel, IInv, TypeOK, StartingPcs
    <3> QED
      BY <2>3, <2>4, <3>2, Unseen
  <2>6. CASE r \in cb_list[h]
    <3>1. /\ job_id[r] \in Jobs
          /\ \A j : HasJob(r, j) <=> j = job_id[r]
      BY <2>1, <2>2, <2>6, JobOfRecord
    <3>2. q \in WaitingNow[h]
      BY <2>1, <2>6, <3>1 DEF WaitingNow
    <3>3. "cancel" \in Calls
      BY <2>1 DEF CancelsCalled, CancelPcs
    <3>4. ASSUME NEW x PROVE Starting(x)' = {}
      BY <1>5, <2>2 DEF CancelDel, IInv, TypeOK, Starting
    <3>5. ASSUME NEW x, NEW j PROVE HasJob(x, j)' <=> HasJob(x, j)
      BY <1>5, <2>2, <3>4 DEF CancelDel, HasJob
    <3>6. WaitingNow' = [WaitingNow EXCEPT ![h] = @ \ {q}]
      <4>1. ASSUME NEW g \in Handles, g # h PROVE cb_list'[g] = cb_list[g]
        BY <1>5, <2>1, <4>1 DEF CancelDel
      <4>2. cb_list'[h] = cb_list[h] \ {r}
        BY <1>5, <2>1 DEF CancelDel, IInv, TypeOK
      <4>3. {p \in cb_list'[h] \X Jobs : HasJob(p[1], p[2])'}
              = {p \in cb_list[h] \X Jobs : HasJob(p[1], p[2])} \ {q}
        BY <3>1, <3>5, <4>2
      <4>4. ASSUME NEW g \in Handles, g # h
            PROVE  {p \in cb_list'[g] \X Jobs : HasJob(p[1], p[2])'}
                   = {p \in cb_list[g] \X Jobs : HasJob(p[1], p[2])}
        BY <3>5, <4>1, <4>4
      <4> QED
        BY <2>1, <4>3, <4>4 DEF WaitingNow
    <3>7. Requests!Withdraw(h, q)
      BY <2>3, <2>4, <3>2, <3>3, <3>6 DEF Requests!Withdraw
    <3>8. q \in Recs \X Jobs
      BY <2>1, <3>1
    <3> QED
      BY <2>1, <3>7, <3>8 DEF Requests!Next
  <2> QED
    BY <2>5, <2>6
<1> QED
  BY <1>1, <1>2, <1>3, <1>4, <1>5 DEF CancelStep

\* Nor does the client see drv_FDPM_Status.
LEMMA StatusView ==
    ASSUME IInv, NEW t \in Threads, StatusStep(t)
    PROVE  [Requests!Next]_requestVars
<1> USE DEF Goto, Return, locals, memVars, lockVars, ubVars, svcVars
<1>1. HandleNow' = HandleNow
  BY KeepHandles DEF StatusStep, StatusBegin, StatusEnd, IInv, TypeOK
<1>2. WaitingNow' = WaitingNow
  BY KeepWaiting
     DEF StatusStep, StatusBegin, StatusEnd, IInv, TypeOK, StartingPcs
<1>3. ReportingNow' = ReportingNow
  BY KeepReports DEF StatusStep, StatusBegin, StatusEnd
<1> QED
  BY <1>1, <1>2, <1>3, Unseen

\* The record of its own request that a callback finds is on the list of its
\* handle, and its job is the one the callback reports.
LEMMA OwnRecord ==
    ASSUME IInv, OInv, NEW h \in Handles, cbpc[h] = "del",
           CbInfo(h) \in cb_list[del_hdl[h]], OwnRequest(h)
    PROVE  /\ del_hdl[h] = h
           /\ CbInfo(h) \in cb_list[h]
           /\ \A j : HasJob(CbInfo(h), j) <=> j = running[h]
<1> DEFINE r == CbInfo(h)
           d == del_hdl[h]
           k == running[h]
<1>1. d \in Handles /\ k \in Jobs /\ r \in Recs /\ user_data[k] = r
  BY DEF OInv, Reporting, IInv, JobsHaveRecords, CbInfo
<1>2. r \in cb_list[d] /\ parent_hdl[r] = d
  BY <1>1 DEF OInv, Lists
<1>3. InUse(h, k) /\ Leads(k, r)
  BY <1>1 DEF InUse, Leads
<1>4. \A g \in Handles : InUse(g, k) => g = h
  BY <1>1, <1>3 DEF OInv, JobsApart
<1>5. ASSUME NEW g \in Handles, Pending(g, k) PROVE g = h
  BY <1>4, <1>5 DEF Pending, InUse
<1>6. CASE Starting(r) = {}
  <2>1. job_id[r] = k
    BY <1>6 DEF OwnRequest, Starting
  <2>2. Pending(d, k)
    BY <1>1, <1>2, <1>3, <1>6, <2>1 DEF OInv, ListedJobs, Starting
  <2>3. d = h
    BY <1>1, <1>5, <2>2
  <2> QED
    BY <1>2, <1>6, <2>1, <2>3 DEF HasJob
<1>7. ASSUME NEW t \in Starting(r)
      PROVE  d = h /\ (\A j : HasJob(r, j) <=> j = k)
  <2>1. t \in Threads /\ cb[t] = r /\ pc[t] \in StartingPcs
    BY <1>7 DEF Starting, StartingPcs
  <2>2. \A u \in Threads : pc[u] \in StartingPcs => u = t
    BY <2>1, OneStarter DEF LockedPcs, StartingPcs
  <2>3. Starting(r) = {t}
    BY <2>1, <2>2 DEF Starting, StartingPcs
  <2>4. pc[t] = "start_store" /\ rsp[t] = k
    <3>1. CASE job_id[r] = k
      <4>1. pc[t] # "start_entry"
        BY <1>3, <2>1, <3>1 DEF OInv, StaleJobs
      <4> QED
        BY <1>3, <2>1, <3>1, <4>1 DEF OInv, StaleJobs, StartingPcs
    <3>2. CASE job_id[r] # k
      BY <2>2, <3>2 DEF OwnRequest, StartingPcs
    <3> QED
      BY <3>1, <3>2
  <2>5. hdl[t] \in Handles
    BY <2>1 DEF StartingPcs, IInv, TypeOK, LockHeld, LockedPcs
  <2>6. r \in cb_list[hdl[t]] /\ Pending(hdl[t], k)
    <3>1. ~(cbpc[hdl[t]] = "user" /\ running[hdl[t]] = k)
      BY <1>4, <2>5 DEF InUse
    <3> QED
      BY <1>3, <2>1, <2>4, <3>1 DEF OInv, StoredJobs
  <2>7. hdl[t] = h
    BY <1>5, <2>5, <2>6
  <2>8. d = h
    BY <1>2, <2>6, <2>7 DEF OInv, Lists
  <2>9. ASSUME NEW j PROVE HasJob(r, j) <=> j = k
    BY <2>3, <2>4 DEF HasJob
  <2> QED
    BY <2>8, <2>9
<1> QED
  BY <1>2, <1>6, <1>7

\* A callback reports a request that waits, until one takes the record of
\* another request.
LEMMA CallbackView ==
    ASSUME IInv, OInv, NoLateCallback', NEW h \in Handles,
           CallbackStep(h) \/ DriverDrops(h)
    PROVE  [Requests!Next]_requestVars
<1> USE DEF Goto, locals, memVars, lockVars, ubVars, svcVars
<1>1. ASSUME NEW j \in Jobs, CallbackBegin(h, j)
      PROVE  [Requests!Next]_requestVars
  <2>1. cbpc[h] = "idle"
    BY <1>1, ServiceAssumption
       DEF CallbackBegin, SvcBeginCallback, IInv, JobsHaveRecords
  <2>2. HandleNow' = HandleNow
    BY <1>1, KeepHandles DEF CallbackBegin
  <2>3. WaitingNow' = WaitingNow
    BY <1>1, KeepWaiting DEF CallbackBegin
  <2>4. ReportingNow' = ReportingNow
    BY <1>1, <2>1, KeepReports
       DEF CallbackBegin, SvcBeginCallback, IInv, TypeOK, SvcTypeOK
  <2> QED
    BY <2>2, <2>3, <2>4, Unseen
<1>2. CASE CallbackRead(h)
  <2>2. HandleNow' = HandleNow
    BY <1>2, KeepHandles DEF CallbackRead
  <2>3. WaitingNow' = WaitingNow
    BY <1>2, KeepWaiting DEF CallbackRead
  <2>4. ReportingNow' = ReportingNow
    BY <1>2, KeepReports DEF CallbackRead, IInv, TypeOK
  <2> QED
    BY <2>2, <2>3, <2>4, Unseen
<1>3. CASE CallbackDies(h)
  BY <1>3
     DEF CallbackDies, Dies, requestVars, HandleNow, Opening, WaitingNow,
         HasJob, Starting, ReportingNow, CbInfo
<1>4. CASE CallbackDel(h)
  <2> DEFINE r == CbInfo(h)
             q == <<r, running[h]>>
  <2>1. OwnRequest(h)
    BY <1>4 DEF CallbackDel, NoLateCallback
  <2>2. /\ del_hdl[h] = h /\ r \in cb_list[h]
        /\ \A j : HasJob(r, j) <=> j = running[h]
    BY <1>4, <2>1, OwnRecord DEF CallbackDel
  <2>3. running[h] \in Jobs /\ r \in Recs
    BY <1>4 DEF CallbackDel, IInv, JobsHaveRecords, CbInfo
  <2>4. q \in WaitingNow[h]
    BY <2>2, <2>3 DEF WaitingNow
  <2>5. ReportingNow[h] = NoRequest
    BY <1>4 DEF CallbackDel, ReportingNow
  <2>6. HandleNow' = HandleNow
    BY <1>4, KeepHandles DEF CallbackDel
  <2>7. ReportingNow' = [ReportingNow EXCEPT ![h] = q]
    <3>1. \A g \in Handles : CbInfo(g)' = CbInfo(g)
      BY <1>4 DEF CallbackDel, CbInfo
    <3> QED
      BY <1>4, <3>1 DEF CallbackDel, ReportingNow, IInv, TypeOK
  <2>8. ASSUME NEW x, NEW j PROVE HasJob(x, j)' <=> HasJob(x, j)
    BY <1>4 DEF CallbackDel, HasJob, Starting
  <2>9. WaitingNow' = [WaitingNow EXCEPT ![h] = @ \ {q}]
    <3>1. ASSUME NEW g \in Handles, g # h PROVE cb_list'[g] = cb_list[g]
      BY <1>4, <2>2, <3>1 DEF CallbackDel
    <3>2. cb_list'[h] = cb_list[h] \ {r}
      BY <1>4, <2>2 DEF CallbackDel, IInv, TypeOK
    <3>3. {p \in cb_list'[h] \X Jobs : HasJob(p[1], p[2])'}
            = {p \in cb_list[h] \X Jobs : HasJob(p[1], p[2])} \ {q}
      BY <2>2, <2>8, <3>2
    <3>4. ASSUME NEW g \in Handles, g # h
          PROVE  {p \in cb_list'[g] \X Jobs : HasJob(p[1], p[2])'}
                 = {p \in cb_list[g] \X Jobs : HasJob(p[1], p[2])}
      BY <2>8, <3>1, <3>4
    <3> QED
      BY <3>3, <3>4 DEF WaitingNow
  <2>10. Requests!Report(h, q)
    BY <2>4, <2>5, <2>6, <2>7, <2>9 DEF Requests!Report
  <2>11. q \in Recs \X Jobs
    BY <2>3
  <2> QED
    BY <2>10, <2>11 DEF Requests!Next
<1>5. CASE CallbackCancelled(h)
  <2>2. HandleNow' = HandleNow
    BY <1>5, KeepHandles DEF CallbackCancelled
  <2>3. WaitingNow' = WaitingNow
    BY <1>5, KeepWaiting DEF CallbackCancelled
  <2>4. ReportingNow' = ReportingNow
    BY <1>5, KeepReports
       DEF CallbackCancelled, SvcEndCallback, IInv, TypeOK, SvcTypeOK
  <2> QED
    BY <2>2, <2>3, <2>4, Unseen
<1>6. CASE CallbackEnd(h)
  <2>1. ReportingNow[h] # NoRequest
    <3>1. running[h] # NoJob
      BY <1>6 DEF CallbackEnd, SvcEndCallback
    <3> QED
      BY <1>6, <3>1 DEF CallbackEnd, ReportingNow, NoRequest
  <2>2. HandleNow' = HandleNow
    BY <1>6, KeepHandles DEF CallbackEnd
  <2>3. WaitingNow' = WaitingNow
    BY <1>6, KeepWaiting DEF CallbackEnd
  <2>4. ReportingNow' = [ReportingNow EXCEPT ![h] = NoRequest]
    <3>1. \A g \in Handles : g # h =>
             cbpc'[g] = cbpc[g] /\ running'[g] = running[g]
      BY <1>6 DEF CallbackEnd, SvcEndCallback
    <3>2. cbpc'[h] = "idle" /\ user_data' = user_data
      BY <1>6 DEF CallbackEnd, IInv, TypeOK
    <3> QED
      BY <3>1, <3>2 DEF ReportingNow, CbInfo
  <2>5. Requests!Return(h)
    BY <2>1, <2>2, <2>3, <2>4 DEF Requests!Return
  <2> QED
    BY <2>5 DEF Requests!Next
<1>7. CASE DriverDrops(h)
  <2>2. HandleNow' = HandleNow
    BY <1>7, KeepHandles DEF DriverDrops
  <2>3. WaitingNow' = WaitingNow
    BY <1>7, KeepWaiting DEF DriverDrops
  <2>4. ReportingNow' = ReportingNow
    BY <1>7, KeepReports DEF DriverDrops, SvcDropJobs
  <2> QED
    BY <2>2, <2>3, <2>4, Unseen
<1> QED
  BY <1>1, <1>2, <1>3, <1>4, <1>5, <1>6, <1>7
     DEF CallbackStep, CallbackDisconnects

\* Only clients that call drv_FDPM_Cancel get into it.
LEMMA CancelCallers == Spec => []CancelsCalled
<1>1. Init => CancelsCalled
  BY DEF Init, CancelsCalled, CancelPcs
<1>2. ASSUME IInv, CancelsCalled, [Next]_vars PROVE CancelsCalled'
  <2> USE DEF Goto, Return, CancelPcs, CancelsCalled
  <2>1. ASSUME NEW t \in Apps, OpenStep(t) \/ CloseStep(t)
        PROVE  CancelsCalled'
    BY <1>2, <2>1
       DEF OpenStep, OpenAdd, OpenInit, CloseStep, CloseDel, CloseQuit,
           CloseQuitRefused, CloseQuitDone, CloseQuitFails, CloseDrain,
           CloseFree, IInv, TypeOK
  <2>2. ASSUME NEW t \in Threads, StartStep(t) \/ StatusStep(t)
        PROVE  CancelsCalled'
    BY <1>2, <2>2
       DEF StartStep, StartMalloc, StartNoHandle, StartAdd, StartEntry,
           StartRefused, StartStore, StartDies, Dies, StatusStep,
           StatusBegin, StatusEnd, IInv, TypeOK
  <2>3. ASSUME NEW t \in Threads, CancelStep(t) PROVE CancelsCalled'
    BY <1>2, <2>3
       DEF CancelStep, CancelBegin, MayCall, CancelTest, CancelEnd,
           CancelLoad, CancelRead, CancelDies, CancelDel, CancelJob,
           CancelFree, Dies, IInv, TypeOK
  <2>4. ASSUME NEW h \in Handles, CallbackStep(h) \/ DriverDrops(h)
        PROVE  CancelsCalled'
    BY <1>2, <2>4
       DEF CallbackStep, CallbackBegin, CallbackDisconnects, CallbackRead,
           CallbackDies, CallbackDel, CallbackCancelled, CallbackEnd,
           DriverDrops, Dies
  <2>5. CASE UNCHANGED vars
    BY <1>2, <2>5 DEF vars
  <2> QED
    BY <1>2, <2>1, <2>2, <2>3, <2>4, <2>5 DEF Next
<1> QED
  BY <1>1, <1>2, Invariance, PTL DEF Spec

\* A step keeps the promise, unless it is that of a late callback.
LEMMA NextView ==
    ASSUME IInv, NoLateCallback => OInv, CancelsCalled, [Next]_vars,
           NoLateCallback'
    PROVE  [Requests!Next]_requestVars
<1>1. NoLateCallback
  BY UbGrows DEF NoLateCallback
<1>2. OInv
  BY <1>1
<1>3. CASE UNCHANGED vars
  BY <1>3 DEF vars, svcVars, lockVars, memVars, locals, requestVars,
     HandleNow, Opening, WaitingNow, HasJob, Starting, ReportingNow, CbInfo
<1> QED
  BY <1>2, <1>3, OpenView, CloseView, StartView, CancelView, StatusView,
     CallbackView DEF Next

\* For all clients, with Cancel and its races, the FDP API implements the
\* promise of FdpmRequests until a callback takes the record of another
\* request: each request is reported at most once, with the result of its own
\* job.
THEOREM Refinement == Spec => RequestsKept
<1>1. Init => Requests!Init
  BY DEF Init, SvcInit, Requests!Init, HandleNow, WaitingNow, ReportingNow
<1>2. IInv /\ (NoLateCallback => OInv) /\ CancelsCalled /\ [Next]_vars
         => [NoLateCallback' => Requests!Next]_requestVars
  BY NextView
<1> QED
  BY <1>1, <1>2, Invariance, Ownership, CancelCallers, PTL
     DEF Spec, RequestsKept

\* Without Cancel there is no exception: the API is that of FdpmRequests, in
\* which a request on an open handle can only be reported.
THEOREM RequestService == ASSUME NoCancel PROVE Spec => Requests!Spec
<1>1. NInv => NoLateCallback
  BY DEF NInv, OnlyStoreAfterFree, NoLateCallback
<1>2. [NoLateCallback' => Requests!Next]_requestVars /\ NoLateCallback'
         => [Requests!Next]_(Requests!vars)
  BY DEF requestVars, Requests!vars
<1> QED
  BY <1>1, <1>2, Refinement, RequestsReported, PTL
     DEF RequestsKept, Requests!Spec
=============================================================================
