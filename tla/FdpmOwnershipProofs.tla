------------------------ MODULE FdpmOwnershipProofs ------------------------
(***************************************************************************)
(* Who frees a callback record, for all clients, drv_FDPM_Cancel and its   *)
(* races included.  The invariant follows a record from malloc over the    *)
(* list of its parent handle to Cancel, Close or the callback, and relates *)
(* the job identifiers in the records to the jobs the driver knows.  It    *)
(* holds until a callback takes the record of another request, which it    *)
(* can because a cancelled record is recognised by its address; after that *)
(* two parties free the same record.                                       *)
(***************************************************************************)
EXTENDS FdpmApiProofs

\* A job the driver knows on handle h.
InUse(h, j) == j \in owed[h] \/ running[h] = j

\* Job j is known and will be reported with record r.
Leads(j, r) ==
    j \in Jobs /\ user_data[j] = r /\ \E h \in Handles : InUse(h, j)

\* The callback of job j has not looked for its record yet.
Pending(h, j) ==
    \/ j \in owed[h]
    \/ running[h] = j /\ cbpc[h] = "read"
    \/ running[h] = j /\ cbpc[h] = "del" /\ del_hdl[h] = h

\* A callback thread that is inside Start, Cancel or Status got there from the
\* user's callback.
Placed ==
    \A h \in Handles : pc[h] # "idle" => cbpc[h] = "user"

\* A listed record is allocated and names its list as its parent.
Lists ==
    \A h \in Handles :
        /\ h \notin hdl_mem => cb_list[h] = {}
        /\ \A r \in cb_list[h] : r \in cb_mem /\ parent_hdl[r] = h

\* A record between malloc and vspm_if_add_fdp_cb_info has no parent, and one
\* thread knows of it.
Fresh ==
    /\ \A t \in Threads :
          pc[t] = "start_lock" =>
              cb[t] \in cb_mem /\ parent_hdl[cb[t]] = Null
    /\ \A t, u \in Threads :
          pc[t] = "start_lock" /\ pc[u] = "start_lock" /\ cb[t] = cb[u]
             => t = u

\* Start's record is listed before the driver has its job.
Entering ==
    \A t \in Threads :
        pc[t] = "start_entry" => cb[t] \in cb_list[hdl[t]]

\* What Cancel has loaded may be freed since, but is on no other list.
Loaded ==
    \A t \in Threads :
        /\ pc[t] = "cancel_read" =>
              cb[t] = Null \/ parent_hdl[cb[t]] \in {Null, hdl[t]}
        /\ pc[t] = "cancel_del" => cb[t] \in Recs /\ del_hdl[t] = hdl[t]

TakenPcs == {"cancel_job", "cancel_free"}

\* What Cancel has taken off the list is its own.
Taken ==
    \A t \in Threads :
        pc[t] \in TakenPcs =>
            /\ cb[t] \in cb_mem \ cb_list[hdl[t]]
            /\ parent_hdl[cb[t]] = hdl[t]

\* What the callback has taken off the list is its own.
Reporting ==
    \A h \in Handles :
        /\ cbpc[h] = "del" => del_hdl[h] \in Handles
        /\ cbpc[h] = "user" =>
              /\ CbInfo(h) \in cb_mem \ cb_list[h]
              /\ parent_hdl[CbInfo(h)] = h
              /\ \A t \in Threads : pc[t] \in TakenPcs => cb[t] # CbInfo(h)

\* No allocated record is forgotten.
Kept ==
    \A r \in cb_mem :
        \/ \E h \in Handles : r \in cb_list[h]
        \/ \E t \in Threads : pc[t] \in OwningPcs /\ cb[t] = r
        \/ \E h \in Handles : cbpc[h] = "user" /\ CbInfo(h) = r

\* A job is known once, on one handle.
JobsApart ==
    /\ \A h \in Handles : running[h] \notin owed[h]
    /\ \A g, h \in Handles, j \in Jobs : InUse(g, j) /\ InUse(h, j) => g = h

\* The identifier in a listed record is that of a job whose callback will look
\* for this record; or the session is ending and has dropped the job.
ListedJobs ==
    \A h \in Handles : \A r \in cb_list[h] :
        \/ \E t \in Threads :
              pc[t] \in {"start_entry", "start_store"} /\ cb[t] = r
        \/ /\ job_id[r] \in Jobs
           /\ \/ user_data[job_id[r]] = r /\ Pending(h, job_id[r])
              \/ session[h] # "up" /\ ~Leads(job_id[r], r)

\* The identifier Start is about to store: the callback of the job is still to
\* come, executes, or is over.
StoredJobs ==
    \A t \in Threads :
        pc[t] = "start_store" =>
            /\ rsp[t] \in Jobs /\ user_data[rsp[t]] = cb[t]
            /\ \/ cb[t] \in cb_list[hdl[t]] /\ Pending(hdl[t], rsp[t])
               \/ cbpc[hdl[t]] = "user" /\ running[hdl[t]] = rsp[t]
               \/ /\ \A h \in Handles : ~InUse(h, rsp[t])
                  /\ \A h \in Handles : cb[t] \notin cb_list[h]

\* The identifier a record holds before Start stores one is of no use.
StaleJobs ==
    \A t \in Threads :
        /\ pc[t] \in {"start_lock", "start_entry"} =>
              ~Leads(job_id[cb[t]], cb[t])
        /\ pc[t] = "start_store" /\ Leads(job_id[cb[t]], cb[t]) =>
              job_id[cb[t]] = rsp[t]

\* The identifier Cancel passes to the driver is that of its record.
CancelledJobs ==
    \A t \in Threads :
        pc[t] = "cancel_job" =>
            \A h \in Handles, j \in Jobs :
                job_id[cb[t]] = j /\ InUse(h, j) => user_data[j] = cb[t]

\* The places where a freed record, or the handle it has led to, can be used.
FreedUses ==
    ub \subseteq {"start_store", "cancel_read", "callback_read",
                  "callback_lock"}

OInv ==
    /\ Placed
    /\ Lists
    /\ Fresh
    /\ Entering
    /\ Loaded
    /\ Taken
    /\ Reporting
    /\ Kept
    /\ JobsApart
    /\ ListedJobs
    /\ StoredJobs
    /\ StaleJobs
    /\ CancelledJobs
    /\ FreedUses

-----------------------------------------------------------------------------

\* A job that is not known is neither owed nor reported by any handle.
LEMMA NotKnown ==
    ASSUME NEW j \in Jobs \ Known, NEW h \in Handles
    PROVE  j \notin owed[h] /\ j # running[h]
<1> DEFINE S == {owed[g] \cup {running[g]} : g \in Handles}
<1>1. j # NoJob /\ j \notin UNION S
  BY ServiceAssumption DEF Known
<1>2. owed[h] \cup {running[h]} \in S
  OBVIOUS
<1> QED
  BY <1>1, <1>2

\* Open finds the list of its handle empty.
LEMMA OpenStepOInv ==
    ASSUME NoLateCallback', IInv, OInv, NEW t \in Apps, OpenStep(t)
    PROVE  OInv'
<1> USE FdpmAssumption, ServiceAssumption
    DEF IInv, TypeOK, SvcTypeOK, Threads, Goto, Return, MayCall, OInv,
        svcVars, lockVars, memVars, locals, ubVars, Touch, Dies, CbInfo,
        LockHeld, LockedPcs, get_handle
<1>1. CASE OpenAdd(t)
  <2>1. Placed' /\ Lists'
    BY <1>1 DEF OpenAdd, Placed, Lists
  <2>2. Fresh' /\ Entering' /\ Loaded' /\ Taken'
    BY <1>1 DEF OpenAdd, Fresh, Entering, Loaded, Taken, TakenPcs
  <2>3. Reporting' /\ Kept'
    BY <1>1 DEF OpenAdd, Reporting, TakenPcs, Kept, OwningPcs
  <2>4. JobsApart'
    BY <1>1 DEF OpenAdd, JobsApart, InUse
  <2>5. ListedJobs' /\ StoredJobs'
    BY <1>1 DEF OpenAdd, ListedJobs, Leads, Pending, InUse, StoredJobs
  <2>6. StaleJobs' /\ CancelledJobs' /\ FreedUses'
    BY <1>1 DEF OpenAdd, StaleJobs, Leads, InUse, CancelledJobs, FreedUses
  <2> QED
    BY <2>1, <2>2, <2>3, <2>4, <2>5, <2>6
<1>2. ASSUME NEW h \in Handles, OpenInit(t, h)
     PROVE  OInv'
  <2>1. Placed' /\ Lists' /\ Fresh' /\ Entering' /\ Loaded' /\ Taken' /\
     Reporting'
    BY <1>2 DEF OpenInit, SvcInitDriver, Placed, Lists, Fresh, Entering,
       Loaded, Taken, TakenPcs, Reporting
  <2>2. JobsApart'
    BY <1>2 DEF OpenInit, SvcInitDriver, JobsApart, InUse
  <2>3. ListedJobs'
    BY <1>2 DEF OpenInit, SvcInitDriver, ListedJobs, Leads, Pending, InUse
  <2>4. StaleJobs'
    BY <1>2 DEF OpenInit, SvcInitDriver, StaleJobs, Leads, InUse
  <2>5. Kept'
    BY <1>2 DEF OpenInit, SvcInitDriver, Kept, OwningPcs, Lists, Fresh
  <2>6. StoredJobs'
    <3>1. cb_list' = cb_list
      BY <1>2 DEF OpenInit, Lists
    <3> QED
      BY <1>2, <3>1 DEF OpenInit, SvcInitDriver, StoredJobs, Pending, InUse
  <2>7. CancelledJobs' /\ FreedUses'
    BY <1>2 DEF OpenInit, SvcInitDriver, CancelledJobs, FreedUses, InUse
  <2> QED
    BY <2>1, <2>2, <2>3, <2>4, <2>5, <2>6, <2>7
<1> QED
  BY <1>1, <1>2 DEF OpenStep

\* Close frees what is left on the list; the session is over by then.
LEMMA CloseStepOInv ==
    ASSUME NoLateCallback', IInv, OInv, NEW t \in Apps, CloseStep(t)
    PROVE  OInv'
<1> USE FdpmAssumption, ServiceAssumption
    DEF IInv, TypeOK, SvcTypeOK, Threads, Goto, Return, MayCall, OInv,
        svcVars, lockVars, memVars, locals, ubVars, Touch, Dies, CbInfo,
        LockHeld, LockedPcs, get_handle
<1>1. ASSUME NEW i \in Ids, NEW h \in Handles, CloseDel(t, i, h)
     PROVE  OInv'
  <2>1. Placed' /\ Lists' /\ Fresh' /\ Entering'
    BY <1>1 DEF CloseDel, Placed, Lists, Fresh, Entering
  <2>2. Loaded' /\ Taken' /\ Reporting' /\ Kept'
    BY <1>1 DEF CloseDel, Loaded, Taken, TakenPcs, Reporting, Kept,
       OwningPcs
  <2>3. JobsApart' /\ ListedJobs'
    BY <1>1 DEF CloseDel, JobsApart, InUse, ListedJobs, Leads, Pending
  <2>4. StoredJobs'
    BY <1>1 DEF CloseDel, StoredJobs, Pending, InUse
  <2>6. StaleJobs' /\ CancelledJobs' /\ FreedUses'
    BY <1>1 DEF CloseDel, InUse, StaleJobs, Leads, CancelledJobs,
       FreedUses
  <2> QED
    BY <2>1, <2>2, <2>3, <2>4, <2>6
<1>2. CASE CloseQuit(t)
  <2>1. Placed' /\ Lists' /\ Fresh' /\ Entering'
    BY <1>2 DEF CloseQuit, SvcStartQuit, Placed, Lists, Fresh, Entering
  <2>2. Loaded' /\ Taken' /\ Reporting' /\ Kept'
    BY <1>2 DEF CloseQuit, SvcStartQuit, Loaded, Taken, TakenPcs, Reporting,
       Kept, OwningPcs
  <2>3. JobsApart'
    BY <1>2 DEF CloseQuit, SvcStartQuit, JobsApart, InUse
  <2>4. StaleJobs' /\ CancelledJobs' /\ FreedUses'
    BY <1>2 DEF CloseQuit, SvcStartQuit, StaleJobs, Leads, InUse,
       CancelledJobs, FreedUses
  <2>5. ListedJobs'
    BY <1>2 DEF CloseQuit, SvcStartQuit, ListedJobs, Lists, Fresh, Taken,
       TakenPcs, JobsApart, Leads, Pending, InUse, Sessions, PrivateHandles,
       PrivatePcs, ClosePcs
  <2>6. StoredJobs'
    BY <1>2 DEF CloseQuit, SvcStartQuit, StoredJobs, Lists, Fresh,
       Reporting, JobsApart, Pending, InUse, Sessions, PrivateHandles,
       PrivatePcs, ClosePcs
  <2> QED
    BY <2>1, <2>2, <2>3, <2>4, <2>5, <2>6
<1>3. CASE CloseQuitRefused(t)
  <2>1. Placed' /\ Lists' /\ Fresh' /\ Entering'
    BY <1>3 DEF CloseQuitRefused, Placed, Lists, Fresh, Entering
  <2>2. Loaded' /\ Taken' /\ Reporting'
    BY <1>3 DEF CloseQuitRefused, Loaded, Taken, TakenPcs, Reporting
  <2>5. Kept'
    BY <1>3 DEF CloseQuitRefused, Kept, OwningPcs
  <2>3. JobsApart' /\ ListedJobs'
    BY <1>3 DEF CloseQuitRefused, JobsApart, InUse, ListedJobs, Leads,
       Pending
  <2>4. StoredJobs'
    BY <1>3 DEF CloseQuitRefused, StoredJobs, Pending, InUse
  <2>6. StaleJobs' /\ CancelledJobs' /\ FreedUses'
    BY <1>3 DEF CloseQuitRefused, InUse, StaleJobs, Leads, CancelledJobs,
       FreedUses
  <2> QED
    BY <2>1, <2>2, <2>3, <2>4, <2>5, <2>6
<1>4. CASE CloseQuitDone(t)
  <2>1. Placed' /\ Lists'
    BY <1>4 DEF CloseQuitDone, SvcQuitDone, Placed, Lists
  <2>2. Fresh' /\ Entering' /\ Loaded' /\ Taken'
    BY <1>4 DEF CloseQuitDone, SvcQuitDone, Fresh, Entering, Loaded, Taken,
       TakenPcs
  <2>3. Reporting' /\ Kept'
    BY <1>4 DEF CloseQuitDone, SvcQuitDone, Reporting, TakenPcs, Kept,
       OwningPcs
  <2>4. JobsApart' /\ ListedJobs'
    BY <1>4 DEF CloseQuitDone, SvcQuitDone, JobsApart, InUse, ListedJobs,
       Leads, Pending
  <2>5. StoredJobs' /\ StaleJobs'
    BY <1>4 DEF CloseQuitDone, SvcQuitDone, StoredJobs, Pending, InUse,
       StaleJobs, Leads
  <2>6. CancelledJobs' /\ FreedUses'
    BY <1>4 DEF CloseQuitDone, SvcQuitDone, CancelledJobs, FreedUses, InUse
  <2> QED
    BY <2>1, <2>2, <2>3, <2>4, <2>5, <2>6
<1>5. CASE CloseQuitFails(t)
  <2>1. Placed' /\ Lists' /\ Fresh' /\ Entering'
    BY <1>5 DEF CloseQuitFails, SvcQuitFails, Placed, Lists, Fresh, Entering
  <2>2. Loaded' /\ Taken' /\ Reporting' /\ Kept'
    BY <1>5 DEF CloseQuitFails, SvcQuitFails, Loaded, Taken, TakenPcs,
       Reporting, Kept, OwningPcs
  <2>3. JobsApart' /\ CancelledJobs' /\ FreedUses'
    BY <1>5 DEF CloseQuitFails, SvcQuitFails, JobsApart, InUse,
       CancelledJobs, FreedUses
  <2>4. ListedJobs'
    BY <1>5 DEF CloseQuitFails, SvcQuitFails, ListedJobs, Lists, Fresh,
       Taken, TakenPcs, JobsApart, Leads, Pending, InUse, Sessions,
       PrivateHandles, PrivatePcs, ClosePcs
  <2>5. StoredJobs'
    <3>1. \A u \in Threads : pc[u] = "start_store" => hdl[u] # hdl[t]
      BY <1>5 DEF CloseQuitFails, SvcQuitFails, Sessions
    <3>2. /\ \A g \in Handles : owed'[g] \subseteq owed[g]
          /\ \A g \in Handles \ {hdl[t]} : owed'[g] = owed[g]
          /\ UNCHANGED <<running, cbpc, cb_list, user_data>>
      BY <1>5 DEF CloseQuitFails, SvcQuitFails
    <3>3. \A u \in Threads : pc'[u] = "start_store" =>
              /\ pc[u] = "start_store" /\ del_hdl'[u] = del_hdl[u]
              /\ rsp'[u] = rsp[u] /\ cb'[u] = cb[u] /\ hdl'[u] = hdl[u]
      BY <1>5 DEF CloseQuitFails
    <3>4. \A g \in Handles : del_hdl'[g] = del_hdl[g]
      BY <1>5 DEF CloseQuitFails
    <3> QED
      BY <1>5, <3>1, <3>2, <3>3, <3>4 DEF StoredJobs, Pending, InUse
  <2>6. StaleJobs'
    <3>1. \A g \in Handles : owed'[g] \subseteq owed[g]
      BY <1>5 DEF CloseQuitFails, SvcQuitFails
    <3> QED
      BY <1>5, <3>1 DEF CloseQuitFails, SvcQuitFails, StaleJobs, Leads, InUse
  <2> QED
    BY <2>1, <2>2, <2>3, <2>4, <2>5, <2>6
<1>6. ASSUME NEW r \in Recs, CloseDrain(t, r)
     PROVE  OInv'
  <2>1. Placed' /\ Kept'
    BY <1>6 DEF CloseDrain, Placed, Kept, OwningPcs
  <2>2. JobsApart'
    BY <1>6 DEF CloseDrain, JobsApart, InUse
  <2>3. ListedJobs'
    BY <1>6 DEF CloseDrain, ListedJobs, Leads, Pending, InUse
  <2>4. StaleJobs'
    BY <1>6 DEF CloseDrain, StaleJobs, Leads, InUse
  <2>5. Lists'
    BY <1>6 DEF CloseDrain, Lists, Fresh, PrivateHandles, PrivatePcs,
       ClosePcs
  <2>6. Fresh' /\ Entering'
    BY <1>6 DEF CloseDrain, Lists, Fresh, Entering, PrivateHandles,
       PrivatePcs, ClosePcs
  <2>7. Loaded' /\ Taken'
    BY <1>6 DEF CloseDrain, Lists, Fresh, Entering, Loaded, Taken, TakenPcs,
       Reporting, PrivateHandles, PrivatePcs, ClosePcs
  <2>8. Reporting'
    <3>1. parent_hdl[r] = hdl[t] /\ r \in cb_list[hdl[t]]
      BY <1>6 DEF CloseDrain, Lists, PrivateHandles, PrivatePcs, ClosePcs
    <3>2. \A g \in Handles : cbpc[g] = "user" => CbInfo(g) # r
      BY <3>1 DEF Reporting
    <3> QED
      BY <1>6, <3>2 DEF CloseDrain, Reporting, TakenPcs
  <2>9. StoredJobs'
    BY <1>6 DEF CloseDrain, StoredJobs, Lists, Fresh, Reporting, JobsApart,
       Pending, InUse, Sessions, PrivateHandles, PrivatePcs, ClosePcs
  <2>10. CancelledJobs' /\ FreedUses'
    BY <1>6, SMTT(20) DEF CloseDrain, CancelledJobs, FreedUses, InUse, Lists,
       PrivateHandles, PrivatePcs, ClosePcs
  <2> QED
    BY <2>1, <2>2, <2>3, <2>4, <2>5, <2>6, <2>7, <2>8, <2>9, <2>10
<1>7. CASE CloseFree(t)
  <2>1. Placed' /\ Lists' /\ Fresh' /\ Entering'
    BY <1>7 DEF CloseFree, Placed, Lists, Fresh, Entering
  <2>2. Loaded' /\ Taken'
    BY <1>7 DEF CloseFree, Loaded, Taken, TakenPcs
  <2>7. Reporting' /\ Kept'
    BY <1>7 DEF CloseFree, TakenPcs, Reporting, Kept, OwningPcs
  <2>3. JobsApart'
    BY <1>7 DEF CloseFree, JobsApart, InUse
  <2>4. ListedJobs'
    BY <1>7 DEF CloseFree, ListedJobs, Leads, Pending, InUse
  <2>5. StoredJobs'
    BY <1>7 DEF CloseFree, StoredJobs, Pending, InUse
  <2>6. StaleJobs'
    BY <1>7 DEF CloseFree, StaleJobs, Leads, InUse
  <2>8. CancelledJobs' /\ FreedUses'
    BY <1>7 DEF CloseFree, InUse, CancelledJobs, FreedUses
  <2> QED
    BY <2>1, <2>2, <2>3, <2>4, <2>5, <2>6, <2>7, <2>8
<1> QED
  BY <1>1, <1>2, <1>3, <1>4, <1>5, <1>6, <1>7 DEF CloseStep

\* Start takes a fresh record to the list and, with its job, to the driver.
LEMMA StartStepOInv ==
    ASSUME NoLateCallback', IInv, OInv, NEW t \in Threads, StartStep(t)
    PROVE  OInv'
<1> USE FdpmAssumption, ServiceAssumption
    DEF IInv, TypeOK, SvcTypeOK, Threads, Goto, Return, MayCall, OInv,
        svcVars, lockVars, memVars, locals, ubVars, Touch, Dies, CbInfo,
        LockHeld, LockedPcs, get_handle
<1>1. ASSUME NEW r \in Recs, StartMalloc(t, r)
     PROVE  OInv'
  <2>1. Placed' /\ Lists' /\ Fresh' /\ Entering'
    BY <1>1 DEF StartMalloc, Placed, Lists, Fresh, Entering
  <2>2. Loaded' /\ Taken' /\ Reporting' /\ Kept'
    BY <1>1 DEF StartMalloc, Loaded, Taken, TakenPcs, Reporting, Kept,
       OwningPcs
  <2>3. JobsApart'
    BY <1>1 DEF StartMalloc, JobsApart, InUse
  <2>4. StoredJobs'
    BY <1>1 DEF StartMalloc, StoredJobs, Pending, InUse
  <2>5. StaleJobs'
    BY <1>1 DEF StartMalloc, StaleJobs, Leads, InUse
  <2>6. CancelledJobs' /\ FreedUses'
    BY <1>1 DEF StartMalloc, CancelledJobs, FreedUses, InUse
  <2>7. ListedJobs'
    BY <1>1 DEF StartMalloc, ListedJobs, Lists, Fresh, Taken, TakenPcs,
       JobsApart, Leads, Pending, InUse, Sessions, PrivateHandles,
       PrivatePcs, ClosePcs
  <2> QED
    BY <2>1, <2>2, <2>3, <2>4, <2>5, <2>6, <2>7
<1>2. ASSUME NEW i \in Ids, StartNoHandle(t, i)
     PROVE  OInv'
  <2>1. Placed'
    BY <1>2 DEF StartNoHandle, Placed
  <2>2. Fresh' /\ Entering'
    BY <1>2 DEF StartNoHandle, Fresh, Entering
  <2>3. Loaded' /\ Taken'
    BY <1>2 DEF StartNoHandle, Loaded, Taken, TakenPcs
  <2>4. Kept'
    BY <1>2 DEF StartNoHandle, Kept, OwningPcs
  <2>5. JobsApart'
    BY <1>2 DEF StartNoHandle, JobsApart, InUse
  <2>6. StoredJobs'
    BY <1>2 DEF StartNoHandle, StoredJobs, Pending, InUse
  <2>7. StaleJobs'
    BY <1>2 DEF StartNoHandle, StaleJobs, Leads, InUse
  <2>8. Lists'
    BY <1>2 DEF StartNoHandle, Lists, Fresh, PrivateHandles, PrivatePcs,
       ClosePcs
  <2>9. Reporting'
    BY <1>2 DEF StartNoHandle, Lists, Fresh, Entering, Taken, TakenPcs,
       Reporting, JobsHaveRecords, Placed
  <2>10. ListedJobs'
    <3>1. \A g \in Handles : \A r \in cb_list[g] : r # cb[t]
      BY <1>2 DEF StartNoHandle, Lists, Fresh
    <3>2. \A u \in Threads : pc[u] \in {"start_entry", "start_store"} =>
              pc'[u] = pc[u] /\ cb'[u] = cb[u]
      BY <1>2 DEF StartNoHandle
    <3>3. \A g \in Handles, k \in Jobs : Pending(g, k) => Pending(g, k)'
      BY <1>2 DEF StartNoHandle, Pending, Placed
    <3> QED
      BY <1>2, <3>1, <3>2, <3>3 DEF StartNoHandle, ListedJobs, Leads, InUse
  <2>11. CancelledJobs' /\ FreedUses'
    BY <1>2 DEF StartNoHandle, CancelledJobs, Lists, Fresh, Entering, Taken,
       TakenPcs, Reporting, FreedUses, InUse
  <2> QED
    BY <2>1, <2>2, <2>3, <2>4, <2>5, <2>6, <2>7, <2>8, <2>9, <2>10, <2>11
<1>3. ASSUME NEW i \in Ids, NEW h \in Handles, StartAdd(t, i, h)
     PROVE  OInv'
  <2>1. Placed' /\ Fresh' /\ Entering'
    BY <1>3 DEF StartAdd, Placed, Fresh, Entering
  <2>2. Loaded' /\ Taken' /\ Kept'
    BY <1>3 DEF StartAdd, Loaded, Taken, TakenPcs, Kept, OwningPcs
  <2>3. JobsApart'
    BY <1>3 DEF StartAdd, JobsApart, InUse
  <2>4. StoredJobs'
    BY <1>3 DEF StartAdd, StoredJobs, Pending, InUse
  <2>5. StaleJobs'
    BY <1>3 DEF StartAdd, StaleJobs, Leads, InUse
  <2>6. CancelledJobs' /\ FreedUses'
    BY <1>3 DEF StartAdd, CancelledJobs, FreedUses, InUse
  <2>7. Lists'
    BY <1>3 DEF StartAdd, Lists, Fresh, PrivateHandles, PrivatePcs, ClosePcs
  <2>8. Reporting'
    BY <1>3 DEF StartAdd, Lists, Fresh, Entering, Taken, TakenPcs,
       Reporting, JobsHaveRecords, Placed
  <2>9. ListedJobs'
    <3>1. /\ cb_list' = [cb_list EXCEPT ![h] = @ \cup {cb[t]}]
          /\ pc' = [pc EXCEPT ![t] = "start_entry"] /\ pc[t] = "start_lock"
          /\ UNCHANGED <<svcVars, job_id, user_data, cb, del_hdl, cbpc>>
      BY <1>3 DEF StartAdd
    <3>2. \A g \in Handles : \A r \in cb_list'[g] :
              r \in cb_list[g] \/ r = cb[t]
      BY <3>1
    <3> QED
      BY <3>1, <3>2 DEF ListedJobs, Leads, Pending, InUse
  <2> QED
    BY <2>1, <2>2, <2>3, <2>4, <2>5, <2>6, <2>7, <2>8, <2>9
<1>4. ASSUME NEW j \in Jobs, StartEntry(t, j)
     PROVE  OInv'
  <2>a. /\ user_data' = [user_data EXCEPT ![j] = cb[t]]
        /\ owed' = [owed EXCEPT ![hdl[t]] = @ \cup {j}]
        /\ UNCHANGED <<session, running, cbpc, cb_list, cb_mem, parent_hdl,
                       job_id, del_hdl>>
    BY <1>4 DEF StartEntry, SvcEntryJob
  <2>b. \A g \in Handles : ~InUse(g, j)
    BY <1>4, NotKnown DEF StartEntry, SvcEntryJob, InUse
  <2>c. \A g \in Handles, k \in Jobs :
            InUse(g, k)' <=> InUse(g, k) \/ (g = hdl[t] /\ k = j)
    BY <1>4, <2>a DEF StartEntry, InUse
  <2>d. \A g \in Handles, k \in Jobs :
            Pending(g, k) => k # j /\ Pending(g, k)'
    BY <1>4, <2>a, <2>b DEF StartEntry, Pending, InUse
  <2>e. \A k \in Jobs, r \in Recs :
            Leads(k, r)' => Leads(k, r) \/ (k = j /\ r = cb[t])
    BY <2>a, <2>c DEF Leads
  <2>f. \A g \in Handles : cbpc[g] # "idle" => CbInfo(g)' = CbInfo(g)
    BY <2>a, <2>b DEF InUse
  <2>g. /\ pc[t] = "start_entry" /\ pc' = [pc EXCEPT ![t] = "start_store"]
        /\ rsp' = [rsp EXCEPT ![t] = j]
        /\ fdp_hdl_mutex = t /\ hdl[t] \in hdl_list
        /\ UNCHANGED <<cb, hdl>>
    BY <1>4 DEF StartEntry
  <2>1. Placed' /\ Lists' /\ Fresh' /\ Entering' /\ Loaded' /\ Taken'
    BY <1>4 DEF StartEntry, SvcEntryJob, Placed, Lists, Fresh, Entering,
       Loaded, Taken, TakenPcs
  <2>2. CancelledJobs' /\ FreedUses'
    BY <1>4 DEF StartEntry, SvcEntryJob, CancelledJobs, FreedUses, InUse
  <2>3. Reporting'
    BY <2>a, <2>f, <2>g DEF Reporting, TakenPcs
  <2>4. Kept'
    BY <2>a, <2>f, <2>g DEF Kept, OwningPcs
  <2>5. JobsApart'
    <3>1. \A g \in Handles : running'[g] \notin owed'[g]
      BY <2>a, <2>b, <2>g DEF JobsApart, InUse
    <3> QED
      BY <2>b, <2>c, <3>1 DEF JobsApart
  <2>6. ListedJobs'
    <3> SUFFICES ASSUME NEW g \in Handles, NEW r \in cb_list[g],
                        \A u \in Threads :
                           ~(pc'[u] \in {"start_entry", "start_store"}
                             /\ cb'[u] = r)
                 PROVE  /\ job_id[r] \in Jobs
                        /\ \/ /\ user_data'[job_id[r]] = r
                              /\ Pending(g, job_id[r])'
                           \/ session[g] # "up" /\ ~Leads(job_id[r], r)'
      BY <2>a DEF ListedJobs
    <3>1. \A u \in Threads :
              pc[u] \in {"start_entry", "start_store"} => cb[u] # r
      BY <2>g
    <3>2. r # cb[t]
      BY <2>g
    <3> QED
      BY <2>a, <2>d, <2>e, <3>1, <3>2 DEF ListedJobs
  <2>7. StoredJobs'
    <3>1. cb[t] \in cb_list[hdl[t]]
      BY <2>g DEF Entering
    <3>2. \A u \in Threads : pc'[u] = "start_store" => u = t
      BY <2>g
    <3>3. Pending(hdl[t], j)'
      BY <2>a, <2>g DEF Pending
    <3> QED
      BY <2>a, <2>g, <3>1, <3>2, <3>3 DEF StoredJobs
  <2>8. StaleJobs'
    <3>1. \A u \in Threads : pc[u] = "start_lock" => cb[u] # cb[t]
      BY <2>g DEF Fresh, Entering, Lists
    <3>2. \A u \in Threads : pc'[u] \in {"start_entry", "start_store"} => u = t
      BY <2>g
    <3>3. \A u \in Threads : pc[u] \in {"start_lock", "start_entry"} =>
              job_id[cb[u]] \in Jobs \cup {NoJob} /\ cb[u] \in Recs
      BY DEF JobsHaveRecords
    <3> QED
      BY <2>a, <2>e, <2>g, <3>1, <3>2, <3>3 DEF StaleJobs, Leads
  <2> QED
    BY <2>1, <2>2, <2>3, <2>4, <2>5, <2>6, <2>7, <2>8
<1>5. CASE StartRefused(t)
  <2>1. Placed'
    BY <1>5 DEF StartRefused, Placed
  <2>2. Loaded' /\ Taken' /\ Kept'
    BY <1>5 DEF StartRefused, Loaded, Taken, TakenPcs, Kept, OwningPcs
  <2>3. JobsApart'
    BY <1>5 DEF StartRefused, JobsApart, InUse
  <2>4. StoredJobs' /\ StaleJobs'
    BY <1>5 DEF StartRefused, StoredJobs, Pending, InUse, StaleJobs, Leads
  <2>5. Lists'
    BY <1>5 DEF StartRefused, Lists, Entering
  <2>6. Fresh' /\ Entering'
    BY <1>5 DEF StartRefused, Lists, Fresh, Entering, PrivateHandles,
       PrivatePcs, ClosePcs
  <2>7. Reporting'
    BY <1>5 DEF StartRefused, Lists, Fresh, Entering, Taken, TakenPcs,
       Reporting, JobsHaveRecords, Placed
  <2>8. ListedJobs'
    <3>1. \A g \in Handles : \A r \in cb_list'[g] :
              r \in cb_list[g] /\ r # cb[t]
      BY <1>5 DEF StartRefused, Lists, Entering
    <3>2. \A u \in Threads \ {t} : pc'[u] = pc[u] /\ cb'[u] = cb[u]
      BY <1>5 DEF StartRefused
    <3>3. \A g \in Handles, k \in Jobs : Pending(g, k) => Pending(g, k)'
      BY <1>5 DEF StartRefused, Pending, Placed
    <3> QED
      BY <1>5, <3>1, <3>2, <3>3 DEF StartRefused, ListedJobs, Leads, InUse
  <2>9. CancelledJobs' /\ FreedUses'
    BY <1>5 DEF StartRefused, CancelledJobs, Lists, Fresh, Entering, Taken,
       TakenPcs, Reporting, FreedUses, InUse
  <2> QED
    BY <2>1, <2>2, <2>3, <2>4, <2>5, <2>6, <2>7, <2>8, <2>9
<1>6. CASE StartStore(t)
  <2>1. Placed' /\ Lists' /\ Fresh' /\ Entering' /\ Loaded' /\ Taken' /\
     Kept'
    BY <1>6 DEF StartStore, Placed, Lists, Fresh, Entering, Loaded, Taken,
       TakenPcs, Kept, OwningPcs
  <2>2. JobsApart' /\ StoredJobs' /\ CancelledJobs' /\ FreedUses'
    BY <1>6 DEF StartStore, JobsApart, InUse, StoredJobs, Pending,
       CancelledJobs, FreedUses
  <2>3. Reporting'
    BY <1>6 DEF StartStore, Lists, Fresh, Entering, Taken, TakenPcs,
       Reporting, JobsHaveRecords, Placed
  <2>4. ListedJobs'
    <3> DEFINE r == cb[t]
    <3>a. /\ r \in Recs /\ job_id' = [job_id EXCEPT ![r] = rsp[t]]
          /\ UNCHANGED <<session, owed, running, cb_list, cbpc, user_data>>
      BY <1>6 DEF StartStore, JobsHaveRecords
    <3>b. \A u \in Threads \ {t} :
              pc[u] \notin {"start_entry", "start_store"}
      BY <1>6 DEF StartStore
    <3>c. \A g \in Handles, k \in Jobs : Pending(g, k) => Pending(g, k)'
      BY <1>6 DEF StartStore, Pending, Placed
    <3>d. \A k, s : Leads(k, s)' <=> Leads(k, s)
      BY <3>a DEF Leads, InUse
    <3>1. ASSUME NEW g \in Handles, NEW s \in cb_list[g], s # r
          PROVE  /\ job_id'[s] = job_id[s] /\ job_id[s] \in Jobs
                 /\ \/ user_data[job_id[s]] = s /\ Pending(g, job_id[s])
                    \/ session[g] # "up" /\ ~Leads(job_id[s], s)
      BY <3>a, <3>b, <3>1 DEF ListedJobs
    <3>2. ASSUME NEW g \in Handles, r \in cb_list[g]
          PROVE  /\ job_id'[r] = rsp[t] /\ rsp[t] \in Jobs
                 /\ user_data[rsp[t]] = r /\ Pending(g, rsp[t])
      <4>1. parent_hdl[r] = g
        BY <3>2 DEF Lists
      <4>2. /\ rsp[t] \in Jobs /\ user_data[rsp[t]] = r
            /\ \/ r \in cb_list[hdl[t]] /\ Pending(hdl[t], rsp[t])
               \/ cbpc[hdl[t]] = "user" /\ running[hdl[t]] = rsp[t]
        BY <1>6, <3>2 DEF StartStore, StoredJobs
      <4>3. r \in cb_list[hdl[t]] /\ hdl[t] = g
        BY <1>6, <3>2, <4>1, <4>2 DEF StartStore, Lists, Reporting
      <4>4. Pending(g, rsp[t])
        BY <1>6, <4>2, <4>3 DEF StartStore, Reporting
      <4> QED
        BY <3>a, <4>2, <4>4
    <3> SUFFICES ASSUME NEW g \in Handles, NEW s \in cb_list[g]
                 PROVE  \E k \in Jobs :
                           /\ job_id'[s] = k
                           /\ \/ user_data[k] = s /\ Pending(g, k)'
                              \/ session[g] # "up" /\ ~Leads(k, s)'
      BY <3>a DEF ListedJobs, Pending, Leads, InUse
    <3> QED
      BY <3>c, <3>d, <3>1, <3>2
  <2>5. StaleJobs'
    BY <1>6, SMTT(20) DEF StartStore, StaleJobs, StoredJobs, Lists, Fresh,
       Reporting, Leads, InUse
  <2> QED
    BY <2>1, <2>2, <2>3, <2>4, <2>5
<1>7. CASE StartDies(t)
  <2>1. Placed' /\ Lists' /\ Fresh' /\ Entering'
    BY <1>7 DEF StartDies, Placed, Lists, Fresh, Entering
  <2>2. Loaded' /\ Taken'
    BY <1>7 DEF StartDies, Loaded, Taken, TakenPcs
  <2>3. Reporting' /\ Kept'
    BY <1>7 DEF StartDies, TakenPcs, Reporting, Kept, OwningPcs
  <2>4. JobsApart' /\ ListedJobs'
    BY <1>7 DEF StartDies, JobsApart, InUse, ListedJobs, Leads, Pending
  <2>5. StoredJobs' /\ StaleJobs'
    BY <1>7 DEF StartDies, InUse, Leads, Pending, StoredJobs, StaleJobs
  <2>6. CancelledJobs' /\ FreedUses'
    BY <1>7 DEF StartDies, InUse, CancelledJobs, FreedUses
  <2> QED
    BY <2>1, <2>2, <2>3, <2>4, <2>5, <2>6
<1> QED
  BY <1>1, <1>2, <1>3, <1>4, <1>5, <1>6, <1>7 DEF StartStep

\* Cancel takes a record off its list, then its job back, and then frees it.
LEMMA CancelStepOInv ==
    ASSUME NoLateCallback', IInv, OInv, NEW t \in Threads, CancelStep(t)
    PROVE  OInv'
<1> USE FdpmAssumption, ServiceAssumption
    DEF IInv, TypeOK, SvcTypeOK, Threads, Goto, Return, MayCall, OInv,
        svcVars, lockVars, memVars, locals, ubVars, Touch, Dies, CbInfo,
        LockHeld, LockedPcs, get_handle
<1>1. ASSUME NEW i \in Ids, NEW h \in Handles, CancelBegin(t, i, h)
     PROVE  OInv'
  <2>1. Placed' /\ Lists' /\ Fresh' /\ Entering'
    BY <1>1 DEF CancelBegin, Placed, Lists, Fresh, Entering
  <2>2. Loaded' /\ Taken' /\ Reporting' /\ Kept'
    BY <1>1 DEF CancelBegin, Loaded, Taken, TakenPcs, Reporting, Kept,
       OwningPcs
  <2>3. JobsApart' /\ ListedJobs' /\ StoredJobs' /\ StaleJobs' /\
     CancelledJobs' /\ FreedUses'
    BY <1>1 DEF CancelBegin, JobsApart, InUse, ListedJobs, Leads, Pending,
       StoredJobs, StaleJobs, CancelledJobs, FreedUses
  <2> QED
    BY <2>1, <2>2, <2>3
<1>2. CASE CancelTest(t)
  <2>1. Placed' /\ Lists' /\ Fresh' /\ Entering'
    BY <1>2 DEF CancelTest, Placed, Lists, Fresh, Entering
  <2>4. Loaded' /\ Taken'
    BY <1>2 DEF CancelTest, Loaded, Taken, TakenPcs
  <2>5. Reporting' /\ Kept'
    BY <1>2 DEF CancelTest, TakenPcs, Reporting, Kept, OwningPcs
  <2>2. JobsApart' /\ StoredJobs' /\ StaleJobs' /\ CancelledJobs' /\
     FreedUses'
    BY <1>2 DEF CancelTest, JobsApart, InUse, StoredJobs, Pending,
       StaleJobs, Leads, CancelledJobs, FreedUses
  <2>3. ListedJobs'
    <3>1. \A u \in Threads : pc[u] \in {"start_entry", "start_store"} =>
              pc'[u] = pc[u] /\ cb'[u] = cb[u]
      BY <1>2 DEF CancelTest
    <3>2. \A g \in Handles, k \in Jobs : Pending(g, k) => Pending(g, k)'
      BY <1>2 DEF CancelTest, Pending, Placed
    <3> QED
      BY <1>2, <3>1, <3>2 DEF CancelTest, ListedJobs, Leads, InUse
  <2> QED
    BY <2>1, <2>2, <2>3, <2>4, <2>5
<1>3. CASE CancelEnd(t)
  <2>1. Placed' /\ Lists' /\ Fresh' /\ Entering' /\ Loaded' /\ Taken' /\
     Kept'
    BY <1>3 DEF CancelEnd, Placed, Lists, Fresh, Entering, Loaded, Taken,
       TakenPcs, Kept, OwningPcs
  <2>2. JobsApart' /\ StoredJobs'
    BY <1>3 DEF CancelEnd, JobsApart, InUse, StoredJobs, Pending
  <2>3. StaleJobs' /\ CancelledJobs' /\ FreedUses'
    BY <1>3 DEF CancelEnd, StaleJobs, Leads, InUse, CancelledJobs, FreedUses
  <2>4. Reporting'
    BY <1>3 DEF CancelEnd, Lists, Fresh, Entering, Taken, TakenPcs,
       Reporting, JobsHaveRecords, Placed
  <2>5. ListedJobs'
    <3>1. \A u \in Threads : pc[u] \in {"start_entry", "start_store"} =>
              pc'[u] = pc[u] /\ cb'[u] = cb[u]
      BY <1>3 DEF CancelEnd
    <3>2. \A g \in Handles, k \in Jobs : Pending(g, k) => Pending(g, k)'
      BY <1>3 DEF CancelEnd, Pending, Placed
    <3> QED
      BY <1>3, <3>1, <3>2 DEF CancelEnd, ListedJobs, Leads, InUse
  <2> QED
    BY <2>1, <2>2, <2>3, <2>4, <2>5
<1>4. CASE CancelLoad(t)
  <2>1. Placed' /\ Lists' /\ Fresh' /\ Entering' /\ Reporting' /\ Kept'
    BY <1>4 DEF CancelLoad, Placed, Lists, Fresh, Entering, Reporting,
       TakenPcs, Kept, OwningPcs
  <2>2. JobsApart' /\ ListedJobs'
    BY <1>4 DEF CancelLoad, JobsApart, InUse, ListedJobs, Leads, Pending
  <2>3. StoredJobs' /\ StaleJobs' /\ CancelledJobs' /\ FreedUses'
    BY <1>4 DEF CancelLoad, StoredJobs, Pending, InUse, StaleJobs, Leads,
       CancelledJobs, FreedUses
  <2>4. Loaded' /\ Taken'
    BY <1>4 DEF CancelLoad, Lists, Fresh, Entering, Loaded, Taken, TakenPcs,
       Reporting, PrivateHandles, PrivatePcs, ClosePcs
  <2> QED
    BY <2>1, <2>2, <2>3, <2>4
<1>5. CASE CancelRead(t)
  <2>1. Placed' /\ Lists' /\ Fresh' /\ Entering'
    BY <1>5 DEF CancelRead, Placed, Lists, Fresh, Entering
  <2>2. Loaded' /\ Taken' /\ Reporting' /\ Kept'
    BY <1>5 DEF CancelRead, Loaded, Taken, TakenPcs, Reporting, Kept,
       OwningPcs
  <2>3. JobsApart' /\ StoredJobs' /\ StaleJobs' /\ CancelledJobs' /\
     FreedUses'
    BY <1>5 DEF CancelRead, JobsApart, InUse, StoredJobs, Pending,
       StaleJobs, Leads, CancelledJobs, FreedUses
  <2>4. ListedJobs'
    <3>1. \A u \in Threads : pc[u] \in {"start_entry", "start_store"} =>
              pc'[u] = pc[u] /\ cb'[u] = cb[u]
      BY <1>5 DEF CancelRead
    <3>2. \A g \in Handles, k \in Jobs : Pending(g, k) => Pending(g, k)'
      BY <1>5 DEF CancelRead, Pending, Placed
    <3> QED
      BY <1>5, <3>1, <3>2 DEF CancelRead, ListedJobs, Leads, InUse
  <2> QED
    BY <2>1, <2>2, <2>3, <2>4
<1>6. CASE CancelDies(t)
  <2>a. Dies("cancel_read")
    BY <1>6 DEF CancelDies, Loaded
  <2>1. Placed' /\ Lists' /\ Fresh' /\ Entering' /\ Loaded' /\ Taken' /\
     Reporting' /\ Kept'
    BY <2>a DEF Placed, Lists, Fresh, Entering, Loaded, Taken, TakenPcs,
       Reporting, Kept, OwningPcs
  <2>2. JobsApart' /\ ListedJobs' /\ StoredJobs' /\ StaleJobs' /\
     CancelledJobs' /\ FreedUses'
    BY <2>a DEF JobsApart, InUse, ListedJobs, Leads, Pending, StoredJobs,
       StaleJobs, CancelledJobs, FreedUses
  <2> QED
    BY <2>1, <2>2
<1>7. CASE CancelDel(t)
  <2>a. /\ pc[t] = "cancel_del" /\ fdp_hdl_mutex = t /\ hdl[t] \in hdl_list
        /\ del_hdl[t] = hdl[t] /\ cb[t] \in Recs
    BY <1>7 DEF CancelDel, Loaded
  <2>b. /\ cb_list' = [cb_list EXCEPT ![hdl[t]] = @ \ {cb[t]}]
        /\ UNCHANGED <<svcVars, memVars, user_data, hdl, cb, cbpc, ub>>
    BY <1>7, <2>a DEF CancelDel, LockParent
  <2>c. \/ cb[t] \in cb_list[hdl[t]] /\ pc' = [pc EXCEPT ![t] = "cancel_job"]
        \/ /\ cb[t] \notin cb_list[hdl[t]]
           /\ pc' = [pc EXCEPT ![t] = "cancel_test"]
    BY <1>7, <2>a DEF CancelDel
  <2>1. Placed' /\ Lists' /\ Fresh' /\ Entering' /\ Kept'
    BY <1>7 DEF CancelDel, Placed, Lists, Fresh, Entering, Kept, OwningPcs
  <2>2. JobsApart'
    BY <1>7 DEF CancelDel, JobsApart, InUse
  <2>3. StoredJobs'
    BY <1>7 DEF CancelDel, StoredJobs, Pending, InUse
  <2>8. StaleJobs'
    BY <1>7 DEF CancelDel, InUse, StaleJobs, Leads
  <2>4. Loaded' /\ Taken'
    BY <1>7 DEF CancelDel, Lists, Fresh, Entering, Loaded, Taken, TakenPcs,
       Reporting, PrivateHandles, PrivatePcs, ClosePcs
  <2>5. Reporting'
    <3>1. cb[t] \in cb_list[hdl[t]] =>
              \A g \in Handles : cbpc[g] = "user" => CbInfo(g) # cb[t]
      BY <2>a DEF Lists, Reporting
    <3> QED
      BY <1>7, <2>a, <2>b, <2>c, <3>1 DEF CancelDel, Reporting,
         TakenPcs, Placed
  <2>6. ListedJobs'
    <3>1. \A u \in Threads : pc[u] \in {"start_entry", "start_store"} =>
              pc'[u] = pc[u] /\ cb'[u] = cb[u]
      BY <1>7 DEF CancelDel
    <3>2. \A g \in Handles, k \in Jobs : Pending(g, k) => Pending(g, k)'
      BY <1>7 DEF CancelDel, Pending, Placed
    <3> QED
      BY <1>7, <3>1, <3>2 DEF CancelDel, ListedJobs, Leads, InUse
  <2>7. CancelledJobs' /\ FreedUses'
    <3>1. \A u \in Threads \ {t} :
              pc[u] \notin {"start_entry", "start_store", "cancel_job"}
      BY <2>a
    <3>2. ASSUME cb[t] \in cb_list[hdl[t]]
          PROVE  user_data[job_id[cb[t]]] = cb[t]
      BY <2>a, <3>1, <3>2 DEF ListedJobs, Sessions
    <3> QED
      BY <2>a, <2>b, <2>c, <3>1, <3>2 DEF CancelledJobs, FreedUses, InUse
  <2> QED
    BY <2>1, <2>2, <2>3, <2>4, <2>5, <2>6, <2>7, <2>8
<1>8. CASE CancelJob(t)
  <2>1. Placed' /\ Lists' /\ Fresh' /\ Entering'
    BY <1>8 DEF CancelJob, SvcDropJobs, Placed, Lists, Fresh, Entering
  <2>7. Loaded' /\ Taken'
    BY <1>8 DEF CancelJob, SvcDropJobs, Loaded, Taken, TakenPcs
  <2>8. Reporting' /\ Kept'
    BY <1>8 DEF CancelJob, SvcDropJobs, TakenPcs, Reporting, Kept, OwningPcs
  <2>2. StoredJobs'
    BY <1>8 DEF CancelJob, SvcDropJobs, StoredJobs, Pending, InUse
  <2>3. StaleJobs'
    BY <1>8, SMTT(20) DEF CancelJob, SvcDropJobs, StaleJobs, Leads, InUse
  <2>4. JobsApart'
    <3>1. running' = running /\ \A g \in Handles : owed'[g] \subseteq owed[g]
      BY <1>8 DEF CancelJob, SvcDropJobs
    <3> QED
      BY <3>1 DEF JobsApart, InUse
  <2>5. ListedJobs'
    <3>1. /\ pc[t] = "cancel_job" /\ hdl[t] \in hdl_list
          /\ UNCHANGED <<session, running, cb_list, cbpc, job_id, user_data,
                         cb, del_hdl>>
      BY <1>8 DEF CancelJob, SvcDropJobs
    <3>2. /\ \A g \in Handles : owed'[g] \subseteq owed[g]
          /\ \A g \in Handles : \A k \in owed[g] :
                k \in owed'[g] \/ (g = hdl[t] /\ k = job_id[cb[t]])
      BY <1>8 DEF CancelJob, SvcDropJobs
    <3>3. \A g \in Handles : \A r \in cb_list[g] :
              r # cb[t] \/ g # hdl[t]
      BY <3>1 DEF Taken, TakenPcs
    <3>4. ASSUME NEW g \in Handles, NEW r \in cb_list[g],
                 job_id[r] \in Jobs, user_data[job_id[r]] = r,
                 Pending(g, job_id[r])
          PROVE  Pending(g, job_id[r])'
      <4>1. ASSUME job_id[r] \in owed[g] PROVE job_id[r] \in owed'[g]
        BY <3>1, <3>2, <3>3, <3>4, <4>1 DEF CancelledJobs, InUse
      <4> QED
        BY <3>1, <3>4, <4>1 DEF Pending
    <3>5. \A k, r : Leads(k, r)' => Leads(k, r)
      BY <3>1, <3>2 DEF Leads, InUse
    <3>6. \A u \in Threads : pc[u] \in {"start_entry", "start_store"} =>
              pc'[u] = pc[u]
      BY <1>8 DEF CancelJob
    <3> QED
      BY <3>1, <3>4, <3>5, <3>6 DEF ListedJobs
  <2>6. CancelledJobs' /\ FreedUses'
    BY <1>8 DEF CancelJob, SvcDropJobs, CancelledJobs, Lists, Fresh,
       Entering, Taken, TakenPcs, Reporting, FreedUses, InUse
  <2> QED
    BY <2>1, <2>2, <2>3, <2>4, <2>5, <2>6, <2>7, <2>8
<1>9. CASE CancelFree(t)
  <2>1. Placed' /\ Loaded' /\ Taken' /\ Reporting' /\ Kept'
    BY <1>9 DEF CancelFree, Placed, Loaded, Taken, TakenPcs, Reporting,
       Kept, OwningPcs
  <2>2. JobsApart' /\ ListedJobs'
    BY <1>9 DEF CancelFree, JobsApart, InUse, ListedJobs, Leads, Pending
  <2>3. StoredJobs' /\ StaleJobs'
    BY <1>9 DEF CancelFree, StoredJobs, Pending, InUse, StaleJobs, Leads
  <2>4. Lists'
    BY <1>9 DEF CancelFree, Lists, Taken, TakenPcs
  <2>5. Fresh' /\ Entering'
    BY <1>9 DEF CancelFree, Lists, Fresh, Entering, Taken, TakenPcs
  <2>6. CancelledJobs' /\ FreedUses'
    BY <1>9 DEF CancelFree, CancelledJobs, Lists, Fresh, Entering, Taken,
       TakenPcs, Reporting, FreedUses, InUse
  <2> QED
    BY <2>1, <2>2, <2>3, <2>4, <2>5, <2>6
<1> QED
  BY <1>1, <1>2, <1>3, <1>4, <1>5, <1>6, <1>7, <1>8, <1>9 DEF CancelStep

\* Status moves no record.
LEMMA StatusStepOInv ==
    ASSUME NoLateCallback', IInv, OInv, NEW t \in Threads, StatusStep(t)
    PROVE  OInv'
<1> USE FdpmAssumption, ServiceAssumption
    DEF IInv, TypeOK, SvcTypeOK, Threads, Goto, Return, MayCall, OInv,
        svcVars, lockVars, memVars, locals, ubVars, Touch, Dies, CbInfo,
        LockHeld, LockedPcs, get_handle
<1>1. ASSUME NEW i \in Ids, NEW h \in Handles, StatusBegin(t, i, h)
     PROVE  OInv'
  <2>1. Placed' /\ Lists' /\ Fresh' /\ Entering'
    BY <1>1 DEF StatusBegin, Placed, Lists, Fresh, Entering
  <2>2. Loaded' /\ Taken' /\ Reporting' /\ Kept'
    BY <1>1 DEF StatusBegin, Loaded, Taken, TakenPcs, Reporting, Kept,
       OwningPcs
  <2>3. JobsApart' /\ ListedJobs' /\ StoredJobs' /\ StaleJobs' /\
     CancelledJobs' /\ FreedUses'
    BY <1>1 DEF StatusBegin, JobsApart, InUse, ListedJobs, Leads, Pending,
       StoredJobs, StaleJobs, CancelledJobs, FreedUses
  <2> QED
    BY <2>1, <2>2, <2>3
<1>2. CASE StatusEnd(t)
  <2>1. Placed' /\ Lists' /\ Fresh' /\ Entering' /\ Loaded' /\ Taken' /\
     Kept'
    BY <1>2 DEF StatusEnd, Placed, Lists, Fresh, Entering, Loaded, Taken,
       TakenPcs, Kept, OwningPcs
  <2>2. JobsApart' /\ StoredJobs'
    BY <1>2 DEF StatusEnd, JobsApart, InUse, StoredJobs, Pending
  <2>3. StaleJobs' /\ CancelledJobs' /\ FreedUses'
    BY <1>2 DEF StatusEnd, StaleJobs, Leads, InUse, CancelledJobs, FreedUses
  <2>4. Reporting'
    BY <1>2 DEF StatusEnd, Lists, Fresh, Entering, Taken, TakenPcs,
       Reporting, JobsHaveRecords, Placed
  <2>5. ListedJobs'
    <3>1. \A u \in Threads : pc[u] \in {"start_entry", "start_store"} =>
              pc'[u] = pc[u] /\ cb'[u] = cb[u]
      BY <1>2 DEF StatusEnd
    <3>2. \A g \in Handles, k \in Jobs : Pending(g, k) => Pending(g, k)'
      BY <1>2 DEF StatusEnd, Pending, Placed
    <3> QED
      BY <1>2, <3>1, <3>2 DEF StatusEnd, ListedJobs, Leads, InUse
  <2> QED
    BY <2>1, <2>2, <2>3, <2>4, <2>5
<1> QED
  BY <1>1, <1>2 DEF StatusStep

\* The callback takes the record of its own request off the list, or none.
LEMMA CallbackStepOInv ==
    ASSUME NoLateCallback', IInv, OInv, NEW h \in Handles, CallbackStep(h)
    PROVE  OInv'
<1> USE FdpmAssumption, ServiceAssumption
    DEF IInv, TypeOK, SvcTypeOK, Threads, Goto, Return, MayCall, OInv,
        svcVars, lockVars, memVars, locals, ubVars, Touch, Dies, CbInfo,
        LockHeld, LockedPcs, get_handle
<1>1. ASSUME NEW j \in Jobs, CallbackBegin(h, j)
     PROVE  OInv'
  <2>1. Lists' /\ Fresh' /\ Entering' /\ Loaded' /\ Taken' /\ Reporting'
    BY <1>1 DEF CallbackBegin, SvcBeginCallback, Lists, Fresh, Entering,
       Loaded, Taken, TakenPcs, Reporting
  <2>2. JobsApart' /\ ListedJobs' /\ StoredJobs' /\ StaleJobs' /\
     CancelledJobs' /\ FreedUses'
    BY <1>1 DEF CallbackBegin, SvcBeginCallback, JobsApart, InUse,
       ListedJobs, Leads, Pending, StoredJobs, StaleJobs, CancelledJobs,
       FreedUses
  <2>3. Placed'
    BY <1>1 DEF CallbackBegin, SvcBeginCallback, Placed, JobsHaveRecords
  <2>4. Kept'
    BY <1>1 DEF CallbackBegin, SvcBeginCallback, Kept, OwningPcs,
       JobsHaveRecords
  <2> QED
    BY <2>1, <2>2, <2>3, <2>4
<1>2. CASE CallbackRead(h)
  <2>1. Placed' /\ Lists'
    BY <1>2 DEF CallbackRead, Placed, Lists
  <2>2. Fresh' /\ Entering' /\ Kept'
    BY <1>2 DEF CallbackRead, Fresh, Entering, Kept, OwningPcs
  <2>3. JobsApart' /\ StaleJobs' /\ CancelledJobs' /\ FreedUses'
    BY <1>2 DEF CallbackRead, JobsApart, InUse, StaleJobs, Leads,
       CancelledJobs, FreedUses
  <2>4. Loaded' /\ Taken'
    BY <1>2 DEF CallbackRead, Loaded, Taken, TakenPcs, Placed
  <2>5. Reporting'
    BY <1>2 DEF CallbackRead, Lists, Fresh, Entering, Taken, TakenPcs,
       Reporting, JobsHaveRecords, Placed
  <2>6. ListedJobs'
    BY <1>2 DEF CallbackRead, ListedJobs, Lists, Fresh, Taken, TakenPcs,
       JobsApart, Leads, Pending, InUse, Sessions, PrivateHandles,
       PrivatePcs, ClosePcs
  <2>7. StoredJobs'
    BY <1>2 DEF CallbackRead, StoredJobs, Lists, Fresh, Reporting,
       JobsApart, Pending, InUse, Sessions, PrivateHandles, PrivatePcs,
       ClosePcs
  <2> QED
    BY <2>1, <2>2, <2>3, <2>4, <2>5, <2>6, <2>7
<1>3. CASE CallbackDies(h)
  <2>1. Placed' /\ Lists' /\ Fresh' /\ Entering'
    BY <1>3 DEF CallbackDies, Placed, Lists, Fresh, Entering
  <2>2. Loaded' /\ Taken'
    BY <1>3 DEF CallbackDies, Loaded, Taken, TakenPcs
  <2>6. Reporting' /\ Kept'
    BY <1>3 DEF CallbackDies, TakenPcs, Reporting, Kept, OwningPcs
  <2>a. UNCHANGED <<svcVars, memVars, cb_list, user_data, pc, locals, cbpc>>
    BY <1>3 DEF CallbackDies
  <2>b. JobsApart'
    BY <2>a DEF JobsApart, InUse
  <2>3. JobsApart' /\ ListedJobs'
    BY <2>a, <2>b DEF InUse, ListedJobs, Leads, Pending
  <2>4. StoredJobs' /\ StaleJobs' /\ CancelledJobs'
    BY <2>a DEF StoredJobs, Pending, InUse, StaleJobs, Leads, CancelledJobs
  <2>5. FreedUses'
    <3>1. \/ ub' = ub \cup {"callback_read"}
          \/ ub' = ub \cup {"callback_lock"}
      BY <1>3 DEF CallbackDies
    <3>2. FreedUses
      OBVIOUS
    <3> HIDE DEF IInv, OInv
    <3> QED
      BY <3>1, <3>2 DEF FreedUses
  <2> QED
    BY <2>1, <2>2, <2>3, <2>4, <2>5, <2>6
<1>4. CASE CallbackDel(h)
  <2> DEFINE r == CbInfo(h)
             j == running[h]
  <2>a. /\ cbpc[h] = "del" /\ cbpc' = [cbpc EXCEPT ![h] = "user"]
        /\ cb_list' = [cb_list EXCEPT ![del_hdl[h]] = @ \ {r}]
        /\ del_hdl' = [del_hdl EXCEPT ![h] = Null]
        /\ UNCHANGED <<svcVars, memVars, user_data, pc, hdl, cb, rsp>>
    BY <1>4 DEF CallbackDel
  <2>b. OwnRequest(h) /\ ub' = ub
    <3>1. OwnRequest(h)
      BY <1>4 DEF CallbackDel, NoLateCallback
    <3>2. del_hdl[h] \in hdl_mem
      BY <1>4 DEF CallbackDel, Reporting, Lists
    <3> QED
      BY <1>4, <3>1, <3>2 DEF CallbackDel, LockParent
  <2>c. /\ del_hdl[h] \in Handles /\ r \in Recs /\ j \in Jobs
        /\ user_data[j] = r /\ r \in cb_list[del_hdl[h]]
    BY <1>4 DEF CallbackDel, JobsHaveRecords, Reporting
  <2>d. \A t \in Threads : pc[t] = "start_entry" => cb[t] # r
    <3> SUFFICES ASSUME NEW t \in Threads, pc[t] = "start_entry", cb[t] = r
                 PROVE  FALSE
      OBVIOUS
    <3>1. job_id[r] # j
      BY <2>c DEF StaleJobs, Leads, InUse
    <3>2. \A u \in Threads : pc[u] # "start_store"
      OBVIOUS
    <3> QED
      BY <2>b, <3>1, <3>2 DEF OwnRequest
  <2>e. \A t \in Threads : pc[t] = "start_store" /\ cb[t] = r => rsp[t] = j
    <3> SUFFICES ASSUME NEW t \in Threads, pc[t] = "start_store", cb[t] = r
                 PROVE  rsp[t] = j
      OBVIOUS
    <3>1. job_id[r] = j => rsp[t] = j
      BY <2>c DEF StaleJobs, Leads, InUse
    <3>2. \A u \in Threads : pc[u] = "start_store" => u = t
      OBVIOUS
    <3> QED
      BY <2>b, <3>1, <3>2 DEF OwnRequest
  <2>h. \A t \in Threads :
           pc[t] = "start_store" /\ cb[t] = r =>
              hdl[t] = h /\ r \in cb_list[h]
    <3> SUFFICES ASSUME NEW t \in Threads, pc[t] = "start_store", cb[t] = r
                 PROVE  hdl[t] = h /\ r \in cb_list[h]
      OBVIOUS
    <3>1. rsp[t] = j
      BY <2>e
    <3>2. hdl[t] \in Handles
      BY DEF LockHeld, LockedPcs
    <3>3. \/ r \in cb_list[hdl[t]] /\ Pending(hdl[t], j)
          \/ cbpc[hdl[t]] = "user" /\ running[hdl[t]] = j
          \/ ~InUse(h, j)
      BY <3>1 DEF StoredJobs
    <3>4. InUse(h, j) /\ InUse(hdl[t], j)
      BY <3>3 DEF Pending, InUse
    <3>5. hdl[t] = h
      BY <2>c, <3>2, <3>4 DEF JobsApart
    <3> QED
      BY <2>a, <3>3, <3>4, <3>5
  <2>f. del_hdl[h] = h
    <3>1. CASE \E t \in Threads : pc[t] = "start_store" /\ cb[t] = r
      BY <2>c, <2>h, <3>1 DEF Lists
    <3>2. CASE ~\E t \in Threads : pc[t] = "start_store" /\ cb[t] = r
      <4>1. job_id[r] = j
        BY <2>b, <3>2 DEF OwnRequest
      <4>2. \/ Pending(del_hdl[h], j)
            \/ ~Leads(j, r)
        BY <2>c, <2>d, <3>2, <4>1 DEF ListedJobs
      <4>3. Leads(j, r)
        BY <2>c DEF Leads, InUse
      <4> QED
        BY <2>c, <4>2, <4>3 DEF JobsApart, Pending, InUse
    <3> QED
      BY <3>1, <3>2
  <2>g. parent_hdl[r] = h /\ r \in cb_list[h] /\ r \in cb_mem
    BY <2>c, <2>f DEF Lists
  <2>1. Placed'
    BY <2>a DEF Placed
  <2>2. Lists'
    BY <2>a, <2>f DEF Lists
  <2>3. Fresh' /\ Entering'
    BY <2>a, <2>d, <2>f DEF Fresh, Entering
  <2>4. Loaded' /\ Taken'
    BY <2>a, <2>f DEF Loaded, Taken, TakenPcs, Placed
  <2>5. Reporting'
    <3>1. \A t \in Threads : pc[t] \in TakenPcs => cb[t] # r
      BY <2>g DEF Taken, TakenPcs
    <3> QED
      BY <2>a, <2>f, <2>g, <3>1 DEF Reporting
  <2>6. Kept'
    BY <2>a, <2>f DEF Kept
  <2>7. JobsApart'
    BY <2>a DEF JobsApart, InUse
  <2>8. ListedJobs'
    <3>1. \A g \in Handles : \A s \in cb_list'[g] : s \in cb_list[g] /\ s # r
      BY <2>a, <2>f, <2>g DEF Lists
    <3>2. \A g \in Handles, k \in Jobs :
              Pending(g, k) /\ user_data[k] # r => Pending(g, k)'
      BY <2>a, <2>c DEF Pending
    <3> QED
      BY <2>a, <3>1, <3>2 DEF ListedJobs, Leads, InUse
  <2>9. StoredJobs'
    <3> SUFFICES ASSUME NEW t \in Threads, pc[t] = "start_store"
                 PROVE  /\ rsp[t] \in Jobs /\ user_data[rsp[t]] = cb[t]
                        /\ \/ /\ cb[t] \in cb_list'[hdl[t]]
                              /\ Pending(hdl[t], rsp[t])'
                           \/ /\ cbpc'[hdl[t]] = "user"
                              /\ running[hdl[t]] = rsp[t]
                           \/ /\ \A g \in Handles : ~InUse(g, rsp[t])
                              /\ \A g \in Handles : cb[t] \notin cb_list'[g]
      BY <2>a DEF StoredJobs, InUse
    <3>1. CASE cb[t] = r
      <4>1. rsp[t] = j
        BY <2>e, <3>1
      <4>2. hdl[t] = h
        BY <2>h, <3>1
      <4> QED
        BY <2>a, <2>c, <4>1, <4>2 DEF StoredJobs, InUse
    <3>2. CASE cb[t] # r
      BY <2>a, <2>c, <2>f, <3>2 DEF StoredJobs, Pending
    <3> QED
      BY <3>1, <3>2
  <2>10. StaleJobs'
    BY <2>a DEF StaleJobs, Leads, InUse
  <2>11. CancelledJobs' /\ FreedUses'
    BY <2>a, <2>b DEF CancelledJobs, FreedUses, InUse
  <2> QED
    BY <2>1, <2>2, <2>3, <2>4, <2>5, <2>6, <2>7, <2>8, <2>9, <2>10, <2>11
<1>5. CASE CallbackCancelled(h)
  <2>1. Placed'
    BY <1>5 DEF CallbackCancelled, SvcEndCallback, Placed
  <2>2. Lists' /\ Fresh' /\ Entering'
    BY <1>5 DEF CallbackCancelled, SvcEndCallback, Lists, Fresh, Entering
  <2>3. Reporting' /\ Kept'
    BY <1>5 DEF CallbackCancelled, SvcEndCallback, Reporting, TakenPcs,
       Kept, OwningPcs
  <2>4. JobsApart'
    BY <1>5 DEF CallbackCancelled, SvcEndCallback, JobsApart, InUse
  <2>5. ListedJobs'
    BY <1>5 DEF CallbackCancelled, SvcEndCallback, ListedJobs, Leads,
       Pending, InUse
  <2>6. StaleJobs' /\ CancelledJobs' /\ FreedUses'
    BY <1>5 DEF CallbackCancelled, SvcEndCallback, StaleJobs, Leads, InUse,
       CancelledJobs, FreedUses, LockParent
  <2>7. Loaded' /\ Taken'
    BY <1>5 DEF CallbackCancelled, SvcEndCallback, Loaded, Taken, TakenPcs,
       Placed
  <2>8. StoredJobs'
    <3>1. /\ cbpc[h] = "del" /\ running' = [running EXCEPT ![h] = NoJob]
          /\ cbpc' = [cbpc EXCEPT ![h] = "idle"]
          /\ del_hdl' = [del_hdl EXCEPT ![h] = Null]
          /\ CbInfo(h) \notin cb_list[del_hdl[h]]
          /\ UNCHANGED <<owed, user_data, cb_list, pc, hdl, cb, rsp>>
      BY <1>5 DEF CallbackCancelled, SvcEndCallback
    <3> SUFFICES ASSUME NEW t \in Threads, pc[t] = "start_store"
                 PROVE  /\ rsp[t] \in Jobs /\ user_data[rsp[t]] = cb[t]
                        /\ \/ /\ cb[t] \in cb_list[hdl[t]]
                              /\ Pending(hdl[t], rsp[t])'
                           \/ /\ cbpc'[hdl[t]] = "user"
                              /\ running'[hdl[t]] = rsp[t]
                           \/ /\ \A g \in Handles : ~InUse(g, rsp[t])'
                              /\ \A g \in Handles : cb[t] \notin cb_list[g]
      BY <3>1 DEF StoredJobs
    <3>2. hdl[t] \in Handles
      OBVIOUS
    <3> QED
      BY <3>1, <3>2 DEF StoredJobs, Pending, InUse
  <2> QED
    BY <2>1, <2>2, <2>3, <2>4, <2>5, <2>6, <2>7, <2>8
<1>6. CASE CallbackEnd(h)
  <2>a. /\ cbpc[h] = "user" /\ cbpc' = [cbpc EXCEPT ![h] = "idle"]
        /\ running' = [running EXCEPT ![h] = NoJob]
        /\ cb_mem' = cb_mem \ {CbInfo(h)}
        /\ UNCHANGED <<session, owed, hdl_mem, parent_hdl, job_id, cb_list,
                       user_data, pc, hdl, cb, del_hdl, rsp>>
    BY <1>6 DEF CallbackEnd, SvcEndCallback
  <2>b. CbInfo(h) \in cb_mem /\ ub' = ub
    BY <1>6 DEF CallbackEnd, Reporting
  <2>1. Placed' /\ Kept'
    BY <1>6 DEF CallbackEnd, SvcEndCallback, Placed, Kept, OwningPcs
  <2>c. Reporting'
    BY <1>6 DEF CallbackEnd, SvcEndCallback, Reporting, TakenPcs
  <2>2. JobsApart'
    BY <1>6 DEF CallbackEnd, SvcEndCallback, JobsApart, InUse
  <2>3. ListedJobs'
    BY <1>6 DEF CallbackEnd, SvcEndCallback, ListedJobs, Leads, Pending,
       InUse
  <2>4. StaleJobs'
    BY <1>6 DEF CallbackEnd, SvcEndCallback, StaleJobs, Leads, InUse
  <2>5. Lists'
    BY <1>6 DEF CallbackEnd, SvcEndCallback, Lists, Reporting
  <2>6. Fresh' /\ Entering'
    BY <1>6 DEF CallbackEnd, SvcEndCallback, Lists, Fresh, Entering,
       Reporting
  <2>7. Loaded' /\ Taken'
    BY <1>6 DEF CallbackEnd, SvcEndCallback, Lists, Fresh, Entering, Loaded,
       Taken, TakenPcs, Reporting, PrivateHandles, PrivatePcs, ClosePcs
  <2>8. StoredJobs'
    <3>2. \A g \in Handles : CbInfo(h) \notin cb_list[g]
      BY <2>a DEF Lists, Reporting
    <3> SUFFICES ASSUME NEW t \in Threads, pc[t] = "start_store"
                 PROVE  /\ rsp[t] \in Jobs /\ user_data[rsp[t]] = cb[t]
                        /\ \/ /\ cb[t] \in cb_list[hdl[t]]
                              /\ Pending(hdl[t], rsp[t])'
                           \/ /\ cbpc'[hdl[t]] = "user"
                              /\ running'[hdl[t]] = rsp[t]
                           \/ /\ \A g \in Handles : ~InUse(g, rsp[t])'
                              /\ \A g \in Handles : cb[t] \notin cb_list[g]
      BY <2>a DEF StoredJobs
    <3>3. CASE cb[t] \in cb_list[hdl[t]] /\ Pending(hdl[t], rsp[t])
      BY <2>a, <3>3 DEF StoredJobs, Pending
    <3>4. CASE cbpc[hdl[t]] = "user" /\ running[hdl[t]] = rsp[t]
      <4>1. CASE hdl[t] = h
        <5>1. \A g \in Handles : ~InUse(g, rsp[t])'
          BY <2>a, <3>4, <4>1 DEF StoredJobs, JobsApart, InUse
        <5> QED
          BY <3>2, <3>4, <4>1, <5>1 DEF StoredJobs
      <4>2. CASE hdl[t] # h
        BY <2>a, <3>4, <4>2 DEF StoredJobs
      <4> QED
        BY <4>1, <4>2
    <3>5. CASE /\ \A g \in Handles : ~InUse(g, rsp[t])
               /\ \A g \in Handles : cb[t] \notin cb_list[g]
      BY <2>a, <3>5 DEF StoredJobs, InUse
    <3> QED
      BY <3>3, <3>4, <3>5 DEF StoredJobs
  <2>9. CancelledJobs' /\ FreedUses'
    BY <2>a, <2>b DEF CancelledJobs, FreedUses, InUse, Taken, TakenPcs
  <2> QED
    BY <2>1, <2>2, <2>3, <2>4, <2>5, <2>6, <2>7, <2>8, <2>9, <2>c
<1> QED
  BY <1>1, <1>2, <1>3, <1>4, <1>5, <1>6 DEF CallbackStep, CallbackDisconnects

\* A session that ends only takes jobs out of the driver.
LEMMA DriverDropsOInv ==
    ASSUME NoLateCallback', IInv, OInv, NEW h \in Handles, DriverDrops(h)
    PROVE  OInv'
<1> USE FdpmAssumption, ServiceAssumption
    DEF IInv, TypeOK, SvcTypeOK, Threads, Goto, Return, MayCall, OInv,
        svcVars, lockVars, memVars, locals, ubVars, Touch, Dies, CbInfo,
        LockHeld, LockedPcs, get_handle
<1>1. CASE DriverDrops(h)
  <2>a. /\ session[h] = "quitting"
        /\ \A g \in Handles : owed'[g] \subseteq owed[g]
        /\ \A g \in Handles \ {h} : owed'[g] = owed[g]
        /\ UNCHANGED <<session, running, hdl_mem, cb_mem, parent_hdl, job_id,
                       cb_list, user_data, pc, hdl, cb, del_hdl, rsp, cbpc,
                       ub>>
    BY <1>1 DEF DriverDrops, SvcDropJobs
  <2>b. \A g \in Handles, k \in Jobs :
            /\ InUse(g, k)' => InUse(g, k)
            /\ g # h /\ Pending(g, k) => Pending(g, k)'
    BY <2>a DEF InUse, Pending
  <2>1. Placed' /\ Lists' /\ Fresh' /\ Entering'
    BY <1>1 DEF DriverDrops, SvcDropJobs, Placed, Lists, Fresh, Entering
  <2>2. Loaded' /\ Taken' /\ Reporting' /\ Kept'
    BY <1>1 DEF DriverDrops, SvcDropJobs, Loaded, Taken, TakenPcs,
       Reporting, Kept, OwningPcs
  <2>3. JobsApart'
    BY <1>1 DEF DriverDrops, SvcDropJobs, JobsApart, InUse
  <2>4. StaleJobs' /\ CancelledJobs' /\ FreedUses'
    BY <1>1 DEF DriverDrops, SvcDropJobs, StaleJobs, Leads, InUse,
       CancelledJobs, FreedUses
  <2>5. ListedJobs'
    BY <1>1 DEF DriverDrops, SvcDropJobs, ListedJobs, Lists, Fresh, Taken,
       TakenPcs, JobsApart, Leads, Pending, InUse, Sessions, PrivateHandles,
       PrivatePcs, ClosePcs
  <2>6. StoredJobs'
    <3>1. \A t \in Threads : pc[t] = "start_store" => hdl[t] # h
      BY <2>a DEF Sessions
    <3> QED
      BY <2>a, <2>b, <3>1 DEF StoredJobs
  <2> QED
    BY <2>1, <2>2, <2>3, <2>4, <2>5, <2>6
<1> QED
  BY <1>1

\* The initial state: no records.
LEMMA InitOInv == Init => OInv
BY FdpmAssumption, ServiceAssumption
   DEF Init, SvcInit, OInv, Placed, Lists, Fresh, Entering, Loaded, Taken,
       TakenPcs, Reporting, Kept, JobsApart, InUse, ListedJobs, StoredJobs,
       StaleJobs, CancelledJobs, FreedUses, Threads

\* What went wrong is not forgotten.
LEMMA UbGrows ==
    ASSUME [Next]_vars
    PROVE  ub \subseteq ub'
<1> USE DEF Goto, Return, Touch, Dies, ubVars
<1>1. ASSUME NEW t \in Apps, OpenStep(t) PROVE ub \subseteq ub'
  BY <1>1 DEF OpenStep, OpenAdd, OpenInit
<1>2. ASSUME NEW t \in Apps, CloseStep(t) PROVE ub \subseteq ub'
  BY <1>2 DEF CloseStep, CloseDel, CloseQuit, CloseQuitRefused,
     CloseQuitDone, CloseQuitFails, CloseDrain, CloseFree
<1>3. ASSUME NEW t \in Threads, StartStep(t) PROVE ub \subseteq ub'
  BY <1>3 DEF StartStep, StartMalloc, StartNoHandle, StartAdd, StartEntry,
     StartRefused, StartStore, StartDies
<1>4. ASSUME NEW t \in Threads, CancelStep(t) PROVE ub \subseteq ub'
  BY <1>4 DEF CancelStep, CancelBegin, CancelTest, CancelEnd, CancelLoad,
     CancelRead, CancelDies, CancelDel, CancelJob, CancelFree
<1>5. ASSUME NEW t \in Threads, StatusStep(t) PROVE ub \subseteq ub'
  BY <1>5 DEF StatusStep, StatusBegin, StatusEnd
<1>6. ASSUME NEW h \in Handles, CallbackStep(h) PROVE ub \subseteq ub'
  BY <1>6 DEF CallbackStep, CallbackDisconnects, CallbackBegin,
     CallbackRead, CallbackDies, CallbackDel, CallbackCancelled, CallbackEnd
<1>7. ASSUME NEW h \in Handles, DriverDrops(h) PROVE ub \subseteq ub'
  BY <1>7 DEF DriverDrops
<1>8. CASE UNCHANGED vars
  BY <1>8 DEF vars
<1> QED
  BY <1>1, <1>2, <1>3, <1>4, <1>5, <1>6, <1>7, <1>8 DEF Next

\* No step that leaves other requests' records alone breaks the ownership.
LEMMA NextOInv ==
    ASSUME NoLateCallback', IInv, OInv, [Next]_vars
    PROVE  OInv'
<1>1. CASE Next
  BY <1>1, OpenStepOInv, CloseStepOInv, StartStepOInv, CancelStepOInv,
     StatusStepOInv, CallbackStepOInv, DriverDropsOInv DEF Next
<1>2. CASE UNCHANGED vars
  BY <1>2 DEF vars, svcVars, lockVars, memVars, locals, ubVars, OInv,
     Placed, Lists, Fresh, Entering, Loaded, Taken, Reporting, Kept,
     JobsApart, InUse, Leads, Pending, ListedJobs, StoredJobs, StaleJobs,
     CancelledJobs, FreedUses, CbInfo
<1> QED
  BY <1>1, <1>2

\* For all clients, the ownership invariant holds until a callback takes the
\* record of another request.
THEOREM Ownership == Spec => [](NoLateCallback => OInv)
<1>1. Init => (NoLateCallback => OInv)
  BY InitOInv
<1>2. IInv /\ (NoLateCallback => OInv) /\ [Next]_vars
         => (NoLateCallback => OInv)'
  BY UbGrows, NextOInv DEF NoLateCallback
<1>3. QED
  BY <1>1, <1>2, Invariance, PTL DEF Spec

-----------------------------------------------------------------------------

\* Every allocated record has exactly one party that will free it, and a freed
\* record none: no double free and no lost record, whatever Start, Cancel,
\* Close, the driver and the callbacks do at the same time, until a callback
\* takes the record of another request.
THEOREM RecordOwnership == Spec => []RecordsOwned
<1>1. ASSUME IInv, NoLateCallback => OInv PROVE RecordsOwned
  <2> SUFFICES ASSUME OInv, NEW r \in Recs
               PROVE  IF r \in cb_mem THEN \E o \in Owners(r) : Owners(r) = {o}
                      ELSE Owners(r) = {}
    BY <1>1 DEF RecordsOwned
  <2> DEFINE L == {h \in Handles : r \in cb_list[h]}
             T == {t \in Threads : cb[t] = r /\ pc[t] \in OwningPcs}
             C == {h \in Handles : cbpc[h] = "user" /\ CbInfo(h) = r}
  <2>1. \A t \in T : pc[t] = "start_lock" \/ pc[t] \in TakenPcs
    BY DEF OwningPcs, TakenPcs
  <2>2. \A t \in T : pc[t] \in TakenPcs => fdp_hdl_mutex = t
    BY <1>1 DEF IInv, LockHeld, LockedPcs, TakenPcs
  <2>3. \A t \in T : pc[t] \in TakenPcs => hdl[t] \in Handles
    BY <1>1 DEF IInv, LockHeld, LockedPcs, TakenPcs, TypeOK
  <2>4. /\ \A g, h \in L : g = h
        /\ \A t, u \in T : t = u
        /\ \A g, h \in C : g = h
    BY <2>1, <2>2, <2>3, FdpmAssumption
       DEF OInv, Lists, Fresh, Taken, Reporting
  <2>5. /\ L # {} => T = {} /\ C = {}
        /\ T # {} => C = {}
    BY <2>1, <2>3, FdpmAssumption DEF OInv, Lists, Fresh, Taken, Reporting
  <2>6. r \in cb_mem <=> L # {} \/ T # {} \/ C # {}
    BY <2>1 DEF OInv, Lists, Fresh, Taken, Reporting, Kept
  <2>7. Owners(r) = {<<"list", h>> : h \in L} \cup {<<"thread", t>> : t \in T}
                       \cup {<<"callback", h>> : h \in C}
    BY DEF Owners
  <2>8. CASE L # {}
    <3>1. PICK x \in L : L = {x}
      BY <2>4, <2>8
    <3>2. T = {} /\ C = {}
      BY <2>5, <2>8
    <3>3. Owners(r) = {<<"list", x>>}
      BY <2>7, <3>1, <3>2
    <3> QED
      BY <2>6, <2>8, <3>3
  <2>9. CASE T # {}
    <3>1. PICK x \in T : T = {x}
      BY <2>4, <2>9
    <3>2. L = {} /\ C = {}
      BY <2>5, <2>9
    <3>3. Owners(r) = {<<"thread", x>>}
      BY <2>7, <3>1, <3>2
    <3> QED
      BY <2>6, <2>9, <3>3
  <2>10. CASE C # {}
    <3>1. PICK x \in C : C = {x}
      BY <2>4, <2>10
    <3>2. L = {} /\ T = {}
      BY <2>5, <2>10
    <3>3. Owners(r) = {<<"callback", x>>}
      BY <2>7, <3>1, <3>2
    <3> QED
      BY <2>6, <2>10, <3>3
  <2>11. CASE L = {} /\ T = {} /\ C = {}
    BY <2>6, <2>7, <2>11
  <2> QED
    BY <2>8, <2>9, <2>10, <2>11
<1>2. QED
  BY <1>1, Invariance, Ownership, PTL

\* The job that Cancel takes back is that of the record it took off the list,
\* on any number of handles.
THEOREM CancelSafety == Spec => []CancelHitsOwnJob
<1>1. ASSUME IInv, NoLateCallback => OInv PROVE CancelHitsOwnJob
  BY <1>1 DEF IInv, TypeOK, SvcTypeOK, OInv, CancelledJobs, CancelHitsOwnJob,
     InUse
<1>2. QED
  BY <1>1, Invariance, Ownership, PTL

\* The places where a freed record, or the handle it has led to, may be used:
\* free and the loops of Cancel and Close are not among them, so no record is
\* freed twice.
THEOREM FreedRecordUses == Spec => [](NoLateCallback => FreedUses)
<1>1. OInv => FreedUses BY DEF OInv
<1>2. QED BY <1>1, Ownership, PTL
=============================================================================
