------------------------------ MODULE FdpmApi ------------------------------
(***************************************************************************)
(* vspm_api_fdp.c: drv_FDPM_Open, Close, Start, Cancel and Status, and the *)
(* callback vspm_if_fdp_cb_func, over the service of VspmService.          *)
(*                                                                         *)
(* Application threads call the five functions in any order, each for any  *)
(* id an Open has returned, also one that is closed.  The callback thread  *)
(* of handle h is named h; while it executes the user's callback it may    *)
(* itself call Start, Cancel and Status.  A step is what a thread does     *)
(* between two points where another thread can matter: a section under     *)
(* hdl->mutex is one step, fdp_hdl_mutex is held over several.             *)
(*                                                                         *)
(* Memory is explicit: a callback record is an address, and after free the *)
(* next malloc may return it again.  Using a freed record, or a freed      *)
(* handle that a record has led to, is undefined in C; here it is noted in *)
(* ub, and the process dies or goes on with what the memory last held.     *)
(*                                                                         *)
(* Left out: argument checks that return at once, failures of Open (which  *)
(* give back all they took), the user functions that only inform, and the  *)
(* contents of the FDP parameters.                                         *)
(***************************************************************************)
EXTENDS VspmService, Naturals

CONSTANTS
    Apps,      \* application threads
    Recs,      \* addresses of struct vspm_if_fdp_cb_t
    Null,      \* the null pointer, of either type
    Free,      \* fdp_hdl_mutex is not held
    MaxId,     \* bound: no Open begins once seed_id has come this far
    Calls      \* which of "start", "cancel", "status", "close" clients use

ASSUME FdpmAssumption ==
    /\ Apps \cap Handles = {} /\ Free \notin Apps \cup Handles
    /\ Null \notin Recs \cup Handles
    /\ MaxId \in Nat

Threads == Apps \cup Handles

VARIABLES
    fdp_hdl_mutex,   \* the thread that holds it, or Free
    hdl_list,        \* handles on the global list
    seed_id,         \* last id given out
    id,              \* id[h]: hdl->id
    hdl_mem,         \* handles that are allocated
    cb_list,         \* cb_list[h]: records on hdl->cb_list
    cb_mem,          \* records that are allocated
    parent_hdl,      \* parent_hdl[r], as the memory of r holds it
    job_id,          \* job_id[r], as the memory of r holds it
    user_data,       \* user_data[j]: the record the driver got with job j
    pc, hdl, cb,     \* per thread: where it is, its locals hdl and cb(_info),
    del_hdl,         \* and the local hdl of vspm_if_del_fdp_cb_info
    rsp,             \* per thread: the job_id the entry ioctl answered
    cbpc,            \* cbpc[h]: where vspm_if_fdp_cb_func is on thread h
    ub, crashed      \* what went wrong so far: the places that used a freed
                     \* record or handle, and "late" for a callback that took
                     \* another request's record; the process has died

lockVars == <<fdp_hdl_mutex, hdl_list, seed_id, id>>
memVars == <<hdl_mem, cb_mem, parent_hdl, job_id>>
locals == <<hdl, cb, del_hdl, rsp>>
ubVars == <<ub, crashed>>
vars == <<svcVars, lockVars, memVars, cb_list, user_data, pc, locals, cbpc,
          ubVars>>

CallPcs == {"idle", "open_add", "close_quit", "close_wait", "close_drain",
            "start_lock", "start_entry", "start_store",
            "cancel_test", "cancel_load", "cancel_read", "cancel_del",
            "cancel_job", "cancel_free", "status_ioctl"}
CbPcs == {"idle", "read", "del", "user"}

Init ==
    /\ SvcInit
    /\ fdp_hdl_mutex = Free
    /\ hdl_list = {}
    /\ seed_id = 0
    /\ id = [h \in Handles |-> 0]
    /\ hdl_mem = {}
    /\ cb_list = [h \in Handles |-> {}]
    /\ cb_mem = {}
    /\ parent_hdl = [r \in Recs |-> Null]
    /\ job_id = [r \in Recs |-> NoJob]
    /\ user_data = [j \in Jobs |-> Null]
    /\ pc = [t \in Threads |-> "idle"]
    /\ hdl = [t \in Threads |-> Null]
    /\ cb = [t \in Threads |-> Null]
    /\ del_hdl = [t \in Threads |-> Null]
    /\ rsp = [t \in Threads |-> NoJob]
    /\ cbpc = [h \in Handles |-> "idle"]
    /\ ub = {}
    /\ crashed = FALSE

-----------------------------------------------------------------------------

Goto(t, from, to) ==
    /\ ~crashed
    /\ pc[t] = from
    /\ pc' = [pc EXCEPT ![t] = to]

\* The last step of a call: its locals are gone.
Return(t, from) ==
    /\ Goto(t, from, "idle")
    /\ hdl' = [hdl EXCEPT ![t] = Null]
    /\ cb' = [cb EXCEPT ![t] = Null]
    /\ del_hdl' = [del_hdl EXCEPT ![t] = Null]
    /\ rsp' = [rsp EXCEPT ![t] = NoJob]

\* A thread may begin a call: an application thread at any time, a callback
\* thread while the user's callback executes.
MayCall(t, name) ==
    /\ name \in Calls
    /\ t \in Handles => cbpc[t] = "user"

\* The ids a client may pass: those an Open has returned, and 0, which no
\* handle has.
Ids == 0..seed_id

\* vspm_if_get_handle: the handles (at most one) on the list with this id.
get_handle(i) == {h \in hdl_list : id[h] = i}

\* Touching record r at some place of the code: undefined when r is freed.
Touch(r, place) ==
    ub' = IF r \in cb_mem THEN ub ELSE ub \cup {place}

\* vspm_if_del_fdp_cb_info locks the handle it has read from the record:
\* undefined when that handle is freed.
LockParent(t, place) == IF del_hdl[t] \in hdl_mem THEN {} ELSE {place}

\* The records that vspm_if_del_fdp_cb_info can be called with: allocated, and
\* put on a list since (malloc and memset leave a null parent).
Listed == {r \in cb_mem : parent_hdl[r] # Null}

\* The process dies of it.
Dies(place) ==
    /\ crashed' = TRUE
    /\ ub' = ub \cup {place}
    /\ UNCHANGED <<svcVars, lockVars, memVars, cb_list, user_data, pc, locals,
                   cbpc>>

-----------------------------------------------------------------------------
(* drv_FDPM_Open: the handle is private until it is on the list.           *)

OpenInit(t, h) ==
    /\ Goto(t, "idle", "open_add")
    /\ seed_id < MaxId
    /\ h \notin hdl_mem
    /\ hdl_mem' = hdl_mem \cup {h}
    /\ cb_list' = [cb_list EXCEPT ![h] = {}]
    /\ hdl' = [hdl EXCEPT ![t] = h]
    /\ SvcInitDriver(h)
    /\ UNCHANGED <<lockVars, cb_mem, parent_hdl, job_id, user_data, cb,
                   del_hdl, rsp, cbpc, ubVars>>

\* vspm_if_add_handle
OpenAdd(t) ==
    /\ Return(t, "open_add")
    /\ fdp_hdl_mutex = Free
    /\ seed_id' = seed_id + 1
    /\ id' = [id EXCEPT ![hdl[t]] = seed_id + 1]
    /\ hdl_list' = hdl_list \cup {hdl[t]}
    /\ UNCHANGED <<svcVars, fdp_hdl_mutex, memVars, cb_list, user_data, cbpc,
                   ubVars>>

-----------------------------------------------------------------------------
(* drv_FDPM_Close                                                          *)

\* Mutant of CloseDel: the handle is found but not unlinked.
CloseFinds(t, i, h) ==
    /\ Goto(t, "idle", "close_quit")
    /\ "close" \in Calls
    /\ fdp_hdl_mutex = Free
    /\ h \in get_handle(i)
    /\ hdl' = [hdl EXCEPT ![t] = h]
    /\ UNCHANGED <<svcVars, lockVars, memVars, cb_list, user_data, cb,
                   del_hdl, rsp, cbpc, ubVars>>

\* vspm_if_del_handle
CloseDel(t, i, h) ==
    /\ Goto(t, "idle", "close_quit")
    /\ "close" \in Calls
    /\ fdp_hdl_mutex = Free
    /\ h \in get_handle(i)
    /\ hdl_list' = hdl_list \ {h}
    /\ hdl' = [hdl EXCEPT ![t] = h]
    /\ UNCHANGED <<svcVars, fdp_hdl_mutex, seed_id, id, memVars, cb_list,
                   user_data, cb, del_hdl, rsp, cbpc, ubVars>>

\* vspm_quit_driver begins; or it fails at once, and the handle is lost.
CloseQuit(t) ==
    /\ Goto(t, "close_quit", "close_wait")
    /\ \E D \in SUBSET owed[hdl[t]] : SvcStartQuit(hdl[t], D)
    /\ UNCHANGED <<lockVars, memVars, cb_list, user_data, locals, cbpc,
                   ubVars>>

CloseQuitRefused(t) ==
    /\ Return(t, "close_quit")
    /\ UNCHANGED <<svcVars, lockVars, memVars, cb_list, user_data, cbpc,
                   ubVars>>

\* vspm_quit_driver returns: only R_VSPM_OK leads on to the release.
CloseQuitDone(t) ==
    /\ Goto(t, "close_wait", "close_drain")
    /\ SvcQuitDone(hdl[t])
    /\ UNCHANGED <<lockVars, memVars, cb_list, user_data, locals, cbpc,
                   ubVars>>

\* Mutant of CloseQuitFails: the result of vspm_quit_driver is ignored.
CloseGoesOn(t) ==
    /\ Goto(t, "close_wait", "close_drain")
    /\ \E D \in SUBSET owed[hdl[t]] : SvcQuitFails(hdl[t], D)
    /\ UNCHANGED <<lockVars, memVars, cb_list, user_data, locals, cbpc,
                   ubVars>>

CloseQuitFails(t) ==
    /\ Return(t, "close_wait")
    /\ \E D \in SUBSET owed[hdl[t]] : SvcQuitFails(hdl[t], D)
    /\ UNCHANGED <<lockVars, memVars, cb_list, user_data, cbpc, ubVars>>

\* One turn of the loop that releases the unnotified records.
CloseDrain(t, r) ==
    /\ Goto(t, "close_drain", "close_drain")
    /\ r \in cb_list[hdl[t]]
    /\ Touch(r, "close_drain")
    /\ cb_list' = [cb_list EXCEPT ![hdl[t]] = @ \ {r}]
    /\ cb_mem' = cb_mem \ {r}
    /\ UNCHANGED <<svcVars, lockVars, hdl_mem, parent_hdl, job_id, user_data,
                   locals, cbpc, crashed>>

CloseFree(t) ==
    /\ Return(t, "close_drain")
    /\ cb_list[hdl[t]] = {}
    /\ hdl_mem' = hdl_mem \ {hdl[t]}
    /\ UNCHANGED <<svcVars, lockVars, cb_mem, parent_hdl, job_id, cb_list,
                   user_data, cbpc, ubVars>>

-----------------------------------------------------------------------------
(* drv_FDPM_Start                                                          *)

StartMalloc(t, r) ==
    /\ Goto(t, "idle", "start_lock")
    /\ MayCall(t, "start")
    /\ r \notin cb_mem
    /\ cb_mem' = cb_mem \cup {r}
    /\ parent_hdl' = [parent_hdl EXCEPT ![r] = Null]
    /\ job_id' = [job_id EXCEPT ![r] = NoJob]
    /\ cb' = [cb EXCEPT ![t] = r]
    /\ UNCHANGED <<svcVars, lockVars, hdl_mem, cb_list, user_data, hdl,
                   del_hdl, rsp, cbpc, ubVars>>

\* -EACCES: the id is not on the list.
StartNoHandle(t, i) ==
    /\ Return(t, "start_lock")
    /\ fdp_hdl_mutex = Free
    /\ get_handle(i) = {}
    /\ Touch(cb[t], "free")
    /\ cb_mem' = cb_mem \ {cb[t]}
    /\ UNCHANGED <<svcVars, lockVars, hdl_mem, parent_hdl, job_id, cb_list,
                   user_data, cbpc, crashed>>

\* Takes fdp_hdl_mutex, finds the handle, vspm_if_add_fdp_cb_info.
StartAdd(t, i, h) ==
    /\ Goto(t, "start_lock", "start_entry")
    /\ fdp_hdl_mutex = Free
    /\ h \in get_handle(i)
    /\ fdp_hdl_mutex' = t
    /\ hdl' = [hdl EXCEPT ![t] = h]
    /\ parent_hdl' = [parent_hdl EXCEPT ![cb[t]] = h]
    /\ cb_list' = [cb_list EXCEPT ![h] = @ \cup {cb[t]}]
    /\ UNCHANGED <<svcVars, hdl_list, seed_id, id, hdl_mem, cb_mem, job_id,
                   user_data, cb, del_hdl, rsp, cbpc, ubVars>>

\* Mutant of StartEntry: fdp_hdl_mutex is given back before the store.
StartEntryUnlocked(t, j) ==
    /\ Goto(t, "start_entry", "start_store")
    /\ SvcEntryJob(hdl[t], j)
    /\ user_data' = [user_data EXCEPT ![j] = cb[t]]
    /\ fdp_hdl_mutex' = Free
    /\ rsp' = [rsp EXCEPT ![t] = j]
    /\ UNCHANGED <<hdl_list, seed_id, id, memVars, cb_list, hdl, cb, del_hdl,
                   cbpc, ubVars>>

\* vspm_entry_job: the driver accepts, and may call back at once ...
StartEntry(t, j) ==
    /\ Goto(t, "start_entry", "start_store")
    /\ SvcEntryJob(hdl[t], j)
    /\ user_data' = [user_data EXCEPT ![j] = cb[t]]
    /\ rsp' = [rsp EXCEPT ![t] = j]
    /\ UNCHANGED <<lockVars, memVars, cb_list, hdl, cb, del_hdl, cbpc,
                   ubVars>>

\* Mutant of StartRefused: the record is freed but left on the list.
StartRefusedKeeps(t) ==
    /\ Return(t, "start_entry")
    /\ Touch(cb[t], "free")
    /\ cb_mem' = cb_mem \ {cb[t]}
    /\ fdp_hdl_mutex' = Free
    /\ UNCHANGED <<svcVars, hdl_list, seed_id, id, hdl_mem, parent_hdl,
                   job_id, cb_list, user_data, cbpc, crashed>>

\* Mutant of StartRefused: returns with fdp_hdl_mutex held.
StartRefusedLocked(t) ==
    /\ Return(t, "start_entry")
    /\ Touch(cb[t], "free")
    /\ cb_list' = [cb_list EXCEPT ![hdl[t]] = @ \ {cb[t]}]
    /\ cb_mem' = cb_mem \ {cb[t]}
    /\ UNCHANGED <<svcVars, lockVars, hdl_mem, parent_hdl, job_id, user_data,
                   cbpc, crashed>>

\* ... or refuses: err_exit2, vspm_if_del_fdp_cb_info, unlock, free.
StartRefused(t) ==
    /\ Return(t, "start_entry")
    /\ Touch(cb[t], "free")
    /\ cb_list' = [cb_list EXCEPT ![hdl[t]] = @ \ {cb[t]}]
    /\ cb_mem' = cb_mem \ {cb[t]}
    /\ fdp_hdl_mutex' = Free
    /\ UNCHANGED <<svcVars, hdl_list, seed_id, id, hdl_mem, parent_hdl,
                   job_id, user_data, cbpc, crashed>>

\* ... *job_id = rsp.job_id, in the record the callback may have freed.
StartStore(t) ==
    /\ Return(t, "start_store")
    /\ Touch(cb[t], "start_store")
    /\ job_id' = [job_id EXCEPT ![cb[t]] = rsp[t]]
    /\ fdp_hdl_mutex' = Free
    /\ UNCHANGED <<svcVars, hdl_list, seed_id, id, hdl_mem, cb_mem,
                   parent_hdl, cb_list, user_data, cbpc, crashed>>

StartDies(t) ==
    /\ ~crashed
    /\ pc[t] = "start_store"
    /\ cb[t] \notin cb_mem
    /\ Dies("start_store")

-----------------------------------------------------------------------------
(* drv_FDPM_Cancel                                                         *)

\* Mutant of CancelBegin: fdp_hdl_mutex is given back after the search.
CancelBeginUnlocked(t, i, h) ==
    /\ Goto(t, "idle", "cancel_test")
    /\ MayCall(t, "cancel")
    /\ fdp_hdl_mutex = Free
    /\ h \in get_handle(i)
    /\ hdl' = [hdl EXCEPT ![t] = h]
    /\ UNCHANGED <<svcVars, lockVars, memVars, cb_list, user_data, cb,
                   del_hdl, rsp, cbpc, ubVars>>

CancelBegin(t, i, h) ==
    /\ Goto(t, "idle", "cancel_test")
    /\ MayCall(t, "cancel")
    /\ fdp_hdl_mutex = Free
    /\ h \in get_handle(i)
    /\ fdp_hdl_mutex' = t
    /\ hdl' = [hdl EXCEPT ![t] = h]
    /\ UNCHANGED <<svcVars, hdl_list, seed_id, id, memVars, cb_list,
                   user_data, cb, del_hdl, rsp, cbpc, ubVars>>

\* while (hdl->cb_list != NULL), read without hdl->mutex
CancelTest(t) ==
    /\ Goto(t, "cancel_test", "cancel_load")
    /\ cb_list[hdl[t]] # {}
    /\ UNCHANGED <<svcVars, lockVars, memVars, cb_list, user_data, locals,
                   cbpc, ubVars>>

\* Mutant of CancelEnd: returns with fdp_hdl_mutex held.
CancelEndLocked(t) ==
    /\ Return(t, "cancel_test")
    /\ cb_list[hdl[t]] = {}
    /\ UNCHANGED <<svcVars, lockVars, memVars, cb_list, user_data, cbpc,
                   ubVars>>

CancelEnd(t) ==
    /\ Return(t, "cancel_test")
    /\ cb_list[hdl[t]] = {}
    /\ fdp_hdl_mutex' = Free
    /\ UNCHANGED <<svcVars, hdl_list, seed_id, id, memVars, cb_list,
                   user_data, cbpc, ubVars>>

\* cb = hdl->cb_list: a second read, which may find another head or none.
CancelLoad(t) ==
    /\ Goto(t, "cancel_load", "cancel_read")
    /\ \E r \in IF cb_list[hdl[t]] = {} THEN {Null} ELSE cb_list[hdl[t]] :
          cb' = [cb EXCEPT ![t] = r]
    /\ UNCHANGED <<svcVars, lockVars, memVars, cb_list, user_data, hdl,
                   del_hdl, rsp, cbpc, ubVars>>

\* vspm_if_del_fdp_cb_info reads cb->parent_hdl before it locks ...
CancelRead(t) ==
    /\ Goto(t, "cancel_read", "cancel_del")
    /\ cb[t] # Null
    /\ parent_hdl[cb[t]] # Null
    /\ Touch(cb[t], "cancel_read")
    /\ del_hdl' = [del_hdl EXCEPT ![t] = parent_hdl[cb[t]]]
    /\ UNCHANGED <<svcVars, lockVars, memVars, cb_list, user_data, hdl, cb,
                   rsp, cbpc, crashed>>

\* ... and dies of a null record, a null parent, a freed record, or the freed
\* handle it has found there.
CancelDies(t) ==
    /\ ~crashed
    /\ \/ /\ pc[t] = "cancel_read"
          /\ cb[t] \notin Listed
          /\ Dies("cancel_read")
       \/ /\ pc[t] = "cancel_del"
          /\ del_hdl[t] \notin hdl_mem
          /\ Dies("cancel_lock")

\* It removes the record if it is still on the list.
CancelDel(t) ==
    /\ LET found == cb[t] \in cb_list[del_hdl[t]]
       IN  Goto(t, "cancel_del",
                IF found THEN "cancel_job" ELSE "cancel_test")
    /\ cb_list' = [cb_list EXCEPT ![del_hdl[t]] = @ \ {cb[t]}]
    /\ ub' = ub \cup LockParent(t, "cancel_lock")
    /\ del_hdl' = [del_hdl EXCEPT ![t] = Null]
    /\ UNCHANGED <<svcVars, lockVars, memVars, user_data, hdl, cb, rsp, cbpc,
                   crashed>>

\* vspm_cancel_job: the driver drops the job, or answers that it is too late;
\* the answer is ignored.
CancelJob(t) ==
    /\ Goto(t, "cancel_job", "cancel_free")
    /\ Touch(cb[t], "cancel_job")
    /\ \/ SvcDropJobs(hdl[t], owed[hdl[t]] \cap {job_id[cb[t]]})
       \/ UNCHANGED svcVars
    /\ UNCHANGED <<lockVars, memVars, cb_list, user_data, locals, cbpc,
                   crashed>>

CancelFree(t) ==
    /\ Goto(t, "cancel_free", "cancel_test")
    /\ Touch(cb[t], "free")
    /\ cb_mem' = cb_mem \ {cb[t]}
    /\ UNCHANGED <<svcVars, lockVars, hdl_mem, parent_hdl, job_id, cb_list,
                   user_data, locals, cbpc, crashed>>

-----------------------------------------------------------------------------
(* drv_FDPM_Status: its ioctl runs under fdp_hdl_mutex.                    *)

StatusBegin(t, i, h) ==
    /\ Goto(t, "idle", "status_ioctl")
    /\ MayCall(t, "status")
    /\ fdp_hdl_mutex = Free
    /\ h \in get_handle(i)
    /\ fdp_hdl_mutex' = t
    /\ hdl' = [hdl EXCEPT ![t] = h]
    /\ UNCHANGED <<svcVars, hdl_list, seed_id, id, memVars, cb_list,
                   user_data, cb, del_hdl, rsp, cbpc, ubVars>>

StatusEnd(t) ==
    /\ Return(t, "status_ioctl")
    /\ fdp_hdl_mutex' = Free
    /\ UNCHANGED <<svcVars, hdl_list, seed_id, id, memVars, cb_list,
                   user_data, cbpc, ubVars>>

-----------------------------------------------------------------------------
(* The driver, and vspm_if_fdp_cb_func on the callback thread of h         *)

\* Only a session that ends drops jobs nobody cancelled.
DriverDrops(h) ==
    /\ ~crashed
    /\ session[h] = "quitting"
    /\ owed[h] # {}
    /\ SvcDropJobs(h, owed[h])
    /\ UNCHANGED <<lockVars, memVars, cb_list, user_data, pc, locals, cbpc,
                   ubVars>>

CallbackBegin(h, j) ==
    /\ ~crashed
    /\ SvcBeginCallback(h, j)
    /\ cbpc' = [cbpc EXCEPT ![h] = "read"]
    /\ UNCHANGED <<lockVars, memVars, cb_list, user_data, pc, locals, ubVars>>

\* The record the driver hands to the callback that executes on h.
CbInfo(h) == user_data[running[h]]

\* vspm_if_del_fdp_cb_info reads target_cb->parent_hdl before it locks ...
CallbackRead(h) ==
    /\ ~crashed
    /\ cbpc[h] = "read"
    /\ parent_hdl[CbInfo(h)] # Null
    /\ Touch(CbInfo(h), "callback_read")
    /\ del_hdl' = [del_hdl EXCEPT ![h] = parent_hdl[CbInfo(h)]]
    /\ cbpc' = [cbpc EXCEPT ![h] = "del"]
    /\ UNCHANGED <<svcVars, lockVars, memVars, cb_list, user_data, pc, hdl,
                   cb, rsp, crashed>>

\* ... and dies of the record, or of the handle it found there.
CallbackDies(h) ==
    /\ ~crashed
    /\ \/ /\ cbpc[h] = "read"
          /\ CbInfo(h) \notin Listed
          /\ Dies("callback_read")
       \/ /\ cbpc[h] = "del"
          /\ del_hdl[h] \notin hdl_mem
          /\ Dies("callback_lock")

\* Mutant of CallbackDel: the record stays on the list.
CallbackKeeps(h) ==
    /\ ~crashed
    /\ cbpc[h] = "del"
    /\ CbInfo(h) \in cb_list[del_hdl[h]]
    /\ cbpc' = [cbpc EXCEPT ![h] = "user"]
    /\ del_hdl' = [del_hdl EXCEPT ![h] = Null]
    /\ UNCHANGED <<svcVars, lockVars, memVars, cb_list, user_data, pc, hdl,
                   cb, rsp, ubVars>>

\* Mutant of CallbackDel: free(cb_info) before the call of the user.
CallbackFreesEarly(h) ==
    /\ ~crashed
    /\ cbpc[h] = "del"
    /\ CbInfo(h) \in cb_list[del_hdl[h]]
    /\ cb_list' = [cb_list EXCEPT ![del_hdl[h]] = @ \ {CbInfo(h)}]
    /\ cb_mem' = cb_mem \ {CbInfo(h)}
    /\ cbpc' = [cbpc EXCEPT ![h] = "user"]
    /\ del_hdl' = [del_hdl EXCEPT ![h] = Null]
    /\ UNCHANGED <<svcVars, lockVars, hdl_mem, parent_hdl, job_id, user_data,
                   pc, hdl, cb, rsp, ubVars>>

\* The record the callback finds on the list is that of its own request: it
\* holds the job's identifier, or Start is about to store it there.
OwnRequest(h) ==
    \/ job_id[CbInfo(h)] = running[h]
    \/ \E t \in Threads :
          pc[t] = "start_store" /\ cb[t] = CbInfo(h) /\ rsp[t] = running[h]

\* ... and disconnects the record; then the user's callback executes ...
CallbackDel(h) ==
    /\ ~crashed
    /\ cbpc[h] = "del"
    /\ CbInfo(h) \in cb_list[del_hdl[h]]
    /\ cb_list' = [cb_list EXCEPT ![del_hdl[h]] = @ \ {CbInfo(h)}]
    /\ ub' = ub \cup LockParent(h, "callback_lock")
                 \cup (IF OwnRequest(h) THEN {} ELSE {"late"})
    /\ cbpc' = [cbpc EXCEPT ![h] = "user"]
    /\ del_hdl' = [del_hdl EXCEPT ![h] = Null]
    /\ UNCHANGED <<svcVars, lockVars, memVars, user_data, pc, hdl, cb, rsp,
                   crashed>>

\* ... unless it is not on the list: "already cancel?"
CallbackCancelled(h) ==
    /\ ~crashed
    /\ cbpc[h] = "del"
    /\ CbInfo(h) \notin cb_list[del_hdl[h]]
    /\ ub' = ub \cup LockParent(h, "callback_lock")
    /\ cbpc' = [cbpc EXCEPT ![h] = "idle"]
    /\ del_hdl' = [del_hdl EXCEPT ![h] = Null]
    /\ SvcEndCallback(h)
    /\ UNCHANGED <<lockVars, memVars, cb_list, user_data, pc, hdl, cb, rsp,
                   crashed>>

\* The user's callback has returned: free(cb_info).
CallbackEnd(h) ==
    /\ ~crashed
    /\ cbpc[h] = "user"
    /\ pc[h] = "idle"
    /\ Touch(CbInfo(h), "free")
    /\ cb_mem' = cb_mem \ {CbInfo(h)}
    /\ cbpc' = [cbpc EXCEPT ![h] = "idle"]
    /\ SvcEndCallback(h)
    /\ UNCHANGED <<lockVars, hdl_mem, parent_hdl, job_id, cb_list, user_data,
                   pc, locals, crashed>>

-----------------------------------------------------------------------------

OpenStep(t) == OpenAdd(t) \/ \E h \in Handles : OpenInit(t, h)

CloseStep(t) ==
    \/ \E i \in Ids, h \in Handles : CloseDel(t, i, h)
    \/ CloseQuit(t) \/ CloseQuitRefused(t)
    \/ CloseQuitDone(t) \/ CloseQuitFails(t)
    \/ \E r \in Recs : CloseDrain(t, r)
    \/ CloseFree(t)

StartStep(t) ==
    \/ \E r \in Recs : StartMalloc(t, r)
    \/ \E i \in Ids : StartNoHandle(t, i)
    \/ \E i \in Ids, h \in Handles : StartAdd(t, i, h)
    \/ \E j \in Jobs : StartEntry(t, j)
    \/ StartRefused(t) \/ StartStore(t) \/ StartDies(t)

CancelStep(t) ==
    \/ \E i \in Ids, h \in Handles : CancelBegin(t, i, h)
    \/ CancelTest(t) \/ CancelEnd(t) \/ CancelLoad(t)
    \/ CancelRead(t) \/ CancelDies(t) \/ CancelDel(t)
    \/ CancelJob(t) \/ CancelFree(t)

StatusStep(t) ==
    \/ \E i \in Ids, h \in Handles : StatusBegin(t, i, h)
    \/ StatusEnd(t)

CallbackDisconnects(h) ==
    \/ CallbackRead(h) \/ CallbackDies(h)
    \/ CallbackDel(h) \/ CallbackCancelled(h)

CallbackStep(h) ==
    \/ \E j \in Jobs : CallbackBegin(h, j)
    \/ CallbackDisconnects(h) \/ CallbackEnd(h)

Next ==
    \/ \E t \in Apps : OpenStep(t) \/ CloseStep(t)
    \/ \E t \in Threads : StartStep(t) \/ CancelStep(t) \/ StatusStep(t)
    \/ \E h \in Handles : CallbackStep(h) \/ DriverDrops(h)

Spec == Init /\ [][Next]_vars

-----------------------------------------------------------------------------
(* Fairness.  A call that has begun goes on: a thread that waits for       *)
(* fdp_hdl_mutex gets it in the end when it is free again and again.  The  *)
(* driver reports the jobs it has, or drops them when the session ends;    *)
(* the user's callbacks return.  Nobody has to begin a call, and           *)
(* vspm_quit_driver need not fail: Close waits for the callback that       *)
(* executes until it is over.                                              *)

CloseGoesThrough(t) ==
    \/ CloseQuit(t) \/ CloseQuitDone(t)
    \/ \E r \in Recs : CloseDrain(t, r)
    \/ CloseFree(t)

Continue(t) ==
    /\ pc[t] # "idle"
    /\ \/ OpenStep(t) \/ CloseGoesThrough(t)
       \/ StartStep(t) \/ CancelStep(t) \/ StatusStep(t)

Fairness ==
    /\ \A t \in Threads : SF_vars(Continue(t))
    /\ \A h \in Handles :
          /\ \A j \in Jobs : SF_vars(CallbackBegin(h, j))
          /\ WF_vars(CallbackDisconnects(h))
          /\ SF_vars(CallbackEnd(h))
          /\ WF_vars(DriverDrops(h))

FairSpec == Spec /\ Fairness

-----------------------------------------------------------------------------
(* What the client sees: the requests of FdpmRequests.                     *)

\* The job of a listed record: none before the driver has accepted it, then
\* the identifier Start is about to store, then the one it has stored.
Starting(r) ==
    {t \in Threads : pc[t] \in {"start_entry", "start_store"} /\ cb[t] = r}

HasJob(r, j) ==
    IF Starting(r) = {} THEN job_id[r] = j
    ELSE \E t \in Starting(r) : pc[t] = "start_store" /\ rsp[t] = j

Opening(h) == \E t \in Threads : pc[t] = "open_add" /\ hdl[t] = h

HandleNow ==
    [h \in Handles |->
        IF h \in hdl_list THEN "open"
        ELSE IF h \in hdl_mem /\ ~Opening(h) THEN "closing"
        ELSE "closed"]

WaitingNow ==
    [h \in Handles |-> {q \in cb_list[h] \X Jobs : HasJob(q[1], q[2])}]

NoRequest == <<Null, NoJob>>

ReportingNow ==
    [h \in Handles |->
        IF cbpc[h] = "user" THEN <<CbInfo(h), running[h]>> ELSE NoRequest]

Requests ==
    INSTANCE FdpmRequests
        WITH handle <- HandleNow, waiting <- WaitingNow,
             reporting <- ReportingNow, MayCancel <- "cancel" \in Calls

requestVars == <<HandleNow, WaitingNow, ReportingNow>>

-----------------------------------------------------------------------------
(* Properties                                                              *)

Wrongs == {"start_store", "cancel_read", "cancel_lock", "cancel_job",
           "callback_read", "callback_lock", "close_drain", "free", "late"}

TypeOK ==
    /\ SvcTypeOK
    /\ fdp_hdl_mutex \in Threads \cup {Free}
    /\ hdl_list \subseteq hdl_mem /\ hdl_mem \subseteq Handles
    /\ seed_id \in Nat
    /\ id \in [Handles -> Nat]
    /\ cb_list \in [Handles -> SUBSET Recs]
    /\ cb_mem \subseteq Recs
    /\ parent_hdl \in [Recs -> Handles \cup {Null}]
    /\ job_id \in [Recs -> Jobs \cup {NoJob}]
    /\ user_data \in [Jobs -> Recs \cup {Null}]
    /\ pc \in [Threads -> CallPcs]
    /\ hdl \in [Threads -> Handles \cup {Null}]
    /\ cb \in [Threads -> Recs \cup {Null}]
    /\ del_hdl \in [Threads -> Handles \cup {Null}]
    /\ rsp \in [Threads -> Jobs \cup {NoJob}]
    /\ cbpc \in [Handles -> CbPcs]
    /\ ub \subseteq Wrongs
    /\ crashed \in BOOLEAN

OwningPcs == {"start_lock", "cancel_job", "cancel_free"}
ClosePcs == {"close_quit", "close_wait", "close_drain"}
LockedPcs == {"start_entry", "start_store", "cancel_test", "cancel_load",
              "cancel_read", "cancel_del", "cancel_job", "cancel_free",
              "status_ioctl"}

\* fdp_hdl_mutex is what keeps a handle and its session alive under the calls
\* that use them: whoever is inside Start, Cancel or Status holds it, and the
\* handle it found is on the list, allocated, and in a session nobody ends.
\* This is the rule vspm_api.c needs of its callers (see VspmApi).
CallsOnLiveHandle ==
    \A t \in Threads :
        pc[t] \in LockedPcs =>
            /\ fdp_hdl_mutex = t
            /\ hdl[t] \in hdl_list
            /\ session[hdl[t]] = "up"

\* No callback of a cancelled job has taken the record of another request.
NoLateCallback == "late" \notin ub

\* A handle is not freed while something still leads to it: a thread that
\* closes it, a job in the driver, its callback thread, or the parent_hdl that
\* Cancel or a callback has read from a record and is about to lock.  One
\* thing is excepted: with Cancel, the record of a late callback may be that
\* of another request by now, and its parent another handle, which Close does
\* not know to be in use.  After a callback that took such a record, Cancel
\* may meet the record on two lists.
HandleOutlivesUse ==
    /\ \A t \in Apps : pc[t] \in ClosePcs => hdl[t] \in hdl_mem
    /\ \A h \in Handles :
          owed[h] # {} \/ running[h] # NoJob => h \in hdl_mem
    /\ \A h \in Handles :
          cbpc[h] = "del" =>
              \/ del_hdl[h] \in hdl_mem
              \/ "cancel" \in Calls /\ del_hdl[h] # h
    /\ \A t \in Threads :
          pc[t] = "cancel_del" /\ NoLateCallback => del_hdl[t] \in hdl_mem

\* Every allocated record has exactly one party that will free it: the list of
\* one handle, a Start before the list, a Cancel that took it off the list or
\* the callback that did.  So no record is freed twice and none is lost, but
\* for those of a handle whose quit failed.  A late callback that takes the
\* record of another request is the one thing that breaks this.
Owners(r) ==
    {<<"list", h>> : h \in {g \in Handles : r \in cb_list[g]}}
    \cup {<<"thread", t>> : t \in
            {u \in Threads : cb[u] = r /\ pc[u] \in OwningPcs}}
    \cup {<<"callback", h>> : h \in
            {g \in Handles : cbpc[g] = "user" /\ CbInfo(g) = r}}

RecordsOwned ==
    NoLateCallback =>
        \A r \in Recs :
            IF r \in cb_mem THEN \E o \in Owners(r) : Owners(r) = {o}
            ELSE Owners(r) = {}

\* The only use of freed memory is that Start stores the job identifier, and no
\* callback takes the record of another request.
OnlyStoreAfterFree == ub \subseteq {"start_store"}

\* The user's callback of a request is given the result of that request: no
\* other job of the driver is still to report for the same record.
ResultBelongsToRequest ==
    \A h \in Handles, j \in Known :
        cbpc[h] = "user" /\ user_data[j] = CbInfo(h) => j = running[h]

\* vspm_cancel_job in Cancel names the job of the record it took off the
\* list, or a job that is over: never a job of another record, on any handle
\* (the driver may know jobs of all of them), as long as records have one
\* owner each.
CancelHitsOwnJob ==
    NoLateCallback =>
        \A t \in Threads, h \in Handles :
            pc[t] = "cancel_job" =>
                \A j \in owed[h] : job_id[cb[t]] = j => user_data[j] = cb[t]

\* Cancel dereferences the head of a list it has just found not empty: the
\* body of "while (hdl->cb_list != NULL)" has a record to work on.
CancelHasRecord ==
    \A t \in Threads : pc[t] = "cancel_read" => cb[t] # Null

\* Until a late callback, the records, lists and locks of this module keep the
\* promise of FdpmRequests: each request is reported at most once and with the
\* result of its own job, none is dropped on an open handle but by Cancel, and
\* Close returns when nothing is left of those of its handle.
RequestsKept ==
    Requests!Init /\ [][NoLateCallback' => Requests!Next]_requestVars

\* Every call returns, also when a callback that must end for the call to go
\* on calls the library itself and needs fdp_hdl_mutex.  A record that a late
\* callback leaves on two lists is excepted: Cancel, which removes it from the
\* list of its parent, would find it on the other one for ever.
EveryCallReturns ==
    \A t \in Threads :
        pc[t] # "idle" ~> pc[t] = "idle" \/ crashed \/ ~NoLateCallback

\* A record does not stay on its list: it is reported, taken back, refused or
\* released, unless quitting its session failed half way, or a late callback
\* has freed a record that is on a list.
EveryRequestSettled ==
    \A h \in Handles, r \in Recs :
        r \in cb_list[h] ~>
            \/ r \notin cb_list[h]
            \/ session[h] = "failed" \/ crashed \/ ~NoLateCallback
=============================================================================
