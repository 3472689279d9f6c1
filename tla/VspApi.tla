------------------------------ MODULE VspApi -------------------------------
(***************************************************************************)
(* vspm_api_vsp.c: VSPM_lib_DriverInitialize, DriverQuit, Entry and        *)
(* Cancel, and the callback vspm_if_vsp_cb_func, over VspmService.         *)
(*                                                                         *)
(* The legacy API has no list of handles and no lock for them: the client  *)
(* holds a pointer (open) and must not use it from the call of DriverQuit  *)
(* on, nor call DriverQuit while another of its calls on the handle is in  *)
(* progress.  The model's clients keep that rule.  They may call Entry and *)
(* Cancel from the user's callback; the callback thread of h is named h.   *)
(*                                                                         *)
(* Records are addresses, as in FdpmApi: free makes the address available  *)
(* to the next malloc, and the use of a freed record or handle is noted in *)
(* ub, after which the process dies or goes on with what memory held.      *)
(*                                                                         *)
(* Left out: argument checks, failures that change nothing, the conversion *)
(* of the parameters, and the reuse of the address of a freed handle.      *)
(***************************************************************************)
EXTENDS VspmService

CONSTANTS
    Apps,      \* application threads
    Recs,      \* addresses of struct vspm_if_vsp_cb_t
    Null       \* the null pointer, of either type

ASSUME VspAssumption ==
    /\ Apps \cap Handles = {}
    /\ Null \notin Recs \cup Handles

Threads == Apps \cup Handles

VARIABLES
    open,            \* handles the client may use
    hdl_mem,         \* handles that are allocated
    cb_list,         \* cb_list[h]: records on hdl->cb_list
    cb_mem,          \* records that are allocated
    parent_hdl,      \* parent_hdl[r], as the memory of r holds it
    user_data,       \* user_data[j]: the record the driver got with job j
    pc, hdl,         \* per thread: where it is, its local hdl,
    cb, next_cb,     \* and its locals cb (cb_info) and next_cb
    cbpc, cb_hdl,    \* the same for vspm_if_vsp_cb_func on thread h
    ub, crashed      \* handles whose records or memory were used after free

memVars == <<hdl_mem, cb_mem, parent_hdl>>
locals == <<hdl, cb, next_cb>>
cbVars == <<cbpc, cb_hdl>>
ubVars == <<ub, crashed>>
vars == <<svcVars, open, memVars, cb_list, user_data, pc, locals, cbVars,
          ubVars>>

CallPcs == {"idle", "entry_job", "quit_wait", "quit_walk", "quit_del"}
CbPcs == {"idle", "read", "del", "user"}

Init ==
    /\ SvcInit
    /\ open = {} /\ hdl_mem = {} /\ cb_mem = {}
    /\ cb_list = [h \in Handles |-> {}]
    /\ parent_hdl = [r \in Recs |-> Null]
    /\ user_data = [j \in Jobs |-> Null]
    /\ pc = [t \in Threads |-> "idle"]
    /\ hdl = [t \in Threads |-> Null]
    /\ cb = [t \in Threads |-> Null]
    /\ next_cb = [t \in Threads |-> Null]
    /\ cbpc = [h \in Handles |-> "idle"]
    /\ cb_hdl = [h \in Handles |-> Null]
    /\ ub = {} /\ crashed = FALSE

Goto(t, from, to) ==
    /\ ~crashed
    /\ pc[t] = from
    /\ pc' = [pc EXCEPT ![t] = to]

Return(t, from) ==
    /\ Goto(t, from, "idle")
    /\ hdl' = [hdl EXCEPT ![t] = Null]
    /\ cb' = [cb EXCEPT ![t] = Null]
    /\ next_cb' = [next_cb EXCEPT ![t] = Null]

\* An application thread may begin a call at any time, a callback thread while
\* the user's callback executes.
MayCall(t) == t \in Handles => cbpc[t] = "user"

\* Something is used on behalf of handle h; ok says whether it is allocated.
Use(ok, h) == ub' = IF ok THEN ub ELSE ub \cup {h}

-----------------------------------------------------------------------------
(* VSPM_lib_DriverInitialize                                               *)

\* Mutant of DriverInitialize: the test before free(hdl) is turned round.
InitFreesHandle(h) ==
    /\ ~crashed
    /\ h \notin hdl_mem
    /\ cb_list' = [cb_list EXCEPT ![h] = {}]
    /\ SvcInitDriver(h)
    /\ open' = open \cup {h}
    /\ UNCHANGED <<hdl_mem, cb_mem, parent_hdl, user_data, pc, locals, cbVars,
                   ubVars>>

DriverInitialize(h) ==
    /\ ~crashed
    /\ h \notin hdl_mem
    /\ hdl_mem' = hdl_mem \cup {h}
    /\ cb_list' = [cb_list EXCEPT ![h] = {}]
    /\ SvcInitDriver(h)
    /\ open' = open \cup {h}
    /\ UNCHANGED <<cb_mem, parent_hdl, user_data, pc, locals, cbVars, ubVars>>

-----------------------------------------------------------------------------
(* VSPM_lib_Entry and VSPM_lib_Cancel                                      *)

\* malloc, the parameters, and vspm_if_add_vsp_cb_info.
EntryAdd(t, h, r) ==
    /\ Goto(t, "idle", "entry_job")
    /\ MayCall(t)
    /\ h \in open
    /\ r \notin cb_mem
    /\ cb_mem' = cb_mem \cup {r}
    /\ parent_hdl' = [parent_hdl EXCEPT ![r] = h]
    /\ cb_list' = [cb_list EXCEPT ![h] = @ \cup {r}]
    /\ hdl' = [hdl EXCEPT ![t] = h]
    /\ cb' = [cb EXCEPT ![t] = r]
    /\ UNCHANGED <<svcVars, open, hdl_mem, user_data, next_cb, cbVars,
                   ubVars>>

\* Mutant of EntryAccepted: the record of an accepted job is released.
EntryAcceptedFrees(t, j) ==
    /\ Return(t, "entry_job")
    /\ SvcEntryJob(hdl[t], j)
    /\ user_data' = [user_data EXCEPT ![j] = cb[t]]
    /\ cb_mem' = cb_mem \ {cb[t]}
    /\ UNCHANGED <<open, hdl_mem, parent_hdl, cb_list, cbVars, ubVars>>

\* vspm_entry_job: the driver accepts; *puwJobId is the client's memory.
EntryAccepted(t, j) ==
    /\ Return(t, "entry_job")
    /\ SvcEntryJob(hdl[t], j)
    /\ user_data' = [user_data EXCEPT ![j] = cb[t]]
    /\ UNCHANGED <<open, memVars, cb_list, cbVars, ubVars>>

\* Mutant of EntryRefused: the record stays on the list.
EntryRefusedKeeps(t) ==
    /\ Return(t, "entry_job")
    /\ Use(cb[t] \in cb_mem, hdl[t])
    /\ cb_mem' = cb_mem \ {cb[t]}
    /\ UNCHANGED <<svcVars, open, hdl_mem, parent_hdl, cb_list, user_data,
                   cbVars, crashed>>

\* The driver refuses: vspm_if_del_vsp_cb_info, vspm_if_release_memory.
EntryRefused(t) ==
    /\ Return(t, "entry_job")
    /\ cb_list' = [cb_list EXCEPT ![hdl[t]] = @ \ {cb[t]}]
    /\ Use(cb[t] \in cb_mem, hdl[t])
    /\ cb_mem' = cb_mem \ {cb[t]}
    /\ UNCHANGED <<svcVars, open, hdl_mem, parent_hdl, user_data, cbVars,
                   crashed>>

\* vspm_cancel_job is passed on.  A driver that drops the job without a report
\* leaves its record on the list; one that refuses, or reports the cancelled
\* job, changes nothing here.
Cancel(t, h, j) ==
    /\ ~crashed
    /\ pc[t] = "idle"
    /\ MayCall(t)
    /\ h \in open
    /\ j \in owed[h]
    /\ SvcDropJobs(h, {j})
    /\ UNCHANGED <<open, memVars, cb_list, user_data, pc, locals, cbVars,
                   ubVars>>

-----------------------------------------------------------------------------
(* VSPM_lib_DriverQuit                                                     *)

\* The client gives the handle up.
Leave(t, h) ==
    /\ t \in Apps
    /\ h \in open
    /\ \A u \in Threads : hdl[u] # h
    /\ open' = open \ {h}
    /\ hdl' = [hdl EXCEPT ![t] = h]

\* vspm_quit_driver gets past its first ioctl ...
QuitBegin(t, h) ==
    /\ Goto(t, "idle", "quit_wait")
    /\ Leave(t, h)
    /\ \E D \in SUBSET owed[h] : SvcStartQuit(h, D)
    /\ UNCHANGED <<memVars, cb_list, user_data, cb, next_cb, cbVars, ubVars>>

\* cb = hdl->cb_list, for the walk that releases the records.
WalkFrom(t, h) ==
    \E r \in IF cb_list[h] = {} THEN {Null} ELSE cb_list[h] :
        cb' = [cb EXCEPT ![t] = r]

\* ... or answers R_VSPM_NG at once.
QuitRefused(t, h) ==
    /\ Goto(t, "idle", "quit_walk")
    /\ Leave(t, h)
    /\ WalkFrom(t, h)
    /\ UNCHANGED <<svcVars, memVars, cb_list, user_data, next_cb, cbVars,
                   ubVars>>

\* R_VSPM_OK is not R_VSPM_NG: DriverQuit returns it and releases nothing.
QuitDone(t) ==
    /\ Return(t, "quit_wait")
    /\ SvcQuitDone(hdl[t])
    /\ UNCHANGED <<open, memVars, cb_list, user_data, cbVars, ubVars>>

\* R_VSPM_NG, in the middle of vspm_quit_driver, leads to the release.
QuitFails(t) ==
    /\ Goto(t, "quit_wait", "quit_walk")
    /\ \E D \in SUBSET owed[hdl[t]] : SvcQuitFails(hdl[t], D)
    /\ WalkFrom(t, hdl[t])
    /\ UNCHANGED <<open, memVars, cb_list, user_data, hdl, next_cb, cbVars,
                   ubVars>>

\* The records that may follow r on the list of h; a freed r may hold anything.
Successors(h, r) ==
    IF r \notin cb_mem THEN Recs \cup {Null}
    ELSE IF cb_list[h] \subseteq {r} THEN {Null}
    ELSE cb_list[h] \ {r}

\* next_cb = cb->next, read without hdl->mutex.
QuitWalk(t) ==
    /\ Goto(t, "quit_walk", "quit_del")
    /\ cb[t] # Null
    /\ Use(cb[t] \in cb_mem, hdl[t])
    /\ \E r \in Successors(hdl[t], cb[t]) :
          next_cb' = [next_cb EXCEPT ![t] = r]
    /\ UNCHANGED <<svcVars, open, memVars, cb_list, user_data, hdl, cb, cbVars,
                   crashed>>

\* vspm_if_del_vsp_cb_info, and vspm_if_release_memory when it was listed.
QuitDel(t) ==
    /\ Goto(t, "quit_del", "quit_walk")
    /\ Use(cb[t] \in cb_mem, hdl[t])
    /\ \/ /\ cb[t] \in cb_list[hdl[t]]
          /\ cb_list' = [cb_list EXCEPT ![hdl[t]] = @ \ {cb[t]}]
          /\ cb_mem' = cb_mem \ {cb[t]}
       \/ /\ cb[t] \notin cb_list[hdl[t]]
          /\ UNCHANGED <<cb_list, cb_mem>>
    /\ cb' = [cb EXCEPT ![t] = next_cb[t]]
    /\ UNCHANGED <<svcVars, open, hdl_mem, parent_hdl, user_data, hdl, next_cb,
                   cbVars, crashed>>

\* free(hdl)
QuitFree(t) ==
    /\ Return(t, "quit_walk")
    /\ cb[t] = Null
    /\ hdl_mem' = hdl_mem \ {hdl[t]}
    /\ UNCHANGED <<svcVars, open, cb_mem, parent_hdl, cb_list, user_data,
                   cbVars, ubVars>>

-----------------------------------------------------------------------------
(* The driver, and vspm_if_vsp_cb_func on the callback thread of h         *)

DriverDrops(h) ==
    /\ ~crashed
    /\ session[h] = "quitting"
    /\ owed[h] # {}
    /\ SvcDropJobs(h, owed[h])
    /\ UNCHANGED <<open, memVars, cb_list, user_data, pc, locals, cbVars,
                   ubVars>>

CallbackBegin(h, j) ==
    /\ ~crashed
    /\ SvcBeginCallback(h, j)
    /\ cbpc' = [cbpc EXCEPT ![h] = "read"]
    /\ UNCHANGED <<open, memVars, cb_list, user_data, pc, locals, cb_hdl,
                   ubVars>>

\* The record the driver hands to the callback that executes on h.
CbInfo(h) == user_data[running[h]]

\* vspm_if_del_vsp_cb_info reads target_cb->parent_hdl before it locks ...
CallbackRead(h) ==
    /\ ~crashed
    /\ cbpc[h] = "read"
    /\ Use(CbInfo(h) \in cb_mem, h)
    /\ cb_hdl' = [cb_hdl EXCEPT ![h] = parent_hdl[CbInfo(h)]]
    /\ cbpc' = [cbpc EXCEPT ![h] = "del"]
    /\ UNCHANGED <<svcVars, open, memVars, cb_list, user_data, pc, locals,
                   crashed>>

\* Mutant of CallbackDel: the memory is released before the user's callback.
CallbackFreesEarly(h) ==
    /\ ~crashed
    /\ cbpc[h] = "del"
    /\ Use(cb_hdl[h] \in hdl_mem, h)
    /\ CbInfo(h) \in cb_list[cb_hdl[h]]
    /\ cb_list' = [cb_list EXCEPT ![cb_hdl[h]] = @ \ {CbInfo(h)}]
    /\ cbpc' = [cbpc EXCEPT ![h] = "user"]
    /\ cb_hdl' = [cb_hdl EXCEPT ![h] = Null]
    /\ cb_mem' = cb_mem \ {CbInfo(h)}
    /\ UNCHANGED <<svcVars, open, hdl_mem, parent_hdl, user_data, pc, locals,
                   crashed>>

\* ... and disconnects the record; the histogram is copied and the user's
\* callback executes ...
CallbackDel(h) ==
    /\ ~crashed
    /\ cbpc[h] = "del"
    /\ Use(cb_hdl[h] \in hdl_mem, h)
    /\ CbInfo(h) \in cb_list[cb_hdl[h]]
    /\ cb_list' = [cb_list EXCEPT ![cb_hdl[h]] = @ \ {CbInfo(h)}]
    /\ cbpc' = [cbpc EXCEPT ![h] = "user"]
    /\ cb_hdl' = [cb_hdl EXCEPT ![h] = Null]
    /\ UNCHANGED <<svcVars, open, memVars, user_data, pc, locals, crashed>>

\* ... unless it is not on the list: "already cancel?"
CallbackCancelled(h) ==
    /\ ~crashed
    /\ cbpc[h] = "del"
    /\ Use(cb_hdl[h] \in hdl_mem, h)
    /\ CbInfo(h) \notin cb_list[cb_hdl[h]]
    /\ cbpc' = [cbpc EXCEPT ![h] = "idle"]
    /\ cb_hdl' = [cb_hdl EXCEPT ![h] = Null]
    /\ SvcEndCallback(h)
    /\ UNCHANGED <<open, memVars, cb_list, user_data, pc, locals, crashed>>

\* The user's callback has returned: vspm_if_release_memory.
CallbackEnd(h) ==
    /\ ~crashed
    /\ cbpc[h] = "user"
    /\ pc[h] = "idle"
    /\ Use(CbInfo(h) \in cb_mem, h)
    /\ cb_mem' = cb_mem \ {CbInfo(h)}
    /\ cbpc' = [cbpc EXCEPT ![h] = "idle"]
    /\ SvcEndCallback(h)
    /\ UNCHANGED <<open, hdl_mem, parent_hdl, cb_list, user_data, pc, locals,
                   cb_hdl, crashed>>

\* A process that has used freed memory may die of it at any time.
Dies ==
    /\ ub # {} /\ ~crashed
    /\ crashed' = TRUE
    /\ UNCHANGED <<svcVars, open, memVars, cb_list, user_data, pc, locals,
                   cbVars, ub>>

-----------------------------------------------------------------------------

EntryStep(t) ==
    \/ \E h \in Handles, r \in Recs : EntryAdd(t, h, r)
    \/ \E j \in Jobs : EntryAccepted(t, j)
    \/ EntryRefused(t)

QuitStep(t) ==
    \/ \E h \in Handles : QuitBegin(t, h) \/ QuitRefused(t, h)
    \/ QuitDone(t) \/ QuitFails(t)
    \/ QuitWalk(t) \/ QuitDel(t) \/ QuitFree(t)

CallbackStep(h) ==
    \/ \E j \in Jobs : CallbackBegin(h, j)
    \/ CallbackRead(h) \/ CallbackDel(h) \/ CallbackCancelled(h)
    \/ CallbackEnd(h)

Next ==
    \/ \E h \in Handles :
          DriverInitialize(h) \/ CallbackStep(h) \/ DriverDrops(h)
    \/ \E t \in Threads :
          \/ EntryStep(t) \/ QuitStep(t)
          \/ \E h \in Handles, j \in Jobs : Cancel(t, h, j)
    \/ Dies

Spec == Init /\ [][Next]_vars

-----------------------------------------------------------------------------
(* Properties                                                              *)

TypeOK ==
    /\ SvcTypeOK
    /\ open \subseteq hdl_mem /\ hdl_mem \subseteq Handles
    /\ cb_list \in [Handles -> SUBSET Recs]
    /\ cb_mem \subseteq Recs
    /\ parent_hdl \in [Recs -> Handles \cup {Null}]
    /\ user_data \in [Jobs -> Recs \cup {Null}]
    /\ pc \in [Threads -> CallPcs]
    /\ hdl \in [Threads -> Handles \cup {Null}]
    /\ cb \in [Threads -> Recs \cup {Null}]
    /\ next_cb \in [Threads -> Recs \cup {Null}]
    /\ cbpc \in [Handles -> CbPcs]
    /\ cb_hdl \in [Handles -> Handles \cup {Null}]
    /\ ub \subseteq Handles /\ crashed \in BOOLEAN

\* vspm_quit_driver answered R_VSPM_NG for this handle: its session goes on,
\* but the release has begun.
QuitFailed(h) ==
    /\ h \notin open
    /\ \/ session[h] \in {"up", "failed"}
       \/ h \notin hdl_mem /\ session[h] # "down"

\* As long as no quit has failed, every allocated record has one owner, its
\* list or the callback, a freed one has none; and the job of a record that the
\* driver will report finds it on the list of its own handle.
Owners(r) ==
    {<<"list", h>> : h \in {g \in Handles : r \in cb_list[g]}}
    \cup {<<"callback", h>> : h \in
            {g \in Handles : cbpc[g] = "user" /\ CbInfo(g) = r}}

RecordsOwned ==
    (\A h \in Handles : ~QuitFailed(h)) =>
        /\ \A r \in Recs :
              IF r \in cb_mem THEN \E o \in Owners(r) : Owners(r) = {o}
              ELSE Owners(r) = {}
        /\ \A h \in Handles : \A j \in owed[h] : user_data[j] \in cb_list[h]

\* As long as no quit has failed, no freed memory is used: the two threads that
\* can hold a record, Entry's and the callback's, never meet.
NoUseAfterFree ==
    ub # {} => \E h \in Handles : QuitFailed(h)

\* As long as no quit has failed, the user's callback of a request is given the
\* result of that request.
ResultBelongsToRequest ==
    (\A h \in Handles : ~QuitFailed(h)) =>
        \A h \in Handles, j \in Known :
            cbpc[h] = "user" /\ user_data[j] = CbInfo(h) => j = running[h]

\* When DriverQuit has ended a session it has released its handle ("release
\* memory").
QuitReleases ==
    \A h \in Handles :
        session[h] = "down" => h \notin hdl_mem \/ \E t \in Apps : hdl[t] = h
=============================================================================
