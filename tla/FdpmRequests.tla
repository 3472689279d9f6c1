---------------------------- MODULE FdpmRequests ----------------------------
(***************************************************************************)
(* What drv_FDPM_Open, Start, Cancel and Close (vspm_public.h, lines       *)
(* 555-582) promise a client about its requests.  A request is a pair: the *)
(* record with the client's function and user data, and the job of the     *)
(* driver whose result it is to get.  A request is accepted once, on an    *)
(* open handle, and then reported at most once, with the result of its own *)
(* job, or withdrawn: by Close, or by Cancel if clients use it.  The       *)
(* reports of a handle come one at a time, and when it is closed nothing   *)
(* is left of its requests.                                                *)
(***************************************************************************)
CONSTANTS
    Handles, Recs, Jobs,
    NoRequest,    \* "no callback of the user executes"
    MayCancel     \* clients use drv_FDPM_Cancel

VARIABLES
    handle,       \* handle[h]: "closed", "open" or "closing"
    waiting,      \* waiting[h]: requests that may still be reported
    reporting     \* reporting[h]: the request the user's callback is for

vars == <<handle, waiting, reporting>>

Init ==
    /\ handle = [h \in Handles |-> "closed"]
    /\ waiting = [h \in Handles |-> {}]
    /\ reporting = [h \in Handles |-> NoRequest]

\* drv_FDPM_Open has put the handle on the list.
Open(h) ==
    /\ handle[h] = "closed"
    /\ handle' = [handle EXCEPT ![h] = "open"]
    /\ UNCHANGED <<waiting, reporting>>

\* drv_FDPM_Close has taken it off: no further request is accepted ...
Close(h) ==
    /\ handle[h] = "open"
    /\ handle' = [handle EXCEPT ![h] = "closing"]
    /\ UNCHANGED <<waiting, reporting>>

\* ... and Close returns R_FDPM_OK only when all that were are settled.
Closed(h) ==
    /\ handle[h] = "closing"
    /\ waiting[h] = {}
    /\ reporting[h] = NoRequest
    /\ handle' = [handle EXCEPT ![h] = "closed"]
    /\ UNCHANGED <<waiting, reporting>>

\* Neither the record nor the job of q belongs to another request, but that
\* the driver may reuse the job of a request that a Close will withdraw.
New(q) ==
    \A g \in Handles :
        /\ \A p \in waiting[g] :
              p[1] # q[1] /\ (handle[g] = "open" => p[2] # q[2])
        /\ reporting[g] # NoRequest =>
              reporting[g][1] # q[1] /\ reporting[g][2] # q[2]

\* The driver has taken the job of a drv_FDPM_Start.
Accept(h, q) ==
    /\ handle[h] = "open"
    /\ New(q)
    /\ waiting' = [waiting EXCEPT ![h] = @ \cup {q}]
    /\ UNCHANGED <<handle, reporting>>

\* The request will not be reported: its handle is being closed, or a Cancel
\* has found it.
Withdraw(h, q) ==
    /\ q \in waiting[h]
    /\ handle[h] = "closing" \/ MayCancel
    /\ waiting' = [waiting EXCEPT ![h] = @ \ {q}]
    /\ UNCHANGED <<handle, reporting>>

\* The user's callback is called for the request, with the result of its job
Report(h, q) ==
    /\ q \in waiting[h]
    /\ reporting[h] = NoRequest
    /\ waiting' = [waiting EXCEPT ![h] = @ \ {q}]
    /\ reporting' = [reporting EXCEPT ![h] = q]
    /\ UNCHANGED handle

\* ... and returns.
Return(h) ==
    /\ reporting[h] # NoRequest
    /\ reporting' = [reporting EXCEPT ![h] = NoRequest]
    /\ UNCHANGED <<handle, waiting>>

Next ==
    \E h \in Handles :
        \/ Open(h) \/ Close(h) \/ Closed(h)
        \/ \E q \in Recs \X Jobs :
              Accept(h, q) \/ Withdraw(h, q) \/ Report(h, q)
        \/ Return(h)

Spec == Init /\ [][Next]_vars
=============================================================================
