# Verification of vspm_if_lib

TLA+ models, model-checking runs and machine-checked proofs for the user-space
client library of the Renesas VSP manager (`src/vspm_if-module`) and
for its test and sample programs (`src/vspm_if-tp-user`). Paths below are short for

- `vspm_api.c`, `vspm_api_fdp.c`, `vspm_api_vsp.c`:
  `src/vspm_if-module/files/vspm_if/if/`
- `vspm_public.h`, `fdpm_api.h`: `src/vspm_if-module/files/vspm_if/include/`
- `fdpm_tp.c`, `vspm_tp_*.c`: `src/vspm_if-tp-user/files/vspm_if/`

## 1. The system

```
 application threads                      callback thread (one per handle)
   |            |                                     ^
   | drv_FDPM_* | VSPM_lib_*          user callback   |
   v            v                                     |
 vspm_api_fdp.c vspm_api_vsp.c  <-- vspm_if_fdp_cb_func / vspm_if_vsp_cb_func
        |          |                                  ^
        v          v                                  | cb_info.cb_func
      vspm_api.c  (vspm_init_driver ... vspm_get_status, vspm_cb_thread)
        |  ioctl INIT, WAIT_THREAD, ENTRY, CANCEL, QUIT, STOP_THREAD  ^
        v                                       ioctl WAIT_INTERRUPT  |
      kernel driver /dev/vspm_if  (not in this repository)
```

| component | state | operations | what is hard | correct when |
|---|---|---|---|---|
| Client library, `vspm_api.c` | per handle: memory, descriptor, thread | init, quit, entry, cancel, status; the loop of the callback thread | the thread uses the handle that quit frees; every system call of init and quit may fail; `*job_id` is stored after the driver has the job | nothing is used after it is released, nothing leaks, each job is reported at most once, never outside a session |
| FDP API, `vspm_api_fdp.c` | global `hdl_list`, `seed_id` under `fdp_hdl_mutex`; per handle `cb_list` under `hdl->mutex`; callback records on the heap | Open, Close, Start, Cancel, Status, the callback | Start, Cancel, Close and the callback all free records, under two locks that do not exclude each other | every record has one owner, a callback reports its own request, calls return |
| FDP parameters, `vspm_api_fdp.c:167-295`, `:388-397` | the parts of one record; the still mask of one handle | conversion of `T_FDP_START`; Open and Close | null sub-structures in memory that held another request; odd widths; a Close that fails | the driver finds exactly the parts the client passed; the masks cover the picture as long as the session lasts |
| VSP legacy API, `vspm_api_vsp.c:74-121, 729-949` | per handle `cb_list`, records with buffers | DriverInitialize, DriverQuit, Entry, Cancel, the callback | the result of `vspm_quit_driver` decides about the release; no global lock | as for the FDP API |
| VSP parameters, `vspm_api_vsp.c:124-765` | parts and buffers of one record | sources, destination, modules; LUT, CLU, CLUT, histogram buffers; release | allocation fails half way; table sizes; colour key and colour conversion share a unit | what was allocated is released once; sizes match tables; the driver finds the parts of the request |
| Scaling ratio, `vspm_api_vsp.c:952-983` | none | `VSPM_lib_PVioUdsGetRatio` | 16-bit arithmetic at the limits | ratio in 0x100..0xFFFF or an error |
| Test and sample programs | buffers, `cb_info` with mutex and condition, a semaphore | allocate, init, enter jobs, wait for each callback, quit, release | callback before the wait; a wait that ends early; error exits | the wait ends, callback and driver find their memory, exits release what there is and close the session |
| Kernel driver, mmngr | jobs, buffers | ioctls | external | assumed, see section 3 |

`PROJECT.json` lists the hazards one by one, each at its line, with the
properties that cover it or the reason why none does.

## 2. Modules

| module | what it is |
|---|---|
| `VspmService` | abstract service: what the five `vspm_` calls of `vspm_public.h` promise |
| `VspmApi` | `vspm_api.c` and the driver; implements `VspmService` |
| `VspmApiProofs` | inductive invariant, safety theorems and the refinement theorem of `VspmApi` |
| `FdpmRequests` | what `drv_FDPM_Open`, `Start`, `Cancel` and `Close` promise a client about its requests |
| `FdpmApi` | `vspm_api_fdp.c` on top of the actions of `VspmService`; implements `FdpmRequests` until a late callback |
| `VspApi` | the legacy API of `vspm_api_vsp.c` on top of the actions of `VspmService` |
| `TpClient` | the four programs of `vspm_if-tp-user` on top of the actions of `VspmService` |
| `VspParam` | the buffers of one record of the legacy API: conversion, histograms, release |
| `JobLinks` | the parts of one record of either API: what is filled, what the driver finds |
| `FdpMask` | the still mask of one FDP handle |
| `UdsRatio` | `VSPM_lib_PVioUdsGetRatio` |
| `VspApiProofs` | who frees a record of the legacy API, for all clients |
| `TpClientProofs` | callback block, semaphore, session, memory and images of `TpClient` |
| `VspParamProofs` | buffers and numbers of `VspParam`, for all sizes and widths |
| `ParamProofs` | `JobLinks`, `FdpMask` and `UdsRatio`, for all requests and sizes |
| `FdpmApiProofs` | locks, handles and sessions of `FdpmApi`, for all clients |
| `FdpmOwnershipProofs` | who frees a callback record of `FdpmApi`, for all clients |
| `FdpmResultProofs` | what clients of the FDP API can rely on: the refinement of `FdpmRequests`, and more without `drv_FDPM_Cancel` |
| `MCVspmApi`, `MCFdpmApi`, `MCVspApi`, `MCTpClient` | instances for TLC |
| `MCParams` | one instance for `VspParam`, `JobLinks`, `FdpMask` and `UdsRatio`, which share no state: a behaviour is one of any one of them |

`VspmApi => VspmService`, and `FdpmApi`, `VspApi` and `TpClient` over
`VspmService`, split the stack in two: the upper layers are not checked against
one particular driver and thread but against the service, and `vspm_api.c` is
shown to provide that service. The composition is sound because the upper
modules change `session`, `owed` and `running` only by the `Svc...` actions:
each of them has the theorem `ServiceUse`, `Spec => SvcSpec`. What
`vspm_api.c` asks of its callers in return is `CallSafety` of `FdpmApiProofs`
and `VspApiProofs` and `ProtocolSafety` of `TpClientProofs`. One level up,
`FdpmApi => FdpmRequests` is what a client of the FDP API sees.

### VspmService

`session[h]` is what the client may do (`down`, `up`, `quitting`, `failed`),
`owed[h]` the accepted jobs that are neither reported nor dropped, `running[h]`
the job whose callback executes. The promise: a job is reported at most once,
callbacks of one handle run one at a time, and when `vspm_quit_driver` has
returned `R_VSPM_OK` nothing is owed and no callback runs.

### VspmApi

`call[h]` is the program counter of the thread inside init or quit; its values
carry the names of the code's labels (`err_exit4` ...). `mem`, `fd` and `thr`
are the three resources of `struct vspm_handle`. `thr[h]` is where
`vspm_cb_thread` is: before the ioctl (`wait`), in it (`blocked`), in the
user's callback (`call`), out of the loop (`exited`), or not there or joined
(`none`). `queued`, `done` and `stop` belong to the driver. `entering[h]` are
jobs whose `*job_id` is not stored yet; the callback may run while a job is in
it. Each system call is a step with its failure as an action of its own
(`OpenDevice`/`OpenFails` ...). `call[h] = "stuck"` is a quit that failed half
way; the client may call it again while the descriptor is open.

A client enters and cancels jobs only between a successful init and quit, and
does not overlap entry and quit on a handle: `vspm_api.c` has no lock, so this
is its precondition. For each layer above it is a theorem
(`FdpmApiProofs!CallSafety`, `VspApiProofs!CallSafety`,
`TpClientProofs!ProtocolSafety`).

### FdpmRequests

A request is a pair: the record with the client's function and user data, and
the job whose result it is to get. It is accepted on an open handle (`Accept`),
waits, and is then reported (`Report`, `Return`) or withdrawn (`Withdraw`), once
and not both. On an open handle only a Cancel withdraws requests. `Close` ends
the acceptance; `Closed`, which is the `R_FDPM_OK` of `drv_FDPM_Close`, needs
that nothing of the handle waits or is being reported.

`FdpmApi` maps `cb_list` and the identifiers of the jobs of its records to the
waiting requests (`WaitingNow`, `HasJob`), the callback that executes the user's
function to the report (`ReportingNow`), and `hdl_list` and the allocated
handles to `HandleNow`. The interesting part is `HasJob`: while Start has not
stored the identifier yet, the job of a record is the one Start knows, not the
one in its memory. A late callback (finding 2) reports a pair that does not
wait, the record of one request with the job of another. So `RequestsKept` says
that every step, up to such a callback, is one of `FdpmRequests` or leaves the
client's view alone.

### FdpmApi

Application threads (`Apps`) call the five functions at any time with any id
that was given out; the callback thread of handle `h` is the thread `h`, and it
calls Start, Cancel and Status from inside the user's callback. Close from a
callback is not modelled here: it makes `pthread_join` fail with `EDEADLK`,
which is `JoinThreadFails` in `VspmApi` and `CloseQuitFails` here.

- `pc[t]` and the locals `hdl`, `cb`, `del_hdl`, `rsp` say where a thread is.
  `fdp_hdl_mutex` is held over several steps; a section under `hdl->mutex` is
  one step.
- Records are addresses in `Recs`. `cb_mem` is what is allocated; `free` makes
  the address available to the next `malloc`, and the memory keeps what it held
  (`parent_hdl`, `job_id`). Touching a freed record is undefined behaviour: the
  place is added to `ub`, and the process dies (`...Dies`) or goes on with what
  the memory holds. `ub` also gets `late` when a callback takes a record off the
  list that is not its own request's; `NoLateCallback` says that this has not
  happened, and `RecordsOwned` and `CancelHitsOwnJob` are stated until then.
- The handle such a record leads to may be freed as well: `hdl->mutex` is then
  locked in freed memory (`LockParent`, places `cancel_lock` and
  `callback_lock`). It takes two handles: the record of a cancelled job is
  allocated again for a request of the second handle, the late callback reads
  its `parent_hdl`, and the second handle is closed before the lock.
  `HandleOutlivesUse` names this exception, for a callback that leads to
  another handle than its own, and for Cancel after a late callback.
- `vspm_if_del_fdp_cb_info` is two steps, because it reads
  `target_cb->parent_hdl` before it locks: `CancelRead`/`CancelDel` and
  `CallbackRead`/`CallbackDel`. The loop of Cancel reads `hdl->cb_list` twice
  without `hdl->mutex`: `CancelTest` and `CancelLoad`.
- `StartEntry` and `StartStore` are two steps: the driver has the job before
  `*job_id` is stored, and the callback may run in between.
- A list is a set of records: its order decides nothing but which head Cancel
  and Close take first, and they may take any.

Left out: argument checks that return at once, a failing `malloc` (nothing is
changed), failures of Open (which give back all they took), user functions that
only inform, the still mask buffer (see FdpMask), and the parameters (see
JobLinks).

### VspApi

The legacy API has no list of handles and no lock for them: a handle is a
pointer in the client's hands (`open`). The clients of the model follow the
only rule under which such an API can be used: they do not use a handle from
the call of `DriverQuit` on, and do not call `DriverQuit` while another of
their calls on it (in a callback, too) is in progress. Records and memory are
as in `FdpmApi`; `ub` holds the handles on whose behalf freed memory was used.

`DriverQuit` is `QuitBegin` or `QuitRefused` (the first ioctl of
`vspm_quit_driver`), then `QuitDone` or `QuitFails`, and after a failure the
walk over the list (`QuitWalk` reads `cb->next`, `QuitDel` disconnects and
releases) and `QuitFree`. Which result leads to the release is the code's test
of `ercd`, line 823. `QuitFailed(h)` says that a quit of `h` has failed: from
then on the driver's session goes on while handle and records are released, and
the ownership properties are stated for the time before.

Left out: argument checks, failures that change nothing, and the pointer a
failed `DriverInitialize` stores in `*handle`.

### VspParam

What `VspApi` treats as one record is here the record alone: `Allocate` is the
`malloc` and `memset` of Entry, then one action for each part in the order of
the code (`NextPart`), each allocation failing or not, then the driver, the
copy of the histograms, and `Release`, from where the next request may get the
same memory with its old contents. `ptr` are the addresses in the record that
are not null, `heap` the buffers that exist, `bytes` their lengths, `tbl_num`
what the driver is told. Sizes are C `short`s and pass through the casts and
limits of the code (`UShort`, `LutNum`, `CluNum`). Parts without a buffer are in
`JobLinks`.

### JobLinks

Both conversions copy what the client passes into parts of the callback record
and link each filled part to the one above it; the driver follows the links from
`start_par`. A request is the set of parts the client passes, any structure of
`vspm_public.h` it has a pointer for. `linked` is what the record's memory
links, `filled` what holds values of this request; the memory keeps its links
when it is freed, and only the `memset` before the conversion clears them.
`Found` is what the driver gets to, `Passed` what the client has passed, and
`Made` the units that `alpha_blend` and `clrcnv` need.

`Dropped` is what the libraries drop without a word, and `JobIsRequest` says
that it is all they drop. `FdpUnread` and `VspUnread` are read by no conversion:
`vcnt`, `imgset_par`, `ratio`, `in_buf1`, `in_buf2`, `buf_refwr`, `buf_iirwr`
and `buf_iirrd` of the FDP, `uds1` and `uds2` of the VSP (`vspm_public.h:290-291`
offers them as "up down scaler", like `uds`, and without the "no support" it
gives to other fields). And `clrcnv` takes the colour key unit only when
`alpha_blend` has left it at `VSP_CKEY_THROUGH`. The values of fields are left
out; the four sources are converted alike, and one stands for all.

### FdpMask

The buffer of `hdl->stlmsk_fd` over several Opens and Closes: its size, the two
addresses the driver is told, and when it is given back. A Close whose
`vspm_quit_driver` fails returns at once and the handle is lost with its mask
(`CloseQuitLoses`), which is right as long as the session may use it.

### UdsRatio

The function with its refusals; `Ratio` is its integer arithmetic. The source is
at most 65535 * 4096 and fits in an `unsigned long` of 32 bits.

### TpClient

`pc` is where main is, with the names of the code's labels. The programs differ
in tables: the buffers in the order of their allocation and what a failure of
each does (`Buffers`), the images drawn (`Drawn`), the tests with the buffers
and images each job reads and writes (`Tests`). `fdpm_tp.c` waits with a
semaphore instead of a condition variable and goes on after a refused entry
(`FrameRefused`); everything else is shared.

- A section under `cb_info->mutex` is one step: `Wait` is the lock and
  `pthread_cond_wait`, `CallbackSignals` is `cb_func`. A callback before `Wait`
  leaves its result and wakes nobody.
- `WakesEarly` is a return of `pthread_cond_wait` without a signal, which POSIX
  allows and the samples do not test for; `early` remembers it, and the
  properties say what still holds then.
- `ercd` names the vspm_ call that failed, so that a property can tell a refused
  entry from a quit that failed.
- `vsp_image_test` of `vspm_tp_lossy.c` neither clears `vsp_par` (line 349) nor
  sets its `dl_par` (lines 487-492 are a comment), so the driver gets an
  undefined display list. The comment says that only other jobs need one, and
  the driver is not here to tell. `uses` has the pseudo buffer `unset` for the
  memory that `dl_par` may name, and `BuffersOutliveJobs` leaves it out.
- `ready` are the images that are finished, `fds` what `priv` holds an fd of,
  `bufs` what is allocated: `release_memory` frees by the fds and resets none.

Left out: the block `priv`, image contents and the geometry of the tests, and
failures of `mmngr_free_in_user_ext` and of file or frame buffer output, which
change nothing the properties are about.

## 3. Assumptions about the driver

The driver is external; `VspmApi` says what `vspm_api.c` expects of it. Any
ioctl may fail. An accepted job is finished, cancelled or dropped when its
session ends. `WAIT_INTERRUPT` hands out one finished job at a time and may
fail at any time (a signal); after `STOP_THREAD` it answers with `ercd < 0` in
the end, and it may do so by itself when it fails `WAIT_THREAD`. Whether a
cancelled job is still reported is left to the driver, in
`VspmApi` explicitly (`CancelJob`) and in `FdpmApi` because the answer of
`vspm_cancel_job` is ignored: "too late" leaves the job owed. Job identifiers
are not in use twice at a time.

## 4. Runs

| run | instance | shows |
|---|---|---|
| `vspm_service` | 2 handles, 2 jobs | `TypeOK`, `HandleOutlivesThread`, `NothingLeftBehind`, `JoinsLiveThread`, the refinement `ServiceSpec`, and `QuitReturns`, `EveryJobSettled` (19,827 states) |
| `vspm_init` | 1 handle, 1 job | violation of `InitReturns`, finding 1 |
| `fdpm_owner` | 2 handles, 2 jobs, 2 records, 2 threads, no Cancel | `TypeOK`, `HandleOutlivesUse`, `OnlyStoreAfterFree`, `ResultBelongsToRequest` (170,229 states up to symmetry) |
| `fdpm_cancel` | 2 handles, 1 job, 2 records, 1 thread and two callback threads, no Status | `HandleOutlivesUse`, `CallsOnLiveHandle`, `RecordsOwned`, `CancelHitsOwnJob` and the refinement `RequestsKept` with all races of Cancel (1.9 million states up to symmetry) |
| `fdpm_live` | 1 handle, 1 job, 2 records, 1 thread and the callback thread, all five calls | `EveryCallReturns`, with the loop of Cancel and callbacks that Close waits for, and `EveryRequestSettled` (47,786 states) |
| `fdpm_late` | 1 handle, 2 jobs, 2 records, 1 thread | violation of `ResultBelongsToRequest`, finding 2 |
| `fdpm_null` | 1 handle, 1 job, 1 record, 1 thread | violation of `CancelHasRecord`, finding 3 |
| `vsp_owner` | 1 handle, 2 jobs, 3 records, 2 threads | `TypeOK`, `RecordsOwned`, `NoUseAfterFree` and `ResultBelongsToRequest` of `VspApi` (87,717 states) |
| `vsp_leak` | 1 handle, 2 jobs, 2 records, 1 thread | violation of `QuitReleases`, finding 4 |
| `params` | see below | `TypeOK`, `BuffersAccounted`, `TablesFit`, `HistogramsFromBuffers`, `DisplayListCovers` of `VspParam`; `JobIsRequest` of `JobLinks`; `MaskOwned` of `FdpMask`; `SamplesInside`, `RefusesOnlyImpossible` of `UdsRatio` (477,315 states) |
| `tp_exit` | all four programs, 2 jobs | `TypeOK`, `ImagesReady`, `BuffersOutliveJobs`, `CbInfoOutlivesCallback`, `SemaphoreExact`, `ExitReleases`, `ExitClosesSession`, `ProgramEnds` of `TpClient` (7,496 states) |
| `tp_wait` | `vspm_tp_uds.c`, 2 jobs | violation of `WaitEnds`, finding 5 |

Bounds. The modules of `params` have no counters; their constants are values on
both sides of each limit: two sources with a table of -1, 256 or 257 entries
(-1 passes the signed limit and becomes 65535), cubic tables around 4913, widths
0, 256, 257 and 65535; sizes around those Open accepts; images of 0, 1 and 2
pixels, and sizes in ratios on both sides of 1/16, 1 and 16. `JobLinks` has all
choices of the parts of an FDP request that are read, with none, one or all of
those that are not, and of the requests to the VSP all sources with all their
parts, each part alone, and all parts but each one. The programs of
`TpClient` are taken whole, with their two or three tests and six frames; two
jobs let the driver give a new identifier to a job while main still knows the
old one.
Two handles are enough for anything that mixes up handles, since
handles share only `hdl_list`, `seed_id` and the heap. Two records are enough
for an address that is reused while its old owner still knows it, and two jobs
for a job mistaken for another. Two application threads beside the callback
threads give three parties that compete for one record, all the code has.
`fdpm_cancel` has two handles for the sake of a late callback that leads to
another handle. One application thread and one job keep it small: the callback
threads call the library, too, the identifier of a job is used again and again,
and the theorems of section 6 hold for any number.
`MaxId` bounds the number of Opens in a run (`OpenInit`); one Open per handle is
enough for each interleaving, because a handle that was closed is only ever
reused through a new Open. `Calls` selects the functions clients use, to keep
the instances small and to separate what holds without Cancel from what does
not. `vsp_owner` has one handle, since handles of the legacy API share nothing
but the heap; the theorems of `VspApiProofs` hold for any number. Symmetry is
used in safety runs only.

No run checks for deadlock: clients may stop calling, a quit that failed may
leave nothing to do, a handle whose Close has failed stays lost (`params`), a
process that died or has ended stops, and a program may wait for ever
(finding 5). What must not stop is stated by the liveness properties.

### Fairness

`VspmApi!Fairness`: the steps of a call in progress and of the callback thread
are weakly fair (the threads are scheduled). Strong fairness only where an
interrupted `WAIT_INTERRUPT` re-enters the ioctl for ever: a finished job and a
stop request are answered in the end. Nothing makes a client begin a call.

`FdpmApi!Fairness`: a call that has begun goes on; it is strongly fair because
a thread that waits for `fdp_hdl_mutex` finds it free again and again while
others use it, and a pthread mutex lets it in after a while. The callback
thread takes reported jobs, and its user callback returns; a session that ends
loses its jobs. In particular nobody has to begin a call, so the loop of Cancel
must end by itself; and `vspm_quit_driver` need not fail (`CloseGoesThrough`),
so a Close that waits for a callback returns only when the callback does. That
is why it may not hold `fdp_hdl_mutex` meanwhile, which the callback's own calls
need. Both liveness properties stop at a late callback: it may leave a record on
two lists, where the loop of Cancel would never get rid of it. For `VspApi`,
which has no lock held over a wait and no loop outside a failed quit, no
liveness is stated.

`TpClient!Fairness`: main and the callback thread are scheduled, and the driver
reports each job or drops it with its session. No wait has to end without a
signal: `ProgramEnds` says that a program ends or hangs in `Missed`, after a
lost signal or, in `fdpm_tp.c`, after a refused entry.

## 5. Findings

1. `vspm_api.c:150`. When `WAIT_THREAD` fails, `err_exit4` joins the callback
   thread without stopping it first (`STOP_THREAD` is sent only by quit). Unless
   the driver ends the thread's wait of its own accord, `vspm_init_driver` never
   returns (run `vspm_init`).
2. `vspm_api_fdp.c:497`, "already cancel?". The callback recognises a cancelled
   request by searching the list for the address of its record, which Cancel
   has freed. If the address is allocated again, the late callback takes the
   new request's record: its client is given the result of the cancelled job
   (run `fdpm_late`). The new request's own callback, or a Cancel, then works on
   a record that is freed under it, frees it a second time, and may give
   `vspm_cancel_job` the job of another handle. With two handles the late
   callback may also lock the mutex of a handle that was closed and freed. It is the one thing in the file
   that can bring about a double free (`FdpmOwnershipProofs!FreedRecordUses`).
3. `vspm_api_fdp.c:638`. Between the test of `while (hdl->cb_list != NULL)` and
   the next read of `hdl->cb_list` the callback may empty the list; Cancel then
   dereferences a null record (run `fdpm_null`).
4. `vspm_api_vsp.c:823`, "release memory". `if (ercd != R_VSPM_NG) return
   ercd;` returns before the release whenever `vspm_quit_driver` succeeds:
   neither the handle nor the records of dropped jobs are ever released (run
   `vsp_leak`). When it fails they are, although the session goes on and the
   driver still reports the jobs; that is why the ownership properties of
   `VspApi` stop at `QuitFailed`. `drv_FDPM_Close` tests the other way round.
5. `vspm_tp_uds.c:402`, "wait callback" (also `vspm_tp_lossy.c:510`, `:761` and
   `vspm_tp_colorkey.c:446`). `pthread_cond_wait` is called without testing
   whether the callback has come already. If it comes before the lock is taken,
   its signal is lost and main waits for ever (run `tp_wait`). `fdpm_tp.c` counts
   with a semaphore and has no such gap (`SemaphoreExact`), but it waits also
   for a job that was refused (`:255-260`), which `ProgramEnds` names.

`TablesFit` has an exception that no document of the repository decides: a
look-up table with more than 256 entries is copied into a buffer of 256, and the
driver is told the original number (`vspm_api_vsp.c:213`, `:370`; the cubic
table, `:385-411`, tells the limited one).

`ExitReleases` and `ExitClosesSession` name one exception each:
`vspm_tp_colorkey.c:81-83` returns without releasing its first input when the
second cannot be allocated, and `fdpm_tp.c:153-184` leaves its session open when
it cannot allocate its parameters.

`OnlyStoreAfterFree` records a further use of freed memory that the property
tolerates and names: `vspm_entry_job` stores `*job_id` (`vspm_api.c:238`) into
the record of Start, which a fast callback may have freed
(`vspm_api_fdp.c:512`). Without Cancel it is the only one.

## 6. Proofs

All theorems hold for every value of the constants, given only the ASSUMEs of
the modules (the null values are different from the real ones; handles and
application threads are different threads).

`VspmApiProofs`. The invariants of section 4 are not inductive: that no thread
is left when memory is freed depends on which resources exist at each step of
init and quit. `IInv` says it for each program counter (`Resources`), says when
the driver may hold jobs and a callback may run (`JobsOnlyInSession`), and that
a job is in one place only (`JobsApart`). There is a lemma for each of the four
groups of steps, with one case per action. The theorems are `TypeCorrect`,
`HandleSafety`, `CleanFailure`, `JoinSafety`, and `Refinement`:
`Spec => ServiceSpec`. For the refinement each visible step has a lemma naming
the service step it is (`QuitEnds`: `FreeHandle` is `SvcQuitDone`, because the
thread is joined and the descriptor closed by then); the other steps leave the
mapped variables alone.

`FdpmApiProofs`. `IInv` divides the handles in use into listed ones, which are
`up` and touched only under `fdp_hdl_mutex` (`LockHeld`, `Sessions`), and those
one thread is opening or closing (`PrivateHandles`). `JobsHaveRecords` and
`IdsGivenOut` complete it. Theorems: `TypeCorrect`, `CallSafety`,
`IdSafety` (open handles have different ids). They hold with
Cancel and its races.

`FdpmOwnershipProofs`. `OInv` follows a record from `malloc` (`Fresh`) over the
list (`Lists`, `Entering`) to the party that takes it off: a Cancel (`Loaded`,
`Taken`) or the callback (`Reporting`), and says that no record is forgotten
(`Kept`) and which jobs records and threads know (`StoredJobs`, `StaleJobs`,
`CancelledJobs`). It includes all races of Cancel, and that threads go on after
they have used freed memory; the one step that breaks it is a callback that
takes the record of another request. So the theorem is `Spec =>
[](NoLateCallback => OInv)`; `late` never leaves `ub`, so the condition may be
assumed in both states of a step. Theorems: `RecordOwnership`, `CancelSafety`,
`FreedRecordUses`.

`FdpmResultProofs`. For clients without Cancel (`NoCancel`), `NInv` adds that the
record of a job is on the list until its callback takes it off (`Reported`).
The condition of the theorems above then always holds, and `RequestsReported`
gives `OnlyStoreTouchesFreed` and `ResultSafety`. With Cancel both are false
(finding 2).

`HandleSafety` holds for all clients. The parent that Cancel is about to lock is
the handle it works on, under `fdp_hdl_mutex`, as `OInv` says until a late
callback (`Loaded`); the one a callback is about to lock is its own without
Cancel (`OwnHandle`), and any other is excepted by the property.

`Refinement`, `Spec => RequestsKept`, holds for all clients. `KeepHandles`,
`KeepWaiting` and `KeepReports` say what a step may change without the client
seeing it; most steps are of that kind. The others have a step of `FdpmRequests`
each: `OpenAdd`, `CloseDel`, `CloseDrain`, `CloseFree`, `StartEntry`,
`CancelDel`, `CallbackDel` and `CallbackEnd` are `Open`, `Close`, `Withdraw`,
`Closed`, `Accept`, `Withdraw`, `Report` and `Return`. That the accepted request
is new (`EntryView`) and that the reported one waits (`OwnRecord`) is where
`OInv` is needed: the driver may reuse the identifier of a job, and malloc the
address of a record, whose old owner still has it. `RequestService` is the
corollary without the exception, for clients without Cancel.

`VspApiProofs`. `IInv` has the types, who may be in a call on which handle
(`EntryCalls`, `QuitCalls`), the session a handle has while it is `open`
(`Sessions`) and that jobs lead to records (`JobsHaveRecords`). `OInv` holds as
long as no quit has failed (`FailureStays`: a failed quit stays failed, so the
condition may be assumed in both states of a step) and follows a record as in
`FdpmOwnershipProofs`; the walk of `DriverQuit` never begins under it (`NoWalk`).
Theorems: `TypeCorrect`, `RecordOwnership`, `NoUseOfFreedMemory`, `ResultSafety`,
`CallSafety`.

`TpClientProofs`. `IInv` says that there is at most one job (`OneJob`), which
session there is at each place of main (`Session`), where main is and in which
state the block is while a sample has a job (`SampleWaits`), and that the
callback `fdpm_tp.c` waits for is owed, executing or posted (`FrameWaits`).
`SemaphoreExact` needs that a finite set with one job removed is empty, from the
library's theorems about cardinality. Theorems: `CbInfoSafety`,
`SemaphoreSafety`, `SessionSafety`.

`MInv` follows the memory: which buffers are allocated at each place of main, by
position in the table (`AllocatedTo`, `Memory`), the range of each counter
(`Numbers`), which job the driver may have and what is finished by then
(`Finished`, `Images`). What it takes from the tables of the four programs is
stated in lemmas of its own (`BufferTable`, `DrawnTable`, `TestTable`,
`TestBuffers`, `TestSources`): each job reads what was drawn or written by an
earlier job of its test, and uses buffers of the table only. Theorems:
`MemoryInvariance`, `TypeCorrect`, `ImageSafety`, `BufferSafety`,
`ReleaseSafety`, and `ProtocolSafety`, `ServiceUse` (section 2).

`ParamProofs`. `JobSafety` holds for every request: the links of a record are
computed from the request alone, once the record is cleared (`LinkInv`); `Wanted`
says for each part when it is to be there, and `WantedReached` that the parts
above it are there, too. `MaskSafety` is `LineBytes` (the bytes of a line hold its pixels)
and the invariant that relates buffer and addresses to `insize`. `RatioSafety`
and `RatioRefusal` come from the bounds of an integer quotient (`Quotient`,
`RatioBounds`).

`VspParamProofs`. `BuffersAccounted` is not inductive: an allocation for a part
that already had a buffer would lose it. `NotYet` says that parts later in the
order point to nothing; that is where the `memset` of Entry matters.
`HistogramLength` and `CopiedFromRecord` complete it. `OneBuffer` is the lemma
for all four actions that may allocate. The limits of the C types are kept as
symbols in the proofs (`Limits`, `Ranges`). Theorems: `TypeCorrect`,
`ReleaseExact`, `TableSafety`, `HistogramSafety`, `DisplayListLength`, for every
size that is a short and every width that is an unsigned short.

Only model-checked: the liveness properties, since fairness and ENABLED are out
of the prover's reach. Every safety property of the passing runs is a theorem.

## 7. Not modelled

- The argument checks that return at once, `vspm_get_status` and the user
  functions that only inform: they change no state.
- The pointer a failed `VSPM_lib_DriverInitialize` stores
  (`vspm_api_vsp.c:799-802`): a client that tests the result does not use it.
- The width of `seed_id` (`vspm_api_fdp.c:63`): it takes 2^31 Opens to come round.
- That `drv_FDPM_Start` does not compare a picture with the size given to Open:
  the code has no check to model, and what the driver does is not here.
- Values that are only copied, or dropped like `rpf_order`
  (`vspm_api_vsp.c:663`): fields of the parameter structures, constants of
  the public headers, the geometry of the samples' tests.
- Image contents, file output, the frame buffer device, the memory manager
  beyond "an allocation succeeds or fails", and the kernel driver beyond
  section 3.
- The build files.
- An abstract request interface above `VspApi`: with finding 4 it implements
  one only until a quit, and its ownership properties say as much; the programs
  use `vspm_api.c` directly.
