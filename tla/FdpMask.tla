------------------------------ MODULE FdpMask -------------------------------
(***************************************************************************)
(* The still mask of one FDP handle (vspm_api_fdp.c): drv_FDPM_Open takes  *)
(* one buffer of the memory manager for two masks and tells the driver     *)
(* where each begins; drv_FDPM_Close gives it back when the session has    *)
(* ended.  FdpmApi has the handles, their threads and locks; here it is    *)
(* the size and the life of the buffer.                                    *)
(*                                                                         *)
(* Addresses count from the start of the buffer.  Left out: arguments      *)
(* other than insize, and failures that change nothing.                    *)
(***************************************************************************)
EXTENDS Integers

CONSTANTS InWidths, InHeights   \* values of insize, unsigned shorts

ASSUME MaskAssumption == InWidths \subseteq Nat /\ InHeights \subseteq Nat

VARIABLES
    open_pc,        \* "none", "init" (Open), "open", "free" (Close), "lost"
    insize,         \* open_par->insize
    mask_bytes,     \* the length of the buffer of stlmsk_fd, 0 without one
    hard_addr,      \* what the driver has been told
    fdp_up          \* the driver has a session that may use the masks

maskVars == <<open_pc, insize, mask_bytes, hard_addr, fdp_up>>

MaskInit ==
    /\ open_pc = "none"
    /\ insize = [width |-> 0, height |-> 0]
    /\ mask_bytes = 0
    /\ hard_addr = <<0, 0>>
    /\ fdp_up = FALSE

MaskGoto(from, to) ==
    /\ open_pc = from
    /\ open_pc' = to

SizeAllowed(w, h) ==
    /\ 80 <= w /\ w <= 1920 /\ w % 2 = 0
    /\ 40 <= h /\ h <= 1920

\* Mutant of stlmsk_size: the last pixels of a line have no byte.
stlmsk_size_down(w, h) == 2 * (w \div 8) * h

stlmsk_size(w, h) == 2 * ((w + 7) \div 8) * h

\* mmngr_alloc_in_user_ext, after the checks.
OpenAllocates(w, h) ==
    /\ MaskGoto("none", "init")
    /\ SizeAllowed(w, h)
    /\ insize' = [width |-> w, height |-> h]
    /\ mask_bytes' = stlmsk_size(w, h) * 2
    /\ hard_addr' = <<0, stlmsk_size(w, h)>>
    /\ UNCHANGED fdp_up

\* vspm_init_driver returns R_VSPM_OK.
OpenInits ==
    /\ MaskGoto("init", "open")
    /\ fdp_up' = TRUE
    /\ UNCHANGED <<insize, mask_bytes, hard_addr>>

\* Any other result: err_exit.
OpenInitFails ==
    /\ MaskGoto("init", "none")
    /\ mask_bytes' = 0
    /\ UNCHANGED <<insize, hard_addr, fdp_up>>

\* vspm_quit_driver returns R_VSPM_OK.
CloseQuits ==
    /\ MaskGoto("open", "free")
    /\ fdp_up' = FALSE
    /\ UNCHANGED <<insize, mask_bytes, hard_addr>>

\* It fails: Close returns, and no call will find the handle again.
CloseQuitLoses ==
    /\ MaskGoto("open", "lost")
    /\ UNCHANGED <<insize, mask_bytes, hard_addr, fdp_up>>

\* mmngr_free_in_user_ext and free(hdl).
CloseReleases ==
    /\ MaskGoto("free", "none")
    /\ mask_bytes' = 0
    /\ UNCHANGED <<insize, hard_addr, fdp_up>>

MaskNext ==
    \/ \E w \in InWidths, h \in InHeights : OpenAllocates(w, h)
    \/ OpenInits \/ OpenInitFails
    \/ CloseQuits \/ CloseQuitLoses \/ CloseReleases

MaskSpec == MaskInit /\ [][MaskNext]_maskVars

-----------------------------------------------------------------------------
(* Properties                                                              *)

\* As long as the driver may use them, also after a Close that has failed, each
\* mask has two bits for every pixel, in whole bytes for every line; the masks
\* do not overlap, and both lie in a buffer that is allocated.
MasksCover ==
    fdp_up =>
        \E bytes_per_line \in 1 .. insize.width :
            LET need == 2 * bytes_per_line * insize.height
            IN  /\ 8 * bytes_per_line >= insize.width
                /\ hard_addr[1] + need <= hard_addr[2]
                /\ hard_addr[2] + need <= mask_bytes

\* A handle that is gone has left no buffer.
MaskReleased == open_pc = "none" => mask_bytes = 0

\* The buffer lives as long as the session that works with it, and no longer
\* than the handle.
MaskOwned == MasksCover /\ MaskReleased
=============================================================================
