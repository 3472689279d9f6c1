------------------------------ MODULE VspParam -----------------------------
(***************************************************************************)
(* vspm_api_vsp.c: the buffers of one callback record.  VSPM_lib_Entry     *)
(* allocates the record, vspm_if_set_vsp_param converts the client's       *)
(* parameters into it, one part after the other, and takes a buffer for    *)
(* each look-up table and histogram; vspm_if_copy_histogram reads them and *)
(* vspm_if_release_memory gives them back.  VspApi says when a record is   *)
(* released; here it is what the release finds in it.                      *)
(*                                                                         *)
(* A buffer is named after the part of the record that points to it.  The  *)
(* memory of the record keeps what it held from one request to the next:   *)
(* only the memset of Entry clears it.  An allocation may fail, and the    *)
(* conversion then goes on without the buffer.                             *)
(*                                                                         *)
(* Left out: parts that are only copied or only point into the record, and *)
(* the contents of tables and histograms.                                  *)
(***************************************************************************)
EXTENDS Integers

CONSTANTS
    UsedSrcs,    \* sources for which clients pass an osd_lut
    LutSizes,    \* values of size in T_VSP_OSDLUT and T_VSP_LUT, a short
    CluSizes,    \* values of size in T_VSP_CLU, a short
    Widths       \* values of width in T_VSP_OUT, an unsigned short

Srcs == {"src1", "src2", "src3", "src4"}
Luts == Srcs \cup {"lut"}
Tables == Luts \cup {"clu"}
Histograms == {"hgo", "hgt"}
Bufs == Tables \cup Histograms

ShortMax == 32767
UShortMax == 65535
Shorts == -(ShortMax + 1) .. ShortMax
UShorts == 0 .. UShortMax

ASSUME ParamAssumption ==
    /\ UsedSrcs \subseteq Srcs
    /\ LutSizes \subseteq Shorts
    /\ CluSizes \subseteq Shorts
    /\ Widths \subseteq UShorts

VARIABLES
    pc,         \* the part to convert next, or who has the record
    heap,       \* buffers that are allocated
    bytes,      \* bytes[b]: the length of buffer b, 0 if it is not allocated
    ptr,        \* parts whose virt_addr (lut and clu: hard_addr) is not 0
    tbl_num,    \* tbl_num[b], for the tables
    width,      \* dst_par.width
    dl_num,     \* dl_par.tbl_num
    copied      \* histograms that vspm_if_copy_histogram has copied

bufVars == <<heap, bytes, ptr>>
vars == <<pc, bufVars, tbl_num, width, dl_num, copied>>

\* The order in which vspm_if_set_vsp_param and its helpers take the parts.
Parts == Bufs \cup {"dst", "dl"}
NextPart ==
    [src1 |-> "src2", src2 |-> "src3", src3 |-> "src4", src4 |-> "dst",
     dst |-> "lut", lut |-> "clu", clu |-> "hgo", hgo |-> "hgt", hgt |-> "dl",
     dl |-> "entry"]

\* The record is free, with Entry, with the driver, or with the callback.
Pcs == Parts \cup {"free", "entry", "driver", "callback"}

Init ==
    /\ pc = "free"
    /\ heap = {} /\ ptr = {} /\ copied = {}
    /\ bytes = [b \in Bufs |-> 0]
    /\ tbl_num = [b \in Tables |-> 0]
    /\ width = 0 /\ dl_num = 0

-----------------------------------------------------------------------------
(* vspm_if_set_vsp_param                                                   *)

\* Mutant of UShort: the cast is left out.
NoCast(n) == n

\* (unsigned short)n
UShort(n) == n % (UShortMax + 1)

\* tbl_num of vspm_if_set_vsp_src_param and vspm_if_set_vsp_lut_param: the
\* limit is applied to the signed size, so that a negative one passes.
LutNum(size) == IF size > 256 THEN 256 ELSE UShort(size)

\* tbl_num of vspm_if_set_vsp_clu_param: here it is applied after the cast.
CluNum(size) == IF UShort(size) > 4913 THEN 4913 ELSE UShort(size)

Converts(p) ==
    /\ pc = p
    /\ pc' = NextPart[p]
    /\ UNCHANGED copied

\* malloc or mmngr_alloc_in_user_ext gives part b a buffer of n bytes, ...
Get(b, n) ==
    /\ heap' = heap \cup {b}
    /\ bytes' = [bytes EXCEPT ![b] = n]
    /\ ptr' = ptr \cup {b}

\* ... or fails, or is not called: the address is set to 0.
GetNone(b) ==
    /\ ptr' = ptr \ {b}
    /\ UNCHANGED <<heap, bytes>>

\* The client passes no such part, or a source without osd_lut.
Absent(p) ==
    /\ Converts(p)
    /\ UNCHANGED <<bufVars, tbl_num, width, dl_num>>

\* Mutant of Allocate: without the memset.
AllocateUncleared ==
    /\ pc = "free"
    /\ pc' = "src1"
    /\ UNCHANGED <<bufVars, tbl_num, width, dl_num, copied>>

\* malloc and memset in VSPM_lib_Entry.
Allocate ==
    /\ pc = "free"
    /\ pc' = "src1"
    /\ ptr' = {} /\ copied' = {}
    /\ tbl_num' = [b \in Tables |-> 0]
    /\ width' = 0 /\ dl_num' = 0
    /\ UNCHANGED <<heap, bytes>>

\* vspm_if_set_vsp_src_param with an osd_lut, vspm_if_set_vsp_lut_param: the
\* driver is told the size the client gave, whatever the buffer holds.
SetLut(b, size) ==
    /\ Converts(b)
    /\ Get(b, LutNum(size) * 8) \/ GetNone(b)
    /\ tbl_num' = [tbl_num EXCEPT ![b] = UShort(size)]
    /\ UNCHANGED <<width, dl_num>>

\* Mutant of SetClu: the driver is told the size the client gave.
SetCluUnlimited(size, perEntry) ==
    /\ Converts("clu")
    /\ Get("clu", CluNum(size) * 8 * perEntry) \/ GetNone("clu")
    /\ tbl_num' = [tbl_num EXCEPT !["clu"] = UShort(size)]
    /\ UNCHANGED <<width, dl_num>>

\* vspm_if_set_vsp_clu_param with its data: an entry of the client makes two
\* entries of the driver's table in normal mode (address and value) and one in
\* auto address increment mode.
SetClu(size, perEntry) ==
    /\ Converts("clu")
    /\ Get("clu", CluNum(size) * 8 * perEntry) \/ GetNone("clu")
    /\ tbl_num' = [tbl_num EXCEPT !["clu"] = CluNum(size) * perEntry]
    /\ UNCHANGED <<width, dl_num>>

\* The same function when clu_data (in normal mode, or clu_addr) is null.
SetCluEmpty ==
    /\ Converts("clu")
    /\ GetNone("clu")
    /\ UNCHANGED <<tbl_num, width, dl_num>>

\* vspm_if_set_vsp_hgo_param and vspm_if_set_vsp_hgt_param.
SetHistogram(b) ==
    /\ Converts(b)
    /\ Get(b, IF b = "hgo" THEN 1088 ELSE 800) \/ GetNone(b)
    /\ UNCHANGED <<tbl_num, width, dl_num>>

SetDst ==
    /\ Converts("dst")
    /\ width' \in Widths
    /\ UNCHANGED <<bufVars, tbl_num, dl_num>>

\* Mutant of SetDl: rounds up by 256.
SetDlRoundsTooFar ==
    /\ Converts("dl")
    /\ dl_num' = IF width = 0 THEN 192
                 ELSE 192 + 64 * (((width + 256) \div 256) - 1)
    /\ UNCHANGED <<bufVars, tbl_num, width>>

\* The length of the display list.
SetDl ==
    /\ Converts("dl")
    /\ dl_num' = IF width = 0 THEN 192
                 ELSE 192 + 64 * (((width + 255) \div 256) - 1)
    /\ UNCHANGED <<bufVars, tbl_num, width>>

-----------------------------------------------------------------------------
(* After the conversion                                                    *)

\* vspm_entry_job accepts.
Accepted ==
    /\ pc = "entry"
    /\ pc' = "driver"
    /\ UNCHANGED <<bufVars, tbl_num, width, dl_num, copied>>

\* Mutant of CopyHistogram: virt_addr is not tested.
CopyHistogramUntested(C) ==
    /\ pc = "driver"
    /\ pc' = "callback"
    /\ copied' = C
    /\ UNCHANGED <<bufVars, tbl_num, width, dl_num>>

\* vspm_if_copy_histogram, before the user's callback; C are the histograms
\* for which the client has passed an address.
CopyHistogram(C) ==
    /\ pc = "driver"
    /\ pc' = "callback"
    /\ copied' = C \cap ptr
    /\ UNCHANGED <<bufVars, tbl_num, width, dl_num>>

\* vspm_if_release_memory: of a refused entry, after the user's callback, or
\* in DriverQuit.  The memory of the record keeps its contents.
Release ==
    /\ pc \in {"entry", "driver", "callback"}
    /\ pc' = "free"
    /\ heap' = heap \ ptr
    /\ bytes' = [b \in Bufs |-> IF b \in ptr THEN 0 ELSE bytes[b]]
    /\ UNCHANGED <<ptr, tbl_num, width, dl_num, copied>>

Next ==
    \/ Allocate
    \/ \E p \in Parts \ {"dl"} : Absent(p)
    \/ \E b \in UsedSrcs \cup {"lut"}, size \in LutSizes : SetLut(b, size)
    \/ \E size \in CluSizes, perEntry \in {1, 2} : SetClu(size, perEntry)
    \/ SetCluEmpty
    \/ \E b \in Histograms : SetHistogram(b)
    \/ SetDst \/ SetDl
    \/ Accepted
    \/ \E C \in SUBSET Histograms : CopyHistogram(C)
    \/ Release

Spec == Init /\ [][Next]_vars

-----------------------------------------------------------------------------
(* Properties                                                              *)

\* What the unsigned short fields of the driver's structures can hold.
TypeOK ==
    /\ pc \in Pcs
    /\ heap \subseteq Bufs /\ ptr \subseteq Bufs /\ copied \subseteq Histograms
    /\ bytes \in [Bufs -> Nat]
    /\ tbl_num \in [Tables -> UShorts]
    /\ width \in UShorts /\ dl_num \in UShorts

\* Whatever allocations fail and wherever the record ends its life, the
\* addresses in it lead to exactly the buffers it has: the release frees each
\* once, frees nothing else, and leaves nothing.
BuffersAccounted == heap = IF pc = "free" THEN {} ELSE ptr

\* The driver reads no table (8 bytes an entry) beyond its buffer, with one
\* exception: a client that gives a look-up table more than 256 entries gets a
\* buffer of 256 and a tbl_num that says more (vspm_api_vsp.c:213, 370).
TablesFit ==
    \A b \in Tables \cap heap :
        \/ tbl_num[b] * 8 <= bytes[b]
        \/ b \in Luts /\ 256 < tbl_num[b] /\ tbl_num[b] <= ShortMax

\* The histogram that is copied to the client comes from a buffer of the
\* record that is allocated and holds the 768 bytes (vspm_public.h:254, 275).
HistogramsFromBuffers ==
    pc = "callback" => \A b \in copied : b \in heap /\ bytes[b] >= 768

\* The display list has 64 entries for each strip of 256 pixels after the
\* first: the strips cover the destination, and none is empty.
DisplayListCovers ==
    pc \in {"entry", "driver", "callback"} =>
        \E strips \in 1 .. width + 1 :
            /\ dl_num = 192 + 64 * (strips - 1)
            /\ width <= 256 * strips
            /\ 256 * (strips - 1) < width \/ strips = 1
=============================================================================
