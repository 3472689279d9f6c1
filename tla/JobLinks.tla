------------------------------ MODULE JobLinks ------------------------------
(***************************************************************************)
(* The parameters of one request inside its callback record.               *)
(*                                                                         *)
(* drv_FDPM_Start (vspm_if_set_fdp_param) and VSPM_lib_Entry               *)
(* (vspm_if_set_vsp_param) copy what the client passes into parts of the   *)
(* record, and link each part they have filled to the part above it.  The  *)
(* driver follows the links from start_par.  malloc hands out memory that  *)
(* held another request: only the memset before the conversion clears the  *)
(* links of that one.                                                      *)
(*                                                                         *)
(* A request is the set of parts the client passes, each a structure of    *)
(* vspm_public.h with a pointer to it; "keyed" is in it when alpha_blend   *)
(* names a colour key (alphan), and "alpha", "clut" and "dither" stand for *)
(* alpha_blend, osd_lut and the quantisation.  The sources are alike: one  *)
(* stands for all.  pic_par has no part of its own in the record, it goes  *)
(* into pic; keyed and clrcnv go into ckey.                                *)
(*                                                                         *)
(* Left out: the values of the fields, and the buffers of the tables and   *)
(* histograms, which are in VspParam.                                      *)
(***************************************************************************)
EXTENDS Integers, FiniteSets

CONSTANTS
    FdpRequests,    \* the requests to drv_FDPM_Start and
    VspRequests     \* to VSPM_lib_Entry that are explored

ImgBufs == {"next", "cur", "prev"}
FdpParts ==
    {"fproc", "seq", "pic", "pic_par", "out_buf", "ref_buf"} \cup ImgBufs

BruUnits == {"dither", "vir", "blend_a", "blend_b", "blend_c", "blend_d",
             "rop"}
Modules == {"sru", "uds", "lut", "clu", "hst", "hsi", "hgo", "hgt"}
VspParts == {"src", "clut", "alpha", "keyed", "clrcnv", "irop", "ckey", "dst",
             "ctrl", "bru"} \cup BruUnits \cup Modules

\* Parts a client can pass, and no conversion reads.
UnreadRefs == {"buf_refwr", "buf_iirwr", "buf_iirrd"}
FdpUnread == {"vcnt", "imgset_par", "ratio", "in_buf1", "in_buf2"}
             \cup UnreadRefs
VspUnread == {"uds1", "uds2"}

ASSUME LinksAssumption ==
    /\ FdpRequests \subseteq SUBSET (FdpParts \cup FdpUnread)
    /\ VspRequests \subseteq
          SUBSET ((VspParts \ {"irop", "ckey"}) \cup VspUnread)

VARIABLES
    rec_api,    \* whose record it is, "fdp" or "vsp"
    rec,        \* "free", or "job" from the conversion to the release
    given,      \* the request
    linked,     \* parts that the memory of the record holds and links
    filled      \* parts that hold values of the request

linkVars == <<rec_api, rec, given, linked, filled>>

LinkInit ==
    /\ rec_api \in {"fdp", "vsp"}
    /\ rec = "free"
    /\ given = {} /\ linked = {} /\ filled = {}

-----------------------------------------------------------------------------
(* What a conversion fills and links, for request g                        *)

\* A part the client passes, and what the conversion does below it.
Within(p, below, g) == IF p \in g THEN {p} \cup below ELSE {}

SetRefParam(g) == Within("ref_buf", ImgBufs \cap g, g)

SetPicParam(g) == Within("pic", {"pic_par"} \cap g, g)

SetFprocParam(g) ==
    Within("fproc",
           ({"seq", "out_buf"} \cap g) \cup SetPicParam(g) \cup SetRefParam(g),
           g)

\* alpha_blend sets ckey.mode to something but VSP_CKEY_THROUGH.
KeysColour(g) == {"alpha", "keyed"} \subseteq g

\* VSP_CKEY_THROUGH is also 0, the value after memset.
ConvertsColour(g) == "clrcnv" \in g /\ ~KeysColour(g)

SetAlpha(g) ==
    Within("alpha", {"irop", "ckey"} \cup ({"keyed"} \cap g), g)
    \cup (IF ConvertsColour(g) THEN {"alpha", "ckey", "clrcnv"} ELSE {})

SetSrcParam(g) == Within("src", ({"clut"} \cap g) \cup SetAlpha(g), g)

SetBruParam(g) == Within("bru", BruUnits \cap g, g)

SetCtrlParam(g) == Within("ctrl", (Modules \cap g) \cup SetBruParam(g), g)

SetVspParam(g) == SetSrcParam(g) \cup ({"dst"} \cap g) \cup SetCtrlParam(g)

-----------------------------------------------------------------------------

\* Mutant of Fill: the record is not cleared.
FillUncleared(parts, g) ==
    /\ rec = "free"
    /\ rec' = "job"
    /\ given' = g
    /\ linked' = linked \cup parts
    /\ filled' = parts
    /\ UNCHANGED rec_api

\* malloc, memset and the conversion.
Fill(parts, g) ==
    /\ rec = "free"
    /\ rec' = "job"
    /\ given' = g
    /\ linked' = parts
    /\ filled' = parts
    /\ UNCHANGED rec_api

StartConverts(g) ==
    /\ rec_api = "fdp"
    /\ Fill(SetFprocParam(g), g)

EntryConverts(g) ==
    /\ rec_api = "vsp"
    /\ Fill(SetVspParam(g), g)

\* A refused entry, the end of the callback, Cancel or the end of the session;
\* the memory keeps its contents.
FreeRecord ==
    /\ rec = "job"
    /\ rec' = "free"
    /\ given' = {} /\ filled' = {}
    /\ UNCHANGED <<rec_api, linked>>

LinkNext ==
    \/ \E g \in FdpRequests : StartConverts(g)
    \/ \E g \in VspRequests : EntryConverts(g)
    \/ FreeRecord

LinkSpec == LinkInit /\ [][LinkNext]_linkVars

-----------------------------------------------------------------------------
(* Properties                                                              *)

\* The structures of the client that a part lies in.
Inside(p) ==
    CASE p \in {"seq", "pic", "out_buf", "ref_buf", "imgset_par"} -> {"fproc"}
      [] p \in {"pic_par", "in_buf1", "in_buf2"} -> {"fproc", "pic"}
      [] p = "ratio" -> {"fproc", "seq"}
      [] p \in ImgBufs \cup UnreadRefs -> {"fproc", "ref_buf"}
      [] p \in {"clut", "alpha", "clrcnv"} -> {"src"}
      [] p = "keyed" -> {"src", "alpha"}
      [] p \in Modules \cup {"bru"} \cup VspUnread -> {"ctrl"}
      [] p \in BruUnits -> {"ctrl", "bru"}
      [] OTHER -> {}

\* The parts that must be linked for the driver to get to part p.
Above(p) ==
    CASE p \in {"irop", "ckey"} -> {"src", "alpha"}
      [] p \in {"keyed", "clrcnv"} -> {"src", "alpha", "ckey"}
      [] OTHER -> Inside(p)

\* The parts the driver finds, starting at start_par.
Found == {p \in linked : Above(p) \subseteq linked}

\* What the client has passed, in structures it has passed.
Passed == {p \in given : Inside(p) \subseteq given}

\* What the libraries drop of it without a word: the parts that nothing reads,
\* and the colour conversion of a source whose alpha_blend keys a colour.
Dropped ==
    FdpUnread \cup VspUnread
    \cup (IF {"alpha", "keyed"} \subseteq given THEN {"clrcnv"} ELSE {})

\* The parts that are made from others: alpha_blend and clrcnv lead to the
\* units of the alpha plane.
Made ==
    (IF "alpha" \in Passed THEN {"irop", "ckey"} ELSE {})
    \cup (IF "clrcnv" \in Passed \ Dropped THEN {"alpha", "ckey"} ELSE {})

\* The driver finds in a record the parts the client has passed with this
\* request, but those the libraries drop, filled with its values; and nothing
\* of a request that has had the memory before.
JobIsRequest ==
    rec = "job" =>
        /\ Found = (Passed \ Dropped) \cup Made
        /\ Found \subseteq filled
=============================================================================
