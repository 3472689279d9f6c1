---------------------------- MODULE ParamProofs ----------------------------
(***************************************************************************)
(* Proofs about the smaller parameter modules, for all requests and all    *)
(* sizes: JobLinks (the parts of a request), FdpMask (the still mask) and  *)
(* UdsRatio (the scaler).                                                  *)
(***************************************************************************)
EXTENDS JobLinks, FdpMask, UdsRatio, TLAPS

-----------------------------------------------------------------------------
(* JobLinks                                                                *)

\* A record in use is what one conversion has made of one request.
LinkInv ==
    rec = "job" =>
        /\ linked = filled
        /\ \/ given \in FdpRequests /\ filled = SetFprocParam(given)
           \/ given \in VspRequests /\ filled = SetVspParam(given)

\* Every conversion starts from a cleared record.
THEOREM LinkInvariance == LinkSpec => []LinkInv
<1>1. LinkInit => LinkInv
  BY DEF LinkInit, LinkInv
<1>2. LinkInv /\ [LinkNext]_linkVars => LinkInv'
  BY DEF LinkInv, LinkNext, linkVars, StartConverts, EntryConverts, Fill,
     FreeRecord
<1>3. QED
  BY <1>1, <1>2, PTL DEF LinkSpec

\* What the conversions are to make of request g, part by part: client
\* structures that are passed and read, and what alpha_blend and clrcnv need.
Wanted(g, p) ==
    \/ /\ p \in g /\ Inside(p) \subseteq g
       /\ p \notin FdpUnread \cup VspUnread
       /\ p = "clrcnv" => ConvertsColour(g)
    \/ p \in {"irop", "ckey"} /\ {"src", "alpha"} \subseteq g
    \/ p \in {"alpha", "ckey"} /\ "src" \in g /\ ConvertsColour(g)

\* vspm_if_set_fdp_param fills what the client has passed, and nothing below a
\* part the client has left out.
LEMMA FprocParamParts ==
    ASSUME NEW g \in FdpRequests, NEW p
    PROVE  p \in SetFprocParam(g) <=> Wanted(g, p)
<1>1. g \subseteq FdpParts \cup FdpUnread
  BY LinksAssumption
<1>2. ~ConvertsColour(g) /\ "src" \notin g
  BY <1>1 DEF ConvertsColour, FdpParts, FdpUnread, UnreadRefs, ImgBufs
<1>3. CASE p \in g
  <2>1. p \in FdpParts \cup FdpUnread
    BY <1>1, <1>3
  <2> QED
    BY <1>1, <1>2, <1>3, <2>1 DEF Wanted, SetFprocParam, SetRefParam,
       SetPicParam, Within, Inside, FdpParts, FdpUnread, VspUnread,
       UnreadRefs, ImgBufs, BruUnits, Modules
<1>4. CASE p \notin g
  BY <1>2, <1>4 DEF Wanted, SetFprocParam, SetRefParam, SetPicParam, Within
<1> QED
  BY <1>3, <1>4

\* vspm_if_set_vsp_param does the same; clrcnv may make an alpha part.
LEMMA VspParamParts ==
    ASSUME NEW g \in VspRequests, NEW p
    PROVE  p \in SetVspParam(g) <=> Wanted(g, p)
<1>1. g \subseteq (VspParts \ {"irop", "ckey"}) \cup VspUnread
  BY LinksAssumption
<1> QED
  BY <1>1 DEF Wanted, SetVspParam, SetSrcParam, SetAlpha, SetCtrlParam,
     SetBruParam, ConvertsColour, KeysColour, Within, Inside, VspParts,
     FdpUnread, VspUnread, UnreadRefs, ImgBufs, BruUnits, Modules

\* Each wanted part of a record can be reached over wanted parts.
LEMMA WantedReached ==
    ASSUME NEW g \in FdpRequests \cup VspRequests, NEW p, Wanted(g, p),
           NEW a \in Above(p)
    PROVE  Wanted(g, a)
<1>1. "irop" \notin g /\ "ckey" \notin g
  BY LinksAssumption DEF FdpParts, FdpUnread, UnreadRefs, ImgBufs, VspUnread
<1>2. CASE p \in {"irop", "ckey"}
  BY <1>1, <1>2 DEF Wanted, Above, Inside, ConvertsColour, KeysColour,
     FdpUnread, VspUnread, UnreadRefs, ImgBufs, BruUnits, Modules
<1>3. CASE p \in {"keyed", "clrcnv"}
  BY <1>1, <1>3 DEF Wanted, Above, Inside, ConvertsColour, KeysColour,
     FdpUnread, VspUnread, UnreadRefs, ImgBufs, BruUnits, Modules
<1>4. CASE p \notin {"irop", "ckey", "keyed", "clrcnv"}
  BY <1>1, <1>4 DEF Wanted, Above, Inside, ConvertsColour, KeysColour,
     FdpUnread, VspUnread, UnreadRefs, ImgBufs, BruUnits, Modules
<1> QED
  BY <1>2, <1>3, <1>4

\* Whatever the requests, the driver finds the parts of this one that are not
\* dropped, and no other.
THEOREM JobSafety == LinkSpec => []JobIsRequest
<1>1. ASSUME LinkInv, rec = "job"
      PROVE  /\ Found = (Passed \ Dropped) \cup Made
             /\ Found \subseteq filled
  <2>1. linked = filled /\ Found \subseteq filled
    BY <1>1 DEF LinkInv, Found
  <2>2. \A p : p \in linked <=> Wanted(given, p)
    BY <1>1, <2>1, FprocParamParts, VspParamParts DEF LinkInv
  <2>3. \A p : p \in Found <=> Wanted(given, p)
    BY <1>1, <2>2, WantedReached DEF Found, LinkInv
  <2>4. \A p : p \in (Passed \ Dropped) \cup Made <=> Wanted(given, p)
    BY DEF Wanted, Passed, Dropped, Made, Inside, ConvertsColour, KeysColour,
       FdpUnread, VspUnread, UnreadRefs, ImgBufs, BruUnits, Modules
  <2> QED
    BY <2>1, <2>3, <2>4
<1>2. LinkInv => JobIsRequest
  BY <1>1 DEF JobIsRequest
<1>3. QED
  BY <1>2, LinkInvariance, PTL

-----------------------------------------------------------------------------
(* FdpMask                                                                 *)

\* A buffer exists, and has the size of two masks of insize, from its
\* allocation in Open to its release in Close.
MaskInv ==
    /\ mask_bytes \in Int
    /\ open_pc = "none" => mask_bytes = 0
    /\ fdp_up => open_pc \in {"open", "lost"}
    /\ open_pc \in {"init", "open", "lost"} =>
          /\ insize.width \in Nat /\ insize.height \in Nat
          /\ SizeAllowed(insize.width, insize.height)
          /\ mask_bytes = stlmsk_size(insize.width, insize.height) * 2
          /\ hard_addr = <<0, stlmsk_size(insize.width, insize.height)>>

\* Half of the buffer is a whole number.
LEMMA MaskSize ==
    ASSUME NEW w \in Nat, NEW h \in Nat
    PROVE  stlmsk_size(w, h) \in Nat
BY DEF stlmsk_size

THEOREM MaskInvariance == MaskSpec => []MaskInv
<1>1. MaskInit => MaskInv
  BY DEF MaskInit, MaskInv
<1>2. ASSUME MaskInv, [MaskNext]_maskVars PROVE MaskInv'
  <2>1. ASSUME NEW w \in InWidths, NEW h \in InHeights, OpenAllocates(w, h)
        PROVE  MaskInv'
    <3>1. /\ w \in Nat /\ h \in Nat /\ SizeAllowed(w, h)
          /\ stlmsk_size(w, h) \in Nat
      BY <2>1, MaskAssumption, MaskSize DEF OpenAllocates
    <3>2. /\ insize'.width = w /\ insize'.height = h
          /\ mask_bytes' = stlmsk_size(w, h) * 2
          /\ hard_addr' = <<0, stlmsk_size(w, h)>>
          /\ open_pc' = "init" /\ fdp_up' = fdp_up /\ open_pc = "none"
      BY <2>1 DEF OpenAllocates, MaskGoto
    <3> QED
      BY <1>2, <3>1, <3>2 DEF MaskInv
  <2>2. CASE OpenInits \/ OpenInitFails
    BY <1>2, <2>2 DEF MaskInv, MaskGoto, OpenInits, OpenInitFails
  <2>3. CASE CloseQuits \/ CloseQuitLoses \/ CloseReleases
    BY <1>2, <2>3 DEF MaskInv, MaskGoto, CloseQuits, CloseQuitLoses,
       CloseReleases
  <2>4. CASE UNCHANGED maskVars
    BY <1>2, <2>4 DEF MaskInv, maskVars
  <2> QED
    BY <1>2, <2>1, <2>2, <2>3, <2>4 DEF MaskNext
<1>3. QED
  BY <1>1, <1>2, PTL DEF MaskSpec

\* The bytes of a line hold its pixels, and a line has a pixel at least for
\* every byte.
LEMMA LineBytes ==
    ASSUME NEW w \in Nat, w >= 80
    PROVE  LET b == (w + 7) \div 8
           IN  b \in 1 .. w /\ 8 * b >= w
OBVIOUS

\* For every size Open accepts, both masks lie in the buffer while the driver
\* may use them, and a handle that is gone has left no buffer.
THEOREM MaskSafety == MaskSpec => []MaskOwned
<1>1. ASSUME MaskInv, fdp_up PROVE MasksCover
  <2> DEFINE b == (insize.width + 7) \div 8
             need == 2 * b * insize.height
  <2>1. /\ insize.width \in Nat /\ insize.height \in Nat
        /\ insize.width >= 80
        /\ mask_bytes = need * 2
        /\ hard_addr[1] = 0 /\ hard_addr[2] = need
    BY <1>1 DEF MaskInv, SizeAllowed, stlmsk_size
  <2>2. b \in 1 .. insize.width /\ 8 * b >= insize.width
    BY <2>1, LineBytes
  <2>3. need \in Int
    BY <2>1, <2>2
  <2>4. /\ hard_addr[1] + need <= hard_addr[2]
        /\ hard_addr[2] + need <= mask_bytes
    <3> HIDE DEF need
    <3> QED
      BY <2>1, <2>3
  <2> QED
    BY <2>2, <2>4 DEF MasksCover
<1>2. MaskInv => MasksCover
  BY <1>1 DEF MasksCover
<1>3. MaskInv => MaskReleased
  BY DEF MaskInv, MaskReleased
<1>4. MaskInv => MaskOwned
  BY <1>2, <1>3 DEF MaskOwned
<1>5. QED
  BY <1>4, MaskInvariance, PTL

-----------------------------------------------------------------------------
(* UdsRatio                                                                *)

\* The last call has answered as its arguments demand.
RatioInv ==
    \/ /\ in_size = 0 /\ out_size = 0 /\ ratio_ercd = "NG"
    \/ /\ in_size \in Nat /\ out_size \in Nat
       /\ \/ /\ ratio_ercd = "OK"
             /\ in_size >= 1 /\ out_size >= 1
             /\ ratio = Ratio(in_size, out_size)
             /\ InRange(ratio)
          \/ /\ ratio_ercd = "NG"
             /\ in_size >= 1 /\ out_size >= 1 =>
                   ~InRange(Ratio(in_size, out_size))

THEOREM RatioInvariance == RatioSpec => []RatioInv
<1>1. RatioInit => RatioInv
  BY DEF RatioInit, RatioInv
<1>2. RatioInv /\ [RatioNext]_ratioVars => RatioInv'
  BY RatioAssumption DEF RatioInv, RatioNext, ratioVars, GetRatio,
     GetRatioRefused, Call
<1>3. QED
  BY <1>1, <1>2, PTL DEF RatioSpec

\* What a quotient is.
LEMMA Quotient ==
    ASSUME NEW a \in Nat, NEW b \in Nat, b >= 1
    PROVE  /\ a \div b \in Nat
           /\ b * (a \div b) <= a
           /\ a < b * (a \div b) + b
OBVIOUS

\* The ratio, to the step below it.
LEMMA RatioBounds ==
    ASSUME NEW i \in Nat, NEW o \in Nat, i >= 1, o >= 1
    PROVE  /\ Ratio(i, o) \in Nat
           /\ i < o => /\ (o - 1) * Ratio(i, o) <= (i - 1) * 4096
                       /\ (i - 1) * 4096 < (o - 1) * Ratio(i, o) + (o - 1)
           /\ i >= o => /\ o * Ratio(i, o) <= i * 4096
                        /\ i * 4096 < o * Ratio(i, o) + o
                        /\ Ratio(i, o) >= 4096
<1>1. CASE i < o
  <2>1. (i - 1) * 4096 \in Nat /\ o - 1 \in Nat /\ o - 1 >= 1
    BY <1>1
  <2>2. Ratio(i, o) = ((i - 1) * 4096) \div (o - 1)
    BY <1>1 DEF Ratio, Enlarges
  <2>3. /\ Ratio(i, o) \in Nat
        /\ (o - 1) * Ratio(i, o) <= (i - 1) * 4096
        /\ (i - 1) * 4096 < (o - 1) * Ratio(i, o) + (o - 1)
    <3> DEFINE a == (i - 1) * 4096
               b == o - 1
    <3>1. a \in Nat /\ b \in Nat /\ b >= 1 /\ Ratio(i, o) = a \div b
      BY <2>1, <2>2
    <3> HIDE DEF a, b
    <3>2. /\ Ratio(i, o) \in Nat /\ b * Ratio(i, o) <= a
          /\ a < b * Ratio(i, o) + b
      BY <3>1, Quotient
    <3> QED
      BY <3>2 DEF a, b
  <2> QED
    BY <1>1, <2>1, <2>2, <2>3
<1>2. CASE i >= o
  BY <1>2, Quotient DEF Ratio, Enlarges
<1> QED
  BY <1>1, <1>2

\* For all sizes the scaler stays inside the source.
THEOREM RatioSafety == RatioSpec => []SamplesInside
<1>1. ASSUME RatioInv, ratio_ercd = "OK"
      PROVE  (out_size - 1) * ratio <= (in_size - 1) * 4096
  <2>1. /\ in_size \in Nat /\ out_size \in Nat
        /\ in_size >= 1 /\ out_size >= 1
        /\ ratio = Ratio(in_size, out_size) /\ ratio \in Nat
    BY <1>1, RatioBounds DEF RatioInv
  <2>2. CASE in_size < out_size
    BY <2>1, <2>2, RatioBounds
  <2>3. CASE in_size >= out_size
    <3>1. (out_size - 1) * ratio = out_size * ratio - ratio
      BY <2>1
    <3>2. out_size * ratio <= in_size * 4096 /\ ratio >= 4096
      BY <2>1, <2>3, RatioBounds
    <3>3. out_size * ratio \in Int
      BY <2>1
    <3> QED
      BY <2>1, <3>1, <3>2, <3>3
  <2> QED
    BY <2>1, <2>2, <2>3
<1>2. RatioInv => SamplesInside
  BY <1>1 DEF SamplesInside
<1>3. QED
  BY <1>2, RatioInvariance, PTL

\* For all sizes only the impossible is refused.
THEOREM RatioRefusal == RatioSpec => []RefusesOnlyImpossible
<1>1. ASSUME RatioInv, ratio_ercd = "NG", in_size >= 1, out_size >= 1
      PROVE  in_size >= 16 * out_size \/ out_size - 1 > 16 * (in_size - 1)
  <2>1. in_size \in Nat /\ out_size \in Nat
    BY <1>1 DEF RatioInv
  <2> DEFINE r == Ratio(in_size, out_size)
  <2>2. r \in Nat
    BY <1>1, <2>1, RatioBounds
  <2>3. r < 256 \/ r > 65535
    BY <1>1, <2>2 DEF RatioInv, InRange
  <2>4. CASE in_size < out_size
    <3>1. /\ (out_size - 1) * r <= (in_size - 1) * 4096
          /\ (in_size - 1) * 4096 < (out_size - 1) * r + (out_size - 1)
      BY <1>1, <2>1, <2>4, RatioBounds
    <3>2. r <= 4096
      <4> HIDE DEF r
      <4>1. ASSUME r >= 4097 PROVE FALSE
        <5>1. (out_size - 1) * 4097 <= (out_size - 1) * r
          BY <2>1, <2>2, <2>4, <4>1
        <5> QED
          BY <2>1, <2>2, <2>4, <3>1, <5>1
      <4> QED
        BY <2>2, <4>1
    <3>3. (out_size - 1) * r <= (out_size - 1) * 255
      <4> HIDE DEF r
      <4> QED
        BY <2>1, <2>2, <2>3, <2>4, <3>2
    <3>4. (out_size - 1) * r \in Int
      BY <2>1, <2>2
    <3> HIDE DEF r
    <3> QED
      BY <2>1, <3>1, <3>3, <3>4
  <2>5. CASE in_size >= out_size
    <3>1. r >= 4096 /\ out_size * r <= in_size * 4096
      BY <1>1, <2>1, <2>5, RatioBounds
    <3> HIDE DEF r
    <3>2. out_size * 65536 <= out_size * r
      BY <2>1, <2>2, <2>3, <3>1
    <3>3. out_size * r \in Int
      BY <2>1, <2>2
    <3> QED
      BY <2>1, <3>1, <3>2, <3>3
  <2> QED
    BY <2>1, <2>4, <2>5
<1>2. RatioInv => RefusesOnlyImpossible
  BY <1>1 DEF RefusesOnlyImpossible
<1>3. QED
  BY <1>2, RatioInvariance, PTL
=============================================================================
