-------------------------- MODULE VspParamProofs ---------------------------
(***************************************************************************)
(* Theorems about VspParam, for all sizes a short can hold and all widths  *)
(* an unsigned short can hold.  The inductive invariant adds to the        *)
(* properties that a part not converted yet has no buffer (NotYet), so     *)
(* that an allocation never overwrites the only pointer to one, and how    *)
(* long the buffers of histograms are (HistogramLength).                   *)
(***************************************************************************)
EXTENDS VspParam, TLAPS

\* The parts with buffers that are converted before part p.
Converted ==
    [src1 |-> {}, src2 |-> {"src1"}, src3 |-> {"src1", "src2"},
     src4 |-> {"src1", "src2", "src3"}, dst |-> Srcs, lut |-> Srcs,
     clu |-> Luts, hgo |-> Tables, hgt |-> Tables \cup {"hgo"}, dl |-> Bufs]

NotYet == \A p \in Parts : pc = p => ptr \subseteq Converted[p]

HistogramLength == \A b \in Histograms \cap heap : bytes[b] >= 768

\* What the callback has copied comes from buffers the record points to.
CopiedFromRecord == pc = "callback" => copied \subseteq ptr

IInv ==
    /\ TypeOK /\ BuffersAccounted /\ TablesFit /\ DisplayListCovers
    /\ NotYet /\ HistogramLength /\ CopiedFromRecord

-----------------------------------------------------------------------------
(* Numbers                                                                 *)

\* The limits, for leaves in which the definitions stay hidden.
LEMMA Limits == ShortMax = 32767 /\ UShortMax = 65535
BY DEF ShortMax, UShortMax

\* The ranges as inequalities between limits that stay symbols.
LEMMA Ranges ==
    /\ \A n : n \in UShorts <=> n \in Nat /\ n <= UShortMax
    /\ \A n : n \in Shorts <=>
                n \in Int /\ -(ShortMax + 1) <= n /\ n <= ShortMax
<1>1. ShortMax \in Nat /\ UShortMax \in Nat
  BY DEF ShortMax, UShortMax
<1> QED
  BY <1>1 DEF Shorts, UShorts

\* The cast to unsigned short stays in range, and changes no number that is in
\* range already.
LEMMA CastRange ==
    ASSUME NEW n \in Int
    PROVE  /\ UShort(n) \in UShorts
           /\ n \in UShorts => UShort(n) = n
<1> DEFINE m == UShortMax + 1
<1>1. m \in Int /\ m > 0 /\ m - 1 = UShortMax
  BY Limits
<1> HIDE DEF m
<1>2. n % m \in 0 .. m - 1
  BY <1>1
<1>3. n \in 0 .. m - 1 => n % m = n
  BY <1>1
<1> QED
  BY <1>1, <1>2, <1>3 DEF UShort, UShorts, m

\* The number of entries of a look-up table: as long as what the driver is told
\* unless the client gave more than 256.
LEMMA LutNumber ==
    ASSUME NEW size \in Shorts
    PROVE  /\ LutNum(size) \in Nat /\ UShort(size) \in UShorts
           /\ \/ LutNum(size) = UShort(size)
              \/ 256 < UShort(size) /\ UShort(size) <= ShortMax
<1>1. size \in Int /\ size <= ShortMax
  BY Ranges
<1>2. UShort(size) \in UShorts
  BY <1>1, CastRange
<1>3. CASE size > 256
  <2>1. size \in UShorts
    BY <1>1, <1>3, Limits, Ranges
  <2>2. UShort(size) = size
    BY <2>1, <1>1, CastRange
  <2> QED
    BY <1>1, <1>2, <1>3, <2>2 DEF LutNum
<1>4. CASE ~ size > 256
  BY <1>2, <1>4, Ranges DEF LutNum
<1> QED
  BY <1>3, <1>4

\* The number of entries of a cubic look-up table.
LEMMA CluNumber ==
    ASSUME NEW size \in Shorts
    PROVE  CluNum(size) \in Nat /\ CluNum(size) <= 4913
<1>1. size \in Int
  BY Ranges
<1>2. UShort(size) \in Nat
  BY <1>1, CastRange, Ranges
<1> QED
  BY <1>2 DEF CluNum

\* The length of the display list, for every width.
LEMMA DisplayList ==
    ASSUME NEW w \in UShorts, w # 0
    PROVE  LET n == (w + 255) \div 256 IN
           /\ n \in Int /\ 1 <= n /\ n <= 256
           /\ w <= 256 * n
           /\ 256 * (n - 1) < w
<1>1. w \in Int /\ 1 <= w /\ w <= 65535
  BY Limits, Ranges
<1> QED
  BY <1>1

-----------------------------------------------------------------------------

\* Taking part p: where the conversion goes from there.
LEMMA NextPartType ==
    ASSUME NEW p \in Parts
    PROVE  /\ NextPart[p] \in Pcs
           /\ NextPart[p] # "free"
           /\ NextPart[p] \in {"driver", "callback"} => FALSE
           /\ p # "dl" => NextPart[p] \in Parts
           /\ NextPart[p] = "entry" => p = "dl"
BY DEF Parts, Pcs, NextPart, Bufs, Tables, Luts, Srcs, Histograms

\* The parts converted before the next part: those before p, and p.
LEMMA ConvertedGrows ==
    ASSUME NEW p \in Parts, p # "dl"
    PROVE  /\ Converted[p] \subseteq Converted[NextPart[p]]
           /\ p \in Bufs => p \in Converted[NextPart[p]]
           /\ p \in Bufs => p \notin Converted[p]
BY DEF Parts, NextPart, Converted, Bufs, Tables, Luts, Srcs, Histograms

\* An allocation for part b, or none, of any length n: the record still points
\* to exactly the buffers it has.
LEMMA OneBuffer ==
    ASSUME IInv, NEW b \in Bufs, NEW n \in Nat, Converts(b),
           Get(b, n) \/ GetNone(b)
    PROVE  /\ pc' \in Pcs /\ pc' # "free" /\ pc' \in Parts
           /\ heap' \subseteq Bufs /\ ptr' \subseteq Bufs
           /\ bytes' \in [Bufs -> Nat]
           /\ BuffersAccounted' /\ NotYet'
           /\ \A c \in heap' \ {b} : c \in heap /\ bytes'[c] = bytes[c]
           /\ b \in heap' => bytes'[b] = n
<1>1. /\ pc = b /\ b \in Parts /\ b # "dl" /\ b # "free" /\ pc' = NextPart[b]
  BY DEF Converts, Parts, Bufs, Tables, Luts, Srcs, Histograms
<1>2. ptr \subseteq Converted[b] /\ heap = ptr
  BY <1>1 DEF IInv, NotYet, BuffersAccounted
<1>3. b \notin heap
  BY <1>1, <1>2, ConvertedGrows
<1>4. pc' \in Pcs /\ pc' # "free" /\ pc' \in Parts
  BY <1>1, NextPartType
<1>5. heap \subseteq Bufs /\ ptr \subseteq Bufs /\ bytes \in [Bufs -> Nat]
  BY DEF IInv, TypeOK
<1>6. CASE Get(b, n)
  <2>1. heap' = heap \cup {b} /\ ptr' = ptr \cup {b}
    BY <1>6 DEF Get
  <2>2. bytes' \in [Bufs -> Nat] /\ bytes'[b] = n
        /\ \A c \in Bufs \ {b} : bytes'[c] = bytes[c]
    BY <1>5, <1>6 DEF Get
  <2>3. ptr' \subseteq Converted[NextPart[b]]
    BY <1>1, <1>2, <2>1, ConvertedGrows
  <2> QED
    BY <1>1, <1>2, <1>4, <1>5, <2>1, <2>2, <2>3 DEF BuffersAccounted, NotYet
<1>7. CASE GetNone(b)
  <2>1. heap' = heap /\ bytes' = bytes /\ ptr' = ptr
    BY <1>2, <1>3, <1>7 DEF GetNone
  <2>2. ptr' \subseteq Converted[NextPart[b]]
    BY <1>1, <1>2, <2>1, ConvertedGrows
  <2> QED
    BY <1>1, <1>2, <1>3, <1>4, <1>5, <2>1, <2>2 DEF BuffersAccounted, NotYet
<1> QED
  BY <1>6, <1>7

\* Initially there is no buffer.
LEMMA InitIInv == Init => IInv
<1> SUFFICES ASSUME Init
             PROVE  IInv
  OBVIOUS
<1>1. 0 \in UShorts /\ pc \in Pcs /\ pc = "free"
  BY Limits, Ranges DEF Init, Pcs
<1>2. NotYet
  BY <1>1 DEF NotYet, Parts, Bufs, Tables, Luts, Srcs, Histograms
<1> QED
  BY <1>1, <1>2 DEF Init, IInv, TypeOK, BuffersAccounted, TablesFit,
     DisplayListCovers, HistogramLength, CopiedFromRecord

\* Every step keeps the invariant.
LEMMA StepIInv == IInv /\ [Next]_vars => IInv'
<1> SUFFICES ASSUME IInv, [Next]_vars
             PROVE  IInv'
  OBVIOUS
<1>1. CASE Allocate
  <2>1. pc' = "src1" /\ ptr' = {} /\ heap' = {} /\ bytes' = bytes
    BY <1>1 DEF Allocate, IInv, BuffersAccounted
  <2>2. TypeOK'
    <3>1. 0 \in UShorts /\ pc' \in Pcs
      BY <2>1, Limits, Ranges DEF Pcs, Parts, Bufs, Tables, Luts, Srcs
    <3> QED
      BY <1>1, <2>1, <3>1 DEF Allocate, IInv, TypeOK
  <2> QED
    BY <2>1, <2>2 DEF IInv, BuffersAccounted, TablesFit, DisplayListCovers,
                      NotYet, HistogramLength, CopiedFromRecord
<1>2. ASSUME NEW p \in Parts \ {"dl"}, Absent(p)
      PROVE  IInv'
  <2>1. /\ pc = p /\ pc' = NextPart[p]
        /\ heap' = heap /\ bytes' = bytes /\ ptr' = ptr /\ tbl_num' = tbl_num
        /\ width' = width /\ dl_num' = dl_num /\ copied' = copied
    BY <1>2 DEF Absent, Converts, bufVars
  <2>2. pc' \in Parts /\ pc' \in Pcs /\ pc # "free" /\ pc' # "free"
        /\ pc' \notin {"entry", "driver", "callback"}
    BY <2>1, NextPartType
       DEF Parts, Bufs, Tables, Luts, Srcs, Histograms
  <2>3. NotYet'
    BY <2>1, ConvertedGrows DEF IInv, NotYet
  <2> QED
    BY <2>1, <2>2, <2>3 DEF IInv, TypeOK, BuffersAccounted, TablesFit,
       DisplayListCovers, HistogramLength, CopiedFromRecord
<1>3. ASSUME NEW b \in UsedSrcs \cup {"lut"}, NEW size \in LutSizes,
             SetLut(b, size)
      PROVE  IInv'
  <2>1. b \in Bufs /\ b \in Luts /\ b \in Tables /\ b \notin Histograms
    BY ParamAssumption DEF Bufs, Tables, Luts, Srcs, Histograms
  <2>2. /\ LutNum(size) \in Nat /\ UShort(size) \in UShorts
        /\ \/ LutNum(size) = UShort(size)
           \/ 256 < UShort(size) /\ UShort(size) <= ShortMax
    BY LutNumber, ParamAssumption
  <2>3. LutNum(size) * 8 \in Nat
    BY <2>2
  <2>4. Converts(b) /\ (Get(b, LutNum(size) * 8) \/ GetNone(b))
    BY <1>3 DEF SetLut
  <2>5. /\ pc' \in Pcs /\ pc' # "free" /\ pc' \in Parts
        /\ heap' \subseteq Bufs /\ ptr' \subseteq Bufs
        /\ bytes' \in [Bufs -> Nat]
        /\ BuffersAccounted' /\ NotYet'
        /\ \A c \in heap' \ {b} : c \in heap /\ bytes'[c] = bytes[c]
        /\ b \in heap' => bytes'[b] = LutNum(size) * 8
    BY <2>1, <2>3, <2>4, OneBuffer
  <2>6. /\ tbl_num' \in [Tables -> UShorts] /\ tbl_num'[b] = UShort(size)
        /\ \A c \in Tables \ {b} : tbl_num'[c] = tbl_num[c]
        /\ width' = width /\ dl_num' = dl_num /\ copied' = copied
    BY <1>3, <2>1, <2>2 DEF SetLut, Converts, IInv, TypeOK
  <2>7. TablesFit'
    <3> SUFFICES ASSUME NEW c \in Tables \cap heap'
                 PROVE  \/ tbl_num'[c] * 8 <= bytes'[c]
                        \/ /\ c \in Luts
                           /\ 256 < tbl_num'[c] /\ tbl_num'[c] <= ShortMax
      BY DEF TablesFit
    <3>1. CASE c = b
      BY <2>1, <2>2, <2>5, <2>6, <3>1, Ranges
    <3>2. CASE c # b
      BY <2>5, <2>6, <3>2 DEF IInv, TablesFit
    <3> QED
      BY <3>1, <3>2
  <2>8. pc' \notin {"entry", "driver", "callback"}
    BY <2>5 DEF Parts, Bufs, Tables, Luts, Srcs, Histograms
  <2>9. HistogramLength'
    BY <2>1, <2>5 DEF IInv, HistogramLength
  <2> QED
    BY <2>5, <2>6, <2>7, <2>8, <2>9
       DEF IInv, TypeOK, DisplayListCovers, CopiedFromRecord
<1>4. ASSUME NEW size \in CluSizes, NEW perEntry \in {1, 2},
             SetClu(size, perEntry)
      PROVE  IInv'
  <2>1. "clu" \in Bufs /\ "clu" \in Tables /\ "clu" \notin Histograms
    BY DEF Bufs, Tables, Histograms
  <2>2. CluNum(size) \in Nat /\ CluNum(size) <= 4913
    BY CluNumber, ParamAssumption
  <2>3. /\ CluNum(size) * 8 * perEntry \in Nat
        /\ CluNum(size) * perEntry \in UShorts
        /\ (CluNum(size) * perEntry) * 8 <= CluNum(size) * 8 * perEntry
    <3>1. CASE perEntry = 1
      BY <2>2, <3>1, Limits, Ranges
    <3>2. CASE perEntry = 2
      BY <2>2, <3>2, Limits, Ranges
    <3> QED
      BY <3>1, <3>2
  <2>4. /\ Converts("clu")
        /\ Get("clu", CluNum(size) * 8 * perEntry) \/ GetNone("clu")
    BY <1>4 DEF SetClu
  <2>5. /\ pc' \in Pcs /\ pc' # "free" /\ pc' \in Parts
        /\ heap' \subseteq Bufs /\ ptr' \subseteq Bufs
        /\ bytes' \in [Bufs -> Nat]
        /\ BuffersAccounted' /\ NotYet'
        /\ \A c \in heap' \ {"clu"} : c \in heap /\ bytes'[c] = bytes[c]
        /\ "clu" \in heap' => bytes'["clu"] = CluNum(size) * 8 * perEntry
    BY <2>1, <2>3, <2>4, OneBuffer
  <2>6. /\ tbl_num' \in [Tables -> UShorts]
        /\ tbl_num'["clu"] = CluNum(size) * perEntry
        /\ \A c \in Tables \ {"clu"} : tbl_num'[c] = tbl_num[c]
        /\ width' = width /\ dl_num' = dl_num /\ copied' = copied
    BY <1>4, <2>1, <2>3 DEF SetClu, Converts, IInv, TypeOK
  <2>7. TablesFit'
    <3> SUFFICES ASSUME NEW c \in Tables \cap heap'
                 PROVE  \/ tbl_num'[c] * 8 <= bytes'[c]
                        \/ /\ c \in Luts
                           /\ 256 < tbl_num'[c] /\ tbl_num'[c] <= ShortMax
      BY DEF TablesFit
    <3>1. CASE c = "clu"
      BY <2>3, <2>5, <2>6, <3>1
    <3>2. CASE c # "clu"
      BY <2>5, <2>6, <3>2 DEF IInv, TablesFit
    <3> QED
      BY <3>1, <3>2
  <2>8. pc' \notin {"entry", "driver", "callback"}
    BY <2>5 DEF Parts, Bufs, Tables, Luts, Srcs, Histograms
  <2>9. HistogramLength'
    BY <2>1, <2>5 DEF IInv, HistogramLength
  <2> QED
    BY <2>5, <2>6, <2>7, <2>8, <2>9
       DEF IInv, TypeOK, DisplayListCovers, CopiedFromRecord
<1>5. CASE SetCluEmpty
  <2>1. "clu" \in Bufs /\ 0 \in Nat
    BY DEF Bufs, Tables
  <2>2. /\ pc' \in Pcs /\ pc' # "free" /\ pc' \in Parts
        /\ heap' \subseteq Bufs /\ ptr' \subseteq Bufs
        /\ bytes' \in [Bufs -> Nat]
        /\ BuffersAccounted' /\ NotYet'
    BY <1>5, <2>1, OneBuffer DEF SetCluEmpty
  <2>3. /\ heap' = heap /\ bytes' = bytes /\ tbl_num' = tbl_num
        /\ width' = width /\ dl_num' = dl_num /\ copied' = copied
    BY <1>5 DEF SetCluEmpty, GetNone, Converts
  <2>4. pc' \notin {"entry", "driver", "callback"}
    BY <2>2 DEF Parts, Bufs, Tables, Luts, Srcs, Histograms
  <2> QED
    BY <2>2, <2>3, <2>4 DEF IInv, TypeOK, TablesFit, DisplayListCovers,
       HistogramLength, CopiedFromRecord
<1>6. ASSUME NEW b \in Histograms, SetHistogram(b)
      PROVE  IInv'
  <2> DEFINE n == IF b = "hgo" THEN 1088 ELSE 800
  <2>1. b \in Bufs /\ b \notin Tables /\ n \in Nat /\ n >= 768
    BY DEF Bufs, Tables, Luts, Srcs, Histograms
  <2>2. Converts(b) /\ (Get(b, n) \/ GetNone(b))
    BY <1>6 DEF SetHistogram
  <2> HIDE DEF n
  <2>3. /\ pc' \in Pcs /\ pc' # "free" /\ pc' \in Parts
        /\ heap' \subseteq Bufs /\ ptr' \subseteq Bufs
        /\ bytes' \in [Bufs -> Nat]
        /\ BuffersAccounted' /\ NotYet'
        /\ \A c \in heap' \ {b} : c \in heap /\ bytes'[c] = bytes[c]
        /\ b \in heap' => bytes'[b] = n
    BY <2>1, <2>2, OneBuffer
  <2>4. /\ tbl_num' = tbl_num
        /\ width' = width /\ dl_num' = dl_num /\ copied' = copied
    BY <1>6 DEF SetHistogram, Converts
  <2>5. pc' \notin {"entry", "driver", "callback"}
    BY <2>3 DEF Parts, Bufs, Tables, Luts, Srcs, Histograms
  <2>6. TablesFit'
    BY <2>1, <2>3, <2>4 DEF IInv, TablesFit
  <2>7. HistogramLength'
    BY <2>1, <2>3 DEF IInv, HistogramLength
  <2> QED
    BY <2>3, <2>4, <2>5, <2>6, <2>7
       DEF IInv, TypeOK, DisplayListCovers, CopiedFromRecord
<1>7. CASE SetDst
  <2>1. /\ pc = "dst" /\ pc' = "lut" /\ width' \in UShorts
        /\ heap' = heap /\ bytes' = bytes /\ ptr' = ptr /\ tbl_num' = tbl_num
        /\ dl_num' = dl_num /\ copied' = copied
    BY <1>7, ParamAssumption DEF SetDst, Converts, NextPart, bufVars
  <2>2. NotYet'
    BY <2>1 DEF IInv, NotYet, Converted, Parts
  <2>3. pc' \in Pcs
    BY <2>1 DEF Pcs, Parts, Bufs, Tables, Luts
  <2> QED
    BY <2>1, <2>2, <2>3 DEF IInv, TypeOK, BuffersAccounted, TablesFit,
       DisplayListCovers, HistogramLength, CopiedFromRecord
<1>8. CASE SetDl
  <2>1. /\ pc = "dl" /\ pc' = "entry" /\ width' = width
        /\ heap' = heap /\ bytes' = bytes /\ ptr' = ptr /\ tbl_num' = tbl_num
        /\ copied' = copied
        /\ dl_num' = IF width = 0 THEN 192
                     ELSE 192 + 64 * (((width + 255) \div 256) - 1)
    BY <1>8 DEF SetDl, Converts, NextPart, bufVars
  <2>2. DisplayListCovers' /\ dl_num' \in UShorts
    <3>1. CASE width = 0
      <4>1. dl_num' = 192 /\ width' = 0 /\ 1 \in 1 .. width' + 1
        BY <2>1, <3>1
      <4> QED
        BY <4>1, Limits, Ranges DEF DisplayListCovers
    <3>2. CASE width # 0
      <4> DEFINE n == (width + 255) \div 256
      <4>1. /\ n \in Int /\ 1 <= n /\ n <= 256
            /\ width <= 256 * n /\ 256 * (n - 1) < width
        BY <3>2, DisplayList DEF IInv, TypeOK
      <4>2. dl_num' = 192 + 64 * (n - 1)
        BY <2>1, <3>2
      <4> HIDE DEF n
      <4>3. n \in 1 .. width' + 1
        BY <2>1, <3>2, <4>1, Ranges DEF IInv, TypeOK
      <4> QED
        BY <2>1, <4>1, <4>2, <4>3, Limits, Ranges DEF DisplayListCovers
    <3> QED
      BY <3>1, <3>2
  <2>3. NotYet'
    BY <2>1 DEF NotYet, Parts, Bufs, Tables, Luts, Srcs, Histograms
  <2>4. pc' \in Pcs
    BY <2>1 DEF Pcs
  <2> QED
    BY <2>1, <2>2, <2>3, <2>4 DEF IInv, TypeOK, BuffersAccounted, TablesFit,
       HistogramLength, CopiedFromRecord
<1>9. CASE Accepted \/ \E C \in SUBSET Histograms : CopyHistogram(C)
  <2>1. /\ pc \in {"entry", "driver"} /\ pc' \in {"driver", "callback"}
        /\ heap' = heap /\ bytes' = bytes /\ ptr' = ptr /\ tbl_num' = tbl_num
        /\ width' = width /\ dl_num' = dl_num
        /\ copied' \subseteq Histograms
        /\ pc' = "callback" => copied' \subseteq ptr'
    BY <1>9 DEF Accepted, CopyHistogram, bufVars, IInv, TypeOK
  <2>2. NotYet'
    BY <2>1 DEF NotYet, Parts, Bufs, Tables, Luts, Srcs, Histograms
  <2> QED
    BY <2>1, <2>2 DEF IInv, TypeOK, BuffersAccounted, TablesFit,
       DisplayListCovers, HistogramLength, CopiedFromRecord, Pcs
<1>10. CASE Release
  <2>1. /\ pc' = "free" /\ heap = ptr /\ heap' = {} /\ ptr' = ptr
        /\ tbl_num' = tbl_num /\ width' = width /\ dl_num' = dl_num
        /\ copied' = copied /\ bytes' \in [Bufs -> Nat]
    BY <1>10 DEF Release, IInv, TypeOK, BuffersAccounted
  <2>2. NotYet'
    BY <2>1 DEF NotYet, Parts, Bufs, Tables, Luts, Srcs, Histograms
  <2> QED
    BY <2>1, <2>2 DEF IInv, TypeOK, BuffersAccounted, TablesFit,
       DisplayListCovers, HistogramLength, CopiedFromRecord, Pcs
<1>11. CASE UNCHANGED vars
  BY <1>11 DEF vars, bufVars, IInv, TypeOK, BuffersAccounted, TablesFit,
     DisplayListCovers, NotYet, HistogramLength, CopiedFromRecord
<1> QED
  BY <1>1, <1>2, <1>3, <1>4, <1>5, <1>6, <1>7, <1>8, <1>9, <1>10, <1>11
     DEF Next

\* The inductive invariant holds in every reachable state: what the record
\* points to, how long it is, and what is not converted yet.
THEOREM Invariance == Spec => []IInv
BY InitIInv, StepIInv, PTL DEF Spec

\* The fields hold what their C types can hold, for all sizes and widths.
THEOREM TypeCorrect == Spec => []TypeOK
<1>1. IInv => TypeOK
  BY DEF IInv
<1> QED
  BY Invariance, <1>1, PTL

\* Whatever allocations fail, a release frees exactly the record's buffers.
THEOREM ReleaseExact == Spec => []BuffersAccounted
<1>1. IInv => BuffersAccounted
  BY DEF IInv
<1> QED
  BY Invariance, <1>1, PTL

\* No table is longer than its buffer, for every size that is a short, except a
\* look-up table of more than 256 entries.
THEOREM TableSafety == Spec => []TablesFit
<1>1. IInv => TablesFit
  BY DEF IInv
<1> QED
  BY Invariance, <1>1, PTL

\* The histograms that reach the client are read from live, large enough
\* buffers.
THEOREM HistogramSafety == Spec => []HistogramsFromBuffers
<1>1. IInv => HistogramsFromBuffers
  <2> SUFFICES ASSUME IInv, pc = "callback", NEW b \in copied
               PROVE  b \in heap /\ bytes[b] >= 768
    BY DEF HistogramsFromBuffers
  <2>1. b \in ptr /\ heap = ptr /\ b \in Histograms
    BY DEF IInv, CopiedFromRecord, BuffersAccounted, TypeOK
  <2> QED
    BY <2>1 DEF IInv, HistogramLength
<1> QED
  BY Invariance, <1>1, PTL

\* The display list is as long as the destination's strips need, for every
\* width.
THEOREM DisplayListLength == Spec => []DisplayListCovers
<1>1. IInv => DisplayListCovers
  BY DEF IInv
<1> QED
  BY Invariance, <1>1, PTL
=============================================================================
