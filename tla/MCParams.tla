------------------------------ MODULE MCParams ------------------------------
(* The modules about parameters for TLC: VspParam, JobLinks, FdpMask and    *)
(* UdsRatio share no state, so a behaviour is one of any one of them.       *)
EXTENDS VspParam, JobLinks, FdpMask, UdsRatio

VARIABLE machine

MCVars == <<vars, linkVars, maskVars, ratioVars, machine>>

MCInit ==
    /\ Init /\ LinkInit /\ MaskInit /\ RatioInit
    /\ machine \in {"VspParam", "JobLinks", "FdpMask", "UdsRatio"}

MCNext ==
    /\ UNCHANGED machine
    /\ \/ /\ machine = "VspParam"
          /\ Next
          /\ UNCHANGED <<linkVars, maskVars, ratioVars>>
       \/ /\ machine = "JobLinks"
          /\ LinkNext
          /\ UNCHANGED <<vars, maskVars, ratioVars>>
       \/ /\ machine = "FdpMask"
          /\ MaskNext
          /\ UNCHANGED <<vars, linkVars, ratioVars>>
       \/ /\ machine = "UdsRatio"
          /\ RatioNext
          /\ UNCHANGED <<vars, linkVars, maskVars>>

MCSpec == MCInit /\ [][MCNext]_MCVars

\* Sizes on both sides of each limit.
MCUsedSrcs == {"src1", "src2"}
MCLutSizes == {-1, 256, 257}
MCCluSizes == {-1, 4913, 4914}
MCWidths == {0, 256, 257, 65535}
MCInWidths == {79, 80, 82, 84, 1918, 1920, 1922}
MCInHeights == {39, 40, 41, 1920, 1921}
MCSizes == {0, 1, 2, 15, 16, 17, 18, 31, 32, 33, 100, 1600, 1617, 65535}

\* To the FDP every choice of the parts that are read, with none, one or all of
\* the others; to the VSP requests with few parts, or almost all.
MCFdpRequests ==
    {r \cup u : r \in SUBSET FdpParts,
                u \in {{}, FdpUnread} \cup {{p} : p \in FdpUnread}}
MCVspGiven == (VspParts \ {"irop", "ckey"}) \cup VspUnread
MCSrcRequests ==
    {{"src"} \cup s : s \in SUBSET {"clut", "alpha", "clrcnv", "keyed"}}
MCVspRequests ==
    MCSrcRequests
    \cup {{"ctrl", p} : p \in MCVspGiven}
    \cup {{"ctrl", "bru", p} : p \in MCVspGiven}
    \cup {MCVspGiven \ {p} : p \in MCVspGiven}
    \cup {{}, MCVspGiven}
=============================================================================
