------------------------------ MODULE UdsRatio ------------------------------
(***************************************************************************)
(* VSPM_lib_PVioUdsGetRatio (vspm_api_vsp.c): the ratio register of the    *)
(* scaler, in 1/4096 of a source pixel for one destination pixel, with     *)
(* AMD=0, where the first and the last pixels of both images meet when an  *)
(* image is enlarged.                                                      *)
(***************************************************************************)
EXTENDS Integers

CONSTANT Sizes      \* sizes of images, unsigned shorts

ASSUME RatioAssumption == Sizes \subseteq Nat

VARIABLES
    in_size, out_size,      \* the arguments of the last call
    ratio_ercd,             \* its result; "NG" before the first
    ratio                   \* *ushRatio, the client's memory

ratioVars == <<in_size, out_size, ratio_ercd, ratio>>

RatioInit ==
    /\ in_size = 0 /\ out_size = 0
    /\ ratio_ercd = "NG"
    /\ ratio = 0

Enlarges(i, o) == i < o

\* Mutant of Ratio: the steps between the pixels are not taken.
RatioOfSizes(i, o) == (i * 4096) \div o

Ratio(i, o) ==
    IF Enlarges(i, o) THEN ((i - 1) * 4096) \div (o - 1)
    ELSE (i * 4096) \div o

\* Mutant of InRange: the lower limit itself is refused.
InRangeStrict(r) == 256 < r /\ r <= 65535

InRange(r) == 256 <= r /\ r <= 65535

Call(i, o) ==
    /\ in_size' = i
    /\ out_size' = o

GetRatio(i, o) ==
    /\ Call(i, o)
    /\ i >= 1 /\ o >= 1
    /\ InRange(Ratio(i, o))
    /\ ratio' = Ratio(i, o)
    /\ ratio_ercd' = "OK"

GetRatioRefused(i, o) ==
    /\ Call(i, o)
    /\ i >= 1 /\ o >= 1 => ~InRange(Ratio(i, o))
    /\ ratio_ercd' = "NG"
    /\ UNCHANGED ratio

RatioNext == \E i, o \in Sizes : GetRatio(i, o) \/ GetRatioRefused(i, o)

RatioSpec == RatioInit /\ [][RatioNext]_ratioVars

-----------------------------------------------------------------------------
(* Properties                                                              *)

\* With the ratio it is given, the scaler takes every destination pixel from
\* inside the source: the last one lies out_size - 1 steps of ratio / 4096
\* pixels behind the first.
SamplesInside ==
    ratio_ercd = "OK" => (out_size - 1) * ratio <= (in_size - 1) * 4096

\* Only what the scaler cannot do is refused: to reduce an image to a sixteenth
\* or less, or to enlarge it by more than sixteen.
RefusesOnlyImpossible ==
    ratio_ercd = "NG" /\ in_size >= 1 /\ out_size >= 1 =>
        in_size >= 16 * out_size \/ out_size - 1 > 16 * (in_size - 1)
=============================================================================
