----------------------------- MODULE BmcCompare -----------------------------
(***************************************************************************)
(* The dataset comparison of the Best Master Clock Algorithm, bmc.c:       *)
(* portid_cmp, dscmp2 (IEEE 1588 Figure 28, "compare topology") and dscmp  *)
(* (Figure 27, "compare datasets").                                        *)
(*                                                                         *)
(* A dataset argument is a pointer in the code: either NULL or the address *)
(* of a struct dataset.  It is modelled as NULL or as a record that        *)
(* carries the fields of struct dataset together with an `addr` field      *)
(* naming the storage it lives in (the default dataset, a port's best      *)
(* foreign record, ...).  Two references are the same pointer iff they are *)
(* equal records; the comparison itself never reads `addr`.                *)
(*                                                                         *)
(* ClockIdentity is an 8-byte array compared with memcmp; it is modelled   *)
(* as a natural number whose order is the byte order, so the sign of the   *)
(* difference is the sign memcmp returns.  stepsRemoved is a UInteger16    *)
(* widened to unsigned int, so A + 1 cannot wrap and Int is exact.         *)
(***************************************************************************)
EXTENDS Integers, FiniteSetsExt

CONSTANT NULL   \* the NULL struct dataset pointer

(* The comparison outcomes of bmc.h; callers test only their sign. *)
A_BETTER_TOPO == 2
A_BETTER == 1
B_BETTER == -1
B_BETTER_TOPO == -2
Outcomes == {A_BETTER_TOPO, A_BETTER, 0, B_BETTER, B_BETTER_TOPO}

(* Mirror of an outcome: what dscmp(b, a) should return when dscmp(a, b) = r. *)
Mirror(r) == -r

(* The outcome chosen by the sign of a memcmp-style difference. *)
BySign(diff, ifNeg, ifPos) ==
    IF diff < 0 THEN ifNeg ELSE IF diff > 0 THEN ifPos ELSE 0

-----------------------------------------------------------------------------
(* Identity comparator: clock identity bytes first, then the port number. *)
portid_cmp(a, b) ==
    IF a.clockIdentity # b.clockIdentity
    THEN a.clockIdentity - b.clockIdentity
    ELSE a.portNumber - b.portNumber

-----------------------------------------------------------------------------
(* dscmp2, same grandmaster: a path two or more hops shorter wins outright. *)
HopsDecide(A, B) ==
    IF A + 1 < B THEN A_BETTER ELSE IF B + 1 < A THEN B_BETTER ELSE 0

(* Mutant: the A > B branch copied from the A < B branch without renaming. *)
OneHopLongerCopied(a, b) ==
    LET A == a.stepsRemoved
        B == b.stepsRemoved
    IN  IF A < B THEN BySign(portid_cmp(b.receiver, b.sender), A_BETTER, A_BETTER_TOPO)
        ELSE BySign(portid_cmp(b.receiver, b.sender), B_BETTER, B_BETTER_TOPO)

(* dscmp2, paths one hop apart: the longer path's receiver is compared with *)
(* its sender; equality is the standard's "error-1" and yields 0.           *)
OneHopLonger(a, b) ==
    LET A == a.stepsRemoved
        B == b.stepsRemoved
    IN  IF A < B THEN BySign(portid_cmp(b.receiver, b.sender), A_BETTER, A_BETTER_TOPO)
        ELSE BySign(portid_cmp(a.receiver, a.sender), B_BETTER, B_BETTER_TOPO)

(* Mutant: the memcmp difference of the senders returned as the outcome. *)
EqualHopsRawDiff(a, b) ==
    LET bySender == portid_cmp(a.sender, b.sender)
    IN  IF bySender # 0 THEN bySender
        ELSE BySign(a.receiver.portNumber - b.receiver.portNumber,
                    A_BETTER_TOPO, B_BETTER_TOPO)

(* dscmp2, equal hop counts: the lower sender, then the lower receiving    *)
(* port number, wins on topology; a full tie is "error-2" and yields 0.    *)
EqualHops(a, b) ==
    LET bySender == BySign(portid_cmp(a.sender, b.sender), A_BETTER_TOPO, B_BETTER_TOPO)
    IN  IF bySender # 0 THEN bySender
        ELSE BySign(a.receiver.portNumber - b.receiver.portNumber,
                    A_BETTER_TOPO, B_BETTER_TOPO)

dscmp2(a, b) ==
    LET A == a.stepsRemoved
        B == b.stepsRemoved
    IN  CASE HopsDecide(A, B) # 0 -> HopsDecide(A, B)
          [] A # B               -> OneHopLonger(a, b)
          [] OTHER               -> EqualHops(a, b)

-----------------------------------------------------------------------------
(* dscmp, different grandmasters: the fields in order of precedence. *)
QualityVector(d) ==
    <<d.priority1, d.quality.clockClass, d.quality.clockAccuracy,
      d.quality.offsetScaledLogVariance, d.priority2>>

(* Mutant: the final identity tie-break forgotten, a full tie returns 0. *)
NoIdentityTieBreak(a, b) ==
    LET va == QualityVector(a)
        vb == QualityVector(b)
        differ == {i \in DOMAIN va : va[i] # vb[i]}
    IN  IF differ = {} THEN 0
        ELSE IF va[Min(differ)] < vb[Min(differ)] THEN A_BETTER ELSE B_BETTER

(* Mutant: the tie-break's sign read the wrong way round (diff > 0).      *)
IdentityTieReversed(a, b) ==
    LET va == QualityVector(a)
        vb == QualityVector(b)
        differ == {i \in DOMAIN va : va[i] # vb[i]}
    IN  IF differ = {}
        THEN IF a.identity > b.identity THEN A_BETTER ELSE B_BETTER
        ELSE IF va[Min(differ)] < vb[Min(differ)] THEN A_BETTER ELSE B_BETTER

(* The first differing field decides, lower is better; when all are equal *)
(* the memcmp order of the grandmaster identities decides.                *)
QualityOrder(a, b) ==
    LET va == QualityVector(a)
        vb == QualityVector(b)
        differ == {i \in DOMAIN va : va[i] # vb[i]}
    IN  IF differ = {}
        THEN IF a.identity < b.identity THEN A_BETTER ELSE B_BETTER
        ELSE IF va[Min(differ)] < vb[Min(differ)] THEN A_BETTER ELSE B_BETTER

dscmp(a, b) ==
    CASE a = b                   -> 0
      [] b = NULL                -> A_BETTER
      [] a = NULL                -> B_BETTER
      [] a.identity = b.identity -> dscmp2(a, b)
      [] OTHER                   -> QualityOrder(a, b)

=============================================================================
