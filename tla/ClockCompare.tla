---------------------------- MODULE ClockCompare ----------------------------
(***************************************************************************)
(* clockadj_compare (clockadj.c): read the system clock, the other clock  *)
(* and the system clock again, `readings` times, and report the offset    *)
(* and timestamp of the reading with the shortest interval between the    *)
(* two system clock reads, and that interval as the delay.               *)
(*                                                                         *)
(* A caller (phc2sys-style) calls it with a readings count; each         *)
(* iteration's three do_clock_gettime calls are one outcome of the        *)
(* environment: FAIL (one of the three reads failed) or the three values. *)
(* The values come from a true time tau that increases from read to      *)
(* read: sysclk reads tau + Sigma, the other clock reads tau + Theta, and *)
(* the system clock may be stepped by a delta between the first and the  *)
(* second system clock read (another process setting CLOCK_REALTIME).    *)
(* A struct timespec is abstracted to its value in nanoseconds: the code  *)
(* recombines tv_sec and tv_nsec exactly.                                 *)
(***************************************************************************)
EXTENDS Integers, Sequences

CONSTANTS
    ReadTimes,    \* true times at which the clocks may be read
    Sigma,        \* offset of the system clock from true time
    Theta,        \* offset of the other clock from true time
    Steps,        \* deltas by which the system clock may be stepped
    MaxReadings,  \* largest readings count a caller passes
    INT64_MAX,    \* initial best_interval
    FAIL,         \* a do_clock_gettime call failed
    NONE          \* an output the call never wrote

ASSUME 0 \in Steps

Quot(a, b) == IF a < 0 THEN -((-a) \div b) ELSE a \div b    \* C division, b > 0

(* One iteration's clock reads at true times u < v < w, with the system   *)
(* clock stepped by d between its two reads.                              *)
Reading(u, v, w, d) == [tdst1 |-> u + Sigma, tsrc |-> v + Theta, tdst2 |-> w + Sigma + d]

ReadsOf(u, v, w) == u < v /\ v < w

(* The outcomes an iteration can have: reads in increasing true time. *)
Iterations ==
    {FAIL} \cup {Reading(u, v, w, d) : <<u, v, w>> \in
                    {t \in ReadTimes \X ReadTimes \X ReadTimes : ReadsOf(t[1], t[2], t[3])},
                 d \in Steps}

VARIABLES
    rs,           \* the outcomes of the iterations of the call
    out           \* what the call returned and wrote: ret, offset, ts, delay

vars == <<rs, out>>

-----------------------------------------------------------------------------
(* Mutant: a tie replaces the best reading (>= instead of >). *)
TakeLaterTie(best_interval, interval) == best_interval >= interval

(* The condition under which a reading replaces the best one so far. *)
Quicker(best_interval, interval) == best_interval > interval

(* Mutant: the half interval left out, the first system clock read taken *)
(* as the time of the other clock's read.                                 *)
OffsetNoHalf(x, interval) == x.tdst1 - x.tsrc

(* The offset of a reading: system clock at the midpoint of its two reads *)
(* minus the other clock.                                                 *)
OffsetOf(x, interval) == x.tdst1 - x.tsrc + Quot(interval, 2)

(* The loop of clockadj_compare from iteration i: the interval of the     *)
(* reading, and offset and ts written when it is strictly shorter than    *)
(* the best so far; a failed read returns -errno at once, leaving *delay  *)
(* unwritten and *offset, *ts as the earlier iterations left them.       *)
RECURSIVE Loop(_, _, _)
Loop(r, i, acc) ==
    IF i > Len(r) THEN [acc EXCEPT !.ret = 0, !.delay = acc.best]
    ELSE IF r[i] = FAIL THEN [acc EXCEPT !.ret = -1]
    ELSE LET x == r[i]
             interval == x.tdst2 - x.tdst1
         IN  Loop(r, i + 1,
                  IF Quicker(acc.best, interval)
                  THEN [acc EXCEPT !.best = interval,
                                   !.offset = OffsetOf(x, interval),
                                   !.ts = x.tdst2]
                  ELSE acc)

clockadj_compare(r) ==
    LET res == Loop(r, 1, [ret |-> NONE, offset |-> NONE, ts |-> NONE,
                           delay |-> NONE, best |-> INT64_MAX])
    IN  [ret |-> res.ret, offset |-> res.offset, ts |-> res.ts, delay |-> res.delay]

Init ==
    /\ rs = <<>>
    /\ out = NONE

(* Every call a caller can make: a readings count n up to MaxReadings,   *)
(* and one outcome per iteration, up to the first failure.                *)
Calls ==
    UNION {{r \in [1 .. n -> Iterations] : \A i \in 1 .. n : r[i] = FAIL => i = n} :
           n \in 0 .. MaxReadings}

(* The caller (a servo loop, calling again and again) calls               *)
(* clockadj_compare once more.                                            *)
Call ==
    \E r \in Calls :
        /\ rs' = r
        /\ out' = clockadj_compare(r)

Next == Call

Spec == Init /\ [][Next]_vars

-----------------------------------------------------------------------------
Abs(x) == IF x < 0 THEN -x ELSE x

Interval(x) == x.tdst2 - x.tdst1

(* What the call should report, defined from the readings: up to the     *)
(* first failure, the earliest reading of least interval supplies offset *)
(* and ts; delay is its interval, INT64_MAX when there is no reading, and *)
(* unwritten after a failure.                                             *)
Reference(r) ==
    LET ok   == \A i \in 1 .. Len(r) : r[i] # FAIL
        pre  == SelectSeq(r, LAMBDA x : x # FAIL)
        idx  == 1 .. Len(pre)
        k    == CHOOSE i \in idx : /\ \A j \in idx : Interval(pre[i]) <= Interval(pre[j])
                                   /\ \A j \in 1 .. i - 1 : Interval(pre[j]) > Interval(pre[i])
    IN  [ret    |-> IF ok THEN 0 ELSE -1,
         offset |-> IF pre = <<>> THEN NONE
                    ELSE pre[k].tdst1 + Quot(Interval(pre[k]), 2) - pre[k].tsrc,
         ts     |-> IF pre = <<>> THEN NONE ELSE pre[k].tdst2,
         delay  |-> CASE ~ok -> NONE [] pre = <<>> -> INT64_MAX [] OTHER -> Interval(pre[k])]

(* clockadj_compare keeps the first of the quickest readings, writes     *)
(* *delay only when every read succeeded, leaves *offset and *ts         *)
(* unwritten when there is no reading (readings = 0, or the first read    *)
(* fails), and keeps the earlier readings' values when a later one fails. *)
MatchesReference == out # NONE => out = Reference(rs)

(* The offset of a successful call is within half its delay of the true *)
(* offset between the clocks.                                             *)
OffsetWithin(o) ==
    o.ret = 0 /\ o.offset # NONE => Abs(o.offset - (Sigma - Theta)) <= Quot(o.delay, 2)

(* The offset clockadj_compare reports is the offset between the two     *)
(* clocks to within half the reported delay: the midpoint of the quickest *)
(* pair of system clock reads is compared with the other clock's read.   *)
OffsetBounded == out # NONE => OffsetWithin(out)

(* The same two statements over every call at once, for a specification *)
(* that uses clockadj_compare as an operator.                             *)
AllMatchReference == \A r \in Calls : clockadj_compare(r) = Reference(r)

AllOffsetsBounded == \A r \in Calls : OffsetWithin(clockadj_compare(r))

=============================================================================
