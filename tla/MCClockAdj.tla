----------------------------- MODULE MCClockAdj -----------------------------
(***************************************************************************)
(* Inputs for ClockAdj.  Frequencies, besides the +-max_freq bound the     *)
(* model adds: zero, and values at and around half a tick step             *)
(* (500 * USER_HZ ppb), where round() changes its choice of tick, and      *)
(* their negations.  Steps: every value of a 6-bit int64_t except          *)
(* INT64_MIN, and, in StepArgsAll, INT64_MIN too; NS_PER_SEC = 10 keeps    *)
(* INT64_MIN % NS_PER_SEC non-zero as it is for 64 bits.                   *)
(***************************************************************************)
EXTENDS ClockAdj

FreqSet == LET half == 500 * USER_HZ
               pos == {0, 1, half - 1, half, half + 1, 3 * half}
           IN  pos \cup {-f : f \in pos}

StepArgsNoMin == (-(2 ^ (StepWidth - 1)) + 1) .. (2 ^ (StepWidth - 1) - 1)
StepArgsAll == -(2 ^ (StepWidth - 1)) .. (2 ^ (StepWidth - 1) - 1)

(* Two steps, one negative with a non-zero remainder. *)
StepArgsFew == {-11, 5}

(* clockadj_compare, the other operation of clockadj.c, as an operator:   *)
(* best_interval starts at this width's INT64_MAX, the system clock reads *)
(* true time + 7 and may be stepped forward by 3 between its two reads,   *)
(* the other clock reads true time + 2, and callers pass 0 to 2 readings. *)
(* A failed iteration is a value of its own, distinct from every reading. *)
Compare == INSTANCE ClockCompare
               WITH ReadTimes <- {0, 1, 2, 3, 5}, Sigma <- 7, Theta <- 2,
                    Steps <- {0, 3}, MaxReadings <- 2, INT64_MAX <- INT64_MAX,
                    FAIL <- [read |-> "failed"], rs <- <<>>, out <- NONE

(* While the process runs (clockadj_get_freq's exit(1) ends it), every    *)
(* call it makes to clockadj_compare returns and writes what the reference *)
(* says: the first reading of least interval before any failure, -errno   *)
(* with *delay unwritten after a failed read (and *offset, *ts left from  *)
(* earlier readings), and *delay = INT64_MAX with nothing else written    *)
(* for 0 readings.                                                        *)
CompareMatchesReference == pc = "running" => Compare!AllMatchReference

(* While the process runs, for every successful call, with a system      *)
(* clock that only moves forward, the offset clockadj_compare reports is  *)
(* within half the delay it reports of the true offset between the        *)
(* clocks.                                                                *)
CompareOffsetBounded == pc = "running" => Compare!AllOffsetsBounded

=============================================================================
