--------------------------- MODULE MCClockCompare ---------------------------
EXTENDS ClockCompare

(* A backward step of the system clock, as the kernel makes when it      *)
(* inserts a leap second, or another process setting CLOCK_REALTIME.     *)
BackStep == {0, -3}

(* A forward step of the system clock. *)
ForwardStep == {0, 3}

=============================================================================
