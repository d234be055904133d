------------------------------ MODULE ClockAdj ------------------------------
(***************************************************************************)
(* clockadj.c steering CLOCK_REALTIME through adjtimex: one process with   *)
(* the file's three globals (realtime_hz, realtime_nominal_tick,           *)
(* realtime_leap_bit) calling its functions one at a time, and the         *)
(* kernel's timex state, which outlives the process.                       *)
(*                                                                         *)
(* Frequencies are in ppb.  The code converts with doubles; every value    *)
(* it converts here is an integer, so the conversions are modelled exactly *)
(* with integers: x * 65.536 = x * 8192 / 125, truncated towards zero by   *)
(* the (long) cast, round() rounding halves away from zero.  int64_t steps *)
(* keep their wrap-around at a reduced width StepWidth, with NS_PER_SEC    *)
(* scaled down with it.                                                    *)
(*                                                                         *)
(* The kernel side (adjtimex) is the environment, written from its         *)
(* documented behaviour: ADJ_TICK outside [900000/HZ, 1100000/HZ] and an   *)
(* ADJ_SETOFFSET nanosecond field outside [0, NS_PER_SEC) fail with        *)
(* EINVAL and change nothing, ADJ_FREQUENCY is clamped to +-500 ppm, and   *)
(* with KernelFails any call may fail (EPERM, ...) and change nothing.     *)
(***************************************************************************)
EXTENDS Integers

CONSTANTS
    USER_HZ,      \* the kernel's user tick rate, what sysconf(_SC_CLK_TCK) returns
    Freqs,        \* frequencies (ppb) callers pass to clockadj_set_freq, besides
                  \* the +-max_freq their clamping produces
    Phases,       \* the offsets callers pass to clockadj_set_phase
    TaiOffsets,   \* the offsets callers pass to sysclk_set_tai_offset
    StepWidth,    \* bit width of int64_t in the model
    NS_PER_SEC,   \* nanoseconds per second, scaled with StepWidth
    StepArgs,     \* the steps callers pass to clockadj_step
    KernelFails,  \* whether an adjtimex call may fail
    NONE          \* no value

-----------------------------------------------------------------------------
(* C arithmetic. *)
Abs(x) == IF x < 0 THEN -x ELSE x
Sign(x) == IF x < 0 THEN -1 ELSE 1
CDiv(a, b) == Sign(a) * (Abs(a) \div b)        \* C division, b > 0
CRem(a, b) == a - b * CDiv(a, b)                \* C remainder, b > 0
INT64_MIN == -(2 ^ (StepWidth - 1))
INT64_MAX == 2 ^ (StepWidth - 1) - 1
Wrap(x) == ((x - INT64_MIN) % (2 ^ StepWidth)) + INT64_MIN

(* round(n / d) for d > 0: halves away from zero. *)
RoundDiv(n, d) == Sign(n) * ((2 * Abs(n) + d) \div (2 * d))

(* (long)(x * 65.536) and (int)(x / 65.536) for integral x. *)
ToScaled(x) == Sign(x) * (8192 * (Abs(x) \div 125) + (8192 * (Abs(x) % 125)) \div 125)
FromScaled(x) == Sign(x) * (125 * (Abs(x) \div 8192) + (125 * (Abs(x) % 8192)) \div 8192)

-----------------------------------------------------------------------------
(* The kernel (environment). *)
TICK_USEC == (1000000 + USER_HZ \div 2) \div USER_HZ
TickOK(t) == 900000 \div USER_HZ <= t /\ t <= 1100000 \div USER_HZ
MAXFREQ_SCALED == 500 * 65536
ClampFreq(f) == IF f > MAXFREQ_SCALED THEN MAXFREQ_SCALED
                ELSE IF f < -MAXFREQ_SCALED THEN -MAXFREQ_SCALED ELSE f
LeapFlags == {"INS", "DEL"}

(* |f - (sf / 65.536 + 1000 * USER_HZ * ticks)| < 1 / 65.536, computed    *)
(* exactly within TLC's 32-bit integers: with sf = 8192 a + b and         *)
(* e = 125 a - (f - 1000 * USER_HZ * ticks) the error is                   *)
(* (8192 e + 125 b) / 8192 / 65.536.                                       *)
FreqMatches(f, sf, ticks) ==
    LET a == sf \div 8192
        b == sf % 8192
        e == 125 * a - (f - 1000 * USER_HZ * ticks)
    IN  e \in -125 .. 0 /\ -8192 < 8192 * e + 125 * b /\ 8192 * e + 125 * b < 8192

-----------------------------------------------------------------------------
VARIABLES
    pc,                     \* "running", or "exited" after exit(1)
    realtime_hz,
    realtime_nominal_tick,
    realtime_leap_bit,      \* the status flags last written by sysclk_set_leap
    ktick, kfreq, kstatus,  \* kernel: tick (us), freq (scaled ppm), status flags
    koffset, ktai,          \* kernel: pending phase offset, TAI offset
    leapReq,                \* the leap last requested with sysclk_set_leap
    maxFreq,                \* the bound clockadj_max_freq returned to the caller
    freqReq,                \* the frequency last passed to clockadj_set_freq
    last                    \* the last call, its argument and its outcome

vars == <<pc, realtime_hz, realtime_nominal_tick, realtime_leap_bit,
          ktick, kfreq, kstatus, koffset, ktai, leapReq, maxFreq, freqReq, last>>
process == <<realtime_hz, realtime_nominal_tick, realtime_leap_bit>>
kernel == <<ktick, kfreq, kstatus, koffset, ktai>>

(* One adjtimex call: ok says whether the environment lets it succeed. *)
Outcome == IF KernelFails THEN BOOLEAN ELSE {TRUE}

TypeOK ==
    /\ pc \in {"running", "exited"}
    /\ realtime_hz \in {0, USER_HZ}
    /\ realtime_nominal_tick \in {0, TICK_USEC}
    /\ realtime_leap_bit \in SUBSET LeapFlags
    /\ TickOK(ktick)
    /\ kfreq \in -MAXFREQ_SCALED .. MAXFREQ_SCALED
    /\ kstatus \subseteq LeapFlags \cup {"UNSYNC"}
    /\ leapReq \in {-1, 0, 1}
    /\ maxFreq \in Nat
    /\ freqReq \in Int \cup {NONE}
    /\ last.op \in {"init", "set_freq", "get_freq", "set_phase", "step",
                    "max_freq", "set_leap", "set_tai", "set_sync"}

(* The process starts with zeroed globals; the kernel state is whatever a *)
(* previous process left: any tick and freq, a leap possibly pending.     *)
Init ==
    /\ pc = "running"
    /\ realtime_hz = 0
    /\ realtime_nominal_tick = 0
    /\ realtime_leap_bit = {}
    /\ ktick \in {TICK_USEC, 1100000 \div USER_HZ}
    /\ kfreq \in {0, MAXFREQ_SCALED}
    /\ kstatus \in {{"UNSYNC"}, {"INS"}}
    /\ koffset = 0
    /\ ktai = 0
    /\ leapReq = 0
    /\ maxFreq = 0
    /\ freqReq = NONE
    /\ last = [op |-> "init"]

-----------------------------------------------------------------------------
(* Mutant: the nominal tick truncated instead of rounded. *)
InitTruncatedTick ==
    /\ pc = "running"
    /\ realtime_hz' = USER_HZ
    /\ realtime_nominal_tick' = 1000000 \div USER_HZ
    /\ last' = [op |-> "init"]
    /\ UNCHANGED <<realtime_leap_bit, kernel, leapReq, maxFreq, freqReq, pc>>

(* clockadj_init(CLOCK_REALTIME): USER_HZ and the nominal tick TICK_USEC.  *)
clockadj_init ==
    /\ pc = "running"
    /\ realtime_hz' = USER_HZ
    /\ realtime_nominal_tick' = (1000000 + USER_HZ \div 2) \div USER_HZ
    /\ last' = [op |-> "init"]
    /\ UNCHANGED <<realtime_leap_bit, kernel, leapReq, maxFreq, freqReq, pc>>

(* The calls below are made after clockadj_init, as the programs do.     *)
Running == pc = "running" /\ realtime_hz # 0

(* The timex set_freq writes: the whole-tick part of freq in tx.tick when *)
(* the nominal tick is known, the rest scaled in tx.freq.                 *)
SetFreqTimex(freq) ==
    IF realtime_nominal_tick # 0
    THEN LET tick == RoundDiv(freq, 1000 * realtime_hz) + realtime_nominal_tick
         IN  [tick |-> tick,
              freq |-> ToScaled(freq - 1000 * realtime_hz * (tick - realtime_nominal_tick))]
    ELSE [freq |-> ToScaled(freq)]

(* clockadj_set_freq(CLOCK_REALTIME, freq); freq within the bound the     *)
(* caller got from clockadj_max_freq.                                     *)
clockadj_set_freq(freq, ok) ==
    LET tx == SetFreqTimex(freq)
        accepted == ok /\ ("tick" \in DOMAIN tx => TickOK(tx.tick))
    IN  /\ Running
        /\ maxFreq # 0 /\ Abs(freq) <= maxFreq
        /\ IF accepted
           THEN /\ ktick' = IF "tick" \in DOMAIN tx THEN tx.tick ELSE ktick
                /\ kfreq' = ClampFreq(tx.freq)
           ELSE UNCHANGED <<ktick, kfreq>>
        /\ freqReq' = freq
        /\ last' = [op |-> "set_freq", arg |-> freq, ret |-> IF accepted THEN 0 ELSE -1]
        /\ UNCHANGED <<process, kstatus, koffset, ktai, leapReq, maxFreq, pc>>

(* clockadj_get_freq(CLOCK_REALTIME): tx.freq / 65.536 plus the tick      *)
(* part; the reading is kept exactly as the pair (tx.freq, ticks).  A     *)
(* failed read ends the process with exit(1).                             *)
clockadj_get_freq(ok) ==
    /\ Running
    /\ IF ok
       THEN /\ last' = [op |-> "get_freq", sf |-> kfreq,
                        ticks |-> IF realtime_nominal_tick # 0 /\ ktick # 0
                                  THEN ktick - realtime_nominal_tick ELSE 0]
            /\ UNCHANGED pc
       ELSE /\ pc' = "exited"
            /\ last' = [op |-> "get_freq"]
    /\ UNCHANGED <<process, kernel, leapReq, maxFreq, freqReq>>

(* clockadj_set_phase: ADJ_OFFSET | ADJ_NANO. *)
clockadj_set_phase(offset, ok) ==
    /\ Running
    /\ koffset' = IF ok THEN offset ELSE koffset
    /\ last' = [op |-> "set_phase", arg |-> offset, ret |-> IF ok THEN 0 ELSE -1]
    /\ UNCHANGED <<process, ktick, kfreq, kstatus, ktai, leapReq, maxFreq, freqReq, pc>>

(* Mutant: the 10% limit on the tick length forgotten. *)
MaxFreqWholeTick(ok) ==
    LET f0 == IF ok THEN FromScaled(MAXFREQ_SCALED) ELSE 0
        f == IF f0 = 0 THEN 500000 ELSE f0
    IN  IF realtime_nominal_tick # 0 /\ 2 * f >= 1000 * realtime_hz
        THEN realtime_nominal_tick * 1000 * realtime_hz
        ELSE f

(* The bound clockadj_max_freq computes: the kernel's tolerance (500000   *)
(* if it cannot be read or is 0), or, for a system clock whose tick can   *)
(* take up the difference (hz <= 1000), a tenth of the nominal tick.      *)
MaxFreqOf(ok) ==
    LET f0 == IF ok THEN FromScaled(MAXFREQ_SCALED) ELSE 0
        f == IF f0 = 0 THEN 500000 ELSE f0
    IN  IF realtime_nominal_tick # 0 /\ 2 * f >= 1000 * realtime_hz
        THEN (realtime_nominal_tick \div 10) * 1000 * realtime_hz
        ELSE f

(* clockadj_max_freq(CLOCK_REALTIME), sysclk_max_freq: the caller keeps  *)
(* the bound and clamps the frequencies it sets to it.                    *)
clockadj_max_freq(ok) ==
    /\ Running
    /\ maxFreq' = MaxFreqOf(ok)
    /\ last' = [op |-> "max_freq", ret |-> MaxFreqOf(ok)]
    /\ UNCHANGED <<process, kernel, leapReq, freqReq, pc>>

(* Mutant: the timeval left with a negative nanosecond field. *)
StepTimexNoNormalise(step) ==
    LET sign == IF step < 0 THEN -1 ELSE 1
        s == IF step < 0 THEN Wrap(-step) ELSE step
    IN  [sec |-> sign * CDiv(s, NS_PER_SEC), nsec |-> sign * CRem(s, NS_PER_SEC)]

(* The timeval clockadj_step writes: magnitude split into seconds and     *)
(* nanoseconds, the sign put back on both, then the nanoseconds made      *)
(* non-negative by borrowing a second.  step *= -1 wraps at INT64_MIN.    *)
StepTimex(step) ==
    LET sign == IF step < 0 THEN -1 ELSE 1
        s == IF step < 0 THEN Wrap(-step) ELSE step
        sec == sign * CDiv(s, NS_PER_SEC)
        nsec == sign * CRem(s, NS_PER_SEC)
    IN  IF nsec < 0 THEN [sec |-> sec - 1, nsec |-> nsec + NS_PER_SEC]
        ELSE [sec |-> sec, nsec |-> nsec]

(* clockadj_step: ADJ_SETOFFSET | ADJ_NANO; the kernel moves the clock by *)
(* sec * NS_PER_SEC + nsec, or refuses a nanosecond field out of range.   *)
clockadj_step(step, ok) ==
    LET tx == StepTimex(step)
        accepted == ok /\ 0 <= tx.nsec /\ tx.nsec < NS_PER_SEC
    IN  /\ Running
        /\ last' = [op |-> "step", arg |-> step, ret |-> IF accepted THEN 0 ELSE -1,
                    applied |-> IF accepted THEN tx.sec * NS_PER_SEC + tx.nsec ELSE NONE]
        /\ UNCHANGED <<process, kernel, leapReq, maxFreq, freqReq, pc>>

(* The status flags sysclk_set_leap writes for leap = -1, 1 or other. *)
LeapStatus(leap) == CASE leap = -1 -> {"DEL"} [] leap = 1 -> {"INS"} [] OTHER -> {}

(* Mutant: the leap flags cached only when adjtimex accepted them. *)
SetLeapCachedOnSuccess(leap, ok) ==
    /\ Running
    /\ kstatus' = IF ok THEN LeapStatus(leap) ELSE kstatus
    /\ realtime_leap_bit' = IF ok THEN LeapStatus(leap) ELSE realtime_leap_bit
    /\ leapReq' = leap
    /\ last' = [op |-> "set_leap", arg |-> leap, ret |-> IF ok THEN 0 ELSE -1]
    /\ UNCHANGED <<realtime_hz, realtime_nominal_tick, ktick, kfreq, koffset, ktai,
                   maxFreq, freqReq, pc>>

(* sysclk_set_leap: ADJ_STATUS with STA_DEL, STA_INS or no flag, which    *)
(* also clears STA_UNSYNC; realtime_leap_bit takes the flags whether or   *)
(* not adjtimex accepted them.                                            *)
sysclk_set_leap(leap, ok) ==
    /\ Running
    /\ kstatus' = IF ok THEN LeapStatus(leap) ELSE kstatus
    /\ realtime_leap_bit' = LeapStatus(leap)
    /\ leapReq' = leap
    /\ last' = [op |-> "set_leap", arg |-> leap, ret |-> IF ok THEN 0 ELSE -1]
    /\ UNCHANGED <<realtime_hz, realtime_nominal_tick, ktick, kfreq, koffset, ktai,
                   maxFreq, freqReq, pc>>

(* sysclk_set_tai_offset: ADJ_TAI. *)
sysclk_set_tai_offset(offset, ok) ==
    /\ Running
    /\ ktai' = IF ok THEN offset ELSE ktai
    /\ last' = [op |-> "set_tai", arg |-> offset, ret |-> IF ok THEN 0 ELSE -1]
    /\ UNCHANGED <<process, ktick, kfreq, kstatus, koffset, leapReq, maxFreq, freqReq, pc>>

(* sysclk_set_sync: ADJ_STATUS | ADJ_MAXERROR with the cached leap flags, *)
(* clearing STA_UNSYNC.                                                   *)
sysclk_set_sync(ok) ==
    /\ Running
    /\ kstatus' = IF ok THEN realtime_leap_bit ELSE kstatus
    /\ last' = [op |-> "set_sync", ret |-> IF ok THEN 0 ELSE -1]
    /\ UNCHANGED <<process, ktick, kfreq, koffset, ktai, leapReq, maxFreq, freqReq, pc>>

(* Environment: the kernel's maximum error passes 16 s and it sets        *)
(* STA_UNSYNC.                                                            *)
KernelUnsync ==
    /\ "UNSYNC" \notin kstatus
    /\ kstatus' = kstatus \cup {"UNSYNC"}
    /\ UNCHANGED <<process, ktick, kfreq, koffset, ktai, leapReq, maxFreq, freqReq, pc, last>>

Next ==
    \/ clockadj_init
    \/ KernelUnsync
    \/ \E ok \in Outcome :
          \/ clockadj_get_freq(ok)
          \/ clockadj_max_freq(ok)
          \/ sysclk_set_sync(ok)
          \/ \E f \in Freqs \cup {maxFreq, -maxFreq} : clockadj_set_freq(f, ok)
          \/ \E o \in Phases : clockadj_set_phase(o, ok)
          \/ \E st \in StepArgs : clockadj_step(st, ok)
          \/ \E l \in {-1, 0, 1} : sysclk_set_leap(l, ok)
          \/ \E t \in TaiOffsets : sysclk_set_tai_offset(t, ok)

Spec == Init /\ [][Next]_vars

-----------------------------------------------------------------------------
(* A frequency within the bound clockadj_max_freq reported is honoured:   *)
(* clockadj_set_freq returns 0, the kernel's tick and freq together run   *)
(* the clock at that frequency, and clockadj_get_freq reads it back, all  *)
(* to within the 1/65.536 ppb the scaled freq field can hold.             *)
FreqHonoured ==
    freqReq # NONE =>
        /\ last.op = "set_freq" => last.ret = 0
        /\ FreqMatches(freqReq, kfreq, ktick - TICK_USEC)
        /\ "sf" \in DOMAIN last => FreqMatches(freqReq, last.sf, last.ticks)

(* clockadj_step moves the clock by exactly the step asked for: the       *)
(* kernel accepts the timeval and its value is the step ("the value of a  *)
(* timeval is the sum of its fields").                                    *)
StepExact ==
    last.op = "step" => last.ret = 0 /\ last.applied = last.arg

(* After sysclk_set_sync succeeds the kernel holds exactly the leap flags *)
(* of the last sysclk_set_leap, even when that call's adjtimex failed.    *)
LeapSynced ==
    last.op = "set_sync" /\ last.ret = 0 => kstatus \cap LeapFlags = LeapStatus(leapReq)

=============================================================================
