# linuxptp: TLA+ models

This directory holds TLA+ models of the core of this linuxptp tree and the
TLC configurations that check them:

- the Best Master Clock Algorithm (`src/bmc.c`);
- system clock adjustment (`src/clockadj.c`);
- socket timestamp set-up and retrieval (`src/sk.c`);
- the offset measurement `clockadj_compare` (`src/clockadj.c`);
- logging (`src/print.c`, `src/print.h`) and its effect on `errno`.

`PROJECT.json` holds the machine-readable form of this document: components,
runs, mutants, the map from each definition to the source lines it models,
findings and hazards.

## The system and how its parts interact

- **BMCA.** Each PTP clock keeps a foreign-master record per port, built from
  the Announce messages it receives.
  - On a state decision event, the outer engine computes Erbest (the best
    foreign dataset of a port) and Ebest (the best over all ports). The outer
    engine is clock.c/port.c in linuxptp; it is not in `src/`.
  - It then calls `bmc_state_decision` for every port.
  - `bmc_state_decision` compares datasets with `dscmp`, which falls back to
    `dscmp2` (topology: stepsRemoved, sender and receiver port identities) when
    both datasets name the same grandmaster.
  - The port states decide who sends Announces next. These feed back into the
    other clocks' records.
- **clockadj.** This steers CLOCK_REALTIME through `clock_adjtime`/`adjtimex`:
  - frequency is split into a whole-tick part and a scaled ppm remainder;
  - phase and step offsets are applied;
  - leap-second status is set and later re-synchronised.
  The kernel's timex state is shared with every other caller.
- **sk.** `sk_timestamping_init` configures the device's hardware timestamp
  filter (`hwts_init`, a SIOCSHWTSTAMP device ioctl shared by every socket on
  the interface) and the socket's SO_TIMESTAMPING flags. `sk_receive` then
  returns messages with their timestamps, and transmit timestamps through
  MSG_ERRQUEUE. The UDP transports call `sk_set_priority` on a new socket
  to put the configured DSCP into its TOS byte or IPv6 traffic class.

## Modules

| Module | Models | State / actions |
|---|---|---|
| `BmcCompare` | `portid_cmp`, `dscmp2`, `dscmp` (bmc.c 33-138) | Pure operators. A dataset is a record, and its `addr` field stands for the pointer whose identity `dscmp` tests first. |
| `BmcDecision` | `bmc_state_decision` (bmc.c 141-187) | An operator that calls `dscmp` directly (the comparator the standard BMCA passes), split into the primary-clock (M1/P1) and other-clock (M2/S1/P2/M3) branches. |
| `CompareCalls`, `MCCompareCalls` | the calls the Ebest/Erbest scan makes | One variable pair `a`, `b`, with every dataset the caller can hold. The properties are order laws of `dscmp` over those pairs and triples. |
| `BmcNetwork`, `MCBmcNetwork` | clocks running the BMCA over links (outer engine from the spec) | Variables: `fmr` (foreign-master records), `pstate`, `parent`, `chan` (one Announce in flight per direction), `sde` (pending state decision events). Actions: `SendAnnounce`, `ReceiveAnnounce`, `LoseAnnounce`, `AnnounceReceiptTimeout`, `PruneForeign`, `StateDecision`, and the fault model `Fail` (fail-stop: the clock's ports go silent, its state stays in the others' records and in flight) and `Restart` (empty records, own parent dataset). `up`/`failed` record which clocks run. |
| `GmElection` | what the BMCA promises each clock (abstract) | Variables `gm` (the grandmaster each clock names) and `up`. `Follow`: a running clock names itself or a clock ranked above it. `Stop`, `Start` (a restarted clock names itself). `MCBmcNetwork`'s `Election` instantiates it with `gm <- parent identity` and a reference ranking `RankedAbove` that is independent of `dscmp`. |
| `ClockCompare`, `MCClockCompare` | `clockadj_compare` (clockadj.c 176-205) | Variables `rs` (the outcomes of one call's reads) and `out` (ret, offset, ts, delay). `Call` is one call with 0..`MaxReadings` readings; the loop is the RECURSIVE operator `Loop`. A read is true time plus a clock offset, and the system clock may be stepped by one of `Steps` between its two reads. `Reference` is an independent definition of the expected result. |
| `Logging`, `MCLogging` | `print.c`, `print.h`, and the `pr_err` + `return -errno` paths of sk.c 454-456 and clockadj.c 188-189 | Variables: the settings `verbose`, `print_level`, `use_syslog`, `progname`, `message_tag`; `errno`; `out` (where the last message went); `ret`. Actions: the five `print_set_*`, `pr(l)` (PRINT_CL), `pl(l)` (PRINT_RL, with `rate_limited` an environment choice), `ReportError(e)`. A write to stdout/stderr may fail when `StdioFails` and then sets errno. |
| `ClockAdj`, `MCClockAdj` | clockadj.c `clockadj_*`, `sysclk_*` | Process variables `realtime_hz`, `realtime_nominal_tick`, `realtime_leap_bit`; kernel variables `ktick`, `kfreq`, `kstatus`, `koffset`, `ktai`. There is one action per function, with a nondeterministic `ok` where `clock_adjtime` may fail. C integer division, `round()`, the 65.536 scaling and int64 wrap-around are modelled exactly, the latter at reduced width `StepWidth`. |
| `SkTimestamping`, `MCSkTimestamping` | `hwts_init`, `sk_timestamping_init`, `sk_receive` | Variables: the device's shared `hw` config, the per-socket `conf`/`state`/`sof`/`tsns`, receive and error queues, and `last` (the result returned last). The driver is a profile of how it answers SIOCGHWTSTAMP/SIOCSHWTSTAMP, chosen in Init. |
| `SkPriority` | `sk_set_priority` | No variables: an operator from a call (family, getsockopt result, `dscp`, setsockopt outcome) to the return value, the option written and the value written. `SetDscp` is `tos &= ~0xFC; tos \|= dscp<<2` through `Bitwise`, with the mask on 16 bits since every value fits in bits 0-9. No run checks it: its result is the two bit operations themselves, and the behaviour worth stating, that a failed getsockopt clears the ECN bits (sk.c:563-564), is what the code does. |

The kernel and the driver are environment. `KernelUnsync` is the kernel
clearing its leap flags. The `Replies` of a driver profile are what its ioctl
answers. `Arrive`/`Transmit` are packets reaching the socket.

## Runs

| Run | Expect | What it shows |
|---|---|---|
| `compare_consistent` | pass | With consistent announces, `dscmp` is antisymmetric and a total preorder over every pair and triple of datasets (2,593 states). |
| `compare_stale` | violation | A stale announce of the same grandmaster with another clockClass makes `dscmp` intransitive. Same-GM datasets are compared on topology only (bmc.c:105). |
| `network_pair` | pass | Two clocks on two parallel links: the BMCA always converges to one GM, one SLAVE port and one PASSIVE port (`<>[]SyncTree`). |
| `network_ring` | pass | Three clocks in a ring with lossy links, one a primary (class 6): every quiescent state is a loop-free spanning tree rooted at the best clock (117,601 states). |
| `clockadj` | pass | Each `set_freq` up to `±clockadj_max_freq` is applied exactly: its tick/freq split matches the request within the rounding of the code, and `get_freq` reads it back. Every step except INT64_MIN reaches the kernel exactly. `clockadj_compare`, instantiated as an operator at the same int64 width, matches `Reference` for every call of 0 to 2 readings, and its offset is within delay/2 of the true one while the system clock only moves forward (`CompareMatchesReference`, `CompareOffsetBounded`). |
| `clockadj_failures` | pass | With failing `adjtimex`, `sysclk_set_sync` still writes the leap status last requested. |
| `clockadj_step_min` | violation | `clockadj_step(INT64_MIN)` steps forward by abs(INT64_MIN): `step *= -1` overflows (clockadj.c:130). |
| `sk_timestamping` | pass | Over all timestamp types, transports, filter modes and five driver profiles, a socket whose init returned 0 gets event receive timestamps from its configured source. |
| `sk_tx_now` | violation | Transmit timestamps are a CLOCK_REALTIME read at the time of the call, never the configured source (sk.c:441-447). |
| `sk_bonded_fallback` | violation | The fallback filter request drops `HWTSTAMP_FLAG_BONDED_PHC_INDEX` (sk.c:110). |
| `sk_shared_interface` | violation | A second socket on the same interface replaces the filter the first socket's init checked. The first socket then loses event timestamps (sk.c:125). |

| `network_pair_restart` | pass | With clock 1 failing and restarting at any time: every quiescent state is a tree among the running clocks, the pair converges once failures stop, and `BmcNetwork` implements `GmElection` (`ElectionRefined`, the refinement; 26,759 states, under 2 minutes). |

Further configurations, checked with TLC but not among the runs `PROJECT.json`
lists:

- `network_crash.cfg` (pass, 320,637 states): in the lossy ring, with the
  primary clock failing once the tree is built, every quiescent state is a
  loop-free tree among the surviving clocks.
- `network_election.cfg` (pass, about 2 minutes): the ring with a failing
  primary also implements `GmElection` (`ElectionRefined`): no clock's parent
  ever moves to a clock the reference ranking puts below it. Dropping the
  identity tie-break from `dscmp` breaks it.
- `clockadj_compare.cfg` (pass, 402 states): the same two statements as
  `Call` actions of a servo loop; with a forward-moving system
  clock, `clockadj_compare` equals `Reference`. That covers 0 readings
  (`*delay = INT64_MAX`, offset and ts unwritten) and a failure after earlier
  readings (offset and ts from those readings, delay unwritten). The offset is
  within delay/2 of the true one.
- `clockadj_compare_leap.cfg` (violation of `OffsetBounded`): if
  CLOCK_REALTIME is stepped back between the two system reads, as the kernel
  does when it inserts the leap second that `sysclk_set_leap` arms, the
  negative interval wins as the "quickest" reading (clockadj.c:195). The
  reported delay is negative (-1 in the trace) and the offset is wrong by more
  than half of it.
- `logging_errno.cfg` (violation of `ReturnsCause`): with verbose output and a
  broken stderr, the `pr_err` before `return -errno` (sk.c:456,
  clockadj.c:189) replaces the failed call's errno by the write's (EPIPE).

Every property of a passing run has a mutant, a plausible bug in the mapped
code, that TLC finds violated. `PROJECT.json` lists them.

## Bounds

- **BmcNetwork.**
  - `MaxStepsRemoved` (2 in the ring, 3 for the pair) caps stepsRemoved, as the
    outer engine's limit does. It is enough for every path in a three-clock
    ring.
  - The pair has two links between the same two clocks, which is the smallest
    topology that needs PASSIVE.
  - The ring has a cycle, so loops are possible in principle.
- **ClockAdj.**
  - `USER_HZ` is 100 in `clockadj` (where `FreqHonoured` is checked) and
    1024 in `clockadj_failures`; both are values Linux uses.
  - Frequencies are chosen around the whole-tick boundary (`±500*USER_HZ` ppb,
    ±1) and at `±maxFreq`.
  - Steps use a 6-bit int64 with NS_PER_SEC = 10. The overflow, the division
    and the remainder sign cases all occur at that width.
- **SkTimestamping.**
  - One socket with every configuration, or two sockets with configurations
    that share an interface.
  - Queue capacity is 1: each property is about the slot of one message.
- **Faults in BmcNetwork.** `Failing` clocks may fail and `Restarting` ones
  restart. With `SteadyFailures` a failure happens only once the tree is
  built, which keeps the ring within reach of TLC. In the pair, failure and
  restart may happen at any time.
- **ClockCompare.** Reads at true times {0,1,2,3,5}, clock offsets 7 and 2,
  steps of 0 and ±3, and up to 2 readings. This is enough for ties, a
  failure after a reading, and a step larger than the read interval.

## Fairness

`BmcNetwork` assumes weak fairness of sending, receiving, the receipt timeout
and each clock's state decision. The code runs these from timers and event
loops that fire while enabled. Loss is not fair: `network_pair` checks
liveness with `LinkLoss = FALSE`, since an adversary that drops every Announce
would prevent any convergence. `ClockAdj` and `SkTimestamping` check safety
only. Liveness is checked on the pair only: with a fairness condition per
port and per clock, the ring's temporal check does not finish in reasonable
time.

With failures, `network_pair_restart` still assumes fairness of the running
clocks' timers. `Fail` and `Restart` are not fair: convergence is promised
only once they stop, which is what `<>[]SyncTree` allows.

`clockadj_failures` sets `CHECK_DEADLOCK FALSE`: a failed `clockadj_get_freq`
calls `exit(1)`, which stops the process.

## Not modelled

- `tlv.h`: wire structs with no behaviour.
- `os_clock.h`: floating-point clock reads and TSC calibration, which depend
  on hardware counters and double rounding.
- The text `print()` formats, and the 128-byte truncation of the tag before
  the `{level}` substitution.
- The poll/EINTR path of `sk_receive`, which is unreachable with `hwts` given.
- `sk_get_ts_info`, `sk_get_if_info`, `sk_interface_*`,
  `sk_get_error`: single queries with no state.
- The PHC branch of `clockadj`.

## Plan

Later work:

- BMCA_NOOP ports in a network;
- two primary clocks;
- ring liveness under fair loss;
- restart in the ring.
