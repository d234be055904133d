----------------------------- MODULE BmcDecision -----------------------------
(***************************************************************************)
(* The port state decision of bmc.c, bmc_state_decision (IEEE 1588 Figure  *)
(* 26), as an operator over the values the function reads:                *)
(*   clock_ds    D0, clock_default_ds(c)                                   *)
(*   clock_best  Ebest, clock_best_foreign(c), NULL when none              *)
(*   port_best   Erbest, port_best_foreign(r), NULL when none              *)
(*   isBestPort  clock_best_port(c) == r                                   *)
(*   ps          port_state(r)                                             *)
(*   noop        port_bmca(r) == BMCA_NOOP                                 *)
(*   compare     the comparator; the standard BMCA passes dscmp, used here *)
(* The class test clock_class(c) <= 127 reads the class of D0.             *)
(***************************************************************************)
EXTENDS BmcCompare

LISTENING == "LISTENING"
GRAND_MASTER == "GRAND_MASTER"
MASTER == "MASTER"
PASSIVE == "PASSIVE"
SLAVE == "SLAVE"

DecisionStates == {LISTENING, GRAND_MASTER, MASTER, PASSIVE, SLAVE}

(* A primary reference (class <= 127) is grandmaster on a port whose best *)
(* foreign dataset it beats (M1), and passive otherwise (P1).             *)
PrimaryDecision(clock_ds, port_best) ==
    IF dscmp(clock_ds, port_best) > 0 THEN GRAND_MASTER ELSE PASSIVE

(* Mutant: the topology test P2 dropped, every other port becomes master. *)
SecondaryNoPassive(clock_ds, clock_best, port_best, isBestPort) ==
    CASE dscmp(clock_ds, clock_best) > 0 -> GRAND_MASTER
      [] isBestPort                        -> SLAVE
      [] OTHER                             -> MASTER

(* Any other clock is grandmaster if D0 beats Ebest (M2), slave on the    *)
(* port that supplied Ebest (S1), passive where Ebest beats Erbest only   *)
(* on topology (P2), and master otherwise (M3).                           *)
SecondaryDecision(clock_ds, clock_best, port_best, isBestPort) ==
    CASE dscmp(clock_ds, clock_best) > 0                -> GRAND_MASTER
      [] isBestPort                                       -> SLAVE
      [] dscmp(clock_best, port_best) = A_BETTER_TOPO   -> PASSIVE
      [] OTHER                                            -> MASTER

bmc_state_decision(clock_ds, clock_best, port_best, isBestPort, ps, noop) ==
    CASE port_best = NULL /\ noop           -> ps
      [] port_best = NULL /\ ps = LISTENING -> ps
      [] clock_ds.quality.clockClass <= 127 -> PrimaryDecision(clock_ds, port_best)
      [] OTHER -> SecondaryDecision(clock_ds, clock_best, port_best, isBestPort)

=============================================================================
