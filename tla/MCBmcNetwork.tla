---------------------------- MODULE MCBmcNetwork ----------------------------
(***************************************************************************)
(* Three clocks in a ring, two ports each: 1.2 -- 2.1, 2.2 -- 3.1 and      *)
(* 3.2 -- 1.1.  A ring is the smallest topology with a loop that the BMCA  *)
(* has to break with a PASSIVE port.                                       *)
(***************************************************************************)
EXTENDS BmcNetwork

RingClocks == {1, 2, 3}

RingPeer ==
    LET links == {<<Port(1, 2), Port(2, 1)>>, <<Port(2, 2), Port(3, 1)>>, <<Port(3, 2), Port(1, 1)>>}
    IN  [p \in Ports |-> CHOOSE q \in Ports : <<p, q>> \in links \/ <<q, p>> \in links]

(* Two clocks joined by two parallel links, 1.1 -- 2.1 and 1.2 -- 2.2: a *)
(* loop through two clocks, broken by a PASSIVE port on the worse clock. *)
PairClocks == {1, 2}

PairPeer == [p \in Ports |-> Port(3 - p.clockIdentity, p.portNumber)]

Quality(cls) == [clockClass |-> cls, clockAccuracy |-> 254, offsetScaledLogVariance |-> 65535]

(* Clock 1 is a primary reference (clockClass 6, decided by the M1/P1    *)
(* rule of bmc_state_decision); the others are of equal, lesser quality.  *)
PrimaryDS == [c \in Clocks |-> [priority1 |-> 128, priority2 |-> 128,
                                quality |-> Quality(IF c = 1 THEN 6 ELSE 248)]]

(* All clocks of equal quality: the identities decide. *)
EqualDS == [c \in Clocks |-> [priority1 |-> 128, quality |-> Quality(248), priority2 |-> 128]]

-----------------------------------------------------------------------------
(* The ranking of clocks the standard defines (IEEE 1588 9.3.4, spec     *)
(* section 4.2), written from the default datasets and independent of    *)
(* dscmp: lower priority1, clockClass, clockAccuracy, variance, priority2 *)
(* and finally identity is better.                                        *)
RankVector(c) ==
    <<DefaultDS[c].priority1, DefaultDS[c].quality.clockClass,
      DefaultDS[c].quality.clockAccuracy, DefaultDS[c].quality.offsetScaledLogVariance,
      DefaultDS[c].priority2, c>>

RankedAbove ==
    {<<g, c>> \in Clocks \X Clocks :
        LET d == {i \in 1 .. 6 : RankVector(g)[i] # RankVector(c)[i]}
        IN  d # {} /\ RankVector(g)[Min(d)] < RankVector(c)[Min(d)]}

Election == INSTANCE GmElection
                WITH gm <- [c \in Clocks |-> parent[c].identity], Better <- RankedAbove

(* Refinement: the network of clocks running dscmp and                    *)
(* bmc_state_decision implements GmElection.  Through every interleaving  *)
(* of announces, losses, timeouts, failures and restarts, a clock's       *)
(* parent dataset only ever names the clock itself or a clock the         *)
(* standard ranks above it (the M2 rule of bmc_state_decision keeps a    *)
(* clock from following a worse one), and a restarted clock names itself. *)
ElectionRefined == Election!Spec

=============================================================================
