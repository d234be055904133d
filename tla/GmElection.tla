----------------------------- MODULE GmElection -----------------------------
(***************************************************************************)
(* What the BMCA promises each clock, stated without ports or messages:   *)
(* every clock names a grandmaster, initially itself, and only ever       *)
(* switches to itself or to a clock ranked better than itself.  A clock   *)
(* may stop (its choice is frozen) and a restarted clock names itself     *)
(* again.  BmcNetwork implements this specification (MCBmcNetwork,        *)
(* Election).                                                              *)
(***************************************************************************)
CONSTANTS
    Clocks,       \* clock identities
    Better,       \* <<g, c>> \in Better: clock g is ranked above clock c
    Failing,      \* clocks that may stop
    Restarting    \* stopped clocks that may start again

VARIABLES
    gm,           \* gm[c]: the grandmaster clock c names
    up            \* up[c]: clock c is running

Candidates(c) == {c} \cup {g \in Clocks : <<g, c>> \in Better}

Init ==
    /\ gm = [c \in Clocks |-> c]
    /\ up = [c \in Clocks |-> TRUE]

(* A running clock adopts itself or a better clock. *)
Follow(c) ==
    /\ up[c]
    /\ \E g \in Candidates(c) : gm' = [gm EXCEPT ![c] = g]
    /\ UNCHANGED up

Stop(c) ==
    /\ c \in Failing
    /\ up[c]
    /\ up' = [up EXCEPT ![c] = FALSE]
    /\ UNCHANGED gm

Start(c) ==
    /\ c \in Restarting
    /\ ~up[c]
    /\ up' = [up EXCEPT ![c] = TRUE]
    /\ gm' = [gm EXCEPT ![c] = c]

Next == \E c \in Clocks : Follow(c) \/ Stop(c) \/ Start(c)

Spec == Init /\ [][Next]_<<gm, up>>

=============================================================================
