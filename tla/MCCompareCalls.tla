--------------------------- MODULE MCCompareCalls ---------------------------
(***************************************************************************)
(* Dataset domains for CompareCalls.  The caller is clock 4 with ports 1   *)
(* and 2; it hears grandmasters 1, 2 and 3 through senders of clocks 1, 3 *)
(* and 7, which lie on both sides of its own identity so that receiver-   *)
(* versus-sender comparisons take both signs.  A record lives in the      *)
(* foreign-master entry of its receiving port for its sender.             *)
(* Grandmasters 1 and 2 announce equal quality, so only their identities  *)
(* separate them; grandmaster 3 has a better clockClass.                  *)
(***************************************************************************)
EXTENDS CompareCalls

Own == 4
Grandmasters == {1, 2, 3}
Hops == 0 .. 2
Senders == {[clockIdentity |-> c, portNumber |-> 1] : c \in {1, 3, 7}}
Receivers == {[clockIdentity |-> Own, portNumber |-> n] : n \in {1, 2}}

Q(cls) == [clockClass |-> cls, clockAccuracy |-> 254, offsetScaledLogVariance |-> 65535]

(* The quality a grandmaster announces. *)
Announced == [g \in Grandmasters |-> IF g = 3 THEN Q(6) ELSE Q(248)]

RefsOf(qualities) ==
    UNION {{[addr |-> <<rcv.portNumber, snd.clockIdentity>>,
             identity |-> g, priority1 |-> 128, quality |-> q, priority2 |-> 128,
             stepsRemoved |-> s, sender |-> snd, receiver |-> rcv] :
               q \in qualities[g], s \in Hops,
               snd \in Senders, rcv \in Receivers} : g \in Grandmasters}

(* Every dataset of a grandmaster carries the quality it announces. *)
ConsistentRefs == RefsOf([g \in Grandmasters |-> {Announced[g]}])

(* Grandmaster 1 has lost its time source and degraded its clockClass    *)
(* from 6 to 248; one path still holds an announce with the old value, so *)
(* both qualities of grandmaster 1 can be present at once.                *)
StaleRefs ==
    RefsOf([g \in Grandmasters |-> IF g = 1 THEN {Q(6), Q(248)} ELSE {Announced[g]}])

=============================================================================
