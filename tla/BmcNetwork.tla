----------------------------- MODULE BmcNetwork -----------------------------
(***************************************************************************)
(* A network of ordinary/boundary clocks running the BMCA.  Each clock     *)
(* has ports 1..NumPorts, each port is linked point-to-point to one port   *)
(* of another clock (Peer).  The decision core is bmc.c (dscmp and         *)
(* bmc_state_decision, from BmcCompare and BmcDecision); everything around *)
(* it is the outer engine of the spec (sections 1, 5 and 6), which is not  *)
(* part of the source:                                                     *)
(*   - a port in a master state sends Announce messages carrying its       *)
(*     clock's parent grandmaster and stepsRemoved;                        *)
(*   - a port keeps the dataset of the last Announce it received (its      *)
(*     best foreign master, Erbest); a message is lost or overwritten in   *)
(*     the one-message link buffer;                                        *)
(*   - an announce receipt timeout expires only when the peer has stopped  *)
(*     announcing, and drops the stale foreign dataset;                    *)
(*   - one state-decision event of a clock computes Ebest over its ports   *)
(*     (a scan in port order keeping a candidate only if dscmp prefers     *)
(*     it), then calls bmc_state_decision for every port and applies the   *)
(*     result, updating the parent dataset (slave or grandmaster).         *)
(***************************************************************************)
EXTENDS BmcDecision, FiniteSets, TLC

CONSTANTS
    Clocks,           \* clock identities, ordered as memcmp orders them
    NumPorts,         \* every clock has ports 1..NumPorts
    Peer,             \* Peer[p]: the port at the other end of p's link
    DefaultDS,        \* DefaultDS[c]: priority1, quality, priority2 of clock c
    MaxStepsRemoved,  \* announces with stepsRemoved >= this are ignored
    LinkLoss,         \* whether links may lose Announce messages
    Failing,          \* clocks that may fail (once)
    Restarting,       \* failing clocks whose process is started again
    SteadyFailures    \* whether clocks fail only once the tree is built

Port(c, n) == [clockIdentity |-> c, portNumber |-> n]
Ports == {Port(c, n) : c \in Clocks, n \in 1 .. NumPorts}
PortsOf(c) == {Port(c, n) : n \in 1 .. NumPorts}

ASSUME
    /\ Peer \in [Ports -> Ports]
    /\ \A p \in Ports : Peer[Peer[p]] = p /\ Peer[p].clockIdentity # p.clockIdentity
    /\ LinkLoss \in BOOLEAN
    /\ Failing \subseteq Clocks /\ Failing # Clocks
    /\ Restarting \subseteq Failing
    /\ SteadyFailures \in BOOLEAN

VARIABLES
    fmr,      \* fmr[p]: the foreign dataset held for port p (Erbest), or NULL
    pstate,   \* pstate[p]: the state of port p
    parent,   \* parent[c]: grandmaster and stepsRemoved clock c announces
    chan,     \* chan[p]: the Announce in flight towards port p, or NULL
    sde,      \* sde[c]: a state decision event is pending at clock c
    up,       \* up[c]: the ptp4l process of clock c is running
    failed    \* failed[c]: clock c has failed once

vars == <<fmr, pstate, parent, chan, sde, up, failed>>

Sending == {MASTER, GRAND_MASTER}
Steps == 0 .. MaxStepsRemoved

Own(c) == [identity |-> c, priority1 |-> DefaultDS[c].priority1,
           quality |-> DefaultDS[c].quality, priority2 |-> DefaultDS[c].priority2,
           stepsRemoved |-> 0]

(* D0, clock_default_ds: the clock's own dataset, sender = receiver = port 0. *)
D0(c) == Own(c) @@ [addr |-> <<"dds", c>>, sender |-> Port(c, 0), receiver |-> Port(c, 0)]

(* The grandmaster description a clock follows, and an Announce: that    *)
(* description with the sending port.                                    *)
GmInfo == {[Own(c) EXCEPT !.stepsRemoved = s] : c \in Clocks, s \in Steps}
Announces == {g @@ [sender |-> s] : g \in GmInfo, s \in Ports}

(* The foreign dataset port p stores for Announce m. *)
Received(p, m) ==
    [identity |-> m.identity, priority1 |-> m.priority1, quality |-> m.quality,
     priority2 |-> m.priority2, stepsRemoved |-> m.stepsRemoved,
     sender |-> m.sender, receiver |-> p, addr |-> p]

TypeOK ==
    /\ DOMAIN fmr = Ports
    /\ \A p \in Ports : fmr[p] \in {NULL} \cup {Received(p, m) : m \in Announces}
    /\ pstate \in [Ports -> DecisionStates]
    /\ parent \in [Clocks -> GmInfo]
    /\ chan \in [Ports -> {NULL} \cup Announces]
    /\ sde \in [Clocks -> BOOLEAN]
    /\ up \in [Clocks -> BOOLEAN]
    /\ failed \in [Clocks -> BOOLEAN]

Init ==
    /\ fmr = [p \in Ports |-> NULL]
    /\ pstate = [p \in Ports |-> LISTENING]
    /\ parent = [c \in Clocks |-> Own(c)]
    /\ chan = [p \in Ports |-> NULL]
    /\ sde = [c \in Clocks |-> FALSE]
    /\ up = [c \in Clocks |-> TRUE]
    /\ failed = [c \in Clocks |-> FALSE]

-----------------------------------------------------------------------------
(* A port in MASTER or GRAND_MASTER sends an Announce to its peer; a      *)
(* message still in the buffer is overwritten.                            *)
SendAnnounce(p) ==
    /\ up[p.clockIdentity]
    /\ pstate[p] \in Sending
    /\ chan' = [chan EXCEPT ![Peer[p]] = parent[p.clockIdentity] @@ [sender |-> p]]
    /\ UNCHANGED <<fmr, pstate, parent, sde, up, failed>>

(* Port p takes the Announce in its buffer.  One whose stepsRemoved is at *)
(* the limit is dropped; otherwise it becomes the port's foreign dataset  *)
(* and, if that changed, a state decision event is raised.                *)
ReceiveAnnounce(p) ==
    LET m == chan[p]
        c == p.clockIdentity
    IN  /\ up[c]
        /\ m # NULL
        /\ chan' = [chan EXCEPT ![p] = NULL]
        /\ IF m.stepsRemoved >= MaxStepsRemoved \/ Received(p, m) = fmr[p]
           THEN UNCHANGED <<fmr, sde>>
           ELSE /\ fmr' = [fmr EXCEPT ![p] = Received(p, m)]
                /\ sde' = [sde EXCEPT ![c] = TRUE]
        /\ UNCHANGED <<pstate, parent, up, failed>>

(* The link loses the Announce in flight towards p. *)
LoseAnnounce(p) ==
    /\ LinkLoss
    /\ chan[p] # NULL
    /\ chan' = [chan EXCEPT ![p] = NULL]
    /\ UNCHANGED <<fmr, pstate, parent, sde, up, failed>>

(* The peer has stopped announcing. *)
Silent(p) == chan[p] = NULL /\ pstate[Peer[p]] \notin Sending

(* Announce receipt timeout of a listening, passive or slave port: the    *)
(* foreign dataset expires, the port goes to MASTER and a state decision  *)
(* event is raised.                                                       *)
AnnounceReceiptTimeout(p) ==
    /\ up[p.clockIdentity]
    /\ pstate[p] \in {LISTENING, PASSIVE, SLAVE}
    /\ Silent(p)
    /\ fmr' = [fmr EXCEPT ![p] = NULL]
    /\ pstate' = [pstate EXCEPT ![p] = MASTER]
    /\ sde' = [sde EXCEPT ![p.clockIdentity] = TRUE]
    /\ UNCHANGED <<parent, chan, up, failed>>

(* A master port ages out the dataset of a peer that stopped announcing. *)
PruneForeign(p) ==
    /\ up[p.clockIdentity]
    /\ pstate[p] \in Sending
    /\ fmr[p] # NULL
    /\ Silent(p)
    /\ fmr' = [fmr EXCEPT ![p] = NULL]
    /\ UNCHANGED <<pstate, parent, chan, sde, up, failed>>

-----------------------------------------------------------------------------
(* Ebest: scan the ports in order, keep a port's dataset if there is no   *)
(* candidate yet or dscmp prefers it to the candidate.                    *)
RECURSIVE BestFrom(_, _, _)
BestFrom(c, n, best) ==
    IF n > NumPorts THEN best
    ELSE LET fc == fmr[Port(c, n)]
         IN  BestFrom(c, n + 1,
                      IF fc # NULL /\ (best = NULL \/ dscmp(fc, best) > 0) THEN fc ELSE best)

Ebest(c) == BestFrom(c, 1, NULL)

(* Mutant: the parent dataset copied whole from Ebest, port fields and all. *)
ParentCopied(best) == [best EXCEPT !.stepsRemoved = @ + 1]

(* The parent dataset of a slave: the grandmaster fields of Ebest, one    *)
(* more step removed.                                                     *)
ParentFrom(best) ==
    [identity |-> best.identity, priority1 |-> best.priority1,
     quality |-> best.quality, priority2 |-> best.priority2,
     stepsRemoved |-> best.stepsRemoved + 1]

(* The state decision event of clock c: every port is decided against the *)
(* same Ebest, then the clock follows Ebest if a port became SLAVE, or    *)
(* itself if a port became GRAND_MASTER.                                  *)
StateDecision(c) ==
    LET best == Ebest(c)
        next == [p \in Ports |->
                   IF p \in PortsOf(c)
                   THEN bmc_state_decision(D0(c), best, fmr[p],
                            best # NULL /\ best.addr = p, pstate[p], FALSE)
                   ELSE pstate[p]]
        states == {next[p] : p \in PortsOf(c)}
    IN  /\ up[c]
        /\ sde[c]
        /\ pstate' = next
        /\ parent' = [parent EXCEPT ![c] =
                        CASE SLAVE \in states -> ParentFrom(best)
                          [] GRAND_MASTER \in states -> Own(c)
                          [] OTHER -> @]
        /\ sde' = [sde EXCEPT ![c] = FALSE]
        /\ UNCHANGED <<fmr, chan, up, failed>>

-----------------------------------------------------------------------------
(* The running clocks and their ports. *)
Live == {c \in Clocks : up[c]}
LivePorts == {p \in Ports : up[p.clockIdentity]}

(* The running clock whose default dataset dscmp prefers to every other  *)
(* running one.                                                           *)
BestClock == CHOOSE c \in Live : \A d \in Live \ {c} : dscmp(D0(c), D0(d)) > 0

(* The clocks that reach the best clock by following SLAVE ports: grown *)
(* from S by every clock with a SLAVE port facing a clock of S.           *)
RECURSIVE FollowersOf(_)
FollowersOf(S) ==
    LET more == S \cup {p.clockIdentity : p \in {q \in LivePorts : pstate[q] = SLAVE
                                               /\ Peer[q].clockIdentity \in S}}
    IN  IF more = S THEN S ELSE FollowersOf(more)

(* The synchronization tree the BMCA is meant to build over the running   *)
(* clocks: every one names the best running clock as grandmaster, every   *)
(* other one has exactly one SLAVE port, facing a master, following SLAVE *)
(* ports leads to the best clock (no synchronization loop), and no link   *)
(* has a master at both ends.                                             *)
SyncTree ==
    /\ \A c \in Live : parent[c].identity = BestClock
    /\ \A c \in Live :
          Cardinality({p \in PortsOf(c) : pstate[p] = SLAVE}) = IF c = BestClock THEN 0 ELSE 1
    /\ \A p \in LivePorts : pstate[p] = SLAVE => pstate[Peer[p]] \in Sending
    /\ \A p \in LivePorts : ~(pstate[p] \in Sending /\ pstate[Peer[p]] \in Sending)
    /\ FollowersOf({BestClock}) = Live

-----------------------------------------------------------------------------
(* Clock c fails: its process stops, so it sends, receives and decides    *)
(* nothing more; its ports no longer announce (kept as LISTENING).  Its   *)
(* Announces already on a link are still delivered.                      *)
Fail(c) ==
    /\ c \in Failing
    /\ SteadyFailures => SyncTree
    /\ ~failed[c]
    /\ up' = [up EXCEPT ![c] = FALSE]
    /\ failed' = [failed EXCEPT ![c] = TRUE]
    /\ pstate' = [p \in Ports |-> IF p \in PortsOf(c) THEN LISTENING ELSE pstate[p]]
    /\ UNCHANGED <<fmr, parent, chan, sde>>

(* Clock c restarts with the state of a new process: ports LISTENING, no  *)
(* foreign records, itself as parent.                                     *)
Restart(c) ==
    /\ c \in Restarting
    /\ ~up[c]
    /\ SteadyFailures => SyncTree
    /\ up' = [up EXCEPT ![c] = TRUE]
    /\ fmr' = [p \in Ports |-> IF p \in PortsOf(c) THEN NULL ELSE fmr[p]]
    /\ parent' = [parent EXCEPT ![c] = Own(c)]
    /\ sde' = [sde EXCEPT ![c] = FALSE]
    /\ UNCHANGED <<pstate, chan, failed>>

Next ==
    \/ \E p \in Ports :
          \/ SendAnnounce(p)
          \/ ReceiveAnnounce(p)
          \/ LoseAnnounce(p)
          \/ AnnounceReceiptTimeout(p)
          \/ PruneForeign(p)
    \/ \E c \in Clocks : StateDecision(c) \/ Fail(c) \/ Restart(c)

(* Announce interval and announce receipt timers keep firing, a message  *)
(* in a link buffer is eventually taken, and the clock's poll loop        *)
(* handles a pending decision event.  Weak fairness of ReceiveAnnounce    *)
(* promises delivery only on a link that does not lose messages, so       *)
(* Converges is checked with LinkLoss = FALSE.                            *)
Fairness ==
    /\ \A p \in Ports : /\ WF_vars(SendAnnounce(p))
                        /\ WF_vars(ReceiveAnnounce(p))
                        /\ WF_vars(AnnounceReceiptTimeout(p))
    /\ \A c \in Clocks : WF_vars(StateDecision(c))

Spec == Init /\ [][Next]_vars /\ Fairness

-----------------------------------------------------------------------------
(* Convergence (spec section 1): from the start, with every port          *)
(* LISTENING, and again after a clock fails or restarts, the clocks       *)
(* running dscmp and bmc_state_decision eventually build the              *)
(* synchronization tree over the running clocks and keep it.  After the   *)
(* grandmaster fails, its last Announces keep circulating with growing    *)
(* stepsRemoved; this says they die out.                                  *)
Converges == <>[]SyncTree

(* The Announce port p sends now. *)
Current(p) == parent[p.clockIdentity] @@ [sender |-> p]

(* Nothing is left to change: no decision event pending, no timeout or   *)
(* prune enabled, every master's current Announce already absorbed by its *)
(* peer (or beyond the stepsRemoved limit), every message in flight       *)
(* current.  From here only Announces that change nothing are exchanged.  *)
Quiescent ==
    /\ \A c \in Live : ~sde[c]
    /\ \A p \in LivePorts :
          /\ ~ENABLED AnnounceReceiptTimeout(p)
          /\ ~ENABLED PruneForeign(p)
          /\ pstate[p] \in Sending =>
                \/ Current(p).stepsRemoved >= MaxStepsRemoved
                \/ fmr[Peer[p]] = Received(Peer[p], Current(p))
          /\ \/ chan[p] = NULL
             \/ /\ Peer[p] \in LivePorts /\ pstate[Peer[p]] \in Sending
                /\ chan[p] = Current(Peer[p])

(* Every fixpoint of the protocol is the synchronization tree: whatever   *)
(* order of sends, losses, timeouts and decisions led there, a network    *)
(* with nothing left to change has one grandmaster and no loop.           *)
QuiescentIsTree == Quiescent => SyncTree

=============================================================================
