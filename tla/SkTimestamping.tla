--------------------------- MODULE SkTimestamping ---------------------------
(***************************************************************************)
(* Packet timestamping of sk.c: sk_timestamping_init (with hwts_init and   *)
(* sk_general_init) configuring a socket and the network device's          *)
(* hardware timestamping, and sk_receive returning a received packet or a  *)
(* transmit timestamp together with the timestamp hwts->ts.                *)
(*                                                                         *)
(* Each socket is opened (or, after a port fault, re-opened) with a        *)
(* configuration: timestamp type, transport and sk_hwts_filter_mode.  The  *)
(* device's hardware timestamping configuration is one per interface, so   *)
(* it is shared by every socket on it.  The driver and the kernel are the  *)
(* environment: the driver accepts some (tx type, rx filter) requests and  *)
(* writes back the filter it applied (the one asked, a wider one, or       *)
(* HWTSTAMP_FILTER_SOME, "all packets requested plus some others"); the    *)
(* kernel stamps a received packet in the slots of the cmsg that the       *)
(* socket's SO_TIMESTAMPING flags ask for, the hardware slots only when    *)
(* the device's filter covers the packet.  A timestamp is modelled by its  *)
(* source: "sw" (ts[0]), "sys" (ts[1]), "raw" (ts[2]), "now" (a reading of *)
(* CLOCK_REALTIME) or "zero".                                              *)
(***************************************************************************)
EXTENDS Integers, Sequences

CONSTANTS
    Sockets,        \* the sockets opened on one interface
    Configs,        \* the configurations a socket may be opened with
    Drivers,        \* the drivers the interface may have
    CheckFupsync,   \* sk_check_fupsync
    SelectErrQueue, \* whether the kernel has SO_SELECT_ERR_QUEUE
    SockoptFails,   \* whether setsockopt may fail
    RxCap,          \* packets a socket's receive queue holds in the model
    ErrCap          \* transmit timestamps the error queue holds

Types == {"TS_SOFTWARE", "TS_HARDWARE", "TS_LEGACY_HW", "TS_ONESTEP", "TS_P2P1STEP"}
Transports == {"TRANS_UDP_IPV4", "TRANS_UDP_IPV6", "TRANS_IEEE_802_3"}
Modes == {"HWTS_FILTER_CHECK", "HWTS_FILTER_FULL", "HWTS_FILTER_NORMAL"}
REJECT == "REJECT"

(* Which timestamp slot a socket of this type reports. *)
Source(type) ==
    CASE type = "TS_SOFTWARE"  -> "sw"
      [] type = "TS_LEGACY_HW" -> "sys"
      [] OTHER                 -> "raw"

(* The filter a driver actually applies, and whether it stamps a received *)
(* event or general PTP message of the given transport.                   *)
Effective(d) == IF d.rx = "HWTSTAMP_FILTER_SOME" THEN d.req ELSE d.rx
Covers(d, transport, kind) ==
    LET f == Effective(d)
    IN  \/ f = "HWTSTAMP_FILTER_ALL"
        \/ kind = "event" /\ f = "HWTSTAMP_FILTER_PTP_V2_EVENT"
        \/ kind = "event" /\ f = "HWTSTAMP_FILTER_PTP_V2_L4_EVENT"
                          /\ transport \in {"TRANS_UDP_IPV4", "TRANS_UDP_IPV6"}
        \/ kind = "event" /\ f = "HWTSTAMP_FILTER_PTP_V2_L2_EVENT"
                          /\ transport = "TRANS_IEEE_802_3"

VARIABLES
    conf,        \* conf[s]: the configuration socket s was opened with
    driver,      \* the driver: what it accepts and how its GET probe answers
    hw,          \* the device configuration: tx, rx (as reported), req, bonded
    state,       \* state[s]: "closed", "ok" or "failed" (sk_timestamping_init)
    sof,         \* sof[s]: the socket's SO_TIMESTAMPING flags
    tsns,        \* tsns[s]: SO_TIMESTAMPNS on
    sk_events, sk_revents,
    rxq,         \* rxq[s]: received packets with their stamps
    errq,        \* errq[s]: transmit timestamps on the error queue
    last         \* the last sk_receive: socket, what it returned, hwts->ts

vars == <<conf, driver, hw, state, sof, tsns, sk_events, sk_revents, rxq, errq, last>>

Init ==
    /\ conf \in [Sockets -> Configs]
    /\ driver \in Drivers
    /\ hw = [tx |-> "HWTSTAMP_TX_OFF", rx |-> "HWTSTAMP_FILTER_NONE",
             req |-> "HWTSTAMP_FILTER_NONE", bonded |-> FALSE]
    /\ state = [s \in Sockets |-> "closed"]
    /\ sof = [s \in Sockets |-> {}]
    /\ tsns = [s \in Sockets |-> FALSE]
    /\ sk_events = "POLLPRI"
    /\ sk_revents = "POLLPRI"
    /\ rxq = [s \in Sockets |-> <<>>]
    /\ errq = [s \in Sockets |-> <<>>]
    /\ last = [kind |-> "none"]

-----------------------------------------------------------------------------
(* The SO_TIMESTAMPING flags, tx type and second rx filter that           *)
(* sk_timestamping_init chooses.                                          *)
Flags(type) ==
    CASE type = "TS_SOFTWARE"  -> {"TX_SOFTWARE", "RX_SOFTWARE", "SOFTWARE"}
      [] type = "TS_LEGACY_HW" -> {"TX_HARDWARE", "RX_HARDWARE", "SYS_HARDWARE"}
      [] OTHER                 -> {"TX_HARDWARE", "RX_HARDWARE", "RAW_HARDWARE"}

TxType(type) ==
    CASE type = "TS_ONESTEP"  -> "HWTSTAMP_TX_ONESTEP_SYNC"
      [] type = "TS_P2P1STEP" -> "HWTSTAMP_TX_ONESTEP_P2P"
      [] OTHER                -> "HWTSTAMP_TX_ON"

Filter2(transport) ==
    IF transport = "TRANS_IEEE_802_3" THEN "HWTSTAMP_FILTER_PTP_V2_L2_EVENT"
    ELSE "HWTSTAMP_FILTER_PTP_V2_L4_EVENT"

(* The first filter hwts_init asks the driver for in each mode. *)
FirstFilter(mode) ==
    IF mode = "HWTS_FILTER_FULL" THEN "HWTSTAMP_FILTER_ALL" ELSE "HWTSTAMP_FILTER_PTP_V2_EVENT"

(* The answers of SIOCSHWTSTAMP with tx type tx and filter f: the filter  *)
(* the driver writes back, or REJECT.                                     *)
Replies(tx, f) ==
    IF tx \in driver.tx /\ f \in DOMAIN driver.reply THEN driver.reply[f] ELSE {REJECT}

(* The device configuration after an accepted SIOCSHWTSTAMP. *)
Applied(tx, f, r, bonded) == [tx |-> tx, rx |-> r, req |-> f, bonded |-> bonded]

(* Mutant: the final check accepts any rx filter the driver reports. *)
FinalCheckTxOnly(tx, f1, f2, ctx, crx) == ctx = tx

(* hwts_init's final check of the configuration read or written back. *)
FinalCheck(tx, f1, f2, ctx, crx) ==
    ctx = tx /\ crx \in {f1, f2, "HWTSTAMP_FILTER_ALL"}

(* hwts_init(fd, device, PTP_V2_EVENT, filter2, tx_type), with r1 and r2  *)
(* the driver's answers to its first and fallback SIOCSHWTSTAMP: the      *)
(* return value (0 or an error) and the device configuration after it.    *)
(* The GET probe with HWTSTAMP_FLAG_BONDED_PHC_INDEX decides the flag;    *)
(* the fallback request is built from a cleared ifreq.                    *)
hwts_init(c, r1, r2) ==
    LET tx == TxType(c.type)
        f1 == "HWTSTAMP_FILTER_PTP_V2_EVENT"
        f2 == Filter2(c.transport)
        bonded == driver.probe = "ok"
        Final(ctx, crx, h) == [ret |-> IF FinalCheck(tx, f1, f2, ctx, crx) THEN 0 ELSE -1, dev |-> h]
        Fail == [ret |-> -1, dev |-> hw]
        Unsome(r, f) == IF r = "HWTSTAMP_FILTER_SOME" THEN f ELSE r
    IN  CASE driver.probe = "EPERM"     -> Fail
          [] c.mode = "HWTS_FILTER_CHECK" ->
                IF driver.probe = "EOPNOTSUPP" THEN Fail ELSE Final(hw.tx, hw.rx, hw)
          [] c.mode = "HWTS_FILTER_FULL"  ->
                IF r1 = REJECT THEN Fail
                ELSE Final(tx, r1, Applied(tx, "HWTSTAMP_FILTER_ALL", r1, bonded))
          [] r1 # REJECT -> Final(tx, Unsome(r1, f1), Applied(tx, f1, r1, bonded))
          [] r2 # REJECT -> Final(tx, Unsome(r2, f2), Applied(tx, f2, r2, FALSE))
          [] OTHER       -> Fail

(* Socket s is opened (or re-opened after a fault) and                    *)
(* sk_timestamping_init runs on it: hwts_init for a hardware type, then   *)
(* SO_TIMESTAMPING, SO_SELECT_ERR_QUEUE (whose failure switches the       *)
(* file-wide sk_events/sk_revents to POLLERR) and sk_general_init         *)
(* (SO_TIMESTAMPNS).  okTs and okNs are the outcomes of the two           *)
(* setsockopt calls that can fail the function.                           *)
sk_timestamping_init(s, r1, r2, okTs, okNs) ==
    LET c == conf[s]
        h == IF c.type = "TS_SOFTWARE" THEN [ret |-> 0, dev |-> hw] ELSE hwts_init(c, r1, r2)
        tsOk == h.ret = 0 /\ okTs
    IN  /\ hw' = h.dev
        /\ sof' = [sof EXCEPT ![s] = IF tsOk THEN Flags(c.type) ELSE {}]
        /\ IF tsOk /\ ~SelectErrQueue
           THEN sk_events' = "0" /\ sk_revents' = "POLLERR"
           ELSE UNCHANGED <<sk_events, sk_revents>>
        /\ tsns' = [tsns EXCEPT ![s] = tsOk /\ okNs /\ CheckFupsync]
        /\ state' = [state EXCEPT ![s] = IF tsOk /\ okNs THEN "ok" ELSE "failed"]
        /\ rxq' = [rxq EXCEPT ![s] = <<>>]
        /\ errq' = [errq EXCEPT ![s] = <<>>]
        /\ UNCHANGED <<conf, driver, last>>

Open(s) ==
    LET c == conf[s]
    IN  \E r1 \in Replies(TxType(c.type), FirstFilter(c.mode)),
           r2 \in Replies(TxType(c.type), Filter2(c.transport)),
           okTs, okNs \in IF SockoptFails THEN BOOLEAN ELSE {TRUE} :
            sk_timestamping_init(s, r1, r2, okTs, okNs)

(* Environment: a PTP message of the given kind arrives on socket s; the  *)
(* kernel fills the slots the socket's flags ask for, the hardware ones   *)
(* only when the device's filter covers the message.                      *)
Arrive(s, kind) ==
    LET hwOn == Covers(hw, conf[s].transport, kind)
    IN  /\ state[s] = "ok"
        /\ Len(rxq[s]) < RxCap
        /\ rxq' = [rxq EXCEPT ![s] = Append(@,
                     [kind |-> kind,
                      sw |-> {"RX_SOFTWARE", "SOFTWARE"} \subseteq sof[s],
                      sys |-> {"RX_HARDWARE", "SYS_HARDWARE"} \subseteq sof[s] /\ hwOn,
                      raw |-> {"RX_HARDWARE", "RAW_HARDWARE"} \subseteq sof[s] /\ hwOn,
                      ns |-> tsns[s]])]
        /\ UNCHANGED <<conf, driver, hw, state, sof, tsns, sk_events, sk_revents, errq, last>>

(* Environment: an event message is sent on s and the kernel queues its  *)
(* transmit timestamp on the error queue (dropped when the queue is full). *)
Transmit(s) ==
    LET src == IF "TX_SOFTWARE" \in sof[s] THEN "sw"
               ELSE IF "TX_HARDWARE" \in sof[s] /\ hw.tx # "HWTSTAMP_TX_OFF"
                    THEN IF "RAW_HARDWARE" \in sof[s] THEN "raw" ELSE "sys"
                    ELSE "none"
    IN  /\ state[s] = "ok"
        /\ errq' = IF src # "none" /\ Len(errq[s]) < ErrCap
                   THEN [errq EXCEPT ![s] = Append(@, src)] ELSE errq
        /\ UNCHANGED <<conf, driver, hw, state, sof, tsns, sk_events, sk_revents, rxq, last>>

(* Mutant: TS_LEGACY_HW reads the raw hardware slot as the other types do. *)
RxSlotLegacyRaw(type, p) ==
    IF type = "TS_SOFTWARE" THEN p.sw ELSE p.raw

(* The slot of the SO_TIMESTAMPING cmsg sk_receive copies to hwts->ts. *)
RxSlot(type, p) ==
    CASE type = "TS_SOFTWARE"  -> p.sw
      [] type = "TS_LEGACY_HW" -> p.sys
      [] OTHER                 -> p.raw

(* sk_receive(fd, buf, len, addr, hwts, 0): recvmsg takes the packet;     *)
(* without a SO_TIMESTAMPING cmsg hwts->ts is zeroed, otherwise it is     *)
(* the slot of hwts->type; SO_TIMESTAMPNS sets hwts->sw.                  *)
sk_receive(s) ==
    LET p == Head(rxq[s])
        type == conf[s].type
        stamped == (p.sw \/ p.sys \/ p.raw) /\ RxSlot(type, p)
    IN  /\ state[s] = "ok"
        /\ rxq[s] # <<>>
        /\ rxq' = [rxq EXCEPT ![s] = Tail(@)]
        /\ last' = [sock |-> s, kind |-> p.kind, ts |-> IF stamped THEN Source(type) ELSE "zero",
                    sw |-> p.ns]
        /\ UNCHANGED <<conf, driver, hw, state, sof, tsns, sk_events, sk_revents, errq>>

(* sk_receive(fd, buf, len, NULL, hwts, MSG_ERRQUEUE), as the transports  *)
(* call it after sending an event message: hwts is given, so hwts->ts is  *)
(* the current CLOCK_REALTIME and 1 is returned before the error queue is *)
(* polled or read.                                                        *)
sk_receive_errqueue(s) ==
    /\ state[s] = "ok"
    /\ last' = [sock |-> s, kind |-> "tx", ts |-> "now"]
    /\ UNCHANGED <<conf, driver, hw, state, sof, tsns, sk_events, sk_revents, rxq, errq>>

Next ==
    \E s \in Sockets :
        \/ Open(s)
        \/ \E kind \in {"event", "general"} : Arrive(s, kind)
        \/ Transmit(s)
        \/ sk_receive(s)
        \/ sk_receive_errqueue(s)

Spec == Init /\ [][Next]_vars

-----------------------------------------------------------------------------
(* A PTP event message received on a socket whose sk_timestamping_init    *)
(* returned 0 carries a timestamp from the source its type asks for: the  *)
(* driver negotiation accepted only a filter that covers the transport's  *)
(* event messages, and sk_receive reads the slot the flags filled.        *)
EventRxStamped ==
    last.kind = "event" /\ state[last.sock] = "ok" =>
        last.ts = Source(conf[last.sock].type)

(* The transmit timestamp sk_receive returns for a sent event message     *)
(* comes from the source the socket's type asks for (the poll for the    *)
(* error queue, its EINTR retry and the cmsg selection are written for    *)
(* that).                                                                 *)
TxStamped ==
    last.kind = "tx" => last.ts = Source(conf[last.sock].type)

(* When the kernel supports HWTSTAMP_FLAG_BONDED_PHC_INDEX (the GET probe *)
(* succeeded) every configuration hwts_init writes carries it ("If VLAN   *)
(* over bond supported in kernel, configure flag in driver").             *)
BondedFlagKept ==
    driver.probe = "ok" /\ hw.req # "HWTSTAMP_FILTER_NONE" => hw.bonded

=============================================================================
