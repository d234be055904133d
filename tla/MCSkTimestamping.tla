-------------------------- MODULE MCSkTimestamping --------------------------
(***************************************************************************)
(* Configurations and drivers for SkTimestamping.  Every combination of    *)
(* timestamp type, transport and filter mode is a configuration.  The      *)
(* drivers are the kinds hwts_init meets:                                  *)
(*   Generic   accepts every PTP filter, may widen PTP_V2_EVENT to ALL or  *)
(*             answer HWTSTAMP_FILTER_SOME; one-step sync but not P2P;     *)
(*   L4Only    rejects PTP_V2_EVENT and ALL, takes the L4 filter (the      *)
(*             fallback request);                                          *)
(*   Narrowing an older kernel without the bonded flag (the probe fails    *)
(*             with EINVAL) whose driver narrows PTP_V2_EVENT to L2;       *)
(*   NoGet     no SIOCGHWTSTAMP (EOPNOTSUPP), stamps everything;           *)
(*   Denied    the GET probe fails with EPERM.                             *)
(***************************************************************************)
EXTENDS SkTimestamping, TLC

F(x) == "HWTSTAMP_FILTER_" \o x

AllConfigs == [type : Types, transport : Transports, mode : Modes]

Generic ==
    [probe |-> "ok", tx |-> {"HWTSTAMP_TX_ON", "HWTSTAMP_TX_ONESTEP_SYNC"},
     reply |-> (F("ALL") :> {F("ALL")})
            @@ (F("PTP_V2_EVENT") :> {F("PTP_V2_EVENT"), F("ALL"), F("SOME")})
            @@ (F("PTP_V2_L4_EVENT") :> {F("PTP_V2_L4_EVENT")})
            @@ (F("PTP_V2_L2_EVENT") :> {F("PTP_V2_L2_EVENT")})]

L4Only ==
    [probe |-> "ok", tx |-> {"HWTSTAMP_TX_ON"},
     reply |-> F("PTP_V2_L4_EVENT") :> {F("PTP_V2_L4_EVENT"), F("SOME")}]

Narrowing ==
    [probe |-> "EINVAL", tx |-> {"HWTSTAMP_TX_ON"},
     reply |-> F("PTP_V2_EVENT") :> {F("PTP_V2_L2_EVENT")}]

NoGet ==
    [probe |-> "EOPNOTSUPP", tx |-> {"HWTSTAMP_TX_ON", "HWTSTAMP_TX_ONESTEP_P2P"},
     reply |-> (F("ALL") :> {F("ALL")}) @@ (F("PTP_V2_EVENT") :> {F("ALL")})]

Denied == [probe |-> "EPERM", tx |-> {}, reply |-> <<>>]

AllDrivers == {Generic, L4Only, Narrowing, NoGet, Denied}

(* Two programs on one interface, both with hardware timestamps and the   *)
(* normal filter mode, over any transport, and a driver that stamps only  *)
(* one transport's event messages at a time: it rejects PTP_V2_EVENT and  *)
(* takes the L4 or the L2 filter.                                         *)
SharedConfigs ==
    [type : {"TS_HARDWARE"}, transport : {"TRANS_UDP_IPV4", "TRANS_IEEE_802_3"},
     mode : {"HWTS_FILTER_NORMAL"}]

SplitFilters ==
    [probe |-> "ok", tx |-> {"HWTSTAMP_TX_ON"},
     reply |-> (F("PTP_V2_L4_EVENT") :> {F("PTP_V2_L4_EVENT")})
            @@ (F("PTP_V2_L2_EVENT") :> {F("PTP_V2_L2_EVENT")})]

SplitDrivers == {SplitFilters}


=============================================================================
