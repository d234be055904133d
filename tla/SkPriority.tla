----------------------------- MODULE SkPriority -----------------------------
(***************************************************************************)
(* sk_set_priority, sk.c:544-578: write a DSCP value into the IPv4 TOS     *)
(* byte or the IPv6 traffic class of a socket, keeping the two ECN bits    *)
(* below it.  The socket's current value is read with getsockopt (a failed *)
(* read counts as 0), bits 2-7 are cleared, dscp << 2 is or-ed in and the  *)
(* result is written back with setsockopt.                                 *)
(*                                                                         *)
(* A call is a record: the address family, what getsockopt returns (0 and  *)
(* the byte it read, or -1), the dscp argument (a uint8_t) and whether the kernel takes  *)
(* the setsockopt.  Its outcome is the return value together with the     *)
(* socket option written and the int value written (NONE when nothing is  *)
(* written).  tos is an int and ~0xFC is all ones but bits 2-7.  The      *)
(* values here (a byte read, dscp << 2 of a uint8_t) use bits 0-9 only,   *)
(* so the mask is taken on 16 bits: `tos & ~0xFC` is the And of tos with  *)
(* 2^16 - 1 - 0xFC (TLC's integers are 32-bit signed, 2^32 overflows).    *)
(***************************************************************************)
EXTENDS Integers, Bitwise

CONSTANTS
    Families,   \* address families a caller passes (AF_INET, AF_INET6, others)
    Tos,        \* values getsockopt can read back: bytes
    Dscps,      \* dscp arguments
    NONE        \* nothing written

AF_INET == "AF_INET"
AF_INET6 == "AF_INET6"

LOW16_MASK == 2^16 - 1

GetResults == [ret : {0}, tos : Tos] \cup [ret : {-1}]

Calls == [family : Families, get : GetResults, dscp : Dscps, setOk : BOOLEAN]

(* The level and option name for a family; only IPv4 and IPv6 have one. *)
SockOpt(family) ==
    CASE family = AF_INET  -> <<"IPPROTO_IP", "IP_TOS">>
      [] family = AF_INET6 -> <<"IPPROTO_IPV6", "IPV6_TCLASS">>

(* A failed getsockopt leaves tos = 0. *)
ReadTos(c) == IF c.get.ret < 0 THEN 0 ELSE c.get.tos

(* tos &= ~0xFC; tos |= dscp << 2; *)
SetDscp(tos, dscp) == (tos & (LOW16_MASK - 252)) | (dscp * 4)

sk_set_priority(c) ==
    IF c.family \notin {AF_INET, AF_INET6}
    THEN [ret |-> -1, opt |-> NONE, written |-> NONE]
    ELSE [ret |-> IF c.setOk THEN 0 ELSE -1,
          opt |-> SockOpt(c.family),
          written |-> SetDscp(ReadTos(c), c.dscp)]

=============================================================================
