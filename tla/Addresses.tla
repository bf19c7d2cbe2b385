----------------------------- MODULE Addresses -----------------------------
(***************************************************************************)
(* Source addresses as the agent and the XDP program see them.             *)
(*                                                                         *)
(* An IPv4 address is its four bytes in network order, which is also what  *)
(* the datapath reads into ip->saddr.  An IPv6 address is opaque, except   *)
(* that a v4-mapped one (::ffff:a.b.c.d) is made from its four IPv4 bytes: *)
(* net.IP.String() and net.IP.To4() do not tell it from the IPv4 address.  *)
(***************************************************************************)
EXTENDS Naturals

CONSTANTS
    V4,             \* IPv4 addresses: sequences of four bytes in network order
    V6,             \* IPv6 addresses that are not v4-mapped
    MappedV4,       \* IPv4 addresses that also arrive v4-mapped, in IPv6 frames
    LittleEndian    \* byte order of the host the agent runs on

ASSUME AddressAssumption ==
    /\ V4 \subseteq [1..4 -> 0..255]
    /\ V4 \cap V6 = {}
    /\ MappedV4 \subseteq V4
    /\ LittleEndian \in BOOLEAN

(* The strings net.IP.String() yields: the keys of the Blocker's Go maps.  *)
Addr == V4 \cup V6

Family(a) == IF a \in V4 THEN "v4" ELSE "v6"

ipToKey4_Bug(a) == [i \in 1..4 |-> a[5 - i]]     \* binary.LittleEndian

(* binary.BigEndian.Uint32(ip4): the number, as its base-256 digits with   *)
(* the most significant one first.                                         *)
ipToKey4(a) == a

(* cilium/ebpf writes a uint32 key to the map in the host's byte order.    *)
HostBytes(u) == IF LittleEndian THEN [i \in 1..4 |-> u[5 - i]] ELSE u

(* copy(key[:], ip.To16()): the bytes are kept as they are.                *)
ipToKey6(a) == a

(* The bytes under which the agent stores an address in its BPF map.       *)
MapKey(a) == IF a \in V4 THEN HostBytes(ipToKey4(a)) ELSE ipToKey6(a)

(***************************************************************************)
(* A packet's source: the Ethernet type selects the XDP path and with it   *)
(* the map, the bytes of the source address are the key that is looked up. *)
(***************************************************************************)
Source == ({"v4"} \X V4) \cup ({"v6"} \X (V6 \cup MappedV4))

(* parseEvent copies the address into a net.IP; String() of a v4-mapped    *)
(* address is the dotted IPv4 form, so both families share a name.         *)
NameOf(s) == s[2]

(* The program's blocklist lookup, on the contents m of the two maps.      *)
Drops(m, s) == s[2] \in DOMAIN m[s[1]]
=============================================================================
