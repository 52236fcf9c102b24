--------------------------- MODULE PacketCapture ---------------------------
(***************************************************************************)
(* What a capture socket makes of one Ethernet frame: the kernel runs the  *)
(* classic BPF program of src/src/sources/bpf_filter.rs on it, and the     *)
(* capture loop of src/src/sources/pcap.rs extracts the UDP payload,       *)
(* parses it (src/src/shred.rs) and hands it to the sources whose address  *)
(* filter matches.  Orbshred starts from the result: a key and the set of  *)
(* sources.                                                                *)
(*                                                                         *)
(* A frame is given by the header fields at the offsets that program and   *)
(* loop read, by the number of bytes captured and by the slot of the shred *)
(* it carries.  What lies at any other offset is the field `noise`.        *)
(*                                                                         *)
(* The socket receives from its creation on, for all interfaces and ports; *)
(* filter and interface are set afterwards.  A frame that was queued in    *)
(* between has not been filtered (`early`), and is captured like the rest. *)
(***************************************************************************)
EXTENDS Naturals, Sequences, FiniteSets

CONSTANTS
  Port,        \* the port of the socket, other than OtherPort
  OtherPort,
  Addresses,   \* IPv4 addresses
  Names,       \* strings of the configuration that do not parse as one
  Sources,     \* the sources that share the socket
  SourceIps,   \* source -> its source_ips
  ExcludeIps,  \* source -> its exclude_ips
  Sizes,       \* numbers of bytes captured
  UdpLengths,  \* values of the UDP length field
  HeaderWords, \* values of the field for the length of the IP header
  Offsets      \* fragment offsets

NoAddress == "none"
MaxU16 == 65535
MaxU13 == 8191
U16 == 0..MaxU16
U13 == 0..MaxU13

ASSUME CaptureAssumption ==
  /\ Port \in U16 \ {0} /\ OtherPort \in U16 \ {0} /\ Port # OtherPort
  /\ Addresses \cap Names = {} /\ NoAddress \notin Addresses
  /\ SourceIps \in [Sources -> SUBSET (Addresses \cup Names)]
  /\ ExcludeIps \in [Sources -> SUBSET (Addresses \cup Names)]
  /\ Sizes \subseteq Nat /\ UdpLengths \subseteq U16 /\ Offsets \subseteq U13
  /\ HeaderWords \subseteq {0} \cup 5..15  \* 0 stands for all that are too short

VARIABLES
  frame,      \* the frame under way
  early,      \* was it queued before the filter was attached?
  pc, a, x,   \* the registers of the BPF machine
  verdict,    \* "running", then "accept" or "drop"
  delivered,  \* the sources that got the shred
  finished    \* has the capture loop dealt with the frame?

vars == <<frame, early, pc, a, x, verdict, delivered, finished>>

Ipv4 == 2048  Vlan == 33024  Ipv6 == 34525
Udp  == 17    Tcp  == 6
MoreFragments == 8192  \* the flag next to the 13 bits of the fragment offset
FragmentOffset(field) == field % MoreFragments

-----------------------------------------------------------------------------
(* Frames. *)

IpStart(f)  == IF f.vlan THEN 18 ELSE 14
UdpStart(f) == IpStart(f) + 4 * f.ihl

(* The length field of a fragmented datagram counts all of its fragments.  *)
PlausibleFragment(f) == f.frag = MoreFragments => UdpStart(f) + f.udp_len > f.size

Frames ==
  {f \in [vlan : BOOLEAN, ethertype : {Ipv4, Ipv6, Vlan}, proto : {Udp, Tcp},
          ihl : HeaderWords, frag : Offsets \cup {o + MoreFragments : o \in Offsets},
          dst_port : {Port, OtherPort}, udp_len : UdpLengths, size : Sizes,
          src_ip : Addresses, slot : {0, 1}, noise : {0, Port}] :
     PlausibleFragment(f) /\ (~f.vlan => f.ethertype # Vlan)}

Half(f, at) ==
  CASE at = 12                 -> IF f.vlan THEN Vlan ELSE f.ethertype
    [] at = 16 /\ f.vlan       -> f.ethertype
    [] at = IpStart(f) + 6     -> f.frag
    [] at = UdpStart(f) + 2    -> f.dst_port
    [] at = UdpStart(f) + 4    -> f.udp_len
    [] OTHER                   -> f.noise

Byte(f, at) == IF at = IpStart(f) + 9 THEN f.proto ELSE f.noise

(* The low four bits of a byte. *)
Nibble(f, at) == IF at = IpStart(f) THEN f.ihl ELSE f.noise % 16

-----------------------------------------------------------------------------
(* build_bpf_filter *)

Op(code, jt, jf, k) == [code |-> code, jt |-> jt, jf |-> jf, k |-> k]

(* The program; two of its numbers are open for the mutants. *)
Program(to_drop, port_at) ==
  << Op("ldh", 0, 0, 12), Op("jeq", 3, 0, Ipv4), Op("jeq", 0, to_drop, Vlan),
     Op("ldh", 0, 0, 16), Op("jeq", 7, 15, Ipv4),
     Op("ldb", 0, 0, 23), Op("jeq", 0, 13, Udp), Op("ldh", 0, 0, 20),
     Op("jset", 11, 0, 8191), Op("msh", 0, 0, 14), Op("ldh_x", 0, 0, 16),
     Op("jeq", 7, 8, Port),
     Op("ldb", 0, 0, 27), Op("jeq", 0, 6, Udp), Op("ldh", 0, 0, 24),
     Op("jset", 4, 0, 8191), Op("msh", 0, 0, 18), Op("ldh_x", 0, 0, port_at),
     Op("jeq", 0, 1, Port),
     Op("ret", 0, 0, 65535), Op("ret", 0, 0, 0) >>

(* Mutant: a jump beyond the end. *)
build_bpf_filter_long_jump == Program(18, 20)

(* Mutant: the VLAN path loads the port where the plain path finds it. *)
build_bpf_filter_plain_port == Program(17, 16)

build_bpf_filter == Program(17, 20)

(* The kernel's machine; a load beyond the frame drops it. *)

op == build_bpf_filter[pc + 1]

Goto(distance) == pc' = pc + 1 + distance /\ verdict' = verdict

LoadAt(at, width, value) ==
  IF at + width <= frame.size
    THEN a' = value /\ Goto(0)
    ELSE verdict' = "drop" /\ UNCHANGED <<a, pc>>

LoadHalf  == op.code = "ldh" /\ LoadAt(op.k, 2, Half(frame, op.k)) /\ UNCHANGED x
LoadByte  == op.code = "ldb" /\ LoadAt(op.k, 1, Byte(frame, op.k)) /\ UNCHANGED x
LoadAtX   == op.code = "ldh_x" /\ LoadAt(x + op.k, 2, Half(frame, x + op.k)) /\ UNCHANGED x
LoadIhl   ==
  /\ op.code = "msh" /\ UNCHANGED a
  /\ IF op.k < frame.size
       THEN x' = 4 * Nibble(frame, op.k) /\ Goto(0)
       ELSE verdict' = "drop" /\ UNCHANGED <<x, pc>>
JumpEqual ==
  op.code = "jeq" /\ Goto(IF a = op.k THEN op.jt ELSE op.jf) /\ UNCHANGED <<a, x>>
JumpSet   ==  \* the mask is that of the fragment offset
  op.code = "jset" /\ Goto(IF a % (op.k + 1) # 0 THEN op.jt ELSE op.jf) /\ UNCHANGED <<a, x>>
Return    ==
  /\ op.code = "ret" /\ verdict' = IF op.k = 0 THEN "drop" ELSE "accept"
  /\ UNCHANGED <<pc, a, x>>

Filter ==
  /\ verdict = "running"
  /\ LoadHalf \/ LoadByte \/ LoadAtX \/ LoadIhl \/ JumpEqual \/ JumpSet \/ Return
  /\ UNCHANGED <<frame, early, delivered, finished>>

-----------------------------------------------------------------------------
(* The capture loop. *)

HasIpHeader(f) ==
  /\ f.size >= 14
  /\ \/ ~f.vlan /\ f.ethertype = Ipv4
     \/ f.vlan /\ f.size >= 18 /\ f.ethertype = Ipv4

extract_src_ip(f) ==
  IF HasIpHeader(f) /\ f.size >= IpStart(f) + 16 THEN f.src_ip ELSE NoAddress

PayloadLength(f) == IF f.udp_len > 8 THEN f.udp_len - 8 ELSE 0

(* Mutant: the length field is trusted. *)
ExtractsPayloadUnbounded(f) ==
  /\ HasIpHeader(f) /\ f.size >= IpStart(f) + 20
  /\ f.ihl >= 5 /\ f.size >= UdpStart(f) + 8
  /\ f.proto = Udp /\ FragmentOffset(f.frag) = 0

(* Does extract_udp_payload return a payload? *)
ExtractsPayload(f) ==
  /\ HasIpHeader(f) /\ f.size >= IpStart(f) + 20
  /\ f.ihl >= 5 /\ f.size >= UdpStart(f) + 8
  /\ f.proto = Udp /\ FragmentOffset(f.frag) = 0
  /\ UdpStart(f) + 8 + PayloadLength(f) <= f.size

(* Does parse_shred_key return a key? *)
ParsesAsShred(f) == PayloadLength(f) >= 83 /\ f.slot # 0

(* main.rs parses the addresses and skips what does not parse. *)
Include(source) == SourceIps[source] \cap Addresses
Exclude(source) == ExcludeIps[source] \cap Addresses
HasFilter(source) == Include(source) # {} \/ Exclude(source) # {}

(* Mutant: an exclusion is not looked at. *)
route_matches_included(source, ip) ==
  HasFilter(source) => ip # NoAddress /\ (Include(source) # {} => ip \in Include(source))

route_matches(source, ip) ==
  HasFilter(source) =>
    /\ ip # NoAddress /\ ip \notin Exclude(source)
    /\ Include(source) # {} => ip \in Include(source)

Capture ==
  /\ verdict # "running" /\ ~finished
  /\ finished' = TRUE
  /\ delivered' =
       IF verdict = "accept" /\ ExtractsPayload(frame) /\ ParsesAsShred(frame)
         THEN LET ip == IF \E s \in Sources : HasFilter(s)
                          THEN extract_src_ip(frame) ELSE NoAddress
              IN {source \in Sources : route_matches(source, ip)}
         ELSE {}
  /\ UNCHANGED <<frame, early, pc, a, x, verdict>>

Init ==
  /\ frame \in Frames /\ early \in BOOLEAN
  /\ pc = 0 /\ a = 0 /\ x = 0 /\ verdict = IF early THEN "accept" ELSE "running"
  /\ delivered = {} /\ finished = FALSE

Next == Filter \/ Capture

Spec == Init /\ [][Next]_vars

-----------------------------------------------------------------------------
(* Type invariant of the machine: it never runs off its program. *)
TypeOK ==
  /\ frame \in Frames /\ early \in BOOLEAN
  /\ pc \in 0..20 /\ a \in Nat /\ x \in 0..60
  /\ verdict \in {"running", "accept", "drop"}
  /\ delivered \subseteq Sources /\ finished \in BOOLEAN

(* bpf_filter.rs 9-12: on frames with a sane IP header the program accepts *)
(* exactly the UDP packets to Port over plain or tagged Ethernet that do   *)
(* not start in the middle of a datagram.                                  *)
FilterIsExact ==
  ~early /\ frame.ihl >= 5 /\ verdict # "running" =>
    (verdict = "accept" <=>
       /\ frame.ethertype = Ipv4 /\ frame.proto = Udp
       /\ FragmentOffset(frame.frag) = 0 /\ frame.dst_port = Port
       /\ frame.size >= UdpStart(frame) + 4)

(* Filter (bpf_filter.rs), parser (pcap.rs 94-109) and shred parser work   *)
(* together: what reaches a source is a whole datagram to Port, never a    *)
(* fragment or a packet with a broken IP header, although the filter lets  *)
(* some of these through.  The capture loop does not look at the port, so  *)
(* a frame that precedes the filter (pcap.rs 143-174) may be for another.  *)
WholeDatagramsOnly ==
  delivered # {} =>
    /\ frame.ihl >= 5 /\ frame.frag = 0 /\ frame.proto = Udp
    /\ frame.dst_port = Port \/ early
    /\ UdpStart(frame) + frame.udp_len <= frame.size

(* config.example.toml 50-64 splits the providers of one port by address:  *)
(* a source per provider, and one for the rest that excludes them all.     *)
RoutesSplit ==
  \E rest \in Sources :
    LET providers == Sources \ {rest} IN
    /\ Include(rest) = {} /\ Exclude(rest) = UNION {Include(s) : s \in providers}
    /\ \A s \in providers : Include(s) # {} /\ Exclude(s) = {}
    /\ \A s, t \in providers : s # t => Include(s) \cap Include(t) = {}

(* With such routes every shred that arrives whole counts for exactly one  *)
(* source, and for the source of its provider if it has one.               *)
ProvidersAreSplit ==
  /\ finished /\ frame.ethertype = Ipv4 /\ frame.ihl >= 5 /\ frame.frag = 0
  /\ frame.proto = Udp /\ (frame.dst_port = Port \/ early) /\ frame.slot # 0
  /\ frame.udp_len >= 91 /\ UdpStart(frame) + frame.udp_len <= frame.size
  => /\ Cardinality(delivered) = 1
     /\ \A s \in Sources : frame.src_ip \in Include(s) => delivered = {s}
=============================================================================
