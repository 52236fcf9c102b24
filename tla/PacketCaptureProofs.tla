------------------------ MODULE PacketCaptureProofs ------------------------
(***************************************************************************)
(* Filter, parser and routes of a capture socket, for any port, addresses, *)
(* sizes, length fields and sources.                                       *)
(*                                                                         *)
(* The inductive invariant says, for every instruction of the program,     *)
(* what the jumps that lead to it have established about the frame.        *)
(***************************************************************************)
EXTENDS PacketCapture, FiniteSetTheorems, TLAPS

Plain(f)  == ~f.vlan /\ f.ethertype = Ipv4
Tagged(f) == f.vlan /\ f.ethertype = Ipv4

(* The packets that the program is for. *)
Wanted(f) ==
  /\ f.ethertype = Ipv4 /\ f.proto = Udp
  /\ FragmentOffset(f.frag) = 0 /\ f.dst_port = Port
  /\ f.size >= UdpStart(f) + 4

(* The checks of a packet whose header `begun` describes, in the seven     *)
(* instructions from `start` on.                                           *)
ChecksOK(start, begun) ==
  /\ pc \in start..start + 6 => begun
  /\ pc = start + 1 => a = frame.proto
  /\ pc \in start + 2..start + 6 => frame.proto = Udp
  /\ pc = start + 3 => a = frame.frag
  /\ pc \in start + 4..start + 6 => FragmentOffset(frame.frag) = 0
  /\ pc \in start + 5..start + 6 => x = 4 * frame.ihl
  /\ pc = start + 6 /\ frame.ihl >= 5 =>
       a = frame.dst_port /\ frame.size >= UdpStart(frame) + 4

(* What the program knows when it gets to an instruction. *)
PathOK ==
  /\ pc \in {1, 2} => a = Half(frame, 12)
  /\ pc = 2 => ~Plain(frame)
  /\ pc \in {3, 4} => frame.vlan
  /\ pc = 4 => a = frame.ethertype
  /\ ChecksOK(5, Plain(frame)) /\ ChecksOK(12, Tagged(frame))
  /\ frame.ihl >= 5 => (pc = 19 => Wanted(frame)) /\ (pc = 20 => ~Wanted(frame))

VerdictOK ==
  /\ verdict # "running" /\ ~early /\ frame.ihl >= 5 => (verdict = "accept" <=> Wanted(frame))
  /\ early => verdict = "accept"

(* What the loop has handed out, and to whom. *)
DeliveryOK ==
  /\ finished => verdict # "running"
  /\ delivered =
       IF finished /\ verdict = "accept" /\ ExtractsPayload(frame) /\ ParsesAsShred(frame)
         THEN {source \in Sources : route_matches(source,
                IF \E s \in Sources : HasFilter(s) THEN extract_src_ip(frame) ELSE NoAddress)}
         ELSE {}

CaptureInv == TypeOK /\ PathOK /\ VerdictOK /\ DeliveryOK

-----------------------------------------------------------------------------
(* The frames and the program. *)

LEMMA WidthFacts ==
  /\ \A n \in U16 : n \in Nat
  /\ \A n \in U13 : n \in Nat /\ n < 8192
<1>1. MaxU16 \in Nat /\ MaxU13 \in Nat /\ MaxU13 < 8192
  BY DEF MaxU16, MaxU13
<1>2. \A n \in U16 : n \in Nat
  BY <1>1 DEF U16
<1>3. \A n \in U13 : n \in Nat /\ n <= MaxU13
  BY <1>1 DEF U13
<1>4. QED
  BY <1>1, <1>2, <1>3

LEMMA Numbers ==
  /\ Sizes \subseteq Nat /\ UdpLengths \subseteq Nat
  /\ Port \in Nat /\ OtherPort \in Nat /\ Port # 0 /\ OtherPort # 0 /\ Port # OtherPort
  /\ HeaderWords \subseteq {0} \cup 5..15 /\ Offsets \subseteq U13
<1>1. U16 \subseteq Nat
  BY WidthFacts
<1>2. QED
  BY <1>1, CaptureAssumption

(* A fragment field of offset zero is that of a whole datagram or of the   *)
(* first of several fragments.                                             *)
LEMMA FragmentFacts ==
  ASSUME NEW frag \in Offsets \cup {o + MoreFragments : o \in Offsets}
  PROVE  frag \in Nat /\ (FragmentOffset(frag) = 0 => frag \in {0, MoreFragments})
<1>1. PICK o \in U13 : frag \in {o, o + MoreFragments}
  BY Numbers
<1>2. o \in Nat /\ o < 8192
  BY WidthFacts
<1>3. o % 8192 = o /\ (o + 8192) % 8192 = o
  BY <1>2
<1>4. CASE frag = o
  BY <1>2, <1>3, <1>4 DEF FragmentOffset, MoreFragments
<1>5. CASE frag = o + MoreFragments
  BY <1>2, <1>3, <1>5 DEF FragmentOffset, MoreFragments
<1>6. QED
  BY <1>1, <1>4, <1>5

LEMMA FrameFacts ==
  ASSUME NEW f \in Frames
  PROVE  /\ f.vlan \in BOOLEAN /\ f.ethertype \in {Ipv4, Ipv6, Vlan} /\ f.proto \in {Udp, Tcp}
         /\ f.ihl \in {0} \cup 5..15 /\ f.frag \in Nat
         /\ FragmentOffset(f.frag) = 0 => f.frag \in {0, MoreFragments}
         /\ f.dst_port \in {Port, OtherPort} /\ f.udp_len \in Nat /\ f.size \in Nat
         /\ f.src_ip \in Addresses /\ f.slot \in {0, 1} /\ f.noise \in {0, Port}
         /\ PlausibleFragment(f) /\ (~f.vlan => f.ethertype # Vlan)
<1>1. /\ f \in [vlan : BOOLEAN, ethertype : {Ipv4, Ipv6, Vlan}, proto : {Udp, Tcp},
              ihl : HeaderWords, frag : Offsets \cup {o + MoreFragments : o \in Offsets},
              dst_port : {Port, OtherPort}, udp_len : UdpLengths, size : Sizes,
              src_ip : Addresses, slot : {0, 1}, noise : {0, Port}]
      /\ PlausibleFragment(f) /\ (~f.vlan => f.ethertype # Vlan)
  BY Zenon DEF Frames
<1>2. f.udp_len \in UdpLengths /\ f.size \in Sizes
  BY <1>1
<1>3. f.udp_len \in Nat /\ f.size \in Nat
  BY <1>2, Numbers
<1>4. /\ f.vlan \in BOOLEAN /\ f.ethertype \in {Ipv4, Ipv6, Vlan} /\ f.proto \in {Udp, Tcp}
      /\ f.ihl \in HeaderWords /\ f.frag \in Offsets \cup {o + MoreFragments : o \in Offsets}
      /\ f.dst_port \in {Port, OtherPort}
      /\ f.src_ip \in Addresses /\ f.slot \in {0, 1} /\ f.noise \in {0, Port}
  BY <1>1
<1>5. f.ihl \in {0} \cup 5..15
  BY <1>4, Numbers
<1>6. f.frag \in Nat /\ (FragmentOffset(f.frag) = 0 => f.frag \in {0, MoreFragments})
  BY <1>4, FragmentFacts, Zenon
<1>7. QED
  BY <1>1, <1>3, <1>4, <1>5, <1>6, Zenon

(* What the loads of the program find.                                     *)
LEMMA LoadFacts ==
  ASSUME NEW f \in Frames
  PROVE  /\ \A at \in Nat : Half(f, at) \in Nat /\ Byte(f, at) \in Nat
         /\ \A at \in Nat : Nibble(f, at) \in 0..15
         /\ Nibble(f, IpStart(f)) = f.ihl
         /\ Half(f, 12) = IF f.vlan THEN Vlan ELSE f.ethertype
         /\ f.vlan => Half(f, 16) = f.ethertype
         /\ ~f.vlan => Half(f, 20) = f.frag /\ Byte(f, 23) = f.proto
         /\ f.vlan => Half(f, 24) = f.frag /\ Byte(f, 27) = f.proto
         /\ f.ihl >= 5 /\ ~f.vlan => /\ Half(f, 4 * f.ihl + 16) = f.dst_port
                                     /\ 4 * f.ihl + 18 = UdpStart(f) + 4
         /\ f.ihl >= 5 /\ f.vlan => /\ Half(f, 4 * f.ihl + 20) = f.dst_port
                                    /\ 4 * f.ihl + 22 = UdpStart(f) + 4
<1> USE DEF IpStart, UdpStart, Ipv4, Ipv6, Vlan, Udp, Tcp, MoreFragments
<1>1. ASSUME NEW at \in Nat PROVE Half(f, at) \in Nat /\ Byte(f, at) \in Nat
  <2>1. /\ f.ethertype \in Nat /\ f.frag \in Nat /\ f.dst_port \in Nat
        /\ f.udp_len \in Nat /\ f.noise \in Nat /\ f.proto \in Nat
    BY FrameFacts, Numbers
  <2>2. Byte(f, at) \in Nat
    BY <2>1 DEF Byte
  <2>3. Half(f, at) \in Nat
    <3> HIDE DEF IpStart, UdpStart
    <3>1. Half(f, at) \in {Vlan, f.ethertype, f.frag, f.dst_port, f.udp_len, f.noise}
      BY DEF Half
    <3>2. QED
      BY <2>1, <3>1
  <2>4. QED
    BY <2>2, <2>3
<1>2. Half(f, 12) = IF f.vlan THEN Vlan ELSE f.ethertype
  BY FrameFacts DEF Half
<1>3. ASSUME f.vlan
      PROVE  /\ Half(f, 16) = f.ethertype /\ Half(f, 24) = f.frag /\ Byte(f, 27) = f.proto
             /\ f.ihl >= 5 => Half(f, 4 * f.ihl + 20) = f.dst_port
  BY <1>3, FrameFacts DEF Half, Byte
<1>4. ASSUME ~f.vlan
      PROVE  /\ Half(f, 20) = f.frag /\ Byte(f, 23) = f.proto
             /\ f.ihl >= 5 => Half(f, 4 * f.ihl + 16) = f.dst_port
  BY <1>4, FrameFacts DEF Half, Byte
<1>5. \A at \in Nat : Nibble(f, at) \in 0..15
  <2>1. f.noise \in Nat
    BY FrameFacts, Numbers
  <2>2. f.noise % 16 \in 0..15
    BY <2>1
  <2>3. QED
    BY <2>2, FrameFacts DEF Nibble
<1>6. Nibble(f, IpStart(f)) = f.ihl
  BY DEF Nibble
<1>7. QED
  BY <1>1, <1>2, <1>3, <1>4, <1>5, <1>6, FrameFacts

-----------------------------------------------------------------------------
(* The machine.  What an instruction of each kind does, whatever its place. *)

Machine == LoadHalf \/ LoadByte \/ LoadAtX \/ LoadIhl \/ JumpEqual \/ JumpSet \/ Return

(* The load finds its value and goes on, or the frame is too short.        *)
Loads(at, width, value) ==
  \/ at + width <= frame.size /\ a' = value /\ pc' = pc + 1 /\ verdict' = verdict
  \/ at + width > frame.size /\ verdict' = "drop" /\ a' = a /\ pc' = pc

LoadsNibble(at) ==
  /\ a' = a
  /\ \/ at < frame.size /\ x' = 4 * Nibble(frame, at) /\ pc' = pc + 1 /\ verdict' = verdict
     \/ ~(at < frame.size) /\ x' = x /\ pc' = pc /\ verdict' = "drop"

LEMMA LoadSteps ==
  ASSUME NEW at, NEW width, NEW value, LoadAt(at, width, value), pc \in Nat,
         at \in Nat, width \in Nat, frame.size \in Nat
  PROVE  Loads(at, width, value)
BY DEF LoadAt, Loads, Goto

LEMMA MachineSteps ==
  ASSUME Machine, pc \in Nat
  PROVE  \/ op.code = "ldh" /\ LoadAt(op.k, 2, Half(frame, op.k)) /\ x' = x
         \/ op.code = "ldb" /\ LoadAt(op.k, 1, Byte(frame, op.k)) /\ x' = x
         \/ op.code = "ldh_x" /\ LoadAt(x + op.k, 2, Half(frame, x + op.k)) /\ x' = x
         \/ op.code = "msh" /\ LoadsNibble(op.k)
         \/ op.code = "jeq" /\ pc' = pc + 1 + (IF a = op.k THEN op.jt ELSE op.jf)
              /\ verdict' = verdict /\ a' = a /\ x' = x
         \/ op.code = "jset" /\ pc' = pc + 1 + (IF a % (op.k + 1) # 0 THEN op.jt ELSE op.jf)
              /\ verdict' = verdict /\ a' = a /\ x' = x
         \/ op.code = "ret" /\ verdict' = (IF op.k = 0 THEN "drop" ELSE "accept")
              /\ pc' = pc /\ a' = a /\ x' = x
BY DEF Machine, LoadHalf, LoadByte, LoadAtX, LoadIhl, LoadsNibble, JumpEqual, JumpSet, Return, Goto

(* The program with its jumps resolved. *)
Jumps(condition, yes, no) ==
  pc' = (IF condition THEN yes ELSE no) /\ verdict' = verdict /\ a' = a /\ x' = x

Steps ==
  /\ pc = 0 => Loads(12, 2, Half(frame, 12)) /\ x' = x
  /\ pc = 1 => Jumps(a = Ipv4, 5, 2)
  /\ pc = 2 => Jumps(a = Vlan, 3, 20)
  /\ pc = 3 => Loads(16, 2, Half(frame, 16)) /\ x' = x
  /\ pc = 4 => Jumps(a = Ipv4, 12, 20)
  /\ pc = 5 => Loads(23, 1, Byte(frame, 23)) /\ x' = x
  /\ pc = 6 => Jumps(a = Udp, 7, 20)
  /\ pc = 7 => Loads(20, 2, Half(frame, 20)) /\ x' = x
  /\ pc = 8 => Jumps(FragmentOffset(a) # 0, 20, 9)
  /\ pc = 9 => LoadsNibble(14)
  /\ pc = 10 => Loads(x + 16, 2, Half(frame, x + 16)) /\ x' = x
  /\ pc = 11 => Jumps(a = Port, 19, 20)
  /\ pc = 12 => Loads(27, 1, Byte(frame, 27)) /\ x' = x
  /\ pc = 13 => Jumps(a = Udp, 14, 20)
  /\ pc = 14 => Loads(24, 2, Half(frame, 24)) /\ x' = x
  /\ pc = 15 => Jumps(FragmentOffset(a) # 0, 20, 16)
  /\ pc = 16 => LoadsNibble(18)
  /\ pc = 17 => Loads(x + 20, 2, Half(frame, x + 20)) /\ x' = x
  /\ pc = 18 => Jumps(a = Port, 19, 20)
  /\ pc = 19 => verdict' = "accept" /\ pc' = pc /\ a' = a /\ x' = x
  /\ pc = 20 => verdict' = "drop" /\ pc' = pc /\ a' = a /\ x' = x

LEMMA StepsFollow == Machine /\ TypeOK => Steps
<1> SUFFICES ASSUME Machine, TypeOK PROVE Steps
  OBVIOUS
<1>1. pc \in 0..20 /\ x \in Nat /\ frame.size \in Nat
  BY FrameFacts DEF TypeOK
<1>2. ASSUME pc = 0 PROVE Loads(12, 2, Half(frame, 12)) /\ x' = x
  <2>1. op = [code |-> "ldh", jt |-> 0, jf |-> 0, k |-> 12]
    BY <1>2 DEF op, Op, build_bpf_filter, Program
  <2>2. QED
    BY <1>1, <1>2, <2>1, MachineSteps, LoadSteps
<1>3. ASSUME pc = 1 PROVE Jumps(a = Ipv4, 5, 2)
  <2>1. op = [code |-> "jeq", jt |-> 3, jf |-> 0, k |-> Ipv4]
    BY <1>3 DEF op, Op, build_bpf_filter, Program
  <2>2. QED
    BY <1>1, <1>3, <2>1, MachineSteps DEF Jumps
<1>4. ASSUME pc = 2 PROVE Jumps(a = Vlan, 3, 20)
  <2>1. op = [code |-> "jeq", jt |-> 0, jf |-> 17, k |-> Vlan]
    BY <1>4 DEF op, Op, build_bpf_filter, Program
  <2>2. QED
    BY <1>1, <1>4, <2>1, MachineSteps DEF Jumps
<1>5. ASSUME pc = 3 PROVE Loads(16, 2, Half(frame, 16)) /\ x' = x
  <2>1. op = [code |-> "ldh", jt |-> 0, jf |-> 0, k |-> 16]
    BY <1>5 DEF op, Op, build_bpf_filter, Program
  <2>2. QED
    BY <1>1, <1>5, <2>1, MachineSteps, LoadSteps
<1>6. ASSUME pc = 4 PROVE Jumps(a = Ipv4, 12, 20)
  <2>1. op = [code |-> "jeq", jt |-> 7, jf |-> 15, k |-> Ipv4]
    BY <1>6 DEF op, Op, build_bpf_filter, Program
  <2>2. QED
    BY <1>1, <1>6, <2>1, MachineSteps DEF Jumps
<1>7. ASSUME pc = 5 PROVE Loads(23, 1, Byte(frame, 23)) /\ x' = x
  <2>1. op = [code |-> "ldb", jt |-> 0, jf |-> 0, k |-> 23]
    BY <1>7 DEF op, Op, build_bpf_filter, Program
  <2>2. QED
    BY <1>1, <1>7, <2>1, MachineSteps, LoadSteps
<1>8. ASSUME pc = 6 PROVE Jumps(a = Udp, 7, 20)
  <2>1. op = [code |-> "jeq", jt |-> 0, jf |-> 13, k |-> Udp]
    BY <1>8 DEF op, Op, build_bpf_filter, Program
  <2>2. QED
    BY <1>1, <1>8, <2>1, MachineSteps DEF Jumps
<1>9. ASSUME pc = 7 PROVE Loads(20, 2, Half(frame, 20)) /\ x' = x
  <2>1. op = [code |-> "ldh", jt |-> 0, jf |-> 0, k |-> 20]
    BY <1>9 DEF op, Op, build_bpf_filter, Program
  <2>2. QED
    BY <1>1, <1>9, <2>1, MachineSteps, LoadSteps
<1>10. ASSUME pc = 8 PROVE Jumps(FragmentOffset(a) # 0, 20, 9)
  <2>1. op = [code |-> "jset", jt |-> 11, jf |-> 0, k |-> 8191]
    BY <1>10 DEF op, Op, build_bpf_filter, Program
  <2>2. QED
    BY <1>1, <1>10, <2>1, MachineSteps DEF Jumps, FragmentOffset, MoreFragments
<1>11. ASSUME pc = 9 PROVE LoadsNibble(14)
  <2>1. op = [code |-> "msh", jt |-> 0, jf |-> 0, k |-> 14]
    BY <1>11 DEF op, Op, build_bpf_filter, Program
  <2>2. QED
    BY <1>1, <1>11, <2>1, MachineSteps
<1>12. ASSUME pc = 10 PROVE Loads(x + 16, 2, Half(frame, x + 16)) /\ x' = x
  <2>1. op = [code |-> "ldh_x", jt |-> 0, jf |-> 0, k |-> 16]
    BY <1>12 DEF op, Op, build_bpf_filter, Program
  <2>2. QED
    BY <1>1, <1>12, <2>1, MachineSteps, LoadSteps
<1>13. ASSUME pc = 11 PROVE Jumps(a = Port, 19, 20)
  <2>1. op = [code |-> "jeq", jt |-> 7, jf |-> 8, k |-> Port]
    BY <1>13 DEF op, Op, build_bpf_filter, Program
  <2>2. QED
    BY <1>1, <1>13, <2>1, MachineSteps DEF Jumps
<1>14. ASSUME pc = 12 PROVE Loads(27, 1, Byte(frame, 27)) /\ x' = x
  <2>1. op = [code |-> "ldb", jt |-> 0, jf |-> 0, k |-> 27]
    BY <1>14 DEF op, Op, build_bpf_filter, Program
  <2>2. QED
    BY <1>1, <1>14, <2>1, MachineSteps, LoadSteps
<1>15. ASSUME pc = 13 PROVE Jumps(a = Udp, 14, 20)
  <2>1. op = [code |-> "jeq", jt |-> 0, jf |-> 6, k |-> Udp]
    BY <1>15 DEF op, Op, build_bpf_filter, Program
  <2>2. QED
    BY <1>1, <1>15, <2>1, MachineSteps DEF Jumps
<1>16. ASSUME pc = 14 PROVE Loads(24, 2, Half(frame, 24)) /\ x' = x
  <2>1. op = [code |-> "ldh", jt |-> 0, jf |-> 0, k |-> 24]
    BY <1>16 DEF op, Op, build_bpf_filter, Program
  <2>2. QED
    BY <1>1, <1>16, <2>1, MachineSteps, LoadSteps
<1>17. ASSUME pc = 15 PROVE Jumps(FragmentOffset(a) # 0, 20, 16)
  <2>1. op = [code |-> "jset", jt |-> 4, jf |-> 0, k |-> 8191]
    BY <1>17 DEF op, Op, build_bpf_filter, Program
  <2>2. QED
    BY <1>1, <1>17, <2>1, MachineSteps DEF Jumps, FragmentOffset, MoreFragments
<1>18. ASSUME pc = 16 PROVE LoadsNibble(18)
  <2>1. op = [code |-> "msh", jt |-> 0, jf |-> 0, k |-> 18]
    BY <1>18 DEF op, Op, build_bpf_filter, Program
  <2>2. QED
    BY <1>1, <1>18, <2>1, MachineSteps
<1>19. ASSUME pc = 17 PROVE Loads(x + 20, 2, Half(frame, x + 20)) /\ x' = x
  <2>1. op = [code |-> "ldh_x", jt |-> 0, jf |-> 0, k |-> 20]
    BY <1>19 DEF op, Op, build_bpf_filter, Program
  <2>2. QED
    BY <1>1, <1>19, <2>1, MachineSteps, LoadSteps
<1>20. ASSUME pc = 18 PROVE Jumps(a = Port, 19, 20)
  <2>1. op = [code |-> "jeq", jt |-> 0, jf |-> 1, k |-> Port]
    BY <1>20 DEF op, Op, build_bpf_filter, Program
  <2>2. QED
    BY <1>1, <1>20, <2>1, MachineSteps DEF Jumps
<1>21. ASSUME pc = 19 PROVE verdict' = "accept" /\ pc' = pc /\ a' = a /\ x' = x
  <2>1. op = [code |-> "ret", jt |-> 0, jf |-> 0, k |-> 65535]
    BY <1>21 DEF op, Op, build_bpf_filter, Program
  <2>2. QED
    BY <1>1, <1>21, <2>1, MachineSteps
<1>22. ASSUME pc = 20 PROVE verdict' = "drop" /\ pc' = pc /\ a' = a /\ x' = x
  <2>1. op = [code |-> "ret", jt |-> 0, jf |-> 0, k |-> 0]
    BY <1>22 DEF op, Op, build_bpf_filter, Program
  <2>2. QED
    BY <1>1, <1>22, <2>1, MachineSteps
<1>23. QED
  BY <1>2, <1>3, <1>4, <1>5, <1>6, <1>7, <1>8, <1>9, <1>10, <1>11, <1>12, <1>13,
     <1>14, <1>15, <1>16, <1>17, <1>18, <1>19, <1>20, <1>21, <1>22, Zenon DEF Steps

-----------------------------------------------------------------------------
(* The invariant. *)

(* What a filter step has to preserve. *)
MachineOK ==
  /\ pc \in 0..20 /\ a \in Nat /\ x \in 0..60 /\ verdict \in {"running", "accept", "drop"}
  /\ PathOK /\ VerdictOK

LEMMA MachineKeeps ==
  ASSUME CaptureInv, Filter
  PROVE  MachineOK'
<1> DEFINE f == frame
<1>1. /\ verdict = "running" /\ Steps /\ ~early
      /\ frame' = frame /\ early' = early
      /\ pc \in 0..20 /\ a \in Nat /\ x \in 0..60
  <2>1. Machine /\ verdict = "running" /\ frame' = frame /\ early' = early
    BY DEF Filter, Machine
  <2>2. QED
    BY <2>1, StepsFollow DEF CaptureInv, TypeOK, VerdictOK
<1>2. f \in Frames
  BY DEF CaptureInv, TypeOK
<1>3. /\ f.vlan \in BOOLEAN /\ f.ethertype \in Nat /\ f.proto \in Nat /\ f.ihl \in {0} \cup 5..15
      /\ f.frag \in Nat /\ f.dst_port \in Nat /\ f.size \in Nat
  BY <1>2, FrameFacts, Numbers DEF Ipv4, Ipv6, Vlan, Udp, Tcp, MoreFragments
<1>4. PathOK
  BY DEF CaptureInv
<1>5. CASE pc = 0
  BY <1>1, <1>2, <1>3, <1>4, <1>5, FrameFacts, LoadFacts
     DEF Steps, Loads, LoadsNibble, Jumps, MachineOK, PathOK, VerdictOK, ChecksOK, Plain, Tagged, Wanted,
         IpStart, UdpStart, Ipv4, Ipv6, Vlan, Udp
<1>6. CASE pc = 1
  BY <1>1, <1>2, <1>3, <1>4, <1>6, FrameFacts, LoadFacts
     DEF Steps, Loads, LoadsNibble, Jumps, MachineOK, PathOK, VerdictOK, ChecksOK, Plain, Tagged, Wanted,
         IpStart, UdpStart, Ipv4, Ipv6, Vlan, Udp
<1>7. CASE pc = 2
  BY <1>1, <1>2, <1>3, <1>4, <1>7, FrameFacts, LoadFacts
     DEF Steps, Loads, LoadsNibble, Jumps, MachineOK, PathOK, VerdictOK, ChecksOK, Plain, Tagged, Wanted,
         IpStart, UdpStart, Ipv4, Ipv6, Vlan, Udp
<1>8. CASE pc = 3
  BY <1>1, <1>2, <1>3, <1>4, <1>8, FrameFacts, LoadFacts
     DEF Steps, Loads, LoadsNibble, Jumps, MachineOK, PathOK, VerdictOK, ChecksOK, Plain, Tagged, Wanted,
         IpStart, UdpStart, Ipv4, Ipv6, Vlan, Udp
<1>9. CASE pc = 4
  BY <1>1, <1>2, <1>3, <1>4, <1>9, FrameFacts, LoadFacts
     DEF Steps, Loads, LoadsNibble, Jumps, MachineOK, PathOK, VerdictOK, ChecksOK, Plain, Tagged, Wanted,
         IpStart, UdpStart, Ipv4, Ipv6, Vlan, Udp
<1>10. CASE pc = 5
  BY <1>1, <1>2, <1>3, <1>4, <1>10, FrameFacts, LoadFacts
     DEF Steps, Loads, LoadsNibble, Jumps, MachineOK, PathOK, VerdictOK, ChecksOK, Plain, Tagged, Wanted,
         IpStart, UdpStart, Ipv4, Ipv6, Vlan, Udp
<1>11. CASE pc = 6
  BY <1>1, <1>2, <1>3, <1>4, <1>11, FrameFacts, LoadFacts
     DEF Steps, Loads, LoadsNibble, Jumps, MachineOK, PathOK, VerdictOK, ChecksOK, Plain, Tagged, Wanted,
         IpStart, UdpStart, Ipv4, Ipv6, Vlan, Udp
<1>12. CASE pc = 7
  BY <1>1, <1>2, <1>3, <1>4, <1>12, FrameFacts, LoadFacts
     DEF Steps, Loads, LoadsNibble, Jumps, MachineOK, PathOK, VerdictOK, ChecksOK, Plain, Tagged, Wanted,
         IpStart, UdpStart, Ipv4, Ipv6, Vlan, Udp
<1>13. CASE pc = 8
  BY <1>1, <1>2, <1>3, <1>4, <1>13, FrameFacts, LoadFacts
     DEF Steps, Loads, LoadsNibble, Jumps, MachineOK, PathOK, VerdictOK, ChecksOK, Plain, Tagged, Wanted,
         IpStart, UdpStart, Ipv4, Ipv6, Vlan, Udp
<1>14. CASE pc = 9
  BY <1>1, <1>2, <1>3, <1>4, <1>14, FrameFacts, LoadFacts
     DEF Steps, Loads, LoadsNibble, Jumps, MachineOK, PathOK, VerdictOK, ChecksOK, Plain, Tagged, Wanted,
         IpStart, UdpStart, Ipv4, Ipv6, Vlan, Udp
<1>15. CASE pc = 10
  BY <1>1, <1>2, <1>3, <1>4, <1>15, FrameFacts, LoadFacts
     DEF Steps, Loads, LoadsNibble, Jumps, MachineOK, PathOK, VerdictOK, ChecksOK, Plain, Tagged, Wanted,
         IpStart, UdpStart, Ipv4, Ipv6, Vlan, Udp
<1>16. CASE pc = 11
  BY <1>1, <1>2, <1>3, <1>4, <1>16, FrameFacts, LoadFacts
     DEF Steps, Loads, LoadsNibble, Jumps, MachineOK, PathOK, VerdictOK, ChecksOK, Plain, Tagged, Wanted,
         IpStart, UdpStart, Ipv4, Ipv6, Vlan, Udp
<1>17. CASE pc = 12
  BY <1>1, <1>2, <1>3, <1>4, <1>17, FrameFacts, LoadFacts
     DEF Steps, Loads, LoadsNibble, Jumps, MachineOK, PathOK, VerdictOK, ChecksOK, Plain, Tagged, Wanted,
         IpStart, UdpStart, Ipv4, Ipv6, Vlan, Udp
<1>18. CASE pc = 13
  BY <1>1, <1>2, <1>3, <1>4, <1>18, FrameFacts, LoadFacts
     DEF Steps, Loads, LoadsNibble, Jumps, MachineOK, PathOK, VerdictOK, ChecksOK, Plain, Tagged, Wanted,
         IpStart, UdpStart, Ipv4, Ipv6, Vlan, Udp
<1>19. CASE pc = 14
  BY <1>1, <1>2, <1>3, <1>4, <1>19, FrameFacts, LoadFacts
     DEF Steps, Loads, LoadsNibble, Jumps, MachineOK, PathOK, VerdictOK, ChecksOK, Plain, Tagged, Wanted,
         IpStart, UdpStart, Ipv4, Ipv6, Vlan, Udp
<1>20. CASE pc = 15
  BY <1>1, <1>2, <1>3, <1>4, <1>20, FrameFacts, LoadFacts
     DEF Steps, Loads, LoadsNibble, Jumps, MachineOK, PathOK, VerdictOK, ChecksOK, Plain, Tagged, Wanted,
         IpStart, UdpStart, Ipv4, Ipv6, Vlan, Udp
<1>21. CASE pc = 16
  BY <1>1, <1>2, <1>3, <1>4, <1>21, FrameFacts, LoadFacts
     DEF Steps, Loads, LoadsNibble, Jumps, MachineOK, PathOK, VerdictOK, ChecksOK, Plain, Tagged, Wanted,
         IpStart, UdpStart, Ipv4, Ipv6, Vlan, Udp
<1>22. CASE pc = 17
  BY <1>1, <1>2, <1>3, <1>4, <1>22, FrameFacts, LoadFacts
     DEF Steps, Loads, LoadsNibble, Jumps, MachineOK, PathOK, VerdictOK, ChecksOK, Plain, Tagged, Wanted,
         IpStart, UdpStart, Ipv4, Ipv6, Vlan, Udp
<1>23. CASE pc = 18
  BY <1>1, <1>2, <1>3, <1>4, <1>23, FrameFacts, LoadFacts
     DEF Steps, Loads, LoadsNibble, Jumps, MachineOK, PathOK, VerdictOK, ChecksOK, Plain, Tagged, Wanted,
         IpStart, UdpStart, Ipv4, Ipv6, Vlan, Udp
<1>24. CASE pc = 19
  BY <1>1, <1>2, <1>3, <1>4, <1>24, FrameFacts, LoadFacts
     DEF Steps, Loads, LoadsNibble, Jumps, MachineOK, PathOK, VerdictOK, ChecksOK, Plain, Tagged, Wanted,
         IpStart, UdpStart, Ipv4, Ipv6, Vlan, Udp
<1>25. CASE pc = 20
  BY <1>1, <1>2, <1>3, <1>4, <1>25, FrameFacts, LoadFacts
     DEF Steps, Loads, LoadsNibble, Jumps, MachineOK, PathOK, VerdictOK, ChecksOK, Plain, Tagged, Wanted,
         IpStart, UdpStart, Ipv4, Ipv6, Vlan, Udp
<1>26. QED
  BY <1>1, <1>5, <1>6, <1>7, <1>8, <1>9, <1>10, <1>11, <1>12, <1>13, <1>14, <1>15, <1>16, <1>17, <1>18, <1>19, <1>20, <1>21, <1>22, <1>23, <1>24, <1>25

LEMMA InitHolds == Init => CaptureInv
<1> SUFFICES ASSUME Init PROVE CaptureInv
  OBVIOUS
<1>1. TypeOK
  <2>1. pc \in 0..20 /\ a \in Nat /\ x \in 0..60
    BY DEF Init
  <2>2. /\ verdict \in {"running", "accept", "drop"}
        /\ frame \in Frames /\ early \in BOOLEAN /\ finished \in BOOLEAN /\ delivered \subseteq Sources
    BY Zenon DEF Init
  <2>3. QED
    BY <2>1, <2>2, Zenon DEF TypeOK
<1>2. PathOK
  BY DEF Init, PathOK, ChecksOK
<1>3. VerdictOK /\ DeliveryOK
  BY DEF Init, VerdictOK, DeliveryOK
<1>4. QED
  BY <1>1, <1>2, <1>3 DEF CaptureInv

LEMMA FilterKeeps == CaptureInv /\ Filter => CaptureInv'
<1> SUFFICES ASSUME CaptureInv, Filter PROVE CaptureInv'
  OBVIOUS
<1>1. /\ frame' = frame /\ early' = early /\ delivered' = delivered /\ finished' = finished
      /\ verdict = "running" /\ ~finished /\ delivered = {}
  BY DEF Filter, CaptureInv, DeliveryOK
<1>2. TypeOK'
  BY <1>1, MachineKeeps DEF CaptureInv, TypeOK, MachineOK
<1>3. DeliveryOK'
  BY <1>1 DEF DeliveryOK
<1>4. QED
  BY <1>2, <1>3, MachineKeeps DEF CaptureInv, MachineOK

LEMMA CaptureKeeps == CaptureInv /\ Capture => CaptureInv'
<1> SUFFICES ASSUME CaptureInv, Capture PROVE CaptureInv'
  OBVIOUS
<1>1. /\ frame' = frame /\ early' = early /\ pc' = pc /\ a' = a /\ x' = x /\ verdict' = verdict
      /\ finished' = TRUE /\ verdict # "running"
  BY DEF Capture
<1>2. PathOK' /\ VerdictOK'
  BY <1>1 DEF CaptureInv, PathOK, VerdictOK, ChecksOK
<1>3. DeliveryOK'
  BY <1>1, Zenon DEF Capture, DeliveryOK
<1>4. delivered' \subseteq Sources
  BY <1>1 DEF Capture
<1>5. TypeOK'
  BY <1>1, <1>4 DEF CaptureInv, TypeOK
<1>6. QED
  BY <1>2, <1>3, <1>5 DEF CaptureInv

LEMMA CaptureInvHolds == Spec => []CaptureInv
<1>1. CaptureInv /\ UNCHANGED vars => CaptureInv'
  BY DEF vars, CaptureInv, TypeOK, PathOK, VerdictOK, ChecksOK, DeliveryOK
<1>2. CaptureInv /\ [Next]_vars => CaptureInv'
  BY <1>1, FilterKeeps, CaptureKeeps DEF Next
<1>3. QED
  BY <1>2, InitHolds, PTL DEF Spec

LEMMA WholeFollows == CaptureInv => WholeDatagramsOnly
<1> SUFFICES ASSUME CaptureInv, delivered # {}
             PROVE  /\ frame.ihl >= 5 /\ frame.frag = 0 /\ frame.proto = Udp
                    /\ frame.dst_port = Port \/ early
                    /\ UdpStart(frame) + frame.udp_len <= frame.size
  BY DEF WholeDatagramsOnly
<1>1. verdict = "accept" /\ ExtractsPayload(frame) /\ ParsesAsShred(frame)
  BY DEF CaptureInv, DeliveryOK
<1>2. frame \in Frames /\ early \in BOOLEAN
  BY DEF CaptureInv, TypeOK
<1>3. frame.ihl >= 5 /\ frame.proto = Udp /\ FragmentOffset(frame.frag) = 0
  BY <1>1 DEF ExtractsPayload
<1>4. UdpStart(frame) + frame.udp_len <= frame.size
  BY <1>1, <1>2, FrameFacts DEF ExtractsPayload, ParsesAsShred, PayloadLength, UdpStart, IpStart
<1>5. frame.frag = 0
  <2>1. frame.frag \in {0, 8192}
    BY <1>2, <1>3, FrameFacts DEF FragmentOffset, MoreFragments
  <2>2. frame.frag # 8192
    BY <1>2, <1>4, FrameFacts DEF PlausibleFragment, MoreFragments, UdpStart, IpStart
  <2>3. QED
    BY <2>1, <2>2
<1>6. frame.dst_port = Port \/ early
  BY <1>1, <1>2, <1>3 DEF CaptureInv, VerdictOK, Wanted
<1>7. QED
  BY <1>3, <1>4, <1>5, <1>6

(* With routes that split the providers, an address belongs to one source. *)
LEMMA SplitFacts ==
  ASSUME RoutesSplit, NEW ip \in Addresses
  PROVE  LET address == IF \E s \in Sources : HasFilter(s) THEN ip ELSE NoAddress
             routed  == {source \in Sources : route_matches(source, address)}
         IN /\ \E s \in Sources : routed = {s}
            /\ \A s \in Sources : ip \in Include(s) => routed = {s}
<1> DEFINE address == IF \E s \in Sources : HasFilter(s) THEN ip ELSE NoAddress
           routed  == {source \in Sources : route_matches(source, address)}
<1>1. PICK rest \in Sources :
        /\ Include(rest) = {} /\ Exclude(rest) = UNION {Include(s) : s \in Sources \ {rest}}
        /\ \A s \in Sources \ {rest} : Include(s) # {} /\ Exclude(s) = {}
        /\ \A s, t \in Sources \ {rest} : s # t => Include(s) \cap Include(t) = {}
  BY Zenon DEF RoutesSplit
<1>2. ip # NoAddress
  BY CaptureAssumption
<1>3. ASSUME NEW s \in Sources, ip \in Include(s) PROVE routed = {s}
  <2>1. s # rest /\ address = ip
    BY <1>1, <1>3 DEF HasFilter
  <2>2. ip \in Exclude(rest)
    BY <1>1, <1>3, <2>1
  <2>3. \A t \in Sources : route_matches(t, ip) <=> t = s
    BY <1>1, <1>2, <1>3, <2>1, <2>2 DEF HasFilter, route_matches
  <2>4. QED
    BY <2>1, <2>3
<1>4. ASSUME \A s \in Sources : ip \notin Include(s) PROVE routed = {rest}
  <2>1. ip \notin Exclude(rest)
    BY <1>1, <1>4
  <2>2. \A t \in Sources \ {rest} : HasFilter(t) /\ ~route_matches(t, ip)
    BY <1>1, <1>4 DEF HasFilter, route_matches
  <2>3. route_matches(rest, address)
    BY <1>1, <1>2, <2>1 DEF HasFilter, route_matches
  <2>4. \A t \in Sources \ {rest} : address = ip
    BY <2>2
  <2>5. QED
    BY <2>2, <2>3, <2>4
<1>5. QED
  BY <1>3, <1>4

LEMMA SplitFollows ==
  ASSUME RoutesSplit
  PROVE  CaptureInv => ProvidersAreSplit
<1> SUFFICES ASSUME CaptureInv, finished, frame.ethertype = Ipv4, frame.ihl >= 5, frame.frag = 0,
                    frame.proto = Udp, frame.dst_port = Port \/ early, frame.slot # 0,
                    frame.udp_len >= 91, UdpStart(frame) + frame.udp_len <= frame.size
             PROVE  /\ Cardinality(delivered) = 1
                    /\ \A s \in Sources : frame.src_ip \in Include(s) => delivered = {s}
  BY DEF ProvidersAreSplit
<1>1. frame \in Frames /\ early \in BOOLEAN
  BY DEF CaptureInv, TypeOK
<1>2. FragmentOffset(frame.frag) = 0
  BY DEF FragmentOffset, MoreFragments
<1>3. frame.size >= UdpStart(frame) + 91 /\ UdpStart(frame) >= IpStart(frame) + 20
  BY <1>1, FrameFacts DEF UdpStart, IpStart
<1>4. HasIpHeader(frame) /\ ExtractsPayload(frame) /\ ParsesAsShred(frame)
  BY <1>1, <1>2, <1>3, FrameFacts
     DEF HasIpHeader, ExtractsPayload, ParsesAsShred, PayloadLength, UdpStart, IpStart
<1>5. verdict = "accept"
  <2>1. verdict # "running"
    BY DEF CaptureInv, DeliveryOK
  <2>2. frame.size >= UdpStart(frame) + 4
    BY <1>1, <1>3, FrameFacts DEF UdpStart, IpStart
  <2>3. CASE early
    BY <2>3 DEF CaptureInv, VerdictOK
  <2>4. CASE ~early
    BY <1>2, <2>1, <2>2, <2>4 DEF CaptureInv, VerdictOK, Wanted
  <2>5. QED
    BY <2>3, <2>4
<1>6. extract_src_ip(frame) = frame.src_ip /\ frame.src_ip \in Addresses
  BY <1>1, <1>3, <1>4, FrameFacts DEF extract_src_ip, UdpStart, IpStart
<1>7. delivered = {source \in Sources : route_matches(source,
                    IF \E s \in Sources : HasFilter(s) THEN frame.src_ip ELSE NoAddress)}
  BY <1>4, <1>5, <1>6 DEF CaptureInv, DeliveryOK
<1>8. /\ \E s \in Sources : delivered = {s}
      /\ \A s \in Sources : frame.src_ip \in Include(s) => delivered = {s}
  BY <1>6, <1>7, SplitFacts
<1>9. QED
  BY <1>8, FS_Singleton

-----------------------------------------------------------------------------
(* The machine never runs off its program.                                 *)
THEOREM TypeCorrect == Spec => []TypeOK
BY CaptureInvHolds, PTL DEF CaptureInv

(* The program of build_bpf_filter (bpf_filter.rs 48-94) accepts exactly  *)
(* the packets it is meant for, whatever the rest of the frame holds.      *)
THEOREM FilterExact == Spec => []FilterIsExact
<1>1. CaptureInv => FilterIsExact
  BY DEF CaptureInv, VerdictOK, FilterIsExact, Wanted
<1>2. QED
  BY <1>1, CaptureInvHolds, PTL

(* No fragment, no broken header and no truncated datagram gets through    *)
(* filter, payload extraction (pcap.rs 94-109) and shred parser together.  *)
THEOREM WholeDatagrams == Spec => []WholeDatagramsOnly
BY CaptureInvHolds, WholeFollows, PTL

(* With a source per provider and one for the rest, a shred that arrives   *)
(* whole counts for one source, and for its provider's if it has one.      *)
THEOREM ProvidersSplit ==
  ASSUME RoutesSplit
  PROVE  Spec => []ProvidersAreSplit
BY SplitFollows, CaptureInvHolds, PTL
=============================================================================
