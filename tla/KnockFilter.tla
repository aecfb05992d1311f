---- MODULE KnockFilter ----
(***************************************************************************)
(* What reaches the knock verifier: the socket filter that the sniffer     *)
(* attaches (attach_knock_filter in server/src/sniffer.rs), a program of   *)
(* eleven instructions with counted jumps, and what the sniffer's loop     *)
(* tests again in case it could not be attached (core/src/packet.rs).      *)
(*                                                                         *)
(* A frame is the fields that either of the two looks at; the header is    *)
(* ihl words long, and every other half word of the frame holds decoy.     *)
(* Frames are judged one by one, so one that arrives is enough.            *)
(***************************************************************************)
EXTENDS Naturals, Sequences

CONSTANTS
    KnockPort,
    Frames      \* what may arrive

PacketLen == 44                             \* knock::PACKET_LEN

NoFrame == [len |-> 0]

\* In a header of one word the port lies on the fragment field and the length on
\* the protocol.
IsFrame(fr) ==
    /\ fr.len \in Nat /\ fr.type \in Nat /\ fr.proto \in Nat
    /\ fr.version \in 0..15 /\ fr.ihl \in 0..15
    /\ fr.fragment \in Nat /\ fr.fragment < 8192 /\ fr.flags \in Nat
    /\ fr.port \in Nat /\ fr.ulen \in Nat /\ fr.decoy \in Nat
    /\ fr.ihl = 1 => /\ fr.port = fr.fragment + 8192 * fr.flags
                     /\ fr.proto = fr.ulen % 256

ASSUME FilterAssumption ==
    /\ KnockPort \in Nat
    /\ NoFrame \notin Frames /\ \A fr \in Frames : IsFrame(fr)

\* Big-endian loads from the frame.
Byte(fr, at) ==
    IF at = 14 THEN 16 * fr.version + fr.ihl
    ELSE IF at = 23 THEN fr.proto
    ELSE fr.decoy % 256

Half(fr, at) ==
    IF at = 12 THEN fr.type
    ELSE IF at = 20 THEN fr.fragment + 8192 * fr.flags
    ELSE IF at = 14 + 4 * fr.ihl + 2 THEN fr.port
    ELSE IF at = 14 + 4 * fr.ihl + 4 THEN fr.ulen
    ELSE fr.decoy

VARIABLES
    attached,   \* is the filter on the socket?
    frame,      \* the frame that arrived, if any
    pc, acc, idx,   \* of the filter: the instruction to run, accumulator, index
    verdict     \* "none", or "kept" if recv returns the frame, or "dropped"

filter == <<attached, frame, pc, acc, idx, verdict>>

----------------------------------------------------------------------------
(* The filter, run by the kernel. *)

Bpf(op, jt, jf, k) == [op |-> op, jt |-> jt, jf |-> jf, k |-> k]

\* Defect: the header has no options.
Program_NoOptions == <<
    Bpf("ldh", 0, 0, 12), Bpf("jeq", 0, 7, 2048),
    Bpf("ldb", 0, 0, 23), Bpf("jeq", 0, 5, 17),
    Bpf("ldh", 0, 0, 20), Bpf("jset", 3, 0, 8191),
    Bpf("ldh", 0, 0, 36), Bpf("jeq", 0, 1, KnockPort),
    Bpf("ret", 0, 0, 262144), Bpf("ret", 0, 0, 0) >>

\* Defect: a jump is one short and lands on the wrong return.
Program_ShortJump == <<
    Bpf("ldh", 0, 0, 12), Bpf("jeq", 0, 8, 2048),
    Bpf("ldb", 0, 0, 23), Bpf("jeq", 0, 5, 17),
    Bpf("ldh", 0, 0, 20), Bpf("jset", 4, 0, 8191),
    Bpf("msh", 0, 0, 14), Bpf("ldx", 0, 0, 16),
    Bpf("jeq", 0, 1, KnockPort),
    Bpf("ret", 0, 0, 262144), Bpf("ret", 0, 0, 0) >>

Program == <<
    Bpf("ldh", 0, 0, 12), Bpf("jeq", 0, 8, 2048),
    Bpf("ldb", 0, 0, 23), Bpf("jeq", 0, 6, 17),
    Bpf("ldh", 0, 0, 20), Bpf("jset", 4, 0, 8191),
    Bpf("msh", 0, 0, 14), Bpf("ldx", 0, 0, 16),
    Bpf("jeq", 0, 1, KnockPort),
    Bpf("ret", 0, 0, 262144), Bpf("ret", 0, 0, 0) >>

----------------------------------------------------------------------------
(* Its interpreter.  Jumps lead forward only. *)

Running(op) == pc \in DOMAIN Program /\ Program[pc].op = op

Verdict(bytes) ==
    /\ verdict' = IF bytes > 0 THEN "kept" ELSE "dropped"
    /\ pc' = 0
    /\ UNCHANGED <<attached, frame, acc, idx>>

\* A load beyond the end of the frame keeps nothing.
Fits(at, size) == at + size <= frame.len

LoadAcc(v) ==
    /\ acc' = v
    /\ pc' = pc + 1
    /\ UNCHANGED <<attached, frame, idx, verdict>>

LoadHalf(at) == IF Fits(at, 2) THEN LoadAcc(Half(frame, at)) ELSE Verdict(0)
LoadByte(at) == IF Fits(at, 1) THEN LoadAcc(Byte(frame, at)) ELSE Verdict(0)

\* Four times the low half of a byte: the length of the header.
LoadIndex(at) ==
    IF Fits(at, 1)
    THEN /\ idx' = 4 * (Byte(frame, at) % 16)
         /\ pc' = pc + 1
         /\ UNCHANGED <<attached, frame, acc, verdict>>
    ELSE Verdict(0)

Jump(test) ==
    /\ pc' = pc + 1 + (IF test THEN Program[pc].jt ELSE Program[pc].jf)
    /\ UNCHANGED <<attached, frame, acc, idx, verdict>>

Instruction ==
    \/ Running("ldh")  /\ LoadHalf(Program[pc].k)
    \/ Running("ldx")  /\ LoadHalf(idx + Program[pc].k)
    \/ Running("ldb")  /\ LoadByte(Program[pc].k)
    \/ Running("msh")  /\ LoadIndex(Program[pc].k)
    \/ Running("jeq")  /\ Jump(acc = Program[pc].k)
    \/ Running("jset") /\ Jump(acc % (Program[pc].k + 1) # 0)    \* k is 2^n - 1
    \/ Running("ret")  /\ Verdict(Program[pc].k)

----------------------------------------------------------------------------
(* parse_ethernet_ipv4_udp and the sniffer's tests. *)

Datagram(fr) == fr.len - (14 + 4 * fr.ihl)      \* udp.len(), once it is known

Parses(fr) ==
    /\ fr.len >= 14 + 20
    /\ fr.type = 2048
    /\ fr.version = 4
    /\ fr.ihl >= 5
    /\ fr.len >= 14 + 4 * fr.ihl
    /\ fr.proto = 17
    /\ Datagram(fr) >= 8
    /\ fr.ulen >= 8
    /\ fr.ulen <= Datagram(fr)

\* The payload of frame fr goes to the verifier.
IsKnock(fr) ==
    /\ Parses(fr)
    /\ fr.port = KnockPort
    /\ fr.ulen - 8 = PacketLen

----------------------------------------------------------------------------
FilterInit ==
    /\ attached = FALSE
    /\ frame = NoFrame
    /\ pc = 0 /\ acc = 0 /\ idx = 0
    /\ verdict = "none"

\* The socket is open, and receives, before the filter is attached; when that
\* fails the sniffer goes on without.
Attach ==
    /\ ~attached
    /\ frame = NoFrame
    /\ attached' = TRUE
    /\ UNCHANGED <<frame, pc, acc, idx, verdict>>

Arrive(fr) ==
    /\ frame' = fr
    /\ IF attached
       THEN pc' = 1 /\ UNCHANGED verdict
       ELSE verdict' = "kept" /\ UNCHANGED pc
    /\ UNCHANGED <<attached, acc, idx>>

FilterNext ==
    \/ Attach
    \/ frame = NoFrame /\ \E fr \in Frames : Arrive(fr)
    \/ Instruction

FilterSpec == FilterInit /\ [][FilterNext]_filter

----------------------------------------------------------------------------
(* Properties. *)

\* The filter loses no knock: what the loop would give to the verifier gets
\* through, with options, padding or as a first fragment; only later
\* fragments do not.  And ARCHITECTURE.md: "only UDP to the knock port reaches
\* userspace", once the filter is attached.
FilterIsExact ==
    /\ verdict = "dropped" => ~(IsKnock(frame) /\ frame.fragment = 0)
    /\ attached /\ verdict = "kept" =>
          /\ frame.type = 2048 /\ frame.proto = 17 /\ frame.fragment = 0
          /\ Half(frame, 14 + 4 * frame.ihl + 2) = KnockPort

====
