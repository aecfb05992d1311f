---- MODULE NoiseStream ----
(***************************************************************************)
(* One direction of the encrypted stream between client and server         *)
(* (core/src/noise.rs): the writing half of one NoiseStream, the bytes of  *)
(* the TCP connection, and the reading half of the other.  The two         *)
(* directions share nothing but the connection.                            *)
(*                                                                         *)
(* The bytes written are numbered 1, 2, ... as they are accepted.  A byte  *)
(* of a frame is known by the frame's nonce, its plaintext and its place   *)
(* in the frame; a byte that was altered on the way is garbled, and stands *)
(* for the length it makes the reader see when it is one of the first two. *)
(***************************************************************************)
EXTENDS Integers, Sequences

CONSTANTS
    MaxPlain,       \* MAX_PLAINTEXT
    TagLen,         \* TAG_LEN
    WireCap,        \* bytes the sockets of both ends can hold
    MaxBytes,       \* bound: bytes written
    MaxBuf,         \* bound: buffer of one call of poll_write or poll_read
    MaxGarbled      \* bound: bytes altered on the way

ASSUME StreamAssumption ==
    /\ MaxPlain \in Nat \ {0}
    /\ TagLen \in Nat \ {0}
    /\ WireCap \in Nat \ {0}
    /\ MaxBytes \in Nat /\ MaxBuf \in Nat \ {0} /\ MaxGarbled \in Nat

VARIABLES
    written,        \* number of bytes poll_write has accepted
    sendNonce,      \* send.n: frames encrypted
    pending,        \* write_pending
    off,            \* write_off
    wstate,         \* the writer: open, closing, closed, failed, or dead
    wire,           \* bytes on their way
    fin,            \* no byte follows those on the wire
    broken,         \* the connection was reset
    garbled,        \* bytes altered so far
    raw,            \* read_raw
    plain,          \* read_plain
    readOff,        \* read_off
    target,         \* read_target
    haveLen,        \* have_len
    recvNonce,      \* recv.n: frames decrypted
    out,            \* bytes handed to the caller of poll_read
    rstate,         \* the reader: open, ended, failed
    starts          \* history: starts[n + 1] bytes were written before frame n

writer == <<written, sendNonce, pending, off, wstate>>
network == <<wire, fin, broken, garbled>>
reader == <<raw, plain, readOff, target, haveLen, recvNonce, out, rstate>>
vars == <<writer, network, reader, starts>>

LenPrefix == 2
MaxFrame == LenPrefix + MaxPlain + TagLen

Chunks == UNION {[1..n -> 1..MaxBytes] : n \in 0..MaxPlain}
NoNonce == -1
FrameBytes == [nonce : Nat, at : 1..MaxFrame, plain : Chunks]
Garbled(len) == [nonce |-> NoNonce, at |-> len, plain |-> <<>>]
WireBytes == FrameBytes \cup {Garbled(len) : len \in 0..(MaxFrame + 1)}

TypeOK ==
    /\ written \in 0..MaxBytes
    /\ sendNonce \in Nat
    /\ pending \in Seq(WireBytes)
    /\ off \in 0..Len(pending)
    /\ wstate \in {"open", "closing", "closed", "failed", "dead"}
    /\ wire \in Seq(WireBytes) /\ Len(wire) <= WireCap
    /\ fin \in BOOLEAN /\ broken \in BOOLEAN
    /\ garbled \in 0..MaxGarbled
    /\ raw \in Seq(WireBytes)
    /\ plain \in Chunks
    /\ readOff \in 0..Len(plain)
    /\ target \in 0..MaxFrame
    /\ haveLen \in BOOLEAN
    /\ recvNonce \in 0..sendNonce
    /\ out \in Seq(1..MaxBytes)
    /\ rstate \in {"open", "ended", "failed"}
    /\ starts \in Seq(0..MaxBytes) /\ Len(starts) = sendNonce + 1

----------------------------------------------------------------------------
(* Frames. *)

\* The next n bytes of the writer's input.
NextBytes(n) == [i \in 1..n |-> written + i]

\* A frame: the length of the ciphertext, the ciphertext and its tag.
Frame(nonce, chunk) ==
    [i \in 1..(LenPrefix + Len(chunk) + TagLen) |->
        [nonce |-> nonce, at |-> i, plain |-> chunk]]

\* The length the first two bytes of raw stand for.
LengthRead(bytes) ==
    IF bytes[1].nonce = NoNonce THEN bytes[1].at
    ELSE IF bytes[2].nonce = NoNonce THEN bytes[2].at
    ELSE IF bytes[1].at = 1 /\ bytes[2].at = 2 THEN Len(bytes[1].plain) + TagLen
    ELSE 0

\* Decryption succeeds on nothing but the ciphertext of the expected frame.
Decrypts(body, nonce) ==
    body = SubSeq(Frame(nonce, body[1].plain), LenPrefix + 1,
                  LenPrefix + Len(body[1].plain) + TagLen)

----------------------------------------------------------------------------
Init ==
    /\ written = 0 /\ sendNonce = 0 /\ pending = <<>> /\ off = 0
    /\ wstate = "open"
    /\ wire = <<>> /\ fin = FALSE /\ broken = FALSE /\ garbled = 0
    /\ raw = <<>> /\ plain = <<>> /\ readOff = 0
    /\ target = 0 /\ haveLen = FALSE /\ recvNonce = 0
    /\ out = <<>> /\ rstate = "open"
    /\ starts = <<0>>

Unsent == SubSeq(pending, off + 1, Len(pending))
Take(s, m) == SubSeq(s, 1, m)
Drop(s, m) == SubSeq(s, m + 1, Len(s))

\* The connection takes some bytes.
Send(bytes) ==
    /\ ~broken
    /\ Len(wire) + Len(bytes) <= WireCap
    /\ wire' = wire \o bytes

\* poll_flush_pending comes to m bytes of what is left, whoever called it.
Flushed(m) ==
    IF m = Len(Unsent) THEN pending' = <<>> /\ off' = 0
    ELSE pending' = pending /\ off' = off + m

\* Defect: what is left of the last frame is not written first.
Write_Overwrites(len) ==
    LET n == IF len <= MaxPlain THEN len ELSE MaxPlain
        frame == Frame(sendNonce, NextBytes(n))
    IN  /\ wstate = "open"
        /\ written + len <= MaxBytes
        /\ \E m \in 0..Len(frame) :
              /\ Send(Take(frame, m))
              /\ pending' = IF m = Len(frame) THEN <<>> ELSE frame
              /\ off' = IF m = Len(frame) THEN 0 ELSE m
        /\ sendNonce' = sendNonce + 1
        /\ written' = written + n
        /\ starts' = Append(starts, written + n)
        /\ UNCHANGED <<wstate, fin, broken, garbled, reader>>

\* Defect: the buffer is accepted whole, however long.
Write_Unbounded(len) ==
    LET frame == Frame(sendNonce, NextBytes(len))
    IN  /\ wstate = "open"
        /\ written + len <= MaxBytes
        /\ \E m \in 0..Len(frame) :
              /\ Send(Unsent \o Take(frame, m))
              /\ pending' = IF m = Len(frame) THEN <<>> ELSE frame
              /\ off' = IF m = Len(frame) THEN 0 ELSE m
        /\ sendNonce' = sendNonce + 1
        /\ written' = written + len
        /\ starts' = Append(starts, written + len)
        /\ UNCHANGED <<wstate, fin, broken, garbled, reader>>

\* poll_write accepts up to MAX_PLAINTEXT bytes of the caller's buffer.  The
\* new frame is written as far as the connection takes it.
Write(len) ==
    LET n == IF len <= MaxPlain THEN len ELSE MaxPlain
        frame == Frame(sendNonce, NextBytes(n))
    IN  /\ wstate = "open"
        /\ written + len <= MaxBytes
        /\ \E m \in 0..Len(frame) :
              /\ Send(Unsent \o Take(frame, m))
              /\ pending' = IF m = Len(frame) THEN <<>> ELSE frame
              /\ off' = IF m = Len(frame) THEN 0 ELSE m
        /\ sendNonce' = sendNonce + 1
        /\ written' = written + n
        /\ starts' = Append(starts, written + n)
        /\ UNCHANGED <<wstate, fin, broken, garbled, reader>>

\* poll_flush, or a poll_write that has to wait.
Flush ==
    /\ wstate = "open"
    /\ \E m \in 1..Len(Unsent) : Send(Take(Unsent, m)) /\ Flushed(m)
    /\ UNCHANGED <<written, sendNonce, wstate, fin, broken, garbled, reader, starts>>

\* Defect: the connection is shut down with bytes left in write_pending.
Shutdown_Unflushed ==
    /\ wstate = "open"
    /\ ~broken
    /\ wstate' = "closed"
    /\ fin' = TRUE
    /\ UNCHANGED <<written, sendNonce, pending, off, wire, broken, garbled, reader, starts>>

\* poll_shutdown: flush, and shut down when nothing is left.
Shutdown ==
    /\ wstate \in {"open", "closing"}
    /\ \E m \in 0..Len(Unsent) :
          /\ Send(Take(Unsent, m))
          /\ Flushed(m)
          /\ wstate' = IF m = Len(Unsent) THEN "closed" ELSE "closing"
          /\ fin' = (m = Len(Unsent))
    /\ UNCHANGED <<written, sendNonce, broken, garbled, reader, starts>>

\* A call that has to write finds the connection reset.  The frame of a
\* poll_write that finds nothing pending is encrypted by then.
WriteFails ==
    /\ broken
    /\ wstate \in {"open", "closing"}
    /\ wstate' = "failed"
    /\ \/ /\ Unsent # <<>>
          /\ UNCHANGED <<sendNonce, pending, off, starts>>
       \/ /\ Unsent = <<>> /\ wstate = "open" /\ written < MaxBytes
          /\ sendNonce' = sendNonce + 1
          /\ pending' = Frame(sendNonce, NextBytes(1)) /\ off' = 0
          /\ starts' = Append(starts, written)
    /\ UNCHANGED <<written, network, reader>>

----------------------------------------------------------------------------
(* The reader.  poll_read is a loop whose next step its state determines; a *)
(* call that returns Pending is resumed at the same step.                   *)

\* Defect: read_off stays where it was.
Deliver_Again(n) ==
    /\ rstate = "open"
    /\ readOff + n <= Len(plain)
    /\ out' = out \o SubSeq(plain, readOff + 1, readOff + n)
    /\ Len(out) < MaxBytes
    /\ UNCHANGED <<writer, network, readOff, raw, plain, target, haveLen, recvNonce, rstate, starts>>

\* Plaintext left over is handed out first, as much as the buffer takes.
Deliver(n) ==
    /\ rstate = "open"
    /\ readOff + n <= Len(plain)
    /\ out' = out \o SubSeq(plain, readOff + 1, readOff + n)
    /\ readOff' = readOff + n
    /\ UNCHANGED <<writer, network, raw, plain, target, haveLen, recvNonce, rstate, starts>>

\* Bytes poll_fill waits for.
Needed == IF haveLen THEN target ELSE LenPrefix
Filling == rstate = "open" /\ readOff = Len(plain) /\ Len(raw) < Needed

\* One turn of poll_fill: the connection has some bytes.
Fill ==
    /\ Filling
    /\ \E m \in 1..Len(wire) : raw' = raw \o Take(wire, m) /\ wire' = Drop(wire, m)
    /\ UNCHANGED <<writer, fin, broken, garbled, plain, readOff, target, haveLen, recvNonce,
                   out, rstate, starts>>

\* Defect: the end of the connection inside a frame is reported as an end.
FillEnds_Quietly ==
    /\ Filling
    /\ wire = <<>>
    /\ fin \/ broken
    /\ rstate' = IF broken THEN "failed" ELSE "ended"
    /\ UNCHANGED <<writer, network, raw, plain, readOff, target, haveLen, recvNonce, out, starts>>

\* The connection has ended: an end of file before the length is complete, an
\* error after it.  A reset is an error.
FillEnds ==
    /\ Filling
    /\ wire = <<>>
    /\ fin \/ broken
    /\ rstate' = IF broken \/ haveLen THEN "failed" ELSE "ended"
    /\ UNCHANGED <<writer, network, raw, plain, readOff, target, haveLen, recvNonce, out, starts>>

\* The length is complete; one out of range is an error.
TakeLength ==
    /\ rstate = "open" /\ readOff = Len(plain)
    /\ ~haveLen /\ Len(raw) >= LenPrefix
    /\ IF LengthRead(raw) \in TagLen..(MaxPlain + TagLen)
       THEN /\ target' = LenPrefix + LengthRead(raw)
            /\ haveLen' = TRUE
            /\ rstate' = rstate
       ELSE rstate' = "failed" /\ UNCHANGED <<target, haveLen>>
    /\ UNCHANGED <<writer, network, raw, plain, readOff, recvNonce, out, starts>>

\* The frame is complete: it is decrypted and taken out of read_raw.
OpenFrame ==
    /\ rstate = "open" /\ readOff = Len(plain)
    /\ haveLen /\ Len(raw) >= target
    /\ LET body == SubSeq(raw, LenPrefix + 1, target)
       IN  IF Decrypts(body, recvNonce)
           THEN /\ plain' = body[1].plain
                /\ readOff' = 0
                /\ raw' = Drop(raw, target)
                /\ target' = 0 /\ haveLen' = FALSE
                /\ recvNonce' = recvNonce + 1
                /\ rstate' = rstate
           ELSE /\ rstate' = "failed"
                /\ UNCHANGED <<raw, plain, readOff, target, haveLen, recvNonce>>
    /\ UNCHANGED <<writer, network, out, starts>>

----------------------------------------------------------------------------
(* The connection and the ends of processes. *)

\* A byte on the wire is altered.
Garble(i, len) ==
    /\ garbled < MaxGarbled
    /\ garbled' = garbled + 1
    /\ wire' = [wire EXCEPT ![i] = Garbled(len)]
    /\ UNCHANGED <<writer, fin, broken, reader, starts>>

\* The writer's process dies: its kernel sends what it has, and an end.
Die ==
    /\ wstate \in {"open", "closing"}
    /\ ~broken
    /\ wstate' = "dead"
    /\ fin' = TRUE
    /\ UNCHANGED <<written, sendNonce, pending, off, wire, broken, garbled, reader, starts>>

\* The connection is reset; the reader may still see a part of the wire.
Reset ==
    /\ ~broken
    /\ broken' = TRUE
    /\ \E m \in 0..Len(wire) : wire' = Take(wire, m)
    /\ UNCHANGED <<writer, fin, garbled, reader, starts>>

Next ==
    \/ \E len \in 1..MaxBuf : Write(len)
    \/ Flush
    \/ Shutdown
    \/ WriteFails
    \/ \E n \in 1..MaxBuf : Deliver(n)
    \/ Fill
    \/ FillEnds
    \/ TakeLength
    \/ OpenFrame
    \/ \E i \in DOMAIN wire, len \in 0..(MaxFrame + 1) : Garble(i, len)
    \/ Die
    \/ Reset

Spec == Init /\ [][Next]_vars

ReadStep == (\E n \in 1..MaxBuf : Deliver(n)) \/ Fill \/ FillEnds \/ TakeLength \/ OpenFrame

\* The multiplexer above flushes what it has written, goes on closing what it
\* began to close, and keeps reading.
FairSpec == Spec /\ WF_vars(Flush) /\ WF_vars(wstate = "closing" /\ Shutdown) /\ WF_vars(ReadStep)

----------------------------------------------------------------------------
(* Properties. *)

Fifo == INSTANCE ByteFifo WITH
    Data <- 1..MaxBytes, sent <- [i \in 1..written |-> i], got <- out, state <- rstate

\* test transport_roundtrip_small_and_multiframe: whatever pieces the bytes
\* are written and read in, and whatever happens to them on the way, the
\* reader gets a prefix of what was written, and nothing after an error.
ImplementsByteFifo == Fifo!Spec

\* THREAT_MODEL.md: "tampered frames -> connection drops".  poll_read never
\* reports a clean end with a length, or more of a frame, read and not handed
\* out: a frame that was altered or cut off is an error.
EndsBetweenFrames ==
    rstate = "ended" => Len(raw) < LenPrefix /\ ~haveLen /\ readOff = Len(plain)

\* When poll_shutdown has completed on one side, an end of file that poll_read
\* reports on the other means that every byte poll_write accepted was handed
\* out: the end is sent after what was left of the last frame.
EndMeansAll == rstate = "ended" /\ wstate = "closed" => Len(out) = written

\* What nobody but the network or the end of a process can do to the stream.
Disturbed == broken \/ garbled > 0 \/ wstate = "dead"

\* Every byte poll_write accepted is handed out by poll_read in the end, however few bytes
\* the connection takes or gives at a time: no half-read or half-written frame
\* leaves both ends waiting.
Arrives == \A k \in 1..MaxBytes : written >= k ~> Len(out) >= k \/ Disturbed

====
