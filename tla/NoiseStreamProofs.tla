---- MODULE NoiseStreamProofs ----
(***************************************************************************)
(* Theorems about NoiseStream, for all frame sizes, connections and calls. *)
(*                                                                         *)
(* What makes the reader's bytes the writer's is not that the connection   *)
(* keeps its bytes in order but that decryption takes only the frame whose *)
(* turn it is: StreamInv says of every byte that was not altered, wherever *)
(* it is, which plaintext its frame carries, and ties the reader's output  *)
(* to the number of frames decrypted.                                      *)
(***************************************************************************)
EXTENDS NoiseStream, SequenceTheorems, TLAPS

\* The plaintext of frame n.
Chunk(n) == [i \in 1..(starts[n + 2] - starts[n + 1]) |-> starts[n + 1] + i]

\* Bytes that were altered, and bytes of the frames encrypted so far.
GenuineBytes ==
    {b \in WireBytes :
        \/ b.nonce = NoNonce
        \/ b.nonce \in 0..(sendNonce - 1) /\ b.plain = Chunk(b.nonce)}

StartsInv ==
    /\ starts[sendNonce + 1] = written
    /\ \A n \in 1..sendNonce : starts[n] <= starts[n + 1]
    /\ \A n \in 1..(sendNonce + 1) : starts[n] <= written

BytesInv ==
    /\ wire \in Seq(GenuineBytes)
    /\ raw \in Seq(GenuineBytes)
    /\ wstate # "failed" => pending \in Seq(GenuineBytes)

ReaderInv ==
    /\ haveLen => target >= LenPrefix + TagLen
    /\ out = [i \in 1..Len(out) |-> i]
    /\ plain = [i \in 1..Len(plain) |-> starts[recvNonce + 1] - Len(plain) + i]
    /\ Len(out) + (Len(plain) - readOff) = starts[recvNonce + 1]

StreamInv == TypeOK /\ StartsInv /\ BytesInv /\ ReaderInv

----------------------------------------------------------------------------
\* Pieces of a sequence.
LEMMA TakeDropType ==
    ASSUME NEW S, NEW s \in Seq(S), NEW m \in 0..Len(s)
    PROVE  /\ Take(s, m) \in Seq(S) /\ Len(Take(s, m)) = m
           /\ Drop(s, m) \in Seq(S) /\ Len(Drop(s, m)) = Len(s) - m
<1>1. Len(s) \in Nat /\ \A i \in 1..Len(s) : s[i] \in S
  BY ElementOfSeq, LenProperties
<1>2. Take(s, m) \in Seq(S) /\ Len(Take(s, m)) = m
  BY <1>1, SubSeqProperties, SMT DEF Take
<1>3. Drop(s, m) \in Seq(S) /\ Len(Drop(s, m)) = Len(s) - m
  BY <1>1, SubSeqProperties, SMT DEF Drop
<1> QED BY <1>2, <1>3

\* The bytes the writer encrypts next.
LEMMA NextBytesType ==
    ASSUME NEW n \in 0..MaxPlain, written \in 0..MaxBytes, written + n <= MaxBytes
    PROVE  NextBytes(n) \in Chunks /\ Len(NextBytes(n)) = n
<1>1. MaxPlain \in Nat /\ MaxBytes \in Nat
  BY StreamAssumption
<1>2. NextBytes(n) \in [1..n -> 1..MaxBytes]
  BY <1>1, SMT DEF NextBytes
<1>3. NextBytes(n) \in Chunks
  BY <1>2 DEF Chunks
<1>4. NextBytes(n) \in Seq(Int) /\ Len(NextBytes(n)) = n
  BY <1>1, SMT DEF NextBytes
<1> QED BY <1>3, <1>4

\* What a frame is made of.
LEMMA FrameType ==
    ASSUME NEW n \in Nat, NEW chunk \in Chunks
    PROVE  /\ Len(chunk) \in 0..MaxPlain
           /\ Frame(n, chunk) \in Seq(FrameBytes)
           /\ Len(Frame(n, chunk)) = LenPrefix + Len(chunk) + TagLen
           /\ \A i \in 1..Len(Frame(n, chunk)) :
                 Frame(n, chunk)[i] = [nonce |-> n, at |-> i, plain |-> chunk]
<1>1. MaxPlain \in Nat \ {0} /\ TagLen \in Nat \ {0}
  BY StreamAssumption
<1>2. PICK k \in 0..MaxPlain : chunk \in [1..k -> 1..MaxBytes]
  BY DEF Chunks
<1>3. Len(chunk) = k
  BY <1>1, <1>2, SMT
<1> DEFINE len == LenPrefix + Len(chunk) + TagLen
<1>4. len \in Nat /\ len <= MaxFrame
  BY <1>1, <1>3, SMT DEF LenPrefix, MaxFrame
<1>5. \A i \in 1..len : [nonce |-> n, at |-> i, plain |-> chunk] \in FrameBytes
  <2> TAKE i \in 1..len
  <2>1. i \in 1..MaxFrame
    BY <1>1, <1>4, SMT DEF MaxFrame, LenPrefix
  <2> QED BY <2>1 DEF FrameBytes
<1>6. Frame(n, chunk) \in [1..len -> FrameBytes]
  BY <1>5 DEF Frame
<1>7. Frame(n, chunk) \in Seq(FrameBytes) /\ Len(Frame(n, chunk)) = len
  BY <1>4, <1>6, SeqDef, SMT
<1>8. \A i \in 1..len : Frame(n, chunk)[i] = [nonce |-> n, at |-> i, plain |-> chunk]
  BY DEF Frame
<1> QED BY <1>1, <1>2, <1>3, <1>7, <1>8


\* The initial state.
LEMMA InitStream == Init => StreamInv
<1> SUFFICES ASSUME Init PROVE StreamInv
  OBVIOUS
<1> USE StreamAssumption DEF Init
<1>1. <<>> \in Seq(WireBytes) /\ <<>> \in Seq(GenuineBytes) /\ <<>> \in Seq(1..MaxBytes)
  BY EmptySeq
<1>2. <<>> \in Chunks
  <2>1. <<>> \in [1..0 -> 1..MaxBytes]
    BY SMT
  <2> QED BY <2>1, SMT DEF Chunks
<1>3. starts \in Seq(0..MaxBytes) /\ Len(starts) = 1 /\ starts[1] = 0
  BY SMT
<1>4. MaxFrame \in Nat
  BY SMT DEF MaxFrame, LenPrefix
<1>5. TypeOK
  <2>1. written \in 0..MaxBytes /\ garbled \in 0..MaxGarbled /\ target \in 0..MaxFrame
    BY <1>4, SMT
  <2>2. off \in 0..Len(pending) /\ readOff \in 0..Len(plain) /\ recvNonce \in 0..sendNonce
    BY SMT
  <2>3. Len(wire) <= WireCap /\ starts \in Seq(0..MaxBytes) /\ Len(starts) = sendNonce + 1
    BY <1>3, SMT
  <2> QED BY <1>1, <1>2, <2>1, <2>2, <2>3 DEF TypeOK
<1>6. StartsInv
  BY <1>3, SMT DEF StartsInv
<1>7. BytesInv
  BY <1>1 DEF BytesInv
<1>8. ReaderInv
  BY <1>3, SMT DEF ReaderInv
<1> QED BY <1>5, <1>6, <1>7, <1>8 DEF StreamInv

\* Bytes of the two kinds are bytes of the wire.
LEMMA GenuineAreBytes == GenuineBytes \subseteq WireBytes /\ FrameBytes \subseteq WireBytes
  BY DEF GenuineBytes, WireBytes

\* A step that leaves the writer's history alone leaves the genuine bytes alone.
LEMMA GenuineKept ==
    ASSUME starts' = starts, sendNonce' = sendNonce
    PROVE  GenuineBytes' = GenuineBytes
  BY DEF GenuineBytes, Chunk

\* Encrypting a frame keeps the bytes of earlier frames genuine and makes those
\* of the new one genuine.
LEMMA GenuineGrows ==
    ASSUME StreamInv, NEW n \in 0..MaxPlain, written + n <= MaxBytes,
           starts' = Append(starts, written + n), sendNonce' = sendNonce + 1
    PROVE  /\ GenuineBytes \subseteq GenuineBytes'
           /\ Frame(sendNonce, NextBytes(n)) \in Seq(GenuineBytes')
           /\ Frame(sendNonce, NextBytes(n)) \in Seq(WireBytes)
           /\ starts' \in Seq(0..MaxBytes) /\ Len(starts') = sendNonce' + 1
           /\ \A k \in 1..(sendNonce + 1) : starts'[k] = starts[k]
           /\ starts'[sendNonce' + 1] = written + n
           /\ \A k \in 1..sendNonce' : starts'[k] <= starts'[k + 1]
           /\ \A k \in 1..(sendNonce' + 1) : starts'[k] <= written + n
<1> USE StreamAssumption
<1>1. /\ starts \in Seq(0..MaxBytes) /\ Len(starts) = sendNonce + 1
      /\ sendNonce \in Nat /\ written \in 0..MaxBytes
      /\ starts[sendNonce + 1] = written
      /\ \A k \in 1..sendNonce : starts[k] <= starts[k + 1]
      /\ \A k \in 1..(sendNonce + 1) : starts[k] <= written
      /\ \A k \in 1..(sendNonce + 1) : starts[k] \in 0..MaxBytes
  <2>1. /\ starts \in Seq(0..MaxBytes) /\ Len(starts) = sendNonce + 1
    BY DEF StreamInv, TypeOK
  <2>2. \A k \in 1..(sendNonce + 1) : starts[k] \in 0..MaxBytes
    BY <2>1, ElementOfSeq
  <2> QED BY <2>1, <2>2 DEF StreamInv, TypeOK, StartsInv
<1>2. written + n \in 0..MaxBytes
  BY <1>1, SMT
<1>3. /\ starts' \in Seq(0..MaxBytes) /\ Len(starts') = sendNonce' + 1
      /\ \A k \in 1..(sendNonce + 1) : starts'[k] = starts[k]
      /\ starts'[sendNonce' + 1] = written + n
  BY <1>1, <1>2, AppendProperties, SMT
<1>4. \A k \in 1..sendNonce' : starts'[k] <= starts'[k + 1]
  <2> TAKE k \in 1..sendNonce'
  <2>1. CASE k = sendNonce + 1
    BY <2>1, <1>1, <1>3, SMT
  <2>2. CASE k \in 1..sendNonce
    BY <2>2, <1>1, <1>3, SMT
  <2> QED BY <2>1, <2>2, <1>1, SMT
<1>bound. \A k \in 1..(sendNonce' + 1) : starts'[k] <= written + n
  <2> TAKE k \in 1..(sendNonce' + 1)
  <2>1. CASE k = sendNonce' + 1
    BY <2>1, <1>2, <1>3, SMT
  <2>2. CASE k \in 1..(sendNonce + 1)
    <3>1. starts'[k] = starts[k] /\ starts[k] <= written /\ starts[k] \in 0..MaxBytes
      BY <2>2, <1>1, <1>3
    <3> QED BY <3>1, <1>1, SMT
  <2> QED BY <2>1, <2>2, <1>1, SMT
<1>5. \A k \in 0..(sendNonce - 1) : Chunk(k)' = Chunk(k)
  <2> TAKE k \in 0..(sendNonce - 1)
  <2>1. starts'[k + 1] = starts[k + 1] /\ starts'[k + 2] = starts[k + 2]
    BY <1>1, <1>3, SMT
  <2> QED BY <2>1 DEF Chunk
<1>6. GenuineBytes \subseteq GenuineBytes'
  <2> SUFFICES ASSUME NEW b \in GenuineBytes PROVE b \in GenuineBytes'
    OBVIOUS
  <2>1. CASE b.nonce = NoNonce
    BY <2>1 DEF GenuineBytes, WireBytes
  <2>2. CASE b.nonce \in 0..(sendNonce - 1) /\ b.plain = Chunk(b.nonce)
    <3>1. b.nonce \in 0..(sendNonce' - 1)
      BY <2>2, <1>1, SMT
    <3>2. b.plain = Chunk(b.nonce)'
      BY <2>2, <1>5
    <3>3. b \in WireBytes
      BY DEF GenuineBytes
    <3> QED BY <3>1, <3>2, <3>3 DEF GenuineBytes
  <2> QED BY <2>1, <2>2 DEF GenuineBytes
<1> DEFINE frame == Frame(sendNonce, NextBytes(n))
<1>7. NextBytes(n) \in Chunks /\ Len(NextBytes(n)) = n
  BY <1>1, NextBytesType
<1>nonce. PICK nonce \in Nat : nonce = sendNonce
  BY <1>1
<1>8. NextBytes(n) = Chunk(nonce)'
  <2>1. starts'[nonce + 1] = written /\ starts'[nonce + 2] = written + n
    BY <1>1, <1>3, <1>nonce, SMT
  <2>2. (written + n) - written = n
    BY <1>1, SMT
  <2> QED BY <2>1, <2>2 DEF Chunk, NextBytes
<1>9. /\ frame \in Seq(FrameBytes)
      /\ \A i \in 1..Len(frame) :
            frame[i] = [nonce |-> sendNonce, at |-> i, plain |-> NextBytes(n)]
  BY <1>1, <1>7, FrameType
<1>10. \A i \in 1..Len(frame) : frame[i] \in GenuineBytes'
  <2> TAKE i \in 1..Len(frame)
  <2>1. frame[i] \in WireBytes
    BY <1>9, ElementOfSeq, GenuineAreBytes
  <2>2. frame[i].nonce = nonce /\ frame[i].plain = Chunk(nonce)'
    <3>1. frame[i] = [nonce |-> sendNonce, at |-> i, plain |-> NextBytes(n)]
      BY <1>9
    <3> HIDE DEF frame
    <3>2. frame[i].nonce = sendNonce /\ frame[i].plain = NextBytes(n)
      BY <3>1, SMT
    <3> QED BY <3>2, <1>8, <1>nonce
  <2>3. nonce \in 0..(sendNonce' - 1)
    BY <1>1, <1>nonce, SMT
  <2> QED BY <2>1, <2>2, <2>3, Zenon DEF GenuineBytes, WireBytes
<1>11. frame \in Seq(GenuineBytes')
  <2>1. Len(frame) \in Nat /\ frame = [i \in 1..Len(frame) |-> frame[i]]
    BY <1>9, LenProperties
  <2>2. frame \in [1..Len(frame) -> GenuineBytes']
    BY <2>1, <1>10
  <2> QED BY <2>1, <2>2, SeqDef
<1>12. frame \in Seq(WireBytes)
  BY <1>9, GenuineAreBytes, SeqMonotonic
<1> QED BY <1>3, <1>4, <1>bound, <1>6, <1>11, <1>12

----------------------------------------------------------------------------
\* What is left of a frame is a part of it.
LEMMA UnsentType ==
    ASSUME NEW S, pending \in Seq(S), off \in 0..Len(pending)
    PROVE  Unsent \in Seq(S) /\ Len(Unsent) = Len(pending) - off
<1>1. Unsent = Drop(pending, off)
  BY DEF Unsent, Drop
<1> QED BY <1>1, TakeDropType

\* The connection takes bytes of the kind it holds.
LEMMA SentBytes ==
    ASSUME NEW S, wire \in Seq(S), NEW bytes \in Seq(S), Send(bytes)
    PROVE  wire' \in Seq(S) /\ Len(wire') <= WireCap
<1>1. wire \o bytes \in Seq(S) /\ Len(wire \o bytes) = Len(wire) + Len(bytes)
  BY ConcatProperties
<1> QED BY <1>1 DEF Send

\* Writing a part of what is left, in whatever call.
LEMMA FlushedPart ==
    ASSUME StreamInv, wstate # "failed", NEW m \in 0..Len(Unsent),
           Send(Take(Unsent, m)), Flushed(m)
    PROVE  /\ wire' \in Seq(GenuineBytes) /\ wire' \in Seq(WireBytes)
           /\ Len(wire') <= WireCap
           /\ pending' \in Seq(GenuineBytes) /\ pending' \in Seq(WireBytes)
           /\ off' \in 0..Len(pending')
<1>1. /\ pending \in Seq(WireBytes) /\ pending \in Seq(GenuineBytes)
      /\ off \in 0..Len(pending)
      /\ wire \in Seq(WireBytes) /\ wire \in Seq(GenuineBytes)
  BY DEF StreamInv, TypeOK, BytesInv
<1>2. /\ Unsent \in Seq(WireBytes) /\ Unsent \in Seq(GenuineBytes)
      /\ Len(Unsent) = Len(pending) - off
  BY <1>1, UnsentType
<1>3. Take(Unsent, m) \in Seq(WireBytes) /\ Take(Unsent, m) \in Seq(GenuineBytes)
  BY <1>2, TakeDropType
<1>4. wire' \in Seq(GenuineBytes) /\ wire' \in Seq(WireBytes) /\ Len(wire') <= WireCap
  BY <1>1, <1>3, SentBytes
<1>5. CASE m = Len(Unsent)
  <2>1. pending' = <<>> /\ off' = 0
    BY <1>5 DEF Flushed
  <2> QED BY <2>1, <1>4, EmptySeq, SMT
<1>6. CASE m # Len(Unsent)
  <2>1. pending' = pending /\ off' = off + m
    BY <1>6 DEF Flushed
  <2>2. Len(pending) \in Nat
    BY <1>1, LenProperties
  <2>3. off + m \in 0..Len(pending)
    BY <1>1, <1>2, <2>2, SMT
  <2> QED BY <2>1, <2>3, <1>1, <1>4
<1> QED BY <1>5, <1>6

\* The reader's part is about the reader and the frames it has decrypted.
LEMMA ReaderKept ==
    ASSUME StreamInv, UNCHANGED reader,
           \A k \in 1..(sendNonce + 1) : starts'[k] = starts[k]
    PROVE  ReaderInv'
<1>1. recvNonce + 1 \in 1..(sendNonce + 1)
  BY SMT DEF StreamInv, TypeOK
<1>2. starts'[recvNonce + 1] = starts[recvNonce + 1]
  BY <1>1
<1>3. ReaderInv
  BY DEF StreamInv
<1>4. /\ raw' = raw /\ plain' = plain /\ readOff' = readOff /\ target' = target
      /\ haveLen' = haveLen /\ recvNonce' = recvNonce /\ out' = out /\ rstate' = rstate
  BY DEF reader
<1> QED BY <1>2, <1>3, <1>4 DEF ReaderInv

LEMMA WriteStep ==
    ASSUME StreamInv, NEW len \in 1..MaxBuf, Write(len)
    PROVE  StreamInv'
<1> USE StreamAssumption
<1> DEFINE n == IF len <= MaxPlain THEN len ELSE MaxPlain
           frame == Frame(sendNonce, NextBytes(n))
<1>1. /\ TypeOK /\ StartsInv /\ BytesInv
  BY DEF StreamInv
<1>2. /\ wstate = "open" /\ wstate' = wstate /\ written + len <= MaxBytes
      /\ sendNonce' = sendNonce + 1 /\ written' = written + n
      /\ starts' = Append(starts, written + n)
      /\ UNCHANGED <<fin, broken, garbled, reader>>
  BY DEF Write
<1>3. n \in 0..MaxPlain /\ n <= len
  BY SMT
<1>4. written \in 0..MaxBytes /\ sendNonce \in Nat
  BY <1>1 DEF TypeOK
<1>5. written + n <= MaxBytes /\ written + n \in 0..MaxBytes
  <2> HIDE DEF n
  <2> QED BY <1>2, <1>3, <1>4, SMT
<1>6. /\ GenuineBytes \subseteq GenuineBytes'
      /\ frame \in Seq(GenuineBytes') /\ frame \in Seq(WireBytes)
      /\ starts' \in Seq(0..MaxBytes) /\ Len(starts') = sendNonce' + 1
      /\ \A k \in 1..(sendNonce + 1) : starts'[k] = starts[k]
      /\ starts'[sendNonce' + 1] = written + n
      /\ \A k \in 1..sendNonce' : starts'[k] <= starts'[k + 1]
      /\ \A k \in 1..(sendNonce' + 1) : starts'[k] <= written + n
  <2> HIDE DEF n
  <2> QED BY <1>2, <1>3, <1>5, GenuineGrows
<1>7. PICK m \in 0..Len(frame) :
        /\ Send(Unsent \o Take(frame, m))
        /\ pending' = IF m = Len(frame) THEN <<>> ELSE frame
        /\ off' = IF m = Len(frame) THEN 0 ELSE m
  BY DEF Write
<1> HIDE DEF n, frame
<1>8. Unsent \in Seq(WireBytes) /\ Unsent \in Seq(GenuineBytes')
  <2>1. /\ pending \in Seq(WireBytes) /\ pending \in Seq(GenuineBytes)
        /\ off \in 0..Len(pending)
    BY <1>1, <1>2 DEF TypeOK, BytesInv
  <2>2. Unsent \in Seq(WireBytes) /\ Unsent \in Seq(GenuineBytes)
    BY <2>1, UnsentType
  <2> QED BY <2>2, <1>6, SeqMonotonic
<1>9. Take(frame, m) \in Seq(WireBytes) /\ Take(frame, m) \in Seq(GenuineBytes')
  BY <1>6, TakeDropType
<1>10. /\ Unsent \o Take(frame, m) \in Seq(WireBytes)
       /\ Unsent \o Take(frame, m) \in Seq(GenuineBytes')
  BY <1>8, <1>9, ConcatProperties
<1>11. wire \in Seq(WireBytes) /\ wire \in Seq(GenuineBytes')
  BY <1>1, <1>6, SeqMonotonic DEF TypeOK, BytesInv
<1>12. wire' \in Seq(WireBytes) /\ wire' \in Seq(GenuineBytes') /\ Len(wire') <= WireCap
  BY <1>7, <1>10, <1>11, SentBytes
<1>13. /\ pending' \in Seq(WireBytes) /\ pending' \in Seq(GenuineBytes')
       /\ off' \in 0..Len(pending')
  <2>1. CASE m = Len(frame)
    <3>1. pending' = <<>> /\ off' = 0
      BY <2>1, <1>7
    <3> QED BY <3>1, EmptySeq, SMT
  <2>2. CASE m # Len(frame)
    <3>1. pending' = frame /\ off' = m
      BY <2>2, <1>7
    <3> QED BY <3>1, <1>6
  <2> QED BY <2>1, <2>2
<1>14. raw' \in Seq(GenuineBytes')
  BY <1>1, <1>2, <1>6, SeqMonotonic DEF BytesInv, reader
<1>15. TypeOK'
  <2>1. recvNonce' \in 0..sendNonce' /\ sendNonce' \in Nat
    <3>1. recvNonce \in 0..sendNonce /\ recvNonce' = recvNonce
      BY <1>1, <1>2 DEF TypeOK, reader
    <3> QED BY <3>1, <1>2, <1>4, SMT
  <2>2. written' \in 0..MaxBytes
    BY <1>2, <1>5
  <2> QED BY <2>1, <2>2, <1>1, <1>2, <1>6, <1>12, <1>13, Zenon DEF TypeOK, reader
<1>16. StartsInv'
  BY <1>2, <1>6 DEF StartsInv
<1>17. BytesInv'
  BY <1>12, <1>13, <1>14 DEF BytesInv
<1>18. ReaderInv'
  BY <1>2, <1>6, ReaderKept
<1> QED BY <1>15, <1>16, <1>17, <1>18 DEF StreamInv

\* Steps of the writer that encrypt nothing.
LEMMA FlushStep == StreamInv /\ Flush => StreamInv'
<1> SUFFICES ASSUME StreamInv, Flush PROVE StreamInv'
  OBVIOUS
<1>1. TypeOK /\ StartsInv /\ BytesInv
  BY DEF StreamInv
<1>2. /\ wstate = "open"
      /\ UNCHANGED <<written, sendNonce, wstate, fin, broken, garbled, reader, starts>>
  BY DEF Flush
<1>3. PICK m \in 1..Len(Unsent) : Send(Take(Unsent, m)) /\ Flushed(m)
  BY DEF Flush
<1>4. Len(Unsent) \in Nat
  BY <1>1, UnsentType, LenProperties DEF TypeOK
<1>5. m \in 0..Len(Unsent)
  BY <1>4, SMT
<1>6. /\ wire' \in Seq(GenuineBytes) /\ wire' \in Seq(WireBytes) /\ Len(wire') <= WireCap
      /\ pending' \in Seq(GenuineBytes) /\ pending' \in Seq(WireBytes)
      /\ off' \in 0..Len(pending')
  BY <1>2, <1>3, <1>5, FlushedPart
<1>7. GenuineBytes' = GenuineBytes
  BY <1>2, GenuineKept
<1>8. TypeOK'
  BY <1>1, <1>2, <1>6, Zenon DEF TypeOK, reader
<1>9. StartsInv'
  BY <1>1, <1>2 DEF StartsInv
<1>10. BytesInv'
  BY <1>1, <1>2, <1>6, <1>7 DEF BytesInv, reader
<1>11. ReaderInv'
  BY <1>2, ReaderKept
<1> QED BY <1>8, <1>9, <1>10, <1>11 DEF StreamInv

LEMMA ShutdownStep == StreamInv /\ Shutdown => StreamInv'
<1> SUFFICES ASSUME StreamInv, Shutdown PROVE StreamInv'
  OBVIOUS
<1>1. TypeOK /\ StartsInv /\ BytesInv
  BY DEF StreamInv
<1>2. /\ wstate \in {"open", "closing"}
      /\ UNCHANGED <<written, sendNonce, broken, garbled, reader, starts>>
  BY DEF Shutdown
<1>3. PICK m \in 0..Len(Unsent) :
        /\ Send(Take(Unsent, m)) /\ Flushed(m)
        /\ wstate' = IF m = Len(Unsent) THEN "closed" ELSE "closing"
        /\ fin' = (m = Len(Unsent))
  BY DEF Shutdown
<1>4. wstate' \in {"closing", "closed"} /\ fin' \in BOOLEAN
  BY <1>3
<1>5. wstate # "failed"
  BY <1>2
<1>6. /\ wire' \in Seq(GenuineBytes) /\ wire' \in Seq(WireBytes) /\ Len(wire') <= WireCap
      /\ pending' \in Seq(GenuineBytes) /\ pending' \in Seq(WireBytes)
      /\ off' \in 0..Len(pending')
  BY <1>3, <1>5, FlushedPart
<1>7. GenuineBytes' = GenuineBytes
  BY <1>2, GenuineKept
<1>8. TypeOK'
  <2>1. wstate' \in {"open", "closing", "closed", "failed", "dead"}
    BY <1>4
  <2> QED BY <2>1, <1>1, <1>2, <1>4, <1>6, Zenon DEF TypeOK, reader
<1>9. StartsInv'
  BY <1>1, <1>2 DEF StartsInv
<1>10. BytesInv'
  BY <1>1, <1>2, <1>6, <1>7 DEF BytesInv, reader
<1>11. ReaderInv'
  BY <1>2, ReaderKept
<1> QED BY <1>8, <1>9, <1>10, <1>11 DEF StreamInv

\* A frame encrypted by a call that fails is never sent: no byte of it need be
\* genuine.
LEMMA WriteFailsStep == StreamInv /\ WriteFails => StreamInv'
<1> SUFFICES ASSUME StreamInv, WriteFails PROVE StreamInv'
  OBVIOUS
<1> USE StreamAssumption
<1>1. TypeOK /\ StartsInv /\ BytesInv
  BY DEF StreamInv
<1>2. wstate' = "failed" /\ UNCHANGED <<written, network, reader>>
  BY DEF WriteFails
<1>3. CASE UNCHANGED <<sendNonce, pending, off, starts>>
  <2>1. GenuineBytes' = GenuineBytes
    BY <1>3, GenuineKept
  <2>2. TypeOK'
    BY <1>1, <1>2, <1>3, Zenon DEF TypeOK, reader, network
  <2>3. StartsInv'
    BY <1>1, <1>2, <1>3 DEF StartsInv
  <2>4. BytesInv'
    BY <1>1, <1>2, <2>1 DEF BytesInv, reader, network
  <2>5. ReaderInv'
    BY <1>2, <1>3, ReaderKept
  <2> QED BY <2>2, <2>3, <2>4, <2>5 DEF StreamInv
<1>4. CASE /\ written < MaxBytes
           /\ sendNonce' = sendNonce + 1
           /\ pending' = Frame(sendNonce, NextBytes(1)) /\ off' = 0
           /\ starts' = Append(starts, written)
  <2>1. written \in 0..MaxBytes /\ sendNonce \in Nat
    BY <1>1 DEF TypeOK
  <2>2. written + 0 = written /\ written + 0 <= MaxBytes /\ 0 \in 0..MaxPlain
    BY <2>1, SMT
  <2>3. /\ GenuineBytes \subseteq GenuineBytes'
        /\ starts' \in Seq(0..MaxBytes) /\ Len(starts') = sendNonce' + 1
        /\ \A k \in 1..(sendNonce + 1) : starts'[k] = starts[k]
        /\ starts'[sendNonce' + 1] = written
        /\ \A k \in 1..sendNonce' : starts'[k] <= starts'[k + 1]
        /\ \A k \in 1..(sendNonce' + 1) : starts'[k] <= written
    BY <1>4, <2>2, GenuineGrows
  <2>4. pending' \in Seq(WireBytes) /\ Len(pending') \in Nat /\ Len(pending') >= LenPrefix
    <3>1. 1 \in 0..MaxPlain /\ written + 1 <= MaxBytes
      BY <1>4, <2>1, SMT
    <3>2. NextBytes(1) \in Chunks /\ Len(NextBytes(1)) = 1
      BY <2>1, <3>1, NextBytesType
    <3>3. /\ pending' \in Seq(FrameBytes)
          /\ Len(pending') = LenPrefix + Len(NextBytes(1)) + TagLen
      BY <1>4, <2>1, <3>2, FrameType
    <3>4. Len(pending') \in Nat /\ Len(pending') >= LenPrefix
      BY <3>2, <3>3, SMT DEF LenPrefix
    <3> QED BY <3>3, <3>4, GenuineAreBytes, SeqMonotonic
  <2>5. off' \in 0..Len(pending')
    BY <1>4, <2>4, SMT
  <2>6. TypeOK'
    <3>1. recvNonce' \in 0..sendNonce' /\ sendNonce' \in Nat
      <4>1. recvNonce \in 0..sendNonce /\ recvNonce' = recvNonce
        BY <1>1, <1>2 DEF TypeOK, reader
      <4> QED BY <4>1, <1>4, <2>1, SMT
    <3> QED BY <3>1, <1>1, <1>2, <2>3, <2>4, <2>5, Zenon DEF TypeOK, reader, network
  <2>7. StartsInv'
    BY <1>2, <2>3 DEF StartsInv
  <2>8. BytesInv'
    BY <1>1, <1>2, <2>3, SeqMonotonic DEF BytesInv, reader, network
  <2>9. ReaderInv'
    BY <1>2, <2>3, ReaderKept
  <2> QED BY <2>6, <2>7, <2>8, <2>9 DEF StreamInv
<1> QED BY <1>3, <1>4 DEF WriteFails

----------------------------------------------------------------------------
\* The reader's steps leave the writer and its history alone.
LEMMA DeliverStep ==
    ASSUME StreamInv, NEW n \in 1..MaxBuf, Deliver(n)
    PROVE  StreamInv'
<1> USE StreamAssumption
<1>1. TypeOK /\ StartsInv /\ BytesInv /\ ReaderInv
  BY DEF StreamInv
<1>2. /\ readOff + n <= Len(plain)
      /\ out' = out \o SubSeq(plain, readOff + 1, readOff + n)
      /\ readOff' = readOff + n
      /\ UNCHANGED <<writer, network, raw, plain, target, haveLen, recvNonce, rstate, starts>>
  BY DEF Deliver
<1>3. /\ plain \in Seq(1..MaxBytes) /\ Len(plain) \in Nat
      /\ \A i \in 1..Len(plain) : plain[i] \in 1..MaxBytes
  <2>1. PICK k \in 0..MaxPlain : plain \in [1..k -> 1..MaxBytes]
    BY <1>1 DEF TypeOK, Chunks
  <2>2. plain \in Seq(1..MaxBytes)
    BY <2>1, SeqDef, SMT
  <2> QED BY <2>2, LenProperties, ElementOfSeq
<1>4. readOff \in Nat /\ n \in Nat /\ recvNonce + 1 \in 1..(sendNonce + 1)
  BY <1>1, SMT DEF TypeOK
<1>5. out \in Seq(1..MaxBytes) /\ Len(out) \in Nat
  BY <1>1, LenProperties DEF TypeOK
<1> DEFINE more == SubSeq(plain, readOff + 1, readOff + n)
<1>6. /\ more \in Seq(1..MaxBytes) /\ Len(more) = n
      /\ \A i \in 1..n : more[i] = plain[readOff + i]
  <2>1. \A i \in (readOff + 1)..(readOff + n) : plain[i] \in 1..MaxBytes
    BY <1>2, <1>3, <1>4, SMT
  <2>2. /\ more \in Seq(1..MaxBytes)
        /\ Len(more) = IF readOff + 1 <= readOff + n
                       THEN (readOff + n) - (readOff + 1) + 1 ELSE 0
        /\ \A i \in 1..((readOff + n) - (readOff + 1) + 1) :
              more[i] = plain[(readOff + 1) + i - 1]
    <3>1. readOff + 1 \in Int /\ readOff + n \in Int
      BY <1>4, SMT
    <3> QED BY <3>1, <2>1, SubSeqProperties
  <2> HIDE DEF more
  <2>3. Len(more) = n /\ (readOff + n) - (readOff + 1) + 1 = n
    BY <2>2, <1>4, SMT
  <2>4. \A i \in 1..n : (readOff + 1) + i - 1 = readOff + i
    BY <1>4, SMT
  <2> QED BY <2>2, <2>3, <2>4
<1>7. /\ out' \in Seq(1..MaxBytes) /\ Len(out') = Len(out) + n
      /\ \A i \in 1..(Len(out) + n) :
            out'[i] = IF i <= Len(out) THEN out[i] ELSE more[i - Len(out)]
  <2> HIDE DEF more
  <2>1. out' = out \o more
    BY <1>2 DEF more
  <2> QED BY <2>1, <1>5, <1>6, ConcatProperties
<1> HIDE DEF more
<1> DEFINE base == starts[recvNonce + 1]
<1>8. base \in Int
  <2>1. starts \in Seq(0..MaxBytes) /\ Len(starts) = sendNonce + 1
    BY <1>1 DEF TypeOK
  <2> QED BY <2>1, <1>4, ElementOfSeq, SMT
<1>9. /\ Len(out) + (Len(plain) - readOff) = base
      /\ \A i \in 1..Len(out) : out[i] = i
      /\ \A i \in 1..Len(plain) : plain[i] = base - Len(plain) + i
  <2>1. /\ out = [i \in 1..Len(out) |-> i]
        /\ plain = [i \in 1..Len(plain) |-> base - Len(plain) + i]
        /\ Len(out) + (Len(plain) - readOff) = base
    BY <1>1 DEF ReaderInv
  <2> HIDE DEF base
  <2> QED BY <2>1
<1>ints. /\ Len(out) \in Int /\ Len(plain) \in Int /\ readOff \in Int /\ n \in Int
         /\ Len(out) + (Len(plain) - readOff) = base
  <2> HIDE DEF base
  <2> QED BY <1>3, <1>4, <1>5, <1>9, SMT
<1>10. \A i \in 1..(Len(out) + n) : out'[i] = i
  <2> TAKE i \in 1..(Len(out) + n)
  <2>1. CASE i <= Len(out)
    <3>1. i \in 1..Len(out)
      BY <2>1, <1>5, SMT
    <3> QED BY <3>1, <2>1, <1>7, <1>9
  <2>2. CASE ~(i <= Len(out))
    <3> DEFINE j == i - Len(out)
    <3>1. j \in 1..n /\ readOff + j \in 1..Len(plain)
      BY <2>2, <1>2, <1>3, <1>4, <1>5, SMT
    <3>2. out'[i] = more[j]
      BY <2>2, <1>7
    <3>3. more[j] = plain[readOff + j]
      BY <3>1, <1>6
    <3>4. plain[readOff + j] = base - Len(plain) + (readOff + j)
      BY <3>1, <1>9
    <3>5. base - Len(plain) + (readOff + j) = i
      <4>1. i \in Int
        BY <1>4, <1>5, SMT
      <4> HIDE DEF base
      <4> QED BY <4>1, <1>8, <1>ints, SMT
    <3> QED BY <3>2, <3>3, <3>4, <3>5
  <2> QED BY <2>1, <2>2
<1>11. out' = [i \in 1..Len(out') |-> i]
  <2>1. out' \in [1..Len(out') -> 1..MaxBytes]
    BY <1>7, LenProperties
  <2> QED BY <2>1, <1>7, <1>10
<1>12. ReaderInv'
  <2>1. /\ plain' = plain /\ target' = target /\ haveLen' = haveLen
        /\ starts' = starts /\ recvNonce' = recvNonce
    BY <1>2
  <2>2. Len(out') + (Len(plain') - readOff') = starts'[recvNonce' + 1]
    <3>1. (Len(out) + n) + (Len(plain) - (readOff + n)) = base
      <4> HIDE DEF base
      <4> QED BY <1>8, <1>ints, SMT
    <3> QED BY <3>1, <2>1, <1>2, <1>7
  <2> QED BY <2>1, <2>2, <1>1, <1>11 DEF ReaderInv
<1>13. TypeOK'
  <2>1. readOff' \in 0..Len(plain')
    BY <1>2, <1>3, <1>4, SMT
  <2> QED BY <2>1, <1>1, <1>2, <1>7, Zenon DEF TypeOK, writer, network
<1>14. GenuineBytes' = GenuineBytes
  BY <1>2, GenuineKept DEF writer
<1>15. StartsInv' /\ BytesInv'
  BY <1>1, <1>2, <1>14 DEF StartsInv, BytesInv, writer, network
<1> QED BY <1>12, <1>13, <1>15 DEF StreamInv

LEMMA FillStep == StreamInv /\ Fill => StreamInv'
<1> SUFFICES ASSUME StreamInv, Fill PROVE StreamInv'
  OBVIOUS
<1>1. TypeOK /\ StartsInv /\ BytesInv /\ ReaderInv
  BY DEF StreamInv
<1>2. UNCHANGED <<writer, fin, broken, garbled, plain, readOff, target, haveLen, recvNonce,
                  out, rstate, starts>>
  BY DEF Fill
<1>3. PICK m \in 1..Len(wire) : raw' = raw \o Take(wire, m) /\ wire' = Drop(wire, m)
  BY DEF Fill
<1>4. /\ wire \in Seq(WireBytes) /\ wire \in Seq(GenuineBytes) /\ Len(wire) <= WireCap
      /\ raw \in Seq(WireBytes) /\ raw \in Seq(GenuineBytes)
  BY <1>1 DEF TypeOK, BytesInv
<1>5. Len(wire) \in Nat /\ m \in 0..Len(wire)
  <2>1. Len(wire) \in Nat
    BY <1>4, LenProperties
  <2> QED BY <2>1, SMT
<1>6. /\ Take(wire, m) \in Seq(WireBytes) /\ Take(wire, m) \in Seq(GenuineBytes)
      /\ wire' \in Seq(WireBytes) /\ wire' \in Seq(GenuineBytes)
      /\ Len(wire') = Len(wire) - m
  BY <1>3, <1>4, <1>5, TakeDropType
<1>7. raw' \in Seq(WireBytes) /\ raw' \in Seq(GenuineBytes)
  BY <1>3, <1>4, <1>6, ConcatProperties
<1>8. Len(wire') <= WireCap
  BY <1>4, <1>5, <1>6, StreamAssumption, SMT
<1>9. TypeOK'
  BY <1>1, <1>2, <1>6, <1>7, <1>8, Zenon DEF TypeOK, writer
<1>10. GenuineBytes' = GenuineBytes
  BY <1>2, GenuineKept DEF writer
<1>11. StartsInv' /\ BytesInv' /\ ReaderInv'
  BY <1>1, <1>2, <1>6, <1>7, <1>10 DEF StartsInv, BytesInv, ReaderInv, writer
<1> QED BY <1>9, <1>11 DEF StreamInv

LEMMA FillEndsStep == StreamInv /\ FillEnds => StreamInv'
<1> SUFFICES ASSUME StreamInv, FillEnds PROVE StreamInv'
  OBVIOUS
<1>1. TypeOK /\ StartsInv /\ BytesInv /\ ReaderInv
  BY DEF StreamInv
<1>2. /\ rstate' \in {"open", "ended", "failed"}
      /\ UNCHANGED <<writer, network, raw, plain, readOff, target, haveLen, recvNonce, out,
                     starts>>
  BY DEF FillEnds
<1>3. TypeOK'
  BY <1>1, <1>2, Zenon DEF TypeOK, writer, network
<1>4. GenuineBytes' = GenuineBytes
  BY <1>2, GenuineKept DEF writer
<1>5. StartsInv' /\ BytesInv' /\ ReaderInv'
  BY <1>1, <1>2, <1>4 DEF StartsInv, BytesInv, ReaderInv, writer, network
<1> QED BY <1>3, <1>5 DEF StreamInv

LEMMA TakeLengthStep == StreamInv /\ TakeLength => StreamInv'
<1> SUFFICES ASSUME StreamInv, TakeLength PROVE StreamInv'
  OBVIOUS
<1> USE StreamAssumption
<1>1. TypeOK /\ StartsInv /\ BytesInv /\ ReaderInv
  BY DEF StreamInv
<1>2. UNCHANGED <<writer, network, raw, plain, readOff, recvNonce, out, starts>>
  BY DEF TakeLength
<1>3. /\ target' \in 0..MaxFrame /\ haveLen' \in BOOLEAN
      /\ rstate' \in {"open", "ended", "failed"}
      /\ haveLen' => target' >= LenPrefix + TagLen
  <2>1. CASE LengthRead(raw) \in TagLen..(MaxPlain + TagLen)
    <3> DEFINE L == LengthRead(raw)
    <3>1. /\ target' = LenPrefix + L /\ haveLen' = TRUE /\ rstate' = rstate
      BY <2>1 DEF TakeLength
    <3>2. LenPrefix + L \in 0..MaxFrame /\ LenPrefix + L >= LenPrefix + TagLen
      <4> HIDE DEF L
      <4>1. L \in TagLen..(MaxPlain + TagLen)
        BY <2>1 DEF L
      <4> QED BY <4>1, SMT DEF LenPrefix, MaxFrame
    <3> QED BY <3>1, <3>2, <1>1 DEF TypeOK
  <2>2. CASE LengthRead(raw) \notin TagLen..(MaxPlain + TagLen)
    <3>1. rstate' = "failed" /\ target' = target /\ haveLen' = haveLen
      BY <2>2 DEF TakeLength
    <3> QED BY <3>1, <1>1 DEF TypeOK, ReaderInv
  <2> QED BY <2>1, <2>2
<1>4. TypeOK'
  BY <1>1, <1>2, <1>3, Zenon DEF TypeOK, writer, network
<1>5. GenuineBytes' = GenuineBytes
  BY <1>2, GenuineKept DEF writer
<1>6. StartsInv' /\ BytesInv' /\ ReaderInv'
  BY <1>1, <1>2, <1>3, <1>5 DEF StartsInv, BytesInv, ReaderInv, writer, network
<1> QED BY <1>4, <1>6 DEF StreamInv

\* Only the frame whose turn it is decrypts, and it carries the next bytes.
LEMMA OpenedChunk ==
    ASSUME StreamInv, haveLen, Len(raw) >= target,
           Decrypts(SubSeq(raw, LenPrefix + 1, target), recvNonce)
    PROVE  /\ recvNonce < sendNonce
           /\ SubSeq(raw, LenPrefix + 1, target)[1].plain = Chunk(recvNonce)
           /\ SubSeq(raw, LenPrefix + 1, target)[1].plain \in Chunks
<1> USE StreamAssumption
<1> DEFINE body == SubSeq(raw, LenPrefix + 1, target)
<1>1. /\ raw \in Seq(GenuineBytes) /\ target \in 0..MaxFrame
      /\ target >= LenPrefix + TagLen /\ recvNonce \in 0..sendNonce /\ sendNonce \in Nat
  BY DEF StreamInv, TypeOK, BytesInv, ReaderInv
<1>2. Len(raw) \in Nat /\ target \in Int /\ LenPrefix + 1 \in 1..Len(raw)
      /\ LenPrefix + 1 <= target
  <2>1. Len(raw) \in Nat
    BY <1>1, LenProperties
  <2> QED BY <2>1, <1>1, SMT DEF LenPrefix, MaxFrame
<1>3. /\ body[1] = raw[LenPrefix + 1]
      /\ raw[LenPrefix + 1] \in GenuineBytes
  <2>1. \A i \in (LenPrefix + 1)..target : raw[i] \in GenuineBytes
    <3> TAKE i \in (LenPrefix + 1)..target
    <3>1. i \in 1..Len(raw)
      BY <1>2, SMT DEF LenPrefix
    <3> QED BY <3>1, <1>1, ElementOfSeq
  <2>2. \A i \in 1..(target - (LenPrefix + 1) + 1) : body[i] = raw[LenPrefix + 1 + i - 1]
    <3>1. LenPrefix + 1 \in Int
      BY DEF LenPrefix
    <3> QED BY <3>1, <2>1, <1>2, SubSeqProperties
  <2>3. 1 \in 1..(target - (LenPrefix + 1) + 1) /\ LenPrefix + 1 + 1 - 1 = LenPrefix + 1
    BY <1>2, SMT DEF LenPrefix
  <2>4. body[1] = raw[LenPrefix + 1 + 1 - 1]
    <3> HIDE DEF body
    <3> QED BY <2>2, <2>3
  <2>5. raw[LenPrefix + 1] \in GenuineBytes
    BY <1>1, <1>2, ElementOfSeq
  <2> QED BY <2>3, <2>4, <2>5
<1> DEFINE b == body[1]
<1>4. b \in GenuineBytes
  BY <1>3
<1>5. body = SubSeq(Frame(recvNonce, b.plain), LenPrefix + 1, LenPrefix + Len(b.plain) + TagLen)
  BY DEF Decrypts
<1> HIDE DEF body
<1>6. b.plain \in Chunks
  <2>1. CASE b \in FrameBytes
    <3> HIDE DEF b
    <3> QED BY <2>1 DEF FrameBytes
  <2>2. CASE b \in {Garbled(len) : len \in 0..(MaxFrame + 1)}
    <3>1. b.plain = <<>>
      <4> HIDE DEF b
      <4> QED BY <2>2 DEF Garbled
    <3>2. <<>> \in [1..0 -> 1..MaxBytes]
      BY SMT
    <3> QED BY <3>1, <3>2, SMT DEF Chunks
  <2>3. b \in WireBytes
    BY <1>4 DEF GenuineBytes
  <2> QED BY <2>1, <2>2, <2>3 DEF WireBytes
<1>7. b.nonce = recvNonce
  <2> DEFINE frame == Frame(recvNonce, b.plain)
             last == LenPrefix + Len(b.plain) + TagLen
  <2>1. recvNonce \in Nat
    BY <1>1, SMT
  <2>2. /\ Len(b.plain) \in 0..MaxPlain /\ frame \in Seq(FrameBytes) /\ Len(frame) = last
        /\ \A i \in 1..Len(frame) :
              frame[i] = [nonce |-> recvNonce, at |-> i, plain |-> b.plain]
    BY <1>6, <2>1, FrameType
  <2>3. last \in Nat /\ LenPrefix + 1 \in 1..last
    <3>1. Len(b.plain) \in 0..MaxPlain
      BY <2>2
    <3> HIDE DEF b
    <3> QED BY <3>1, SMT DEF LenPrefix
  <2>4. \A i \in (LenPrefix + 1)..last : frame[i] \in FrameBytes
    <3> TAKE i \in (LenPrefix + 1)..last
    <3> HIDE DEF frame, last
    <3>1. i \in 1..Len(frame)
      BY <2>2, <2>3, SMT DEF LenPrefix
    <3> QED BY <3>1, <2>2, ElementOfSeq
  <2>5. \A i \in 1..(last - (LenPrefix + 1) + 1) :
            SubSeq(frame, LenPrefix + 1, last)[i] = frame[LenPrefix + 1 + i - 1]
    <3> HIDE DEF frame, last
    <3>1. LenPrefix + 1 \in Int /\ last \in Int
      BY <2>3, SMT DEF LenPrefix
    <3> QED BY <3>1, <2>4, SubSeqProperties
  <2>6. body = SubSeq(frame, LenPrefix + 1, last)
    BY <1>5
  <2> HIDE DEF frame, last
  <2>7. 1 \in 1..(last - (LenPrefix + 1) + 1) /\ LenPrefix + 1 + 1 - 1 = LenPrefix + 1
    BY <2>3, SMT DEF LenPrefix
  <2>8. b = frame[LenPrefix + 1 + 1 - 1]
    BY <2>5, <2>6, <2>7
  <2>9. b = [nonce |-> recvNonce, at |-> LenPrefix + 1, plain |-> b.plain]
    BY <2>2, <2>3, <2>7, <2>8
  <2> HIDE DEF b
  <2> QED BY <2>9, SMT
<1>8. recvNonce # NoNonce
  BY <1>1, SMT DEF NoNonce
<1>9. recvNonce \in 0..(sendNonce - 1) /\ b.plain = Chunk(recvNonce)
  <2> HIDE DEF b
  <2>1. b.nonce \in 0..(sendNonce - 1) /\ b.plain = Chunk(b.nonce)
    BY <1>4, <1>7, <1>8 DEF GenuineBytes
  <2> QED BY <2>1, <1>7
<1>10. recvNonce < sendNonce
  BY <1>1, <1>9, SMT
<1> QED BY <1>6, <1>9, <1>10 DEF body

LEMMA OpenFrameStep == StreamInv /\ OpenFrame => StreamInv'
<1> SUFFICES ASSUME StreamInv, OpenFrame PROVE StreamInv'
  OBVIOUS
<1> USE StreamAssumption
<1> DEFINE body == SubSeq(raw, LenPrefix + 1, target)
<1>1. TypeOK /\ StartsInv /\ BytesInv /\ ReaderInv
  BY DEF StreamInv
<1>2. /\ readOff = Len(plain) /\ haveLen /\ Len(raw) >= target
      /\ UNCHANGED <<writer, network, out, starts>>
  BY DEF OpenFrame
<1>3. GenuineBytes' = GenuineBytes
  BY <1>2, GenuineKept DEF writer
<1>4. CASE Decrypts(body, recvNonce)
  <2>1. /\ plain' = body[1].plain /\ readOff' = 0 /\ raw' = Drop(raw, target)
        /\ target' = 0 /\ haveLen' = FALSE /\ recvNonce' = recvNonce + 1
        /\ rstate' = rstate
    BY <1>4 DEF OpenFrame
  <2>2. recvNonce < sendNonce /\ plain' = Chunk(recvNonce) /\ plain' \in Chunks
    BY <1>2, <1>4, <2>1, OpenedChunk
  <2>3. /\ raw \in Seq(WireBytes) /\ raw \in Seq(GenuineBytes) /\ target \in 0..Len(raw)
    <3>1. raw \in Seq(WireBytes) /\ raw \in Seq(GenuineBytes) /\ target \in 0..MaxFrame
      BY <1>1 DEF TypeOK, BytesInv
    <3>2. Len(raw) \in Nat
      BY <3>1, LenProperties
    <3> QED BY <3>1, <3>2, <1>2, SMT
  <2>4. raw' \in Seq(WireBytes) /\ raw' \in Seq(GenuineBytes)
    BY <2>1, <2>3, TakeDropType
  <2>5. recvNonce \in Nat /\ sendNonce \in Nat /\ recvNonce' \in 0..sendNonce
    <3>1. recvNonce \in 0..sendNonce /\ sendNonce \in Nat
      BY <1>1 DEF TypeOK
    <3> QED BY <3>1, <2>1, <2>2, SMT
  <2> DEFINE from == starts[recvNonce + 1]
             to == starts[recvNonce + 2]
  <2>6. from \in Nat /\ to \in Nat /\ from <= to
    <3>1. starts \in Seq(0..MaxBytes) /\ Len(starts) = sendNonce + 1
      BY <1>1 DEF TypeOK
    <3>2. recvNonce + 1 \in 1..sendNonce /\ recvNonce + 1 \in 1..Len(starts)
          /\ recvNonce + 2 \in 1..Len(starts) /\ recvNonce + 1 + 1 = recvNonce + 2
      BY <2>2, <2>5, <3>1, SMT
    <3>3. from \in 0..MaxBytes /\ to \in 0..MaxBytes
      BY <3>1, <3>2, ElementOfSeq
    <3>4. from <= to
      BY <3>2, <1>1 DEF StartsInv
    <3> HIDE DEF from, to
    <3> QED BY <3>3, <3>4, SMT
  <2>7. plain' = [i \in 1..(to - from) |-> from + i] /\ Len(plain') = to - from
    <3>1. plain' = [i \in 1..(to - from) |-> from + i]
      BY <2>2 DEF Chunk
    <3> HIDE DEF from, to
    <3> QED BY <3>1, <2>6, SMT
  <2>8. Len(out) = from
    <3>1. Len(out) + (Len(plain) - readOff) = from
      BY <1>1 DEF ReaderInv
    <3>2. Len(out) \in Nat /\ Len(plain) \in Int
      <4>1. out \in Seq(1..MaxBytes) /\ readOff \in 0..Len(plain)
        BY <1>1 DEF TypeOK
      <4>2. PICK k \in 0..MaxPlain : plain \in [1..k -> 1..MaxBytes]
        BY <1>1 DEF TypeOK, Chunks
      <4>3. plain \in Seq(1..MaxBytes)
        BY <4>2, SeqDef, SMT
      <4> QED BY <4>1, <4>3, LenProperties, SMT
    <3> HIDE DEF from
    <3> QED BY <3>1, <3>2, <1>2, SMT
  <2>9. starts'[recvNonce' + 1] = to
    <3>1. recvNonce' + 1 = recvNonce + 2
      BY <2>1, <2>5, SMT
    <3> QED BY <3>1, <1>2
  <2>10. ReaderInv'
    <3>1. plain' = [i \in 1..Len(plain') |-> to - Len(plain') + i]
      <4> HIDE DEF from, to
      <4>1. to - Len(plain') = from
        BY <2>6, <2>7, SMT
      <4> QED BY <4>1, <2>7
    <3>2. Len(out) + (Len(plain') - readOff') = to
      <4> HIDE DEF from, to
      <4>1. from + ((to - from) - 0) = to
        BY <2>6, SMT
      <4> QED BY <4>1, <2>1, <2>7, <2>8
    <3>3. out' = out
      BY <1>2
    <3> HIDE DEF to
    <3> QED BY <3>1, <3>2, <3>3, <2>1, <2>9, <1>1 DEF ReaderInv
  <2>11. TypeOK'
    <3>1. readOff' \in 0..Len(plain') /\ target' \in 0..MaxFrame
      <4> HIDE DEF from, to
      <4> QED BY <2>1, <2>6, <2>7, SMT DEF MaxFrame, LenPrefix
    <3>2. haveLen' \in BOOLEAN
      BY <2>1
    <3> QED BY <3>1, <3>2, <2>1, <2>2, <2>4, <2>5, <1>1, <1>2, Zenon
        DEF TypeOK, writer, network
  <2>12. StartsInv' /\ BytesInv'
    BY <2>4, <1>1, <1>2, <1>3 DEF StartsInv, BytesInv, writer, network
  <2> QED BY <2>10, <2>11, <2>12 DEF StreamInv
<1>5. CASE ~Decrypts(body, recvNonce)
  <2>1. rstate' = "failed" /\ UNCHANGED <<raw, plain, readOff, target, haveLen, recvNonce>>
    BY <1>5 DEF OpenFrame
  <2>2. rstate' \in {"open", "ended", "failed"}
    BY <2>1
  <2>3. TypeOK'
    BY <2>1, <2>2, <1>1, <1>2, Zenon DEF TypeOK, writer, network
  <2>4. StartsInv' /\ BytesInv' /\ ReaderInv'
    BY <2>1, <1>1, <1>2, <1>3 DEF StartsInv, BytesInv, ReaderInv, writer, network
  <2> QED BY <2>3, <2>4 DEF StreamInv
<1> QED BY <1>4, <1>5

----------------------------------------------------------------------------
\* The connection and the ends of processes.
LEMMA GarbleStep ==
    ASSUME StreamInv, NEW i \in DOMAIN wire, NEW len \in 0..(MaxFrame + 1), Garble(i, len)
    PROVE  StreamInv'
<1> USE StreamAssumption
<1>1. TypeOK /\ StartsInv /\ BytesInv
  BY DEF StreamInv
<1>2. /\ garbled < MaxGarbled /\ garbled' = garbled + 1
      /\ wire' = [wire EXCEPT ![i] = Garbled(len)]
      /\ UNCHANGED <<writer, fin, broken, reader, starts>>
  BY DEF Garble
<1>3. wire \in Seq(WireBytes) /\ wire \in Seq(GenuineBytes) /\ Len(wire) <= WireCap
  BY <1>1 DEF TypeOK, BytesInv
<1>4. i \in 1..Len(wire)
  BY <1>3, LenProperties
<1>5. Garbled(len) \in WireBytes
  BY DEF WireBytes
<1>6. Garbled(len) \in GenuineBytes
  <2>1. Garbled(len).nonce = NoNonce
    BY DEF Garbled
  <2> QED BY <2>1, <1>5 DEF GenuineBytes
<1>7. /\ wire' \in Seq(WireBytes) /\ wire' \in Seq(GenuineBytes)
      /\ Len(wire') = Len(wire)
  BY <1>2, <1>3, <1>4, <1>5, <1>6, ExceptSeq
<1>8. garbled' \in 0..MaxGarbled
  <2>1. garbled \in 0..MaxGarbled
    BY <1>1 DEF TypeOK
  <2> QED BY <2>1, <1>2, SMT
<1>9. TypeOK'
  BY <1>1, <1>2, <1>3, <1>7, <1>8, Zenon DEF TypeOK, writer, reader
<1>10. GenuineBytes' = GenuineBytes
  BY <1>2, GenuineKept DEF writer
<1>11. StartsInv' /\ BytesInv'
  BY <1>1, <1>2, <1>7, <1>10 DEF StartsInv, BytesInv, writer, reader
<1>12. ReaderInv'
  BY <1>2, ReaderKept
<1> QED BY <1>9, <1>11, <1>12 DEF StreamInv

LEMMA DieStep == StreamInv /\ Die => StreamInv'
<1> SUFFICES ASSUME StreamInv, Die PROVE StreamInv'
  OBVIOUS
<1>1. TypeOK /\ StartsInv /\ BytesInv
  BY DEF StreamInv
<1>2. /\ wstate \in {"open", "closing"} /\ wstate' = "dead" /\ fin' = TRUE
      /\ UNCHANGED <<written, sendNonce, pending, off, wire, broken, garbled, reader, starts>>
  BY DEF Die
<1>3. wstate # "failed" /\ wstate' \in {"open", "closing", "closed", "failed", "dead"}
      /\ fin' \in BOOLEAN
  BY <1>2
<1>4. TypeOK'
  BY <1>1, <1>2, <1>3, Zenon DEF TypeOK, reader
<1>5. GenuineBytes' = GenuineBytes
  BY <1>2, GenuineKept
<1>6. StartsInv' /\ BytesInv'
  BY <1>1, <1>2, <1>3, <1>5 DEF StartsInv, BytesInv, reader
<1>7. ReaderInv'
  BY <1>2, ReaderKept
<1> QED BY <1>4, <1>6, <1>7 DEF StreamInv

LEMMA ResetStep == StreamInv /\ Reset => StreamInv'
<1> SUFFICES ASSUME StreamInv, Reset PROVE StreamInv'
  OBVIOUS
<1>1. TypeOK /\ StartsInv /\ BytesInv
  BY DEF StreamInv
<1>2. broken' = TRUE /\ UNCHANGED <<writer, fin, garbled, reader, starts>>
  BY DEF Reset
<1>3. PICK m \in 0..Len(wire) : wire' = Take(wire, m)
  BY DEF Reset
<1>4. wire \in Seq(WireBytes) /\ wire \in Seq(GenuineBytes) /\ Len(wire) <= WireCap
  BY <1>1 DEF TypeOK, BytesInv
<1>5. wire' \in Seq(WireBytes) /\ wire' \in Seq(GenuineBytes) /\ Len(wire') = m
  BY <1>3, <1>4, TakeDropType
<1>6. Len(wire') <= WireCap /\ broken' \in BOOLEAN
  <2>1. Len(wire) \in Nat
    BY <1>4, LenProperties
  <2> QED BY <2>1, <1>2, <1>4, <1>5, StreamAssumption, SMT
<1>7. TypeOK'
  BY <1>1, <1>2, <1>5, <1>6, Zenon DEF TypeOK, writer, reader
<1>8. GenuineBytes' = GenuineBytes
  BY <1>2, GenuineKept DEF writer
<1>9. StartsInv' /\ BytesInv'
  BY <1>1, <1>2, <1>5, <1>8 DEF StartsInv, BytesInv, writer, reader
<1>10. ReaderInv'
  BY <1>2, ReaderKept
<1> QED BY <1>7, <1>9, <1>10 DEF StreamInv

LEMMA StreamStep == StreamInv /\ [Next]_vars => StreamInv'
<1> SUFFICES ASSUME StreamInv, [Next]_vars PROVE StreamInv'
  OBVIOUS
<1>1. CASE UNCHANGED vars
  <2>1. UNCHANGED <<writer, network, reader, starts>>
    BY <1>1 DEF vars
  <2>2. GenuineBytes' = GenuineBytes
    BY <2>1, GenuineKept DEF writer
  <2>3. TypeOK'
    BY <2>1, Zenon DEF StreamInv, TypeOK, writer, network, reader
  <2>4. StartsInv' /\ BytesInv'
    BY <2>1, <2>2 DEF StreamInv, StartsInv, BytesInv, writer, network, reader
  <2>5. ReaderInv'
    BY <2>1, ReaderKept
  <2> QED BY <2>3, <2>4, <2>5 DEF StreamInv
<1>2. ASSUME NEW len \in 1..MaxBuf, Write(len) PROVE StreamInv'
  BY <1>2, WriteStep
<1>3. ASSUME NEW n \in 1..MaxBuf, Deliver(n) PROVE StreamInv'
  BY <1>3, DeliverStep
<1>4. ASSUME NEW i \in DOMAIN wire, NEW len \in 0..(MaxFrame + 1), Garble(i, len)
      PROVE StreamInv'
  BY <1>4, GarbleStep
<1> QED
  BY <1>1, <1>2, <1>3, <1>4, FlushStep, ShutdownStep, WriteFailsStep, FillStep,
     FillEndsStep, TakeLengthStep, OpenFrameStep, DieStep, ResetStep DEF Next

LEMMA StreamInvariant == Spec => []StreamInv
  BY InitStream, StreamStep, PTL DEF Spec

\* Every variable of the stream keeps its type.
THEOREM TypeCorrect == Spec => []TypeOK
<1>1. StreamInv => TypeOK
  BY DEF StreamInv
<1> QED BY <1>1, StreamInvariant, PTL

\* A clean end finds no frame begun, apart from one byte of its length: what was
\* read of a frame, altered or cut off, makes the stream fail instead.
THEOREM CleanEnds == Spec => []EndsBetweenFrames
<1>1. Init => EndsBetweenFrames
  BY DEF Init, EndsBetweenFrames
<1>2. EndsBetweenFrames /\ [Next]_vars => EndsBetweenFrames'
  <2> SUFFICES ASSUME EndsBetweenFrames, [Next]_vars PROVE EndsBetweenFrames'
    OBVIOUS
  <2>1. CASE UNCHANGED reader
    BY <2>1 DEF EndsBetweenFrames, reader
  <2>2. CASE FillEnds
    <3>1. /\ readOff = Len(plain) /\ Len(raw) < Needed
          /\ rstate' = (IF broken \/ haveLen THEN "failed" ELSE "ended")
          /\ UNCHANGED <<raw, plain, readOff, haveLen>>
      BY <2>2 DEF FillEnds, Filling
    <3>2. rstate' = "ended" => ~haveLen
      BY <3>1
    <3>3. ~haveLen => Len(raw) < LenPrefix
      BY <3>1 DEF Needed
    <3> QED BY <3>1, <3>2, <3>3 DEF EndsBetweenFrames
  <2>3. CASE rstate' = "open" \/ rstate' = "failed"
    BY <2>3 DEF EndsBetweenFrames
  <2>4. ASSUME NEW n \in 1..MaxBuf, Deliver(n) PROVE rstate' = "open"
    BY <2>4 DEF Deliver
  <2>5. Fill => rstate' = "open"
    BY DEF Fill, Filling
  <2>6. TakeLength => rstate' = "open" \/ rstate' = "failed"
    BY DEF TakeLength
  <2>7. OpenFrame => rstate' = "open" \/ rstate' = "failed"
    BY DEF OpenFrame
  <2>8. ASSUME NEW len \in 1..MaxBuf, Write(len) PROVE UNCHANGED reader
    BY <2>8 DEF Write
  <2>9. Flush \/ Shutdown \/ WriteFails \/ Die \/ Reset => UNCHANGED reader
    BY DEF Flush, Shutdown, WriteFails, Die, Reset
  <2>10. ASSUME NEW i \in DOMAIN wire, NEW len \in 0..(MaxFrame + 1), Garble(i, len)
         PROVE  UNCHANGED reader
    BY <2>10 DEF Garble
  <2>11. UNCHANGED vars => UNCHANGED reader
    BY DEF vars
  <2> QED
    BY <2>1, <2>2, <2>3, <2>4, <2>5, <2>6, <2>7, <2>8, <2>9, <2>10, <2>11 DEF Next
<1> QED BY <1>1, <1>2, PTL DEF Spec

----------------------------------------------------------------------------
\* A call of poll_write puts the bytes it accepts into the stream.
LEMMA WritePuts ==
    ASSUME StreamInv, NEW len \in 1..MaxBuf, Write(len)
    PROVE  Fifo!Put
<1> USE StreamAssumption
<1> DEFINE n == IF len <= MaxPlain THEN len ELSE MaxPlain
           sent == [i \in 1..written |-> i]
           more == [i \in 1..(written + n) |-> i]
<1>1. /\ written + len <= MaxBytes /\ written' = written + n
      /\ out' = out /\ rstate' = rstate
  BY DEF Write, reader
<1>2. written \in 0..MaxBytes
  BY DEF StreamInv, TypeOK
<1>3. n \in 1..MaxPlain /\ n <= len
  BY SMT
<1> HIDE DEF n
<1>4. written + n \in 0..MaxBytes /\ written \in Nat /\ written + n > written
  BY <1>1, <1>2, <1>3, SMT
<1>5. /\ sent \in Seq(1..MaxBytes) /\ Len(sent) = written
      /\ more \in Seq(1..MaxBytes) /\ Len(more) = written + n
  <2>1. sent \in [1..written -> 1..MaxBytes] /\ more \in [1..(written + n) -> 1..MaxBytes]
    BY <1>2, <1>4, SMT
  <2>2. sent \in Seq(1..MaxBytes) /\ more \in Seq(1..MaxBytes)
    BY <2>1, <1>4, SeqDef
  <2> QED BY <2>2, <1>4, SMT
<1>6. SubSeq(more, 1, Len(sent)) = sent
  <2>1. \A i \in 1..written : more[i] \in 1..MaxBytes /\ more[i] = i
    BY <1>2, <1>4, SMT
  <2> DEFINE front == SubSeq(more, 1, written)
  <2>2. /\ front \in Seq(1..MaxBytes)
        /\ Len(front) = IF 1 <= written THEN written - 1 + 1 ELSE 0
        /\ \A i \in 1..(written - 1 + 1) : front[i] = more[1 + i - 1]
    <3> HIDE DEF more
    <3> QED BY <2>1, <1>4, SubSeqProperties
  <2>3. Len(front) = written /\ written - 1 + 1 = written
    BY <2>2, <1>4, SMT
  <2>4. \A i \in 1..written : front[i] = sent[i]
    <3> TAKE i \in 1..written
    <3>1. 1 + i - 1 = i
      BY <1>4, SMT
    <3> QED BY <3>1, <2>1, <2>2, <2>3
  <2> HIDE DEF front, sent
  <2>5. front = sent
    BY <2>2, <2>3, <2>4, <1>5, SeqEqual
  <2> QED BY <2>5, <1>5 DEF front
<1>7. [i \in 1..written' |-> i] = more
  BY <1>1
<1>8. Len(more) > Len(sent)
  BY <1>4, <1>5
<1> QED BY <1>1, <1>5, <1>6, <1>7, <1>8 DEF Fifo!Put

\* A call of poll_read that returns bytes gets the next ones.
LEMMA DeliverGets ==
    ASSUME StreamInv, NEW n \in 1..MaxBuf, Deliver(n)
    PROVE  Fifo!Get
<1> USE StreamAssumption
<1> DEFINE sent == [i \in 1..written |-> i]
<1>1. rstate = "open" /\ rstate' = rstate /\ written' = written
  BY DEF Deliver, writer
<1>2. StreamInv'
  BY DeliverStep
<1>3. /\ out' = [i \in 1..Len(out') |-> i] /\ out' \in Seq(1..MaxBytes)
      /\ Len(out') + (Len(plain') - readOff') = starts'[recvNonce' + 1]
  BY <1>2 DEF StreamInv, ReaderInv, TypeOK
<1>4. /\ plain' = plain /\ recvNonce' = recvNonce /\ starts' = starts
      /\ readOff' = readOff + n /\ readOff + n <= Len(plain)
      /\ out' = out \o SubSeq(plain, readOff + 1, readOff + n)
  BY DEF Deliver
<1>5. /\ plain \in Seq(1..MaxBytes) /\ Len(plain) \in Nat /\ readOff \in Nat
      /\ out \in Seq(1..MaxBytes) /\ Len(out) \in Nat
      /\ Len(out) + (Len(plain) - readOff) = starts[recvNonce + 1]
      /\ starts[recvNonce + 1] <= written
      /\ written \in Nat /\ starts[recvNonce + 1] \in Int
  <2>1. PICK k \in 0..MaxPlain : plain \in [1..k -> 1..MaxBytes]
    BY DEF StreamInv, TypeOK, Chunks
  <2>2. plain \in Seq(1..MaxBytes)
    BY <2>1, SeqDef, SMT
  <2>3. /\ out \in Seq(1..MaxBytes) /\ readOff \in 0..Len(plain) /\ written \in 0..MaxBytes
        /\ starts \in Seq(0..MaxBytes) /\ Len(starts) = sendNonce + 1
        /\ recvNonce \in 0..sendNonce /\ sendNonce \in Nat
    BY DEF StreamInv, TypeOK
  <2>4. recvNonce + 1 \in 1..(sendNonce + 1)
    BY <2>3, SMT
  <2>5. starts[recvNonce + 1] \in 0..MaxBytes
    BY <2>3, <2>4, ElementOfSeq
  <2>6. /\ starts[recvNonce + 1] <= written
        /\ Len(out) + (Len(plain) - readOff) = starts[recvNonce + 1]
    BY <2>4 DEF StreamInv, StartsInv, ReaderInv
  <2>7. Len(plain) \in Nat /\ Len(out) \in Nat
    BY <2>2, <2>3, LenProperties
  <2>8. readOff \in Nat /\ written \in Nat /\ starts[recvNonce + 1] \in Int
    BY <2>3, <2>5, SMT
  <2> QED BY <2>2, <2>3, <2>6, <2>7, <2>8
<1> DEFINE base == starts[recvNonce + 1]
<1>6. Len(out') \in Nat
  BY <1>3, LenProperties
<1>7. Len(out') = Len(out) + n /\ Len(out') <= written
  <2>1. Len(out') + (Len(plain) - (readOff + n)) = base
    BY <1>3, <1>4
  <2>2. Len(out) + (Len(plain) - readOff) = base /\ base <= written /\ base \in Int
    BY <1>5
  <2>3. n \in Int
    BY SMT
  <2> HIDE DEF base
  <2> QED BY <2>1, <2>2, <2>3, <1>4, <1>5, <1>6, SMT
<1>8. sent \in Seq(1..MaxBytes) /\ Len(sent) = written
  <2>1. written \in 0..MaxBytes
    BY DEF StreamInv, TypeOK
  <2>2. sent \in [1..written -> 1..MaxBytes]
    BY <2>1, SMT
  <2>3. sent \in Seq(1..MaxBytes)
    BY <2>2, <1>5, SeqDef
  <2> QED BY <2>3, <1>5, SMT
<1>9. SubSeq(sent, 1, Len(out')) = out'
  <2> DEFINE m == Len(out')
             front == SubSeq(sent, 1, m)
  <2>1. \A i \in 1..m : sent[i] \in 1..MaxBytes /\ sent[i] = i
    <3> TAKE i \in 1..m
    <3>1. i \in 1..written
      BY <1>5, <1>6, <1>7, SMT
    <3> QED BY <3>1, <1>8, ElementOfSeq
  <2>2. m \in Int
    BY <1>6, SMT
  <2> HIDE DEF m, sent
  <2>3. /\ front \in Seq(1..MaxBytes)
        /\ Len(front) = IF 1 <= m THEN m - 1 + 1 ELSE 0
        /\ \A i \in 1..(m - 1 + 1) : front[i] = sent[1 + i - 1]
    BY <2>1, <2>2, SubSeqProperties
  <2>4. Len(front) = m /\ m - 1 + 1 = m
    <3>1. m \in Nat
      BY <1>6 DEF m
    <3> QED BY <3>1, <2>3, SMT
  <2>5. \A i \in 1..m : out'[i] = i
    BY <1>3 DEF m
  <2>6. \A i \in 1..m : front[i] = out'[i]
    <3> TAKE i \in 1..m
    <3>1. 1 + i - 1 = i
      BY <2>2, SMT
    <3> QED BY <3>1, <2>1, <2>3, <2>4, <2>5
  <2> HIDE DEF front
  <2>7. front = out'
    BY <2>3, <2>4, <2>6, <1>3, SeqEqual DEF m
  <2> QED BY <2>7 DEF front, m
<1>10. Len(out') \in (Len(out) + 1)..Len(sent)
  <2> HIDE DEF sent
  <2>1. n \in Int /\ n >= 1
    BY SMT
  <2> QED BY <2>1, <1>5, <1>6, <1>7, <1>8, SMT
<1> QED BY <1>1, <1>9, <1>10 DEF Fifo!Get

\* The stream is a FIFO of bytes: whatever pieces frames are written and read
\* in, and whatever is altered, cut off or reset on the way, what poll_read
\* hands out is a prefix of what poll_write accepted, and nothing follows an
\* end or an error.
THEOREM StreamRefinesByteFifo == Spec => ImplementsByteFifo
<1>1. Init => Fifo!Init
  <2> SUFFICES ASSUME Init PROVE Fifo!Init
    OBVIOUS
  <2>1. [i \in 1..written |-> i] = <<>>
    BY SMT DEF Init
  <2> QED BY <2>1 DEF Init, Fifo!Init
<1>2. StreamInv /\ [Next]_vars => [Fifo!Next]_(Fifo!vars)
  <2> SUFFICES ASSUME StreamInv, [Next]_vars PROVE [Fifo!Next]_(Fifo!vars)
    OBVIOUS
  <2>1. ASSUME NEW len \in 1..MaxBuf, Write(len) PROVE Fifo!Next
    BY <2>1, WritePuts DEF Fifo!Next
  <2>2. ASSUME NEW n \in 1..MaxBuf, Deliver(n) PROVE Fifo!Next
    BY <2>2, DeliverGets DEF Fifo!Next
  <2>3. CASE UNCHANGED <<written, out, rstate>>
    BY <2>3 DEF Fifo!vars
  <2>4. CASE rstate = "open" /\ rstate' \in {"ended", "failed"} /\ UNCHANGED <<written, out>>
    BY <2>4 DEF Fifo!Next, Fifo!Finish
  <2>5. FillEnds \/ TakeLength \/ OpenFrame =>
          \/ UNCHANGED <<written, out, rstate>>
          \/ rstate = "open" /\ rstate' \in {"ended", "failed"} /\ UNCHANGED <<written, out>>
    BY DEF FillEnds, Filling, TakeLength, OpenFrame, writer
  <2>6. Flush \/ Shutdown \/ WriteFails \/ Fill \/ Die \/ Reset
          => UNCHANGED <<written, out, rstate>>
    BY DEF Flush, Shutdown, WriteFails, Fill, Die, Reset, writer, reader
  <2>7. ASSUME NEW i \in DOMAIN wire, NEW len \in 0..(MaxFrame + 1), Garble(i, len)
        PROVE  UNCHANGED <<written, out, rstate>>
    BY <2>7 DEF Garble, writer, reader
  <2>8. UNCHANGED vars => UNCHANGED <<written, out, rstate>>
    BY DEF vars, writer, reader
  <2> QED BY <2>1, <2>2, <2>3, <2>4, <2>5, <2>6, <2>7, <2>8 DEF Next
<1> QED BY <1>1, <1>2, StreamInvariant, PTL DEF Spec, Fifo!Spec, ImplementsByteFifo

----------------------------------------------------------------------------
(* Nothing is missing at the end.  As long as the connection holds, the     *)
(* bytes on their way are, by their number, those of the frames encrypted  *)
(* and not decrypted; altered bytes count as any other.                    *)

\* The bytes of the frames before frame n.
Place(n) == starts[n + 1] + n * (LenPrefix + TagLen)

LengthInv ==
    /\ ~broken => Place(recvNonce) + (Len(raw) + Len(wire) + Len(Unsent)) = Place(sendNonce)
    /\ wstate = "failed" => broken
    /\ wstate = "closed" => Len(Unsent) = 0
    /\ fin => wstate \in {"closed", "dead"}
    /\ rstate = "ended" => fin

LEMMA Counts ==
    ASSUME StreamInv
    PROVE  /\ pending \in Seq(WireBytes) /\ wire \in Seq(WireBytes) /\ raw \in Seq(WireBytes)
           /\ off \in 0..Len(pending)
           /\ Len(pending) \in Nat /\ Len(wire) \in Nat /\ Len(raw) \in Nat
           /\ Unsent \in Seq(WireBytes) /\ Len(Unsent) = Len(pending) - off
           /\ Len(Unsent) \in Nat
           /\ Len(starts) = sendNonce + 1 /\ sendNonce \in Nat /\ recvNonce \in 0..sendNonce
           /\ \A k \in 1..(sendNonce + 1) : starts[k] \in Nat
           /\ LenPrefix + TagLen \in Nat
<1>1. /\ pending \in Seq(WireBytes) /\ wire \in Seq(WireBytes) /\ raw \in Seq(WireBytes)
      /\ off \in 0..Len(pending)
      /\ starts \in Seq(0..MaxBytes) /\ Len(starts) = sendNonce + 1
      /\ sendNonce \in Nat /\ recvNonce \in 0..sendNonce
  BY DEF StreamInv, TypeOK
<1>2. Unsent \in Seq(WireBytes) /\ Len(Unsent) = Len(pending) - off
  BY <1>1, UnsentType
<1>3. Len(pending) \in Nat /\ Len(wire) \in Nat /\ Len(raw) \in Nat /\ Len(Unsent) \in Nat
  BY <1>1, <1>2, LenProperties
<1>4. \A k \in 1..(sendNonce + 1) : starts[k] \in Nat
  <2>1. \A k \in 1..(sendNonce + 1) : starts[k] \in 0..MaxBytes
    BY <1>1, ElementOfSeq
  <2> QED BY <2>1, SMT
<1>5. LenPrefix + TagLen \in Nat
  BY StreamAssumption, SMT DEF LenPrefix
<1> QED BY <1>1, <1>2, <1>3, <1>4, <1>5

LEMMA NextMultiple == \A n, k \in Nat : (n + 1) * k = n * k + k /\ n * k \in Nat
  BY SMT

LEMMA PlaceType ==
    ASSUME StreamInv, NEW n \in 0..sendNonce
    PROVE  Place(n) \in Nat
<1> DEFINE K == LenPrefix + TagLen
<1>1. sendNonce \in Nat
  BY Counts
<1>2. n \in Nat /\ n + 1 \in 1..(sendNonce + 1)
  BY <1>1, SMT
<1>3. K \in Nat /\ starts[n + 1] \in Nat
  BY <1>2, Counts
<1>4. n * K \in Nat
  BY <1>2, <1>3, NextMultiple
<1> HIDE DEF K
<1>5. starts[n + 1] + n * K \in Nat
  BY <1>3, <1>4, SMT
<1> QED BY <1>5 DEF Place, K

\* Bytes that move from the writer to the connection.
LEMMA FlushMoves ==
    ASSUME StreamInv, NEW m \in 0..Len(Unsent), Send(Take(Unsent, m)), Flushed(m)
    PROVE  /\ Len(wire') = Len(wire) + m
           /\ Len(Unsent') = Len(Unsent) - m
           /\ ~broken
<1>1. /\ wire \in Seq(WireBytes) /\ Unsent \in Seq(WireBytes) /\ pending \in Seq(WireBytes)
      /\ Len(Unsent) = Len(pending) - off /\ Len(Unsent) \in Nat /\ off \in 0..Len(pending)
      /\ Len(pending) \in Nat
  BY Counts
<1>2. Take(Unsent, m) \in Seq(WireBytes) /\ Len(Take(Unsent, m)) = m
  BY <1>1, TakeDropType
<1>3. wire' = wire \o Take(Unsent, m) /\ ~broken
  BY DEF Send
<1>4. Len(wire') = Len(wire) + m
  BY <1>1, <1>2, <1>3, ConcatProperties
<1>5. Len(Unsent') = Len(Unsent) - m
  <2>1. CASE m = Len(Unsent)
    <3>1. pending' = <<>> /\ off' = 0
      BY <2>1 DEF Flushed
    <3>2. Unsent' = SubSeq(<<>>, 1, 0)
      BY <3>1, SMT DEF Unsent
    <3>3. Unsent' = <<>>
      BY <3>2, SMT
    <3> QED BY <1>1, <2>1, <3>3, SMT
  <2>2. CASE m # Len(Unsent)
    <3>1. pending' = pending /\ off' = off + m
      BY <2>2 DEF Flushed
    <3>2. off + m \in 0..Len(pending)
      BY <1>1, SMT
    <3>3. Unsent' = Drop(pending, off + m)
      BY <3>1 DEF Unsent, Drop
    <3>4. Len(Unsent') = Len(pending) - (off + m)
      BY <1>1, <3>2, <3>3, TakeDropType
    <3> QED BY <1>1, <3>4, SMT
  <2> QED BY <2>1, <2>2
<1> QED BY <1>3, <1>4, <1>5

\* A frame that decrypts has the length its plaintext gives it.
LEMMA OpenedLength ==
    ASSUME StreamInv, haveLen, Len(raw) >= target,
           Decrypts(SubSeq(raw, LenPrefix + 1, target), recvNonce)
    PROVE  target = LenPrefix + Len(Chunk(recvNonce)) + TagLen
<1> USE StreamAssumption
<1> DEFINE body == SubSeq(raw, LenPrefix + 1, target)
           chunk == body[1].plain
           last == LenPrefix + Len(chunk) + TagLen
           frame == Frame(recvNonce, chunk)
<1>1. /\ raw \in Seq(WireBytes) /\ target \in 0..MaxFrame
      /\ target >= LenPrefix + TagLen /\ recvNonce \in Nat
  <2>1. raw \in Seq(WireBytes) /\ target \in 0..MaxFrame /\ recvNonce \in 0..sendNonce
        /\ sendNonce \in Nat /\ target >= LenPrefix + TagLen
    BY DEF StreamInv, TypeOK, ReaderInv
  <2> QED BY <2>1, SMT
<1>2. Len(raw) \in Nat
  BY <1>1, LenProperties
<1>3. Len(body) = target - LenPrefix
  <2>1. target \in 0..Len(raw) /\ LenPrefix \in 0..Len(raw)
    BY <1>1, <1>2, SMT DEF LenPrefix, MaxFrame
  <2>2. \A i \in (LenPrefix + 1)..target : raw[i] \in WireBytes
    <3> TAKE i \in (LenPrefix + 1)..target
    <3>1. i \in 1..Len(raw)
      BY <1>1, <1>2, <2>1, SMT DEF LenPrefix
    <3> QED BY <3>1, <1>1, ElementOfSeq
  <2>3. Len(body) = IF LenPrefix + 1 <= target THEN target - (LenPrefix + 1) + 1 ELSE 0
    <3>1. LenPrefix + 1 \in Int /\ target \in Int
      BY <1>1, SMT DEF LenPrefix
    <3> QED BY <3>1, <2>2, SubSeqProperties
  <2> HIDE DEF body
  <2> QED BY <1>1, <2>3, SMT DEF LenPrefix
<1>4. chunk = Chunk(recvNonce) /\ chunk \in Chunks
  BY OpenedChunk
<1>5. /\ Len(chunk) \in 0..MaxPlain /\ frame \in Seq(FrameBytes) /\ Len(frame) = last
  <2> HIDE DEF chunk
  <2> QED BY <1>1, <1>4, FrameType
<1>6. Len(SubSeq(frame, LenPrefix + 1, last)) = last - LenPrefix
  <2>1. last \in Nat /\ LenPrefix + 1 <= last
    <3> HIDE DEF chunk
    <3> QED BY <1>5, SMT DEF LenPrefix
  <2> HIDE DEF frame, last
  <2>2. \A i \in (LenPrefix + 1)..last : frame[i] \in FrameBytes
    <3> TAKE i \in (LenPrefix + 1)..last
    <3>1. i \in 1..Len(frame)
      BY <1>5, <2>1, SMT DEF LenPrefix
    <3> QED BY <3>1, <1>5, ElementOfSeq
  <2>3. Len(SubSeq(frame, LenPrefix + 1, last)) =
          IF LenPrefix + 1 <= last THEN last - (LenPrefix + 1) + 1 ELSE 0
    <3>1. LenPrefix + 1 \in Int /\ last \in Int
      BY <2>1, SMT DEF LenPrefix
    <3> QED BY <3>1, <2>2, SubSeqProperties
  <2> QED BY <2>1, <2>3, SMT DEF LenPrefix
<1>7. body = SubSeq(frame, LenPrefix + 1, last)
  BY DEF Decrypts
<1>8. target - LenPrefix = last - LenPrefix
  BY <1>3, <1>6, <1>7
<1>9. Len(chunk) = Len(Chunk(recvNonce))
  BY <1>4
<1> HIDE DEF chunk
<1> QED BY <1>1, <1>5, <1>8, <1>9, SMT DEF LenPrefix

LEMMA InitLength == Init => LengthInv
<1> SUFFICES ASSUME Init PROVE LengthInv
  OBVIOUS
<1>1. Unsent = <<>>
  <2>1. Unsent = SubSeq(<<>>, 1, 0)
    BY SMT DEF Init, Unsent
  <2> QED BY <2>1, SMT
<1>2. Len(raw) = 0 /\ Len(wire) = 0 /\ Len(Unsent) = 0
  BY <1>1, SMT DEF Init
<1>3. sendNonce = 0 /\ recvNonce = 0 /\ starts[1] = 0
  BY SMT DEF Init
<1>4. Place(recvNonce) = Place(sendNonce) /\ Place(sendNonce) = 0
  BY <1>3, StreamAssumption, SMT DEF Place, LenPrefix
<1> QED BY <1>2, <1>4, SMT DEF LengthInv, Init

\* poll_write puts one frame into the count.
LEMMA WriteLength ==
    ASSUME StreamInv, LengthInv, NEW len \in 1..MaxBuf, Write(len)
    PROVE  LengthInv'
<1> USE StreamAssumption
<1> DEFINE n == IF len <= MaxPlain THEN len ELSE MaxPlain
           frame == Frame(sendNonce, NextBytes(n))
           K == LenPrefix + TagLen
<1>1. /\ wstate = "open" /\ wstate' = wstate /\ written + len <= MaxBytes
      /\ sendNonce' = sendNonce + 1 /\ written' = written + n
      /\ starts' = Append(starts, written + n)
      /\ UNCHANGED <<fin, broken, garbled, reader>>
  BY DEF Write
<1>2. PICK m \in 0..Len(frame) :
        /\ Send(Unsent \o Take(frame, m))
        /\ pending' = IF m = Len(frame) THEN <<>> ELSE frame
        /\ off' = IF m = Len(frame) THEN 0 ELSE m
  BY DEF Write
<1>3. n \in 0..MaxPlain /\ n <= len
  BY SMT
<1>4. written \in 0..MaxBytes /\ sendNonce \in Nat
  BY DEF StreamInv, TypeOK
<1> HIDE DEF n
<1>5. written + n <= MaxBytes /\ n \in Nat /\ written \in Nat
  BY <1>1, <1>3, <1>4, SMT
<1>6. NextBytes(n) \in Chunks /\ Len(NextBytes(n)) = n
  BY <1>3, <1>4, <1>5, NextBytesType
<1>7. frame \in Seq(FrameBytes) /\ Len(frame) = n + K
  <2>1. frame \in Seq(FrameBytes) /\ Len(frame) = LenPrefix + n + TagLen
    BY <1>4, <1>6, FrameType
  <2> QED BY <2>1, <1>5, SMT DEF LenPrefix
<1>8. frame \in Seq(WireBytes)
  BY <1>7, GenuineAreBytes, SeqMonotonic
<1>9. /\ \A k \in 1..(sendNonce + 1) : starts'[k] = starts[k]
      /\ starts'[sendNonce' + 1] = written + n
  BY <1>1, <1>3, <1>5, GenuineGrows
<1> HIDE DEF frame
<1>10. Len(wire') = Len(wire) + (Len(Unsent) + m) /\ ~broken
  <2>1. Take(frame, m) \in Seq(WireBytes) /\ Len(Take(frame, m)) = m
    BY <1>8, TakeDropType
  <2>2. wire \in Seq(WireBytes) /\ Unsent \in Seq(WireBytes)
    BY Counts
  <2>3. /\ Unsent \o Take(frame, m) \in Seq(WireBytes)
        /\ Len(Unsent \o Take(frame, m)) = Len(Unsent) + m
    BY <2>1, <2>2, ConcatProperties
  <2>4. wire' = wire \o (Unsent \o Take(frame, m)) /\ ~broken
    BY <1>2 DEF Send
  <2> QED BY <2>2, <2>3, <2>4, ConcatProperties
<1>11. Len(Unsent') = Len(frame) - m
  <2>1. CASE m = Len(frame)
    <3>1. pending' = <<>> /\ off' = 0
      BY <2>1, <1>2
    <3>2. Unsent' = SubSeq(<<>>, 1, 0)
      BY <3>1, SMT DEF Unsent
    <3>3. Unsent' = <<>>
      BY <3>2, SMT
    <3>4. Len(frame) \in Nat
      BY <1>8, LenProperties
    <3> QED BY <2>1, <3>3, <3>4, SMT
  <2>2. CASE m # Len(frame)
    <3>1. Unsent' = Drop(frame, m)
      BY <2>2, <1>2 DEF Unsent, Drop
    <3> QED BY <3>1, <1>8, TakeDropType
  <2> QED BY <2>1, <2>2
<1>12. Place(recvNonce)' = Place(recvNonce)
  <2>1. recvNonce' = recvNonce
    BY <1>1 DEF reader
  <2>2. recvNonce \in 0..sendNonce
    BY Counts
  <2>3. recvNonce + 1 \in 1..(sendNonce + 1)
    BY <1>4, <2>2, SMT
  <2> QED BY <2>1, <2>3, <1>9 DEF Place
<1>13. Place(sendNonce)' = Place(sendNonce) + (n + K)
  <2>1. Place(sendNonce) = written + sendNonce * K
    BY DEF Place, StreamInv, StartsInv
  <2>2. Place(sendNonce)' = (written + n) + (sendNonce + 1) * K
    <3>1. Place(sendNonce)' = starts'[sendNonce' + 1] + sendNonce' * K
      BY DEF Place
    <3> QED BY <3>1, <1>1, <1>9
  <2>3. K \in Nat
    BY Counts
  <2> HIDE DEF K
  <2>4. (sendNonce + 1) * K = sendNonce * K + K /\ sendNonce * K \in Nat
    BY <1>4, <2>3, NextMultiple
  <2> QED BY <1>5, <2>1, <2>2, <2>3, <2>4, SMT
<1>14. Place(recvNonce)' + (Len(raw') + Len(wire') + Len(Unsent')) = Place(sendNonce)'
  <2>1. Place(recvNonce) + (Len(raw) + Len(wire) + Len(Unsent)) = Place(sendNonce)
    BY <1>10 DEF LengthInv
  <2>2. raw' = raw
    BY <1>1 DEF reader
  <2>3. /\ Len(raw) \in Nat /\ Len(wire) \in Nat /\ Len(Unsent) \in Nat
        /\ K \in Nat /\ Place(recvNonce) \in Nat
    BY Counts, PlaceType
  <2> DEFINE pr == Place(recvNonce)
             ps == Place(sendNonce)
             pt == Place(sendNonce)'
             lu == Len(Unsent)
             lv == Len(Unsent')
             lf == Len(frame)
  <2>4. /\ pr + (Len(raw) + Len(wire) + lu) = ps
        /\ pt = ps + (n + K) /\ lv = lf - m /\ lf = n + K
        /\ Len(wire') = Len(wire) + (lu + m) /\ m \in 0..lf
        /\ pr \in Nat /\ lu \in Nat
    BY <1>7, <1>10, <1>11, <1>13, <2>1, <2>3 DEF frame
  <2> HIDE DEF pr, ps, pt, lu, lv, lf, K
  <2>5. K \in Nat
    BY <2>3 DEF K
  <2>6. lf \in Nat /\ m \in Nat /\ Len(raw) \in Nat /\ Len(wire) \in Nat
    BY <1>5, <2>3, <2>4, <2>5, SMT
  <2>7. pr + (Len(raw) + (Len(wire) + (lu + m)) + (lf - m))
          = (pr + (Len(raw) + Len(wire) + lu)) + lf
    BY <2>4, <2>6, SMT
  <2>8. pr + (Len(raw) + Len(wire') + lv) = pt
    BY <2>4, <2>7
  <2> QED BY <1>12, <2>2, <2>8 DEF pr, pt, lv
<1>15. rstate' = rstate
  BY <1>1 DEF reader
<1> QED BY <1>1, <1>14, <1>15 DEF LengthInv

\* Bytes that move along the connection keep the count.
LEMMA FlushLength ==
    ASSUME StreamInv, LengthInv, Flush \/ Shutdown
    PROVE  LengthInv'
<1>1. PICK m \in 0..Len(Unsent) :
        /\ Send(Take(Unsent, m)) /\ Flushed(m)
        /\ Shutdown => /\ wstate' = IF m = Len(Unsent) THEN "closed" ELSE "closing"
                       /\ fin' = (m = Len(Unsent))
  <2>1. CASE Shutdown
    BY <2>1 DEF Shutdown
  <2>2. CASE Flush /\ ~Shutdown
    <3>1. PICK m \in 1..Len(Unsent) : Send(Take(Unsent, m)) /\ Flushed(m)
      BY <2>2 DEF Flush
    <3>2. m \in 0..Len(Unsent)
      BY Counts, SMT
    <3> QED BY <2>2, <3>1, <3>2
  <2> QED BY <2>1, <2>2
<1>2. /\ Len(wire') = Len(wire) + m /\ Len(Unsent') = Len(Unsent) - m /\ ~broken
  BY <1>1, FlushMoves
<1>3. /\ UNCHANGED <<sendNonce, broken, reader, starts>>
      /\ wstate \in {"open", "closing"}
  BY DEF Flush, Shutdown
<1>4. recvNonce' = recvNonce /\ raw' = raw /\ rstate' = rstate
  BY <1>3 DEF reader
<1>5. Place(recvNonce)' = Place(recvNonce) /\ Place(sendNonce)' = Place(sendNonce)
  BY <1>3, <1>4 DEF Place
<1>6. Len(wire) \in Nat /\ Len(raw) \in Nat /\ Len(Unsent) \in Nat
  BY Counts
<1>7. Len(raw) + Len(wire') + Len(Unsent') = Len(raw) + Len(wire) + Len(Unsent)
  <2> DEFINE lu == Len(Unsent)
             lv == Len(Unsent')
  <2>1. lv = lu - m /\ lu \in Nat /\ m \in 0..lu
    BY <1>2, <1>6
  <2> HIDE DEF lu, lv
  <2>2. Len(raw) + Len(wire') + lv = Len(raw) + Len(wire) + lu
    BY <1>2, <1>6, <2>1, SMT
  <2> QED BY <2>2 DEF lu, lv
<1>8. Place(recvNonce)' + (Len(raw') + Len(wire') + Len(Unsent')) = Place(sendNonce)'
  BY <1>2, <1>4, <1>5, <1>7 DEF LengthInv
<1>9. ~fin /\ rstate # "ended"
  BY <1>3 DEF LengthInv
<1>10. CASE Shutdown
  <2>1. wstate' = "closed" => Len(Unsent') = 0
    <3>1. wstate' = "closed" => m = Len(Unsent)
      BY <1>1, <1>10
    <3> QED BY <1>2, <1>6, <3>1, SMT
  <2>2. wstate' \in {"closed", "closing"} /\ (fin' => wstate' = "closed")
    BY <1>1, <1>10
  <2> QED BY <1>4, <1>8, <1>9, <2>1, <2>2 DEF LengthInv
<1>11. CASE Flush
  <2>1. wstate' = "open" /\ fin' = fin
    BY <1>11 DEF Flush
  <2> QED BY <1>4, <1>8, <1>9, <2>1 DEF LengthInv
<1> QED BY <1>10, <1>11

\* What breaks the count breaks the connection, and the end of the process
\* leaves what it had not sent in the count.
LEMMA FailLength ==
    ASSUME StreamInv, LengthInv, WriteFails \/ Die \/ Reset
    PROVE  LengthInv'
<1>1. CASE WriteFails
  <2>1. /\ broken' /\ wstate' = "failed" /\ wstate \in {"open", "closing"}
        /\ fin' = fin /\ rstate' = rstate
    BY <1>1 DEF WriteFails, network, reader
  <2> QED BY <2>1 DEF LengthInv
<1>2. CASE Die
  <2>1. /\ fin' = TRUE /\ wstate' = "dead" /\ UNCHANGED <<broken, reader, sendNonce, starts, wire>>
        /\ Unsent' = Unsent
    BY <1>2 DEF Die, Unsent
  <2>2. recvNonce' = recvNonce /\ raw' = raw /\ rstate' = rstate
    BY <2>1 DEF reader
  <2>3. Place(recvNonce)' = Place(recvNonce) /\ Place(sendNonce)' = Place(sendNonce)
    BY <2>1, <2>2 DEF Place
  <2> QED BY <2>1, <2>2, <2>3 DEF LengthInv
<1>3. CASE Reset
  <2>1. /\ broken' = TRUE /\ fin' = fin /\ wstate' = wstate /\ rstate' = rstate
        /\ Unsent' = Unsent
    BY <1>3 DEF Reset, writer, reader, Unsent
  <2> QED BY <2>1 DEF LengthInv
<1> QED BY <1>1, <1>2, <1>3

LEMMA ReadLength ==
    ASSUME StreamInv, LengthInv,
           \/ \E n \in 1..MaxBuf : Deliver(n)
           \/ Fill \/ FillEnds \/ TakeLength
    PROVE  LengthInv'
<1>1. /\ UNCHANGED <<writer, fin, broken, starts, recvNonce>>
  BY DEF Deliver, Fill, FillEnds, TakeLength, network
<1>2. sendNonce' = sendNonce /\ wstate' = wstate /\ Unsent' = Unsent
  BY <1>1 DEF writer, Unsent
<1>3. Place(recvNonce)' = Place(recvNonce) /\ Place(sendNonce)' = Place(sendNonce)
  BY <1>1, <1>2 DEF Place
<1>4. Len(raw') + Len(wire') = Len(raw) + Len(wire)
  <2>1. CASE UNCHANGED <<raw, wire>>
    BY <2>1
  <2>2. CASE Fill
    <3>1. PICK m \in 1..Len(wire) : raw' = raw \o Take(wire, m) /\ wire' = Drop(wire, m)
      BY <2>2 DEF Fill
    <3>2. /\ raw \in Seq(WireBytes) /\ wire \in Seq(WireBytes)
          /\ Len(raw) \in Nat /\ Len(wire) \in Nat
      BY Counts
    <3>3. m \in 0..Len(wire)
      BY <3>2, SMT
    <3>4. /\ Take(wire, m) \in Seq(WireBytes) /\ Len(Take(wire, m)) = m
          /\ Len(wire') = Len(wire) - m
      BY <3>1, <3>2, <3>3, TakeDropType
    <3>5. Len(raw') = Len(raw) + m
      BY <3>1, <3>2, <3>4, ConcatProperties
    <3> QED BY <3>2, <3>3, <3>4, <3>5, SMT
  <2> QED BY <2>1, <2>2 DEF Deliver, FillEnds, TakeLength, network
<1>5. rstate' = "ended" => fin
  <2>1. CASE FillEnds
    BY <2>1 DEF FillEnds
  <2>2. CASE rstate' = rstate \/ rstate' = "failed"
    BY <2>2 DEF LengthInv
  <2> QED BY <2>1, <2>2 DEF Deliver, Fill, TakeLength
<1> QED BY <1>1, <1>2, <1>3, <1>4, <1>5 DEF LengthInv

LEMMA OpenLength ==
    ASSUME StreamInv, LengthInv, OpenFrame
    PROVE  LengthInv'
<1> DEFINE body == SubSeq(raw, LenPrefix + 1, target)
           K == LenPrefix + TagLen
<1>1. /\ haveLen /\ Len(raw) >= target /\ rstate = "open"
      /\ UNCHANGED <<writer, network, starts>>
  BY DEF OpenFrame
<1>2. /\ sendNonce' = sendNonce /\ wstate' = wstate /\ Unsent' = Unsent
      /\ wire' = wire /\ fin' = fin /\ broken' = broken
  BY <1>1 DEF writer, network, Unsent
<1>3. Place(sendNonce)' = Place(sendNonce)
  BY <1>1, <1>2 DEF Place
<1>4. CASE Decrypts(body, recvNonce)
  <2>1. raw' = Drop(raw, target) /\ recvNonce' = recvNonce + 1 /\ rstate' = rstate
    BY <1>4 DEF OpenFrame
  <2>2. target = LenPrefix + Len(Chunk(recvNonce)) + TagLen /\ recvNonce < sendNonce
    BY <1>1, <1>4, OpenedLength, OpenedChunk
  <2> DEFINE from == starts[recvNonce + 1]
             to == starts[recvNonce + 2]
  <2>3. recvNonce \in Nat /\ sendNonce \in Nat /\ recvNonce \in 0..sendNonce
    BY Counts, SMT
  <2>4. from \in Nat /\ to \in Nat /\ from <= to
    <3>1. recvNonce + 1 \in 1..sendNonce /\ recvNonce + 1 \in 1..(sendNonce + 1)
          /\ recvNonce + 2 \in 1..(sendNonce + 1) /\ recvNonce + 1 + 1 = recvNonce + 2
      BY <2>2, <2>3, SMT
    <3> QED BY <3>1, Counts DEF StreamInv, StartsInv
  <2>5. Len(Chunk(recvNonce)) = to - from
    <3>1. Chunk(recvNonce) = [i \in 1..(to - from) |-> from + i]
      BY DEF Chunk
    <3> HIDE DEF from, to
    <3> QED BY <3>1, <2>4, SMT
  <2>6. K \in Nat /\ (recvNonce + 1) * K = recvNonce * K + K /\ recvNonce * K \in Nat
    BY <2>3, Counts, NextMultiple
  <2>7. target = K + (to - from)
    <3> HIDE DEF from, to
    <3> QED BY <2>2, <2>4, <2>5, StreamAssumption, SMT DEF LenPrefix
  <2>8. Place(recvNonce)' = to + (recvNonce + 1) * K /\ Place(recvNonce) = from + recvNonce * K
    <3>1. recvNonce' + 1 = recvNonce + 2
      BY <2>1, <2>3, SMT
    <3> QED BY <1>1, <2>1, <3>1 DEF Place
  <2>9. Place(recvNonce)' = Place(recvNonce) + target
    <3> DEFINE rk == recvNonce * K
    <3>1. rk \in Nat /\ Place(recvNonce)' = to + (rk + K) /\ Place(recvNonce) = from + rk
      BY <2>6, <2>8
    <3> HIDE DEF rk, K, from, to
    <3> QED BY <2>4, <2>6, <2>7, <3>1, SMT
  <2>10. raw \in Seq(WireBytes) /\ Len(raw) \in Nat /\ Len(wire) \in Nat /\ Len(Unsent) \in Nat
    BY Counts
  <2>11. target \in Nat
    <3> HIDE DEF from, to, K
    <3> QED BY <2>4, <2>6, <2>7, SMT
  <2>12. Len(raw') = Len(raw) - target
    <3>1. target \in 0..Len(raw)
      BY <1>1, <2>10, <2>11, SMT
    <3> QED BY <2>1, <2>10, <3>1, TakeDropType
  <2>13. Place(recvNonce) \in Nat
    BY <2>3, PlaceType
  <2>14. Place(recvNonce)' + (Len(raw') + Len(wire) + Len(Unsent))
           = Place(recvNonce) + (Len(raw) + Len(wire) + Len(Unsent))
    <3> DEFINE pr == Place(recvNonce)
               lu == Len(Unsent)
    <3>1. (pr + target) + ((Len(raw) - target) + Len(wire) + lu)
            = pr + (Len(raw) + Len(wire) + lu)
      <4>1. pr \in Nat /\ lu \in Nat
        BY <2>10, <2>13
      <4> HIDE DEF pr, lu
      <4> QED BY <2>10, <2>11, <4>1, SMT
    <3> QED BY <2>9, <2>12, <3>1
  <2> QED BY <1>1, <1>2, <1>3, <2>1, <2>14 DEF LengthInv
<1>5. CASE ~Decrypts(body, recvNonce)
  <2>1. rstate' = "failed" /\ UNCHANGED <<raw, recvNonce>>
    BY <1>5 DEF OpenFrame
  <2>2. Place(recvNonce)' = Place(recvNonce)
    BY <1>1, <2>1 DEF Place
  <2> QED BY <1>2, <1>3, <2>1, <2>2 DEF LengthInv
<1> QED BY <1>4, <1>5

LEMMA GarbleLength ==
    ASSUME StreamInv, LengthInv, NEW i \in DOMAIN wire, NEW len \in 0..(MaxFrame + 1),
           Garble(i, len)
    PROVE  LengthInv'
<1>1. /\ wire' = [wire EXCEPT ![i] = Garbled(len)]
      /\ UNCHANGED <<writer, fin, broken, reader, starts>>
  BY DEF Garble
<1>2. Len(wire') = Len(wire)
  <2>1. wire \in Seq(WireBytes)
    BY Counts
  <2>2. i \in 1..Len(wire) /\ Garbled(len) \in WireBytes
    BY <2>1, LenProperties DEF WireBytes
  <2> QED BY <1>1, <2>1, <2>2, ExceptSeq
<1>3. /\ sendNonce' = sendNonce /\ wstate' = wstate /\ Unsent' = Unsent
      /\ recvNonce' = recvNonce /\ raw' = raw /\ rstate' = rstate
  BY <1>1 DEF writer, reader, Unsent
<1>4. Place(recvNonce)' = Place(recvNonce) /\ Place(sendNonce)' = Place(sendNonce)
  BY <1>1, <1>3 DEF Place
<1> QED BY <1>1, <1>2, <1>3, <1>4 DEF LengthInv

LEMMA LengthStep == StreamInv /\ LengthInv /\ [Next]_vars => LengthInv'
<1> SUFFICES ASSUME StreamInv, LengthInv, [Next]_vars PROVE LengthInv'
  OBVIOUS
<1>1. CASE UNCHANGED vars
  <2>1. UNCHANGED <<writer, network, reader, starts>> /\ Unsent' = Unsent
    BY <1>1 DEF vars, writer, Unsent
  <2>2. Place(recvNonce)' = Place(recvNonce) /\ Place(sendNonce)' = Place(sendNonce)
    BY <2>1 DEF Place, writer, reader
  <2> QED BY <2>1, <2>2 DEF LengthInv, writer, network, reader
<1>2. ASSUME NEW len \in 1..MaxBuf, Write(len) PROVE LengthInv'
  BY <1>2, WriteLength
<1>3. ASSUME NEW i \in DOMAIN wire, NEW len \in 0..(MaxFrame + 1), Garble(i, len)
      PROVE LengthInv'
  BY <1>3, GarbleLength
<1> QED
  BY <1>1, <1>2, <1>3, FlushLength, FailLength, ReadLength, OpenLength DEF Next

LEMMA LengthInvariant == Spec => []LengthInv
  BY InitLength, LengthStep, StreamInvariant, PTL DEF Spec

\* When poll_shutdown has completed, an end of file that poll_read reports means
\* that every byte poll_write accepted was handed out, whatever bytes were
\* altered on the way: no frame is lost whole.
THEOREM EndsComplete == Spec => []EndMeansAll
<1>1. Init => EndMeansAll
  BY DEF Init, EndMeansAll
<1>2. StreamInv /\ LengthInv /\ EndMeansAll /\ [Next]_vars => EndMeansAll'
  <2> SUFFICES ASSUME StreamInv, LengthInv, EndMeansAll, [Next]_vars PROVE EndMeansAll'
    OBVIOUS
  <2>1. CASE FillEnds
    <3> SUFFICES ASSUME rstate' = "ended", wstate' = "closed"
                 PROVE  Len(out') = written'
      BY DEF EndMeansAll
    <3>1. /\ readOff = Len(plain) /\ Len(raw) < Needed /\ wire = <<>> /\ ~broken /\ ~haveLen
          /\ out' = out /\ written' = written /\ wstate' = wstate
      BY <2>1 DEF FillEnds, Filling, writer
    <3>2. Len(raw) < LenPrefix /\ Len(wire) = 0 /\ Len(Unsent) = 0
      BY <3>1 DEF Needed, LengthInv
    <3>3. Place(recvNonce) + (Len(raw) + Len(wire) + Len(Unsent)) = Place(sendNonce)
      BY <3>1 DEF LengthInv
    <3> DEFINE K == LenPrefix + TagLen
    <3>4. recvNonce \in Nat /\ sendNonce \in Nat /\ recvNonce <= sendNonce /\ Len(raw) \in Nat
      BY Counts, SMT
    <3>5. recvNonce = sendNonce
      <4> SUFFICES ASSUME recvNonce < sendNonce PROVE FALSE
        BY <3>4, SMT
      <4>1. starts[recvNonce + 1] <= starts[sendNonce + 1]
        <5>1. recvNonce + 1 \in 1..(sendNonce + 1)
          BY <3>4, SMT
        <5> QED BY <5>1 DEF StreamInv, StartsInv
      <4>2. starts[recvNonce + 1] \in Nat /\ starts[sendNonce + 1] \in Nat
        <5>1. recvNonce + 1 \in 1..(sendNonce + 1) /\ sendNonce + 1 \in 1..(sendNonce + 1)
          BY <3>4, SMT
        <5> QED BY <5>1, Counts
      <4>3. K \in Nat /\ K >= LenPrefix
        BY StreamAssumption, SMT DEF LenPrefix
      <4> DEFINE more == sendNonce - recvNonce - 1
      <4>4. more \in Nat /\ sendNonce = recvNonce + 1 + more
        BY <3>4, SMT
      <4>5. sendNonce * K = recvNonce * K + K + more * K /\ more * K \in Nat /\ recvNonce * K \in Nat
        <5> HIDE DEF more, K
        <5>1. (recvNonce + 1 + more) * K = recvNonce * K + K + more * K
          BY <3>4, <4>3, <4>4, SMT
        <5>2. more * K \in Nat /\ recvNonce * K \in Nat
          BY <3>4, <4>3, <4>4, NextMultiple
        <5> QED BY <4>4, <5>1, <5>2
      <4> DEFINE rk == recvNonce * K
                 sk == sendNonce * K
                 mk == more * K
                 from == starts[recvNonce + 1]
                 to == starts[sendNonce + 1]
      <4>6. (from + rk) + Len(raw) = to + sk
        <5>1. Place(recvNonce) + (Len(raw) + 0 + 0) = Place(sendNonce)
          BY <3>2, <3>3
        <5>2. Len(raw) + 0 + 0 = Len(raw)
          BY <3>4, SMT
        <5> QED BY <5>1, <5>2 DEF Place
      <4>7. sk = rk + K + mk /\ mk \in Nat /\ rk \in Nat /\ from \in Nat /\ to \in Nat /\ from <= to
        BY <4>1, <4>2, <4>5
      <4> HIDE DEF rk, sk, mk, from, to, K, more
      <4> QED BY <3>2, <3>4, <4>3, <4>6, <4>7, SMT DEF LenPrefix
    <3>6. Len(out) + (Len(plain) - readOff) = written
      BY <3>5 DEF StreamInv, StartsInv, ReaderInv
    <3>7. Len(out) \in Nat /\ readOff \in Int
      <4>1. out \in Seq(1..MaxBytes) /\ readOff \in 0..Len(plain)
        BY DEF StreamInv, TypeOK
      <4> QED BY <4>1, LenProperties, SMT
    <3>8. Len(out) = written
      BY <3>1, <3>6, <3>7, SMT
    <3> QED BY <3>1, <3>8
  <2>2. CASE Shutdown
    BY <2>2 DEF Shutdown, EndMeansAll, LengthInv, reader
  <2>3. CASE rstate' # "ended" \/ wstate' # "closed"
    BY <2>3 DEF EndMeansAll
  <2>4. CASE UNCHANGED <<rstate, wstate, out, written>>
    BY <2>4 DEF EndMeansAll
  <2>5. ASSUME NEW n \in 1..MaxBuf, Deliver(n) PROVE rstate' # "ended"
    BY <2>5 DEF Deliver
  <2>6. ASSUME NEW len \in 1..MaxBuf, Write(len) PROVE wstate' # "closed"
    BY <2>6 DEF Write
  <2>7. WriteFails \/ Die => wstate' # "closed"
    BY DEF WriteFails, Die
  <2>8. Flush \/ Fill \/ Reset \/ UNCHANGED vars => UNCHANGED <<rstate, wstate, out, written>>
    BY DEF Flush, Fill, Reset, vars, reader, writer
  <2>9. TakeLength \/ OpenFrame =>
          rstate' # "ended" \/ UNCHANGED <<rstate, wstate, out, written>>
    BY DEF TakeLength, OpenFrame, writer
  <2>10. ASSUME NEW i \in DOMAIN wire, NEW len \in 0..(MaxFrame + 1), Garble(i, len)
         PROVE  UNCHANGED <<rstate, wstate, out, written>>
    BY <2>10 DEF Garble, writer, reader
  <2> QED
    BY <2>1, <2>2, <2>3, <2>4, <2>5, <2>6, <2>7, <2>8, <2>9, <2>10 DEF Next
<1> QED BY <1>1, <1>2, StreamInvariant, LengthInvariant, PTL DEF Spec

====
