--------------------------- MODULE IcyDemux_proofs ---------------------------
(***************************************************************************)
(* The demultiplexer never loses its place in the stream: proved for every *)
(* interval, multiplier, length of blocks and size of the client's buffer, *)
(* and for every way the network cuts the stream into reads; it plays all  *)
(* the audio and prints every block of metadata whole.                     *)
(***************************************************************************)
EXTENDS IcyDemux, FoldTheorems, SequenceTheorems, TLAPS

USE DemuxAssumption

(***************************************************************************)
(* The bytes from the first one the client has not processed to the next   *)
(* one the server sends, wherever they are.                                *)
(***************************************************************************)
Left == Available + Len(wire) + 1

At(k) == IF k <= Available THEN buffer[offset + k]
         ELSE IF k <= Available + Len(wire) THEN wire[k - Available]
         ELSE next

Shape ==
  /\ session \in Nat /\ metaint \in Metaints /\ next \in Byte
  /\ wire \in Seq(Byte) /\ buffer \in Seq(Byte) /\ meta_buffer \in Seq(Byte)
  /\ offset \in 0..Len(buffer)
  /\ icy_metaint \in Nat /\ bytes_until_metadata \in Nat /\ meta_bytes_remaining \in Nat

\* A byte stands within its run, and a run of audio is as long as announced.
Sound(m, b) ==
  /\ b.pos >= 1 /\ b.pos <= b.total
  /\ b.kind = "length" => b.total = 1
  /\ b.kind = "audio" /\ m > 0 => b.total = m

\* The bytes a run may start with after the run of b.
Starts(m, b) ==
  IF b.kind = "audio" /\ m > 0 THEN LengthBytes(b.session)
  ELSE IF b.kind = "length" /\ b.val > 0 THEN MetaBytes(b.session, Multiplier * b.val)
  ELSE {AudioByte(b.session, m)}

\* c is the byte d places after b in its run.
InRun(b, c, d) ==
  /\ c.session = b.session /\ c.kind = b.kind /\ c.total = b.total /\ c.val = b.val
  /\ c.pos = b.pos + d

\* c comes d places after b: in the same run, or first in the next one.  (Said
\* of any two bytes within these bounds, this needs no induction over runs.)
Succeeds(m, b, c, d) ==
  /\ d <= b.total - b.pos => InRun(b, c, d)
  /\ d = b.total - b.pos + 1 => c \in Starts(m, b)

Chain ==
  /\ \A k \in 1..Left : Sound(metaint, At(k))
  /\ \A j, k \in 1..Left : j < k => Succeeds(metaint, At(j), At(k), k - j)

\* Before the response is complete nothing of the stream has been taken.
Started ==
  /\ radio \in {"RECEIVING_HTTP", "STREAMING_AUDIO"}
  /\ radio = "RECEIVING_HTTP" => Idle /\ At(1) = AudioByte(session, metaint)
  /\ radio = "STREAMING_AUDIO" => icy_metaint = metaint

\* meta_buffer ends with what has come of the block under way.
Collected ==
  radio = "STREAMING_AUDIO" /\ icy_metaint > 0 /\ state = "READING_META_PAYLOAD" =>
    LET b == At(1)
    IN  /\ b.pos - 1 <= Len(meta_buffer)
        /\ \A i \in 1..b.pos - 1 :
             InRun(b, meta_buffer[Len(meta_buffer) - (b.pos - 1) + i], i - b.pos)

\* Aligned, of the first byte of the chain.
AlignedAt(b) ==
  /\ state = "READING_AUDIO" =>
       b.kind = "audio" /\ bytes_until_metadata = b.total - b.pos + 1
  /\ state = "READING_META_LENGTH" => b.kind = "length"
  /\ state = "READING_META_PAYLOAD" =>
       b.kind = "meta" /\ meta_bytes_remaining = b.total - b.pos + 1
  /\ state \in {"READING_AUDIO", "READING_META_LENGTH", "READING_META_PAYLOAD"}

InPlace == radio = "STREAMING_AUDIO" /\ icy_metaint > 0 => AlignedAt(At(1))

IInv == Shape /\ Chain /\ Started /\ InPlace /\ Collected

(***************************************************************************)
(* Bytes and runs.                                                         *)
(***************************************************************************)

\* What the server may send next stands in a run, and follows every byte
\* before it if the last byte does.
LEMMA SuccessorSucceeds ==
  ASSUME NEW m \in Nat, NEW s \in Nat, NEW b \in Byte, Sound(m, b),
         NEW c \in Successors(m, b)
  PROVE  /\ c \in Byte /\ Sound(m, c)
         /\ Succeeds(m, b, c, 1)
         /\ \A a \in Byte, d \in Nat \ {0} :
              Sound(m, a) /\ Succeeds(m, a, b, d) => Succeeds(m, a, c, d + 1)
<1>0. b.pos \in Nat /\ b.total \in Nat /\ b.val \in Nat /\ b.session \in Nat
  BY DEF Byte
<1>1. CASE b.pos < b.total
  <2>1. c = [b EXCEPT !.pos = @ + 1]
    BY <1>1 DEF Successors
  <2>2. c \in Byte /\ Sound(m, c) /\ InRun(b, c, 1)
    BY <1>0, <1>1, <2>1 DEF Byte, Sound, InRun
  <2>3. Succeeds(m, b, c, 1)
    BY <1>0, <1>1, <2>2 DEF Succeeds
  <2>4. ASSUME NEW a \in Byte, NEW d \in Nat \ {0}, Sound(m, a), Succeeds(m, a, b, d)
        PROVE  Succeeds(m, a, c, d + 1)
    <3>1. a.pos \in Nat /\ a.total \in Nat
      BY DEF Byte
    <3>2. CASE d <= a.total - a.pos
      <4>1. InRun(a, b, d)
        BY <2>4, <3>2 DEF Succeeds
      <4>2. InRun(a, c, d + 1) /\ a.pos + d < a.total
        BY <1>1, <2>2, <3>1, <4>1 DEF InRun
      <4>3. QED
        BY <3>1, <4>2 DEF Succeeds
    <3>3. CASE ~(d <= a.total - a.pos)
      BY <3>1, <3>3 DEF Succeeds
    <3>4. QED
      BY <3>2, <3>3
  <2>5. QED
    BY <2>2, <2>3, <2>4
<1>2. CASE b.pos = b.total
  <2>1. c \in Starts(m, b)
    <3>1. ~(b.pos < b.total)
      BY <1>0, <1>2
    <3>2. QED
      BY <3>1 DEF Successors, Starts
  <2>2. c \in Byte /\ Sound(m, c)
    <3>1. CASE c = AudioByte(b.session, m)
      BY <1>0, <3>1 DEF AudioByte, Byte, Sound
    <3>2. CASE c \in LengthBytes(b.session)
      BY <1>0, <3>2 DEF LengthBytes, Byte, Sound
    <3>3. CASE b.val > 0 /\ c \in MetaBytes(b.session, Multiplier * b.val)
      <4>1. Multiplier * b.val \in Nat /\ Multiplier * b.val >= 1
        BY <1>0, <3>3
      <4>2. QED
        BY <1>0, <3>3, <4>1 DEF MetaBytes, Byte, Sound
    <3>4. QED
      BY <2>1, <3>1, <3>2, <3>3 DEF Starts
  <2>3. Succeeds(m, b, c, 1)
    BY <1>0, <1>2, <2>1 DEF Succeeds
  <2>4. ASSUME NEW a \in Byte, NEW d \in Nat \ {0}, Sound(m, a), Succeeds(m, a, b, d)
        PROVE  Succeeds(m, a, c, d + 1)
    <3>1. a.pos \in Nat /\ a.total \in Nat
      BY DEF Byte
    <3>2. CASE d <= a.total - a.pos
      <4>1. InRun(a, b, d)
        BY <2>4, <3>2 DEF Succeeds
      <4>2. a.total = a.pos + d
        BY <1>2, <4>1 DEF InRun
      <4>3. Starts(m, b) = Starts(m, a)
        BY <4>1 DEF InRun, Starts
      <4>4. QED
        <5>1. a.total - a.pos = d
          BY <3>1, <4>2
        <5>2. c \in Starts(m, a)
          BY <2>1, <4>3
        <5>3. QED
          BY <3>1, <5>1, <5>2 DEF Succeeds
    <3>3. CASE ~(d <= a.total - a.pos)
      BY <3>1, <3>3 DEF Succeeds
    <3>4. QED
      BY <3>2, <3>3
  <2>5. QED
    BY <2>2, <2>3, <2>4
<1>3. QED
  BY <1>0, <1>1, <1>2 DEF Sound
(***************************************************************************)
(* How the chain moves.                                                    *)
(***************************************************************************)
LEMMA ChainTyped ==
  ASSUME Shape
  PROVE  /\ Available \in Nat /\ Len(wire) \in Nat /\ Left \in Nat
         /\ Left >= Available + 1
         /\ \A k \in 1..Left : At(k) \in Byte
         /\ metaint \in Nat
<1>1. Available \in Nat /\ Len(wire) \in Nat /\ Len(buffer) \in Nat
  BY DEF Shape, Available
<1>2. ASSUME NEW k \in 1..Left PROVE At(k) \in Byte
  <2>1. CASE k <= Available
    <3>1. offset + k \in 1..Len(buffer)
      BY <1>1, <2>1 DEF Available, Shape
    <3>2. QED
      BY <2>1, <3>1, ElementOfSeq DEF At, Shape
  <2>2. CASE k > Available /\ k <= Available + Len(wire)
    <3>1. k - Available \in 1..Len(wire)
      BY <1>1, <2>2
    <3>2. At(k) = wire[k - Available]
      BY <1>1, <2>2 DEF At
    <3>3. QED
      BY <3>1, <3>2, ElementOfSeq DEF Shape
  <2>3. CASE k > Available + Len(wire)
    BY <1>1, <2>3 DEF At, Shape
  <2>4. QED
    BY <1>1, <2>1, <2>2, <2>3
<1>3. QED
  BY <1>1, <1>2 DEF Left, Shape

\* Taking bytes off the front leaves the rest of the chain.
LEMMA ShiftChain ==
  ASSUME Shape, Chain, NEW n \in 0..Available, Left' = Left - n,
         \A k \in 1..Left - n : At(k)' = At(k + n), UNCHANGED metaint
  PROVE  Chain'
<1>1. Left \in Nat /\ n \in Nat
  BY ChainTyped
<1>2. \A k \in 1..Left' : Sound(metaint', At(k)')
  BY <1>1 DEF Chain
<1>3. ASSUME NEW j \in 1..Left', NEW k \in 1..Left', j < k
      PROVE  Succeeds(metaint', At(j)', At(k)', k - j)
  <2>1. j + n \in 1..Left /\ k + n \in 1..Left /\ j + n < k + n
    BY <1>1, <1>3
  <2>2. Succeeds(metaint, At(j + n), At(k + n), (k + n) - (j + n))
    BY <2>1 DEF Chain
  <2>3. (k + n) - (j + n) = k - j
    BY <1>1
  <2>4. QED
    BY <1>1, <2>2, <2>3
<1>4. QED
  BY <1>2, <1>3 DEF Chain

\* Processing n bytes moves the client n places along the chain and leaves the
\* rest of it as it was.
LEMMA ConsumeChain ==
  ASSUME Shape, Chain, NEW n \in 0..Available, Consume(n)
  PROVE  /\ Left' = Left - n /\ \A k \in 1..Left - n : At(k)' = At(k + n)
         /\ offset' \in 0..Len(buffer)
         /\ Chain'
<1>1. /\ Available \in Nat /\ Len(wire) \in Nat /\ Len(buffer) \in Nat
      /\ offset \in Nat /\ n \in Nat
  BY ChainTyped DEF Shape
<1>2. Available' = Available - n /\ Left' = Left - n
  BY <1>1 DEF Consume, Available, Left, network
<1>3. ASSUME NEW k \in 1..Left - n PROVE At(k)' = At(k + n)
  <2>1. CASE k <= Available - n
    <3>1. (offset + n) + k = offset + (k + n) /\ k + n <= Available
      BY <1>1, <2>1
    <3>2. QED
      BY <1>1, <1>2, <2>1, <3>1 DEF At, Consume, network
  <2>2. CASE k > Available - n
    <3>1. /\ k - (Available - n) = (k + n) - Available
          /\ k + n > Available
          /\ k <= Available - n + Len(wire) <=> k + n <= Available + Len(wire)
      BY <1>1, <2>2
    <3>2. QED
      BY <1>1, <1>2, <2>2, <3>1 DEF At, Consume, network
  <2>3. QED
    BY <1>1, <2>1, <2>2
<1>4. offset' \in 0..Len(buffer)
  BY <1>1 DEF Consume, Available
<1>5. Chain'
  BY <1>2, <1>3, ShiftChain DEF Consume, network
<1>6. QED
  BY <1>2, <1>3, <1>4, <1>5

\* A read moves the chain from the network to the buffer.
Fetch(size) ==
  /\ buffer' = SubSeq(wire, 1, size)
  /\ wire' = SubSeq(wire, size + 1, Len(wire))
  /\ offset' = 0

\* A read, of any size, does not change the chain.
LEMMA FetchChain ==
  ASSUME Shape, Chain, Idle, NEW size \in 0..Len(wire), Fetch(size),
         UNCHANGED <<metaint, next>>
  PROVE  /\ Left' = Left /\ \A k \in 1..Left : At(k)' = At(k)
         /\ wire' \in Seq(Byte) /\ buffer' \in Seq(Byte) /\ offset' \in 0..Len(buffer')
         /\ Chain'
<1>1. /\ Available = 0 /\ Len(wire) \in Nat /\ size \in Nat /\ wire \in Seq(Byte)
  BY DEF Shape, Idle, Available
<1>2. /\ buffer' \in Seq(Byte) /\ Len(buffer') = size
      /\ \A i \in 1..size : buffer'[i] = wire[i]
  BY <1>1, SubSeqProperties DEF Fetch
<1>3. /\ wire' \in Seq(Byte) /\ Len(wire') = Len(wire) - size
      /\ \A i \in 1..Len(wire) - size : wire'[i] = wire[i + size]
  <2>1. CASE size = Len(wire)
    <3>1. wire' = << >>
      BY <1>1, <2>1, SubSeqEmpty DEF Fetch
    <3>2. QED
      BY <1>1, <2>1, <3>1
  <2>2. CASE size < Len(wire)
    <3>1. size + 1 \in 1..Len(wire) /\ Len(wire) \in 1..Len(wire)
      BY <1>1, <2>2
    <3>2. QED
      BY <1>1, <2>2, <3>1, SubSeqProperties DEF Fetch
  <2>3. QED
    BY <1>1, <2>1, <2>2
<1>4. Available' = size /\ Left' = Left
  <2>1. offset' = 0
    BY DEF Fetch
  <2>2. Available' = size
    BY <1>1, <1>2, <2>1 DEF Available
  <2>3. Left' = size + (Len(wire) - size) + 1 /\ Left = 0 + Len(wire) + 1
    BY <1>1, <1>3, <2>2 DEF Left
  <2>4. QED
    BY <1>1, <2>2, <2>3
<1>5. ASSUME NEW k \in 1..Left PROVE At(k)' = At(k)
  <2>1. CASE k <= size
    BY <1>1, <1>2, <1>4, <2>1 DEF At, Fetch
  <2>2. CASE k > size /\ k <= Len(wire)
    <3>1. At(k)' = wire'[k - size]
      BY <1>1, <1>3, <1>4, <2>2 DEF At
    <3>2. At(k) = wire[k]
      BY <1>1, <2>2 DEF At
    <3>3. k - size \in 1..Len(wire) - size /\ (k - size) + size = k
      BY <1>1, <2>2
    <3>4. QED
      BY <1>3, <3>1, <3>2, <3>3
  <2>3. CASE k > Len(wire)
    BY <1>1, <1>3, <1>4, <2>3 DEF At
  <2>4. QED
    BY <1>1, <2>1, <2>2, <2>3
<1>6. Chain'
  BY <1>4, <1>5 DEF Chain
<1>7. QED
  BY <1>1, <1>2, <1>3, <1>4, <1>5, <1>6 DEF Fetch

\* The server appends what follows its last byte.
LEMMA SendChain ==
  ASSUME Shape, Chain, Send
  PROVE  /\ At(1)' = At(1) /\ Left' = Left + 1
         /\ next' \in Byte /\ wire' \in Seq(Byte)
         /\ Chain'
<1>1. /\ Available \in Nat /\ Len(wire) \in Nat /\ Left \in Nat /\ metaint \in Nat
      /\ Left = Available + Len(wire) + 1
      /\ \A k \in 1..Left : At(k) \in Byte
  BY ChainTyped DEF Left
<1>2. /\ wire' \in Seq(Byte) /\ Len(wire') = Len(wire) + 1
      /\ \A i \in 1..Len(wire) : wire'[i] = wire[i]
      /\ wire'[Len(wire) + 1] = next
  BY AppendProperties DEF Send, Shape
<1>3. Available' = Available /\ Left' = Left + 1 /\ metaint' = metaint
  BY <1>1, <1>2 DEF Send, Available, Left
<1>4. ASSUME NEW k \in 1..Left PROVE At(k)' = At(k)
  <2>1. CASE k <= Available
    BY <1>3, <2>1 DEF At, Send
  <2>2. CASE k > Available /\ k <= Available + Len(wire)
    <3>1. k - Available \in 1..Len(wire)
      BY <1>1, <2>2
    <3>2. At(k)' = wire'[k - Available] /\ At(k) = wire[k - Available]
      BY <1>1, <1>2, <1>3, <2>2 DEF At
    <3>3. QED
      BY <1>2, <3>1, <3>2
  <2>3. CASE k = Left
    <3>1. k - Available = Len(wire) + 1
      BY <1>1, <2>3
    <3>2. At(k)' = wire'[k - Available] /\ At(k) = next
      BY <1>1, <1>2, <1>3, <2>3 DEF At
    <3>3. QED
      BY <1>2, <3>1, <3>2
  <2>4. QED
    BY <1>1, <2>1, <2>2, <2>3
<1>5. At(Left) = next /\ \A k \in 1..Left + 1 : k = Left + 1 => At(k)' = next'
  BY <1>1, <1>2, <1>3 DEF At
<1>6. Sound(metaint, next) /\ next \in Byte /\ next' \in Successors(metaint, next)
  BY <1>1, <1>5 DEF Chain, Shape, Send
<1>7. session \in Nat
  BY DEF Shape
<1>8. /\ next' \in Byte /\ Sound(metaint, next')
      /\ Succeeds(metaint, next, next', 1)
      /\ \A a \in Byte, d \in Nat \ {0} :
           Sound(metaint, a) /\ Succeeds(metaint, a, next, d)
             => Succeeds(metaint, a, next', d + 1)
  BY <1>1, <1>6, <1>7, SuccessorSucceeds
<1>9. ASSUME NEW j \in 1..Left PROVE Succeeds(metaint, At(j), next', Left + 1 - j)
  <2>1. CASE j = Left
    BY <1>1, <1>5, <1>8, <2>1
  <2>2. CASE j < Left
    <3>1. Succeeds(metaint, At(j), next, Left - j) /\ Sound(metaint, At(j))
      BY <1>1, <1>5, <2>2 DEF Chain
    <3>2. Left - j \in Nat \ {0} /\ (Left - j) + 1 = Left + 1 - j
      BY <1>1, <2>2
    <3>3. At(j) \in Byte
      BY <1>1
    <3>4. Succeeds(metaint, At(j), next', (Left - j) + 1)
      BY <1>8, <3>1, <3>2, <3>3
    <3>5. QED
      BY <3>2, <3>4
  <2>3. QED
    BY <1>1, <2>1, <2>2
<1>10. ASSUME NEW k \in 1..Left' PROVE Sound(metaint', At(k)')
  <2>1. CASE k = Left + 1
    <3>1. At(k)' = next'
      BY <1>1, <1>3, <1>5, <2>1
    <3>2. QED
      BY <1>3, <1>8, <3>1
  <2>2. CASE k \in 1..Left
    BY <1>3, <1>4, <2>2 DEF Chain
  <2>3. QED
    BY <1>1, <1>3, <2>1, <2>2
<1>11. ASSUME NEW j \in 1..Left', NEW k \in 1..Left', j < k
       PROVE  Succeeds(metaint', At(j)', At(k)', k - j)
  <2>1. CASE k = Left + 1
    <3>1. j \in 1..Left
      BY <1>1, <1>11, <2>1
    <3>2. At(k)' = next'
      BY <1>1, <1>3, <1>5, <2>1
    <3>3. Succeeds(metaint, At(j), next', k - j)
      BY <1>1, <1>9, <2>1, <3>1
    <3>4. At(j)' = At(j)
      BY <1>4, <3>1
    <3>5. QED
      BY <1>3, <3>2, <3>3, <3>4
  <2>2. CASE k \in 1..Left
    <3>1. j \in 1..Left
      BY <1>1, <1>11, <2>2
    <3>2. QED
      BY <1>3, <1>4, <1>11, <2>2, <3>1 DEF Chain
  <2>3. QED
    BY <1>1, <1>3, <2>1, <2>2
<1>12. Chain'
  BY <1>10, <1>11 DEF Chain
<1>13. 1 \in 1..Left
  BY <1>1
<1>14. At(1)' = At(1)
  BY <1>4, <1>13
<1>15. QED
  BY <1>2, <1>3, <1>8, <1>12, <1>14
(***************************************************************************)
(* The iterations of the loop in process_stream_data.                      *)
(***************************************************************************)
\* What Taken(n) hands on is the front of the chain.
LEMMA TakenIsFront ==
  ASSUME Shape, NEW n \in 0..Available
  PROVE  /\ Taken(n) \in Seq(Byte) /\ Len(Taken(n)) = n
         /\ \A k \in 1..n : Taken(n)[k] = At(k) /\ At(k) = buffer[offset + k]
<1>1. /\ Available \in Nat /\ Len(buffer) \in Nat /\ offset \in Nat /\ n \in Nat
      /\ offset + n <= Len(buffer) /\ buffer \in Seq(Byte)
  BY ChainTyped DEF Shape, Available
<1>2. \A i \in offset + 1..offset + n : buffer[i] \in Byte
  BY <1>1, ElementOfSeq
<1>3. Taken(n) \in Seq(Byte) /\ Len(Taken(n)) = n
  BY <1>1, <1>2, SubSeqProperties DEF Taken
<1>4. ASSUME NEW k \in 1..n PROVE Taken(n)[k] = At(k) /\ At(k) = buffer[offset + k]
  <2>1. Taken(n)[k] = buffer[(offset + 1) + k - 1]
    BY <1>1, <1>2, SubSeqProperties DEF Taken
  <2>2. (offset + 1) + k - 1 = offset + k /\ k <= Available
    BY <1>1
  <2>3. QED
    BY <2>1, <2>2 DEF At
<1>5. QED
  BY <1>3, <1>4

\* Bytes are left to process only while streaming.
LEMMA Busy ==
  ASSUME IInv, ~Idle
  PROVE  /\ radio = "STREAMING_AUDIO" /\ icy_metaint = metaint
         /\ Available >= 1 /\ Available \in Nat
         /\ At(1) \in Byte /\ Sound(metaint, At(1))
  BY ChainTyped DEF IInv, Started, Idle, Available, Shape, Chain

\* The byte that is first once n bytes of a run are consumed.
LEMMA NextFirst ==
  ASSUME IInv, ~Idle, NEW n \in 1..Available, Consume(n),
         n <= At(1).total - At(1).pos + 1
  PROVE  /\ At(1)' \in Byte /\ Sound(metaint, At(1)')
         /\ n <= At(1).total - At(1).pos => InRun(At(1), At(1)', n)
         /\ n = At(1).total - At(1).pos + 1 => At(1)' \in Starts(metaint, At(1))
<1>1. /\ Left \in Nat /\ Left >= Available + 1 /\ Available \in Nat
      /\ \A k \in 1..Left : At(k) \in Byte
  BY ChainTyped DEF IInv
<1>2. 1 + n \in 1..Left /\ 1 \in 1..Left - n /\ n \in 0..Available /\ (1 + n) - 1 = n
  BY <1>1
<1>3. At(1)' = At(1 + n)
  BY <1>2, ConsumeChain DEF IInv
<1>4. Succeeds(metaint, At(1), At(1 + n), (1 + n) - 1) /\ Sound(metaint, At(1 + n))
  BY <1>1, <1>2 DEF IInv, Chain
<1>5. QED
  BY <1>1, <1>2, <1>3, <1>4 DEF Succeeds

\* One iteration over audio keeps the client in place: it stops at the end of
\* the run or at the end of the buffer, whichever comes first.
LEMMA DemuxAudioOK ==
  ASSUME IInv, DemuxAudio
  PROVE  IInv'
<1> DEFINE n == Smaller(bytes_until_metadata, Available)
           b == At(1)
<1>1. /\ radio = "STREAMING_AUDIO" /\ icy_metaint = metaint
      /\ Available >= 1 /\ Available \in Nat /\ b \in Byte /\ Sound(metaint, b)
  BY Busy DEF DemuxAudio
<1>2. b.kind = "audio" /\ bytes_until_metadata = b.total - b.pos + 1
  BY <1>1 DEF IInv, InPlace, AlignedAt, DemuxAudio
<1>3. b.pos \in Nat /\ b.total \in Nat /\ b.pos <= b.total
  BY <1>1 DEF Byte, Sound
<1>4. /\ n \in 1..Available /\ n <= b.total - b.pos + 1
      /\ n < Available => n = bytes_until_metadata
  BY <1>1, <1>2, <1>3 DEF Smaller
<1>5. /\ Consume(n) /\ bytes_until_metadata' = bytes_until_metadata - n
      /\ state' = IF bytes_until_metadata' = 0 THEN "READING_META_LENGTH" ELSE "READING_AUDIO"
      /\ UNCHANGED <<meta_buffer, meta_bytes_remaining>> /\ icy_metaint > 0
  BY DEF DemuxAudio
<1>6. Chain' /\ offset' \in 0..Len(buffer)
  BY <1>1, <1>4, <1>5, ConsumeChain DEF IInv
<1>7. Shape'
  BY <1>2, <1>3, <1>4, <1>5, <1>6 DEF IInv, Shape, Consume, network
<1>8. Started'
  BY <1>1, <1>5 DEF Started, Consume, network
<1>9. /\ n <= b.total - b.pos => InRun(b, At(1)', n)
      /\ n = b.total - b.pos + 1 => At(1)' \in Starts(metaint, b)
  BY <1>4, <1>5, NextFirst DEF DemuxAudio
<1>10. AlignedAt(At(1))'
  <2>1. CASE n <= b.total - b.pos
    <3>1. InRun(b, At(1)', n)
      BY <1>9, <2>1
    <3>2. bytes_until_metadata' = b.total - b.pos + 1 - n /\ bytes_until_metadata' # 0
      BY <1>2, <1>3, <1>4, <1>5, <2>1
    <3>3. QED
      BY <1>2, <1>3, <1>4, <1>5, <3>1, <3>2 DEF AlignedAt, InRun
  <2>2. CASE n = b.total - b.pos + 1
    <3>1. At(1)' \in LengthBytes(b.session)
      BY <1>1, <1>2, <1>5, <1>9, <2>2 DEF Starts
    <3>2. bytes_until_metadata' = 0
      BY <1>2, <1>3, <1>5, <2>2
    <3>3. QED
      BY <1>5, <3>1, <3>2 DEF AlignedAt, LengthBytes
  <2>3. QED
    BY <1>3, <1>4, <2>1, <2>2
<1>11. InPlace' /\ Collected'
  BY <1>5, <1>10 DEF InPlace, Collected
<1>12. QED
  BY <1>6, <1>7, <1>8, <1>11 DEF IInv

\* The length byte sets up the block it announces, or the next run of audio.
LEMMA DemuxLengthOK ==
  ASSUME IInv, DemuxLength
  PROVE  IInv'
<1> DEFINE b == At(1)
           payload_len == Multiplier * b.val
<1>1. /\ radio = "STREAMING_AUDIO" /\ icy_metaint = metaint
      /\ Available >= 1 /\ Available \in Nat /\ b \in Byte /\ Sound(metaint, b)
  BY Busy DEF DemuxLength
<1>2. b.kind = "length" /\ b.pos = 1 /\ b.total = 1 /\ b.val \in Nat /\ b.session \in Nat
  <2>1. b.kind = "length"
    BY <1>1 DEF IInv, InPlace, AlignedAt, DemuxLength
  <2>2. QED
    BY <1>1, <2>1 DEF Byte, Sound
<1>3. buffer[offset + 1] = b
  BY <1>1, TakenIsFront DEF IInv, Shape
<1>4. /\ Consume(1) /\ UNCHANGED meta_buffer /\ icy_metaint > 0
      /\ \/ /\ payload_len = 0 /\ state' = "READING_AUDIO"
            /\ bytes_until_metadata' = icy_metaint /\ UNCHANGED meta_bytes_remaining
         \/ /\ payload_len # 0 /\ state' = "READING_META_PAYLOAD"
            /\ meta_bytes_remaining' = payload_len /\ UNCHANGED bytes_until_metadata
  BY <1>3 DEF DemuxLength
<1>5. payload_len \in Nat /\ (payload_len = 0 <=> b.val = 0)
  BY <1>2
<1>6. 1 \in 1..Available /\ 1 \in 0..Available
  BY <1>1
<1>7. Chain' /\ offset' \in 0..Len(buffer)
  BY <1>4, <1>6, ConsumeChain DEF IInv
<1>8. Shape'
  BY <1>4, <1>5, <1>7 DEF IInv, Shape, Consume, network
<1>9. Started'
  BY <1>1, <1>4 DEF Started, Consume, network
<1>10. At(1)' \in Starts(metaint, b)
  <2>1. ~Idle /\ 1 = b.total - b.pos + 1
    BY <1>2 DEF DemuxLength
  <2>2. ASSUME NEW n \in 1..Available, n = 1 PROVE At(1)' \in Starts(metaint, b)
    <3>1. Consume(n) /\ n = b.total - b.pos + 1
      BY <1>4, <2>1, <2>2
    <3>2. n <= At(1).total - At(1).pos + 1
      BY <2>2, <3>1
    <3>3. QED
      BY <2>1, <3>1, <3>2, NextFirst
  <2>3. QED
    BY <1>6, <2>2
<1>11. CASE b.val = 0
  <2>1. At(1)' = AudioByte(b.session, metaint)
    BY <1>2, <1>10, <1>11 DEF Starts
  <2>2. AlignedAt(At(1))' /\ state' = "READING_AUDIO"
    BY <1>1, <1>4, <1>5, <1>11, <2>1 DEF AlignedAt, AudioByte, IInv, Shape
  <2>3. QED
    BY <1>7, <1>8, <1>9, <2>2 DEF IInv, InPlace, Collected
<1>12. CASE b.val > 0
  <2>1. At(1)' \in MetaBytes(b.session, payload_len)
    BY <1>2, <1>10, <1>12 DEF Starts
  <2>2. At(1)'.kind = "meta" /\ At(1)'.pos = 1 /\ At(1)'.total = payload_len
    BY <2>1 DEF MetaBytes
  <2>3. AlignedAt(At(1))'
    BY <1>2, <1>4, <1>5, <1>12, <2>2 DEF AlignedAt
  <2>4. Collected'
    <3>1. Len(meta_buffer') \in Nat
      BY <1>8 DEF Shape
    <3>2. QED
      BY <2>2, <3>1 DEF Collected
  <2>5. QED
    BY <1>7, <1>8, <1>9, <2>3, <2>4 DEF IInv, InPlace
<1>13. QED
  BY <1>2, <1>11, <1>12

\* Where the i-th byte of a block stands, of which p bytes are the last of m and
\* n come behind them.
LEMMA PlaceBehind ==
  ASSUME NEW n \in Nat, NEW m \in Nat, NEW p \in Nat, NEW o \in 0..m, o + (p - 1) = m,
         p >= 1, NEW i \in 1..p - 1 + n, i > p - 1
  PROVE  /\ o + i > m
         /\ (o + i) - m = i - (p - 1)
         /\ i - (p - 1) \in 1..n /\ (i - (p - 1)) - 1 = i - p
  OBVIOUS

\* With n more bytes of a block collected, the whole front of the block stands
\* behind what meta_buffer held before it.
LEMMA CollectMore ==
  ASSUME IInv, radio = "STREAMING_AUDIO", icy_metaint > 0,
         state = "READING_META_PAYLOAD",
         NEW n \in 1..Available, n <= At(1).total - At(1).pos + 1
  PROVE  LET b == At(1)
             c == meta_buffer \o Taken(n)
             older == Len(meta_buffer) - (b.pos - 1)
         IN  /\ c \in Seq(Byte) /\ Len(c) = Len(meta_buffer) + n
             /\ older \in 0..Len(meta_buffer)
             /\ \A i \in 1..Len(meta_buffer) : c[i] = meta_buffer[i]
             /\ \A i \in 1..b.pos - 1 + n : InRun(b, c[older + i], i - b.pos)
<1> DEFINE b == At(1)
           c == meta_buffer \o Taken(n)
           older == Len(meta_buffer) - (b.pos - 1)
<1>1. /\ Left \in Nat /\ Left >= Available + 1 /\ Available \in Nat
      /\ \A k \in 1..Left : At(k) \in Byte
      /\ meta_buffer \in Seq(Byte) /\ Len(meta_buffer) \in Nat
  BY ChainTyped DEF IInv, Shape
<1>2. b \in Byte /\ b.pos \in Nat /\ b.total \in Nat /\ b.pos >= 1 /\ n \in Nat
  BY <1>1 DEF IInv, Chain, Sound, Byte
<1>3. /\ b.pos - 1 <= Len(meta_buffer)
      /\ \A i \in 1..b.pos - 1 : InRun(b, meta_buffer[older + i], i - b.pos)
  BY DEF IInv, Collected
<1>4. /\ Taken(n) \in Seq(Byte) /\ Len(Taken(n)) = n
      /\ \A k \in 1..n : Taken(n)[k] = At(k)
  <2>1. n \in 0..Available
    BY <1>1
  <2>2. QED
    BY <2>1, TakenIsFront DEF IInv
<1>5. /\ c \in Seq(Byte) /\ Len(c) = Len(meta_buffer) + n
      /\ \A i \in 1..Len(c) : c[i] = IF i <= Len(meta_buffer) THEN meta_buffer[i]
                                     ELSE Taken(n)[i - Len(meta_buffer)]
  BY <1>1, <1>4, ConcatProperties
<1>6. older \in 0..Len(meta_buffer) /\ older + (b.pos - 1) = Len(meta_buffer)
  BY <1>1, <1>2, <1>3
<1>7. ASSUME NEW k \in 1..n PROVE InRun(b, At(k), k - 1)
  <2>1. CASE k = 1
    BY <1>2, <2>1 DEF InRun
  <2>2. CASE k > 1
    <3>1. 1 \in 1..Left /\ k \in 1..Left /\ k - 1 <= b.total - b.pos
      BY <1>1, <1>2, <2>2
    <3>2. QED
      BY <2>2, <3>1 DEF IInv, Chain, Succeeds
  <2>3. QED
    BY <2>1, <2>2
<1>8. ASSUME NEW i \in 1..b.pos - 1 + n PROVE InRun(b, c[older + i], i - b.pos)
  <2> HIDE DEF b, c, older
  <2>1. older + i \in 1..Len(c)
    BY <1>1, <1>2, <1>5, <1>6
  <2>2. CASE i <= b.pos - 1
    <3>1. older + i <= Len(meta_buffer) /\ i \in 1..b.pos - 1
      BY <1>1, <1>2, <1>6, <2>2
    <3>2. QED
      BY <1>3, <1>5, <2>1, <3>1
  <2>3. CASE i > b.pos - 1
    <3>1. /\ older + i > Len(meta_buffer)
          /\ (older + i) - Len(meta_buffer) = i - (b.pos - 1)
          /\ i - (b.pos - 1) \in 1..n /\ (i - (b.pos - 1)) - 1 = i - b.pos
      <4>1. PICK p, o, m : p = b.pos /\ o = older /\ m = Len(meta_buffer)
        OBVIOUS
      <4>2. /\ n \in Nat /\ m \in Nat /\ p \in Nat /\ o \in 0..m /\ o + (p - 1) = m
            /\ p >= 1 /\ i \in 1..p - 1 + n /\ i > p - 1
        BY <1>1, <1>2, <1>6, <2>3, <4>1
      <4>3. /\ o + i > m /\ (o + i) - m = i - (p - 1)
            /\ i - (p - 1) \in 1..n /\ (i - (p - 1)) - 1 = i - p
        BY <4>2, PlaceBehind
      <4>4. QED
        BY <4>1, <4>3
    <3>2. c[older + i] = At(i - (b.pos - 1))
      BY <1>4, <1>5, <2>1, <3>1
    <3>3. QED
      BY <1>7, <3>1, <3>2
  <2>4. QED
    BY <1>2, <2>2, <2>3
<1>9. \A i \in 1..Len(meta_buffer) : c[i] = meta_buffer[i]
  <2> HIDE DEF c
  <2>1. QED
    BY <1>1, <1>2, <1>5
<1>10. QED
  BY <1>5, <1>6, <1>8, <1>9

\* One iteration over metadata adds to meta_buffer the part of the block that has
\* come, and after its last byte the audio is counted anew.
LEMMA DemuxPayloadOK ==
  ASSUME IInv, DemuxPayload
  PROVE  IInv'
<1> DEFINE n == Smaller(meta_bytes_remaining, Available)
           b == At(1)
           c == meta_buffer \o Taken(n)
<1>1. /\ radio = "STREAMING_AUDIO" /\ icy_metaint = metaint
      /\ Available >= 1 /\ Available \in Nat /\ b \in Byte /\ Sound(metaint, b)
      /\ ~Idle /\ icy_metaint > 0 /\ state = "READING_META_PAYLOAD"
  BY Busy DEF DemuxPayload
<1>2. b.kind = "meta" /\ meta_bytes_remaining = b.total - b.pos + 1
  BY <1>1 DEF IInv, InPlace, AlignedAt
<1>3. b.pos \in Nat /\ b.total \in Nat /\ b.pos >= 1 /\ b.pos <= b.total
  BY <1>1 DEF Byte, Sound
<1>4. n \in 1..Available /\ n \in 0..Available /\ n <= b.total - b.pos + 1
  BY <1>1, <1>2, <1>3 DEF Smaller
<1>5. /\ Consume(n) /\ meta_bytes_remaining' = meta_bytes_remaining - n
      /\ \/ /\ meta_bytes_remaining' = 0 /\ meta_buffer' = << >>
            /\ state' = "READING_AUDIO" /\ bytes_until_metadata' = icy_metaint
         \/ /\ meta_bytes_remaining' # 0 /\ meta_buffer' = c
            /\ UNCHANGED <<state, bytes_until_metadata>>
  BY DEF DemuxPayload
<1>6. Chain' /\ offset' \in 0..Len(buffer)
  BY <1>4, <1>5, ConsumeChain DEF IInv
<1>7. /\ c \in Seq(Byte) /\ Len(c) = Len(meta_buffer) + n /\ Len(meta_buffer) \in Nat
      /\ Len(meta_buffer) - (b.pos - 1) \in 0..Len(meta_buffer)
      /\ \A i \in 1..b.pos - 1 + n :
           InRun(b, c[Len(meta_buffer) - (b.pos - 1) + i], i - b.pos)
  <2>1. Len(meta_buffer) \in Nat
    BY DEF IInv, Shape
  <2>2. QED
    BY <1>1, <1>4, <2>1, CollectMore
<1>8. meta_buffer' \in Seq(Byte) /\ meta_bytes_remaining' \in Nat
  <2>1. << >> \in Seq(Byte)
    BY EmptySeq
  <2>2. meta_buffer' \in {<< >>, c}
    BY <1>5
  <2>3. meta_buffer' \in Seq(Byte)
    BY <1>7, <2>1, <2>2
  <2>4. meta_bytes_remaining' \in Nat
    <3> HIDE DEF n
    <3>1. QED
      BY <1>1, <1>2, <1>3, <1>4, <1>5
  <2>5. QED
    BY <2>3, <2>4
<1>9. Shape'
  BY <1>5, <1>6, <1>8 DEF IInv, Shape, Consume, network
<1>10. Started'
  BY <1>1, <1>5 DEF Started, Consume, network
<1>11. /\ n <= b.total - b.pos => InRun(b, At(1)', n)
       /\ n = b.total - b.pos + 1 => At(1)' \in Starts(metaint, b)
  BY <1>1, <1>4, <1>5, NextFirst
<1>12. CASE n = b.total - b.pos + 1
  <2>1. At(1)' = AudioByte(b.session, metaint)
    BY <1>2, <1>11, <1>12 DEF Starts
  <2>2. meta_bytes_remaining' = 0
    BY <1>2, <1>3, <1>5, <1>12
  <2>3. AlignedAt(At(1))' /\ state' = "READING_AUDIO"
    BY <1>1, <1>5, <2>1, <2>2 DEF AlignedAt, AudioByte, IInv, Shape
  <2>4. QED
    BY <1>6, <1>9, <1>10, <2>3 DEF IInv, InPlace, Collected
<1>13. CASE n <= b.total - b.pos
  <2>1. InRun(b, At(1)', n)
    BY <1>11, <1>13
  <2>2. meta_bytes_remaining' = b.total - b.pos + 1 - n /\ meta_bytes_remaining' # 0
    BY <1>2, <1>3, <1>4, <1>5, <1>13
  <2>3. meta_buffer' = c /\ state' = "READING_META_PAYLOAD"
    BY <1>1, <1>5, <2>2
  <2>4. AlignedAt(At(1))'
    BY <1>2, <1>3, <1>4, <2>1, <2>2, <2>3 DEF AlignedAt, InRun
  <2>5. Collected'
    <3> DEFINE older == Len(meta_buffer) - (b.pos - 1)
               d == At(1)'
    <3>1. /\ older \in 0..Len(meta_buffer) /\ Len(meta_buffer) \in Nat
          /\ \A i \in 1..b.pos - 1 + n : InRun(b, c[older + i], i - b.pos)
      BY <1>7
    <3>2. d.pos = b.pos + n /\ d.pos - 1 = b.pos - 1 + n
      BY <1>3, <1>4, <2>1 DEF InRun
    <3>3. Len(c) - (d.pos - 1) = older /\ d.pos - 1 <= Len(c)
      BY <1>3, <1>4, <1>7, <3>1, <3>2
    <3>4. ASSUME NEW i \in 1..d.pos - 1 PROVE InRun(d, c[older + i], i - d.pos)
      <4>1. InRun(b, c[older + i], i - b.pos)
        BY <3>1, <3>2
      <4>2. (b.pos + n) + (i - (b.pos + n)) = b.pos + (i - b.pos)
        BY <1>3, <1>4, <3>2
      <4>3. QED
        BY <2>1, <3>2, <4>1, <4>2 DEF InRun
    <3>5. QED
      BY <2>3, <3>3, <3>4 DEF Collected
  <2>6. QED
    BY <1>6, <1>9, <1>10, <2>4, <2>5 DEF IInv, InPlace
<1>14. QED
  BY <1>3, <1>4, <1>12, <1>13

\* Without metadata there is no place to keep, only the chain.
LEMMA PassAudioOK ==
  ASSUME IInv, PassAudio
  PROVE  IInv'
<1>1. /\ radio = "STREAMING_AUDIO" /\ icy_metaint = metaint
      /\ Available \in 0..Available
  BY Busy DEF PassAudio
<1>2. /\ Consume(Available) /\ icy_metaint = 0
      /\ UNCHANGED <<bytes_until_metadata, meta_buffer, state, meta_bytes_remaining>>
  BY DEF PassAudio
<1>3. Chain' /\ offset' \in 0..Len(buffer)
  BY <1>1, <1>2, ConsumeChain DEF IInv
<1>4. Shape'
  BY <1>2, <1>3 DEF IInv, Shape, Consume, network
<1>5. icy_metaint' = 0 /\ UNCHANGED <<radio, metaint>>
  BY <1>2 DEF Consume, network
<1>6. Started'
  BY <1>1, <1>2, <1>5 DEF Started
<1>7. InPlace' /\ Collected'
  BY <1>5 DEF InPlace, Collected
<1>8. QED
  BY <1>3, <1>4, <1>6, <1>7 DEF IInv

(***************************************************************************)
(* The other steps.                                                        *)
(***************************************************************************)
LEMMA ReadOK ==
  ASSUME IInv, NEW size \in 0..Len(wire), Read(size)
  PROVE  IInv'
<1>1. /\ Idle /\ Fetch(size) /\ radio = "STREAMING_AUDIO"
      /\ UNCHANGED <<session, metaint, next, radio, stream>>
  BY DEF Read, Fetch
<1>2. /\ Left' = Left /\ \A k \in 1..Left : At(k)' = At(k)
      /\ wire' \in Seq(Byte) /\ buffer' \in Seq(Byte) /\ offset' \in 0..Len(buffer')
      /\ Chain'
  BY <1>1, FetchChain DEF IInv
<1>3. At(1)' = At(1)
  BY <1>2, ChainTyped DEF IInv
<1>4. Shape'
  BY <1>1, <1>2 DEF IInv, Shape, stream
<1>5. InPlace' /\ Collected' /\ Started'
  BY <1>1, <1>3 DEF IInv, InPlace, AlignedAt, Collected, Started, stream
<1>6. QED
  BY <1>2, <1>4, <1>5 DEF IInv

\* Whatever was read behind the headers, the new stream starts at its first byte.
LEMMA StartStreamOK ==
  ASSUME IInv, NEW leftover \in 0..Len(wire), StartStream(leftover)
  PROVE  IInv'
<1>1. /\ Idle /\ At(1) = AudioByte(session, metaint)
      /\ Fetch(leftover) /\ UNCHANGED <<session, metaint, next, meta_buffer>>
  BY DEF StartStream, Fetch, IInv, Started
<1>2. /\ radio' = "STREAMING_AUDIO" /\ state' = "READING_AUDIO"
      /\ meta_bytes_remaining' = 0
      /\ icy_metaint' = metaint /\ bytes_until_metadata' = metaint
  BY DEF StartStream
<1>3. /\ Left' = Left /\ \A k \in 1..Left : At(k)' = At(k)
      /\ wire' \in Seq(Byte) /\ buffer' \in Seq(Byte) /\ offset' \in 0..Len(buffer')
      /\ Chain'
  BY <1>1, FetchChain DEF IInv
<1>4. At(1)' = AudioByte(session, metaint)
  BY <1>1, <1>3, ChainTyped DEF IInv
<1>5. metaint \in Nat
  BY ChainTyped DEF IInv
<1>6. Shape'
  BY <1>1, <1>2, <1>3, <1>5 DEF IInv, Shape
<1>7. InPlace' /\ Collected' /\ Started'
  BY <1>1, <1>2, <1>4, <1>5
     DEF InPlace, AlignedAt, Collected, Started, AudioByte
<1>8. QED
  BY <1>3, <1>6, <1>7 DEF IInv

\* A new connection starts a new chain, of one byte.
LEMMA ReconnectOK ==
  ASSUME IInv, TimeoutAndReconnect
  PROVE  IInv'
<1>1. /\ Idle /\ wire' = << >> /\ next' = AudioByte(session', metaint')
      /\ session' = session + 1 /\ metaint' \in Metaints
      /\ radio' = "RECEIVING_HTTP" /\ UNCHANGED <<stream, buffer, offset>>
  BY DEF TimeoutAndReconnect
<1>2. metaint' \in Nat /\ session' \in Nat
  BY <1>1 DEF IInv, Shape
<1>3. next' \in Byte /\ Sound(metaint', next')
  BY <1>1, <1>2 DEF AudioByte, Byte, Sound
<1>4. Available' = 0 /\ Len(wire') = 0 /\ Left' = 1 /\ Idle'
  BY <1>1 DEF Available, Left, Idle, IInv, Shape
<1>5. ASSUME NEW k \in 1..1 PROVE At(k)' = next'
  BY <1>4 DEF At
<1>6. Chain'
  BY <1>3, <1>4, <1>5 DEF Chain
<1>7. wire' \in Seq(Byte)
  BY <1>1, EmptySeq
<1>8. Shape'
  BY <1>1, <1>2, <1>3, <1>7 DEF IInv, Shape, stream
<1>9. Started' /\ InPlace' /\ Collected'
  <2>1. At(1)' = next'
    BY <1>5
  <2>2. QED
    BY <1>1, <1>4, <2>1 DEF Started, InPlace, Collected
<1>10. QED
  BY <1>6, <1>8, <1>9 DEF IInv

\* What the server sends makes the chain longer at its far end.
LEMMA SendOK ==
  ASSUME IInv, Send
  PROVE  IInv'
<1>1. /\ At(1)' = At(1) /\ next' \in Byte /\ wire' \in Seq(Byte) /\ Chain'
  BY SendChain DEF IInv
<1>2. UNCHANGED <<session, metaint, radio, stream, buffer, offset>>
  BY DEF Send
<1>3. Shape' /\ InPlace' /\ Collected' /\ Started'
  BY <1>1, <1>2
     DEF IInv, Shape, InPlace, AlignedAt, Collected, Started, Idle, stream
<1>4. QED
  BY <1>1, <1>3 DEF IInv

\* Every step keeps the invariant.
LEMMA InvStep == IInv /\ [Next]_vars => IInv'
<1> SUFFICES ASSUME IInv, [Next]_vars PROVE IInv'
  OBVIOUS
<1>1. \A size \in 0..Smaller(Len(wire), BufferSize) : size \in 0..Len(wire)
  BY ChainTyped DEF Smaller, IInv
<1>2. CASE Send
  BY <1>2, SendOK
<1>3. ASSUME NEW leftover \in 0..Smaller(Len(wire), BufferSize), StartStream(leftover)
      PROVE  IInv'
  BY <1>1, <1>3, StartStreamOK
<1>4. ASSUME NEW size \in 1..Smaller(Len(wire), BufferSize), Read(size) PROVE IInv'
  <2>1. size \in 0..Len(wire)
    BY <1>1
  <2>2. QED
    BY <1>4, <2>1, ReadOK
<1>5. CASE TimeoutAndReconnect
  BY <1>5, ReconnectOK
<1>6. CASE PassAudio
  BY <1>6, PassAudioOK
<1>7. CASE DemuxAudio
  BY <1>7, DemuxAudioOK
<1>8. CASE DemuxLength
  BY <1>8, DemuxLengthOK
<1>9. CASE DemuxPayload
  BY <1>9, DemuxPayloadOK
<1>10. CASE UNCHANGED vars
  <2> USE <1>10 DEF vars, network, stream
  <2>1. Left' = Left /\ \A k \in 1..Left : At(k)' = At(k)
    BY DEF Left, Available, At
  <2>2. At(1)' = At(1)
    BY DEF Available, At
  <2>3. Shape' /\ Chain'
    BY <2>1 DEF IInv, Shape, Chain
  <2>4. Started' /\ InPlace' /\ Collected'
    BY <2>2 DEF IInv, Started, Idle, InPlace, AlignedAt, Collected
  <2>5. QED
    BY <2>3, <2>4 DEF IInv
<1>11. QED
  BY <1>2, <1>3, <1>4, <1>5, <1>6, <1>7, <1>8, <1>9, <1>10 DEF Next

\* The invariant holds in every reachable state.
LEMMA Invariance == Spec => []IInv
<1>1. Init => IInv
  <2> SUFFICES ASSUME Init PROVE IInv
    OBVIOUS
  <2>1. /\ session = 1 /\ metaint \in Nat /\ next = AudioByte(1, metaint)
        /\ wire = << >> /\ buffer = << >> /\ meta_buffer = << >> /\ offset = 0
    BY DEF Init
  <2>2. next \in Byte /\ Sound(metaint, next)
    BY <2>1 DEF AudioByte, Byte, Sound
  <2>3. << >> \in Seq(Byte) /\ Len(<< >>) = 0
    BY EmptySeq
  <2>4. Available = 0 /\ Left = 1 /\ Idle /\ At(1) = next
    BY <2>1, <2>3 DEF Available, Left, Idle, At
  <2>5. Shape
    BY <2>1, <2>2, <2>3 DEF Init, Shape
  <2>6. Chain
    BY <2>2, <2>4 DEF Chain
  <2>7. Started /\ InPlace /\ Collected
    BY <2>1, <2>4 DEF Init, Started, InPlace, Collected
  <2>8. QED
    BY <2>5, <2>6, <2>7 DEF IInv
<1>2. QED
  BY <1>1, InvStep, PTL DEF Spec

-----------------------------------------------------------------------------
\* However the stream is cut into reads, the counters of process_stream_data
\* stand where the server is.
THEOREM NeverOutOfPlace == Spec => []Aligned
<1>1. IInv => Aligned
  <2> SUFFICES ASSUME IInv, radio = "STREAMING_AUDIO", icy_metaint > 0
               PROVE  Aligned
    BY DEF Aligned
  <2>1. Upcoming = At(1)
    <3>1. /\ Available \in Nat /\ Len(wire) \in Nat /\ Len(buffer) \in Nat
          /\ offset \in 0..Len(buffer) /\ wire \in Seq(Byte)
      BY ChainTyped DEF IInv, Shape
    <3>2. CASE ~Idle
      <4>1. Available >= 1
        BY <3>1, <3>2 DEF Idle, Available
      <4>2. QED
        BY <3>1, <3>2, <4>1 DEF Upcoming, At
    <3>3. CASE Idle /\ wire # << >>
      <4>1. Available = 0 /\ Len(wire) >= 1
        BY <3>1, <3>3, EmptySeq DEF Idle, Available
      <4>2. QED
        BY <3>3, <4>1 DEF Upcoming, At
    <3>4. CASE Idle /\ wire = << >>
      <4>1. Available = 0 /\ Len(wire) = 0
        BY <3>1, <3>4 DEF Idle, Available
      <4>2. QED
        BY <3>4, <4>1 DEF Upcoming, At
    <3>5. QED
      BY <3>2, <3>3, <3>4
  <2>2. AlignedAt(At(1))
    BY DEF IInv, InPlace
  <2>3. QED
    BY <2>1, <2>2 DEF Aligned, AlignedAt
<1>2. QED
  BY <1>1, Invariance, PTL

\* A sequence that agrees with two others one after the other.
LEMMA IsConcat ==
  ASSUME NEW S, NEW s \in Seq(S), NEW t \in Seq(S), NEW c \in Seq(S),
         Len(c) = Len(s) + Len(t),
         \A i \in 1..Len(s) : c[i] = s[i],
         \A i \in 1..Len(t) : c[Len(s) + i] = t[i]
  PROVE  c = s \o t
<1>1. /\ Len(s) \in Nat /\ Len(t) \in Nat
      /\ s \o t \in Seq(S) /\ Len(s \o t) = Len(c)
      /\ \A i \in 1..Len(c) : (s \o t)[i] = IF i <= Len(s) THEN s[i] ELSE t[i - Len(s)]
  BY ConcatProperties
<1>2. ASSUME NEW i \in 1..Len(c) PROVE c[i] = (s \o t)[i]
  <2>1. CASE i <= Len(s)
    BY <1>1, <2>1
  <2>2. CASE i > Len(s)
    <3>1. i - Len(s) \in 1..Len(t) /\ Len(s) + (i - Len(s)) = i
      BY <1>1, <2>2
    <3>2. c[Len(s) + (i - Len(s))] = t[i - Len(s)]
      BY <3>1
    <3>3. QED
      BY <1>1, <2>2, <3>1, <3>2
  <2>3. QED
    BY <1>1, <2>1, <2>2
<1>3. QED
  BY <1>1, <1>2, SeqEqual

\* Two bytes with the same fields are the same byte.
LEMMA ByteEqual ==
  ASSUME NEW x \in Byte, NEW y \in Byte,
         x.session = y.session, x.kind = y.kind, x.pos = y.pos,
         x.total = y.total, x.val = y.val
  PROVE  x = y
<1>1. x = [session |-> x.session, kind |-> x.kind, pos |-> x.pos,
           total |-> x.total, val |-> x.val]
  BY DEF Byte
<1>2. y = [session |-> y.session, kind |-> y.kind, pos |-> y.pos,
           total |-> y.total, val |-> y.val]
  BY DEF Byte
<1>3. QED
  BY <1>1, <1>2

\* A function on 1..n to bytes is a sequence of n bytes.
LEMMA FunctionIsSeq ==
  ASSUME NEW n \in Nat, NEW f \in [1..n -> Byte]
  PROVE  f \in Seq(Byte) /\ Len(f) = n
  OBVIOUS

\* The metadata block whose last byte is given.
WholeBlock(last) == [i \in 1..last.total |-> [last EXCEPT !.kind = "meta", !.pos = i]]

\* got is the whole block of b and last behind the first kept bytes of held.
Completes(b, last, held, got, kept) ==
  /\ b.kind = "meta" /\ InRun(b, last, b.total - b.pos)
  /\ Len(got) = kept + b.total
  /\ \A i \in 1..kept : got[i] = held[i]
  /\ \A i \in 1..b.total : InRun(b, got[kept + i], i - b.pos)

\* Bytes that are one block, from its first to its last, behind older ones.
LEMMA BlockBehind ==
  ASSUME NEW b \in Byte, NEW last \in Byte, NEW held \in Seq(Byte), NEW c \in Seq(Byte),
         NEW older \in 0..Len(held), Completes(b, last, held, c, older)
  PROVE  c = SubSeq(held, 1, older) \o WholeBlock(last)
<1> USE DEF Completes
<1>1. b.total \in Nat /\ b.pos \in Nat /\ Len(held) \in Nat /\ older \in Nat
  BY DEF Byte
<1>2. last.total = b.total /\ last.val = b.val /\ last.session = b.session
  BY DEF InRun
<1>3. PICK block : block = [i \in 1..last.total |-> [last EXCEPT !.kind = "meta", !.pos = i]]
                    /\ block = WholeBlock(last)
  BY DEF WholeBlock
<1>4. ASSUME NEW i \in 1..b.total
      PROVE  /\ block[i] \in Byte /\ block[i].session = b.session
             /\ block[i].kind = "meta" /\ block[i].total = b.total
             /\ block[i].val = b.val /\ block[i].pos = i
  <2>1. block[i] = [last EXCEPT !.kind = "meta", !.pos = i]
    BY <1>2, <1>3
  <2>2. i \in Nat
    BY <1>1
  <2>3. QED
    BY <1>2, <2>1, <2>2 DEF Byte
<1>5. block \in Seq(Byte) /\ Len(block) = b.total
  <2>1. block \in [1..b.total -> Byte]
    BY <1>2, <1>3, <1>4
  <2>2. QED
    BY <1>1, <2>1, FunctionIsSeq
<1>6. PICK front : front = SubSeq(held, 1, older)
  OBVIOUS
<1>7. front \in Seq(Byte) /\ Len(front) = older /\ \A i \in 1..older : front[i] = held[i]
  <2>1. \A i \in 1..older : held[i] \in Byte
    BY <1>1, ElementOfSeq
  <2>2. QED
    BY <1>1, <1>6, <2>1, SubSeqProperties
<1>8. ASSUME NEW i \in 1..b.total PROVE c[older + i] = block[i]
  <2>1. older + i \in 1..Len(c)
    <3>1. Len(c) = older + b.total
      OBVIOUS
    <3>2. QED
      BY <1>1, <3>1
  <2>2. InRun(b, c[older + i], i - b.pos) /\ c[older + i] \in Byte
    BY <2>1, ElementOfSeq
  <2>3. b.pos + (i - b.pos) = i
    BY <1>1
  <2>4. /\ c[older + i].session = b.session /\ c[older + i].kind = "meta"
        /\ c[older + i].total = b.total /\ c[older + i].val = b.val
        /\ c[older + i].pos = i
    BY <2>2, <2>3 DEF InRun
  <2>5. PICK x, y : x = c[older + i] /\ y = block[i]
    OBVIOUS
  <2>6. /\ x \in Byte /\ y \in Byte /\ x.session = y.session /\ x.kind = y.kind
        /\ x.pos = y.pos /\ x.total = y.total /\ x.val = y.val
    BY <1>4, <2>2, <2>4, <2>5
  <2>7. x = y
    BY <2>6, ByteEqual
  <2>8. QED
    BY <2>5, <2>7
<1>9. c = front \o block
  <2>1. Len(c) = Len(front) + Len(block)
    <3>1. Len(c) = older + b.total
      OBVIOUS
    <3>2. QED
      BY <1>5, <1>7, <3>1
  <2>2. \A i \in 1..Len(front) : c[i] = front[i]
    BY <1>7
  <2>3. \A i \in 1..Len(block) : c[Len(front) + i] = block[i]
    BY <1>5, <1>7, <1>8
  <2>4. QED
    BY <1>5, <1>7, <2>1, <2>2, <2>3, IsConcat
<1>10. QED
  BY <1>3, <1>6, <1>9

\* Stripping leaves a front of the bytes, and nothing but NULs behind it.
LEMMA StripIs ==
  ASSUME NEW s \in Seq(Byte)
  PROVE  \E k \in 0..Len(s) : /\ StripNuls(s) = SubSeq(s, 1, k)
                              /\ \A i \in (k+1)..Len(s) : IsNul(s[i])
<1>1. PICK I : I = {i \in 1..Len(s) : ~IsNul(s[i])}
  OBVIOUS
<1>2. PICK n : n = IF I # {} THEN Max(I) ELSE 0
  OBVIOUS
<1>3. StripNuls(s) = SubSeq(s, 1, n)
  BY <1>1, <1>2, Zenon DEF StripNuls, SelectLastInSeq
<1>4. Len(s) \in Nat /\ I \in SUBSET (1..Len(s))
  BY <1>1, LenProperties
<1>5. n \in 0..Len(s) /\ \A i \in I : i <= n
  <2>1. CASE I = {}
    BY <1>2, <1>4, <2>1
  <2>2. CASE I # {}
    <3>1. PICK m : m = Max(I)
      OBVIOUS
    <3>2. m \in I /\ \A i \in I : i <= m
      BY <1>4, <2>2, <3>1, MaxOfSet
    <3>3. n = m
      BY <1>2, <2>2, <3>1
    <3>4. QED
      BY <1>4, <3>2, <3>3
  <2>3. QED
    BY <2>1, <2>2
<1>6. \A i \in (n+1)..Len(s) : IsNul(s[i])
  <2>1. TAKE i \in (n+1)..Len(s)
  <2>2. i \in 1..Len(s) /\ ~(i <= n)
    BY <1>4, <1>5
  <2>3. QED
    BY <1>1, <1>5, <2>2
<1>7. QED
  BY <1>3, <1>5, <1>6

\* A completed block is printed, behind what meta_buffer held before it, and only
\* NULs at its end are left out: no byte of a block that arrives in pieces is
\* lost, doubled or taken from the audio.
THEOREM NoBlockIsTorn == Spec => BlocksAreWhole
<1> DEFINE Whole ==
             BlockEnds => \E k \in 0..Len(BlockBytes) :
               /\ title' = SubSeq(BlockBytes, 1, k)
               /\ \A i \in (k+1)..Len(BlockBytes) : IsNul(BlockBytes[i])
<1>1. ASSUME IInv, [Next]_vars PROVE Whole
  <2> SUFFICES ASSUME state = "READING_META_PAYLOAD", state' = "READING_AUDIO",
                      offset' > offset
               PROVE  \E k \in 0..Len(BlockBytes) :
                        /\ title' = SubSeq(BlockBytes, 1, k)
                        /\ \A i \in (k+1)..Len(BlockBytes) : IsNul(BlockBytes[i])
    BY DEF BlockEnds
  <2>1. DemuxPayload
    <3>1. offset \in Nat /\ ~(offset > offset) /\ ~(0 > offset)
      BY <1>1 DEF IInv, Shape
    <3>2. ~(UNCHANGED vars) /\ ~Send /\ ~TimeoutAndReconnect /\ ~PassAudio
      BY DEF vars, stream, Send, TimeoutAndReconnect, PassAudio
    <3>3. \A size : ~StartStream(size) /\ ~Read(size)
      BY <3>1 DEF StartStream, Read
    <3>4. ~DemuxAudio /\ ~DemuxLength
      BY DEF DemuxAudio, DemuxLength
    <3>5. QED
      BY <1>1, <3>2, <3>3, <3>4 DEF Next
  <2>2. PICK n : n = Smaller(meta_bytes_remaining, Available)
    OBVIOUS
  <2> DEFINE b == At(1)
             c == meta_buffer \o Taken(n)
             older == Len(meta_buffer) - (b.pos - 1)
             last == buffer[offset']
  <2>3. /\ radio = "STREAMING_AUDIO" /\ icy_metaint > 0
        /\ Available >= 1 /\ Available \in Nat /\ b \in Byte /\ Sound(metaint, b)
    BY <1>1, <2>1, Busy DEF DemuxPayload
  <2>4. b.kind = "meta" /\ meta_bytes_remaining = b.total - b.pos + 1
    BY <1>1, <2>3 DEF IInv, InPlace, AlignedAt
  <2>5. b.pos \in Nat /\ b.total \in Nat /\ b.pos >= 1 /\ b.pos <= b.total
    BY <2>3 DEF Byte, Sound
  <2>6. meta_bytes_remaining - n = 0 /\ Consume(n) /\ title' = StripNuls(c)
    BY <2>1, <2>2 DEF DemuxPayload
  <2>7. n \in 1..Available /\ n = b.total - b.pos + 1
    <3>1. n \in Int /\ n <= Available
      BY <2>2, <2>3, <2>4, <2>5 DEF Smaller
    <3>2. QED
      BY <2>3, <2>4, <2>5, <2>6, <3>1
  <2>8. n \in 0..Available /\ n <= At(1).total - At(1).pos + 1 /\ n - 1 = b.total - b.pos
    BY <2>3, <2>5, <2>7
  <2>9. /\ meta_buffer \in Seq(Byte) /\ Len(meta_buffer) \in Nat /\ offset \in Nat
        /\ offset' = offset + n
    BY <1>1, <2>6 DEF IInv, Shape, Consume
  <2>10. /\ c \in Seq(Byte) /\ Len(c) = Len(meta_buffer) + n
         /\ older \in 0..Len(meta_buffer)
         /\ \A i \in 1..Len(meta_buffer) : c[i] = meta_buffer[i]
         /\ \A i \in 1..b.pos - 1 + n : InRun(b, c[older + i], i - b.pos)
    BY <1>1, <2>3, <2>7, <2>8, CollectMore
  <2>11. InRun(b, last, b.total - b.pos) /\ last \in Byte
    <3>1. last = At(n)
      BY <1>1, <2>7, <2>8, <2>9, TakenIsFront DEF IInv
    <3>2. n \in 1..Left /\ 1 \in 1..Left /\ \A k \in 1..Left : At(k) \in Byte
      BY <1>1, <2>3, <2>7, ChainTyped DEF IInv
    <3>3. CASE n = 1
      BY <2>5, <2>7, <3>1, <3>2, <3>3 DEF InRun
    <3>4. CASE n > 1
      <4>1. Succeeds(metaint, At(1), At(n), n - 1)
        BY <1>1, <3>2, <3>4 DEF IInv, Chain
      <4>2. QED
        BY <2>5, <2>8, <3>1, <3>2, <4>1 DEF Succeeds
    <3>5. QED
      BY <2>7, <3>3, <3>4
  <2>12. PICK first, final, got, kept : first = b /\ final = last /\ got = c /\ kept = older
    OBVIOUS
  <2> HIDE DEF b, c, older, last
  <2>13. /\ first \in Byte /\ first.kind = "meta" /\ final \in Byte
         /\ InRun(first, final, first.total - first.pos)
         /\ got \in Seq(Byte) /\ kept \in 0..Len(meta_buffer)
         /\ \A i \in 1..kept : got[i] = meta_buffer[i]
    BY <2>3, <2>4, <2>9, <2>10, <2>11, <2>12
  <2>14. first.pos \in Nat /\ first.total \in Nat /\ first.pos - 1 + n = first.total
         /\ offset' - offset = n /\ n \in Nat
    BY <2>5, <2>7, <2>9, <2>12
  <2>15. kept = Len(meta_buffer) - (first.pos - 1)
    BY <2>12 DEF older
  <2>16. final.total = first.total
    BY <2>13 DEF InRun
  <2>17. Len(got) = kept + first.total
    <3>1. Len(got) = Len(meta_buffer) + n
      BY <2>10, <2>12
    <3>2. QED
      BY <2>9, <2>14, <2>15, <3>1
  <2>18. kept = Len(meta_buffer) - (final.total - (offset' - offset))
    BY <2>9, <2>14, <2>15, <2>16
  <2>19. \A i \in 1..first.total : InRun(first, got[kept + i], i - first.pos)
    BY <2>10, <2>12, <2>14
  <2>20. Completes(first, final, meta_buffer, got, kept)
    BY <2>13, <2>17, <2>19 DEF Completes
  <2>21. got = SubSeq(meta_buffer, 1, kept) \o WholeBlock(final)
    BY <2>9, <2>13, <2>20, BlockBehind
  <2>22. title' = StripNuls(got) /\ final = buffer[offset']
    BY <2>6, <2>12 DEF last
  <2>23. BlockBytes = got
    BY <2>18, <2>21, <2>22 DEF WholeBlock, BlockBytes
  <2>24. QED
    BY <2>13, <2>22, <2>23, StripIs
<1>2. QED
  BY <1>1, Invariance, PTL DEF Spec, BlocksAreWhole

(***************************************************************************)
(* The audio among bytes.                                                  *)
(***************************************************************************)
\* What the fold of AudioAmong does with one byte.
Adds(found, b) == IF b.kind = "audio" THEN Append(found, b) ELSE found

\* What it has found after each of the bytes q.
Finds(c, q) == c[0] = <<>> /\ \A k \in 1..Len(q) : c[k] = Adds(c[k-1], q[k])

\* Folding is finding byte by byte.
LEMMA AudioChain ==
  ASSUME NEW q \in Seq(Byte)
  PROVE  \E c \in [0..Len(q) -> Seq(Byte)] : Finds(c, q) /\ AudioAmong(q) = c[Len(q)]
<1>n. PICK n \in Nat : n = Len(q) /\ DOMAIN q = 1..n /\ \A k \in 1..n : q[k] \in Byte
  BY LenProperties, ElementOfSeq
<1>e. PICK nothing \in Seq(Byte) : nothing = <<>>
  BY EmptySeq
<1> DEFINE Body1(g) == [s \in SUBSET (1..n) |->
                          IF s = {} THEN nothing ELSE Adds(g[s \ {Max(s)}], q[Max(s)])]
<1> DEFINE M == [x \in Seq(Byte) \X (1..n) |-> Adds(x[1], q[x[2]])]
<1>2. ASSUME NEW f \in Seq(Byte), NEW k \in 1..n PROVE Adds(f, q[k]) \in Seq(Byte)
  <2>1. q[k] \in Byte
    BY <1>n
  <2>2. Append(f, q[k]) \in Seq(Byte)
    BY <2>1, AppendProperties
  <2>3. QED
    BY <2>2 DEF Adds
<1>3. M \in [Seq(Byte) \X (1..n) -> Seq(Byte)]
  BY <1>2
<1>4. \E h : h = Body1(h)
  <2>h. PICK h \in [SUBSET (1..n) -> Seq(Byte)] : FoldsFrom(h, nothing, n, M)
    <3> HIDE DEF M
    <3> QED
      BY <1>3, SegmentRecursion
  <2>1. \A s \in SUBSET (1..n) : h[s] = IF s = {} THEN nothing ELSE M[<<h[s \ {Max(s)}], Max(s)>>]
    <3> HIDE DEF M
    <3> QED
      BY <2>h DEF FoldsFrom
  <2>2. ASSUME NEW s \in SUBSET (1..n), s # {}
        PROVE  h[s] = Adds(h[s \ {Max(s)}], q[Max(s)])
    <3>1. Max(s) \in 1..n
      BY <2>2, MaxOfSet
    <3>2. h[s \ {Max(s)}] \in Seq(Byte)
      OBVIOUS
    <3> QED
      BY <2>1, <2>2, <3>1, <3>2
  <2>3. \A s \in SUBSET (1..n) : h[s] = Body1(h)[s]
    BY <2>1, <2>2
  <2>4. h = Body1(h)
    BY <2>3
  <2> QED
    BY <2>4
<1>i. PICK iter : iter = CHOOSE g : g = Body1(g)
  OBVIOUS
<1>5. iter = Body1(iter)
  BY <1>4, <1>i, Zenon
<1>6. AudioAmong(q) = iter[1..n]
  <2>1. DOMAIN q = 1..n
    BY <1>n
  <2> QED
    BY <1>e, <1>i, <2>1, Zenon DEF AudioAmong, Adds, FoldLeft, MapThenFoldSet
<1>7. ASSUME NEW k \in 1..n PROVE iter[1..k] = Adds(iter[1..k-1], q[k])
  <2>1. Max(1..k) = k /\ (1..k) \ {Max(1..k)} = 1..k-1
    BY MaxOfSegment
  <2>2. 1..k \in SUBSET (1..n) /\ 1..k # {}
    <3>1. k \in 1..k /\ \A j \in 1..k : j \in 1..n
      OBVIOUS
    <3> HIDE DEF Body1
    <3> QED
      BY <3>1
  <2>3. iter[1..k] = Adds(iter[(1..k) \ {Max(1..k)}], q[Max(1..k)])
    <3>1. Body1(iter)[1..k] = Adds(iter[(1..k) \ {Max(1..k)}], q[Max(1..k)])
      BY <2>2
    <3> HIDE DEF Body1
    <3> QED
      BY <1>5, <3>1
  <2> HIDE DEF Body1
  <2> QED
    BY <2>1, <2>3
<1>8. iter[1..0] = nothing
  <2>1. Body1(iter)[1..0] = nothing
    <3>1. 1..0 = {}
      OBVIOUS
    <3> QED
      BY <3>1
  <2> HIDE DEF Body1
  <2> QED
    BY <1>5, <2>1
<1> HIDE DEF M, Body1
<1> DEFINE c == [k \in 0..n |-> iter[1..k]]
<1>9. c[0] = <<>>
  BY <1>8, <1>e
<1>10. \A k \in 1..n : c[k] = Adds(c[k-1], q[k])
  BY <1>7
<1>11. AudioAmong(q) = c[n]
  BY <1>6
<1>12. \A k \in 0..n : c[k] \in Seq(Byte)
  <2>1. \A k \in 1..n : c[k-1] \in Seq(Byte) => c[k] \in Seq(Byte)
    <3> HIDE DEF c
    <3> QED
      BY <1>2, <1>10
  <2>2. c[0] \in Seq(Byte)
    BY <1>9, EmptySeq
  <2> HIDE DEF c
  <2> QED
    BY <2>1, <2>2, ChainStays
<1>13. c \in [0..n -> Seq(Byte)]
  <2>1. \A k \in 0..n : iter[1..k] \in Seq(Byte)
    BY <1>12
  <2> QED
    BY <2>1
<1>14. Finds(c, q)
  <2> HIDE DEF c
  <2> QED
    BY <1>n, <1>9, <1>10 DEF Finds
<1> HIDE DEF c
<1> QED
  BY <1>n, <1>11, <1>13, <1>14

\* Of bytes that are all audio it finds all,
LEMMA AllAudio ==
  ASSUME NEW q \in Seq(Byte), \A i \in 1..Len(q) : q[i].kind = "audio"
  PROVE  AudioAmong(q) = q
<1>1. PICK n \in Nat : n = Len(q)
  BY LenProperties
<1>2. PICK c \in [0..n -> Seq(Byte)] : Finds(c, q) /\ AudioAmong(q) = c[n]
  BY <1>1, AudioChain
<1> DEFINE Is(k) == Len(c[k]) = k /\ \A i \in 1..k : c[k][i] = q[i]
<1> DEFINE G == {k \in Nat : k <= n => Is(k)}
<1>3. 0 \in G
  <2>1. c[0] = <<>>
    BY <1>2 DEF Finds
  <2>2. QED
    BY <2>1, EmptySeq
<1>4. ASSUME NEW k \in Nat, k \in G PROVE k + 1 \in G
  <2> SUFFICES ASSUME k + 1 <= n PROVE Is(k + 1)
    OBVIOUS
  <2>1. PICK a, d, b : a = c[k] /\ d = c[k + 1] /\ b = q[k + 1]
    OBVIOUS
  <2>2. a \in Seq(Byte) /\ Len(a) = k /\ (\A i \in 1..k : a[i] = q[i]) /\ k + 1 \in 1..n
    BY <1>4, <2>1
  <2>3. b \in Byte /\ b.kind = "audio"
    BY <1>1, <2>1, <2>2, ElementOfSeq
  <2>4. d = Append(a, b)
    <3>1. c[k + 1] = Adds(c[(k + 1) - 1], q[k + 1]) /\ (k + 1) - 1 = k
      BY <1>1, <1>2, <2>2 DEF Finds
    <3>2. QED
      BY <2>1, <2>3, <3>1 DEF Adds
  <2>5. Len(d) = k + 1 /\ d[k + 1] = b /\ \A i \in 1..k : d[i] = a[i]
    <3>1. a \in Seq(Byte) /\ b \in Byte /\ Len(a) = k
      BY <2>2, <2>3
    <3>2. /\ Len(Append(a, b)) = Len(a) + 1 /\ Append(a, b)[Len(a) + 1] = b
          /\ \A i \in 1..Len(a) : Append(a, b)[i] = a[i]
      BY <3>1, AppendProperties
    <3>3. QED
      BY <2>4, <3>1, <3>2
  <2>6. \A i \in 1..k + 1 : d[i] = q[i]
    BY <2>1, <2>2, <2>5
  <2>7. QED
    BY <2>1, <2>5, <2>6
<1>5. n \in G
  <2> HIDE DEF G
  <2> QED
    BY <1>3, <1>4, SetInduction
<1>6. c[n] = q
  <2>1. c[n] \in Seq(Byte) /\ Len(c[n]) = Len(q) /\ \A i \in 1..Len(q) : c[n][i] = q[i]
    BY <1>1, <1>5
  <2>2. PICK d : d = c[n]
    OBVIOUS
  <2>3. QED
    BY <2>1, <2>2, SeqEqual
<1>7. QED
  BY <1>2, <1>6

\* and of bytes without audio, none.
LEMMA NoAudio ==
  ASSUME NEW q \in Seq(Byte), \A i \in 1..Len(q) : q[i].kind # "audio"
  PROVE  AudioAmong(q) = <<>>
<1>1. PICK n \in Nat : n = Len(q)
  BY LenProperties
<1>2. PICK c \in [0..n -> Seq(Byte)] : Finds(c, q) /\ AudioAmong(q) = c[n]
  BY <1>1, AudioChain
<1>3. PICK T : T = {<<>>}
  OBVIOUS
<1>4. c[0] \in T /\ \A k \in 1..n : c[k-1] \in T => c[k] \in T
  BY <1>1, <1>2, <1>3 DEF Finds, Adds
<1>5. \A k \in 0..n : c[k] \in T
  BY <1>4, ChainStays
<1>6. QED
  BY <1>2, <1>3, <1>5

(***************************************************************************)
(* Types.                                                                  *)
(***************************************************************************)
\* Stripping NULs leaves bytes.
LEMMA StripTyped ==
  ASSUME NEW s \in Seq(Byte)
  PROVE  StripNuls(s) \in Seq(Byte)
<1>1. PICK k \in 0..Len(s) : StripNuls(s) = SubSeq(s, 1, k)
  BY StripIs
<1>2. Len(s) \in Nat
  BY LenProperties
<1>3. \A i \in 1..k : s[i] \in Byte
  BY <1>2, ElementOfSeq
<1>4. QED
  BY <1>1, <1>2, <1>3, SubSeqProperties

\* What IInv leaves out of TypeOK.
Rest ==
  /\ state \in {"READING_AUDIO", "READING_META_LENGTH", "READING_META_PAYLOAD"}
  /\ audio \in Seq(Byte) /\ title \in Seq(Byte)

\* What an iteration consumes, and the types of what it hands on.
LEMMA RestStep ==
  ASSUME IInv, Rest, [Next]_vars
  PROVE  Rest'
<1>1. CASE Send
  BY <1>1 DEF Rest, Send, stream
<1>2. ASSUME NEW size, StartStream(size) \/ Read(size) PROVE Rest'
  BY <1>2 DEF Rest, StartStream, Read, stream
<1>3. CASE TimeoutAndReconnect \/ UNCHANGED vars
  BY <1>3 DEF Rest, TimeoutAndReconnect, vars, stream
<1>4. Available \in Nat /\ bytes_until_metadata \in Nat /\ meta_bytes_remaining \in Nat
  BY ChainTyped DEF IInv, Shape
<1>5. <<>> \in Seq(Byte)
  BY EmptySeq
<1>6. \A n \in 0..Available : Taken(n) \in Seq(Byte)
  BY TakenIsFront DEF IInv
<1>7. CASE PassAudio
  <2>1. Available \in 0..Available
    BY <1>4
  <2>2. QED
    BY <1>6, <1>7, <2>1 DEF Rest, PassAudio
<1>8. CASE DemuxAudio
  <2>1. Smaller(bytes_until_metadata, Available) \in 0..Available
    BY <1>4 DEF Smaller
  <2>2. QED
    BY <1>6, <1>8, <2>1 DEF Rest, DemuxAudio
<1>9. CASE DemuxLength
  BY <1>5, <1>9 DEF Rest, DemuxLength
<1>10. CASE DemuxPayload
  <2>1. PICK n \in 0..Available : n = Smaller(meta_bytes_remaining, Available)
    BY <1>4 DEF Smaller
  <2>2. PICK old, new : old = meta_buffer /\ new = Taken(n)
    OBVIOUS
  <2>3. old \in Seq(Byte) /\ new \in Seq(Byte)
    BY <1>6, <2>2 DEF IInv, Shape
  <2>4. PICK whole : whole = old \o new
    OBVIOUS
  <2>5. StripNuls(whole) \in Seq(Byte)
    BY <2>3, <2>4, ConcatProperties, StripTyped
  <2>6. /\ title' = StripNuls(whole) \/ title' = title
        /\ state' \in {state, "READING_AUDIO"} /\ audio' = <<>>
    BY <1>10, <2>1, <2>2, <2>4 DEF DemuxPayload
  <2>7. QED
    BY <1>5, <2>5, <2>6 DEF Rest
<1>11. QED
  BY <1>1, <1>2, <1>3, <1>7, <1>8, <1>9, <1>10 DEF Next

\* All variables stay within their types, for streams of any length.
THEOREM TypeCorrect == Spec => []TypeOK
<1>1. Init => Rest
  BY EmptySeq DEF Init, Rest
<1>2. IInv /\ Rest /\ [Next]_vars => Rest'
  BY RestStep
<1>3. IInv /\ Rest => TypeOK
  BY DEF IInv, Shape, Started, Rest, TypeOK
<1>4. QED
  BY <1>1, <1>2, <1>3, Invariance, PTL DEF Spec

(***************************************************************************)
(* Whatever is audio is played.                                            *)
(***************************************************************************)
\* A stream without metadata is audio and nothing else.
PlainStream ==
  metaint = 0 =>
    /\ next.kind = "audio" /\ \A i \in 1..Len(wire) : wire[i].kind = "audio"
    /\ \A i \in 1..Len(buffer) : i > offset => buffer[i].kind = "audio"

\* A read moves bytes from the wire to the buffer.
LEMMA FetchKeepsPlain ==
  ASSUME IInv, PlainStream, NEW n \in 0..Len(wire),
         UNCHANGED <<metaint, next>>, offset' = 0, buffer' = SubSeq(wire, 1, n),
         wire' = SubSeq(wire, n + 1, Len(wire))
  PROVE  PlainStream'
<1> SUFFICES ASSUME metaint = 0 PROVE PlainStream'
  BY DEF PlainStream
<1>1. PICK w : w = wire
  OBVIOUS
<1>2. w \in Seq(Byte) /\ Len(w) \in Nat /\ n \in 0..Len(w)
  BY <1>1, LenProperties DEF IInv, Shape
<1>3. \A i \in 1..Len(w) : w[i] \in Byte /\ w[i].kind = "audio"
  BY <1>1, <1>2, ElementOfSeq DEF PlainStream
<1>4. \A i \in 1..Len(buffer') : buffer'[i].kind = "audio"
  <2>1. PICK b : b = SubSeq(w, 1, n)
    OBVIOUS
  <2>2. Len(b) = n /\ \A i \in 1..n : b[i] = w[i]
    <3>1. \A i \in 1..n : w[i] \in Byte
      BY <1>2, <1>3
    <3>2. QED
      BY <1>2, <2>1, <3>1, SubSeqProperties
  <2>3. \A i \in 1..Len(b) : b[i].kind = "audio"
    BY <1>2, <1>3, <2>2
  <2>4. QED
    BY <1>1, <2>1, <2>3
<1>5. \A i \in 1..Len(wire') : wire'[i].kind = "audio"
  <2>1. PICK m \in Nat : m = Len(w)
    BY <1>2
  <2>a. PICK k \in Nat : k = n + 1
    BY <1>2
  <2>2. PICK b : b = SubSeq(w, k, m) /\ k = n + 1
    BY <2>a
  <2>3. \A i \in k..m : w[i] \in Byte
    BY <1>2, <1>3, <2>1, <2>2
  <2>4. Len(b) = (IF k <= m THEN m - k + 1 ELSE 0) /\ \A i \in 1..m - k + 1 : b[i] = w[k + i - 1]
    <3>1. PICK S : S = Byte
      OBVIOUS
    <3>2. b = SubSeq(w, k, m) /\ \A i \in k..m : w[i] \in S
      BY <2>2, <2>3, <3>1
    <3>3. k \in Int /\ m \in Int
      OBVIOUS
    <3>4. /\ Len(SubSeq(w, k, m)) = IF k <= m THEN m - k + 1 ELSE 0
          /\ \A i \in 1..m - k + 1 : SubSeq(w, k, m)[i] = w[k + i - 1]
      BY ONLY <3>2, <3>3, SubSeqProperties
    <3>5. QED
      BY ONLY <3>2, <3>4
  <2>5. \A i \in 1..Len(b) : b[i].kind = "audio"
    <3> SUFFICES ASSUME NEW i \in 1..Len(b) PROVE b[i].kind = "audio"
      OBVIOUS
    <3>1. i \in 1..m - k + 1 /\ k + i - 1 \in 1..m
      BY <1>2, <2>1, <2>2, <2>4
    <3>2. QED
      BY <1>3, <2>1, <2>4, <3>1
  <2>6. QED
    BY <1>1, <2>1, <2>2, <2>5
<1>6. QED
  BY <1>4, <1>5 DEF PlainStream

\* A stream stays plain.
LEMMA PlainStep ==
  ASSUME IInv, PlainStream, [Next]_vars
  PROVE  PlainStream'
<1>1. CASE Send
  <2> SUFFICES ASSUME metaint = 0 PROVE PlainStream'
    BY <1>1 DEF PlainStream, Send
  <2>1. PICK w, b : w = wire /\ b = next
    OBVIOUS
  <2>2. w \in Seq(Byte) /\ b \in Byte /\ Len(w) \in Nat
    BY <2>1, LenProperties DEF IInv, Shape
  <2>3. b.kind = "audio" /\ \A i \in 1..Len(w) : w[i].kind = "audio"
    BY <2>1 DEF PlainStream
  <2>4. PICK v : v = Append(w, b)
    OBVIOUS
  <2>5. Len(v) = Len(w) + 1 /\ v[Len(w) + 1] = b /\ \A i \in 1..Len(w) : v[i] = w[i]
    BY <2>2, <2>4, AppendProperties
  <2>6. \A i \in 1..Len(v) : v[i].kind = "audio"
    BY <2>2, <2>3, <2>5
  <2>7. next'.kind = "audio"
    <3>1. next' \in Successors(0, b)
      BY <1>1, <2>1 DEF Send
    <3>2. CASE b.pos < b.total
      <4>1. next' = [b EXCEPT !.pos = @ + 1]
        BY <3>1, <3>2 DEF Successors
      <4>2. QED
        BY <2>2, <2>3, <4>1 DEF Byte
    <3>3. CASE ~(b.pos < b.total)
      <4>1. next' = AudioByte(b.session, 0)
        BY <2>3, <3>1, <3>3 DEF Successors
      <4>2. QED
        BY <4>1 DEF AudioByte
    <3>4. QED
      BY <3>2, <3>3
  <2>8. wire' = v /\ UNCHANGED <<metaint, buffer, offset>>
    BY <1>1, <2>1, <2>4 DEF Send
  <2>9. QED
    BY <2>6, <2>7, <2>8 DEF PlainStream
<1>2. ASSUME NEW n \in 0..Len(wire), StartStream(n) \/ Read(n) PROVE PlainStream'
  <2>1. /\ UNCHANGED <<metaint, next>> /\ offset' = 0 /\ buffer' = SubSeq(wire, 1, n)
        /\ wire' = SubSeq(wire, n + 1, Len(wire))
    BY <1>2 DEF StartStream, Read
  <2>2. QED
    BY <2>1, FetchKeepsPlain
<1>3. \A n \in 0..Smaller(Len(wire), BufferSize) : n \in 0..Len(wire)
  BY ChainTyped DEF Smaller, IInv
<1>4. CASE TimeoutAndReconnect
  <2>1. /\ offset = Len(buffer) /\ next'.kind = "audio" /\ wire' = <<>>
        /\ UNCHANGED <<buffer, offset>>
    BY <1>4 DEF TimeoutAndReconnect, Idle, AudioByte
  <2>2. Len(wire') = 0 /\ Len(buffer) \in Nat
    BY <2>1, EmptySeq, LenProperties DEF IInv, Shape
  <2>3. QED
    BY <2>1, <2>2 DEF PlainStream
<1>5. CASE UNCHANGED vars
  BY <1>5 DEF PlainStream, vars, network
<1>6. ASSUME NEW n \in Nat, Consume(n) PROVE PlainStream'
  <2>1. offset \in Nat /\ offset' = offset + n /\ UNCHANGED <<metaint, next, wire, buffer>>
    BY <1>6 DEF IInv, Shape, Consume, network
  <2>2. QED
    BY <2>1 DEF PlainStream
<1>7. CASE PassAudio \/ DemuxAudio \/ DemuxLength \/ DemuxPayload
  <2>1. Available \in Nat /\ bytes_until_metadata \in Nat /\ meta_bytes_remaining \in Nat
    BY ChainTyped DEF IInv, Shape
  <2>2. \E n \in Nat : Consume(n)
    <3>1. Smaller(bytes_until_metadata, Available) \in Nat
      BY <2>1 DEF Smaller
    <3>2. Smaller(meta_bytes_remaining, Available) \in Nat
      BY <2>1 DEF Smaller
    <3>3. QED
      BY <1>7, <2>1, <3>1, <3>2 DEF PassAudio, DemuxAudio, DemuxLength, DemuxPayload
  <2>3. QED
    BY <1>6, <2>2
<1>8. ASSUME NEW n \in 0..Smaller(Len(wire), BufferSize), StartStream(n) PROVE PlainStream'
  BY <1>2, <1>3, <1>8
<1>9. ASSUME NEW n \in 1..Smaller(Len(wire), BufferSize), Read(n) PROVE PlainStream'
  <2>1. n \in 0..Smaller(Len(wire), BufferSize)
    OBVIOUS
  <2>2. QED
    BY <1>2, <1>3, <1>9, <2>1
<1>10. QED
  BY <1>1, <1>4, <1>5, <1>7, <1>8, <1>9 DEF Next

\* The first n bytes left are of the kind of the first if they are of its run.
LEMMA OneKind ==
  ASSUME IInv, ~Idle, NEW n \in 1..Available, n <= At(1).total - At(1).pos + 1
  PROVE  \A k \in 1..n : At(k).kind = At(1).kind
<1>1. /\ Left \in Nat /\ Left >= Available + 1 /\ Available \in Nat
      /\ At(1).pos \in Nat /\ At(1).total \in Nat
  BY ChainTyped, Busy DEF IInv, Byte
<1>2. ASSUME NEW k \in 1..n, k # 1 PROVE At(k).kind = At(1).kind
  <2>1. k \in 1..Left /\ 1 \in 1..Left /\ 1 < k /\ k - 1 <= At(1).total - At(1).pos
    BY <1>1, <1>2
  <2>2. Succeeds(metaint, At(1), At(k), k - 1)
    BY <2>1 DEF IInv, Chain
  <2>3. QED
    BY <2>1, <2>2 DEF Succeeds, InRun
<1>3. QED
  BY <1>2

\* An iteration that consumes n bytes of audio and plays them, or no audio and
\* plays nothing.
LEMMA PlaysAudio ==
  ASSUME IInv, NEW n \in 1..Available, Consume(n), audio' = Taken(n),
         \A k \in 1..n : At(k).kind = "audio"
  PROVE  audio' = AudioAmong(SubSeq(buffer, offset + 1, offset'))
<1>1. PICK q : q = Taken(n)
  OBVIOUS
<1>2. n \in 0..Available
  BY ChainTyped DEF IInv
<1>3. q \in Seq(Byte) /\ Len(q) = n /\ \A k \in 1..n : q[k] = At(k)
  BY <1>1, <1>2, TakenIsFront DEF IInv
<1>4. AudioAmong(q) = q
  BY <1>3, AllAudio
<1>5. SubSeq(buffer, offset + 1, offset') = q
  BY <1>1 DEF Taken, Consume
<1>6. QED
  BY <1>1, <1>4, <1>5

LEMMA PlaysNothing ==
  ASSUME IInv, NEW n \in 1..Available, Consume(n), audio' = <<>>,
         \A k \in 1..n : At(k).kind # "audio"
  PROVE  audio' = AudioAmong(SubSeq(buffer, offset + 1, offset'))
<1>1. PICK q : q = Taken(n)
  OBVIOUS
<1>2. n \in 0..Available
  BY ChainTyped DEF IInv
<1>3. q \in Seq(Byte) /\ Len(q) = n /\ \A k \in 1..n : q[k] = At(k)
  BY <1>1, <1>2, TakenIsFront DEF IInv
<1>4. AudioAmong(q) = <<>>
  BY <1>3, NoAudio
<1>5. SubSeq(buffer, offset + 1, offset') = q
  BY <1>1 DEF Taken, Consume
<1>6. QED
  BY <1>4, <1>5

\* Every iteration plays exactly the audio among the bytes it consumes, with and
\* without metadata, wherever reads cut the stream.
THEOREM NoAudioIsLost == Spec => AudioIsPlayed
<1> DEFINE Played ==
             offset' > offset => audio' = AudioAmong(SubSeq(buffer, offset + 1, offset'))
<1>1. ASSUME IInv, PlainStream, [Next]_vars PROVE Played
  <2> SUFFICES ASSUME offset' > offset PROVE Played
    OBVIOUS
  <2>1. PassAudio \/ DemuxAudio \/ DemuxLength \/ DemuxPayload
    <3>1. offset \in Nat /\ ~(offset > offset) /\ ~(0 > offset)
      BY <1>1 DEF IInv, Shape
    <3>2. ~(UNCHANGED vars) /\ ~Send /\ ~TimeoutAndReconnect
      BY <3>1 DEF vars, Send, TimeoutAndReconnect
    <3>3. \A size : ~StartStream(size) /\ ~Read(size)
      BY <3>1 DEF StartStream, Read
    <3>4. QED
      BY <1>1, <3>2, <3>3 DEF Next
  <2>2. ~Idle
    BY <2>1 DEF PassAudio, DemuxAudio, DemuxLength, DemuxPayload
  <2>3. /\ radio = "STREAMING_AUDIO" /\ icy_metaint = metaint
        /\ Available >= 1 /\ Available \in Nat /\ At(1) \in Byte /\ Sound(metaint, At(1))
    BY <1>1, <2>2, Busy
  <2>4. At(1).pos \in Nat /\ At(1).total \in Nat /\ At(1).pos >= 1 /\ At(1).pos <= At(1).total
    BY <2>3 DEF Byte, Sound
  <2>5. CASE PassAudio
    <3>1. PICK n \in 1..Available : n = Available
      BY <2>3
    <3>2. Consume(n) /\ audio' = Taken(n) /\ metaint = 0
      BY <2>3, <2>5, <3>1 DEF PassAudio
    <3>3. \A k \in 1..n : At(k).kind = "audio"
      <4> SUFFICES ASSUME NEW k \in 1..n PROVE At(k).kind = "audio"
        OBVIOUS
      <4>1. offset + k \in 1..Len(buffer) /\ offset + k > offset /\ k <= Available
        BY <1>1, <2>3, <3>1 DEF IInv, Shape, Available
      <4>2. QED
        BY <1>1, <3>2, <4>1 DEF PlainStream, At
    <3>4. QED
      BY <1>1, <3>2, <3>3, PlaysAudio
  <2>6. CASE DemuxAudio
    <3>1. At(1).kind = "audio" /\ bytes_until_metadata = At(1).total - At(1).pos + 1
      BY <1>1, <2>3, <2>6 DEF IInv, InPlace, AlignedAt, DemuxAudio
    <3>2. PICK n \in 1..Available : /\ n = Smaller(bytes_until_metadata, Available)
                                    /\ n <= At(1).total - At(1).pos + 1
      BY <2>3, <2>4, <3>1 DEF Smaller
    <3>3. Consume(n) /\ audio' = Taken(n)
      BY <2>6, <3>2 DEF DemuxAudio
    <3>4. \A k \in 1..n : At(k).kind = "audio"
      BY <1>1, <2>2, <3>1, <3>2, OneKind
    <3>5. QED
      BY <1>1, <3>3, <3>4, PlaysAudio
  <2>7. CASE DemuxLength
    <3>1. At(1).kind = "length"
      BY <1>1, <2>3, <2>7 DEF IInv, InPlace, AlignedAt, DemuxLength
    <3>2. PICK n \in 1..Available : n = 1
      BY <2>3
    <3>3. Consume(n) /\ audio' = <<>>
      BY <2>7, <3>2 DEF DemuxLength
    <3>4. \A k \in 1..n : At(k).kind # "audio"
      BY <3>1, <3>2
    <3>5. QED
      BY <1>1, <3>3, <3>4, PlaysNothing
  <2>8. CASE DemuxPayload
    <3>1. At(1).kind = "meta" /\ meta_bytes_remaining = At(1).total - At(1).pos + 1
      BY <1>1, <2>3, <2>8 DEF IInv, InPlace, AlignedAt, DemuxPayload
    <3>2. PICK n \in 1..Available : /\ n = Smaller(meta_bytes_remaining, Available)
                                    /\ n <= At(1).total - At(1).pos + 1
      BY <2>3, <2>4, <3>1 DEF Smaller
    <3>3. Consume(n) /\ audio' = <<>>
      BY <2>8, <3>2 DEF DemuxPayload
    <3>4. \A k \in 1..n : At(k).kind # "audio"
      BY <1>1, <2>2, <3>1, <3>2, OneKind
    <3>5. QED
      BY <1>1, <3>3, <3>4, PlaysNothing
  <2>9. QED
    BY <2>1, <2>5, <2>6, <2>7, <2>8
<1>2. Init => PlainStream
  BY EmptySeq DEF Init, PlainStream, AudioByte
<1>3. IInv /\ PlainStream /\ [Next]_vars => PlainStream'
  BY PlainStep
<1>4. QED
  BY <1>1, <1>2, <1>3, Invariance, PTL DEF Spec, AudioIsPlayed
=============================================================================
