------------------------------ MODULE IcyDemux ------------------------------
(***************************************************************************)
(* The stream demultiplexer of the radio client (process_stream_data in    *)
(* client.cpp) between a server that sends an ICY stream and the two       *)
(* outputs of the program: audio to stdout, metadata to stderr.            *)
(*                                                                         *)
(* After every icy_metaint bytes of audio the server sends one byte with a *)
(* length, then Multiplier times that many bytes of metadata, padded with  *)
(* NUL bytes.  The network splits the stream anywhere, and the client may  *)
(* time out anywhere and start over with a new stream.                     *)
(*                                                                         *)
(* A byte carries, besides what the client can see of it (val), what it is *)
(* in the server's stream: its kind and its position in its run of audio   *)
(* or metadata.  The client's steps look only at val.                      *)
(***************************************************************************)
EXTENDS Integers, Sequences, SequencesExt

CONSTANTS
  Multiplier,  \* ICY_METADATA_MULTIPLIER, 16 in the code
  MaxLength,   \* the largest length byte servers send, at most 255
  Metaints,    \* the values of icy-metaint servers announce; 0: no metadata
  BufferSize,  \* MAX_BUFFER_SIZE
  WireSize,    \* bound on the bytes under way, for model checking
  MaxSessions  \* bound on the number of streams, for model checking

ASSUME DemuxAssumption ==
  /\ Multiplier \in Nat \ {0}
  /\ MaxLength \in Nat
  /\ Metaints \subseteq Nat
  /\ BufferSize \in Nat \ {0}
  /\ WireSize \in Nat \ {0}
  /\ MaxSessions \in Nat

VARIABLES
  session,  \* number of the stream
  metaint,  \* the server's icy-metaint
  next,     \* the byte the server sends next
  wire,     \* bytes sent and not yet read
  radio,    \* the client's RadioState: HTTP headers or the stream
  icy_metaint, bytes_until_metadata, meta_buffer, state, meta_bytes_remaining,
  buffer,   \* audio_data_buffer, as long as bytes_to_process says
  offset,   \* bytes of buffer already processed
  audio,    \* what handle_audio was last given, by the last step
  title     \* what handle_metadata was last given, without the newline

network == <<session, metaint, next, wire>>
stream == <<icy_metaint, bytes_until_metadata, meta_buffer, state, meta_bytes_remaining>>
vars == <<network, radio, stream, buffer, offset, audio, title>>

Byte == [session : Nat, kind : {"audio", "length", "meta"},
         pos : Nat, total : Nat, val : Nat]

TypeOK ==
  /\ session \in Nat
  /\ metaint \in Metaints
  /\ next \in Byte
  /\ wire \in Seq(Byte)
  /\ radio \in {"RECEIVING_HTTP", "STREAMING_AUDIO"}
  /\ icy_metaint \in Nat
  /\ bytes_until_metadata \in Nat
  /\ meta_buffer \in Seq(Byte)
  /\ state \in {"READING_AUDIO", "READING_META_LENGTH", "READING_META_PAYLOAD"}
  /\ meta_bytes_remaining \in Nat
  /\ buffer \in Seq(Byte)
  /\ offset \in 0..Len(buffer)
  /\ audio \in Seq(Byte)
  /\ title \in Seq(Byte)

-----------------------------------------------------------------------------
(***************************************************************************)
(* The server.                                                             *)
(***************************************************************************)
AudioByte(s, m) ==
  [session |-> s, kind |-> "audio", pos |-> 1, total |-> IF m = 0 THEN 1 ELSE m, val |-> 1]
LengthBytes(s) ==
  {[session |-> s, kind |-> "length", pos |-> 1, total |-> 1, val |-> n] : n \in 0..MaxLength}

\* Of the total bytes of a block, the first val are text, the others NUL.
MetaBytes(s, total) ==
  {[session |-> s, kind |-> "meta", pos |-> 1, total |-> total, val |-> k] : k \in 0..total}

\* The bytes that may come after b in a stream with metadata every m bytes.
Successors(m, b) ==
  IF b.pos < b.total THEN {[b EXCEPT !.pos = @ + 1]}
  ELSE IF b.kind = "audio" /\ m > 0 THEN LengthBytes(b.session)
  ELSE IF b.kind = "length" /\ b.val > 0 THEN MetaBytes(b.session, Multiplier * b.val)
  ELSE {AudioByte(b.session, m)}

Send ==
  /\ Len(wire) < WireSize
  /\ wire' = Append(wire, next)
  /\ next' \in Successors(metaint, next)
  /\ UNCHANGED <<session, metaint, radio, stream, buffer, offset, audio, title>>

-----------------------------------------------------------------------------
Idle == offset = Len(buffer)

\* (A mutant: the interval counts from the response, not from its end.)
StartStreamCountsLeftover(leftover) ==
  /\ radio = "RECEIVING_HTTP"
  /\ radio' = "STREAMING_AUDIO"
  /\ state' = "READING_AUDIO"
  /\ meta_bytes_remaining' = 0
  /\ icy_metaint' = metaint
  /\ bytes_until_metadata' = metaint - leftover
  /\ buffer' = SubSeq(wire, 1, leftover)
  /\ wire' = SubSeq(wire, leftover + 1, Len(wire))
  /\ offset' = 0
  /\ UNCHANGED <<session, metaint, next, meta_buffer, audio, title>>

\* (A mutant: the demultiplexer goes on where the old stream stopped.)
StartStreamKeepsState(leftover) ==
  /\ radio = "RECEIVING_HTTP"
  /\ radio' = "STREAMING_AUDIO"
  /\ icy_metaint' = metaint
  /\ bytes_until_metadata' = metaint
  /\ buffer' = SubSeq(wire, 1, leftover)
  /\ wire' = SubSeq(wire, leftover + 1, Len(wire))
  /\ offset' = 0
  /\ UNCHANGED <<session, metaint, next, meta_buffer, meta_bytes_remaining, state,
                 audio, title>>

\* handle_http for a 200: the stream data is set up for the announced metaint,
\* and what was read behind the headers is the first buffer to process.
StartStream(leftover) ==
  /\ radio = "RECEIVING_HTTP"
  /\ radio' = "STREAMING_AUDIO"
  /\ state' = "READING_AUDIO"
  /\ meta_bytes_remaining' = 0
  /\ icy_metaint' = metaint
  /\ bytes_until_metadata' = metaint
  /\ buffer' = SubSeq(wire, 1, leftover)
  /\ wire' = SubSeq(wire, leftover + 1, Len(wire))
  /\ offset' = 0
  /\ UNCHANGED <<session, metaint, next, meta_buffer, audio, title>>

\* handle_reading while streaming.
Read(size) ==
  /\ radio = "STREAMING_AUDIO" /\ Idle
  /\ buffer' = SubSeq(wire, 1, size)
  /\ wire' = SubSeq(wire, size + 1, Len(wire))
  /\ offset' = 0
  /\ UNCHANGED <<session, metaint, next, radio, stream, audio, title>>

\* The timeout branch of run, and a new connection after it.  What is on its
\* way from the old server is lost with the socket.
TimeoutAndReconnect ==
  /\ Idle
  /\ session < MaxSessions
  /\ session' = session + 1
  /\ metaint' \in Metaints
  /\ next' = AudioByte(session', metaint')
  /\ wire' = <<>>
  /\ radio' = "RECEIVING_HTTP"
  /\ UNCHANGED <<stream, buffer, offset, audio, title>>

-----------------------------------------------------------------------------
(***************************************************************************)
(* process_stream_data: one action for each iteration of its loop.         *)
(***************************************************************************)
Available == Len(buffer) - offset
Smaller(a, b) == IF a <= b THEN a ELSE b
Consume(n) == offset' = offset + n /\ UNCHANGED <<network, radio, buffer, icy_metaint>>
Taken(n) == SubSeq(buffer, offset + 1, offset + n)

\* A stream without metadata is all audio.
PassAudio ==
  /\ ~Idle /\ icy_metaint = 0
  /\ audio' = Taken(Available)
  /\ Consume(Available)
  /\ UNCHANGED <<bytes_until_metadata, meta_buffer, state, meta_bytes_remaining, title>>

DemuxAudio ==
  /\ ~Idle /\ icy_metaint > 0
  /\ state = "READING_AUDIO"
  /\ LET audio_chunk == Smaller(bytes_until_metadata, Available)
     IN  /\ audio' = Taken(audio_chunk)
         /\ Consume(audio_chunk)
         /\ bytes_until_metadata' = bytes_until_metadata - audio_chunk
  /\ state' = IF bytes_until_metadata' = 0 THEN "READING_META_LENGTH" ELSE state
  /\ UNCHANGED <<meta_buffer, meta_bytes_remaining, title>>

\* (A mutant: after an empty block the audio is not counted anew.)
DemuxLengthKeepsCount ==
  /\ ~Idle /\ icy_metaint > 0
  /\ state = "READING_META_LENGTH"
  /\ Consume(1)
  /\ meta_bytes_remaining' = Multiplier * buffer[offset + 1].val
  /\ state' = IF meta_bytes_remaining' = 0 THEN "READING_AUDIO" ELSE "READING_META_PAYLOAD"
  /\ audio' = <<>>
  /\ UNCHANGED <<bytes_until_metadata, meta_buffer, title>>

DemuxLength ==
  /\ ~Idle /\ icy_metaint > 0
  /\ state = "READING_META_LENGTH"
  /\ Consume(1)
  /\ LET payload_len == Multiplier * buffer[offset + 1].val
     IN  IF payload_len = 0
         THEN /\ state' = "READING_AUDIO"
              /\ bytes_until_metadata' = icy_metaint
              /\ UNCHANGED meta_bytes_remaining
         ELSE /\ state' = "READING_META_PAYLOAD"
              /\ meta_bytes_remaining' = payload_len
              /\ UNCHANGED bytes_until_metadata
  /\ audio' = <<>>
  /\ UNCHANGED <<meta_buffer, title>>

IsNul(b) == IF b.kind = "meta" THEN b.pos > b.val ELSE b.val = 0

\* The bytes up to the last one that is not NUL.
StripNuls(bytes) == SubSeq(bytes, 1, SelectLastInSeq(bytes, LAMBDA b : ~IsNul(b)))

\* (A mutant: every read of metadata starts the buffer afresh.)
DemuxPayloadLastRead ==
  /\ ~Idle /\ icy_metaint > 0
  /\ state = "READING_META_PAYLOAD"
  /\ LET meta_chunk == Smaller(meta_bytes_remaining, Available)
     IN  /\ Consume(meta_chunk)
         /\ meta_bytes_remaining' = meta_bytes_remaining - meta_chunk
         /\ meta_buffer' = Taken(meta_chunk)
         /\ IF meta_bytes_remaining' = 0
            THEN /\ title' = StripNuls(meta_buffer')
                 /\ state' = "READING_AUDIO"
                 /\ bytes_until_metadata' = icy_metaint
            ELSE UNCHANGED <<title, state, bytes_until_metadata>>
  /\ audio' = <<>>

DemuxPayload ==
  /\ ~Idle /\ icy_metaint > 0
  /\ state = "READING_META_PAYLOAD"
  /\ LET meta_chunk == Smaller(meta_bytes_remaining, Available)
         collected  == meta_buffer \o Taken(meta_chunk)
     IN  /\ Consume(meta_chunk)
         /\ meta_bytes_remaining' = meta_bytes_remaining - meta_chunk
         /\ IF meta_bytes_remaining' = 0
            THEN /\ title' = StripNuls(collected)
                 /\ meta_buffer' = <<>>
                 /\ state' = "READING_AUDIO"
                 /\ bytes_until_metadata' = icy_metaint
            ELSE /\ meta_buffer' = collected
                 /\ UNCHANGED <<title, state, bytes_until_metadata>>
  /\ audio' = <<>>

Init ==
  /\ session = 1
  /\ metaint \in Metaints
  /\ next = AudioByte(1, metaint)
  /\ wire = <<>>
  /\ radio = "RECEIVING_HTTP"
  /\ icy_metaint = 0 /\ bytes_until_metadata = 0 /\ meta_buffer = <<>>
  /\ state = "READING_AUDIO" /\ meta_bytes_remaining = 0
  /\ buffer = <<>> /\ offset = 0
  /\ audio = <<>> /\ title = <<>>

Next ==
  \/ Send
  \/ \E leftover \in 0..Smaller(Len(wire), BufferSize) : StartStream(leftover)
  \/ \E size \in 1..Smaller(Len(wire), BufferSize) : Read(size)
  \/ TimeoutAndReconnect
  \/ PassAudio
  \/ DemuxAudio
  \/ DemuxLength
  \/ DemuxPayload

Spec == Init /\ [][Next]_vars

-----------------------------------------------------------------------------
\* The first byte the client has not processed.
Upcoming ==
  IF ~Idle THEN buffer[offset + 1] ELSE IF wire # <<>> THEN wire[1] ELSE next

\* However the network splits the stream, the client's counters stand where
\* the server is: it takes the next byte for what it is, and knows how much of
\* the run is left.
Aligned ==
  radio = "STREAMING_AUDIO" /\ icy_metaint > 0 =>
    LET b == Upcoming
    IN  CASE state = "READING_AUDIO" ->
               b.kind = "audio" /\ bytes_until_metadata = b.total - b.pos + 1
          [] state = "READING_META_LENGTH" -> b.kind = "length"
          [] state = "READING_META_PAYLOAD" ->
               b.kind = "meta" /\ meta_bytes_remaining = b.total - b.pos + 1

\* The audio among bytes, in their order.
AudioAmong(bytes) ==
  LET add(found, b) == IF b.kind = "audio" THEN Append(found, b) ELSE found
  IN  FoldLeft(add, <<>>, bytes)

\* Each iteration of the loop writes to stdout exactly the audio among the
\* bytes it consumes: no metadata is ever played, no audio is dropped.
AudioIsPlayed ==
  [][offset' > offset => audio' = AudioAmong(SubSeq(buffer, offset + 1, offset'))]_vars

\* The last byte of a metadata block is consumed.
BlockEnds == state = "READING_META_PAYLOAD" /\ state' = "READING_AUDIO" /\ offset' > offset

\* The whole block that ends, padding included, behind what meta_buffer held
\* before its first byte.
BlockBytes ==
  LET last  == buffer[offset']
      block == [i \in 1..last.total |-> [last EXCEPT !.kind = "meta", !.pos = i]]
      older == Len(meta_buffer) - (last.total - (offset' - offset))
  IN  SubSeq(meta_buffer, 1, older) \o block

\* When a block is complete it is printed, and nothing but NULs at its end is
\* left out: no byte of a block that is cut into reads is lost, doubled or taken
\* from the audio.  Whether the padding should be printed is left open here.
BlocksAreWhole ==
  [][BlockEnds => \E k \in 0..Len(BlockBytes) :
       /\ title' = SubSeq(BlockBytes, 1, k)
       /\ \A i \in (k+1)..Len(BlockBytes) : IsNul(BlockBytes[i])]_vars

\* What is printed as metadata is the text of one block of the current stream,
\* whole and from its beginning.
MetadataIsOneBlock ==
  title # <<>> =>
    /\ Len(title) = title[1].val
    /\ \A i \in DOMAIN title :
         title[i] = [title[1] EXCEPT !.kind = "meta", !.pos = i]
=============================================================================
