--------------------------- MODULE KaylesProtocol ---------------------------
(***************************************************************************)
(* The wire format of the Kayles game (protocol.cpp, common.cpp) and one   *)
(* exchange over it: a client types a message, the client program parses   *)
(* and serialises it, or anybody sends a datagram of any bytes; the server *)
(* decodes it and answers; the answer is decoded by the functions of       *)
(* protocol.cpp for that side (kayles_client only prints its bytes).       *)
(*                                                                         *)
(* Datagrams are sequences of bytes.  The layout is that of the code with  *)
(* two dimensions as constants: a byte has Bits bits (8 in the code) and a *)
(* uint32_t has WordLen bytes (4 in the code).  All lengths and offsets    *)
(* are the code's, as functions of WordLen.                                *)
(***************************************************************************)
EXTENDS Integers, Sequences, FiniteSetsExt

CONSTANTS
  Bits, WordLen,
  TypedFields,  \* what a user may type: sequences of numbers
  Datagrams,    \* what anybody may send: sequences of bytes
  Memberships,  \* the sets of <<game_id, player_id>> the server may hold
  GameStates    \* the states the server may answer with

ASSUME LayoutAssumption == Bits \in Nat \ {0} /\ WordLen \in Nat \ {0}

\* Powers of two: 2^k.
pow2[k \in Nat] == IF k = 0 THEN 1 ELSE 2 * pow2[k - 1]

ByteMax == pow2[Bits] - 1
WordMax == pow2[Bits * WordLen] - 1
WRONG_MESSAGE_STATUS == ByteMax

\* validate_number lets a uint32_t through; a datagram is made of bytes.
ASSUME InputAssumption ==
  TypedFields \subseteq Seq(0..WordMax) /\ Datagrams \subseteq Seq(0..ByteMax)

\* The fields of GameState with their widths.  No status is 255, and no pawn
\* stands above max_pawn (parse_server_input).
ASSUME StateAssumption ==
  \A s \in GameStates :
    /\ s \in [game_id : 0..WordMax, player_a_id : 0..WordMax, player_b_id : 0..WordMax,
             status : 0..ByteMax - 1, max_pawn : 0..ByteMax, pawn_row : SUBSET (0..ByteMax)]
    /\ s.pawn_row \subseteq 0..s.max_pawn

JOIN == 0
MOVE_1 == 1
MOVE_2 == 2
KEEP_ALIVE == 3
GIVE_UP == 4
MAX_MESSAGE_TYPE == 4

PlayerOffset == 1
GameOffset   == 1 + WordLen              \* GAME_ID_INDEX
PawnOffset   == 1 + 2 * WordLen
JoinLength   == 1 + WordLen
PrefixSize   == 3 * WordLen              \* CLIENT_MESSAGE_PREFIX_SIZE
HeaderSize   == 3 * WordLen + 2          \* GAME_STATE_HEADER_SIZE

MessageLength(type) ==
  CASE type = JOIN -> JoinLength
    [] type \in {MOVE_1, MOVE_2} -> PawnOffset + 1
    [] type \in {KEEP_ALIVE, GIVE_UP} -> PawnOffset

-----------------------------------------------------------------------------
\* htonl and ntohl: big-endian words.
Word(n) == [i \in 1..WordLen |-> (n \div pow2[Bits * (WordLen - i)]) % pow2[Bits]]

\* (A mutant: the bytes are read in the order of a little-endian host.)
HostWordAt(bytes, offset) ==
  MapThenSumSet(LAMBDA i : bytes[offset + i] * pow2[Bits * (i - 1)], 1..WordLen)

WordAt(bytes, offset) ==
  MapThenSumSet(LAMBDA i : bytes[offset + i] * pow2[Bits * (WordLen - i)], 1..WordLen)

\* The bitset of a row (bitset_set, bitset_get): the most significant bit of
\* byte 0 is pawn 0.
RowBytes(max_pawn) == max_pawn \div Bits + 1

\* (A mutant: pawn 0 is the least significant bit.)
PackRowReversed(row, max_pawn) ==
  [k \in 1..RowBytes(max_pawn) |->
     MapThenSumSet(LAMBDA j : IF (k - 1) * Bits + j \in row THEN pow2[j] ELSE 0, 0..Bits - 1)]

PackRow(row, max_pawn) ==
  [k \in 1..RowBytes(max_pawn) |->
     MapThenSumSet(LAMBDA j : IF (k - 1) * Bits + j \in row THEN pow2[Bits - 1 - j] ELSE 0,
                   0..Bits - 1)]
UnpackRow(bytes, offset, max_pawn) ==
  {pawn \in 0..max_pawn :
     (bytes[offset + 1 + pawn \div Bits] \div pow2[Bits - 1 - (pawn % Bits)]) % 2 = 1}

-----------------------------------------------------------------------------
\* parse_client_message, on the numbers validate_number has accepted.
NoMessage == [msg_type |-> -1, player_id |-> 0, game_id |-> 0, pawn |-> 0]
FieldCount(type) == CASE type = JOIN -> 2
                      [] type \in {MOVE_1, MOVE_2} -> 4
                      [] OTHER -> 3

ParseClientMessage(fields) ==
  IF /\ Len(fields) \in 2..4
     /\ fields[1] <= MAX_MESSAGE_TYPE
     /\ fields[2] # 0
     /\ Len(fields) = FieldCount(fields[1])
     /\ Len(fields) = 4 => fields[4] <= ByteMax
  THEN [msg_type  |-> fields[1],
        player_id |-> fields[2],
        game_id   |-> IF Len(fields) >= 3 THEN fields[3] ELSE 0,
        pawn      |-> IF Len(fields) = 4 THEN fields[4] ELSE 0]
  ELSE NoMessage

SerializeClientMessage(m) ==
  <<m.msg_type>> \o Word(m.player_id)
    \o (IF m.msg_type = JOIN THEN <<>> ELSE Word(m.game_id))
    \o (IF m.msg_type \in {MOVE_1, MOVE_2} THEN <<m.pawn>> ELSE <<>>)

\* (A mutant: the length is checked before the contents.)
DeserializeErrorLengthFirst(bytes, members) ==
  LET received == Len(bytes)
      type     == bytes[1]
      expected == MessageLength(type)
  IN  CASE received = 0 -> 0
        [] received > 0 /\ type > MAX_MESSAGE_TYPE -> 0
        [] received > 0 /\ type <= MAX_MESSAGE_TYPE /\ received # expected ->
             Min({received, expected})
        [] OTHER ->
             LET player == WordAt(bytes, PlayerOffset)
             IN  CASE player = 0 -> PlayerOffset
                   [] player # 0 /\ type # JOIN
                        /\ <<WordAt(bytes, GameOffset), player>> \notin members -> GameOffset
                   [] OTHER -> -1

\* deserialize_client_message: the index of the error, or -1 for a message
\* that is accepted.  The checks come in the order of the code.
DeserializeError(bytes, members) ==
  LET received == Len(bytes)
      type     == bytes[1]
      expected == MessageLength(type)
  IN  CASE received = 0 -> 0
        [] received > 0 /\ type > MAX_MESSAGE_TYPE -> 0
        [] received > 0 /\ type <= MAX_MESSAGE_TYPE /\ received < JoinLength -> received
        [] OTHER ->
             LET player == WordAt(bytes, PlayerOffset)
             IN  CASE player = 0 -> PlayerOffset
                   [] player # 0 /\ type # JOIN /\ received < PawnOffset -> received
                   [] player # 0 /\ type # JOIN /\ received >= PawnOffset
                        /\ <<WordAt(bytes, GameOffset), player>> \notin members -> GameOffset
                   [] OTHER -> IF received = expected THEN -1
                               ELSE Min({received, expected})

\* The accepted message.  (In the code a field the type does not carry keeps
\* the value of an earlier message and is never read: it counts as 0 here.)
Deserialize(bytes) ==
  LET type == bytes[1]
  IN  [msg_type  |-> type,
       player_id |-> WordAt(bytes, PlayerOffset),
       game_id   |-> IF type = JOIN THEN 0 ELSE WordAt(bytes, GameOffset),
       pawn      |-> IF type \in {MOVE_1, MOVE_2} THEN bytes[PawnOffset + 1] ELSE 0]

-----------------------------------------------------------------------------
\* The receive buffer is zeroed before every recvfrom, so the prefix of a short
\* datagram is padded with zeros (create_wrong_message).
CreateWrongMessage(bytes, error) ==
  [prefix |-> [i \in 1..PrefixSize |-> IF i <= Len(bytes) THEN bytes[i] ELSE 0],
   error_index |-> error]

SerializeWrongMessage(w) == w.prefix \o <<WRONG_MESSAGE_STATUS, w.error_index>>

SerializeGameState(s) ==
  Word(s.game_id) \o Word(s.player_a_id) \o Word(s.player_b_id)
    \o <<s.status, s.max_pawn>> \o PackRow(s.pawn_row, s.max_pawn)

\* deserialize(ServerResponse): the byte after the prefix tells the two kinds
\* apart; in a game state the status stands there.
IsWrong(bytes) == bytes[PrefixSize + 1] = WRONG_MESSAGE_STATUS
DeserializeWrongMessage(bytes) ==
  [prefix |-> SubSeq(bytes, 1, PrefixSize), error_index |-> bytes[PrefixSize + 2]]
DeserializeGameState(bytes) ==
  LET max_pawn == bytes[HeaderSize]
  IN  [game_id     |-> WordAt(bytes, 0),
       player_a_id |-> WordAt(bytes, WordLen),
       player_b_id |-> WordAt(bytes, 2 * WordLen),
       status      |-> bytes[PrefixSize + 1],
       max_pawn    |-> max_pawn,
       pawn_row    |-> UnpackRow(bytes, HeaderSize, max_pawn)]

-----------------------------------------------------------------------------
VARIABLES
  stage,    \* "typing", "sent", "answered", "rejected" (by the client program)
  fields,   \* what was typed, or <<>> for a datagram nobody typed
  members,  \* which players are in which games on the server
  request,  \* the datagram on its way to the server
  decoded,  \* the message the server accepted, or NoMessage
  state,    \* the game state the server answers with
  reply     \* the datagram on its way back

vars == <<stage, fields, members, request, decoded, state, reply>>

Init ==
  /\ stage = "typing"
  /\ fields = <<>> /\ request = <<>> /\ reply = <<>>
  /\ decoded = NoMessage
  /\ members \in Memberships
  /\ state \in GameStates

Type ==
  /\ stage = "typing"
  /\ \E typed \in TypedFields :
       /\ fields' = typed
       /\ IF ParseClientMessage(typed) = NoMessage
          THEN stage' = "rejected" /\ UNCHANGED request
          ELSE /\ stage' = "sent"
               /\ request' = SerializeClientMessage(ParseClientMessage(typed))
  /\ UNCHANGED <<members, decoded, state, reply>>

SendBytes ==
  /\ stage = "typing"
  /\ \E bytes \in Datagrams : request' = bytes
  /\ stage' = "sent"
  /\ UNCHANGED <<fields, members, decoded, state, reply>>

Serve ==
  /\ stage = "sent"
  /\ stage' = "answered"
  /\ LET error == DeserializeError(request, members)
     IN  IF error = -1
         THEN /\ decoded' = Deserialize(request)
              /\ reply' = SerializeGameState(state)
         ELSE /\ reply' = SerializeWrongMessage(CreateWrongMessage(request, error))
              /\ UNCHANGED decoded
  /\ UNCHANGED <<fields, members, request, state>>

Next == Type \/ SendBytes \/ Serve

Spec == Init /\ [][Next]_vars

-----------------------------------------------------------------------------
Answered == stage = "answered"

\* What the user typed is what the server acts on, whatever the widths of the
\* fields; a message about a game the player is in is never rejected on the
\* way, and one about another game always is.
TypedIsDecoded ==
  Answered /\ fields # <<>> =>
    LET m == ParseClientMessage(fields)
    IN  decoded = IF m.msg_type = JOIN \/ <<m.game_id, m.player_id>> \in members
                  THEN m ELSE NoMessage

\* The byte positions at which a datagram goes wrong, each found on its own:
\* an unknown type, player 0, a game without that player, the end of a
\* datagram that is too short, and the first byte too many.
ErrorPositions(bytes, mem) ==
  LET n == Len(bytes)
      type == bytes[1]
      Known == n > 0 /\ type <= MAX_MESSAGE_TYPE
      player == WordAt(bytes, PlayerOffset)
  IN  {i \in 0..n :
         \/ i = 0 /\ ~Known
         \/ Known /\ i = PlayerOffset /\ n >= JoinLength /\ player = 0
         \/ Known /\ i = GameOffset /\ n >= PawnOffset /\ type # JOIN
              /\ <<WordAt(bytes, GameOffset), player>> \notin mem
         \/ Known /\ i = n /\ n < MessageLength(type)
         \/ Known /\ i = MessageLength(type) /\ n > MessageLength(type)}

\* The nested early returns of deserialize_client_message report the first
\* position at which the datagram is wrong, and accept it when there is none.
FirstErrorReported ==
  Answered =>
    LET errors == ErrorPositions(request, members)
    IN  IF errors = {}
        THEN ~IsWrong(reply) /\ decoded.msg_type = request[1]
        ELSE /\ IsWrong(reply) /\ decoded = NoMessage
             /\ DeserializeWrongMessage(reply).error_index = Min(errors)

\* The client tells the two kinds of answers apart and decodes the state the
\* server sent, or gets back the bytes that were refused.
AnswerIsUnderstood ==
  Answered =>
    IF decoded # NoMessage
    THEN ~IsWrong(reply) /\ DeserializeGameState(reply) = state
    ELSE /\ IsWrong(reply)
         /\ \A i \in 1..Min({PrefixSize, Len(request)}) :
              DeserializeWrongMessage(reply).prefix[i] = request[i]
=============================================================================
