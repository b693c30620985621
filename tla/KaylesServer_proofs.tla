------------------------ MODULE KaylesServer_proofs ------------------------
(***************************************************************************)
(* Proofs about the Kayles server, for every set of players, row, counter  *)
(* width, timeout, number of identifiers and clock bound: what its states  *)
(* are, what its steps may do to a game, and that it implements a          *)
(* KaylesMatch under every identifier.                                     *)
(***************************************************************************)
EXTENDS KaylesRefinement, FiniteSetTheorems, TLAPS

USE PlayersAssumption, RowAssumption, TimeoutAssumption, ServerAssumption

(***************************************************************************)
(* The functions of game.cpp return games.                                 *)
(***************************************************************************)

\* The remainder by the width of a counter is a value of the counter.
LEMMA Remainder ==
  ASSUME NEW n \in Nat \ {0}, NEW a \in Int
  PROVE  a % n \in 0..n-1
  OBVIOUS

\* Boards are finite sets.
LEMMA BoardFinite ==
  ASSUME NEW S \in SUBSET (0..MaxPawn)
  PROVE  IsFiniteSet(S) /\ Cardinality(S) \in Nat /\ Cardinality(S) <= MaxPawn + 1
<1>1. IsFiniteSet(0..MaxPawn) /\ Cardinality(0..MaxPawn) = MaxPawn + 1
  BY FS_Interval
<1>2. IsFiniteSet(S) /\ Cardinality(S) <= MaxPawn + 1
  BY <1>1, FS_Subset
<1>3. QED
  BY <1>2, FS_CardinalityType

\* Taking a set of pawns off a game leaves a game (make_move_1, make_move_2).
LEMMA RemovePawnsType ==
  ASSUME NEW g \in Game, NEW S \in SUBSET (0..MaxPawn)
  PROVE  RemovePawns(g, S) \in Game
<1>2. Cardinality(S) \in Nat
  BY BoardFinite
<1>3. (g.pawns_left - Cardinality(S)) % CounterSize \in PawnIndex
  BY <1>2, Remainder DEF Game, PawnIndex
<1>4. QED
  BY <1>3 DEF RemovePawns, Game, WinOf, OtherTurn, Status, InTurn, Finished

\* Moves and surrender make games of games.
LEMMA MovesType ==
  ASSUME NEW g \in Game, NEW pawn \in PawnIndex
  PROVE  /\ MakeMove1(g, pawn) \in Game
         /\ MakeMove2(g, pawn) \in Game
         /\ GiveUp(g) \in Game
<1>1. MakeMove1(g, pawn) \in Game
  <2>1. CASE pawn <= MaxPawn /\ pawn \in g.pawn_row
    BY <2>1, RemovePawnsType DEF MakeMove1, PawnIndex
  <2>2. QED
    BY <2>1 DEF MakeMove1
<1>2. MakeMove2(g, pawn) \in Game
  <2>1. CASE pawn < MaxPawn /\ {pawn, pawn + 1} \subseteq g.pawn_row
    <3>1. {pawn, pawn + 1} \in SUBSET (0..MaxPawn)
      BY <2>1 DEF PawnIndex
    <3>2. QED
      BY <2>1, <3>1, RemovePawnsType DEF MakeMove2
  <2>2. QED
    BY <2>1 DEF MakeMove2
<1>3. GiveUp(g) \in Game
  BY DEF GiveUp, Game, Status, InTurn, Finished
<1>4. QED
  BY <1>1, <1>2, <1>3

\* Both ways of joining make games.
LEMMA JoinType ==
  ASSUME NEW g \in Game, NEW p \in Players, NEW now \in Nat
  PROVE  /\ JoinAsB(g, p) \in Game
         /\ CreateAndJoin(p, now) \in Game
<1>1. JoinAsB(g, p) \in Game
  BY DEF JoinAsB, Game, Status, InTurn
<1>2. Cardinality(InitialRow) \in Nat
  BY BoardFinite
<1>3. Cardinality(InitialRow) % CounterSize \in PawnIndex
  BY <1>2, Remainder DEF PawnIndex
<1>4. CreateAndJoin(p, now) \in Game
  BY <1>3 DEF CreateAndJoin, Game, Status
<1>5. QED
  BY <1>1, <1>4

\* What a verdict may be: none, or the loss of a player who timed out to one
\* who was heard of no earlier.
LEMMA VerdictCases ==
  ASSUME NEW g \in Game, NEW now \in Nat
  PROVE  \/ /\ Verdict(g, now) = g
            /\ g.status \in InTurn => /\ ~TimedOut(g.player_a_activity, now)
                                      /\ ~TimedOut(g.player_b_activity, now)
         \/ /\ g.status \in InTurn
            /\ Verdict(g, now) = [g EXCEPT !.status = "WIN_A",
                 !.after_finish_activity = g.player_b_activity + Timeout]
            /\ TimedOut(g.player_b_activity, now)
            /\ g.player_b_activity <= g.player_a_activity
         \/ /\ g.status \in InTurn
            /\ Verdict(g, now) = [g EXCEPT !.status = "WIN_B",
                 !.after_finish_activity = g.player_a_activity + Timeout]
            /\ TimedOut(g.player_a_activity, now)
            /\ g.player_a_activity <= g.player_b_activity
<1> DEFINE a_timed_out == TimedOut(g.player_a_activity, now)
           b_timed_out == TimedOut(g.player_b_activity, now)
           a_wins == b_timed_out /\ (a_timed_out => g.player_a_activity > g.player_b_activity)
<1>1. CASE g.status \in InTurn /\ a_wins
  BY <1>1 DEF Verdict, Game, TimedOut
<1>2. CASE g.status \in InTurn /\ a_timed_out /\ ~a_wins
  BY <1>2 DEF Verdict, Game, TimedOut
<1>3. CASE g.status \notin InTurn
  BY <1>3 DEF Verdict
<1>4. CASE g.status \in InTurn /\ ~a_timed_out /\ ~a_wins
  BY <1>4 DEF Verdict
<1>5. QED
  BY <1>1, <1>2, <1>3, <1>4

\* Activity, verdicts and schedules make games of games, and times are numbers.
LEMMA TimeType ==
  ASSUME NEW g \in Game, NEW p \in Players, NEW now \in Nat
  PROVE  /\ UpdateActivityTime(g, p, now) \in Game
         /\ Verdict(g, now) \in Game
         /\ ComputeNextCheckTime(g) \in Nat
         /\ Scheduled(g) \in Game
<1>1. UpdateActivityTime(g, p, now) \in Game
  BY DEF UpdateActivityTime, Game
<1>2. Verdict(g, now) \in Game
  <2>1. \A s \in Status, t \in Nat :
          [g EXCEPT !.status = s, !.after_finish_activity = t] \in Game
    BY DEF Game
  <2>2. g.player_a_activity + Timeout \in Nat /\ g.player_b_activity + Timeout \in Nat
    BY DEF Game
  <2>3. "WIN_A" \in Status /\ "WIN_B" \in Status
    BY DEF Status, Finished
  <2>4. /\ [g EXCEPT !.status = "WIN_A",
              !.after_finish_activity = g.player_b_activity + Timeout] \in Game
        /\ [g EXCEPT !.status = "WIN_B",
              !.after_finish_activity = g.player_a_activity + Timeout] \in Game
    BY <2>1, <2>2, <2>3
  <2>5. QED
    BY <2>4, VerdictCases, Zenon
<1>3. ComputeNextCheckTime(g) \in Nat
  BY DEF ComputeNextCheckTime, Game, Status, InTurn, Finished, Earlier
<1>4. Scheduled(g) \in Game
  BY <1>3 DEF Scheduled, Game
<1>5. QED
  BY <1>1, <1>2, <1>3, <1>4

(***************************************************************************)
(* Type correctness.                                                       *)
(***************************************************************************)

\* Writing a game back and rescheduling it keeps the map and the timeout set
\* typed (schedule_game).
LEMMA StoreType ==
  ASSUME TypeOK, NEW id \in GameIds, NEW g \in Game,
         NEW checks \in SUBSET (Nat \X GameIds), Store(checks, id, g)
  PROVE  /\ games' \in [GameIds -> Game \cup {NoGame}]
         /\ timeouts' \subseteq Nat \X GameIds
<1>1. Scheduled(g) \in Game /\ ComputeNextCheckTime(g) \in Nat
  <2>1. PICK p \in Players : p = g.player_a_id
    BY DEF Game
  <2>2. QED
    BY <2>1, TimeType DEF TypeOK
<1>2. QED
  BY <1>1 DEF Store, Reschedule, TypeOK

\* The handlers of the messages that name a game: whatever typed game the
\* message's effect is, the map and the timeout set stay typed.
LEMMA InGameType ==
  ASSUME TypeOK, NEW p \in Players, NEW id \in GameIds, NEW effect,
         games[id] \in Game => effect \in Game, InGame(p, id, effect)
  PROVE  TypeOK'
<1>1. games[id] \in Game
  BY DEF TypeOK, InGame
<1> DEFINE moved == IF CheckMyTurn(games[id], p) THEN effect ELSE games[id]
           g == UpdateActivityTime(moved, p, clock)
<1>2. g \in Game
  BY <1>1, TimeType DEF TypeOK
<1>3. Store(timeouts, id, g)
  BY DEF InGame
<1>4. QED
  BY <1>2, <1>3, StoreType DEF TypeOK, InGame, Answered, idVars

\* Every step keeps the types.
LEMMA TypeStep == TypeOK /\ [Next]_vars => TypeOK'
<1> SUFFICES ASSUME TypeOK, [Next]_vars PROVE TypeOK'
  OBVIOUS
<1>1. CASE Tick
  BY <1>1 DEF Tick, TypeOK, idVars
<1>2. CASE Receive
  BY <1>2 DEF Receive, TypeOK, idVars
<1>3. CASE CleanupStep
  <2> USE <1>3 DEF CleanupStep
  <2>1. PICK check \in timeouts : CleanupStep!2!(check)
    OBVIOUS
  <2> DEFINE id   == check[2]
             rest == timeouts \ {check}
             g    == Verdict(games[id], clock)
  <2>2. id \in GameIds /\ rest \in SUBSET (Nat \X GameIds)
    BY DEF TypeOK
  <2>3. CASE games[id] # NoGame /\ Alive(g, clock) /\ Store(rest, id, g)
    <3>1. games[id] \in Game
      BY <2>2, <2>3 DEF TypeOK
    <3>2. PICK p \in Players : p = games[id].player_a_id
      BY <3>1 DEF Game
    <3>3. g \in Game
      BY <3>1, <3>2, TimeType DEF TypeOK
    <3>4. QED
      BY <2>2, <2>3, <3>3, StoreType DEF TypeOK, idVars
  <2>4. CASE timeouts' = rest /\ (games' = games \/ games' = [games EXCEPT ![id] = NoGame])
    BY <2>2, <2>4 DEF TypeOK, idVars
  <2>5. QED
    BY <2>1, <2>3, <2>4
<1>4. CASE CleanupDone
  BY <1>4 DEF CleanupDone, TypeOK, idVars
<1>5. CASE WrongMessage \/ JoinDropped
  BY <1>5 DEF WrongMessage, JoinDropped, Answered, TypeOK, idVars
<1>6. ASSUME NEW p \in Players, JoinWaiting(p) PROVE TypeOK'
  <2> DEFINE g == UpdateActivityTime(JoinAsB(games[waiting_game_id], p), p, clock)
  <2>1. games[waiting_game_id] \in Game
    BY <1>6 DEF JoinWaiting, GameWaiting, TypeOK
  <2>2. g \in Game
    BY <2>1, JoinType, TimeType DEF TypeOK
  <2>3. QED
    BY <1>6, <2>2, StoreType DEF JoinWaiting, Answered, TypeOK, idVars
<1>7. ASSUME NEW p \in Players, JoinNew(p) PROVE TypeOK'
  <2> DEFINE g == UpdateActivityTime(CreateAndJoin(p, clock), p, clock)
  <2>1. CreateAndJoin(p, clock) \in Game
    <3>1. Cardinality(InitialRow) % CounterSize \in PawnIndex
      BY BoardFinite, Remainder DEF PawnIndex
    <3>2. QED
      BY <3>1 DEF CreateAndJoin, Game, Status, TypeOK
  <2>2. g \in Game
    BY <2>1, TimeType DEF TypeOK
  <2>3. current_id' \in GameIds /\ waiting_game_id' \in GameIds
    BY <1>7, Remainder DEF JoinNew, TypeOK, GameIds
  <2>4. QED
    BY <1>7, <2>2, <2>3, StoreType DEF JoinNew, Answered, TypeOK
<1>8. ASSUME NEW p \in Players, NEW id \in GameIds, NEW pawn \in PawnIndex,
             Move1(p, id, pawn) \/ Move2(p, id, pawn)
      PROVE  TypeOK'
  BY <1>8, MovesType, InGameType DEF Move1, Move2
<1>9. ASSUME NEW p \in Players, NEW id \in GameIds, Resign(p, id) \/ KeepAlive(p, id)
      PROVE  TypeOK'
  <2>1. 0 \in PawnIndex
    BY DEF PawnIndex
  <2>2. QED
    BY <1>9, <2>1, MovesType, InGameType DEF Resign, KeepAlive
<1>10. CASE UNCHANGED vars
  BY <1>10 DEF vars, TypeOK
<1>11. QED
  BY <1>1, <1>2, <1>3, <1>4, <1>5, <1>6, <1>7, <1>8, <1>9, <1>10 DEF Next, ServerStep

\* Every reachable state is typed: pawns_left and the identifiers stay in
\* their widths through every wrap-around.
THEOREM TypeCorrect == Spec => []TypeOK
<1>1. Init => TypeOK
  BY DEF Init, TypeOK, GameIds
<1>2. QED
  BY <1>1, TypeStep, PTL DEF Spec

(***************************************************************************)
(* What is true of every single game, and why each function keeps it.      *)
(*                                                                         *)
(* CoreOK is kept by every function of game.cpp.  The retention part of    *)
(* GameOK is not: make_move_2 and give_up finish a game without setting    *)
(* after_finish_activity, so between them and update_activity_time only    *)
(* CoreOK holds.                                                           *)
(***************************************************************************)
Later(s, t) == IF s <= t THEN t ELSE s

CoreOK(g, now) ==
  /\ g.status = "WAITING_FOR_OPPONENT" <=> g.player_b_id = NoPlayer
  /\ g.pawns_left = Cardinality(g.pawn_row) % CounterSize
  /\ g.pawn_row = {} => g.status \in Finished
  /\ g.player_a_activity <= now
  /\ g.player_b_activity <= now

RetentionOK(g) ==
  g.status \in Finished =>
    /\ g.after_finish_activity >= LoserActivity(g)
    /\ g.pawn_row = {} => g.after_finish_activity >= WinnerActivity(g)
    /\ g.after_finish_activity <= Later(g.player_a_activity, g.player_b_activity) + Timeout

GameOK(g, now) == CoreOK(g, now) /\ RetentionOK(g)

\* Counting down a wrapped counter agrees with counting the pawns.
LEMMA CountDown ==
  ASSUME NEW a \in 0..CounterSize, NEW k \in 0..a
  PROVE  ((a % CounterSize) - k) % CounterSize = (a - k) % CounterSize
<1>1. CASE a < CounterSize
  <2>1. a % CounterSize = a
    BY <1>1
  <2>2. QED
    BY <2>1
<1>2. CASE a = CounterSize
  <2>1. a % CounterSize = 0
    BY <1>2
  <2>2. CASE k = 0
    BY <1>2, <2>1, <2>2
  <2>3. CASE k = CounterSize
    <3>1. (0 - CounterSize) % CounterSize = 0 /\ 0 % CounterSize = 0
      OBVIOUS
    <3>2. QED
      BY <1>2, <2>1, <2>3, <3>1
  <2>4. CASE k \in 1..CounterSize - 1
    <3>1. (0 - k) % CounterSize = CounterSize - k
      BY <2>4
    <3>2. CounterSize - k \in 0..CounterSize - 1
      BY <2>4
    <3>3. (CounterSize - k) % CounterSize = CounterSize - k
      BY <3>2
    <3>4. QED
      BY <1>2, <2>1, <3>1, <3>3
  <2>5. QED
    BY <1>2, <2>2, <2>3, <2>4
<1>3. QED
  BY <1>1, <1>2

\* Taking standing pawns keeps the counter in step with the board, and a
\* board that is cleared ends the game.
LEMMA RemovePawnsOK ==
  ASSUME NEW g \in Game, NEW now \in Nat, CoreOK(g, now), g.status \in InTurn,
         NEW S \in SUBSET g.pawn_row
  PROVE  CoreOK(RemovePawns(g, S), now)
<1> DEFINE left == (g.pawns_left - Cardinality(S)) % CounterSize
           h == RemovePawns(g, S)
<1>1. /\ g.pawn_row \in SUBSET (0..MaxPawn) /\ S \in SUBSET (0..MaxPawn)
      /\ g.pawn_row \ S \in SUBSET (0..MaxPawn)
  BY DEF Game
<1>2. /\ IsFiniteSet(g.pawn_row)
      /\ Cardinality(g.pawn_row) \in 0..CounterSize
      /\ Cardinality(S) \in Nat
  BY <1>1, BoardFinite
<1>3. Cardinality(S) <= Cardinality(g.pawn_row)
  BY <1>2, FS_Subset
<1>4. Cardinality(g.pawn_row \ S) = Cardinality(g.pawn_row) - Cardinality(S)
  <2>1. g.pawn_row \cap S = S
    OBVIOUS
  <2>2. QED
    BY <1>2, <2>1, FS_Difference
<1>5. left = Cardinality(g.pawn_row \ S) % CounterSize
  <2>1. Cardinality(S) \in 0..Cardinality(g.pawn_row)
    BY <1>2, <1>3
  <2>2. ((Cardinality(g.pawn_row) % CounterSize) - Cardinality(S)) % CounterSize
          = (Cardinality(g.pawn_row) - Cardinality(S)) % CounterSize
    BY <1>2, <2>1, CountDown
  <2>3. QED
    BY <1>4, <2>2 DEF CoreOK
<1>6. g.pawn_row \ S = {} => left = 0
  <2>1. 0 % CounterSize = 0
    OBVIOUS
  <2>2. QED
    BY <1>5, <2>1, FS_EmptySet
<1>7. /\ h.pawn_row = g.pawn_row \ S
      /\ h.pawns_left = left
      /\ h.status = IF left = 0 THEN WinOf(g.status) ELSE OtherTurn(g.status)
      /\ h.player_b_id = g.player_b_id
      /\ h.player_a_activity = g.player_a_activity
      /\ h.player_b_activity = g.player_b_activity
  BY DEF RemovePawns, Game
<1>8. WinOf(g.status) \in Finished /\ h.status # "WAITING_FOR_OPPONENT"
  BY <1>7 DEF WinOf, OtherTurn, Finished
<1>9. g.status # "WAITING_FOR_OPPONENT"
  BY DEF InTurn
<1>10. QED
  BY <1>5, <1>6, <1>7, <1>8, <1>9 DEF CoreOK

\* Moves and resignation keep the core, and concern nothing but the board, the
\* counter and the status.
SameButPlay(g, h) ==
  /\ h.player_a_id = g.player_a_id
  /\ h.player_b_id = g.player_b_id
  /\ h.next_check_time = g.next_check_time
  /\ g.status # "WAITING_FOR_OPPONENT" /\ h.status # "WAITING_FOR_OPPONENT"

\* A move or a surrender keeps a game sound and touches nothing but the play.
LEMMA MovesOK ==
  ASSUME NEW g \in Game, NEW now \in Nat, CoreOK(g, now), g.status \in InTurn,
         NEW pawn \in PawnIndex
  PROVE  /\ CoreOK(MakeMove1(g, pawn), now) /\ SameButPlay(g, MakeMove1(g, pawn))
         /\ CoreOK(MakeMove2(g, pawn), now) /\ SameButPlay(g, MakeMove2(g, pawn))
         /\ CoreOK(GiveUp(g), now) /\ SameButPlay(g, GiveUp(g))
<1>0. SameButPlay(g, g)
  BY DEF SameButPlay, InTurn
<1>1. \A S \in SUBSET g.pawn_row :
        CoreOK(RemovePawns(g, S), now) /\ SameButPlay(g, RemovePawns(g, S))
  <2> TAKE S \in SUBSET g.pawn_row
  <2>1. CoreOK(RemovePawns(g, S), now)
    BY RemovePawnsOK
  <2>2. SameButPlay(g, RemovePawns(g, S))
    BY <1>0 DEF RemovePawns, SameButPlay, Game, WinOf, OtherTurn
  <2>3. QED
    BY <2>1, <2>2
<1>2. CoreOK(MakeMove1(g, pawn), now) /\ SameButPlay(g, MakeMove1(g, pawn))
  BY <1>0, <1>1 DEF MakeMove1
<1>3. CoreOK(MakeMove2(g, pawn), now) /\ SameButPlay(g, MakeMove2(g, pawn))
  BY <1>0, <1>1 DEF MakeMove2
<1>4. CoreOK(GiveUp(g), now) /\ SameButPlay(g, GiveUp(g))
  BY <1>0 DEF GiveUp, CoreOK, SameButPlay, Game, InTurn, Finished
<1>5. QED
  BY <1>2, <1>3, <1>4

\* update_activity_time restores the retention of a game a move has finished.
LEMMA UpdateOK ==
  ASSUME NEW g \in Game, NEW now \in Nat, CoreOK(g, now),
         NEW p \in Players, CheckMyGame(g, p)
  PROVE  GameOK(UpdateActivityTime(g, p, now), now)
<1> DEFINE h == UpdateActivityTime(g, p, now)
<1>1. /\ h.status = g.status
      /\ h.player_a_id = g.player_a_id
      /\ h.player_b_id = g.player_b_id
      /\ h.pawn_row = g.pawn_row
      /\ h.pawns_left = g.pawns_left
      /\ h.player_a_activity = IF g.player_a_id = p THEN now ELSE g.player_a_activity
      /\ h.player_b_activity = IF g.player_b_id = p THEN now ELSE g.player_b_activity
      /\ g.status \in Finished => h.after_finish_activity = now
  BY DEF UpdateActivityTime, Game
<1>2. g.player_a_activity \in Nat /\ g.player_b_activity \in Nat
  BY DEF Game
<1>3. CoreOK(h, now)
  BY <1>1 DEF CoreOK
<1>4. RetentionOK(h)
  <2>1. h.player_a_activity = now \/ h.player_b_activity = now
    BY <1>1 DEF CheckMyGame
  <2>2. /\ h.player_a_activity \in Nat /\ h.player_a_activity <= now
        /\ h.player_b_activity \in Nat /\ h.player_b_activity <= now
    BY <1>1, <1>2 DEF CoreOK
  <2>3. Later(h.player_a_activity, h.player_b_activity) = now
    BY <2>1, <2>2 DEF Later
  <2>4. QED
    BY <1>1, <2>2, <2>3 DEF RetentionOK, LoserActivity, WinnerActivity
<1>5. QED
  BY <1>3, <1>4 DEF GameOK

\* Joining: the new game and the game that gets its player B.
LEMMA JoinOK ==
  ASSUME NEW now \in Nat, NEW p \in Players
  PROVE  /\ CoreOK(CreateAndJoin(p, now), now) /\ CheckMyGame(CreateAndJoin(p, now), p)
         /\ \A g \in Game :
              CoreOK(g, now) /\ g.status = "WAITING_FOR_OPPONENT"
              => CoreOK(JoinAsB(g, p), now) /\ CheckMyGame(JoinAsB(g, p), p)
<1>1. InitialRow # {}
  OBVIOUS
<1>2. CoreOK(CreateAndJoin(p, now), now) /\ CheckMyGame(CreateAndJoin(p, now), p)
  BY <1>1 DEF CoreOK, CreateAndJoin, CheckMyGame
<1>3. ASSUME NEW g \in Game, CoreOK(g, now), g.status = "WAITING_FOR_OPPONENT"
      PROVE  CoreOK(JoinAsB(g, p), now) /\ CheckMyGame(JoinAsB(g, p), p)
  BY <1>3 DEF CoreOK, JoinAsB, CheckMyGame, Game, Finished
<1>4. QED
  BY <1>2, <1>3

\* A verdict retains the game from the moment its loser timed out.
LEMMA VerdictOK ==
  ASSUME NEW g \in Game, NEW now \in Nat, GameOK(g, now)
  PROVE  /\ GameOK(Verdict(g, now), now)
         /\ Verdict(g, now).next_check_time = g.next_check_time
         /\ Verdict(g, now).status = "WAITING_FOR_OPPONENT"
              <=> g.status = "WAITING_FOR_OPPONENT"
<1> DEFINE wa == [g EXCEPT !.status = "WIN_A",
                           !.after_finish_activity = g.player_b_activity + Timeout]
           wb == [g EXCEPT !.status = "WIN_B",
                           !.after_finish_activity = g.player_a_activity + Timeout]
           Fine(h) == /\ GameOK(h, now)
                      /\ h.next_check_time = g.next_check_time
                      /\ h.status = "WAITING_FOR_OPPONENT"
                           <=> g.status = "WAITING_FOR_OPPONENT"
<1>1. g.player_a_activity \in Nat /\ g.player_b_activity \in Nat
  BY DEF Game
<1>2. Fine(g)
  OBVIOUS
<1>3. ASSUME g.status \in InTurn PROVE Fine(wa)
  BY <1>1, <1>3 DEF GameOK, CoreOK, RetentionOK, Game, InTurn, Finished,
                    LoserActivity, WinnerActivity, Later
<1>4. ASSUME g.status \in InTurn PROVE Fine(wb)
  BY <1>1, <1>4 DEF GameOK, CoreOK, RetentionOK, Game, InTurn, Finished,
                    LoserActivity, WinnerActivity, Later
<1>5. Verdict(g, now) = g \/ (g.status \in InTurn /\ Verdict(g, now) \in {wa, wb})
  BY VerdictCases, Zenon
<1>6. Fine(Verdict(g, now))
  BY <1>2, <1>3, <1>4, <1>5
<1>7. QED
  BY <1>6

\* Rescheduling changes nothing GameOK speaks of, and neither does time.
LEMMA ScheduledOK ==
  ASSUME NEW g \in Game, NEW now \in Nat, GameOK(g, now)
  PROVE  /\ GameOK(Scheduled(g), now)
         /\ GameOK(g, now + 1)
         /\ Scheduled(g).status = g.status
         /\ ComputeNextCheckTime(Scheduled(g)) = ComputeNextCheckTime(g)
         /\ Scheduled(g).next_check_time = ComputeNextCheckTime(g)
<1>1. GameOK(Scheduled(g), now)
  BY DEF GameOK, CoreOK, RetentionOK, Scheduled, Game, LoserActivity, WinnerActivity
<1>2. GameOK(g, now + 1)
  BY DEF GameOK, CoreOK, Game
<1>3. /\ Scheduled(g).status = g.status
      /\ ComputeNextCheckTime(Scheduled(g)) = ComputeNextCheckTime(g)
      /\ Scheduled(g).next_check_time = ComputeNextCheckTime(g)
  BY DEF Scheduled, ComputeNextCheckTime, Game
<1>4. QED
  BY <1>1, <1>2, <1>3

(***************************************************************************)
(* The inductive invariant.  The timeout set is consistent only together   *)
(* with the identifiers being fresh (a new game must not find entries of   *)
(* an older one); the games served are fresh only because the set is       *)
(* consistent, so that the loop in cleanup misses no game.                 *)
(***************************************************************************)
AllGamesOK == \A id \in Live : GameOK(games[id], clock)

WaitingIsKnown ==
  \A id \in Live : games[id].status = "WAITING_FOR_OPPONENT" => id = waiting_game_id

CaughtUp ==
  phase = "handle" => \A id \in Live : games[id].next_check_time > cleanup_now

IInv ==
  /\ TypeOK
  /\ ScheduleConsistent
  /\ AllGamesOK
  /\ WaitingIsKnown
  /\ IdsHandedOut
  /\ CaughtUp

\* A live identifier stands for a game.
LEMMA LiveGame ==
  ASSUME TypeOK, NEW id \in Live
  PROVE  id \in GameIds /\ games[id] \in Game
  BY DEF TypeOK, Live

\* Writing back and rescheduling a sound game keeps the games sound and the
\* timeout set consistent, whether the loop in cleanup has taken the game's
\* old entry out already or not.
LEMMA StoreOK ==
  ASSUME TypeOK, ScheduleConsistent, AllGamesOK, UNCHANGED clock,
         NEW id \in GameIds, NEW g \in Game, GameOK(g, clock),
         games[id] # NoGame => games[id].next_check_time = g.next_check_time,
         NEW checks, checks \in {timeouts, timeouts \ {<<g.next_check_time, id>>}},
         Store(checks, id, g)
  PROVE  /\ ScheduleConsistent'
         /\ AllGamesOK'
         /\ Live' = Live \cup {id}
         /\ games'[id] = Scheduled(g)
         /\ \A i \in GameIds \ {id} : games'[i] = games[i]
<1>1. PICK p \in Players : p = g.player_a_id
  BY DEF Game
<1>2. Scheduled(g) \in Game
  BY <1>1, TimeType DEF TypeOK
<1>3. /\ games'[id] = Scheduled(g)
      /\ \A i \in GameIds \ {id} : games'[i] = games[i]
  BY DEF Store, TypeOK
<1>4. Live' = Live \cup {id}
  BY <1>2, <1>3 DEF Live
<1>5. /\ GameOK(Scheduled(g), clock)
      /\ ComputeNextCheckTime(Scheduled(g)) = ComputeNextCheckTime(g)
      /\ Scheduled(g).next_check_time = ComputeNextCheckTime(g)
  BY ScheduledOK DEF TypeOK
<1>6. AllGamesOK'
  BY <1>3, <1>4, <1>5 DEF AllGamesOK, Live
<1>7. checks \ {<<g.next_check_time, id>>}
        = {<<games[i].next_check_time, i>> : i \in Live \ {id}}
  BY DEF ScheduleConsistent, Live
<1>8. timeouts' = {<<games'[i].next_check_time, i>> : i \in Live'}
  <2>1. timeouts' = {<<games[i].next_check_time, i>> : i \in Live \ {id}}
                      \cup {<<ComputeNextCheckTime(g), id>>}
    BY <1>7 DEF Store, Reschedule
  <2>2. \A i \in Live \ {id} : games'[i] = games[i]
    BY <1>3 DEF Live
  <2>3. QED
    BY <1>3, <1>4, <1>5, <2>1, <2>2
<1>9. \A i \in Live' : games'[i].next_check_time = ComputeNextCheckTime(games'[i])
  BY <1>3, <1>4, <1>5 DEF ScheduleConsistent, Live
<1>10. ScheduleConsistent'
  <2>1. ScheduleConsistent' <=>
          /\ timeouts' = {<<games'[i].next_check_time, i>> : i \in Live'}
          /\ \A i \in Live' : games'[i].next_check_time = ComputeNextCheckTime(games'[i])
    BY DEF ScheduleConsistent, ComputeNextCheckTime
  <2>2. QED
    BY <1>8, <1>9, <2>1
<1>11. QED
  BY <1>3, <1>4, <1>6, <1>10

\* The messages that name a game.
LEMMA InGameOK ==
  ASSUME IInv, NEW p \in Players, NEW id \in GameIds, NEW effect,
         games[id] \in Game => effect \in Game,
         games[id] \in Game /\ CoreOK(games[id], clock) /\ games[id].status \in InTurn
           => CoreOK(effect, clock) /\ SameButPlay(games[id], effect),
         InGame(p, id, effect)
  PROVE  IInv'
<1> DEFINE old == games[id]
           moved == IF CheckMyTurn(old, p) THEN effect ELSE old
           g == UpdateActivityTime(moved, p, clock)
<1>1. TypeOK'
  BY InGameType DEF IInv
<1>2. id \in Live /\ old \in Game /\ CoreOK(old, clock)
  BY LiveGame DEF IInv, InGame, Live, AllGamesOK, GameOK
<1>3. CheckMyTurn(old, p) => old.status \in InTurn
  BY DEF CheckMyTurn, InTurn
<1>4. /\ moved \in Game /\ CoreOK(moved, clock) /\ CheckMyGame(moved, p)
      /\ moved.next_check_time = old.next_check_time
      /\ moved.status = "WAITING_FOR_OPPONENT" <=> old.status = "WAITING_FOR_OPPONENT"
  <2>1. CASE CheckMyTurn(old, p)
    <3>1. CoreOK(effect, clock) /\ SameButPlay(old, effect) /\ effect \in Game
      BY <1>2, <1>3, <2>1
    <3>2. QED
      BY <2>1, <3>1 DEF SameButPlay, InGame, CheckMyGame
  <2>2. CASE ~CheckMyTurn(old, p)
    BY <1>2, <2>2 DEF InGame
  <2>3. QED
    BY <2>1, <2>2
<1>5. /\ g \in Game /\ GameOK(g, clock)
      /\ g.next_check_time = old.next_check_time
      /\ g.status = moved.status
  <2>1. clock \in Nat
    BY DEF IInv, TypeOK
  <2>2. g \in Game
    BY <1>4, <2>1, TimeType
  <2>3. GameOK(g, clock)
    BY <1>4, <2>1, UpdateOK
  <2>4. g.next_check_time = old.next_check_time /\ g.status = moved.status
    BY <1>4 DEF UpdateActivityTime, Game
  <2>5. QED
    BY <2>2, <2>3, <2>4
<1>6. Store(timeouts, id, g) /\ UNCHANGED clock
  BY DEF InGame, Answered
<1>7. /\ ScheduleConsistent' /\ AllGamesOK'
      /\ Live' = Live \cup {id}
      /\ games'[id] = Scheduled(g)
      /\ \A i \in GameIds \ {id} : games'[i] = games[i]
  BY <1>2, <1>5, <1>6, StoreOK DEF IInv
<1>8. Scheduled(g).status = g.status
  BY <1>5 DEF Scheduled, Game
<1>9. WaitingIsKnown'
  BY <1>2, <1>4, <1>5, <1>7, <1>8 DEF WaitingIsKnown, IInv, InGame, idVars, Live
<1>10. IdsHandedOut' /\ CaughtUp'
  BY <1>2, <1>7 DEF IdsHandedOut, CaughtUp, IInv, InGame, idVars, Answered
<1>11. QED
  BY <1>1, <1>7, <1>9, <1>10 DEF IInv

\* An iteration of the loop in cleanup.
LEMMA CleanupOK ==
  ASSUME IInv, CleanupStep
  PROVE  IInv'
<1> USE DEF CleanupStep
<1>1. TypeOK'
  BY TypeStep DEF IInv, Next, ServerStep
<1>2. PICK check \in timeouts : CleanupStep!2!(check)
  OBVIOUS
<1> DEFINE id   == check[2]
           rest == timeouts \ {check}
           g    == Verdict(games[id], clock)
<1>3. id \in Live /\ check = <<games[id].next_check_time, id>>
  BY DEF IInv, ScheduleConsistent
<1>4. id \in GameIds /\ games[id] \in Game /\ games[id] # NoGame /\ GameOK(games[id], clock)
  BY <1>3, LiveGame DEF IInv, AllGamesOK, Live
<1>5. PICK p \in Players : p = games[id].player_a_id
  BY <1>4 DEF Game
<1>6. /\ g \in Game /\ GameOK(g, clock) /\ g.next_check_time = games[id].next_check_time
      /\ g.status = "WAITING_FOR_OPPONENT" <=> games[id].status = "WAITING_FOR_OPPONENT"
  BY <1>4, <1>5, TimeType, VerdictOK DEF IInv, TypeOK
<1>7. UNCHANGED <<clock, idVars, phase, cleanup_now>> /\ phase = "cleanup"
  OBVIOUS
<1>8. CASE Store(rest, id, g)
  <2>1. /\ ScheduleConsistent' /\ AllGamesOK'
        /\ Live' = Live \cup {id}
        /\ games'[id] = Scheduled(g)
        /\ \A i \in GameIds \ {id} : games'[i] = games[i]
    <3>1. rest = timeouts \ {<<g.next_check_time, id>>}
      BY <1>3, <1>6
    <3>2. QED
      BY <1>4, <1>6, <1>7, <1>8, <3>1, StoreOK DEF IInv
  <2>2. Scheduled(g).status = g.status
    BY <1>6 DEF Scheduled, Game
  <2>3. WaitingIsKnown'
    BY <1>3, <1>6, <1>7, <2>1, <2>2 DEF WaitingIsKnown, IInv, idVars, Live
  <2>4. IdsHandedOut' /\ CaughtUp'
    BY <1>3, <1>7, <2>1 DEF IdsHandedOut, CaughtUp, IInv, idVars
  <2>5. QED
    BY <1>1, <2>1, <2>3, <2>4 DEF IInv
<1>9. CASE timeouts' = rest /\ games' = [games EXCEPT ![id] = NoGame]
  <2>1. Live' = Live \ {id} /\ \A i \in GameIds \ {id} : games'[i] = games[i]
    BY <1>4, <1>9 DEF Live, IInv, TypeOK
  <2>2. timeouts' = {<<games'[i].next_check_time, i>> : i \in Live'}
    <3>1. timeouts' = {<<games[i].next_check_time, i>> : i \in Live \ {id}}
      BY <1>3, <1>9 DEF IInv, ScheduleConsistent
    <3>2. QED
      BY <2>1, <3>1 DEF Live
  <2>3. \A i \in Live' : games'[i].next_check_time = ComputeNextCheckTime(games'[i])
    BY <2>1 DEF IInv, ScheduleConsistent, Live
  <2>4. ScheduleConsistent'
    <3>1. ScheduleConsistent' <=>
            /\ timeouts' = {<<games'[i].next_check_time, i>> : i \in Live'}
            /\ \A i \in Live' : games'[i].next_check_time = ComputeNextCheckTime(games'[i])
      BY DEF ScheduleConsistent, ComputeNextCheckTime
    <3>2. QED
      BY <2>2, <2>3, <3>1
  <2>5. AllGamesOK' /\ WaitingIsKnown' /\ IdsHandedOut' /\ CaughtUp'
    BY <1>7, <2>1 DEF IInv, AllGamesOK, WaitingIsKnown, IdsHandedOut, CaughtUp, idVars, Live
  <2>6. QED
    BY <1>1, <2>4, <2>5 DEF IInv
<1>10. QED
  BY <1>2, <1>4, <1>8, <1>9

\* A join: the only steps that change the waiting game.
LEMMA JoinStepOK ==
  ASSUME IInv, NEW p \in Players, JoinWaiting(p) \/ JoinNew(p)
  PROVE  IInv'
<1>1. TypeOK'
  <2>1. Next
    BY DEF Next, ServerStep
  <2>2. QED
    BY <2>1, TypeStep DEF IInv
<1>2. clock \in Nat /\ clock' = clock /\ CaughtUp'
  BY DEF IInv, TypeOK, JoinWaiting, JoinNew, Answered, CaughtUp
<1>3. CASE JoinWaiting(p)
  <2> DEFINE w == waiting_game_id
             j == JoinAsB(games[w], p)
             g == UpdateActivityTime(j, p, clock)
  <2>1. /\ w \in Live /\ w \in GameIds /\ games[w] \in Game
        /\ CoreOK(games[w], clock) /\ games[w].status = "WAITING_FOR_OPPONENT"
    BY <1>3, LiveGame DEF JoinWaiting, GameWaiting, Live, IInv, TypeOK, AllGamesOK, GameOK
  <2>2. j \in Game /\ CoreOK(j, clock) /\ CheckMyGame(j, p)
    BY <1>2, <2>1, JoinType, JoinOK
  <2>3. j.next_check_time = games[w].next_check_time /\ j.status = "TURN_B"
    BY <2>1 DEF JoinAsB, Game
  <2>4. /\ g \in Game /\ GameOK(g, clock)
        /\ g.next_check_time = games[w].next_check_time /\ g.status = "TURN_B"
    <3>1. g.next_check_time = j.next_check_time /\ g.status = j.status
      BY <2>2 DEF UpdateActivityTime, Game
    <3>2. QED
      BY <1>2, <2>2, <2>3, <3>1, TimeType, UpdateOK
  <2>5. /\ ScheduleConsistent' /\ AllGamesOK'
        /\ Live' = Live \cup {w}
        /\ games'[w] = Scheduled(g)
        /\ \A i \in GameIds \ {w} : games'[i] = games[i]
    BY <1>2, <1>3, <2>1, <2>4, StoreOK DEF IInv, JoinWaiting
  <2>6. WaitingIsKnown' /\ IdsHandedOut'
    BY <1>3, <2>1, <2>5 DEF WaitingIsKnown, IdsHandedOut, IInv, JoinWaiting, idVars, Live
  <2>7. QED
    BY <1>1, <1>2, <2>5, <2>6 DEF IInv
<1>4. CASE JoinNew(p)
  <2> DEFINE c == current_id
             j == CreateAndJoin(p, clock)
             g == UpdateActivityTime(j, p, clock)
  <2>1. c \in GameIds /\ c \notin Live /\ games[c] = NoGame
    BY <1>4 DEF JoinNew, IInv, TypeOK, IdsHandedOut, GameIds, Live
  <2>2. CoreOK(j, clock) /\ CheckMyGame(j, p)
    BY <1>2, JoinOK
  <2>3. j \in Game
    <3>1. Cardinality(InitialRow) % CounterSize \in PawnIndex
      BY BoardFinite, Remainder DEF PawnIndex
    <3>2. QED
      BY <1>2, <3>1 DEF CreateAndJoin, Game, Status
  <2>4. g \in Game /\ GameOK(g, clock)
    BY <1>2, <2>2, <2>3, TimeType, UpdateOK
  <2>5. /\ ScheduleConsistent' /\ AllGamesOK'
        /\ Live' = Live \cup {c}
        /\ \A i \in GameIds \ {c} : games'[i] = games[i]
    BY <1>2, <1>4, <2>1, <2>4, StoreOK DEF IInv, JoinNew
  <2>6. WaitingIsKnown'
    BY <1>4, <2>1, <2>5 DEF WaitingIsKnown, IInv, JoinNew, GameWaiting, Live
  <2>7. IdsHandedOut'
    <3>1. CASE c = MaxGameId
      BY <1>4, <3>1 DEF JoinNew, IdsHandedOut
    <3>2. CASE c # MaxGameId
      <4>1. current_id' = c + 1
        <5>1. c + 1 \in 0..MaxGameId
          BY <2>1, <3>2 DEF GameIds
        <5>2. QED
          BY <1>4, <5>1 DEF JoinNew
      <4>2. QED
        BY <1>4, <2>1, <2>5, <4>1 DEF JoinNew, IdsHandedOut, IInv, GameIds, Live
    <3>3. QED
      BY <3>1, <3>2
  <2>8. QED
    BY <1>1, <1>2, <2>5, <2>6, <2>7 DEF IInv
<1>5. QED
  BY <1>3, <1>4

\* Every step keeps the invariant.
LEMMA InvStep == IInv /\ [Next]_vars => IInv'
<1> SUFFICES ASSUME IInv, [Next]_vars PROVE IInv'
  OBVIOUS
<1>0. TypeOK'
  BY TypeStep DEF IInv
<1>1. CASE Tick
  <2>1. clock' = clock + 1 /\ clock \in Nat /\ UNCHANGED <<games, timeouts, idVars, phase, cleanup_now>>
    BY <1>1 DEF Tick, IInv, TypeOK
  <2>2. Live' = Live
    BY <2>1 DEF Live
  <2>3. AllGamesOK'
    BY <2>1, <2>2, LiveGame, ScheduledOK DEF AllGamesOK, IInv
  <2>4. QED
    BY <1>0, <2>1, <2>2, <2>3
       DEF IInv, ScheduleConsistent, ComputeNextCheckTime, WaitingIsKnown, IdsHandedOut, CaughtUp, idVars
<1>2. ASSUME UNCHANGED <<clock, games, timeouts, idVars>>, phase' = "handle" => CaughtUp'
      PROVE  IInv'
  <2>1. Live' = Live
    BY <1>2 DEF Live
  <2>2. CaughtUp'
    BY <1>2 DEF CaughtUp
  <2>3. QED
    BY <1>0, <1>2, <2>1, <2>2
       DEF IInv, ScheduleConsistent, ComputeNextCheckTime, AllGamesOK, WaitingIsKnown, IdsHandedOut, idVars
<1>3. CASE Receive
  BY <1>2, <1>3 DEF Receive
<1>4. CASE CleanupStep
  BY <1>4, CleanupOK
<1>5. CASE CleanupDone
  <2>1. \A id \in Live : games[id].next_check_time > cleanup_now
    <3>1. \A check \in timeouts : check[1] > cleanup_now
      BY <1>5 DEF CleanupDone
    <3>2. \A id \in Live : <<games[id].next_check_time, id>> \in timeouts
      BY DEF IInv, ScheduleConsistent
    <3>3. QED
      BY <3>1, <3>2
  <2>2. CaughtUp'
    BY <1>5, <2>1 DEF CleanupDone, CaughtUp, Live
  <2>3. QED
    BY <1>2, <1>5, <2>2 DEF CleanupDone
<1>6. CASE WrongMessage \/ JoinDropped
  <2>1. UNCHANGED <<clock, games, timeouts, idVars>> /\ phase' = "recv"
    BY <1>6 DEF WrongMessage, JoinDropped, Answered, idVars
  <2>2. QED
    BY <1>2, <2>1
<1>7. ASSUME NEW p \in Players, JoinWaiting(p) \/ JoinNew(p) PROVE IInv'
  BY <1>7, JoinStepOK
<1>8. clock \in Nat
  BY DEF IInv, TypeOK
<1>9. ASSUME NEW p \in Players, NEW id \in GameIds, NEW pawn \in PawnIndex,
             Move1(p, id, pawn) \/ Move2(p, id, pawn)
      PROVE  IInv'
  BY <1>8, <1>9, MovesType, MovesOK, InGameOK DEF Move1, Move2
<1>10. ASSUME NEW p \in Players, NEW id \in GameIds, Resign(p, id)
      PROVE  IInv'
  <2>1. 0 \in PawnIndex
    BY DEF PawnIndex
  <2>2. QED
    BY <1>8, <1>10, <2>1, MovesType, MovesOK, InGameOK DEF Resign
<1>11. ASSUME NEW p \in Players, NEW id \in GameIds, KeepAlive(p, id)
      PROVE  IInv'
  <2>1. games[id].status \in InTurn => SameButPlay(games[id], games[id])
    BY DEF SameButPlay, InTurn
  <2>2. QED
    BY <1>11, <2>1, InGameOK DEF KeepAlive
<1>12. CASE UNCHANGED vars
  <2>1. UNCHANGED <<clock, games, timeouts, idVars>> /\ CaughtUp' = CaughtUp
    BY <1>12 DEF vars, idVars, CaughtUp, Live
  <2>2. QED
    BY <1>2, <2>1 DEF IInv
<1>13. QED
  BY <1>1, <1>3, <1>4, <1>5, <1>6, <1>7, <1>9, <1>10, <1>11, <1>12 DEF Next, ServerStep

\* The invariant holds in every reachable state.
LEMMA Invariance == Spec => []IInv
<1>1. Init => IInv
  <2> SUFFICES ASSUME Init PROVE IInv
    OBVIOUS
  <2>1. Live = {} /\ TypeOK
    BY DEF Init, Live, TypeOK, GameIds
  <2>2. QED
    BY <2>1 DEF Init, IInv, ScheduleConsistent, AllGamesOK, WaitingIsKnown, IdsHandedOut, CaughtUp
<1>2. QED
  BY <1>1, InvStep, PTL DEF Spec

(***************************************************************************)
(* The safety invariants.                                                  *)
(***************************************************************************)

\* Every live game has exactly one entry in the timeout set, and it is the one
\* its state calls for (the promise of schedule_game).
THEOREM ScheduleCorrect == Spec => []ScheduleConsistent
<1>1. IInv => ScheduleConsistent
  BY DEF IInv
<1>2. QED
  BY <1>1, Invariance, PTL

\* The identifier of a new game is never that of a live one, although
\* current_id wraps around.
THEOREM IdsCorrect == Spec => []IdsHandedOut
<1>1. IInv => IdsHandedOut
  BY DEF IInv
<1>2. QED
  BY <1>1, Invariance, PTL

\* Exactly the game waiting_game_id names may lack its player B.
THEOREM WaitingCorrect == Spec => []OneWaitingGame
<1>1. IInv => OneWaitingGame
  BY DEF IInv, OneWaitingGame, AllGamesOK, GameOK, CoreOK, WaitingIsKnown
<1>2. QED
  BY <1>1, Invariance, PTL

\* pawns_left agrees with the board modulo the width of the counter, and a
\* cleared board is a finished game.
THEOREM CounterCorrect == Spec => []PawnsCounted
<1>1. IInv => PawnsCounted
  BY DEF IInv, PawnsCounted, AllGamesOK, GameOK, CoreOK
<1>2. QED
  BY <1>1, Invariance, PTL

\* No game that had expired when cleanup started is left to a handler.
THEOREM FreshnessCorrect == Spec => []ServedGamesAreFresh
<1>1. ASSUME IInv, phase = "handle", NEW id \in Live
      PROVE  LET g == games[id]
                 a_silent == cleanup_now - g.player_a_activity
                 b_silent == cleanup_now - g.player_b_activity
             IN  CASE g.status = "WAITING_FOR_OPPONENT" -> a_silent < Timeout
                   [] g.status \in InTurn   -> a_silent < Timeout /\ b_silent < Timeout
                   [] g.status \in Finished -> Earlier(a_silent, b_silent) < 2 * Timeout
  <2> DEFINE g == games[id]
  <2>1. g \in Game /\ RetentionOK(g) /\ cleanup_now \in Nat
    BY <1>1, LiveGame DEF IInv, TypeOK, AllGamesOK, GameOK
  <2>2. ComputeNextCheckTime(g) > cleanup_now
    BY <1>1 DEF IInv, ScheduleConsistent, CaughtUp
  <2>3. /\ g.player_a_activity \in Nat /\ g.player_b_activity \in Nat
        /\ g.after_finish_activity \in Nat /\ g.status \in Status
    BY <2>1 DEF Game
  <2> DEFINE a_silent == cleanup_now - g.player_a_activity
             b_silent == cleanup_now - g.player_b_activity
  <2>4. CASE g.status = "WAITING_FOR_OPPONENT"
    <3>1. a_silent < Timeout
      BY <2>1, <2>2, <2>3, <2>4 DEF ComputeNextCheckTime, InTurn, Finished
    <3>2. QED
      BY <2>4, <3>1 DEF InTurn, Finished
  <2>5. CASE g.status \in InTurn
    <3>1. a_silent < Timeout /\ b_silent < Timeout
      BY <2>1, <2>2, <2>3, <2>5 DEF ComputeNextCheckTime, InTurn, Finished, Earlier
    <3>2. QED
      BY <2>5, <3>1 DEF InTurn, Finished
  <2>6. CASE g.status \in Finished
    <3>1. g.after_finish_activity + Timeout > cleanup_now
      BY <2>2, <2>3, <2>6 DEF ComputeNextCheckTime, InTurn, Finished
    <3>2. g.after_finish_activity
            <= Later(g.player_a_activity, g.player_b_activity) + Timeout
      BY <2>1, <2>6 DEF RetentionOK
    <3>3. Earlier(a_silent, b_silent) < 2 * Timeout
      BY <2>1, <2>3, <3>1, <3>2 DEF Earlier, Later
    <3>4. QED
      BY <2>6, <3>3 DEF InTurn, Finished
  <2>7. QED
    BY <2>3, <2>4, <2>5, <2>6 DEF Status
<1>2. IInv => ServedGamesAreFresh
  BY <1>1 DEF ServedGamesAreFresh
<1>3. QED
  BY <1>2, Invariance, PTL

\* A finished game is retained from no earlier than the loser's last message.
THEOREM RetentionCorrect == Spec => []RetainedFromTheEnd
<1>1. IInv => RetainedFromTheEnd
  BY DEF IInv, RetainedFromTheEnd, AllGamesOK, GameOK, RetentionOK
<1>2. QED
  BY <1>1, Invariance, PTL

-----------------------------------------------------------------------------
(***************************************************************************)
(* What a step of the server may never do.  Every action property speaks   *)
(* of one game, so the steps of the server are first reduced to what they  *)
(* do to one game; the invariant above says in which state they find it.   *)
(***************************************************************************)

\* No game has been created under this identifier yet.
Unused(id) == id >= current_id /\ games_avaliable

\* cleanup gives the game its verdict, then drops it or writes it back.
CleanedUp(id) ==
  LET g == Verdict(games[id], clock)
  IN  /\ phase = "cleanup"
      /\ UNCHANGED idVars
      /\ games[id] # NoGame
      /\ \/ ~Alive(g, clock) /\ games'[id] = NoGame
         \/ Alive(g, clock) /\ games'[id] = Scheduled(g)

\* The game gets its player B.
Joined(id) ==
  /\ phase = "handle"
  /\ games[id] # NoGame
  /\ games[id].status = "WAITING_FOR_OPPONENT"
  /\ \E p \in Players :
       games'[id] = Scheduled(UpdateActivityTime(JoinAsB(games[id], p), p, clock))

Effects(g) ==
  {MakeMove1(g, pawn) : pawn \in PawnIndex} \cup {MakeMove2(g, pawn) : pawn \in PawnIndex}
    \cup {GiveUp(g), g}

\* A message of one of the game's players, legal or not.
Played(id) ==
  /\ phase = "handle"
  /\ games[id] # NoGame
  /\ \E p \in Players, effect \in Effects(games[id]) :
       LET moved == IF CheckMyTurn(games[id], p) THEN effect ELSE games[id]
       IN  games'[id] = Scheduled(UpdateActivityTime(moved, p, clock))

Created(id) ==
  /\ games[id] = NoGame
  /\ Unused(id)
  /\ \E p \in Players :
       games'[id] = Scheduled(UpdateActivityTime(CreateAndJoin(p, clock), p, clock))

Untouched(id) ==
  /\ games'[id] = games[id]
  /\ games[id] = NoGame => (Unused(id)' <=> Unused(id))

\* Whatever is stored under one identifier leaves the games under the others.
LEMMA StoreOne ==
  ASSUME TypeOK, NEW id \in GameIds, NEW g, NEW checks, Store(checks, id, g)
  PROVE  /\ games'[id] = Scheduled(g)
         /\ \A i \in GameIds \ {id} : games'[i] = games[i]
  BY DEF TypeOK, Store

\* A message to one game leaves every other game alone and plays its effect on
\* that one, or nothing if it was not the sender's turn.
LEMMA InGamePlays ==
  ASSUME TypeOK, NEW p \in Players, NEW i \in GameIds,
         NEW effect \in Effects(games[i]), InGame(p, i, effect), NEW id \in GameIds
  PROVE  Untouched(id) \/ Played(id)
<1>0. Unused(id)' <=> Unused(id)
  BY DEF Unused, InGame, idVars
<1> DEFINE moved == IF CheckMyTurn(games[i], p) THEN effect ELSE games[i]
<1>1. Store(timeouts, i, UpdateActivityTime(moved, p, clock))
  BY DEF InGame
<1>2. /\ games'[i] = Scheduled(UpdateActivityTime(moved, p, clock))
      /\ \A k \in GameIds \ {i} : games'[k] = games[k]
  BY <1>1, StoreOne
<1>3. Played(i)
  BY <1>2 DEF Played, InGame, Answered
<1>4. QED
  BY <1>0, <1>2, <1>3 DEF Untouched

\* Every step of the server, seen by one game.
LEMMA OneGame ==
  ASSUME IInv, [Next]_vars, NEW id \in GameIds
  PROVE  Untouched(id) \/ CleanedUp(id) \/ Joined(id) \/ Played(id) \/ Created(id)
<1>0. TypeOK
  BY DEF IInv
<1>1. CASE Tick \/ Receive \/ CleanupDone \/ WrongMessage \/ JoinDropped \/ UNCHANGED vars
  <2>1. games' = games /\ UNCHANGED <<current_id, games_avaliable>>
    BY <1>1 DEF Tick, Receive, CleanupDone, WrongMessage, JoinDropped, vars, idVars
  <2>2. QED
    BY <2>1 DEF Untouched, Unused
<1>2. CASE CleanupStep
  <2> USE <1>2 DEF CleanupStep
  <2>1. PICK check \in timeouts : CleanupStep!2!(check)
    OBVIOUS
  <2> DEFINE i == check[2]
             g == Verdict(games[i], clock)
  <2>2. /\ i \in GameIds /\ phase = "cleanup" /\ UNCHANGED idVars
        /\ Unused(id)' <=> Unused(id)
    BY <1>0 DEF TypeOK, Unused, idVars
  <2>3. CASE games[i] = NoGame /\ UNCHANGED games
    BY <2>2, <2>3 DEF Untouched
  <2>4. CASE games[i] # NoGame /\ ~Alive(g, clock) /\ games' = [games EXCEPT ![i] = NoGame]
    <3>1. games'[i] = NoGame /\ \A k \in GameIds \ {i} : games'[k] = games[k]
      BY <1>0, <2>2, <2>4 DEF TypeOK
    <3>2. CleanedUp(i)
      BY <2>2, <2>4, <3>1 DEF CleanedUp
    <3>3. QED
      BY <2>2, <3>1, <3>2 DEF Untouched
  <2>5. CASE games[i] # NoGame /\ Alive(g, clock) /\ Store(timeouts \ {check}, i, g)
    <3>1. games'[i] = Scheduled(g) /\ \A k \in GameIds \ {i} : games'[k] = games[k]
      BY <1>0, <2>2, <2>5, StoreOne
    <3>2. CleanedUp(i)
      BY <2>2, <2>5, <3>1 DEF CleanedUp
    <3>3. QED
      BY <2>2, <3>1, <3>2 DEF Untouched
  <2>6. QED
    BY <2>1, <2>3, <2>4, <2>5
<1>3. ASSUME NEW p \in Players, JoinWaiting(p)
      PROVE  Untouched(id) \/ Joined(id)
  <2> DEFINE g == UpdateActivityTime(JoinAsB(games[waiting_game_id], p), p, clock)
  <2>1. Store(timeouts, waiting_game_id, g) /\ waiting_game_id \in GameIds
    BY <1>0, <1>3 DEF JoinWaiting, TypeOK
  <2>2. /\ games'[waiting_game_id] = Scheduled(g)
        /\ \A k \in GameIds \ {waiting_game_id} : games'[k] = games[k]
    BY <1>0, <2>1, StoreOne
  <2>3. Unused(id)' <=> Unused(id)
    BY <1>3 DEF JoinWaiting, Unused, idVars
  <2>4. QED
    BY <1>3, <2>2, <2>3 DEF JoinWaiting, GameWaiting, Answered, Joined, Untouched
<1>4. ASSUME NEW p \in Players, JoinNew(p)
      PROVE  Untouched(id) \/ Created(id)
  <2> DEFINE g == UpdateActivityTime(CreateAndJoin(p, clock), p, clock)
  <2>1. Store(timeouts, current_id, g) /\ current_id \in GameIds
    BY <1>0, <1>4 DEF JoinNew, TypeOK
  <2>2. /\ games'[current_id] = Scheduled(g)
        /\ \A k \in GameIds \ {current_id} : games'[k] = games[k]
    BY <1>0, <2>1, StoreOne
  <2>3. games_avaliable /\ games[current_id] = NoGame
    BY <1>4, <2>1 DEF IInv, IdsHandedOut, Live, JoinNew, GameIds
  <2>4. Created(current_id)
    BY <2>1, <2>2, <2>3 DEF Created, Unused, GameIds
  <2>5. id # current_id => (Unused(id)' <=> Unused(id))
    <3>1. games_avaliable' <=> current_id # MaxGameId
      BY <1>4, Zenon DEF JoinNew
    <3>2. CASE current_id = MaxGameId
      <4>1. id # current_id => ~(id >= current_id)
        BY <3>2 DEF GameIds
      <4>2. QED
        BY <3>1, <3>2, <4>1 DEF Unused
    <3>3. CASE current_id # MaxGameId
      <4>1. current_id \in Nat /\ current_id + 1 \in 0..MaxGameId
        BY <2>1, <3>3 DEF GameIds
      <4>2. (current_id + 1) % (MaxGameId + 1) = current_id + 1
        BY <4>1
      <4>3. id # current_id => (id >= current_id' <=> id >= current_id)
        BY <1>4, <4>1, <4>2 DEF JoinNew, GameIds
      <4>4. QED
        BY <2>3, <3>1, <3>3, <4>3 DEF Unused
    <3>4. QED
      BY <3>2, <3>3
  <2>6. QED
    BY <2>2, <2>4, <2>5 DEF Untouched
<1>5. ASSUME NEW p \in Players, NEW i \in GameIds, NEW pawn \in PawnIndex,
             Move1(p, i, pawn) \/ Move2(p, i, pawn)
      PROVE  Untouched(id) \/ Played(id)
  <2>1. MakeMove1(games[i], pawn) \in Effects(games[i])
        /\ MakeMove2(games[i], pawn) \in Effects(games[i])
    BY DEF Effects
  <2>2. QED
    BY <1>0, <1>5, <2>1, InGamePlays DEF Move1, Move2
<1>6. ASSUME NEW p \in Players, NEW i \in GameIds, Resign(p, i) \/ KeepAlive(p, i)
      PROVE  Untouched(id) \/ Played(id)
  <2>1. GiveUp(games[i]) \in Effects(games[i]) /\ games[i] \in Effects(games[i])
    BY DEF Effects
  <2>2. QED
    BY <1>0, <1>6, <2>1, InGamePlays DEF Resign, KeepAlive
<1>7. QED
  BY <1>1, <1>2, <1>3, <1>4, <1>5, <1>6 DEF Next, ServerStep

\* No effect of a message touches the players or their activities.
LEMMA EffectsKeepPlayers ==
  ASSUME NEW g \in Game, NEW effect \in Effects(g)
  PROVE  /\ effect \in Game
         /\ effect.player_a_id = g.player_a_id
         /\ effect.player_b_id = g.player_b_id
         /\ effect.player_a_activity = g.player_a_activity
         /\ effect.player_b_activity = g.player_b_activity
<1> DEFINE Kept(h) == /\ h \in Game
                      /\ h.player_a_id = g.player_a_id
                      /\ h.player_b_id = g.player_b_id
                      /\ h.player_a_activity = g.player_a_activity
                      /\ h.player_b_activity = g.player_b_activity
<1>1. Kept(g)
  OBVIOUS
<1>2. \A S \in SUBSET (0..MaxPawn) : Kept(RemovePawns(g, S))
  <2> TAKE S \in SUBSET (0..MaxPawn)
  <2>1. RemovePawns(g, S) \in Game
    BY RemovePawnsType
  <2>2. QED
    BY <2>1 DEF RemovePawns, Game
<1>3. 0 \in PawnIndex
  BY DEF PawnIndex
<1>4. Kept(GiveUp(g))
  BY <1>3, MovesType DEF GiveUp, Game
<1>5. \A pawn \in PawnIndex : Kept(MakeMove1(g, pawn)) /\ Kept(MakeMove2(g, pawn))
  <2> TAKE pawn \in PawnIndex
  <2>1. pawn <= MaxPawn => {pawn} \in SUBSET (0..MaxPawn)
    BY DEF PawnIndex
  <2>2. pawn < MaxPawn => {pawn, pawn + 1} \in SUBSET (0..MaxPawn)
    BY DEF PawnIndex
  <2>3. Kept(MakeMove1(g, pawn))
    BY <1>1, <1>2, <2>1 DEF MakeMove1
  <2>4. Kept(MakeMove2(g, pawn))
    BY <1>1, <1>2, <2>2 DEF MakeMove2
  <2>5. QED
    BY <2>3, <2>4
<1>6. QED
  BY <1>1, <1>4, <1>5 DEF Effects

\* Neither a verdict nor the time of the next check touches the board.
LEMMA CleanupKeepsBoard ==
  ASSUME NEW g \in Game, NEW now \in Nat
  PROVE  Scheduled(Verdict(g, now)).pawn_row = g.pawn_row
<1> DEFINE Ended(s, t) == [g EXCEPT !.status = s, !.after_finish_activity = t]
           Kept(h) == h \in Game /\ h.pawn_row = g.pawn_row
<1>1. \A s \in Status, t \in Nat : Kept(Ended(s, t))
  BY DEF Game
<1>2. /\ g.player_a_activity + Timeout \in Nat /\ g.player_b_activity + Timeout \in Nat
      /\ "WIN_A" \in Status /\ "WIN_B" \in Status
  BY DEF Game, Status, Finished
<1>3. Kept(Verdict(g, now))
  <2>1. /\ Kept(g)
        /\ Kept(Ended("WIN_A", g.player_b_activity + Timeout))
        /\ Kept(Ended("WIN_B", g.player_a_activity + Timeout))
    <3> HIDE DEF Ended, Kept
    <3>1. Kept(g)
      BY DEF Kept
    <3>2. QED
      BY <1>1, <1>2, <3>1
  <2>2. Verdict(g, now) \in {g, Ended("WIN_A", g.player_b_activity + Timeout),
                                Ended("WIN_B", g.player_a_activity + Timeout)}
    BY VerdictCases, Zenon
  <2>3. QED
    <3> HIDE DEF Ended, Kept
    <3>1. QED
      BY <2>1, <2>2
<1>4. QED
  BY <1>3 DEF Scheduled, Game

\* A game under some identifier is a sound game.
LEMMA LiveIsGame ==
  ASSUME IInv, NEW id \in GameIds, games[id] # NoGame
  PROVE  /\ games[id] \in Game
         /\ GameOK(games[id], clock)
         /\ clock \in Nat
  BY DEF IInv, TypeOK, AllGamesOK, Live

-----------------------------------------------------------------------------
\* Only the player whose turn it is takes pawns, for every row, any number of
\* players and whichever side the same player takes.
THEOREM OnlyTheMoverTakes == Spec => MoverHoldsTurn
<1> DEFINE Fine(id) ==
             /\ games[id] # NoGame /\ games'[id] # NoGame
             /\ games[id].pawn_row # games'[id].pawn_row
             => LET g == games[id]
                    h == games'[id]
                    Kept == g.player_a_id # g.player_b_id
                IN  \/ /\ g.status = "TURN_A" /\ h.player_a_activity = clock
                       /\ Kept => h.player_b_activity = g.player_b_activity
                    \/ /\ g.status = "TURN_B" /\ h.player_b_activity = clock
                       /\ Kept => h.player_a_activity = g.player_a_activity
<1>1. ASSUME IInv, [Next]_vars PROVE \A id \in GameIds : Fine(id)
  <2> TAKE id \in GameIds
  <2>1. CASE Untouched(id) \/ Created(id)
    BY <2>1 DEF Untouched, Created
  <2>2. CASE CleanedUp(id)
    <3>1. games[id] \in Game /\ clock \in Nat
      BY <1>1, <2>2, LiveIsGame DEF CleanedUp
    <3>2. Scheduled(Verdict(games[id], clock)).pawn_row = games[id].pawn_row
      BY <3>1, CleanupKeepsBoard
    <3>3. QED
      BY <2>2, <3>2 DEF CleanedUp
  <2>3. CASE Joined(id)
    <3>1. games[id] \in Game
      BY <1>1, <2>3, LiveIsGame DEF Joined
    <3>2. QED
      BY <2>3, <3>1 DEF Joined, Scheduled, UpdateActivityTime, JoinAsB, Game
  <2>4. CASE Played(id)
    <3>1. games[id] \in Game /\ clock \in Nat
      BY <1>1, <2>4, LiveIsGame DEF Played
    <3>2. PICK p \in Players, effect \in Effects(games[id]) :
            games'[id] = Scheduled(UpdateActivityTime(
              IF CheckMyTurn(games[id], p) THEN effect ELSE games[id], p, clock))
      BY <2>4 DEF Played
    <3>3. CASE ~CheckMyTurn(games[id], p)
      BY <3>1, <3>2, <3>3 DEF Scheduled, UpdateActivityTime, Game
    <3>4. CASE CheckMyTurn(games[id], p)
      <4> DEFINE g == games[id]
                 h == games'[id]
      <4>1. /\ effect \in Game
            /\ effect.player_a_id = g.player_a_id
            /\ effect.player_b_id = g.player_b_id
            /\ effect.player_a_activity = g.player_a_activity
            /\ effect.player_b_activity = g.player_b_activity
        BY <3>1, EffectsKeepPlayers
      <4>2. h = Scheduled(UpdateActivityTime(effect, p, clock))
        BY <3>2, <3>4
      <4>3. /\ h.player_a_activity = IF g.player_a_id = p THEN clock ELSE g.player_a_activity
            /\ h.player_b_activity = IF g.player_b_id = p THEN clock ELSE g.player_b_activity
        BY <4>1, <4>2 DEF Scheduled, UpdateActivityTime, Game
      <4>4. QED
        BY <3>4, <4>3 DEF CheckMyTurn
    <3>5. QED
      BY <3>3, <3>4
  <2>5. QED
    BY <1>1, <2>1, <2>2, <2>3, <2>4, OneGame
<1>2. QED
  BY <1>1, Invariance, PTL DEF Spec, MoverHoldsTurn

\* Cleanup never takes a game from the player who was heard of last, nor from
\* one who was heard of within the timeout.
THEOREM TheSilentLose == Spec => TimeoutVerdict
<1> DEFINE Fine(id) ==
             /\ phase = "cleanup"
             /\ games[id] # NoGame /\ games'[id] # NoGame
             /\ games[id].status \in InTurn /\ games'[id].status \in Finished
             => /\ TimedOut(LoserActivity(games'[id]), clock)
                /\ LoserActivity(games'[id]) <= WinnerActivity(games'[id])
<1>1. ASSUME IInv, [Next]_vars PROVE \A id \in GameIds : Fine(id)
  <2> TAKE id \in GameIds
  <2>1. CASE Untouched(id) \/ Created(id)
    BY <2>1 DEF Untouched, Created, InTurn, Finished
  <2>2. CASE CleanedUp(id)
    <3> DEFINE g == games[id]
               v == Verdict(g, clock)
    <3>1. g \in Game /\ clock \in Nat
      BY <1>1, <2>2, LiveIsGame DEF CleanedUp
    <3>2. CASE games'[id] = NoGame
      BY <3>2
    <3>3. CASE games'[id] = Scheduled(v) /\ v = g
      BY <3>1, <3>3 DEF Scheduled, Game, InTurn, Finished
    <3>4. CASE /\ games'[id] = Scheduled(v)
               /\ v = [g EXCEPT !.status = "WIN_A",
                                !.after_finish_activity = g.player_b_activity + Timeout]
               /\ TimedOut(g.player_b_activity, clock)
               /\ g.player_b_activity <= g.player_a_activity
      BY <3>1, <3>4 DEF Scheduled, Game, LoserActivity, WinnerActivity
    <3>5. CASE /\ games'[id] = Scheduled(v)
               /\ v = [g EXCEPT !.status = "WIN_B",
                                !.after_finish_activity = g.player_a_activity + Timeout]
               /\ TimedOut(g.player_a_activity, clock)
               /\ g.player_a_activity <= g.player_b_activity
      BY <3>1, <3>5 DEF Scheduled, Game, LoserActivity, WinnerActivity
    <3>6. QED
      BY <2>2, <3>1, <3>2, <3>3, <3>4, <3>5, VerdictCases DEF CleanedUp
  <2>3. CASE Joined(id) \/ Played(id)
    BY <2>3 DEF Joined, Played
  <2>4. QED
    BY <1>1, <2>1, <2>2, <2>3, OneGame
<1>2. QED
  BY <1>1, Invariance, PTL DEF Spec, TimeoutVerdict

\* A game leaves the map only after its silence, however long it was kept
\* waiting for a datagram that starts cleanup.
THEOREM NoGameIsLostEarly == Spec => RemovedOnlyAfterSilence
<1> DEFINE Fine(id) ==
             games[id] # NoGame /\ games'[id] = NoGame =>
               LET g == games[id]
                   a_silent == clock - g.player_a_activity
                   b_silent == clock - g.player_b_activity
               IN  CASE g.status = "WAITING_FOR_OPPONENT" -> a_silent >= Timeout
                     [] g.status \in InTurn ->
                          a_silent >= 2 * Timeout \/ b_silent >= 2 * Timeout
                     [] g.status \in Finished ->
                          /\ clock - LoserActivity(g) >= Timeout
                          /\ g.pawn_row = {} => clock - WinnerActivity(g) >= Timeout
<1>1. ASSUME IInv, [Next]_vars PROVE \A id \in GameIds : Fine(id)
  <2> TAKE id \in GameIds
  <2> SUFFICES ASSUME games[id] # NoGame, games'[id] = NoGame PROVE Fine(id)
    OBVIOUS
  <2> DEFINE g == games[id]
             v == Verdict(g, clock)
  <2>1. g \in Game /\ GameOK(g, clock) /\ clock \in Nat
    BY <1>1, LiveIsGame
  <2>2. \A h \in Game, p \in Players :
          Scheduled(UpdateActivityTime(h, p, clock)) # NoGame
    BY <2>1, TimeType
  <2>3. ~Untouched(id) /\ ~Created(id)
    BY DEF Untouched, Created
  <2>4. ~Joined(id)
    BY <2>1, <2>2, JoinType DEF Joined
  <2>5. ~Played(id)
    BY <2>1, <2>2, EffectsKeepPlayers DEF Played
  <2>6. CleanedUp(id)
    BY <1>1, <2>3, <2>4, <2>5, OneGame
  <2>7. ~Alive(v, clock)
    <3>1. PICK p \in Players : p = g.player_a_id
      BY <2>1 DEF Game
    <3>2. Scheduled(v) # NoGame
      BY <2>1, <3>1, TimeType
    <3>3. QED
      BY <2>6, <3>2 DEF CleanedUp
  <2>8. /\ g.player_a_activity \in Nat /\ g.player_b_activity \in Nat
        /\ g.after_finish_activity \in Nat /\ g.status \in Status
    BY <2>1 DEF Game
  <2>9. CASE g.status = "WAITING_FOR_OPPONENT"
    <3>1. v = g
      BY <2>9 DEF Verdict, InTurn
    <3>2. QED
      BY <2>7, <2>8, <2>9, <3>1 DEF Alive, TimedOut, Finished, InTurn
  <2>10. CASE g.status \in InTurn
    <3>1. v # g
      BY <2>7, <2>10 DEF Alive, InTurn, Finished
    <3>2. CASE v = [g EXCEPT !.status = "WIN_A",
                            !.after_finish_activity = g.player_b_activity + Timeout]
      <4>1. v.status = "WIN_A" /\ v.after_finish_activity = g.player_b_activity + Timeout
        BY <2>1, <3>2 DEF Game
      <4>2. clock - g.player_b_activity >= 2 * Timeout
        BY <2>1, <2>7, <2>8, <4>1 DEF Alive, TimedOut
      <4>3. QED
        BY <2>10, <4>2 DEF InTurn, Finished
    <3>3. CASE v = [g EXCEPT !.status = "WIN_B",
                            !.after_finish_activity = g.player_a_activity + Timeout]
      <4>1. v.status = "WIN_B" /\ v.after_finish_activity = g.player_a_activity + Timeout
        BY <2>1, <3>3 DEF Game
      <4>2. clock - g.player_a_activity >= 2 * Timeout
        BY <2>1, <2>7, <2>8, <4>1 DEF Alive, TimedOut
      <4>3. QED
        BY <2>10, <4>2 DEF InTurn, Finished
    <3>4. QED
      BY <2>1, <3>1, <3>2, <3>3, VerdictCases
  <2>11. CASE g.status \in Finished
    <3>1. v = g
      BY <2>11 DEF Verdict, InTurn, Finished
    <3>2. clock - g.after_finish_activity >= Timeout
      BY <2>7, <2>11, <3>1 DEF Alive, TimedOut, Finished
    <3>3. /\ g.after_finish_activity >= LoserActivity(g)
          /\ g.pawn_row = {} => g.after_finish_activity >= WinnerActivity(g)
      BY <2>1, <2>11 DEF GameOK, RetentionOK
    <3>4. LoserActivity(g) \in Nat /\ WinnerActivity(g) \in Nat
      BY <2>8 DEF LoserActivity, WinnerActivity
    <3>5. /\ clock - LoserActivity(g) >= Timeout
          /\ g.pawn_row = {} => clock - WinnerActivity(g) >= Timeout
      BY <2>1, <2>8, <3>2, <3>3, <3>4
    <3>6. QED
      BY <2>11, <3>5 DEF InTurn, Finished
  <2>12. QED
    BY <2>8, <2>9, <2>10, <2>11 DEF Status
<1>2. QED
  BY <1>1, Invariance, PTL DEF Spec, RemovedOnlyAfterSilence

-----------------------------------------------------------------------------
(***************************************************************************)
(* The server implements a KaylesMatch under every identifier.             *)
(***************************************************************************)

(***************************************************************************)
(* What a message does to the board, as a move of the match.               *)
(***************************************************************************)

\* Standing pawns are taken off the row, and the game ends with the last.
TakesPawns(g, h, S) ==
  /\ S \subseteq g.pawn_row
  /\ h.pawn_row = g.pawn_row \ S
  /\ h.status = IF h.pawn_row = {} THEN WinOf(g.status) ELSE OtherTurn(g.status)

\* The counter reaches zero with the board and not before, although it counts
\* modulo its width.
LEMMA LastPawnEnds ==
  ASSUME NEW g \in Game, NEW now \in Nat, CoreOK(g, now),
         NEW S \in SUBSET g.pawn_row, S # {}
  PROVE  TakesPawns(g, RemovePawns(g, S), S)
<1> DEFINE left == (g.pawns_left - Cardinality(S)) % CounterSize
           row  == g.pawn_row \ S
<1>1. /\ g.pawn_row \in SUBSET (0..MaxPawn) /\ S \in SUBSET (0..MaxPawn)
      /\ row \in SUBSET (0..MaxPawn)
  BY DEF Game
<1>2. /\ IsFiniteSet(g.pawn_row) /\ Cardinality(g.pawn_row) \in 0..CounterSize
      /\ IsFiniteSet(S) /\ Cardinality(S) \in Nat
      /\ IsFiniteSet(row) /\ Cardinality(row) \in Nat
  BY <1>1, BoardFinite
<1>3. Cardinality(S) # 0 /\ Cardinality(S) <= Cardinality(g.pawn_row)
  BY <1>2, FS_EmptySet, FS_Subset
<1>4. Cardinality(row) = Cardinality(g.pawn_row) - Cardinality(S)
  <2>1. g.pawn_row \cap S = S
    OBVIOUS
  <2>2. QED
    BY <1>2, <2>1, FS_Difference
<1>5. left = Cardinality(row)
  <2>1. ((Cardinality(g.pawn_row) % CounterSize) - Cardinality(S)) % CounterSize
          = (Cardinality(g.pawn_row) - Cardinality(S)) % CounterSize
    <3>1. Cardinality(S) \in 0..Cardinality(g.pawn_row)
      BY <1>2, <1>3
    <3>2. QED
      BY <1>2, <3>1, CountDown
  <2>2. Cardinality(row) \in 0..CounterSize - 1
    BY <1>2, <1>3, <1>4
  <2>3. Cardinality(row) % CounterSize = Cardinality(row)
    BY <2>2
  <2>4. QED
    BY <1>4, <2>1, <2>3 DEF CoreOK
<1>6. left = 0 <=> row = {}
  BY <1>2, <1>5, FS_EmptySet
<1>7. /\ RemovePawns(g, S).pawn_row = row
      /\ RemovePawns(g, S).status
           = IF left = 0 THEN WinOf(g.status) ELSE OtherTurn(g.status)
  BY DEF RemovePawns, Game
<1>8. QED
  BY <1>6, <1>7 DEF TakesPawns

\* A legal message takes one pawn or two adjacent ones, or loses the game; an
\* illegal one changes nothing.
LEMMA EffectIsMove ==
  ASSUME NEW g \in Game, NEW now \in Nat, CoreOK(g, now), g.status \in InTurn,
         NEW effect \in Effects(g)
  PROVE  \/ effect = g
         \/ effect.pawn_row = g.pawn_row /\ effect.status \in Finished
         \/ \E i \in g.pawn_row, n \in {1, 2} : TakesPawns(g, effect, i..(i + n - 1))
<1> DEFINE Move(h) ==
             \/ h = g
             \/ h.pawn_row = g.pawn_row /\ h.status \in Finished
             \/ \E i \in g.pawn_row, n \in {1, 2} : TakesPawns(g, h, i..(i + n - 1))
<1>1. Move(GiveUp(g))
  BY DEF GiveUp, Game, InTurn, Finished
<1>2. ASSUME NEW pawn \in PawnIndex PROVE Move(MakeMove1(g, pawn))
  <2>1. CASE pawn <= MaxPawn /\ pawn \in g.pawn_row
    <3>1. MakeMove1(g, pawn) = RemovePawns(g, {pawn})
      BY <2>1 DEF MakeMove1
    <3>2. TakesPawns(g, RemovePawns(g, {pawn}), {pawn})
      BY <2>1, LastPawnEnds
    <3>3. pawn..(pawn + 1 - 1) = {pawn}
      BY DEF PawnIndex
    <3>4. TakesPawns(g, MakeMove1(g, pawn), pawn..(pawn + 1 - 1))
      BY <3>1, <3>2, <3>3
    <3>5. QED
      BY <2>1, <3>4
  <2>2. QED
    BY <2>1 DEF MakeMove1
<1>3. ASSUME NEW pawn \in PawnIndex PROVE Move(MakeMove2(g, pawn))
  <2>1. CASE pawn < MaxPawn /\ {pawn, pawn + 1} \subseteq g.pawn_row
    <3>1. MakeMove2(g, pawn) = RemovePawns(g, {pawn, pawn + 1})
      BY <2>1 DEF MakeMove2
    <3>2. TakesPawns(g, RemovePawns(g, {pawn, pawn + 1}), {pawn, pawn + 1})
      BY <2>1, LastPawnEnds
    <3>3. pawn..(pawn + 2 - 1) = {pawn, pawn + 1}
      BY DEF PawnIndex
    <3>4. TakesPawns(g, MakeMove2(g, pawn), pawn..(pawn + 2 - 1))
      BY <3>1, <3>2, <3>3
    <3>5. QED
      BY <2>1, <3>4
  <2>2. QED
    BY <2>1 DEF MakeMove2
<1>4. QED
  BY <1>1, <1>2, <1>3 DEF Effects

\* The parts of a game the match sees are what the last write-back left.
LEMMA WrittenBack ==
  ASSUME NEW g \in Game, NEW p \in Players, NEW now \in Nat
  PROVE  LET h == Scheduled(UpdateActivityTime(g, p, now))
         IN  /\ h # NoGame
             /\ h.status = g.status
             /\ h.pawn_row = g.pawn_row
             /\ h.player_a_id = g.player_a_id
             /\ h.player_b_id = g.player_b_id
<1>1. Scheduled(UpdateActivityTime(g, p, now)) # NoGame
  BY TimeType
<1>2. QED
  BY <1>1 DEF Scheduled, UpdateActivityTime, Game

\* A verdict leaves the match as it is or loses it.
LEMMA VerdictIsLoss ==
  ASSUME NEW g \in Game, NEW now \in Nat
  PROVE  LET h == Scheduled(Verdict(g, now))
         IN  /\ h # NoGame
             /\ h.pawn_row = g.pawn_row
             /\ h.player_a_id = g.player_a_id
             /\ h.player_b_id = g.player_b_id
             /\ \/ h.status = g.status
                \/ g.status \in InTurn /\ h.status \in Finished
<1> DEFINE v == Verdict(g, now)
           h == Scheduled(v)
<1>1. v \in Game /\ h \in Game
  <2>1. PICK p \in Players : p = g.player_a_id
    BY DEF Game
  <2>2. v \in Game
    BY <2>1, TimeType
  <2>3. QED
    BY <2>1, <2>2, TimeType
<1>2. /\ h.status = v.status /\ h.player_a_id = v.player_a_id
      /\ h.player_b_id = v.player_b_id
  BY <1>1 DEF Scheduled, Game
<1>3. /\ v.player_a_id = g.player_a_id /\ v.player_b_id = g.player_b_id
      /\ \/ v.status = g.status
         \/ g.status \in InTurn /\ v.status \in Finished
  <2>1. CASE v = g
    BY <2>1
  <2>2. CASE g.status \in InTurn /\ v = [g EXCEPT !.status = "WIN_A",
                   !.after_finish_activity = g.player_b_activity + Timeout]
    BY <2>2 DEF Game, Finished
  <2>3. CASE g.status \in InTurn /\ v = [g EXCEPT !.status = "WIN_B",
                   !.after_finish_activity = g.player_a_activity + Timeout]
    BY <2>3 DEF Game, Finished
  <2>4. QED
    BY <2>1, <2>2, <2>3, VerdictCases
<1>4. QED
  BY <1>1, <1>2, <1>3, CleanupKeepsBoard

(***************************************************************************)
(* The refinement.                                                         *)
(***************************************************************************)

\* What the match under an identifier sees of the server, before and after a
\* step.
LEMMA Seen ==
  ASSUME NEW id \in GameIds
  PROVE  /\ games[id] # NoGame =>
              /\ Stage(id) = games[id].status /\ Pawns(id) = games[id].pawn_row
              /\ PlayerA(id) = games[id].player_a_id /\ PlayerB(id) = games[id].player_b_id
         /\ games[id] = NoGame =>
              /\ Stage(id) = IF Unused(id) THEN "UNUSED" ELSE "GONE"
              /\ Pawns(id) = {} /\ PlayerA(id) = NoPlayer /\ PlayerB(id) = NoPlayer
         /\ games'[id] # NoGame =>
              /\ Stage(id)' = games'[id].status /\ Pawns(id)' = games'[id].pawn_row
              /\ PlayerA(id)' = games'[id].player_a_id
              /\ PlayerB(id)' = games'[id].player_b_id
         /\ games'[id] = NoGame =>
              /\ Stage(id)' = IF Unused(id)' THEN "UNUSED" ELSE "GONE"
              /\ Pawns(id)' = {} /\ PlayerA(id)' = NoPlayer /\ PlayerB(id)' = NoPlayer
  BY DEF Stage, Pawns, PlayerA, PlayerB, Unused

\* No pawn stands that did not stand at the start.
RowsShrink == \A id \in Live : games[id].pawn_row \subseteq InitialRow

\* One identifier, one step: the match takes a step or stutters.
LEMMA OneMatchSteps ==
  ASSUME IInv, RowsShrink, [Next]_vars, NEW id \in GameIds
  PROVE  /\ [Match(id)!Next]_(Match(id)!matchVars)
         /\ games'[id] # NoGame => games'[id].pawn_row \subseteq InitialRow
<1> DEFINE g == games[id]
           h == games'[id]
           Same == /\ Stage(id)' = Stage(id) /\ Pawns(id)' = Pawns(id)
                   /\ PlayerA(id)' = PlayerA(id) /\ PlayerB(id)' = PlayerB(id)
           Subset == h # NoGame => h.pawn_row \subseteq InitialRow
<1>1. g # NoGame => /\ g \in Game /\ CoreOK(g, clock) /\ clock \in Nat
                    /\ g.status \in Status
                    /\ g.pawn_row \subseteq InitialRow
  BY LiveIsGame DEF GameOK, RowsShrink, Live, Game
<1>2. CASE Untouched(id)
  <2>1. CASE g = NoGame
    BY <1>2, <2>1, Seen DEF Untouched, Match!matchVars
  <2>2. CASE g # NoGame
    BY <1>1, <1>2, <2>2, Seen DEF Untouched, Match!matchVars
  <2>3. QED
    BY <2>1, <2>2
<1>3. CASE Created(id)
  <2>1. PICK p \in Players :
          h = Scheduled(UpdateActivityTime(CreateAndJoin(p, clock), p, clock))
    BY <1>3 DEF Created
  <2>2. CreateAndJoin(p, clock) \in Game /\ clock \in Nat
    <3>1. Cardinality(InitialRow) % CounterSize \in PawnIndex
      BY BoardFinite, Remainder DEF PawnIndex
    <3>2. clock \in Nat
      BY DEF IInv, TypeOK
    <3>3. QED
      BY <3>1, <3>2 DEF CreateAndJoin, Game, Status
  <2>3. /\ h # NoGame /\ h.status = "WAITING_FOR_OPPONENT" /\ h.pawn_row = InitialRow
        /\ h.player_a_id = p /\ h.player_b_id = NoPlayer
    BY <2>1, <2>2, WrittenBack DEF CreateAndJoin
  <2>4. Match(id)!Open(p)
    BY <1>3, <2>3, Seen DEF Created, Match!Open
  <2>5. QED
    BY <2>3, <2>4 DEF Match!Next
<1>4. CASE Joined(id)
  <2>1. PICK p \in Players : h = Scheduled(UpdateActivityTime(JoinAsB(g, p), p, clock))
    BY <1>4 DEF Joined
  <2>2. JoinAsB(g, p) \in Game /\ clock \in Nat
    <3>1. g \in Game /\ clock \in Nat
      BY <1>1, <1>4 DEF Joined
    <3>2. QED
      BY <3>1, JoinType
  <2>3. /\ h # NoGame /\ h.status = "TURN_B" /\ h.pawn_row = g.pawn_row
        /\ h.player_a_id = g.player_a_id /\ h.player_b_id = p
    <3>1. /\ h # NoGame /\ h.status = JoinAsB(g, p).status
          /\ h.pawn_row = JoinAsB(g, p).pawn_row
          /\ h.player_a_id = JoinAsB(g, p).player_a_id
          /\ h.player_b_id = JoinAsB(g, p).player_b_id
      BY <2>1, <2>2, WrittenBack
    <3>2. g \in Game
      BY <1>1, <1>4 DEF Joined
    <3>3. QED
      BY <3>1, <3>2 DEF JoinAsB, Game
  <2>4. Match(id)!Enter(p)
    BY <1>4, <2>3, Seen DEF Joined, Match!Enter
  <2>5. QED
    BY <1>1, <1>4, <2>3, <2>4 DEF Joined, Match!Next
<1>5. CASE CleanedUp(id)
  <2>1. g # NoGame /\ UNCHANGED idVars
    BY <1>5 DEF CleanedUp
  <2>2. CASE h = NoGame
    <3>1. ~Unused(id)'
      BY <2>1 DEF IInv, IdsHandedOut, Live, Unused, idVars, GameIds, TypeOK
    <3>2. Match(id)!Forget
      BY <1>1, <2>1, <2>2, <3>1, Seen DEF Match!Forget, Status, InTurn, Finished
    <3>3. QED
      BY <2>2, <3>2 DEF Match!Next
  <2>3. CASE h = Scheduled(Verdict(g, clock))
    <3>1. /\ h # NoGame /\ h.pawn_row = g.pawn_row
          /\ h.player_a_id = g.player_a_id /\ h.player_b_id = g.player_b_id
          /\ \/ h.status = g.status
             \/ g.status \in InTurn /\ h.status \in Finished
      BY <1>1, <2>1, <2>3, VerdictIsLoss
    <3>2. Same \/ Match(id)!Lose
      BY <2>1, <3>1, Seen DEF Match!Lose, InTurn, Finished
    <3>3. QED
      BY <1>1, <2>1, <3>1, <3>2 DEF Match!Next, Match!matchVars
  <2>4. QED
    BY <1>5, <2>2, <2>3 DEF CleanedUp
<1>6. CASE Played(id)
  <2>1. g # NoGame
    BY <1>6 DEF Played
  <2>2. PICK p \in Players, effect \in Effects(g) :
          h = Scheduled(UpdateActivityTime(
                IF CheckMyTurn(g, p) THEN effect ELSE g, p, clock))
    BY <1>6 DEF Played
  <2> DEFINE moved == IF CheckMyTurn(g, p) THEN effect ELSE g
  <2>3. /\ moved \in Game
        /\ moved.player_a_id = g.player_a_id /\ moved.player_b_id = g.player_b_id
    BY <1>1, <2>1, EffectsKeepPlayers
  <2>4. /\ h # NoGame /\ h.status = moved.status /\ h.pawn_row = moved.pawn_row
        /\ h.player_a_id = g.player_a_id /\ h.player_b_id = g.player_b_id
    BY <1>1, <2>1, <2>2, <2>3, WrittenBack
  <2>5. CASE moved = g
    BY <1>1, <2>1, <2>4, <2>5, Seen DEF Match!matchVars
  <2>6. CASE CheckMyTurn(g, p)
    <3>1. moved = effect /\ g.status \in InTurn
      BY <2>6 DEF CheckMyTurn, InTurn
    <3>2. \/ effect = g
          \/ effect.pawn_row = g.pawn_row /\ effect.status \in Finished
          \/ \E i \in g.pawn_row, n \in {1, 2} : TakesPawns(g, effect, i..(i + n - 1))
      BY <1>1, <2>1, <3>1, EffectIsMove
    <3>3. CASE effect.pawn_row = g.pawn_row /\ effect.status \in Finished
      <4>1. Match(id)!Lose
        BY <2>1, <2>4, <3>1, <3>3, Seen DEF Match!Lose, InTurn, Finished
      <4>2. QED
        BY <1>1, <2>1, <2>4, <3>1, <3>3, <4>1 DEF Match!Next
    <3>4. ASSUME NEW i \in g.pawn_row, NEW n \in {1, 2},
                 TakesPawns(g, effect, i..(i + n - 1))
          PROVE  Match(id)!Next /\ Subset
      <4>1. Match(id)!Take(i, n)
        BY <2>1, <2>4, <3>1, <3>4, Seen
           DEF Match!Take, TakesPawns, WinOf, OtherTurn, InTurn
      <4>2. i \in InitialRow
        BY <1>1, <2>1
      <4>3. Subset
        BY <1>1, <2>1, <2>4, <3>1, <3>4 DEF TakesPawns
      <4>4. QED
        BY <4>1, <4>2, <4>3 DEF Match!Next
    <3>5. QED
      BY <2>5, <3>1, <3>2, <3>3, <3>4
  <2>7. QED
    BY <2>5, <2>6
<1>7. QED
  BY <1>2, <1>3, <1>4, <1>5, <1>6, OneGame

\* Under every identifier the server plays one game of Kayles by its rules,
\* whatever datagrams arrive and however long they take: pawns never come back,
\* turns alternate, the last pawn wins, and an identifier is never used again.
THEOREM ServerPlaysKayles == Spec => ImplementsMatch
<1>1. Init => MatchInit /\ RowsShrink
  <2> SUFFICES ASSUME Init PROVE MatchInit /\ RowsShrink
    OBVIOUS
  <2>1. ASSUME NEW id \in GameIds PROVE Match(id)!Init
    <3>1. games[id] = NoGame /\ Unused(id)
      BY DEF Init, Unused, GameIds
    <3>2. QED
      BY <3>1, Seen DEF Match!Init
  <2>2. RowsShrink
    BY DEF Init, RowsShrink, Live
  <2>3. QED
    BY <2>1, <2>2 DEF MatchInit
<1>2. ASSUME IInv, RowsShrink, [Next]_vars PROVE MatchStep /\ RowsShrink'
  BY <1>2, OneMatchSteps DEF MatchStep, RowsShrink, Live
<1>3. QED
  BY <1>1, <1>2, Invariance, PTL DEF Spec, ImplementsMatch
============================================================================
