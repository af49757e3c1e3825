------------------------------- MODULE AiGame -------------------------------
(***************************************************************************)
(* GomokuServer's game against the machine: AiGame.cpp and the handlers    *)
(* that use a game (a move, start, restart and logout), for                *)
(* one user whose requests may come over several connections and so run on *)
(* several loop threads at once.  The game itself takes no lock; its       *)
(* functions are atomic here, but for the half second aiMove sleeps.       *)
(*                                                                         *)
(* A handler keeps a reference into aiGames_: using it after the entry was *)
(* erased, or with no empty cell left for the machine, is undefined; the   *)
(* model stops there (crashed).                                            *)
(***************************************************************************)
EXTENDS Loops, Integers, FiniteSets

CONSTANTS
    BOARD_SIZE,     \* 15 in the code
    Five            \* stones in a row that win, 5 in the code

ASSUME GameAssumption ==
    BOARD_SIZE \in Nat \ {0} /\ Five \in Nat \ {0} /\ Thread # {}

VARIABLES
    aiGames_,   \* the user's entry: a set of at most one game
    gpc,        \* the step of each thread's handler
    valid,      \* whether the thread's reference is to a live entry
    verdict,    \* the "winner" each thread last answered
    overlap,    \* whether the client sends requests while one is handled
    crashed

gameVars == <<aiGames_, gpc, valid, verdict, overlap, crashed>>

Cell == (0 .. BOARD_SIZE - 1) \X (0 .. BOARD_SIZE - 1)
Player == {"black", "white"}
Direction == {<<1, 0>>, <<0, 1>>, <<1, 1>>, <<1, -1>>}
Along(a, d, i) == <<a[1] + i * d[1], a[2] + i * d[2]>>

NewGame == [board_ |-> [a \in Cell |-> "empty"], moveCount_ |-> 0,
            gameOver_ |-> FALSE, winner_ |-> "none"]

isDraw(g) == g.moveCount_ >= BOARD_SIZE * BOARD_SIZE
isValidMove(g, a) ==
    a \in Cell /\ g.board_[a] = "empty" /\ ~g.gameOver_ /\ ~isDraw(g)

(* Mutant: only one way along each direction is counted. *)
checkWin_forward(b, a, p) ==
    \E d \in Direction :
        LET run == {k \in 1 .. Five - 1 : \A i \in 1 .. k :
                       Along(a, d, i) \in Cell /\ b[Along(a, d, i)] = p}
        IN 1 + Cardinality(run) >= Five

(* checkWin: the stones in a row with a, both ways along a direction. *)
checkWin(b, a, p) ==
    \E d \in Direction :
        LET run(s) == {k \in 1 .. Five - 1 : \A i \in 1 .. k :
                          Along(a, d, s * i) \in Cell /\ b[Along(a, d, s * i)] = p}
        IN 1 + Cardinality(run(1)) + Cardinality(run(-1)) >= Five

(* evaluateThreat: the human's stones up to two steps away. *)
evaluateThreat(b, a) ==
    Cardinality(Direction)
    + Cardinality({s \in Direction \X {1, 2} :
                      LET c == Along(a, s[1], s[2]) IN c \in Cell /\ b[c] = "black"})

(* The first cell of a set in the order of the two loops. *)
First(S) ==
    CHOOSE a \in S : \A b \in S :
        a[1] * BOARD_SIZE + a[2] <= b[1] * BOARD_SIZE + b[2]

(* getBestMove, when a cell is free: the first one that wins for either    *)
(* side, or else the first of the most threatened.  Every free cell has a  *)
(* threat above -1, so the two steps after that are never reached.         *)
getBestMove(b) ==
    LET free == {a \in Cell : b[a] = "empty"}
        wins == {a \in free : \E p \in Player : checkWin([b EXCEPT ![a] = p], a, p)}
        worst == {a \in free : \A c \in free :
                     evaluateThreat(b, c) <= evaluateThreat(b, a)}
    IN First(IF wins # {} THEN wins ELSE worst)

(* A stone of player p on cell a, as humanMove and aiMove put it. *)
Place(g, a, p, name) ==
    LET b == [g.board_ EXCEPT ![a] = p]
        won == checkWin(b, a, p)
    IN [board_ |-> b, moveCount_ |-> g.moveCount_ + 1,
        gameOver_ |-> g.gameOver_ \/ won,
        winner_ |-> IF won THEN name ELSE g.winner_]

-----------------------------------------------------------------------------
GameInit ==
    /\ aiGames_ = {} /\ gpc = [t \in Thread |-> "idle"]
    /\ valid = [t \in Thread |-> FALSE]
    /\ verdict = [t \in Thread |-> "none"]
    /\ overlap \in BOOLEAN /\ crashed = FALSE

GameGoto(t, l) == gpc' = [gpc EXCEPT ![t] = l]

(* A request reaches thread t; one that is not logged in or whose body is  *)
(* not the JSON expected is refused before it touches the game.            *)
Receives(t) ==
    /\ ~crashed /\ gpc[t] = "idle"
    /\ overlap \/ \A u \in Thread : gpc[u] = "idle"

(* A move: find, without the lock; without a game, ... *)
MoveFind(t) ==
    /\ Receives(t)
    /\ GameGoto(t, IF aiGames_ = {} THEN "make" ELSE "ref")
    /\ UNCHANGED <<aiGames_, valid, verdict, overlap, crashed>>

(* ... one is made, which replaces a game made since: a reference to the   *)
(* entry is one to the new game then, but aiMove is still in the old one.  *)
MoveMake(t) ==
    /\ ~crashed /\ gpc[t] = "make"
    /\ aiGames_' = {NewGame}
    /\ valid' = [u \in Thread |-> valid[u] /\ gpc[u] # "ai"]
    /\ GameGoto(t, "ref")
    /\ UNCHANGED <<verdict, overlap, crashed>>

(* auto &game = aiGames_[userId]: a null pointer if the entry went. *)
MoveRef(t) ==
    /\ ~crashed /\ gpc[t] = "ref"
    /\ crashed' = (aiGames_ = {})
    /\ valid' = [valid EXCEPT ![t] = TRUE]
    /\ GameGoto(t, "human")
    /\ UNCHANGED <<aiGames_, verdict, overlap>>

(* A use of the reference. *)
Uses(t, l) == ~crashed /\ gpc[t] = l /\ valid[t]
Dangling(t) ==
    /\ ~crashed /\ gpc[t] \in {"human", "judge", "ai", "judge2"} /\ ~valid[t]
    /\ crashed' = TRUE
    /\ UNCHANGED <<aiGames_, gpc, valid, verdict, overlap>>

(* Mutant: humanMove does not look at what is on the cell. *)
humanMove_over(t, a) ==
    /\ Uses(t, "human")
    /\ \E g \in aiGames_ :
          IF ~g.gameOver_ /\ ~isDraw(g)
            THEN /\ aiGames_' = {Place(g, a, "black", "human")}
                 /\ GameGoto(t, "judge")
            ELSE GameGoto(t, "idle") /\ UNCHANGED aiGames_
    /\ UNCHANGED <<valid, verdict, overlap, crashed>>

humanMove(t, a) ==
    /\ Uses(t, "human")
    /\ \E g \in aiGames_ :
          IF isValidMove(g, a)
            THEN /\ aiGames_' = {Place(g, a, "black", "human")}
                 /\ GameGoto(t, "judge")
            ELSE GameGoto(t, "idle") /\ UNCHANGED aiGames_
    /\ UNCHANGED <<valid, verdict, overlap, crashed>>

Answer(t, w) == verdict' = [verdict EXCEPT ![t] = w]

(* isGameOver and isDraw before the machine's move, then aiMove up to its  *)
(* sleep.                                                                  *)
AfterHuman(t) ==
    /\ Uses(t, "judge")
    /\ \E g \in aiGames_ :
          \/ g.gameOver_ /\ Answer(t, "human") /\ GameGoto(t, "erase")
          \/ ~g.gameOver_ /\ isDraw(g) /\ Answer(t, "draw") /\ GameGoto(t, "erase")
          \/ ~g.gameOver_ /\ ~isDraw(g) /\ GameGoto(t, "ai") /\ UNCHANGED verdict
    /\ UNCHANGED <<aiGames_, valid, overlap, crashed>>

(* aiMove after its sleep; with no free cell it writes out of bounds. *)
aiMove(t) ==
    /\ Uses(t, "ai")
    /\ \E g \in aiGames_ :
          IF \E a \in Cell : g.board_[a] = "empty"
            THEN /\ aiGames_' = {Place(g, getBestMove(g.board_), "white", "ai")}
                 /\ UNCHANGED crashed
            ELSE crashed' = TRUE /\ UNCHANGED aiGames_
    /\ GameGoto(t, "judge2")
    /\ UNCHANGED <<valid, verdict, overlap>>

AfterAi(t) ==
    /\ Uses(t, "judge2")
    /\ \E g \in aiGames_ :
          \/ g.gameOver_ /\ Answer(t, "ai") /\ GameGoto(t, "erase")
          \/ ~g.gameOver_ /\ isDraw(g) /\ Answer(t, "draw") /\ GameGoto(t, "erase")
          \/ ~g.gameOver_ /\ ~isDraw(g) /\ Answer(t, "none") /\ GameGoto(t, "idle")
    /\ UNCHANGED <<aiGames_, valid, overlap, crashed>>

(* The entry is erased: every reference to it dangles. *)
Erase(t) ==
    /\ ~crashed /\ gpc[t] = "erase"
    /\ aiGames_' = {}
    /\ valid' = [u \in Thread |-> FALSE]
    /\ GameGoto(t, "idle")
    /\ UNCHANGED <<verdict, overlap, crashed>>

(* AiGameStartHandler: the game is erased and a new one made. *)
AiGameStart(t) ==
    /\ Receives(t)
    /\ aiGames_' = {NewGame}
    /\ valid' = [u \in Thread |-> FALSE]
    /\ UNCHANGED <<gpc, verdict, overlap, crashed>>

(* restartChessGameVsAi does the same to the game. *)
restartChessGameVsAi(t) == AiGameStart(t)

(* LogoutHandler, for a user who plays against the machine. *)
LogoutGame(t) ==
    /\ Receives(t)
    /\ aiGames_' = {}
    /\ valid' = [u \in Thread |-> FALSE]
    /\ UNCHANGED <<gpc, verdict, overlap, crashed>>

Step(t) ==
    \/ MoveMake(t) \/ MoveRef(t) \/ (\E a \in Cell : humanMove(t, a))
    \/ AfterHuman(t)
    \/ aiMove(t) \/ AfterAi(t) \/ Erase(t) \/ Dangling(t)

GameNext ==
    \E t \in Thread :
        \/ MoveFind(t) \/ Step(t)
        \/ AiGameStart(t) \/ restartChessGameVsAi(t) \/ LogoutGame(t)

GameSpec == /\ GameInit /\ [][GameNext]_gameVars
            /\ \A t \in Thread : WF_gameVars(Step(t))

-----------------------------------------------------------------------------
(* The rules of the game, stated from the board. *)

Row(b, p) == \E a \in Cell, d \in Direction : \A i \in 0 .. Five - 1 :
                Along(a, d, i) \in Cell /\ b[Along(a, d, i)] = p
Stones(b, p) == Cardinality({a \in Cell : b[a] = p})
Full(b) == \A a \in Cell : b[a] # "empty"
Outcome(b) == CASE Row(b, "black") -> "human"
                [] Row(b, "white") -> "ai"
                [] ~Row(b, "black") /\ ~Row(b, "white") /\ Full(b) -> "draw"
                [] OTHER -> "none"

(* When a user's requests come one after another: black and white move in  *)
(* turn, at most one side has a row, nothing undefined happens, and what   *)
(* AiGameMoveHandler answers is what the board says.                       *)
FairGame ==
    ~overlap =>
        /\ ~crashed
        /\ \A g \in aiGames_ :
              LET b == g.board_
                  ahead == Stones(b, "black") - Stones(b, "white")
                  thinking == \E t \in Thread : gpc[t] \in {"judge", "ai"}
              IN /\ ahead \in {0, 1}
                 /\ Outcome(b) = "none" => (ahead = 1 <=> thinking)
                 /\ ~(Row(b, "black") /\ Row(b, "white"))
                 /\ \A t \in Thread :
                       gpc[t] = "erase" => verdict[t] = Outcome(b)
                 /\ (\A t \in Thread : gpc[t] = "idle") => Outcome(b) = "none"

(* Even when requests overlap, a stone stays where it is for as long as    *)
(* the game lives, and moveCount_, which isDraw relies on, counts them.    *)
StonesStay ==
    [][\A g \in aiGames_, h \in aiGames_' :
          h # NewGame /\ ~crashed' =>
              /\ \A a \in Cell : g.board_[a] # "empty" => h.board_[a] = g.board_[a]
              /\ h.moveCount_ =
                     Stones(h.board_, "black") + Stones(h.board_, "white")]_gameVars
=============================================================================
