---------------------------- MODULE GomokuProofs ----------------------------
(* The Gomoku server: for any number of threads, connections, users,       *)
(* sessions and requests, and any size of board.                           *)
(* The game: the board holds the stones moveCount_ says, gameOver_ and     *)
(* winner_ agree with the rows on the board (GameInv), and while requests  *)
(* do not overlap the one thread that may be inside /chess/move says       *)
(* whose turn it is (TurnInv); the two give a fair game.                   *)
(* The database: the pool keeps every connection in one place, and so does *)
(* any handler that goes through its operations; the handlers use the pool *)
(* as its specification says, and act for the owner of a session only.     *)
EXTENDS Accounts, AiGame, FiniteSetTheorems, TLAPS

-----------------------------------------------------------------------------
(* The game against the machine. *)
Content == Player \cup {"empty"}
Board == [Cell -> Content]

-----------------------------------------------------------------------------
(* Least numbers, and sets of numbers that begin with 1. *)

(* A set of numbers that is not empty has a least one. *)
LEMMA NatMin ==
    ASSUME NEW S, S \subseteq Nat, S # {}
    PROVE  \E m \in S : \A x \in S : m <= x
<1>1. PICK n \in S : n \in Nat
  BY Zenon
<1> DEFINE I == 0 .. n
           R == StrictSubsetOrdering(I)
           Down == {T \in SUBSET I : \E k \in S : T = 0 .. k}
<1>2. IsWellFoundedOn(R, SUBSET I)
  <2>1. IsFiniteSet(I)
    BY <1>1, FS_Interval
  <2> HIDE DEF I
  <2>2. FiniteSubsetsOf(I) = SUBSET I
    BY <2>1, FS_FiniteSubsetsOfFinite
  <2>3. IsWellFoundedOn(StrictSubsetOrdering(I), FiniteSubsetsOf(I))
    BY <2>1, FS_StrictSubsetOrderingWellFounded
  <2> QED  BY <2>2, <2>3
<1>3. I \in Down /\ Down \subseteq SUBSET I
  BY <1>1
<1> HIDE DEF R, Down
<1>4. PICK T \in Down : \A U \in Down : ~(<<U, T>> \in R)
  BY <1>2, <1>3, WFMin, Zenon
<1>5. PICK m \in S : T = 0 .. m /\ T \subseteq I
  BY <1>4 DEF Down
<1>6. ASSUME NEW x \in S, x < m PROVE FALSE
  <2>1. x \in Nat /\ m \in Nat
    OBVIOUS
  <2>2. 0 .. x \subseteq T /\ m \in T /\ m \notin 0 .. x
    BY <1>5, <1>6, <2>1
  <2>3. 0 .. x \in SUBSET I
    BY <1>5, <2>2
  <2>4. 0 .. x \in Down
    BY <2>3 DEF Down
  <2>5. 0 .. x # T
    BY <2>2
  <2> DEFINE U == 0 .. x
  <2>6. U \in Down /\ U \subseteq T /\ U # T /\ U \in SUBSET I /\ T \in SUBSET I
    BY <1>5, <2>2, <2>3, <2>4, <2>5
  <2> HIDE DEF U, I
  <2> QED  BY <1>4, <2>6, Zenon DEF R, StrictSubsetOrdering
<1>7. \A x \in S : m <= x
  BY <1>6
<1> QED  BY <1>7

(* A set of numbers up to n that has what comes before its elements. *)
LEMMA Prefix ==
    ASSUME NEW n \in Nat, NEW S \in SUBSET (1 .. n),
           \A k \in S : \A i \in 1 .. k : i \in S
    PROVE  Cardinality(S) \in 0 .. n /\ S = 1 .. Cardinality(S)
<1> DEFINE Out == {k \in Nat \ {0} : k \notin S}
<1>1. PICK m \in Out : \A x \in Out : m <= x
  <2>1. n + 1 \in Out
    OBVIOUS
  <2>2. Out \subseteq Nat /\ Out # {}
    BY <2>1
  <2> HIDE DEF Out
  <2> QED  BY <2>2, NatMin, Zenon
<1>2. m \in Nat /\ m # 0 /\ m \notin S /\ m - 1 \in Nat
  BY <1>1
<1>3. \A x \in Nat \ {0} : x < m => x \in S
  BY <1>1
<1>4. S = 1 .. (m - 1)
  <2>1. ASSUME NEW x \in S PROVE x \in 1 .. (m - 1)
    BY <1>2
  <2>2. ASSUME NEW x \in 1 .. (m - 1) PROVE x \in S
    BY <1>2, <1>3
  <2> QED  BY <2>1, <2>2, Zenon
<1>5. Cardinality(1 .. (m - 1)) = m - 1
  BY <1>2, FS_Interval
<1>6. m - 1 <= n
  <2>1. n + 1 \in Out
    OBVIOUS
  <2> QED  BY <1>1, <1>2, <2>1
<1> QED  BY <1>2, <1>4, <1>5, <1>6

-----------------------------------------------------------------------------
(* Counting stones. *)

(* The board has BOARD_SIZE times BOARD_SIZE cells. *)
LEMMA CellFinite ==
    IsFiniteSet(Cell) /\ Cardinality(Cell) = BOARD_SIZE * BOARD_SIZE
<1> DEFINE L == 0 .. BOARD_SIZE - 1
<1>1. IsFiniteSet(L) /\ Cardinality(L) = BOARD_SIZE
  BY GameAssumption, FS_Interval
<1> HIDE DEF L
<1>2. IsFiniteSet(L \X L) /\ Cardinality(L \X L) = BOARD_SIZE * BOARD_SIZE
  BY <1>1, FS_Product
<1> QED  BY <1>2 DEF Cell, L

(* The stones of a colour can be counted. *)
LEMMA StonesType ==
    ASSUME NEW b, NEW p
    PROVE  IsFiniteSet({a \in Cell : b[a] = p}) /\ Stones(b, p) \in Nat
<1> DEFINE S == {a \in Cell : b[a] = p}
<1>1. S \subseteq Cell
  OBVIOUS
<1> HIDE DEF S
<1>2. IsFiniteSet(S) /\ Cardinality(S) \in Nat
  BY <1>1, CellFinite, FS_Subset, FS_CardinalityType
<1> QED  BY <1>2 DEF S, Stones

(* A stone on an empty cell is one more of its colour. *)
PutStone(b, a, p) == [b EXCEPT ![a] = p]

(* Placing one stone on an empty cell adds one to its colour and none to   *)
(* the other, and leaves every other cell alone.                           *)
LEMMA StonesPlace ==
    ASSUME NEW b \in Board, NEW a \in Cell, b[a] = "empty", NEW p \in Player,
           NEW c, c = PutStone(b, a, p)
    PROVE  /\ c \in Board /\ c[a] = p /\ \A x \in Cell : x # a => c[x] = b[x]
           /\ Stones(c, p) = Stones(b, p) + 1
           /\ \A q \in Player : q # p => Stones(c, q) = Stones(b, q)
<1>1. c \in Board /\ c[a] = p /\ \A x \in Cell : x # a => c[x] = b[x]
  BY DEF Board, Content, PutStone
<1>2. p # "empty" /\ \A q \in Player : q # "empty"
  BY DEF Player
<1>3. Stones(c, p) = Stones(b, p) + 1
  <2> DEFINE S == {x \in Cell : b[x] = p}
             T == {x \in Cell : c[x] = p}
  <2>1. IsFiniteSet(S)
    BY StonesType
  <2>2. a \notin S /\ T = S \cup {a}
    BY <1>1, <1>2
  <2>3. Stones(c, p) = Cardinality(T) /\ Stones(b, p) = Cardinality(S)
    BY DEF Stones
  <2> HIDE DEF S, T
  <2> QED  BY <2>1, <2>2, <2>3, FS_AddElement
<1>4. ASSUME NEW q \in Player, q # p PROVE Stones(c, q) = Stones(b, q)
  <2>1. {x \in Cell : c[x] = q} = {x \in Cell : b[x] = q}
    BY <1>1, <1>2, <1>4
  <2> QED  BY <2>1 DEF Stones
<1> QED  BY <1>1, <1>3, <1>4

(* The board is full when it has as many stones as cells. *)
LEMMA Counted ==
    ASSUME NEW b \in Board
    PROVE  Full(b) <=>
              Stones(b, "black") + Stones(b, "white") >= BOARD_SIZE * BOARD_SIZE
<1> DEFINE B == {a \in Cell : b[a] = "black"}
           W == {a \in Cell : b[a] = "white"}
           E == Cell \ (B \cup W)
<1>1. IsFiniteSet(B) /\ IsFiniteSet(W) /\ IsFiniteSet(Cell)
  BY StonesType, CellFinite, Zenon
<1>2. B \cap W = {} /\ B \cup W \subseteq Cell
  OBVIOUS
<1>3. Full(b) <=> E = {}
  BY DEF Full, Board, Content, Player
<1>4. Stones(b, "black") = Cardinality(B) /\ Stones(b, "white") = Cardinality(W)
  BY DEF Stones
<1> DEFINE U == B \cup W
<1> HIDE DEF B, W
<1>5. /\ IsFiniteSet(U) /\ Cardinality(U) \in Nat
      /\ Cardinality(B) \in Nat /\ Cardinality(W) \in Nat
      /\ Cardinality(U) = Cardinality(B) + Cardinality(W)
  <2>1. /\ IsFiniteSet(U)
        /\ Cardinality(U) = Cardinality(B) + Cardinality(W) - Cardinality({})
    BY <1>1, <1>2, FS_Union
  <2> QED  BY <1>1, <2>1, FS_EmptySet, FS_CardinalityType
<1> HIDE DEF U
<1>6. /\ U \subseteq Cell /\ E = Cell \ U
      /\ Cardinality(Cell) = BOARD_SIZE * BOARD_SIZE /\ Cardinality(Cell) \in Nat
  BY <1>1, <1>2, CellFinite, FS_CardinalityType DEF U
<1>7. IsFiniteSet(E) /\ Cardinality(E) = Cardinality(Cell) - Cardinality(U)
  <2>1. U \cap Cell = U /\ Cell \cap U = U
    BY <1>6
  <2>2. IsFiniteSet(Cell \ U)
        /\ Cardinality(Cell \ U) = Cardinality(Cell) - Cardinality(Cell \cap U)
    BY <1>1, FS_Difference
  <2> QED  BY <1>6, <2>1, <2>2, Zenon
<1> HIDE DEF E
<1>8. Cardinality(E) \in Nat /\ (E = {} <=> Cardinality(E) = 0)
  BY <1>7, FS_EmptySet, FS_CardinalityType
<1> QED  BY <1>3, <1>4, <1>5, <1>6, <1>7, <1>8

-----------------------------------------------------------------------------
(* The machine's move. *)

(* The cell a row-by-row scan meets first is one of those scanned for. *)
LEMMA FirstIn ==
    ASSUME NEW S \in SUBSET Cell, S # {}
    PROVE  First(S) \in S
<1> DEFINE f(a) == a[1] * BOARD_SIZE + a[2]
           V == {f(a) : a \in S}
<1>1. \A a \in S : f(a) \in Nat
  BY GameAssumption DEF Cell
<1> HIDE DEF f
<1>2. V \subseteq Nat /\ V # {}
  BY <1>1
<1>3. PICK m \in V : \A x \in V : m <= x
  <2> HIDE DEF V
  <2> QED  BY <1>2, NatMin, Zenon
<1>4. PICK a \in S : m = f(a)
  OBVIOUS
<1>5. \A c \in S : f(a) <= f(c)
  BY <1>3, <1>4
<1>6. \E x \in S : \A c \in S : x[1] * BOARD_SIZE + x[2] <= c[1] * BOARD_SIZE + c[2]
  BY <1>5 DEF f
<1> QED  BY <1>6 DEF First

(* evaluateThreat is a number no larger than some bound. *)
LEMMA ThreatBound ==
    \E n \in Nat : \A b, a : evaluateThreat(b, a) \in 0 .. n
<1> DEFINE D == Direction \X {1, 2}
           T(b, a) == {s \in D : /\ Along(a, s[1], s[2]) \in Cell
                                 /\ b[Along(a, s[1], s[2])] = "black"}
<1>1. IsFiniteSet(Direction) /\ IsFiniteSet({1, 2})
  <2>0. IsFiniteSet({1}) /\ {1, 2} = {1} \cup {2}
    BY FS_Singleton, Zenon
  <2>1. IsFiniteSet({1} \cup {2})
    BY <2>0, FS_AddElement
  <2> DEFINE A == {<<1, 0>>}
             B == A \cup {<<0, 1>>}
             C == B \cup {<<1, 1>>}
             E == C \cup {<<1, -1>>}
  <2>2. IsFiniteSet(A) /\ Direction = E
    BY FS_Singleton, Zenon DEF Direction
  <2> HIDE DEF A
  <2>3. IsFiniteSet(B)
    BY <2>2, FS_AddElement
  <2> HIDE DEF B
  <2>4. IsFiniteSet(C)
    BY <2>3, FS_AddElement
  <2> HIDE DEF C
  <2>5. IsFiniteSet(E)
    BY <2>4, FS_AddElement
  <2> HIDE DEF E
  <2> QED  BY <2>0, <2>1, <2>2, <2>5
<1>2. Cardinality(Direction) \in Nat /\ IsFiniteSet(D) /\ Cardinality(D) \in Nat
  BY <1>1, FS_CardinalityType, FS_Product
<1>3. ASSUME NEW b, NEW a PROVE Cardinality(T(b, a)) \in 0 .. Cardinality(D)
  <2>1. T(b, a) \subseteq D
    OBVIOUS
  <2> HIDE DEF T, D
  <2>2. IsFiniteSet(T(b, a)) /\ Cardinality(T(b, a)) <= Cardinality(D)
    BY <1>2, <2>1, FS_Subset
  <2> QED  BY <1>2, <2>2, FS_CardinalityType
<1>4. \A b, a : evaluateThreat(b, a) = Cardinality(Direction) + Cardinality(T(b, a))
  BY DEF evaluateThreat
<1> HIDE DEF T, D
<1>5. \A b, a : evaluateThreat(b, a) \in 0 .. (Cardinality(Direction) + Cardinality(D))
  BY <1>2, <1>3, <1>4
<1> QED  BY <1>2, <1>5

(* It is a free cell, if there is one. *)
LEMMA BestMoveFree ==
    ASSUME NEW b, \E a \in Cell : b[a] = "empty"
    PROVE  getBestMove(b) \in Cell /\ b[getBestMove(b)] = "empty"
<1> DEFINE free == {a \in Cell : b[a] = "empty"}
           wins == {a \in free : \E p \in Player : checkWin([b EXCEPT ![a] = p], a, p)}
           worst == {a \in free : \A c \in free :
                        evaluateThreat(b, c) <= evaluateThreat(b, a)}
           S == IF wins # {} THEN wins ELSE worst
<1>1. PICK n \in Nat : \A c, a : evaluateThreat(c, a) \in 0 .. n
  BY ThreatBound
<1>2. worst # {}
  <2> DEFINE V == {n - evaluateThreat(b, a) : a \in free}
  <2>1. V \subseteq Nat /\ V # {}
    BY <1>1
  <2>2. PICK m \in V : \A x \in V : m <= x
    <3> HIDE DEF V
    <3> QED  BY <2>1, NatMin, Zenon
  <2>3. PICK a \in free : m = n - evaluateThreat(b, a)
    OBVIOUS
  <2>4. ASSUME NEW c \in free PROVE evaluateThreat(b, c) <= evaluateThreat(b, a)
    <3>1. n - evaluateThreat(b, a) <= n - evaluateThreat(b, c)
      BY <2>2, <2>3
    <3>2. evaluateThreat(b, c) \in 0 .. n /\ evaluateThreat(b, a) \in 0 .. n
      BY <1>1
    <3> QED  BY <3>1, <3>2
  <2> QED  BY <2>4
<1>3. S \subseteq free /\ S # {} /\ free \subseteq Cell
  BY <1>2
<1>4. getBestMove(b) = First(S)
  BY DEF getBestMove
<1> HIDE DEF S
<1>5. First(S) \in S
  BY <1>3, FirstIn
<1> QED  BY <1>3, <1>4, <1>5

-----------------------------------------------------------------------------
(* checkWin. *)

(* Steps along a direction add up. *)
LEMMA AlongAlong ==
    ASSUME NEW a \in Int \X Int, NEW d \in Direction, NEW i \in Int, NEW j \in Int
    PROVE  Along(Along(a, d, i), d, j) = Along(a, d, i + j)
<1>1. d[1] \in {0, 1} /\ d[2] \in {-1, 0, 1}
  BY DEF Direction
<1>2. a[1] \in Int /\ a[2] \in Int
  OBVIOUS
<1>3. (a[1] + i * d[1]) + j * d[1] = a[1] + (i + j) * d[1]
  BY <1>1, <1>2
<1>4. (a[2] + i * d[2]) + j * d[2] = a[2] + (i + j) * d[2]
  BY <1>1, <1>2
<1> QED  BY <1>3, <1>4 DEF Along

(* A step along a direction leads to a pair of integers. *)
LEMMA AlongType ==
    ASSUME NEW a \in Int \X Int, NEW d \in Direction, NEW i \in Int
    PROVE  Along(a, d, i) \in Int \X Int
<1>1. d[1] \in Int /\ d[2] \in Int /\ a[1] \in Int /\ a[2] \in Int
  BY DEF Direction
<1> QED  BY <1>1 DEF Along

(* No step along a direction stays on the cell. *)
LEMMA AlongZero ==
    ASSUME NEW a \in Int \X Int, NEW d \in Direction
    PROVE  Along(a, d, 0) = a
<1>1. /\ d[1] \in Int /\ d[2] \in Int /\ a[1] \in Int /\ a[2] \in Int
      /\ a = <<a[1], a[2]>>
  BY DEF Direction
<1> QED  BY <1>1 DEF Along

(* Player p has the cell i steps along d. *)
Has(b, p, a, d, i) == Along(a, d, i) \in Cell /\ b[Along(a, d, i)] = p

(* A row of five with cell a somewhere in it. *)
RowAt(b, a, p) ==
    \E d \in Direction : \E j \in 0 .. Five - 1 :
        \A i \in 0 .. Five - 1 : Has(b, p, a, d, i - j)

(* checkWin counts the stones on both sides of the last one, and finds a   *)
(* win exactly if some five in a row contain it.                           *)
LEMMA CheckWinRow ==
    ASSUME NEW b, NEW a \in Cell, NEW p, b[a] = p
    PROVE  checkWin(b, a, p) <=> RowAt(b, a, p)
<1> DEFINE run(d, s) ==
             {k \in 1 .. Five - 1 : \A i \in 1 .. k : Has(b, p, a, d, s * i)}
<1>0. Five \in Nat /\ Five # 0 /\ Five - 1 \in Nat /\ a \in Int \X Int
  BY GameAssumption DEF Cell
<1>1. checkWin(b, a, p) <=> \E d \in Direction :
         1 + Cardinality(run(d, 1)) + Cardinality(run(d, -1)) >= Five
  BY DEF checkWin, Has
<1>2. ASSUME NEW d \in Direction, NEW s \in {1, -1}
      PROVE  /\ Cardinality(run(d, s)) \in 0 .. Five - 1
             /\ run(d, s) = 1 .. Cardinality(run(d, s))
  <2> DEFINE S == run(d, s)
             n == Five - 1
  <2>1. S \in SUBSET (1 .. n) /\ \A k \in S : \A i \in 1 .. k : i \in S
    BY <1>0
  <2>2. n \in Nat
    BY <1>0
  <2> HIDE DEF S, n
  <2>3. Cardinality(S) \in 0 .. n /\ S = 1 .. Cardinality(S)
    BY <2>1, <2>2, Prefix
  <2> QED  BY <2>3 DEF S, n
<1>3. ASSUME NEW d \in Direction PROVE Has(b, p, a, d, 0)
  BY <1>0, AlongZero DEF Has
<1>4. ASSUME NEW d \in Direction,
             1 + Cardinality(run(d, 1)) + Cardinality(run(d, -1)) >= Five
      PROVE  RowAt(b, a, p)
  <2> DEFINE m == Cardinality(run(d, 1))
             j == Cardinality(run(d, -1))
  <2>1. /\ m \in 0 .. Five - 1 /\ run(d, 1) = 1 .. m
        /\ j \in 0 .. Five - 1 /\ run(d, -1) = 1 .. j
        /\ 1 + m + j >= Five
    BY <1>2, <1>4
  <2>2. \A i \in 1 .. m : Has(b, p, a, d, 1 * i)
    <3>1. \A i \in 1 .. m : i \in run(d, 1)
      BY <2>1
    <3> HIDE DEF m, j
    <3> QED  BY <2>1, <3>1
  <2>3. \A i \in 1 .. j : Has(b, p, a, d, -1 * i)
    <3>1. \A i \in 1 .. j : i \in run(d, -1)
      BY <2>1, Zenon
    <3> HIDE DEF m, j
    <3> QED  BY <2>1, <3>1
  <2> HIDE DEF m, j, run
  <2>4. ASSUME NEW i \in 0 .. Five - 1 PROVE Has(b, p, a, d, i - j)
    <3>1. i \in Int /\ j \in Int /\ m \in Int /\ i - j \in Int
      BY <1>0, <2>1
    <3>2. CASE i - j = 0
      BY <1>3, <3>2
    <3>3. CASE i - j > 0
      <4>1. i - j \in 1 .. m /\ 1 * (i - j) = i - j
        BY <1>0, <2>1, <3>1, <3>3
      <4> QED  BY <2>2, <4>1
    <3>4. CASE i - j < 0
      <4>1. j - i \in 1 .. j /\ -1 * (j - i) = i - j
        BY <1>0, <2>1, <3>1, <3>4
      <4> QED  BY <2>3, <4>1
    <3> QED  BY <3>1, <3>2, <3>3, <3>4
  <2> QED  BY <2>1, <2>4 DEF RowAt
<1>5. ASSUME NEW d \in Direction, NEW j \in 0 .. Five - 1,
             \A i \in 0 .. Five - 1 : Has(b, p, a, d, i - j)
      PROVE  1 + Cardinality(run(d, 1)) + Cardinality(run(d, -1)) >= Five
  <2> DEFINE n == Five - 1 - j
  <2>1. j \in Int /\ n \in Nat /\ n <= Five - 1
    BY <1>0
  <2>2. ASSUME NEW i \in 1 .. n PROVE Has(b, p, a, d, 1 * i)
    <3>1. i + j \in 0 .. Five - 1 /\ (i + j) - j = 1 * i
      BY <1>0, <2>1
    <3> QED  BY <1>5, <3>1
  <2>3. ASSUME NEW i \in 1 .. j PROVE Has(b, p, a, d, -1 * i)
    <3>1. j - i \in 0 .. Five - 1 /\ (j - i) - j = -1 * i
      BY <1>0, <2>1
    <3> QED  BY <1>5, <3>1
  <2> HIDE DEF n
  <2>4. ASSUME n > 0 PROVE n \in run(d, 1)
    BY <1>0, <2>1, <2>2, <2>4
  <2>5. ASSUME j > 0 PROVE j \in run(d, -1)
    BY <1>0, <2>1, <2>3, <2>5
  <2>6. /\ Cardinality(run(d, 1)) \in 0 .. Five - 1
        /\ run(d, 1) = 1 .. Cardinality(run(d, 1))
        /\ Cardinality(run(d, -1)) \in 0 .. Five - 1
        /\ run(d, -1) = 1 .. Cardinality(run(d, -1))
    BY <1>2
  <2> HIDE DEF run
  <2>7. Cardinality(run(d, 1)) >= n
    BY <2>1, <2>4, <2>6
  <2>8. Cardinality(run(d, -1)) >= j
    BY <2>1, <2>5, <2>6
  <2> QED  BY <1>0, <2>1, <2>6, <2>7, <2>8 DEF n
<1> QED  BY <1>1, <1>4, <1>5, Zenon DEF RowAt

(* A stone completes a row exactly when checkWin says so, ... *)
LEMMA RowPlace ==
    ASSUME NEW b \in Board, NEW a \in Cell, NEW p \in Player, ~Row(b, p),
           NEW c, c[a] = p, \A x \in Cell : x # a => c[x] = b[x]
    PROVE  Row(c, p) <=> checkWin(c, a, p)
<1>0. Five \in Nat /\ Five # 0 /\ Five - 1 \in Nat /\ Cell \subseteq Int \X Int
  BY GameAssumption DEF Cell
<1>1. checkWin(c, a, p) <=> RowAt(c, a, p)
  BY CheckWinRow
<1>2. ASSUME NEW d \in Direction, NEW j \in 0 .. Five - 1,
             \A i \in 0 .. Five - 1 : Has(c, p, a, d, i - j)
      PROVE  Row(c, p)
  <2> DEFINE s == Along(a, d, 0 - j)
  <2>1. s \in Cell
    BY <1>0, <1>2 DEF Has
  <2>2. ASSUME NEW i \in 0 .. Five - 1 PROVE Along(s, d, i) = Along(a, d, i - j)
    <3>1. a \in Int \X Int /\ 0 - j \in Int /\ i \in Int /\ (0 - j) + i = i - j
      BY <1>0
    <3>2. Along(Along(a, d, 0 - j), d, i) = Along(a, d, (0 - j) + i)
      BY <3>1, AlongAlong
    <3> QED  BY <3>1, <3>2
  <2> HIDE DEF s
  <2>3. \A i \in 0 .. Five - 1 : Along(s, d, i) \in Cell /\ c[Along(s, d, i)] = p
    BY <1>2, <2>2 DEF Has
  <2> QED  BY <2>1, <2>3 DEF Row
<1>3. ASSUME Row(c, p) PROVE RowAt(c, a, p)
  <2>1. PICK s \in Cell, d \in Direction : \A i \in 0 .. Five - 1 :
           Along(s, d, i) \in Cell /\ c[Along(s, d, i)] = p
    BY <1>3 DEF Row
  <2>2. PICK j \in 0 .. Five - 1 : Along(s, d, j) = a
    <3> SUFFICES ASSUME \A i \in 0 .. Five - 1 : Along(s, d, i) # a PROVE FALSE
      OBVIOUS
    <3>1. \A i \in 0 .. Five - 1 : Along(s, d, i) \in Cell /\ b[Along(s, d, i)] = p
      BY <2>1
    <3> QED  BY <2>1, <3>1 DEF Row
  <2>3. ASSUME NEW i \in 0 .. Five - 1 PROVE Has(c, p, a, d, i - j)
    <3>1. s \in Int \X Int /\ i - j \in Int /\ j \in Int /\ j + (i - j) = i
      BY <1>0
    <3>2. Along(Along(s, d, j), d, i - j) = Along(s, d, j + (i - j))
      BY <3>1, AlongAlong
    <3>3. Along(a, d, i - j) = Along(s, d, i)
      BY <2>2, <3>1, <3>2
    <3> QED  BY <2>1, <3>3 DEF Has
  <2> QED  BY <2>3 DEF RowAt
<1> QED  BY <1>1, <1>2, <1>3 DEF RowAt

(* ... and never one of the other side's. *)
LEMMA RowOther ==
    ASSUME NEW b, NEW a \in Cell, NEW q, b[a] # q, NEW c, c[a] # q,
           \A x \in Cell : x # a => c[x] = b[x]
    PROVE  Row(c, q) <=> Row(b, q)
<1>1. \A x \in Cell : c[x] = q <=> b[x] = q
  OBVIOUS
<1> QED  BY <1>1 DEF Row

(* A new board has no five in a row. *)
LEMMA RowEmpty ==
    ASSUME NEW p \in Player PROVE ~Row(NewGame.board_, p)
<1>1. 0 \in 0 .. Five - 1
  BY GameAssumption
<1>2. \A x \in Cell : NewGame.board_[x] # p
  BY DEF NewGame, Player
<1> QED  BY <1>1, <1>2 DEF Row

-----------------------------------------------------------------------------
(* The inductive invariant. *)

Place_ == {"idle", "make", "ref", "human", "judge", "ai", "judge2", "erase"}
GameRec == [board_ : Board, moveCount_ : Nat, gameOver_ : BOOLEAN,
            winner_ : {"none", "human", "ai"}]
CountOk(g) == g.moveCount_ = Stones(g.board_, "black") + Stones(g.board_, "white")

Sound(g) == g \in GameRec /\ CountOk(g)

(* One game at most, whose moves are counted. *)
GameInv ==
    /\ gpc \in [Thread -> Place_] /\ valid \in [Thread -> BOOLEAN]
    /\ verdict \in [Thread -> {"none", "human", "ai", "draw"}]
    /\ overlap \in BOOLEAN /\ crashed \in BOOLEAN
    /\ \A g \in aiGames_ : Sound(g)
    /\ \A g, h \in aiGames_ : g = h

(* What a game looks like at the steps of the only request. *)
NoRow(b) == ~Row(b, "black") /\ ~Row(b, "white")
Ahead(b) == Stones(b, "black") - Stones(b, "white")
Open(g) == NoRow(g.board_) /\ ~g.gameOver_ /\ ~isDraw(g)

Judged(g) ==
    /\ Ahead(g.board_) = 1 /\ ~Row(g.board_, "white")
    /\ g.gameOver_ <=> Row(g.board_, "black")
Judged2(g) ==
    /\ Ahead(g.board_) = 0 /\ ~Row(g.board_, "black")
    /\ g.gameOver_ <=> Row(g.board_, "white")
Ended(g, w) ==
    /\ Ahead(g.board_) \in {0, 1}
    /\ ~(Row(g.board_, "black") /\ Row(g.board_, "white"))
    /\ Outcome(g.board_) = w /\ w # "none"

Deciding == {"judge", "ai", "judge2", "erase"}

Fits(g, l, w) ==
    /\ l = "judge" => Judged(g)
    /\ l = "ai" => Ahead(g.board_) = 1 /\ Open(g)
    /\ l = "judge2" => Judged2(g)
    /\ l = "erase" => Ended(g, w)
    /\ l \notin Deciding => Ahead(g.board_) = 0 /\ Open(g)

(* No thread but t is busy; what it refers to is there. *)
RestIdle(t) == \A u \in Thread : u # t => gpc[u] = "idle"

OnlyAt(t) ==
    /\ ~crashed /\ RestIdle(t)
    /\ gpc[t] \in {"ref", "human"} \cup Deciding => aiGames_ # {}
    /\ gpc[t] \in {"human", "judge", "ai", "judge2"} => valid[t]
    /\ \A g \in aiGames_ : Fits(g, gpc[t], verdict[t])

TurnInv == ~overlap => \E t \in Thread : OnlyAt(t)

-----------------------------------------------------------------------------
(* The game AiGameStart and the restart make is sound, even and open. *)
LEMMA NewGameOk ==
    Sound(NewGame) /\ Ahead(NewGame.board_) = 0 /\ Open(NewGame)
<1> DEFINE b == NewGame.board_
<1>1. NewGame \in GameRec
  BY DEF NewGame, GameRec, Board, Content
<1>2. ASSUME NEW p \in Player PROVE Stones(b, p) = 0
  <2>1. {a \in Cell : b[a] = p} = {}
    BY DEF NewGame, Player
  <2> QED  BY <2>1, FS_EmptySet DEF Stones
<1>3. Stones(b, "black") = 0 /\ Stones(b, "white") = 0 /\ NoRow(b)
  BY <1>2, RowEmpty DEF Player, NoRow
<1>4. ~isDraw(NewGame)
  <2>1. BOARD_SIZE * BOARD_SIZE > 0
    BY GameAssumption
  <2>2. BOARD_SIZE * BOARD_SIZE \in Int /\ NewGame.moveCount_ = 0
    BY GameAssumption DEF NewGame
  <2> QED  BY <2>1, <2>2 DEF isDraw
<1>5. NewGame.moveCount_ = 0 /\ ~NewGame.gameOver_
  BY DEF NewGame
<1> QED  BY <1>1, <1>3, <1>4, <1>5 DEF Sound, CountOk, Ahead, Open

(* What Place makes of a game, when the cell is empty. *)
LEMMA PlaceFacts ==
    ASSUME NEW g \in GameRec, CountOk(g), NEW a \in Cell, g.board_[a] = "empty",
           NEW p \in Player, NEW w \in {"human", "ai"}, NEW h, h = Place(g, a, p, w)
    PROVE  /\ h \in GameRec /\ CountOk(h)
           /\ \A x \in Cell : g.board_[x] # "empty" => h.board_[x] = g.board_[x]
           /\ Stones(h.board_, p) = Stones(g.board_, p) + 1
           /\ \A q \in Player : q # p => /\ Stones(h.board_, q) = Stones(g.board_, q)
                                         /\ Row(h.board_, q) <=> Row(g.board_, q)
           /\ ~g.gameOver_ /\ ~Row(g.board_, p) => (h.gameOver_ <=> Row(h.board_, p))
<1> DEFINE b == g.board_
           c == [b EXCEPT ![a] = p]
           won == checkWin(c, a, p)
<1>1. /\ b \in Board /\ g.moveCount_ \in Nat /\ g.gameOver_ \in BOOLEAN
      /\ g.winner_ \in {"none", "human", "ai"}
  BY DEF GameRec
<1>2. /\ h = [board_ |-> c, moveCount_ |-> g.moveCount_ + 1,
              gameOver_ |-> g.gameOver_ \/ won,
              winner_ |-> IF won THEN w ELSE g.winner_]
  BY DEF Place
<1>3. won \in BOOLEAN
  BY DEF checkWin
<1>4. /\ c \in Board /\ c[a] = p /\ \A x \in Cell : x # a => c[x] = b[x]
      /\ Stones(c, p) = Stones(b, p) + 1
      /\ \A q \in Player : q # p => Stones(c, q) = Stones(b, q)
  <2>1. PICK bb : bb = b
    OBVIOUS
  <2>2. PICK cc : cc = PutStone(bb, a, p)
    OBVIOUS
  <2>3. bb \in Board /\ bb[a] = "empty"
    BY <1>1, <2>1
  <2>4. /\ cc \in Board /\ cc[a] = p /\ \A x \in Cell : x # a => cc[x] = bb[x]
        /\ Stones(cc, p) = Stones(bb, p) + 1
        /\ \A q \in Player : q # p => Stones(cc, q) = Stones(bb, q)
    BY <2>2, <2>3, StonesPlace
  <2>5. cc = c
    BY <2>1, <2>2 DEF PutStone
  <2> QED  BY <2>1, <2>4, <2>5
<1>5. \A q \in Player : q # p => (Row(c, q) <=> Row(b, q))
  <2>1. \A q \in Player : q # "empty"
    BY DEF Player
  <2> HIDE DEF b, c, won
  <2> QED  BY <1>4, <2>1, RowOther DEF b
<1>6. ~Row(b, p) => (Row(c, p) <=> won)
  <2> HIDE DEF b, c
  <2> QED  BY <1>1, <1>4, RowPlace
<1> HIDE DEF c, won
<1>7. /\ h.board_ = c /\ h.moveCount_ = g.moveCount_ + 1
      /\ h.gameOver_ = (g.gameOver_ \/ won)
  BY <1>2
<1>8. h \in GameRec
  BY <1>1, <1>2, <1>3, <1>4 DEF GameRec
<1>9. CountOk(h)
  <2>1. Stones(b, "black") \in Nat /\ Stones(b, "white") \in Nat
    BY StonesType, Zenon
  <2>2. g.moveCount_ = Stones(b, "black") + Stones(b, "white")
    BY DEF CountOk
  <2>3. p = "black" \/ p = "white"
    BY DEF Player
  <2> HIDE DEF b
  <2>4. Stones(c, "black") + Stones(c, "white")
           = Stones(b, "black") + Stones(b, "white") + 1
    BY <1>4, <2>1, <2>3 DEF Player
  <2> QED  BY <1>7, <2>2, <2>4 DEF CountOk
<1> QED  BY <1>3, <1>4, <1>5, <1>6, <1>7, <1>8, <1>9

(* The human's stone and the machine's: the other stones stay, the other   *)
(* side has no more rows than before, and gameOver_ is set for a row.      *)
Free(g, a) == a \in Cell /\ g.board_[a] = "empty"
Kept(g, h) == \A x \in Cell : g.board_[x] # "empty" => h.board_[x] = g.board_[x]

HumanMoved(g, h) ==
    /\ Ahead(h.board_) = Ahead(g.board_) + 1
    /\ Row(h.board_, "white") <=> Row(g.board_, "white")
    /\ ~g.gameOver_ /\ NoRow(g.board_) => (h.gameOver_ <=> Row(h.board_, "black"))
AiMoved(g, h) ==
    /\ Ahead(h.board_) = Ahead(g.board_) - 1
    /\ Row(h.board_, "black") <=> Row(g.board_, "black")
    /\ ~g.gameOver_ /\ NoRow(g.board_) => (h.gameOver_ <=> Row(h.board_, "white"))

(* What a stone of the player does to a sound game. *)
LEMMA PlaceHuman ==
    ASSUME NEW g, NEW a, Sound(g), Free(g, a)
    PROVE  /\ Sound(Place(g, a, "black", "human"))
           /\ Kept(g, Place(g, a, "black", "human"))
           /\ HumanMoved(g, Place(g, a, "black", "human"))
<1>1. PICK h : h = Place(g, a, "black", "human")
  OBVIOUS
<1>2. /\ g \in GameRec /\ CountOk(g) /\ a \in Cell /\ g.board_[a] = "empty"
      /\ "black" \in Player /\ "white" \in Player
  BY DEF Sound, Free, Player
<1>3. /\ h \in GameRec /\ CountOk(h)
      /\ \A x \in Cell : g.board_[x] # "empty" => h.board_[x] = g.board_[x]
      /\ Stones(h.board_, "black") = Stones(g.board_, "black") + 1
      /\ Stones(h.board_, "white") = Stones(g.board_, "white")
      /\ Row(h.board_, "white") <=> Row(g.board_, "white")
      /\ ~g.gameOver_ /\ ~Row(g.board_, "black")
            => (h.gameOver_ <=> Row(h.board_, "black"))
  BY <1>1, <1>2, PlaceFacts
<1>4. Stones(g.board_, "black") \in Nat /\ Stones(g.board_, "white") \in Nat
  BY StonesType, Zenon
<1>5. Ahead(h.board_) = Ahead(g.board_) + 1
  BY <1>3, <1>4 DEF Ahead
<1>6. Sound(h) /\ Kept(g, h) /\ HumanMoved(g, h)
  BY <1>3, <1>5 DEF Sound, Kept, HumanMoved, NoRow
<1> QED  BY <1>1, <1>6

(* What a stone of the machine does to a sound game. *)
LEMMA PlaceAi ==
    ASSUME NEW g, NEW a, Sound(g), Free(g, a)
    PROVE  /\ Sound(Place(g, a, "white", "ai"))
           /\ Kept(g, Place(g, a, "white", "ai"))
           /\ AiMoved(g, Place(g, a, "white", "ai"))
<1>1. PICK h : h = Place(g, a, "white", "ai")
  OBVIOUS
<1>2. /\ g \in GameRec /\ CountOk(g) /\ a \in Cell /\ g.board_[a] = "empty"
      /\ "black" \in Player /\ "white" \in Player
  BY DEF Sound, Free, Player
<1>3. /\ h \in GameRec /\ CountOk(h)
      /\ \A x \in Cell : g.board_[x] # "empty" => h.board_[x] = g.board_[x]
      /\ Stones(h.board_, "white") = Stones(g.board_, "white") + 1
      /\ Stones(h.board_, "black") = Stones(g.board_, "black")
      /\ Row(h.board_, "black") <=> Row(g.board_, "black")
      /\ ~g.gameOver_ /\ ~Row(g.board_, "white")
            => (h.gameOver_ <=> Row(h.board_, "white"))
  BY <1>1, <1>2, PlaceFacts
<1>4. Stones(g.board_, "black") \in Nat /\ Stones(g.board_, "white") \in Nat
  BY StonesType, Zenon
<1>5. Ahead(h.board_) = Ahead(g.board_) - 1
  BY <1>3, <1>4 DEF Ahead
<1>6. Sound(h) /\ Kept(g, h) /\ AiMoved(g, h)
  BY <1>3, <1>5 DEF Sound, Kept, AiMoved, NoRow
<1> QED  BY <1>1, <1>6

(* What humanMove and aiMove make of the user's game. *)
LEMMA HumanEffect ==
    ASSUME NEW t, NEW a \in Cell, humanMove(t, a)
    PROVE  \E g \in aiGames_ :
              \/ /\ Free(g, a) /\ aiGames_' = {Place(g, a, "black", "human")}
                 /\ GameGoto(t, "judge")
              \/ aiGames_' = aiGames_ /\ GameGoto(t, "idle")
  BY DEF humanMove, isValidMove, Free

(* aiMove puts a white stone on a free cell of the game it finds; on a     *)
(* full board it reads a cell that is not there.                           *)
LEMMA AiEffect ==
    ASSUME NEW t, aiMove(t)
    PROVE  \E g \in aiGames_ :
              \/ \E a \in Cell : /\ Free(g, a)
                                 /\ aiGames_' = {Place(g, a, "white", "ai")}
                                 /\ crashed' = crashed
              \/ Full(g.board_) /\ aiGames_' = aiGames_ /\ crashed' = TRUE
<1>1. PICK g \in aiGames_ :
         IF \E a \in Cell : g.board_[a] = "empty"
           THEN /\ aiGames_' = {Place(g, getBestMove(g.board_), "white", "ai")}
                /\ crashed' = crashed
           ELSE crashed' = TRUE /\ aiGames_' = aiGames_
  BY DEF aiMove
<1>2. CASE \E a \in Cell : g.board_[a] = "empty"
  <2>1. PICK a : a = getBestMove(g.board_)
    OBVIOUS
  <2>2. a \in Cell /\ Free(g, a)
    BY <1>2, <2>1, BestMoveFree DEF Free
  <2>3. aiGames_' = {Place(g, a, "white", "ai")} /\ crashed' = crashed
    BY <1>1, <1>2, <2>1
  <2> QED  BY <2>2, <2>3
<1>3. CASE ~\E a \in Cell : g.board_[a] = "empty"
  BY <1>1, <1>3, Zenon DEF Full
<1> QED  BY <1>2, <1>3, Zenon

(* No game has been started: the invariant holds. *)
LEMMA GameInitial == GameInit => GameInv
  BY Zenon DEF GameInit, GameInv, Place_

(* Every step of a request thread keeps every game sound. *)
LEMMA GameStep == GameInv /\ [GameNext]_gameVars => GameInv'
<1> SUFFICES ASSUME GameInv, [GameNext]_gameVars PROVE GameInv'
  OBVIOUS
<1>1. CASE UNCHANGED gameVars
  BY <1>1 DEF gameVars, GameInv
<1>2. ASSUME NEW t \in Thread, MoveFind(t) \/ MoveRef(t) \/ AfterHuman(t) \/ AfterAi(t)
                               \/ Dangling(t)
      PROVE  GameInv'
  BY <1>2, Zenon DEF MoveFind, MoveRef, AfterHuman, AfterAi, Dangling, GameGoto,
                     Answer, GameInv, Place_
<1>3. ASSUME NEW t \in Thread, MoveMake(t) \/ AiGameStart(t) \/ restartChessGameVsAi(t)
      PROVE  GameInv'
  <2>1. /\ aiGames_' = {NewGame}
        /\ gpc' \in [Thread -> Place_] /\ valid' \in [Thread -> BOOLEAN]
        /\ UNCHANGED <<verdict, overlap, crashed>>
    BY <1>3, Zenon DEF MoveMake, AiGameStart, restartChessGameVsAi, GameGoto,
                       GameInv, Place_
  <2> QED  BY <2>1, NewGameOk DEF GameInv
<1>4. ASSUME NEW t \in Thread, Erase(t) \/ LogoutGame(t) PROVE GameInv'
  BY <1>4, Zenon DEF Erase, LogoutGame, GameGoto, GameInv, Place_
<1>5. ASSUME NEW t \in Thread, NEW a \in Cell, humanMove(t, a) PROVE GameInv'
  <2>1. /\ gpc' \in [Thread -> Place_] /\ UNCHANGED <<valid, verdict, overlap, crashed>>
    BY <1>5 DEF humanMove, GameGoto, GameInv, Place_
  <2>2. PICK g \in aiGames_ :
           \/ Free(g, a) /\ aiGames_' = {Place(g, a, "black", "human")}
           \/ aiGames_' = aiGames_
    BY <1>5, HumanEffect
  <2>3. Sound(g)
    BY DEF GameInv
  <2>4. (\A h \in aiGames_' : Sound(h)) /\ \A h, k \in aiGames_' : h = k
    BY <2>2, <2>3, PlaceHuman DEF GameInv
  <2> QED  BY <2>1, <2>4 DEF GameInv
<1>6. ASSUME NEW t \in Thread, aiMove(t) PROVE GameInv'
  <2>1. /\ gpc' \in [Thread -> Place_] /\ UNCHANGED <<valid, verdict, overlap>>
        /\ crashed' \in BOOLEAN
    BY <1>6, Zenon DEF aiMove, GameGoto, GameInv, Place_
  <2>2. PICK g \in aiGames_ :
           \/ \E a \in Cell : Free(g, a) /\ aiGames_' = {Place(g, a, "white", "ai")}
           \/ aiGames_' = aiGames_
    BY <1>6, AiEffect, Zenon
  <2>3. Sound(g)
    BY DEF GameInv
  <2>4. (\A h \in aiGames_' : Sound(h)) /\ \A h, k \in aiGames_' : h = k
    BY <2>2, <2>3, PlaceAi DEF GameInv
  <2> QED  BY <2>1, <2>4 DEF GameInv
<1> QED  BY <1>1, <1>2, <1>3, <1>4, <1>5, <1>6 DEF GameNext, Step

-----------------------------------------------------------------------------
(* A request runs alone, when requests come one after another. *)
LEMMA Alone ==
    ASSUME GameInv, TurnInv, ~overlap, NEW t \in Thread, gpc[t] # "idle" \/ Receives(t)
    PROVE  OnlyAt(t)
<1>1. PICK s \in Thread : OnlyAt(s)
  BY DEF TurnInv
<1>2. CASE gpc[t] # "idle"
  BY <1>1, <1>2 DEF OnlyAt, RestIdle
<1>3. CASE Receives(t)
  <2>1. \A u \in Thread : gpc[u] = "idle"
    BY <1>3 DEF Receives
  <2>2. \A g \in aiGames_ : Fits(g, gpc[t], verdict[t])
    BY <1>1, <2>1 DEF OnlyAt, RestIdle, Fits, Deciding
  <2> QED  BY <1>1, <2>1, <2>2 DEF OnlyAt, RestIdle, Deciding
<1> QED  BY <1>2, <1>3

(* What the board says when the game is decided. *)
LEMMA OutcomeIs ==
    ASSUME NEW b
    PROVE  /\ Row(b, "black") /\ ~Row(b, "white") => Outcome(b) = "human"
           /\ Row(b, "white") /\ ~Row(b, "black") => Outcome(b) = "ai"
           /\ NoRow(b) /\ Full(b) => Outcome(b) = "draw"
           /\ NoRow(b) /\ ~Full(b) => Outcome(b) = "none"
  BY DEF Outcome, NoRow

(* isDraw, which compares moveCount_, sees a full board. *)
LEMMA DrawIsFull ==
    ASSUME NEW g, Sound(g) PROVE isDraw(g) <=> Full(g.board_)
<1>1. g.board_ \in Board /\ CountOk(g)
  BY DEF Sound, GameRec
<1> QED  BY <1>1, Counted DEF CountOk, isDraw

(* Before the first request no thread is inside a move. *)
LEMMA TurnInit == GameInit => TurnInv
<1> SUFFICES ASSUME GameInit PROVE \E t \in Thread : OnlyAt(t)
  BY DEF TurnInv
<1>1. PICK t \in Thread : TRUE
  BY GameAssumption
<1>2. OnlyAt(t)
  BY DEF GameInit, OnlyAt, RestIdle, Deciding
<1> QED  BY <1>2

(* The steps of a request, one by one. *)
LEMMA TurnTypes ==
    ASSUME GameInv, NEW t \in Thread, OnlyAt(t)
    PROVE  /\ ~crashed /\ RestIdle(t)
           /\ gpc \in [Thread -> Place_] /\ valid \in [Thread -> BOOLEAN]
           /\ verdict \in [Thread -> {"none", "human", "ai", "draw"}]
           /\ \A g \in aiGames_ : Sound(g)
  BY DEF OnlyAt, GameInv

(* A thread that moves on leaves the others where they are. *)
LEMMA TurnGoto ==
    ASSUME GameInv, NEW t \in Thread, OnlyAt(t), NEW l, GameGoto(t, l)
    PROVE  gpc'[t] = l /\ RestIdle(t)'
  BY TurnTypes DEF GameGoto, RestIdle

(* AiGameMoveHandler: find; the entry is there when it says so. *)
LEMMA TurnFind ==
    ASSUME GameInv, NEW t \in Thread, OnlyAt(t), MoveFind(t)
    PROVE  OnlyAt(t)'
<1>1. /\ gpc[t] = "idle" /\ gpc'[t] \in {"make", "ref"} /\ RestIdle(t)'
      /\ gpc'[t] = "ref" => aiGames_ # {}
      /\ UNCHANGED <<aiGames_, verdict, crashed>>
  <2>1. PICK l : l = (IF aiGames_ = {} THEN "make" ELSE "ref") /\ GameGoto(t, l)
    BY DEF MoveFind
  <2>2. gpc'[t] = l /\ RestIdle(t)'
    BY TurnGoto, <2>1
  <2>3. gpc[t] = "idle" /\ UNCHANGED <<aiGames_, verdict, crashed>>
    BY DEF MoveFind, Receives
  <2> QED  BY <2>1, <2>2, <2>3
<1>2. \A g \in aiGames_ : Fits(g, gpc'[t], verdict[t])
  BY <1>1 DEF OnlyAt, Fits, Deciding
<1> QED  BY TurnTypes, <1>1, <1>2 DEF OnlyAt, Deciding

(* A new game is an open one. *)
LEMMA TurnMake ==
    ASSUME GameInv, NEW t \in Thread, OnlyAt(t), MoveMake(t)
    PROVE  OnlyAt(t)'
<1>1. gpc'[t] = "ref" /\ RestIdle(t)' /\ aiGames_' = {NewGame} /\ crashed' = crashed
  BY TurnGoto DEF MoveMake
<1>2. Fits(NewGame, "ref", verdict'[t])
  BY NewGameOk DEF Fits, Deciding
<1> QED  BY TurnTypes, <1>1, <1>2 DEF OnlyAt, Deciding

(* The entry is still there when operator[] looks it up. *)
LEMMA TurnRef ==
    ASSUME GameInv, NEW t \in Thread, OnlyAt(t), MoveRef(t)
    PROVE  OnlyAt(t)'
<1>1. /\ gpc[t] = "ref" /\ gpc'[t] = "human" /\ RestIdle(t)'
      /\ aiGames_ # {} /\ crashed' = FALSE
      /\ valid'[t] = TRUE /\ UNCHANGED <<aiGames_, verdict>>
  BY TurnTypes, TurnGoto, Zenon DEF MoveRef, OnlyAt
<1>2. \A g \in aiGames_ : Fits(g, "human", verdict[t])
  BY <1>1 DEF OnlyAt, Fits, Deciding
<1> QED  BY TurnTypes, <1>1, <1>2 DEF OnlyAt, Deciding

(* humanMove: a refused move changes nothing, another is black's turn. *)
LEMMA TurnHuman ==
    ASSUME GameInv, NEW t \in Thread, OnlyAt(t), NEW a \in Cell, humanMove(t, a)
    PROVE  OnlyAt(t)'
<1>1. PICK g \in aiGames_ :
         IF isValidMove(g, a)
           THEN aiGames_' = {Place(g, a, "black", "human")} /\ GameGoto(t, "judge")
           ELSE GameGoto(t, "idle") /\ UNCHANGED aiGames_
  BY DEF humanMove
<1>2. /\ gpc[t] = "human" /\ valid[t] /\ Fits(g, "human", verdict[t])
      /\ UNCHANGED <<valid, verdict, crashed>>
  BY DEF humanMove, Uses, OnlyAt
<1>3. CASE ~isValidMove(g, a)
  <2>1. gpc'[t] = "idle" /\ RestIdle(t)' /\ aiGames_' = aiGames_
    BY TurnGoto, <1>1, <1>3
  <2>2. \A h \in aiGames_ : Fits(h, "idle", verdict[t])
    BY <1>2 DEF OnlyAt, Fits, Deciding
  <2> QED  BY TurnTypes, <1>2, <2>1, <2>2 DEF OnlyAt, Deciding
<1>4. CASE isValidMove(g, a)
  <2>1. PICK h : h = Place(g, a, "black", "human")
    OBVIOUS
  <2>2. gpc'[t] = "judge" /\ RestIdle(t)' /\ aiGames_' = {h}
    BY TurnGoto, <1>1, <1>4, <2>1
  <2>3. Free(g, a) /\ Ahead(g.board_) = 0 /\ NoRow(g.board_) /\ ~g.gameOver_
    BY <1>2, <1>4 DEF isValidMove, Free, Fits, Deciding, Open
  <2>4. HumanMoved(g, h)
    BY TurnTypes, <2>1, <2>3, PlaceHuman
  <2>5. /\ Ahead(h.board_) = 1 /\ ~Row(h.board_, "white")
        /\ h.gameOver_ <=> Row(h.board_, "black")
    BY <2>3, <2>4 DEF HumanMoved, NoRow
  <2>6. Fits(h, "judge", verdict[t])
    BY <2>5 DEF Fits, Judged, Deciding
  <2> QED  BY TurnTypes, <1>2, <2>2, <2>6 DEF OnlyAt
<1> QED  BY <1>3, <1>4

(* A row of black, a full board, or the machine moves. *)
LEMMA TurnAfterHuman ==
    ASSUME GameInv, NEW t \in Thread, OnlyAt(t), AfterHuman(t)
    PROVE  OnlyAt(t)'
<1>1. PICK g \in aiGames_ :
         \/ g.gameOver_ /\ Answer(t, "human") /\ GameGoto(t, "erase")
         \/ ~g.gameOver_ /\ isDraw(g) /\ Answer(t, "draw") /\ GameGoto(t, "erase")
         \/ ~g.gameOver_ /\ ~isDraw(g) /\ GameGoto(t, "ai") /\ UNCHANGED verdict
  BY DEF AfterHuman
<1>2. /\ gpc[t] = "judge" /\ valid[t] /\ Judged(g)
      /\ UNCHANGED <<aiGames_, valid, crashed>>
  BY Zenon DEF AfterHuman, Uses, OnlyAt, Fits
<1>3. \A h \in aiGames_ : h = g
  BY DEF GameInv
<1>4. isDraw(g) <=> Full(g.board_)
  BY TurnTypes, DrawIsFull
<1>5. \A w : Answer(t, w) => verdict'[t] = w
  BY TurnTypes DEF Answer
<1>6. Fits(g, gpc'[t], verdict'[t]) /\ gpc'[t] \in {"erase", "ai"} /\ RestIdle(t)'
  <2>1. CASE g.gameOver_ /\ Answer(t, "human") /\ GameGoto(t, "erase")
    <3>1. gpc'[t] = "erase" /\ RestIdle(t)' /\ verdict'[t] = "human"
      BY TurnGoto, <1>5, <2>1, Zenon
    <3>2. Ended(g, "human")
      BY <1>2, <2>1, OutcomeIs DEF Ended, Judged
    <3> QED  BY <3>1, <3>2, Zenon DEF Fits, Deciding
  <2>2. CASE ~g.gameOver_ /\ isDraw(g) /\ Answer(t, "draw") /\ GameGoto(t, "erase")
    <3>1. gpc'[t] = "erase" /\ RestIdle(t)' /\ verdict'[t] = "draw"
      BY TurnGoto, <1>5, <2>2, Zenon
    <3>2. Ended(g, "draw")
      BY <1>2, <1>4, <2>2, OutcomeIs DEF Ended, Judged, NoRow
    <3> QED  BY <3>1, <3>2, Zenon DEF Fits, Deciding
  <2>3. CASE ~g.gameOver_ /\ ~isDraw(g) /\ GameGoto(t, "ai")
    <3>1. gpc'[t] = "ai" /\ RestIdle(t)'
      BY TurnGoto, <2>3
    <3>2. Ahead(g.board_) = 1 /\ Open(g)
      BY <1>2, <2>3 DEF Judged, Open, NoRow
    <3> QED  BY <3>1, <3>2, Zenon DEF Fits, Deciding
  <2> QED  BY <1>1, <2>1, <2>2, <2>3, ZenonT(40)
<1> QED  BY TurnTypes, <1>2, <1>3, <1>6, Zenon DEF OnlyAt

(* aiMove: isDraw having been false, there is a free cell. *)
LEMMA TurnAi ==
    ASSUME GameInv, NEW t \in Thread, OnlyAt(t), aiMove(t)
    PROVE  OnlyAt(t)'
<1>1. PICK g \in aiGames_ :
         \/ \E a \in Cell : /\ Free(g, a) /\ aiGames_' = {Place(g, a, "white", "ai")}
                            /\ crashed' = crashed
         \/ Full(g.board_) /\ aiGames_' = aiGames_ /\ crashed' = TRUE
  BY AiEffect, Zenon
<1>2. /\ gpc[t] = "ai" /\ valid[t] /\ Ahead(g.board_) = 1 /\ Open(g)
      /\ gpc'[t] = "judge2" /\ RestIdle(t)' /\ UNCHANGED <<valid, verdict>>
  BY TurnGoto, Zenon DEF aiMove, Uses, OnlyAt, Fits
<1>3. ~Full(g.board_)
  BY TurnTypes, <1>2, DrawIsFull DEF Open
<1>4. PICK a \in Cell : /\ Free(g, a) /\ aiGames_' = {Place(g, a, "white", "ai")}
                        /\ crashed' = crashed
  BY <1>1, <1>3
<1>5. PICK h : h = Place(g, a, "white", "ai")
  OBVIOUS
<1>6. AiMoved(g, h)
  BY TurnTypes, <1>4, <1>5, PlaceAi
<1>7. NoRow(g.board_) /\ ~g.gameOver_
  BY <1>2, Zenon DEF Open
<1>8. /\ Ahead(h.board_) = 0 /\ ~Row(h.board_, "black")
      /\ h.gameOver_ <=> Row(h.board_, "white")
  <2>1. Ahead(h.board_) = Ahead(g.board_) - 1
    BY <1>6, Zenon DEF AiMoved
  <2>2. Ahead(g.board_) = 1
    BY <1>2, Zenon
  <2>3. Ahead(h.board_) = 0
    BY <2>1, <2>2
  <2>4. ~Row(h.board_, "black") /\ (h.gameOver_ <=> Row(h.board_, "white"))
    BY <1>6, <1>7, Zenon DEF AiMoved, NoRow
  <2> QED  BY <2>3, <2>4, Zenon
<1>9. Fits(h, "judge2", verdict[t])
  BY <1>8 DEF Fits, Judged2, Deciding
<1>10. aiGames_' = {h} /\ crashed' = crashed
  BY <1>4, <1>5
<1> QED  BY TurnTypes, <1>2, <1>9, <1>10 DEF OnlyAt

(* A row of white, a full board, or black moves. *)
LEMMA TurnAfterAi ==
    ASSUME GameInv, NEW t \in Thread, OnlyAt(t), AfterAi(t)
    PROVE  OnlyAt(t)'
<1>1. PICK g \in aiGames_ :
         \/ g.gameOver_ /\ Answer(t, "ai") /\ GameGoto(t, "erase")
         \/ ~g.gameOver_ /\ isDraw(g) /\ Answer(t, "draw") /\ GameGoto(t, "erase")
         \/ ~g.gameOver_ /\ ~isDraw(g) /\ Answer(t, "none") /\ GameGoto(t, "idle")
  BY DEF AfterAi
<1>2. /\ gpc[t] = "judge2" /\ valid[t] /\ Judged2(g)
      /\ UNCHANGED <<aiGames_, valid, crashed>>
  BY DEF AfterAi, Uses, OnlyAt, Fits
<1>3. \A h \in aiGames_ : h = g
  BY DEF GameInv
<1>4. isDraw(g) <=> Full(g.board_)
  BY TurnTypes, DrawIsFull
<1>5. \A w : Answer(t, w) => verdict'[t] = w
  BY TurnTypes DEF Answer
<1>6. Fits(g, gpc'[t], verdict'[t]) /\ gpc'[t] \in {"erase", "idle"} /\ RestIdle(t)'
  <2>1. CASE g.gameOver_ /\ Answer(t, "ai") /\ GameGoto(t, "erase")
    <3>1. gpc'[t] = "erase" /\ RestIdle(t)' /\ verdict'[t] = "ai"
      BY TurnGoto, <1>5, <2>1, Zenon
    <3>2. Ended(g, "ai")
      BY <1>2, <2>1, OutcomeIs DEF Ended, Judged2
    <3> QED  BY <3>1, <3>2, Zenon DEF Fits, Deciding
  <2>2. CASE ~g.gameOver_ /\ isDraw(g) /\ Answer(t, "draw") /\ GameGoto(t, "erase")
    <3>1. gpc'[t] = "erase" /\ RestIdle(t)' /\ verdict'[t] = "draw"
      BY TurnGoto, <1>5, <2>2, ZenonT(40)
    <3>2. Ended(g, "draw")
      BY <1>2, <1>4, <2>2, OutcomeIs DEF Ended, Judged2, NoRow
    <3> QED  BY <3>1, <3>2, Zenon DEF Fits, Deciding
  <2>3. CASE ~g.gameOver_ /\ ~isDraw(g) /\ GameGoto(t, "idle")
    <3>1. gpc'[t] = "idle" /\ RestIdle(t)'
      BY TurnGoto, <2>3
    <3>2. Ahead(g.board_) = 0 /\ Open(g)
      BY <1>2, <2>3 DEF Judged2, Open, NoRow
    <3> QED  BY <3>1, <3>2, Zenon DEF Fits, Deciding
  <2> QED  BY <1>1, <2>1, <2>2, <2>3, ZenonT(40)
<1> QED  BY TurnTypes, <1>2, <1>3, <1>6, Zenon DEF OnlyAt

(* The entry goes, when the game is over, ... *)
LEMMA TurnErase ==
    ASSUME GameInv, NEW t \in Thread, OnlyAt(t), Erase(t)
    PROVE  OnlyAt(t)'
<1>1. gpc'[t] = "idle" /\ RestIdle(t)' /\ aiGames_' = {} /\ crashed' = crashed
  BY TurnGoto DEF Erase
<1> QED  BY TurnTypes, <1>1 DEF OnlyAt, Deciding

(* ... at a start or restart, which makes a new one, ... *)
LEMMA TurnNew ==
    ASSUME GameInv, NEW t \in Thread, OnlyAt(t),
           AiGameStart(t) \/ restartChessGameVsAi(t)
    PROVE  OnlyAt(t)'
<1>1. gpc[t] = "idle" /\ aiGames_' = {NewGame} /\ UNCHANGED <<gpc, verdict, crashed>>
  BY DEF AiGameStart, restartChessGameVsAi, Receives
<1>2. Fits(NewGame, "idle", verdict'[t])
  BY NewGameOk DEF Fits, Deciding
<1> QED  BY TurnTypes, <1>1, <1>2 DEF OnlyAt, RestIdle, Deciding

(* ... and at logout. *)
LEMMA TurnLogout ==
    ASSUME GameInv, NEW t \in Thread, OnlyAt(t), LogoutGame(t)
    PROVE  OnlyAt(t)'
<1>1. gpc[t] = "idle" /\ aiGames_' = {} /\ UNCHANGED <<gpc, verdict, crashed>>
  BY DEF LogoutGame, Receives
<1> QED  BY TurnTypes, <1>1 DEF OnlyAt, RestIdle, Deciding

(* Every step of the only request. *)
LEMMA TurnStep ==
    ASSUME GameInv, NEW t \in Thread, OnlyAt(t),
           \/ MoveFind(t) \/ Step(t) \/ AiGameStart(t)
           \/ restartChessGameVsAi(t) \/ LogoutGame(t)
    PROVE  OnlyAt(t)'
<1>1. ~Dangling(t)
  BY Zenon DEF Dangling, OnlyAt
<1> QED
  BY <1>1, TurnFind, TurnMake, TurnRef, TurnHuman, TurnAfterHuman, TurnAi, TurnAfterAi,
     TurnErase, TurnNew, TurnLogout
  DEF Step

(* A step that does not make two requests overlap keeps the turns. *)
LEMMA GameTurn ==
    ASSUME GameInv, TurnInv, [GameNext]_gameVars PROVE TurnInv'
<1> SUFFICES ASSUME ~overlap' PROVE TurnInv'
  BY DEF TurnInv
<1>1. CASE UNCHANGED gameVars
  BY <1>1, Zenon DEF gameVars, TurnInv, OnlyAt, RestIdle
<1>2. CASE GameNext
  <2>1. PICK t \in Thread : \/ MoveFind(t) \/ Step(t)
                            \/ AiGameStart(t) \/ restartChessGameVsAi(t)
                            \/ LogoutGame(t)
    BY <1>2 DEF GameNext
  <2>2. overlap' = overlap
    BY <2>1, Zenon DEF MoveFind, Step, MoveMake, MoveRef, Dangling, humanMove,
                       AfterHuman, aiMove, AfterAi, Erase, AiGameStart,
                       restartChessGameVsAi, LogoutGame
  <2>3. gpc[t] # "idle" \/ Receives(t)
    BY <2>1, Zenon DEF MoveFind, Step, MoveMake, MoveRef, Dangling, humanMove,
                       AfterHuman, aiMove, AfterAi, Erase, AiGameStart,
                       restartChessGameVsAi, LogoutGame, Uses
  <2>4. OnlyAt(t)
    BY <2>2, <2>3, Alone
  <2>5. OnlyAt(t)'
    BY <2>1, <2>2, <2>4, TurnStep
  <2> QED  BY <2>5 DEF TurnInv
<1> QED  BY <1>1, <1>2

(* The two invariants give a fair game. *)
LEMMA TurnFair == ASSUME GameInv, TurnInv PROVE FairGame
<1> SUFFICES ASSUME ~overlap PROVE FairGame
  BY DEF FairGame
<1>1. PICK t \in Thread : OnlyAt(t)
  BY DEF TurnInv
<1> SUFFICES ASSUME NEW g \in aiGames_
             PROVE  /\ Ahead(g.board_) \in {0, 1}
                    /\ Outcome(g.board_) = "none" =>
                          (Ahead(g.board_) = 1
                              <=> \E u \in Thread : gpc[u] \in {"judge", "ai"})
                    /\ ~(Row(g.board_, "black") /\ Row(g.board_, "white"))
                    /\ \A u \in Thread : gpc[u] = "erase" => verdict[u] = Outcome(g.board_)
                    /\ (\A u \in Thread : gpc[u] = "idle") => Outcome(g.board_) = "none"
  BY <1>1, Zenon DEF FairGame, Ahead, OnlyAt, RestIdle
<1>2. /\ \A u \in Thread : u # t => gpc[u] = "idle"
      /\ Fits(g, gpc[t], verdict[t]) /\ Sound(g)
  BY <1>1 DEF OnlyAt, RestIdle, GameInv
<1>3. isDraw(g) <=> Full(g.board_)
  BY <1>2, DrawIsFull
<1> DEFINE thinking == \E u \in Thread : gpc[u] \in {"judge", "ai"}
<1>4. /\ thinking <=> gpc[t] \in {"judge", "ai"}
      /\ \A u \in Thread : gpc[u] = "erase" => u = t
  BY <1>2
<1> HIDE DEF thinking
<1>5. CASE gpc[t] = "judge"
  <2>1. Ahead(g.board_) = 1 /\ ~Row(g.board_, "white")
    BY <1>2, <1>5 DEF Fits, Judged
  <2> QED  BY <1>4, <1>5, <2>1 DEF thinking
<1>6. CASE gpc[t] = "ai"
  <2>1. Ahead(g.board_) = 1 /\ ~Row(g.board_, "white")
    BY <1>2, <1>6 DEF Fits, Open, NoRow
  <2> QED  BY <1>4, <1>6, <2>1 DEF thinking
<1>7. CASE gpc[t] = "judge2"
  <2>1. Ahead(g.board_) = 0 /\ ~Row(g.board_, "black")
    BY <1>2, <1>7 DEF Fits, Judged2
  <2> QED  BY <1>4, <1>7, <2>1 DEF thinking
<1>8. CASE gpc[t] = "erase"
  <2>1. /\ Ahead(g.board_) \in {0, 1}
        /\ ~(Row(g.board_, "black") /\ Row(g.board_, "white"))
        /\ verdict[t] = Outcome(g.board_) /\ Outcome(g.board_) # "none"
    BY <1>2, <1>8 DEF Fits, Ended
  <2> QED  BY <1>4, <1>8, <2>1
<1>9. CASE gpc[t] \notin Deciding
  <2>1. Ahead(g.board_) = 0 /\ Open(g)
    BY <1>2, <1>9 DEF Fits
  <2>2. Outcome(g.board_) = "none" /\ ~Row(g.board_, "black")
    BY <1>3, <2>1, OutcomeIs DEF Open, NoRow
  <2>3. ~thinking /\ gpc[t] # "erase"
    BY <1>4, <1>9 DEF Deciding
  <2> QED  BY <1>4, <2>1, <2>2, <2>3 DEF thinking
<1> QED  BY <1>5, <1>6, <1>7, <1>8, <1>9, Zenon DEF Deciding

-----------------------------------------------------------------------------
(* For every board size, row length and set of threads: as long as one     *)
(* user's requests come one after another, AiGame keeps the rules and the  *)
(* answers of AiGameMoveHandler are those of the board.                    *)
THEOREM FairCorrect == GameSpec => []FairGame
<1>1. GameInit => GameInv /\ TurnInv
  BY GameInitial, TurnInit
<1>2. GameInv /\ TurnInv /\ [GameNext]_gameVars => GameInv' /\ TurnInv'
  BY GameStep, GameTurn
<1>3. GameInv /\ TurnInv => FairGame
  BY TurnFair
<1> QED  BY <1>1, <1>2, <1>3, PTL DEF GameSpec

(* Whatever the requests do, no step moves or removes a stone of a game    *)
(* that lives on, and moveCount_ stays the number of its stones.           *)
THEOREM StonesCorrect == GameSpec => StonesStay
<1> DEFINE Stay == \A g \in aiGames_, h \in aiGames_' :
          h # NewGame /\ ~crashed' =>
              /\ \A a \in Cell : g.board_[a] # "empty" => h.board_[a] = g.board_[a]
              /\ h.moveCount_ = Stones(h.board_, "black") + Stones(h.board_, "white")
<1>1. ASSUME GameInv, GameInv', [GameNext]_gameVars PROVE Stay
  <2> SUFFICES ASSUME NEW g \in aiGames_, NEW h \in aiGames_', h # NewGame
               PROVE  \A a \in Cell : g.board_[a] # "empty" => h.board_[a] = g.board_[a]
    BY <1>1 DEF GameInv, Sound, CountOk
  <2>1. Sound(g) /\ \A k \in aiGames_ : k = g
    BY <1>1 DEF GameInv
  <2>2. CASE h = g
    BY <2>2
  <2>3. CASE h # g
    <3>1. CASE \E t \in Thread, a \in Cell : humanMove(t, a)
      <4>1. PICK a \in Cell : Free(g, a) /\ h = Place(g, a, "black", "human")
        BY <2>1, <2>3, <3>1, HumanEffect
      <4>2. Kept(g, h)
        BY <2>1, <4>1, PlaceHuman
      <4> QED  BY <4>2 DEF Kept
    <3>2. CASE \E t \in Thread : aiMove(t)
      <4>1. PICK a \in Cell : Free(g, a) /\ h = Place(g, a, "white", "ai")
        BY <2>1, <2>3, <3>2, AiEffect, Zenon
      <4>2. Kept(g, h)
        BY <2>1, <4>1, PlaceAi
      <4> QED  BY <4>2 DEF Kept
    <3>3. CASE aiGames_' \subseteq aiGames_ \cup {NewGame}
      BY <2>1, <2>3, <3>3
    <3> QED
      BY <1>1, <3>1, <3>2, <3>3, Zenon
      DEF GameNext, Step, gameVars, MoveFind, MoveMake, MoveRef, Dangling, AfterHuman,
          AfterAi, Erase, AiGameStart, restartChessGameVsAi, LogoutGame
  <2> QED  BY <2>2, <2>3
<1>2. GameInit => GameInv
  BY GameInitial
<1>3. GameInv /\ [GameNext]_gameVars => GameInv'
  BY GameStep
<1>4. Stay => [Stay]_gameVars
  OBVIOUS
<1>5. StonesStay <=> [][Stay]_gameVars
  BY DEF StonesStay
<1> HIDE DEF Stay
<1>6. GameInv /\ GameInv' /\ [GameNext]_gameVars => [Stay]_gameVars
  BY <1>1, <1>4
<1> QED  BY <1>2, <1>3, <1>5, <1>6, PTL DEF GameSpec

-----------------------------------------------------------------------------
(* The pool.                                                               *)

(* The inductive invariant of the pool: the thread that has taken a        *)
(* connection is at one of the steps that end with its return, and has     *)
(* just one.                                                               *)
InUse == {"ping", "reconnect", "use", "release", "unwind"}

PoolInv ==
    /\ PoolTypeOK
    /\ ConnInOnePlace
    /\ \A t \in Thread : holds[t] # {} => dpc[t] \in InUse
    /\ \A t \in Thread : \A c, d \in holds[t] : c = d

(* Sequences, in the form the steps below use. *)
LEMMA SeqFacts ==
    ASSUME NEW S, NEW s \in Seq(S)
    PROVE  /\ Len(s) \in Nat /\ DOMAIN s = 1 .. Len(s)
           /\ \A x \in S : Append(s, x) \in Seq(S)
  OBVIOUS

(* What Tail leaves of a queue without repetitions. *)
LEMMA TailKeeps ==
    ASSUME NEW s \in Seq(Conn), s # <<>>, IsInjective(s)
    PROVE  /\ Tail(s) \in Seq(Conn)
           /\ IsInjective(Tail(s))
           /\ Head(s) \in Conn
           /\ Range(Tail(s)) = Range(s) \ {Head(s)}
<1>1. /\ Len(s) \in Nat /\ Len(s) > 0
      /\ Len(Tail(s)) = Len(s) - 1 /\ Tail(s) \in Seq(Conn)
      /\ \A i \in 1 .. Len(s) - 1 : Tail(s)[i] = s[i + 1]
      /\ Head(s) = s[1] /\ Head(s) \in Conn
  OBVIOUS
<1>2. DOMAIN s = 1 .. Len(s) /\ DOMAIN Tail(s) = 1 .. Len(s) - 1
  BY <1>1
<1>3. IsInjective(Tail(s))
  BY <1>1, <1>2 DEF IsInjective
<1>4. ASSUME NEW c \in Range(Tail(s)) PROVE c \in Range(s) \ {Head(s)}
  <2>1. PICK i \in 1 .. Len(s) - 1 : c = s[i + 1]
    BY <1>1, <1>2, <1>4 DEF Range
  <2>2. i + 1 \in DOMAIN s /\ 1 \in DOMAIN s /\ i + 1 # 1
    BY <1>1, <1>2
  <2> QED  BY <2>1, <2>2, <1>1 DEF IsInjective, Range
<1>5. ASSUME NEW c \in Range(s) \ {Head(s)} PROVE c \in Range(Tail(s))
  <2>1. PICK i \in 1 .. Len(s) : c = s[i]
    BY <1>2, <1>5 DEF Range
  <2>2. i # 1
    BY <2>1, <1>1, <1>5
  <2>3. i - 1 \in 1 .. Len(s) - 1 /\ Tail(s)[i - 1] = s[i]
    BY <2>2, <1>1
  <2> QED  BY <2>1, <2>3, <1>2, Zenon DEF Range
<1> QED  BY <1>1, <1>3, <1>4, <1>5

(* What Append adds to a queue that does not hold the connection. *)
LEMMA AppendKeeps ==
    ASSUME NEW s \in Seq(Conn), IsInjective(s), NEW c \in Conn, c \notin Range(s)
    PROVE  /\ Append(s, c) \in Seq(Conn)
           /\ IsInjective(Append(s, c))
           /\ Range(Append(s, c)) = Range(s) \cup {c}
<1>1. /\ Append(s, c) \in Seq(Conn)
      /\ Len(s) \in Nat /\ Len(Append(s, c)) = Len(s) + 1
      /\ \A i \in 1 .. Len(s) : Append(s, c)[i] = s[i]
      /\ Append(s, c)[Len(s) + 1] = c
  OBVIOUS
<1>2. DOMAIN s = 1 .. Len(s) /\ DOMAIN Append(s, c) = 1 .. Len(s) + 1
  BY <1>1
<1>3. IsInjective(Append(s, c))
  BY <1>1, <1>2 DEF IsInjective, Range
<1>4. Range(Append(s, c)) \subseteq Range(s) \cup {c}
  BY <1>1, <1>2 DEF Range
<1>5. Range(s) \cup {c} \subseteq Range(Append(s, c))
  <2>1. c \in Range(Append(s, c))
    BY <1>1, <1>2 DEF Range
  <2>2. ASSUME NEW d \in Range(s) PROVE d \in Range(Append(s, c))
    <3>1. PICK i \in 1 .. Len(s) : d = s[i]
      BY <1>2, <2>2 DEF Range
    <3>2. i \in DOMAIN Append(s, c) /\ Append(s, c)[i] = d
      BY <3>1, <1>1, <1>2
    <3> QED  BY <3>2 DEF Range
  <2> QED  BY <2>1, <2>2
<1> QED  BY <1>1, <1>3, <1>4, <1>5

(* What init leaves satisfies the invariant. *)
LEMMA PoolInitial == PoolInit => PoolInv
<1> SUFFICES ASSUME PoolInit PROVE PoolInv
  OBVIOUS
<1>1. Cardinality(Conn) \in Nat
  BY ConnAssumption, FS_CardinalityType
<1>2. connections_ \in Seq(Conn)
  BY <1>1 DEF PoolInit
<1> QED  BY <1>2, Zenon DEF PoolInit, PoolInv, PoolTypeOK, PoolPc, ConnInOnePlace, InUse

(* The steps that move no connection. *)
LEMMA Idle ==
    ASSUME PoolInv, UNCHANGED <<connections_, holds>>,
           dpc' \in [Thread -> PoolPc], asleep' \in BOOLEAN,
           toCheck' \in SUBSET Conn,
           \A t \in Thread : dpc[t] \in InUse => dpc'[t] \in InUse
    PROVE  PoolInv'
  BY DEF PoolInv, PoolTypeOK, ConnInOnePlace

(* Every step of the pool keeps the invariant. *)
LEMMA PoolStep == PoolInv /\ [PoolNext]_poolVars => PoolInv'
<1> SUFFICES ASSUME PoolInv, [PoolNext]_poolVars PROVE PoolInv'
  OBVIOUS
<1> USE DEF PoolInv, PoolTypeOK
<1>1. ASSUME NEW t \in Thread, Begin(t) PROVE PoolInv'
  BY <1>1, Idle DEF Begin, PoolPc, InUse
<1>2. ASSUME NEW t \in Thread, Wait(t) PROVE PoolInv'
  BY <1>2, Idle DEF Wait, PoolPc, InUse
<1>3. ASSUME NEW t \in Thread, NEW ok \in BOOLEAN, Ping(t, ok) PROVE PoolInv'
  BY <1>3, Idle DEF Ping, PoolPc, InUse
<1>3a. ASSUME NEW t \in Thread, NEW ok \in BOOLEAN, reconnect(t, ok)
       PROVE PoolInv'
  BY <1>3a, Idle DEF reconnect, PoolPc, InUse
<1>3b. ASSUME NEW t \in Thread, SpuriousWakeup(t) PROVE PoolInv'
  BY <1>3b, Idle DEF SpuriousWakeup, PoolPc, InUse
<1>4. ASSUME NEW t \in Thread, NEW ok \in BOOLEAN, Use(t, ok) PROVE PoolInv'
  BY <1>4, Idle DEF Use, PoolPc, InUse
<1>5. ASSUME NEW t \in Thread, Caught(t) PROVE PoolInv'
  BY <1>5, Idle DEF Caught, PoolPc, InUse
<1>6. ASSUME Check PROVE PoolInv'
  <2>1. CASE CheckLook
    BY <2>1, Idle DEF CheckLook, Range
  <2>2. CASE CheckWake
    BY <2>2, Idle, Zenon DEF CheckWake
  <2>3. ASSUME NEW c \in Conn, CheckPing(c) PROVE PoolInv'
    BY <2>3, Idle DEF CheckPing
  <2> QED  BY <1>6, <2>1, <2>2, <2>3 DEF Check
<1>7. ASSUME NEW t \in Thread, Take(t) PROVE PoolInv'
  <2>1. /\ connections_' \in Seq(Conn) /\ IsInjective(connections_')
        /\ Head(connections_) \in Conn
        /\ Range(connections_') = Range(connections_) \ {Head(connections_)}
    BY <1>7, TailKeeps DEF Take, ConnInOnePlace
  <2>2. Head(connections_) \in Range(connections_)
    BY <1>7 DEF Take, Range
  <2>3. /\ holds' \in [Thread -> SUBSET Conn]
        /\ holds'[t] = {Head(connections_)}
        /\ \A u \in Thread : u # t => holds'[u] = holds[u]
        /\ dpc' \in [Thread -> PoolPc] /\ dpc'[t] = "ping"
        /\ \A u \in Thread : u # t => dpc'[u] = dpc[u]
    BY <1>7, <2>1 DEF Take, PoolPc
  <2>4. holds[t] = {}
    BY <1>7 DEF Take, InUse
  <2>5. ConnInOnePlace'
    BY <2>1, <2>2, <2>3, <2>4 DEF ConnInOnePlace
  <2> QED  BY <1>7, <2>1, <2>3, <2>5 DEF Take, InUse
<1>8. ASSUME NEW t \in Thread, Release(t) PROVE PoolInv'
  <2>1. PICK c \in holds[t] : connections_' = Append(connections_, c)
    BY <1>8 DEF Release
  <2>2. c \in Conn /\ c \notin Range(connections_) /\ holds[t] = {c}
    BY <2>1 DEF ConnInOnePlace
  <2>3. /\ connections_' \in Seq(Conn) /\ IsInjective(connections_')
        /\ Range(connections_') = Range(connections_) \cup {c}
    BY <2>1, <2>2, AppendKeeps DEF ConnInOnePlace
  <2>4. /\ holds' \in [Thread -> SUBSET Conn] /\ holds'[t] = {}
        /\ \A u \in Thread : u # t => holds'[u] = holds[u]
    BY <1>8 DEF Release
  <2>5. /\ dpc' \in [Thread -> PoolPc]
        /\ \A u \in Thread : u # t /\ dpc[u] \in InUse => dpc'[u] \in InUse
    BY <1>8 DEF Release, After, PoolPc, InUse
  <2>6. ConnInOnePlace'
    <3>1. /\ IsInjective(connections_')
          /\ \A u \in Thread : Range(connections_') \cap holds'[u] = {}
      BY <2>2, <2>3, <2>4 DEF ConnInOnePlace
    <3>2. \A u, v \in Thread : u # v => holds'[u] \cap holds'[v] = {}
      BY <2>4 DEF ConnInOnePlace
    <3>3. \A d \in Conn : \/ d \in Range(connections_')
                         \/ \E u \in Thread : d \in holds'[u]
      BY <2>2, <2>3, <2>4 DEF ConnInOnePlace
    <3> QED  BY <3>1, <3>2, <3>3, Zenon DEF ConnInOnePlace
  <2> QED  BY <1>8, <2>3, <2>4, <2>5, <2>6 DEF Release
<1>9. ASSUME UNCHANGED poolVars PROVE PoolInv'
  BY <1>9, Idle DEF poolVars
<1> HIDE DEF PoolInv, PoolTypeOK
<1> QED
  BY <1>1, <1>2, <1>3, <1>3a, <1>3b, <1>4, <1>5, <1>6, <1>7, <1>8, <1>9, Zenon
     DEF PoolNext, Borrow

(* Every connection that DbConnectionPool::init creates is in the queue    *)
(* once or with exactly one thread, at every moment, for any number of     *)
(* threads and connections and whatever pings and statements fail: the     *)
(* deleter and the catch block of getConnection lose and duplicate none.   *)
THEOREM ConnCorrect == PoolSpec => []ConnInOnePlace
<1>1. PoolInv => ConnInOnePlace
  BY DEF PoolInv
<1> QED  BY PoolInitial, PoolStep, <1>1, PTL DEF PoolSpec
-----------------------------------------------------------------------------
(* The handlers.                                                           *)

SessionData == [userId : Nat, isLoggedIn : BOOLEAN]
Names == UserName \cup {""}

(* The inductive invariant.  Beside ActsForOwner: ids of sessions are of   *)
(* sessions that exist, what queryUserId found it found with the right     *)
(* password, and a login at setValue has proved its user to its session.   *)
HandlerInv(t) ==
    /\ loc[t].id \in Nat /\ loc[t].name \in Names
    /\ loc[t].session \in DOMAIN data_ \cup {0}
    /\ pc[t] = "queryUserId" /\ loc[t].id # 0 => loc[t].right
    /\ pc[t] \in {"userId", "isLoggedIn", "clear"} => loc[t].session # 0
    /\ pc[t] = "userId" => <<loc[t].id, loc[t].session>> \in proved

OwnerInv ==
    /\ data_ \in Seq(SessionData) /\ users \in Seq(Names)
    /\ sessions_ \subseteq DOMAIN data_ /\ expired \subseteq DOMAIN data_
    /\ loc = [t \in Thread |-> loc[t]] /\ pc = [t \in Thread |-> pc[t]]
    /\ \A t \in Thread : HandlerInv(t)
    /\ ActsForOwner

(* A step of thread t alone. *)
OnlyOf(t) ==
    /\ loc' = [u \in Thread |-> loc'[u]] /\ pc' = [u \in Thread |-> pc'[u]]
    /\ \A u \in Thread \ {t} : loc'[u] = loc[u] /\ pc'[u] = pc[u]

(* Every session has an index from 1 on. *)
LEMMA DataDomain ==
    ASSUME NEW d \in Seq(SessionData)
    PROVE  /\ DOMAIN d = 1 .. Len(d) /\ Len(d) \in Nat
           /\ \A s \in DOMAIN d : d[s] \in SessionData
  OBVIOUS

-----------------------------------------------------------------------------
(* The handler of thread t takes a step that makes no session and stores   *)
(* nothing in one.                                                         *)
LEMMA Moves ==
    ASSUME OwnerInv, NEW t \in Thread, OnlyOf(t),
           loc'[t].id \in Nat, loc'[t].name \in Names,
           loc'[t].session \in {0, loc[t].session},
           pc'[t] = "queryUserId" /\ loc'[t].id # 0 => loc'[t].right,
           pc'[t] \notin {"userId", "isLoggedIn", "clear"},
           UNCHANGED <<data_, expired, proved>>,
           users' \in Seq(Names), sessions_' \subseteq DOMAIN data_
    PROVE  OwnerInv'
<1>1. 0 \notin expired
  BY DataDomain DEF OwnerInv
<1>2. ActsForOwner'
  BY <1>1, Zenon DEF OwnerInv, ActsForOwner, OnlyOf
<1>3. \A u \in Thread : HandlerInv(u)'
  <2>1. HandlerInv(t)'
    BY Zenon DEF OwnerInv, HandlerInv
  <2>2. ASSUME NEW u \in Thread \ {t} PROVE HandlerInv(u)'
    BY DEF OwnerInv, HandlerInv, OnlyOf
  <2> QED  BY <2>1, <2>2, Zenon
<1> QED  BY <1>2, <1>3 DEF OwnerInv, OnlyOf

(* The handler of thread t stores values in a session, which are those of  *)
(* a user it has proved, or of nobody.                                     *)
LEMMA Stores ==
    ASSUME OwnerInv, NEW t \in Thread, OnlyOf(t),
           NEW s \in DOMAIN data_, NEW values \in SessionData,
           data_' = [data_ EXCEPT ![s] = values],
           values.userId # 0 => <<values.userId, s>> \in proved,
           loc'[t].id \in Nat, loc'[t].name \in Names,
           loc'[t].session \in {0, loc[t].session},
           pc'[t] \notin {"queryUserId", "userId", "clear"},
           pc'[t] = "isLoggedIn" => loc'[t].session # 0,
           UNCHANGED <<users, expired, proved>>,
           sessions_' \subseteq DOMAIN data_
    PROVE  OwnerInv'
<1>1. 0 \notin expired
  BY DataDomain DEF OwnerInv
<1>2. /\ data_' \in Seq(SessionData) /\ DOMAIN data_' = DOMAIN data_
      /\ data_'[s] = values
      /\ \A r \in DOMAIN data_ : r # s => data_'[r] = data_[r]
  BY DataDomain DEF OwnerInv
<1>3. ActsForOwner'
  <2>1. ASSUME NEW r \in DOMAIN data_', data_'[r].userId # 0
        PROVE  <<data_'[r].userId, r>> \in proved'
    BY <2>1, <1>2 DEF OwnerInv, ActsForOwner
  <2>2. \A u \in Thread : loc'[u].session \notin expired'
    BY <1>1 DEF OwnerInv, ActsForOwner, OnlyOf
  <2> QED  BY <2>1, <2>2 DEF ActsForOwner
<1>4. \A u \in Thread : HandlerInv(u)'
  <2>1. HandlerInv(t)'
    BY <1>2, Zenon DEF OwnerInv, HandlerInv
  <2>2. ASSUME NEW u \in Thread \ {t} PROVE HandlerInv(u)'
    BY <1>2 DEF OwnerInv, HandlerInv, OnlyOf
  <2> QED  BY <2>1, <2>2
<1> QED  BY <1>2, <1>3, <1>4 DEF OwnerInv, OnlyOf

(* getSession gives a session that has not expired, with what was stored   *)
(* in it if it is an old one and nothing if it is a new one.               *)
LEMMA Gets ==
    ASSUME OwnerInv, NEW cookie, NEW s, getSession(cookie, s)
    PROVE  /\ data_' \in Seq(SessionData)
           /\ DOMAIN data_ \subseteq DOMAIN data_'
           /\ \A r \in DOMAIN data_ : data_'[r] = data_[r]
           /\ \A r \in DOMAIN data_' : r \in DOMAIN data_ \/ data_'[r].userId = 0
           /\ s \in DOMAIN data_' /\ s # 0 /\ s \notin expired
           /\ sessions_' \subseteq DOMAIN data_'
<1>1. CASE load(cookie)
  BY <1>1, DataDomain DEF getSession, load, OwnerInv
<1>2. CASE ~load(cookie)
  <2>1. /\ s = Len(data_) + 1 /\ data_' = Append(data_, Fresh)
        /\ sessions_' = Erased(cookie) \cup {s}
    BY <1>2 DEF getSession, generateSessionId
  <2>2. Fresh \in SessionData /\ Fresh.userId = 0
    BY DEF Fresh, SessionData
  <2>3. /\ data_' \in Seq(SessionData) /\ DOMAIN data_' = 1 .. Len(data_) + 1
        /\ DOMAIN data_ = 1 .. Len(data_) /\ Len(data_) \in Nat
        /\ \A r \in 1 .. Len(data_) : data_'[r] = data_[r]
        /\ data_'[Len(data_) + 1] = Fresh
    BY <2>1, <2>2, DataDomain DEF OwnerInv
  <2> QED  BY <2>1, <2>2, <2>3 DEF OwnerInv, Erased
<1> QED  BY <1>1, <1>2, Zenon

(* The handler of thread t goes on with the session it got. *)
LEMMA Enters ==
    ASSUME OwnerInv, NEW t \in Thread, OnlyOf(t), NEW cookie, NEW s,
           getSession(cookie, s),
           loc'[t].id \in Nat, loc'[t].name \in Names,
           loc'[t].session \in {0, s},
           pc'[t] # "queryUserId",
           pc'[t] \in {"userId", "isLoggedIn", "clear"} => loc'[t].session # 0,
           pc'[t] = "userId" => <<loc'[t].id, loc'[t].session>> \in proved',
           proved \subseteq proved', UNCHANGED <<users, expired>>
    PROVE  OwnerInv'
<1>1. 0 \notin expired
  BY DataDomain DEF OwnerInv
<1>2. /\ data_' \in Seq(SessionData)
      /\ DOMAIN data_ \subseteq DOMAIN data_'
      /\ \A r \in DOMAIN data_ : data_'[r] = data_[r]
      /\ \A r \in DOMAIN data_' : r \in DOMAIN data_ \/ data_'[r].userId = 0
      /\ s \in DOMAIN data_' /\ s # 0 /\ s \notin expired
      /\ sessions_' \subseteq DOMAIN data_'
  BY Gets, Zenon
<1>3. ActsForOwner'
  <2>1. ASSUME NEW r \in DOMAIN data_', data_'[r].userId # 0
        PROVE  <<data_'[r].userId, r>> \in proved'
    BY <2>1, <1>2 DEF OwnerInv, ActsForOwner
  <2>2. \A u \in Thread : loc'[u].session \notin expired'
    BY <1>1, <1>2 DEF OwnerInv, ActsForOwner, OnlyOf
  <2> QED  BY <2>1, <2>2, Zenon DEF ActsForOwner
<1>4. \A u \in Thread : HandlerInv(u)'
  <2>1. HandlerInv(t)'
    BY <1>2 DEF OwnerInv, HandlerInv
  <2>2. ASSUME NEW u \in Thread \ {t} PROVE HandlerInv(u)'
    BY <1>2, Zenon DEF OwnerInv, HandlerInv, OnlyOf
  <2> QED  BY <2>1, <2>2, Zenon
<1> QED  BY <1>2, <1>3, <1>4 DEF OwnerInv, OnlyOf

-----------------------------------------------------------------------------
(* The server starts with no session. *)
LEMMA OwnerInit == Init => OwnerInv
<1> SUFFICES ASSUME Init PROVE OwnerInv
  OBVIOUS
<1>1. users \in Seq(Names)
  <2>1. PICK n \in 0 .. MaxRow : users \in [1 .. n -> UserName]
    BY DEF Init
  <2>2. n \in Nat
    BY AccountAssumption
  <2>3. users \in [1 .. n -> Names]
    BY <2>1 DEF Names
  <2> QED  BY <2>2, <2>3
<1>2. data_ = <<>> /\ data_ \in Seq(SessionData) /\ DOMAIN data_ = {}
  BY DEF Init
<1> QED  BY <1>1, <1>2, Zenon DEF Init, NoLocals, OwnerInv, HandlerInv, ActsForOwner, Names

(* A request comes in. *)
LEMMA OwnerReceive ==
    ASSUME OwnerInv, NEW t \in Thread, Receive(t)
    PROVE  OwnerInv'
<1> USE DEF Keep, Goto, Done, Query, At, NoLocals, OnlyOf
<1>0. /\ loc = [u \in Thread |-> loc[u]] /\ pc = [u \in Thread |-> pc[u]]
      /\ loc[t].id \in Nat /\ loc[t].name \in Names /\ "" \in Names
      /\ UserName \subseteq Names /\ sessions_ \subseteq DOMAIN data_
      /\ users \in Seq(Names)
  BY DEF OwnerInv, HandlerInv, Names
<1>1. ASSUME NEW cookie, Logout(t, cookie) PROVE OwnerInv'
  <2>1. PICK s \in Session :
          /\ getSession(cookie, s)
          /\ \/ data_'[s].userId = 0 /\ UNCHANGED <<pc, loc>>
             \/ /\ data_'[s].userId # 0
                /\ Keep(t, [NoLocals EXCEPT !.session = s,
                                            !.id = data_'[s].userId])
                /\ Goto(t, "clear")
    BY <1>1, Zenon DEF Logout
  <2>2. pc[t] = "idle" /\ UNCHANGED <<users, expired, proved>>
    BY <1>1 DEF Logout
  <2>3. s # 0 /\ data_'[s].userId \in Nat
    BY <2>1, Gets, DataDomain DEF SessionData
  <2>4. CASE UNCHANGED <<pc, loc>>
    <3>1. /\ data_' \in Seq(SessionData)
          /\ DOMAIN data_ \subseteq DOMAIN data_'
          /\ \A r \in DOMAIN data_ : data_'[r] = data_[r]
          /\ \A r \in DOMAIN data_' : r \in DOMAIN data_ \/ data_'[r].userId = 0
          /\ sessions_' \subseteq DOMAIN data_'
      BY <2>1, Gets
    <3> QED  BY <2>2, <2>4, <3>1, SMTT(30) DEF OwnerInv, HandlerInv, ActsForOwner
  <2>5. CASE /\ Keep(t, [NoLocals EXCEPT !.session = s,
                                         !.id = data_'[s].userId])
             /\ Goto(t, "clear")
    BY <1>0, <2>1, <2>2, <2>3, <2>5, Enters, ZenonT(40)
  <2> QED  BY <2>1, <2>4, <2>5
<1>2. ASSUME NEW cookie, Menu(t, cookie) PROVE OwnerInv'
  <2>1. PICK s \in Session :
          getSession(cookie, s) /\ Keep(t, [NoLocals EXCEPT !.session = s])
    BY <1>2 DEF Menu
  <2>2. pc' = [pc EXCEPT ![t] = "menu"] /\ UNCHANGED <<users, expired, proved>>
    BY <1>2 DEF Menu
  <2> QED  BY <1>0, <2>1, <2>2, Enters
<1>3. ASSUME NEW name \in UserName, NEW cookie, Login(t, name, cookie) PROVE OwnerInv'
  BY <1>0, <1>3, Moves DEF Login
<1>4. ASSUME NEW name \in UserName, Register(t, name) PROVE OwnerInv'
  BY <1>0, <1>4, Moves DEF Register
<1>5. CASE getBackendData(t)
  BY <1>0, <1>5, Moves DEF getBackendData
<1> QED  BY <1>1, <1>2, <1>3, <1>4, <1>5 DEF Receive

(* The types behind a handler's step. *)
LEMMA OwnerFacts ==
    ASSUME OwnerInv, NEW t \in Thread
    PROVE  /\ loc = [u \in Thread |-> loc[u]] /\ pc = [u \in Thread |-> pc[u]]
           /\ loc[t].id \in Nat /\ loc[t].name \in Names /\ "" \in Names
           /\ UserName \subseteq Names /\ sessions_ \subseteq DOMAIN data_
           /\ users \in Seq(Names)
           /\ \A id \in DOMAIN users : id \in Nat
<1>1. /\ loc = [u \in Thread |-> loc[u]] /\ pc = [u \in Thread |-> pc[u]]
      /\ loc[t].id \in Nat /\ loc[t].name \in Names /\ "" \in Names
      /\ UserName \subseteq Names /\ sessions_ \subseteq DOMAIN data_
      /\ users \in Seq(Names)
  BY DEF OwnerInv, HandlerInv, Names
<1>2. DOMAIN users = 1 .. Len(users) /\ Len(users) \in Nat
  BY <1>1, SeqFacts
<1>3. \A id \in DOMAIN users : id \in Nat
  BY <1>2
<1> QED  BY <1>1, <1>3

(* LoginHandler goes on: ids and sessions come from the row found. *)
LEMMA OwnerLogin ==
    ASSUME OwnerInv, NEW t \in Thread,
           \/ \E right \in BOOLEAN : queryUserId(t, right)
           \/ LoginWrong(t) \/ LoginSession(t) \/ LoginStore(t) \/ LoginOnline(t)
           \/ LoginMark(t) \/ updateMaxOnline(t)
    PROVE  OwnerInv'
<1> USE DEF Keep, Goto, Done, Query, At, NoLocals, OnlyOf
<1>1. ASSUME NEW right \in BOOLEAN, queryUserId(t, right) PROVE OwnerInv'
  <2>1. CASE Keep(t, NoLocals)
    BY OwnerFacts, <1>1, <2>1, Moves, Zenon DEF queryUserId
  <2>2. ASSUME NEW id \in DOMAIN users, right,
               Keep(t, [NoLocals EXCEPT !.cookie = loc[t].cookie, !.id = id,
                                        !.right = right])
        PROVE OwnerInv'
    BY OwnerFacts, <1>1, <2>2, Moves, ZenonT(40) DEF queryUserId
  <2> QED  BY <1>1, <2>1, <2>2, Zenon DEF queryUserId
<1>2. CASE LoginWrong(t)
  BY OwnerFacts, <1>2, Moves, Zenon DEF LoginWrong
<1>3. CASE LoginSession(t)
  <2>1. PICK s \in Session :
          /\ getSession(loc[t].cookie, s)
          /\ proved' = IF loc[t].right THEN proved \cup {<<loc[t].id, s>>}
                                       ELSE proved
          /\ Keep(t, [NoLocals EXCEPT !.id = loc[t].id, !.session = s])
          /\ Goto(t, "userId")
    BY <1>3, Zenon DEF LoginSession
  <2>2. loc[t].right /\ UNCHANGED <<users, expired>>
    BY <1>3, Zenon DEF LoginSession, OwnerInv, HandlerInv
  <2>3. s # 0
    BY <2>1, Gets
  <2> QED  BY OwnerFacts, <2>1, <2>2, <2>3, Enters
<1>4. CASE LoginStore(t)
  <2> DEFINE s == loc[t].session
  <2>1. /\ s \in DOMAIN data_ /\ data_[s] \in SessionData
        /\ data_[s].userId # 0 => <<data_[s].userId, s>> \in proved
        /\ pc[t] = "userId" => <<loc[t].id, s>> \in proved
        /\ UNCHANGED <<users, expired, proved, loc>>
    BY <1>4, DataDomain DEF LoginStore, OwnerInv, HandlerInv, ActsForOwner
  <2>2. s # 0
    BY <2>1, DataDomain, SMTT(30) DEF OwnerInv, HandlerInv
  <2>3. CASE At(t, "userId")
    <3>1. /\ data_' = [data_ EXCEPT ![s] = [data_[s] EXCEPT !.userId = loc[t].id]]
          /\ sessions_' = sessions_ \cup {s} /\ Goto(t, "isLoggedIn")
      BY <1>4, <2>3 DEF LoginStore, setValue
    <3>2. /\ [data_[s] EXCEPT !.userId = loc[t].id] \in SessionData
          /\ [data_[s] EXCEPT !.userId = loc[t].id].userId = loc[t].id
      BY OwnerFacts, <2>1 DEF SessionData
    <3> QED  BY OwnerFacts, <2>1, <2>2, <2>3, <3>1, <3>2, Stores
  <2>4. CASE At(t, "isLoggedIn")
    <3>1. /\ data_' = [data_ EXCEPT ![s] = [data_[s] EXCEPT !.isLoggedIn = TRUE]]
          /\ sessions_' = sessions_ \cup {s} /\ Goto(t, "online")
      BY <1>4, <2>4 DEF LoginStore, setValue
    <3>2. /\ [data_[s] EXCEPT !.isLoggedIn = TRUE] \in SessionData
          /\ [data_[s] EXCEPT !.isLoggedIn = TRUE].userId = data_[s].userId
      BY <2>1, ZenonT(40) DEF SessionData
    <3> QED  BY OwnerFacts, <2>1, <2>2, <2>4, <3>1, <3>2, Stores
  <2> QED  BY <1>4, <2>3, <2>4 DEF LoginStore
<1>5. CASE LoginOnline(t)
  <2>1. CASE Done(t)
    BY OwnerFacts, <1>5, <2>1, Moves, ZenonT(40) DEF LoginOnline
  <2>2. CASE Goto(t, "mark") /\ UNCHANGED loc
    BY OwnerFacts, <1>5, <2>2, Moves, ZenonT(40) DEF LoginOnline
  <2> QED  BY <1>5, <2>1, <2>2, ZenonT(40) DEF LoginOnline
<1>6. CASE LoginMark(t)
  BY OwnerFacts, <1>6, Moves, Zenon DEF LoginMark
<1>7. CASE updateMaxOnline(t)
  <2> DEFINE m == Most(maxOnline_, Cardinality(onlineUsers_))
  <2> HIDE DEF m
  <2>1. CASE Keep(t, [NoLocals EXCEPT !.max = m]) /\ Goto(t, "storeMax")
    BY OwnerFacts, <1>7, <2>1, Moves DEF updateMaxOnline
  <2>2. CASE Done(t)
    BY OwnerFacts, <1>7, <2>2, Moves DEF updateMaxOnline
  <2> QED  BY <1>7, <2>1, <2>2 DEF updateMaxOnline, m
<1> QED  BY <1>1, <1>2, <1>3, <1>4, <1>5, <1>6, <1>7

(* LogoutHandler and MenuHandler go on. *)
LEMMA OwnerLogout ==
    ASSUME OwnerInv, NEW t \in Thread,
           \/ \E parses \in BOOLEAN : LogoutClear(t, parses)
           \/ LogoutOffline(t) \/ MenuPage(t)
    PROVE  OwnerInv'
<1> USE DEF Keep, Goto, Done, Query, At, NoLocals, OnlyOf
<1>1. ASSUME NEW parses \in BOOLEAN, LogoutClear(t, parses) PROVE OwnerInv'
  <2>1. loc[t].session \in DOMAIN data_
    BY <1>1 DEF LogoutClear, OwnerInv, HandlerInv
  <2>2. Fresh \in SessionData /\ Fresh.userId = 0
    BY DEF Fresh, SessionData
  <2>3. /\ data_' = [data_ EXCEPT ![loc[t].session] = Fresh]
        /\ sessions_' \subseteq DOMAIN data_
        /\ UNCHANGED <<users, expired, proved>>
        /\ \/ /\ Keep(t, [NoLocals EXCEPT !.id = loc[t].id])
              /\ Goto(t, "offline")
           \/ Done(t)
    BY OwnerFacts, <1>1 DEF LogoutClear, destroySession
  <2>4. CASE Done(t)
    BY OwnerFacts, <2>1, <2>2, <2>3, <2>4, Stores
  <2>5. CASE /\ Keep(t, [NoLocals EXCEPT !.id = loc[t].id])
             /\ Goto(t, "offline")
    BY OwnerFacts, <2>1, <2>2, <2>3, <2>5, Stores
  <2> QED  BY <2>3, <2>4, <2>5
<1>2. CASE LogoutOffline(t)
  BY OwnerFacts, <1>2, Moves, ZenonT(40) DEF LogoutOffline
<1>3. CASE MenuPage(t)
  BY OwnerFacts, <1>3, Moves, Zenon DEF MenuPage
<1> QED  BY <1>1, <1>2, <1>3

(* RegisterHandler and the statistics page go on, or a statement fails. *)
LEMMA OwnerRegister ==
    ASSUME OwnerInv, NEW t \in Thread,
           \/ isUserExist(t) \/ insertUser(t) \/ executeUpdate(t) \/ executeQuery(t)
           \/ Fails(t)
    PROVE  OwnerInv'
<1> USE DEF Keep, Goto, Done, Query, At, NoLocals, OnlyOf
<1>1. CASE isUserExist(t)
  <2>1. CASE Keep(t, NoLocals)
    BY OwnerFacts, <1>1, <2>1, Moves, ZenonT(40) DEF isUserExist
  <2>2. CASE UNCHANGED loc
    BY OwnerFacts, <1>1, <2>2, Moves, ZenonT(40) DEF isUserExist
  <2> QED  BY <1>1, <2>1, <2>2, ZenonT(40) DEF isUserExist
<1>2. CASE insertUser(t)
  <2>1. CASE Query(t, "insert") /\ UNCHANGED loc
    BY OwnerFacts, <1>2, <2>1, Moves, ZenonT(40) DEF insertUser
  <2>2. CASE Query(t, "select") /\ Keep(t, NoLocals)
    BY OwnerFacts, <1>2, <2>2, Moves, ZenonT(40) DEF insertUser
  <2>3. CASE Done(t)
    BY OwnerFacts, <1>2, <2>3, Moves, ZenonT(40) DEF insertUser
  <2> QED  BY <1>2, <2>1, <2>2, <2>3, ZenonT(40) DEF insertUser
<1>3. CASE executeUpdate(t)
  <2>1. users' \in Seq(Names)
    <3>1. Append(users, loc[t].name) \in Seq(Names)
      BY OwnerFacts, SeqFacts
    <3> QED  BY OwnerFacts, <1>3, <3>1 DEF executeUpdate
  <2> QED  BY OwnerFacts, <1>3, <2>1, Moves, ZenonT(40) DEF executeUpdate
<1>4. CASE executeQuery(t)
  BY OwnerFacts, <1>4, Moves, ZenonT(40) DEF executeQuery
<1>5. CASE Fails(t)
  BY OwnerFacts, <1>5, Moves, Zenon DEF Fails
<1> QED  BY <1>1, <1>2, <1>3, <1>4, <1>5

(* A handler goes on. *)
LEMMA OwnerHandle ==
    ASSUME OwnerInv, NEW t \in Thread, Handle(t)
    PROVE  OwnerInv'
  BY OwnerLogin, OwnerLogout, OwnerRegister DEF Handle

(* Every step keeps the invariant. *)
LEMMA OwnerStep == OwnerInv /\ [Next]_vars => OwnerInv'
<1> SUFFICES ASSUME OwnerInv, [Next]_vars PROVE OwnerInv'
  OBVIOUS
<1>1. ASSUME NEW s \in Session, Expire(s) PROVE OwnerInv'
  BY <1>1 DEF Expire, OwnerInv, HandlerInv, ActsForOwner
<1>2. CASE UNCHANGED webVars
  BY <1>2, Zenon DEF webVars, OwnerInv, HandlerInv, ActsForOwner
<1> QED  BY <1>1, <1>2, OwnerReceive, OwnerHandle DEF Next, vars

(* Login, logout, menu and registration may race on any number of threads, *)
(* sessions may expire and statements may fail: a session never has a user *)
(* whose password did not come with it, and no handler works on an expired *)
(* session.                                                                *)
THEOREM OwnerCorrect == Spec => []ActsForOwner
<1>1. OwnerInv => ActsForOwner
  BY DEF OwnerInv
<1> QED  BY OwnerInit, OwnerStep, <1>1, PTL DEF Spec

(* What the handlers do to the pool are steps of the pool, so a connection *)
(* is in one place under all of them.                                      *)
LEMMA UsesPool == [Next]_vars => [PoolNext]_poolVars
<1> SUFFICES ASSUME [Next]_vars PROVE [PoolNext]_poolVars
  OBVIOUS
<1>1. ASSUME NEW t \in Thread, Receive(t) PROVE [PoolNext]_poolVars
  BY <1>1, Zenon DEF Receive, Logout, Menu, Login, Register, getBackendData, At,
              Query, PoolNext
<1>2. ASSUME NEW t \in Thread, Handle(t) PROVE [PoolNext]_poolVars
  <2>1. CASE \/ \E right \in BOOLEAN : queryUserId(t, right)
             \/ isUserExist(t) \/ executeUpdate(t) \/ executeQuery(t)
             \/ Fails(t) \/ insertUser(t)
    BY <2>1, Zenon DEF queryUserId, isUserExist, executeUpdate, executeQuery, Fails,
                insertUser, Query, PoolNext
  <2>2. CASE \/ LoginWrong(t) \/ LoginSession(t) \/ LoginStore(t)
             \/ LoginOnline(t) \/ LoginMark(t) \/ updateMaxOnline(t)
             \/ \E parses \in BOOLEAN : LogoutClear(t, parses)
             \/ LogoutOffline(t) \/ MenuPage(t)
    BY <2>2, Zenon DEF LoginWrong, LoginSession, LoginStore, LoginOnline, LoginMark,
                updateMaxOnline, LogoutClear, LogoutOffline, MenuPage, At
  <2> QED  BY <1>2, <2>1, <2>2 DEF Handle
<1> QED  BY <1>1, <1>2, Zenon DEF Next, PoolNext, Expire, vars

(* The handlers of the server keep the contract of the connection pool:    *)
(* every connection stays in one place while they run.                     *)
THEOREM HandlersKeepConns == Spec => []ConnInOnePlace
<1>1. Init => PoolInv
  BY PoolInitial, Zenon DEF Init
<1>2. PoolInv /\ [Next]_vars => PoolInv'
  BY UsesPool, PoolStep
<1>3. PoolInv => ConnInOnePlace
  BY DEF PoolInv
<1> QED  BY <1>1, <1>2, <1>3, PTL DEF Spec

=============================================================================
