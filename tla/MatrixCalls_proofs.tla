------------------------- MODULE MatrixCalls_proofs -------------------------
(***************************************************************************)
(* The flags of a matrix are sound after any number of calls, for all      *)
(* integer elements and arguments: an object is never said to be of a      *)
(* simpler type than it is.  Its elements are those the calls' comments    *)
(* promise, it maps points and rectangles where its elements say, and its  *)
(* inverse is one, whichever way the flags choose to compute it.           *)
(***************************************************************************)
EXTENDS MatrixCalls, TLAPS

\* The invariant: the flags are sound, of an object of its type.
Sound(o) ==
  /\ o \in [m : Elements, flagBits : SUBSET Flags]
  /\ o.flagBits \in FlagSets
  /\ ShapeOf(o)

-----------------------------------------------------------------------------
\* A matrix of no special type promises nothing.
LEMMA GeneralSound ==
  ASSUME NEW m \in Elements
  PROVE  Sound(general(m))
<1>1. general(m).m = m /\ general(m).flagBits = {"General"}
  BY DEF general, Object
<1>2. general(m) \in [m : Elements, flagBits : SUBSET Flags]
  BY DEF general, Object, Flags
<1>. QED
  BY <1>1, <1>2 DEF Sound, ShapeOf, FlagSets

LEMMA IdentitySound ==
  Sound(identity)
<1>1. IdentityM \in Elements
  BY DEF IdentityM, Elements, Ix
<1>2. identity.m = IdentityM /\ identity.flagBits = {"Identity"}
  BY DEF identity, Object
<1>3. identity \in [m : Elements, flagBits : SUBSET Flags]
  BY <1>1 DEF identity, Object, Flags
<1>4. ShapeOf(identity)
  BY <1>2 DEF ShapeOf, IdentityM, Ix, Diagonal3, Ones, NotMoved, AffineRow
<1>. QED
  BY <1>2, <1>3, <1>4 DEF Sound, FlagSets


\* The arguments that are objects.
LEMMA OperandElements ==
  ASSUME NEW o, Sound(o)
  PROVE  /\ o.m \in Elements
         /\ \A c, r \in Ix : o.m[c][r] \in Int
  BY DEF Sound, Elements

\* A quotient of integers is one.
LEMMA OverInteger ==
  ASSUME NEW a \in Int, NEW d \in Int, d # 0
  PROVE  Over(a, d) \in Int
<1>1. CASE d < 0
  <2>1. -d \in Nat /\ -d > 0 /\ -a \in Int
    BY <1>1
  <2>2. \A x \in Int, y \in Nat : y > 0 => x \div y \in Int
    OBVIOUS
  <2>. QED BY <1>1, <2>1, <2>2 DEF Over
<1>2. CASE ~(d < 0)
  <2>1. d \in Nat /\ d > 0
    BY <1>2
  <2>2. \A x \in Int, y \in Nat : y > 0 => x \div y \in Int
    OBVIOUS
  <2>. QED BY <1>2, <2>1, <2>2 DEF Over
<1>. QED
  BY <1>1, <1>2

-----------------------------------------------------------------------------
(* One lemma for each operation. *)

\* Calls that write or combine elements make general matrices.
LEMMA ElementCallsSound ==
  ASSUME NEW o, Sound(o), NEW x, Sound(x), NEW n \in Int
  PROVE  /\ Sound(fill(n))
         /\ Sound(plus(o, x)) /\ Sound(minus(o, x))
         /\ Sound(timesNumber(o, n)) /\ Sound(negated(o))
         /\ n # 0 => Sound(dividedBy(o, n))
         /\ Sound(transposed(o))
<1>1. /\ \A c, r \in Ix : o.m[c][r] \in Int
      /\ \A c, r \in Ix : x.m[c][r] \in Int
  BY OperandElements
<1>2. [c \in Ix |-> [r \in Ix |-> n]] \in Elements
  BY DEF Elements
<1>3. [c \in Ix |-> [r \in Ix |-> o.m[c][r] + x.m[c][r]]] \in Elements
  BY <1>1 DEF Elements
<1>4. [c \in Ix |-> [r \in Ix |-> o.m[c][r] - x.m[c][r]]] \in Elements
  BY <1>1 DEF Elements
<1>5. [c \in Ix |-> [r \in Ix |-> o.m[c][r] * n]] \in Elements
  BY <1>1 DEF Elements
<1>6. [c \in Ix |-> [r \in Ix |-> -o.m[c][r]]] \in Elements
  BY <1>1 DEF Elements
<1>7. n # 0 => [c \in Ix |-> [r \in Ix |-> Over(o.m[c][r], n)]] \in Elements
  BY <1>1, OverInteger DEF Elements
<1>8. [c \in Ix |-> [r \in Ix |-> o.m[r][c]]] \in Elements
  BY <1>1 DEF Elements
<1>. QED
  BY <1>2, <1>3, <1>4, <1>5, <1>6, <1>7, <1>8, GeneralSound
     DEF fill, plus, minus, timesNumber, negated, dividedBy, transposed

LEMMA WritesSound ==
  ASSUME NEW o, Sound(o), NEW c \in Ix, NEW r \in Ix, NEW n \in Int,
         NEW v \in [1..4 -> Int]
  PROVE  /\ Sound(setElement(o, r, c, n))
         /\ Sound(setColumn(o, c, v)) /\ Sound(setRow(o, r, v))
<1>1. o.m \in [Ix -> [Ix -> Int]]
  BY OperandElements DEF Elements
<1>2. [o.m EXCEPT ![c][r] = n] \in Elements
  BY <1>1 DEF Elements
<1>3. \A k \in Ix : v[k + 1] \in Int
  BY DEF Ix
<1>4. [o.m EXCEPT ![c] = [k \in Ix |-> v[k + 1]]] \in Elements
  BY <1>1, <1>3 DEF Elements
<1>5. [d \in Ix |-> [o.m[d] EXCEPT ![r] = v[d + 1]]] \in Elements
  BY <1>1, <1>3 DEF Elements
<1>. QED
  BY <1>2, <1>4, <1>5, GeneralSound DEF setElement, setColumn, setRow

LEMMA TimesElements ==
  ASSUME NEW a \in Elements, NEW b \in Elements
  PROVE  Times(a, b) \in Elements
<1>1. \A c, r \in Ix : a[c][r] \in Int /\ b[c][r] \in Int
  BY DEF Elements
<1>2. \A c, r \in Ix :
        a[0][r] * b[c][0] + a[1][r] * b[c][1] + a[2][r] * b[c][2] + a[3][r] * b[c][3] \in Int
  <2>. SUFFICES ASSUME NEW c \in Ix, NEW r \in Ix
       PROVE a[0][r] * b[c][0] + a[1][r] * b[c][1] + a[2][r] * b[c][2] + a[3][r] * b[c][3] \in Int
    OBVIOUS
  <2>1. /\ a[0][r] \in Int /\ a[1][r] \in Int /\ a[2][r] \in Int /\ a[3][r] \in Int
        /\ b[c][0] \in Int /\ b[c][1] \in Int /\ b[c][2] \in Int /\ b[c][3] \in Int
    BY <1>1 DEF Ix
  <2>. QED BY <2>1
<1>. QED
  BY <1>2 DEF Times, Elements

\* A product with the identity is the other factor, flags and all.
LEMMA ProductSound ==
  ASSUME NEW o, Sound(o), NEW x, Sound(x)
  PROVE  Sound(product(o, x)) /\ Sound(multiplyBy(o, x))
<1>1. Sound(general(Times(o.m, x.m)))
  BY OperandElements, TimesElements, GeneralSound
<1>. QED
  BY <1>1 DEF product, multiplyBy

LEMMA ScaleSound ==
  ASSUME NEW o, Sound(o), NEW v \in Vector
  PROVE  Sound(scale(o, v))
<1>1. /\ o.m \in [Ix -> [Ix -> Int]] /\ o.flagBits \in FlagSets /\ ShapeOf(o)
      /\ \A c, r \in Ix : o.m[c][r] \in Int
      /\ v[1] \in Int /\ v[2] \in Int /\ v[3] \in Int
  BY OperandElements DEF Elements, Sound, Vector
<1>2. CASE o.flagBits \in {{"Identity"}, {"Translation"}}
  <2> DEFINE m == [o.m EXCEPT ![0][0] = v[1], ![1][1] = v[2], ![2][2] = v[3]]
             f == (o.flagBits \ {"Identity"}) \cup {"Scale"}
  <2>1. m \in Elements
    BY <1>1 DEF Elements, Ix
  <2>2. f = IF o.flagBits = {"Identity"} THEN {"Scale"} ELSE {"Scale", "Translation"}
    BY <1>2
  <2>3. Diagonal3(m) /\ AffineRow(m) /\ (o.flagBits = {"Identity"} => NotMoved(m))
    BY <1>1, <1>2 DEF ShapeOf, Diagonal3, AffineRow, NotMoved, Ix
  <2>4. scale(o, v) = Object(m, f)
    BY <1>2 DEF scale
  <2>5. ShapeOf(Object(m, f)) /\ f \in FlagSets /\ f \subseteq Flags
    BY <2>2, <2>3, <1>2 DEF ShapeOf, Object, FlagSets, Flags
  <2>. QED BY <2>1, <2>4, <2>5 DEF Sound, Object
<1>3. CASE o.flagBits \in {{"Scale"}, {"Scale", "Translation"}}
  <2> DEFINE m == [o.m EXCEPT ![0][0] = @ * v[1], ![1][1] = @ * v[2], ![2][2] = @ * v[3]]
  <2>1. m \in Elements
    BY <1>1 DEF Elements, Ix
  <2>2. Diagonal3(m) /\ AffineRow(m) /\ (o.flagBits = {"Scale"} => NotMoved(m))
    BY <1>1, <1>3 DEF ShapeOf, Diagonal3, AffineRow, NotMoved, Ix
  <2>3. scale(o, v) = Object(m, o.flagBits)
    BY <1>3 DEF scale
  <2>4. ShapeOf(Object(m, o.flagBits)) /\ o.flagBits \in FlagSets /\ o.flagBits \subseteq Flags
    BY <2>2, <1>3 DEF ShapeOf, Object, FlagSets, Flags
  <2>. QED BY <2>1, <2>3, <2>4 DEF Sound, Object
<1>4. CASE o.flagBits \notin {{"Identity"}, {"Translation"}, {"Scale"}, {"Scale", "Translation"}}
  <2>1. ScaledColumns(o.m, v) \in Elements
    <3>1. \A c \in Ix : c # 3 => v[c + 1] \in Int
      BY <1>1 DEF Ix
    <3>. QED BY <1>1, <3>1 DEF ScaledColumns, Elements
  <2>. QED BY <1>4, <2>1, GeneralSound DEF scale
<1>. QED
  BY <1>2, <1>3, <1>4

\* A matrix is moved by its first three columns; the last row stays 0, 0, 0, 1.
LEMMA MovedColumn ==
  ASSUME NEW m \in Elements, NEW v \in Vector
  PROVE  /\ Moved(m, v) \in Elements
         /\ AffineRow(m) => AffineRow(Moved(m, v))
<1>1. /\ \A c, r \in Ix : m[c][r] \in Int
      /\ m \in [Ix -> [Ix -> Int]]
      /\ v[1] \in Int /\ v[2] \in Int /\ v[3] \in Int
  BY DEF Elements, Vector
<1>2. \A r \in Ix : m[3][r] + m[0][r] * v[1] + m[1][r] * v[2] + m[2][r] * v[3] \in Int
  BY <1>1 DEF Ix
<1>3. Moved(m, v) \in Elements
  BY <1>1, <1>2 DEF Moved, Elements
<1>4. ASSUME AffineRow(m) PROVE AffineRow(Moved(m, v))
  <2>1. \A c \in 0..2 : Moved(m, v)[c] = m[c]
    BY <1>1 DEF Moved, Ix
  <2>2. Moved(m, v)[3][3] = m[3][3] + m[0][3] * v[1] + m[1][3] * v[2] + m[2][3] * v[3]
    BY <1>1 DEF Moved, Ix
  <2>3. m[3][3] + m[0][3] * v[1] + m[1][3] * v[2] + m[2][3] * v[3] = 1
    BY <1>1, <1>4 DEF AffineRow
  <2>. QED BY <2>1, <2>2, <2>3, <1>4 DEF AffineRow
<1>. QED
  BY <1>3, <1>4

\* The matrices of the quick paths of translate() and flipCoordinates().
MovedTo(m, x, y, z) == [m EXCEPT ![3][0] = x, ![3][1] = y, ![3][2] = z]
FlippedTo(m, x, y) == [m EXCEPT ![1][1] = x, ![2][2] = y]

LEMMA MovedToSound ==
  ASSUME NEW o, Sound(o), NEW x \in Int, NEW y \in Int, NEW z \in Int
  PROVE  /\ o.flagBits \in {{"Identity"}, {"Translation"}}
              => Sound(Object(MovedTo(o.m, x, y, z), {"Translation"}))
         /\ o.flagBits \in {{"Scale"}, {"Scale", "Translation"}}
              => Sound(Object(MovedTo(o.m, x, y, z), {"Scale", "Translation"}))
<1> DEFINE m == MovedTo(o.m, x, y, z)
<1>1. o.m \in [Ix -> [Ix -> Int]] /\ ShapeOf(o)
  BY DEF Sound, Elements
<1>2. m \in Elements
  BY <1>1 DEF MovedTo, Elements, Ix
<1>3. /\ Diagonal3(o.m) => Diagonal3(m)
      /\ AffineRow(o.m) => AffineRow(m)
      /\ Ones(o.m) => Ones(m)
  BY <1>1 DEF MovedTo, Diagonal3, AffineRow, Ones, Ix
<1>4. ASSUME o.flagBits \in {{"Identity"}, {"Translation"}}
      PROVE  Sound(Object(m, {"Translation"}))
  <2>1. Diagonal3(m) /\ AffineRow(m) /\ Ones(m)
    BY <1>1, <1>3, <1>4 DEF ShapeOf
  <2>. HIDE DEF m
  <2>. QED BY <2>1, <1>2 DEF Sound, ShapeOf, Object, FlagSets, Flags
<1>5. ASSUME o.flagBits \in {{"Scale"}, {"Scale", "Translation"}}
      PROVE  Sound(Object(m, {"Scale", "Translation"}))
  <2>1. Diagonal3(m) /\ AffineRow(m)
    BY <1>1, <1>3, <1>5 DEF ShapeOf
  <2>. HIDE DEF m
  <2>. QED BY <2>1, <1>2 DEF Sound, ShapeOf, Object, FlagSets, Flags
<1>. QED
  BY <1>4, <1>5

LEMMA FlippedToSound ==
  ASSUME NEW o, Sound(o), NEW x \in Int, NEW y \in Int
  PROVE  /\ o.flagBits \in {{"Identity"}, {"Scale"}}
              => Sound(Object(FlippedTo(o.m, x, y), {"Scale"}))
         /\ o.flagBits \in {{"Translation"}, {"Scale", "Translation"}}
              => Sound(Object(FlippedTo(o.m, x, y), {"Scale", "Translation"}))
<1> DEFINE m == FlippedTo(o.m, x, y)
<1>1. o.m \in [Ix -> [Ix -> Int]] /\ ShapeOf(o)
  BY DEF Sound, Elements
<1>2. m \in Elements
  BY <1>1 DEF FlippedTo, Elements, Ix
<1>3. /\ Diagonal3(o.m) => Diagonal3(m)
      /\ AffineRow(o.m) => AffineRow(m)
      /\ NotMoved(o.m) => NotMoved(m)
  BY <1>1 DEF FlippedTo, Diagonal3, AffineRow, NotMoved, Ix
<1>4. ASSUME o.flagBits \in {{"Identity"}, {"Scale"}}
      PROVE  Sound(Object(m, {"Scale"}))
  <2>1. Diagonal3(m) /\ AffineRow(m) /\ NotMoved(m)
    BY <1>1, <1>3, <1>4 DEF ShapeOf
  <2>. HIDE DEF m
  <2>. QED BY <2>1, <1>2 DEF Sound, ShapeOf, Object, FlagSets, Flags
<1>5. ASSUME o.flagBits \in {{"Translation"}, {"Scale", "Translation"}}
      PROVE  Sound(Object(m, {"Scale", "Translation"}))
  <2>1. Diagonal3(m) /\ AffineRow(m)
    BY <1>1, <1>3, <1>5 DEF ShapeOf
  <2>. HIDE DEF m
  <2>. QED BY <2>1, <1>2 DEF Sound, ShapeOf, Object, FlagSets, Flags
<1>. QED
  BY <1>4, <1>5

LEMMA TranslateSound ==
  ASSUME NEW o, Sound(o), NEW v \in Vector
  PROVE  Sound(translate(o, v))
<1>1. /\ o.m \in [Ix -> [Ix -> Int]] /\ ShapeOf(o)
      /\ \A c, r \in Ix : o.m[c][r] \in Int
      /\ v[1] \in Int /\ v[2] \in Int /\ v[3] \in Int
  BY OperandElements DEF Elements, Sound, Vector
<1>2. CASE o.flagBits = {"Identity"}
  <2> DEFINE x == v[1]
             y == v[2]
             z == v[3]
  <2>1. translate(o, v) = Object(MovedTo(o.m, x, y, z), {"Translation"})
    BY <1>2 DEF translate, Is, MovedTo
  <2>2. x \in Int /\ y \in Int /\ z \in Int
    BY <1>1
  <2>. HIDE DEF x, y, z
  <2>. QED BY <1>2, <2>1, <2>2, MovedToSound
<1>3. CASE o.flagBits = {"Translation"}
  <2> DEFINE x == o.m[3][0] + v[1]
             y == o.m[3][1] + v[2]
             z == o.m[3][2] + v[3]
  <2>1. translate(o, v) = Object(MovedTo(o.m, x, y, z), {"Translation"})
    <3>1. [o.m EXCEPT ![3][0] = @ + v[1], ![3][1] = @ + v[2], ![3][2] = @ + v[3]]
            = MovedTo(o.m, x, y, z)
      BY <1>1 DEF MovedTo, Ix
    <3>2. /\ Is(o, {"Translation"}) /\ ~Is(o, {"Identity"}) /\ ~Is(o, {"Scale"})
          /\ ~Is(o, {"Scale", "Translation"})
      BY <1>3 DEF Is
    <3>3. translate(o, v) = Object([o.m EXCEPT ![3][0] = @ + v[1], ![3][1] = @ + v[2],
                                               ![3][2] = @ + v[3]], o.flagBits)
      BY <3>2 DEF translate
    <3>. QED BY <1>3, <3>1, <3>3
  <2>2. x \in Int /\ y \in Int /\ z \in Int
    BY <1>1 DEF Ix
  <2>. HIDE DEF x, y, z
  <2>. QED BY <1>3, <2>1, <2>2, MovedToSound
<1>4. CASE o.flagBits = {"Scale"}
  <2> DEFINE x == o.m[0][0] * v[1]
             y == o.m[1][1] * v[2]
             z == o.m[2][2] * v[3]
  <2>1. translate(o, v) = Object(MovedTo(o.m, x, y, z), {"Scale", "Translation"})
    BY <1>4 DEF translate, Is, MovedTo
  <2>2. x \in Int /\ y \in Int /\ z \in Int
    BY <1>1 DEF Ix
  <2>. HIDE DEF x, y, z
  <2>. QED BY <1>4, <2>1, <2>2, MovedToSound
<1>5. CASE o.flagBits = {"Scale", "Translation"}
  <2> DEFINE x == o.m[3][0] + o.m[0][0] * v[1]
             y == o.m[3][1] + o.m[1][1] * v[2]
             z == o.m[3][2] + o.m[2][2] * v[3]
  <2>1. translate(o, v) = Object(MovedTo(o.m, x, y, z), {"Scale", "Translation"})
    <3>1. [o.m EXCEPT ![3][0] = @ + o.m[0][0] * v[1], ![3][1] = @ + o.m[1][1] * v[2],
                      ![3][2] = @ + o.m[2][2] * v[3]]
            = MovedTo(o.m, x, y, z)
      BY <1>1 DEF MovedTo, Ix
    <3>2. /\ {"Scale", "Translation"} # {"Identity"} /\ {"Scale", "Translation"} # {"Translation"}
          /\ {"Scale", "Translation"} # {"Scale"}
      OBVIOUS
    <3>. QED BY <1>5, <3>1, <3>2 DEF translate, Is
  <2>2. x \in Int /\ y \in Int /\ z \in Int
    BY <1>1 DEF Ix
  <2>. HIDE DEF x, y, z
  <2>. QED BY <1>5, <2>1, <2>2, MovedToSound
<1>6. CASE o.flagBits \notin {{"Identity"}, {"Translation"}, {"Scale"}, {"Scale", "Translation"}}
  <2> DEFINE f == IF o.flagBits \in {{"Rotation"}, {"Rotation", "Translation"}}
                    THEN {"Rotation", "Translation"} ELSE {"General"}
  <2>1. translate(o, v) = Object(Moved(o.m, v), f)
    BY <1>6 DEF translate, Is
  <2>2. /\ Moved(o.m, v) \in Elements
        /\ AffineRow(o.m) => AffineRow(Moved(o.m, v))
    BY <1>1, MovedColumn DEF Elements
  <2>3. "General" \notin f => AffineRow(o.m)
    BY <1>1 DEF ShapeOf
  <2>4. ShapeOf(Object(Moved(o.m, v), f)) /\ f \in FlagSets /\ f \subseteq Flags
    BY <2>2, <2>3 DEF ShapeOf, Object, FlagSets, Flags
  <2>. QED BY <2>1, <2>2, <2>4 DEF Sound, Object
<1>. QED
  BY <1>2, <1>3, <1>4, <1>5, <1>6

LEMMA FlipSound ==
  ASSUME NEW o, Sound(o)
  PROVE  Sound(flipCoordinates(o))
<1>1. /\ o.m \in [Ix -> [Ix -> Int]]
      /\ \A c, r \in Ix : o.m[c][r] \in Int
  BY OperandElements DEF Elements
<1> DEFINE x == -o.m[1][1]
           y == -o.m[2][2]
<1>2. x \in Int /\ y \in Int
  BY <1>1 DEF Ix
<1>3. [o.m EXCEPT ![1][1] = -@, ![2][2] = -@] = FlippedTo(o.m, x, y)
  BY <1>1 DEF FlippedTo, Ix
<1>4. CASE o.flagBits \in {{"Scale"}, {"Scale", "Translation"}}
  <2>1. flipCoordinates(o) = Object(FlippedTo(o.m, x, y), o.flagBits)
    <3>1. CASE o.flagBits = {"Scale"}
      BY <3>1, <1>3 DEF flipCoordinates, Is
    <3>2. CASE o.flagBits = {"Scale", "Translation"}
      BY <3>2, <1>3 DEF flipCoordinates, Is
    <3>. QED BY <1>4, <3>1, <3>2
  <2>. HIDE DEF x, y
  <2>. QED BY <1>2, <1>4, <2>1, FlippedToSound
<1>5. CASE o.flagBits = {"Translation"}
  <2>1. flipCoordinates(o) = Object(FlippedTo(o.m, x, y), {"Scale", "Translation"})
    BY <1>5, <1>3 DEF flipCoordinates, Is
  <2>. HIDE DEF x, y
  <2>. QED BY <1>2, <1>5, <2>1, FlippedToSound
<1>6. CASE o.flagBits = {"Identity"}
  <2>1. flipCoordinates(o) = Object(FlippedTo(o.m, -1, -1), {"Scale"})
    BY <1>6 DEF flipCoordinates, Is, FlippedTo
  <2>. QED BY <1>6, <2>1, FlippedToSound
<1>7. CASE o.flagBits \notin {{"Scale"}, {"Scale", "Translation"}, {"Translation"}, {"Identity"}}
  <2>1. [c \in Ix |-> [r \in Ix |-> IF c \in {1, 2} THEN -o.m[c][r] ELSE o.m[c][r]]] \in Elements
    BY <1>1 DEF Elements
  <2>. QED BY <1>7, <2>1, GeneralSound DEF flipCoordinates, Is
<1>. QED
  BY <1>4, <1>5, <1>6, <1>7

\* A matrix with nothing but its upper 3x3 part.
Pure(m) == m \in Elements /\ AffineRow(m) /\ NotMoved(m)

LEMMA AffinePure ==
  ASSUME NEW cs, \A c, r \in 1..3 : cs[c][r] \in Int
  PROVE  Pure(Affine(cs))
<1>1. \A c, r \in Ix : c < 3 /\ r < 3 => cs[c + 1][r + 1] \in Int
  BY DEF Ix
<1>2. Affine(cs) \in Elements
  BY <1>1 DEF Affine, Elements
<1>3. AffineRow(Affine(cs)) /\ NotMoved(Affine(cs))
  BY DEF Affine, AffineRow, NotMoved, Ix
<1>. QED
  BY <1>2, <1>3 DEF Pure

LEMMA Half ==
  ASSUME NEW n \in Int
  PROVE  n \div 2 \in Int
  BY SMT

LEMMA AxisRotationPure ==
  ASSUME NEW turn \in [axis : Vector, cos2 : Int, s2 : Int, k2 : Int], NEW n \in Int,
         NEW i \in 0..2, NEW j \in 0..2
  PROVE  Pure(AxisRotation(i, j, n, turn))
<1> DEFINE c == turn.cos2 \div 2
           s == Sine(turn, n)
           m == [IdentityM EXCEPT ![i][i] = c, ![j][j] = c,
                                  ![j][i] = IF n < 0 THEN s ELSE -s,
                                  ![i][j] = IF n < 0 THEN -s ELSE s]
<1>1. c \in Int
  BY Half
<1>2. s \in Int
  <2>1. (IF n < 0 THEN -n ELSE n) \in Int /\ turn.s2 \in Int
    OBVIOUS
  <2>2. turn.s2 * (IF n < 0 THEN -n ELSE n) \in Int
    BY <2>1
  <2>. QED BY <2>2, Half DEF Sine
<1>3. IdentityM \in [Ix -> [Ix -> Int]] /\ Pure(IdentityM)
  BY DEF IdentityM, Pure, Elements, AffineRow, NotMoved, Ix
<1>4. m \in Elements /\ AffineRow(m) /\ NotMoved(m)
  <2>. HIDE DEF c, s
  <2>. QED BY <1>1, <1>2, <1>3 DEF Pure, Elements, AffineRow, NotMoved, Ix
<1>. QED
  BY <1>4 DEF Pure, AxisRotation

LEMMA RotationPure ==
  ASSUME NEW turn \in [axis : Vector, cos2 : Int, s2 : Int, k2 : Int]
  PROVE  Pure(RotationM(turn))
<1> DEFINE x == turn.axis[1]
           y == turn.axis[2]
           z == turn.axis[3]
           Diag(n) == (n * n * turn.k2 + turn.cos2) \div 2
           Off(a, b, n) == (a * b * turn.k2 + n * turn.s2) \div 2
           cs == <<<<Diag(x), Off(y, x, z), Off(x, z, -y)>>,
                   <<Off(x, y, -z), Diag(y), Off(y, z, x)>>,
                   <<Off(x, z, y), Off(y, z, -x), Diag(z)>>>>
<1>1. x \in Int /\ y \in Int /\ z \in Int /\ -x \in Int /\ -y \in Int /\ -z \in Int
  BY DEF Vector
<1>2. \A n \in Int : Diag(n) \in Int
  <2>1. \A n \in Int : n * n * turn.k2 + turn.cos2 \in Int
    OBVIOUS
  <2>. QED BY <2>1, Half
<1>3. \A a, b, n \in Int : Off(a, b, n) \in Int
  <2>1. \A a, b, n \in Int : a * b * turn.k2 + n * turn.s2 \in Int
    OBVIOUS
  <2>. QED BY <2>1, Half
<1>4. Pure(Affine(cs))
  <2>1. \A c, r \in 1..3 : cs[c][r] \in Int
    <3>1. /\ Diag(x) \in Int /\ Diag(y) \in Int /\ Diag(z) \in Int
          /\ Off(y, x, z) \in Int /\ Off(x, z, -y) \in Int /\ Off(x, y, -z) \in Int
          /\ Off(y, z, x) \in Int /\ Off(x, z, y) \in Int /\ Off(y, z, -x) \in Int
      <4>. HIDE DEF Diag, Off, x, y, z
      <4>. QED BY <1>1, <1>2, <1>3
    <3>. HIDE DEF Diag, Off, x, y, z
    <3>. QED BY <3>1
  <2>. QED BY <2>1, AffinePure
<1>5. /\ Pure(AxisRotation(0, 1, z, turn)) /\ Pure(AxisRotation(2, 0, y, turn))
      /\ Pure(AxisRotation(1, 2, x, turn))
  <2>. HIDE DEF x, y, z
  <2>. QED BY <1>1, AxisRotationPure
<1>. QED
  BY <1>4, <1>5 DEF RotationM

LEMMA QuaternionPure ==
  ASSUME NEW h \in Int \X Int \X Int \X Int
  PROVE  Pure(QuaternionM(h))
<1> DEFINE x == h[1]
           y == h[2]
           z == h[3]
           w == h[4]
           Diag(a, b) == 1 - (a * a + b * b) \div 2
           Off(a, b) == (a + b) \div 2
           cs == <<<<Diag(y, z), Off(x * y, z * w), Off(x * z, -(y * w))>>,
                   <<Off(x * y, -(z * w)), Diag(x, z), Off(y * z, x * w)>>,
                   <<Off(x * z, y * w), Off(y * z, -(x * w)), Diag(x, y)>>>>
<1>1. x \in Int /\ y \in Int /\ z \in Int /\ w \in Int
  OBVIOUS
<1>2. \A a, b \in Int : Diag(a, b) \in Int
  <2>1. \A a, b \in Int : a * a + b * b \in Int
    OBVIOUS
  <2>2. \A a, b \in Int : (a * a + b * b) \div 2 \in Int
    BY <2>1, Half
  <2>. QED BY <2>2
<1>3. \A a, b \in Int : Off(a, b) \in Int
  BY Half
<1>4. /\ x * y \in Int /\ x * z \in Int /\ y * z \in Int
      /\ z * w \in Int /\ y * w \in Int /\ x * w \in Int
      /\ -(z * w) \in Int /\ -(y * w) \in Int /\ -(x * w) \in Int
  BY <1>1
<1>5. \A c, r \in 1..3 : cs[c][r] \in Int
  <2>1. /\ Off(x * y, z * w) \in Int /\ Off(x * z, -(y * w)) \in Int
        /\ Off(x * y, -(z * w)) \in Int /\ Off(y * z, x * w) \in Int
        /\ Off(x * z, y * w) \in Int /\ Off(y * z, -(x * w)) \in Int
        /\ Diag(y, z) \in Int /\ Diag(x, z) \in Int /\ Diag(x, y) \in Int
    BY <1>1, <1>2, <1>3, <1>4
  <2>. HIDE DEF Diag, Off, x, y, z, w
  <2>. QED BY <2>1
<1>. QED
  BY <1>5, AffinePure DEF QuaternionM

\* A turn before a matrix leaves the column it is moved by and its last row.
LEMMA TimesPure ==
  ASSUME NEW a \in Elements, NEW b, Pure(b)
  PROVE  /\ Times(a, b) \in Elements
         /\ AffineRow(a) => AffineRow(Times(a, b))
         /\ NotMoved(a) => NotMoved(Times(a, b))
<1>1. /\ \A c, r \in Ix : a[c][r] \in Int /\ b[c][r] \in Int
      /\ b \in Elements
      /\ b[3][0] = 0 /\ b[3][1] = 0 /\ b[3][2] = 0 /\ b[3][3] = 1
      /\ b[0][3] = 0 /\ b[1][3] = 0 /\ b[2][3] = 0
  BY DEF Pure, AffineRow, NotMoved, Elements
<1>2. \A r \in Ix : Times(a, b)[3][r] = a[3][r]
  <2>. SUFFICES ASSUME NEW r \in Ix PROVE Times(a, b)[3][r] = a[3][r]
    OBVIOUS
  <2>1. Times(a, b)[3][r]
          = a[0][r] * b[3][0] + a[1][r] * b[3][1] + a[2][r] * b[3][2] + a[3][r] * b[3][3]
    BY DEF Times, Ix
  <2>2. a[0][r] \in Int /\ a[1][r] \in Int /\ a[2][r] \in Int /\ a[3][r] \in Int
    BY <1>1 DEF Ix
  <2>. QED BY <2>1, <2>2, <1>1
<1>3. ASSUME AffineRow(a), NEW c \in 0..2 PROVE Times(a, b)[c][3] = 0
  <2>1. Times(a, b)[c][3]
          = a[0][3] * b[c][0] + a[1][3] * b[c][1] + a[2][3] * b[c][2] + a[3][3] * b[c][3]
    BY DEF Times, Ix
  <2>2. b[c][0] \in Int /\ b[c][1] \in Int /\ b[c][2] \in Int /\ b[c][3] = 0
    BY <1>1 DEF Ix
  <2>. QED BY <2>1, <2>2, <1>3 DEF AffineRow
<1>. QED
  BY <1>1, <1>2, <1>3, TimesElements DEF AffineRow, NotMoved, Ix

LEMMA RotateSound ==
  ASSUME NEW o, Sound(o), NEW rm, Pure(rm)
  PROVE  Sound(rotate(o, rm))
<1>1. o.m \in Elements /\ o.flagBits \in FlagSets /\ ShapeOf(o)
  BY DEF Sound
<1>2. general(rm).m = rm /\ general(rm).flagBits = {"General"}
  BY DEF general, Object
<1>3. CASE o.flagBits = {"Identity"}
  <2>1. rotate(o, rm) = Object(rm, {"Rotation"})
    BY <1>2, <1>3 DEF rotate, multiplyBy, Is
  <2>. QED BY <2>1 DEF Sound, ShapeOf, Object, FlagSets, Flags, Pure
<1>4. CASE o.flagBits # {"Identity"}
  <2> DEFINE f == o.flagBits \cup {"Rotation"}
             m == Times(o.m, rm)
  <2>1. rotate(o, rm) = Object(m, f)
    <3>1. multiplyBy(o, general(rm)) = general(m)
      BY <1>2, <1>4 DEF multiplyBy, product, Is
    <3>. QED BY <3>1, <1>4 DEF rotate, general, Object, Is
  <2>2. f \in FlagSets /\ f \subseteq Flags
    BY <1>1, <1>4 DEF FlagSets, Flags
  <2>3. /\ f = {"Rotation"} => NotMoved(o.m)
        /\ "General" \notin f => AffineRow(o.m)
    BY <1>1, <1>4 DEF ShapeOf, FlagSets
  <2>4. /\ m \in Elements
        /\ f = {"Rotation"} => NotMoved(m)
        /\ "General" \notin f => AffineRow(m)
    BY <1>1, <2>3, TimesPure
  <2>. HIDE DEF m
  <2>5. ShapeOf(Object(m, f))
    BY <2>4 DEF ShapeOf, Object
  <2>. QED BY <2>1, <2>2, <2>4, <2>5 DEF Sound, Object
<1>. QED
  BY <1>3, <1>4

\* A frustum, a perspective or a box whose sides are not empty.
LEMMA ProjectionElements ==
  ASSUME NEW l \in Int, NEW r \in Int, NEW b \in Int, NEW t \in Int,
         NEW n \in Int, NEW f \in Int, l # r, b # t, n # f
  PROVE  OrthoM(l, r, b, t, n, f) \in Elements /\ FrustumM(l, r, b, t, n, f) \in Elements
<1>1. \A e \in Int : /\ Over(e, r - l) \in Int /\ Over(e, t - b) \in Int
                     /\ Over(e, f - n) \in Int
  BY OverInteger
<1>2. ASSUME NEW cs, \A i, j \in 1..4 : cs[i][j] \in Int
      PROVE  Columns(cs) \in Elements
  <2>1. \A i \in Ix : i + 1 \in 1..4
    BY DEF Ix
  <2>. QED BY <1>2, <2>1 DEF Columns, Elements
<1>3. OrthoM(l, r, b, t, n, f) \in Elements
  <2> DEFINE a1 == Over(2, r - l)
             a2 == Over(2, t - b)
             a3 == Over(-2, f - n)
             a4 == Over(-(l + r), r - l)
             a5 == Over(-(t + b), t - b)
             a6 == Over(-(n + f), f - n)
             cs == <<<<a1, 0, 0, 0>>, <<0, a2, 0, 0>>, <<0, 0, a3, 0>>, <<a4, a5, a6, 1>>>>
  <2>1. /\ a1 \in Int /\ a2 \in Int /\ a3 \in Int
        /\ a4 \in Int /\ a5 \in Int /\ a6 \in Int
    BY <1>1
  <2>2. \A i, j \in 1..4 : cs[i][j] \in Int
    <3>. HIDE DEF a1, a2, a3, a4, a5, a6
    <3>. QED BY <2>1
  <2>. QED BY <2>2, <1>2 DEF OrthoM
<1>4. FrustumM(l, r, b, t, n, f) \in Elements
  <2> DEFINE a1 == Over(2 * n, r - l)
             a2 == Over(2 * n, t - b)
             a3 == Over(l + r, r - l)
             a4 == Over(t + b, t - b)
             a5 == Over(-(n + f), f - n)
             a6 == Over(-2 * n * f, f - n)
             cs == <<<<a1, 0, 0, 0>>, <<0, a2, 0, 0>>, <<a3, a4, a5, -1>>, <<0, 0, a6, 0>>>>
  <2>1. /\ a1 \in Int /\ a2 \in Int /\ a3 \in Int
        /\ a4 \in Int /\ a5 \in Int /\ a6 \in Int
    BY <1>1
  <2>2. \A i, j \in 1..4 : cs[i][j] \in Int
    <3>. HIDE DEF a1, a2, a3, a4, a5, a6
    <3>. QED BY <2>1
  <2>. QED BY <2>2, <1>2 DEF FrustumM
<1>. QED
  BY <1>3, <1>4

LEMMA PerspectiveElements ==
  ASSUME NEW cotan \in Int, NEW aspect \in Int, NEW n \in Int, NEW f \in Int,
         aspect # 0, n # f
  PROVE  PerspectiveM(cotan, aspect, n, f) \in Elements
<1> DEFINE a1 == Over(cotan, aspect)
           a2 == Over(-(n + f), f - n)
           a3 == Over(-2 * n * f, f - n)
           cs == <<<<a1, 0, 0, 0>>, <<0, cotan, 0, 0>>, <<0, 0, a2, -1>>, <<0, 0, a3, 0>>>>
<1>1. a1 \in Int /\ a2 \in Int /\ a3 \in Int
  <2>1. f - n \in Int /\ f - n # 0 /\ -(n + f) \in Int /\ -2 * n * f \in Int
    OBVIOUS
  <2>. QED BY <2>1, OverInteger
<1>2. \A i, j \in 1..4 : cs[i][j] \in Int
  <2>. HIDE DEF a1, a2, a3
  <2>. QED BY <1>1
<1>3. \A i, j \in Ix : cs[i + 1][j + 1] \in Int
  <2>1. \A i \in Ix : i + 1 \in 1..4
    BY DEF Ix
  <2>. HIDE DEF cs
  <2>. QED BY <1>2, <2>1
<1>. QED
  BY <1>3 DEF PerspectiveM, Columns, Elements

LEMMA FrustumSound ==
  ASSUME NEW o, Sound(o), NEW l \in Int, NEW r \in Int, NEW b \in Int, NEW t \in Int,
         NEW n \in Int, NEW f \in Int
  PROVE  Sound(frustum(o, l, r, b, t, n, f))
<1>1. CASE l = r \/ b = t \/ n = f
  BY <1>1 DEF frustum
<1>2. CASE ~(l = r \/ b = t \/ n = f)
  <2>1. Sound(general(FrustumM(l, r, b, t, n, f)))
    BY <1>2, ProjectionElements, GeneralSound
  <2>2. frustum(o, l, r, b, t, n, f) = multiplyBy(o, general(FrustumM(l, r, b, t, n, f)))
    BY <1>2 DEF frustum
  <2>. QED BY <2>1, <2>2, ProductSound
<1>. QED
  BY <1>1, <1>2

LEMMA PerspectiveSound ==
  ASSUME NEW o, Sound(o), NEW sineZero \in BOOLEAN, NEW cotan \in Int, NEW aspect \in Int,
         NEW n \in Int, NEW f \in Int
  PROVE  Sound(perspective(o, sineZero, cotan, aspect, n, f))
<1>1. CASE n = f \/ aspect = 0 \/ sineZero
  BY <1>1 DEF perspective
<1>2. CASE ~(n = f \/ aspect = 0 \/ sineZero)
  <2>1. Sound(general(PerspectiveM(cotan, aspect, n, f)))
    BY <1>2, PerspectiveElements, GeneralSound
  <2>2. perspective(o, sineZero, cotan, aspect, n, f)
          = multiplyBy(o, general(PerspectiveM(cotan, aspect, n, f)))
    BY <1>2 DEF perspective
  <2>. QED BY <2>1, <2>2, ProductSound
<1>. QED
  BY <1>1, <1>2

\* Of a box of depth 2 around the origin, ortho() moves and scales.
LEMMA OrthoSound ==
  ASSUME NEW o, Sound(o), NEW l \in Int, NEW r \in Int, NEW b \in Int, NEW t \in Int,
         NEW n \in Int, NEW f \in Int
  PROVE  Sound(ortho(o, l, r, b, t, n, f))
<1>1. CASE l = r \/ b = t \/ n = f
  BY <1>1 DEF ortho
<1>2. CASE ~(l = r \/ b = t \/ n = f) /\ f - n = 2 /\ n + f = 0
  <2> DEFINE v == <<Over(-(l + r), r - l), Over(-(t + b), t - b), 0>>
             w == <<Over(2, r - l), Over(2, t - b), -1>>
  <2>1. v \in Vector /\ w \in Vector
    <3>1. \A e \in Int : Over(e, r - l) \in Int /\ Over(e, t - b) \in Int
      BY <1>2, OverInteger
    <3>. QED BY <3>1 DEF Vector
  <2>2. ortho(o, l, r, b, t, n, f) = scale(translate(o, v), w)
    BY <1>2 DEF ortho
  <2>. HIDE DEF v, w
  <2>. QED BY <2>1, <2>2, TranslateSound, ScaleSound
<1>3. CASE ~(l = r \/ b = t \/ n = f) /\ ~(f - n = 2 /\ n + f = 0)
  <2>1. Sound(general(OrthoM(l, r, b, t, n, f)))
    BY <1>3, ProjectionElements, GeneralSound
  <2>2. ortho(o, l, r, b, t, n, f) = multiplyBy(o, general(OrthoM(l, r, b, t, n, f)))
    BY <1>3 DEF ortho
  <2>. QED BY <2>1, <2>2, ProductSound
<1>. QED
  BY <1>1, <1>2, <1>3

\* What inferSpecialType() finds is there.
LEMMA InferSound ==
  ASSUME NEW o, Sound(o)
  PROVE  Sound(inferSpecialType(o))
<1> DEFINE m == o.m
           diagonal == m[3][3] = 1 /\ \A c \in 0..2, r \in Ix : c # r => m[c][r] = 0
           moved == m[3][0] # 0 \/ m[3][1] # 0 \/ m[3][2] # 0
           ones == m[0][0] = 1 /\ m[1][1] = 1 /\ m[2][2] = 1
           f == IF ~diagonal THEN {"General"}
                ELSE IF moved /\ ones THEN {"Translation"}
                ELSE IF moved THEN {"Translation", "Scale"}
                ELSE IF ones THEN {"Identity"} ELSE {"Scale"}
<1>1. inferSpecialType(o) = Object(m, f)
  BY DEF inferSpecialType
<1>2. m \in Elements
  BY DEF Sound
<1>3. /\ diagonal => Diagonal3(m) /\ AffineRow(m)
      /\ ones <=> Ones(m)
      /\ ~moved <=> NotMoved(m)
  BY DEF Diagonal3, AffineRow, Ones, NotMoved, Ix
<1>4. f \in FlagSets /\ f \subseteq Flags
  <2>. HIDE DEF diagonal, moved, ones
  <2>. QED BY DEF FlagSets, Flags
<1>5. ShapeOf(Object(m, f))
  <2>. HIDE DEF diagonal, moved, ones, m
  <2>. QED BY <1>3 DEF ShapeOf, Object
<1>6. Sound(Object(m, f))
  <2>. HIDE DEF m, f
  <2>. QED BY <1>2, <1>4, <1>5 DEF Sound, Object
<1>. QED
  BY <1>1, <1>6


-----------------------------------------------------------------------------
(* Products of matrices. *)

LEMMA SameElements ==
  ASSUME NEW a \in Elements, NEW b \in Elements,
         \A c, r \in Ix : a[c][r] = b[c][r]
  PROVE  a = b
<1>1. ASSUME NEW c \in Ix PROVE a[c] = b[c]
  <2>1. a[c] \in [Ix -> Int] /\ b[c] \in [Ix -> Int]
    BY DEF Elements
  <2> DEFINE x == a[c]
             y == b[c]
  <2>2. x \in [Ix -> Int] /\ y \in [Ix -> Int] /\ \A r \in Ix : x[r] = y[r]
    BY <2>1
  <2>. HIDE DEF x, y
  <2>3. x = y
    BY <2>2
  <2>. QED BY <2>3 DEF x, y
<1>. QED
  BY <1>1 DEF Elements

LEMMA TimesAt ==
  ASSUME NEW a, NEW b, NEW c \in Ix, NEW r \in Ix
  PROVE  Times(a, b)[c][r]
           = a[0][r] * b[c][0] + a[1][r] * b[c][1] + a[2][r] * b[c][2] + a[3][r] * b[c][3]
  BY DEF Times

LEMMA IdentityElements ==
  /\ IdentityM \in Elements
  /\ \A c, r \in Ix : IdentityM[c][r] = IF c = r THEN 1 ELSE 0
  BY DEF IdentityM, Elements, Ix

LEMMA IdentityTimes ==
  ASSUME NEW a \in Elements
  PROVE  Times(IdentityM, a) = a /\ Times(a, IdentityM) = a
<1>1. \A c, r \in Ix : a[c][r] \in Int
  BY DEF Elements
<1>2. Times(IdentityM, a) \in Elements /\ Times(a, IdentityM) \in Elements
  BY IdentityElements, TimesElements
<1>3. ASSUME NEW c \in Ix, NEW r \in Ix
      PROVE  Times(IdentityM, a)[c][r] = a[c][r] /\ Times(a, IdentityM)[c][r] = a[c][r]
  <2>1. /\ a[c][0] \in Int /\ a[c][1] \in Int /\ a[c][2] \in Int /\ a[c][3] \in Int
        /\ a[0][r] \in Int /\ a[1][r] \in Int /\ a[2][r] \in Int /\ a[3][r] \in Int
    BY <1>1 DEF Ix
  <2>2. r \in {0, 1, 2, 3} /\ c \in {0, 1, 2, 3}
    BY DEF Ix
  <2>3. Times(IdentityM, a)[c][r] = a[c][r]
    <3>1. /\ IdentityM[0][r] = IF 0 = r THEN 1 ELSE 0
          /\ IdentityM[1][r] = IF 1 = r THEN 1 ELSE 0
          /\ IdentityM[2][r] = IF 2 = r THEN 1 ELSE 0
          /\ IdentityM[3][r] = IF 3 = r THEN 1 ELSE 0
      BY IdentityElements DEF Ix
    <3>. QED BY <2>1, <2>2, <3>1, TimesAt
  <2>4. Times(a, IdentityM)[c][r] = a[c][r]
    <3>1. /\ IdentityM[c][0] = IF c = 0 THEN 1 ELSE 0
          /\ IdentityM[c][1] = IF c = 1 THEN 1 ELSE 0
          /\ IdentityM[c][2] = IF c = 2 THEN 1 ELSE 0
          /\ IdentityM[c][3] = IF c = 3 THEN 1 ELSE 0
      BY IdentityElements DEF Ix
    <3>. QED BY <2>1, <2>2, <3>1, TimesAt
  <2>. QED BY <2>3, <2>4
<1>. QED
  BY <1>2, <1>3, SameElements

\* An object flagged as the identity is it.
LEMMA FlaggedIdentity ==
  ASSUME NEW o, Sound(o), o.flagBits = {"Identity"}
  PROVE  o.m = IdentityM
<1>1. o.m \in Elements /\ Diagonal3(o.m) /\ Ones(o.m) /\ NotMoved(o.m) /\ AffineRow(o.m)
  BY DEF Sound, ShapeOf
<1>2. \A c, r \in Ix : o.m[c][r] = IdentityM[c][r]
  BY <1>1, IdentityElements DEF Diagonal3, Ones, NotMoved, AffineRow, Ix
<1>. QED
  BY <1>1, <1>2, IdentityElements, SameElements

LEMMA ProductExact ==
  ASSUME NEW o, Sound(o), NEW x, Sound(x)
  PROVE  product(o, x).m = Times(o.m, x.m) /\ multiplyBy(o, x).m = Times(o.m, x.m)
<1>1. o.m \in Elements /\ x.m \in Elements
  BY DEF Sound
<1>2. CASE o.flagBits = {"Identity"}
  BY <1>1, <1>2, FlaggedIdentity, IdentityTimes DEF product, multiplyBy, Is
<1>3. CASE o.flagBits # {"Identity"} /\ x.flagBits = {"Identity"}
  BY <1>1, <1>3, FlaggedIdentity, IdentityTimes DEF product, multiplyBy, Is
<1>4. CASE o.flagBits # {"Identity"} /\ x.flagBits # {"Identity"}
  BY <1>4 DEF product, multiplyBy, Is, general, Object
<1>. QED
  BY <1>2, <1>3, <1>4

LEMMA RotateExact ==
  ASSUME NEW o, Sound(o), NEW rm, Pure(rm)
  PROVE  rotate(o, rm).m = Times(o.m, rm)
<1>1. Sound(general(rm)) /\ general(rm).m = rm
  BY GeneralSound DEF Pure, general, Object
<1>2. rotate(o, rm).m = multiplyBy(o, general(rm)).m
  BY DEF rotate, Object
<1>. QED
  BY <1>1, <1>2, ProductExact

-----------------------------------------------------------------------------
(* Scaling and moving. *)

\* The elements of a matrix that has been multiplied by one that scales.
LEMMA ScaleByAt ==
  ASSUME NEW a \in Elements, NEW v \in Vector
  PROVE  /\ Times(a, ScaleBy(v)) \in Elements
         /\ ScaleBy(v) \in Elements
         /\ \A r \in Ix : /\ Times(a, ScaleBy(v))[0][r] = a[0][r] * v[1]
                          /\ Times(a, ScaleBy(v))[1][r] = a[1][r] * v[2]
                          /\ Times(a, ScaleBy(v))[2][r] = a[2][r] * v[3]
                          /\ Times(a, ScaleBy(v))[3][r] = a[3][r]
<1>1. v[1] \in Int /\ v[2] \in Int /\ v[3] \in Int
  BY DEF Vector
<1> DEFINE b == ScaleBy(v)
<1>2. /\ b[0][0] = v[1] /\ b[0][1] = 0 /\ b[0][2] = 0 /\ b[0][3] = 0
      /\ b[1][0] = 0 /\ b[1][1] = v[2] /\ b[1][2] = 0 /\ b[1][3] = 0
      /\ b[2][0] = 0 /\ b[2][1] = 0 /\ b[2][2] = v[3] /\ b[2][3] = 0
      /\ b[3][0] = 0 /\ b[3][1] = 0 /\ b[3][2] = 0 /\ b[3][3] = 1
  BY DEF ScaleBy, Ix
<1>3. b \in Elements
  <2>1. \A c \in Ix : c # 3 => v[c + 1] \in Int
    BY <1>1 DEF Ix
  <2>. QED BY <2>1 DEF ScaleBy, Elements
<1>4. Times(a, b) \in Elements
  BY <1>3, TimesElements
<1>5. ASSUME NEW r \in Ix
      PROVE  /\ Times(a, b)[0][r] = a[0][r] * v[1]
             /\ Times(a, b)[1][r] = a[1][r] * v[2]
             /\ Times(a, b)[2][r] = a[2][r] * v[3]
             /\ Times(a, b)[3][r] = a[3][r]
  <2>1. a[0][r] \in Int /\ a[1][r] \in Int /\ a[2][r] \in Int /\ a[3][r] \in Int
    BY DEF Elements, Ix
  <2>2. 0 \in Ix /\ 1 \in Ix /\ 2 \in Ix /\ 3 \in Ix
    BY DEF Ix
  <2>. HIDE DEF b
  <2>. QED BY <1>1, <1>2, <2>1, <2>2, TimesAt
<1>. QED
  BY <1>3, <1>4, <1>5

LEMMA TranslateByAt ==
  ASSUME NEW a \in Elements, NEW v \in Vector
  PROVE  /\ Times(a, TranslateBy(v)) \in Elements
         /\ TranslateBy(v) \in Elements
         /\ \A r \in Ix : /\ Times(a, TranslateBy(v))[0][r] = a[0][r]
                          /\ Times(a, TranslateBy(v))[1][r] = a[1][r]
                          /\ Times(a, TranslateBy(v))[2][r] = a[2][r]
                          /\ Times(a, TranslateBy(v))[3][r]
                               = a[0][r] * v[1] + a[1][r] * v[2] + a[2][r] * v[3] + a[3][r]
<1>1. v[1] \in Int /\ v[2] \in Int /\ v[3] \in Int
  BY DEF Vector
<1> DEFINE b == TranslateBy(v)
<1>2. /\ b[0][0] = 1 /\ b[0][1] = 0 /\ b[0][2] = 0 /\ b[0][3] = 0
      /\ b[1][0] = 0 /\ b[1][1] = 1 /\ b[1][2] = 0 /\ b[1][3] = 0
      /\ b[2][0] = 0 /\ b[2][1] = 0 /\ b[2][2] = 1 /\ b[2][3] = 0
      /\ b[3][0] = v[1] /\ b[3][1] = v[2] /\ b[3][2] = v[3] /\ b[3][3] = 1
  BY DEF TranslateBy, Ix
<1>3. b \in Elements
  <2>1. \A r \in Ix : r # 3 => v[r + 1] \in Int
    BY <1>1 DEF Ix
  <2>. QED BY <2>1 DEF TranslateBy, Elements
<1>4. Times(a, b) \in Elements
  BY <1>3, TimesElements
<1>5. ASSUME NEW r \in Ix
      PROVE  /\ Times(a, b)[0][r] = a[0][r]
             /\ Times(a, b)[1][r] = a[1][r]
             /\ Times(a, b)[2][r] = a[2][r]
             /\ Times(a, b)[3][r] = a[0][r] * v[1] + a[1][r] * v[2] + a[2][r] * v[3] + a[3][r]
  <2>1. a[0][r] \in Int /\ a[1][r] \in Int /\ a[2][r] \in Int /\ a[3][r] \in Int
    BY DEF Elements, Ix
  <2>2. 0 \in Ix /\ 1 \in Ix /\ 2 \in Ix /\ 3 \in Ix
    BY DEF Ix
  <2>. HIDE DEF b
  <2>. QED BY <1>1, <1>2, <2>1, <2>2, TimesAt
<1>. QED
  BY <1>3, <1>4, <1>5

LEMMA ScaleExact ==
  ASSUME NEW o, Sound(o), NEW v \in Vector
  PROVE  scale(o, v).m = Times(o.m, ScaleBy(v))
<1> DEFINE s == Times(o.m, ScaleBy(v))
<1>1. /\ o.m \in Elements /\ o.m \in [Ix -> [Ix -> Int]] /\ ShapeOf(o)
      /\ \A c, r \in Ix : o.m[c][r] \in Int
      /\ v[1] \in Int /\ v[2] \in Int /\ v[3] \in Int
  BY OperandElements DEF Elements, Sound, Vector
<1>2. /\ s \in Elements
      /\ \A r \in Ix : /\ s[0][r] = o.m[0][r] * v[1] /\ s[1][r] = o.m[1][r] * v[2]
                       /\ s[2][r] = o.m[2][r] * v[3] /\ s[3][r] = o.m[3][r]
  BY <1>1, ScaleByAt
<1>3. Sound(scale(o, v))
  BY ScaleSound
<1>. HIDE DEF s
<1>4. \A c, r \in Ix : scale(o, v).m[c][r] = s[c][r]
  <2>1. CASE o.flagBits \in {{"Identity"}, {"Translation"}}
    <3>1. scale(o, v).m = [o.m EXCEPT ![0][0] = v[1], ![1][1] = v[2], ![2][2] = v[3]]
      BY <2>1 DEF scale, Object
    <3>2. Diagonal3(o.m) /\ Ones(o.m) /\ AffineRow(o.m)
      BY <1>1, <2>1 DEF ShapeOf
    <3>. QED BY <1>1, <1>2, <3>1, <3>2 DEF Diagonal3, Ones, AffineRow, Ix
  <2>2. CASE o.flagBits \in {{"Scale"}, {"Scale", "Translation"}}
    <3>1. scale(o, v).m
            = [o.m EXCEPT ![0][0] = @ * v[1], ![1][1] = @ * v[2], ![2][2] = @ * v[3]]
      BY <2>2 DEF scale, Object
    <3>2. Diagonal3(o.m) /\ AffineRow(o.m)
      BY <1>1, <2>2 DEF ShapeOf
    <3>. QED BY <1>1, <1>2, <3>1, <3>2, SMTT(20) DEF Diagonal3, AffineRow, Ix
  <2>3. CASE o.flagBits \notin {{"Identity"}, {"Translation"}, {"Scale"}, {"Scale", "Translation"}}
    <3>1. scale(o, v).m = ScaledColumns(o.m, v)
      BY <2>3 DEF scale, general, Object
    <3>. QED BY <1>1, <1>2, <3>1 DEF ScaledColumns, Ix
  <2>. QED BY <2>1, <2>2, <2>3
<1>5. scale(o, v).m = s
  BY <1>2, <1>3, <1>4, SameElements, OperandElements
<1>. QED
  BY <1>5 DEF s

LEMMA TranslateExact ==
  ASSUME NEW o, Sound(o), NEW v \in Vector
  PROVE  translate(o, v).m = Times(o.m, TranslateBy(v))
<1> DEFINE s == Times(o.m, TranslateBy(v))
<1>1. /\ o.m \in Elements /\ o.m \in [Ix -> [Ix -> Int]] /\ ShapeOf(o)
      /\ \A c, r \in Ix : o.m[c][r] \in Int
      /\ v[1] \in Int /\ v[2] \in Int /\ v[3] \in Int
  BY OperandElements DEF Elements, Sound, Vector
<1>2. /\ s \in Elements
      /\ \A r \in Ix : /\ s[0][r] = o.m[0][r] /\ s[1][r] = o.m[1][r] /\ s[2][r] = o.m[2][r]
                       /\ s[3][r] = o.m[0][r] * v[1] + o.m[1][r] * v[2] + o.m[2][r] * v[3]
                                      + o.m[3][r]
  BY <1>1, TranslateByAt
<1>3. Sound(translate(o, v))
  BY TranslateSound
<1>. HIDE DEF s
<1>6. ASSUME Diagonal3(o.m), AffineRow(o.m)
      PROVE  /\ s[3][0] = o.m[0][0] * v[1] + o.m[3][0]
             /\ s[3][1] = o.m[1][1] * v[2] + o.m[3][1]
             /\ s[3][2] = o.m[2][2] * v[3] + o.m[3][2]
             /\ s[3][3] = 1
  <2>1. /\ s[3][0] = o.m[0][0] * v[1] + 0 * v[2] + 0 * v[3] + o.m[3][0]
        /\ s[3][1] = 0 * v[1] + o.m[1][1] * v[2] + 0 * v[3] + o.m[3][1]
        /\ s[3][2] = 0 * v[1] + 0 * v[2] + o.m[2][2] * v[3] + o.m[3][2]
        /\ s[3][3] = 0 * v[1] + 0 * v[2] + 0 * v[3] + 1
    BY <1>2, <1>6 DEF Diagonal3, AffineRow, Ix
  <2>2. /\ o.m[0][0] \in Int /\ o.m[1][1] \in Int /\ o.m[2][2] \in Int
        /\ o.m[3][0] \in Int /\ o.m[3][1] \in Int /\ o.m[3][2] \in Int
    BY <1>1 DEF Ix
  <2>3. /\ o.m[0][0] * v[1] \in Int /\ o.m[1][1] * v[2] \in Int /\ o.m[2][2] * v[3] \in Int
    BY <1>1, <2>2
  <2>. QED BY <1>1, <2>1, <2>2, <2>3
<1>4. \A c, r \in Ix : translate(o, v).m[c][r] = s[c][r]
  <2>1. CASE o.flagBits = {"Identity"}
    <3>1. translate(o, v).m = [o.m EXCEPT ![3][0] = v[1], ![3][1] = v[2], ![3][2] = v[3]]
      BY <2>1 DEF translate, Object, Is
    <3>2. Diagonal3(o.m) /\ Ones(o.m) /\ AffineRow(o.m) /\ NotMoved(o.m)
      BY <1>1, <2>1 DEF ShapeOf
    <3>3. /\ s[3][0] = o.m[0][0] * v[1] + o.m[3][0]
          /\ s[3][1] = o.m[1][1] * v[2] + o.m[3][1]
          /\ s[3][2] = o.m[2][2] * v[3] + o.m[3][2]
          /\ s[3][3] = 1
          /\ \A r \in Ix : s[0][r] = o.m[0][r] /\ s[1][r] = o.m[1][r] /\ s[2][r] = o.m[2][r]
      BY <1>2, <1>6, <3>2
    <3>4. /\ o.m[0][0] * v[1] \in Int /\ o.m[1][1] * v[2] \in Int /\ o.m[2][2] * v[3] \in Int
      BY <1>1 DEF Ix
    <3>. QED BY <1>1, <3>1, <3>2, <3>3, <3>4 DEF Diagonal3, Ones, AffineRow, NotMoved, Ix
  <2>2. CASE o.flagBits = {"Translation"}
    <3>1. translate(o, v).m
            = [o.m EXCEPT ![3][0] = @ + v[1], ![3][1] = @ + v[2], ![3][2] = @ + v[3]]
      BY <2>2, SMTT(20) DEF translate, Object, Is
    <3>2. Diagonal3(o.m) /\ Ones(o.m) /\ AffineRow(o.m)
      BY <1>1, <2>2 DEF ShapeOf
    <3>3. /\ s[3][0] = o.m[0][0] * v[1] + o.m[3][0]
          /\ s[3][1] = o.m[1][1] * v[2] + o.m[3][1]
          /\ s[3][2] = o.m[2][2] * v[3] + o.m[3][2]
          /\ s[3][3] = 1
          /\ \A r \in Ix : s[0][r] = o.m[0][r] /\ s[1][r] = o.m[1][r] /\ s[2][r] = o.m[2][r]
      BY <1>2, <1>6, <3>2
    <3>4. /\ o.m[0][0] * v[1] \in Int /\ o.m[1][1] * v[2] \in Int /\ o.m[2][2] * v[3] \in Int
      BY <1>1 DEF Ix
    <3>. QED BY <1>1, <3>1, <3>2, <3>3, <3>4 DEF Diagonal3, Ones, AffineRow, Ix
  <2>3. CASE o.flagBits = {"Scale"}
    <3> DEFINE x == o.m[0][0] * v[1]
               y == o.m[1][1] * v[2]
               z == o.m[2][2] * v[3]
    <3>1. translate(o, v).m
            = [o.m EXCEPT ![3][0] = x, ![3][1] = y,
                          ![3][2] = z]
      BY <2>3 DEF translate, Object, Is
    <3>2. Diagonal3(o.m) /\ AffineRow(o.m) /\ NotMoved(o.m)
      BY <1>1, <2>3 DEF ShapeOf
    <3>3. /\ s[3][0] = x + o.m[3][0]
          /\ s[3][1] = y + o.m[3][1]
          /\ s[3][2] = z + o.m[3][2]
          /\ s[3][3] = 1
          /\ \A r \in Ix : s[0][r] = o.m[0][r] /\ s[1][r] = o.m[1][r] /\ s[2][r] = o.m[2][r]
      BY <1>2, <1>6, <3>2
    <3>4. /\ x \in Int /\ y \in Int /\ z \in Int
      BY <1>1 DEF Ix
    <3>. HIDE DEF x, y, z
    <3>. QED BY <1>1, <3>1, <3>2, <3>3, <3>4 DEF Diagonal3, AffineRow, NotMoved, Ix
  <2>4. CASE o.flagBits = {"Scale", "Translation"}
    <3> DEFINE x == o.m[0][0] * v[1]
               y == o.m[1][1] * v[2]
               z == o.m[2][2] * v[3]
    <3>1. translate(o, v).m
            = [o.m EXCEPT ![3][0] = @ + x, ![3][1] = @ + y,
                          ![3][2] = @ + z]
      BY <2>4 DEF translate, Object, Is
    <3>2. Diagonal3(o.m) /\ AffineRow(o.m)
      BY <1>1, <2>4 DEF ShapeOf
    <3>3. /\ s[3][0] = x + o.m[3][0]
          /\ s[3][1] = y + o.m[3][1]
          /\ s[3][2] = z + o.m[3][2]
          /\ s[3][3] = 1
          /\ \A r \in Ix : s[0][r] = o.m[0][r] /\ s[1][r] = o.m[1][r] /\ s[2][r] = o.m[2][r]
      BY <1>2, <1>6, <3>2
    <3>4. /\ x \in Int /\ y \in Int /\ z \in Int
      BY <1>1 DEF Ix
    <3>. HIDE DEF x, y, z
    <3>. QED BY <1>1, <3>1, <3>2, <3>3, <3>4 DEF Diagonal3, AffineRow, Ix
  <2>5. CASE o.flagBits \notin {{"Identity"}, {"Translation"}, {"Scale"}, {"Scale", "Translation"}}
    <3>1. translate(o, v).m = Moved(o.m, v)
      BY <2>5 DEF translate, Object, Is
    <3>. QED BY <1>1, <1>2, <3>1 DEF Moved, Ix
  <2>. QED BY <2>1, <2>2, <2>3, <2>4, <2>5
<1>5. translate(o, v).m = s
  BY <1>2, <1>3, <1>4, SameElements, OperandElements
<1>. QED
  BY <1>5 DEF s

LEMMA FlipExact ==
  ASSUME NEW o, Sound(o)
  PROVE  flipCoordinates(o).m = Times(o.m, ScaleBy(<<1, -1, -1>>))
<1> DEFINE s == Times(o.m, ScaleBy(<<1, -1, -1>>))
<1>1. /\ o.m \in Elements /\ o.m \in [Ix -> [Ix -> Int]] /\ ShapeOf(o)
      /\ \A c, r \in Ix : o.m[c][r] \in Int
  BY OperandElements DEF Elements, Sound
<1>2. /\ s \in Elements
      /\ \A r \in Ix : /\ s[0][r] = o.m[0][r] /\ s[1][r] = -o.m[1][r]
                       /\ s[2][r] = -o.m[2][r] /\ s[3][r] = o.m[3][r]
  <2>1. <<1, -1, -1>> \in Vector
    BY DEF Vector
  <2>2. /\ s \in Elements
        /\ \A r \in Ix : /\ s[0][r] = o.m[0][r] * 1 /\ s[1][r] = o.m[1][r] * (-1)
                         /\ s[2][r] = o.m[2][r] * (-1) /\ s[3][r] = o.m[3][r]
    BY <1>1, <2>1, ScaleByAt
  <2>3. \A r \in Ix : o.m[0][r] \in Int /\ o.m[1][r] \in Int /\ o.m[2][r] \in Int
    BY <1>1 DEF Ix
  <2>. HIDE DEF s
  <2>. QED BY <2>2, <2>3
<1>3. Sound(flipCoordinates(o))
  BY FlipSound
<1>. HIDE DEF s
<1>4. \A c, r \in Ix : flipCoordinates(o).m[c][r] = s[c][r]
  <2>1. CASE o.flagBits \in {{"Scale"}, {"Scale", "Translation"}, {"Translation"}}
    <3>1. flipCoordinates(o).m = [o.m EXCEPT ![1][1] = -@, ![2][2] = -@]
      BY <2>1 DEF flipCoordinates, Object, Is
    <3>2. Diagonal3(o.m) /\ AffineRow(o.m)
      BY <1>1, <2>1 DEF ShapeOf
    <3>. QED BY <1>1, <1>2, <3>1, <3>2, SMTT(20) DEF Diagonal3, AffineRow, Ix
  <2>2. CASE o.flagBits = {"Identity"}
    <3>1. flipCoordinates(o).m = [o.m EXCEPT ![1][1] = -1, ![2][2] = -1]
      BY <2>2 DEF flipCoordinates, Object, Is
    <3>2. Diagonal3(o.m) /\ AffineRow(o.m) /\ Ones(o.m)
      BY <1>1, <2>2 DEF ShapeOf
    <3>. QED BY <1>1, <1>2, <3>1, <3>2 DEF Diagonal3, AffineRow, Ones, Ix
  <2>3. CASE o.flagBits \notin {{"Identity"}, {"Translation"}, {"Scale"}, {"Scale", "Translation"}}
    <3>1. flipCoordinates(o).m
            = [c \in Ix |-> [r \in Ix |-> IF c \in {1, 2} THEN -o.m[c][r] ELSE o.m[c][r]]]
      BY <2>3 DEF flipCoordinates, general, Object, Is
    <3>. QED BY <1>1, <1>2, <3>1 DEF Ix
  <2>. QED BY <2>1, <2>2, <2>3
<1>5. flipCoordinates(o).m = s
  BY <1>2, <1>3, <1>4, SameElements, OperandElements
<1>. QED
  BY <1>5 DEF s

-----------------------------------------------------------------------------
(* Turning. *)

LEMMA SameAffine ==
  ASSUME NEW as, NEW bs, \A c, r \in 1..3 : as[c][r] = bs[c][r]
  PROVE  Affine(as) = Affine(bs)
<1>1. \A c, r \in Ix : c < 3 /\ r < 3 => as[c + 1][r + 1] = bs[c + 1][r + 1]
  <2>1. \A c \in Ix : c < 3 => c + 1 \in 1..3
    BY DEF Ix
  <2>. QED BY <2>1
<1>. QED
  BY <1>1 DEF Affine

\* The general case of rotate(angle, x, y, z) is Rodrigues' formula; it is so
\* for any axis.
RodriguesColumns(turn) ==
  LET x == turn.axis[1]
      y == turn.axis[2]
      z == turn.axis[3]
      Diag(n) == (n * n * turn.k2 + turn.cos2) \div 2
      Off(a, b, n) == (a * b * turn.k2 + n * turn.s2) \div 2
  IN  <<<<Diag(x), Off(y, x, z), Off(x, z, -y)>>,
        <<Off(x, y, -z), Diag(y), Off(y, z, x)>>,
        <<Off(x, z, y), Off(y, z, -x), Diag(z)>>>>

LEMMA TurnByColumns ==
  ASSUME NEW turn \in [axis : Vector, cos2 : Int, s2 : Int, k2 : Int]
  PROVE  TurnBy(turn) = Affine(RodriguesColumns(turn))
<1> DEFINE x == turn.axis[1]
           y == turn.axis[2]
           z == turn.axis[3]
           c == turn.cos2
           s == turn.s2
           k == turn.k2
           Turned(v) == [i \in 1..3 |->
              (turn.cos2 * v[i] + turn.s2 * crossProduct(turn.axis, v)[i]
                 + turn.k2 * Dot(turn.axis, v) * turn.axis[i]) \div 2]
           as == <<Turned(<<1, 0, 0>>), Turned(<<0, 1, 0>>), Turned(<<0, 0, 1>>)>>
           bs == RodriguesColumns(turn)
<1>1. TurnBy(turn) = Affine(as)
  BY DEF TurnBy, Linear
<1>2. x \in Int /\ y \in Int /\ z \in Int /\ c \in Int /\ s \in Int /\ k \in Int
  BY DEF Vector
<1>3. /\ as[1][1] = (c * 1 + s * (y * 0 - z * 0) + k * (x * 1 + y * 0 + z * 0) * x) \div 2
      /\ as[1][2] = (c * 0 + s * (z * 1 - x * 0) + k * (x * 1 + y * 0 + z * 0) * y) \div 2
      /\ as[1][3] = (c * 0 + s * (x * 0 - y * 1) + k * (x * 1 + y * 0 + z * 0) * z) \div 2
  BY DEF crossProduct, Dot
<1>4. /\ as[2][1] = (c * 0 + s * (y * 0 - z * 1) + k * (x * 0 + y * 1 + z * 0) * x) \div 2
      /\ as[2][2] = (c * 1 + s * (z * 0 - x * 0) + k * (x * 0 + y * 1 + z * 0) * y) \div 2
      /\ as[2][3] = (c * 0 + s * (x * 1 - y * 0) + k * (x * 0 + y * 1 + z * 0) * z) \div 2
  BY DEF crossProduct, Dot
<1>5. /\ as[3][1] = (c * 0 + s * (y * 1 - z * 0) + k * (x * 0 + y * 0 + z * 1) * x) \div 2
      /\ as[3][2] = (c * 0 + s * (z * 0 - x * 1) + k * (x * 0 + y * 0 + z * 1) * y) \div 2
      /\ as[3][3] = (c * 1 + s * (x * 0 - y * 0) + k * (x * 0 + y * 0 + z * 1) * z) \div 2
  BY DEF crossProduct, Dot
<1>6. /\ bs[1][1] = (x * x * k + c) \div 2
      /\ bs[1][2] = (y * x * k + z * s) \div 2
      /\ bs[1][3] = (x * z * k + (-y) * s) \div 2
      /\ bs[2][1] = (x * y * k + (-z) * s) \div 2
      /\ bs[2][2] = (y * y * k + c) \div 2
      /\ bs[2][3] = (y * z * k + x * s) \div 2
      /\ bs[3][1] = (x * z * k + y * s) \div 2
      /\ bs[3][2] = (y * z * k + (-x) * s) \div 2
      /\ bs[3][3] = (z * z * k + c) \div 2
  BY DEF RodriguesColumns
<1>7. \A i, j \in 1..3 : as[i][j] = bs[i][j]
  <2>. HIDE DEF as, bs, x, y, z, c, s, k
  <2>1. as[1][1] = bs[1][1] /\ as[1][2] = bs[1][2] /\ as[1][3] = bs[1][3]
    <3>1. /\ c * 1 + s * (y * 0 - z * 0) + k * (x * 1 + y * 0 + z * 0) * x = x * x * k + c
          /\ c * 0 + s * (z * 1 - x * 0) + k * (x * 1 + y * 0 + z * 0) * y = y * x * k + z * s
          /\ c * 0 + s * (x * 0 - y * 1) + k * (x * 1 + y * 0 + z * 0) * z = x * z * k + (-y) * s
      BY <1>2
    <3>. QED BY <1>3, <1>6, <3>1
  <2>2. as[2][1] = bs[2][1] /\ as[2][2] = bs[2][2] /\ as[2][3] = bs[2][3]
    <3>1. /\ c * 0 + s * (y * 0 - z * 1) + k * (x * 0 + y * 1 + z * 0) * x = x * y * k + (-z) * s
          /\ c * 1 + s * (z * 0 - x * 0) + k * (x * 0 + y * 1 + z * 0) * y = y * y * k + c
          /\ c * 0 + s * (x * 1 - y * 0) + k * (x * 0 + y * 1 + z * 0) * z = y * z * k + x * s
      BY <1>2
    <3>. QED BY <1>4, <1>6, <3>1
  <2>3. as[3][1] = bs[3][1] /\ as[3][2] = bs[3][2] /\ as[3][3] = bs[3][3]
    <3>1. /\ c * 0 + s * (y * 1 - z * 0) + k * (x * 0 + y * 0 + z * 1) * x = x * z * k + y * s
          /\ c * 0 + s * (z * 0 - x * 1) + k * (x * 0 + y * 0 + z * 1) * y = y * z * k + (-x) * s
          /\ c * 1 + s * (x * 0 - y * 0) + k * (x * 0 + y * 0 + z * 1) * z = z * z * k + c
      BY <1>2
    <3>. QED BY <1>5, <1>6, <3>1
  <2>4. 1..3 = {1, 2, 3}
    OBVIOUS
  <2>. QED BY <2>1, <2>2, <2>3, <2>4, Zenon
<1>8. Affine(as) = Affine(bs)
  <2>. HIDE DEF as, bs
  <2>. QED BY <1>7, SameAffine
<1>. QED
  BY <1>1, <1>8

\* Two integers whose squares add up to 4 are 0 and 2 or -2.
LEMMA SquaresOfFour ==
  ASSUME NEW a \in Int, NEW b \in Int, a * a + b * b = 4
  PROVE  a \in {-2, 0, 2} /\ b \in {-2, 0, 2}
<1>1. ASSUME NEW i \in Int, NEW j \in Int, i * i + j * j = 4
      PROVE  i \in -2..2
  <2>1. j * j >= 0 /\ i * i <= 4
    BY <1>1, SMT
  <2>2. i > 2 => i * i > 4
    BY SMT
  <2>3. i < -2 => i * i > 4
    BY SMT
  <2>. QED BY <2>1, <2>2, <2>3
<1>2. a \in -2..2 /\ b \in -2..2
  <2>1. b * b + a * a = 4
    OBVIOUS
  <2>. QED BY <1>1, <2>1
<1>3. a \in {-2, -1, 0, 1, 2} /\ b \in {-2, -1, 0, 1, 2}
  BY <1>2
<1>. QED
  BY <1>3

LEMMA AxisRotationAt ==
  ASSUME NEW turn \in [axis : Vector, cos2 : Int, s2 : Int, k2 : Int],
         NEW n \in Int, NEW i \in 0..2, NEW j \in 0..2, i # j,
         turn.s2 * n \in {-2, 0, 2}
  PROVE  LET m == AxisRotation(i, j, n, turn)
             p == turn.s2 * n
         IN  /\ m[i][i] = turn.cos2 \div 2 /\ m[j][j] = turn.cos2 \div 2
             /\ m[j][i] = (-p) \div 2 /\ m[i][j] = p \div 2
             /\ \A c, r \in Ix : ~(c \in {i, j} /\ r \in {i, j}) => m[c][r] = IdentityM[c][r]
<1> DEFINE m == AxisRotation(i, j, n, turn)
           p == turn.s2 * n
           c2 == turn.cos2 \div 2
           s == Sine(turn, n)
           a == IF n < 0 THEN s ELSE -s
           b == IF n < 0 THEN -s ELSE s
<1>1. m = [IdentityM EXCEPT ![i][i] = c2, ![j][j] = c2, ![j][i] = a, ![i][j] = b]
  BY DEF AxisRotation
<1>2. a = (-p) \div 2 /\ b = p \div 2
  <2>1. turn.s2 \in Int
    OBVIOUS
  <2>2. turn.s2 * (-n) = -p
    BY <2>1
  <2>3. s = IF n < 0 THEN (-p) \div 2 ELSE p \div 2
    BY <2>2 DEF Sine
  <2>. HIDE DEF p, s
  <2>4. p \in {-2, 0, 2} => p \div 2 = -((-p) \div 2)
    BY SMT
  <2>5. p \in {-2, 0, 2} => (-p) \div 2 = -(p \div 2)
    BY SMT
  <2>. QED BY <2>3, <2>4, <2>5 DEF p
<1>3. IdentityM \in [Ix -> [Ix -> Int]] /\ i \in Ix /\ j \in Ix
  BY IdentityElements DEF Elements, Ix
<1>4. /\ m[i][i] = c2 /\ m[j][j] = c2 /\ m[j][i] = a /\ m[i][j] = b
      /\ \A c, r \in Ix : ~(c \in {i, j} /\ r \in {i, j}) => m[c][r] = IdentityM[c][r]
  <2>. HIDE DEF m, a, b, c2
  <2>. QED BY <1>1, <1>3
<1>. HIDE DEF a, b
<1>. QED
  BY <1>2, <1>4

LEMMA AffineAt ==
  ASSUME NEW cs, \A c, r \in 1..3 : cs[c][r] \in Int
  PROVE  /\ Affine(cs) \in Elements
         /\ \A c, r \in 0..2 : Affine(cs)[c][r] = cs[c + 1][r + 1]
         /\ \A c, r \in Ix : c = 3 \/ r = 3 => Affine(cs)[c][r] = IdentityM[c][r]
<1>1. Affine(cs) \in Elements
  BY AffinePure DEF Pure
<1>. QED
  BY <1>1 DEF Affine, IdentityM, Ix

LEMMA Three ==
  ASSUME NEW a, NEW b,
         /\ a[0][0] = b[1][1] /\ a[0][1] = b[1][2] /\ a[0][2] = b[1][3]
         /\ a[1][0] = b[2][1] /\ a[1][1] = b[2][2] /\ a[1][2] = b[2][3]
         /\ a[2][0] = b[3][1] /\ a[2][1] = b[3][2] /\ a[2][2] = b[3][3]
  PROVE  \A d, r \in 0..2 : a[d][r] = b[d + 1][r + 1]
<1>1. 0..2 = {0, 1, 2} /\ 0 + 1 = 1 /\ 1 + 1 = 2 /\ 2 + 1 = 3
  OBVIOUS
<1>. QED
  BY <1>1

\* rotate(angle, x, y, z) turns as it should, and where the axis is one of the
\* coordinates' its shorter matrices agree with the general one.
LEMMA RotationExact ==
  ASSUME NEW turn \in Turns
  PROVE  RotationM(turn) = TurnBy(turn)
<1> DEFINE x == turn.axis[1]
           y == turn.axis[2]
           z == turn.axis[3]
           c == turn.cos2
           s == turn.s2
           k == turn.k2
           bs == RodriguesColumns(turn)
<1>0. turn \in [axis : Vector, cos2 : Int, s2 : Int, k2 : Int]
  BY ValuesAssumption
<1>1. x \in Int /\ y \in Int /\ z \in Int /\ c \in Int /\ s \in Int /\ k \in Int
  BY <1>0 DEF Vector
<1>2. /\ c * c + s * s * (x * x + y * y + z * z) = 4
      /\ k * (x * x + y * y + z * z) = 2 - c
  BY TurnsAssumption
<1>3. /\ bs[1][1] = (x * x * k + c) \div 2
      /\ bs[1][2] = (y * x * k + z * s) \div 2
      /\ bs[1][3] = (x * z * k + (-y) * s) \div 2
      /\ bs[2][1] = (x * y * k + (-z) * s) \div 2
      /\ bs[2][2] = (y * y * k + c) \div 2
      /\ bs[2][3] = (y * z * k + x * s) \div 2
      /\ bs[3][1] = (x * z * k + y * s) \div 2
      /\ bs[3][2] = (y * z * k + (-x) * s) \div 2
      /\ bs[3][3] = (z * z * k + c) \div 2
  BY DEF RodriguesColumns
<1>4. /\ Affine(bs) \in Elements
      /\ \A d, r \in 0..2 : Affine(bs)[d][r] = bs[d + 1][r + 1]
      /\ \A d, r \in Ix : d = 3 \/ r = 3 => Affine(bs)[d][r] = IdentityM[d][r]
  <2>1. \A d, r \in 1..3 : bs[d][r] \in Int
    <3>1. /\ x * x * k + c \in Int /\ y * y * k + c \in Int /\ z * z * k + c \in Int
          /\ y * x * k + z * s \in Int /\ x * y * k + (-z) * s \in Int
          /\ x * z * k + (-y) * s \in Int /\ x * z * k + y * s \in Int
          /\ y * z * k + x * s \in Int /\ y * z * k + (-x) * s \in Int
      BY <1>1
    <3>2. 1..3 = {1, 2, 3}
      OBVIOUS
    <3>3. /\ bs[1][1] \in Int /\ bs[1][2] \in Int /\ bs[1][3] \in Int
          /\ bs[2][1] \in Int /\ bs[2][2] \in Int /\ bs[2][3] \in Int
          /\ bs[3][1] \in Int /\ bs[3][2] \in Int /\ bs[3][3] \in Int
      <4>. HIDE DEF bs, x, y, z, c, s, k
      <4>. QED BY <1>3, <3>1, Half
    <3>. HIDE DEF bs
    <3>. QED BY <3>2, <3>3, Zenon
  <2>. HIDE DEF bs
  <2>. QED BY <2>1, AffineAt
<1>5. CASE x = 0 /\ y = 0 /\ z # 0
  <2> DEFINE m == AxisRotation(0, 1, z, turn)
  <2>1. RotationM(turn) = m
    BY <1>5 DEF RotationM
  <2>2. s * z \in {-2, 0, 2} /\ z * z * k + c = 2
    <3>1. c * c + s * s * (z * z) = 4 /\ k * (z * z) = 2 - c
      BY <1>1, <1>2, <1>5
    <3>2. c * c + (s * z) * (s * z) = 4
      BY <1>1, <3>1
    <3>3. s * z \in Int
      BY <1>1
    <3>4. s * z \in {-2, 0, 2}
      BY <1>1, <3>2, <3>3, SquaresOfFour
    <3>. QED BY <1>1, <3>1, <3>4
  <2>3. /\ m[0][0] = c \div 2 /\ m[1][1] = c \div 2
        /\ m[1][0] = (-(s * z)) \div 2 /\ m[0][1] = (s * z) \div 2
        /\ \A d, r \in Ix : ~(d \in {0, 1} /\ r \in {0, 1}) => m[d][r] = IdentityM[d][r]
    <3>1. z \in Int /\ 0 \in 0..2 /\ 1 \in 0..2 /\ 0 # 1
      BY <1>1
    <3>. HIDE DEF z, m
    <3>. QED BY <1>0, <2>2, <3>1, AxisRotationAt DEF m
  <2>4. \A d, r \in 0..2 : m[d][r] = bs[d + 1][r + 1]
    <3>. HIDE DEF m, bs, x, y, z, c, s, k
    <3>1. /\ bs[1][1] = c \div 2 /\ bs[2][2] = c \div 2
          /\ bs[2][1] = (-(s * z)) \div 2 /\ bs[1][2] = (s * z) \div 2
          /\ bs[3][3] = 1
          /\ bs[3][1] = 0 /\ bs[3][2] = 0
          /\ bs[1][3] = 0 /\ bs[2][3] = 0
      <4>1. /\ x * x * k + c = IF x = 0 THEN c ELSE 2
            /\ y * y * k + c = IF y = 0 THEN c ELSE 2
            /\ z * z * k + c = IF z = 0 THEN c ELSE 2
        BY <1>1, <1>5, <2>2
      <4>2. /\ y * x * k + z * s = s * z /\ x * y * k + (-z) * s = -(s * z)
            /\ x * z * k + (-y) * s = -(s * y) /\ x * z * k + y * s = s * y
            /\ y * z * k + x * s = s * x /\ y * z * k + (-x) * s = -(s * x)
        BY <1>1, <1>5
      <4>3. /\ x = 0 => s * x = 0 /\ -(s * x) = 0
            /\ y = 0 => s * y = 0 /\ -(s * y) = 0
            /\ z = 0 => s * z = 0 /\ -(s * z) = 0
        BY <1>1
      <4>4. 0 \div 2 = 0 /\ 2 \div 2 = 1
        BY SMT
      <4>. QED BY <1>3, <1>5, <4>1, <4>2, <4>3, <4>4
    <3>2. /\ m[2][2] = 1 /\ m[2][0] = 0 /\ m[2][1] = 0
          /\ m[0][2] = 0 /\ m[1][2] = 0
      BY <2>3, IdentityElements DEF Ix
    <3>3. /\ m[0][0] = bs[1][1] /\ m[0][1] = bs[1][2] /\ m[0][2] = bs[1][3]
          /\ m[1][0] = bs[2][1] /\ m[1][1] = bs[2][2] /\ m[1][2] = bs[2][3]
          /\ m[2][0] = bs[3][1] /\ m[2][1] = bs[3][2] /\ m[2][2] = bs[3][3]
      BY <2>3, <3>1, <3>2
    <3>. QED BY <3>3, Three
  <2>5. \A d, r \in Ix : d = 3 \/ r = 3 => m[d][r] = IdentityM[d][r]
    <3>1. 3 \notin {0, 1}
      OBVIOUS
    <3>. HIDE DEF m
    <3>. QED BY <2>3, <3>1
  <2>6. \A d, r \in Ix : m[d][r] = Affine(bs)[d][r]
    <3>1. \A d \in Ix : d = 3 \/ d \in 0..2
      BY DEF Ix
    <3>. HIDE DEF m, bs
    <3>. QED BY <1>4, <2>4, <2>5, <3>1
  <2>7. m \in Elements
    BY <1>0, <2>1, RotationPure DEF Pure
  <2>8. m = Affine(bs)
    <3>. HIDE DEF m, bs
    <3>. QED BY <1>4, <2>6, <2>7, SameElements
  <2>. QED BY <1>0, <2>1, <2>8, TurnByColumns
<1>6. CASE x = 0 /\ y # 0 /\ z = 0
  <2> DEFINE m == AxisRotation(2, 0, y, turn)
  <2>1. RotationM(turn) = m
    BY <1>6 DEF RotationM
  <2>2. s * y \in {-2, 0, 2} /\ y * y * k + c = 2
    <3>1. c * c + s * s * (y * y) = 4 /\ k * (y * y) = 2 - c
      BY <1>1, <1>2, <1>6
    <3>2. c * c + (s * y) * (s * y) = 4
      BY <1>1, <3>1
    <3>3. s * y \in Int
      BY <1>1
    <3>4. s * y \in {-2, 0, 2}
      BY <1>1, <3>2, <3>3, SquaresOfFour
    <3>. QED BY <1>1, <3>1, <3>4
  <2>3. /\ m[2][2] = c \div 2 /\ m[0][0] = c \div 2
        /\ m[0][2] = (-(s * y)) \div 2 /\ m[2][0] = (s * y) \div 2
        /\ \A d, r \in Ix : ~(d \in {2, 0} /\ r \in {2, 0}) => m[d][r] = IdentityM[d][r]
    <3>1. y \in Int /\ 2 \in 0..2 /\ 0 \in 0..2 /\ 2 # 0
      BY <1>1
    <3>. HIDE DEF y, m
    <3>. QED BY <1>0, <2>2, <3>1, AxisRotationAt DEF m
  <2>4. \A d, r \in 0..2 : m[d][r] = bs[d + 1][r + 1]
    <3>. HIDE DEF m, bs, x, y, z, c, s, k
    <3>1. /\ bs[3][3] = c \div 2 /\ bs[1][1] = c \div 2
          /\ bs[1][3] = (-(s * y)) \div 2 /\ bs[3][1] = (s * y) \div 2
          /\ bs[2][2] = 1
          /\ bs[2][3] = 0 /\ bs[2][1] = 0
          /\ bs[3][2] = 0 /\ bs[1][2] = 0
      <4>1. /\ x * x * k + c = IF x = 0 THEN c ELSE 2
            /\ y * y * k + c = IF y = 0 THEN c ELSE 2
            /\ z * z * k + c = IF z = 0 THEN c ELSE 2
        BY <1>1, <1>6, <2>2
      <4>2. /\ y * x * k + z * s = s * z /\ x * y * k + (-z) * s = -(s * z)
            /\ x * z * k + (-y) * s = -(s * y) /\ x * z * k + y * s = s * y
            /\ y * z * k + x * s = s * x /\ y * z * k + (-x) * s = -(s * x)
        BY <1>1, <1>6
      <4>3. /\ x = 0 => s * x = 0 /\ -(s * x) = 0
            /\ y = 0 => s * y = 0 /\ -(s * y) = 0
            /\ z = 0 => s * z = 0 /\ -(s * z) = 0
        BY <1>1
      <4>4. 0 \div 2 = 0 /\ 2 \div 2 = 1
        BY SMT
      <4>. QED BY <1>3, <1>6, <4>1, <4>2, <4>3, <4>4
    <3>2. /\ m[1][1] = 1 /\ m[1][2] = 0 /\ m[1][0] = 0
          /\ m[2][1] = 0 /\ m[0][1] = 0
      BY <2>3, IdentityElements DEF Ix
    <3>3. /\ m[0][0] = bs[1][1] /\ m[0][1] = bs[1][2] /\ m[0][2] = bs[1][3]
          /\ m[1][0] = bs[2][1] /\ m[1][1] = bs[2][2] /\ m[1][2] = bs[2][3]
          /\ m[2][0] = bs[3][1] /\ m[2][1] = bs[3][2] /\ m[2][2] = bs[3][3]
      BY <2>3, <3>1, <3>2
    <3>. QED BY <3>3, Three
  <2>5. \A d, r \in Ix : d = 3 \/ r = 3 => m[d][r] = IdentityM[d][r]
    <3>1. 3 \notin {2, 0}
      OBVIOUS
    <3>. HIDE DEF m
    <3>. QED BY <2>3, <3>1
  <2>6. \A d, r \in Ix : m[d][r] = Affine(bs)[d][r]
    <3>1. \A d \in Ix : d = 3 \/ d \in 0..2
      BY DEF Ix
    <3>. HIDE DEF m, bs
    <3>. QED BY <1>4, <2>4, <2>5, <3>1
  <2>7. m \in Elements
    BY <1>0, <2>1, RotationPure DEF Pure
  <2>8. m = Affine(bs)
    <3>. HIDE DEF m, bs
    <3>. QED BY <1>4, <2>6, <2>7, SameElements
  <2>. QED BY <1>0, <2>1, <2>8, TurnByColumns
<1>7. CASE x # 0 /\ y = 0 /\ z = 0
  <2> DEFINE m == AxisRotation(1, 2, x, turn)
  <2>1. RotationM(turn) = m
    BY <1>7 DEF RotationM
  <2>2. s * x \in {-2, 0, 2} /\ x * x * k + c = 2
    <3>1. c * c + s * s * (x * x) = 4 /\ k * (x * x) = 2 - c
      BY <1>1, <1>2, <1>7
    <3>2. c * c + (s * x) * (s * x) = 4
      BY <1>1, <3>1
    <3>3. s * x \in Int
      BY <1>1
    <3>4. s * x \in {-2, 0, 2}
      BY <1>1, <3>2, <3>3, SquaresOfFour
    <3>. QED BY <1>1, <3>1, <3>4
  <2>3. /\ m[1][1] = c \div 2 /\ m[2][2] = c \div 2
        /\ m[2][1] = (-(s * x)) \div 2 /\ m[1][2] = (s * x) \div 2
        /\ \A d, r \in Ix : ~(d \in {1, 2} /\ r \in {1, 2}) => m[d][r] = IdentityM[d][r]
    <3>1. x \in Int /\ 1 \in 0..2 /\ 2 \in 0..2 /\ 1 # 2
      BY <1>1
    <3>. HIDE DEF x, m
    <3>. QED BY <1>0, <2>2, <3>1, AxisRotationAt DEF m
  <2>4. \A d, r \in 0..2 : m[d][r] = bs[d + 1][r + 1]
    <3>. HIDE DEF m, bs, x, y, z, c, s, k
    <3>1. /\ bs[2][2] = c \div 2 /\ bs[3][3] = c \div 2
          /\ bs[3][2] = (-(s * x)) \div 2 /\ bs[2][3] = (s * x) \div 2
          /\ bs[1][1] = 1
          /\ bs[1][2] = 0 /\ bs[1][3] = 0
          /\ bs[2][1] = 0 /\ bs[3][1] = 0
      <4>1. /\ x * x * k + c = IF x = 0 THEN c ELSE 2
            /\ y * y * k + c = IF y = 0 THEN c ELSE 2
            /\ z * z * k + c = IF z = 0 THEN c ELSE 2
        BY <1>1, <1>7, <2>2
      <4>2. /\ y * x * k + z * s = s * z /\ x * y * k + (-z) * s = -(s * z)
            /\ x * z * k + (-y) * s = -(s * y) /\ x * z * k + y * s = s * y
            /\ y * z * k + x * s = s * x /\ y * z * k + (-x) * s = -(s * x)
        BY <1>1, <1>7
      <4>3. /\ x = 0 => s * x = 0 /\ -(s * x) = 0
            /\ y = 0 => s * y = 0 /\ -(s * y) = 0
            /\ z = 0 => s * z = 0 /\ -(s * z) = 0
        BY <1>1
      <4>4. 0 \div 2 = 0 /\ 2 \div 2 = 1
        BY SMT
      <4>. QED BY <1>3, <1>7, <4>1, <4>2, <4>3, <4>4
    <3>2. /\ m[0][0] = 1 /\ m[0][1] = 0 /\ m[0][2] = 0
          /\ m[1][0] = 0 /\ m[2][0] = 0
      BY <2>3, IdentityElements DEF Ix
    <3>3. /\ m[0][0] = bs[1][1] /\ m[0][1] = bs[1][2] /\ m[0][2] = bs[1][3]
          /\ m[1][0] = bs[2][1] /\ m[1][1] = bs[2][2] /\ m[1][2] = bs[2][3]
          /\ m[2][0] = bs[3][1] /\ m[2][1] = bs[3][2] /\ m[2][2] = bs[3][3]
      BY <2>3, <3>1, <3>2
    <3>. QED BY <3>3, Three
  <2>5. \A d, r \in Ix : d = 3 \/ r = 3 => m[d][r] = IdentityM[d][r]
    <3>1. 3 \notin {1, 2}
      OBVIOUS
    <3>. HIDE DEF m
    <3>. QED BY <2>3, <3>1
  <2>6. \A d, r \in Ix : m[d][r] = Affine(bs)[d][r]
    <3>1. \A d \in Ix : d = 3 \/ d \in 0..2
      BY DEF Ix
    <3>. HIDE DEF m, bs
    <3>. QED BY <1>4, <2>4, <2>5, <3>1
  <2>7. m \in Elements
    BY <1>0, <2>1, RotationPure DEF Pure
  <2>8. m = Affine(bs)
    <3>. HIDE DEF m, bs
    <3>. QED BY <1>4, <2>6, <2>7, SameElements
  <2>. QED BY <1>0, <2>1, <2>8, TurnByColumns
<1>8. CASE ~(x = 0 /\ y = 0 /\ z # 0) /\ ~(x = 0 /\ y # 0 /\ z = 0)
           /\ ~(x # 0 /\ y = 0 /\ z = 0)
  <2>1. RotationM(turn) = Affine(bs)
    BY <1>8 DEF RotationM, RodriguesColumns
  <2>. QED BY <1>0, <2>1, TurnByColumns
<1>. QED
  BY <1>5, <1>6, <1>7, <1>8

LEMMA FourSquares ==
  ASSUME NEW a \in Int, NEW b \in Int, NEW c \in Int, NEW d \in Int,
         a * a + b * b + c * c + d * d = 4
  PROVE  (a * a + b * b) % 2 = 0
<1>1. \A i \in Int : i * i >= 0 /\ (i * i <= 4 => i \in -2..2)
  <2>. SUFFICES ASSUME NEW i \in Int PROVE i * i >= 0 /\ (i * i <= 4 => i \in -2..2)
    OBVIOUS
  <2>1. i * i >= 0
    BY SMT
  <2>2. i > 2 => i * i > 4
    BY SMT
  <2>3. i < -2 => i * i > 4
    BY SMT
  <2>. QED BY <2>1, <2>2, <2>3
<1>2. a \in -2..2 /\ b \in -2..2 /\ c \in -2..2 /\ d \in -2..2
  <2>1. a * a \in Int /\ b * b \in Int /\ c * c \in Int /\ d * d \in Int
    OBVIOUS
  <2>2. a * a <= 4 /\ b * b <= 4 /\ c * c <= 4 /\ d * d <= 4
    BY <1>1, <2>1
  <2>. QED BY <1>1, <2>2
<1>3. \A i \in -2..2 : i * i \in {0, 1, 4}
  <2>. SUFFICES ASSUME NEW i \in -2..2 PROVE i * i \in {0, 1, 4}
    OBVIOUS
  <2>1. i = -2 \/ i = -1 \/ i = 0 \/ i = 1 \/ i = 2
    OBVIOUS
  <2>. QED BY <2>1
<1>4. a * a \in {0, 1, 4} /\ b * b \in {0, 1, 4} /\ c * c \in {0, 1, 4} /\ d * d \in {0, 1, 4}
  BY <1>2, <1>3
<1>5. a * a + b * b \in {0, 2, 4}
  <2> DEFINE aa == a * a
             bb == b * b
             cc == c * c
             dd == d * d
  <2>1. aa + bb + cc + dd = 4
    OBVIOUS
  <2>. HIDE DEF aa, bb, cc, dd
  <2>2. aa \in {0, 1, 4} /\ bb \in {0, 1, 4} /\ cc \in {0, 1, 4} /\ dd \in {0, 1, 4}
    BY <1>4 DEF aa, bb, cc, dd
  <2>3. aa + bb \in {0, 2, 4}
    BY <2>1, <2>2
  <2>. QED BY <2>3 DEF aa, bb
<1>6. \A e \in {0, 2, 4} : e % 2 = 0
  BY SMT
<1>. QED
  BY <1>5, <1>6

\* rotate(quaternion) turns as the product of the quaternions does.
LEMMA QuaternionExact ==
  ASSUME NEW h \in Quaternions
  PROVE  QuaternionM(h) = QuaternionBy(h)
<1> DEFINE x == h[1]
           y == h[2]
           z == h[3]
           w == h[4]
           Turned(v) == [i \in 1..3 |->
              v[i] + (h[4] * crossProduct(h, v)[i] + crossProduct(h, crossProduct(h, v))[i]) \div 2]
           as == <<Turned(<<1, 0, 0>>), Turned(<<0, 1, 0>>), Turned(<<0, 0, 1>>)>>
           Diag(a, b) == 1 - (a * a + b * b) \div 2
           Off(a, b) == (a + b) \div 2
           bs == <<<<Diag(y, z), Off(x * y, z * w), Off(x * z, -(y * w))>>,
                   <<Off(x * y, -(z * w)), Diag(x, z), Off(y * z, x * w)>>,
                   <<Off(x * z, y * w), Off(y * z, -(x * w)), Diag(x, y)>>>>
<1>1. QuaternionBy(h) = Affine(as) /\ QuaternionM(h) = Affine(bs)
  BY DEF QuaternionBy, Linear, QuaternionM
<1>2. x \in Int /\ y \in Int /\ z \in Int /\ w \in Int
  BY ValuesAssumption
<1>3. x * x + y * y + z * z + w * w = 4
  BY QuaternionsAssumption
<1>4. ASSUME NEW a \in Int, NEW b \in Int, (a * a + b * b) % 2 = 0
      PROVE  1 + (-(a * a + b * b)) \div 2 = 1 - (a * a + b * b) \div 2
  <2> DEFINE n == a * a + b * b
  <2>1. n \in Int /\ n % 2 = 0
    BY <1>4
  <2>. HIDE DEF n
  <2>2. (-n) \div 2 = -(n \div 2)
    BY <2>1, SMT
  <2>3. n \div 2 \in Int
    BY <2>1, Half
  <2>. QED BY <2>2, <2>3 DEF n
<1>5. /\ 1 + (-(y * y + z * z)) \div 2 = 1 - (y * y + z * z) \div 2
      /\ 1 + (-(x * x + z * z)) \div 2 = 1 - (x * x + z * z) \div 2
      /\ 1 + (-(x * x + y * y)) \div 2 = 1 - (x * x + y * y) \div 2
  <2>. HIDE DEF x, y, z, w
  <2>1. /\ y * y + z * z + x * x + w * w = 4
        /\ x * x + z * z + y * y + w * w = 4
    BY <1>2, <1>3
  <2>2. /\ (y * y + z * z) % 2 = 0 /\ (x * x + z * z) % 2 = 0 /\ (x * x + y * y) % 2 = 0
    BY <1>2, <1>3, <2>1, FourSquares
  <2>. QED BY <1>2, <1>4, <2>2
<1>6. /\ crossProduct(h, <<1, 0, 0>>) = <<y * 0 - z * 0, z * 1 - x * 0, x * 0 - y * 1>>
      /\ crossProduct(h, <<0, 1, 0>>) = <<y * 0 - z * 1, z * 0 - x * 0, x * 1 - y * 0>>
      /\ crossProduct(h, <<0, 0, 1>>) = <<y * 1 - z * 0, z * 0 - x * 1, x * 0 - y * 0>>
  BY DEF crossProduct
<1>7. /\ crossProduct(h, <<1, 0, 0>>) = <<0, z, -y>>
      /\ crossProduct(h, <<0, 1, 0>>) = <<-z, 0, x>>
      /\ crossProduct(h, <<0, 0, 1>>) = <<y, -x, 0>>
  <2>1. /\ y * 0 - z * 0 = 0 /\ z * 1 - x * 0 = z /\ x * 0 - y * 1 = -y
        /\ y * 0 - z * 1 = -z /\ z * 0 - x * 0 = 0 /\ x * 1 - y * 0 = x
        /\ y * 1 - z * 0 = y /\ z * 0 - x * 1 = -x /\ x * 0 - y * 0 = 0
    BY <1>2
  <2>. QED BY <1>6, <2>1
<1>8. /\ crossProduct(h, <<0, z, -y>>) = <<y * (-y) - z * z, z * 0 - x * (-y), x * z - y * 0>>
      /\ crossProduct(h, <<-z, 0, x>>) = <<y * x - z * 0, z * (-z) - x * x, x * 0 - y * (-z)>>
      /\ crossProduct(h, <<y, -x, 0>>) = <<y * 0 - z * (-x), z * y - x * 0, x * (-x) - y * y>>
  BY DEF crossProduct
<1>9. /\ as[1][1] = 1 + (w * 0 + (y * (-y) - z * z)) \div 2
      /\ as[1][2] = 0 + (w * z + (z * 0 - x * (-y))) \div 2
      /\ as[1][3] = 0 + (w * (-y) + (x * z - y * 0)) \div 2
      /\ as[2][1] = 0 + (w * (-z) + (y * x - z * 0)) \div 2
      /\ as[2][2] = 1 + (w * 0 + (z * (-z) - x * x)) \div 2
      /\ as[2][3] = 0 + (w * x + (x * 0 - y * (-z))) \div 2
      /\ as[3][1] = 0 + (w * y + (y * 0 - z * (-x))) \div 2
      /\ as[3][2] = 0 + (w * (-x) + (z * y - x * 0)) \div 2
      /\ as[3][3] = 1 + (w * 0 + (x * (-x) - y * y)) \div 2
  <2>1. /\ Turned(<<1, 0, 0>>) = [i \in 1..3 |-> <<1, 0, 0>>[i] + (w * <<0, z, -y>>[i]
              + <<y * (-y) - z * z, z * 0 - x * (-y), x * z - y * 0>>[i]) \div 2]
        /\ Turned(<<0, 1, 0>>) = [i \in 1..3 |-> <<0, 1, 0>>[i] + (w * <<-z, 0, x>>[i]
              + <<y * x - z * 0, z * (-z) - x * x, x * 0 - y * (-z)>>[i]) \div 2]
        /\ Turned(<<0, 0, 1>>) = [i \in 1..3 |-> <<0, 0, 1>>[i] + (w * <<y, -x, 0>>[i]
              + <<y * 0 - z * (-x), z * y - x * 0, x * (-x) - y * y>>[i]) \div 2]
    BY <1>7, <1>8
  <2>2. as[1] = Turned(<<1, 0, 0>>) /\ as[2] = Turned(<<0, 1, 0>>) /\ as[3] = Turned(<<0, 0, 1>>)
    OBVIOUS
  <2>. HIDE DEF Turned, as, x, y, z, w
  <2>. QED BY <2>1, <2>2
<1>10. \A i, j \in 1..3 : as[i][j] = bs[i][j]
  <2>1. /\ bs[1][1] = 1 - (y * y + z * z) \div 2
        /\ bs[1][2] = (x * y + z * w) \div 2
        /\ bs[1][3] = (x * z + -(y * w)) \div 2
        /\ bs[2][1] = (x * y + -(z * w)) \div 2
        /\ bs[2][2] = 1 - (x * x + z * z) \div 2
        /\ bs[2][3] = (y * z + x * w) \div 2
        /\ bs[3][1] = (x * z + y * w) \div 2
        /\ bs[3][2] = (y * z + -(x * w)) \div 2
        /\ bs[3][3] = 1 - (x * x + y * y) \div 2
    OBVIOUS
  <2>. HIDE DEF as, bs, x, y, z, w
  <2>2. /\ w * 0 + (y * (-y) - z * z) = -(y * y + z * z)
        /\ w * 0 + (z * (-z) - x * x) = -(x * x + z * z)
        /\ w * 0 + (x * (-x) - y * y) = -(x * x + y * y)
        /\ w * z + (z * 0 - x * (-y)) = x * y + z * w
        /\ w * (-y) + (x * z - y * 0) = x * z + -(y * w)
        /\ w * (-z) + (y * x - z * 0) = x * y + -(z * w)
        /\ w * x + (x * 0 - y * (-z)) = y * z + x * w
        /\ w * y + (y * 0 - z * (-x)) = x * z + y * w
        /\ w * (-x) + (z * y - x * 0) = y * z + -(x * w)
    BY <1>2
  <2>3. /\ x * y + z * w \in Int /\ x * z + -(y * w) \in Int /\ x * y + -(z * w) \in Int
        /\ y * z + x * w \in Int /\ x * z + y * w \in Int /\ y * z + -(x * w) \in Int
    BY <1>2
  <2>4. \A n \in Int : 0 + n \div 2 = n \div 2
    BY Half
  <2>5. as[1][1] = bs[1][1] /\ as[2][2] = bs[2][2] /\ as[3][3] = bs[3][3]
    BY <1>5, <1>9, <2>1, <2>2
  <2>6. /\ as[1][2] = bs[1][2] /\ as[1][3] = bs[1][3] /\ as[2][1] = bs[2][1]
        /\ as[2][3] = bs[2][3] /\ as[3][1] = bs[3][1] /\ as[3][2] = bs[3][2]
    BY <1>9, <2>1, <2>2, <2>3, <2>4
  <2>7. 1..3 = {1, 2, 3}
    OBVIOUS
  <2>. QED BY <2>5, <2>6, <2>7, Zenon
<1>. HIDE DEF as, bs
<1>. QED
  BY <1>1, <1>10, SameAffine

-----------------------------------------------------------------------------
(* Projecting. *)

LEMMA OverExact ==
  ASSUME NEW x \in Int, NEW d \in Int, d # 0, NEW n \in Int, x * d = n
  PROVE  Over(n, d) = x
<1>1. \A b \in Nat : b > 0 => (x * b) \div b = x
  BY SMT
<1>2. CASE d < 0
  <2>1. -d \in Nat /\ -d > 0 /\ x * (-d) = -n
    BY <1>2
  <2>. QED BY <1>1, <1>2, <2>1 DEF Over
<1>3. CASE ~(d < 0)
  <2>1. d \in Nat /\ d > 0
    BY <1>3
  <2>. QED BY <1>1, <1>3, <2>1 DEF Over
<1>. QED
  BY <1>2, <1>3

LEMMA Distribute ==
  ASSUME NEW x \in Int, NEW y1 \in Int, NEW y2 \in Int, NEW y3 \in Int, NEW y4 \in Int
  PROVE  /\ x * (y1 + y2 + y3 + y4) = x * y1 + x * y2 + x * y3 + x * y4
         /\ (y1 + y2 + y3 + y4) * x = y1 * x + y2 * x + y3 * x + y4 * x
  OBVIOUS

LEMMA TimesAssociative ==
  ASSUME NEW a \in Elements, NEW b \in Elements, NEW e \in Elements
  PROVE  Times(Times(a, b), e) = Times(a, Times(b, e))
<1>1. Times(Times(a, b), e) \in Elements /\ Times(a, Times(b, e)) \in Elements
  BY TimesElements
<1>2. ASSUME NEW c \in Ix, NEW r \in Ix
      PROVE  Times(Times(a, b), e)[c][r] = Times(a, Times(b, e))[c][r]
  <2> DEFINE a0 == a[0][r]
             a1 == a[1][r]
             a2 == a[2][r]
             a3 == a[3][r]
             e0 == e[c][0]
             e1 == e[c][1]
             e2 == e[c][2]
             e3 == e[c][3]
  <2>1. 0 \in Ix /\ 1 \in Ix /\ 2 \in Ix /\ 3 \in Ix
    BY DEF Ix
  <2>2. /\ a0 \in Int /\ a1 \in Int /\ a2 \in Int /\ a3 \in Int
        /\ e0 \in Int /\ e1 \in Int /\ e2 \in Int /\ e3 \in Int
        /\ \A k \in Ix : /\ b[k][0] \in Int /\ b[k][1] \in Int
                         /\ b[k][2] \in Int /\ b[k][3] \in Int
    BY <2>1 DEF Elements
  <2>3. Times(Times(a, b), e)[c][r]
          = (a0 * b[0][0] + a1 * b[0][1] + a2 * b[0][2] + a3 * b[0][3]) * e0
            + (a0 * b[1][0] + a1 * b[1][1] + a2 * b[1][2] + a3 * b[1][3]) * e1
            + (a0 * b[2][0] + a1 * b[2][1] + a2 * b[2][2] + a3 * b[2][3]) * e2
            + (a0 * b[3][0] + a1 * b[3][1] + a2 * b[3][2] + a3 * b[3][3]) * e3
    BY <2>1, TimesAt
  <2>4. Times(a, Times(b, e))[c][r]
          = a0 * (b[0][0] * e0 + b[1][0] * e1 + b[2][0] * e2 + b[3][0] * e3)
            + a1 * (b[0][1] * e0 + b[1][1] * e1 + b[2][1] * e2 + b[3][1] * e3)
            + a2 * (b[0][2] * e0 + b[1][2] * e1 + b[2][2] * e2 + b[3][2] * e3)
            + a3 * (b[0][3] * e0 + b[1][3] * e1 + b[2][3] * e2 + b[3][3] * e3)
    BY <2>1, TimesAt
  <2>5. /\ b[0][0] \in Int /\ b[0][1] \in Int /\ b[0][2] \in Int /\ b[0][3] \in Int
        /\ b[1][0] \in Int /\ b[1][1] \in Int /\ b[1][2] \in Int /\ b[1][3] \in Int
        /\ b[2][0] \in Int /\ b[2][1] \in Int /\ b[2][2] \in Int /\ b[2][3] \in Int
        /\ b[3][0] \in Int /\ b[3][1] \in Int /\ b[3][2] \in Int /\ b[3][3] \in Int
    BY <2>1, <2>2
  <2>. HIDE DEF a0, a1, a2, a3, e0, e1, e2, e3
  <2>6. /\ (a0 * b[0][0] + a1 * b[0][1] + a2 * b[0][2] + a3 * b[0][3]) * e0
           = (a0 * b[0][0]) * e0 + (a1 * b[0][1]) * e0 + (a2 * b[0][2]) * e0 + (a3 * b[0][3]) * e0
        /\ (a0 * b[1][0] + a1 * b[1][1] + a2 * b[1][2] + a3 * b[1][3]) * e1
           = (a0 * b[1][0]) * e1 + (a1 * b[1][1]) * e1 + (a2 * b[1][2]) * e1 + (a3 * b[1][3]) * e1
        /\ (a0 * b[2][0] + a1 * b[2][1] + a2 * b[2][2] + a3 * b[2][3]) * e2
           = (a0 * b[2][0]) * e2 + (a1 * b[2][1]) * e2 + (a2 * b[2][2]) * e2 + (a3 * b[2][3]) * e2
        /\ (a0 * b[3][0] + a1 * b[3][1] + a2 * b[3][2] + a3 * b[3][3]) * e3
           = (a0 * b[3][0]) * e3 + (a1 * b[3][1]) * e3 + (a2 * b[3][2]) * e3 + (a3 * b[3][3]) * e3
    <3>1. /\ a0 * b[0][0] \in Int /\ a1 * b[0][1] \in Int /\ a2 * b[0][2] \in Int /\ a3 * b[0][3] \in Int
          /\ a0 * b[1][0] \in Int /\ a1 * b[1][1] \in Int /\ a2 * b[1][2] \in Int /\ a3 * b[1][3] \in Int
          /\ a0 * b[2][0] \in Int /\ a1 * b[2][1] \in Int /\ a2 * b[2][2] \in Int /\ a3 * b[2][3] \in Int
          /\ a0 * b[3][0] \in Int /\ a1 * b[3][1] \in Int /\ a2 * b[3][2] \in Int /\ a3 * b[3][3] \in Int
      BY <2>2, <2>5
    <3>. QED BY <2>2, <3>1, Distribute
  <2>7. /\ a0 * (b[0][0] * e0 + b[1][0] * e1 + b[2][0] * e2 + b[3][0] * e3)
           = a0 * (b[0][0] * e0) + a0 * (b[1][0] * e1) + a0 * (b[2][0] * e2) + a0 * (b[3][0] * e3)
        /\ a1 * (b[0][1] * e0 + b[1][1] * e1 + b[2][1] * e2 + b[3][1] * e3)
           = a1 * (b[0][1] * e0) + a1 * (b[1][1] * e1) + a1 * (b[2][1] * e2) + a1 * (b[3][1] * e3)
        /\ a2 * (b[0][2] * e0 + b[1][2] * e1 + b[2][2] * e2 + b[3][2] * e3)
           = a2 * (b[0][2] * e0) + a2 * (b[1][2] * e1) + a2 * (b[2][2] * e2) + a2 * (b[3][2] * e3)
        /\ a3 * (b[0][3] * e0 + b[1][3] * e1 + b[2][3] * e2 + b[3][3] * e3)
           = a3 * (b[0][3] * e0) + a3 * (b[1][3] * e1) + a3 * (b[2][3] * e2) + a3 * (b[3][3] * e3)
    <3>1. /\ b[0][0] * e0 \in Int /\ b[1][0] * e1 \in Int /\ b[2][0] * e2 \in Int /\ b[3][0] * e3 \in Int
          /\ b[0][1] * e0 \in Int /\ b[1][1] * e1 \in Int /\ b[2][1] * e2 \in Int /\ b[3][1] * e3 \in Int
          /\ b[0][2] * e0 \in Int /\ b[1][2] * e1 \in Int /\ b[2][2] * e2 \in Int /\ b[3][2] * e3 \in Int
          /\ b[0][3] * e0 \in Int /\ b[1][3] * e1 \in Int /\ b[2][3] * e2 \in Int /\ b[3][3] * e3 \in Int
      BY <2>2, <2>5
    <3>. QED BY <2>2, <3>1, Distribute
  <2>8. \A x, y, z \in Int : (x * y) * z = x * (y * z) /\ x * (y * z) \in Int
    OBVIOUS
  <2>9. /\ (a0 * b[0][0]) * e0 = a0 * (b[0][0] * e0) /\ a0 * (b[0][0] * e0) \in Int
        /\ (a1 * b[0][1]) * e0 = a1 * (b[0][1] * e0) /\ a1 * (b[0][1] * e0) \in Int
        /\ (a2 * b[0][2]) * e0 = a2 * (b[0][2] * e0) /\ a2 * (b[0][2] * e0) \in Int
        /\ (a3 * b[0][3]) * e0 = a3 * (b[0][3] * e0) /\ a3 * (b[0][3] * e0) \in Int
        /\ (a0 * b[1][0]) * e1 = a0 * (b[1][0] * e1) /\ a0 * (b[1][0] * e1) \in Int
        /\ (a1 * b[1][1]) * e1 = a1 * (b[1][1] * e1) /\ a1 * (b[1][1] * e1) \in Int
        /\ (a2 * b[1][2]) * e1 = a2 * (b[1][2] * e1) /\ a2 * (b[1][2] * e1) \in Int
        /\ (a3 * b[1][3]) * e1 = a3 * (b[1][3] * e1) /\ a3 * (b[1][3] * e1) \in Int
        /\ (a0 * b[2][0]) * e2 = a0 * (b[2][0] * e2) /\ a0 * (b[2][0] * e2) \in Int
        /\ (a1 * b[2][1]) * e2 = a1 * (b[2][1] * e2) /\ a1 * (b[2][1] * e2) \in Int
        /\ (a2 * b[2][2]) * e2 = a2 * (b[2][2] * e2) /\ a2 * (b[2][2] * e2) \in Int
        /\ (a3 * b[2][3]) * e2 = a3 * (b[2][3] * e2) /\ a3 * (b[2][3] * e2) \in Int
        /\ (a0 * b[3][0]) * e3 = a0 * (b[3][0] * e3) /\ a0 * (b[3][0] * e3) \in Int
        /\ (a1 * b[3][1]) * e3 = a1 * (b[3][1] * e3) /\ a1 * (b[3][1] * e3) \in Int
        /\ (a2 * b[3][2]) * e3 = a2 * (b[3][2] * e3) /\ a2 * (b[3][2] * e3) \in Int
        /\ (a3 * b[3][3]) * e3 = a3 * (b[3][3] * e3) /\ a3 * (b[3][3] * e3) \in Int
    BY <2>2, <2>5, <2>8
  <2> DEFINE p00 == a0 * (b[0][0] * e0)
             p01 == a1 * (b[0][1] * e0)
             p02 == a2 * (b[0][2] * e0)
             p03 == a3 * (b[0][3] * e0)
             p10 == a0 * (b[1][0] * e1)
             p11 == a1 * (b[1][1] * e1)
             p12 == a2 * (b[1][2] * e1)
             p13 == a3 * (b[1][3] * e1)
             p20 == a0 * (b[2][0] * e2)
             p21 == a1 * (b[2][1] * e2)
             p22 == a2 * (b[2][2] * e2)
             p23 == a3 * (b[2][3] * e2)
             p30 == a0 * (b[3][0] * e3)
             p31 == a1 * (b[3][1] * e3)
             p32 == a2 * (b[3][2] * e3)
             p33 == a3 * (b[3][3] * e3)
             s0 == (a0 * b[0][0] + a1 * b[0][1] + a2 * b[0][2] + a3 * b[0][3]) * e0
             s1 == (a0 * b[1][0] + a1 * b[1][1] + a2 * b[1][2] + a3 * b[1][3]) * e1
             s2 == (a0 * b[2][0] + a1 * b[2][1] + a2 * b[2][2] + a3 * b[2][3]) * e2
             s3 == (a0 * b[3][0] + a1 * b[3][1] + a2 * b[3][2] + a3 * b[3][3]) * e3
             t0 == a0 * (b[0][0] * e0 + b[1][0] * e1 + b[2][0] * e2 + b[3][0] * e3)
             t1 == a1 * (b[0][1] * e0 + b[1][1] * e1 + b[2][1] * e2 + b[3][1] * e3)
             t2 == a2 * (b[0][2] * e0 + b[1][2] * e1 + b[2][2] * e2 + b[3][2] * e3)
             t3 == a3 * (b[0][3] * e0 + b[1][3] * e1 + b[2][3] * e2 + b[3][3] * e3)
  <2>10. /\ s0 = p00 + p01 + p02 + p03
         /\ s1 = p10 + p11 + p12 + p13
         /\ s2 = p20 + p21 + p22 + p23
         /\ s3 = p30 + p31 + p32 + p33
    BY <2>6, <2>9
  <2>11. /\ t0 = p00 + p10 + p20 + p30
         /\ t1 = p01 + p11 + p21 + p31
         /\ t2 = p02 + p12 + p22 + p32
         /\ t3 = p03 + p13 + p23 + p33
    BY <2>7
  <2>12. /\ p00 \in Int /\ p01 \in Int /\ p02 \in Int /\ p03 \in Int
         /\ p10 \in Int /\ p11 \in Int /\ p12 \in Int /\ p13 \in Int
         /\ p20 \in Int /\ p21 \in Int /\ p22 \in Int /\ p23 \in Int
         /\ p30 \in Int /\ p31 \in Int /\ p32 \in Int /\ p33 \in Int
    BY <2>9
  <2>13. /\ Times(Times(a, b), e)[c][r] = s0 + s1 + s2 + s3
         /\ Times(a, Times(b, e))[c][r] = t0 + t1 + t2 + t3
    BY <2>3, <2>4
  <2>. HIDE DEF p00, p01, p02, p03, p10, p11, p12, p13, p20, p21, p22, p23, p30, p31, p32, p33, s0, s1, s2, s3, t0, t1, t2, t3
  <2>. QED BY <2>10, <2>11, <2>12, <2>13
<1>. QED
  BY <1>1, <1>2, SameElements

LEMMA ColumnsAt ==
  ASSUME NEW cs, \A i, j \in 1..4 : cs[i][j] \in Int
  PROVE  /\ Columns(cs) \in Elements
         /\ \A c, r \in Ix : Columns(cs)[c][r] = cs[c + 1][r + 1]
<1>1. \A i \in Ix : i + 1 \in 1..4
  BY DEF Ix
<1>. QED
  BY <1>1 DEF Columns, Elements

\* Elements written out.
LEMMA SameWritten ==
  ASSUME NEW a \in Elements, NEW b \in Elements,
         a[0][0] = b[0][0], a[0][1] = b[0][1], a[0][2] = b[0][2], a[0][3] = b[0][3],
         a[1][0] = b[1][0], a[1][1] = b[1][1], a[1][2] = b[1][2], a[1][3] = b[1][3],
         a[2][0] = b[2][0], a[2][1] = b[2][1], a[2][2] = b[2][2], a[2][3] = b[2][3],
         a[3][0] = b[3][0], a[3][1] = b[3][1], a[3][2] = b[3][2], a[3][3] = b[3][3]
  PROVE  a = b
<1>1. Ix = {0, 1, 2, 3}
  BY DEF Ix
<1>2. \A c, r \in Ix : a[c][r] = b[c][r]
  BY <1>1, Zenon
<1>. QED
  BY <1>2, SameElements

\* What a box of the cube's corners is made of: a, b and e are 2 divided by its
\* sides, v its corner.
Boxed(a, b, e, x, y, z) ==
  Columns(<<<<a, 0, 0, 0>>, <<0, b, 0, 0>>, <<0, 0, e, 0>>, <<x, y, z, 1>>>>)

IsBoxed(m, a, b, e, x, y, z) ==
  /\ m \in Elements
  /\ m[0][0] = a /\ m[0][1] = 0 /\ m[0][2] = 0 /\ m[0][3] = 0
  /\ m[1][0] = 0 /\ m[1][1] = b /\ m[1][2] = 0 /\ m[1][3] = 0
  /\ m[2][0] = 0 /\ m[2][1] = 0 /\ m[2][2] = e /\ m[2][3] = 0
  /\ m[3][0] = x /\ m[3][1] = y /\ m[3][2] = z /\ m[3][3] = 1

LEMMA BoxedAt ==
  ASSUME NEW a \in Int, NEW b \in Int, NEW e \in Int,
         NEW x \in Int, NEW y \in Int, NEW z \in Int
  PROVE  IsBoxed(Boxed(a, b, e, x, y, z), a, b, e, x, y, z)
<1> DEFINE cs == <<<<a, 0, 0, 0>>, <<0, b, 0, 0>>, <<0, 0, e, 0>>, <<x, y, z, 1>>>>
<1>1. \A i, j \in 1..4 : cs[i][j] \in Int
  OBVIOUS
<1>2. 0 \in Ix /\ 1 \in Ix /\ 2 \in Ix /\ 3 \in Ix
  BY DEF Ix
<1>3. /\ Columns(cs) \in Elements
      /\ \A c, r \in Ix : Columns(cs)[c][r] = cs[c + 1][r + 1]
  <2>. HIDE DEF cs
  <2>. QED BY <1>1, ColumnsAt
<1>. QED
  BY <1>2, <1>3 DEF Boxed, IsBoxed

LEMMA BoxedOnly ==
  ASSUME NEW m, NEW n, NEW a, NEW b, NEW e, NEW x, NEW y, NEW z,
         IsBoxed(m, a, b, e, x, y, z), IsBoxed(n, a, b, e, x, y, z)
  PROVE  m = n
  BY SameWritten DEF IsBoxed

\* A box is scaled to its sides and moved by v.
LEMMA MovedBox ==
  ASSUME NEW a \in Int, NEW b \in Int, NEW e \in Int,
         NEW x \in Int, NEW y \in Int, NEW z \in Int
  PROVE  Times(TranslateBy(<<x, y, z>>), ScaleBy(<<a, b, e>>)) = Boxed(a, b, e, x, y, z)
<1> DEFINE t == TranslateBy(<<x, y, z>>)
           p == Times(t, ScaleBy(<<a, b, e>>))
           m == Boxed(a, b, e, x, y, z)
<1>1. <<x, y, z>> \in Vector /\ <<a, b, e>> \in Vector
  BY DEF Vector
<1>2. t \in Elements
  BY <1>1, TranslateByAt, IdentityElements
<1>3. /\ t[0][0] = 1 /\ t[0][1] = 0 /\ t[0][2] = 0 /\ t[0][3] = 0
      /\ t[1][0] = 0 /\ t[1][1] = 1 /\ t[1][2] = 0 /\ t[1][3] = 0
      /\ t[2][0] = 0 /\ t[2][1] = 0 /\ t[2][2] = 1 /\ t[2][3] = 0
      /\ t[3][0] = x /\ t[3][1] = y /\ t[3][2] = z /\ t[3][3] = 1
  BY DEF TranslateBy, Ix
<1>. HIDE DEF t
<1>4. /\ p \in Elements
      /\ \A r \in Ix : /\ p[0][r] = t[0][r] * a /\ p[1][r] = t[1][r] * b
                       /\ p[2][r] = t[2][r] * e /\ p[3][r] = t[3][r]
  BY <1>1, <1>2, ScaleByAt
<1>5. 0 \in Ix /\ 1 \in Ix /\ 2 \in Ix /\ 3 \in Ix
  BY DEF Ix
<1>. HIDE DEF p
<1>6. /\ p[0][0] = a /\ p[0][1] = 0 /\ p[0][2] = 0 /\ p[0][3] = 0
      /\ p[1][0] = 0 /\ p[1][1] = b /\ p[1][2] = 0 /\ p[1][3] = 0
      /\ p[2][0] = 0 /\ p[2][1] = 0 /\ p[2][2] = e /\ p[2][3] = 0
      /\ p[3][0] = x /\ p[3][1] = y /\ p[3][2] = z /\ p[3][3] = 1
  BY <1>3, <1>4, <1>5
<1>7. p = m
  <2>1. IsBoxed(p, a, b, e, x, y, z)
    BY <1>4, <1>6 DEF IsBoxed
  <2>2. IsBoxed(m, a, b, e, x, y, z)
    BY BoxedAt
  <2>. HIDE DEF m
  <2>. QED BY <2>1, <2>2, BoxedOnly
<1>. QED
  BY <1>7 DEF p, t, m

\* The sides of a box divide 2.
WholeBox(l, r, b, t, n, f) ==
  /\ l \in Int /\ r \in Int /\ b \in Int /\ t \in Int /\ n \in Int /\ f \in Int
  /\ Divides(r - l, 2) /\ Divides(t - b, 2) /\ Divides(f - n, 2)

BoxIs(l, r, b, t, n, f, a, c, e) ==
  /\ a \in Int /\ c \in Int /\ e \in Int
  /\ a * (r - l) = 2 /\ c * (t - b) = 2 /\ e * (f - n) = 2
  /\ BoxToCube(l, r, b, t, n, f) = Boxed(a, c, -e, -(a * l) - 1, -(c * b) - 1, -(e * n) - 1)

\* The way of BoxToCube: to the origin, to size, back.
LEMMA BoxToCubeIs ==
  ASSUME NEW l, NEW r, NEW b, NEW t, NEW n, NEW f, WholeBox(l, r, b, t, n, f)
  PROVE  BoxIs(l, r, b, t, n, f, Over(2, r - l), Over(2, t - b), Over(2, f - n))
<1> DEFINE a == Over(2, r - l)
           c == Over(2, t - b)
           e == Over(2, f - n)
           s == ScaleBy(<<a, c, -e>>)
           u == TranslateBy(<<-1, -1, -1>>)
           w == Times(s, TranslateBy(<<-l, -b, n>>))
           p == Times(u, w)
           m == Boxed(a, c, -e, -(a * l) - 1, -(c * b) - 1, -(e * n) - 1)
<1>0. /\ l \in Int /\ r \in Int /\ b \in Int /\ t \in Int /\ n \in Int /\ f \in Int
      /\ r - l # 0 /\ t - b # 0 /\ f - n # 0
  BY DEF WholeBox, Divides
<1>1. /\ a \in Int /\ c \in Int /\ e \in Int
      /\ a * (r - l) = 2 /\ c * (t - b) = 2 /\ e * (f - n) = 2
  BY <1>0, OverInteger DEF WholeBox, Divides
<1>2. Over(-2, f - n) = -e
  <2>1. (-e) * (f - n) = -2 /\ -e \in Int /\ f - n \in Int /\ f - n # 0
    <3>. HIDE DEF e
    <3>. QED BY <1>0, <1>1
  <2>. HIDE DEF e
  <2>. QED BY <2>1, OverExact
<1>3. BoxToCube(l, r, b, t, n, f) = p
  BY <1>2 DEF BoxToCube
<1>. HIDE DEF a, c, e
<1>4. <<a, c, -e>> \in Vector /\ <<-1, -1, -1>> \in Vector /\ <<-l, -b, n>> \in Vector
  BY <1>0, <1>1 DEF Vector
<1>5. s \in Elements /\ u \in Elements
  BY <1>4, ScaleByAt, TranslateByAt, IdentityElements
<1>6. /\ s[0][0] = a /\ s[0][1] = 0 /\ s[0][2] = 0 /\ s[0][3] = 0
      /\ s[1][0] = 0 /\ s[1][1] = c /\ s[1][2] = 0 /\ s[1][3] = 0
      /\ s[2][0] = 0 /\ s[2][1] = 0 /\ s[2][2] = -e /\ s[2][3] = 0
      /\ s[3][0] = 0 /\ s[3][1] = 0 /\ s[3][2] = 0 /\ s[3][3] = 1
  BY DEF ScaleBy, Ix
<1>7. /\ u[0][0] = 1 /\ u[0][1] = 0 /\ u[0][2] = 0 /\ u[0][3] = 0
      /\ u[1][0] = 0 /\ u[1][1] = 1 /\ u[1][2] = 0 /\ u[1][3] = 0
      /\ u[2][0] = 0 /\ u[2][1] = 0 /\ u[2][2] = 1 /\ u[2][3] = 0
      /\ u[3][0] = -1 /\ u[3][1] = -1 /\ u[3][2] = -1 /\ u[3][3] = 1
  BY DEF TranslateBy, Ix
<1>. HIDE DEF s, u
<1>8. 0 \in Ix /\ 1 \in Ix /\ 2 \in Ix /\ 3 \in Ix
  BY DEF Ix
<1>9. /\ w \in Elements
      /\ \A k \in Ix : /\ w[0][k] = s[0][k] /\ w[1][k] = s[1][k] /\ w[2][k] = s[2][k]
                       /\ w[3][k] = s[0][k] * (-l) + s[1][k] * (-b) + s[2][k] * n + s[3][k]
  BY <1>4, <1>5, TranslateByAt, ZenonT(40)
<1>. HIDE DEF w
<1>10. /\ w[0][0] = a /\ w[0][1] = 0 /\ w[0][2] = 0 /\ w[0][3] = 0
       /\ w[1][0] = 0 /\ w[1][1] = c /\ w[1][2] = 0 /\ w[1][3] = 0
       /\ w[2][0] = 0 /\ w[2][1] = 0 /\ w[2][2] = -e /\ w[2][3] = 0
  BY <1>6, <1>8, <1>9
<1>11. w[3][0] = -(a * l) /\ w[3][1] = -(c * b) /\ w[3][2] = -(e * n) /\ w[3][3] = 1
  <2>1. /\ w[3][0] = a * (-l) + 0 * (-b) + 0 * n + 0
        /\ w[3][1] = 0 * (-l) + c * (-b) + 0 * n + 0
        /\ w[3][2] = 0 * (-l) + 0 * (-b) + (-e) * n + 0
        /\ w[3][3] = 0 * (-l) + 0 * (-b) + 0 * n + 1
    BY <1>6, <1>8, <1>9
  <2>. QED BY <1>0, <1>1, <2>1
<1>12. p \in Elements
  BY <1>5, <1>9, TimesElements
<1>13. \A i, k \in Ix : p[i][k]
          = u[0][k] * w[i][0] + u[1][k] * w[i][1] + u[2][k] * w[i][2] + u[3][k] * w[i][3]
  BY TimesAt
<1>. HIDE DEF p
<1>14. /\ p[0][0] = a /\ p[0][1] = 0 /\ p[0][2] = 0 /\ p[0][3] = 0
       /\ p[1][0] = 0 /\ p[1][1] = c /\ p[1][2] = 0 /\ p[1][3] = 0
       /\ p[2][0] = 0 /\ p[2][1] = 0 /\ p[2][2] = -e /\ p[2][3] = 0
  BY <1>1, <1>7, <1>8, <1>10, <1>13
<1>15. /\ p[3][0] = -(a * l) - 1 /\ p[3][1] = -(c * b) - 1 /\ p[3][2] = -(e * n) - 1
       /\ p[3][3] = 1
  <2>1. a * l \in Int /\ c * b \in Int /\ e * n \in Int
    BY <1>0, <1>1
  <2>. QED BY <2>1, <1>7, <1>8, <1>11, <1>13
<1>16. p = m
  <2> DEFINE x == -(a * l) - 1
             y == -(c * b) - 1
             z == -(e * n) - 1
  <2>1. x \in Int /\ y \in Int /\ z \in Int /\ -e \in Int
    BY <1>0, <1>1
  <2>2. m = Boxed(a, c, -e, x, y, z)
    OBVIOUS
  <2>3. p[3][0] = x /\ p[3][1] = y /\ p[3][2] = z
    BY <1>15
  <2>. HIDE DEF m, x, y, z
  <2>4. IsBoxed(m, a, c, -e, x, y, z)
    BY <1>1, <2>1, <2>2, BoxedAt
  <2>5. IsBoxed(p, a, c, -e, x, y, z)
    BY <1>12, <1>14, <1>15, <2>3 DEF IsBoxed
  <2>. QED BY <2>4, <2>5, BoxedOnly
<1>. QED
  BY <1>1, <1>3, <1>16 DEF BoxIs, a, c, e

Quotients(lo, hi, a) ==
  /\ Over(2, hi - lo) = a /\ Over(-2, hi - lo) = -a
  /\ Over(-(lo + hi), hi - lo) = -(a * lo) - 1
  /\ Over(lo + hi, hi - lo) = a * lo + 1
  /\ \A n \in Int : Over(2 * n, hi - lo) = a * n /\ Over(-2 * n, hi - lo) = -(a * n)

\* The quotients by a side of the box, when 2 divided by it is a.
LEMMA QuotientIs ==
  ASSUME NEW lo \in Int, NEW hi \in Int, hi - lo # 0, NEW a \in Int, a * (hi - lo) = 2
  PROVE  Quotients(lo, hi, a)
<1> DEFINE d == hi - lo
           p == a * lo
<1>1. d \in Int /\ p \in Int /\ d # 0 /\ hi = lo + d
  OBVIOUS
<1>2. a * d = 2 /\ (-a) * d = -2
  OBVIOUS
<1>3. p * d = 2 * lo
  <2>1. p * d = lo * (a * d)
    BY <1>1
  <2>. QED BY <1>2, <2>1
<1>4. (p + 1) * d = lo + hi
  <2>1. (p + 1) * d = p * d + d
    <3>. HIDE DEF p, d
    <3>. QED BY <1>1
  <2>2. p * d \in Int
    BY <1>1
  <2>. HIDE DEF p, d
  <2>. QED BY <1>1, <1>3, <2>1
<1>5. (-p - 1) * d = -(lo + hi)
  <2>1. (-p - 1) * d = -((p + 1) * d)
    <3>. HIDE DEF p, d
    <3>. QED BY <1>1
  <2>. QED BY <1>4, <2>1
<1>6. ASSUME NEW n \in Int
      PROVE  (a * n) * d = 2 * n /\ (-(a * n)) * d = -2 * n
  <2>1. (a * n) * d = n * (a * d) /\ (-(a * n)) * d = n * ((-a) * d)
    <3>. HIDE DEF d
    <3>. QED BY <1>1
  <2>2. n * 2 = 2 * n /\ n * (-2) = -2 * n
    OBVIOUS
  <2>. QED BY <1>2, <2>1, <2>2
<1>7. Over(2, d) = a /\ Over(-2, d) = -a
  <2>1. -a \in Int
    OBVIOUS
  <2>. HIDE DEF d
  <2>. QED BY <1>1, <1>2, <2>1, OverExact
<1>8. Over(-(lo + hi), d) = -p - 1 /\ Over(lo + hi, d) = p + 1
  <2>1. -p - 1 \in Int /\ p + 1 \in Int /\ lo + hi \in Int /\ -(lo + hi) \in Int
    BY <1>1
  <2>. HIDE DEF d, p
  <2>. QED BY <1>1, <1>4, <1>5, <2>1, OverExact
<1>9. \A n \in Int : Over(2 * n, d) = a * n /\ Over(-2 * n, d) = -(a * n)
  <2>. SUFFICES ASSUME NEW n \in Int
       PROVE Over(2 * n, d) = a * n /\ Over(-2 * n, d) = -(a * n)
    OBVIOUS
  <2>1. a * n \in Int /\ -(a * n) \in Int /\ 2 * n \in Int /\ -2 * n \in Int
    OBVIOUS
  <2>. HIDE DEF d
  <2>. QED BY <1>1, <1>6, <2>1, OverExact
<1>. QED
  BY <1>7, <1>8, <1>9 DEF Quotients

LEMMA OrthoMExact ==
  ASSUME NEW l, NEW r, NEW b, NEW t, NEW n, NEW f, WholeBox(l, r, b, t, n, f)
  PROVE  OrthoM(l, r, b, t, n, f) = BoxToCube(l, r, b, t, n, f)
<1> DEFINE a == Over(2, r - l)
           c == Over(2, t - b)
           e == Over(2, f - n)
<1>1. /\ a \in Int /\ c \in Int /\ e \in Int
      /\ a * (r - l) = 2 /\ c * (t - b) = 2 /\ e * (f - n) = 2
      /\ BoxToCube(l, r, b, t, n, f) = Boxed(a, c, -e, -(a * l) - 1, -(c * b) - 1, -(e * n) - 1)
  BY BoxToCubeIs DEF BoxIs
<1>2. /\ l \in Int /\ r \in Int /\ b \in Int /\ t \in Int /\ n \in Int /\ f \in Int
      /\ r - l # 0 /\ t - b # 0 /\ f - n # 0
  BY DEF WholeBox, Divides
<1>3. /\ Over(-(l + r), r - l) = -(a * l) - 1
      /\ Over(-(b + t), t - b) = -(c * b) - 1
      /\ Over(-2, f - n) = -e /\ Over(-(n + f), f - n) = -(e * n) - 1
  <2>. HIDE DEF a, c, e
  <2>. QED BY <1>1, <1>2, QuotientIs DEF Quotients
<1>4. b + t = t + b
  BY <1>2
<1>. QED
  BY <1>1, <1>3, <1>4 DEF OrthoM, Boxed

\* Of a depth of 2 around the origin, ortho() moves and scales instead.
LEMMA OrthoExact ==
  ASSUME NEW o, Sound(o),
         NEW l, NEW r, NEW b, NEW t, NEW n, NEW f, WholeBox(l, r, b, t, n, f)
  PROVE  ortho(o, l, r, b, t, n, f).m = Times(o.m, BoxToCube(l, r, b, t, n, f))
<1> DEFINE a == Over(2, r - l)
           c == Over(2, t - b)
           e == Over(2, f - n)
           v == <<Over(-(l + r), r - l), Over(-(t + b), t - b), 0>>
           w == <<Over(2, r - l), Over(2, t - b), -1>>
           box == BoxToCube(l, r, b, t, n, f)
<1>1. /\ a \in Int /\ c \in Int /\ e \in Int
      /\ a * (r - l) = 2 /\ c * (t - b) = 2 /\ e * (f - n) = 2
      /\ box = Boxed(a, c, -e, -(a * l) - 1, -(c * b) - 1, -(e * n) - 1)
  BY BoxToCubeIs DEF BoxIs
<1>2. /\ l \in Int /\ r \in Int /\ b \in Int /\ t \in Int /\ n \in Int /\ f \in Int
      /\ r - l # 0 /\ t - b # 0 /\ f - n # 0 /\ l # r /\ b # t /\ n # f
  BY DEF WholeBox, Divides
<1>3. o.m \in Elements
  BY OperandElements
<1>4. CASE f - n = 2 /\ n + f = 0
  <2>1. ortho(o, l, r, b, t, n, f) = scale(translate(o, v), w)
    BY <1>2, <1>4 DEF ortho
  <2>2. v = <<-(a * l) - 1, -(c * b) - 1, 0>> /\ w = <<a, c, -1>>
    <3>1. b + t = t + b
      BY <1>2
    <3>2. Over(-(l + r), r - l) = -(a * l) - 1 /\ Over(-(b + t), t - b) = -(c * b) - 1
      <4>. HIDE DEF a, c, e
      <4>. QED BY <1>1, <1>2, QuotientIs DEF Quotients
    <3>. QED BY <3>1, <3>2
  <2> DEFINE x == -(a * l) - 1
             y == -(c * b) - 1
  <2>3. x \in Int /\ y \in Int
    BY <1>1, <1>2
  <2>4. v \in Vector /\ w \in Vector
    <3>. HIDE DEF a, c, v, w, x, y
    <3>. QED BY <1>1, <2>2, <2>3 DEF Vector, x, y
  <2>5. scale(translate(o, v), w).m = Times(Times(o.m, TranslateBy(v)), ScaleBy(w))
    <3>. HIDE DEF v, w
    <3>. QED BY <2>4, TranslateExact, TranslateSound, ScaleExact
  <2>6. Times(Times(o.m, TranslateBy(v)), ScaleBy(w)) = Times(o.m, Times(TranslateBy(v), ScaleBy(w)))
    <3>1. TranslateBy(v) \in Elements /\ ScaleBy(w) \in Elements
      <4>. HIDE DEF v, w
      <4>. QED BY <1>3, <2>4, TranslateByAt, ScaleByAt
    <3>. HIDE DEF v, w
    <3>. QED BY <1>3, <3>1, TimesAssociative
  <2>7. Times(TranslateBy(v), ScaleBy(w)) = Boxed(a, c, -1, x, y, 0)
    <3>1. Times(TranslateBy(<<x, y, 0>>), ScaleBy(<<a, c, -1>>)) = Boxed(a, c, -1, x, y, 0)
      <4>1. 0 \in Int /\ -1 \in Int
        OBVIOUS
      <4>. HIDE DEF a, c, x, y
      <4>. QED BY <1>1, <2>3, <4>1, MovedBox
    <3>2. v = <<x, y, 0>> /\ w = <<a, c, -1>>
      BY <2>2
    <3>. HIDE DEF v, w, a, c, x, y
    <3>. QED BY <3>1, <3>2
  <2>8. box = Boxed(a, c, -1, x, y, 0)
    <3>1. e = 1 /\ n = -1
      <4>1. n = -1
        BY <1>2, <1>4
      <4>2. e * 2 = 2
        BY <1>1, <1>4
      <4>. HIDE DEF e
      <4>. QED BY <1>1, <4>1, <4>2
    <3>2. -(e * n) - 1 = 0
      BY <3>1
    <3>. HIDE DEF a, c
    <3>. QED BY <1>1, <3>1, <3>2
  <2>. HIDE DEF v, w, a, c, x, y, box
  <2>. QED BY <2>1, <2>5, <2>6, <2>7, <2>8 DEF box
<1>5. CASE ~(f - n = 2 /\ n + f = 0)
  <2>1. OrthoM(l, r, b, t, n, f) = box
    BY OrthoMExact
  <2>2. ortho(o, l, r, b, t, n, f) = multiplyBy(o, general(box))
    BY <1>2, <1>5, <2>1 DEF ortho
  <2>3. box \in Elements
    BY <1>2, <2>1, ProjectionElements
  <2>4. Sound(general(box)) /\ general(box).m = box
    BY <2>3, GeneralSound DEF general, Object
  <2>. HIDE DEF box
  <2>. QED BY <2>2, <2>4, ProductExact DEF box
<1>. QED
  BY <1>4, <1>5

LEMMA FrustumMExact ==
  ASSUME NEW l, NEW r, NEW b, NEW t, NEW n, NEW f, WholeBox(l, r, b, t, n, f)
  PROVE  LET a == Over(2, r - l)
             c == Over(2, t - b)
             e == Over(2, f - n)
         IN  FrustumBy(l, r, b, t, n, f)
               = Columns(<<<<a * n, 0, 0, 0>>, <<0, c * n, 0, 0>>,
                           <<a * l + 1, c * b + 1, -(e * n) - 1, -1>>,
                           <<0, 0, -(e * (n * f)), 0>>>>)
<1> DEFINE a == Over(2, r - l)
           c == Over(2, t - b)
           e == Over(2, f - n)
           x == -(a * l) - 1
           y == -(c * b) - 1
           z == -(e * n) - 1
           box == BoxToCube(l, r, b, t, n, f)
           qs == <<<<n, 0, 0, 0>>, <<0, n, 0, 0>>, <<0, 0, n + f, -1>>, <<0, 0, n * f, 0>>>>
           s == Squeeze(n, f)
           fs == <<<<a * n, 0, 0, 0>>, <<0, c * n, 0, 0>>,
                   <<a * l + 1, c * b + 1, -(e * n) - 1, -1>>,
                   <<0, 0, -(e * (n * f)), 0>>>>
           p == Times(box, s)
           m == Columns(fs)
<1>0. 0 \in Ix /\ 1 \in Ix /\ 2 \in Ix /\ 3 \in Ix
  BY DEF Ix
<1>13. l \in Int /\ r \in Int /\ b \in Int /\ t \in Int /\ n \in Int /\ f \in Int
  BY DEF WholeBox
<1>1. /\ a \in Int /\ c \in Int /\ e \in Int /\ e * (f - n) = 2
      /\ box = Boxed(a, c, -e, x, y, z)
  BY BoxToCubeIs DEF BoxIs
<1>. HIDE DEF box, a, c, e
<1>2. /\ x \in Int /\ y \in Int /\ z \in Int /\ -e \in Int
      /\ a * l \in Int /\ c * b \in Int /\ e * n \in Int /\ e * (n * f) \in Int
      /\ a * n \in Int /\ c * n \in Int /\ n * f \in Int
  BY <1>1, <1>13
<1>3. IsBoxed(box, a, c, -e, x, y, z)
  <2>. HIDE DEF x, y, z
  <2>. QED BY <1>1, <1>2, BoxedAt
<1>4. /\ s \in Elements
      /\ s[0][0] = n /\ s[0][1] = 0 /\ s[0][2] = 0 /\ s[0][3] = 0
      /\ s[1][0] = 0 /\ s[1][1] = n /\ s[1][2] = 0 /\ s[1][3] = 0
      /\ s[2][0] = 0 /\ s[2][1] = 0 /\ s[2][2] = n + f /\ s[2][3] = -1
      /\ s[3][0] = 0 /\ s[3][1] = 0 /\ s[3][2] = n * f /\ s[3][3] = 0
  <2> DEFINE nf == n * f
  <2>1. nf \in Int
    BY <1>2, <1>13
  <2>2. \A i, j \in 1..4 : qs[i][j] \in Int
    <3>. HIDE DEF nf
    <3>. QED BY <1>13, <2>1
  <2>3. s \in Elements /\ \A i, j \in Ix : s[i][j] = qs[i + 1][j + 1]
    <3>1. s = Columns(qs)
      BY DEF Squeeze
    <3>. HIDE DEF qs, s
    <3>. QED BY <2>2, <3>1, ColumnsAt
  <2>. HIDE DEF s
  <2>. QED BY <1>0, <1>13, <2>3
<1>5. /\ m \in Elements
      /\ m[0][0] = a * n /\ m[0][1] = 0 /\ m[0][2] = 0 /\ m[0][3] = 0
      /\ m[1][0] = 0 /\ m[1][1] = c * n /\ m[1][2] = 0 /\ m[1][3] = 0
      /\ m[2][0] = a * l + 1 /\ m[2][1] = c * b + 1 /\ m[2][2] = -(e * n) - 1 /\ m[2][3] = -1
      /\ m[3][0] = 0 /\ m[3][1] = 0 /\ m[3][2] = -(e * (n * f)) /\ m[3][3] = 0
  <2> DEFINE f1 == a * n
             f2 == c * n
             f3 == a * l + 1
             f4 == c * b + 1
             f5 == -(e * n) - 1
             f6 == -(e * (n * f))
  <2>1. /\ f1 \in Int /\ f2 \in Int /\ f3 \in Int /\ f4 \in Int /\ f5 \in Int /\ f6 \in Int
    BY <1>2, <1>13
  <2>2. fs = <<<<f1, 0, 0, 0>>, <<0, f2, 0, 0>>, <<f3, f4, f5, -1>>, <<0, 0, f6, 0>>>>
    OBVIOUS
  <2>. HIDE DEF f1, f2, f3, f4, f5, f6, fs
  <2>3. \A i, j \in 1..4 : fs[i][j] \in Int
    BY <2>1, <2>2
  <2>4. m \in Elements /\ \A i, j \in Ix : m[i][j] = fs[i + 1][j + 1]
    BY <2>3, ColumnsAt
  <2>. HIDE DEF m
  <2>5. /\ m[0][0] = f1 /\ m[0][1] = 0 /\ m[0][2] = 0 /\ m[0][3] = 0
        /\ m[1][0] = 0 /\ m[1][1] = f2 /\ m[1][2] = 0 /\ m[1][3] = 0
        /\ m[2][0] = f3 /\ m[2][1] = f4 /\ m[2][2] = f5 /\ m[2][3] = -1
        /\ m[3][0] = 0 /\ m[3][1] = 0 /\ m[3][2] = f6 /\ m[3][3] = 0
    BY <1>0, <2>2, <2>4
  <2>. QED BY <2>4, <2>5 DEF f1, f2, f3, f4, f5, f6
<1>6. p \in Elements
  BY <1>3, <1>4, TimesElements DEF IsBoxed
<1>7. \A i, k \in Ix : p[i][k]
        = box[0][k] * s[i][0] + box[1][k] * s[i][1] + box[2][k] * s[i][2] + box[3][k] * s[i][3]
  BY TimesAt
<1>. HIDE DEF s, p, m, x, y, z
<1>8. /\ p[0][0] = a * n /\ p[0][1] = 0 /\ p[0][2] = 0 /\ p[0][3] = 0
      /\ p[1][0] = 0 /\ p[1][1] = c * n /\ p[1][2] = 0 /\ p[1][3] = 0
  BY <1>0, <1>1, <1>2, <1>13, <1>3, <1>4, <1>7 DEF IsBoxed
<1>9. p[2][0] = a * l + 1 /\ p[2][1] = c * b + 1 /\ p[2][2] = -(e * n) - 1 /\ p[2][3] = -1
  <2>1. /\ p[2][0] = a * 0 + 0 * 0 + 0 * (n + f) + x * (-1)
        /\ p[2][1] = 0 * 0 + c * 0 + 0 * (n + f) + y * (-1)
        /\ p[2][2] = 0 * 0 + 0 * 0 + (-e) * (n + f) + z * (-1)
        /\ p[2][3] = 0 * 0 + 0 * 0 + 0 * (n + f) + 1 * (-1)
    BY <1>0, <1>3, <1>4, <1>7 DEF IsBoxed
  <2>2. p[2][0] = -x /\ p[2][1] = -y /\ p[2][3] = -1 /\ p[2][2] = (-e) * (n + f) - z
    BY <1>1, <1>2, <1>13, <2>1
  <2>3. (-e) * (n + f) - z = -(e * n) - 1
    <3>1. e * f - e * n = 2
      BY <1>1, <1>13
    <3>2. (-e) * (n + f) = -(e * n) - e * f
      BY <1>1, <1>13
    <3>3. z = -(e * n) - 1
      BY DEF z
    <3>4. e * n \in Int /\ e * f \in Int
      BY <1>1, <1>13
    <3>. QED BY <3>1, <3>2, <3>3, <3>4
  <2>4. -x = a * l + 1 /\ -y = c * b + 1
    BY <1>2, <1>13 DEF x, y
  <2>. QED BY <2>2, <2>3, <2>4
<1>12. p[3][0] = 0 /\ p[3][1] = 0 /\ p[3][2] = -(e * (n * f)) /\ p[3][3] = 0
  <2>1. /\ p[3][0] = a * 0 + 0 * 0 + 0 * (n * f) + x * 0
        /\ p[3][1] = 0 * 0 + c * 0 + 0 * (n * f) + y * 0
        /\ p[3][2] = 0 * 0 + 0 * 0 + (-e) * (n * f) + z * 0
        /\ p[3][3] = 0 * 0 + 0 * 0 + 0 * (n * f) + 1 * 0
    BY <1>0, <1>3, <1>4, <1>7 DEF IsBoxed
  <2>. QED BY <1>1, <1>2, <1>13, <2>1
<1>11. p = m
  <2>. HIDE DEF fs
  <2>. QED BY <1>5, <1>6, <1>8, <1>9, <1>12, SameWritten
<1>. QED
  BY <1>11 DEF p, m, s, box, a, c, e, FrustumBy

LEMMA FrustumExact ==
  ASSUME NEW o, Sound(o), NEW l, NEW r, NEW b, NEW t, NEW n, NEW f,
         WholeBox(l, r, b, t, n, f)
  PROVE  frustum(o, l, r, b, t, n, f).m = Times(o.m, FrustumBy(l, r, b, t, n, f))
<1> DEFINE a == Over(2, r - l)
           c == Over(2, t - b)
           e == Over(2, f - n)
           m == FrustumBy(l, r, b, t, n, f)
<1>1. /\ a \in Int /\ c \in Int /\ e \in Int
      /\ a * (r - l) = 2 /\ c * (t - b) = 2 /\ e * (f - n) = 2
  BY BoxToCubeIs DEF BoxIs
<1>2. /\ l \in Int /\ r \in Int /\ b \in Int /\ t \in Int /\ n \in Int /\ f \in Int
      /\ r - l # 0 /\ t - b # 0 /\ f - n # 0 /\ l # r /\ b # t /\ n # f
  BY DEF WholeBox, Divides
<1>3. FrustumM(l, r, b, t, n, f) = m
  <2>1. m = Columns(<<<<a * n, 0, 0, 0>>, <<0, c * n, 0, 0>>,
                      <<a * l + 1, c * b + 1, -(e * n) - 1, -1>>,
                      <<0, 0, -(e * (n * f)), 0>>>>)
    BY FrustumMExact
  <2>2. n * f \in Int /\ -2 * n * f = -2 * (n * f) /\ b + t = t + b
    BY <1>2
  <2>3. /\ Over(2 * n, r - l) = a * n /\ Over(2 * n, t - b) = c * n
        /\ Over(l + r, r - l) = a * l + 1 /\ Over(t + b, t - b) = c * b + 1
        /\ Over(-(n + f), f - n) = -(e * n) - 1
        /\ Over(-2 * (n * f), f - n) = -(e * (n * f))
    <3>. HIDE DEF a, c, e
    <3>1. Quotients(l, r, a) /\ Quotients(b, t, c) /\ Quotients(n, f, e)
      BY <1>1, <1>2, QuotientIs
    <3>. QED BY <1>2, <2>2, <3>1 DEF Quotients
  <2>. QED BY <2>1, <2>2, <2>3 DEF FrustumM
<1>4. m \in Elements
  BY <1>2, <1>3, ProjectionElements
<1>5. frustum(o, l, r, b, t, n, f) = multiplyBy(o, general(m))
  BY <1>2, <1>3 DEF frustum
<1>6. Sound(general(m)) /\ general(m).m = m
  BY <1>4, GeneralSound DEF general, Object
<1>. HIDE DEF m
<1>. QED
  BY <1>5, <1>6, ProductExact DEF m

\* The frustum of a view, from the cotangent of half its angle.
LEMMA PerspectiveExact ==
  ASSUME NEW o, Sound(o), NEW v \in Views, ~Blind(v)
  PROVE  perspective(o, v[1], v[2], v[3], v[4], v[5]).m
           = Times(o.m, PerspectiveBy(v[2], v[3], v[4], v[5]))
<1> DEFINE cotan == v[2]
           aspect == v[3]
           n == v[4]
           f == v[5]
           y == Over(n, cotan)
           x == Over(n * aspect, cotan)
           a == Over(2, x - (-x))
           c == Over(2, y - (-y))
           e == Over(2, f - n)
           m == FrustumBy(-x, x, -y, y, n, f)
<1>1. /\ v[1] \in BOOLEAN /\ cotan \in Int /\ aspect \in Int /\ n \in Int /\ f \in Int
      /\ n * aspect \in Int /\ ~v[1] /\ aspect # 0 /\ n # f
  BY ValuesAssumption DEF Blind
<1>2. /\ Divides(cotan, n) /\ Divides(cotan, n * aspect)
      /\ Divides(2 * y, 2) /\ Divides(2 * x, 2) /\ Divides(f - n, 2)
  BY QuotientsAssumption
<1>3. cotan # 0 /\ x \in Int /\ y \in Int /\ x * cotan = n * aspect /\ y * cotan = n
  BY <1>1, <1>2, OverInteger DEF Divides
<1>. HIDE DEF x, y
<1>4. WholeBox(-x, x, -y, y, n, f)
  <2>1. x - (-x) = 2 * x /\ y - (-y) = 2 * y /\ -x \in Int /\ -y \in Int
    BY <1>3
  <2>. HIDE DEF n, f
  <2>. QED BY <1>1, <1>2, <1>3, <2>1 DEF WholeBox
<1>5. /\ a \in Int /\ c \in Int /\ e \in Int
      /\ a * (x - (-x)) = 2 /\ c * (y - (-y)) = 2 /\ e * (f - n) = 2
  <2>. HIDE DEF n, f
  <2>. QED BY <1>4, BoxToCubeIs DEF BoxIs
<1>6. m = Columns(<<<<a * n, 0, 0, 0>>, <<0, c * n, 0, 0>>,
                    <<a * (-x) + 1, c * (-y) + 1, -(e * n) - 1, -1>>,
                    <<0, 0, -(e * (n * f)), 0>>>>)
  <2>. HIDE DEF n, f
  <2>. QED BY <1>4, FrustumMExact
<1>7. PerspectiveBy(cotan, aspect, n, f) = m
  BY DEF PerspectiveBy, x, y
<1>. HIDE DEF a, c, cotan, aspect, n, f
<1>8. a * x = 1 /\ c * y = 1
  BY <1>3, <1>5
<1>9. a * (-x) + 1 = 0 /\ c * (-y) + 1 = 0
  BY <1>3, <1>5, <1>8
<1>10. c * n = cotan
  <2>1. c * n = cotan * (c * y)
    BY <1>1, <1>3, <1>5
  <2>. QED BY <1>1, <1>8, <2>1
<1>11. Over(cotan, aspect) = a * n
  <2>1. (a * n) * aspect = cotan * (a * x)
    <3>1. (a * n) * aspect = a * (n * aspect) /\ a * (x * cotan) = cotan * (a * x)
      BY <1>1, <1>3, <1>5
    <3>. QED BY <1>3, <3>1
  <2>2. (a * n) * aspect = cotan /\ a * n \in Int
    BY <1>1, <1>5, <1>8, <2>1
  <2>. QED BY <1>1, <2>2, OverExact
<1>12. /\ Over(-(n + f), f - n) = -(e * n) - 1
       /\ Over(-2 * n * f, f - n) = -(e * (n * f))
  <2>1. n * f \in Int /\ -2 * n * f = -2 * (n * f) /\ f - n # 0
    BY <1>1
  <2>. HIDE DEF e
  <2>2. Quotients(n, f, e)
    BY <1>1, <1>5, <2>1, QuotientIs
  <2>. QED BY <2>1, <2>2 DEF Quotients
<1>. HIDE DEF e
<1>13. PerspectiveM(cotan, aspect, n, f) = m
  BY <1>6, <1>9, <1>10, <1>11, <1>12 DEF PerspectiveM
<1>14. m \in Elements
  BY <1>1, <1>13, PerspectiveElements
<1>15. perspective(o, v[1], cotan, aspect, n, f) = multiplyBy(o, general(m))
  BY <1>1, <1>13 DEF perspective
<1>16. Sound(general(m)) /\ general(m).m = m
  BY <1>14, GeneralSound DEF general, Object
<1>17. perspective(o, v[1], cotan, aspect, n, f).m = Times(o.m, m)
  <2>. HIDE DEF m
  <2>. QED BY <1>15, <1>16, ProductExact
<1>. QED
  BY <1>7, <1>17 DEF cotan, aspect, n, f

-----------------------------------------------------------------------------
(* Looking. *)

LEMMA AxesWritten ==
  ASSUME NEW f \in Axes
  PROVE  /\ f[1] \in {-1, 0, 1} /\ f[2] \in {-1, 0, 1} /\ f[3] \in {-1, 0, 1}
         /\ f[1] * f[1] + f[2] * f[2] + f[3] * f[3] = 1
  BY DEF Axes

\* A vector along an axis is brought to length 1.
LEMMA NormalizedAxis ==
  ASSUME NEW f \in Axes, NEW a \in Int, a > 0, NEW v,
         v[1] = a * f[1], v[2] = a * f[2], v[3] = a * f[3]
  PROVE  normalized(v)[1] = f[1] /\ normalized(v)[2] = f[2] /\ normalized(v)[3] = f[3]
<1> DEFINE len2 == v[1] * v[1] + v[2] * v[2] + v[3] * v[3]
           len == CHOOSE n \in 0..len2 : n * n = len2
<1>1. /\ f[1] \in {-1, 0, 1} /\ f[2] \in {-1, 0, 1} /\ f[3] \in {-1, 0, 1}
      /\ f[1] * f[1] + f[2] * f[2] + f[3] * f[3] = 1
  BY AxesWritten
<1>2. len2 = a * a
  <2>1. len2 = (a * a) * (f[1] * f[1] + f[2] * f[2] + f[3] * f[3])
    BY <1>1
  <2>. QED BY <1>1, <2>1
<1>3. a * a \in Int /\ a * a >= a
  BY SMT
<1>4. CASE a = 1
  <2>1. len2 \in {0, 1}
    BY <1>2, <1>4
  <2>2. normalized(v) = v
    BY <2>1 DEF normalized
  <2>. QED BY <1>1, <1>4, <2>2
<1>5. CASE a # 1
  <2>1. len2 \notin {0, 1}
    <3>1. a * a > 1
      BY <1>5
    <3>. HIDE DEF len2
    <3>. QED BY <1>2, <3>1
  <2>2. len = a
    <3>1. a \in 0..len2 /\ a * a = len2
      <4>. HIDE DEF len2
      <4>. QED BY <1>2, <1>3
    <3>2. len \in 0..len2 /\ len * len = len2
      <4>. HIDE DEF len2
      <4>. QED BY <3>1
    <3>3. len2 \in Int
      <4>. HIDE DEF len2
      <4>. QED BY <1>2, <1>3
    <3>4. len \in Nat /\ len * len = a * a
      <4>. HIDE DEF len2, len
      <4>. QED BY <1>2, <3>2, <3>3
    <3>. HIDE DEF len
    <3>5. \A i \in Nat : i < a => i * i < a * a
      BY SMT
    <3>6. \A i \in Nat : i > a => i * i > a * a
      BY SMT
    <3>. QED BY <3>4, <3>5, <3>6
  <2>3. normalized(v) = [i \in 1..3 |-> Over(v[i], len)]
    BY <2>1 DEF normalized
  <2>4. \A k \in {-1, 0, 1} : Over(a * k, a) = k
    <3>1. \A k \in {-1, 0, 1} : k * a = a * k /\ a * k \in Int /\ k \in Int
      OBVIOUS
    <3>. QED BY <3>1, OverExact
  <2>. HIDE DEF len
  <2>. QED BY <1>1, <2>2, <2>3, <2>4
<1>. QED
  BY <1>4, <1>5

\* There is one rotation with axes to axes that faces along f, with g upwards.
LEMMA OneTurn ==
  ASSUME NEW x00 \in {-1, 0, 1}, NEW x01 \in {-1, 0, 1}, NEW x02 \in {-1, 0, 1},
         NEW x10 \in {-1, 0, 1}, NEW x11 \in {-1, 0, 1}, NEW x12 \in {-1, 0, 1},
         NEW x20 \in {-1, 0, 1}, NEW x21 \in {-1, 0, 1}, NEW x22 \in {-1, 0, 1},
         NEW f1 \in {-1, 0, 1}, NEW f2 \in {-1, 0, 1}, NEW f3 \in {-1, 0, 1},
         NEW g1 \in {-1, 0, 1}, NEW g2 \in {-1, 0, 1}, NEW g3 \in {-1, 0, 1},
         f1 * f1 + f2 * f2 + f3 * f3 = 1, g1 * g1 + g2 * g2 + g3 * g3 = 1, f1 * g1 + f2 * g2 + f3 * g3 = 0,
         x00 * x00 + x01 * x01 + x02 * x02 = 1,
         x10 * x10 + x11 * x11 + x12 * x12 = 1,
         x20 * x20 + x21 * x21 + x22 * x22 = 1,
         x00 * x10 + x01 * x11 + x02 * x12 = 0,
         x00 * x20 + x01 * x21 + x02 * x22 = 0,
         x10 * x20 + x11 * x21 + x12 * x22 = 0,
         x00 * f1 + x10 * f2 + x20 * f3 = 0, x01 * f1 + x11 * f2 + x21 * f3 = 0, x02 * f1 + x12 * f2 + x22 * f3 < 0,
         x00 * g1 + x10 * g2 + x20 * g3 = 0, x01 * g1 + x11 * g2 + x21 * g3 > 0,
         x00 * (x11 * x22 - x12 * x21) - x10 * (x01 * x22 - x02 * x21) + x20 * (x01 * x12 - x02 * x11) = 1
  PROVE  /\ x02 = -f1 /\ x12 = -f2 /\ x22 = -f3
         /\ x01 = g1 /\ x11 = g2 /\ x21 = g3
         /\ x00 = f2 * g3 - f3 * g2 /\ x10 = f3 * g1 - f1 * g3 /\ x20 = f1 * g2 - f2 * g1
  BY SMT

\* The third direction, and the rotation that turns f to the negative z axis and
\* g to the y axis.
Third(f, g) == <<f[2] * g[3] - f[3] * g[2], f[3] * g[1] - f[1] * g[3], f[1] * g[2] - f[2] * g[1]>>
Facing(f, g) ==
  [c \in 0..2 |-> [r \in 0..2 |->
     IF r = 0 THEN Third(f, g)[c + 1] ELSE IF r = 1 THEN g[c + 1] ELSE -f[c + 1]]]

LEMMA ThirdAxis ==
  ASSUME NEW f \in Axes, NEW g \in Axes, Dot(f, g) = 0
  PROVE  /\ Third(f, g) \in Axes
         /\ Third(f, g)[2] * f[3] - Third(f, g)[3] * f[2] = g[1]
         /\ Third(f, g)[3] * f[1] - Third(f, g)[1] * f[3] = g[2]
         /\ Third(f, g)[1] * f[2] - Third(f, g)[2] * f[1] = g[3]
  BY DEF Axes, Dot, Third

LEMMA FacingAt ==
  ASSUME NEW f, NEW g
  PROVE  LET m == Facing(f, g)
             h == Third(f, g)
         IN  /\ m[0][0] = h[1] /\ m[0][1] = g[1] /\ m[0][2] = -f[1]
             /\ m[1][0] = h[2] /\ m[1][1] = g[2] /\ m[1][2] = -f[2]
             /\ m[2][0] = h[3] /\ m[2][1] = g[3] /\ m[2][2] = -f[3]
  BY DEF Facing

LEMMA FacingRotates ==
  ASSUME NEW f \in Axes, NEW g \in Axes, Dot(f, g) = 0
  PROVE  Facing(f, g) \in AxisRotations
<1> DEFINE h == Third(f, g)
           m == Facing(f, g)
<1>1. /\ f[1] \in {-1, 0, 1} /\ f[2] \in {-1, 0, 1} /\ f[3] \in {-1, 0, 1}
      /\ g[1] \in {-1, 0, 1} /\ g[2] \in {-1, 0, 1} /\ g[3] \in {-1, 0, 1}
      /\ h[1] \in {-1, 0, 1} /\ h[2] \in {-1, 0, 1} /\ h[3] \in {-1, 0, 1}
      /\ f[1] * f[1] + f[2] * f[2] + f[3] * f[3] = 1
      /\ g[1] * g[1] + g[2] * g[2] + g[3] * g[3] = 1
      /\ f[1] * g[1] + f[2] * g[2] + f[3] * g[3] = 0
      /\ h[1] = f[2] * g[3] - f[3] * g[2] /\ h[2] = f[3] * g[1] - f[1] * g[3]
      /\ h[3] = f[1] * g[2] - f[2] * g[1]
  <2>1. h \in Axes
    BY ThirdAxis
  <2>2. /\ h[1] = f[2] * g[3] - f[3] * g[2] /\ h[2] = f[3] * g[1] - f[1] * g[3]
        /\ h[3] = f[1] * g[2] - f[2] * g[1]
    BY DEF Third
  <2>. HIDE DEF h
  <2>. QED BY <2>1, <2>2, AxesWritten DEF Dot
<1>2. /\ m[0][0] = h[1] /\ m[0][1] = g[1] /\ m[0][2] = -f[1]
      /\ m[1][0] = h[2] /\ m[1][1] = g[2] /\ m[1][2] = -f[2]
      /\ m[2][0] = h[3] /\ m[2][1] = g[3] /\ m[2][2] = -f[3]
  BY FacingAt
<1>3. m \in [0..2 -> [0..2 -> -1..1]]
  <2>1. 0..2 = {0, 1, 2}
    OBVIOUS
  <2>2. m = [c \in 0..2 |-> [r \in 0..2 |->
               IF r = 0 THEN h[c + 1] ELSE IF r = 1 THEN g[c + 1] ELSE -f[c + 1]]]
    BY DEF Facing
  <2>3. \A c \in 0..2 : h[c + 1] \in -1..1 /\ g[c + 1] \in -1..1 /\ -f[c + 1] \in -1..1
    <3>. HIDE DEF h
    <3>1. /\ h[0 + 1] \in -1..1 /\ g[0 + 1] \in -1..1 /\ -f[0 + 1] \in -1..1
          /\ h[1 + 1] \in -1..1 /\ g[1 + 1] \in -1..1 /\ -f[1 + 1] \in -1..1
          /\ h[2 + 1] \in -1..1 /\ g[2 + 1] \in -1..1 /\ -f[2 + 1] \in -1..1
      <4>1. \A k \in {-1, 0, 1} : k \in -1..1 /\ -k \in -1..1
        OBVIOUS
      <4>2. 0 + 1 = 1 /\ 1 + 1 = 2 /\ 2 + 1 = 3
        OBVIOUS
      <4>. QED BY <1>1, <4>1, <4>2
    <3>. QED BY <2>1, <3>1, Zenon
  <2>. HIDE DEF m, h
  <2>. QED BY <2>2, <2>3
<1>. HIDE DEF m, h
<1>4. \A c, d \in 0..2 :
        m[c][0] * m[d][0] + m[c][1] * m[d][1] + m[c][2] * m[d][2] = IF c = d THEN 1 ELSE 0
  <2>1. /\ m[0][0] * m[0][0] + m[0][1] * m[0][1] + m[0][2] * m[0][2] = 1
        /\ m[1][0] * m[1][0] + m[1][1] * m[1][1] + m[1][2] * m[1][2] = 1
        /\ m[2][0] * m[2][0] + m[2][1] * m[2][1] + m[2][2] * m[2][2] = 1
    BY <1>1, <1>2
  <2>2. /\ m[0][0] * m[1][0] + m[0][1] * m[1][1] + m[0][2] * m[1][2] = 0
        /\ m[0][0] * m[2][0] + m[0][1] * m[2][1] + m[0][2] * m[2][2] = 0
        /\ m[1][0] * m[2][0] + m[1][1] * m[2][1] + m[1][2] * m[2][2] = 0
    BY <1>1, <1>2
  <2>3. /\ m[1][0] * m[0][0] + m[1][1] * m[0][1] + m[1][2] * m[0][2] = 0
        /\ m[2][0] * m[0][0] + m[2][1] * m[0][1] + m[2][2] * m[0][2] = 0
        /\ m[2][0] * m[1][0] + m[2][1] * m[1][1] + m[2][2] * m[1][2] = 0
    BY <1>1, <1>2
  <2> DEFINE P(c, d) == m[c][0] * m[d][0] + m[c][1] * m[d][1] + m[c][2] * m[d][2]
  <2>4. /\ P(0, 0) = 1 /\ P(1, 1) = 1 /\ P(2, 2) = 1
        /\ P(0, 1) = 0 /\ P(0, 2) = 0 /\ P(1, 2) = 0
        /\ P(1, 0) = 0 /\ P(2, 0) = 0 /\ P(2, 1) = 0
    BY <2>1, <2>2, <2>3
  <2>5. \A c, d \in 0..2 : P(c, d) = IF c = d THEN 1 ELSE 0
    <3>. HIDE DEF P
    <3>1. TAKE c \in 0..2, d \in 0..2
    <3>2. c \in {0, 1, 2} /\ d \in {0, 1, 2}
      OBVIOUS
    <3>. QED BY <2>4, <3>2
  <2>. QED BY <2>5
<1>5. matrixDet3(m, 0, 1, 2, 0, 1, 2) = 1
  <2>1. m[0][0] * (m[1][1] * m[2][2] - m[1][2] * m[2][1])
          - m[1][0] * (m[0][1] * m[2][2] - m[0][2] * m[2][1])
          + m[2][0] * (m[0][1] * m[1][2] - m[0][2] * m[1][1]) = 1
    BY <1>1, <1>2
  <2>. QED BY <2>1 DEF matrixDet3
<1>. QED
  BY <1>3, <1>4, <1>5 DEF AxisRotations, m

\* What ViewFrom asks of its rotation.
Row(m, r, v) == m[0][r] * v[1] + m[1][r] * v[2] + m[2][r] * v[3]
Faces(x, ahead, up) ==
  /\ Row(x, 0, ahead) = 0 /\ Row(x, 1, ahead) = 0 /\ Row(x, 2, ahead) < 0
  /\ Row(x, 0, up) = 0 /\ Row(x, 1, up) > 0

\* A direction and an "up" that are sums of axes'.
Along(ahead, up, f, g, a, b, c) ==
  /\ f \in Axes /\ g \in Axes /\ Dot(f, g) = 0
  /\ a \in Int /\ a > 0 /\ b \in Int /\ b > 0 /\ c \in Int
  /\ ahead[1] = a * f[1] /\ ahead[2] = a * f[2] /\ ahead[3] = a * f[3]
  /\ up[1] = c * f[1] + b * g[1] /\ up[2] = c * f[2] + b * g[2] /\ up[3] = c * f[3] + b * g[3]

\* Products with such sums.
LEMMA DotOfSum ==
  ASSUME NEW x1 \in Int, NEW x2 \in Int, NEW x3 \in Int,
         NEW f1 \in Int, NEW f2 \in Int, NEW f3 \in Int,
         NEW g1 \in Int, NEW g2 \in Int, NEW g3 \in Int,
         NEW a \in Int, NEW b \in Int, NEW c \in Int
  PROVE  /\ x1 * (a * f1) + x2 * (a * f2) + x3 * (a * f3) = a * (x1 * f1 + x2 * f2 + x3 * f3)
         /\ x1 * (c * f1 + b * g1) + x2 * (c * f2 + b * g2) + x3 * (c * f3 + b * g3)
              = c * (x1 * f1 + x2 * f2 + x3 * f3) + b * (x1 * g1 + x2 * g2 + x3 * g3)
  BY SMT

Dots(x1, x2, x3, f) == x1 * f[1] + x2 * f[2] + x3 * f[3]

LEMMA DotsAlong ==
  ASSUME NEW ahead, NEW up, NEW f, NEW g, NEW a, NEW b, NEW c, Along(ahead, up, f, g, a, b, c),
         NEW x1 \in Int, NEW x2 \in Int, NEW x3 \in Int
  PROVE  /\ Dots(x1, x2, x3, f) \in Int /\ Dots(x1, x2, x3, g) \in Int
         /\ Dots(x1, x2, x3, ahead) = a * Dots(x1, x2, x3, f)
         /\ Dots(x1, x2, x3, up) = c * Dots(x1, x2, x3, f) + b * Dots(x1, x2, x3, g)
<1> DEFINE f1 == f[1]
           f2 == f[2]
           f3 == f[3]
           g1 == g[1]
           g2 == g[2]
           g3 == g[3]
<1>1. f1 \in Int /\ f2 \in Int /\ f3 \in Int /\ g1 \in Int /\ g2 \in Int /\ g3 \in Int
  <2>1. f \in Axes /\ g \in Axes
    BY DEF Along
  <2>2. \A k \in {-1, 0, 1} : k \in Int
    OBVIOUS
  <2>. QED BY <2>1, <2>2, AxesWritten
<1>2. /\ a \in Int /\ b \in Int /\ c \in Int
      /\ ahead[1] = a * f1 /\ ahead[2] = a * f2 /\ ahead[3] = a * f3
      /\ up[1] = c * f1 + b * g1 /\ up[2] = c * f2 + b * g2
      /\ up[3] = c * f3 + b * g3
  BY DEF Along
<1>3. /\ Dots(x1, x2, x3, ahead) = x1 * (a * f1) + x2 * (a * f2) + x3 * (a * f3)
      /\ Dots(x1, x2, x3, up)
           = x1 * (c * f1 + b * g1) + x2 * (c * f2 + b * g2) + x3 * (c * f3 + b * g3)
      /\ Dots(x1, x2, x3, f) = x1 * f1 + x2 * f2 + x3 * f3
      /\ Dots(x1, x2, x3, g) = x1 * g1 + x2 * g2 + x3 * g3
  BY <1>2 DEF Dots
<1>. HIDE DEF f1, f2, f3, g1, g2, g3
<1>4. /\ x1 * (a * f1) + x2 * (a * f2) + x3 * (a * f3) = a * (x1 * f1 + x2 * f2 + x3 * f3)
      /\ x1 * (c * f1 + b * g1) + x2 * (c * f2 + b * g2) + x3 * (c * f3 + b * g3)
           = c * (x1 * f1 + x2 * f2 + x3 * f3) + b * (x1 * g1 + x2 * g2 + x3 * g3)
  BY <1>1, <1>2, DotOfSum
<1>5. x1 * f1 + x2 * f2 + x3 * f3 \in Int /\ x1 * g1 + x2 * g2 + x3 * g3 \in Int
  BY <1>1
<1>. QED
  BY <1>3, <1>4, <1>5

LEMMA FacingFaces ==
  ASSUME NEW ahead, NEW up, NEW f, NEW g, NEW a, NEW b, NEW c, Along(ahead, up, f, g, a, b, c)
  PROVE  Faces(Facing(f, g), ahead, up)
<1> DEFINE m == Facing(f, g)
           h == Third(f, g)
<1>1. /\ f[1] \in {-1, 0, 1} /\ f[2] \in {-1, 0, 1} /\ f[3] \in {-1, 0, 1}
      /\ g[1] \in {-1, 0, 1} /\ g[2] \in {-1, 0, 1} /\ g[3] \in {-1, 0, 1}
      /\ f[1] * f[1] + f[2] * f[2] + f[3] * f[3] = 1
      /\ g[1] * g[1] + g[2] * g[2] + g[3] * g[3] = 1
      /\ f[1] * g[1] + f[2] * g[2] + f[3] * g[3] = 0
      /\ h[1] = f[2] * g[3] - f[3] * g[2] /\ h[2] = f[3] * g[1] - f[1] * g[3]
      /\ h[3] = f[1] * g[2] - f[2] * g[1]
  BY AxesWritten DEF Along, Dot, Third
<1>2. /\ m[0][0] = h[1] /\ m[0][1] = g[1] /\ m[0][2] = -f[1]
      /\ m[1][0] = h[2] /\ m[1][1] = g[2] /\ m[1][2] = -f[2]
      /\ m[2][0] = h[3] /\ m[2][1] = g[3] /\ m[2][2] = -f[3]
  BY FacingAt
<1>3. /\ a \in Int /\ a > 0 /\ b \in Int /\ b > 0 /\ c \in Int
      /\ ahead[1] = a * f[1] /\ ahead[2] = a * f[2] /\ ahead[3] = a * f[3]
      /\ up[1] = c * f[1] + b * g[1] /\ up[2] = c * f[2] + b * g[2]
      /\ up[3] = c * f[3] + b * g[3]
  BY DEF Along
<1>. HIDE DEF m, h
<1> DEFINE hf == Dots(h[1], h[2], h[3], f)
           hg == Dots(h[1], h[2], h[3], g)
           gf == Dots(g[1], g[2], g[3], f)
           gg == Dots(g[1], g[2], g[3], g)
           ff == Dots(-f[1], -f[2], -f[3], f)
<1>4. hf = 0 /\ hg = 0 /\ gf = 0 /\ gg = 1 /\ ff = -1
  BY <1>1 DEF Dots
<1>5. /\ Row(m, 0, ahead) = Dots(h[1], h[2], h[3], ahead)
      /\ Row(m, 1, ahead) = Dots(g[1], g[2], g[3], ahead)
      /\ Row(m, 2, ahead) = Dots(-f[1], -f[2], -f[3], ahead)
      /\ Row(m, 0, up) = Dots(h[1], h[2], h[3], up)
      /\ Row(m, 1, up) = Dots(g[1], g[2], g[3], up)
  BY <1>2 DEF Row, Dots
<1>6. /\ h[1] \in Int /\ h[2] \in Int /\ h[3] \in Int
      /\ g[1] \in Int /\ g[2] \in Int /\ g[3] \in Int
      /\ -f[1] \in Int /\ -f[2] \in Int /\ -f[3] \in Int
  <2>1. \A k \in {-1, 0, 1} : k \in Int /\ -k \in Int
    OBVIOUS
  <2>2. Third(f, g) \in Axes
    BY ThirdAxis DEF Along
  <2>3. h[1] \in {-1, 0, 1} /\ h[2] \in {-1, 0, 1} /\ h[3] \in {-1, 0, 1}
    BY <2>2, AxesWritten DEF h
  <2>. QED BY <1>1, <2>1, <2>3
<1>7. /\ Row(m, 0, ahead) = a * hf /\ Row(m, 0, up) = c * hf + b * hg
      /\ Row(m, 1, ahead) = a * gf /\ Row(m, 1, up) = c * gf + b * gg
      /\ Row(m, 2, ahead) = a * ff
  <2>. HIDE DEF hf, hg, gf, gg, ff
  <2>1. /\ Dots(h[1], h[2], h[3], ahead) = a * hf
        /\ Dots(h[1], h[2], h[3], up) = c * hf + b * hg
    BY <1>6, DotsAlong DEF hf, hg
  <2>2. /\ Dots(g[1], g[2], g[3], ahead) = a * gf
        /\ Dots(g[1], g[2], g[3], up) = c * gf + b * gg
    BY <1>6, DotsAlong DEF gf, gg
  <2>3. Dots(-f[1], -f[2], -f[3], ahead) = a * ff
    BY <1>6, DotsAlong DEF ff
  <2>. QED BY <1>5, <2>1, <2>2, <2>3
<1>. HIDE DEF hf, hg, gf, gg, ff
<1>. QED
  BY <1>3, <1>4, <1>7 DEF Faces, m

LEMMA OnlyFacing ==
  ASSUME NEW x \in AxisRotations, NEW ahead, NEW up, NEW f, NEW g, NEW a, NEW b, NEW c,
         Along(ahead, up, f, g, a, b, c), Faces(x, ahead, up)
  PROVE  x = Facing(f, g)
<1> DEFINE m == Facing(f, g)
           h == Third(f, g)
<1>1. /\ f[1] \in {-1, 0, 1} /\ f[2] \in {-1, 0, 1} /\ f[3] \in {-1, 0, 1}
      /\ g[1] \in {-1, 0, 1} /\ g[2] \in {-1, 0, 1} /\ g[3] \in {-1, 0, 1}
      /\ f[1] * f[1] + f[2] * f[2] + f[3] * f[3] = 1
      /\ g[1] * g[1] + g[2] * g[2] + g[3] * g[3] = 1
      /\ f[1] * g[1] + f[2] * g[2] + f[3] * g[3] = 0
      /\ h[1] = f[2] * g[3] - f[3] * g[2] /\ h[2] = f[3] * g[1] - f[1] * g[3]
      /\ h[3] = f[1] * g[2] - f[2] * g[1]
  BY AxesWritten DEF Along, Dot, Third
<1>2. /\ m[0][0] = h[1] /\ m[0][1] = g[1] /\ m[0][2] = -f[1]
      /\ m[1][0] = h[2] /\ m[1][1] = g[2] /\ m[1][2] = -f[2]
      /\ m[2][0] = h[3] /\ m[2][1] = g[3] /\ m[2][2] = -f[3]
  BY FacingAt
<1>3. /\ a \in Int /\ a > 0 /\ b \in Int /\ b > 0 /\ c \in Int
      /\ ahead[1] = a * f[1] /\ ahead[2] = a * f[2] /\ ahead[3] = a * f[3]
      /\ up[1] = c * f[1] + b * g[1] /\ up[2] = c * f[2] + b * g[2]
      /\ up[3] = c * f[3] + b * g[3]
  BY DEF Along
<1>4. \A i, j \in 0..2 : x[i][j] \in {-1, 0, 1}
  <2>1. \A i, j \in 0..2 : x[i][j] \in -1..1
    BY DEF AxisRotations
  <2>2. \A k \in -1..1 : k \in {-1, 0, 1}
    OBVIOUS
  <2>. QED BY <2>1, <2>2
<1>5. /\ x[0][0] \in {-1, 0, 1} /\ x[0][1] \in {-1, 0, 1} /\ x[0][2] \in {-1, 0, 1}
      /\ x[1][0] \in {-1, 0, 1} /\ x[1][1] \in {-1, 0, 1} /\ x[1][2] \in {-1, 0, 1}
      /\ x[2][0] \in {-1, 0, 1} /\ x[2][1] \in {-1, 0, 1} /\ x[2][2] \in {-1, 0, 1}
  BY <1>4
<1>. HIDE DEF m, h
<1> DEFINE u == Dots(x[0][0], x[1][0], x[2][0], f)
           v == Dots(x[0][1], x[1][1], x[2][1], f)
           w == Dots(x[0][2], x[1][2], x[2][2], f)
           y == Dots(x[0][0], x[1][0], x[2][0], g)
           z == Dots(x[0][1], x[1][1], x[2][1], g)
<1>16. /\ x[0][0] \in Int /\ x[0][1] \in Int /\ x[0][2] \in Int
       /\ x[1][0] \in Int /\ x[1][1] \in Int /\ x[1][2] \in Int
       /\ x[2][0] \in Int /\ x[2][1] \in Int /\ x[2][2] \in Int
  BY <1>5
<1>6. u \in Int /\ v \in Int /\ w \in Int /\ y \in Int /\ z \in Int
  BY <1>16, DotsAlong
<1>7. /\ Row(x, 0, ahead) = a * u /\ Row(x, 1, ahead) = a * v /\ Row(x, 2, ahead) = a * w
      /\ Row(x, 0, up) = c * u + b * y /\ Row(x, 1, up) = c * v + b * z
  <2>1. /\ Row(x, 0, ahead) = Dots(x[0][0], x[1][0], x[2][0], ahead)
        /\ Row(x, 1, ahead) = Dots(x[0][1], x[1][1], x[2][1], ahead)
        /\ Row(x, 2, ahead) = Dots(x[0][2], x[1][2], x[2][2], ahead)
        /\ Row(x, 0, up) = Dots(x[0][0], x[1][0], x[2][0], up)
        /\ Row(x, 1, up) = Dots(x[0][1], x[1][1], x[2][1], up)
    BY DEF Row, Dots
  <2>2. /\ Dots(x[0][0], x[1][0], x[2][0], ahead) = a * u
        /\ Dots(x[0][0], x[1][0], x[2][0], up) = c * u + b * y
    BY <1>16, DotsAlong
  <2>3. /\ Dots(x[0][1], x[1][1], x[2][1], ahead) = a * v
        /\ Dots(x[0][1], x[1][1], x[2][1], up) = c * v + b * z
    BY <1>16, DotsAlong
  <2>4. Dots(x[0][2], x[1][2], x[2][2], ahead) = a * w
    BY <1>16, DotsAlong
  <2>. QED BY <2>1, <2>2, <2>3, <2>4
<1>8. u = 0 /\ v = 0 /\ w < 0 /\ y = 0 /\ z > 0
  <2>. HIDE DEF u, v, w, y, z
  <2>1. a * u = 0 /\ a * v = 0 /\ a * w < 0 /\ c * u + b * y = 0 /\ c * v + b * z > 0
    BY <1>7 DEF Faces
  <2>2. u = 0 /\ v = 0 /\ w < 0
    BY <1>3, <1>6, <2>1
  <2>3. b * y = 0 /\ b * z > 0
    BY <1>3, <1>6, <2>1, <2>2
  <2>. QED BY <1>3, <1>6, <2>2, <2>3
<1>9. /\ x[0][0] * x[0][0] + x[0][1] * x[0][1] + x[0][2] * x[0][2] = 1
      /\ x[1][0] * x[1][0] + x[1][1] * x[1][1] + x[1][2] * x[1][2] = 1
      /\ x[2][0] * x[2][0] + x[2][1] * x[2][1] + x[2][2] * x[2][2] = 1
      /\ x[0][0] * x[1][0] + x[0][1] * x[1][1] + x[0][2] * x[1][2] = 0
      /\ x[0][0] * x[2][0] + x[0][1] * x[2][1] + x[0][2] * x[2][2] = 0
      /\ x[1][0] * x[2][0] + x[1][1] * x[2][1] + x[1][2] * x[2][2] = 0
  BY DEF AxisRotations
<1>10. x[0][0] * (x[1][1] * x[2][2] - x[1][2] * x[2][1])
         - x[1][0] * (x[0][1] * x[2][2] - x[0][2] * x[2][1])
         + x[2][0] * (x[0][1] * x[1][2] - x[0][2] * x[1][1]) = 1
  BY DEF AxisRotations, matrixDet3
<1>11. /\ x[0][2] = -f[1] /\ x[1][2] = -f[2] /\ x[2][2] = -f[3]
       /\ x[0][1] = g[1] /\ x[1][1] = g[2] /\ x[2][1] = g[3]
       /\ x[0][0] = h[1] /\ x[1][0] = h[2] /\ x[2][0] = h[3]
  <2>1. /\ x[0][0] * f[1] + x[1][0] * f[2] + x[2][0] * f[3] = 0
        /\ x[0][1] * f[1] + x[1][1] * f[2] + x[2][1] * f[3] = 0
        /\ x[0][2] * f[1] + x[1][2] * f[2] + x[2][2] * f[3] < 0
        /\ x[0][0] * g[1] + x[1][0] * g[2] + x[2][0] * g[3] = 0
        /\ x[0][1] * g[1] + x[1][1] * g[2] + x[2][1] * g[3] > 0
    BY <1>8 DEF Dots
  <2>. QED BY <1>1, <1>5, <1>9, <1>10, <2>1, OneTurn
<1>12. m \in [0..2 -> [0..2 -> -1..1]] /\ x \in [0..2 -> [0..2 -> -1..1]]
  BY FacingRotates DEF AxisRotations, Along, m
<1>13. \A i, j \in 0..2 : x[i][j] = m[i][j]
  <2>1. 0..2 = {0, 1, 2}
    OBVIOUS
  <2>2. /\ x[0][0] = m[0][0] /\ x[0][1] = m[0][1] /\ x[0][2] = m[0][2]
        /\ x[1][0] = m[1][0] /\ x[1][1] = m[1][1] /\ x[1][2] = m[1][2]
        /\ x[2][0] = m[2][0] /\ x[2][1] = m[2][1] /\ x[2][2] = m[2][2]
    BY <1>2, <1>11
  <2>. QED BY <2>1, <2>2, Zenon
<1>14. ASSUME NEW i \in 0..2 PROVE x[i] = m[i]
  <2> DEFINE p == x[i]
             n == m[i]
  <2>1. p \in [0..2 -> -1..1] /\ n \in [0..2 -> -1..1] /\ \A j \in 0..2 : p[j] = n[j]
    BY <1>12, <1>13
  <2>. HIDE DEF p, n
  <2>2. p = n
    BY <2>1
  <2>. QED BY <2>2 DEF p, n
<1>15. x = m
  BY <1>12, <1>14
<1>. QED
  BY <1>15 DEF m
\* lookAt's matrix is that rotation.
Placed(m) ==
  [c \in Ix |-> [r \in Ix |-> IF c < 3 /\ r < 3 THEN m[c][r] ELSE IF c = r THEN 1 ELSE 0]]

LEMMA CrossAlong ==
  ASSUME NEW f1 \in Int, NEW f2 \in Int, NEW g1 \in Int, NEW g2 \in Int, NEW b \in Int, NEW c \in Int
  PROVE  f1 * (c * f2 + b * g2) - f2 * (c * f1 + b * g1) = b * (f1 * g2 - f2 * g1)
  BY SMT

LEMMA LookAtMIs ==
  ASSUME NEW eye, NEW center, NEW up, NEW f, NEW g, NEW a, NEW b, NEW c,
         Along([i \in 1..3 |-> center[i] - eye[i]], up, f, g, a, b, c)
  PROVE  LookAtM(eye, center, up) \in Elements /\ LookAtM(eye, center, up) = Placed(Facing(f, g))
<1> DEFINE ahead == [i \in 1..3 |-> center[i] - eye[i]]
           forward == normalized(ahead)
           cross == crossProduct(forward, up)
           side == normalized(cross)
           upVector == crossProduct(side, forward)
           h == Third(f, g)
           cs == [i \in 1..3 |-> <<side[i], upVector[i], -forward[i]>>]
<1>1. /\ f \in Axes /\ g \in Axes /\ Dot(f, g) = 0
      /\ a \in Int /\ a > 0 /\ b \in Int /\ b > 0 /\ c \in Int
      /\ ahead[1] = a * f[1] /\ ahead[2] = a * f[2] /\ ahead[3] = a * f[3]
      /\ up[1] = c * f[1] + b * g[1] /\ up[2] = c * f[2] + b * g[2]
      /\ up[3] = c * f[3] + b * g[3]
  BY DEF Along
<1>2. forward[1] = f[1] /\ forward[2] = f[2] /\ forward[3] = f[3]
  <2>. HIDE DEF ahead
  <2>. QED BY <1>1, NormalizedAxis
<1>3. /\ h \in Axes
      /\ h[2] * f[3] - h[3] * f[2] = g[1]
      /\ h[3] * f[1] - h[1] * f[3] = g[2]
      /\ h[1] * f[2] - h[2] * f[1] = g[3]
  BY <1>1, ThirdAxis
<1>4. /\ f[1] \in Int /\ f[2] \in Int /\ f[3] \in Int
      /\ g[1] \in Int /\ g[2] \in Int /\ g[3] \in Int
      /\ h[1] \in Int /\ h[2] \in Int /\ h[3] \in Int
  <2>. HIDE DEF h
  <2>1. \A k \in {-1, 0, 1} : k \in Int
    OBVIOUS
  <2>. QED BY <1>1, <1>3, <2>1, AxesWritten, ZenonT(40)
<1>5. cross[1] = b * h[1] /\ cross[2] = b * h[2] /\ cross[3] = b * h[3]
  <2>1. /\ cross[1] = f[2] * (c * f[3] + b * g[3]) - f[3] * (c * f[2] + b * g[2])
        /\ cross[2] = f[3] * (c * f[1] + b * g[1]) - f[1] * (c * f[3] + b * g[3])
        /\ cross[3] = f[1] * (c * f[2] + b * g[2]) - f[2] * (c * f[1] + b * g[1])
    <3>. HIDE DEF forward, ahead
    <3>. QED BY <1>1, <1>2 DEF crossProduct
  <2>2. /\ f[2] * (c * f[3] + b * g[3]) - f[3] * (c * f[2] + b * g[2]) = b * (f[2] * g[3] - f[3] * g[2])
        /\ f[3] * (c * f[1] + b * g[1]) - f[1] * (c * f[3] + b * g[3]) = b * (f[3] * g[1] - f[1] * g[3])
        /\ f[1] * (c * f[2] + b * g[2]) - f[2] * (c * f[1] + b * g[1]) = b * (f[1] * g[2] - f[2] * g[1])
    BY <1>1, <1>4, CrossAlong
  <2>. QED BY <2>1, <2>2 DEF Third
<1>6. side[1] = h[1] /\ side[2] = h[2] /\ side[3] = h[3]
  <2>. HIDE DEF cross, h
  <2>. QED BY <1>1, <1>3, <1>5, NormalizedAxis
<1>7. upVector[1] = g[1] /\ upVector[2] = g[2] /\ upVector[3] = g[3]
  <2>. HIDE DEF side, h, forward
  <2>. QED BY <1>2, <1>3, <1>6 DEF crossProduct
<1>. HIDE DEF side, upVector, forward, h
<1>8. /\ cs[1][1] = h[1] /\ cs[1][2] = g[1] /\ cs[1][3] = -f[1]
      /\ cs[2][1] = h[2] /\ cs[2][2] = g[2] /\ cs[2][3] = -f[2]
      /\ cs[3][1] = h[3] /\ cs[3][2] = g[3] /\ cs[3][3] = -f[3]
  BY <1>2, <1>6, <1>7
<1>. HIDE DEF cs
<1>9. \A d, r \in 1..3 : cs[d][r] \in Int
  <2>1. 1..3 = {1, 2, 3}
    OBVIOUS
  <2>2. -f[1] \in Int /\ -f[2] \in Int /\ -f[3] \in Int
    BY <1>4
  <2>3. /\ cs[1][1] \in Int /\ cs[1][2] \in Int /\ cs[1][3] \in Int
        /\ cs[2][1] \in Int /\ cs[2][2] \in Int /\ cs[2][3] \in Int
        /\ cs[3][1] \in Int /\ cs[3][2] \in Int /\ cs[3][3] \in Int
    BY <1>4, <1>8, <2>2
  <2>. QED BY <2>1, <2>3, Zenon
<1>10. LookAtM(eye, center, up) = Affine(cs)
  BY DEF LookAtM, cs, side, upVector, forward
<1>11. /\ Affine(cs) \in Elements
       /\ \A d, r \in 0..2 : Affine(cs)[d][r] = cs[d + 1][r + 1]
       /\ \A d, r \in Ix : d = 3 \/ r = 3 => Affine(cs)[d][r] = IdentityM[d][r]
  BY <1>9, AffineAt
<1>12. \A d, r \in 0..2 : Facing(f, g)[d][r] = cs[d + 1][r + 1]
  <2> DEFINE m == Facing(f, g)
  <2>1. /\ m[0][0] = h[1] /\ m[0][1] = g[1] /\ m[0][2] = -f[1]
        /\ m[1][0] = h[2] /\ m[1][1] = g[2] /\ m[1][2] = -f[2]
        /\ m[2][0] = h[3] /\ m[2][1] = g[3] /\ m[2][2] = -f[3]
    BY FacingAt DEF h
  <2>. HIDE DEF m
  <2>2. \A d, r \in 0..2 : m[d][r] = cs[d + 1][r + 1]
    BY <1>8, <2>1, Three
  <2>. QED BY <2>2 DEF m
<1>13. Placed(Facing(f, g)) = Affine(cs)
  <2>1. ASSUME NEW d \in Ix, NEW r \in Ix
        PROVE  Placed(Facing(f, g))[d][r] = Affine(cs)[d][r]
    <3>1. CASE d < 3 /\ r < 3
      <4>1. d \in 0..2 /\ r \in 0..2
        BY <3>1 DEF Ix
      <4>. QED BY <1>11, <1>12, <3>1, <4>1 DEF Placed
    <3>2. CASE ~(d < 3 /\ r < 3)
      <4>1. d = 3 \/ r = 3
        BY <3>2 DEF Ix
      <4>2. Affine(cs)[d][r] = IdentityM[d][r]
        BY <1>11, <4>1
      <4>. QED BY <3>2, <4>2 DEF Placed, IdentityM
    <3>. QED BY <3>1, <3>2
  <2>2. Affine(cs) = [d \in Ix |-> [r \in Ix |-> Affine(cs)[d][r]]]
    BY <1>11 DEF Elements
  <2>. QED BY <2>1, <2>2 DEF Placed
<1>. QED
  BY <1>10, <1>11, <1>13

\* ViewFrom chooses it.
LEMMA ViewFromIs ==
  ASSUME NEW eye, NEW center, NEW up, NEW f, NEW g, NEW a, NEW b, NEW c,
         Along([i \in 1..3 |-> center[i] - eye[i]], up, f, g, a, b, c)
  PROVE  ViewFrom(eye, center, up)
           = Times(Placed(Facing(f, g)), TranslateBy([i \in 1..3 |-> -eye[i]]))
<1> DEFINE ahead == [i \in 1..3 |-> center[i] - eye[i]]
           m == CHOOSE x \in AxisRotations : Faces(x, ahead, up)
<1>1. Facing(f, g) \in AxisRotations /\ Faces(Facing(f, g), ahead, up)
  BY FacingRotates, FacingFaces DEF Along
<1>2. m \in AxisRotations /\ Faces(m, ahead, up)
  BY <1>1
<1>3. m = Facing(f, g)
  <2>. HIDE DEF m, ahead
  <2>. QED BY <1>2, OnlyFacing DEF ahead
<1>4. ViewFrom(eye, center, up) = Times(Placed(m), TranslateBy([i \in 1..3 |-> -eye[i]]))
  BY DEF ViewFrom, Placed, Faces, Row
<1>. QED
  BY <1>3, <1>4

\* lookAt() turns and moves to the view, for every view along an axis.
LEMMA LookAtExact ==
  ASSUME NEW o, Sound(o), NEW e \in Eyes
  PROVE  /\ LookAtM(e[1], e[2], e[3]) \in Elements
         /\ lookAt(o, e[1], e[2], e[3]).m = Times(o.m, ViewFrom(e[1], e[2], e[3]))
<1> DEFINE ahead == [i \in 1..3 |-> e[2][i] - e[1][i]]
           up == e[3]
           v == [i \in 1..3 |-> -e[1][i]]
           l == LookAtM(e[1], e[2], e[3])
<1>1. PICK f \in Axes, g \in Axes :
        /\ Dot(f, g) = 0 /\ Dot(ahead, f) > 0 /\ Dot(up, g) > 0
        /\ \A i \in 1..3 : /\ ahead[i] = Dot(ahead, f) * f[i]
                           /\ up[i] = Dot(up, f) * f[i] + Dot(up, g) * g[i]
  BY EyesAssumption
<1>2. e[1] \in Vector /\ e[2] \in Vector /\ e[3] \in Vector
  BY ValuesAssumption
<1>3. /\ e[1][1] \in Int /\ e[1][2] \in Int /\ e[1][3] \in Int
      /\ e[2][1] \in Int /\ e[2][2] \in Int /\ e[2][3] \in Int
      /\ up[1] \in Int /\ up[2] \in Int /\ up[3] \in Int
  BY <1>2 DEF Vector
<1>4. ahead[1] \in Int /\ ahead[2] \in Int /\ ahead[3] \in Int
  BY <1>3
<1>5. Dot(ahead, f) \in Int /\ Dot(up, f) \in Int /\ Dot(up, g) \in Int
  <2>1. /\ f[1] \in Int /\ f[2] \in Int /\ f[3] \in Int
        /\ g[1] \in Int /\ g[2] \in Int /\ g[3] \in Int
    <3>1. \A k \in {-1, 0, 1} : k \in Int
      OBVIOUS
    <3>. QED BY <3>1, AxesWritten
  <2>. HIDE DEF ahead, up
  <2>. QED BY <1>3, <1>4, <2>1 DEF Dot
<1>6. Along(ahead, up, f, g, Dot(ahead, f), Dot(up, g), Dot(up, f))
  <2>. HIDE DEF ahead, up
  <2>. QED BY <1>1, <1>5 DEF Along
<1>7. l \in Elements /\ l = Placed(Facing(f, g))
  BY <1>6, LookAtMIs
<1>8. ViewFrom(e[1], e[2], e[3]) = Times(l, TranslateBy(v))
  BY <1>6, <1>7, ViewFromIs
<1>9. v \in Vector
  <2>1. v = <<-e[1][1], -e[1][2], -e[1][3]>>
    OBVIOUS
  <2>. QED BY <1>3, <2>1 DEF Vector
<1>10. Sound(general(l))
  BY <1>7, GeneralSound
<1>11. Sound(multiplyBy(o, general(l)))
  BY <1>10, ProductSound
<1>12. multiplyBy(o, general(l)).m = Times(o.m, l)
  BY <1>7, <1>10, ProductExact DEF general, Object
<1>13. lookAt(o, e[1], e[2], e[3]) = translate(multiplyBy(o, general(l)), v)
  BY DEF lookAt
<1>14. TranslateBy(v) \in Elements /\ o.m \in Elements
  BY <1>9, TranslateByAt, OperandElements
<1>. HIDE DEF l, v
<1>15. lookAt(o, e[1], e[2], e[3]).m = Times(Times(o.m, l), TranslateBy(v))
  BY <1>9, <1>11, <1>12, <1>13, TranslateExact
<1>. QED
  BY <1>7, <1>8, <1>14, <1>15, TimesAssociative DEF l

LEMMA LookAtSound ==
  ASSUME NEW o, Sound(o), NEW e \in Eyes
  PROVE  Sound(lookAt(o, e[1], e[2], e[3]))
<1> DEFINE v == [i \in 1..3 |-> -e[1][i]]
<1>1. v \in Vector
  <2>1. e[1] \in Vector
    BY ValuesAssumption
  <2>2. e[1][1] \in Int /\ e[1][2] \in Int /\ e[1][3] \in Int
    BY <2>1 DEF Vector
  <2>3. v = <<-e[1][1], -e[1][2], -e[1][3]>>
    OBVIOUS
  <2>. QED BY <2>2, <2>3 DEF Vector
<1>2. Sound(general(LookAtM(e[1], e[2], e[3])))
  BY LookAtExact, GeneralSound
<1>3. lookAt(o, e[1], e[2], e[3])
        = translate(multiplyBy(o, general(LookAtM(e[1], e[2], e[3]))), v)
  BY DEF lookAt
<1>. HIDE DEF v
<1>. QED
  BY <1>1, <1>2, <1>3, ProductSound, TranslateSound

-----------------------------------------------------------------------------
(* The sequence of calls. *)

LEMMA OperandsSound ==
  ASSUME NEW o \in Operands
  PROVE  Sound(o)
<1>1. \A m \in Matrices : Sound(general(m))
  BY ValuesAssumption, GeneralSound
<1>2. \A v \in Vectors : Sound(translate(identity, v)) /\ Sound(scale(identity, v))
  BY ValuesAssumption, IdentitySound, TranslateSound, ScaleSound
<1>3. \A turn \in Turns : Sound(rotate(identity, RotationM(turn)))
  BY ValuesAssumption, IdentitySound, RotationPure, RotateSound
<1>. QED
  BY <1>1, <1>2, <1>3, IdentitySound DEF Operands

LEMMA HomogeneousVector ==
  ASSUME NEW p \in Vector
  PROVE  Homogeneous(p) \in [1..4 -> Int]
<1>1. p[1] \in Int /\ p[2] \in Int /\ p[3] \in Int
  BY DEF Vector
<1>. QED
  BY <1>1 DEF Homogeneous

LEMMA CallsSound ==
  Sound(q) /\ [Next]_vars => Sound(q')
<1>. SUFFICES ASSUME Sound(q), [Next]_vars
     PROVE  Sound(q')
  OBVIOUS
<1>0. CASE UNCHANGED vars
  BY <1>0 DEF vars
<1>1. CASE SetToIdentity
  BY <1>1, IdentitySound DEF SetToIdentity, Call
<1>2. CASE Fill
  <2>1. PICK n \in Numbers : q' = fill(n)
    BY <1>2 DEF Fill, Call
  <2>. QED BY <2>1, ElementCallsSound, IdentitySound, ValuesAssumption
<1>3. CASE SetElement
  <2>1. PICK p \in Places, n \in Numbers : q' = setElement(q, p[1], p[2], n)
    BY <1>3 DEF SetElement, Call
  <2>2. p[1] \in Ix /\ p[2] \in Ix /\ n \in Int /\ <<1, 1, 1, 1>> \in [1..4 -> Int]
    BY ValuesAssumption
  <2>. QED BY <2>1, <2>2, WritesSound
<1>4. CASE SetColumn
  <2>1. PICK i \in Ix, p \in Points : q' = setColumn(q, i, Homogeneous(p))
    BY <1>4 DEF SetColumn, Call
  <2>2. Homogeneous(p) \in [1..4 -> Int] /\ 1 \in Int
    BY ValuesAssumption, HomogeneousVector
  <2>. QED BY <2>1, <2>2, WritesSound
<1>5. CASE SetRow
  <2>1. PICK i \in Ix, p \in Points : q' = setRow(q, i, Homogeneous(p))
    BY <1>5 DEF SetRow, Call
  <2>2. Homogeneous(p) \in [1..4 -> Int] /\ 1 \in Int
    BY ValuesAssumption, HomogeneousVector
  <2>. QED BY <2>1, <2>2, WritesSound
<1>6. CASE Plus
  <2>1. PICK o \in Operands : q' = plus(q, o)
    BY <1>6 DEF Plus, Call
  <2>. QED BY <2>1, OperandsSound, ElementCallsSound
<1>7. CASE Minus
  <2>1. PICK o \in Operands : q' = minus(q, o)
    BY <1>7 DEF Minus, Call
  <2>. QED BY <2>1, OperandsSound, ElementCallsSound
<1>8. CASE TimesNumber
  <2>1. PICK n \in Numbers : q' = timesNumber(q, n)
    BY <1>8 DEF TimesNumber, Call
  <2>. QED BY <2>1, ElementCallsSound, ValuesAssumption
<1>9. CASE DividedBy
  <2>1. PICK n \in Numbers \ {0} : q' = dividedBy(q, n)
    BY <1>9 DEF DividedBy, Call
  <2>. QED BY <2>1, ElementCallsSound, ValuesAssumption
<1>10. CASE Negated
  <2>1. q' = negated(q)
    BY <1>10 DEF Negated, Call
  <2>2. 0 \in Int
    OBVIOUS
  <2>. QED BY <2>1, <2>2, ElementCallsSound
<1>11. CASE Transposed
  <2>1. q' = transposed(q) /\ 0 \in Int
    BY <1>11 DEF Transposed, Call
  <2>. QED BY <2>1, ElementCallsSound
<1>12. CASE MultiplyBy
  <2>1. PICK o \in Operands : q' = multiplyBy(q, o)
    BY <1>12 DEF MultiplyBy, Call
  <2>. QED BY <2>1, OperandsSound, ProductSound
<1>13. CASE MultiplyOnto
  <2>1. PICK o \in Operands : q' = product(o, q)
    BY <1>13 DEF MultiplyOnto, Call
  <2>. QED BY <2>1, OperandsSound, ProductSound
<1>14. CASE Scale
  <2>1. PICK v \in Vectors : q' = scale(q, v)
    BY <1>14 DEF Scale, Call
  <2>. QED BY <2>1, ScaleSound, ValuesAssumption
<1>15. CASE Translate
  <2>1. PICK v \in Vectors : q' = translate(q, v)
    BY <1>15 DEF Translate, Call
  <2>. QED BY <2>1, TranslateSound, ValuesAssumption
<1>16. CASE Rotate
  <2>1. PICK turn \in Turns : q' = rotate(q, RotationM(turn))
    BY <1>16 DEF Rotate, Call
  <2>. QED BY <2>1, RotationPure, RotateSound, ValuesAssumption
<1>17. CASE RotateQuaternion
  <2>1. PICK h \in Quaternions : q' = rotate(q, QuaternionM(h))
    BY <1>17 DEF RotateQuaternion, Call
  <2>. QED BY <2>1, QuaternionPure, RotateSound, ValuesAssumption
<1>18. CASE Ortho
  <2>1. PICK w \in Windows : q' = ortho(q, w[1], w[2], w[3], w[4], w[5], w[6])
    BY <1>18 DEF Ortho, Call
  <2>2. /\ w[1] \in Int /\ w[2] \in Int /\ w[3] \in Int
        /\ w[4] \in Int /\ w[5] \in Int /\ w[6] \in Int
    BY ValuesAssumption
  <2>. QED BY <2>1, <2>2, OrthoSound
<1>19. CASE OrthoRect
  <2>1. PICK rect \in Rects : q' = orthoRect(q, rect)
    BY <1>19 DEF OrthoRect, Call
  <2>2. /\ rect.x \in Int /\ rect.x + rect.w \in Int /\ rect.y + rect.h \in Int
        /\ rect.y \in Int /\ -1 \in Int /\ 1 \in Int
    BY ValuesAssumption
  <2>. QED BY <2>1, <2>2, OrthoSound DEF orthoRect
<1>20. CASE Frustum
  <2>1. PICK w \in Windows : q' = frustum(q, w[1], w[2], w[3], w[4], w[5], w[6])
    BY <1>20 DEF Frustum, Call
  <2>2. /\ w[1] \in Int /\ w[2] \in Int /\ w[3] \in Int
        /\ w[4] \in Int /\ w[5] \in Int /\ w[6] \in Int
    BY ValuesAssumption
  <2>. QED BY <2>1, <2>2, FrustumSound
<1>21. CASE Perspective
  <2>1. PICK v \in Views : q' = perspective(q, v[1], v[2], v[3], v[4], v[5])
    BY <1>21 DEF Perspective, Call
  <2>2. v[1] \in BOOLEAN /\ v[2] \in Int /\ v[3] \in Int /\ v[4] \in Int /\ v[5] \in Int
    BY ValuesAssumption
  <2>. QED BY <2>1, <2>2, PerspectiveSound
<1>22. CASE LookAt
  <2>1. PICK e \in Eyes : q' = lookAt(q, e[1], e[2], e[3])
    BY <1>22 DEF LookAt, Call
  <2>. QED BY <2>1, LookAtSound
<1>23. CASE FlipCoordinates
  BY <1>23, FlipSound DEF FlipCoordinates, Call
<1>24. CASE InferSpecialType
  BY <1>24, InferSound DEF InferSpecialType, Call
<1>. QED
  BY <1>0, <1>1, <1>2, <1>3, <1>4, <1>5, <1>6, <1>7, <1>8, <1>9, <1>10, <1>11, <1>12,
     <1>13, <1>14, <1>15, <1>16, <1>17, <1>18, <1>19, <1>20, <1>21, <1>22, <1>23, <1>24
     DEF Next

\* After any calls the flags of a matrix are one of ten combinations and say
\* nothing of its elements that is not so: what the quick paths of scale(),
\* translate(), map(), mapRect() and inverted() leave out is 0 or 1.
THEOREM FlagsAreSound ==
  Spec => []FlagsSound
<1> DEFINE IInv == Sound(q)
<1>1. Init => IInv
  BY OperandsSound DEF Init
<1>2. IInv /\ [Next]_vars => IInv'
  BY CallsSound
<1>3. IInv => FlagsSound
  BY DEF Sound, FlagsSound
<1>. HIDE DEF IInv
<1>. QED
  BY <1>1, <1>2, <1>3, PTL DEF Spec

-----------------------------------------------------------------------------
(* The elements. *)

\* A rectangle with sides of 1 or 2.
LEMMA RectIsWhole ==
  ASSUME NEW rect \in Rects, {rect.w, rect.h} \subseteq {1, 2}
  PROVE  WholeBox(rect.x, rect.x + rect.w, rect.y + rect.h, rect.y, -1, 1)
<1>1. /\ rect.x \in Int /\ rect.y \in Int
      /\ rect.w \in {1, 2} /\ rect.h \in {1, 2}
  BY ValuesAssumption
<1>2. ASSUME NEW d \in {-2, -1, 1, 2} PROVE Divides(d, 2)
  <2>1. /\ (-1) * (-2) = 2 /\ (-2) * (-1) = 2 /\ 2 * 1 = 2 /\ 1 * 2 = 2
        /\ -2 \in Int /\ -1 \in Int /\ 1 \in Int /\ 2 \in Int /\ d # 0
    OBVIOUS
  <2>. QED BY <2>1, OverExact, ZenonT(40) DEF Divides
<1>3. /\ (rect.x + rect.w) - rect.x \in {-2, -1, 1, 2}
      /\ rect.y - (rect.y + rect.h) \in {-2, -1, 1, 2}
      /\ 1 - (-1) \in {-2, -1, 1, 2}
  BY <1>1
<1>4. /\ rect.x \in Int /\ rect.x + rect.w \in Int /\ rect.y + rect.h \in Int
      /\ rect.y \in Int /\ -1 \in Int /\ 1 \in Int
  BY <1>1
<1>. QED
  BY <1>2, <1>3, <1>4 DEF WholeBox

\* A window that is not flat.
LEMMA WindowIsWhole ==
  ASSUME NEW w \in Windows, ~Flat(w)
  PROVE  WholeBox(w[1], w[2], w[3], w[4], w[5], w[6])
<1>1. /\ w[1] \in Int /\ w[2] \in Int /\ w[3] \in Int
      /\ w[4] \in Int /\ w[5] \in Int /\ w[6] \in Int
  BY ValuesAssumption
<1>2. Divides(w[2] - w[1], 2) /\ Divides(w[4] - w[3], 2) /\ Divides(w[6] - w[5], 2)
  BY QuotientsAssumption
<1>. QED
  BY <1>1, <1>2 DEF WholeBox

\* Each call leaves the object with the elements it should.
LEMMA CallsExact ==
  Sound(q) /\ exact = q.m /\ [Next]_vars => exact' = q'.m
<1>. SUFFICES ASSUME Sound(q), exact = q.m, [Next]_vars
     PROVE  exact' = q'.m
  OBVIOUS
<1>0. CASE UNCHANGED vars
  BY <1>0 DEF vars
<1>e. q.m \in Elements /\ \A c, r \in Ix : q.m[c][r] \in Int
  BY OperandElements
<1>1. CASE SetToIdentity
  BY <1>1 DEF SetToIdentity, Call, identity, Object
<1>2. CASE Fill
  BY <1>2 DEF Fill, Call, fill, general, Object
<1>3. CASE SetElement
  BY <1>3 DEF SetElement, Call, setElement, general, Object
<1>4. CASE SetColumn
  BY <1>4 DEF SetColumn, Call, setColumn, general, Object
<1>5. CASE SetRow
  <2>1. PICK i \in Ix, p \in Points :
          /\ q' = setRow(q, i, Homogeneous(p))
          /\ exact' = [c \in Ix |-> [r \in Ix |-> IF r = i THEN Homogeneous(p)[c + 1] ELSE exact[c][r]]]
    BY <1>5 DEF SetRow, Call
  <2>2. q'.m = [c \in Ix |-> [q.m[c] EXCEPT ![i] = Homogeneous(p)[c + 1]]]
    BY <2>1 DEF setRow, general, Object
  <2>3. ASSUME NEW c \in Ix
        PROVE  [q.m[c] EXCEPT ![i] = Homogeneous(p)[c + 1]]
                 = [r \in Ix |-> IF r = i THEN Homogeneous(p)[c + 1] ELSE q.m[c][r]]
    <3>1. q.m[c] \in [Ix -> Int]
      BY <1>e DEF Elements
    <3>. QED BY <3>1
  <2>. QED BY <2>1, <2>2, <2>3
<1>6. CASE Plus
  <2>1. PICK o \in Operands :
          q' = plus(q, o) /\ exact' = [c \in Ix |-> [r \in Ix |-> exact[c][r] + o.m[c][r]]]
    BY <1>6 DEF Plus, Call, Elementwise
  <2>. QED BY <2>1 DEF plus, general, Object
<1>7. CASE Minus
  <2>1. PICK o \in Operands :
          q' = minus(q, o) /\ exact' = [c \in Ix |-> [r \in Ix |-> exact[c][r] - o.m[c][r]]]
    BY <1>7 DEF Minus, Call, Elementwise
  <2>. QED BY <2>1 DEF minus, general, Object
<1>8. CASE TimesNumber
  <2>1. PICK n \in Numbers :
          q' = timesNumber(q, n) /\ exact' = [c \in Ix |-> [r \in Ix |-> exact[c][r] * n]]
    BY <1>8 DEF TimesNumber, Call, Elementwise
  <2>. QED BY <2>1 DEF timesNumber, general, Object
<1>9. CASE DividedBy
  <2>1. PICK n \in Numbers \ {0} :
          q' = dividedBy(q, n) /\ exact' = [c \in Ix |-> [r \in Ix |-> Over(exact[c][r], n)]]
    BY <1>9 DEF DividedBy, Call, Elementwise
  <2>. QED BY <2>1 DEF dividedBy, general, Object
<1>10. CASE Negated
  <2>1. q' = negated(q) /\ exact' = [c \in Ix |-> [r \in Ix |-> 0 - exact[c][r]]]
    BY <1>10 DEF Negated, Call, Elementwise
  <2>2. \A c, r \in Ix : 0 - q.m[c][r] = -q.m[c][r]
    BY <1>e
  <2>. QED BY <2>1, <2>2 DEF negated, general, Object
<1>11. CASE Transposed
  BY <1>11 DEF Transposed, Call, transposed, general, Object
<1>12. CASE MultiplyBy
  <2>1. PICK o \in Operands : q' = multiplyBy(q, o) /\ exact' = Times(exact, o.m)
    BY <1>12 DEF MultiplyBy, Call
  <2>. QED BY <2>1, OperandsSound, ProductExact
<1>13. CASE MultiplyOnto
  <2>1. PICK o \in Operands : q' = product(o, q) /\ exact' = Times(o.m, exact)
    BY <1>13 DEF MultiplyOnto, Call
  <2>. QED BY <2>1, OperandsSound, ProductExact
<1>14. CASE Scale
  <2>1. PICK v \in Vectors : q' = scale(q, v) /\ exact' = Times(exact, ScaleBy(v))
    BY <1>14 DEF Scale, Call
  <2>. QED BY <2>1, ScaleExact, ValuesAssumption
<1>15. CASE Translate
  <2>1. PICK v \in Vectors : q' = translate(q, v) /\ exact' = Times(exact, TranslateBy(v))
    BY <1>15 DEF Translate, Call
  <2>. QED BY <2>1, TranslateExact, ValuesAssumption
<1>16. CASE Rotate
  <2>1. PICK turn \in Turns :
          q' = rotate(q, RotationM(turn)) /\ exact' = Times(exact, TurnBy(turn))
    BY <1>16 DEF Rotate, Call
  <2>2. Pure(RotationM(turn))
    BY RotationPure, ValuesAssumption
  <2>. QED BY <2>1, <2>2, RotateExact, RotationExact
<1>17. CASE RotateQuaternion
  <2>1. PICK h \in Quaternions :
          q' = rotate(q, QuaternionM(h)) /\ exact' = Times(exact, QuaternionBy(h))
    BY <1>17 DEF RotateQuaternion, Call
  <2>2. Pure(QuaternionM(h))
    BY QuaternionPure, ValuesAssumption
  <2>. QED BY <2>1, <2>2, RotateExact, QuaternionExact
<1>18. CASE Ortho
  <2>1. PICK w \in Windows :
          /\ q' = ortho(q, w[1], w[2], w[3], w[4], w[5], w[6])
          /\ exact' = IF Flat(w) THEN exact
                      ELSE Times(exact, BoxToCube(w[1], w[2], w[3], w[4], w[5], w[6]))
    BY <1>18 DEF Ortho, Call
  <2>2. CASE Flat(w)
    BY <2>1, <2>2 DEF ortho, Flat
  <2>3. CASE ~Flat(w)
    BY <2>1, <2>3, WindowIsWhole, OrthoExact
  <2>. QED BY <2>2, <2>3
<1>19. CASE OrthoRect
  <2>1. PICK rect \in Rects :
          /\ {rect.w, rect.h} \subseteq {1, 2}
          /\ q' = ortho(q, rect.x, rect.x + rect.w, rect.y + rect.h, rect.y, -1, 1)
          /\ exact' = Times(exact, BoxToCube(rect.x, rect.x + rect.w, rect.y + rect.h, rect.y, -1, 1))
    BY <1>19 DEF OrthoRect, Call, orthoRect
  <2>2. WholeBox(rect.x, rect.x + rect.w, rect.y + rect.h, rect.y, -1, 1)
    BY <2>1, RectIsWhole
  <2>. QED BY <2>1, <2>2, OrthoExact
<1>20. CASE Frustum
  <2>1. PICK w \in Windows :
          /\ q' = frustum(q, w[1], w[2], w[3], w[4], w[5], w[6])
          /\ exact' = IF Flat(w) THEN exact
                      ELSE Times(exact, FrustumBy(w[1], w[2], w[3], w[4], w[5], w[6]))
    BY <1>20 DEF Frustum, Call
  <2>2. CASE Flat(w)
    BY <2>1, <2>2 DEF frustum, Flat
  <2>3. CASE ~Flat(w)
    BY <2>1, <2>3, WindowIsWhole, FrustumExact
  <2>. QED BY <2>2, <2>3
<1>21. CASE Perspective
  <2>1. PICK v \in Views :
          /\ q' = perspective(q, v[1], v[2], v[3], v[4], v[5])
          /\ exact' = IF Blind(v) THEN exact
                      ELSE Times(exact, PerspectiveBy(v[2], v[3], v[4], v[5]))
    BY <1>21 DEF Perspective, Call
  <2>2. CASE Blind(v)
    BY <2>1, <2>2 DEF perspective, Blind
  <2>3. CASE ~Blind(v)
    BY <2>1, <2>3, PerspectiveExact
  <2>. QED BY <2>2, <2>3
<1>22. CASE LookAt
  <2>1. PICK e \in Eyes :
          q' = lookAt(q, e[1], e[2], e[3]) /\ exact' = Times(exact, ViewFrom(e[1], e[2], e[3]))
    BY <1>22 DEF LookAt, Call
  <2>. QED BY <2>1, LookAtExact
<1>23. CASE FlipCoordinates
  BY <1>23, FlipExact DEF FlipCoordinates, Call
<1>24. CASE InferSpecialType
  BY <1>24 DEF InferSpecialType, Call, inferSpecialType, Object
<1>. QED
  BY <1>0, <1>1, <1>2, <1>3, <1>4, <1>5, <1>6, <1>7, <1>8, <1>9, <1>10, <1>11, <1>12,
     <1>13, <1>14, <1>15, <1>16, <1>17, <1>18, <1>19, <1>20, <1>21, <1>22, <1>23, <1>24
     DEF Next

\* The invariant of the object and of the elements it should have.
Right == Sound(q) /\ exact = q.m /\ calls \in 0..MaxCalls

LEMMA RightAlways ==
  Spec => []Right
<1>1. Init => Right
  BY OperandsSound, ValuesAssumption DEF Init, Right
<1>2. Right /\ [Next]_vars => Right'
  <2>. SUFFICES ASSUME Right, [Next]_vars PROVE Right'
    OBVIOUS
  <2>1. Sound(q)' /\ exact' = q'.m
    BY CallsSound, CallsExact DEF Right
  <2>2. calls' \in 0..MaxCalls
    <3>1. calls' = calls \/ (calls < MaxCalls /\ calls' = calls + 1)
      BY DEF vars, Next, Call, SetToIdentity, Fill, SetElement, SetColumn, SetRow, Plus, Minus,
             TimesNumber, DividedBy, Negated, Transposed, MultiplyBy, MultiplyOnto, Scale,
             Translate, Rotate, RotateQuaternion, Ortho, OrthoRect, Frustum, Perspective,
             LookAt, FlipCoordinates, InferSpecialType
    <3>. QED BY <3>1, ValuesAssumption DEF Right
  <2>. QED BY <2>1, <2>2 DEF Right
<1>. QED
  BY <1>1, <1>2, PTL DEF Spec

\* The object, the elements and the number of calls are of their types.
THEOREM TypeCorrect ==
  Spec => []TypeOK
<1>1. Right => TypeOK
  <2>. SUFFICES ASSUME Right PROVE TypeOK
    OBVIOUS
  <2>1. q \in [m : Elements, flagBits : SUBSET Flags] /\ q.flagBits \in FlagSets
    BY DEF Right, Sound
  <2>2. q \in [m : Elements, flagBits : FlagSets]
    BY <2>1
  <2>3. exact \in Elements /\ calls \in 0..MaxCalls
    BY <2>1 DEF Right
  <2>. QED BY <2>2, <2>3 DEF TypeOK
<1>. QED
  BY <1>1, RightAlways, PTL

\* Whatever was called before, and whichever of its paths the flags choose,
\* every call multiplies, scales, moves, turns, projects or looks as its comment
\* says: the elements are those of the product, for all arguments whose
\* quotients are integers and all views along an axis.
THEOREM ElementsAreExact ==
  Spec => []ElementsExact
<1>1. Right => ElementsExact
  BY DEF Right, ElementsExact
<1>. QED
  BY <1>1, RightAlways, PTL

-----------------------------------------------------------------------------
(* Mapping. *)

\* A product with a column and with a row, written out.
LEMMA MapVectorIs ==
  ASSUME NEW o, NEW a, NEW b, NEW e, NEW f
  PROVE  /\ MapVector4(o, <<a, b, e, f>>)
              = <<a * o.m[0][0] + b * o.m[1][0] + e * o.m[2][0] + f * o.m[3][0],
                  a * o.m[0][1] + b * o.m[1][1] + e * o.m[2][1] + f * o.m[3][1],
                  a * o.m[0][2] + b * o.m[1][2] + e * o.m[2][2] + f * o.m[3][2],
                  a * o.m[0][3] + b * o.m[1][3] + e * o.m[2][3] + f * o.m[3][3]>>
         /\ RowVector4(<<a, b, e, f>>, o)
              = <<a * o.m[0][0] + b * o.m[0][1] + e * o.m[0][2] + f * o.m[0][3],
                  a * o.m[1][0] + b * o.m[1][1] + e * o.m[1][2] + f * o.m[1][3],
                  a * o.m[2][0] + b * o.m[2][1] + e * o.m[2][2] + f * o.m[2][3],
                  a * o.m[3][0] + b * o.m[3][1] + e * o.m[3][2] + f * o.m[3][3]>>
  BY DEF MapVector4, RowVector4

\* The four quick paths of map() leave out elements that are 0 or 1.
LEMMA MapIs ==
  ASSUME NEW o, Sound(o), NEW p \in Vector
  PROVE  /\ map(o, p) = MapVector4(o, <<p[1], p[2], p[3], 1>>)
         /\ LET v == MapVector4(o, <<p[1], p[2], 0, 1>>)
            IN  map2(o, p) = <<v[1], v[2], v[4]>>
<1> DEFINE m == o.m
           x == p[1]
           y == p[2]
           z == p[3]
           flat == MapVector4(o, <<x, y, 0, 1>>)
<1>1. x \in Int /\ y \in Int /\ z \in Int
  BY DEF Vector
<1>2. \A c, r \in Ix : m[c][r] \in Int
  BY OperandElements
<1>3. /\ m[0][0] \in Int /\ m[1][0] \in Int /\ m[2][0] \in Int /\ m[3][0] \in Int
      /\ m[0][1] \in Int /\ m[1][1] \in Int /\ m[2][1] \in Int /\ m[3][1] \in Int
      /\ m[0][2] \in Int /\ m[1][2] \in Int /\ m[2][2] \in Int /\ m[3][2] \in Int
      /\ m[0][3] \in Int /\ m[1][3] \in Int /\ m[2][3] \in Int /\ m[3][3] \in Int
  BY <1>2 DEF Ix
<1> DEFINE V(e) == <<x * m[0][0] + y * m[1][0] + e * m[2][0] + 1 * m[3][0],
                     x * m[0][1] + y * m[1][1] + e * m[2][1] + 1 * m[3][1],
                     x * m[0][2] + y * m[1][2] + e * m[2][2] + 1 * m[3][2],
                     x * m[0][3] + y * m[1][3] + e * m[2][3] + 1 * m[3][3]>>
<1>4. MapVector4(o, <<x, y, z, 1>>) = V(z) /\ flat = V(0)
  BY MapVectorIs
<1>5. CASE o.flagBits \in {{"Identity"}, {"Translation"}, {"Scale"}, {"Translation", "Scale"}}
  <2>1. Diagonal3(m) /\ AffineRow(m)
    BY <1>5 DEF Sound, ShapeOf
  <2>2. ASSUME NEW e \in Int
        PROVE  V(e) = <<x * m[0][0] + m[3][0], y * m[1][1] + m[3][1], e * m[2][2] + m[3][2], 1>>
    <3>1. /\ x * m[0][0] + y * m[1][0] + e * m[2][0] + 1 * m[3][0] = x * m[0][0] + m[3][0]
          /\ x * m[0][1] + y * m[1][1] + e * m[2][1] + 1 * m[3][1] = y * m[1][1] + m[3][1]
          /\ x * m[0][2] + y * m[1][2] + e * m[2][2] + 1 * m[3][2] = e * m[2][2] + m[3][2]
          /\ x * m[0][3] + y * m[1][3] + e * m[2][3] + 1 * m[3][3] = 1
      <4>. HIDE DEF m, x, y
      <4>. QED BY <1>1, <1>3, <2>1 DEF Diagonal3, AffineRow
    <3>. QED BY <3>1
  <2>3. /\ V(z) = <<x * m[0][0] + m[3][0], y * m[1][1] + m[3][1], z * m[2][2] + m[3][2], 1>>
        /\ V(0) = <<x * m[0][0] + m[3][0], y * m[1][1] + m[3][1], 0 * m[2][2] + m[3][2], 1>>
    <3>1. 0 \in Int
      OBVIOUS
    <3>. HIDE DEF V
    <3>. QED BY <1>1, <2>2, <3>1
  <2>4. flat[1] = x * m[0][0] + m[3][0] /\ flat[2] = y * m[1][1] + m[3][1] /\ flat[4] = 1
    <3>. HIDE DEF V, flat, m, x, y
    <3>. QED BY <1>4, <2>3
  <2>5. CASE o.flagBits = {"Identity"}
    <3>1. Ones(m) /\ NotMoved(m)
      BY <2>5 DEF Sound, ShapeOf
    <3>2. map(o, p) = <<x, y, z, 1>> /\ map2(o, p) = <<x, y, 1>>
      BY <2>5 DEF map, map2, Is
    <3>. HIDE DEF V, flat, m, x, y, z
    <3>3. /\ x * m[0][0] + m[3][0] = x /\ y * m[1][1] + m[3][1] = y /\ z * m[2][2] + m[3][2] = z
      BY <1>1, <3>1 DEF Ones, NotMoved
    <3>. QED BY <1>4, <2>3, <2>4, <3>2, <3>3 DEF x, y, z, flat
  <2>6. CASE o.flagBits = {"Translation"}
    <3>1. Ones(m)
      BY <2>6 DEF Sound, ShapeOf
    <3>2. /\ map(o, p) = <<x + m[3][0], y + m[3][1], z + m[3][2], 1>>
          /\ map2(o, p) = <<x + m[3][0], y + m[3][1], 1>>
      BY <2>6 DEF map, map2, Is
    <3>. HIDE DEF V, flat, m, x, y, z
    <3>3. x * m[0][0] = x /\ y * m[1][1] = y /\ z * m[2][2] = z
      BY <1>1, <3>1 DEF Ones
    <3>. QED BY <1>4, <2>3, <2>4, <3>2, <3>3 DEF x, y, z, flat
  <2>7. CASE o.flagBits = {"Scale"}
    <3>1. NotMoved(m)
      BY <2>7 DEF Sound, ShapeOf
    <3>2. /\ map(o, p) = <<x * m[0][0], y * m[1][1], z * m[2][2], 1>>
          /\ map2(o, p) = <<x * m[0][0], y * m[1][1], 1>>
      BY <2>7 DEF map, map2, Is
    <3>. HIDE DEF V, flat, m, x, y, z
    <3>3. /\ x * m[0][0] + m[3][0] = x * m[0][0] /\ y * m[1][1] + m[3][1] = y * m[1][1]
          /\ z * m[2][2] + m[3][2] = z * m[2][2]
      BY <1>1, <1>3, <3>1 DEF NotMoved
    <3>. QED BY <1>4, <2>3, <2>4, <3>2, <3>3 DEF x, y, z, flat
  <2>8. CASE o.flagBits = {"Translation", "Scale"}
    <3>2. /\ map(o, p) = <<x * m[0][0] + m[3][0], y * m[1][1] + m[3][1], z * m[2][2] + m[3][2], 1>>
          /\ map2(o, p) = <<x * m[0][0] + m[3][0], y * m[1][1] + m[3][1], 1>>
      BY <2>8 DEF map, map2, Is
    <3>. HIDE DEF V, flat, m, x, y, z
    <3>. QED BY <1>4, <2>3, <2>4, <3>2 DEF x, y, z, flat
  <2>. QED BY <1>5, <2>5, <2>6, <2>7, <2>8
<1>6. CASE o.flagBits \notin {{"Identity"}, {"Translation"}, {"Scale"}, {"Translation", "Scale"}}
  BY <1>6 DEF map, map2, Is
<1>. QED
  BY <1>5, <1>6

\* Four places of the plane, one by one.
LEMMA MapsOf ==
  ASSUME NEW o, Sound(o), NEW p \in Vector
  PROVE  LET v == MapVector4(o, Homogeneous(p))
             flat == MapVector4(o, <<p[1], p[2], 0, 1>>)
         IN  /\ map(o, p) = v
             /\ RowPoint(p, transposed(o)) = v
             /\ map2(o, p) = <<flat[1], flat[2], flat[4]>>
             /\ RowPoint2(p, transposed(o)) = map2(o, p)
             /\ map2(fromTransform(toTransform(o)), p) = map2(o, p)
             /\ AffineRow(o.m) => map2(fromAffine(toAffine(o)), p) = map2(o, p)
<1> DEFINE m == o.m
           x == p[1]
           y == p[2]
           z == p[3]
           v == MapVector4(o, Homogeneous(p))
           flat == MapVector4(o, <<x, y, 0, 1>>)
           t == transposed(o)
<1>1. x \in Int /\ y \in Int /\ z \in Int
  BY DEF Vector
<1>2. m \in Elements /\ \A c, r \in Ix : m[c][r] \in Int
  BY OperandElements
<1>3. /\ m[0][0] \in Int /\ m[1][0] \in Int /\ m[2][0] \in Int /\ m[3][0] \in Int
      /\ m[0][1] \in Int /\ m[1][1] \in Int /\ m[2][1] \in Int /\ m[3][1] \in Int
      /\ m[0][2] \in Int /\ m[1][2] \in Int /\ m[2][2] \in Int /\ m[3][2] \in Int
      /\ m[0][3] \in Int /\ m[1][3] \in Int /\ m[2][3] \in Int /\ m[3][3] \in Int
  BY <1>2 DEF Ix
<1>4. map(o, p) = v /\ map2(o, p) = <<flat[1], flat[2], flat[4]>>
  BY MapIs DEF Homogeneous
<1>5. \A c, r \in Ix : t.m[c][r] = m[r][c]
  BY DEF transposed, general, Object
<1>6. /\ t.m[0][0] = m[0][0] /\ t.m[0][1] = m[1][0] /\ t.m[0][2] = m[2][0] /\ t.m[0][3] = m[3][0]
      /\ t.m[1][0] = m[0][1] /\ t.m[1][1] = m[1][1] /\ t.m[1][2] = m[2][1] /\ t.m[1][3] = m[3][1]
      /\ t.m[2][0] = m[0][2] /\ t.m[2][1] = m[1][2] /\ t.m[2][2] = m[2][2] /\ t.m[2][3] = m[3][2]
      /\ t.m[3][0] = m[0][3] /\ t.m[3][1] = m[1][3] /\ t.m[3][2] = m[2][3] /\ t.m[3][3] = m[3][3]
  BY <1>5 DEF Ix
<1>. HIDE DEF t
<1>7. \A e : RowVector4(<<x, y, e, 1>>, t) = MapVector4(o, <<x, y, e, 1>>)
  <2>. TAKE e
  <2>1. RowVector4(<<x, y, e, 1>>, t)
          = <<x * t.m[0][0] + y * t.m[0][1] + e * t.m[0][2] + 1 * t.m[0][3],
              x * t.m[1][0] + y * t.m[1][1] + e * t.m[1][2] + 1 * t.m[1][3],
              x * t.m[2][0] + y * t.m[2][1] + e * t.m[2][2] + 1 * t.m[2][3],
              x * t.m[3][0] + y * t.m[3][1] + e * t.m[3][2] + 1 * t.m[3][3]>>
    BY MapVectorIs
  <2>2. MapVector4(o, <<x, y, e, 1>>)
          = <<x * m[0][0] + y * m[1][0] + e * m[2][0] + 1 * m[3][0],
              x * m[0][1] + y * m[1][1] + e * m[2][1] + 1 * m[3][1],
              x * m[0][2] + y * m[1][2] + e * m[2][2] + 1 * m[3][2],
              x * m[0][3] + y * m[1][3] + e * m[2][3] + 1 * m[3][3]>>
    BY MapVectorIs
  <2>. QED BY <1>6, <2>1, <2>2
<1>8. RowPoint(p, t) = v
  BY <1>7 DEF RowPoint, Homogeneous
<1>9. RowPoint2(p, t) = map2(o, p)
  <2>1. RowVector4(<<x, y, 0, 1>>, t) = flat
    BY <1>7
  <2>. QED BY <1>4, <2>1 DEF RowPoint2
<1>10. ASSUME NEW n, n \in Elements,
              n[0][0] = m[0][0], n[1][0] = m[1][0], n[3][0] = m[3][0],
              n[0][1] = m[0][1], n[1][1] = m[1][1], n[3][1] = m[3][1],
              n[0][3] = m[0][3], n[1][3] = m[1][3], n[3][3] = m[3][3]
       PROVE  map2(general(n), p) = map2(o, p)
  <2> DEFINE g == general(n)
             w == MapVector4(g, <<x, y, 0, 1>>)
  <2>1. Sound(g) /\ g.m = n
    BY <1>10, GeneralSound DEF general, Object
  <2>. HIDE DEF g
  <2>2. map2(g, p) = <<w[1], w[2], w[4]>>
    BY <2>1, MapIs
  <2>3. n[2][0] \in Int /\ n[2][1] \in Int /\ n[2][3] \in Int
    BY <1>10 DEF Elements, Ix
  <2>4. /\ w[1] = x * n[0][0] + y * n[1][0] + 0 * n[2][0] + 1 * n[3][0]
        /\ w[2] = x * n[0][1] + y * n[1][1] + 0 * n[2][1] + 1 * n[3][1]
        /\ w[4] = x * n[0][3] + y * n[1][3] + 0 * n[2][3] + 1 * n[3][3]
    BY <2>1, MapVectorIs
  <2>5. /\ flat[1] = x * m[0][0] + y * m[1][0] + 0 * m[2][0] + 1 * m[3][0]
        /\ flat[2] = x * m[0][1] + y * m[1][1] + 0 * m[2][1] + 1 * m[3][1]
        /\ flat[4] = x * m[0][3] + y * m[1][3] + 0 * m[2][3] + 1 * m[3][3]
    BY MapVectorIs
  <2>6. /\ 0 * n[2][0] = 0 * m[2][0] /\ 0 * n[2][1] = 0 * m[2][1] /\ 0 * n[2][3] = 0 * m[2][3]
    BY <1>3, <2>3
  <2>7. w[1] = flat[1] /\ w[2] = flat[2] /\ w[4] = flat[4]
    <3>. HIDE DEF w, flat, m
    <3>. QED BY <1>10, <2>4, <2>5, <2>6
  <2>. QED BY <1>4, <2>2, <2>7 DEF g
<1>11. map2(fromTransform(toTransform(o)), p) = map2(o, p)
  <2> DEFINE cs == <<<<m[0][0], m[0][1], 0, m[0][3]>>, <<m[1][0], m[1][1], 0, m[1][3]>>,
                     <<0, 0, 1, 0>>, <<m[3][0], m[3][1], 0, m[3][3]>>>>
  <2>1. fromTransform(toTransform(o)) = general(Columns(cs))
    BY DEF fromTransform, toTransform
  <2>2. Columns(cs) \in Elements /\ \A c, r \in Ix : Columns(cs)[c][r] = cs[c + 1][r + 1]
    <3>1. \A i, j \in 1..4 : cs[i][j] \in Int
      <4>. HIDE DEF m
      <4>. QED BY <1>3
    <3>. HIDE DEF cs
    <3>. QED BY <3>1, ColumnsAt
  <2>3. /\ Columns(cs)[0][0] = m[0][0] /\ Columns(cs)[0][1] = m[0][1] /\ Columns(cs)[0][3] = m[0][3]
        /\ Columns(cs)[1][0] = m[1][0] /\ Columns(cs)[1][1] = m[1][1] /\ Columns(cs)[1][3] = m[1][3]
        /\ Columns(cs)[3][0] = m[3][0] /\ Columns(cs)[3][1] = m[3][1] /\ Columns(cs)[3][3] = m[3][3]
    <3>1. /\ cs[0 + 1][0 + 1] = m[0][0] /\ cs[0 + 1][1 + 1] = m[0][1] /\ cs[0 + 1][3 + 1] = m[0][3]
          /\ cs[1 + 1][0 + 1] = m[1][0] /\ cs[1 + 1][1 + 1] = m[1][1] /\ cs[1 + 1][3 + 1] = m[1][3]
          /\ cs[3 + 1][0 + 1] = m[3][0] /\ cs[3 + 1][1 + 1] = m[3][1] /\ cs[3 + 1][3 + 1] = m[3][3]
      OBVIOUS
    <3>. HIDE DEF cs, m
    <3>. QED BY <2>2, <3>1 DEF Ix
  <2>. HIDE DEF cs
  <2>. QED BY <1>10, <2>1, <2>2, <2>3
<1>12. AffineRow(m) => map2(fromAffine(toAffine(o)), p) = map2(o, p)
  <2>. SUFFICES ASSUME AffineRow(m) PROVE map2(fromAffine(toAffine(o)), p) = map2(o, p)
    OBVIOUS
  <2> DEFINE cs == <<<<m[0][0], m[0][1], 0, 0>>, <<m[1][0], m[1][1], 0, 0>>,
                     <<0, 0, 1, 0>>, <<m[3][0], m[3][1], 0, 1>>>>
  <2>1. fromAffine(toAffine(o)) = general(Columns(cs))
    BY DEF fromAffine, toAffine, fromTransform
  <2>2. Columns(cs) \in Elements /\ \A c, r \in Ix : Columns(cs)[c][r] = cs[c + 1][r + 1]
    <3>1. \A i, j \in 1..4 : cs[i][j] \in Int
      <4>. HIDE DEF m
      <4>. QED BY <1>3
    <3>. HIDE DEF cs
    <3>. QED BY <3>1, ColumnsAt
  <2>3. m[0][3] = 0 /\ m[1][3] = 0 /\ m[3][3] = 1
    BY DEF AffineRow
  <2>4. /\ Columns(cs)[0][0] = m[0][0] /\ Columns(cs)[0][1] = m[0][1] /\ Columns(cs)[0][3] = m[0][3]
        /\ Columns(cs)[1][0] = m[1][0] /\ Columns(cs)[1][1] = m[1][1] /\ Columns(cs)[1][3] = m[1][3]
        /\ Columns(cs)[3][0] = m[3][0] /\ Columns(cs)[3][1] = m[3][1] /\ Columns(cs)[3][3] = m[3][3]
    <3>1. /\ cs[0 + 1][0 + 1] = m[0][0] /\ cs[0 + 1][1 + 1] = m[0][1] /\ cs[0 + 1][3 + 1] = 0
          /\ cs[1 + 1][0 + 1] = m[1][0] /\ cs[1 + 1][1 + 1] = m[1][1] /\ cs[1 + 1][3 + 1] = 0
          /\ cs[3 + 1][0 + 1] = m[3][0] /\ cs[3 + 1][1 + 1] = m[3][1] /\ cs[3 + 1][3 + 1] = 1
      OBVIOUS
    <3>. HIDE DEF cs, m
    <3>. QED BY <2>2, <2>3, <3>1 DEF Ix
  <2>. HIDE DEF cs
  <2>. QED BY <1>10, <2>1, <2>2, <2>4
<1>. QED
  BY <1>4, <1>8, <1>9, <1>11, <1>12 DEF t

\* What is written to a generic matrix and read back.
LEMMA GenericIs ==
  ASSUME NEW o, Sound(o)
  PROVE  /\ isIdentity(o) = equal(o, identity)
         /\ fromGeneric(toGeneric(o, 4, 4), 4, 4).m = o.m
         /\ fromGeneric(toGeneric(o, 3, 2), 3, 2).m
              = [c \in Ix |-> [r \in Ix |-> IF c < 3 /\ r < 2 THEN o.m[c][r] ELSE IdentityM[c][r]]]
<1>1. isIdentity(o) = equal(o, identity)
  <2>1. o.flagBits = {"Identity"} => o.m = IdentityM
    BY FlaggedIdentity
  <2>. QED BY <2>1 DEF isIdentity, equal, identity, Object, Is
<1>2. fromGeneric(toGeneric(o, 4, 4), 4, 4).m = o.m
  <2>1. \A c \in Ix, r \in Ix :
          c < 4 /\ r < 4 /\ c \in 0..(4 - 1) /\ r \in 0..(4 - 1)
    BY DEF Ix
  <2>2. fromGeneric(toGeneric(o, 4, 4), 4, 4).m = [c \in Ix |-> [r \in Ix |-> o.m[c][r]]]
    BY <2>1 DEF fromGeneric, toGeneric, general, Object
  <2>3. o.m = [c \in Ix |-> [r \in Ix |-> o.m[c][r]]]
    BY OperandElements DEF Elements
  <2>. QED BY <2>2, <2>3
<1>3. fromGeneric(toGeneric(o, 3, 2), 3, 2).m
        = [c \in Ix |-> [r \in Ix |-> IF c < 3 /\ r < 2 THEN o.m[c][r] ELSE IdentityM[c][r]]]
  <2>1. \A c \in Ix, r \in Ix :
          c < 3 /\ r < 2 => c \in 0..(3 - 1) /\ r \in 0..(2 - 1)
    BY DEF Ix
  <2>2. ASSUME NEW c \in Ix, NEW r \in Ix
        PROVE  (IF c < 3 /\ r < 2 THEN toGeneric(o, 3, 2)[c][r] ELSE IF c = r THEN 1 ELSE 0)
                 = IF c < 3 /\ r < 2 THEN o.m[c][r] ELSE IdentityM[c][r]
    BY <2>1 DEF toGeneric, IdentityM
  <2>. QED BY <2>2 DEF fromGeneric, general, Object
<1>. QED
  BY <1>1, <1>2, <1>3

\* Points go where the elements take them, on the quick paths and the general
\* one, as columns and as rows, and through the conversions of Qt's types.
THEOREM MapsAreExact ==
  Spec => []MapsExact
<1>1. Right => MapsExact
  BY MapsOf, GenericIs, ValuesAssumption DEF Right, MapsExact
<1>. QED
  BY <1>1, RightAlways, PTL

\* The rectangle around the four places of a rectangle's corners, with the
\* place of the first and the sides' products given.
LEMMA AroundIs ==
  ASSUME NEW ps, NEW x \in Int, NEW y \in Int, NEW w \in Int, NEW h \in Int,
         ps[1][1] = x, ps[2][1] = x + w, ps[3][1] = x, ps[4][1] = x + w,
         ps[1][2] = y, ps[2][2] = y, ps[3][2] = y + h, ps[4][2] = y + h
  PROVE  Around(ps) = [x |-> IF w < 0 THEN x + w ELSE x, y |-> IF h < 0 THEN y + h ELSE y,
                       w |-> IF w < 0 THEN -w ELSE w, h |-> IF h < 0 THEN -h ELSE h]
<1> DEFINE lx == IF w < 0 THEN x + w ELSE x
           ly == IF h < 0 THEN y + h ELSE y
           mx == IF w < 0 THEN x ELSE x + w
           my == IF h < 0 THEN y ELSE y + h
<1>1. /\ min2(min2(ps[1][1], ps[2][1]), min2(ps[3][1], ps[4][1])) = lx
      /\ max2(max2(ps[1][1], ps[2][1]), max2(ps[3][1], ps[4][1])) = mx
  BY DEF min2, max2
<1>2. /\ min2(min2(ps[1][2], ps[2][2]), min2(ps[3][2], ps[4][2])) = ly
      /\ max2(max2(ps[1][2], ps[2][2]), max2(ps[3][2], ps[4][2])) = my
  BY DEF min2, max2
<1>3. Around(ps) = [x |-> lx, y |-> ly, w |-> mx - lx, h |-> my - ly]
  <2>. HIDE DEF lx, ly, mx, my
  <2>. QED BY <1>1, <1>2 DEF Around
<1>4. mx - lx = (IF w < 0 THEN -w ELSE w) /\ my - ly = (IF h < 0 THEN -h ELSE h)
  OBVIOUS
<1>. QED
  BY <1>3, <1>4

\* The rectangle mapRect() returns, turned around on every path.
LEMMA MapRectIs ==
  ASSUME NEW o, Sound(o), NEW rect \in Rects
  PROVE  LET at == [i \in 1..4 |->
                      MapVector4(o, <<Corners(rect)[i][1], Corners(rect)[i][2], 0, 1>>)]
         IN  mapRect(o, rect) = Around(at)
<1> DEFINE m == o.m
           k == Corners(rect)
           at == [i \in 1..4 |-> MapVector4(o, <<k[i][1], k[i][2], 0, 1>>)]
           sx == m[0][0]
           sy == m[1][1]
           dx == m[3][0]
           dy == m[3][1]
<1>1. rect.x \in Int /\ rect.y \in Int /\ rect.w \in Nat /\ rect.h \in Nat
  BY ValuesAssumption
<1>2. \A c, r \in Ix : m[c][r] \in Int
  BY OperandElements
<1>3. /\ sx \in Int /\ sy \in Int /\ dx \in Int /\ dy \in Int
      /\ m[0][1] \in Int /\ m[1][0] \in Int /\ m[2][0] \in Int /\ m[2][1] \in Int
  BY <1>2 DEF Ix
<1>4. \A i \in 1..4 :
        /\ at[i][1] = k[i][1] * m[0][0] + k[i][2] * m[1][0] + 0 * m[2][0] + 1 * m[3][0]
        /\ at[i][2] = k[i][1] * m[0][1] + k[i][2] * m[1][1] + 0 * m[2][1] + 1 * m[3][1]
  BY MapVectorIs
<1>5. CASE o.flagBits \in {{"Translation"}, {"Scale"}, {"Translation", "Scale"}}
  <2>1. m[0][1] = 0 /\ m[1][0] = 0
    BY <1>5 DEF Sound, ShapeOf, Diagonal3
  <2>2. \A a \in Int, b \in Int :
          /\ a * m[0][0] + b * m[1][0] + 0 * m[2][0] + 1 * m[3][0] = a * sx + dx
          /\ a * m[0][1] + b * m[1][1] + 0 * m[2][1] + 1 * m[3][1] = b * sy + dy
    BY <1>3, <2>1
  <2>3. /\ k[1] = <<rect.x, rect.y>> /\ k[2] = <<rect.x + rect.w, rect.y>>
        /\ k[3] = <<rect.x, rect.y + rect.h>> /\ k[4] = <<rect.x + rect.w, rect.y + rect.h>>
    BY DEF Corners
  <2> DEFINE x == rect.x * sx + dx
             y == rect.y * sy + dy
             w == rect.w * sx
             h == rect.h * sy
  <2>4. /\ (rect.x + rect.w) * sx + dx = x + w
        /\ (rect.y + rect.h) * sy + dy = y + h
        /\ x \in Int /\ y \in Int /\ w \in Int /\ h \in Int
    BY <1>1, <1>3
  <2>5. /\ at[1][1] = x /\ at[2][1] = x + w /\ at[3][1] = x /\ at[4][1] = x + w
        /\ at[1][2] = y /\ at[2][2] = y /\ at[3][2] = y + h /\ at[4][2] = y + h
    <3>1. \A i \in 1..4 : k[i][1] \in Int /\ k[i][2] \in Int =>
            at[i][1] = k[i][1] * sx + dx /\ at[i][2] = k[i][2] * sy + dy
      <4>. HIDE DEF k, at, m, sx, sy, dx, dy
      <4>. QED BY <1>4, <2>2
    <3>2. /\ k[1][1] = rect.x /\ k[1][2] = rect.y /\ k[2][1] = rect.x + rect.w /\ k[2][2] = rect.y
          /\ k[3][1] = rect.x /\ k[3][2] = rect.y + rect.h
          /\ k[4][1] = rect.x + rect.w /\ k[4][2] = rect.y + rect.h
      <4>. HIDE DEF k
      <4>. QED BY <2>3
    <3>3. /\ rect.x + rect.w \in Int /\ rect.y + rect.h \in Int
          /\ 1 \in 1..4 /\ 2 \in 1..4 /\ 3 \in 1..4 /\ 4 \in 1..4
      BY <1>1
    <3>. HIDE DEF k, at, sx, sy, dx, dy
    <3>. QED BY <1>1, <2>4, <3>1, <3>2, <3>3
  <2>6. Around(at) = [x |-> IF w < 0 THEN x + w ELSE x, y |-> IF h < 0 THEN y + h ELSE y,
                      w |-> IF w < 0 THEN -w ELSE w, h |-> IF h < 0 THEN -h ELSE h]
    <3>. HIDE DEF at, x, y, w, h
    <3>. QED BY <2>4, <2>5, AroundIs, SMTT(20)
  <2>7. CASE o.flagBits = {"Translation"}
    <3>1. sx = 1 /\ sy = 1
      BY <2>7 DEF Sound, ShapeOf, Ones
    <3>2. mapRect(o, rect) = [x |-> rect.x + dx, y |-> rect.y + dy, w |-> rect.w, h |-> rect.h]
      BY <2>7 DEF mapRect, Is
    <3>3. x = rect.x + dx /\ y = rect.y + dy /\ w = rect.w /\ h = rect.h /\ w >= 0 /\ h >= 0
      BY <1>1, <1>3, <3>1
    <3>4. ~(w < 0) /\ ~(h < 0)
      <4>. HIDE DEF w, h
      <4>. QED BY <2>4, <3>3
    <3>. HIDE DEF x, y, w, h, at
    <3>5. Around(at) = [x |-> x, y |-> y, w |-> w, h |-> h]
      BY <2>6, <3>4
    <3>. QED BY <3>2, <3>3, <3>5 DEF at
  <2>8. CASE o.flagBits # {"Translation"}
    <3>1. o.flagBits \in {{"Scale"}, {"Translation", "Scale"}}
      BY <1>5, <2>8
    <3>2. mapRect(o, rect)
            = [x |-> IF w < 0 THEN x + w ELSE x, y |-> IF h < 0 THEN y + h ELSE y,
               w |-> IF w < 0 THEN -w ELSE w, h |-> IF h < 0 THEN -h ELSE h]
      BY <3>1 DEF mapRect, Is
    <3>. QED BY <2>6, <3>2
  <2>. QED BY <2>7, <2>8
<1>6. CASE o.flagBits \notin {{"Translation"}, {"Scale"}, {"Translation", "Scale"}}
  <2> DEFINE ps == [i \in 1..4 |-> map2(o, k[i])]
  <2>1. mapRect(o, rect) = Around(ps)
    BY <1>6 DEF mapRect, Is
  <2>2. ASSUME NEW i \in 1..4
        PROVE  ps[i][1] = at[i][1] /\ ps[i][2] = at[i][2]
    <3>1. k[i][1] \in Int /\ k[i][2] \in Int
      BY <1>1 DEF Corners
    <3> DEFINE p == <<k[i][1], k[i][2], 0>>
    <3>2. p \in Vector
      BY <3>1 DEF Vector
    <3>3. map2(o, p) = map2(o, k[i])
      BY DEF map2
    <3>4. map2(o, p) = <<at[i][1], at[i][2], at[i][4]>>
      <4>1. LET v == MapVector4(o, <<p[1], p[2], 0, 1>>) IN map2(o, p) = <<v[1], v[2], v[4]>>
        <5>. HIDE DEF p
        <5>. QED BY <3>2, MapIs
      <4>. QED BY <4>1
    <3>5. ps[i] = map2(o, p)
      BY <3>3
    <3>. HIDE DEF at, p, ps
    <3>. QED BY <3>4, <3>5
  <2>3. Around(ps) = Around(at)
    <3>. HIDE DEF ps, at
    <3>. QED BY <2>2 DEF Around
  <2>. QED BY <2>1, <2>3
<1>. QED
  BY <1>5, <1>6

\* The rectangle returned is the one around the four corners' places, however
\* the matrix mirrors or turns.
THEOREM RectsAreExact ==
  Spec => []MapRectExact
<1>1. Right => MapRectExact
  BY MapRectIs DEF Right, MapRectExact
<1>. QED
  BY <1>1, RightAlways, PTL

-----------------------------------------------------------------------------
(* Inverting. *)

\* Row r of m against the cofactors of the rows p, t and s.
Laplace(m, r, p, t, s) ==
  m[0][r] * matrixDet3(m, 1, 2, 3, p, t, s) - m[1][r] * matrixDet3(m, 0, 2, 3, p, t, s)
    + m[2][r] * matrixDet3(m, 0, 1, 3, p, t, s) - m[3][r] * matrixDet3(m, 0, 1, 2, p, t, s)

\* A row that is among the three gives 0; the row set against the others may
\* change places with one of them.
LEMMA LaplaceRows ==
  ASSUME NEW m \in Elements, NEW r \in Ix, NEW p \in Ix, NEW t \in Ix, NEW s \in Ix
  PROVE  /\ Laplace(m, r, p, t, s) \in Int
         /\ Laplace(m, p, p, t, s) = 0
         /\ Laplace(m, t, p, t, s) = 0
         /\ Laplace(m, s, p, t, s) = 0
         /\ Laplace(m, p, r, t, s) = -Laplace(m, r, p, t, s)
         /\ Laplace(m, t, r, p, s) = Laplace(m, r, p, t, s)
         /\ Laplace(m, s, r, p, t) = -Laplace(m, r, p, t, s)
<1>1. \A c, i \in Ix : m[c][i] \in Int
  BY DEF Elements
<1>2. {0, 1, 2, 3} \subseteq Ix
  BY DEF Ix
<1>3. /\ m[0][p] \in Int /\ m[1][p] \in Int /\ m[2][p] \in Int /\ m[3][p] \in Int
      /\ m[0][r] \in Int /\ m[1][r] \in Int /\ m[2][r] \in Int /\ m[3][r] \in Int
      /\ m[0][t] \in Int /\ m[1][t] \in Int /\ m[2][t] \in Int /\ m[3][t] \in Int
      /\ m[0][s] \in Int /\ m[1][s] \in Int /\ m[2][s] \in Int /\ m[3][s] \in Int
  BY <1>1, <1>2
<1>4. Laplace(m, p, p, t, s) = 0
  BY <1>3 DEF Laplace, matrixDet3
<1>5. Laplace(m, t, p, t, s) = 0
  BY <1>3 DEF Laplace, matrixDet3
<1>6. Laplace(m, s, p, t, s) = 0
  BY <1>3 DEF Laplace, matrixDet3
<1>7. Laplace(m, p, r, t, s) = -Laplace(m, r, p, t, s)
  BY <1>3 DEF Laplace, matrixDet3
<1>8. Laplace(m, t, r, p, s) = Laplace(m, r, p, t, s)
  BY <1>3 DEF Laplace, matrixDet3
<1>9. Laplace(m, s, r, p, t) = -Laplace(m, r, p, t, s)
  BY <1>3 DEF Laplace, matrixDet3
<1>10. Laplace(m, r, p, t, s) \in Int
  BY <1>3 DEF Laplace, matrixDet3
<1>. QED
  BY <1>4, <1>5, <1>6, <1>7, <1>8, <1>9, <1>10

LEMMA Det3Integer ==
  ASSUME NEW m \in Elements, NEW c0 \in Ix, NEW c1 \in Ix, NEW c2 \in Ix,
         NEW r0 \in Ix, NEW r1 \in Ix, NEW r2 \in Ix
  PROVE  matrixDet3(m, c0, c1, c2, r0, r1, r2) \in Int
<1>1. \A c, i \in Ix : m[c][i] \in Int
  BY DEF Elements
<1>. QED
  BY <1>1 DEF matrixDet3

\* A number with the sign of its place.
Signed(k, d) == IF k % 2 = 0 THEN d ELSE -d

LEMMA AdjugateAt ==
  ASSUME NEW m \in Elements
  PROVE  /\ Adjugate(m) \in Elements
         /\ Adjugate(m)[0][0] = matrixDet3(m, 1, 2, 3, 1, 2, 3)
         /\ Adjugate(m)[0][1] = -matrixDet3(m, 0, 2, 3, 1, 2, 3)
         /\ Adjugate(m)[0][2] = matrixDet3(m, 0, 1, 3, 1, 2, 3)
         /\ Adjugate(m)[0][3] = -matrixDet3(m, 0, 1, 2, 1, 2, 3)
         /\ Adjugate(m)[1][0] = -matrixDet3(m, 1, 2, 3, 0, 2, 3)
         /\ Adjugate(m)[1][1] = matrixDet3(m, 0, 2, 3, 0, 2, 3)
         /\ Adjugate(m)[1][2] = -matrixDet3(m, 0, 1, 3, 0, 2, 3)
         /\ Adjugate(m)[1][3] = matrixDet3(m, 0, 1, 2, 0, 2, 3)
         /\ Adjugate(m)[2][0] = matrixDet3(m, 1, 2, 3, 0, 1, 3)
         /\ Adjugate(m)[2][1] = -matrixDet3(m, 0, 2, 3, 0, 1, 3)
         /\ Adjugate(m)[2][2] = matrixDet3(m, 0, 1, 3, 0, 1, 3)
         /\ Adjugate(m)[2][3] = -matrixDet3(m, 0, 1, 2, 0, 1, 3)
         /\ Adjugate(m)[3][0] = -matrixDet3(m, 1, 2, 3, 0, 1, 2)
         /\ Adjugate(m)[3][1] = matrixDet3(m, 0, 2, 3, 0, 1, 2)
         /\ Adjugate(m)[3][2] = -matrixDet3(m, 0, 1, 3, 0, 1, 2)
         /\ Adjugate(m)[3][3] = matrixDet3(m, 0, 1, 2, 0, 1, 2)
<1> DEFINE D(c, r) == matrixDet3(m, Without(r)[1], Without(r)[2], Without(r)[3],
                                 Without(c)[1], Without(c)[2], Without(c)[3])
<1>1. /\ Without(0)[1] = 1 /\ Without(0)[2] = 2 /\ Without(0)[3] = 3
      /\ Without(1)[1] = 0 /\ Without(1)[2] = 2 /\ Without(1)[3] = 3
      /\ Without(2)[1] = 0 /\ Without(2)[2] = 1 /\ Without(2)[3] = 3
      /\ Without(3)[1] = 0 /\ Without(3)[2] = 1 /\ Without(3)[3] = 2
  BY DEF Without
<1>2. \A i \in Ix : Without(i)[1] \in Ix /\ Without(i)[2] \in Ix /\ Without(i)[3] \in Ix
  BY DEF Without, Ix
<1>3. \A c, r \in Ix : D(c, r) \in Int
  BY <1>2, Det3Integer
<1>4. Adjugate(m) = [c \in Ix |-> [r \in Ix |-> Signed(c + r, D(c, r))]]
  BY DEF Adjugate, Signed
<1>. HIDE DEF D
<1>5. \A c, r \in Ix : Signed(c + r, D(c, r)) \in Int
  BY <1>3 DEF Signed
<1>6. Adjugate(m) \in Elements
  BY <1>4, <1>5 DEF Elements
<1>7. \A c, r \in Ix : Adjugate(m)[c][r] = Signed(c + r, D(c, r))
  BY <1>4
<1>8. /\ Adjugate(m)[0][0] = D(0, 0) /\ Adjugate(m)[0][1] = -D(0, 1)
      /\ Adjugate(m)[0][2] = D(0, 2) /\ Adjugate(m)[0][3] = -D(0, 3)
  BY <1>7 DEF Ix, Signed
<1>9. /\ Adjugate(m)[1][0] = -D(1, 0) /\ Adjugate(m)[1][1] = D(1, 1)
      /\ Adjugate(m)[1][2] = -D(1, 2) /\ Adjugate(m)[1][3] = D(1, 3)
  BY <1>7 DEF Ix, Signed
<1>10. /\ Adjugate(m)[2][0] = D(2, 0) /\ Adjugate(m)[2][1] = -D(2, 1)
       /\ Adjugate(m)[2][2] = D(2, 2) /\ Adjugate(m)[2][3] = -D(2, 3)
  BY <1>7 DEF Ix, Signed
<1>11. /\ Adjugate(m)[3][0] = -D(3, 0) /\ Adjugate(m)[3][1] = D(3, 1)
       /\ Adjugate(m)[3][2] = -D(3, 2) /\ Adjugate(m)[3][3] = D(3, 3)
  BY <1>7 DEF Ix, Signed
<1>. QED
  BY <1>1, <1>6, <1>8, <1>9, <1>10, <1>11 DEF D

\* Products added with alternating signs, and with the signs at the factors.
Alternate(x0, x1, x2, x3, d0, d1, d2, d3) == x0 * d0 - x1 * d1 + x2 * d2 - x3 * d3

Alternates(v, x0, x1, x2, x3, d0, d1, d2, d3) ==
  v = x0 * d0 + x1 * (-d1) + x2 * d2 + x3 * (-d3)

AlternatesLess(v, x0, x1, x2, x3, d0, d1, d2, d3) ==
  v = x0 * (-d0) + x1 * d1 + x2 * (-d2) + x3 * d3

LEMMA AlternateIs ==
  ASSUME NEW v, NEW x0 \in Int, NEW x1 \in Int, NEW x2 \in Int, NEW x3 \in Int,
         NEW d0 \in Int, NEW d1 \in Int, NEW d2 \in Int, NEW d3 \in Int
  PROVE  /\ Alternates(v, x0, x1, x2, x3, d0, d1, d2, d3)
              => v = Alternate(x0, x1, x2, x3, d0, d1, d2, d3)
         /\ AlternatesLess(v, x0, x1, x2, x3, d0, d1, d2, d3)
              => v = -Alternate(x0, x1, x2, x3, d0, d1, d2, d3)
  BY DEF Alternate, Alternates, AlternatesLess

\* Multiplied by its adjugate, a matrix is its determinant.
Scalar(d) == [c \in Ix |-> [r \in Ix |-> d * IdentityM[c][r]]]

LEMMA ScalarAt ==
  ASSUME NEW d \in Int
  PROVE  /\ Scalar(d) \in Elements
         /\ \A c, r \in Ix : Scalar(d)[c][r] = IF c = r THEN d ELSE 0
<1>1. \A c, r \in Ix : d * IdentityM[c][r] = IF c = r THEN d ELSE 0
  BY IdentityElements
<1>. QED
  BY <1>1 DEF Scalar, Elements

LEMMA TimesAdjugate ==
  ASSUME NEW m \in Elements
  PROVE  /\ determinant(m) \in Int
         /\ Times(m, Adjugate(m)) = Scalar(determinant(m))
<1> DEFINE a == Adjugate(m)
           d == determinant(m)
<1>1. 0 \in Ix /\ 1 \in Ix /\ 2 \in Ix /\ 3 \in Ix
  BY DEF Ix
<1>2. d = Laplace(m, 0, 1, 2, 3)
  BY DEF determinant, Laplace
<1>3. d \in Int
  BY <1>1, <1>2, LaplaceRows
<1>4. a \in Elements
  BY AdjugateAt
<1>6. ASSUME NEW r \in Ix
      PROVE  /\ Times(m, a)[0][r] = Laplace(m, r, 1, 2, 3)
             /\ Times(m, a)[1][r] = -Laplace(m, r, 0, 2, 3)
             /\ Times(m, a)[2][r] = Laplace(m, r, 0, 1, 3)
             /\ Times(m, a)[3][r] = -Laplace(m, r, 0, 1, 2)
  <2>1. m[0][r] \in Int /\ m[1][r] \in Int /\ m[2][r] \in Int /\ m[3][r] \in Int
    BY <1>1 DEF Elements
  <2>2. \A c \in Ix : Times(m, a)[c][r] = m[0][r] * a[c][0] + m[1][r] * a[c][1]
                                         + m[2][r] * a[c][2] + m[3][r] * a[c][3]
    BY TimesAt
  <2>3. Times(m, a)[0][r] = Laplace(m, r, 1, 2, 3)
    <3> DEFINE d0 == matrixDet3(m, 1, 2, 3, 1, 2, 3)
               d1 == matrixDet3(m, 0, 2, 3, 1, 2, 3)
               d2 == matrixDet3(m, 0, 1, 3, 1, 2, 3)
               d3 == matrixDet3(m, 0, 1, 2, 1, 2, 3)
    <3>1. a[0][0] = d0 /\ a[0][1] = -d1 /\ a[0][2] = d2 /\ a[0][3] = -d3
      BY AdjugateAt
    <3>2. d0 \in Int /\ d1 \in Int /\ d2 \in Int /\ d3 \in Int
      BY <1>1, Det3Integer
    <3>3. Laplace(m, r, 1, 2, 3) = Alternate(m[0][r], m[1][r], m[2][r], m[3][r], d0, d1, d2, d3)
      BY DEF Laplace, Alternate
    <3>4. Times(m, a)[0][r] = m[0][r] * a[0][0] + m[1][r] * a[0][1]
                                + m[2][r] * a[0][2] + m[3][r] * a[0][3]
      BY <1>1, <2>2
    <3>. HIDE DEF d0, d1, d2, d3, a
    <3>5. Alternates(Times(m, a)[0][r], m[0][r], m[1][r], m[2][r], m[3][r], d0, d1, d2, d3)
      BY <3>1, <3>4, Zenon DEF Alternates
    <3>. QED
      BY <2>1, <3>2, <3>3, <3>5, AlternateIs
  <2>4. Times(m, a)[1][r] = -Laplace(m, r, 0, 2, 3)
    <3> DEFINE d0 == matrixDet3(m, 1, 2, 3, 0, 2, 3)
               d1 == matrixDet3(m, 0, 2, 3, 0, 2, 3)
               d2 == matrixDet3(m, 0, 1, 3, 0, 2, 3)
               d3 == matrixDet3(m, 0, 1, 2, 0, 2, 3)
    <3>1. a[1][0] = -d0 /\ a[1][1] = d1 /\ a[1][2] = -d2 /\ a[1][3] = d3
      BY AdjugateAt
    <3>2. d0 \in Int /\ d1 \in Int /\ d2 \in Int /\ d3 \in Int
      BY <1>1, Det3Integer
    <3>3. Laplace(m, r, 0, 2, 3) = Alternate(m[0][r], m[1][r], m[2][r], m[3][r], d0, d1, d2, d3)
      BY DEF Laplace, Alternate
    <3>4. Times(m, a)[1][r] = m[0][r] * a[1][0] + m[1][r] * a[1][1]
                                + m[2][r] * a[1][2] + m[3][r] * a[1][3]
      BY <1>1, <2>2
    <3>. HIDE DEF d0, d1, d2, d3, a
    <3>5. AlternatesLess(Times(m, a)[1][r], m[0][r], m[1][r], m[2][r], m[3][r], d0, d1, d2, d3)
      BY <3>1, <3>4, Zenon DEF AlternatesLess
    <3>. QED
      BY <2>1, <3>2, <3>3, <3>5, AlternateIs
  <2>5. Times(m, a)[2][r] = Laplace(m, r, 0, 1, 3)
    <3> DEFINE d0 == matrixDet3(m, 1, 2, 3, 0, 1, 3)
               d1 == matrixDet3(m, 0, 2, 3, 0, 1, 3)
               d2 == matrixDet3(m, 0, 1, 3, 0, 1, 3)
               d3 == matrixDet3(m, 0, 1, 2, 0, 1, 3)
    <3>1. a[2][0] = d0 /\ a[2][1] = -d1 /\ a[2][2] = d2 /\ a[2][3] = -d3
      BY AdjugateAt
    <3>2. d0 \in Int /\ d1 \in Int /\ d2 \in Int /\ d3 \in Int
      BY <1>1, Det3Integer
    <3>3. Laplace(m, r, 0, 1, 3) = Alternate(m[0][r], m[1][r], m[2][r], m[3][r], d0, d1, d2, d3)
      BY DEF Laplace, Alternate
    <3>4. Times(m, a)[2][r] = m[0][r] * a[2][0] + m[1][r] * a[2][1]
                                + m[2][r] * a[2][2] + m[3][r] * a[2][3]
      BY <1>1, <2>2
    <3>. HIDE DEF d0, d1, d2, d3, a
    <3>5. Alternates(Times(m, a)[2][r], m[0][r], m[1][r], m[2][r], m[3][r], d0, d1, d2, d3)
      BY <3>1, <3>4, Zenon DEF Alternates
    <3>. QED
      BY <2>1, <3>2, <3>3, <3>5, AlternateIs
  <2>6. Times(m, a)[3][r] = -Laplace(m, r, 0, 1, 2)
    <3> DEFINE d0 == matrixDet3(m, 1, 2, 3, 0, 1, 2)
               d1 == matrixDet3(m, 0, 2, 3, 0, 1, 2)
               d2 == matrixDet3(m, 0, 1, 3, 0, 1, 2)
               d3 == matrixDet3(m, 0, 1, 2, 0, 1, 2)
    <3>1. a[3][0] = -d0 /\ a[3][1] = d1 /\ a[3][2] = -d2 /\ a[3][3] = d3
      BY AdjugateAt
    <3>2. d0 \in Int /\ d1 \in Int /\ d2 \in Int /\ d3 \in Int
      BY <1>1, Det3Integer
    <3>3. Laplace(m, r, 0, 1, 2) = Alternate(m[0][r], m[1][r], m[2][r], m[3][r], d0, d1, d2, d3)
      BY DEF Laplace, Alternate
    <3>4. Times(m, a)[3][r] = m[0][r] * a[3][0] + m[1][r] * a[3][1]
                                + m[2][r] * a[3][2] + m[3][r] * a[3][3]
      BY <1>1, <2>2
    <3>. HIDE DEF d0, d1, d2, d3, a
    <3>5. AlternatesLess(Times(m, a)[3][r], m[0][r], m[1][r], m[2][r], m[3][r], d0, d1, d2, d3)
      BY <3>1, <3>4, Zenon DEF AlternatesLess
    <3>. QED
      BY <2>1, <3>2, <3>3, <3>5, AlternateIs
  <2>. QED
    BY <2>3, <2>4, <2>5, <2>6
<1>. HIDE DEF a, d
<1>7. /\ Times(m, a)[0][0] = d /\ Times(m, a)[0][1] = 0
      /\ Times(m, a)[0][2] = 0 /\ Times(m, a)[0][3] = 0
  BY <1>1, <1>2, <1>6, LaplaceRows
<1>8. /\ Times(m, a)[1][0] = 0 /\ Times(m, a)[1][1] = d
      /\ Times(m, a)[1][2] = 0 /\ Times(m, a)[1][3] = 0
  BY <1>1, <1>2, <1>3, <1>6, LaplaceRows
<1>9. /\ Times(m, a)[2][0] = 0 /\ Times(m, a)[2][1] = 0
      /\ Times(m, a)[2][2] = d /\ Times(m, a)[2][3] = 0
  BY <1>1, <1>2, <1>3, <1>6, LaplaceRows
<1>10. /\ Times(m, a)[3][0] = 0 /\ Times(m, a)[3][1] = 0
       /\ Times(m, a)[3][2] = 0 /\ Times(m, a)[3][3] = d
  BY <1>1, <1>2, <1>3, <1>6, LaplaceRows
<1>11. Times(m, a) \in Elements
  BY <1>4, TimesElements
<1>12. Times(m, a) = Scalar(d)
  BY <1>1, <1>3, <1>7, <1>8, <1>9, <1>10, <1>11, ScalarAt, SameWritten
<1>. QED
  BY <1>3, <1>12 DEF a, d

\* The product of two rows of the upper 3x3 part.
Gram(m, r, s) == m[0][r] * m[0][s] + m[1][r] * m[1][s] + m[2][r] * m[2][s]

\* These rows are of length 1 and at right angles.
Orthonormal(m) == \A r, s \in 0..2 : Gram(m, r, s) = IF r = s THEN 1 ELSE 0

LEMMA OrthonormalWritten ==
  ASSUME NEW m
  PROVE  Orthonormal(m) <=>
           /\ Gram(m, 0, 0) = 1 /\ Gram(m, 0, 1) = 0 /\ Gram(m, 0, 2) = 0
           /\ Gram(m, 1, 0) = 0 /\ Gram(m, 1, 1) = 1 /\ Gram(m, 1, 2) = 0
           /\ Gram(m, 2, 0) = 0 /\ Gram(m, 2, 1) = 0 /\ Gram(m, 2, 2) = 1
<1>1. 0..2 = {0, 1, 2}
  BY SMT
<1>. QED
  BY <1>1 DEF Orthonormal

UnitVector(a, b, c) == a * a + b * b + c * c = 1

LEMMA SquaresOfOne ==
  ASSUME NEW a \in Int, NEW b \in Int, NEW c \in Int, UnitVector(a, b, c)
  PROVE  a \in {-1, 0, 1} /\ b \in {-1, 0, 1} /\ c \in {-1, 0, 1}
<1>1. \A i \in Int : i * i >= 0 /\ (i * i <= 1 => i \in {-1, 0, 1})
  BY SMT
<1>2. a * a \in Int /\ b * b \in Int /\ c * c \in Int
  OBVIOUS
<1>3. a * a >= 0 /\ b * b >= 0 /\ c * c >= 0
  BY <1>1
<1>4. a * a <= 1 /\ b * b <= 1 /\ c * c <= 1
  BY <1>2, <1>3 DEF UnitVector
<1>. QED
  BY <1>1, <1>4

LEMMA UnitDeterminant ==
  ASSUME NEW x00 \in {-1, 0, 1}, NEW x01 \in {-1, 0, 1}, NEW x02 \in {-1, 0, 1},
         NEW x10 \in {-1, 0, 1}, NEW x11 \in {-1, 0, 1}, NEW x12 \in {-1, 0, 1},
         NEW x20 \in {-1, 0, 1}, NEW x21 \in {-1, 0, 1}, NEW x22 \in {-1, 0, 1},
         x00 * x00 + x10 * x10 + x20 * x20 = 1,
         x01 * x01 + x11 * x11 + x21 * x21 = 1,
         x02 * x02 + x12 * x12 + x22 * x22 = 1,
         x00 * x01 + x10 * x11 + x20 * x21 = 0,
         x00 * x02 + x10 * x12 + x20 * x22 = 0,
         x01 * x02 + x11 * x12 + x21 * x22 = 0
  PROVE  x00 * (x11 * x22 - x12 * x21) - x10 * (x01 * x22 - x02 * x21)
           + x20 * (x01 * x12 - x02 * x11) # 0
  BY SMT

LEMMA AffineDeterminant ==
  ASSUME NEW m \in Elements, AffineRow(m)
  PROVE  determinant(m) = matrixDet3(m, 0, 1, 2, 0, 1, 2)
<1>1. \A c, r \in Ix : m[c][r] \in Int
  BY DEF Elements
<1>2. /\ m[0][0] \in Int /\ m[1][0] \in Int /\ m[2][0] \in Int /\ m[3][0] \in Int
      /\ m[0][1] \in Int /\ m[1][1] \in Int /\ m[2][1] \in Int /\ m[3][1] \in Int
      /\ m[0][2] \in Int /\ m[1][2] \in Int /\ m[2][2] \in Int /\ m[3][2] \in Int
  BY <1>1 DEF Ix
<1>3. m[0][3] = 0 /\ m[1][3] = 0 /\ m[2][3] = 0 /\ m[3][3] = 1
  BY DEF AffineRow
<1>4. /\ matrixDet3(m, 1, 2, 3, 1, 2, 3) = m[1][1] * m[2][2] - m[1][2] * m[2][1]
      /\ matrixDet3(m, 0, 2, 3, 1, 2, 3) = m[0][1] * m[2][2] - m[0][2] * m[2][1]
      /\ matrixDet3(m, 0, 1, 3, 1, 2, 3) = m[0][1] * m[1][2] - m[0][2] * m[1][1]
      /\ matrixDet3(m, 0, 1, 2, 1, 2, 3) = 0
  BY <1>2, <1>3 DEF matrixDet3
<1>. QED
  BY <1>2, <1>4 DEF determinant, matrixDet3

\* What v is: a vector with its translation turned back and added to w.
TurnedBack(v, a0, a1, a2, b00, b01, b02, b10, b11, b12, b20, b21, b22, x, y, z, w) ==
  v = a0 * (-(b00 * x + b01 * y + b02 * z)) + a1 * (-(b10 * x + b11 * y + b12 * z))
        + a2 * (-(b20 * x + b21 * y + b22 * z)) + w * 1

TurnedForth(v, a0, a1, a2, b00, b01, b02, b10, b11, b12, b20, b21, b22, x, y, z, w) ==
  v = w - ((a0 * b00 + a1 * b10 + a2 * b20) * x + (a0 * b01 + a1 * b11 + a2 * b21) * y
             + (a0 * b02 + a1 * b12 + a2 * b22) * z)

LEMMA TurnedBackIs ==
  ASSUME NEW v, NEW a0 \in Int, NEW a1 \in Int, NEW a2 \in Int,
         NEW b00 \in Int, NEW b01 \in Int, NEW b02 \in Int,
         NEW b10 \in Int, NEW b11 \in Int, NEW b12 \in Int,
         NEW b20 \in Int, NEW b21 \in Int, NEW b22 \in Int,
         NEW x \in Int, NEW y \in Int, NEW z \in Int, NEW w \in Int,
         TurnedBack(v, a0, a1, a2, b00, b01, b02, b10, b11, b12, b20, b21, b22, x, y, z, w)
  PROVE  TurnedForth(v, a0, a1, a2, b00, b01, b02, b10, b11, b12, b20, b21, b22, x, y, z, w)
  BY DEF TurnedBack, TurnedForth

LEMMA OrthonormalInverts ==
  ASSUME NEW m \in Elements, AffineRow(m), Orthonormal(m)
  PROVE  /\ orthonormalInverse(m) \in Elements
         /\ Times(m, orthonormalInverse(m)) = IdentityM
         /\ determinant(m) # 0
<1> DEFINE i == orthonormalInverse(m)
<1>1. \A c, r \in Ix : m[c][r] \in Int
  BY DEF Elements
<1>2. /\ m[0][0] \in Int /\ m[1][0] \in Int /\ m[2][0] \in Int /\ m[3][0] \in Int
      /\ m[0][1] \in Int /\ m[1][1] \in Int /\ m[2][1] \in Int /\ m[3][1] \in Int
      /\ m[0][2] \in Int /\ m[1][2] \in Int /\ m[2][2] \in Int /\ m[3][2] \in Int
  BY <1>1 DEF Ix
<1>3. m[0][3] = 0 /\ m[1][3] = 0 /\ m[2][3] = 0 /\ m[3][3] = 1
  BY DEF AffineRow
<1>4. /\ Gram(m, 0, 0) = 1 /\ Gram(m, 0, 1) = 0 /\ Gram(m, 0, 2) = 0
      /\ Gram(m, 1, 0) = 0 /\ Gram(m, 1, 1) = 1 /\ Gram(m, 1, 2) = 0
      /\ Gram(m, 2, 0) = 0 /\ Gram(m, 2, 1) = 0 /\ Gram(m, 2, 2) = 1
  BY OrthonormalWritten
<1>5. determinant(m) # 0
  <2>1. /\ UnitVector(m[0][0], m[1][0], m[2][0])
        /\ UnitVector(m[0][1], m[1][1], m[2][1])
        /\ UnitVector(m[0][2], m[1][2], m[2][2])
    BY <1>4 DEF Gram, UnitVector
  <2>2. /\ m[0][0] \in {-1, 0, 1} /\ m[1][0] \in {-1, 0, 1} /\ m[2][0] \in {-1, 0, 1}
        /\ m[0][1] \in {-1, 0, 1} /\ m[1][1] \in {-1, 0, 1} /\ m[2][1] \in {-1, 0, 1}
        /\ m[0][2] \in {-1, 0, 1} /\ m[1][2] \in {-1, 0, 1} /\ m[2][2] \in {-1, 0, 1}
    BY <1>2, <2>1, SquaresOfOne
  <2>3. matrixDet3(m, 0, 1, 2, 0, 1, 2) # 0
    BY <1>4, <2>2, UnitDeterminant DEF matrixDet3, Gram
  <2>. QED
    BY <2>3, AffineDeterminant
<1>6. /\ i \in Elements
      /\ \A c, r \in 0..2 : i[c][r] = m[r][c]
      /\ \A c \in 0..2 : i[c][3] = 0
      /\ \A r \in 0..2 : i[3][r] = -(m[r][0] * m[3][0] + m[r][1] * m[3][1] + m[r][2] * m[3][2])
      /\ i[3][3] = 1
  <2>1. \A c, r \in Ix :
          (IF c < 3 THEN (IF r < 3 THEN m[r][c] ELSE 0)
           ELSE IF r < 3 THEN -(m[r][0] * m[3][0] + m[r][1] * m[3][1] + m[r][2] * m[3][2]) ELSE 1)
            \in Int
    BY <1>1 DEF Ix
  <2>2. i \in Elements
    BY <2>1 DEF orthonormalInverse, Elements
  <2>3. \A c, r \in 0..2 : c \in Ix /\ r \in Ix /\ c < 3 /\ r < 3
    BY DEF Ix
  <2>4. 3 \in Ix /\ ~(3 < 3)
    BY DEF Ix
  <2>. QED
    BY <2>2, <2>3, <2>4 DEF orthonormalInverse
<1>. HIDE DEF i
<1>7. /\ i[0][0] = m[0][0] /\ i[0][1] = m[1][0] /\ i[0][2] = m[2][0] /\ i[0][3] = 0
      /\ i[1][0] = m[0][1] /\ i[1][1] = m[1][1] /\ i[1][2] = m[2][1] /\ i[1][3] = 0
      /\ i[2][0] = m[0][2] /\ i[2][1] = m[1][2] /\ i[2][2] = m[2][2] /\ i[2][3] = 0
      /\ i[3][0] = -(m[0][0] * m[3][0] + m[0][1] * m[3][1] + m[0][2] * m[3][2])
      /\ i[3][1] = -(m[1][0] * m[3][0] + m[1][1] * m[3][1] + m[1][2] * m[3][2])
      /\ i[3][2] = -(m[2][0] * m[3][0] + m[2][1] * m[3][1] + m[2][2] * m[3][2])
      /\ i[3][3] = 1
  BY <1>6
<1>8. \A c, r \in Ix : Times(m, i)[c][r] = m[0][r] * i[c][0] + m[1][r] * i[c][1]
                                            + m[2][r] * i[c][2] + m[3][r] * i[c][3]
  BY TimesAt
<1>9. \A c, r \in 0..2 : Times(m, i)[c][r] = Gram(m, r, c)
  <2>. SUFFICES ASSUME NEW c \in 0..2, NEW r \in 0..2
               PROVE  Times(m, i)[c][r] = Gram(m, r, c)
    OBVIOUS
  <2>1. c \in Ix /\ r \in Ix /\ {0, 1, 2, 3} \subseteq Ix
    BY DEF Ix
  <2>2. /\ i[c][0] = m[0][c] /\ i[c][1] = m[1][c] /\ i[c][2] = m[2][c] /\ i[c][3] = 0
    BY <1>6
  <2>3. Times(m, i)[c][r] = m[0][r] * m[0][c] + m[1][r] * m[1][c] + m[2][r] * m[2][c] + m[3][r] * 0
    BY <1>8, <2>1, <2>2
  <2>4. /\ m[0][r] \in Int /\ m[1][r] \in Int /\ m[2][r] \in Int /\ m[3][r] \in Int
        /\ m[0][c] \in Int /\ m[1][c] \in Int /\ m[2][c] \in Int
    BY <1>1, <2>1
  <2>. QED
    BY <2>3, <2>4 DEF Gram
<1>10. /\ Times(m, i)[0][3] = 0 /\ Times(m, i)[1][3] = 0 /\ Times(m, i)[2][3] = 0
       /\ Times(m, i)[3][3] = 1
  BY <1>2, <1>3, <1>7, <1>8 DEF Ix
<1>11. /\ Times(m, i)[3][0] = 0 /\ Times(m, i)[3][1] = 0 /\ Times(m, i)[3][2] = 0
  <2>1. ASSUME NEW r \in 0..2
        PROVE  Times(m, i)[3][r] = m[3][r] - (Gram(m, r, 0) * m[3][0] + Gram(m, r, 1) * m[3][1]
                                                + Gram(m, r, 2) * m[3][2])
    <3>1. r \in Ix /\ {0, 1, 2, 3} \subseteq Ix
      BY DEF Ix
    <3>2. m[0][r] \in Int /\ m[1][r] \in Int /\ m[2][r] \in Int /\ m[3][r] \in Int
      BY <1>1, <3>1
    <3>3. Times(m, i)[3][r] = m[0][r] * i[3][0] + m[1][r] * i[3][1] + m[2][r] * i[3][2]
                                + m[3][r] * i[3][3]
      BY <1>8, <3>1
    <3>4. TurnedBack(Times(m, i)[3][r], m[0][r], m[1][r], m[2][r],
                     m[0][0], m[0][1], m[0][2], m[1][0], m[1][1], m[1][2],
                     m[2][0], m[2][1], m[2][2], m[3][0], m[3][1], m[3][2], m[3][r])
      BY <1>7, <3>3, Zenon DEF TurnedBack
    <3>5. TurnedForth(Times(m, i)[3][r], m[0][r], m[1][r], m[2][r],
                      m[0][0], m[0][1], m[0][2], m[1][0], m[1][1], m[1][2],
                      m[2][0], m[2][1], m[2][2], m[3][0], m[3][1], m[3][2], m[3][r])
      BY <1>2, <3>2, <3>4, TurnedBackIs
    <3>. QED
      BY <3>5, Zenon DEF TurnedForth, Gram
  <2>. QED
    BY <1>2, <1>4, <2>1
<1>12. Times(m, i) \in Elements
  BY <1>6, TimesElements
<1>13. Times(m, i) = IdentityM
  BY <1>4, <1>9, <1>10, <1>11, <1>12, IdentityElements, SameWritten DEF Ix
<1>. QED
  BY <1>5, <1>6, <1>13 DEF i

\* What is flagged a rotation and nothing but moved is orthonormal.
Rigid(o) == o.flagBits \in {{"Rotation"}, {"Rotation", "Translation"}} => Orthonormal(o.m)

\* A matrix flagged as a translation is inverted by moving back.
LEMMA TranslationInverts ==
  ASSUME NEW o, Sound(o), o.flagBits = {"Translation"}
  PROVE  LET back == MovedTo(IdentityM, -o.m[3][0], -o.m[3][1], -o.m[3][2])
         IN  /\ Times(o.m, back) = IdentityM
             /\ Sound(Object(back, {"Translation"}))
<1> DEFINE m == o.m
           back == MovedTo(IdentityM, -m[3][0], -m[3][1], -m[3][2])
<1>1. m \in Elements /\ Diagonal3(m) /\ Ones(m) /\ AffineRow(m)
  BY DEF Sound, ShapeOf
<1>2. m[3][0] \in Int /\ m[3][1] \in Int /\ m[3][2] \in Int
  BY <1>1 DEF Elements, Ix
<1>3. /\ m[0][0] = 1 /\ m[0][1] = 0 /\ m[0][2] = 0 /\ m[0][3] = 0
      /\ m[1][0] = 0 /\ m[1][1] = 1 /\ m[1][2] = 0 /\ m[1][3] = 0
      /\ m[2][0] = 0 /\ m[2][1] = 0 /\ m[2][2] = 1 /\ m[2][3] = 0
      /\ m[3][3] = 1
  BY <1>1 DEF Diagonal3, Ones, AffineRow
<1>4. Sound(Object(back, {"Translation"}))
  <2>1. identity.m = IdentityM /\ identity.flagBits = {"Identity"}
    BY DEF identity, Object
  <2>2. -m[3][0] \in Int /\ -m[3][1] \in Int /\ -m[3][2] \in Int
    BY <1>2
  <2>. QED
    BY <2>1, <2>2, IdentitySound, MovedToSound
<1>5. back \in Elements
  BY <1>4 DEF Sound, Object
<1>6. /\ back[0][0] = 1 /\ back[0][1] = 0 /\ back[0][2] = 0 /\ back[0][3] = 0
      /\ back[1][0] = 0 /\ back[1][1] = 1 /\ back[1][2] = 0 /\ back[1][3] = 0
      /\ back[2][0] = 0 /\ back[2][1] = 0 /\ back[2][2] = 1 /\ back[2][3] = 0
      /\ back[3][0] = -m[3][0] /\ back[3][1] = -m[3][1] /\ back[3][2] = -m[3][2]
      /\ back[3][3] = 1
  BY IdentityElements DEF MovedTo, Elements, Ix
<1>. HIDE DEF back, m
<1>7. \A c, r \in Ix : Times(m, back)[c][r] = m[0][r] * back[c][0] + m[1][r] * back[c][1]
                                               + m[2][r] * back[c][2] + m[3][r] * back[c][3]
  BY TimesAt
<1>8. 0 \in Ix /\ 1 \in Ix /\ 2 \in Ix /\ 3 \in Ix
  BY DEF Ix
<1>9. /\ Times(m, back)[0][0] = 1 /\ Times(m, back)[0][1] = 0
      /\ Times(m, back)[0][2] = 0 /\ Times(m, back)[0][3] = 0
  BY <1>2, <1>3, <1>6, <1>7, <1>8
<1>10. /\ Times(m, back)[1][0] = 0 /\ Times(m, back)[1][1] = 1
       /\ Times(m, back)[1][2] = 0 /\ Times(m, back)[1][3] = 0
  BY <1>2, <1>3, <1>6, <1>7, <1>8
<1>11. /\ Times(m, back)[2][0] = 0 /\ Times(m, back)[2][1] = 0
       /\ Times(m, back)[2][2] = 1 /\ Times(m, back)[2][3] = 0
  BY <1>2, <1>3, <1>6, <1>7, <1>8
<1>12. /\ Times(m, back)[3][0] = 0 /\ Times(m, back)[3][1] = 0
       /\ Times(m, back)[3][2] = 0 /\ Times(m, back)[3][3] = 1
  <2>1. \A r \in Ix : Times(m, back)[3][r] = m[0][r] * (-m[3][0]) + m[1][r] * (-m[3][1])
                                               + m[2][r] * (-m[3][2]) + m[3][r] * 1
    BY <1>6, <1>7, <1>8
  <2>2. /\ Times(m, back)[3][0] = 1 * (-m[3][0]) + 0 * (-m[3][1]) + 0 * (-m[3][2]) + m[3][0] * 1
        /\ Times(m, back)[3][1] = 0 * (-m[3][0]) + 1 * (-m[3][1]) + 0 * (-m[3][2]) + m[3][1] * 1
        /\ Times(m, back)[3][2] = 0 * (-m[3][0]) + 0 * (-m[3][1]) + 1 * (-m[3][2]) + m[3][2] * 1
        /\ Times(m, back)[3][3] = 0 * (-m[3][0]) + 0 * (-m[3][1]) + 0 * (-m[3][2]) + 1 * 1
    BY <1>3, <1>8, <2>1, Zenon
  <2>. QED
    BY <1>2, <2>2
<1>13. Times(m, back) = IdentityM
  <2>1. Times(m, back) \in Elements
    BY <1>1, <1>5, TimesElements
  <2>. QED
    BY <1>8, <1>9, <1>10, <1>11, <1>12, <2>1, IdentityElements, SameWritten
<1>. QED
  BY <1>4, <1>13 DEF back, m

LEMMA OnesDeterminant ==
  ASSUME NEW m \in Elements, Diagonal3(m)
  PROVE  matrixDet3(m, 0, 1, 2, 0, 1, 2) = m[0][0] * m[1][1] * m[2][2]
<1>1. m[0][0] \in Int /\ m[1][1] \in Int /\ m[2][2] \in Int
  BY DEF Elements, Ix
<1>. QED
  BY <1>1 DEF matrixDet3, Diagonal3

LEMMA InverseOf ==
  ASSUME NEW o, Sound(o), Rigid(o)
  PROVE  LET inv == inverted(o)
         IN  /\ inv.invertible = (determinant(o.m) # 0)
             /\ IF inv.invertible
                  THEN Times(o.m, inv.obj.m)
                         = [c \in Ix |-> [r \in Ix |-> inv.den * IdentityM[c][r]]]
                  ELSE inv.obj = identity
             /\ ShapeOf(inv.obj)
<1> DEFINE m == o.m
           det == determinant(m)
           inv == inverted(o)
<1>1. m \in Elements /\ ShapeOf(o)
  BY DEF Sound
<1>2. ShapeOf(identity) /\ identity.m = IdentityM
  BY IdentitySound DEF Sound, identity, Object
<1>3. IdentityM = Scalar(1)
  BY IdentityElements, ScalarAt, SameElements
<1>4. SUFFICES /\ inv.invertible = (det # 0)
               /\ inv.invertible => Times(m, inv.obj.m) = Scalar(inv.den)
               /\ ~inv.invertible => inv.obj = identity
               /\ ShapeOf(inv.obj)
  BY <1>4 DEF Scalar
<1>5. CASE o.flagBits = {"Identity"}
  <2>1. inv = [obj |-> identity, den |-> 1, invertible |-> TRUE]
    BY <1>5 DEF inverted, Is
  <2>2. m = IdentityM
    BY <1>5, FlaggedIdentity
  <2>3. det # 0
    <3>1. AffineRow(m) /\ Diagonal3(m) /\ Ones(m)
      BY <1>1, <1>5 DEF ShapeOf
    <3>2. det = m[0][0] * m[1][1] * m[2][2]
      BY <1>1, <3>1, AffineDeterminant, OnesDeterminant
    <3>. QED
      BY <3>1, <3>2 DEF Ones
  <2>4. Times(m, IdentityM) = Scalar(1)
    BY <1>3, <2>2, IdentityTimes, IdentityElements
  <2>. HIDE DEF inv, det, m
  <2>. QED
    BY <1>2, <2>1, <2>3, <2>4
<1>6. CASE o.flagBits = {"Translation"}
  <2> DEFINE back == MovedTo(IdentityM, -m[3][0], -m[3][1], -m[3][2])
  <2>1. inv = [obj |-> Object(back, {"Translation"}), den |-> 1, invertible |-> TRUE]
    BY <1>6 DEF inverted, Is, MovedTo
  <2>2. Times(m, back) = IdentityM /\ ShapeOf(Object(back, {"Translation"}))
    BY <1>6, TranslationInverts DEF Sound
  <2>3. det # 0
    <3>1. AffineRow(m) /\ Diagonal3(m) /\ Ones(m)
      BY <1>1, <1>6 DEF ShapeOf
    <3>2. det = m[0][0] * m[1][1] * m[2][2]
      BY <1>1, <3>1, AffineDeterminant, OnesDeterminant
    <3>. QED
      BY <3>1, <3>2 DEF Ones
  <2>4. Object(back, {"Translation"}).m = back
    BY DEF Object
  <2>. HIDE DEF inv, det, m, back
  <2>. QED
    BY <1>3, <2>1, <2>2, <2>3, <2>4
<1>7. CASE o.flagBits \in {{"Rotation"}, {"Rotation", "Translation"}}
  <2> DEFINE back == orthonormalInverse(m)
  <2>1. inv = [obj |-> general(back), den |-> 1, invertible |-> TRUE]
    BY <1>7 DEF inverted, Is
  <2>2. AffineRow(m) /\ Orthonormal(m)
    BY <1>1, <1>7 DEF ShapeOf, Rigid
  <2>3. back \in Elements /\ Times(m, back) = IdentityM /\ det # 0
    BY <1>1, <2>2, OrthonormalInverts
  <2>4. ShapeOf(general(back)) /\ general(back).m = back
    BY <2>3, GeneralSound DEF Sound, general, Object
  <2>. HIDE DEF inv, det, m, back
  <2>. QED
    BY <1>3, <2>1, <2>3, <2>4
<1>8. CASE o.flagBits \notin {{"Identity"}, {"Translation"}, {"Rotation"}, {"Rotation", "Translation"}}
  <2>1. inv = IF det = 0 THEN [obj |-> identity, den |-> 1, invertible |-> FALSE]
              ELSE [obj |-> general(Adjugate(m)), den |-> det, invertible |-> TRUE]
    BY <1>8 DEF inverted, Is
  <2>2. Times(m, Adjugate(m)) = Scalar(det) /\ Adjugate(m) \in Elements
    BY <1>1, TimesAdjugate, AdjugateAt
  <2>3. ShapeOf(general(Adjugate(m))) /\ general(Adjugate(m)).m = Adjugate(m)
    BY <2>2, GeneralSound DEF Sound, general, Object
  <2>. HIDE DEF inv, det
  <2>. QED
    BY <1>2, <2>1, <2>2, <2>3
<1>. QED
  BY <1>5, <1>6, <1>7, <1>8

-----------------------------------------------------------------------------
\* Column c of the cofactors of the upper 3x3 part against its row r.
Against(x, m, c, r) == x[c][0] * m[r][0] + x[c][1] * m[r][1] + x[c][2] * m[r][2]

LEMMA SameUnit3 ==
  ASSUME NEW x, NEW m, NEW d,
         Against(x, m, 0, 0) = d, Against(x, m, 0, 1) = 0, Against(x, m, 0, 2) = 0,
         Against(x, m, 1, 0) = 0, Against(x, m, 1, 1) = d, Against(x, m, 1, 2) = 0,
         Against(x, m, 2, 0) = 0, Against(x, m, 2, 1) = 0, Against(x, m, 2, 2) = d
  PROVE  [c \in 0..2 |-> [r \in 0..2 |->
            x[c][0] * m[r][0] + x[c][1] * m[r][1] + x[c][2] * m[r][2]]] = Unit3(d)
<1>1. 0..2 = {0, 1, 2}
  BY SMT
<1>2. \A c, r \in 0..2 : Against(x, m, c, r) = IF c = r THEN d ELSE 0
  BY <1>1
<1>3. [c \in 0..2 |-> [r \in 0..2 |-> Against(x, m, c, r)]] = Unit3(d)
  BY <1>2 DEF Unit3
<1>. QED
  BY <1>3, Zenon DEF Against

LEMMA CofactorsAgainst ==
  ASSUME NEW m \in Elements, NEW x,
         \A c, r \in 0..2 :
           x[c][r] = m[(c + 1) % 3][(r + 1) % 3] * m[(c + 2) % 3][(r + 2) % 3]
                       - m[(c + 2) % 3][(r + 1) % 3] * m[(c + 1) % 3][(r + 2) % 3]
  PROVE  [c \in 0..2 |-> [r \in 0..2 |->
            x[c][0] * m[r][0] + x[c][1] * m[r][1] + x[c][2] * m[r][2]]]
           = Unit3(matrixDet3(m, 0, 1, 2, 0, 1, 2))
<1> DEFINE d == matrixDet3(m, 0, 1, 2, 0, 1, 2)
<1>1. /\ m[0][0] \in Int /\ m[0][1] \in Int /\ m[0][2] \in Int
      /\ m[1][0] \in Int /\ m[1][1] \in Int /\ m[1][2] \in Int
      /\ m[2][0] \in Int /\ m[2][1] \in Int /\ m[2][2] \in Int
  BY DEF Elements, Ix
<1>2. /\ x[0][0] = m[1][1] * m[2][2] - m[2][1] * m[1][2]
      /\ x[0][1] = m[1][2] * m[2][0] - m[2][2] * m[1][0]
      /\ x[0][2] = m[1][0] * m[2][1] - m[2][0] * m[1][1]
  OBVIOUS
<1>3. /\ x[1][0] = m[2][1] * m[0][2] - m[0][1] * m[2][2]
      /\ x[1][1] = m[2][2] * m[0][0] - m[0][2] * m[2][0]
      /\ x[1][2] = m[2][0] * m[0][1] - m[0][0] * m[2][1]
  OBVIOUS
<1>4. /\ x[2][0] = m[0][1] * m[1][2] - m[1][1] * m[0][2]
      /\ x[2][1] = m[0][2] * m[1][0] - m[1][2] * m[0][0]
      /\ x[2][2] = m[0][0] * m[1][1] - m[1][0] * m[0][1]
  OBVIOUS
<1>5. Against(x, m, 0, 0) = d /\ Against(x, m, 0, 1) = 0 /\ Against(x, m, 0, 2) = 0
  BY <1>1, <1>2 DEF Against, matrixDet3
<1>6. Against(x, m, 1, 0) = 0 /\ Against(x, m, 1, 1) = d /\ Against(x, m, 1, 2) = 0
  BY <1>1, <1>3 DEF Against, matrixDet3
<1>7. Against(x, m, 2, 0) = 0 /\ Against(x, m, 2, 1) = 0 /\ Against(x, m, 2, 2) = d
  BY <1>1, <1>4 DEF Against, matrixDet3
<1>. HIDE DEF d
<1>8. [c \in 0..2 |-> [r \in 0..2 |->
         x[c][0] * m[r][0] + x[c][1] * m[r][1] + x[c][2] * m[r][2]]] = Unit3(d)
  BY <1>5, <1>6, <1>7, SameUnit3
<1>. QED
  BY <1>8 DEF d

LEMMA NormalOf ==
  ASSUME NEW o, Sound(o)
  PROVE  LET nor == normalMatrix(o)
         IN  /\ nor.ok = (matrixDet3(o.m, 0, 1, 2, 0, 1, 2) # 0)
             /\ nor.ok =>
                  [c \in 0..2 |-> [r \in 0..2 |->
                     nor.mat[c][0] * o.m[r][0] + nor.mat[c][1] * o.m[r][1]
                       + nor.mat[c][2] * o.m[r][2]]]
                    = Unit3(nor.den)
<1> DEFINE m == o.m
           det == matrixDet3(m, 0, 1, 2, 0, 1, 2)
           one == [c \in 0..2 |-> [r \in 0..2 |-> IF c = r THEN 1 ELSE 0]]
           nor == normalMatrix(o)
           Back(x) == [c \in 0..2 |-> [r \in 0..2 |->
                         x[c][0] * m[r][0] + x[c][1] * m[r][1] + x[c][2] * m[r][2]]]
<1>1. m \in Elements /\ ShapeOf(o)
  BY DEF Sound
<1>2. SUFFICES nor.ok = (det # 0) /\ (nor.ok => Back(nor.mat) = Unit3(nor.den))
  OBVIOUS
<1>3. m[0][0] \in Int /\ m[1][1] \in Int /\ m[2][2] \in Int
  BY <1>1 DEF Elements, Ix
<1>4. CASE o.flagBits \in {{"Identity"}, {"Translation"}}
  <2>1. nor = [mat |-> one, den |-> 1, ok |-> TRUE]
    BY <1>4 DEF normalMatrix
  <2>2. Diagonal3(m) /\ Ones(m)
    BY <1>1, <1>4 DEF ShapeOf
  <2>3. det = m[0][0] * m[1][1] * m[2][2]
    BY <1>1, <2>2, OnesDeterminant
  <2>4. det # 0
    BY <2>2, <2>3 DEF Ones
  <2>5. /\ one[0][0] = 1 /\ one[0][1] = 0 /\ one[0][2] = 0
        /\ one[1][0] = 0 /\ one[1][1] = 1 /\ one[1][2] = 0
        /\ one[2][0] = 0 /\ one[2][1] = 0 /\ one[2][2] = 1
    OBVIOUS
  <2>6. Back(one) = Unit3(1)
    <3>. HIDE DEF one
    <3>1. /\ Against(one, m, 0, 0) = 1 /\ Against(one, m, 0, 1) = 0 /\ Against(one, m, 0, 2) = 0
          /\ Against(one, m, 1, 0) = 0 /\ Against(one, m, 1, 1) = 1 /\ Against(one, m, 1, 2) = 0
          /\ Against(one, m, 2, 0) = 0 /\ Against(one, m, 2, 1) = 0 /\ Against(one, m, 2, 2) = 1
      BY <2>2, <2>5 DEF Against, Diagonal3, Ones
    <3>. QED
      BY <3>1, SameUnit3
  <2>. HIDE DEF det, one, Back
  <2>7. nor.mat = one /\ nor.den = 1 /\ nor.ok
    BY <2>1
  <2>. HIDE DEF nor
  <2>. QED
    BY <2>1, <2>4, <2>6, <2>7
<1>5. CASE o.flagBits \in {{"Scale"}, {"Scale", "Translation"}}
  <2> DEFINE d == m[0][0] * m[1][1] * m[2][2]
             scaled == [c \in 0..2 |-> [r \in 0..2 |-> IF c = r THEN Over(d, m[c][c]) ELSE 0]]
  <2>1. nor = IF d = 0 THEN [mat |-> one, den |-> 1, ok |-> FALSE]
              ELSE [mat |-> scaled, den |-> d, ok |-> TRUE]
    <3>1. o.flagBits \notin {{"Identity"}, {"Translation"}}
      BY <1>5
    <3>. QED
      BY <1>5, <3>1 DEF normalMatrix
  <2>2. Diagonal3(m)
    BY <1>1, <1>5 DEF ShapeOf
  <2>3. det = d
    BY <1>1, <2>2, OnesDeterminant
  <2>4. ASSUME d # 0
        PROVE  Back(scaled) = Unit3(d)
    <3>1. m[0][0] # 0 /\ m[1][1] # 0 /\ m[2][2] # 0
      <4>1. \A a, b \in Int : 0 * a * b = 0 /\ a * 0 * b = 0 /\ a * b * 0 = 0
        OBVIOUS
      <4>2. m[0][0] = 0 => d = 0
        BY <1>3, <4>1
      <4>3. m[1][1] = 0 => d = 0
        BY <1>3, <4>1
      <4>4. m[2][2] = 0 => d = 0
        BY <1>3, <4>1
      <4>. HIDE DEF d
      <4>. QED
        BY <2>4, <4>2, <4>3, <4>4
    <3>2. /\ Over(d, m[0][0]) = m[1][1] * m[2][2]
          /\ Over(d, m[1][1]) = m[0][0] * m[2][2]
          /\ Over(d, m[2][2]) = m[0][0] * m[1][1]
      <4>1. /\ m[1][1] * m[2][2] \in Int /\ m[0][0] * m[2][2] \in Int /\ m[0][0] * m[1][1] \in Int
            /\ d \in Int
            /\ (m[1][1] * m[2][2]) * m[0][0] = d
            /\ (m[0][0] * m[2][2]) * m[1][1] = d
            /\ (m[0][0] * m[1][1]) * m[2][2] = d
        BY <1>3
      <4>. HIDE DEF d
      <4>. QED
        BY <1>3, <3>1, <4>1, OverExact
    <3>3. /\ scaled[0][0] = m[1][1] * m[2][2] /\ scaled[0][1] = 0 /\ scaled[0][2] = 0
          /\ scaled[1][0] = 0 /\ scaled[1][1] = m[0][0] * m[2][2] /\ scaled[1][2] = 0
          /\ scaled[2][0] = 0 /\ scaled[2][1] = 0 /\ scaled[2][2] = m[0][0] * m[1][1]
      <4>. HIDE DEF d
      <4>. QED
        BY <3>2
    <3>. HIDE DEF scaled
    <3>4. /\ Against(scaled, m, 0, 0) = d /\ Against(scaled, m, 0, 1) = 0
          /\ Against(scaled, m, 0, 2) = 0
      BY <1>3, <2>2, <3>3 DEF Against, Diagonal3
    <3>5. /\ Against(scaled, m, 1, 0) = 0 /\ Against(scaled, m, 1, 1) = d
          /\ Against(scaled, m, 1, 2) = 0
      BY <1>3, <2>2, <3>3 DEF Against, Diagonal3
    <3>6. /\ Against(scaled, m, 2, 0) = 0 /\ Against(scaled, m, 2, 1) = 0
          /\ Against(scaled, m, 2, 2) = d
      BY <1>3, <2>2, <3>3 DEF Against, Diagonal3
    <3>. HIDE DEF d
    <3>. QED
      BY <3>4, <3>5, <3>6, SameUnit3
  <2>. HIDE DEF nor, det, d, one, scaled, Back
  <2>. QED
    BY <2>1, <2>3, <2>4
<1>6. CASE o.flagBits \notin {{"Identity"}, {"Translation"}, {"Scale"}, {"Scale", "Translation"}}
  <2> DEFINE cofactors ==
        [c \in 0..2 |-> [r \in 0..2 |->
           m[(c + 1) % 3][(r + 1) % 3] * m[(c + 2) % 3][(r + 2) % 3]
             - m[(c + 2) % 3][(r + 1) % 3] * m[(c + 1) % 3][(r + 2) % 3]]]
  <2>1. nor = IF det = 0 THEN [mat |-> one, den |-> 1, ok |-> FALSE]
              ELSE [mat |-> cofactors, den |-> det, ok |-> TRUE]
    BY <1>6, Zenon DEF normalMatrix
  <2>2. \A c, r \in 0..2 :
          cofactors[c][r] = m[(c + 1) % 3][(r + 1) % 3] * m[(c + 2) % 3][(r + 2) % 3]
                              - m[(c + 2) % 3][(r + 1) % 3] * m[(c + 1) % 3][(r + 2) % 3]
    BY Zenon
  <2>3. Back(cofactors) = Unit3(det)
    <3>. HIDE DEF cofactors
    <3>. QED
      BY <1>1, <2>2, CofactorsAgainst, Zenon
  <2>. HIDE DEF nor, det, one, cofactors, Back
  <2>. QED
    BY <2>1, <2>3
<1>. QED
  BY <1>4, <1>5, <1>6

\* A matrix is orthonormal where n times it has rows of length n at right
\* angles.
LEMMA MultipleOrthonormal ==
  ASSUME NEW m \in Elements, NEW p, NEW n \in {2, 4},
         \A c, r \in 0..2 : p[c][r] = n * m[c][r],
         \A r, s \in 0..2 : Gram(p, r, s) = IF r = s THEN n * n ELSE 0
  PROVE  Orthonormal(m)
<1>1. SUFFICES ASSUME NEW r \in 0..2, NEW s \in 0..2
               PROVE  Gram(m, r, s) = IF r = s THEN 1 ELSE 0
  BY DEF Orthonormal
<1>2. /\ m[0][r] \in Int /\ m[1][r] \in Int /\ m[2][r] \in Int
      /\ m[0][s] \in Int /\ m[1][s] \in Int /\ m[2][s] \in Int
  BY DEF Elements, Ix
<1>3. Gram(m, r, s) \in Int
  BY <1>2 DEF Gram
<1>4. Gram(p, r, s) = n * n * Gram(m, r, s)
  <2>1. /\ p[0][r] = n * m[0][r] /\ p[1][r] = n * m[1][r] /\ p[2][r] = n * m[2][r]
        /\ p[0][s] = n * m[0][s] /\ p[1][s] = n * m[1][s] /\ p[2][s] = n * m[2][s]
    OBVIOUS
  <2>2. CASE n = 2
    BY <1>2, <2>1, <2>2 DEF Gram
  <2>3. CASE n = 4
    BY <1>2, <2>1, <2>3 DEF Gram
  <2>. QED
    BY <2>2, <2>3
<1>5. Gram(p, r, s) = IF r = s THEN n * n ELSE 0
  OBVIOUS
<1>. QED
  BY <1>3, <1>4, <1>5

\* Twice the matrix of Rodrigues' formula.
IsRodrigues(p, x, y, z, c, s, k) ==
  /\ p[0][0] = x * x * k + c /\ p[0][1] = y * x * k + z * s /\ p[0][2] = x * z * k + (-y) * s
  /\ p[1][0] = x * y * k + (-z) * s /\ p[1][1] = y * y * k + c /\ p[1][2] = y * z * k + x * s
  /\ p[2][0] = x * z * k + y * s /\ p[2][1] = y * z * k + (-x) * s /\ p[2][2] = z * z * k + c

LEMMA RodriguesRows ==
  ASSUME NEW p, NEW x \in Int, NEW y \in Int, NEW z \in Int,
         NEW c \in Int, NEW s \in Int, NEW k \in Int,
         IsRodrigues(p, x, y, z, c, s, k),
         c * c + s * s * (x * x + y * y + z * z) = 4,
         k * (x * x + y * y + z * z) = 2 - c
  PROVE  /\ Gram(p, 0, 0) = 4 /\ Gram(p, 0, 1) = 0 /\ Gram(p, 0, 2) = 0
         /\ Gram(p, 1, 0) = 0 /\ Gram(p, 1, 1) = 4 /\ Gram(p, 1, 2) = 0
         /\ Gram(p, 2, 0) = 0 /\ Gram(p, 2, 1) = 0 /\ Gram(p, 2, 2) = 4
<1> DEFINE n == x * x + y * y + z * z
           e == k * (2 + c) - s * s
<1>1. n \in Int /\ e \in Int
  OBVIOUS
<1>2. e = k * (k * n) + 2 * (k * c) - s * s
  <2>1. k * n = 2 - c
    OBVIOUS
  <2>. HIDE DEF n
  <2>2. k * (k * n) = k * (2 - c)
    BY <2>1
  <2>. QED
    BY <1>1, <2>2
<1>3. n = 0 => x = 0 /\ y = 0 /\ z = 0
  <2>1. \A i \in Int : i * i \in Nat /\ (i * i = 0 => i = 0)
    BY SMT
  <2>2. x * x \in Nat /\ y * y \in Nat /\ z * z \in Nat
    BY <2>1
  <2>3. n = 0 => x * x = 0 /\ y * y = 0 /\ z * z = 0
    BY <2>2
  <2>. QED
    BY <2>1, <2>3
<1>4. e * n = 0
  <2>1. k * n = 2 - c /\ s * s * n = 4 - c * c
    OBVIOUS
  <2>. HIDE DEF n
  <2>2. e * n = (k * n) * (2 + c) - s * s * n
    BY <1>1
  <2>3. e * n = (2 - c) * (2 + c) - (4 - c * c)
    BY <2>1, <2>2
  <2>. QED
    BY <2>3
<1>5. e * x = 0 /\ e * y = 0 /\ e * z = 0
  <2>. HIDE DEF e, n
  <2>1. n = 0 \/ e = 0
    BY <1>1, <1>4
  <2>. QED
    BY <1>1, <1>3, <2>1
<1>6. /\ e * x * x = 0 /\ e * y * y = 0 /\ e * z * z = 0
      /\ e * x * y = 0 /\ e * x * z = 0 /\ e * y * z = 0
  <2>. HIDE DEF e
  <2>. QED
    BY <1>1, <1>5
<1>7. /\ Gram(p, 0, 0) = (k * (k * n) + 2 * (k * c) - s * s) * x * x + (c * c + s * s * n)
      /\ Gram(p, 1, 1) = (k * (k * n) + 2 * (k * c) - s * s) * y * y + (c * c + s * s * n)
      /\ Gram(p, 2, 2) = (k * (k * n) + 2 * (k * c) - s * s) * z * z + (c * c + s * s * n)
  <2>1. Gram(p, 0, 0) = (k * (k * n) + 2 * (k * c) - s * s) * x * x + (c * c + s * s * n)
    BY DEF Gram, IsRodrigues
  <2>2. Gram(p, 1, 1) = (k * (k * n) + 2 * (k * c) - s * s) * y * y + (c * c + s * s * n)
    BY DEF Gram, IsRodrigues
  <2>3. Gram(p, 2, 2) = (k * (k * n) + 2 * (k * c) - s * s) * z * z + (c * c + s * s * n)
    BY DEF Gram, IsRodrigues
  <2>. QED
    BY <2>1, <2>2, <2>3
<1>8. /\ Gram(p, 0, 1) = (k * (k * n) + 2 * (k * c) - s * s) * x * y
      /\ Gram(p, 0, 2) = (k * (k * n) + 2 * (k * c) - s * s) * x * z
      /\ Gram(p, 1, 2) = (k * (k * n) + 2 * (k * c) - s * s) * y * z
  <2>1. Gram(p, 0, 1) = (k * (k * n) + 2 * (k * c) - s * s) * x * y
    BY DEF Gram, IsRodrigues
  <2>2. Gram(p, 0, 2) = (k * (k * n) + 2 * (k * c) - s * s) * x * z
    BY DEF Gram, IsRodrigues
  <2>3. Gram(p, 1, 2) = (k * (k * n) + 2 * (k * c) - s * s) * y * z
    BY DEF Gram, IsRodrigues
  <2>. QED
    BY <2>1, <2>2, <2>3
<1>9. c * c + s * s * n = 4
  OBVIOUS
<1>. HIDE DEF e, n
<1>10. Gram(p, 0, 0) = 4 /\ Gram(p, 1, 1) = 4 /\ Gram(p, 2, 2) = 4
  BY <1>2, <1>6, <1>7, <1>9
<1>11. Gram(p, 0, 1) = 0 /\ Gram(p, 0, 2) = 0 /\ Gram(p, 1, 2) = 0
  BY <1>2, <1>6, <1>8
<1>12. /\ Gram(p, 1, 0) = Gram(p, 0, 1) /\ Gram(p, 2, 0) = Gram(p, 0, 2)
       /\ Gram(p, 2, 1) = Gram(p, 1, 2)
  BY DEF Gram, IsRodrigues
<1>. QED
  BY <1>10, <1>11, <1>12

\* A sum of squares no greater than 4.
LEMMA SmallSquares ==
  ASSUME NEW x \in Int, NEW y \in Int, NEW z \in Int
  PROVE  /\ x * x + y * y + z * z = 4 =>
              x \in {-2, 0, 2} /\ y \in {-2, 0, 2} /\ z \in {-2, 0, 2}
         /\ x * x + y * y + z * z = 3 =>
              x \in {-1, 1} /\ y \in {-1, 1} /\ z \in {-1, 1}
         /\ x * x + y * y + z * z >= 0
<1> DEFINE aa == x * x
           bb == y * y
           cc == z * z
<1>1. \A i \in Int : /\ i * i \in Nat
                     /\ i * i <= 4 => i \in -2..2
                     /\ i * i = 0 => i = 0
                     /\ i * i = 1 => i \in {-1, 1}
                     /\ i * i = 4 => i \in {-2, 2}
  BY SMT
<1>2. \A i \in -2..2 : i * i \in {0, 1, 4}
  <2>. SUFFICES ASSUME NEW i \in -2..2 PROVE i * i \in {0, 1, 4}
    OBVIOUS
  <2>1. i = -2 \/ i = -1 \/ i = 0 \/ i = 1 \/ i = 2
    OBVIOUS
  <2>. QED
    BY <2>1
<1>3. aa \in Nat /\ bb \in Nat /\ cc \in Nat
  BY <1>1
<1>4. aa <= 4 /\ bb <= 4 /\ cc <= 4 => aa \in {0, 1, 4} /\ bb \in {0, 1, 4} /\ cc \in {0, 1, 4}
  BY <1>1, <1>2
<1>5. /\ aa = 0 => x = 0
      /\ aa = 1 => x \in {-1, 1}
      /\ aa = 4 => x \in {-2, 2}
      /\ bb = 0 => y = 0
      /\ bb = 1 => y \in {-1, 1}
      /\ bb = 4 => y \in {-2, 2}
      /\ cc = 0 => z = 0
      /\ cc = 1 => z \in {-1, 1}
      /\ cc = 4 => z \in {-2, 2}
  BY <1>1
<1>. HIDE DEF aa, bb, cc
<1>6. aa + bb + cc = 4 => aa \in {0, 4} /\ bb \in {0, 4} /\ cc \in {0, 4}
  BY <1>3, <1>4
<1>7. aa + bb + cc = 3 => aa = 1 /\ bb = 1 /\ cc = 1
  BY <1>3, <1>4
<1>8. aa + bb + cc >= 0
  BY <1>3
<1>9. x * x + y * y + z * z = aa + bb + cc
  BY DEF aa, bb, cc
<1>. QED
  BY <1>5, <1>6, <1>7, <1>8, <1>9

\* What the formula halves is even.
AllEven(x, y, z, c, s, k) ==
  /\ (x * x * k + c) % 2 = 0 /\ (y * x * k + z * s) % 2 = 0 /\ (x * z * k + (-y) * s) % 2 = 0
  /\ (x * y * k + (-z) * s) % 2 = 0 /\ (y * y * k + c) % 2 = 0 /\ (y * z * k + x * s) % 2 = 0
  /\ (x * z * k + y * s) % 2 = 0 /\ (y * z * k + (-x) * s) % 2 = 0 /\ (z * z * k + c) % 2 = 0

LEMMA RodriguesEven ==
  ASSUME NEW x \in Int, NEW y \in Int, NEW z \in Int,
         NEW c \in Int, NEW s \in Int, NEW k \in Int,
         c * c + s * s * (x * x + y * y + z * z) = 4,
         k * (x * x + y * y + z * z) = 2 - c
  PROVE  AllEven(x, y, z, c, s, k)
<1> DEFINE n == x * x + y * y + z * z
<1>1. n \in Nat
  <2>1. n \in Int /\ n >= 0
    BY SmallSquares
  <2>. QED
    BY <2>1
<1>2. c * c + s * s * n = 4 /\ k * n = 2 - c
  OBVIOUS
<1>3. n = 4 => x \in {-2, 0, 2} /\ y \in {-2, 0, 2} /\ z \in {-2, 0, 2}
  BY SmallSquares
<1>4. n = 3 => x \in {-1, 1} /\ y \in {-1, 1} /\ z \in {-1, 1}
  BY SmallSquares
<1>5. n = 0 => x = 0 /\ y = 0 /\ z = 0
  <2>1. \A i \in Int : i * i \in Nat /\ (i * i = 0 => i = 0)
    BY SMT
  <2>2. x * x \in Nat /\ y * y \in Nat /\ z * z \in Nat
    BY <2>1
  <2>3. n = 0 => x * x = 0 /\ y * y = 0 /\ z * z = 0
    BY <2>2
  <2>. QED
    BY <2>1, <2>3
\* The angles there are: none, a third, a quarter or half of a turn.
<1>6. \/ c = 2 /\ n = 0
      \/ c = 2 /\ s = 0 /\ k = 0
      \/ c = 0 /\ k = 2 /\ s \in {-2, 2}
      \/ c = -1 /\ k = 1 /\ s \in {-1, 1} /\ n = 3
      \/ c = -2 /\ s = 0 /\ k \in {2, 4}
      \/ c = -2 /\ s = 0 /\ k = 1 /\ n = 4
  <2>. HIDE DEF n
  <2>1. s * s \in Nat
    BY SmallSquares, SMT
  <2>2. s * s * n \in Nat
    BY <1>1, <2>1
  <2>3. c \in -2..2
    <3>1. c * c <= 4
      BY <1>2, <2>2
    <3>. QED
      BY <3>1, SMT
  <2>4. \A i \in Int : /\ i * i # 2 /\ i * i # 3
                       /\ i * i = 0 => i = 0
                       /\ i * i = 1 => i \in {-1, 1}
                       /\ i * i = 4 => i \in {-2, 2}
    BY SMT
  <2>5. CASE c = 2
    <3>1. s * s * n = 0 /\ k * n = 0
      BY <1>1, <1>2, <2>1, <2>5
    <3>2. n = 0 \/ (s * s = 0 /\ k = 0)
      BY <1>1, <2>1, <3>1
    <3>. QED
      BY <2>4, <2>5, <3>2
  <2>6. CASE c = 1
    <3>1. s * s * n = 3 /\ k * n = 1
      BY <1>1, <1>2, <2>1, <2>6
    <3>2. n = 1
      BY <1>1, <3>1
    <3>. QED
      BY <2>1, <2>4, <3>1, <3>2
  <2>7. CASE c = 0
    <3>1. s * s * n = 4 /\ k * n = 2
      BY <1>1, <1>2, <2>1, <2>7
    <3>2. (n = 1 /\ k = 2) \/ (n = 2 /\ k = 1)
      <4>1. n = 1 \/ n = 2
        <5>1. n # 0
          BY <1>1, <3>1
        <5>2. k > 0
          BY <1>1, <3>1, <5>1
        <5>3. n <= 2
          BY <1>1, <3>1, <5>1, <5>2
        <5>. QED
          BY <1>1, <5>1, <5>3
      <4>2. n = 1 => k = 2
        BY <3>1
      <4>3. n = 2 => k = 1
        BY <3>1
      <4>. QED
        BY <4>1, <4>2, <4>3
    <3>3. n = 1 => s * s = 4
      BY <2>1, <3>1
    <3>4. n = 2 => s * s = 2
      BY <2>1, <3>1
    <3>. QED
      BY <2>4, <2>7, <3>2, <3>3, <3>4
  <2>8. CASE c = -1
    <3>1. s * s * n = 3 /\ k * n = 3
      BY <1>1, <1>2, <2>1, <2>8
    <3>2. (n = 1 /\ k = 3) \/ (n = 3 /\ k = 1)
      BY <1>1, <3>1
    <3>3. n = 1 => s * s = 3
      BY <2>1, <3>1
    <3>4. n = 3 => s * s = 1
      BY <2>1, <3>1
    <3>. QED
      BY <2>4, <2>8, <3>2, <3>3, <3>4
  <2>9. CASE c = -2
    <3>1. s * s * n = 0 /\ k * n = 4
      BY <1>1, <1>2, <2>1, <2>9
    <3>2. (n = 1 /\ k = 4) \/ (n = 2 /\ k = 2) \/ (n = 4 /\ k = 1)
      <4>1. n = 1 \/ n = 2 \/ n = 3 \/ n = 4
        <5>1. n # 0
          BY <1>1, <3>1
        <5>2. k > 0
          BY <1>1, <3>1, <5>1
        <5>3. n <= 4
          BY <1>1, <3>1, <5>1, <5>2
        <5>. QED
          BY <1>1, <5>1, <5>3
      <4>2. n = 1 => k = 4
        BY <3>1
      <4>3. n = 2 => k = 2
        BY <3>1
      <4>4. n # 3
        BY <3>1
      <4>5. n = 4 => k = 1
        BY <3>1
      <4>. QED
        BY <4>1, <4>2, <4>3, <4>4, <4>5
    <3>3. s * s = 0
      BY <2>1, <3>1, <3>2
    <3>. QED
      BY <2>4, <2>9, <3>2, <3>3
  <2>. QED
    BY <2>3, <2>5, <2>6, <2>7, <2>8, <2>9
<1>. HIDE DEF n
<1>7. CASE c = 2 /\ n = 0
  BY <1>5, <1>7 DEF AllEven
<1>8. CASE c = 2 /\ s = 0 /\ k = 0
  BY <1>8 DEF AllEven
<1>9. CASE c = 0 /\ k = 2 /\ s \in {-2, 2}
  BY <1>9 DEF AllEven
<1>10. CASE c = -1 /\ k = 1 /\ s \in {-1, 1} /\ n = 3
  BY <1>4, <1>10 DEF AllEven
<1>11. CASE c = -2 /\ s = 0 /\ k \in {2, 4}
  BY <1>11 DEF AllEven
<1>12. CASE c = -2 /\ s = 0 /\ k = 1 /\ n = 4
  BY <1>3, <1>12 DEF AllEven
<1>. QED
  BY <1>6, <1>7, <1>8, <1>9, <1>10, <1>11, <1>12

LEMMA NineWritten ==
  ASSUME NEW p, NEW n,
         /\ Gram(p, 0, 0) = n /\ Gram(p, 0, 1) = 0 /\ Gram(p, 0, 2) = 0
         /\ Gram(p, 1, 0) = 0 /\ Gram(p, 1, 1) = n /\ Gram(p, 1, 2) = 0
         /\ Gram(p, 2, 0) = 0 /\ Gram(p, 2, 1) = 0 /\ Gram(p, 2, 2) = n
  PROVE  \A r, s \in 0..2 : Gram(p, r, s) = IF r = s THEN n ELSE 0
<1>1. 0..2 = {0, 1, 2}
  BY SMT
<1>. QED
  BY <1>1

LEMMA Halved ==
  ASSUME NEW a \in Int, a % 2 = 0
  PROVE  a \div 2 \in Int /\ a = 2 * (a \div 2)
  BY SMT

LEMMA RotationOrthonormal ==
  ASSUME NEW turn \in Turns
  PROVE  Orthonormal(RotationM(turn))
<1> DEFINE x == turn.axis[1]
           y == turn.axis[2]
           z == turn.axis[3]
           c == turn.cos2
           s == turn.s2
           k == turn.k2
           bs == RodriguesColumns(turn)
           m == Affine(bs)
           p == [i \in 0..2 |-> [r \in 0..2 |-> 2 * m[i][r]]]
<1>1. turn \in [axis : Vector, cos2 : Int, s2 : Int, k2 : Int]
  BY ValuesAssumption
<1>2. x \in Int /\ y \in Int /\ z \in Int /\ c \in Int /\ s \in Int /\ k \in Int
  BY <1>1 DEF Vector
<1>3. /\ c * c + s * s * (x * x + y * y + z * z) = 4
      /\ k * (x * x + y * y + z * z) = 2 - c
  BY TurnsAssumption
<1>4. /\ bs[1][1] = (x * x * k + c) \div 2
      /\ bs[1][2] = (y * x * k + z * s) \div 2
      /\ bs[1][3] = (x * z * k + (-y) * s) \div 2
      /\ bs[2][1] = (x * y * k + (-z) * s) \div 2
      /\ bs[2][2] = (y * y * k + c) \div 2
      /\ bs[2][3] = (y * z * k + x * s) \div 2
      /\ bs[3][1] = (x * z * k + y * s) \div 2
      /\ bs[3][2] = (y * z * k + (-x) * s) \div 2
      /\ bs[3][3] = (z * z * k + c) \div 2
  BY DEF RodriguesColumns
<1>5. RotationM(turn) = m
  BY <1>1, RotationExact, TurnByColumns
<1>6. Pure(m)
  BY <1>1, <1>5, RotationPure
<1>. HIDE DEF x, y, z, c, s, k, bs
<1>7. AllEven(x, y, z, c, s, k)
  BY <1>2, <1>3, RodriguesEven
<1>8. /\ x * x * k + c \in Int /\ y * y * k + c \in Int /\ z * z * k + c \in Int
      /\ y * x * k + z * s \in Int /\ x * y * k + (-z) * s \in Int
      /\ x * z * k + (-y) * s \in Int /\ x * z * k + y * s \in Int
      /\ y * z * k + x * s \in Int /\ y * z * k + (-x) * s \in Int
  BY <1>2
<1>9. /\ bs[1][1] \in Int /\ 2 * bs[1][1] = x * x * k + c
      /\ bs[1][2] \in Int /\ 2 * bs[1][2] = y * x * k + z * s
      /\ bs[1][3] \in Int /\ 2 * bs[1][3] = x * z * k + (-y) * s
      /\ bs[2][1] \in Int /\ 2 * bs[2][1] = x * y * k + (-z) * s
      /\ bs[2][2] \in Int /\ 2 * bs[2][2] = y * y * k + c
      /\ bs[2][3] \in Int /\ 2 * bs[2][3] = y * z * k + x * s
      /\ bs[3][1] \in Int /\ 2 * bs[3][1] = x * z * k + y * s
      /\ bs[3][2] \in Int /\ 2 * bs[3][2] = y * z * k + (-x) * s
      /\ bs[3][3] \in Int /\ 2 * bs[3][3] = z * z * k + c
  BY <1>4, <1>7, <1>8, Halved DEF AllEven
<1>10. \A i, r \in 0..2 : m[i][r] = bs[i + 1][r + 1]
  <2>1. 1..3 = {1, 2, 3}
    OBVIOUS
  <2>2. \A i, r \in 1..3 : bs[i][r] \in Int
    BY <1>9, <2>1, Zenon
  <2>. QED
    BY <2>2, AffineAt
<1>11. \A i, r \in 0..2 : p[i][r] = 2 * m[i][r]
  OBVIOUS
<1>. HIDE DEF m, p
<1>12. /\ p[0][0] = 2 * bs[1][1] /\ p[0][1] = 2 * bs[1][2] /\ p[0][2] = 2 * bs[1][3]
       /\ p[1][0] = 2 * bs[2][1] /\ p[1][1] = 2 * bs[2][2] /\ p[1][2] = 2 * bs[2][3]
       /\ p[2][0] = 2 * bs[3][1] /\ p[2][1] = 2 * bs[3][2] /\ p[2][2] = 2 * bs[3][3]
  BY <1>10, <1>11
<1>13. IsRodrigues(p, x, y, z, c, s, k)
  BY <1>9, <1>12, Zenon DEF IsRodrigues
<1>14. \A r, t \in 0..2 : Gram(p, r, t) = IF r = t THEN 4 ELSE 0
  <2>1. /\ Gram(p, 0, 0) = 4 /\ Gram(p, 0, 1) = 0 /\ Gram(p, 0, 2) = 0
        /\ Gram(p, 1, 0) = 0 /\ Gram(p, 1, 1) = 4 /\ Gram(p, 1, 2) = 0
        /\ Gram(p, 2, 0) = 0 /\ Gram(p, 2, 1) = 0 /\ Gram(p, 2, 2) = 4
    BY <1>2, <1>3, <1>13, RodriguesRows
  <2>. QED
    BY <2>1, NineWritten
<1>15. m \in Elements
  BY <1>6 DEF Pure
<1>16. Orthonormal(m)
  <2>1. \A r, t \in 0..2 : Gram(p, r, t) = IF r = t THEN 2 * 2 ELSE 0
    BY <1>14
  <2>. QED
    BY <1>11, <1>15, <2>1, MultipleOrthonormal
<1>. QED
  BY <1>5, <1>16

\* Four times the matrix of a quaternion of length 1.
IsTurnOf(p, x, y, z, w) ==
  /\ p[0][0] = x * x + w * w - y * y - z * z
  /\ p[0][1] = 2 * (x * y + z * w)
  /\ p[0][2] = 2 * (x * z + -(y * w))
  /\ p[1][0] = 2 * (x * y + -(z * w))
  /\ p[1][1] = y * y + w * w - x * x - z * z
  /\ p[1][2] = 2 * (y * z + x * w)
  /\ p[2][0] = 2 * (x * z + y * w)
  /\ p[2][1] = 2 * (y * z + -(x * w))
  /\ p[2][2] = z * z + w * w - x * x - y * y

LEMMA QuaternionRows ==
  ASSUME NEW p, NEW x \in Int, NEW y \in Int, NEW z \in Int, NEW w \in Int,
         IsTurnOf(p, x, y, z, w), x * x + y * y + z * z + w * w = 4
  PROVE  /\ Gram(p, 0, 0) = 16 /\ Gram(p, 0, 1) = 0 /\ Gram(p, 0, 2) = 0
         /\ Gram(p, 1, 0) = 0 /\ Gram(p, 1, 1) = 16 /\ Gram(p, 1, 2) = 0
         /\ Gram(p, 2, 0) = 0 /\ Gram(p, 2, 1) = 0 /\ Gram(p, 2, 2) = 16
<1> DEFINE n == x * x + y * y + z * z + w * w
<1>1. Gram(p, 0, 0) = n * n
  BY DEF Gram, IsTurnOf
<1>2. Gram(p, 1, 1) = n * n
  BY DEF Gram, IsTurnOf
<1>3. Gram(p, 2, 2) = n * n
  BY DEF Gram, IsTurnOf
<1>4. Gram(p, 0, 1) = 0 /\ Gram(p, 1, 0) = 0
  BY DEF Gram, IsTurnOf
<1>5. Gram(p, 0, 2) = 0 /\ Gram(p, 2, 0) = 0
  BY DEF Gram, IsTurnOf
<1>6. Gram(p, 1, 2) = 0 /\ Gram(p, 2, 1) = 0
  BY DEF Gram, IsTurnOf
<1>7. n = 4
  OBVIOUS
<1>. HIDE DEF n
<1>. QED
  BY <1>1, <1>2, <1>3, <1>4, <1>5, <1>6, <1>7

LEMMA QuaternionEven ==
  ASSUME NEW x \in Int, NEW y \in Int, NEW z \in Int, NEW w \in Int,
         x * x + y * y + z * z + w * w = 4
  PROVE  /\ (x * y + z * w) % 2 = 0 /\ (x * z + -(y * w)) % 2 = 0
         /\ (x * y + -(z * w)) % 2 = 0 /\ (y * z + x * w) % 2 = 0
         /\ (x * z + y * w) % 2 = 0 /\ (y * z + -(x * w)) % 2 = 0
<1> DEFINE aa == x * x
           bb == y * y
           cc == z * z
           dd == w * w
<1>1. \A i \in Int : /\ i * i \in Nat
                     /\ i * i = 0 => i = 0
                     /\ i * i = 1 => i \in {-1, 1}
                     /\ i * i # 2 /\ i * i # 3
                     /\ i * i = 4 => i \in {-2, 2}
  BY SMT
<1>2. aa \in Nat /\ bb \in Nat /\ cc \in Nat /\ dd \in Nat
  BY <1>1
<1>3. aa \notin {2, 3} /\ bb \notin {2, 3} /\ cc \notin {2, 3} /\ dd \notin {2, 3}
  BY <1>1
<1>4. aa + bb + cc + dd = 4
  OBVIOUS
<1>5. \/ aa = 1 /\ bb = 1 /\ cc = 1 /\ dd = 1
      \/ aa \in {0, 4} /\ bb \in {0, 4} /\ cc \in {0, 4} /\ dd \in {0, 4}
  <2>. HIDE DEF aa, bb, cc, dd
  <2>. QED
    BY <1>2, <1>3, <1>4
<1>6. \/ x \in {-1, 1} /\ y \in {-1, 1} /\ z \in {-1, 1} /\ w \in {-1, 1}
      \/ x \in {-2, 0, 2} /\ y \in {-2, 0, 2} /\ z \in {-2, 0, 2} /\ w \in {-2, 0, 2}
  BY <1>1, <1>5
<1>7. CASE x \in {-1, 1} /\ y \in {-1, 1} /\ z \in {-1, 1} /\ w \in {-1, 1}
  <2>1. /\ x * y \in {-1, 1} /\ z * w \in {-1, 1} /\ x * z \in {-1, 1}
        /\ y * w \in {-1, 1} /\ y * z \in {-1, 1} /\ x * w \in {-1, 1}
    BY <1>7
  <2>2. \A i, j \in {-1, 1} : (i + j) % 2 = 0 /\ (i + -j) % 2 = 0
    BY SMT
  <2>. QED
    BY <2>1, <2>2
<1>8. CASE x \in {-2, 0, 2} /\ y \in {-2, 0, 2} /\ z \in {-2, 0, 2} /\ w \in {-2, 0, 2}
  <2>1. /\ x * y \in {-4, 0, 4} /\ z * w \in {-4, 0, 4} /\ x * z \in {-4, 0, 4}
        /\ y * w \in {-4, 0, 4} /\ y * z \in {-4, 0, 4} /\ x * w \in {-4, 0, 4}
    BY <1>8
  <2>2. \A i, j \in {-4, 0, 4} : (i + j) % 2 = 0 /\ (i + -j) % 2 = 0
    BY SMT
  <2>. QED
    BY <2>1, <2>2
<1>. QED
  BY <1>6, <1>7, <1>8

LEMMA QuaternionOrthonormal ==
  ASSUME NEW h \in Quaternions
  PROVE  Orthonormal(QuaternionM(h))
<1> DEFINE x == h[1]
           y == h[2]
           z == h[3]
           w == h[4]
           bs == <<<<1 - (y * y + z * z) \div 2, (x * y + z * w) \div 2, (x * z + -(y * w)) \div 2>>,
                   <<(x * y + -(z * w)) \div 2, 1 - (x * x + z * z) \div 2, (y * z + x * w) \div 2>>,
                   <<(x * z + y * w) \div 2, (y * z + -(x * w)) \div 2, 1 - (x * x + y * y) \div 2>>>>
           m == Affine(bs)
           p == [i \in 0..2 |-> [r \in 0..2 |-> 4 * m[i][r]]]
<1>1. x \in Int /\ y \in Int /\ z \in Int /\ w \in Int
  BY ValuesAssumption
<1>2. x * x + y * y + z * z + w * w = 4
  BY QuaternionsAssumption
<1>3. QuaternionM(h) = m
  BY DEF QuaternionM
<1>4. m \in Elements
  BY <1>3, QuaternionPure, ValuesAssumption DEF Pure
<1>5. /\ bs[1][1] = 1 - (y * y + z * z) \div 2
      /\ bs[1][2] = (x * y + z * w) \div 2
      /\ bs[1][3] = (x * z + -(y * w)) \div 2
      /\ bs[2][1] = (x * y + -(z * w)) \div 2
      /\ bs[2][2] = 1 - (x * x + z * z) \div 2
      /\ bs[2][3] = (y * z + x * w) \div 2
      /\ bs[3][1] = (x * z + y * w) \div 2
      /\ bs[3][2] = (y * z + -(x * w)) \div 2
      /\ bs[3][3] = 1 - (x * x + y * y) \div 2
  OBVIOUS
<1>. HIDE DEF x, y, z, w, bs
<1>6. /\ (y * y + z * z) % 2 = 0 /\ (x * x + z * z) % 2 = 0 /\ (x * x + y * y) % 2 = 0
  <2>1. /\ y * y + z * z + x * x + w * w = 4
        /\ x * x + z * z + y * y + w * w = 4
    BY <1>1, <1>2
  <2>. QED
    BY <1>1, <1>2, <2>1, FourSquares
<1>7. /\ (x * y + z * w) % 2 = 0 /\ (x * z + -(y * w)) % 2 = 0
      /\ (x * y + -(z * w)) % 2 = 0 /\ (y * z + x * w) % 2 = 0
      /\ (x * z + y * w) % 2 = 0 /\ (y * z + -(x * w)) % 2 = 0
  BY <1>1, <1>2, QuaternionEven
<1>8. /\ y * y + z * z \in Int /\ x * x + z * z \in Int /\ x * x + y * y \in Int
      /\ x * y + z * w \in Int /\ x * z + -(y * w) \in Int /\ x * y + -(z * w) \in Int
      /\ y * z + x * w \in Int /\ x * z + y * w \in Int /\ y * z + -(x * w) \in Int
  BY <1>1
<1>9. /\ bs[1][2] \in Int /\ 2 * bs[1][2] = x * y + z * w
      /\ bs[1][3] \in Int /\ 2 * bs[1][3] = x * z + -(y * w)
      /\ bs[2][1] \in Int /\ 2 * bs[2][1] = x * y + -(z * w)
      /\ bs[2][3] \in Int /\ 2 * bs[2][3] = y * z + x * w
      /\ bs[3][1] \in Int /\ 2 * bs[3][1] = x * z + y * w
      /\ bs[3][2] \in Int /\ 2 * bs[3][2] = y * z + -(x * w)
  BY <1>5, <1>7, <1>8, Halved
<1>10. /\ bs[1][1] \in Int /\ 4 * bs[1][1] = x * x + w * w - y * y - z * z
       /\ bs[2][2] \in Int /\ 4 * bs[2][2] = y * y + w * w - x * x - z * z
       /\ bs[3][3] \in Int /\ 4 * bs[3][3] = z * z + w * w - x * x - y * y
  <2>1. ASSUME NEW i \in Int, NEW j \in Int, NEW l \in Int, (i * i + j * j) % 2 = 0,
               l * l + i * i + j * j + w * w = 4
        PROVE  /\ 1 - (i * i + j * j) \div 2 \in Int
               /\ 4 * (1 - (i * i + j * j) \div 2) = l * l + w * w - i * i - j * j
    <3> DEFINE n == i * i + j * j
               v == n \div 2
    <3>1. n \in Int /\ n % 2 = 0
      BY <2>1
    <3>2. v \in Int /\ n = 2 * v
      <4>. HIDE DEF n
      <4>. QED
        BY <3>1, Halved
    <3>. HIDE DEF v
    <3>3. 4 * (1 - v) = l * l + w * w - i * i - j * j /\ 1 - v \in Int
      BY <1>1, <2>1, <3>2
    <3>. QED
      BY <3>3 DEF v
  <2>2. /\ y * y + x * x + z * z + w * w = 4 /\ z * z + x * x + y * y + w * w = 4
    BY <1>1, <1>2
  <2>. QED
    BY <1>1, <1>2, <1>5, <1>6, <2>1, <2>2
<1>11. \A i, r \in 0..2 : m[i][r] = bs[i + 1][r + 1]
  <2>1. 1..3 = {1, 2, 3}
    OBVIOUS
  <2>2. \A i, r \in 1..3 : bs[i][r] \in Int
    BY <1>9, <1>10, <2>1, Zenon
  <2>. QED
    BY <2>2, AffineAt
<1>12. \A i, r \in 0..2 : p[i][r] = 4 * m[i][r]
  OBVIOUS
<1>. HIDE DEF m, p
<1>13. /\ p[0][0] = 4 * bs[1][1] /\ p[0][1] = 4 * bs[1][2] /\ p[0][2] = 4 * bs[1][3]
       /\ p[1][0] = 4 * bs[2][1] /\ p[1][1] = 4 * bs[2][2] /\ p[1][2] = 4 * bs[2][3]
       /\ p[2][0] = 4 * bs[3][1] /\ p[2][1] = 4 * bs[3][2] /\ p[2][2] = 4 * bs[3][3]
  BY <1>11, <1>12
<1>14. IsTurnOf(p, x, y, z, w)
  <2>1. \A i \in Int : 4 * i = 2 * (2 * i)
    OBVIOUS
  <2>2. /\ 4 * bs[1][2] = 2 * (x * y + z * w)
        /\ 4 * bs[1][3] = 2 * (x * z + -(y * w))
        /\ 4 * bs[2][1] = 2 * (x * y + -(z * w))
        /\ 4 * bs[2][3] = 2 * (y * z + x * w)
        /\ 4 * bs[3][1] = 2 * (x * z + y * w)
        /\ 4 * bs[3][2] = 2 * (y * z + -(x * w))
    BY <1>9, <2>1
  <2>. QED
    BY <1>10, <1>13, <2>2, Zenon DEF IsTurnOf
<1>15. \A r, t \in 0..2 : Gram(p, r, t) = IF r = t THEN 16 ELSE 0
  BY <1>1, <1>2, <1>14, QuaternionRows, NineWritten
<1>16. Orthonormal(m)
  <2>1. \A r, t \in 0..2 : Gram(p, r, t) = IF r = t THEN 4 * 4 ELSE 0
    BY <1>15
  <2>. QED
    BY <1>4, <1>12, <2>1, MultipleOrthonormal
<1>. QED
  BY <1>3, <1>16

-----------------------------------------------------------------------------
\* What v is: two rows of a product, multiplied.
RowsOfProduct(v, a0, a1, a2, d0, d1, d2, b00, b01, b02, b10, b11, b12, b20, b21, b22) ==
  v = (a0 * b00 + a1 * b01 + a2 * b02) * (d0 * b00 + d1 * b01 + d2 * b02)
        + (a0 * b10 + a1 * b11 + a2 * b12) * (d0 * b10 + d1 * b11 + d2 * b12)
        + (a0 * b20 + a1 * b21 + a2 * b22) * (d0 * b20 + d1 * b21 + d2 * b22)

RowsThroughGram(v, a0, a1, a2, d0, d1, d2, b00, b01, b02, b10, b11, b12, b20, b21, b22) ==
  v = a0 * (d0 * (b00 * b00 + b10 * b10 + b20 * b20) + d1 * (b00 * b01 + b10 * b11 + b20 * b21)
              + d2 * (b00 * b02 + b10 * b12 + b20 * b22))
        + a1 * (d0 * (b01 * b00 + b11 * b10 + b21 * b20) + d1 * (b01 * b01 + b11 * b11 + b21 * b21)
                  + d2 * (b01 * b02 + b11 * b12 + b21 * b22))
        + a2 * (d0 * (b02 * b00 + b12 * b10 + b22 * b20) + d1 * (b02 * b01 + b12 * b11 + b22 * b21)
                  + d2 * (b02 * b02 + b12 * b12 + b22 * b22))

LEMMA RowsOfProductAre ==
  ASSUME NEW v, NEW a0 \in Int, NEW a1 \in Int, NEW a2 \in Int,
         NEW d0 \in Int, NEW d1 \in Int, NEW d2 \in Int,
         NEW b00 \in Int, NEW b01 \in Int, NEW b02 \in Int,
         NEW b10 \in Int, NEW b11 \in Int, NEW b12 \in Int,
         NEW b20 \in Int, NEW b21 \in Int, NEW b22 \in Int,
         RowsOfProduct(v, a0, a1, a2, d0, d1, d2, b00, b01, b02, b10, b11, b12, b20, b21, b22)
  PROVE  RowsThroughGram(v, a0, a1, a2, d0, d1, d2, b00, b01, b02, b10, b11, b12, b20, b21, b22)
  BY DEF RowsOfProduct, RowsThroughGram

\* A product of orthonormal matrices is one.
LEMMA TimesOrthonormal ==
  ASSUME NEW a \in Elements, Orthonormal(a), NEW b, Pure(b), Orthonormal(b)
  PROVE  Orthonormal(Times(a, b))
<1> DEFINE t == Times(a, b)
<1>1. SUFFICES ASSUME NEW r \in 0..2, NEW s \in 0..2
               PROVE  Gram(t, r, s) = Gram(a, r, s)
  BY DEF Orthonormal
<1>2. /\ a[0][r] \in Int /\ a[1][r] \in Int /\ a[2][r] \in Int /\ a[3][r] \in Int
      /\ a[0][s] \in Int /\ a[1][s] \in Int /\ a[2][s] \in Int /\ a[3][s] \in Int
  BY DEF Elements, Ix
<1>3. /\ b[0][0] \in Int /\ b[0][1] \in Int /\ b[0][2] \in Int /\ b[0][3] = 0
      /\ b[1][0] \in Int /\ b[1][1] \in Int /\ b[1][2] \in Int /\ b[1][3] = 0
      /\ b[2][0] \in Int /\ b[2][1] \in Int /\ b[2][2] \in Int /\ b[2][3] = 0
  BY DEF Pure, AffineRow, Elements, Ix
<1>4. ASSUME NEW i \in 0..2, a[0][i] \in Int, a[1][i] \in Int, a[2][i] \in Int, a[3][i] \in Int
      PROVE  /\ t[0][i] = a[0][i] * b[0][0] + a[1][i] * b[0][1] + a[2][i] * b[0][2]
             /\ t[1][i] = a[0][i] * b[1][0] + a[1][i] * b[1][1] + a[2][i] * b[1][2]
             /\ t[2][i] = a[0][i] * b[2][0] + a[1][i] * b[2][1] + a[2][i] * b[2][2]
  <2>1. i \in Ix /\ {0, 1, 2} \subseteq Ix
    BY DEF Ix
  <2>2. /\ t[0][i] = a[0][i] * b[0][0] + a[1][i] * b[0][1] + a[2][i] * b[0][2] + a[3][i] * b[0][3]
        /\ t[1][i] = a[0][i] * b[1][0] + a[1][i] * b[1][1] + a[2][i] * b[1][2] + a[3][i] * b[1][3]
        /\ t[2][i] = a[0][i] * b[2][0] + a[1][i] * b[2][1] + a[2][i] * b[2][2] + a[3][i] * b[2][3]
    BY <2>1, TimesAt
  <2>. HIDE DEF t
  <2>. QED
    BY <1>3, <1>4, <2>2
<1>. HIDE DEF t
<1>5. RowsOfProduct(Gram(t, r, s), a[0][r], a[1][r], a[2][r], a[0][s], a[1][s], a[2][s],
                    b[0][0], b[0][1], b[0][2], b[1][0], b[1][1], b[1][2],
                    b[2][0], b[2][1], b[2][2])
  <2>1. /\ t[0][r] = a[0][r] * b[0][0] + a[1][r] * b[0][1] + a[2][r] * b[0][2]
        /\ t[1][r] = a[0][r] * b[1][0] + a[1][r] * b[1][1] + a[2][r] * b[1][2]
        /\ t[2][r] = a[0][r] * b[2][0] + a[1][r] * b[2][1] + a[2][r] * b[2][2]
    BY <1>2, <1>4
  <2>2. /\ t[0][s] = a[0][s] * b[0][0] + a[1][s] * b[0][1] + a[2][s] * b[0][2]
        /\ t[1][s] = a[0][s] * b[1][0] + a[1][s] * b[1][1] + a[2][s] * b[1][2]
        /\ t[2][s] = a[0][s] * b[2][0] + a[1][s] * b[2][1] + a[2][s] * b[2][2]
    BY <1>2, <1>4
  <2>. QED
    BY <2>1, <2>2, Zenon DEF RowsOfProduct, Gram
<1>6. RowsThroughGram(Gram(t, r, s), a[0][r], a[1][r], a[2][r], a[0][s], a[1][s], a[2][s],
                      b[0][0], b[0][1], b[0][2], b[1][0], b[1][1], b[1][2],
                      b[2][0], b[2][1], b[2][2])
  BY <1>2, <1>3, <1>5, RowsOfProductAre
<1>7. Gram(t, r, s)
        = a[0][r] * (a[0][s] * Gram(b, 0, 0) + a[1][s] * Gram(b, 0, 1) + a[2][s] * Gram(b, 0, 2))
            + a[1][r] * (a[0][s] * Gram(b, 1, 0) + a[1][s] * Gram(b, 1, 1) + a[2][s] * Gram(b, 1, 2))
            + a[2][r] * (a[0][s] * Gram(b, 2, 0) + a[1][s] * Gram(b, 2, 1) + a[2][s] * Gram(b, 2, 2))
  BY <1>6, Zenon DEF RowsThroughGram, Gram
<1>8. /\ Gram(b, 0, 0) = 1 /\ Gram(b, 0, 1) = 0 /\ Gram(b, 0, 2) = 0
      /\ Gram(b, 1, 0) = 0 /\ Gram(b, 1, 1) = 1 /\ Gram(b, 1, 2) = 0
      /\ Gram(b, 2, 0) = 0 /\ Gram(b, 2, 1) = 0 /\ Gram(b, 2, 2) = 1
  BY OrthonormalWritten
<1>9. Gram(t, r, s)
        = a[0][r] * (a[0][s] * 1 + a[1][s] * 0 + a[2][s] * 0)
            + a[1][r] * (a[0][s] * 0 + a[1][s] * 1 + a[2][s] * 0)
            + a[2][r] * (a[0][s] * 0 + a[1][s] * 0 + a[2][s] * 1)
  BY <1>7, <1>8, Zenon
<1>10. /\ a[0][s] * 1 + a[1][s] * 0 + a[2][s] * 0 = a[0][s]
       /\ a[0][s] * 0 + a[1][s] * 1 + a[2][s] * 0 = a[1][s]
       /\ a[0][s] * 0 + a[1][s] * 0 + a[2][s] * 1 = a[2][s]
  BY <1>2
<1>. QED
  BY <1>9, <1>10, Zenon DEF Gram

LEMMA SameUpper ==
  ASSUME NEW m, NEW n, Orthonormal(m), \A c, r \in 0..2 : n[c][r] = m[c][r]
  PROVE  Orthonormal(n)
<1>1. \A r, s \in 0..2 : Gram(n, r, s) = Gram(m, r, s)
  BY DEF Gram
<1>. QED
  BY <1>1 DEF Orthonormal

LEMMA IdentityOrthonormal ==
  Orthonormal(IdentityM)
<1>1. \A c, r \in 0..2 : IdentityM[c][r] = IF c = r THEN 1 ELSE 0
  BY IdentityElements DEF Ix
<1>2. /\ IdentityM[0][0] = 1 /\ IdentityM[0][1] = 0 /\ IdentityM[0][2] = 0
      /\ IdentityM[1][0] = 0 /\ IdentityM[1][1] = 1 /\ IdentityM[1][2] = 0
      /\ IdentityM[2][0] = 0 /\ IdentityM[2][1] = 0 /\ IdentityM[2][2] = 1
  BY <1>1
<1>3. /\ Gram(IdentityM, 0, 0) = 1 /\ Gram(IdentityM, 0, 1) = 0 /\ Gram(IdentityM, 0, 2) = 0
      /\ Gram(IdentityM, 1, 0) = 0 /\ Gram(IdentityM, 1, 1) = 1 /\ Gram(IdentityM, 1, 2) = 0
      /\ Gram(IdentityM, 2, 0) = 0 /\ Gram(IdentityM, 2, 1) = 0 /\ Gram(IdentityM, 2, 2) = 1
  BY <1>2 DEF Gram
<1>. QED
  BY <1>3, OrthonormalWritten

\* What a rotation turns into one flagged as nothing else is orthonormal.
LEMMA TurnableOrthonormal ==
  ASSUME NEW o, Sound(o), Rigid(o),
         o.flagBits \in {{"Identity"}, {"Translation"}, {"Rotation"}, {"Rotation", "Translation"}}
  PROVE  Orthonormal(o.m)
<1>1. CASE o.flagBits \in {{"Rotation"}, {"Rotation", "Translation"}}
  BY <1>1 DEF Rigid
<1>2. CASE o.flagBits \in {{"Identity"}, {"Translation"}}
  <2>1. Diagonal3(o.m) /\ Ones(o.m)
    BY <1>2 DEF Sound, ShapeOf
  <2>2. \A c, r \in 0..2 : IdentityM[c][r] = IF c = r THEN 1 ELSE 0
    BY IdentityElements DEF Ix
  <2>3. \A c, r \in 0..2 : o.m[c][r] = IF c = r THEN 1 ELSE 0
    <3>1. 0..2 = {0, 1, 2}
      BY SMT
    <3>. QED
      BY <2>1, <3>1 DEF Diagonal3, Ones
  <2>. QED
    BY <2>2, <2>3, IdentityOrthonormal, SameUpper
<1>. QED
  BY <1>1, <1>2

LEMMA RotateRigid ==
  ASSUME NEW o, Sound(o), Rigid(o), NEW rm, Pure(rm), Orthonormal(rm)
  PROVE  Rigid(rotate(o, rm))
<1> DEFINE t == rotate(o, rm)
<1>1. t.m = Times(o.m, rm)
  BY RotateExact
<1>2. t.flagBits = IF o.flagBits = {"Identity"} THEN {"Rotation"} ELSE o.flagBits \cup {"Rotation"}
  BY DEF rotate, Object, Is
<1>3. o.flagBits \in FlagSets /\ o.m \in Elements
  BY DEF Sound
<1>. HIDE DEF t
<1>4. ASSUME t.flagBits \in {{"Rotation"}, {"Rotation", "Translation"}}
      PROVE  o.flagBits \in {{"Identity"}, {"Translation"}, {"Rotation"}, {"Rotation", "Translation"}}
  BY <1>2, <1>3, <1>4 DEF FlagSets
<1>5. ASSUME t.flagBits \in {{"Rotation"}, {"Rotation", "Translation"}}
      PROVE  Orthonormal(t.m)
  <2>1. Orthonormal(o.m)
    BY <1>4, <1>5, TurnableOrthonormal
  <2>. QED
    BY <1>1, <1>3, <2>1, TimesOrthonormal
<1>6. Rigid(t)
  BY <1>5 DEF Rigid
<1>. QED
  BY <1>6 DEF t

LEMMA TranslateRigid ==
  ASSUME NEW o, Sound(o), Rigid(o), NEW v \in Vector
  PROVE  Rigid(translate(o, v))
<1> DEFINE t == translate(o, v)
<1>1. t.m = Times(o.m, TranslateBy(v)) /\ o.m \in Elements
  BY TranslateExact DEF Sound
<1>2. \A c, r \in 0..2 : t.m[c][r] = o.m[c][r]
  <2>1. \A r \in 0..2 : r \in Ix
    BY DEF Ix
  <2>2. 0..2 = {0, 1, 2}
    BY SMT
  <2>. HIDE DEF t
  <2>3. \A r \in 0..2 : t.m[0][r] = o.m[0][r] /\ t.m[1][r] = o.m[1][r] /\ t.m[2][r] = o.m[2][r]
    BY <1>1, <2>1, TranslateByAt
  <2>. QED
    BY <2>2, <2>3
<1>3. t.flagBits \in {{"Rotation"}, {"Rotation", "Translation"}}
        => o.flagBits \in {{"Rotation"}, {"Rotation", "Translation"}}
  <2>1. CASE o.flagBits = {"Identity"}
    BY <2>1 DEF translate, Is, Object
  <2>2. CASE o.flagBits = {"Translation"}
    BY <2>2 DEF translate, Is, Object
  <2>3. CASE o.flagBits = {"Scale"}
    BY <2>3 DEF translate, Is, Object
  <2>4. CASE o.flagBits = {"Scale", "Translation"}
    BY <2>4 DEF translate, Is, Object
  <2>5. CASE o.flagBits \notin {{"Identity"}, {"Translation"}, {"Scale"}, {"Scale", "Translation"}}
    <3>1. t.flagBits = IF o.flagBits \in {{"Rotation"}, {"Rotation", "Translation"}}
                         THEN {"Rotation", "Translation"} ELSE {"General"}
      BY <2>5 DEF translate, Is, Object
    <3>. QED
      BY <3>1
  <2>. QED
    BY <2>1, <2>2, <2>3, <2>4, <2>5
<1>4. Rigid(t)
  <2>. HIDE DEF t
  <2>. QED
    BY <1>2, <1>3, SameUpper DEF Rigid
<1>. QED
  BY <1>4

\* Calls that are no rotation.
LEMMA GeneralRigid ==
  \A m : Rigid(general(m))
BY DEF Rigid, general, Object

LEMMA ScaleRigid ==
  ASSUME NEW o, NEW v
  PROVE  Rigid(scale(o, v))
<1>1. CASE o.flagBits \in {{"Identity"}, {"Translation"}}
  BY <1>1 DEF scale, Object, Rigid
<1>2. CASE o.flagBits \in {{"Scale"}, {"Scale", "Translation"}}
  <2>1. scale(o, v).flagBits = o.flagBits
    BY <1>2 DEF scale, Object
  <2>. QED
    BY <1>2, <2>1 DEF Rigid
<1>3. CASE o.flagBits \notin {{"Identity"}, {"Translation"}, {"Scale"}, {"Scale", "Translation"}}
  <2>1. scale(o, v) = general(ScaledColumns(o.m, v))
    BY <1>3 DEF scale
  <2>. QED
    BY <2>1, GeneralRigid
<1>. QED
  BY <1>1, <1>2, <1>3

LEMMA FlipRigid ==
  ASSUME NEW o, Sound(o)
  PROVE  Rigid(flipCoordinates(o))
<1> DEFINE m == FlippedTo(o.m, -o.m[1][1], -o.m[2][2])
<1>1. [o.m EXCEPT ![1][1] = -@, ![2][2] = -@] = m
  <2>1. /\ o.m \in [Ix -> [Ix -> Int]]
        /\ \A c, r \in Ix : o.m[c][r] \in Int
    BY OperandElements DEF Elements
  <2>. QED
    BY <2>1 DEF FlippedTo, Ix
<1>2. CASE o.flagBits \in {{"Scale"}, {"Scale", "Translation"}}
  <2>1. flipCoordinates(o) = Object(m, o.flagBits)
    <3>1. CASE o.flagBits = {"Scale"}
      BY <1>1, <3>1 DEF flipCoordinates, Is
    <3>2. CASE o.flagBits = {"Scale", "Translation"}
      BY <1>1, <3>2 DEF flipCoordinates, Is
    <3>. QED
      BY <1>2, <3>1, <3>2
  <2>. HIDE DEF m
  <2>. QED
    BY <1>2, <2>1 DEF Rigid, Object
<1>3. CASE o.flagBits = {"Translation"}
  <2>1. flipCoordinates(o) = Object(m, {"Scale", "Translation"})
    BY <1>1, <1>3 DEF flipCoordinates, Is
  <2>. HIDE DEF m
  <2>. QED
    BY <2>1 DEF Rigid, Object
<1>4. CASE o.flagBits = {"Identity"}
  BY <1>4 DEF flipCoordinates, Object, Is, Rigid
<1>5. CASE o.flagBits \notin {{"Scale"}, {"Scale", "Translation"}, {"Translation"}, {"Identity"}}
  <2>1. flipCoordinates(o).flagBits = {"General"}
    BY <1>5 DEF flipCoordinates, Object, Is, general
  <2>. QED
    BY <2>1 DEF Rigid
<1>. QED
  BY <1>2, <1>3, <1>4, <1>5

LEMMA InferRigid ==
  ASSUME NEW o
  PROVE  Rigid(inferSpecialType(o))
<1>1. inferSpecialType(o).flagBits
        \in {{"General"}, {"Translation"}, {"Translation", "Scale"}, {"Identity"}, {"Scale"}}
  BY DEF inferSpecialType, Object
<1>. QED
  BY <1>1 DEF Rigid

LEMMA ProductRigid ==
  ASSUME NEW o, Rigid(o), NEW x, Rigid(x)
  PROVE  Rigid(product(o, x)) /\ Rigid(multiplyBy(o, x))
BY GeneralRigid DEF product, multiplyBy

LEMMA ProjectionRigid ==
  ASSUME NEW o, Rigid(o), NEW l, NEW r, NEW b, NEW t, NEW n, NEW f
  PROVE  /\ Rigid(ortho(o, l, r, b, t, n, f))
         /\ Rigid(frustum(o, l, r, b, t, n, f))
         /\ Rigid(perspective(o, l, r, b, t, n))
BY GeneralRigid, ProductRigid, ScaleRigid DEF ortho, frustum, perspective

LEMMA LookAtRigid ==
  ASSUME NEW o, Sound(o), Rigid(o), NEW e \in Eyes
  PROVE  Rigid(lookAt(o, e[1], e[2], e[3]))
<1> DEFINE m == LookAtM(e[1], e[2], e[3])
           v == [i \in 1..3 |-> -e[1][i]]
           x == multiplyBy(o, general(m))
<1>1. m \in Elements
  BY LookAtExact
<1>2. x.flagBits = {"General"}
  BY DEF multiplyBy, product, general, Object, Is
<1>3. lookAt(o, e[1], e[2], e[3]) = translate(x, v)
  BY DEF lookAt
<1>. HIDE DEF x, v
<1>4. translate(x, v).flagBits = {"General"}
  BY <1>2 DEF translate, Is, Object
<1>. QED
  BY <1>3, <1>4 DEF Rigid

-----------------------------------------------------------------------------
LEMMA OperandsRigid ==
  ASSUME NEW o \in Operands
  PROVE  Rigid(o)
<1>1. Rigid(identity)
  BY DEF identity, Object, Rigid
<1>2. \A m \in Matrices : Rigid(general(m))
  BY GeneralRigid
<1>3. \A v \in Vectors : Rigid(translate(identity, v)) /\ Rigid(scale(identity, v))
  BY <1>1, ValuesAssumption, IdentitySound, TranslateRigid, ScaleRigid
<1>4. \A turn \in Turns : Rigid(rotate(identity, RotationM(turn)))
  BY <1>1, ValuesAssumption, IdentitySound, RotationPure, RotationOrthonormal, RotateRigid
<1>. QED
  BY <1>1, <1>2, <1>3, <1>4 DEF Operands

LEMMA CallsRigid ==
  Sound(q) /\ Rigid(q) /\ [Next]_vars => Rigid(q')
<1>. SUFFICES ASSUME Sound(q), Rigid(q), [Next]_vars
             PROVE  Rigid(q')
  OBVIOUS
<1>0. CASE UNCHANGED vars
  BY <1>0 DEF vars
<1>1. CASE SetToIdentity
  BY <1>1 DEF SetToIdentity, Call, identity, Object, Rigid
<1>2. CASE Fill \/ SetElement \/ SetColumn \/ SetRow \/ Plus \/ Minus \/ TimesNumber
             \/ DividedBy \/ Negated \/ Transposed
  <2>1. CASE Fill
    <3>1. PICK n \in Numbers : q' = fill(n)
      BY <2>1 DEF Fill, Call
    <3>. QED
      BY <3>1, GeneralRigid DEF fill
  <2>2. CASE SetElement
    <3>1. PICK p \in Places, n \in Numbers : q' = setElement(q, p[1], p[2], n)
      BY <2>2 DEF SetElement, Call
    <3>. QED
      BY <3>1, GeneralRigid DEF setElement
  <2>3. CASE SetColumn
    <3>1. PICK i \in Ix, p \in Points : q' = setColumn(q, i, Homogeneous(p))
      BY <2>3 DEF SetColumn, Call
    <3>. QED
      BY <3>1, GeneralRigid DEF setColumn
  <2>4. CASE SetRow
    <3>1. PICK i \in Ix, p \in Points : q' = setRow(q, i, Homogeneous(p))
      BY <2>4 DEF SetRow, Call
    <3>. QED
      BY <3>1, GeneralRigid DEF setRow
  <2>5. CASE Plus
    <3>1. PICK o \in Operands : q' = plus(q, o)
      BY <2>5 DEF Plus, Call
    <3>. QED
      BY <3>1, GeneralRigid DEF plus
  <2>6. CASE Minus
    <3>1. PICK o \in Operands : q' = minus(q, o)
      BY <2>6 DEF Minus, Call
    <3>. QED
      BY <3>1, GeneralRigid DEF minus
  <2>7. CASE TimesNumber
    <3>1. PICK n \in Numbers : q' = timesNumber(q, n)
      BY <2>7 DEF TimesNumber, Call
    <3>. QED
      BY <3>1, GeneralRigid DEF timesNumber
  <2>8. CASE DividedBy
    <3>1. PICK n \in Numbers \ {0} : q' = dividedBy(q, n)
      BY <2>8 DEF DividedBy, Call
    <3>. QED
      BY <3>1, GeneralRigid DEF dividedBy
  <2>9. CASE Negated
    <3>1. q' = negated(q)
      BY <2>9 DEF Negated, Call
    <3>. QED
      BY <3>1, GeneralRigid DEF negated
  <2>10. CASE Transposed
    <3>1. q' = transposed(q)
      BY <2>10 DEF Transposed, Call
    <3>. QED
      BY <3>1, GeneralRigid DEF transposed
  <2>. QED
    BY <1>2, <2>1, <2>2, <2>3, <2>4, <2>5, <2>6, <2>7, <2>8, <2>9, <2>10
<1>3. CASE MultiplyBy
  <2>1. PICK o \in Operands : q' = multiplyBy(q, o)
    BY <1>3 DEF MultiplyBy, Call
  <2>. QED
    BY <2>1, OperandsRigid, ProductRigid
<1>4. CASE MultiplyOnto
  <2>1. PICK o \in Operands : q' = product(o, q)
    BY <1>4 DEF MultiplyOnto, Call
  <2>. QED
    BY <2>1, OperandsRigid, ProductRigid
<1>5. CASE Scale
  BY <1>5, ScaleRigid DEF Scale, Call
<1>6. CASE Translate
  <2>1. PICK v \in Vectors : q' = translate(q, v)
    BY <1>6 DEF Translate, Call
  <2>. QED
    BY <2>1, TranslateRigid, ValuesAssumption
<1>7. CASE Rotate
  <2>1. PICK turn \in Turns : q' = rotate(q, RotationM(turn))
    BY <1>7 DEF Rotate, Call
  <2>. QED
    BY <2>1, RotationPure, RotationOrthonormal, RotateRigid, ValuesAssumption
<1>8. CASE RotateQuaternion
  <2>1. PICK h \in Quaternions : q' = rotate(q, QuaternionM(h))
    BY <1>8 DEF RotateQuaternion, Call
  <2>. QED
    BY <2>1, QuaternionPure, QuaternionOrthonormal, RotateRigid, ValuesAssumption
<1>9. CASE Ortho
  BY <1>9, ProjectionRigid DEF Ortho, Call
<1>10. CASE OrthoRect
  BY <1>10, ProjectionRigid DEF OrthoRect, orthoRect, Call
<1>11. CASE Frustum
  BY <1>11, ProjectionRigid DEF Frustum, Call
<1>12. CASE Perspective
  BY <1>12, ProjectionRigid DEF Perspective, Call
<1>13. CASE LookAt
  <2>1. PICK e \in Eyes : q' = lookAt(q, e[1], e[2], e[3])
    BY <1>13 DEF LookAt, Call
  <2>. QED
    BY <2>1, LookAtRigid
<1>14. CASE FlipCoordinates
  BY <1>14, FlipRigid DEF FlipCoordinates, Call
<1>15. CASE InferSpecialType
  BY <1>15, InferRigid DEF InferSpecialType, Call
<1>. QED
  BY <1>0, <1>1, <1>2, <1>3, <1>4, <1>5, <1>6, <1>7, <1>8, <1>9, <1>10, <1>11, <1>12, <1>13,
     <1>14, <1>15 DEF Next

\* inverted() says whether the determinant is 0 and otherwise returns the
\* inverse, normalMatrix() the transposed inverse of the upper 3x3 part,
\* whatever calls made the matrix: what is flagged a rotation, and inverted by
\* transposing, is orthonormal.
THEOREM InversesAreExact ==
  Spec => []InverseExact
<1> DEFINE IInv == Sound(q) /\ Rigid(q)
<1>1. Init => IInv
  BY OperandsSound, OperandsRigid DEF Init
<1>2. IInv /\ [Next]_vars => IInv'
  <2>1. IInv /\ [Next]_vars => Rigid(q)'
    <3>1. Rigid(q)' <=> Rigid(q')
      BY DEF Rigid, Orthonormal, Gram
    <3>. QED
      BY <3>1, CallsRigid
  <2>. QED
    BY <2>1, CallsSound
<1>3. IInv => InverseExact
  BY InverseOf, NormalOf DEF InverseExact
<1>. HIDE DEF IInv
<1>. QED
  BY <1>1, <1>2, <1>3, PTL DEF Spec

=============================================================================
