----------------------------- MODULE Matrix4x4 -----------------------------
(***************************************************************************)
(* The operators of QMatrix4x4D (MapView/QMatrix4x4D.cpp and .hpp): a 4x4  *)
(* matrix that remembers in flagBits what it was made of, so that later    *)
(* operations may leave out the elements the flags say are 0 or 1.         *)
(*                                                                         *)
(* A matrix object is [m, flagBits] with m[column][row], as in the code.   *)
(* Elements are integers: the arithmetic is exact, rounding is left out.   *)
(* A quotient that need not be an integer is kept as numerator and         *)
(* denominator, a point whose w need not be 1 as <<x, y, z, w>>.           *)
(***************************************************************************)
EXTENDS Integers, Sequences

Ix == 0..3
Flags == {"Identity", "General", "Translation", "Scale", "Rotation"}

\* The matrix of four columns, each <<row 0, row 1, row 2, row 3>>.
Columns(cs) == [c \in Ix |-> [r \in Ix |-> cs[c + 1][r + 1]]]

IdentityM == [c \in Ix |-> [r \in Ix |-> IF c = r THEN 1 ELSE 0]]

\* The quotient of two integers, the divisor of either sign.
Over(n, d) == IF d < 0 THEN (-n) \div (-d) ELSE n \div d

Object(m, flags) == [m |-> m, flagBits |-> flags]

Is(q, flags) == q.flagBits = flags

\* setToIdentity(), and the constructor without arguments.
identity == Object(IdentityM, {"Identity"})

\* The constructors from values, and data() once the caller has written.
general(m) == Object(m, {"General"})

-----------------------------------------------------------------------------
(* Elements. *)

fill(v) == general([c \in Ix |-> [r \in Ix |-> v]])

\* operator()(row, column), written to by the caller.
setElement(q, r, c, v) == general([q.m EXCEPT ![c][r] = v])

setColumn(q, c, v) == general([q.m EXCEPT ![c] = [r \in Ix |-> v[r + 1]]])

setRow(q, r, v) == general([c \in Ix |-> [q.m[c] EXCEPT ![r] = v[c + 1]]])

\* Elementwise: +=, -=, *= and /= by a number, the same as operators of two.
plus(q, o) == general([c \in Ix |-> [r \in Ix |-> q.m[c][r] + o.m[c][r]]])
minus(q, o) == general([c \in Ix |-> [r \in Ix |-> q.m[c][r] - o.m[c][r]]])
timesNumber(q, f) == general([c \in Ix |-> [r \in Ix |-> q.m[c][r] * f]])
negated(q) == general([c \in Ix |-> [r \in Ix |-> -q.m[c][r]]])

\* For a divisor that divides every element.
dividedBy(q, d) == general([c \in Ix |-> [r \in Ix |-> Over(q.m[c][r], d)]])

transposed(q) == general([c \in Ix |-> [r \in Ix |-> q.m[r][c]]])

isIdentity(q) == Is(q, {"Identity"}) \/ \A c, r \in Ix : q.m[c][r] = IdentityM[c][r]

\* operator==, and the opposite of operator!=.  Flags are not compared.
equal(q, o) == \A c, r \in Ix : q.m[c][r] = o.m[c][r]

-----------------------------------------------------------------------------
(* Conversions. *)

\* The constructors from a matrix of another size, values[column][row]: what
\* it lacks is as in the identity.
fromGeneric(values, cols, rows) ==
  general([c \in Ix |-> [r \in Ix |->
    IF c < cols /\ r < rows THEN values[c][r] ELSE IF c = r THEN 1 ELSE 0]])

\* toGenericMatrix(), to a matrix of at most four columns and rows.
toGeneric(q, cols, rows) == [c \in 0..(cols - 1) |-> [r \in 0..(rows - 1) |-> q.m[c][r]]]

\* The constructor from a QTransform <<m11, m12, m13, m21, m22, m23, dx, dy, m33>>.
fromTransform(t) ==
  general(Columns(<<<<t[1], t[2], 0, t[3]>>, <<t[4], t[5], 0, t[6]>>,
                    <<0, 0, 1, 0>>, <<t[7], t[8], 0, t[9]>>>>))

\* (Mutated: the matrix is taken to be affine.)
toTransformAffine(q) ==
  <<q.m[0][0], q.m[0][1], 0, q.m[1][0], q.m[1][1], 0, q.m[3][0], q.m[3][1], 1>>

toTransform(q) ==
  <<q.m[0][0], q.m[0][1], q.m[0][3], q.m[1][0], q.m[1][1], q.m[1][3],
    q.m[3][0], q.m[3][1], q.m[3][3]>>

\* The constructor from a QMatrix <<m11, m12, m21, m22, dx, dy>>.
fromAffine(t) == fromTransform(<<t[1], t[2], 0, t[3], t[4], 0, t[5], t[6], 1>>)

toAffine(q) == <<q.m[0][0], q.m[0][1], q.m[1][0], q.m[1][1], q.m[3][0], q.m[3][1]>>

-----------------------------------------------------------------------------
(* Products. *)

Times(a, b) ==
  [c \in Ix |-> [r \in Ix |->
    a[0][r] * b[c][0] + a[1][r] * b[c][1] + a[2][r] * b[c][2] + a[3][r] * b[c][3]]]

product(q, o) ==
  IF Is(q, {"Identity"}) THEN o
  ELSE IF Is(o, {"Identity"}) THEN q
  ELSE general(Times(q.m, o.m))

\* operator*=: tests the flags itself before it calls operator*.
multiplyBy(q, o) ==
  IF Is(q, {"Identity"}) THEN o
  ELSE IF Is(o, {"Identity"}) THEN q
  ELSE product(q, o)

-----------------------------------------------------------------------------
(* Scaling and moving, by a vector <<x, y, z>>. *)

ScaledColumns(m, v) ==
  [c \in Ix |-> [r \in Ix |-> IF c = 3 THEN m[c][r] ELSE m[c][r] * v[c + 1]]]

\* (Mutated: a scale is or-ed onto the flags on the slow path, too.)
scaleKeepingFlags(q, v) ==
  Object(ScaledColumns(q.m, v), (q.flagBits \ {"Identity"}) \cup {"Scale"})

\* The overloads differ in how they are given the vector: scale(x, y) is by
\* <<x, y, 1>>, scale(factor) by <<factor, factor, factor>>.
scale(q, v) ==
  IF q.flagBits \in {{"Identity"}, {"Translation"}}
    THEN Object([q.m EXCEPT ![0][0] = v[1], ![1][1] = v[2], ![2][2] = v[3]],
                (q.flagBits \ {"Identity"}) \cup {"Scale"})
  ELSE IF q.flagBits \in {{"Scale"}, {"Scale", "Translation"}}
    THEN Object([q.m EXCEPT ![0][0] = @ * v[1], ![1][1] = @ * v[2], ![2][2] = @ * v[3]],
                q.flagBits)
  ELSE general(ScaledColumns(q.m, v))

\* The last column of m times a translation by v.
Moved(m, v) ==
  [m EXCEPT ![3] = [r \in Ix |->
     m[3][r] + m[0][r] * v[1] + m[1][r] * v[2] + m[2][r] * v[3]]]

\* (Mutated: what is moved is not scaled.)
translateUnscaled(q, v) ==
  Object([q.m EXCEPT ![3][0] = @ + v[1], ![3][1] = @ + v[2], ![3][2] = @ + v[3]],
         CASE Is(q, {"Identity"}) -> {"Translation"}
           [] q.flagBits \in {{"Translation"}, {"Scale"}, {"Rotation"}} ->
                q.flagBits \cup {"Translation"}
           [] q.flagBits \in {{"Scale", "Translation"}, {"Rotation", "Translation"}} -> q.flagBits
           [] OTHER -> {"General"})

\* translate(x, y) is by <<x, y, 0>>.
translate(q, v) ==
  CASE Is(q, {"Identity"}) ->
         Object([q.m EXCEPT ![3][0] = v[1], ![3][1] = v[2], ![3][2] = v[3]],
                {"Translation"})
    [] Is(q, {"Translation"}) ->
         Object([q.m EXCEPT ![3][0] = @ + v[1], ![3][1] = @ + v[2], ![3][2] = @ + v[3]],
                q.flagBits)
    [] Is(q, {"Scale"}) ->
         Object([q.m EXCEPT ![3][0] = q.m[0][0] * v[1], ![3][1] = q.m[1][1] * v[2],
                            ![3][2] = q.m[2][2] * v[3]],
                {"Scale", "Translation"})
    [] Is(q, {"Scale", "Translation"}) ->
         Object([q.m EXCEPT ![3][0] = @ + q.m[0][0] * v[1], ![3][1] = @ + q.m[1][1] * v[2],
                            ![3][2] = @ + q.m[2][2] * v[3]],
                q.flagBits)
    [] OTHER ->
         Object(Moved(q.m, v),
                IF q.flagBits \in {{"Rotation"}, {"Rotation", "Translation"}}
                  THEN {"Rotation", "Translation"} ELSE {"General"})

flipCoordinates(q) ==
  CASE q.flagBits \in {{"Scale"}, {"Scale", "Translation"}} ->
         Object([q.m EXCEPT ![1][1] = -@, ![2][2] = -@], q.flagBits)
    [] Is(q, {"Translation"}) ->
         Object([q.m EXCEPT ![1][1] = -@, ![2][2] = -@], {"Scale", "Translation"})
    [] Is(q, {"Identity"}) ->
         Object([q.m EXCEPT ![1][1] = -1, ![2][2] = -1], {"Scale"})
    [] OTHER ->
         general([c \in Ix |-> [r \in Ix |-> IF c \in {1, 2} THEN -q.m[c][r] ELSE q.m[c][r]]])

-----------------------------------------------------------------------------
(* Rotations.  A turn is [axis, cos2, s2, k2]: with a the angle and |axis|  *)
(* the axis' length, cos2 = 2 cos a, s2 = 2 sin a / |axis| and              *)
(* k2 = 2 (1 - cos a) / |axis|^2.                                           *)

\* The matrix of the three columns of its upper 3x3 part.
Affine(cs) ==
  [c \in Ix |-> [r \in Ix |->
     IF c < 3 /\ r < 3 THEN cs[c + 1][r + 1] ELSE IF c = r THEN 1 ELSE 0]]

Sine(turn, n) == (turn.s2 * (IF n < 0 THEN -n ELSE n)) \div 2

\* About an axis of the coordinates, the sign of n giving its direction: the
\* columns and rows i and j of the identity change.
AxisRotation(i, j, n, turn) ==
  LET c == turn.cos2 \div 2
      s == Sine(turn, n)
  IN  [IdentityM EXCEPT ![i][i] = c, ![j][j] = c,
                        ![j][i] = IF n < 0 THEN s ELSE -s,
                        ![i][j] = IF n < 0 THEN -s ELSE s]

RotationM(turn) ==
  LET x == turn.axis[1]
      y == turn.axis[2]
      z == turn.axis[3]
      Diag(n) == (n * n * turn.k2 + turn.cos2) \div 2
      Off(a, b, n) == (a * b * turn.k2 + n * turn.s2) \div 2
  IN  CASE x = 0 /\ y = 0 /\ z # 0 -> AxisRotation(0, 1, z, turn)
        [] x = 0 /\ y # 0 /\ z = 0 -> AxisRotation(2, 0, y, turn)
        [] x # 0 /\ y = 0 /\ z = 0 -> AxisRotation(1, 2, x, turn)
        [] OTHER ->
             Affine(<<<<Diag(x), Off(y, x, z), Off(x, z, -y)>>,
                      <<Off(x, y, -z), Diag(y), Off(y, z, x)>>,
                      <<Off(x, z, y), Off(y, z, -x), Diag(z)>>>>)

\* Of a quaternion given as twice its parts <<x, y, z, scalar>>.
QuaternionM(h) ==
  LET x == h[1]
      y == h[2]
      z == h[3]
      w == h[4]
      Diag(a, b) == 1 - (a * a + b * b) \div 2
      Off(a, b) == (a + b) \div 2
  IN  Affine(<<<<Diag(y, z), Off(x * y, z * w), Off(x * z, -(y * w))>>,
               <<Off(x * y, -(z * w)), Diag(x, z), Off(y * z, x * w)>>,
               <<Off(x * z, y * w), Off(y * z, -(x * w)), Diag(x, y)>>>>)

\* (Mutated: the flags from before the rotation are kept, as scale() does.)
rotateKeepingFlags(q, rm) ==
  Object(multiplyBy(q, general(rm)).m,
         IF Is(q, {"Identity"}) THEN {"Rotation"} ELSE q.flagBits)

\* What both rotate() do with their matrix: flags are or-ed onto what was there.
rotate(q, rm) ==
  Object(multiplyBy(q, general(rm)).m,
         IF Is(q, {"Identity"}) THEN {"Rotation"} ELSE q.flagBits \cup {"Rotation"})

-----------------------------------------------------------------------------
(* Projections: all arguments are such that the quotients are integers.    *)

OrthoM(l, r, b, t, n, f) ==
  Columns(<<<<Over(2, r - l), 0, 0, 0>>,
            <<0, Over(2, t - b), 0, 0>>,
            <<0, 0, Over(-2, f - n), 0>>,
            <<Over(-(l + r), r - l), Over(-(t + b), t - b), Over(-(n + f), f - n), 1>>>>)

ortho(q, l, r, b, t, n, f) ==
  IF l = r \/ b = t \/ n = f THEN q
  ELSE IF f - n = 2 /\ n + f = 0
    THEN scale(translate(q, <<Over(-(l + r), r - l), Over(-(t + b), t - b), 0>>),
               <<Over(2, r - l), Over(2, t - b), -1>>)
  ELSE multiplyBy(q, general(OrthoM(l, r, b, t, n, f)))

\* Of a window given as a QRect or QRectF.
orthoRect(q, rect) == ortho(q, rect.x, rect.x + rect.w, rect.y + rect.h, rect.y, -1, 1)

FrustumM(l, r, b, t, n, f) ==
  Columns(<<<<Over(2 * n, r - l), 0, 0, 0>>,
            <<0, Over(2 * n, t - b), 0, 0>>,
            <<Over(l + r, r - l), Over(t + b, t - b), Over(-(n + f), f - n), -1>>,
            <<0, 0, Over(-2 * n * f, f - n), 0>>>>)

frustum(q, l, r, b, t, n, f) ==
  IF l = r \/ b = t \/ n = f THEN q
  ELSE multiplyBy(q, general(FrustumM(l, r, b, t, n, f)))

PerspectiveM(cotan, aspect, n, f) ==
  Columns(<<<<Over(cotan, aspect), 0, 0, 0>>,
            <<0, cotan, 0, 0>>,
            <<0, 0, Over(-(n + f), f - n), -1>>,
            <<0, 0, Over(-2 * n * f, f - n), 0>>>>)

\* cotan of half the angle; "sineZero" where that angle's sine is 0.
perspective(q, sineZero, cotan, aspect, n, f) ==
  IF n = f \/ aspect = 0 \/ sineZero THEN q
  ELSE multiplyBy(q, general(PerspectiveM(cotan, aspect, n, f)))

-----------------------------------------------------------------------------
(* Vectors (QVector3DD.cpp) and lookAt. *)

crossProduct(a, b) ==
  <<a[2] * b[3] - a[3] * b[2], a[3] * b[1] - a[1] * b[3], a[1] * b[2] - a[2] * b[1]>>

\* A null vector stays null.  For vectors of an integer length that divides them.
normalized(v) ==
  LET len2 == v[1] * v[1] + v[2] * v[2] + v[3] * v[3]
      len == CHOOSE n \in 0..len2 : n * n = len2
  IN  IF len2 \in {0, 1} THEN v ELSE [i \in 1..3 |-> Over(v[i], len)]

LookAtM(eye, center, up) ==
  LET forward == normalized([i \in 1..3 |-> center[i] - eye[i]])
      side == normalized(crossProduct(forward, up))
      upVector == crossProduct(side, forward)
  IN  Affine([i \in 1..3 |-> <<side[i], upVector[i], -forward[i]>>])

lookAt(q, eye, center, up) ==
  translate(multiplyBy(q, general(LookAtM(eye, center, up))), [i \in 1..3 |-> -eye[i]])

-----------------------------------------------------------------------------
(* Determinants and inverses. *)

matrixDet3(m, c0, c1, c2, r0, r1, r2) ==
  m[c0][r0] * (m[c1][r1] * m[c2][r2] - m[c1][r2] * m[c2][r1])
    - m[c1][r0] * (m[c0][r1] * m[c2][r2] - m[c0][r2] * m[c2][r1])
    + m[c2][r0] * (m[c0][r1] * m[c1][r2] - m[c0][r2] * m[c1][r1])

determinant(m) ==
  m[0][0] * matrixDet3(m, 1, 2, 3, 1, 2, 3) - m[1][0] * matrixDet3(m, 0, 2, 3, 1, 2, 3)
    + m[2][0] * matrixDet3(m, 0, 1, 3, 1, 2, 3) - m[3][0] * matrixDet3(m, 0, 1, 2, 1, 2, 3)

\* The three of Ix without i, in order.
Without(i) == [k \in 1..3 |-> IF k > i THEN k ELSE k - 1]

\* Element [c][r] before the division by the determinant: with the sign of
\* its place, the determinant of the columns without r and the rows without c.
Adjugate(m) ==
  [c \in Ix |-> [r \in Ix |->
    LET cs == Without(r)
        rs == Without(c)
        d == matrixDet3(m, cs[1], cs[2], cs[3], rs[1], rs[2], rs[3])
    IN  IF (c + r) % 2 = 0 THEN d ELSE -d]]

\* (Mutated: the translation is only negated, not turned back.)
orthonormalInverseUnturned(m) ==
  [c \in Ix |-> [r \in Ix |->
    IF c < 3 THEN (IF r < 3 THEN m[r][c] ELSE 0)
    ELSE IF r < 3 THEN -m[3][r] ELSE 1]]

orthonormalInverse(m) ==
  [c \in Ix |-> [r \in Ix |->
    IF c < 3 THEN (IF r < 3 THEN m[r][c] ELSE 0)
    ELSE IF r < 3 THEN -(m[r][0] * m[3][0] + m[r][1] * m[3][1] + m[r][2] * m[3][2]) ELSE 1]]

\* The matrix returned is obj with its elements over den.
inverted(q) ==
  LET det == determinant(q.m)
  IN  CASE Is(q, {"Identity"}) -> [obj |-> identity, den |-> 1, invertible |-> TRUE]
        [] Is(q, {"Translation"}) ->
             [obj |-> Object([IdentityM EXCEPT ![3][0] = -q.m[3][0], ![3][1] = -q.m[3][1],
                                               ![3][2] = -q.m[3][2]], {"Translation"}),
              den |-> 1, invertible |-> TRUE]
        [] q.flagBits \in {{"Rotation"}, {"Rotation", "Translation"}} ->
             [obj |-> general(orthonormalInverse(q.m)), den |-> 1, invertible |-> TRUE]
        [] OTHER ->
             IF det = 0 THEN [obj |-> identity, den |-> 1, invertible |-> FALSE]
             ELSE [obj |-> general(Adjugate(q.m)), den |-> det, invertible |-> TRUE]

\* The matrix returned is the 3x3 part mat over den, or (ok FALSE) the identity.
normalMatrix(q) ==
  LET m == q.m
      det == matrixDet3(m, 0, 1, 2, 0, 1, 2)
      Unit3 == [c \in 0..2 |-> [r \in 0..2 |-> IF c = r THEN 1 ELSE 0]]
  IN  CASE q.flagBits \in {{"Identity"}, {"Translation"}} ->
             [mat |-> Unit3, den |-> 1, ok |-> TRUE]
        [] q.flagBits \in {{"Scale"}, {"Scale", "Translation"}} ->
             LET d == m[0][0] * m[1][1] * m[2][2]
             IN  IF d = 0 THEN [mat |-> Unit3, den |-> 1, ok |-> FALSE]
                 ELSE [mat |-> [c \in 0..2 |-> [r \in 0..2 |->
                                 IF c = r THEN Over(d, m[c][c]) ELSE 0]],
                       den |-> d, ok |-> TRUE]
        [] OTHER ->
             IF det = 0 THEN [mat |-> Unit3, den |-> 1, ok |-> FALSE]
             ELSE [mat |-> [c \in 0..2 |-> [r \in 0..2 |->
                     LET c1 == (c + 1) % 3
                         c2 == (c + 2) % 3
                         r1 == (r + 1) % 3
                         r2 == (r + 2) % 3
                     IN  m[c1][r1] * m[c2][r2] - m[c2][r1] * m[c1][r2]]],
                   den |-> det, ok |-> TRUE]

\* The last row and all off the diagonal but the last column are 0 and m[3][3]
\* is 1, or the matrix is of no special type.
inferSpecialType(q) ==
  LET m == q.m
      diagonal == /\ m[3][3] = 1
                  /\ \A c \in 0..2, r \in Ix : c # r => m[c][r] = 0
      moved == m[3][0] # 0 \/ m[3][1] # 0 \/ m[3][2] # 0
      ones == m[0][0] = 1 /\ m[1][1] = 1 /\ m[2][2] = 1
  IN  Object(m, IF ~diagonal THEN {"General"}
                ELSE IF moved /\ ones THEN {"Translation"}
                ELSE IF moved THEN {"Translation", "Scale"}
                ELSE IF ones THEN {"Identity"} ELSE {"Scale"})

-----------------------------------------------------------------------------
(* Mapping points and rectangles. *)

\* A column vector <<x, y, z, w>>.
MapVector4(q, v) ==
  [i \in 1..4 |-> v[1] * q.m[0][i - 1] + v[2] * q.m[1][i - 1]
                    + v[3] * q.m[2][i - 1] + v[4] * q.m[3][i - 1]]

\* A row vector.
RowVector4(v, q) ==
  [i \in 1..4 |-> v[1] * q.m[i - 1][0] + v[2] * q.m[i - 1][1]
                    + v[3] * q.m[i - 1][2] + v[4] * q.m[i - 1][3]]

\* A point as a row, <<x, y, z>>: the last component is 1.
RowPoint(p, q) == RowVector4(<<p[1], p[2], p[3], 1>>, q)

\* A point in the plane as a row: z is 0 and not asked for.
RowPoint2(p, q) == LET v == RowVector4(<<p[1], p[2], 0, 1>>, q) IN <<v[1], v[2], v[4]>>

\* map() of a point <<x, y, z>>.
map(q, p) ==
  CASE Is(q, {"Identity"}) -> <<p[1], p[2], p[3], 1>>
    [] Is(q, {"Translation"}) ->
         <<p[1] + q.m[3][0], p[2] + q.m[3][1], p[3] + q.m[3][2], 1>>
    [] Is(q, {"Translation", "Scale"}) ->
         <<p[1] * q.m[0][0] + q.m[3][0], p[2] * q.m[1][1] + q.m[3][1],
           p[3] * q.m[2][2] + q.m[3][2], 1>>
    [] Is(q, {"Scale"}) -> <<p[1] * q.m[0][0], p[2] * q.m[1][1], p[3] * q.m[2][2], 1>>
    [] OTHER -> MapVector4(q, <<p[1], p[2], p[3], 1>>)

\* map() of a point in the plane, <<x, y, w>>.
map2(q, p) ==
  LET v == MapVector4(q, <<p[1], p[2], 0, 1>>)
  IN  CASE Is(q, {"Identity"}) -> <<p[1], p[2], 1>>
        [] Is(q, {"Translation"}) -> <<p[1] + q.m[3][0], p[2] + q.m[3][1], 1>>
        [] Is(q, {"Translation", "Scale"}) ->
             <<p[1] * q.m[0][0] + q.m[3][0], p[2] * q.m[1][1] + q.m[3][1], 1>>
        [] Is(q, {"Scale"}) -> <<p[1] * q.m[0][0], p[2] * q.m[1][1], 1>>
        [] OTHER -> <<v[1], v[2], v[4]>>

min2(a, b) == IF a < b THEN a ELSE b
max2(a, b) == IF a > b THEN a ELSE b

Corners(rect) ==
  <<<<rect.x, rect.y>>, <<rect.x + rect.w, rect.y>>,
    <<rect.x, rect.y + rect.h>>, <<rect.x + rect.w, rect.y + rect.h>>>>

\* The smallest rectangle around four points.
Around(ps) ==
  LET Least(i) == min2(min2(ps[1][i], ps[2][i]), min2(ps[3][i], ps[4][i]))
      Most(i) == max2(max2(ps[1][i], ps[2][i]), max2(ps[3][i], ps[4][i]))
  IN  [x |-> Least(1), y |-> Least(2), w |-> Most(1) - Least(1), h |-> Most(2) - Least(2)]

\* (Mutated: a mirrored rectangle keeps its corner.)
mapRectUnmirrored(q, rect) ==
  LET w == rect.w * q.m[0][0]
      h == rect.h * q.m[1][1]
      x == rect.x * q.m[0][0] + q.m[3][0]
      y == rect.y * q.m[1][1] + q.m[3][1]
  IN  CASE q.flagBits \in {{"Scale"}, {"Translation", "Scale"}} ->
             [x |-> x, y |-> y, w |-> IF w < 0 THEN -w ELSE w, h |-> IF h < 0 THEN -h ELSE h]
        [] Is(q, {"Translation"}) ->
             [x |-> rect.x + q.m[3][0], y |-> rect.y + q.m[3][1], w |-> rect.w, h |-> rect.h]
        [] OTHER -> Around([i \in 1..4 |-> map2(q, Corners(rect)[i])])

\* Where w stays 1.  The version for QRect also rounds; there is nothing to
\* round here.
mapRect(q, rect) ==
  LET w == rect.w * q.m[0][0]
      h == rect.h * q.m[1][1]
      x == rect.x * q.m[0][0] + q.m[3][0]
      y == rect.y * q.m[1][1] + q.m[3][1]
  IN  CASE q.flagBits \in {{"Scale"}, {"Translation", "Scale"}} ->
             [x |-> IF w < 0 THEN x + w ELSE x, y |-> IF h < 0 THEN y + h ELSE y,
              w |-> IF w < 0 THEN -w ELSE w, h |-> IF h < 0 THEN -h ELSE h]
        [] Is(q, {"Translation"}) ->
             [x |-> rect.x + q.m[3][0], y |-> rect.y + q.m[3][1], w |-> rect.w, h |-> rect.h]
        [] OTHER -> Around([i \in 1..4 |-> map2(q, Corners(rect)[i])])

=============================================================================
