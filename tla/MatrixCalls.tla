---------------------------- MODULE MatrixCalls ----------------------------
(***************************************************************************)
(* A QMatrix4x4D through a sequence of calls.  Beside the object q, whose  *)
(* flags choose which elements each call bothers to touch, "exact" keeps   *)
(* the matrix the comments of QMatrix4x4D.cpp promise: what was there      *)
(* times a matrix that scales, translates, rotates or projects, each       *)
(* written from what it is to do and not from the code.                    *)
(***************************************************************************)
EXTENDS Matrix4x4

CONSTANTS
  Vectors,        \* <<x, y, z>>, to scale and move by
  Turns,          \* what rotate() is given, as in Matrix4x4
  Quaternions,    \* twice the parts of unit quaternions
  Matrices,       \* general matrices
  Windows,        \* <<left, right, bottom, top, near, far>>
  Views,          \* <<sineZero, cotan, aspect, near, far>>
  Eyes,           \* <<eye, center, up>>, the view along an axis
  Rects,          \* [x, y, w, h]
  Points,         \* <<x, y, z>>
  Numbers,        \* what fill(), *= and /= are given
  Places,         \* <<row, column>> written through operator()
  MaxCalls        \* calls after the first

\* The angle and the axis of a turn agree: (2 cos)^2 + (2 sin)^2 = 4.
ASSUME TurnsAssumption ==
  \A turn \in Turns :
    LET n2 == turn.axis[1] * turn.axis[1] + turn.axis[2] * turn.axis[2]
                + turn.axis[3] * turn.axis[3]
    IN  /\ turn.cos2 * turn.cos2 + turn.s2 * turn.s2 * n2 = 4
        /\ turn.k2 * n2 = 2 - turn.cos2

ASSUME QuaternionsAssumption ==
  \A h \in Quaternions : h[1] * h[1] + h[2] * h[2] + h[3] * h[3] + h[4] * h[4] = 4

Vector == Int \X Int \X Int

Elements == [Ix -> [Ix -> Int]]

\* All values are integers.
ASSUME ValuesAssumption ==
  /\ Vectors \subseteq Vector /\ Points \subseteq Vector
  /\ Turns \subseteq [axis : Vector, cos2 : Int, s2 : Int, k2 : Int]
  /\ Quaternions \subseteq Int \X Int \X Int \X Int
  /\ Matrices \subseteq Elements
  /\ Windows \subseteq Int \X Int \X Int \X Int \X Int \X Int
  /\ Views \subseteq BOOLEAN \X Int \X Int \X Int \X Int
  /\ Eyes \subseteq Vector \X Vector \X Vector
  /\ Rects \subseteq [x : Int, y : Int, w : Nat, h : Nat]
  /\ Numbers \subseteq Int
  /\ Places \subseteq Ix \X Ix
  /\ MaxCalls \in Nat

Flat(w) == w[1] = w[2] \/ w[3] = w[4] \/ w[5] = w[6]

Blind(v) == v[1] \/ v[3] = 0 \/ v[4] = v[5]

Divides(d, n) == d # 0 /\ Over(n, d) * d = n

\* What is divided by the sides of a window or of a view has integer quotients.
ASSUME QuotientsAssumption ==
  /\ \A w \in Windows :
       ~Flat(w) => Divides(w[2] - w[1], 2) /\ Divides(w[4] - w[3], 2) /\ Divides(w[6] - w[5], 2)
  /\ \A v \in Views :
       ~Blind(v) =>
         /\ Divides(v[2], v[4]) /\ Divides(v[2], v[4] * v[3])
         /\ Divides(2 * Over(v[4], v[2]), 2) /\ Divides(2 * Over(v[4] * v[3], v[2]), 2)
         /\ Divides(v[5] - v[4], 2)

Dot(a, b) == a[1] * b[1] + a[2] * b[2] + a[3] * b[3]

Axes == {<<1, 0, 0>>, <<-1, 0, 0>>, <<0, 1, 0>>, <<0, -1, 0>>, <<0, 0, 1>>, <<0, 0, -1>>}

\* The view goes along an axis, and "up" lies between it and another one.
ASSUME EyesAssumption ==
  \A e \in Eyes :
    LET ahead == [i \in 1..3 |-> e[2][i] - e[1][i]]
    IN  \E f, g \in Axes :
          /\ Dot(f, g) = 0 /\ Dot(ahead, f) > 0 /\ Dot(e[3], g) > 0
          /\ \A i \in 1..3 : /\ ahead[i] = Dot(ahead, f) * f[i]
                             /\ e[3][i] = Dot(e[3], f) * f[i] + Dot(e[3], g) * g[i]

VARIABLES
  q,        \* the object
  exact,    \* the elements it should have
  calls

vars == <<q, exact, calls>>

-----------------------------------------------------------------------------
(* What the calls are to do. *)

ScaleBy(v) ==
  [c \in Ix |-> [r \in Ix |-> IF c # r THEN 0 ELSE IF c = 3 THEN 1 ELSE v[c + 1]]]

TranslateBy(v) ==
  [c \in Ix |-> [r \in Ix |-> IF c = r THEN 1 ELSE IF c = 3 THEN v[r + 1] ELSE 0]]

\* The matrix whose columns are where F takes the unit vectors.
Linear(F(_)) == Affine(<<F(<<1, 0, 0>>), F(<<0, 1, 0>>), F(<<0, 0, 1>>)>>)

\* Rodrigues' formula.
TurnBy(turn) ==
  LET Turned(v) == [i \in 1..3 |->
        (turn.cos2 * v[i] + turn.s2 * crossProduct(turn.axis, v)[i]
           + turn.k2 * Dot(turn.axis, v) * turn.axis[i]) \div 2]
  IN  Linear(Turned)

\* v + 2 w (u x v) + 2 u x (u x v), of the quaternion <<u, w>>.
QuaternionBy(h) ==
  LET Turned(v) == [i \in 1..3 |->
        v[i] + (h[4] * crossProduct(h, v)[i] + crossProduct(h, crossProduct(h, v))[i]) \div 2]
  IN  Linear(Turned)

\* A box to the cube from -1 to 1, the near plane first: its corner to the
\* origin, its sides to 2, and back by 1.
BoxToCube(l, r, b, t, n, f) ==
  Times(TranslateBy(<<-1, -1, -1>>),
        Times(ScaleBy(<<Over(2, r - l), Over(2, t - b), Over(-2, f - n)>>),
              TranslateBy(<<-l, -b, n>>)))

\* A frustum to its box: what is seen through the near plane stays there.
Squeeze(n, f) ==
  Columns(<<<<n, 0, 0, 0>>, <<0, n, 0, 0>>, <<0, 0, n + f, -1>>, <<0, 0, n * f, 0>>>>)

FrustumBy(l, r, b, t, n, f) == Times(BoxToCube(l, r, b, t, n, f), Squeeze(n, f))

\* A view is of the frustum with its near window n / cotan high.
PerspectiveBy(cotan, aspect, n, f) ==
  LET top == Over(n, cotan)
      right == Over(n * aspect, cotan)
  IN  FrustumBy(-right, right, -top, top, n, f)

\* The rotations that take axes to axes.
AxisRotations ==
  {m \in [0..2 -> [0..2 -> -1..1]] :
     /\ \A c, d \in 0..2 :
          m[c][0] * m[d][0] + m[c][1] * m[d][1] + m[c][2] * m[d][2] = IF c = d THEN 1 ELSE 0
     /\ matrixDet3(m, 0, 1, 2, 0, 1, 2) = 1}

\* The eye to the origin, the center to the negative z axis, "up" upwards.
ViewFrom(eye, center, up) ==
  LET Row(m, r, v) == m[0][r] * v[1] + m[1][r] * v[2] + m[2][r] * v[3]
      ahead == [i \in 1..3 |-> center[i] - eye[i]]
      m == CHOOSE x \in AxisRotations :
             /\ Row(x, 0, ahead) = 0 /\ Row(x, 1, ahead) = 0 /\ Row(x, 2, ahead) < 0
             /\ Row(x, 0, up) = 0 /\ Row(x, 1, up) > 0
  IN  Times([c \in Ix |-> [r \in Ix |->
               IF c < 3 /\ r < 3 THEN m[c][r] ELSE IF c = r THEN 1 ELSE 0]],
            TranslateBy([i \in 1..3 |-> -eye[i]]))

-----------------------------------------------------------------------------
(* Calls. *)

\* Objects made by one call.
Operands ==
  {identity} \cup {general(m) : m \in Matrices}
    \cup {translate(identity, v) : v \in Vectors} \cup {scale(identity, v) : v \in Vectors}
    \cup {rotate(identity, RotationM(turn)) : turn \in Turns}

Init ==
  /\ q \in Operands
  /\ exact = q.m
  /\ calls = 0

Call(result, elements) ==
  /\ calls < MaxCalls
  /\ q' = result
  /\ exact' = elements
  /\ calls' = calls + 1

SetToIdentity == Call(identity, IdentityM)

Fill == \E n \in Numbers : Call(fill(n), [c \in Ix |-> [r \in Ix |-> n]])

SetElement ==
  \E p \in Places, n \in Numbers :
    Call(setElement(q, p[1], p[2], n), [exact EXCEPT ![p[2]][p[1]] = n])

\* A point as a vector of four.
Homogeneous(p) == <<p[1], p[2], p[3], 1>>

SetColumn ==
  \E i \in Ix, p \in Points :
    Call(setColumn(q, i, Homogeneous(p)), [exact EXCEPT ![i] = [r \in Ix |-> Homogeneous(p)[r + 1]]])

SetRow ==
  \E i \in Ix, p \in Points :
    Call(setRow(q, i, Homogeneous(p)),
         [c \in Ix |-> [r \in Ix |-> IF r = i THEN Homogeneous(p)[c + 1] ELSE exact[c][r]]])

Elementwise(F(_, _), o) == [c \in Ix |-> [r \in Ix |-> F(exact[c][r], o.m[c][r])]]

Plus == \E o \in Operands : Call(plus(q, o), Elementwise(LAMBDA a, b : a + b, o))

Minus == \E o \in Operands : Call(minus(q, o), Elementwise(LAMBDA a, b : a - b, o))

TimesNumber == \E n \in Numbers : Call(timesNumber(q, n), Elementwise(LAMBDA a, b : a * n, q))

\* Where the elements stay integers.
DividedBy ==
  \E n \in Numbers \ {0} :
    /\ \A c, r \in Ix : Over(q.m[c][r], n) * n = q.m[c][r]
    /\ Call(dividedBy(q, n), Elementwise(LAMBDA a, b : Over(a, n), q))

Negated == Call(negated(q), Elementwise(LAMBDA a, b : 0 - a, q))

Transposed == Call(transposed(q), [c \in Ix |-> [r \in Ix |-> exact[r][c]]])

MultiplyBy == \E o \in Operands : Call(multiplyBy(q, o), Times(exact, o.m))

MultiplyOnto == \E o \in Operands : Call(product(o, q), Times(o.m, exact))

Scale == \E v \in Vectors : Call(scale(q, v), Times(exact, ScaleBy(v)))

Translate == \E v \in Vectors : Call(translate(q, v), Times(exact, TranslateBy(v)))

Rotate == \E turn \in Turns : Call(rotate(q, RotationM(turn)), Times(exact, TurnBy(turn)))

RotateQuaternion ==
  \E h \in Quaternions : Call(rotate(q, QuaternionM(h)), Times(exact, QuaternionBy(h)))

Ortho ==
  \E w \in Windows :
    Call(ortho(q, w[1], w[2], w[3], w[4], w[5], w[6]),
         IF Flat(w) THEN exact
         ELSE Times(exact, BoxToCube(w[1], w[2], w[3], w[4], w[5], w[6])))

OrthoRect ==
  \E rect \in Rects :
    /\ {rect.w, rect.h} \subseteq {1, 2}     \* for integer quotients
    /\ Call(orthoRect(q, rect),
            Times(exact, BoxToCube(rect.x, rect.x + rect.w, rect.y + rect.h, rect.y, -1, 1)))

Frustum ==
  \E w \in Windows :
    Call(frustum(q, w[1], w[2], w[3], w[4], w[5], w[6]),
         IF Flat(w) THEN exact
         ELSE Times(exact, FrustumBy(w[1], w[2], w[3], w[4], w[5], w[6])))

Perspective ==
  \E v \in Views :
    Call(perspective(q, v[1], v[2], v[3], v[4], v[5]),
         IF Blind(v) THEN exact
         ELSE Times(exact, PerspectiveBy(v[2], v[3], v[4], v[5])))

LookAt ==
  \E e \in Eyes : Call(lookAt(q, e[1], e[2], e[3]), Times(exact, ViewFrom(e[1], e[2], e[3])))

FlipCoordinates == Call(flipCoordinates(q), Times(exact, ScaleBy(<<1, -1, -1>>)))

InferSpecialType == Call(inferSpecialType(q), exact)

Next ==
  \/ SetToIdentity \/ Fill \/ SetElement \/ SetColumn \/ SetRow
  \/ Plus \/ Minus \/ TimesNumber \/ DividedBy \/ Negated \/ Transposed
  \/ MultiplyBy \/ MultiplyOnto \/ Scale \/ Translate \/ Rotate \/ RotateQuaternion
  \/ Ortho \/ OrthoRect \/ Frustum \/ Perspective \/ LookAt
  \/ FlipCoordinates \/ InferSpecialType

Spec == Init /\ [][Next]_vars

-----------------------------------------------------------------------------
(* Properties. *)

\* The combinations of flags there can be.
FlagSets ==
  {{"Identity"}, {"General"}, {"General", "Rotation"}, {"Translation"}, {"Scale"},
   {"Rotation"}, {"Scale", "Translation"}, {"Rotation", "Translation"},
   {"Scale", "Rotation"}, {"Scale", "Rotation", "Translation"}}

\* The types of the variables.
TypeOK ==
  /\ q \in [m : Elements, flagBits : FlagSets]
  /\ exact \in Elements
  /\ calls \in 0..MaxCalls

AffineRow(m) == m[0][3] = 0 /\ m[1][3] = 0 /\ m[2][3] = 0 /\ m[3][3] = 1

NotMoved(m) == m[3][0] = 0 /\ m[3][1] = 0 /\ m[3][2] = 0

Diagonal3(m) ==
  /\ m[0][1] = 0 /\ m[0][2] = 0 /\ m[1][0] = 0
  /\ m[1][2] = 0 /\ m[2][0] = 0 /\ m[2][1] = 0

Ones(m) == m[0][0] = 1 /\ m[1][1] = 1 /\ m[2][2] = 1

\* What an object's flags say of its elements, that the calls which read them
\* rely on.
ShapeOf(o) ==
  /\ o.flagBits \in SUBSET {"Identity", "Translation", "Scale"} => Diagonal3(o.m)
  /\ o.flagBits \in SUBSET {"Identity", "Translation"} => Ones(o.m)
  /\ o.flagBits \in {{"Identity"}, {"Scale"}, {"Rotation"}} => NotMoved(o.m)
  /\ "General" \notin o.flagBits => AffineRow(o.m)

\* Flags are never better than the elements are: a matrix said to be a
\* translation, a scale or not moved is so, whatever calls made it; and they
\* are always one of ten combinations, so that the tests for equality with
\* one, all over the code, miss none.
FlagsSound == q.flagBits \in FlagSets /\ ShapeOf(q)

\* Every call does to the elements what its comment says ("multiplies this
\* matrix by another that ..."), on every path the flags let it take.
ElementsExact == q.m = exact

Unit3(d) == [c \in 0..2 |-> [r \in 0..2 |-> IF c = r THEN d ELSE 0]]

\* inverted() tells whether the determinant is zero and returns the inverse,
\* with sound flags, on its quick paths (what is said to be a rotation is
\* orthonormal) and on its slow one; normalMatrix()
\* returns the transposed inverse of the upper 3x3 part, or the identity.
InverseExact ==
  LET inv == inverted(q)
      nor == normalMatrix(q)
  IN  /\ inv.invertible = (determinant(q.m) # 0)
      /\ IF inv.invertible
           THEN Times(q.m, inv.obj.m) = [c \in Ix |-> [r \in Ix |-> inv.den * IdentityM[c][r]]]
           ELSE inv.obj = identity
      /\ ShapeOf(inv.obj)
      /\ nor.ok = (matrixDet3(q.m, 0, 1, 2, 0, 1, 2) # 0)
      /\ nor.ok =>
           [c \in 0..2 |-> [r \in 0..2 |->
              nor.mat[c][0] * q.m[r][0] + nor.mat[c][1] * q.m[r][1] + nor.mat[c][2] * q.m[r][2]]]
             = Unit3(nor.den)

\* A point is mapped to the same place by the quick paths, by the general
\* product, as a row by the transposed matrix, and, in the plane, through the
\* conversion to QTransform, or to QMatrix where w stays 1.
MapsExact ==
  /\ isIdentity(q) = equal(q, identity)
  /\ fromGeneric(toGeneric(q, 4, 4), 4, 4).m = q.m
  /\ fromGeneric(toGeneric(q, 3, 2), 3, 2).m
       = [c \in Ix |-> [r \in Ix |-> IF c < 3 /\ r < 2 THEN q.m[c][r] ELSE IdentityM[c][r]]]
  /\ \A p \in Points :
       LET v == MapVector4(q, Homogeneous(p))
           flat == MapVector4(q, <<p[1], p[2], 0, 1>>)
       IN  /\ map(q, p) = v
           /\ RowPoint(p, transposed(q)) = v
           /\ map2(q, p) = <<flat[1], flat[2], flat[4]>>
           /\ RowPoint2(p, transposed(q)) = map2(q, p)
           /\ map2(fromTransform(toTransform(q)), p) = map2(q, p)
           /\ AffineRow(q.m) => map2(fromAffine(toAffine(q)), p) = map2(q, p)

\* Where w stays 1, mapRect() returns the smallest rectangle around the four
\* corners mapped one by one, turned or mirrored.
MapRectExact ==
  \A rect \in Rects :
    LET at == [i \in 1..4 |->
                 MapVector4(q, <<Corners(rect)[i][1], Corners(rect)[i][2], 0, 1>>)]
    IN  (\A i \in 1..4 : at[i][4] = 1) => mapRect(q, rect) = Around(at)

=============================================================================
