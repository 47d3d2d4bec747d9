------------------------------ MODULE Matrices ------------------------------
(***************************************************************************)
(* Matrices (abs_matrix.c), the functions on labels and samples built on   *)
(* them (abs_ml.c), spatial and complex values (abs_geom.c, abs_complex.c) *)
(* over the integers.  The data of a matrix is one row after the other;    *)
(* places count from 1 here.                                               *)
(***************************************************************************)
EXTENDS Integers, SequencesExt, FiniteSetsExt

\* The error objects of the matrix functions.
NoMatrix == [rows |-> 0, cols |-> 0, data |-> <<>>]
IsMatrix(m) == m # NoMatrix
Matrix(rows, cols, Cell(_)) ==
    IF rows <= 0 \/ cols <= 0 THEN NoMatrix
    ELSE [rows |-> rows, cols |-> cols, data |-> [k \in 1..rows * cols |-> Cell(k)]]
RowOf(k, cols) == (k - 1) \div cols + 1
ColOf(k, cols) == ((k - 1) % cols) + 1
Elem(m, r, c) == m.data[(r - 1) * m.cols + c]
SumOf(S, F(_)) == FoldSet(LAMBDA k, n : n + F(k), 0, S)

MatrixSet(m, r, c, val) ==
    IF r \in 1..m.rows /\ c \in 1..m.cols THEN [m EXCEPT !.data[(r - 1) * m.cols + c] = val] ELSE m
MatrixGet(m, r, c) == IF r \in 1..m.rows /\ c \in 1..m.cols THEN Elem(m, r, c) ELSE 0
Eye(n) == Matrix(n, n, LAMBDA k : IF RowOf(k, n) = ColOf(k, n) THEN 1 ELSE 0)
Ones(rows, cols) == Matrix(rows, cols, LAMBDA k : 1)

\* Bug: the columns of b are taken for its rows.
MatrixMul_bug(a, b) ==
    IF a.cols # b.rows THEN NoMatrix
    ELSE Matrix(a.rows, b.cols, LAMBDA k :
            SumOf(1..a.cols, LAMBDA i : Elem(a, RowOf(k, b.cols), i) * b.data[(ColOf(k, b.cols) - 1) * b.rows + i]))
MatrixMul(a, b) ==
    IF a.cols # b.rows THEN NoMatrix
    ELSE Matrix(a.rows, b.cols, LAMBDA k :
            SumOf(1..a.cols, LAMBDA i : Elem(a, RowOf(k, b.cols), i) * Elem(b, i, ColOf(k, b.cols))))

SameShape(a, b) == a.rows = b.rows /\ a.cols = b.cols
MatrixMap(m, f) == Matrix(m.rows, m.cols, LAMBDA k : f[m.data[k]])
MatrixAdd(a, b) == IF SameShape(a, b) THEN Matrix(a.rows, a.cols, LAMBDA k : a.data[k] + b.data[k]) ELSE NoMatrix
MatrixSub(a, b) == IF SameShape(a, b) THEN Matrix(a.rows, a.cols, LAMBDA k : a.data[k] - b.data[k]) ELSE NoMatrix
MulElement(a, b) == IF SameShape(a, b) THEN Matrix(a.rows, a.cols, LAMBDA k : a.data[k] * b.data[k]) ELSE NoMatrix
Scale(m, s) == MatrixMap(m, [x \in Int |-> x * s])
AddScalar(m, s) == MatrixMap(m, [x \in Int |-> x + s])
AddRowVector(m, v) ==
    IF v.rows = 1 /\ m.cols = v.cols THEN Matrix(m.rows, m.cols, LAMBDA k : m.data[k] + v.data[ColOf(k, m.cols)]) ELSE m

MatrixSum(m) == SumOf(DOMAIN m.data, LAMBDA k : m.data[k])
MatrixMin(m) == FoldLeft(LAMBDA a, x : IF x < a THEN x ELSE a, m.data[1], m.data)
MatrixMax(m) == FoldLeft(LAMBDA a, x : IF x > a THEN x ELSE a, m.data[1], m.data)
Argmax(s) == FoldLeft(LAMBDA b, k : IF s[k] > s[b] THEN k ELSE b, 1, [k \in DOMAIN s |-> k])

Transpose(m) == Matrix(m.cols, m.rows, LAMBDA k : Elem(m, ColOf(k, m.rows), RowOf(k, m.rows)))
\* det_rec: the cofactors of the first row.  path holds the columns taken so
\* far; at the paths in fails there is no memory for the minors: 0.
Minor(m, col) ==
    Matrix(m.rows - 1, m.cols - 1, LAMBDA k :
        LET j == ColOf(k, m.cols - 1) IN Elem(m, RowOf(k, m.cols - 1) + 1, IF j < col THEN j ELSE j + 1))
RECURSIVE DetRec(_, _, _)
DetRec(m, path, fails) ==
    LET Cofactor(col) == (IF col % 2 = 1 THEN 1 ELSE -1) * m.data[col] * DetRec(Minor(m, col), Append(path, col), fails)
    IN CASE m.rows = 1 -> m.data[1]
         [] m.rows = 2 -> m.data[1] * m.data[4] - m.data[2] * m.data[3]
         [] path \in fails -> 0
         [] OTHER -> SumOf(1..m.rows, Cofactor)
Det(m) == DetRec(m, <<>>, {})

Reshape(m, rows, cols) ==
    IF rows <= 0 \/ cols <= 0 \/ rows * cols # m.rows * m.cols THEN NoMatrix ELSE [m EXCEPT !.rows = rows, !.cols = cols]
Flatten(m) == Reshape(m, 1, m.rows * m.cols)
\* r0 and c0 are the first row and column, r1 and c1 the last ones.
MatrixSlice(m, r0, r1, c0, c1) ==
    IF r0 < 1 \/ c0 < 1 \/ r1 > m.rows \/ c1 > m.cols \/ r0 > r1 \/ c0 > c1 THEN NoMatrix
    ELSE LET w == c1 - c0 + 1 IN Matrix(r1 - r0 + 1, w, LAMBDA k : Elem(m, r0 + RowOf(k, w) - 1, c0 + ColOf(k, w) - 1))
Vstack(a, b) ==
    IF a.cols # b.cols THEN NoMatrix ELSE [rows |-> a.rows + b.rows, cols |-> a.cols, data |-> a.data \o b.data]
Hstack(a, b) ==
    IF a.rows # b.rows THEN NoMatrix
    ELSE Matrix(a.rows, a.cols + b.cols, LAMBDA k :
            LET r == RowOf(k, a.cols + b.cols)  c == ColOf(k, a.cols + b.cols)
            IN IF c <= a.cols THEN Elem(a, r, c) ELSE Elem(b, r, c - a.cols))
Arange(start, stop, step) ==
    IF (stop - start) * step <= 0 THEN NoMatrix
    ELSE LET up == IF step > 0 THEN step ELSE -step  span == IF step > 0 THEN stop - start ELSE start - stop
         IN Matrix(1, (span + up - 1) \div up, LAMBDA k : start + (k - 1) * step)
MatrixFilter(m, keep) ==
    LET kept == SelectSeq(m.data, LAMBDA x : keep[x]) IN Matrix(1, Len(kept), LAMBDA k : kept[k])

\* A file is a sequence of lines, a line the sequence of its fields.  A field
\* that is no number ends the reading of its line.
NumberField(n) == [number |-> TRUE, value |-> n]
Junk == [number |-> FALSE, value |-> 0]
MatrixWriteCsv(m) == [r \in 1..m.rows |-> [c \in 1..m.cols |-> NumberField(Elem(m, r, c))]]
\* Bug: a line without fields is a row.
Counts_bug(line) == TRUE
Counts(line) == line # <<>>
MatrixReadCsv(lines) ==
    LET full == SelectSeq(lines, Counts)
        cols == IF full = <<>> THEN 0 ELSE Len(full[1])
        Read(l, c) == c <= Len(l) /\ \A i \in 1..c : l[i].number
    IN Matrix(Len(full), cols, LAMBDA k :
            LET l == full[RowOf(k, cols)]  c == ColOf(k, cols) IN IF Read(l, c) THEN l[c].value ELSE 0)

----------------------------------------------------------------------------
(* abs_ml.c                                                                *)

OneHot(labels, classes) ==
    IF (labels.rows # 1 /\ labels.cols # 1) \/ classes <= 0 THEN NoMatrix
    ELSE Matrix(labels.rows * labels.cols, classes, LAMBDA k :
            IF labels.data[RowOf(k, classes)] = ColOf(k, classes) - 1 THEN 1 ELSE 0)

\* The ratio is p/q; half a sample counts as one.  Neither part is left empty.
\* Bug: the fraction of a sample is cut off.
Rounded_bug(n, p, q) == (n * p) \div q
Rounded(n, p, q) == (2 * n * p + q) \div (2 * q)
TestSize(n, p, q) ==
    LET round == Rounded(n, p, q) IN IF round <= 0 THEN 1 ELSE IF round >= n THEN n - 1 ELSE round
TrainTestSplit(x, y, p, q) ==
    IF x.rows # y.rows \/ x.rows < 2 \/ p <= 0 \/ p >= q THEN <<>>
    ELSE LET train == x.rows - TestSize(x.rows, p, q)
             Top(m) == MatrixSlice(m, 1, train, 1, m.cols)
             Rest(m) == MatrixSlice(m, train + 1, m.rows, 1, m.cols)
         IN <<Top(x), Rest(x), Top(y), Rest(y)>>

MatrixRow(m, r) == SubSeq(m.data, (r - 1) * m.cols + 1, r * m.cols)
\* Numerators of abs_accuracy and abs_loss_mse.
Correct(a, b) ==
    IF SameShape(a, b) THEN Cardinality({r \in 1..a.rows : Argmax(MatrixRow(a, r)) = Argmax(MatrixRow(b, r))}) ELSE -1
SquaredError(a, b) ==
    IF SameShape(a, b) THEN SumOf(DOMAIN a.data, LAMBDA k : (a.data[k] - b.data[k]) * (a.data[k] - b.data[k])) ELSE -1

----------------------------------------------------------------------------
(* abs_geom.c and abs_complex.c                                            *)

V3(x, y, z) == [x |-> x, y |-> y, z |-> z]
V3Add(a, b) == V3(a.x + b.x, a.y + b.y, a.z + b.z)
V3Scale(a, s) == V3(a.x * s, a.y * s, a.z * s)
V3Dot(a, b) == a.x * b.x + a.y * b.y + a.z * b.z
\* Bug: the sign of the second coordinate.
V3Cross_bug(a, b) == V3(a.y * b.z - a.z * b.y, a.x * b.z - a.z * b.x, a.x * b.y - a.y * b.x)
V3Cross(a, b) == V3(a.y * b.z - a.z * b.y, a.z * b.x - a.x * b.z, a.x * b.y - a.y * b.x)
V3Reflect(v, n) == V3Add(v, V3Scale(n, -2 * V3Dot(v, n)))

QuatMul(a, b) ==
    [w |-> a.w * b.w - a.x * b.x - a.y * b.y - a.z * b.z,
     x |-> a.w * b.x + a.x * b.w + a.y * b.z - a.z * b.y,
     y |-> a.w * b.y - a.x * b.z + a.y * b.w + a.z * b.x,
     z |-> a.w * b.z + a.x * b.y - a.y * b.x + a.z * b.w]
QuatRotate(q, v) ==
    LET qv == V3(q.x, q.y, q.z)  t == V3Scale(V3Cross(qv, v), 2)
    IN V3Add(v, V3Add(V3Scale(t, q.w), V3Cross(qv, t)))

\* m[c][r]: the columns come first.
Mat4(Cell(_, _)) == [c \in 1..4 |-> [r \in 1..4 |-> Cell(c, r)]]
Mat4Identity == Mat4(LAMBDA c, r : IF c = r THEN 1 ELSE 0)
Mat4Mul(a, b) == Mat4(LAMBDA c, r : SumOf(1..4, LAMBDA k : a[k][r] * b[c][k]))
Mat4MulVec4(m, v) == [r \in 1..4 |-> SumOf(1..4, LAMBDA k : m[k][r] * v[k])]
Mat4Translate(v) == [Mat4Identity EXCEPT ![4] = <<v.x, v.y, v.z, 1>>]
Mat4Scale(v) == [Mat4Identity EXCEPT ![1][1] = v.x, ![2][2] = v.y, ![3][3] = v.z]

CMul(a, b) == [re |-> a.re * b.re - a.im * b.im, im |-> a.re * b.im + a.im * b.re]
CAdd(a, b) == [re |-> a.re + b.re, im |-> a.im + b.im]
CConj(a) == [re |-> a.re, im |-> -a.im]
=============================================================================
