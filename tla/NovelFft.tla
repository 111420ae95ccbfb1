----------------------------- MODULE NovelFft ------------------------------
(***************************************************************************)
(* Algebra::novelFFT: many polynomials evaluated at once on several shifts *)
(* of one space.  The polynomials are first evaluated by AdditiveFft, then *)
(* brought to a basis of products of normalised subspace polynomials by    *)
(* the inverse butterflies; the coefficients in that basis are kept, and   *)
(* every call of FFT copies them to each coset of its destination and runs *)
(* the butterflies of all cosets together.                                 *)
(*                                                                         *)
(* A matrix is an array by rows: entry (row, column) is at row * width +   *)
(* column.  The memory is m.polys, the kept coefficients, and m.dst.       *)
(***************************************************************************)
EXTENDS AdditiveFft, Polynomials

-----------------------------------------------------------------------------
(* Polynomials of the leading subspaces of the basis. *)

\* Each is one at the next vector of the basis.
calc_X_exp(orderedBasis) ==
    [i \in 0..Len(orderedBasis) - 1 |->
        LET currPoly == computeVanishingPoly(SubSeq(orderedBasis, 1, i))
            factor   == Quotient(one, LinearizedValue(currPoly, orderedBasis[i + 1]))
        IN  [j \in DOMAIN currPoly |-> c_mul(currPoly[j], factor)]]

\* X_exp_precomp: its value at the element of index c shifted past the level.
X_exp_precomp(n, affineShift, i, c) ==
    LinearizedValue(n.X_exp[i], getSpaceElementByIndex(n.basis, affineShift, c * POW2(i + 1)))

-----------------------------------------------------------------------------
(* Iterations. *)

\* The row of butterfly mc at level i; its mate has the level's bit.
Row(i, mc) == (mc % POW2(i)) + (mc \div POW2(i)) * POW2(i + 1)

\* Column by column: case (18), then case (17).
novelIFFTStep(n, a, i, mc) ==
    LET row  == n.width * Row(i, mc)
        mate == row + n.width * POW2(i)
        X    == X_exp_precomp(n, zero, i, mc \div POW2(i))
    IN  FoldLeft(LAMBDA x, polyIdx :
                     LET odd == Plus(x[row + polyIdx], x[mate + polyIdx])
                     IN  [x EXCEPT ![mate + polyIdx] = odd,
                                   ![row + polyIdx] = c_mulXor(X, odd, @)],
                 a, UpTo(n.numPolys))

\* Element::do_FFT_step on len columns of two rows: two columns to a vector
\* register, and the odd column by itself.
do_FFT_step(factor, x, a, b, len) ==
    FoldLeft(LAMBDA y, i :
                 LET c == c_mulXor(factor, y[a + i], y[b + i])
                 IN  [y EXCEPT ![b + i] = c, ![a + i] = Plus(@, c)],
             x, UpTo(len))

\* For every coset of the destination.
novelFFTStep(n, a, i, mc) ==
    FoldLeft(LAMBDA x, cosetId :
                 LET row == cosetId * n.diff_coset + n.width * Row(i, mc)
                 IN  do_FFT_step(X_exp_precomp(n, n.affineShift[cosetId + 1], i, mc \div POW2(i)),
                                 x, row + n.width * POW2(i), row, n.numPolys),
             a, UpTo(Len(n.affineShift)))

\* A thread copies as many bytes as the next one, whatever the elements are
\* that they belong to: a block may begin and end inside of one.
SizeofElement == 8
ByteOf(i)     == (i * SizeofElement) \div Ord     \* the byte that holds bit i
copyBytes(a, at, polys, from, to) ==
    LET Copied(x, i) == x * SizeofElement + ByteOf(i) \in from..to - 1
        Torn(x, old) == {i \in polys[x] : Copied(x, i)} \cup {i \in old : ~Copied(x, i)}
    IN  [y \in DOMAIN a |-> IF y - at \in DOMAIN polys THEN Torn(y - at, a[y]) ELSE a[y]]

\* The blocks of the coefficients by thread, to every coset, and the rest.
CopyTo(n, m, from, to) ==
    [m EXCEPT !.dst = FoldLeft(LAMBDA a, c : copyBytes(a, c * n.diff_coset, m.polys, from, to),
                               @, UpTo(Len(n.affineShift)))]

BufferLen(n)      == n.width * POW2(Len(n.basis))
BufferBytesLen(n) == BufferLen(n) * SizeofElement
BlockRemainder(n) == BufferBytesLen(n) % n.threads
CopyBlockTo(n, m, blockIdx) ==
    LET blockBytesLen == BufferBytesLen(n) \div n.threads
    IN  CopyTo(n, m, blockIdx * blockBytesLen, (blockIdx + 1) * blockBytesLen)
CopyRemainder(n, m) == CopyTo(n, m, BufferBytesLen(n) - BlockRemainder(n), BufferBytesLen(n))

\* The standard transform of one polynomial, whose values fill its column.
\* The transforms of different polynomials share the instance, which they
\* only read.
RunAlone(f, plan, m) ==
    FoldLeft(LAMBDA x, r : FoldLeft(LAMBDA y, k : Execute(f, r, k, y),
                                    x, SelectSeq(UpTo(POW2(f.size)), LAMBDA k : k \in r.iterations)),
             m, plan)
FillColumn(n, f, m, coefficients, i) ==
    LET padded == [k \in 0..POW2(f.size) - 1 |->
                      IF k \in DOMAIN coefficients THEN coefficients[k] ELSE zero]
        values == RunAlone(f, fft_cpu(f), [P |-> padded, C |-> padded]).P
    IN  [m EXCEPT !.polys = FoldLeft(LAMBDA a, x : [a EXCEPT ![x * n.width + i] = values[x]],
                                     @, UpTo(POW2(f.size)))]

-----------------------------------------------------------------------------
(* Regions. *)

HalfSpace(n) == 0..POW2(Len(n.basis) - 1) - 1
NovelRegion(op, level, iterations) == [op |-> op, level |-> level, iterations |-> iterations]

convertPolysBasis(n) == <<NovelRegion(<<"column">>, 0, 0..n.numPolys - 1)>>

novelIFFT(n) ==
    [l \in 1..Len(n.basis) |-> NovelRegion(<<"novelIFFT">>, l - 1, HalfSpace(n))]

novelFFT(n) ==
    <<NovelRegion(<<"copyBlock">>, 0, 0..n.threads - 1)>>
    \o (IF BlockRemainder(n) > 0 THEN <<NovelRegion(<<"copyRest">>, 0, {0})>> ELSE <<>>)
    \o [l \in 1..Len(n.basis) |-> NovelRegion(<<"novelFFT">>, Len(n.basis) - l, HalfSpace(n))]

ExecuteNovel(n, r, k, m) ==
    CASE r.op = <<"column">>    -> FillColumn(n, n.f, m, n.coefficients[k + 1], k)
      [] r.op = <<"novelIFFT">> -> [m EXCEPT !.polys = novelIFFTStep(n, @, r.level, k)]
      [] r.op = <<"copyBlock">> -> CopyBlockTo(n, m, k)
      [] r.op = <<"copyRest">>  -> CopyRemainder(n, m)
      [] r.op = <<"novelFFT">>  -> [m EXCEPT !.dst = novelFFTStep(n, @, r.level, k)]
=============================================================================
