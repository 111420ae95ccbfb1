---------------------------- MODULE AdditiveFft ----------------------------
(***************************************************************************)
(* FFF::FFT: Gao and Mateer's additive transform between the coefficients  *)
(* of a polynomial and its values on an affine space.  One level scales    *)
(* the coefficients, expands them in powers of x^2 + x (Taylor) and sorts  *)
(* even from odd ones; after the last level the butterflies of the         *)
(* subspaces put the values together.  The sorting cannot be done in       *)
(* place: the array P and a buffer take turns, and who holds the result    *)
(* depends on the parity of the levels.                                    *)
(*                                                                         *)
(* The first levels, as many as the logarithm of the number of threads,    *)
(* are parallel loops over the whole array; then every thread runs the     *)
(* serial transform on a block of its own.  A transform is a sequence of   *)
(* parallel regions, executed by module Lde, which may take the iterations *)
(* of a region in any order.                                               *)
(*                                                                         *)
(* A memory m holds both arrays, m.P and m.C.                              *)
(***************************************************************************)
EXTENDS FieldArithmetic

POW2(n)      == 2^n
Other(it)    == IF it = "P" THEN "C" ELSE "P"
UpTo(n)      == [k \in 1..n |-> k - 1]
DownTo(a, b) == [k \in 1..a - b + 1 |-> a - k + 1]
Multiples(l, len) == {k \in 0..len - 1 : k % l = 0}

-----------------------------------------------------------------------------
(* The instance: the tables of every level. *)

\* Thread idx computes the powers from low on, each from the one before.
multiExponentiate(e, t, threads) ==
    LET n    == IF t < threads THEN t ELSE threads
        lows == {(t * idx) \div n : idx \in 0..n - 1}
        res  == FoldLeft(LAMBDA powers, i :
                             Append(powers, IF i \in lows THEN c_exp(e, i) ELSE c_mul(Last(powers), e)),
                         <<>>, UpTo(t))
    IN  [i \in 0..t - 1 |-> res[i + 1]]

\* Element by element from the highest basis vector down; an element is its
\* neighbour without its least bit plus that bit's vector.
generateSubspaceElements(b, s) ==
    LET LeastBit(j) == CHOOSE i \in 0..Len(b) - 1 : j % POW2(i + 1) = POW2(i)
        res[j \in 0..POW2(Len(b)) - 1] ==
            IF j = 0 THEN s ELSE Plus(res[j - POW2(LeastBit(j))], b[LeastBit(j) + 1])
    IN  res

\* B[g_l] is inverted in place.
GFromB(d) ==
    LET inverse == c_inv(Last(d.basis))
    IN  [basis |-> [i \in 1..Len(d.basis) - 1 |-> c_mul(d.basis[i], inverse)],
         shift |-> c_mul(d.shift, inverse)]

DFromG(g) ==
    [basis |-> [i \in DOMAIN g.basis |-> Plus(g.basis[i], c_sqr(g.basis[i]))],
     shift |-> Plus(g.shift, c_sqr(g.shift))]

NewFFT(basis, shift, operation, threads) ==
    LET size == Len(basis)
        D[t \in 0..size - 1] ==
            IF t = 0 THEN [basis |-> basis, shift |-> shift] ELSE DFromG(GFromB(D[t - 1]))
        Exponent(t) == IF operation = "FFT_OP" THEN Last(D[t].basis) ELSE c_inv(Last(D[t].basis))
        lastD == D[size - 1].basis[1]
    IN  [size |-> size, threads |-> threads,
         exps |-> [t \in 0..size - 2 |->
                      multiExponentiate(Exponent(t), POW2(size - t), threads)],
         subspaces |-> [t \in 0..size - 2 |->
                           LET g == GFromB(D[t]) IN generateSubspaceElements(g.basis, g.shift)],
         lastD |-> lastD, i_lastD |-> c_inv(lastD), lastShift |-> D[size - 1].shift]

\* log_omp_max_threads, from a table, and the levels that are parallel.
LogThreads(threads) == Max({l \in 0..5 : POW2(l) <= threads})
GeneralLevels(f) ==
    LET log == LogThreads(f.threads) IN IF log > f.size - 1 THEN f.size - 1 ELSE log

-----------------------------------------------------------------------------
(* Steps on one array a (a function from indexes to elements). *)

vecXor(a, dst, src, n) ==
    FoldLeft(LAMBDA x, i : [x EXCEPT ![dst + i] = Plus(@, x[src + i])], a, UpTo(n))
vecMul(a, p, e, n) ==
    FoldLeft(LAMBDA x, i : [x EXCEPT ![p + i] = c_mul(e[i], @)], a, UpTo(n))
vecCopy(a, dst, from, src, n) ==
    FoldLeft(LAMBDA x, i : [x EXCEPT ![dst + i] = from[src + i]], a, UpTo(n))

\* The block of l coefficients at p; n of its quarter's entries from k on.
TaylorStep(a, p, l, k, n) ==
    LET q == l \div 4
    IN  vecXor(vecXor(a, p + 2 * q + k, p + 3 * q + k, n), p + q + k, p + 2 * q + k, n)
i_TaylorStep(a, p, l, k, n) ==
    LET q == l \div 4
    IN  vecXor(vecXor(a, p + q + k, p + 2 * q + k, n), p + 2 * q + k, p + 3 * q + k, n)
taylorExpansionIteration(a, p, l)      == TaylorStep(a, p, l, 0, l \div 4)
i_taylorExpansionIteration(a, p, l)    == i_TaylorStep(a, p, l, 0, l \div 4)
taylorExpansionIterationOMP(a, p, l, i)   == TaylorStep(a, p, l, i, 1)
i_taylorExpansionIterationOMP(a, p, l, i) == i_TaylorStep(a, p, l, i, 1)

\* The lengths of the loops, l from 2^log_len down to 4, and back.
Lengths(log_len) == [n \in 1..log_len - 1 |-> POW2(log_len - n + 1)]

taylorExpansion(a, p, log_len) ==
    FoldLeft(LAMBDA x, l :
                 FoldLeft(LAMBDA y, i_p : taylorExpansionIteration(y, p + i_p * l, l),
                          x, UpTo(POW2(log_len) \div l)),
             a, Lengths(log_len))
i_taylorExpansion(a, p, log_len) ==
    FoldLeft(LAMBDA x, l :
                 FoldLeft(LAMBDA y, i_p : i_taylorExpansionIteration(y, p + i_p * l, l),
                          x, UpTo(POW2(log_len) \div l)),
             a, Reverse(Lengths(log_len)))

\* Pair i of the block at p of m[it] to the halves of the block of the other.
mutGPartitionPair(m, it, p, log_g_len, i) ==    \* in place
    [m EXCEPT ![it][p + i] = m[it][p + 2 * i],
              ![it][p + POW2(log_g_len - 1) + i] = m[it][p + 2 * i + 1]]
GPartitionPair(m, it, p, log_g_len, i) ==
    [m EXCEPT ![Other(it)][p + i] = m[it][p + 2 * i],
              ![Other(it)][p + POW2(log_g_len - 1) + i] = m[it][p + 2 * i + 1]]
iGPartitionPair(m, it, p, log_g_len, i) ==
    [m EXCEPT ![it][p + 2 * i] = m[Other(it)][p + i],
              ![it][p + 2 * i + 1] = m[Other(it)][p + POW2(log_g_len - 1) + i]]
GPartition(m, it, p, log_g_len) ==
    FoldLeft(LAMBDA x, i : GPartitionPair(x, it, p, log_g_len, i), m, UpTo(POW2(log_g_len - 1)))
iGPartition(m, it, p, log_g_len) ==
    FoldLeft(LAMBDA x, i : iGPartitionPair(x, it, p, log_g_len, i), m, UpTo(POW2(log_g_len - 1)))


-----------------------------------------------------------------------------
(* Butterflies: entry i of the block at j and its half, at level           *)
(* log_g_len; and the last level, linear polynomials on two points.        *)

WFromUVPair(f, a, j, log_g_len, i) ==
    LET lo  == j + i
        hi  == lo + POW2(log_g_len - 1)
        sum == c_mulXor(a[hi], f.subspaces[f.size - log_g_len][i], a[lo])
    IN  [a EXCEPT ![lo] = sum, ![hi] = Plus(sum, @)]
UVFromWPair(f, a, j, log_g_len, i) ==
    LET lo  == j + i
        hi  == lo + POW2(log_g_len - 1)
        sum == Plus(a[lo], a[hi])
    IN  [a EXCEPT ![hi] = sum, ![lo] = c_mulXor(sum, f.subspaces[f.size - log_g_len][i], @)]

LinearValue(f, a, lo) ==
    LET value == c_mulXor(a[lo + 1], f.lastShift, a[lo])
    IN  [a EXCEPT ![lo] = value, ![lo + 1] = Plus(c_mul(@, f.lastD), value)]
LinearCoefficient(f, a, lo) ==
    LET slope == c_mul(Plus(a[lo], a[lo + 1]), f.i_lastD)
    IN  [a EXCEPT ![lo + 1] = slope, ![lo] = c_mulXor(slope, f.lastShift, @)]

-----------------------------------------------------------------------------
(* The serial transforms, on the blocks of 2^log_size entries at offset of *)
(* both arrays; the array named by P is the one that has the result.       *)

Blocks(offset, i, log_size) == [j \in 1..POW2(log_size - i) |-> offset + (j - 1) * POW2(i)]
OnBlocks(Op(_, _), m, offset, i, log_size) == FoldLeft(Op, m, Blocks(offset, i, log_size))
OnPairs(Pair(_, _, _, _, _), f, a, offset, i, log_size) ==
    FoldLeft(LAMBDA x, j : FoldLeft(LAMBDA y, k : Pair(f, y, j, i, k), x, UpTo(POW2(i - 1))),
             a, Blocks(offset, i, log_size))

CopyBlock(m, from, offset, n) ==
    [m EXCEPT ![Other(from)] = vecCopy(@, offset, m[from], offset, n)]

fft_serial(f, m, P, offset, log_size) ==
    LET It(i)      == IF (log_size - i) % 2 = 1 THEN Other(P) ELSE P
        Level(x, i) ==
            OnBlocks(LAMBDA y, p :
                        GPartition([y EXCEPT ![It(i)] =
                                       taylorExpansion(vecMul(@, p, f.exps[f.size - i], POW2(i)), p, i)],
                                   It(i), p, i),
                     x, offset, i, log_size)
        sorted     == FoldLeft(Level, m, DownTo(log_size, 2))
        back       == IF log_size > 1 /\ It(2) = P
                      THEN CopyBlock(sorted, Other(P), offset, POW2(log_size)) ELSE sorted
        linear     == FoldLeft(LAMBDA a, j : LinearValue(f, a, j), back[P], Blocks(offset, 1, log_size))
    IN  [back EXCEPT ![P] = FoldLeft(LAMBDA a, i : OnPairs(WFromUVPair, f, a, offset, i, log_size),
                                     linear, [n \in 1..log_size - 1 |-> n + 1])]

ifft_serial(f, m, P, offset, log_size) ==
    LET It(i)      == IF i % 2 = 1 THEN P ELSE Other(P)
        parts      == FoldLeft(LAMBDA a, i : OnPairs(UVFromWPair, f, a, offset, i, log_size),
                               m[P], DownTo(log_size, 2))
        linear     == FoldLeft(LAMBDA a, j : LinearCoefficient(f, a, j), parts, Blocks(offset, 1, log_size))
        Level(x, i) ==
            OnBlocks(LAMBDA y, p :
                        LET joined == iGPartition(y, It(i), p, i)
                        IN  [joined EXCEPT ![It(i)] =
                                vecMul(i_taylorExpansion(@, p, i), p, f.exps[f.size - i], POW2(i))],
                     x, offset, i, log_size)
        merged     == FoldLeft(Level, [m EXCEPT ![P] = linear], [n \in 1..log_size - 1 |-> n + 1])
    IN  IF log_size > 1 /\ It(log_size) # P
        THEN CopyBlock(merged, Other(P), offset, POW2(log_size)) ELSE merged

-----------------------------------------------------------------------------
(* The parallel transforms: sequences of regions.  A region says which     *)
(* iterations it has and where they work.                                  *)

Region(op, it, level, at, len, iterations) ==
    [op |-> op, it |-> it, level |-> level, at |-> at, len |-> len, iterations |-> iterations]

\* Blocks of a level to the threads if there are enough of them, else every
\* block in turn, its entries divided among the threads.
ButterflyRegions(f, op, log_g_len) ==
    LET half == POW2(log_g_len - 1)
    IN  IF POW2(f.size - log_g_len) >= f.threads
        THEN <<Region(<<op>>, "P", log_g_len, 0, half, Multiples(2 * half, POW2(f.size)))>>
        ELSE [b \in 1..POW2(f.size - log_g_len) |->
                 Region(<<op, "Chunk">>, "P", log_g_len, (b - 1) * 2 * half,
                        IF half < f.threads THEN half ELSE f.threads,
                        0..(IF half < f.threads THEN half ELSE f.threads) - 1)]

\* Long lengths block by block with parallel entries, short ones with
\* parallel blocks.
TaylorRegions(f, op, it, p, log_len, l) ==
    IF l > POW2(log_len) \div f.threads
    THEN [b \in 1..POW2(log_len) \div l |->
             Region(<<op, "Entries">>, it, log_len, p + POW2(log_len) - b * l, l, 0..l \div 4 - 1)]
    ELSE <<Region(<<op, "Blocks">>, it, log_len, p, l, Multiples(l, POW2(log_len)))>>

taylorExpansionOMP(f, it, p, log_len) ==
    FlattenSeq([n \in 1..log_len - 1 |->
                   TaylorRegions(f, "taylor", it, p, log_len, Lengths(log_len)[n])])
i_taylorExpansionOMP(f, it, p, log_len) ==
    FlattenSeq([n \in 1..log_len - 1 |->
                   TaylorRegions(f, "i_taylor", it, p, log_len, Reverse(Lengths(log_len))[n])])

ScaleRegion(f, it, i) == Region(<<"scale">>, it, i, 0, POW2(i), 0..POW2(f.size) - 1)
CopyRegion(f) ==
    LET n == IF POW2(f.size) < f.threads THEN POW2(f.size) ELSE f.threads
    IN  Region(<<"copy">>, "C", 0, 0, n, 0..n - 1)
SerialRegion(f, op, it) ==
    LET log == f.size - GeneralLevels(f)
    IN  Region(<<op>>, it, log, 0, POW2(log), Multiples(POW2(log), POW2(f.size)))

fft_cpu(f) ==
    LET general  == DownTo(f.size, f.size - GeneralLevels(f) + 1)
        It(i)    == IF (f.size - i) % 2 = 1 THEN "C" ELSE "P"
        result   == IF general = <<>> THEN "P" ELSE Other(It(Last(general)))
        Level(i) == <<ScaleRegion(f, It(i), i)>> \o
                    FlattenSeq([b \in 1..POW2(f.size - i) |->
                        LET p == (b - 1) * POW2(i)
                        IN  Append(taylorExpansionOMP(f, It(i), p, i),
                                   Region(<<"partition">>, It(i), i, p, POW2(i), 0..POW2(i - 1) - 1))])
    IN  FlattenSeq([n \in DOMAIN general |-> Level(general[n])])
        \o <<SerialRegion(f, "fft_serial", result)>>
        \o (IF result = "P" THEN <<>> ELSE <<CopyRegion(f)>>)
        \o FlattenSeq([n \in DOMAIN general |-> ButterflyRegions(f, "WFromUV", Reverse(general)[n])])

ifft_cpu(f) ==
    LET general  == DownTo(f.size, f.size - GeneralLevels(f) + 1)
        It(i)    == IF (i + GeneralLevels(f) - f.size - 1) % 2 = 1 THEN "P" ELSE "C"
        Level(i) == FlattenSeq([b \in 1..POW2(f.size - i) |->
                        LET p == (b - 1) * POW2(i)
                        IN  <<Region(<<"i_partition">>, It(i), i, p, POW2(i), 0..POW2(i - 1) - 1)>>
                            \o i_taylorExpansionOMP(f, It(i), p, i)])
                    \o <<ScaleRegion(f, It(i), i)>>
    IN  FlattenSeq([n \in DOMAIN general |-> ButterflyRegions(f, "UVFromW", general[n])])
        \o <<SerialRegion(f, "ifft_serial", "P")>>
        \o FlattenSeq([n \in DOMAIN general |-> Level(Reverse(general)[n])])
        \o (IF general # <<>> /\ It(f.size) = "C" THEN <<CopyRegion(f)>> ELSE <<>>)

\* The share of thread tid of n in a loop over len.
Share(tid, n, len) ==
    LET low == (len * tid) \div n IN [k \in 1..(len * (tid + 1)) \div n - low |-> low + k - 1]

\* Iteration k of region r.
Execute(f, r, k, m) ==
    LET half == POW2(r.level - 1)
        OnIt(a) == [m EXCEPT ![r.it] = a]
        Chunk(Pair(_, _, _, _, _)) ==
            OnIt(FoldLeft(LAMBDA a, i : Pair(f, a, r.at, r.level, i), m[r.it], Share(k, r.len, half)))
        Block(Pair(_, _, _, _, _)) ==
            OnIt(FoldLeft(LAMBDA a, i : Pair(f, a, k, r.level, i), m[r.it], UpTo(half)))
    IN  CASE r.op = <<"scale">> ->
                 [m EXCEPT ![r.it][k] = c_mul(f.exps[f.size - r.level][k % r.len], @)]
          [] r.op = <<"taylor", "Entries">>   -> OnIt(taylorExpansionIterationOMP(m[r.it], r.at, r.len, k))
          [] r.op = <<"i_taylor", "Entries">> -> OnIt(i_taylorExpansionIterationOMP(m[r.it], r.at, r.len, k))
          [] r.op = <<"taylor", "Blocks">>    -> OnIt(taylorExpansionIteration(m[r.it], r.at + k, r.len))
          [] r.op = <<"i_taylor", "Blocks">>  -> OnIt(i_taylorExpansionIteration(m[r.it], r.at + k, r.len))
          [] r.op = <<"partition">>   -> GPartitionPair(m, r.it, r.at, r.level, k)
          [] r.op = <<"i_partition">> -> iGPartitionPair(m, r.it, r.at, r.level, k)
          [] r.op = <<"WFromUV", "Chunk">> -> Chunk(WFromUVPair)
          [] r.op = <<"UVFromW", "Chunk">> -> Chunk(UVFromWPair)
          [] r.op = <<"WFromUV">>     -> Block(WFromUVPair)
          [] r.op = <<"UVFromW">>     -> Block(UVFromWPair)
          [] r.op = <<"fft_serial">>  -> fft_serial(f, m, r.it, k, r.level)
          [] r.op = <<"ifft_serial">> -> ifft_serial(f, m, r.it, k, r.level)
          [] r.op = <<"copy">> ->
                 LET share == Share(k, r.len, POW2(f.size))
                 IN  IF share = <<>> THEN m ELSE CopyBlock(m, r.it, share[1], Len(share))
=============================================================================
