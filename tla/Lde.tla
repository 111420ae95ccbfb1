-------------------------------- MODULE Lde ---------------------------------
(***************************************************************************)
(* The transforms of algebralib as the library's callers run them, on the  *)
(* threads of OpenMP: a call is a sequence of parallel regions (modules    *)
(* AdditiveFft and NovelFft), the iterations of a region run in any order, *)
(* and the next region starts when all have ended.                         *)
(*                                                                         *)
(* FFT evaluates a polynomial coset after coset in one array: the smallest *)
(* coset that holds the polynomial is evaluated where the polynomial lies, *)
(* so the polynomial is first copied to the place of the next coset.       *)
(***************************************************************************)
EXTENDS NovelFft

CONSTANT Jobs      \* what is asked of the library: records, see Start

VARIABLES job,     \* the job
          calls,   \* the calls it has still to make, in order
          call,    \* the call that runs: its instance and its plan
          mem,     \* the array of the caller and the buffer of the instance
          todo     \* the iterations of the current region that have not run
vars == <<job, calls, call, mem, todo>>

Garbage == {0, 2, 5}    \* what fresh memory holds
Fresh(n) == [x \in 0..n - 1 |-> Garbage]
Padded(coefficients, n) ==
    [x \in 0..n - 1 |-> IF x \in DOMAIN coefficients THEN coefficients[x] ELSE zero]
Point(basis, shift, i) == getSpaceElementByIndex(basis, shift, i)

-----------------------------------------------------------------------------
(* The calls of a job. *)

correct_ceilLog2(x) == IF x = 0 THEN 0 ELSE CHOOSE log \in 0..x : POW2(log) >= x /\ POW2(log) < 2 * x

\* FFT_inplace: the cosets of the first polyDeg_ceilLog vectors.
FFT_inplace(basis, shift, polyDeg_ceilLog) ==
    LET shiftsBasis == SubSeq(basis, polyDeg_ceilLog + 1, Len(basis))
    IN  [i \in 1..POW2(Len(shiftsBasis)) |->
            [op |-> "FFT", basis |-> SubSeq(basis, 1, polyDeg_ceilLog),
             shift |-> getSpaceElementByIndex(shiftsBasis, shift, i - 1),
             at |-> (i - 1) * POW2(polyDeg_ceilLog),
             keep |-> i < POW2(Len(shiftsBasis))]]

IFFT_inplace(basis, shift) ==
    [op |-> "IFFT", basis |-> basis, shift |-> shift, at |-> 0, keep |-> FALSE]

LDE_inplace(j) ==
    <<IFFT_inplace(j.src, j.srcShift)>> \o FFT_inplace(j.basis, j.shift, Len(j.src))

FFT(j) ==
    LET log == correct_ceilLog2(Cardinality(DOMAIN j.poly))
    IN  FFT_inplace(j.basis, j.shift, IF log > 1 THEN log ELSE 1)

\* The instance of novelFFT, made of coefficients or of values, and a call
\* of its FFT for every list of shifts.
NovelCalls(j) ==
    <<[op |-> j.kind]>> \o [s \in DOMAIN j.shifts |-> [op |-> "evaluate", shifts |-> j.shifts[s]]]

\* The job's input: the values of its polynomials on the space they are
\* given on, or their coefficients.
ValuesOn(poly, basis, shift) ==
    [i \in 0..POW2(Len(basis)) - 1 |-> Value(poly, Point(basis, shift, i))]

Start(j) ==
    CASE j.kind = "LDE" ->
             [calls |-> LDE_inplace(j),
              array |-> Padded(ValuesOn(j.poly, j.src, j.srcShift), POW2(Len(j.basis)))]
      [] j.kind = "FFT" ->
             [calls |-> FFT(j), array |-> Padded(j.poly, POW2(Len(j.basis)))]
      [] j.kind \in {"ofCoefficients", "ofValues"} ->
             [calls |-> NovelCalls(j), array |-> <<>>]

-----------------------------------------------------------------------------
(* One call. *)

IsNovel == job.kind \in {"ofCoefficients", "ofValues"}
Idle    == call.plan = <<>>

\* The part of the memory a call works on: of the array, the coset.
Window(c, mm) ==
    IF IsNovel THEN [polys |-> mm.buffer, dst |-> mm.array]
    ELSE [P |-> vecCopy(mm.buffer, 0, mm.array, c.at, POW2(c.f.size)), C |-> mm.buffer]
Written(c, mm, w) ==
    IF IsNovel THEN [array |-> w.dst, buffer |-> w.polys]
    ELSE [array |-> vecCopy(mm.array, c.at, w.P, 0, POW2(c.f.size)), buffer |-> w.C]
Run(c, r, k, mm) ==
    Written(c, mm, IF IsNovel THEN ExecuteNovel(c.f, r, k, Window(c, mm))
                   ELSE Execute(c.f, r, k, Window(c, mm)))

\* memcpy of the polynomial to the next coset's place.
mutKeepPolynomial(c, array) ==
    LET n == POW2(Len(c.basis))
    IN  IF c.keep THEN vecCopy(array, c.at + n, array, 0, n) ELSE array
KeepPolynomial(c, array) ==
    LET n == POW2(Len(c.basis))
    IN  IF c.keep THEN vecCopy(array, c.at + n, array, c.at, n) ELSE array

RunFFT(c) ==
    LET f == NewFFT(c.basis, c.shift, IF c.op = "FFT" THEN "FFT_OP" ELSE "IFFT_OP", job.threads)
    IN  /\ call' = [f |-> f, at |-> c.at, plan |-> IF c.op = "FFT" THEN fft_cpu(f) ELSE ifft_cpu(f)]
        /\ mem' = [array |-> KeepPolynomial(c, mem.array), buffer |-> Fresh(POW2(Len(c.basis)))]

NewNovelFFT(c) ==
    LET coefficients == IF c.op = "ofCoefficients" THEN job.polys ELSE <<>>
        n == [basis |-> job.basis, X_exp |-> calc_X_exp(job.basis), affineShift |-> <<>>,
              width |-> job.width, numPolys |-> Len(job.polys), diff_coset |-> 0,
              threads |-> job.threads, coefficients |-> coefficients,
              f |-> NewFFT(job.basis, zero, "FFT_OP", job.threads)]
    IN  /\ call' = [f |-> n, at |-> 0,
                    plan |-> (IF c.op = "ofCoefficients" THEN convertPolysBasis(n) ELSE <<>>) \o novelIFFT(n)]
        /\ mem' = [array |-> <<>>,
                   buffer |-> IF c.op = "ofCoefficients"
                              THEN [x \in 0..BufferLen(n) - 1 |-> job.pad]
                              ELSE ValuesOn(job.polys[1], job.basis, zero)]

EvaluateNovel(c) ==
    LET n == [call.f EXCEPT !.affineShift = c.shifts, !.diff_coset = BufferLen(call.f) + job.gap]
    IN  /\ call' = [f |-> n, at |-> 0, plan |-> novelFFT(n)]
        /\ mem' = [mem EXCEPT !.array = Fresh(Len(c.shifts) * n.diff_coset)]

Init ==
    /\ job \in Jobs
    /\ calls = Start(job).calls
    /\ mem = [array |-> Start(job).array, buffer |-> <<>>]
    /\ call = [f |-> <<>>, at |-> 0, plan |-> <<>>]
    /\ todo = {}

\* The next call of the job.
Call ==
    /\ Idle
    /\ calls # <<>>
    /\ calls' = Tail(calls)
    /\ LET c == Head(calls)
       IN  \/ c.op \in {"FFT", "IFFT"} /\ RunFFT(c)
           \/ c.op \in {"ofCoefficients", "ofValues"} /\ NewNovelFFT(c)
           \/ c.op = "evaluate" /\ EvaluateNovel(c)
    /\ todo' = Head(call'.plan).iterations
    /\ UNCHANGED job

\* A thread runs an iteration of the region.
Iterate ==
    \E k \in todo :
        /\ mem' = Run(call, Head(call.plan), k, mem)
        /\ todo' = todo \ {k}
        /\ UNCHANGED <<job, calls, call>>

\* The barrier at the end of a region.
Join ==
    /\ ~Idle
    /\ todo = {}
    /\ call' = [call EXCEPT !.plan = Tail(@)]
    /\ todo' = IF Len(call.plan) > 1 THEN call.plan[2].iterations ELSE {}
    /\ UNCHANGED <<job, calls, mem>>

Done == Idle /\ calls = <<>> /\ UNCHANGED vars

Next == Call \/ Iterate \/ Join \/ Done
Spec == Init /\ [][Next]_vars

-----------------------------------------------------------------------------
(* Between calls the values computed so far are those of the polynomial at *)
(* the points of the whole destination space, in its order; where the next *)
(* coset will be evaluated the array holds the polynomial; and the rest is *)
(* as it was.                                                              *)
CosetsRight ==
    LET begun == {i \in DOMAIN Start(job).calls : i <= Len(Start(job).calls) - Len(calls)}
        slots == {i \in begun : Start(job).calls[i].op = "FFT"}
        n     == POW2(Len(Start(job).calls[Len(Start(job).calls)].basis))
        done  == n * Cardinality(slots)
    IN  begun # {} =>
        \A x \in DOMAIN mem.array :
            mem.array[x] = CASE x < done -> Value(job.poly, Point(job.basis, job.shift, x))
                             [] x >= done /\ x < done + n -> Padded(job.poly, n)[x - done]
                             [] OTHER -> Start(job).array[x]

\* A call of novelFFT fills the columns of every coset with the values of
\* the polynomials, whatever calls came before; the columns without a
\* polynomial hold the padding, and nothing is written between the cosets.
RowsRight(shifts) ==
    LET n == call.f
        Expected(c, y) ==
            LET row == y \div n.width
                col == y % n.width
            IN  IF y >= BufferLen(n) THEN Garbage
                ELSE IF col < n.numPolys
                     THEN Value(job.polys[col + 1], Point(n.basis, shifts[c], row))
                     ELSE job.pad
    IN  \A c \in DOMAIN shifts : \A y \in 0..n.diff_coset - 1 :
            mem.array[(c - 1) * n.diff_coset + y] = Expected(c, y)

\* The transforms compute the values (and, between the two halves of LDE,
\* the coefficients) of the polynomial they are given, on every number of
\* threads and in every order of the iterations.
TransformsRight ==
    Idle => IF IsNovel THEN call.f # <<>> => RowsRight(call.f.affineShift) ELSE CosetsRight

\* Iterations of one region never share a byte that one of them writes: so
\* it is sound to take each as one step, and the parallel loops have no
\* data race, although two of them may write to one element.  The steps are
\* linear, so one memory and its neighbours, where one byte was poked, tell:
\* an iteration writes the bytes it changes in any of them, and touches those
\* as well whose poke does anything but stay where it is.
Cells == UNION {{m} \X (DOMAIN mem[m]) \X (0..SizeofElement - 1) : m \in DOMAIN mem}
ByteIn(mm, x) == {i \in mm[x[1]][x[2]] : ByteOf(i) = x[3]}
Poked(mm, x)  == [mm EXCEPT ![x[1]][x[2]] = Plus(@, {i \in 0..Ord - 1 : ByteOf(i) = x[3]})]
Ran(k, mm)    == Run(call, Head(call.plan), k, mm)
Footprint(k, after, poked) ==
    LET Differing(m1, m2) == {x \in Cells : ByteIn(m1, x) # ByteIn(m2, x)}
        disturbed == {x \in Cells : poked[x] # Poked(after, x)}
        writes    == Differing(mem, after)
                       \cup UNION {Differing(poked[x], Poked(after, x)) : x \in disturbed}
    IN  [iteration |-> k, writes |-> writes, touches |-> writes \cup disturbed]
Footprints == {Footprint(k, Ran(k, mem), [x \in Cells |-> Ran(k, Poked(mem, x))]) : k \in todo}
IterationsIndependent ==
    ~Idle /\ todo = Head(call.plan).iterations =>
        \A a, b \in Footprints :
            a.iteration # b.iteration => a.writes \cap b.touches = {}
=============================================================================
