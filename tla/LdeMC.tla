------------------------------- MODULE LdeMC --------------------------------
(* Small spaces in general position, on one to eight threads. *)
EXTENDS Lde

MCBasis == <<{0, 1}, {2, 4}, {0, 2, 3, 6}, {0, 7}>>
MCPoly(n) == [k \in 0..n - 1 |-> Bits((37 * k * k + 11 * k + 5) % 256)]
Leading(n) == SubSeq(MCBasis, 1, n)

LdeJobs ==
    {[kind |-> "LDE", src |-> getStandartOrderedBasis(s[1]), srcShift |-> {4, 6},
      basis |-> Leading(s[2]), shift |-> {3, 7}, poly |-> MCPoly(POW2(s[1])), threads |-> s[3]] :
        s \in {<<1, 3, 2>>, <<2, 3, 1>>, <<2, 3, 2>>, <<2, 3, 3>>, <<3, 3, 1>>, <<3, 3, 4>>, <<3, 3, 8>>}}
FftJobs ==
    {[kind |-> "FFT", basis |-> Leading(s[2]), shift |-> {3, 7}, poly |-> MCPoly(s[1]), threads |-> s[3]] :
        s \in {<<1, 2, 2>>, <<3, 3, 2>>, <<4, 2, 8>>, <<5, 3, 3>>}}
NovelJobs ==
    {[kind |-> "ofCoefficients", basis |-> Leading(s[1]), polys |-> [i \in 1..s[2] |-> MCPoly(i + 1)],
      width |-> s[3], pad |-> {6}, gap |-> 1, shifts |-> <<<<{3, 7}, {2}>>, <<{5}>>>>, threads |-> s[4]] :
        s \in {<<1, 1, 1, 2>>, <<2, 2, 3, 4>>, <<2, 3, 4, 3>>}}
ValueJobs ==
    {[kind |-> "ofValues", basis |-> Leading(s[1]), polys |-> <<MCPoly(POW2(s[1]))>>, width |-> 1,
      pad |-> zero, gap |-> 0, shifts |-> <<<<{3, 7}, {2}>>>>, threads |-> s[2]] :
        s \in {<<2, 2>>, <<3, 3>>}}
MCJobs == LdeJobs \cup FftJobs \cup NovelJobs \cup ValueJobs
=============================================================================
