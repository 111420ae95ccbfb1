# Zilch: a verification development

Zilch compiles a zMIPS program to an algebraic constraint system and proves that
the program ran with a STARK: a *prover* holds the execution trace (and the
private tape), a *verifier* holds the program (and the public tape), and the two
run an interactive oracle proof, in one process or over a TCP connection.  This
directory holds TLA+ models of that system, checked by TLC and, where it says
so, proved by TLAPS.

## 1. Inventory

| component | code (under src/) | state it keeps | operations |
|---|---|---|---|
| zMIPS front end | framework/zilch/src (zMipsParser.cpp, macros.json, RAM/) | label map, instruction list | macros, register naming, public tape to stores, two passes over the text |
| Machine and its constraints | framework/zilch/src/RAMtoBair | trace line (pc, flag, registers, timestamp), the rows made, memory trace, memory permutation | one witness row per step, sorted memory trace, columns of memory rows, constraints |
| Gadget library | framework/gadgetlib | protoboard: variables that keep their values from row to row | arithmetic circuits, witness and constraints of each |
| Zilch driver | framework/zilch/main.cpp, executeProtocol.cpp, zilch-api.cpp | `found_answer_`, `answer_` | argument handling, search for the number of steps |
| BAIR to ACSP | libstark/src/reductions/BairToAcsp | what both reductions compute of the instance (`commonDeffinitions`), the witness' layers, the routing network | reduction of the instance to neighbours and tests, of the witness to polynomials (`mapChi`, `mapNetwork`), composition of the two (`compositionAlg`) |
| Checkers | libstark/src/languages/Bair, Acsp | - | whether a witness satisfies an instance, without randomness |
| Field, polynomials, FFT | algebra/FFT, algebra/algebralib | tables of an FFT instance, the array a transform works on | GF(2^64), interpolation, division, subspace polynomials, additive FFT on threads, low degree extension, many polynomials at once |
| ALI verifier | libstark/src/protocols/Ali/verifier.cpp, verifier_details | `phase_`, commitments, queries and results in `state_`, coefficients, one FRI verifier per repetition for the witness and for the composition | constructor, `sendMessage`, `receiveMessage`, `digestQueries`, `digestResults`, `verify` |
| ALI prover | Ali/prover.cpp | `phase_`, the matrix of witness evaluations (kept or not) and its commitment, masks, FRI provers, `nextResults_` | constructor, `receiveMessage`, `sendMessage`, `boundaryPolysEvaluation`, `fillResults` |
| FRI verifier | Fri/verifier.cpp, Fri/verifier_details | tree of subproofs to request (`currProofRequests_`), queries with pointers to where their answers go, `recievedResults_` | constructor (draws all queries), `sendMessage`, `receiveMessage`, `verify` |
| FRI prover | Fri/prover.cpp, Fri/common | tree of evaluated subproofs, `nextResponce_` | `receiveMessage` (`constructProofs`, `responceToDataQueries`), `sendMessage`, `deleteProof` |
| Merkle commitments | protocols/common/CryptoCommitment, proofs.cpp, common/verifier.cpp | heap of hashes over the data; sparse tree of queried pairs | construction by segments in parallel, paths (from a stored heap or in place), sparse serialisation and its inverse, root of a sparse tree |
| Local driver | protocols/protocol.cpp (`executeProtocolLocally`) | program position | the loop |
| Network drivers | protocol.cpp (`executeProverProtocol`, `executeVerifierProtocol`), NetworkCom.cpp, Ali/common_details | two processes, two byte streams | handshake, framing, loop, decision |

**How they interact.**  The front end turns a zMIPS file into the machine's
instructions.  The driver asks `cs2Bair` for a witness of 2^t - 1 rows and grows t
until the program answers; the rows and the permutation that links them are the
BAIR witness, which the reduction turns into polynomials (the ACSP witness) and the
BAIR instance into tests of their values at neighbouring points.  The ALI prover
evaluates the polynomials on a larger space (FFT), commits to the matrix of values
(Merkle), and combines it with the verifier's coefficients into tables for FRI.
The protocol drivers alternate calls: verifier `sendMessage`, prover
`receiveMessage`, prover `sendMessage`, verifier `receiveMessage`, until
`doneInteracting`; then `verify`.  The ALI parties own FRI parties and embed
their messages in their own.  FRI provers own Merkle trees; FRI verifiers own
sparse trees; answers are written through callbacks to the places the low
degree and consistency tests read, and the ALI verifier computes what FRI reads of
its input from entries of the matrix.

**What is hard.**  Two phase machines that advance in different handlers and
call the same round by different phases; answers that carry no layer number and
are resent until replaced; FRI instances of different depths that finish in
different rounds; proofs deleted while the protocol runs; messages whose fields
are chosen by a phase computed after the fact; framing over a byte stream;
processes that die; OpenMP tasks that write one heap, and OpenMP loops over one
array; a polynomial evaluated in the place where it lies; points numbered by one
space when a value is written and by another when it is read; index arithmetic at
the boundaries of blocks, pairs, cosets, rows and layers; scratch columns shared by
instructions and written over when rows are linked; labels counted in one pass and
used in another; a program counter and words of a fixed width.  `PROJECT.json`
lists each of these as a hazard at its line, with the properties that would catch
it going wrong.

## 2. Modules

| module | stands for | proved | composed with |
|---|---|---|---|
| `AliParties` | handlers of the ALI and FRI parties | with its drivers | extended by the two drivers |
| `AliSession` | `executeProtocolLocally` | `AliSession_proofs` | refines `IopTranscript` |
| `IopTranscript` | what an interactive oracle proof promises about its coins | refined in `AliSession_proofs` | abstract specification |
| `AliNetwork` | both network drivers and the socket | `AliNetwork_proofs` | refines `AliSession` |
| `MerkleHash` | the tree over committed data, paths and their check | `MatrixCommitment_proofs` | used by the next five |
| `MerkleTree` | parallel construction by segments | `MatrixCommitment_proofs` | `MerkleHash` |
| `MerkleInPlace` | a coset hashed inside its own buffer | `MatrixCommitment_proofs` | `MerkleHash` |
| `MerkleBuild` | the choice between the two by the memory there is | `MatrixCommitment_proofs` | instantiates both |
| `SparceMerkle` | opening and checking queried blocks | `MatrixCommitment_proofs` | `MerkleHash` |
| `MatrixCommitment` | from the commitment to the decision about an answer | `MatrixCommitment_proofs` | `MerkleBuild`, then `SparceMerkle` |
| `FriProof` | one FRI instance: layers, coins, queries, answers, tests | `FriProof_proofs` | refines what `AliParties` takes for one step per layer |
| `RsTest` | the test of the last FRI layer | - | used as `verifyLowDegree` in `FriProof` |
| `Words` | words as numbers and as bits | `Gadgets_proofs`, `Machine_proofs` | used by the next three |
| `Gadgets` | addition, comparison and product gadgets | `Gadgets_proofs` | justifies the use of numbers in `Alu` |
| `Alu` | one row of the arithmetic unit, witness and constraints | `Machine_proofs` | used by `Machine` |
| `Machine` | witness generation, memory links, search for the length, BAIR checker | `Machine_proofs` | refines `ZmipsIsa` |
| `ZmipsIsa` | what a program means | - | abstract specification |
| `Assembler` | from a zMIPS source to instructions | - | `Toolchain` |
| `Toolchain` | front end and machine together, and what a source means | - | `Assembler` and `Machine` |
| `BitSets` | words and field elements as sets of bits | - | used by the rest |
| `Routing` | the Benes network and the folded De Bruijn network read from it | `BairToAcsp_proofs` | extended by `BairToAcsp` |
| `BairToAcsp` | reduction of instance and witness | `BairToAcsp_proofs` | `Routing` |
| `FieldArithmetic` | elements of the field, spaces | - | used by the rest |
| `AdditiveFft` | `FFF::FFT` as parallel regions | - | `FieldArithmetic` |
| `NovelFft` | `novelFFT`: many polynomials on many cosets | - | `AdditiveFft`, `Polynomials` |
| `Lde` | calls of the transforms, iteration by iteration | - | `NovelFft` |
| `Polynomials` | univariate and subspace polynomials | - | `FieldArithmetic` |
| `AcspSummands` | values and degrees of the constraint polynomial | - | `Polynomials` |
| `AcspComposition` | test spaces, `compositionAlg`, the ACSP checker | - | `AcspSummands` |
| `AliQueries` | what the ALI prover commits to and the verifier reads of it | - | `AcspComposition` |

### AliParties

One variable per field of the code's objects: `vPhase` and `pPhase` are the two
`phase_`; `vLayer[r]` is the layer `currProofRequests_` of FRI verifier `r` points
into; `vStored[r][l]` is the layer whose commitments were filed as layer `l`;
`pLayers[r]` the layers of subproofs FRI prover `r` has built; `pNext[r]` is
`nextResponce_`.  A handler is an operator (`VerifierSend`, `ReceiveRound`,
`ProverRound`, ...), the message it builds another (`VerifierMessage`,
`ProverMessage`), and the conditions under which the code would stop the process or
read what is not there a third (`ProverReceiveFault`, ...).  Data is abstracted to
what an exchange can confuse: a commitment is named by what it commits to, an
opening by what it opens.  Layers are atomic here: all subproofs of a layer are
requested and answered together, as the code does.

### AliSession

The loop of `executeProtocolLocally`, one action per call.  The outcome of the
algebraic tests is the constant-valued variable `algebra`; a fault ends the run
(`turn = "aborted"`).  `round` is a history variable.

### IopTranscript

The abstract promise: a coin is revealed only after everything it protects was
committed to, layer by layer and chain by chain, positions in the input last.
`AliSession` maps to it (`ImplementsTranscript`) by what the verifier has sent and
stored.

### AliNetwork

Two processes with a program counter each, two FIFO byte streams.  A byte is
modelled as a part of the field it was sent in, so reading out of step is visible.
`Recv` is one `recv` of a header, `RecvText` one turn of the loop over a text;
`getPreviousPhase` tags a message and the tag selects the fields that are
serialised.  A message of several fields leaves one field at a time (`StartSending`,
`SendField`): what is still to be sent waits in `out`, and the peer may read, or either
process may end, between two of its sends.  `Crash` kills a process at any point; `EndOfStream` is `recv` returning
0.  What a reader out of step does is followed no further than its end: the buffer
it would decode is not initialised, so it meets an impossible phase or number and
exits, or waits.  The verifier listens before the prover connects, as
src/README.md:74 asks.  The `world` a run takes place in is chosen once: whether
headers may arrive in pieces, whether a process may die, whether the session may be
another one.

### MerkleHash, MerkleTree, MerkleInPlace, SparceMerkle

The compression function is injective: a digest is the term it was computed from,
so two digests are equal exactly when the data under them are.  `MerkleTree` runs
the tasks of `getFinalHash` (one per segment) and their OpenMP loops one iteration
at a time in any order; `did[t]` are the iterations of the row a task has finished.
`MerkleInPlace` runs one step of `getPathToBlocksInPlace` the same way: each
iteration moves a pair out of the way (`MoveRight`) and hashes it (`HashPair`).
`SparceMerkle` follows a set of queried blocks from both ends: the prover collects
paths into a tree, from a stored heap or joined from pieces found per coset
(`TopPath`, `PathByCosets`); the serialisation keeps no indices, so the verifier
rebuilds them from the blocks it asked for (`DeSerialize`) and computes a root.

`MerkleBuild` instantiates the two builders, as the ALI prover uses one or the other
for the same commitment.  `MatrixCommitment` puts opening after building: the queries
are answered only when the commitment is out (`Committed`), from the heap if the
matrix was kept and from cosets if it was not (`Respond`).

### FriProof, RsTest

A space is the sequence of its basis labels and an element the set of labels it is
the sum of, so spaces, rows, columns and offsets keep their structure without field
arithmetic; a value is `<<path, element>>`, the columns drawn on the way to the layer
and where in it the value belongs.  `Interpolate` answers the value of the next layer
for a row over the right space at the right offset, and `Garbage` for anything else,
so a position numbered differently by the two parties shows as a rejection.  The
constructor's draws are the actions `addRandomComitmentPath` and `addRandomQueryPath`;
`tree` is the tree of subproofs, `proof` and `univariate` the queries with the places
their answers are written to.  `VerifierSends`, `ProverAnswers`, `ReceiveComitments`,
`Digest` are the handlers, `AnswerInput` what the ALI verifier answers from its own
oracles.

`PathConnected` is stated for rows in the low order bits (the composition).  With rows
in the high order bits (the witness) the code steps to the next row by `>> 2` as well,
which there is not the row of the point the last row folded to: the rows of one path
are independent tests.

`RsTest` is the function behind `verifyLowDegree`, over values in {0, 1}.

### Words, Gadgets, Alu

`Gadgets` holds the gadgets bit by bit, a witness procedure and a set of
constraints each, starting from whatever the row before left in their variables.
Powers of the generator are represented by exponents, the comparison's field
elements 0, 1 and g by 0, 1 and 2.  The run, and for every length the proofs, show that a gadget's
constraints determine the relation on numbers `Adds`, `Order` and `*`; `Alu` then uses
the relations.  In `Alu`, `Witness` is `generateWitness` of each component and
`Satisfied` is the set of constraints registered *under* each opcode, which is not
always the component's own: `UnderNot` and `NoMemory` say where they differ.

### Machine, ZmipsIsa

`GenerateConstraints`, `Step`, `StepFails` and `LinkRows` are the constructor of
`cs2Bair`; `Answered`, `NextAttempt` and `GiveUp` the loop of `execute_locally`.
`first` is the line the next row starts from (`copyTraceOutputValuesToTraceInput`
has already run).  `table` holds the rows as the witness keeps them: a row has the
line before its instruction (`Kept`) and takes what is after it from the next row
(`AssignmentOf`).  Its columns of the arithmetic unit keep what the last instruction that
used them left, so that a component that leaves `result_` alone leaves
`table[Made].out.result`, and the first row has a value there only if its
instruction gives one (`ResultMissing`: `assignmentToVec` looks the variable up with
`at`).  `LinkRows` writes over columns of memory rows (`Overwritten`) and only then
asserts the memory constraints.  `RowHolds` and `PairHolds` state the constraints and
are never used to compute a row; `verify_...` are the tests of `BairWitnessChecker`.
A memory row's time is unpacked into as many bits as a word has, and aborts if it has
more: `LastT <= W` leaves that out, as the driver stops long before.  `Low16` is the
conversion of a field element whose length the code writes as 16; `REGISTER_LENGTH` is
16 in configs.hpp, so that it keeps the whole word, which the theorem about the sorted
rows asks for (`W <= 16`).  A run ends as `undefined` where an index is past the end of
the registers: an operand of the program (`OperandsExist`), before any row is made, or
the register a REGMOVE is led to (`MovesNothing`).
`ZmipsIsa` knows only numbers; its register file leaves out register 2, into which
a word from the tape is put before the instruction reads it.

### Assembler, Toolchain

A source is its lines and its public tape; a line is an operation and tokens.
`unroll_macros` substitutes as the code does, by replacing text (so `$z` is found in
`$zero`, and a number takes the place of the third occurrence only),
`initialize_public_tape` puts the tape into memory, `zmips_to_zilch_instruction`
gives each line the one or two of the machine's own assembly, `buildLabelsMap` is the
first pass over that file and `SecondPass` the second (`addInstructionsFromFile` is
both); `Legible` says where the process ends instead.  `Toolchain` runs the machine on assembled sources and states
what a source means without any of it: `Meaning` executes the lines one by one, with
labels as places between lines, macros as single operations, registers by name and the
tapes apart from the memory.

### BitSets, Routing, BairToAcsp

A field element, a label or a space index is the set of its bits that are one, so
addition, multiplication by x, spans and cosets need no field.  `Routing` runs
`constructBenes_recursive` one turn of its inner loop at a time (`RoutePair`,
`StopRecursion`), with the recursion as a list of calls; `find` looks in whole
columns, which may still hold the zeros they were allocated with.  The other network
classes compute nothing of their own: `symmetricData`, `longData` and `getDataID`
read the routed columns through each relabelling, extension and fold.

`BairToAcsp` follows the two reductions.  Both start from `commonDeffinitions`; the
instance becomes neighbours (`Neighbor`: a layer and a polynomial x^p X + c) and
tests (a summand of the constraint polynomial: where it is made, and what it reads);
the witness becomes `mapping`, written by `mapChi` and `mapNetwork`.  Values are named
by what they are, the colour of a variable in a row, the padding or a routing bit, and
a place nobody wrote to reads as random, as `fillWithRandomVals` leaves it.  What the
constraints compute is left to `AcspSummands`; which variables they use is an instance's
parameter.  The properties then say that the two reductions agree on every place.

### FieldArithmetic, AdditiveFft, NovelFft, Lde

A field element is a set of exponents; `c_mul` reduces a product in two carries with the
code's table, `c_inv` is Euclid's algorithm, and `Product` and `Value` are the
definitions they are compared with.  `Ord` is 64 in the code; the models take 8 and 9
bits, for which the same modulus `1 + x + x^3 + x^4 + x^Ord` is irreducible too.
`AdditiveFft` writes a transform as a sequence of parallel regions (scaling, Taylor expansion, sorting even
from odd, butterflies) and then one serial transform per thread; how many levels are
parallel follows from the number of threads (`GeneralLevels`).  `Lde` runs calls
region by region, taking the iterations of a region in any order (`Iterate`, `Join`).
`RunFFT` first copies the polynomial to the next coset's place (`KeepPolynomial`) and
gives each call a buffer of fresh memory.  `NovelFft` computes the coefficients of
many polynomials in the basis of subspace polynomials and evaluates them on lists of
cosets at once.  It deals the coefficients out to the threads by bytes (`copyBytes`), so
that one element may be copied in part by one thread and in part by another; whether
iterations share anything is told byte by byte (`IterationsIndependent`).

### Polynomials, AcspSummands, AcspComposition, AliQueries

`Polynomials` are the routines of `UnivariatePolynomialGeneral` and
`SubspacePolynomial`, loop by loop, with `invertPointwise`.  `AcspSummands` is the
constraint polynomial: tests over cosets, their denominators, inverted together with
the zeros left out, auxiliary polynomials, degree bounds.  `AcspComposition` takes the
spaces from the degree bounds (`basisForWitness`), finds neighbours in the kept witness
or in three precomputed cosets by two bits (`LookedUp`), and holds the deterministic
checker.  `AliQueries` is the run of both parties over that data: `Check`
(`executeProtocol` tests the witness first), `EvaluateBoundaryPolys` (columns, masks and
whether the matrix is kept), `ReceiveRandomness` (the tables given to FRI),
`AnswerKept` or one `AnswerCoset` per coset in any order of those computed together;
`digestQueries`, `calculate_witness` and `calculate` are the verifier's side.  Random
elements are a function of a seed and a place, so that both sides draw alike.

## 3. Runs

| run | instance | states | shows |
|---|---|---|---|
| `session` | 2 repetitions, FRI depths 12 and 9 | 132 | the two parties stay in step to the decision the algebraic tests give; commitments are filed as the layer they are of and never change; no proof is deleted while a query needs it; the coins come in the order `IopTranscript` asks |
| `network` | depths 2 and 1, 2-byte headers, 3-byte texts; one world with crashes and a session that may not be the expected one, one with headers in pieces | 3374 | two processes over TCP do a prefix of a local run; a peer that is gone, be it in the middle of a message, is noticed; nobody waits for ever on a peer that waits; where headers are in pieces, a message that reaches a handler is still the one that was sent |
| `merkle` | a matrix of 16 blocks in 1, 2, 4 or 8 segments or in cosets; hashing in place in a coset of 8 blocks; up to 2 queried blocks, joined from cosets of every size | 183985 | every order of tasks and iterations builds the tree over the matrix and reads only what is final; paths found in a coset hashed in place are those of its tree; honest answers are understood and accepted, accepted ones are the committed data |
| `fri_proof` | dimension 7 with two layers and two chains of columns, dimension 5 with one layer and two paths; rows in the high and in the low order bits | 25936 | both parties number rows, columns and positions alike in every layer; the tests read what they should; no coin is early |
| `rs_test` | dimension 3, values 0 and 1 | - | expected violation: the test of degree bound 2 reads one direction only |
| `gadgets` | W = 4, all operands, all leftovers | 259840 | constraints of a gadget hold for its witness and determine its relation |
| `machine` | W = 4, 8 registers, attempts of 3, 7 and 15 rows; programs of instructions and assembled zMIPS sources | 150739 | rows satisfy their constraints and mean the instruction set; a finished witness passes the checker; a source is answered as its lines mean; the search ends |
| `machine_not` | same, programs of one NOT | - | expected violation: a NOT without a witness |
| `bair_to_acsp` | k = 2: three rows of three variables, every set of routed ones, two usages of the others on each side, all permutations; k = 3: seven rows, all 5040 permutations | 71625 | a test made for a row reads that row, its successor or the row the permutation names; the network delivers and passes its tests in each coset of carries; every row but the last is tested by one test of each kind, inside the vanishing space |
| `fft` | elements of 8 bits, spaces of dimension 1 to 3 in general position, 1 to 8 threads | 3315 | every transform computes the values of its polynomials on every coset; iterations of a parallel loop are independent |
| `ali_queries` | elements of 9 bits, vanishing set of four points, one to three witnesses, one or two repetitions, the matrix kept or not, three witnesses that break the instance | 1016 | what the verifier computes from the entries it asked for is what FRI's prover holds, for witness and composition |
| `ali_masks` | three witnesses and two repetitions | - | expected violation: the prover reads the masks by a width that does not count them |

**Why the bounds are enough.**  *Parties*: repetitions only multiply independent
FRI instances, two of them and two kinds show every disagreement between an
instance that is done and one that is not; the depths (12 and 9 locally) differ so
that instances finish in different rounds, and the theorems hold for any depths.  No run has
an instance without layers; that it is rejected is `HonestAccepted`, for every depth.
*Network*: two bytes per header, three per text and buffers of four make every
field shorter than, equal to and longer than one `recv`.  *Merkle*: eight to
sixteen blocks give three to four rows, so that a row below, at and above the
segments' roots exists; every one and every pair of queried blocks is tried, which
has neighbours, cousins and blocks that meet only at the root.  *FRI*: two layers are the least in
which a layer is both folded from and folded into, two chains of columns over two
columns may share a first layer or not, and two paths over one layer may fall on one
row.  *Words*: four bits
have a sign bit, two counting bits for shifts and shifts by more than the length;
W = 16 and 32 differ only in the number of bits the same loops visit, and in the sort of
the memory rows, which the theorem `WitnessesAccepted` has for every `W <= 16`.  (The
positions of a shift's scratch variables in one array coincide for W = 4 and are
kept apart here; they do not coincide for the lengths the build accepts.)
*Machine*: attempts of 3, 7 and 15 rows, so that programs answer in the first,
second or third attempt or in none, and a row that stores or loads can be the last;
two addresses, equal or not, are what sorting can confuse; offsets of SECSEEK stay
among the registers (section on disagreements).  Four reserved registers, one saved
and three temporaries are what the sources name and `regmove` can reach.  The sources
have labels before and after macros with labels of their own, branches the machine has
the other way round, positive and negative offsets, both tapes, and ends without an
answer.  *Reduction*: two bits of row number and two of column number have rows and
columns that carry and others that do not, so all four cosets of the network occur;
none, some or all variables routed changes every layer's number; the third bit gives
the recursion of the Benes network a second level, a wing with repeated columns and
chains of every length.  The instances use a variable other than the first of the next
row: with none, `varId > assignmentSize/2` (constraints.cpp:416) leaves out the tests
of the half of the rows whose next row carries.  *Transforms*: dimension 3 has a level
of each kind, parallel over blocks, parallel inside blocks, and serial, as the number
of threads goes from below to above the number of blocks, and both parities of the
number of levels; a polynomial may fill its space or be shorter, and the space be one
coset or more; butterflies and sorting are linear, so one polynomial with all
coefficients different shows a wrong place.  *Queries*: one, two and three witnesses
with one and two masks fill the width of a row or leave columns over; the places
asked are in several cosets and in blocks that share a pair or not; the tests have a
neighbour at the same point, at the next and past a carry, an auxiliary polynomial and
two constraints combined.

**Deadlock** is checked except where a run ends: the gadgets after one witness, the
machine after the search, the reduction after the witness, the test of a last layer.

**Fairness.**  The local driver and the machine are single threads: weak fairness
of their next-state action says that the thread is scheduled.  In the network each
process has weak fairness of its own; delivery is TCP's, a sent byte can be
received.  Crashes have no fairness.

**Disagreements found.**
- `rs_test`: the test of the last layer for degree bound 2 never moves its mask, so it
  accepts functions that are not "of the form y=ax+b" (queryGenerator.cpp:59) in the
  directions above the second.
- `machine_not`: `flag * (arg1_val + arg2_val)= 0` of CMPE is registered under NOT
  (ALU.cpp:1161); a NOT with result 0 whose operands differ cannot be proved.
- `ali_masks`: `computeUnivariateForPCPP_Witness` counts one mask where the matrix has
  one per repetition (Ali/prover.cpp:445 and :157), so that, when the masks need a wider
  row, it combines entries of other points, and its buffer is shorter than what the
  transform writes.

Others were met while modelling and have no run of their own.  In the model:
- a header split by the transport is decoded from bytes that were not received
  (protocol.cpp:361); `AliNetwork` follows such a reader to its end (`Misframed`);
- where the witness is not kept, `compositionAlg` looks neighbours up by two bits above
  the witness' dimensions and drops the others (BairToAcsp.cpp:212), while the places of
  tests and the carries of the network may have such bits; `LookedUp` does the same, and
  the instances of `ali_queries` have neighbours it finds;
- an immediate offset of SECSEEK also indexes the registers (ALUInputConsistency.cpp:60
  and :137), which `Machine` ends as `undefined`;
- a program whose first instruction gives no result (a store, ANSWER, ERROR, PRINT) ends
  the process by an exception nothing catches (cs2Bair.cpp:191): `ResultMissing`;
- replacing `$z` in the text of `min` and `max` finds it in `$zero`, if that was their
  second operand (zMipsParser.cpp:251), and a number as the last operand becomes `$t0` in
  the first two places, while one with a comma after it is taken for a register
  (zMipsParser.cpp:246): `Replaced`, `WithArgument`;
- `varId > assignmentSize/2` above.

Outside of it: long division takes a divisor's leading coefficient for one although its
inverse is at hand (UnivariatePolynomialGeneral.cpp:201; all callers divide by monic
polynomials).  Constraints that are commented out (ALU.cpp:1008) or that the code never
generates, as the packing of bits in the unpacking mode (gadget.cpp:104) and the boundary
constraint of ANSWER, are not in the model either: that one asks for `max_timestep > 1`
(ALU.cpp:2275), while both callers reset it to 1 and generate the constraints before any
row (executeProtocol.cpp:4 and :17).  `RowsSatisfied` and `WitnessAccepted` are about the
witnesses the program makes.

## 4. Proofs

Everything here holds for every value of the constants that their assumptions
allow.  Each safety theorem is a consequence of an inductive invariant, established
by one lemma per action; an invariant a run checks is never inductive alone.
`NaturalLemmas` is what several proofs need: induction over natural numbers (taken
from the library's theorem on minimal elements, with sets for predicates), powers of
two, quotients, positions in rows and blocks, the binary digits of a number, and the
ranks that a total order gives to finitely many things.

**`AliSession_proofs`**, for every number of repetitions and every pair of depths,
from `RepetitionsAssumption` and `DepthAssumption`.  The invariant is

    IInv == TypeOK /\ NeverAborted /\ PhasesInStep /\ MessageComplete
              /\ ProverReady /\ LayersInStep /\ VerifierKeeps

`PhasesInStep` says which pair of phases each position of the loop sees;
`MessageComplete` that a message carries every field its reader will look at;
`ProverReady` that the prover's evaluations exist while they will be asked for;
`LayersInStep` that a FRI prover has built exactly the layers its verifier asked
for, which is what makes filing without a layer number right; `VerifierKeeps` that
what was filed stays.  All invariants of the run follow, and the action property
`CommitmentsFinal`.  `TranscriptOrder` is the refinement: under the mapping by phase
(`MappingByPhase`) each call is one step of `IopTranscript` or none, because a coin a
phase reveals is remembered to have had its commitments filed (`CoinsRemembered`).

**`AliNetwork_proofs`**, for every size of headers, texts, buffers and session
names, with the transport cutting headers or not, with crashes or not
(`WorldsAssumption`, `BytesAssumption`).  The two streams are functions of where the
two programs are, each of them being what was sent and not yet read and what its sender
has still to send (`VerifierStream`, `ProverStream`), so that sending a field changes
neither:

    NetInv == Shapes /\ Lockstep /\ (alive[V] => ToVerifier)
                /\ (alive[P] => ToProver) /\ BeingRead /\ Faithful /\ Decision /\ InStep

`Lockstep` says which program positions go together, `ToVerifier` and `ToProver` what
is under way to a party that may still read it, `BeingRead` what of a message is
already in the buffer, `Faithful` that the fields chosen by the tag are those the
message has.  Every call of a handler is a step of `AliSession` with both parties'
variables (`LocalImplemented`), so the invariant of the local driver holds of the two
processes (`SessionInherited`).

**`MatrixCommitment_proofs`**, first about the builders, for every size, number of
segments and schedule of tasks and iterations.  `IInv` says for every place of the heap (`HeapInv`) what it holds
given the row each task is in and the iterations it has done, and for every block of
the buffer hashed in place (`BufferInv`) whether it holds a digest of the height
below, one moved next to its twin, or their hash.  `HeightsDefined` shows by
induction that the recursive tree exists.

On top of it, for any set of queried blocks:
`MatrixInv` adds to the builders' invariant what paths, answers and views hold from
one stage to the next.  The shape of an answer is never sent; it is given in closed
form (`Above`, `Explicit`), and both the places the prover keeps and those the
verifier rebuilds from the blocks it asked for are shown to be it (`ShapesOfParties`),
so honest answers are accepted (`Completeness`).  `Extraction` assumes nothing of the
hash: an accepted answer is the committed data, or the digests the verifier computed
contain two pairs with one hash.  `Binding` draws the conclusion under
`CollisionFree`.  `ReadsOfCommitment` needs `DigestsTellable`: that no digest looks
like memory nobody wrote.  The terms the run takes for digests satisfy both.

**`FriProof_proofs`**, for every dimension, degree bound, number of paths and columns
and for rows on either side of a position (`InstancesAssumption`, and
`GarbageAssumption`: a wrong value is none of the right ones).  The invariant is

    IInv == TreeInv /\ QueriesInv /\ LayersInv /\ AnswersInv /\ (stages)

`RowsOfSpace` shows, bit by bit, that both parties number the elements of a row alike
in any layer; hence a layer folded from right values holds right values
(`LayerFolded`, in `LayersInv`); requests, commitments and evaluations differ by one
layer at most (`AtLevel`); and each place a test reads is asked for exactly once
(`PlacesTold`), so that what it holds at the end is what the test expects
(`AnswersInv`).  `Acceptance`, `Connection` and `Protection` are the run's invariants.

**`Gadgets_proofs`**, for words of every length of at least three bits.  A word is
taken apart into the sums of its bits from 0 up (`FoldExists`, `FoldSum`, `PackParts`:
the fold over a set gives the same sum whatever element it takes first).  Then the
constraints are followed along the word: a carry is what the sum below it is too large
by (`AdditionDetermines`), a flag is the order of what lies above it
(`ComparisonDetermines`), a power is the product with what lies above it
(`MultiplicationDetermines`), in two's complement where the top bit counts negatively.
So `Determined` says that whatever satisfies the constraints is the relation `Alu`
uses in their place, and `Filled` that the witness procedures do satisfy them.

**`Machine_proofs`**, for words of every length that is a power of two, for every
program whose registers exist, every tape and every search (`MachineAssumption`,
`RunsAssumption`).  First the arithmetic unit: for every opcode, operand and result left
by the row before, what `Witness` gives is a row of words, and `Satisfied` holds of it
(`UnitCompletes`), except for what `Refused` names, the finding of `machine_not`.  Then
the table:

    Sound == Started /\ mode \in Modes /\ Typed /\ Chained /\ Begun

`Chained` says of every row that it was made from the line its instruction stands in and
that its constraints hold with the row after it.  That is stronger than `RowsSatisfied`,
which looks at the last row only; it has to be shown again when a row gets a successor,
whose line differs from the one the row was made with in the tape's register, and when
memory rows are written over (`SameRowsAlike`).  `RowsComplete` and `WitnessesAccepted`
keep two conditions in their statement, as the rows of a program may break them
(`Agrees`): a jump that is taken names a line that the program counter has bits for, and
no row is a refused NOT.  For `WitnessesAccepted` the invariant is

    Consistent == Sound /\ Remembered /\ Loaded /\ Held /\ Linkage /\ Concluded

`Remembered` ties the protoboard's memory to the last row at each address, `Loaded` a
load to the row before it at its address, `Held` keeps the machine at its answer, so
that the last row is no memory row.  `SortedTable` shows that ranking the rows by
`sortMemoryInfo` gives each a place of its own (`OrderRanks`); then neighbours in the
sorted trace have nothing between them, which is what `Loaded` needs for the pair to
satisfy the memory constraints (`LinkedPairs`), so that the assertion never fails; and
following the links from any row comes through all of them (`RoundTheList`).

**`BairToAcsp_proofs`**, for every instance and every permutation of its rows.  A
permutation of a finite set is one to one (`OntoOneWay`), and the powers of x name every
place but zero once (`Placing2`, `Placing3`, `Placing4`, from the recursion of
`PowerOfX`), so what `mapChi` hands to the router reaches every row of the network once
(`RoutedOneToOne`).  From there the router's own steps carry the argument:

    RouteInv == permutation one to one /\ outer columns as constructBenes left them
                /\ Network(...)
    Network  == StackOf /\ Wires /\ (inside a call) Running

`Wires` says of every level that is ready that each packet is there once, that blocks of
the level hold the same packets in both butterflies, and that the level below it, where
ready too, differs by crossing pairs of rows.  `StackOf` says that the calls left have
rows of their own, in order; that is why `find`, which looks in the whole column, zeros
and all, comes upon the right row first (`FoundRow`).  `Running` says of the call that
runs that the rows routed so far went up on one side and down on the other, consistently
in both outer columns (`Placed`), and that the next row is the end of the only open
chain of pairs (`Open`); without `Open` the loop could start a second chain and meet
it halfway with both rows of a pair sent up.  A call that ends turns all of that into
`Wires` one level down for its two halves (`AllPlaced`, `SplitStack`, `WiresDone`).
Then reading: through `btrflyToDebruijn`, the long network's repeated column and the
fold, column l of a wing is level k - l of a butterfly in turned rows, then the last
level (`Reads`), and a change of one bit in a turned row is the second edge of the De
Bruijn graph (`RowMoves`).  Up to `RouteKeeps` this is proved for every degree k; the
length of the wings (`Widths`) and the places are for the degrees of
`InstancesAssumption`, those the model has a primitive polynomial for.

The second half of the module is about the places.  The bits of a row, of a column and
of a layer lie side by side in a place (`Spot`), and adding places adds them part by
part (`SpotPlus`), so the argument never goes back to single bits.  Numbers below 2^31
are told apart by their bits (`BitsOneWay`), hence layers of the network, columns and
layers outside of it, and rows (`NetworkLayer`, `OutsideOneWay`, `PointsOneWay`); that
needs `PlacesAssumption`, that a row has no more variables than fit.  What the two
writers leave is then read back cell by cell (`ChiRead`, `DataRead`, `BitRead`), because
no place is written twice with different values and neither writes on a layer of the
other (`NetOneValue`, `LayersApart`).  The invariant follows the stages:

    ReductionInv == NetworkInv /\ Common /\ mapping as written up to this stage
                    /\ permutation = permToRout(pi)

`Common` is what both reductions start from.  From it, `RowsRead`: a neighbour of the
same row moves by a column (`CurrentRead`), of the row the permutation names reads the
second wing's first column, which `Delivery` says holds it (`NamedRead`), and of the
next row multiplies by x, with the carry exactly in the half of the rows that has it
(`NextRead`, `HalfOfRow`).  `RoutingTested`: a place a test of the network is made at is
a node that has a next column (`NodePoint`), the coset tells whether row and column
carry (`CosetCarries`), and with these carries the two edge polynomials lead to the two
nodes it has edges to (`EdgePoint`), so the test is what `Delivers` says.  `RowsTested`:
the rows of a test are a coset of labels (`CosetOfRows`), the auxiliary polynomials take
out zero and the last row, x^-1 (`LeftOut`, `LastPlace`), the two halves are told apart
by their top bit (`HalfCoset`), and no other test's coset has the same column and layer
(`OtherKind`, `NotRouting`).  Its hypothesis is `usesVarFromNextLine`: otherwise the
half with carry is not tested at all, and `EveryRowTested` is false.

**How the modules are written for it.**  The project declares no RECURSIVE operator:
recursion is a recursive function or a fold.  A set of numbers is put in order by
counting (`InOrder`), not by sorting.  Functions changed at one place are spelled
out (`Overlay`, `Answered`, `Stored`) where the provers do not know `@@`.

**Only model-checked.**  Liveness (`Termination`, `HangUpNoticed`, `NoneWaits`), which
is out of the prover's reach.  `SourceMeaning`, the transforms (`TransformsRight`,
`IterationsIndependent`) and the ALI queries (`WitnessAnswersAgree`,
`CompositionAnswersAgree`) have not been attempted: they are about the values of
recursive functions over lists of lines, columns and coefficients.

## 5. Not modelled

The GPU code, and of the algebra library multivariate polynomials, mappings and
matrices (used for constraint systems the model takes as data); the command line,
printing, annotation of constraints and progress display; the ZeroJava compiler (a
submodule); the vendored libraries; the probability of acceptance of what a prover that
does not follow the protocol sends; in the reduction, the interpolation of the witness
and the network classes it does not use (`FoldNetwork`, the bit reversal and the other
De Bruijn networks).  The progress display is a second thread that polls the plain
bool `doStatusLoop` (`protocol.cpp:292`), a data race on which nothing of the protocol
depends.

## 6. Plan

Done: the front end, the machine, the reduction and its routing network, the algebra of
the ALI parties and the transforms under it, the protocol (parties, drivers, network),
the commitments, FRI and the gadgets, with the theorems of section 4 about the protocol,
the commitments, FRI, the gadgets, the machine, the routing network and the reduction.
Left: the transforms, region by region, and the macros of the front end.
