----------------------------- MODULE RandomBuffer -----------------------------
(***************************************************************************)
(* RandomBuffer of helpers/helper_generator.h and the operations that draw *)
(* from it (loops/random.h, ops/special_random_ops.h): a ring of random    *)
(* numbers made once from a seed.  An operation reads elements relative to *)
(* the current position, from several threads, and then moves the position *)
(* by as many elements as it takes; each time around is a generation,      *)
(* whose numbers are those of the buffer shifted by its number.            *)
(*                                                                         *)
(* A number is what it is computed from: the seed and the index of the     *)
(* element, and the shifts applied to it.  The loops of an operation only  *)
(* read the buffer, so an operation is one step.  A buffer belongs to one  *)
(* client thread at a time.                                                *)
(***************************************************************************)
EXTENDS Integers, FiniteSets, Sequences

CONSTANTS
  Size,          \* elements of the buffer
  Seeds,         \* seeds a client may choose
  Lengths,       \* lengths of the arrays that are filled
  MaxTrials,     \* bound on the trials of a binomial draw
  MaxRetries,    \* bound on how often a truncated draw tries again
  MaxThreads,    \* omp_get_max_threads()
  MaxGeneration  \* bound on the generations a run goes through

ASSUME RandomAssumption ==
  /\ Size \in Nat \ {0} /\ Seeds \subseteq Nat /\ Lengths \subseteq Nat \ {0}
  /\ MaxTrials \in Nat /\ MaxRetries \in Nat
  /\ MaxThreads \in Nat \ {0} /\ MaxGeneration \in Nat \ {0}

VARIABLES
  contents,    \* the seed the elements were made from
  seed, amplifier, position, generation,
  last,        \* the operation that was the last step
  ahead,       \* how far past the position elements have been read
  retried      \* how far past it truncated draws have tried again

vars == <<contents, seed, amplifier, position, generation, last, ahead,
          retried>>

\* An operation on n results by so many threads.
Op(op, n, threads, trials, retries) ==
  [op |-> op, n |-> n, threads |-> threads, trials |-> trials,
   retries |-> retries]

NoOp == Op("none", 0, 1, 0, 0)

Ops ==
  [op : {"none", "elementwise", "gaussian", "binomial", "truncated", "next"},
   n : Nat, threads : Nat \ {0}, trials : Nat, retries : Nat]

\* Elements gone by since the first generation began, and one buffer more.
Stream == generation * Size + position

Init ==
  /\ contents \in Seeds
  /\ seed = contents /\ amplifier = contents
  /\ position = 0
  /\ generation = 1
  /\ last = NoOp
  /\ ahead = 0 /\ retried = 0

\* Fault: the generation is told from the relative position.
Element_Relative(i) ==
  LET at == position + i
      gen == generation + i \div Size
  IN  [of |-> contents, index |-> at % Size, shifts |->
         (IF gen # generation THEN <<gen>> ELSE <<>>)
         \o (IF generation > 1 THEN <<generation>> ELSE <<>>)
         \o (IF amplifier # seed THEN <<amplifier>> ELSE <<>>)]

\* getElement(i): the number i elements after the position.
Element(i) ==
  LET at == position + i
      gen == generation + at \div Size
  IN  [of |-> contents, index |-> at % Size, shifts |->
         (IF gen # generation THEN <<gen>> ELSE <<>>)
         \o (IF generation > 1 THEN <<generation>> ELSE <<>>)
         \o (IF amplifier # seed THEN <<amplifier>> ELSE <<>>)]

-----------------------------------------------------------------------------
(* Which thread computes which result, and from which elements.            *)

\* What the chunks of an operation run over: a truncated draw computes two
\* results in one round.
Rounds(o) == IF o.op = "truncated" THEN o.n - o.n \div 2 ELSE o.n

\* Rounds of a thread; even for those that draw pairs.
Span(o) ==
  LET span == Rounds(o) \div o.threads + 8
  IN  IF o.op = "binomial" THEN span ELSE span - (span % 2)

\* Fault: a chunk ends with the first round of the next one.
Chunk_Inclusive(o, t) ==
  {e \in 0 .. Rounds(o) - 1 : Span(o) * t <= e /\ e <= Span(o) * (t + 1)}

\* The chunk of thread t: from Span * t up to the next one or the end.
Chunk(o, t) ==
  {e \in 0 .. Rounds(o) - 1 : Span(o) * t <= e /\ e < Span(o) * (t + 1)}

Writers(o, e) == {t \in 0 .. o.threads - 1 : e \in Chunk(o, t)}

\* Where the pair begins that result e of a gaussian draw is computed from: a
\* thread draws a pair for every second result of its chunk.
PairOf(o, e) ==
  LET start == Span(o) * (CHOOSE t \in Writers(o, e) : TRUE)
  IN  e - ((e - start) % 2)

\* The elements that round e reads, relative to the position.  A truncated draw
\* that rejects its values tries again, an array's length further ahead each
\* time.  Whether it does depends on the numbers: o.retries is how often the
\* round does that rejects most, and no round is taken to reject less.
Reads(o, e) ==
  CASE o.op = "elementwise" -> {e}
    [] o.op = "gaussian" -> LET pair == PairOf(o, e) IN {pair, pair + 1}
    [] o.op = "binomial" -> {(e + 1) * t : t \in 1 .. o.trials}
    [] o.op = "truncated" ->
         UNION {{e + k * o.n, e + Rounds(o) + k * o.n} : k \in 0 .. o.retries}
    [] o.op = "next" -> {1}
    [] OTHER -> {}

AllReads(o) == UNION {Reads(o, e) : e \in 0 .. Rounds(o) - 1}

\* Fault: a binomial draw takes one element for each result.
Takes_OnePerResult(o) == o.n

\* The elements an operation takes off the buffer.
Takes(o) == IF o.op = "binomial" THEN o.n * o.trials ELSE o.n

-----------------------------------------------------------------------------

\* Fault: a move of several times around the buffer counts as one.
Rewind_OneRound(n) ==
  LET p == position + n
  IN  IF p < Size
        THEN position' = p /\ UNCHANGED generation
        ELSE position' = p % Size /\ generation' = generation + 1

\* rewindH(n).
Rewind(n) ==
  LET p == position + n
  IN  IF p < Size
        THEN position' = p /\ UNCHANGED generation
        ELSE position' = p % Size /\ generation' = generation + p \div Size

\* How far the furthest of S is ahead after a move of the position.
Ahead(S, moved) ==
  LET T == {x - moved : x \in {y \in S : y > moved}} \cup {0}
  IN  CHOOSE x \in T : \A y \in T : y <= x

\* An operation reads what its rounds read and moves the position; its last
\* retry ends so many arrays' lengths past what it takes.
Draw(o) ==
  /\ Stream + Takes(o) < (MaxGeneration + 1) * Size
  /\ Rewind(Takes(o))
  /\ last' = o
  /\ ahead' = Ahead(AllReads(o) \cup {ahead}, Stream' - Stream)
  /\ retried' = Ahead({Takes(o) + o.retries * o.n, retried},
                       Stream' - Stream)
  /\ UNCHANGED <<contents, seed, amplifier>>

\* As many threads as there are pairs of rounds, at least one and at most what
\* the machine has.
Threads(rounds) ==
  {k \in 1 .. MaxThreads : k = 1 \/ k <= rounds \div 2}

\* The operations without specialOp(), and Choice.
Elementwise(n) == Draw(Op("elementwise", n, 1, 0, 0))

\* GaussianDistribution and LogNormalDistribution.
Gaussian(n, k) == Draw(Op("gaussian", n, k, 0, 0))

\* BinomialDistribution and BinomialDistributionEx.
Binomial(n, k, trials) == Draw(Op("binomial", n, k, trials, 0))

\* TruncatedNormalDistribution; rewindH() does not count the retries.
Truncated(n, k, retries) == Draw(Op("truncated", n, k, 0, retries))

\* getNextElement(): the position moves before the element is read.
NextElement == Draw(Op("next", 1, 1, 0, 0))

\* NativeOps::refreshBuffer(): other elements; the generation stays.
Refresh(s) ==
  /\ contents' = s /\ seed' = s /\ amplifier' = s
  /\ position' = 0
  /\ last' = NoOp
  /\ ahead' = 0 /\ retried' = 0
  /\ UNCHANGED generation

\* NativeOps::reSeedBuffer(): the elements stay and are shifted by s.
ReSeed(s) ==
  /\ amplifier' = s
  /\ last' = NoOp
  /\ UNCHANGED <<contents, seed, position, generation, ahead, retried>>

Next ==
  \/ \E n \in Lengths :
       \/ Elementwise(n)
       \/ \E k \in Threads(n) :
            \/ Gaussian(n, k)
            \/ \E trials \in 0 .. MaxTrials : Binomial(n, k, trials)
       \/ \E k \in Threads(n - n \div 2), retries \in 0 .. MaxRetries :
            Truncated(n, k, retries)
  \/ NextElement
  \/ \E s \in Seeds : Refresh(s) \/ ReSeed(s)

Spec == Init /\ [][Next]_vars

-----------------------------------------------------------------------------
(* Properties.                                                             *)

\* The position never leaves the buffer, so that every element has a place.
TypeOK ==
  /\ contents \in Seeds /\ seed \in Seeds /\ amplifier \in Seeds
  /\ position \in 0 .. Size - 1
  /\ generation \in 1 .. MaxGeneration
  /\ last \in Ops
  /\ ahead \in Nat /\ retried \in Nat

\* However the threads of the machine share an operation out, every result is
\* computed, and by one thread: the chunks leave nothing out at the end of an
\* array and do not overlap.
ChunksPartition ==
  last.op \in {"gaussian", "binomial", "truncated"} =>
    \A e \in 0 .. Rounds(last) - 1 : Cardinality(Writers(last, e)) = 1

\* "we're enforcing even chunks, since it's mandatory for this algorithm": the
\* pair a gaussian result comes from does not depend on how many threads there
\* are; results 2i and 2i+1 share the elements 2i and 2i+1.
PairsAreWhole ==
  last.op = "gaussian" =>
    \A e \in 0 .. last.n - 1 :
      Reads(last, e) = {2 * (e \div 2), 2 * (e \div 2) + 1}

\* rewindH() moves the buffer by what was taken and loses no generation,
\* however often that goes around the buffer.
StreamAdvances ==
  [][last'.op # "none" => Stream' = Stream + Takes(last')]_vars

\* Of the elements still to come only the very next one may have been read
\* before, but for those that a truncated draw read when it tried again: these
\* rewindH() leaves to the next operation (special_random_ops.h:811, 820), an
\* array's length of them for each retry and no more.
OnlyRetriesReadAhead == ahead <= retried

\* Drawing two arrays one after the other gives what drawing them as one would,
\* until the buffer has been used up once: an operation leaves at every place
\* of the buffer that is still to come the number it had.  From the second
\* generation on getElement() shifts twice what it reads ahead, and this ends.
SplitDrawsAgree ==
  [][last'.op # "none" /\ generation = 1 =>
       \A i \in 0 .. 2 * Size :
          generation' = 1 \/ position' + i < Size =>
            Element(i)' = Element(Takes(last') + i)]_vars

===============================================================================
