----------------------------- MODULE GenericSum -----------------------------
(***************************************************************************)
(* genericsum/genericsum.go: slices, the comparisons of maps and of        *)
(* matrices, and MergeChans with its goroutines, on unbuffered channels.   *)
(***************************************************************************)
EXTENDS Integers, Sequences, FiniteSets, Functions, Folds, SequencesExt

CONSTANTS
  GSSlices,   \* slices of numbers
  GSMaps,     \* maps to compare, with 0 for the zero value
  GSMatrices, \* matrices of <<re, im>>
  MGValues,   \* T, the type of what is merged
  MGSources   \* for each channel of chs what its owner sends before it closes it

ASSUME MGAssumption ==
  IsFiniteSet(DOMAIN MGSources) /\ MGSources \in [DOMAIN MGSources -> Seq(MGValues)]

VARIABLES
  gsSlice,  \* a slice before and after it was sorted, an item, and whether it has it
  gsPair,   \* two maps that were compared, and the answer
  gsMatrix, \* a matrix that was checked, and the answer
  mgLeft,   \* what is still to come on each channel
  mgHave,   \* the value that each goroutine is about to send, <<>> for none
  mgPc,     \* "range" or "done" for each of them
  mgWg,     \* the counter of wg
  mgOut,    \* what the receiver of out has got
  mgClosed  \* out is closed

gsvars == <<gsSlice, gsPair, gsMatrix>>
mgvars == <<mgLeft, mgHave, mgPc, mgWg, mgOut, mgClosed>>

GSInit == gsSlice = <<>> /\ gsPair = <<>> /\ gsMatrix = <<>>

\* Min, SortSlice, which sorts in place, and SliceContains.
MinOf(x, y) == IF x < y THEN x ELSE y
SortSlice(s) == SortSeq(s, <)
SliceContains(s, v) == \E i \in DOMAIN s : s[i] = v

GSUseSlice ==
  /\ GSInit
  /\ \E s \in GSSlices, v \in 1..3 : gsSlice' = <<s, SortSlice(s), v, SliceContains(s, v)>>
  /\ UNCHANGED <<gsPair, gsMatrix>>

\* A key that b does not have counts as one with the zero value.
MapsEqual(a, b) ==
  /\ Cardinality(DOMAIN a) = Cardinality(DOMAIN b)
  /\ \A k \in DOMAIN a : (IF k \in DOMAIN b THEN b[k] ELSE 0) = a[k]

GSCompare ==
  /\ GSInit
  /\ \E a, b \in GSMaps : gsPair' = <<a, b, MapsEqual(a, b)>>
  /\ UNCHANGED <<gsSlice, gsMatrix>>

\* Rows are walked through in order, and the first thing that is wrong decides;
\* a row of the right length reaches into one that may be too short: the index is
\* out of range.
IsHermitianMatrix(m) ==
  LET cells == {c \in (DOMAIN m) \X (DOMAIN m) : \A i \in 1..c[1] : Len(m[i]) = Len(m)}
      before(c) == {d \in cells : d[1] < c[1] \/ (d[1] = c[1] /\ d[2] < c[2])}
      fits(c) == c[1] <= Len(m[c[2]])
      agrees(c) == m[c[1]][c[2]] = <<m[c[2]][c[1]][1], -m[c[2]][c[1]][2]>>
      wrong == {c \in cells : ~fits(c) \/ ~agrees(c)}
      first == CHOOSE c \in wrong : before(c) \intersect wrong = {}
  IN
  IF wrong = {} THEN IF \A i \in DOMAIN m : Len(m[i]) = Len(m) THEN "true" ELSE "false"
  ELSE IF fits(first) THEN "false" ELSE "panic"

GSCheckMatrix ==
  /\ GSInit
  /\ \E m \in GSMatrices : gsMatrix' = <<m, IsHermitianMatrix(m)>>
  /\ UNCHANGED <<gsSlice, gsPair>>

GSNext == GSUseSlice \/ GSCompare \/ GSCheckMatrix
-----------------------------------------------------------------------------
\* The least of a slice comes first once it is sorted, the next one is the least of the
\* rest, and it has the items that it had, as often.  Maps are compared right when none
\* of their values is the zero value, and a square matrix of numbers is Hermitian
\* exactly when it is its own conjugate transpose.
GSComparesRight ==
  /\ gsSlice # <<>> =>
       LET sorted == gsSlice[2]
           times(v, s) == Cardinality({i \in DOMAIN s : s[i] = v})
       IN /\ \A i \in DOMAIN sorted :
               sorted[i] = FoldLeft(MinOf, sorted[i], SubSeq(sorted, i, Len(sorted)))
          /\ \A v \in ToSet(gsSlice[1]) \union ToSet(sorted) :
               times(v, gsSlice[1]) = times(v, sorted)
          /\ gsSlice[4] = SliceContains(sorted, gsSlice[3])
  /\ gsPair # <<>> /\ (\A k \in DOMAIN gsPair[1] : gsPair[1][k] # 0) =>
       (gsPair[3] <=> gsPair[1] = gsPair[2])
  /\ gsMatrix # <<>> /\ (\A i \in DOMAIN gsMatrix[1] : Len(gsMatrix[1][i]) = Len(gsMatrix[1])) =>
       (gsMatrix[2] = "true" <=>
          \A i, j \in DOMAIN gsMatrix[1] :
            LET x == gsMatrix[1][i][j]
                y == gsMatrix[1][j][i]
            IN x[1] = y[1] /\ x[2] + y[2] = 0)
-----------------------------------------------------------------------------
MGChans == DOMAIN MGSources

MGInit ==
  /\ mgLeft = MGSources
  /\ mgHave = [c \in MGChans |-> <<>>]
  /\ mgPc = [c \in MGChans |-> "range"]
  /\ mgWg = Cardinality(MGChans)
  /\ mgOut = <<>> /\ mgClosed = FALSE
-----------------------------------------------------------------------------
MGReceive(c) ==
  /\ mgPc[c] = "range" /\ mgHave[c] = <<>> /\ mgLeft[c] # <<>>
  /\ mgHave' = [mgHave EXCEPT ![c] = <<Head(mgLeft[c])>>]
  /\ mgLeft' = [mgLeft EXCEPT ![c] = Tail(@)]
  /\ UNCHANGED <<mgPc, mgWg, mgOut, mgClosed>>

MGSend(c) ==
  /\ mgHave[c] # <<>>
  /\ mgOut' = mgOut \o mgHave[c]
  /\ mgHave' = [mgHave EXCEPT ![c] = <<>>]
  /\ UNCHANGED <<mgLeft, mgPc, mgWg, mgClosed>>

\* The channel is closed: the deferred wg.Done.
MGDone(c) ==
  /\ mgPc[c] = "range" /\ mgHave[c] = <<>> /\ mgLeft[c] = <<>>
  /\ mgPc' = [mgPc EXCEPT ![c] = "done"]
  /\ mgWg' = mgWg - 1
  /\ UNCHANGED <<mgLeft, mgHave, mgOut, mgClosed>>

MGClose ==
  /\ mgWg = 0 /\ ~mgClosed
  /\ mgClosed' = TRUE
  /\ UNCHANGED <<mgLeft, mgHave, mgPc, mgWg, mgOut>>

MGNext ==
  \/ \E c \in MGChans : MGReceive(c) \/ MGSend(c) \/ MGDone(c)
  \/ MGClose
-----------------------------------------------------------------------------
\* How many of the first i values came from the channel c.
MGUpTo(from, c, i) == Cardinality({j \in 1..i : from[j] = c})

\* genericsum/README.md: the merged channel gives the values of the channels, each
\* of them in its own order and none twice; what is sent so far has come out, and
\* that is everything once it is closed.
MGMergeComplete ==
  /\ \E from \in [DOMAIN mgOut -> MGChans] :
       \A c \in MGChans :
         /\ MGUpTo(from, c, Len(mgOut)) = Len(MGSources[c]) - Len(mgLeft[c]) - Len(mgHave[c])
         /\ \A i \in DOMAIN mgOut : from[i] = c => mgOut[i] = MGSources[c][MGUpTo(from, c, i)]
  /\ mgClosed => \A c \in MGChans : mgLeft[c] = <<>> /\ mgHave[c] = <<>>
=============================================================================
