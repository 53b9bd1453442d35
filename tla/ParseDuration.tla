---------------------------- MODULE ParseDuration ----------------------------
(***************************************************************************)
(* tabletest/parse_duration.go.  A text is a sequence of digits, of ".",   *)
(* "+" and "-", and of other characters; an int64 is a number of PDBits    *)
(* bits with its sign.                                                     *)
(***************************************************************************)
EXTENDS Integers, Sequences, SequencesExt

CONSTANTS
  PDTexts,  \* arguments
  PDUnits,  \* unitMap: from a sequence of other characters to its nanoseconds
  PDBits    \* the bits of an int64 beside its sign: 63

ASSUME PDAssumption == PDBits \in Nat \ {0}

VARIABLES
  pdText,    \* orig
  pdRest,    \* s
  pdNeg,     \* neg
  pdSum,     \* d
  pdPc,      \* "call", "loop" or "done"
  pdResult   \* what ParseDuration returns, <<>> for an error

pdvars == <<pdText, pdRest, pdNeg, pdSum, pdPc, pdResult>>

PDMax == 2 ^ PDBits - 1
PDWrap(n) == ((n + PDMax + 1) % (2 * PDMax + 2)) - (PDMax + 1)
PDDigits == {"0", "1", "2", "3", "4", "5", "6", "7", "8", "9"}
PDDigit(c) ==
  (CHOOSE i \in 1..10 : <<"0", "1", "2", "3", "4", "5", "6", "7", "8", "9">>[i] = c) - 1
PDNumeric == PDDigits \union {"."}

PDInit ==
  /\ pdText = <<>> /\ pdRest = <<>> /\ pdNeg = FALSE /\ pdSum = 0
  /\ pdPc = "call" /\ pdResult = <<>>

\* The length of the longest start of s that lies in S.
PDSpan(s, S) ==
  CHOOSE n \in 0..Len(s) :
    (\A i \in 1..n : s[i] \in S) /\ (n = Len(s) \/ s[n + 1] \notin S)

\* Mutant: only the product by ten is checked.
PDLeadingIntUnchecked(digits) ==
  FoldLeft(LAMBDA x, c : IF x = -1 \/ x > PDMax \div 10 THEN -1 ELSE (x * 10 + PDDigit(c)) % (PDMax + 1),
           0, digits)

\* leadingInt: -1 for an overflow.
PDLeadingInt(digits) ==
  FoldLeft(LAMBDA x, c : IF x = -1 \/ x > PDMax \div 10 \/ PDWrap(x * 10 + PDDigit(c)) < 0
                         THEN -1 ELSE x * 10 + PDDigit(c), 0, digits)

\* leadingFraction: digits past the overflow are passed over.
PDLeadingFraction(digits) ==
  FoldLeft(LAMBDA acc, c :
             IF acc.overflow \/ acc.x > PDMax \div 10 \/ PDWrap(acc.x * 10 + PDDigit(c)) < 0
             THEN [acc EXCEPT !.overflow = TRUE]
             ELSE [acc EXCEPT !.x = @ * 10 + PDDigit(c), !.scale = @ * 10],
           [x |-> 0, scale |-> 1, overflow |-> FALSE], digits)

\* int64(float64(f) * (float64(unit) / scale)): the quotient is exact when scale
\* divides unit, and may round otherwise.
PDFractions(f, unit, scale) ==
  LET exact == (f * unit) \div scale IN
  IF unit % scale = 0 THEN {exact} ELSE {exact - 1, exact, exact + 1} \intersect Nat
-----------------------------------------------------------------------------
PDParse ==
  /\ pdPc = "call"
  /\ pdText' \in PDTexts
  /\ LET signed == pdText' # <<>> /\ pdText'[1] \in {"-", "+"}
         rest == IF signed THEN Tail(pdText') ELSE pdText'
     IN /\ pdNeg' = (signed /\ pdText'[1] = "-")
        /\ pdRest' = rest
        /\ pdResult' = IF rest = <<"0">> THEN <<0>> ELSE <<>>
        /\ pdPc' = IF rest \in {<<"0">>, <<>>} THEN "done" ELSE "loop"
  /\ UNCHANGED pdSum

PDFail == pdPc' = "done" /\ UNCHANGED <<pdText, pdRest, pdNeg, pdSum, pdResult>>

\* The parts of one turn of the loop: digits, a period with digits, a unit.
PDPre == PDSpan(pdRest, PDDigits)
PDPeriod == PDPre < Len(pdRest) /\ pdRest[PDPre + 1] = "."
PDAfter == SubSeq(pdRest, PDPre + 2, Len(pdRest))
PDPost == IF PDPeriod THEN PDSpan(PDAfter, PDDigits) ELSE 0
PDFraction == PDLeadingFraction(SubSeq(PDAfter, 1, PDPost))
PDValue == PDLeadingInt(SubSeq(pdRest, 1, PDPre))
PDSuffix == SubSeq(pdRest, PDPre + (IF PDPeriod THEN 1 + PDPost ELSE 0) + 1, Len(pdRest))
PDUnitEnd == CHOOSE n \in 0..Len(PDSuffix) :
               (\A i \in 1..n : PDSuffix[i] \notin PDNumeric)
                 /\ (n = Len(PDSuffix) \/ PDSuffix[n + 1] \in PDNumeric)
PDUnitName == SubSeq(PDSuffix, 1, PDUnitEnd)

PDMalformed ==
  \/ pdRest[1] \notin PDNumeric
  \/ PDPre = 0 /\ PDPost = 0
  \/ PDUnitName \notin DOMAIN PDUnits

PDTermOverflows ==
  PDValue = -1 \/ PDValue > PDMax \div PDUnits[PDUnitName]

PDTerm ==
  /\ pdPc = "loop" /\ pdRest # <<>>
  /\ IF PDMalformed \/ PDTermOverflows THEN PDFail
     ELSE \E fraction \in IF PDFraction.x > 0
                          THEN PDFractions(PDFraction.x, PDUnits[PDUnitName], PDFraction.scale)
                          ELSE {0} :
            LET v == PDWrap(PDValue * PDUnits[PDUnitName] + fraction)
                d == PDWrap(pdSum + v)
            IN IF v < 0 \/ d < 0 THEN PDFail
               ELSE /\ pdSum' = d
                    /\ pdRest' = SubSeq(PDSuffix, PDUnitEnd + 1, Len(PDSuffix))
                    /\ UNCHANGED <<pdText, pdNeg, pdPc, pdResult>>

PDReturn ==
  /\ pdPc = "loop" /\ pdRest = <<>>
  /\ pdResult' = <<IF pdNeg THEN -pdSum ELSE pdSum>>
  /\ pdPc' = "done"
  /\ UNCHANGED <<pdText, pdRest, pdNeg, pdSum>>

PDNext == PDParse \/ PDTerm \/ PDReturn
-----------------------------------------------------------------------------
\* The terms of a text by the comment at tabletest/parse_duration.go:75, as the
\* places where they end.
PDTermAt(s) ==
  \E pre \in 0..Len(s), post \in -1..Len(s) :
    LET start == pre + post + 1 IN
    /\ pre + (IF post = -1 THEN 0 ELSE post) > 0 /\ start < Len(s)
    /\ \A i \in 1..pre : s[i] \in PDDigits
    /\ post >= 0 => s[pre + 1] = "." /\ \A i \in pre + 2..start : s[i] \in PDDigits
    /\ SubSeq(s, start + 1, Len(s)) \in DOMAIN PDUnits

PDDecimal(digits) == FoldLeft(LAMBDA x, c : x * 10 + PDDigit(c), 0, digits)

\* The value of a term, in nanoseconds, rounded down.
PDExact(s) ==
  LET pre == PDSpan(s, PDDigits)
      post == IF s[pre + 1] = "." THEN PDSpan(SubSeq(s, pre + 2, Len(s)), PDDigits) ELSE -1
      unit == PDUnits[SubSeq(s, pre + post + 2, Len(s))]
  IN PDDecimal(SubSeq(s, 1, pre)) * unit
       + IF post < 1 THEN 0
         ELSE (PDDecimal(SubSeq(s, pre + 2, pre + post + 1)) * unit) \div (10 ^ post)

PDBody == IF pdText[1] \in {"-", "+"} THEN Tail(pdText) ELSE pdText

\* tabletest/parse_duration.go:75: a text is accepted when it is a sequence of
\* terms whose sum fits, and the result is that sum, up to a nanosecond for each
\* fraction; everything else is an error, and no sum wraps around.
PDSumsRight ==
  pdPc = "done" /\ pdText # <<>> =>
    LET body == PDBody
        piece(cuts, i) ==
          SubSeq(body, 1 + (IF i = 1 THEN 0 ELSE cuts[i - 1]), cuts[i])
        splits == {cuts \in {SetToSortSeq(S, <) : S \in SUBSET DOMAIN body} :
                     cuts # <<>> /\ Last(cuts) = Len(body)
                       /\ \A i \in DOMAIN cuts : PDTermAt(piece(cuts, i))}
    IN
    IF body = <<"0">> THEN pdResult = <<0>>
    ELSE IF splits = {} THEN pdResult = <<>>
    ELSE LET cuts == CHOOSE c \in splits : TRUE
             exact == FoldLeft(+, 0, [i \in DOMAIN cuts |-> PDExact(piece(cuts, i))])
             slack == Len(SelectSeq(body, LAMBDA c : c = "."))
             sign == IF pdText[1] = "-" THEN -1 ELSE 1
         IN \/ pdResult = <<>> /\ exact + slack > PDMax
            \/ /\ pdResult # <<>> /\ exact - slack <= PDMax
               /\ sign * pdResult[1] \in exact - slack..exact + slack
=============================================================================
