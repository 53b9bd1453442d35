------------------------------- MODULE IPRange -------------------------------
(***************************************************************************)
(* iprange: the lexer of lex.go, the table-driven parser of y.go, and the  *)
(* expansion of ranges of funcs.go.  A text is a sequence of characters in *)
(* which a run of digits is one symbol; an address is a 4-tuple of bytes.  *)
(* Bytes that are no UTF-8 are left out: the lexer passes over them.       *)
(***************************************************************************)
EXTENDS Integers, Sequences, FiniteSets, SequencesExt

CONSTANTS
  IPTexts,    \* arguments of ParseList
  IPNumber,   \* the number of each run of digits
  IPTooBig,   \* the least number that does not parse: 2^32
  IPMaxIPs    \* bound: longer expansions are not computed

ASSUME IPAssumption == IPTooBig \in Nat /\ IPMaxIPs \in Nat

VARIABLES
  ipText,   \* in
  ipLine,   \* line, what the lexer has not read
  ipLook,   \* the lookahead: its token, -1 for none, and lval.num, the last number read
  ipStack,  \* ipS up to ipp
  ipOutput, \* output of the lexer
  ipPc,     \* "call", "parse", then "ok", "error" or "panic"
  ipIPs     \* the expansion of output, <<>> until it is computed

ipvars == <<ipText, ipLine, ipLook, ipStack, ipOutput, ipPc, ipIPs>>

Byte == 256
IPZero == <<0, 0, 0, 0>>
IPNoValue == [num |-> 0, oct |-> <<0, 0>>, min |-> IPZero, max |-> IPZero, result |-> <<>>]
IPNoLook == [token |-> -1, num |-> 0]
IPNone(look) == [look EXCEPT !.token = -1]
IPEnd == 1    \* the tokens of y.go
IPUnknown == 3
IPNumToken == 4

\* The tables of goyacc, from index 0.
IPAct == <<4, 5, 12, 20, 2, 10, 6, 18, 11, 14, 9, 17, 16, 13, 15, 8, 1, 7, 3, 19, 0, 21>>
IPPact == <<-3, 5, -1000, -2, 0, -8, -1000, -1000, -3, 3, 10, -3, 7, -1000, -1000, -1000,
            -1, -1000, -3, -5, -3, -1000>>
IPPgo == <<0, 18, 4, 0, 17, 16, 15>>
IPR1 == <<0, 5, 5, 6, 6, 2, 2, 1, 3, 3, 3, 4>>
IPR2 == <<0, 1, 3, 1, 2, 3, 1, 7, 1, 1, 1, 3>>
IPChk == <<-1000, -5, -2, -1, -3, 4, 9, -4, -6, 5, 7, 8, 10, -2, 6, 4, -3, 4, 8, -3, 8, -3>>
IPDef == <<0, -2, 1, 6, 0, 8, 9, 10, 0, 3, 0, 0, 0, 2, 4, 5, 0, 11, 0, 0, 0, 7>>
IPTok1 == [c \in {",", " ", "/", ".", "*", "-"} |->
             CASE c = "," -> 5 [] c = " " -> 6 [] c = "/" -> 7
               [] c = "." -> 8 [] c = "*" -> 9 [] c = "-" -> 10]
IPTok2 == [c \in {"U+E000", "U+E001", "U+E002"} |->
             CASE c = "U+E000" -> 2 [] c = "U+E001" -> 3 [] c = "U+E002" -> 4]
IPExca == <<-1, 1, 1, -1, -2, 0>>
IPFlag == -1000
IPErrCode == 2
IPAt(table, i) == table[i + 1]
IPLast == Len(IPAct)

IPInit ==
  /\ ipText = <<>> /\ ipLine = <<>> /\ ipLook = IPNoLook /\ ipStack = <<>>
  /\ ipOutput = <<>> /\ ipPc = "call" /\ ipIPs = <<>>
-----------------------------------------------------------------------------
(* The lexer.                                                              *)

\* iplex1: a character outside the grammar is unknown, but those that Unicode leaves
\* to private use are the numbers of the grammar's own tokens.
IPToken(c) ==
  CASE c = "NUL" -> IPEnd
    [] c \in DOMAIN IPTok1 -> IPTok1[c]
    [] c \in DOMAIN IPTok2 -> IPTok2[c]
    [] OTHER -> IPUnknown

\* Lex, byte and next: what they make of the line, and the rest of it.  A number is cut
\* to a byte; one that does not parse is the end, as a NUL is, and a NUL behind a number
\* is passed over.  Every other character leaves the last number in lval.
IPLex(line, num) ==
  CASE line = <<>> -> [look |-> [token |-> IPEnd, num |-> num], rest |-> <<>>]
    [] line # <<>> /\ line[1] \in DOMAIN IPNumber ->
         LET n == IPNumber[line[1]]
             rest == Tail(line)
         IN [look |-> IF n >= IPTooBig THEN [token |-> IPEnd, num |-> num]
                      ELSE [token |-> IPNumToken, num |-> n % Byte],
             rest |-> IF rest # <<>> /\ rest[1] = "NUL" THEN Tail(rest) ELSE rest]
    [] line # <<>> /\ line[1] \notin DOMAIN IPNumber ->
         [look |-> [token |-> IPToken(line[1]), num |-> num], rest |-> Tail(line)]

\* The lookahead, which is read when the parser needs one.
IPLookahead == IF ipLook.token = -1 THEN IPLex(ipLine, ipLook.num)
               ELSE [look |-> ipLook, rest |-> ipLine]
-----------------------------------------------------------------------------
(* The parser.                                                             *)

IPState == Last(ipStack).state
IPPush(stack, state, value) == Append(stack, [state |-> state, value |-> value])

\* The start of the parser: state 0 is on the stack and nothing is read.
IPNewParser == ipStack' = IPPush(<<>>, 0, IPNoValue) /\ ipLook' = IPNoLook

\* ParseList.
IPParseList ==
  /\ ipPc = "call"
  /\ ipText' \in IPTexts /\ ipLine' = ipText'
  /\ IPNewParser
  /\ ipPc' = "parse"
  /\ UNCHANGED <<ipOutput, ipIPs>>

\* Parse: the first range of the list.
IPParse == IF ipPc = "ok" THEN <<Head(ipOutput)>> ELSE <<>>

\* The state that the token is shifted to, 0 when it is not.
IPShiftTo(token) ==
  LET n == IPAt(IPPact, IPState) + token IN
  IF IPAt(IPPact, IPState) <= IPFlag \/ n < 0 \/ n >= IPLast THEN 0
  ELSE IF IPAt(IPChk, IPAt(IPAct, n)) = token THEN IPAt(IPAct, n) ELSE 0

\* A simple state needs no lookahead.
IPShift ==
  /\ ipPc = "parse" /\ IPAt(IPPact, IPState) > IPFlag
  /\ LET look == IPLookahead.look IN
       /\ IPShiftTo(look.token) # 0
       /\ ipStack' = IPPush(ipStack, IPShiftTo(look.token), [IPNoValue EXCEPT !.num = look.num])
  /\ ipLine' = IPLookahead.rest
  /\ ipLook' = IPNone(IPLookahead.look)
  /\ UNCHANGED <<ipText, ipOutput, ipPc, ipIPs>>

\* The default action of a state after which no shift is possible.
IPDefaultLook ==
  IF IPAt(IPPact, IPState) > IPFlag THEN IPLookahead ELSE [look |-> ipLook, rest |-> ipLine]
IPDefault == IPAt(IPPact, IPState) > IPFlag => IPShiftTo(IPLookahead.look.token) = 0

\* What ipExca says: the pairs of a token and an action that follow <<-1, state>>, up to
\* the one with a negative token.
IPException(state, token) ==
  LET pairs == [i \in 1..Len(IPExca) \div 2 |-> <<IPAt(IPExca, 2 * i - 2), IPAt(IPExca, 2 * i - 1)>>]
      from == 1 + CHOOSE i \in DOMAIN pairs : pairs[i] = <<-1, state>>
      stops == {i \in from..Len(pairs) : pairs[i][1] < 0 \/ pairs[i][1] = token}
  IN pairs[CHOOSE i \in stops : \A j \in stops : i <= j][2]

\* A negative action: accept.
IPAccept ==
  /\ ipPc = "parse" /\ IPDefault /\ IPAt(IPDef, IPState) = -2
  /\ IPException(IPState, IPDefaultLook.look.token) < 0
  /\ ipPc' = "ok"
  /\ UNCHANGED <<ipText, ipLine, ipLook, ipStack, ipOutput, ipIPs>>

\* No state of the tables shifts the token error: the stack is popped until it is
\* empty.
IPError ==
  /\ ipPc = "parse" /\ IPDefault
  /\ \/ IPAt(IPDef, IPState) = 0
     \/ IPAt(IPDef, IPState) = -2 /\ IPException(IPState, IPDefaultLook.look.token) = 0
  /\ \A i \in DOMAIN ipStack :
       LET n == IPAt(IPPact, ipStack[i].state) + IPErrCode IN
       n >= 0 /\ n < IPLast => IPAt(IPChk, IPAt(IPAct, n)) # IPErrCode
  /\ ipPc' = "error"
  /\ ipStack' = <<>>
  /\ UNCHANGED <<ipText, ipLine, ipLook, ipOutput, ipIPs>>

\* The bits of octet i that a mask of n bits leaves free.
IPFree(n, i) == 2 ^ (IF n >= 8 * i THEN 0 ELSE IF n <= 8 * (i - 1) THEN 8 ELSE 8 * i - n)

IPMasked(min, n) == [i \in 1..4 |-> min[i] - (min[i] % IPFree(n, i))]


IPNetwork(value, min, n) ==
  [value EXCEPT !.min = IPMasked(min, n),
                !.max = [i \in 1..4 |-> IPMasked(min, n)[i] + IPFree(n, i) - 1]]

\* The value of a reduction by production p of the values vs.
IPValue(p, vs) ==
  CASE p = 1 -> [vs[1] EXCEPT !.result = Append(@, <<vs[1].min, vs[1].max>>)]
    [] p = 2 -> [vs[1] EXCEPT !.result = Append(@, <<vs[3].min, vs[3].max>>)]
    [] p = 5 -> IPNetwork(vs[1], vs[1].min, vs[3].num)
    [] p = 7 -> [vs[1] EXCEPT !.min = [i \in 1..4 |-> vs[2 * i - 1].oct[1]],
                              !.max = [i \in 1..4 |-> vs[2 * i - 1].oct[2]]]
    [] p = 8 -> [vs[1] EXCEPT !.oct = <<vs[1].num, vs[1].num>>]
    [] p = 9 -> [vs[1] EXCEPT !.oct = <<0, Byte - 1>>]
    [] p = 11 -> [vs[1] EXCEPT !.oct = <<vs[1].num, vs[3].num>>]
    [] OTHER -> vs[1]

\* The state after a reduction, by the goto table.
IPGoto(p, below) ==
  LET lhs == IPAt(IPR1, p)
      g == IPAt(IPPgo, lhs)
      j == g + below + 1
  IN IF j < IPLast /\ IPAt(IPChk, IPAt(IPAct, j)) = -lhs THEN IPAt(IPAct, j)
     ELSE IPAt(IPAct, g)

\* net.CIDRMask of more than 32 bits is nil, and Uint32 of it panics.
IPNilMask(p, vs) == p = 5 /\ vs[3].num > 32

IPReduce ==
  /\ ipPc = "parse" /\ IPDefault /\ IPAt(IPDef, IPState) > 0
  /\ LET p == IPAt(IPDef, IPState)
         len == IPAt(IPR2, p)
         rest == SubSeq(ipStack, 1, Len(ipStack) - len)
         vs == [i \in 1..len |-> ipStack[Len(rest) + i].value]
     IN
     /\ ipLook' = IPDefaultLook.look /\ ipLine' = IPDefaultLook.rest
     /\ \/ /\ IPNilMask(p, vs)
           /\ ipPc' = "panic"
           /\ UNCHANGED <<ipStack, ipOutput>>
        \/ /\ ~IPNilMask(p, vs)
           /\ ipStack' = IPPush(rest, IPGoto(p, Last(rest).state), IPValue(p, vs))
           /\ ipOutput' = IF p \in {1, 2} THEN IPValue(p, vs).result ELSE ipOutput
           /\ UNCHANGED ipPc
  /\ UNCHANGED <<ipText, ipIPs>>
-----------------------------------------------------------------------------
(* Expand.                                                                 *)

\* The next mask of streamRange: the last octet below its range rises, those
\* behind it start over.
IPNextMask(mask, range) ==
  LET rising == {i \in 1..4 : mask[i] < range[i]}
      i == CHOOSE i \in rising : \A j \in rising : j <= i
  IN [j \in 1..4 |-> IF j < i THEN mask[j] ELSE IF j = i THEN mask[j] + 1 ELSE 0]

IPRangeMask(r) == [i \in 1..4 |-> (r[2][i] - r[1][i]) % Byte]
IPCount(r) ==
  LET mask == IPRangeMask(r)
      last == (mask[3] + 1) * (mask[4] + 1)
  IN IF mask[1] > 0 \/ mask[2] > 0 THEN IPMaxIPs + 1 ELSE last

\* streamRange and Expand of one range.
IPExpand(r) ==
  LET masks == FoldLeft(LAMBDA ms, k : IF Last(ms) = IPRangeMask(r) THEN ms
                                       ELSE Append(ms, IPNextMask(Last(ms), IPRangeMask(r))),
                        <<IPZero>>, [k \in 1..IPCount(r) |-> k])
  IN [k \in DOMAIN masks |-> [i \in 1..4 |-> (r[1][i] + masks[k][i]) % Byte]]

IPLess(a, b) == \E i \in 1..4 : a[i] < b[i] /\ \A j \in 1..i - 1 : a[j] = b[j]

\* normalize: sorted, each address once.
IPNormalize(src) ==
  LET sorted == SortSeq(src, IPLess) IN
  FoldLeft(LAMBDA dst, ip : IF dst # <<>> /\ Last(dst) = ip THEN dst ELSE Append(dst, ip),
           <<>>, sorted)

IPExpandList ==
  /\ ipPc = "ok" /\ ipIPs = <<>>
  /\ \A i \in DOMAIN ipOutput : IPCount(ipOutput[i]) <= IPMaxIPs
  /\ ipIPs' = IPNormalize(FlattenSeq([i \in DOMAIN ipOutput |-> IPExpand(ipOutput[i])]))
  /\ UNCHANGED <<ipText, ipLine, ipLook, ipStack, ipOutput, ipPc>>

IPNext == IPParseList \/ IPShift \/ IPReduce \/ IPAccept \/ IPError \/ IPExpandList
-----------------------------------------------------------------------------
(* What the formats of iprange/README.md mean.                             *)

IPNumeral(x) == x \in DOMAIN IPNumber /\ IPNumber[x] < Byte
IPIsMask(x) == x \in DOMAIN IPNumber /\ IPNumber[x] <= 32
IPIsOctet(s) ==
  \/ Len(s) = 1 /\ (s[1] = "*" \/ IPNumeral(s[1]))
  \/ Len(s) = 3 /\ IPNumeral(s[1]) /\ s[2] = "-" /\ IPNumeral(s[3])

\* The octets and the mask of a target, if s is one.
IPReadings(s) ==
  LET start(lens, i) == FoldLeft(+, i, SubSeq(lens, 1, i - 1))
      octet(lens, i) == SubSeq(s, start(lens, i), start(lens, i) + lens[i] - 1)
      fits(lens, m) ==
        /\ Len(s) = start(lens, 4) + lens[4] - 1 + m
        /\ \A i \in 1..4 : IPIsOctet(octet(lens, i))
        /\ \A i \in 2..4 : s[start(lens, i) - 1] = "."
        /\ m = 2 => s[Len(s) - 1] = "/" /\ IPIsMask(Last(s))
      lengths == {<<a, b, c, d>> : a, b, c, d \in {1, 3}}
  IN {[octets |-> [i \in 1..4 |-> octet(lens, i)], mask |-> <<>>] :
        lens \in {lens \in lengths : fits(lens, 0)}}
     \union
     {[octets |-> [i \in 1..4 |-> octet(lens, i)], mask |-> <<IPNumber[Last(s)]>>] :
        lens \in {lens \in lengths : fits(lens, 2)}}

\* The targets of a list: what is between the commas, without a space behind one.
IPTargets(s) ==
  LET cuts == SetToSortSeq({i \in DOMAIN s : s[i] = ","}, <) \o <<Len(s) + 1>>
      from(k) == IF k = 1 THEN 1
                 ELSE IF cuts[k - 1] < Len(s) /\ s[cuts[k - 1] + 1] = " " THEN cuts[k - 1] + 2
                 ELSE cuts[k - 1] + 1
  IN [k \in DOMAIN cuts |-> SubSeq(s, from(k), cuts[k] - 1)]

IPBit(address, k) == (address[k \div 8 + 1] \div 2 ^ (7 - (k % 8))) % 2
IPLow(octet) == IF octet[1] = "*" THEN 0 ELSE IPNumber[octet[1]]
IPHigh(octet) == IF octet[1] = "*" THEN Byte - 1 ELSE IPNumber[Last(octet)]

IPMeans(range, reading) ==
  LET low == [i \in 1..4 |-> IPLow(reading.octets[i])]
      high == [i \in 1..4 |-> IPHigh(reading.octets[i])]
  IN
  IF reading.mask = <<>> THEN range = <<low, high>>
  ELSE \A k \in 0..31 :
         IF k < reading.mask[1] THEN IPBit(range[1], k) = IPBit(low, k) /\ IPBit(range[2], k) = IPBit(low, k)
         ELSE IPBit(range[1], k) = 0 /\ IPBit(range[2], k) = 1

\* The addresses of a range: each octet from its low end on, around 255 if it must.
IPBox(range) ==
  LET octets(i) == {(range[1][i] + k) % Byte : k \in 0..((range[2][i] - range[1][i]) % Byte)}
  IN {<<a, b, c, d>> : a \in octets(1), b \in octets(2), c \in octets(3), d \in octets(4)}

\* The texts that nothing is claimed of: with a NUL, which ends the text for the
\* lexer, with the character of private use that it takes for a number, with a number
\* above 255, which it cuts to a byte or takes for the end, and with a mask above 32,
\* on which ParseList panics, the bug that iprange/README.md:5 asks to have fixed.
IPPlain(s) ==
  /\ ToSet(s) \intersect {"NUL", "U+E002"} = {}
  /\ \A i \in DOMAIN s : s[i] \in DOMAIN IPNumber =>
       IPNumeral(s[i]) /\ (i > 1 /\ s[i - 1] = "/" => IPIsMask(s[i]))

=============================================================================
