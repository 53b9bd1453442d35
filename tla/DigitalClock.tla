---------------------------- MODULE DigitalClock ----------------------------
(***************************************************************************)
(* digitalclock/main.go: a server that draws a time as an image.  A time   *)
(* is a sequence of characters; a pixel of a bitmap is 1 or 0, and so is   *)
(* one of an image, which has 0 where nothing was drawn.                   *)
(***************************************************************************)
EXTENDS Integers, Sequences, SequencesExt

CONSTANTS
  DCPorts,    \* values of the flag -port
  DCScales,   \* values of k: sequences of one number, 65536 for what is no number of
              \* 16 bits, and <<>> when it is missing
  DCTimes,    \* values of time; <<>> when it is missing
  DCBitmap,   \* int2Syms: a character's rows
  DCHours,    \* the hours that time.Parse takes: sequences of one or two digits
  DCSixty,    \* the minutes and seconds: sequences of two digits
  DCNow       \* the times that time.Now().Format may give

VARIABLES
  dcPort,    \* what GetPort has returned, 0 before
  dcPc,      \* "start", "up", "closing" or "exited"
  dcAsked,   \* the request that is served: <<k, time, handler>>, <<>> for none
  dcReply    \* its answer: [code, time, image]

dcvars == <<dcPort, dcPc, dcAsked, dcReply>>

DCNoReply == [code |-> 0, time |-> <<>>, image |-> <<>>]
DCBad == [code |-> 400, time |-> <<>>, image |-> <<>>]

DCInit == dcPort = 0 /\ dcPc = "start" /\ dcAsked = <<>> /\ dcReply = DCNoReply

\* GetPort, and main: the process ends without a port of 16 bits.
DCMain ==
  /\ dcPc = "start"
  /\ \E port \in DCPorts :
       IF port = 0 \/ port > 65535 THEN dcPc' = "exited" /\ UNCHANGED dcPort
       ELSE dcPort' = port /\ dcPc' = "up"
  /\ UNCHANGED <<dcAsked, dcReply>>
-----------------------------------------------------------------------------
\* time.Parse of the layout 15:04:05, with a fraction of a second after it.
DCParses(time) ==
  \E hour \in DCHours, minute, second \in DCSixty :
    LET whole == hour \o <<":">> \o minute \o <<":">> \o second IN
    /\ Len(time) >= Len(whole) /\ SubSeq(time, 1, Len(whole)) = whole
    /\ LET rest == SubSeq(time, Len(whole) + 1, Len(time)) IN
       \/ rest = <<>>
       \/ Len(rest) > 1 /\ rest[1] = "." /\ \A i \in 2..Len(rest) : rest[i] \in DOMAIN DCBitmap \ {":"}

\* The checks of getDigClock.
DCTimeValid(time) ==
  /\ DCParses(time)
  /\ Len(time) = 8
  /\ \A i \in 1..8 : time[i] \in DOMAIN DCBitmap

DCScaleValid(k) == k # <<>> => k[1] \in 1..30
DCScale(k) == IF k = <<>> THEN 1 ELSE k[1]

DCHeight == Len(DCBitmap["0"])
DCSymW == Len(DCBitmap["0"][1])
DCColonW == Len(DCBitmap[":"][1])
DCWidth(sym) == IF sym = ":" THEN DCColonW ELSE DCSymW

\* GetImage: its width is that of six digits and two colons, and what is set
\* outside of it is dropped.  The symbols are drawn from prevWidth on, each pixel
\* of a bitmap as a square of scale by scale.
DCImage(symbols, scale) ==
  LET from == [n \in 1..Len(symbols) + 1 |->
                 scale * FoldLeft(+, 0, [i \in 1..n - 1 |-> DCWidth(symbols[i])])]
      under(x) == {n \in DOMAIN symbols : from[n] <= x /\ x < from[n + 1]}
      pixel(x, y) ==
        IF under(x) = {} THEN 0
        ELSE LET n == CHOOSE n \in under(x) : TRUE
             IN DCBitmap[symbols[n]][(y \div scale) + 1][((x - from[n]) \div scale) + 1]
  IN [y \in 1..DCHeight * scale |->
        [x \in 1..(6 * DCSymW + 2 * DCColonW) * scale |-> pixel(x - 1, y - 1)]]

\* RunServerWithRouting: the routes, and 404 by gin for everything else.
DCRoute(method, path) ==
  IF method = "GET" /\ path = "/pong" THEN "pongHandler"
  ELSE IF method = "GET" /\ path = "/" THEN "getDigClock" ELSE "404"

DCAsk ==
  /\ dcPc = "up" /\ dcAsked = <<>>
  /\ \E k \in DCScales, time \in DCTimes, method \in {"GET", "POST"}, path \in {"/", "/pong"} :
       dcAsked' = <<k, time, DCRoute(method, path)>>
  /\ UNCHANGED <<dcPort, dcPc, dcReply>>

\* pongHandler, and the answer of gin to a request that has no route.
DCPong ==
  /\ dcAsked # <<>> /\ dcReply = DCNoReply /\ dcPc # "exited"
  /\ dcAsked[3] \in {"pongHandler", "404"}
  /\ dcReply' = [DCNoReply EXCEPT !.code = IF dcAsked[3] = "404" THEN 404 ELSE 200]
  /\ UNCHANGED <<dcPort, dcPc, dcAsked>>

\* getDigClock.
DCGetDigClock ==
  /\ dcAsked # <<>> /\ dcReply = DCNoReply /\ dcPc # "exited"
  /\ dcAsked[3] = "getDigClock"
  /\ \/ /\ ~DCScaleValid(dcAsked[1])
        /\ dcReply' = DCBad
     \/ /\ DCScaleValid(dcAsked[1])
        /\ \E time \in IF dcAsked[2] = <<>> THEN DCNow ELSE {dcAsked[2]} :
             dcReply' = IF DCTimeValid(time)
                        THEN [code |-> 200, time |-> time,
                              image |-> DCImage(time, DCScale(dcAsked[1]))]
                        ELSE DCBad
  /\ UNCHANGED <<dcPort, dcPc, dcAsked>>

\* A signal, and the end of the process while requests may be in flight.
DCShutdown ==
  /\ dcPc \in {"up", "closing"}
  /\ dcPc' = IF dcPc = "up" THEN "closing" ELSE "exited"
  /\ UNCHANGED <<dcPort, dcAsked, dcReply>>

DCNext == DCMain \/ DCAsk \/ DCPong \/ DCGetDigClock \/ DCShutdown
-----------------------------------------------------------------------------
\* digitalclock/README.md: a time of the form hh:mm:ss and a k from 1 to 30 give an
\* image in which the symbols of the time stand side by side, k times their size,
\* and cover it; everything else is a bad request.
DCImageShowsTime ==
  dcReply # DCNoReply /\ dcAsked[3] = "getDigClock" =>
    LET k == dcAsked[1]
        time == dcReply.time
        good == DCScaleValid(k) /\
                  (dcAsked[2] = <<>> \/ \E h \in DCHours, m, s \in DCSixty :
                     Len(h) = 2 /\ dcAsked[2] = h \o <<":">> \o m \o <<":">> \o s)
        column(i) == [y \in 1..DCHeight |-> DCBitmap[time[i]][y]]
        row(y) == FlattenSeq([i \in DOMAIN time |-> column(i)[y]])
        stretched(s) == [x \in 1..Len(s) * DCScale(k) |-> s[((x - 1) \div DCScale(k)) + 1]]
    IN IF good
       THEN /\ dcReply.code = 200 /\ (dcAsked[2] # <<>> => time = dcAsked[2])
            /\ dcReply.image =
                 stretched([y \in 1..DCHeight |-> stretched(row(y))])
       ELSE dcReply.code = 400
=============================================================================
