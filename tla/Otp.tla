--------------------------------- MODULE Otp ---------------------------------
(***************************************************************************)
(* otp/cipher.go: a stream cipher over an io.Reader or an io.Writer.  Of a *)
(* byte of the output the model keeps its origin: the place of the data    *)
(* byte and the place of the byte of prng with which it was xored.         *)
(***************************************************************************)
EXTENDS Integers, Sequences

CONSTANTS
  OTBuffers,  \* the lengths of p
  OTMax       \* bound: the bytes of the data

ASSUME OTAssumption == OTBuffers \subseteq Nat /\ OTMax \in Nat

VARIABLES
  otMode,   \* "reader" or "writer"
  otData,   \* the bytes of the data that were taken: from r, or, says Write, from p
  otPrng,   \* how many bytes of prng were taken
  otOut,    \* what has come out: <<place in the data, place in prng>>
  otShort,  \* history: prng has returned less than it was asked for, or failed a Write
  otFailed  \* an error was returned: the caller stops

otvars == <<otMode, otData, otPrng, otOut, otShort, otFailed>>

OTInit ==
  /\ otMode \in {"reader", "writer"}
  /\ otData = 0 /\ otPrng = 0 /\ otOut = <<>>
  /\ otShort = FALSE /\ otFailed = FALSE

OTXored(n) == [i \in 1..n |-> <<otData + i, otPrng + i>>]
OTMin(m, n) == IF m < n THEN m ELSE n

\* MyReader.Read: r gives nr bytes, with an error or not; prng is asked for nr.
OTRead(len) ==
  \E nr \in 0..OTMin(len, OTMax - otData), err \in BOOLEAN :
    \/ /\ nr = 0
       /\ otFailed' = (err /\ len > 0)
       /\ UNCHANGED <<otMode, otData, otPrng, otOut, otShort>>
    \/ /\ nr > 0
       /\ \E prn \in 0..nr, prerr \in BOOLEAN :
            /\ otData' = otData + nr
            /\ otPrng' = otPrng + prn
            /\ otOut' = otOut \o OTXored(prn)
            /\ otShort' = (otShort \/ prn < nr)
            /\ otFailed' = (err \/ (prerr /\ prn = 0))
       /\ UNCHANGED otMode

\* MyWriter.Write: w may take fewer bytes only with an error.  When prng fails, the
\* bytes that it did give are returned as written, and nothing is.
OTWrite(len) ==
  \E prn \in 0..OTMin(len, OTMax - otData), prerr \in BOOLEAN :
    /\ otPrng' = otPrng + prn
    /\ otShort' = (otShort \/ prn < len \/ prerr)
    /\ \/ /\ prerr
          /\ otData' = otData + prn
          /\ otFailed' = TRUE
          /\ UNCHANGED otOut
       \/ /\ ~prerr
          /\ \E wn \in 0..prn, werr \in BOOLEAN :
               /\ wn < prn => werr
               /\ otOut' = otOut \o OTXored(wn)
               /\ otData' = otData + wn
               /\ otFailed' = werr
    /\ UNCHANGED otMode

OTNext ==
  /\ ~otFailed
  /\ \E len \in OTBuffers :
       \/ otMode = "reader" /\ OTRead(len)
       \/ otMode = "writer" /\ len <= OTMax - otData /\ OTWrite(len)
-----------------------------------------------------------------------------
\* otp/README.md: each byte of the stream is xored with its byte of prng, in every
\* split of the stream into calls and up to any error of r or w; what the calls have
\* reported is what has come out, the last call with its error too.  prng fills what
\* it is asked for and never fails, as the README lets one assume.
OTAligned ==
  ~otShort =>
    /\ \A i \in DOMAIN otOut : otOut[i] = <<i, i>>
    /\ Len(otOut) = otData
    /\ ~otFailed => otPrng = otData
=============================================================================
