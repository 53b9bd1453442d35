--------------------------- MODULE RateLimitProofs ---------------------------
(***************************************************************************)
(* Proofs about RateLimit: its rate and its order of service.  Of the      *)
(* timestamps and of the grants it is the latest that matter, so entries   *)
(* are counted from the end; cleaning drops a prefix and moves none.       *)
(***************************************************************************)
EXTENDS RateLimit, FiniteSetTheorems, WellFoundedInduction, TLAPS

\* The k-th entry of s from its end.
Back(s, k) == s[(Len(s) + 1) - k]

\* The oldest first: ages fall towards the end.
OldestFirst(s) == \A j, k \in 1 .. Len(s) : j <= k => Back(s, j) <= Back(s, k)

(* Every set of natural numbers has a least one.                           *)
LEMMA LeastNat ==
  ASSUME NEW T \in SUBSET Nat, T # {}
  PROVE  \E n \in T : \A m \in T : n <= m
<1> DEFINE I == {0 .. k : k \in T}
<1>1. I \subseteq FiniteSubsetsOf(Nat) /\ I # {}
  <2>1. \A k \in T : 0 .. k \in SUBSET Nat /\ IsFiniteSet(0 .. k)
    BY FS_Interval
  <2>2. \A J \in I : J \in FiniteSubsetsOf(Nat)
    BY <2>1 DEF FiniteSubsetsOf
  <2> QED  BY <2>2
<1>2. PICK A \in I : \A B \in I : ~(<<B, A>> \in StrictSubsetOrdering(Nat))
  <2> HIDE DEF I
  <2> QED  BY <1>1, FS_StrictSubsetOrderingWellFounded, WFMin
<1>3. PICK n \in T : A = 0 .. n
  OBVIOUS
<1>4. ASSUME NEW m \in T, ~(n <= m) PROVE FALSE
  <2>1. 0 .. m \subseteq 0 .. n /\ n \in 0 .. n /\ n \notin 0 .. m
        /\ 0 .. m \in SUBSET Nat /\ 0 .. n \in SUBSET Nat
    BY <1>4
  <2>2. <<0 .. m, 0 .. n>> \in StrictSubsetOrdering(Nat)
    BY <2>1 DEF StrictSubsetOrdering
  <2> QED  BY <1>2, <1>3, <2>2
<1> QED  BY <1>4
-----------------------------------------------------------------------------
(* Lemmas about what the loop does to its sequences of ages.               *)

LEMMA AppendBack ==
  ASSUME NEW s \in Seq(Nat), NEW e \in Nat
  PROVE  /\ Append(s, e) \in Seq(Nat) /\ Len(Append(s, e)) = Len(s) + 1
         /\ Back(Append(s, e), 1) = e
         /\ \A k \in 2 .. Len(s) + 1 : Back(Append(s, e), k) = Back(s, k - 1)
BY DEF Back

LEMMA OlderBack ==
  ASSUME NEW s \in Seq(Nat)
  PROVE  /\ Older(s) \in Seq(Nat) /\ Len(Older(s)) = Len(s)
         /\ \A k \in 1 .. Len(s) : Back(Older(s), k) = Back(s, k) + 1
BY DEF Older, Back

LEMMA BackType ==
  ASSUME NEW s \in Seq(Nat), NEW k \in 1 .. Len(s)
  PROVE  Back(s, k) \in Nat
BY DEF Back

\* UpTo drops a prefix, which stops before the first entry that is young enough.
LEMMA UpToIsSuffix ==
  ASSUME NEW s \in Seq(Nat), NEW limit \in Int
  PROVE  \E n \in 0 .. Len(s) : /\ UpTo(s, limit) = SubSeq(s, n + 1, Len(s))
                                /\ n < Len(s) => s[n + 1] <= limit
                                /\ \A i \in 1 .. n : s[i] > limit
<1> DEFINE Old(n) == /\ \A i \in 1 .. n : s[i] > limit
                     /\ n < Len(s) => s[n + 1] <= limit
           Stops == {n \in 0 .. Len(s) : n < Len(s) => s[n + 1] <= limit}
<1>1. PICK n \in Stops : \A m \in Stops : n <= m
  <2>1. Stops \in SUBSET Nat /\ Len(s) \in Stops
    OBVIOUS
  <2> HIDE DEF Stops
  <2> QED  BY <2>1, LeastNat
<1>2. ASSUME NEW i \in 1 .. n PROVE s[i] > limit
  <2>1. PICK j \in 0 .. Len(s) : j = i - 1 /\ j < n /\ i = j + 1
    OBVIOUS
  <2>2. j \notin Stops
    <3>1. Stops \subseteq Nat
      OBVIOUS
    <3> HIDE DEF Stops
    <3> QED  BY <1>1, <2>1, <3>1
  <2>3. ~(s[j + 1] <= limit)
    BY <2>2
  <2>4. s[i] \in Nat
    OBVIOUS
  <2> QED  BY <2>1, <2>3, <2>4
<1>3. \E m \in 0 .. Len(s) : Old(m)
  BY <1>2
<1>4. PICK m \in 0 .. Len(s) : m = (CHOOSE k \in 0 .. Len(s) : Old(k)) /\ Old(m)
  <2> HIDE DEF Old
  <2> QED  BY <1>3
<1> QED  BY <1>4 DEF UpTo

LEMMA UpToBack ==
  ASSUME NEW s \in Seq(Nat), NEW limit \in Int
  PROVE  LET r == UpTo(s, limit) IN
         /\ r \in Seq(Nat) /\ Len(r) <= Len(s)
         /\ \A k \in 1 .. Len(r) : Back(r, k) = Back(s, k)
         /\ \A k \in 1 .. Len(s) : Back(s, k) <= limit => k <= Len(r)
         /\ Len(r) > 0 => Back(r, Len(r)) <= limit
<1> DEFINE r == UpTo(s, limit)
<1>1. PICK n \in 0 .. Len(s) : /\ r = SubSeq(s, n + 1, Len(s))
                               /\ n < Len(s) => s[n + 1] <= limit
                               /\ \A i \in 1 .. n : s[i] > limit
  BY UpToIsSuffix
<1> HIDE DEF r
<1>2. r \in Seq(Nat) /\ Len(r) = Len(s) - n /\ \A i \in 1 .. Len(r) : r[i] = s[n + i]
  BY <1>1
<1>3. ASSUME NEW k \in 1 .. Len(r) PROVE Back(r, k) = Back(s, k)
  <2>1. Len(r) \in Nat /\ Len(s) \in Nat
    BY <1>2
  <2> DEFINE i == (Len(r) + 1) - k
  <2>2. i \in 1 .. Len(r)
    <3> SUFFICES ASSUME NEW l \in Nat, l = Len(r) PROVE (l + 1) - k \in 1 .. l
      BY <2>1
    <3> QED  OBVIOUS
  <2>3. r[i] = s[n + i]
    BY <1>2, <2>2
  <2>4. n + i = (Len(s) + 1) - k
    BY <1>2, <2>1, <2>2
  <2> QED  BY <2>2, <2>3, <2>4 DEF Back
<1>4. ASSUME NEW k \in 1 .. Len(s), Back(s, k) <= limit PROVE k <= Len(r)
  <2>1. (Len(s) + 1) - k \notin 1 .. n
    BY <1>1, <1>4, BackType DEF Back
  <2> QED  BY <1>2, <2>1
<1>5. ASSUME Len(r) > 0 PROVE Back(r, Len(r)) <= limit
  BY <1>1, <1>2, <1>5 DEF Back
<1> QED  BY <1>2, <1>3, <1>4, <1>5 DEF r

\* The entries of an ordered sequence that are left are all young enough.
LEMMA UpToKeepsOrder ==
  ASSUME NEW s \in Seq(Nat), NEW limit \in Int, OldestFirst(s)
  PROVE  LET r == UpTo(s, limit) IN
         OldestFirst(r) /\ \A k \in 1 .. Len(r) : Back(r, k) <= limit
<1> DEFINE r == UpTo(s, limit)
<1>1. /\ r \in Seq(Nat) /\ Len(r) <= Len(s)
      /\ \A k \in 1 .. Len(r) : Back(r, k) = Back(s, k)
      /\ Len(r) > 0 => Back(r, Len(r)) <= limit
  BY UpToBack
<1> HIDE DEF r
<1>2. ASSUME NEW j \in 1 .. Len(r), NEW k \in 1 .. Len(r), j <= k
      PROVE  Back(r, j) <= Back(r, k)
  <2>1. j \in 1 .. Len(s) /\ k \in 1 .. Len(s)
    BY <1>1
  <2> QED  BY <1>1, <1>2, <2>1 DEF OldestFirst
<1>3. ASSUME NEW k \in 1 .. Len(r) PROVE Back(r, k) <= limit
  <2>1. Back(r, k) <= Back(r, Len(r))
    BY <1>1, <1>2
  <2> QED  BY <1>1, <2>1, BackType
<1> QED  BY <1>2, <1>3 DEF r, OldestFirst

\* A new age that is no larger than the others goes to the end.
LEMMA AppendKeepsOrder ==
  ASSUME NEW s \in Seq(Nat), NEW e \in Nat, OldestFirst(s),
         \A k \in 1 .. Len(s) : e <= Back(s, k)
  PROVE  OldestFirst(Append(s, e))
<1> DEFINE r == Append(s, e)
<1>1. r \in Seq(Nat) /\ Len(r) = Len(s) + 1 /\ Back(r, 1) = e
      /\ \A k \in 2 .. Len(s) + 1 : Back(r, k) = Back(s, k - 1)
  BY AppendBack
<1> HIDE DEF r
<1>2. ASSUME NEW j \in 1 .. Len(r), NEW k \in 1 .. Len(r), j <= k
      PROVE  Back(r, j) <= Back(r, k)
  <2>1. CASE j = 1 /\ k = 1
    BY <1>1, <2>1
  <2>2. CASE j = 1 /\ k # 1
    <3>1. k \in 2 .. Len(s) + 1 /\ k - 1 \in 1 .. Len(s)
      BY <1>1, <2>2
    <3> QED  BY <1>1, <2>2, <3>1
  <2>3. CASE j # 1
    <3>1. j \in 2 .. Len(s) + 1 /\ k \in 2 .. Len(s) + 1
          /\ j - 1 \in 1 .. Len(s) /\ k - 1 \in 1 .. Len(s) /\ j - 1 <= k - 1
      BY <1>1, <1>2, <2>3
    <3>2. Back(s, j - 1) <= Back(s, k - 1)
      BY <3>1 DEF OldestFirst
    <3> QED  BY <1>1, <3>1, <3>2
  <2> QED  BY <1>1, <1>2, <2>1, <2>2, <2>3
<1> QED  BY <1>2 DEF OldestFirst, r

LEMMA OlderKeepsOrder ==
  ASSUME NEW s \in Seq(Nat), OldestFirst(s)
  PROVE  OldestFirst(Older(s))
BY OlderBack, BackType DEF OldestFirst
-----------------------------------------------------------------------------
(* The inductive invariant, part by part.                                  *)

RLTypes ==
  /\ maxCount \in Nat /\ interval \in Nat
  /\ stamps \in Seq(Nat) /\ Len(stamps) <= maxCount
  /\ grants \in Seq(Nat)
  /\ lag \in 0 .. Tick /\ tick \in 1 .. Tick /\ ticked \in BOOLEAN
  /\ waiting \in Seq(Calls)
  /\ pc \in [Calls -> {"idle", "sending", "sent"}]
  /\ resp \in [Calls -> {"empty", "nil", "ctx", "stopped"}]

\* While the loop waits its clock falls behind, but the next tick bounds by how much.
RLClock ==
  /\ loop = "serve" => lag = 0
  /\ loop # "top" /\ ~ticked => lag + tick <= Tick

\* Both sequences are in order; cleaned timestamps lie within an interval.
RLOrder ==
  /\ OldestFirst(stamps) /\ OldestFirst(grants)
  /\ loop \in {"serve", "select"} =>
       \A k \in 1 .. Len(stamps) : Back(stamps, k) \in lag .. interval + lag

\* Each grant in g that is young enough for the interval n has its timestamp in s,
\* which was read at most a tick before the grant.
Stamped(s, g, n) ==
  \A k \in 1 .. Len(g) :
    Back(g, k) + Tick <= n => k <= Len(s) /\ Back(s, k) <= Back(g, k) + Tick

\* Of the grants in g that are young enough there are at most m.
AtMost(g, n, m) == \A k \in 1 .. Len(g) : Back(g, k) + Tick <= n => k <= m

RLStamped == loop \in {"top", "serve", "select"} => Stamped(stamps, grants, interval)

RLRate == AtMost(grants, interval, maxCount)

\* Requests wait for a place, and only the limited loop has them wait.
RLQueue ==
  /\ loop = "select" /\ waiting # <<>> => Len(stamps) >= maxCount
  /\ loop = "unlimited" => waiting = <<>>

\* A request that has not arrived is neither answered nor in the queue.
RLArrivals == \A c \in Calls : pc[c] = "sending" => resp[c] = "empty" /\ c \notin Queued

RLInv == /\ RLTypes /\ RLClock /\ RLOrder /\ RLStamped
         /\ RLQueue /\ RLArrivals /\ RLRate
-----------------------------------------------------------------------------
(* How the pairing of grants with timestamps survives what the loop does.  *)

LEMMA StampedCut ==
  ASSUME NEW s \in Seq(Nat), NEW g \in Seq(Nat), NEW n \in Nat, NEW age \in Nat,
         Stamped(s, g, n)
  PROVE  Stamped(UpTo(s, n + age), g, n)
<1> DEFINE r == UpTo(s, n + age)
<1>1. /\ r \in Seq(Nat) /\ Len(r) <= Len(s)
      /\ \A k \in 1 .. Len(r) : Back(r, k) = Back(s, k)
      /\ \A k \in 1 .. Len(s) : Back(s, k) <= n + age => k <= Len(r)
  BY UpToBack
<1> HIDE DEF r
<1>2. ASSUME NEW k \in 1 .. Len(g), Back(g, k) + Tick <= n
      PROVE  k <= Len(r) /\ Back(r, k) <= Back(g, k) + Tick
  <2>1. k \in 1 .. Len(s) /\ Back(s, k) <= Back(g, k) + Tick
    BY <1>2 DEF Stamped
  <2>2. Back(s, k) \in Nat /\ Back(g, k) \in Nat
    BY <2>1, BackType
  <2>3. k \in 1 .. Len(r)
    BY RateLimitAssumption, <1>1, <1>2, <2>1, <2>2
  <2> QED  BY <1>1, <2>1, <2>3
<1> QED  BY <1>2 DEF Stamped, r

LEMMA StampedAppend ==
  ASSUME NEW s \in Seq(Nat), NEW g \in Seq(Nat), NEW n \in Nat, NEW age \in 0 .. Tick,
         Stamped(s, g, n)
  PROVE  Stamped(Append(s, age), Append(g, 0), n)
<1> DEFINE r == Append(s, age)
           h == Append(g, 0)
<1> age \in Nat
  BY RateLimitAssumption
<1>1. r \in Seq(Nat) /\ Len(r) = Len(s) + 1 /\ Back(r, 1) = age
      /\ \A k \in 2 .. Len(s) + 1 : Back(r, k) = Back(s, k - 1)
  BY AppendBack
<1>2. h \in Seq(Nat) /\ Len(h) = Len(g) + 1 /\ Back(h, 1) = 0
      /\ \A k \in 2 .. Len(g) + 1 : Back(h, k) = Back(g, k - 1)
  BY AppendBack
<1> HIDE DEF r, h
<1>3. ASSUME NEW k \in 1 .. Len(h), Back(h, k) + Tick <= n
      PROVE  k <= Len(r) /\ Back(r, k) <= Back(h, k) + Tick
  <2>1. CASE k = 1
    BY RateLimitAssumption, <1>1, <1>2, <2>1
  <2>2. CASE k # 1
    <3>1. k \in 2 .. Len(g) + 1 /\ k - 1 \in 1 .. Len(g)
      BY <1>2, <2>2
    <3>2. Back(h, k) = Back(g, k - 1)
      BY <1>2, <3>1
    <3>3. k - 1 <= Len(s) /\ Back(s, k - 1) <= Back(g, k - 1) + Tick
      BY <1>3, <3>1, <3>2 DEF Stamped
    <3>4. k \in 2 .. Len(s) + 1
      BY <3>1, <3>3
    <3> QED  BY <1>1, <3>2, <3>3, <3>4
  <2> QED  BY <2>1, <2>2
<1> QED  BY <1>3 DEF Stamped, r, h

LEMMA AgedGrants ==
  ASSUME NEW g \in Seq(Nat), NEW n \in Nat
  PROVE  LET h == UpTo(Older(g), n) IN
         /\ h \in Seq(Nat) /\ Len(h) <= Len(g)
         /\ \A k \in 1 .. Len(h) : Back(h, k) = Back(g, k) + 1
<1> DEFINE o == Older(g)
           h == UpTo(o, n)
<1>1. o \in Seq(Nat) /\ Len(o) = Len(g) /\ \A k \in 1 .. Len(g) : Back(o, k) = Back(g, k) + 1
  BY OlderBack
<1> HIDE DEF o
<1>2. h \in Seq(Nat) /\ Len(h) <= Len(o) /\ \A k \in 1 .. Len(h) : Back(h, k) = Back(o, k)
  BY <1>1, UpToBack
<1> HIDE DEF h
<1>3. ASSUME NEW k \in 1 .. Len(h) PROVE Back(h, k) = Back(g, k) + 1
  <2>1. k \in 1 .. Len(g)
    BY <1>1, <1>2
  <2> QED  BY <1>1, <1>2, <2>1
<1> QED  BY <1>1, <1>2, <1>3 DEF h, o

LEMMA StampedOlder ==
  ASSUME NEW s \in Seq(Nat), NEW g \in Seq(Nat), NEW n \in Nat, Stamped(s, g, n)
  PROVE  Stamped(Older(s), UpTo(Older(g), n), n)
<1> DEFINE r == Older(s)
           h == UpTo(Older(g), n)
<1>1. Len(r) = Len(s) /\ \A k \in 1 .. Len(s) : Back(r, k) = Back(s, k) + 1
  BY OlderBack
<1>2. h \in Seq(Nat) /\ Len(h) <= Len(g) /\ \A k \in 1 .. Len(h) : Back(h, k) = Back(g, k) + 1
  BY AgedGrants
<1> HIDE DEF r, h
<1>3. ASSUME NEW k \in 1 .. Len(h), Back(h, k) + Tick <= n
      PROVE  k <= Len(r) /\ Back(r, k) <= Back(h, k) + Tick
  <2>1. k \in 1 .. Len(g) /\ Back(g, k) \in Nat
    BY <1>2, BackType
  <2>2. Back(g, k) + Tick <= n
    BY RateLimitAssumption, <1>2, <1>3, <2>1
  <2>3. k \in 1 .. Len(s) /\ Back(s, k) <= Back(g, k) + Tick
    BY <2>1, <2>2 DEF Stamped
  <2>4. Back(s, k) \in Nat
    BY <2>3, BackType
  <2>5. Back(r, k) = Back(s, k) + 1 /\ Back(h, k) = Back(g, k) + 1
    BY <1>1, <1>2, <2>3
  <2> QED  BY RateLimitAssumption, <1>1, <2>1, <2>3, <2>4, <2>5
<1> QED  BY <1>3 DEF Stamped, r, h

LEMMA AtMostOlder ==
  ASSUME NEW g \in Seq(Nat), NEW n \in Nat, NEW m \in Nat, AtMost(g, n, m)
  PROVE  AtMost(UpTo(Older(g), n), n, m)
<1> DEFINE h == UpTo(Older(g), n)
<1>1. h \in Seq(Nat) /\ Len(h) <= Len(g) /\ \A k \in 1 .. Len(h) : Back(h, k) = Back(g, k) + 1
  BY AgedGrants
<1> HIDE DEF h
<1>2. ASSUME NEW k \in 1 .. Len(h), Back(h, k) + Tick <= n
      PROVE  k <= m
  <2>1. k \in 1 .. Len(g) /\ Back(g, k) \in Nat
    BY <1>1, BackType
  <2>2. Back(g, k) + Tick <= n
    BY RateLimitAssumption, <1>1, <1>2, <2>1
  <2> QED  BY <2>1, <2>2 DEF AtMost
<1> QED  BY <1>2 DEF AtMost, h

LEMMA StampedBounds ==
  ASSUME NEW s \in Seq(Nat), NEW g \in Seq(Nat), NEW n \in Nat, NEW m \in Nat,
         Stamped(s, g, n), Len(s) <= m
  PROVE  AtMost(g, n, m)
BY DEF Stamped, AtMost
-----------------------------------------------------------------------------
(* The invariant is inductive.                                             *)

LEMMA RLInit == Init => RLInv
<1> SUFFICES ASSUME Init PROVE RLInv
  OBVIOUS
<1>1. maxCount \in Nat /\ interval \in Nat /\ Tick \in Nat \ {0}
  BY RateLimitAssumption DEF Init
<1>2. RLTypes
  <2>1. lag \in 0 .. Tick /\ tick \in 1 .. Tick /\ Len(<<>>) <= maxCount
    BY <1>1 DEF Init
  <2>2. <<>> \in Seq(Nat) /\ <<>> \in Seq(Calls)
    OBVIOUS
  <2> QED  BY <1>1, <2>1, <2>2 DEF Init, RLTypes
<1>3. RLClock /\ RLOrder /\ RLStamped /\ RLQueue /\ RLArrivals /\ RLRate
  BY <1>1 DEF Init, RLClock, RLOrder, OldestFirst, RLStamped, Stamped, RLQueue,
              RLArrivals, Queued, RLRate, AtMost
<1> QED  BY <1>2, <1>3 DEF RLInv

\* Cleaning at an age keeps the order, and what it leaves lies within an interval.
LEMMA CleanedFacts ==
  ASSUME RLTypes, RLOrder, NEW age \in Nat
  PROVE  /\ Cleaned(age) \in Seq(Nat) /\ Len(Cleaned(age)) <= Len(stamps)
         /\ OldestFirst(Cleaned(age))
         /\ \A k \in 1 .. Len(Cleaned(age)) :
              /\ Back(Cleaned(age), k) = Back(stamps, k)
              /\ Back(Cleaned(age), k) <= interval + age
         /\ \A k \in 1 .. Len(stamps) :
              Back(stamps, k) <= interval + age => k <= Len(Cleaned(age))
<1>1. stamps \in Seq(Nat) /\ interval + age \in Int /\ OldestFirst(stamps)
  BY DEF RLTypes, RLOrder
<1> QED  BY <1>1, UpToBack, UpToKeepsOrder DEF Cleaned

\* Between two turns of the loop no timestamp gets too old for the clock in use.
LEMMA NothingToClean ==
  ASSUME RLTypes, RLOrder, loop = "select"
  PROVE  Len(Cleaned(lag)) = Len(stamps)
<1>1. lag \in Nat /\ stamps \in Seq(Nat) /\ interval \in Nat
  BY RateLimitAssumption DEF RLTypes
<1>2. Cleaned(lag) \in Seq(Nat) /\ Len(Cleaned(lag)) <= Len(stamps)
  BY <1>1, CleanedFacts
<1>3. CASE Len(stamps) = 0
  BY <1>2, <1>3
<1>4. CASE Len(stamps) # 0
  <2>1. Len(stamps) \in 1 .. Len(stamps)
    BY <1>1, <1>4
  <2>2. Back(stamps, Len(stamps)) <= interval + lag
    BY <1>1, <2>1 DEF RLOrder
  <2>3. Len(stamps) <= Len(Cleaned(lag))
    BY <1>1, <2>1, <2>2, CleanedFacts
  <2> QED  BY <1>1, <1>2, <2>3
<1> QED  BY <1>3, <1>4

LEMMA TopKeeps == ASSUME RLInv, Top PROVE RLInv'
<1> USE DEF RLInv
<1>1. /\ Cleaned(0) \in Seq(Nat) /\ Len(Cleaned(0)) <= Len(stamps)
      /\ OldestFirst(Cleaned(0))
      /\ \A k \in 1 .. Len(Cleaned(0)) : Back(Cleaned(0), k) <= interval + 0
  BY CleanedFacts
<1>2. Stamped(Cleaned(0), grants, interval)
  BY StampedCut DEF Top, RLTypes, RLStamped, Cleaned
<1>3. RLTypes' /\ RLClock'
  BY RateLimitAssumption, <1>1 DEF Top, conf, ticker, RLTypes, RLClock
<1>4. RLOrder'
  <2>1. \A k \in 1 .. Len(stamps') : Back(stamps', k) \in 0 .. interval
    BY <1>1, BackType DEF Top, RLTypes
  <2> QED  BY <1>1, <2>1 DEF Top, conf, RLTypes, RLOrder
<1>5. RLStamped' /\ RLQueue' /\ RLArrivals' /\ RLRate'
  BY <1>2 DEF Top, conf, RLStamped, RLQueue, RLArrivals, Queued, RLRate
<1> QED  BY <1>3, <1>4, <1>5

LEMMA ServeKeeps == ASSUME RLInv, Serve PROVE RLInv'
<1> USE DEF RLInv
<1>1. lag = 0 /\ interval \in Nat /\ maxCount \in Nat
  BY DEF Serve, RLTypes, RLClock
<1>2. /\ Tail(waiting) \in Seq(Calls) /\ Head(waiting) \in Calls
      /\ Head(waiting) \in Queued
      /\ {Tail(waiting)[i] : i \in DOMAIN Tail(waiting)} \subseteq Queued
  BY DEF Serve, RLTypes, Queued
<1>3. RLArrivals'
  <2>1. Queued' \subseteq Queued
    BY <1>2 DEF Serve, Queued
  <2> QED  BY <1>2, <2>1 DEF Serve, SendResponse, Answer, RLTypes, RLArrivals
<1>4. RLClock' /\ RLQueue'
  BY DEF Serve, ticker, RLClock, RLQueue
<1>5. CASE Head(waiting) \in done
  BY <1>2, <1>3, <1>4, <1>5
     DEF Serve, SendResponse, Answer, conf, ticker, RLTypes, RLOrder, RLStamped, RLRate
<1>6. CASE Head(waiting) \notin done
  <2>1. stamps' = Append(stamps, 0) /\ grants' = Append(grants, 0)
    BY <1>1, <1>6 DEF Serve
  <2>2. stamps' \in Seq(Nat) /\ grants' \in Seq(Nat) /\ Len(stamps') <= maxCount
    BY <1>1, <2>1 DEF Serve, RLTypes
  <2>3. RLTypes'
    BY <1>2, <2>2 DEF Serve, SendResponse, Answer, conf, ticker, RLTypes
  <2>4. OldestFirst(stamps') /\ OldestFirst(grants')
    BY <2>1, AppendKeepsOrder, BackType DEF RLTypes, RLOrder
  <2>5. \A k \in 1 .. Len(stamps') : Back(stamps', k) \in 0 .. interval
    BY <1>1, <2>1, AppendBack, BackType DEF Serve, RLTypes, RLOrder
  <2>6. RLOrder'
    BY <1>1, <2>4, <2>5 DEF Serve, conf, RLOrder
  <2>7. Stamped(stamps', grants', interval)
    BY <1>1, <2>1, RateLimitAssumption, StampedAppend DEF Serve, RLTypes, RLStamped
  <2>8. RLStamped' /\ RLRate'
    BY <1>1, <2>2, <2>7, StampedBounds DEF Serve, conf, RLStamped, RLRate
  <2> QED  BY <1>3, <1>4, <2>3, <2>6, <2>8
<1> QED  BY <1>5, <1>6

\* A request that finds a place is granted with the clock that was read before it came.
LEMMA ReceiveKeeps == ASSUME RLInv, NEW c \in Calls, Receive(c) PROVE RLInv'
<1> USE DEF RLInv, Receive
<1>1. lag \in Nat /\ interval \in Nat /\ maxCount \in Nat /\ Tick \in Nat \ {0}
      /\ stamps \in Seq(Nat) /\ grants \in Seq(Nat)
  BY RateLimitAssumption DEF RLTypes
<1>2. /\ Cleaned(lag) \in Seq(Nat) /\ Len(Cleaned(lag)) <= Len(stamps)
      /\ OldestFirst(Cleaned(lag))
      /\ \A k \in 1 .. Len(Cleaned(lag)) : Back(Cleaned(lag), k) = Back(stamps, k)
  BY <1>1, CleanedFacts
<1>3. Stamped(Cleaned(lag), grants, interval)
  BY <1>1, StampedCut DEF HandleNewRequest, RLStamped, Cleaned
<1>4. RLClock' /\ RLQueue'
  BY DEF HandleNewRequest, RLClock, RLQueue
<1>5. RLArrivals'
  <2>1. Queued' \subseteq Queued \union {c}
    <3>1. waiting' = waiting \/ waiting' = Append(waiting, c)
      BY DEF HandleNewRequest
    <3>2. waiting \in Seq(Calls)
      BY DEF RLTypes
    <3> QED  BY <3>1, <3>2 DEF Queued
  <2> QED  BY <2>1 DEF HandleNewRequest, Answer, RLTypes, RLArrivals
<1>6. CASE c \in done
  BY <1>4, <1>5, <1>6
     DEF HandleNewRequest, Answer, conf, ticker, RLTypes, RLOrder, RLStamped, RLRate
<1>7. CASE c \notin done /\ Len(Cleaned(lag)) < maxCount
  <2>1. stamps' = Append(Cleaned(lag), lag) /\ grants' = Append(grants, 0)
    BY <1>1, <1>2, <1>7 DEF HandleNewRequest
  <2>2. stamps' \in Seq(Nat) /\ grants' \in Seq(Nat) /\ Len(stamps') <= maxCount
    BY <1>1, <1>2, <1>7, <2>1
  <2>3. RLTypes'
    <3>1. UNCHANGED <<conf, lag, ticker, waiting>> /\ resp' = [resp EXCEPT ![c] = "nil"]
          /\ pc' = [pc EXCEPT ![c] = "sent"]
      BY <1>1, <1>2, <1>7 DEF HandleNewRequest, Answer
    <3> QED  BY <2>2, <3>1 DEF conf, ticker, RLTypes
  <2>4. OldestFirst(stamps') /\ OldestFirst(grants')
    <3>1. \A k \in 1 .. Len(Cleaned(lag)) : lag <= Back(Cleaned(lag), k)
      BY <1>1, <1>2 DEF HandleNewRequest, RLOrder
    <3> QED  BY <1>1, <1>2, <2>1, <3>1, AppendKeepsOrder, BackType DEF RLOrder
  <2>5. Stamped(stamps', grants', interval)
    BY <1>1, <1>2, <1>3, <2>1, StampedAppend DEF RLTypes
  <2>6. RLOrder' /\ RLStamped' /\ RLRate'
    BY <1>1, <2>2, <2>4, <2>5, StampedBounds
       DEF HandleNewRequest, conf, RLOrder, RLStamped, RLRate
  <2> QED  BY <1>4, <1>5, <2>3, <2>6
<1>8. CASE c \notin done /\ Len(Cleaned(lag)) >= maxCount
  <2>1. stamps' = Cleaned(lag) /\ waiting' = Append(waiting, c) /\ UNCHANGED <<resp, grants>>
    BY <1>1, <1>2, <1>8 DEF HandleNewRequest
  <2>2. RLTypes'
    <3>1. waiting' \in Seq(Calls) /\ stamps' \in Seq(Nat) /\ Len(stamps') <= maxCount
      BY <1>1, <1>2, <2>1 DEF RLTypes
    <3> QED  BY <2>1, <3>1 DEF HandleNewRequest, conf, ticker, RLTypes
  <2>3. RLOrder' /\ RLStamped' /\ RLRate'
    BY <1>2, <1>3, <2>1 DEF HandleNewRequest, conf, RLOrder, RLStamped, RLRate
  <2> QED  BY <1>4, <1>5, <2>2, <2>3
<1> QED  BY <1>1, <1>2, <1>6, <1>7, <1>8

\* Time makes every age grow, and the loop's lag with them unless a tick is due.
LEMMA AdvanceKeeps == ASSUME RLInv, Advance PROVE RLInv'
<1> USE DEF RLInv
<1>1. lag \in 0 .. Tick /\ interval \in Nat /\ maxCount \in Nat /\ Tick \in Nat \ {0}
      /\ stamps \in Seq(Nat) /\ grants \in Seq(Nat) /\ tick \in 1 .. Tick
  BY RateLimitAssumption DEF RLTypes
<1>2. /\ stamps' \in Seq(Nat) /\ Len(stamps') = Len(stamps)
      /\ \A k \in 1 .. Len(stamps) : Back(stamps', k) = Back(stamps, k) + 1
  BY <1>1, OlderBack DEF Advance
<1>3. grants' = UpTo(Older(grants), interval) /\ grants' \in Seq(Nat)
  BY <1>1, AgedGrants DEF Advance
<1>4. lag' \in 0 .. Tick /\ tick' \in 1 .. Tick /\ ticked' \in BOOLEAN /\ RLClock'
  <2>1. CASE loop = "select"
    <3>1. ticked = FALSE /\ lag + tick <= Tick
      BY <2>1 DEF Advance, RLTypes, RLClock
    <3>2. lag' = lag + 1 /\ ticked' = (tick = 1) /\ loop' = "select"
          /\ tick' = IF tick = 1 THEN Tick ELSE tick - 1
      BY <2>1 DEF Advance
    <3>3. CASE tick = 1
      <4>1. ticked' = TRUE /\ tick' = Tick
        BY <3>2, <3>3
      <4>2. lag + 1 \in 0 .. Tick /\ Tick \in 1 .. Tick
        BY <1>1, <3>1, <3>3
      <4> QED  BY <3>2, <4>1, <4>2 DEF RLClock
    <3>4. CASE tick # 1
      <4>1. ticked' = FALSE /\ tick' = tick - 1
        BY <3>2, <3>4
      <4>2. lag + 1 \in 0 .. Tick /\ tick - 1 \in 1 .. Tick /\ (lag + 1) + (tick - 1) <= Tick
        BY <1>1, <3>1, <3>4
      <4> QED  BY <3>2, <4>1, <4>2 DEF RLClock
    <3> QED  BY <3>3, <3>4
  <2>2. CASE loop # "select"
    BY <1>1, <2>2 DEF Advance, ticker, RLTypes, RLClock
  <2> QED  BY <2>1, <2>2
<1>5. RLTypes'
  BY <1>2, <1>3, <1>4 DEF Advance, conf, RLTypes
<1>6. RLOrder'
  <2>1. OldestFirst(stamps')
    BY <1>1, OlderKeepsOrder DEF Advance, RLOrder
  <2>2. OldestFirst(grants')
    <3>1. Older(grants) \in Seq(Nat) /\ OldestFirst(Older(grants))
      BY <1>1, OlderBack, OlderKeepsOrder DEF RLOrder
    <3> QED  BY <1>1, <1>3, <3>1, UpToKeepsOrder
  <2>3. ASSUME loop = "select", NEW k \in 1 .. Len(stamps')
        PROVE  Back(stamps', k) \in lag + 1 .. interval + (lag + 1)
    <3>1. Back(stamps, k) \in lag .. interval + lag
      BY <1>2, <2>3 DEF RLOrder
    <3> QED  BY <1>1, <1>2, <3>1
  <2> QED  BY <2>1, <2>2, <2>3 DEF Advance, conf, RLOrder
<1>7. RLStamped'
  BY <1>1, StampedOlder DEF Advance, conf, RLStamped
<1>8. RLRate'
  BY <1>1, <1>3, AtMostOlder DEF Advance, conf, RLRate
<1>9. RLQueue' /\ RLArrivals'
  BY <1>2 DEF Advance, conf, RLQueue, RLArrivals, Queued
<1> QED  BY <1>4, <1>5, <1>6, <1>7, <1>8, <1>9

LEMMA RLInvariance == RLInv /\ [Next]_vars => RLInv'
<1> SUFFICES ASSUME RLInv, [Next]_vars PROVE RLInv'
  OBVIOUS
<1> USE DEF RLInv
<1>1. CASE Top
  BY <1>1, TopKeeps
<1>2. CASE Serve
  BY <1>2, ServeKeeps
<1>3. CASE Served
  BY <1>3 DEF Served, conf, ticker, RLTypes, RLClock, RLOrder, RLStamped, RLQueue,
              RLArrivals, Queued, RLRate
<1>4. CASE TakeTick
  BY <1>4 DEF TakeTick, conf, ticker, RLTypes, RLClock, RLOrder, RLStamped, RLQueue,
              RLArrivals, Queued, RLRate
<1>5. CASE HandleStop
  <2>1. stamps' = <<>> /\ waiting' = <<>> /\ loop' = "drain"
    BY <1>5 DEF HandleStop
  <2>2. RLTypes' /\ RLClock' /\ RLStamped' /\ RLQueue' /\ RLRate'
    BY <1>5 DEF HandleStop, conf, ticker, RLTypes, RLClock, RLStamped, RLQueue, RLRate
  <2>3. RLOrder'
    BY <1>5, <2>1 DEF HandleStop, RLOrder, OldestFirst
  <2>4. RLArrivals'
    BY <1>5 DEF HandleStop, RLTypes, RLArrivals, Queued
  <2> QED  BY <2>2, <2>3, <2>4
<1>6. CASE StopUnlimited \/ Exit
  BY <1>6 DEF StopUnlimited, Exit, conf, ticker, RLTypes, RLClock, RLOrder, RLStamped,
              RLQueue, RLArrivals, Queued, RLRate
<1>7. CASE Stop
  BY <1>7 DEF Stop, conf, ticker, RLTypes, RLClock, RLOrder, RLStamped, RLQueue,
              RLArrivals, Queued, RLRate
<1>8. CASE Advance
  BY <1>8, AdvanceKeeps
<1>9. ASSUME NEW c \in Calls, Receive(c) PROVE RLInv'
  BY <1>9, ReceiveKeeps
<1>10. ASSUME NEW c \in Calls,
              ReceiveNoLimit(c) \/ Begin(c) \/ CancelCtx(c) \/ Return(c)
       PROVE  RLInv'
  <2>1. UNCHANGED <<conf, loop, stamps, lag, waiting, ticker, grants>>
    BY <1>10 DEF ReceiveNoLimit, Begin, CancelCtx, Return
  <2>2. RLClock' /\ RLOrder' /\ RLStamped' /\ RLQueue' /\ RLRate'
    BY <2>1 DEF conf, ticker, RLClock, RLOrder, RLStamped, RLQueue, RLRate
  <2>3. RLTypes'
    BY <1>10, <2>1 DEF ReceiveNoLimit, Begin, CancelCtx, Return, SendResponse, Answer,
                       conf, ticker, RLTypes
  <2>4. RLArrivals'
    BY <1>10, <2>1 DEF ReceiveNoLimit, Begin, CancelCtx, Return, SendResponse, Answer,
                       RLTypes, RLArrivals, Queued
  <2> QED  BY <2>2, <2>3, <2>4
<1>11. CASE UNCHANGED vars
  BY <1>11 DEF vars, conf, ticker, RLTypes, RLClock, RLOrder, RLStamped, RLQueue,
               RLArrivals, Queued, RLRate
<1> QED  BY <1>1, <1>2, <1>3, <1>4, <1>5, <1>6, <1>7, <1>8, <1>9, <1>10, <1>11
         DEF Next, Loop

LEMMA RLAlways == Spec => []RLInv
BY RLInit, RLInvariance, PTL DEF Spec
-----------------------------------------------------------------------------
\* At any maxCount and interval, and however requests come and go, a stretch of time
\* shorter than the interval by a tick sees no more than maxCount grants.
THEOREM RateHolds == Spec => []RateWithinLag
<1>1. RLInv => RateWithinLag
  <2> SUFFICES ASSUME RLInv, interval > Tick PROVE Granted(interval - Tick) <= maxCount
    BY DEF RateWithinLag
  <2>1. grants \in Seq(Nat) /\ interval \in Nat /\ maxCount \in Nat /\ Tick \in Nat
    BY RateLimitAssumption DEF RLInv, RLTypes
  <2> DEFINE r == UpTo(grants, interval - Tick)
  <2>2. /\ r \in Seq(Nat) /\ Len(r) <= Len(grants)
        /\ \A k \in 1 .. Len(r) : Back(r, k) = Back(grants, k)
        /\ Len(r) > 0 => Back(r, Len(r)) <= interval - Tick
    BY <2>1, UpToBack
  <2> HIDE DEF r
  <2>3. CASE Len(r) = 0
    BY <2>1, <2>3 DEF r, Granted
  <2>4. CASE Len(r) # 0
    <3>1. Len(r) \in 1 .. Len(r) /\ Len(r) \in 1 .. Len(grants)
      BY <2>1, <2>2, <2>4
    <3>2. Back(grants, Len(r)) <= interval - Tick /\ Back(grants, Len(r)) \in Nat
      BY <2>1, <2>2, <3>1, BackType
    <3>3. Len(r) <= maxCount
      BY <2>1, <3>1, <3>2 DEF RLInv, RLRate, AtMost
    <3> QED  BY <3>3 DEF r, Granted
  <2> QED  BY <2>3, <2>4
<1> QED  BY <1>1, RLAlways, PTL

\* No request is granted a place when it arrives while another one waits for a place.
THEOREM ServedInTurn == Spec => NoOvertaking
<1>1. ASSUME RLInv, [Next]_vars
      PROVE  [\A c \in Calls : pc[c] = "sending" /\ pc'[c] = "sent" /\ resp'[c] = "nil"
                                 => waiting = <<>>]_vars
  <2> SUFFICES ASSUME Next, NEW c \in Calls,
                      pc[c] = "sending", pc'[c] = "sent", resp'[c] = "nil"
               PROVE  waiting = <<>>
    BY <1>1
  <2> USE DEF RLInv
  <2>1. resp[c] = "empty" /\ pc \in [Calls -> {"idle", "sending", "sent"}]
        /\ resp \in [Calls -> {"empty", "nil", "ctx", "stopped"}]
    BY <1>1 DEF RLArrivals, RLTypes
  <2>2. pc # pc'
    OBVIOUS
  <2>3. PICK d \in Calls : Receive(d) \/ ReceiveNoLimit(d) \/ Begin(d) \/ Return(d)
    BY <2>2 DEF Next, Loop, Top, Serve, Served, TakeTick, HandleStop, StopUnlimited, Exit,
                Stop, Advance, CancelCtx
  <2>4. d = c /\ (Receive(d) \/ ReceiveNoLimit(d))
    BY <2>1, <2>3 DEF Receive, HandleNewRequest, ReceiveNoLimit, Begin, Return
  <2>5. CASE Receive(c)
    <3>1. loop = "select" /\ Len(Cleaned(lag)) < maxCount
      BY <2>1, <2>5 DEF Receive, HandleNewRequest, Answer
    <3>2. Len(stamps) < maxCount
      BY <1>1, <3>1, NothingToClean
    <3> QED  BY <1>1, <3>1, <3>2 DEF RLQueue, RLTypes
  <2>6. CASE ReceiveNoLimit(c)
    <3>1. loop = "unlimited"
      BY <2>1, <2>6 DEF ReceiveNoLimit, SendResponse, Answer
    <3> QED  BY <1>1, <3>1 DEF RLQueue
  <2> QED  BY <2>4, <2>5, <2>6
<1> QED  BY <1>1, RLAlways, PTL DEF Spec, NoOvertaking
=============================================================================
