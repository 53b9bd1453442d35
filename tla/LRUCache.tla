------------------------------ MODULE LRUCache ------------------------------
(***************************************************************************)
(* lrucache/lru.go: a list from the oldest access to the newest, and a map *)
(* from a key to its element of the list.  Next to them, the promise of    *)
(* lrucache/cache.go: a value and a time of access for each key.           *)
(***************************************************************************)
EXTENDS Integers, Sequences, FiniteSets, SequencesExt

CONSTANTS
  LRUKeys, LRUValues,
  LRUCapacities,  \* arguments of New, zero and less among them
  LRUMaxOps       \* bound: the calls of a behaviour

ASSUME LRUAssumption ==
  IsFiniteSet(LRUKeys) /\ LRUCapacities \subseteq Int /\ LRUMaxOps \in Nat

VARIABLES
  lruCapacity,\* capacity
  lruList,    \* list: [key, value], from Front to Back
  lruCache,   \* cache: from a key to an element of list, by its place there
  lruUsed,    \* history: the call that accessed each key last, 0 for none
  lruValue,   \* history: the value that each key got last
  lruOps      \* history: the calls so far

lruvars == <<lruCapacity, lruList, lruCache, lruUsed, lruValue, lruOps>>

LRUInit ==
  /\ lruCapacity \in LRUCapacities
  /\ lruList = <<>> /\ lruCache = <<>>
  /\ lruUsed = [k \in LRUKeys |-> 0]
  /\ lruValue = [k \in LRUKeys |-> 0]
  /\ lruOps = 0

LRUCall ==
  /\ lruOps < LRUMaxOps /\ lruOps' = lruOps + 1
  /\ UNCHANGED lruCapacity

\* What Get returns, and the keys that Range shows to an f that stops it at the
\* n-th element.
LRULookup(key) ==
  IF key \in DOMAIN lruCache THEN <<lruList[lruCache[key]].value>> ELSE <<>>

LRURange(n) == SubSeq([i \in DOMAIN lruList |-> lruList[i].key], 1, n)

\* MoveToBack of the element that cache has for key, and where it and the elements
\* that were behind it are then.
LRUMoved(key) == Append(RemoveAt(lruList, lruCache[key]), lruList[lruCache[key]])
LRUPlacesMoved(key) ==
  [k \in DOMAIN lruCache |->
     IF lruCache[k] = lruCache[key] THEN Len(lruList)
     ELSE IF lruCache[k] > lruCache[key] THEN lruCache[k] - 1 ELSE lruCache[k]]

\* Mutant: a hit does not count as an access.
LRUGetInPlace(key) ==
  /\ LRUCall
  /\ lruUsed' = [lruUsed EXCEPT ![key] = IF @ = 0 THEN 0 ELSE lruOps']
  /\ UNCHANGED <<lruList, lruCache, lruValue>>

LRUGet(key) ==
  /\ LRUCall
  /\ \/ /\ key \notin DOMAIN lruCache
        /\ UNCHANGED <<lruList, lruCache>>
     \/ /\ key \in DOMAIN lruCache
        /\ lruList' = LRUMoved(key) /\ lruCache' = LRUPlacesMoved(key)
  /\ lruUsed' = [lruUsed EXCEPT ![key] = IF @ = 0 THEN 0 ELSE lruOps']
  /\ UNCHANGED lruValue

\* The oldest element leaves a full list, and its key the map.
LRUEvicted == IF Len(lruList) >= lruCapacity THEN Tail(lruList) ELSE lruList
LRUPlacesLeft ==
  IF Len(lruList) >= lruCapacity
  THEN [k \in DOMAIN lruCache \ {Head(lruList).key} |-> lruCache[k] - 1]
  ELSE lruCache

\* cache[key] = elem, the element at place i.
LRUPlaced(places, key, i) ==
  [k \in DOMAIN places \union {key} |-> IF k = key THEN i ELSE places[k]]

\* The history of a Set: with room for capacity keys, the one whose access is
\* the oldest is forgotten.
LRURemember(key, value) ==
  LET used == [lruUsed EXCEPT ![key] = lruOps']
      known == {k \in LRUKeys : used[k] > 0}
      keeps(k) == Cardinality({j \in known : used[j] > used[k]}) < lruCapacity
  IN
  /\ lruUsed' = [k \in LRUKeys |-> IF keeps(k) THEN used[k] ELSE 0]
  /\ lruValue' = [lruValue EXCEPT ![key] = value]

LRUSet(key, value) ==
  /\ LRUCall
  /\ \/ lruCapacity <= 0 /\ UNCHANGED <<lruList, lruCache>>
     \/ /\ lruCapacity > 0 /\ key \in DOMAIN lruCache
        /\ lruList' = [LRUMoved(key) EXCEPT ![Len(lruList)].value = value]
        /\ lruCache' = LRUPlacesMoved(key)
     \/ /\ lruCapacity > 0 /\ key \notin DOMAIN lruCache
        /\ lruList' = Append(LRUEvicted, [key |-> key, value |-> value])
        /\ lruCache' = LRUPlaced(LRUPlacesLeft, key, Len(LRUEvicted) + 1)
  /\ LRURemember(key, value)

LRUClear ==
  /\ LRUCall
  /\ lruList' = <<>> /\ lruCache' = <<>>
  /\ lruUsed' = [k \in LRUKeys |-> 0]
  /\ UNCHANGED lruValue

LRUNext ==
  \/ \E k \in LRUKeys : LRUGet(k) \/ \E v \in LRUValues : LRUSet(k, v)
  \/ LRUClear
-----------------------------------------------------------------------------
\* lrucache/README.md, cache.go:17: at any time the cache holds the keys of the
\* latest accesses, as many as there is room for, each with the value it got
\* last, in the order of their accesses; the map leads to every one of them.
LRUKeepsLatest ==
  LET known == {k \in LRUKeys : lruUsed[k] > 0} IN
  /\ \E inOrder \in SetToSeqs(known) :
       /\ \A i, j \in DOMAIN inOrder : i < j => lruUsed[inOrder[i]] < lruUsed[inOrder[j]]
       /\ \A n \in 1..Len(lruList) : LRURange(n) = SubSeq(inOrder, 1, n)
  /\ \A k \in LRUKeys : LRULookup(k) = IF k \in known THEN <<lruValue[k]>> ELSE <<>>
=============================================================================
