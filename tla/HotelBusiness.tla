---------------------------- MODULE HotelBusiness ----------------------------
(***************************************************************************)
(* hotelbusiness/hotels.go: the loads of a hotel, one sweep over the       *)
(* arrivals and departures.  sort.Slice is not stable, so the events of    *)
(* one date come in any order.                                             *)
(***************************************************************************)
EXTENDS Integers, Sequences, FiniteSets

CONSTANTS
  HBGuestLists  \* the arguments: sequences of <<check-in, check-out>>

ASSUME HBAssumption == HBGuestLists \subseteq Seq(Int \X Int)

VARIABLES
  hbGuests,  \* guests
  hbEvents,  \* the events the loop has not come to: [guest, in, date]
  hbDate,    \* cur_date
  hbCount,   \* cur_cnt
  hbPrev,    \* prev_cnt
  hbLoads,   \* loads: <<date, count>>
  hbPc       \* "call", "loop" or "done"

hbvars == <<hbGuests, hbEvents, hbDate, hbCount, hbPrev, hbLoads, hbPc>>

HBInit ==
  /\ hbGuests = <<>> /\ hbEvents = {} /\ hbLoads = <<>>
  /\ hbDate = 0 /\ hbCount = 0 /\ hbPrev = -1
  /\ hbPc = "call"

HBEarliest(events) == {e \in events : \A f \in events : e.date <= f.date}

\* The events, and the first of them after the sort.
HBComputeLoad ==
  /\ hbPc = "call"
  /\ hbGuests' \in HBGuestLists
  /\ hbEvents' = {[guest |-> i, in |-> arrives,
                   date |-> hbGuests'[i][IF arrives THEN 1 ELSE 2]] :
                    i \in DOMAIN hbGuests', arrives \in BOOLEAN}
  /\ IF hbEvents' = {}
     THEN hbPc' = "done" /\ UNCHANGED hbDate
     ELSE hbPc' = "loop" /\ hbDate' = (CHOOSE e \in HBEarliest(hbEvents') : TRUE).date
  /\ UNCHANGED <<hbCount, hbPrev, hbLoads>>

\* The first event of a later date ends the one before.
HBReport(event) ==
  \/ /\ event.date > hbDate /\ hbPrev # hbCount
     /\ hbLoads' = Append(hbLoads, <<hbDate, hbCount>>)
     /\ hbPrev' = hbCount
     /\ hbDate' = event.date
  \/ /\ event.date > hbDate /\ hbPrev = hbCount
     /\ hbDate' = event.date
     /\ UNCHANGED <<hbLoads, hbPrev>>
  \/ /\ event.date <= hbDate
     /\ UNCHANGED <<hbLoads, hbPrev, hbDate>>

HBEvent ==
  /\ hbPc = "loop"
  /\ \E event \in HBEarliest(hbEvents) :
       /\ hbEvents' = hbEvents \ {event}
       /\ HBReport(event)
       /\ hbCount' = IF event.in THEN hbCount + 1 ELSE hbCount - 1
  /\ UNCHANGED <<hbGuests, hbPc>>

\* The last date is appended whatever the one before says.
HBReturn ==
  /\ hbPc = "loop" /\ hbEvents = {}
  /\ hbLoads' = Append(hbLoads, <<hbDate, hbCount>>)
  /\ hbPc' = "done"
  /\ UNCHANGED <<hbGuests, hbEvents, hbDate, hbCount, hbPrev>>

HBNext == HBComputeLoad \/ HBEvent \/ HBReturn
-----------------------------------------------------------------------------
HBDates == {hbGuests[i][1] : i \in DOMAIN hbGuests} \union {hbGuests[i][2] : i \in DOMAIN hbGuests}
HBAt(date) ==
  Cardinality({i \in DOMAIN hbGuests : hbGuests[i][1] <= date /\ date < hbGuests[i][2]})
HBBefore(date) ==
  Cardinality({i \in DOMAIN hbGuests : hbGuests[i][1] < date /\ date <= hbGuests[i][2]})

\* hotelbusiness/README.md: the loads are the dates on which the number of guests
\* changes, each once and in order, with the number at dinner; provided that
\* every guest stays for a night.
HBLoadsExact ==
  hbPc = "done" /\ (\A i \in DOMAIN hbGuests : hbGuests[i][1] < hbGuests[i][2]) =>
    /\ {hbLoads[i][1] : i \in DOMAIN hbLoads} = {date \in HBDates : HBAt(date) # HBBefore(date)}
    /\ \A i, j \in DOMAIN hbLoads : i < j => hbLoads[i][1] < hbLoads[j][1]
    /\ \A i \in DOMAIN hbLoads : hbLoads[i][2] = HBAt(hbLoads[i][1])
=============================================================================
