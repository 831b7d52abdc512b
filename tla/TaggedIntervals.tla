-------------------------- MODULE TaggedIntervals ---------------------------
(***************************************************************************)
(* The methods of TaggedIntervalMap (data/tagged_interval_map.py) as       *)
(* operators on the sorted dictionary _map: a function from stops to the   *)
(* tags of the interval that begins there.  A bit mask of tags is the set  *)
(* of its bits; a bin is w = 2^nbits addresses wide.                       *)
(***************************************************************************)
EXTENDS Integers, FiniteSets, FiniteSetsExt

NoStops == <<>>

RoundDown(a, w) == (a \div w) * w

RoundUp(a, w) == RoundDown(a + w - 1, w)

\* bisect: the stops up to an address and those behind it.
UpTo(m, a)   == {s \in DOMAIN m : s <= a}
Behind(m, a) == {s \in DOMAIN m : s > a}

\* Where there is no stop the interval is split; before the first stop is no tag.
InsertStop(m, a) ==
    [s \in DOMAIN m \cup {a} |->
        IF s \in DOMAIN m THEN m[s]
        ELSE IF UpTo(m, a) = {} THEN {} ELSE m[Max(UpTo(m, a))]]

IsAlreadyCovered(m, lo, hi, tags) ==
    /\ UpTo(m, lo) # {}
    /\ Behind(m, lo) # {}
    /\ hi <= Min(Behind(m, lo))
    /\ m[Max(UpTo(m, lo))] = tags

TagRange(m, lo, hi, tags) ==
    [s \in DOMAIN m |-> IF lo <= s /\ s < hi THEN m[s] \cup tags ELSE m[s]]

\* Mutant of IrangeStops: the interval that spans the upper end is left out.
IrangeStopsShort(m, lo, hi) ==
    LET before == {s \in DOMAIN m : s < lo} IN
    {s \in DOMAIN m : (IF before = {} THEN Min(DOMAIN m) ELSE Max(before)) <= s /\ s <= hi}

\* The stops irange looks at: from the last one before lo, or else the first of
\* all, to the first one behind hi, or else the last of all.
IrangeStops(m, lo, hi) ==
    LET before == {s \in DOMAIN m : s < lo}
        first  == IF before = {} THEN Min(DOMAIN m) ELSE Max(before)
        last   == IF Behind(m, hi) = {} THEN Max(DOMAIN m) ELSE Min(Behind(m, hi))
    IN  {s \in DOMAIN m : first <= s /\ s <= last}

\* The intervals between neighbouring stops of S.
Between(m, S) ==
    {[addr |-> s, size |-> Min({t \in S : t > s}) - s, tags |-> m[s]] : s \in S \ {Max(S)}}

Irange(m, lo, hi) == IF m = NoStops THEN {} ELSE Between(m, IrangeStops(m, lo, hi))

\* Mutant of ExtraneousStops: the interval before the range is not looked at.
ExtraneousInside(m, lo, hi) ==
    {r.addr : r \in {r \in Irange(m, lo, hi) :
        \E q \in Irange(m, lo, hi) :
            lo <= q.addr /\ q.addr + q.size = r.addr /\ q.tags = r.tags}}

\* The intervals in reach of [lo, hi] with the tags of the one before them.
ExtraneousStops(m, lo, hi) ==
    {r.addr : r \in {r \in Irange(m, lo, hi) :
        \E q \in Irange(m, lo, hi) : q.addr + q.size = r.addr /\ q.tags = r.tags}}

EliminateExtraneousStops(m, lo, hi) ==
    Restrict(m, DOMAIN m \ ExtraneousStops(m, lo, hi))

\* add(addr, size, tags).
AddInterval(m, addr, size, tags, w) ==
    LET lo == RoundDown(addr, w)
        hi == RoundUp(addr + size, w)
    IN  IF size = 0 \/ IsAlreadyCovered(m, lo, hi, tags) THEN m
        ELSE EliminateExtraneousStops(
                 TagRange(InsertStop(InsertStop(m, lo), hi), lo, hi, tags), lo, hi)

\* What a map says of an address.
TagsAt(m, a) == IF UpTo(m, a) = {} THEN {} ELSE m[Max(UpTo(m, a))]
=============================================================================
