--------------------------- MODULE BrowserHistory ---------------------------
(***************************************************************************)
(* What a navigation history promises: the addresses left behind, the one  *)
(* shown, and the ones a step back has put ahead.  Visiting an address     *)
(* forgets what was ahead; stepping only moves addresses from one side to  *)
(* the other, in order.                                                    *)
(***************************************************************************)
EXTENDS Naturals, Sequences

CONSTANTS Addr, NoAddr

VARIABLES
    past,    \* addresses behind, the most recent last
    here,    \* the address shown, NoAddr before the first visit
    future   \* addresses ahead, the nearest first

vars == <<past, here, future>>

Init == past = <<>> /\ here = NoAddr /\ future = <<>>

\* The address shown is replaced by a more precise one.
Amend(a) == here # NoAddr /\ here' = a /\ UNCHANGED <<past, future>>

\* A new address is visited, after the one shown was amended to src.
VisitFrom(src, a) ==
    /\ past' = IF here = NoAddr \/ src = a THEN past ELSE Append(past, src)
    /\ here' = a
    /\ future' = <<>>

\* A view that knows no source visits a from what it shows.
Visit(a) == VisitFrom(here, a)

\* The first visit of a view that already knows its source.
FirstVisitFrom(src, a) ==
    /\ here = NoAddr
    /\ past' = IF src = a THEN <<>> ELSE <<src>>
    /\ here' = a
    /\ future' = <<>>

\* n steps back, or n steps ahead.
Back(n) ==
    /\ n \in 1..Len(past)
    /\ LET k == Len(past) - n + 1 IN
         /\ here' = past[k]
         /\ past' = SubSeq(past, 1, k - 1)
         /\ future' = SubSeq(past, k + 1, Len(past)) \o <<here>> \o future

Ahead(n) ==
    /\ n \in 1..Len(future)
    /\ past' = past \o <<here>> \o SubSeq(future, 1, n - 1)
    /\ here' = future[n]
    /\ future' = SubSeq(future, n + 1, Len(future))

Next ==
    \/ \E a \in Addr : Visit(a)
    \/ \E src, a \in Addr : VisitFrom(src, a) \/ FirstVisitFrom(src, a)
    \/ \E n \in 1..(Len(past) + Len(future)) : Back(n) \/ Ahead(n)

Spec == Init /\ [][Next]_vars
=============================================================================
