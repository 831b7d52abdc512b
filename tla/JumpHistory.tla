---------------------------- MODULE JumpHistory -----------------------------
(***************************************************************************)
(* The navigation history of a view (logic/disassembly/jump_history.py)    *)
(* and the operations of the disassembly view that use it.                 *)
(*                                                                         *)
(* _pos counts from 0 as in the code, -1 while the history is empty; the   *)
(* entry at position p is history[p + 1].                                  *)
(***************************************************************************)
EXTENDS Integers, Sequences

CONSTANTS
    Addr,     \* addresses
    NoAddr,   \* None
    MaxLen    \* bound on the length of the history

ASSUME HistoryAssumption == NoAddr \notin Addr /\ MaxLen \in Nat

VARIABLES
    history,  \* JumpHistory._history
    pos,      \* JumpHistory._pos
    shown,    \* the address the view was last told to show
    raised    \* whether the last operation raised IndexError

vars == <<history, pos, shown, raised>>

Init == history = <<>> /\ pos = -1 /\ shown = NoAddr /\ raised = FALSE

-----------------------------------------------------------------------------
(***************************************************************************)
(* The methods of JumpHistory, on a history h and a position p.            *)
(***************************************************************************)
State(h, p) == [history |-> h, pos |-> p]
InRange(h, p) == 0 <= p /\ p < Len(h)

Trim(h, p) == SubSeq(h, 1, p + 1)

\* Mutant of JumpTo: what lies ahead is not forgotten.
JumpToWithoutTrim(h, p, a) ==
    IF h = <<>> \/ h[Len(h)] # a THEN State(Append(h, a), Len(h)) ELSE State(h, p)

JumpTo(h, p, a) ==
    LET t == IF p # Len(h) - 1 THEN Trim(h, p) ELSE h IN
    IF t = <<>> \/ t[Len(t)] # a THEN State(Append(t, a), Len(t)) ELSE State(t, p)

RecordAddress(h, p, a) ==
    IF InRange(h, p) THEN State([h EXCEPT ![p + 1] = a], p) ELSE JumpTo(h, p, a)

BackPos(p) == IF p > 0 THEN p - 1 ELSE p

ForwardPos(h, p) == IF p < Len(h) - 1 THEN p + 1 ELSE p

StepPos(h, p, q) == IF -1 < q /\ q < Len(h) THEN q ELSE p

\* Mutant of Visit: no source is recorded.
VisitUnrecorded(h, p, src, a) == JumpTo(h, p, a)

\* jump_to of the disassembly view: record where it comes from, then jump.
Visit(h, p, src, a) ==
    IF src = NoAddr THEN JumpTo(h, p, a)
    ELSE LET r == RecordAddress(h, p, src) IN JumpTo(r.history, r.pos, a)

-----------------------------------------------------------------------------
(***************************************************************************)
(* The disassembly view.                                                   *)
(***************************************************************************)
\* The view shows the entry at the new position.
MoveTo(p) ==
    /\ pos' = p
    /\ shown' = history[p + 1]
    /\ raised' = FALSE
    /\ UNCHANGED history

\* h[p] in Python where the list h has no entry p.
IndexError == raised' = TRUE /\ UNCHANGED <<history, pos, shown>>

\* jump_to with or without a source, display_function without.
ViewJumpTo(src, a) ==
    LET s == Visit(history, pos, src, a) IN
    /\ Len(s.history) <= MaxLen
    /\ history' = s.history
    /\ pos' = s.pos
    /\ shown' = a
    /\ raised' = FALSE

\* backtrack returns None when there is no entry at the new position.
ViewJumpBack ==
    \/ InRange(history, BackPos(pos)) /\ MoveTo(BackPos(pos))
    \/ /\ ~InRange(history, BackPos(pos))
       /\ pos' = BackPos(pos)
       /\ raised' = FALSE
       /\ UNCHANGED <<history, shown>>

\* forwardstep tests only the upper bound.
ViewJumpForward ==
    \/ InRange(history, ForwardPos(history, pos)) /\ MoveTo(ForwardPos(history, pos))
    \/ ~InRange(history, ForwardPos(history, pos)) /\ IndexError

\* The entries of the menu are positions of the history when it was opened.
ViewJumpToPosition(q) ==
    \/ InRange(history, StepPos(history, pos, q)) /\ MoveTo(StepPos(history, pos, q))
    \/ ~InRange(history, StepPos(history, pos, q)) /\ IndexError

Next ==
    \/ \E src \in Addr \cup {NoAddr}, a \in Addr : ViewJumpTo(src, a)
    \/ ViewJumpBack \/ ViewJumpForward
    \/ \E q \in 0..(MaxLen - 1) : ViewJumpToPosition(q)

Spec == Init /\ [][Next]_vars

-----------------------------------------------------------------------------
TypeOK ==
    /\ history \in Seq(Addr)
    /\ pos \in Int
    /\ shown \in Addr \cup {NoAddr}
    /\ raised \in BOOLEAN

\* The position is a valid one as soon as there is an entry, so `current`, the
\* menu and both steps index the list safely.
PosInRange == IF history = <<>> THEN pos = -1 ELSE InRange(history, pos)

\* The view shows the entry the history points at.
ShownIsCurrent == shown = IF history = <<>> THEN NoAddr ELSE history[pos + 1]

\* Going back after following a reference returns to the instruction it was
\* followed from, and going forward again to its target.
BackReturnsToSource ==
    \A src, a \in Addr : src # a =>
        LET s == Visit(history, pos, src, a)
            b == BackPos(s.pos)
        IN  /\ s.history[b + 1] = src
            /\ ForwardPos(s.history, b) = s.pos
            /\ s.history[s.pos + 1] = a

\* No operation changes an entry behind the current one: it can only be left
\* out when the user has stepped back behind it and then jumps.
PastIsKept ==
    [][\A i \in 1..pos : i <= Len(history') /\ history'[i] = history[i]]_vars

\* Stepping forward and jumping to an entry of an old menu index the list with
\* no test of their own; they raise only in a view that has shown nothing yet.
RaisesOnlyWhenEmpty == raised => history = <<>>

Split == INSTANCE BrowserHistory WITH
    past   <- SubSeq(history, 1, pos),
    here   <- IF history = <<>> THEN NoAddr ELSE history[pos + 1],
    future <- SubSeq(history, pos + 2, Len(history))

\* The list and the position are a past, an address shown and a future.
ImplementsBrowserHistory == Split!Spec
=============================================================================
