-------------------------- MODULE DisassemblyProofs --------------------------
(***************************************************************************)
(* Theorems about the disassembly view: its history (JumpHistory), then its *)
(* graph and its linear viewer (DisassemblyView, LinearViewer), for any     *)
(* regions, code, window and bounds.                                       *)
(***************************************************************************)
EXTENDS DisassemblyView, SequenceTheorems, FiniteSetTheorems, WellFoundedInduction, TLAPS

\* A history and a position that belong together.
Valid(h, p) ==
    /\ h \in Seq(Addr)
    /\ p \in Int
    /\ IF h = <<>> THEN p = -1 ELSE InRange(h, p)

\* Trimming a valid history keeps everything up to the position.
LEMMA TrimKeepsPast ==
    ASSUME NEW h, NEW p, Valid(h, p)
    PROVE  /\ Trim(h, p) \in Seq(Addr)
           /\ Len(Trim(h, p)) = p + 1
           /\ \A i \in 1..(p + 1) : Trim(h, p)[i] = h[i]
  <1>1. Len(h) \in Nat /\ (h = <<>> => Len(h) = 0)
    BY LenProperties, EmptySeq DEF Valid
  <1>2. p + 1 \in Nat /\ p + 1 <= Len(h)
    BY <1>1 DEF Valid, InRange
  <1>3. \A i \in 1..(p + 1) : h[i] \in Addr
    BY <1>1, <1>2, ElementOfSeq DEF Valid
  <1>4. SubSeq(h, 1, p + 1) \in Seq(Addr)
    BY <1>2, <1>3, SubSeqProperties
  <1>5. /\ Len(SubSeq(h, 1, p + 1)) = p + 1
        /\ \A i \in 1..(p + 1) : SubSeq(h, 1, p + 1)[i] = h[i]
    BY <1>2, <1>3, SubSeqProperties
  <1> QED BY <1>4, <1>5 DEF Trim

\* A jump ends at the address jumped to, at the end of the list, with every
\* entry behind the old position in place.
LEMMA JumpToLands ==
    ASSUME NEW h, NEW p, Valid(h, p), NEW a \in Addr
    PROVE  LET s == JumpTo(h, p, a) IN
           /\ Valid(s.history, s.pos)
           /\ s.history # <<>>
           /\ s.history[s.pos + 1] = a
           /\ \A i \in 1..p : i <= Len(s.history) /\ s.history[i] = h[i]
  <1> DEFINE t == IF p # Len(h) - 1 THEN Trim(h, p) ELSE h
             s == JumpTo(h, p, a)
  <1>1. p \in Int /\ Len(h) \in Nat /\ (h = <<>> <=> Len(h) = 0)
    BY LenProperties, EmptySeq DEF Valid
  <1>2. /\ t \in Seq(Addr) /\ Len(t) = p + 1
        /\ \A i \in 1..(p + 1) : t[i] = h[i]
    BY <1>1, TrimKeepsPast DEF Valid
  <1>3. t = <<>> <=> p + 1 = 0
    BY <1>2, LenProperties, EmptySeq
  <1>4. p >= -1
    BY DEF Valid, InRange
  <1>5. s = IF t = <<>> \/ t[Len(t)] # a THEN State(Append(t, a), Len(t)) ELSE State(t, p)
    BY DEF JumpTo
  <1> HIDE DEF t, s
  <1>6. CASE t = <<>> \/ t[Len(t)] # a
    <2>1. s.history = Append(t, a) /\ s.pos = p + 1
      BY <1>2, <1>5, <1>6 DEF State
    <2>2. /\ Append(t, a) \in Seq(Addr) /\ Append(t, a) # <<>> /\ Len(Append(t, a)) = p + 2
          /\ \A i \in 1..(p + 1) : Append(t, a)[i] = t[i]
          /\ Append(t, a)[p + 2] = a
      BY <1>1, <1>2, <1>4, AppendProperties
    <2>3. \A i \in 1..p : i \in 1..(p + 1)
      BY <1>1
    <2>4. \A i \in 1..p : i <= p + 2 /\ Append(t, a)[i] = h[i]
      BY <1>1, <1>2, <2>2, <2>3
    <2>5. Valid(s.history, s.pos)
      BY <1>1, <1>4, <2>1, <2>2 DEF Valid, InRange
    <2>6. s.history # <<>> /\ s.history[s.pos + 1] = a /\ Len(s.history) = p + 2
      BY <1>1, <2>1, <2>2
    <2>7. \A i \in 1..p : i <= Len(s.history) /\ s.history[i] = h[i]
      BY <2>1, <2>4, <2>6
    <2> QED BY <2>5, <2>6, <2>7 DEF s
  <1>7. CASE ~(t = <<>> \/ t[Len(t)] # a)
    <2>1. s.history = t /\ s.pos = p /\ t # <<>> /\ t[p + 1] = a
      BY <1>2, <1>5, <1>7 DEF State
    <2>2. p >= 0
      BY <1>1, <1>3, <1>4, <2>1
    <2> QED BY <1>1, <1>2, <2>1, <2>2 DEF Valid, InRange, s
  <1> QED BY <1>6, <1>7

\* Recording an address changes at most the current entry.
LEMMA RecordKeepsPast ==
    ASSUME NEW h, NEW p, Valid(h, p), NEW a \in Addr
    PROVE  LET s == RecordAddress(h, p, a) IN
           /\ Valid(s.history, s.pos)
           /\ s.pos >= p
           /\ \A i \in 1..p : i <= Len(s.history) /\ s.history[i] = h[i]
  <1>1. CASE InRange(h, p)
    <2>1. RecordAddress(h, p, a) = State([h EXCEPT ![p + 1] = a], p)
      BY <1>1 DEF RecordAddress
    <2>2. p + 1 \in 1..Len(h) /\ Len(h) \in Nat
      BY <1>1, LenProperties DEF InRange, Valid
    <2>3. /\ [h EXCEPT ![p + 1] = a] \in Seq(Addr)
          /\ Len([h EXCEPT ![p + 1] = a]) = Len(h)
          /\ \A j \in 1..Len(h) : [h EXCEPT ![p + 1] = a][j] = IF j = p + 1 THEN a ELSE h[j]
      BY <2>2, ExceptSeq DEF Valid
    <2>4. [h EXCEPT ![p + 1] = a] # <<>>
      BY <2>2, <2>3, EmptySeq
    <2>5. \A i \in 1..p : i \in 1..Len(h) /\ i # p + 1
      BY <2>2 DEF Valid
    <2> QED BY <1>1, <2>1, <2>2, <2>3, <2>4, <2>5 DEF State, Valid, InRange
  <1>2. CASE ~InRange(h, p)
    <2>1. RecordAddress(h, p, a) = JumpTo(h, p, a) /\ p = -1
      BY <1>2 DEF RecordAddress, Valid
    <2> QED BY <2>1, JumpToLands DEF Valid, InRange
  <1> QED BY <1>1, <1>2

\* So does following a reference, up to the entry it is followed from.
LEMMA VisitLands ==
    ASSUME NEW h, NEW p, Valid(h, p), NEW src \in Addr \cup {NoAddr}, NEW a \in Addr
    PROVE  LET s == Visit(h, p, src, a) IN
           /\ Valid(s.history, s.pos)
           /\ s.history # <<>>
           /\ s.history[s.pos + 1] = a
           /\ \A i \in 1..p : i <= Len(s.history) /\ s.history[i] = h[i]
  <1>1. CASE src = NoAddr
    BY <1>1, JumpToLands DEF Visit
  <1>2. CASE src # NoAddr
    <2> DEFINE r == RecordAddress(h, p, src)
               s == JumpTo(r.history, r.pos, a)
    <2>1. /\ Valid(r.history, r.pos) /\ r.pos >= p
          /\ \A i \in 1..p : i <= Len(r.history) /\ r.history[i] = h[i]
      BY <1>2, RecordKeepsPast
    <2>2. /\ Valid(s.history, s.pos) /\ s.history # <<>> /\ s.history[s.pos + 1] = a
          /\ \A i \in 1..r.pos : i <= Len(s.history) /\ s.history[i] = r.history[i]
      BY <2>1, JumpToLands
    <2>3. Visit(h, p, src, a) = s
      BY <1>2 DEF Visit
    <2>4. p \in Int /\ r.pos \in Int
      BY <2>1 DEF Valid
    <2> HIDE DEF r, s
    <2>5. \A i \in 1..p : i \in 1..r.pos
      BY <2>1, <2>4
    <2> QED BY <2>1, <2>2, <2>3, <2>5
  <1> QED BY <1>1, <1>2

\* A jump away from the entry the position names puts its target right after it.
LEMMA JumpToFollows ==
    ASSUME NEW h, NEW p, Valid(h, p), h # <<>>, NEW a \in Addr, h[p + 1] # a
    PROVE  LET s == JumpTo(h, p, a) IN
           /\ s.pos = p + 1 /\ Len(s.history) = p + 2
           /\ s.history[p + 1] = h[p + 1] /\ s.history[p + 2] = a
  <1> DEFINE t == IF p # Len(h) - 1 THEN Trim(h, p) ELSE h
             s == JumpTo(h, p, a)
  <1>1. p \in Int /\ p >= 0 /\ Len(h) \in Nat
    BY LenProperties DEF Valid, InRange
  <1>2. /\ t \in Seq(Addr) /\ Len(t) = p + 1
        /\ \A i \in 1..(p + 1) : t[i] = h[i]
    BY <1>1, TrimKeepsPast DEF Valid
  <1>3. t[p + 1] = h[p + 1]
    BY <1>1, <1>2
  <1>4. s = IF t = <<>> \/ t[Len(t)] # a THEN State(Append(t, a), Len(t)) ELSE State(t, p)
    BY DEF JumpTo
  <1> HIDE DEF t, s
  <1>5. s.history = Append(t, a) /\ s.pos = p + 1
    BY <1>2, <1>3, <1>4 DEF State
  <1>6. /\ Len(Append(t, a)) = p + 2 /\ Append(t, a)[p + 2] = a
        /\ \A i \in 1..(p + 1) : Append(t, a)[i] = t[i]
    BY <1>1, <1>2, AppendProperties
  <1>7. Append(t, a)[p + 1] = t[p + 1]
    BY <1>1, <1>6
  <1> QED BY <1>3, <1>5, <1>6, <1>7 DEF s

\* A recorded address is the one the position names.
LEMMA RecordLands ==
    ASSUME NEW h, NEW p, Valid(h, p), NEW a \in Addr
    PROVE  LET s == RecordAddress(h, p, a) IN
           Valid(s.history, s.pos) /\ s.history # <<>> /\ s.history[s.pos + 1] = a
  <1>1. CASE InRange(h, p)
    <2>1. RecordAddress(h, p, a) = State([h EXCEPT ![p + 1] = a], p)
      BY <1>1 DEF RecordAddress
    <2>2. p + 1 \in 1..Len(h) /\ Len(h) \in Nat
      BY <1>1, LenProperties DEF InRange, Valid
    <2>3. /\ [h EXCEPT ![p + 1] = a] \in Seq(Addr)
          /\ Len([h EXCEPT ![p + 1] = a]) = Len(h)
          /\ \A j \in 1..Len(h) : [h EXCEPT ![p + 1] = a][j] = IF j = p + 1 THEN a ELSE h[j]
      BY <2>2, ExceptSeq DEF Valid
    <2>4. [h EXCEPT ![p + 1] = a] # <<>>
      BY <2>2, <2>3, EmptySeq
    <2>5. [h EXCEPT ![p + 1] = a][p + 1] = a
      BY <2>2, <2>3
    <2> QED BY <1>1, <2>1, <2>2, <2>3, <2>4, <2>5 DEF State, Valid, InRange
  <1>2. CASE ~InRange(h, p)
    BY <1>2, JumpToLands DEF RecordAddress
  <1> QED BY <1>1, <1>2

-----------------------------------------------------------------------------
(***************************************************************************)
(* The invariant is inductive: history and position belong together and    *)
(* the view shows the entry the position names.                            *)
(***************************************************************************)
HistoryInv == TypeOK /\ PosInRange /\ ShownIsCurrent

LEMMA InvIsValid == HistoryInv => Valid(history, pos)
  BY DEF HistoryInv, TypeOK, PosInRange, Valid

LEMMA InitHistoryInv == Init => HistoryInv
  <1> SUFFICES ASSUME Init PROVE HistoryInv
    OBVIOUS
  <1>1. history \in Seq(Addr)
    BY EmptySeq DEF Init
  <1>2. TypeOK
    <2>1. pos \in Int
      BY SMT DEF Init
    <2>2. raised \in BOOLEAN /\ shown \in Addr \cup {NoAddr}
      BY Zenon DEF Init
    <2> QED BY <1>1, <2>1, <2>2, Zenon DEF TypeOK
  <1>3. PosInRange /\ ShownIsCurrent
    BY DEF Init, PosInRange, ShownIsCurrent
  <1> QED BY <1>2, <1>3 DEF HistoryInv

LEMMA MoveToInv ==
    ASSUME HistoryInv, NEW p \in Int, InRange(history, p), MoveTo(p)
    PROVE  HistoryInv'
  <1>1. Len(history) \in Nat /\ (history = <<>> => Len(history) = 0)
    BY LenProperties, EmptySeq DEF HistoryInv, TypeOK
  <1>2. p + 1 \in 1..Len(history)
    BY <1>1 DEF InRange
  <1>3. history[p + 1] \in Addr /\ history # <<>>
    BY <1>1, <1>2, ElementOfSeq DEF HistoryInv, TypeOK
  <1> QED BY <1>3 DEF MoveTo, HistoryInv, TypeOK, PosInRange, ShownIsCurrent, InRange

LEMMA NextHistoryInv == HistoryInv /\ [Next]_vars => HistoryInv'
  <1> SUFFICES ASSUME HistoryInv, [Next]_vars PROVE HistoryInv'
    OBVIOUS
  <1>v. Valid(history, pos) /\ Len(history) \in Nat /\ (history = <<>> <=> Len(history) = 0)
    BY InvIsValid, LenProperties, EmptySeq DEF Valid
  <1>1. ASSUME NEW src \in Addr \cup {NoAddr}, NEW a \in Addr, ViewJumpTo(src, a)
        PROVE  HistoryInv'
    <2> DEFINE s == Visit(history, pos, src, a)
    <2>1. Valid(s.history, s.pos) /\ s.history # <<>> /\ s.history[s.pos + 1] = a
      BY <1>v, VisitLands
    <2>2. history' = s.history /\ pos' = s.pos /\ shown' = a /\ raised' = FALSE
      BY <1>1 DEF ViewJumpTo
    <2> HIDE DEF s
    <2> QED BY <2>1, <2>2 DEF Valid, HistoryInv, TypeOK, PosInRange, ShownIsCurrent, InRange
  <1>2. CASE ViewJumpBack
    <2>1. BackPos(pos) \in Int /\ (InRange(history, pos) => InRange(history, BackPos(pos)))
      BY <1>v DEF BackPos, Valid, InRange
    <2>2. CASE InRange(history, BackPos(pos)) /\ MoveTo(BackPos(pos))
      BY <2>1, <2>2, MoveToInv
    <2>3. CASE /\ ~InRange(history, BackPos(pos)) /\ pos' = BackPos(pos)
               /\ raised' = FALSE /\ UNCHANGED <<history, shown>>
      <3>1. history = <<>> /\ pos = -1
        BY <2>1, <2>3 DEF HistoryInv, PosInRange
      <3>2. pos' = pos
        BY <2>3, <3>1 DEF BackPos
      <3>3. raised' \in BOOLEAN
        BY <2>3, Zenon
      <3> QED BY <2>3, <3>2, <3>3 DEF HistoryInv, TypeOK, PosInRange, ShownIsCurrent, InRange
    <2> QED BY <1>2, <2>2, <2>3 DEF ViewJumpBack
  <1>3. CASE ViewJumpForward
    <2>1. CASE InRange(history, ForwardPos(history, pos)) /\ MoveTo(ForwardPos(history, pos))
      BY <1>v, <2>1, MoveToInv DEF ForwardPos, HistoryInv, TypeOK
    <2>2. CASE IndexError
      BY <2>2 DEF IndexError, HistoryInv, TypeOK, PosInRange, ShownIsCurrent, InRange
    <2> QED BY <1>3, <2>1, <2>2 DEF ViewJumpForward
  <1>4. ASSUME NEW q \in 0..(MaxLen - 1), ViewJumpToPosition(q) PROVE HistoryInv'
    <2>1. CASE InRange(history, StepPos(history, pos, q)) /\ MoveTo(StepPos(history, pos, q))
      <3>1. StepPos(history, pos, q) \in Int
        BY <1>v, HistoryAssumption DEF StepPos, Valid
      <3> QED BY <2>1, <3>1, MoveToInv
    <2>2. CASE IndexError
      BY <2>2 DEF IndexError, HistoryInv, TypeOK, PosInRange, ShownIsCurrent, InRange
    <2> QED BY <1>4, <2>1, <2>2 DEF ViewJumpToPosition
  <1>5. CASE UNCHANGED vars
    BY <1>5 DEF vars, HistoryInv, TypeOK, PosInRange, ShownIsCurrent, InRange
  <1> QED BY <1>1, <1>2, <1>3, <1>4, <1>5 DEF Next

LEMMA SpecHistoryInv == Spec => []HistoryInv
  BY InitHistoryInv, NextHistoryInv, PTL DEF Spec

\* The position is a valid index of every non-empty history, for any number of
\* addresses and histories of any length.
THEOREM PosAlwaysInRange == Spec => []PosInRange
  BY SpecHistoryInv, PTL DEF HistoryInv

\* The view always shows the entry the history points at.
THEOREM ShownAlwaysCurrent == Spec => []ShownIsCurrent
  BY SpecHistoryInv, PTL DEF HistoryInv

\* No operation indexes a history that has entries outside of its bounds.
THEOREM RaisesOnEmptyOnly == Spec => []RaisesOnlyWhenEmpty
  <1>1. Init => RaisesOnlyWhenEmpty
    BY DEF Init, RaisesOnlyWhenEmpty
  <1>2. HistoryInv /\ RaisesOnlyWhenEmpty /\ [Next]_vars => RaisesOnlyWhenEmpty'
    <2> SUFFICES ASSUME HistoryInv, RaisesOnlyWhenEmpty, [Next]_vars
                 PROVE  RaisesOnlyWhenEmpty'
      OBVIOUS
    <2>v. Valid(history, pos) /\ Len(history) \in Nat /\ (history = <<>> <=> Len(history) = 0)
      BY InvIsValid, LenProperties, EmptySeq DEF Valid
    <2>1. ASSUME NEW src \in Addr \cup {NoAddr}, NEW a \in Addr, ViewJumpTo(src, a)
          PROVE  RaisesOnlyWhenEmpty'
      BY <2>1, Zenon DEF ViewJumpTo, RaisesOnlyWhenEmpty
    <2>2. CASE ViewJumpBack
      BY <2>2, Zenon DEF ViewJumpBack, MoveTo, RaisesOnlyWhenEmpty
    <2>3. CASE ViewJumpForward
      <3>1. history # <<>> => InRange(history, ForwardPos(history, pos))
        BY <2>v DEF ForwardPos, Valid, InRange
      <3> QED BY <2>3, <3>1, Zenon DEF ViewJumpForward, MoveTo, IndexError, RaisesOnlyWhenEmpty
    <2>4. ASSUME NEW q \in 0..(MaxLen - 1), ViewJumpToPosition(q) PROVE RaisesOnlyWhenEmpty'
      <3>1. history # <<>> => InRange(history, StepPos(history, pos, q))
        BY <2>v, HistoryAssumption DEF StepPos, Valid, InRange
      <3> QED BY <2>4, <3>1, Zenon DEF ViewJumpToPosition, MoveTo, IndexError, RaisesOnlyWhenEmpty
    <2>5. CASE UNCHANGED vars
      BY <2>5, Zenon DEF vars, RaisesOnlyWhenEmpty
    <2> QED BY <2>1, <2>2, <2>3, <2>4, <2>5 DEF Next
  <1> QED BY <1>1, <1>2, SpecHistoryInv, PTL DEF Spec

\* No step changes an entry behind the current one.
THEOREM PastAlwaysKept == Spec => PastIsKept
  <1> DEFINE Kept == \A i \in 1..pos : i <= Len(history') /\ history'[i] = history[i]
  <1>1. HistoryInv /\ [Next]_vars => [Kept]_vars
    <2> SUFFICES ASSUME HistoryInv, Next PROVE Kept
      OBVIOUS
    <2>v. Valid(history, pos) /\ Len(history) \in Nat /\ (history = <<>> <=> Len(history) = 0)
      BY InvIsValid, LenProperties, EmptySeq DEF Valid
    <2>1. ASSUME NEW src \in Addr \cup {NoAddr}, NEW a \in Addr, ViewJumpTo(src, a)
          PROVE  Kept
      <3> DEFINE s == Visit(history, pos, src, a)
      <3>1. /\ Valid(s.history, s.pos)
            /\ s.history # <<>>
            /\ s.history[s.pos + 1] = a
            /\ \A i \in 1..pos : i <= Len(s.history) /\ s.history[i] = history[i]
        BY <2>v, VisitLands
      <3>2. history' = s.history
        BY <2>1 DEF ViewJumpTo
      <3> HIDE DEF s
      <3> QED BY <3>1, <3>2, Zenon
    <2>2. CASE UNCHANGED history
      <3>1. \A i \in 1..pos : i <= Len(history)
        BY <2>v DEF Valid, InRange
      <3> QED BY <2>2, <3>1
    <2> QED BY <2>1, <2>2 DEF Next, ViewJumpBack, ViewJumpForward, ViewJumpToPosition,
               MoveTo, IndexError
  <1>2. [][HistoryInv /\ [Next]_vars => [Kept]_vars]_vars
    BY <1>1, PTL
  <1> QED BY <1>1, SpecHistoryInv, PTL DEF Spec, PastIsKept

\* Back after following a reference is where it was followed from, and forward
\* again is its target, in every history the view can have.
THEOREM BackAlwaysReturnsToSource == Spec => []BackReturnsToSource
  <1>1. HistoryInv => BackReturnsToSource
    <2> SUFFICES ASSUME HistoryInv, NEW src \in Addr, NEW a \in Addr, src # a
                 PROVE  LET s == Visit(history, pos, src, a)
                            b == BackPos(s.pos)
                        IN  /\ s.history[b + 1] = src
                            /\ ForwardPos(s.history, b) = s.pos
                            /\ s.history[s.pos + 1] = a
      BY DEF BackReturnsToSource
    <2> DEFINE r == RecordAddress(history, pos, src)
               s == JumpTo(r.history, r.pos, a)
    <2>1. src # NoAddr
      BY HistoryAssumption
    <2>2. Visit(history, pos, src, a) = s
      BY <2>1 DEF Visit
    <2>3. Valid(r.history, r.pos) /\ r.history # <<>> /\ r.history[r.pos + 1] = src
      BY InvIsValid, RecordLands
    <2> HIDE DEF r
    <2>4. /\ s.pos = r.pos + 1 /\ Len(s.history) = r.pos + 2
          /\ s.history[r.pos + 1] = src /\ s.history[r.pos + 2] = a
      BY <2>3, JumpToFollows
    <2>5. r.pos \in Int /\ r.pos >= 0
      BY <2>3 DEF Valid, InRange
    <2> HIDE DEF s
    <2>6. BackPos(s.pos) = r.pos /\ ForwardPos(s.history, r.pos) = s.pos
      BY <2>4, <2>5 DEF BackPos, ForwardPos
    <2>7. s.history[s.pos + 1] = a
      BY <2>4, <2>5
    <2> QED BY <2>2, <2>4, <2>6, <2>7
  <1> QED BY <1>1, SpecHistoryInv, PTL

-----------------------------------------------------------------------------
(***************************************************************************)
(* JumpHistory implements BrowserHistory: what is up to the position is    *)
(* the past, then comes the address shown, then the future.                *)
(***************************************************************************)
\* A part of a history, element by element.
LEMMA PartOfHistory ==
    ASSUME NEW h \in Seq(Addr), NEW m \in Int, NEW n \in Int, m >= 1, n <= Len(h)
    PROVE  /\ SubSeq(h, m, n) \in Seq(Addr)
           /\ Len(SubSeq(h, m, n)) = IF m <= n THEN n - m + 1 ELSE 0
           /\ \A i \in 1..(n - m + 1) : SubSeq(h, m, n)[i] = h[m + i - 1]
  <1>1. \A i \in m..n : i \in 1..Len(h)
    BY LenProperties
  <1>2. \A i \in m..n : h[i] \in Addr
    BY <1>1, ElementOfSeq
  <1> QED BY <1>2, SubSeqProperties

\* The entries before the next position are the past and the current entry.
LEMMA PastGrows ==
    ASSUME NEW h \in Seq(Addr), NEW p \in Int, InRange(h, p)
    PROVE  SubSeq(h, 1, p + 1) = Append(SubSeq(h, 1, p), h[p + 1])
  <1>1. p + 1 \in 1..Len(h) /\ Len(h) \in Nat
    BY LenProperties DEF InRange
  <1>2. h[p + 1] \in Addr
    BY <1>1, ElementOfSeq
  <1>3. /\ SubSeq(h, 1, p) \in Seq(Addr) /\ Len(SubSeq(h, 1, p)) = p
        /\ \A i \in 1..p : SubSeq(h, 1, p)[i] = h[i]
    BY <1>1, PartOfHistory
  <1>4. /\ SubSeq(h, 1, p + 1) \in Seq(Addr) /\ Len(SubSeq(h, 1, p + 1)) = p + 1
        /\ \A i \in 1..(p + 1) : SubSeq(h, 1, p + 1)[i] = h[i]
    BY <1>1, PartOfHistory
  <1>5. /\ Append(SubSeq(h, 1, p), h[p + 1]) \in Seq(Addr)
        /\ Len(Append(SubSeq(h, 1, p), h[p + 1])) = p + 1
        /\ \A i \in 1..p : Append(SubSeq(h, 1, p), h[p + 1])[i] = h[i]
        /\ Append(SubSeq(h, 1, p), h[p + 1])[p + 1] = h[p + 1]
    BY <1>2, <1>3, AppendProperties
  <1>6. \A i \in 1..(p + 1) : SubSeq(h, 1, p + 1)[i] = Append(SubSeq(h, 1, p), h[p + 1])[i]
    BY <1>1, <1>4, <1>5
  <1> QED BY <1>4, <1>5, <1>6, SeqEqual

\* Two histories that agree up to a position have the same past there.
LEMMA SamePast ==
    ASSUME NEW h \in Seq(Addr), NEW g \in Seq(Addr), NEW p \in Int,
           p <= Len(h), p <= Len(g), \A i \in 1..p : h[i] = g[i]
    PROVE  SubSeq(h, 1, p) = SubSeq(g, 1, p)
  <1>1. /\ SubSeq(h, 1, p) \in Seq(Addr) /\ SubSeq(g, 1, p) \in Seq(Addr)
        /\ Len(SubSeq(h, 1, p)) = Len(SubSeq(g, 1, p))
        /\ \A i \in 1..p : SubSeq(h, 1, p)[i] = h[i] /\ SubSeq(g, 1, p)[i] = g[i]
    BY PartOfHistory
  <1>2. \A i \in 1..Len(SubSeq(h, 1, p)) : i \in 1..p
    BY PartOfHistory
  <1> QED BY <1>1, <1>2, SeqEqual

\* A state that shows a, has the given past and nothing ahead.
Splits(s, past, a) ==
    /\ s.history \in Seq(Addr) /\ s.history # <<>>
    /\ s.pos + 1 = Len(s.history) /\ s.history[s.pos + 1] = a
    /\ SubSeq(s.history, 1, s.pos) = past

\* What is behind a view of h at p that leaves the address from for a.
Left(h, p, from, a) ==
    IF from = NoAddr \/ from = a THEN SubSeq(h, 1, p) ELSE Append(SubSeq(h, 1, p), from)

\* The address a view of h at p shows.
ShownAt(h, p) == IF h = <<>> THEN NoAddr ELSE h[p + 1]

\* What a jump leaves: the past up to the current entry, and nothing ahead.
LEMMA JumpSplits ==
    ASSUME NEW h, NEW p, Valid(h, p), NEW a \in Addr
    PROVE  Splits(JumpTo(h, p, a), Left(h, p, ShownAt(h, p), a), a)
  <1> DEFINE s == JumpTo(h, p, a)
  <1> DEFINE t == IF p # Len(h) - 1 THEN Trim(h, p) ELSE h
  <1>1. p \in Int /\ p >= -1 /\ Len(h) \in Nat /\ h \in Seq(Addr) /\ p < Len(h)
    BY LenProperties, EmptySeq DEF Valid, InRange
  <1>2. /\ t \in Seq(Addr) /\ Len(t) = p + 1
        /\ \A i \in 1..(p + 1) : t[i] = h[i]
    BY <1>1, TrimKeepsPast
  <1>3. s = IF t = <<>> \/ t[Len(t)] # a THEN State(Append(t, a), Len(t)) ELSE State(t, p)
    BY DEF JumpTo
  <1>4. t = <<>> <=> p = -1
    BY <1>1, <1>2, EmptySeq
  <1>5. h = <<>> <=> p = -1
    BY <1>1 DEF Valid, InRange
  <1>6. p >= 0 => t[Len(t)] = h[p + 1]
    BY <1>1, <1>2
  <1>h. h # <<>> => h[p + 1] # NoAddr
    <2>1. h # <<>> => h[p + 1] \in Addr
      BY <1>1, ElementOfSeq DEF Valid, InRange
    <2> QED BY <2>1, HistoryAssumption
  <1>l. Left(h, p, ShownAt(h, p), a) =
          IF h = <<>> \/ h[p + 1] = a THEN SubSeq(h, 1, p) ELSE Append(SubSeq(h, 1, p), h[p + 1])
    BY <1>h DEF Left, ShownAt
  <1> HIDE DEF s, t
  <1> SUFFICES Splits(s, IF h = <<>> \/ h[p + 1] = a THEN SubSeq(h, 1, p)
                         ELSE Append(SubSeq(h, 1, p), h[p + 1]), a)
    BY <1>l DEF s
  <1> USE DEF Splits
  <1>7. CASE h = <<>> \/ h[p + 1] # a
    <2>1. s.history = Append(t, a) /\ s.pos = p + 1
      BY <1>2, <1>3, <1>4, <1>5, <1>6, <1>1, <1>7 DEF State
    <2>2. /\ Append(t, a) \in Seq(Addr) /\ Len(Append(t, a)) = p + 2 /\ Append(t, a) # <<>>
          /\ Append(t, a)[p + 2] = a /\ \A i \in 1..(p + 1) : Append(t, a)[i] = h[i]
      BY <1>1, <1>2, AppendProperties
    <2>3. SubSeq(Append(t, a), 1, p + 1) = SubSeq(h, 1, p + 1)
      BY <1>1, <2>2, SamePast
    <2>4. CASE h = <<>>
      <3>1. SubSeq(h, 1, p + 1) = SubSeq(h, 1, p)
        BY <1>1, <1>5, <2>4, PartOfHistory, EmptySeq
      <3> QED BY <2>1, <2>2, <2>3, <2>4, <3>1, <1>1
    <2>5. CASE h # <<>>
      <3>1. InRange(h, p)
        BY <1>1, <1>5, <2>5 DEF InRange
      <3>2. SubSeq(h, 1, p + 1) = Append(SubSeq(h, 1, p), h[p + 1])
        BY <1>1, <3>1, PastGrows
      <3>3. s.pos + 1 = Len(s.history) /\ s.history[s.pos + 1] = a
        BY <1>1, <2>1, <2>2
      <3>4. SubSeq(s.history, 1, s.pos) = Append(SubSeq(h, 1, p), h[p + 1])
        BY <2>1, <2>3, <3>2, Zenon
      <3> QED BY <1>7, <2>1, <2>2, <2>5, <3>3, <3>4, Zenon
    <2> QED BY <2>4, <2>5
  <1>8. CASE h # <<>> /\ h[p + 1] = a
    <2>1. s.history = t /\ s.pos = p
      BY <1>1, <1>3, <1>4, <1>5, <1>6, <1>8 DEF State
    <2>2. SubSeq(t, 1, p) = SubSeq(h, 1, p)
      BY <1>1, <1>2, SamePast
    <2>3. t # <<>> /\ t[p + 1] = a
      BY <1>1, <1>2, <1>4, <1>5, <1>6, <1>8
    <2> QED BY <1>1, <1>2, <1>8, <2>1, <2>2, <2>3
  <1> QED BY <1>7, <1>8

-----------------------------------------------------------------------------
\* A visit leaves the address it records behind.
From(h, p, src) == IF src = NoAddr THEN ShownAt(h, p) ELSE src

LEMMA VisitSplits ==
    ASSUME NEW h, NEW p, Valid(h, p), NEW src \in Addr \cup {NoAddr}, NEW a \in Addr
    PROVE  Splits(Visit(h, p, src, a), Left(h, p, From(h, p, src), a), a)
  <1>1. p \in Int /\ p >= -1 /\ Len(h) \in Nat /\ h \in Seq(Addr) /\ p < Len(h)
    BY LenProperties, EmptySeq DEF Valid, InRange
  <1>2. CASE src = NoAddr
    BY <1>2, JumpSplits DEF Visit, From
  <1>3. CASE src # NoAddr
    <2> DEFINE r == RecordAddress(h, p, src)
    <2>1. Visit(h, p, src, a) = JumpTo(r.history, r.pos, a) /\ From(h, p, src) = src /\ src \in Addr
      BY <1>3 DEF Visit, From
    <2>2. Valid(r.history, r.pos) /\ r.history # <<>> /\ r.history[r.pos + 1] = src
      BY <2>1, RecordLands
    <2>3. SubSeq(r.history, 1, r.pos) = SubSeq(h, 1, p)
      <3>1. CASE InRange(h, p)
        <4>1. r.history = [h EXCEPT ![p + 1] = src] /\ r.pos = p
          BY <3>1 DEF RecordAddress, State
        <4>2. p + 1 \in 1..Len(h)
          BY <1>1, <3>1 DEF InRange
        <4>3. /\ r.history \in Seq(Addr) /\ Len(r.history) = Len(h)
              /\ \A j \in 1..Len(h) : r.history[j] = IF j = p + 1 THEN src ELSE h[j]
          BY <1>1, <2>1, <4>1, <4>2, ExceptSeq
        <4> HIDE DEF r
        <4>4. \A i \in 1..p : h[i] = r.history[i]
          BY <1>1, <4>2, <4>3
        <4> QED BY <1>1, <4>1, <4>3, <4>4, SamePast
      <3>2. CASE ~InRange(h, p)
        <4>1. h = <<>>
          BY <3>2 DEF Valid
        <4>2. r = JumpTo(h, p, src)
          BY <3>2 DEF RecordAddress
        <4>3. Splits(r, Left(h, p, ShownAt(h, p), src), src)
          BY <2>1, <4>2, JumpSplits
        <4> HIDE DEF r
        <4> QED BY <4>1, <4>3 DEF Splits, Left, ShownAt
      <3> QED BY <3>1, <3>2
    <2>4. ShownAt(r.history, r.pos) = src
      BY <2>2 DEF ShownAt
    <2> HIDE DEF r
    <2>5. Splits(JumpTo(r.history, r.pos, a), Left(r.history, r.pos, src, a), a)
      BY <2>2, <2>4, JumpSplits
    <2>6. Left(r.history, r.pos, src, a) = Left(h, p, src, a)
      BY <2>3 DEF Left
    <2> QED BY <2>1, <2>5, <2>6
  <1> QED BY <1>2, <1>3

-----------------------------------------------------------------------------
(***************************************************************************)
(* The steps of a view are steps of BrowserHistory.                        *)
(***************************************************************************)
\* A jump visits its target from what it records.
LEMMA JumpIsVisit ==
    ASSUME HistoryInv, NEW src \in Addr \cup {NoAddr}, NEW a \in Addr, ViewJumpTo(src, a)
    PROVE  Split!Next
  <1> DEFINE s == Visit(history, pos, src, a)
             from == From(history, pos, src)
  <1>1. Splits(s, Left(history, pos, from, a), a)
    BY InvIsValid, VisitSplits
  <1>2. history' = s.history /\ pos' = s.pos
    BY DEF ViewJumpTo
  <1>3. pos' \in Int
    BY <1>2, InvIsValid, VisitLands DEF Valid
  <1> HIDE DEF s
  <1>4. ShownAt(history, pos)' = a
    BY <1>1, <1>2 DEF ShownAt, Splits
  <1>5. SubSeq(history, pos + 2, Len(history))' = <<>>
    BY <1>1, <1>2, <1>3, SubSeqEmpty DEF Splits
  <1>6. SubSeq(history, 1, pos)' = Left(history, pos, from, a)
    BY <1>1, <1>2 DEF Splits
  <1>7. CASE src = NoAddr
    <2>1. Split!Visit(a)
      BY <1>4, <1>5, <1>6, <1>7 DEF Split!Visit, Split!VisitFrom, ShownAt, From, Left
    <2> QED BY <2>1 DEF Split!Next
  <1>8. CASE src # NoAddr /\ history # <<>>
    <2>1. ShownAt(history, pos) # NoAddr
      <3>1. history[pos + 1] \in Addr
        BY <1>8, LenProperties, ElementOfSeq DEF HistoryInv, TypeOK, PosInRange, InRange
      <3> QED BY <1>8, <3>1, HistoryAssumption DEF ShownAt
    <2>2. Split!VisitFrom(src, a)
      BY <1>4, <1>5, <1>6, <1>8, <2>1 DEF Split!VisitFrom, ShownAt, From, Left
    <2> QED BY <1>8, <2>2 DEF Split!Next
  <1>9. CASE src # NoAddr /\ history = <<>>
    <2>1. SubSeq(history, 1, pos) = <<>>
      BY <1>9, SubSeqEmpty DEF HistoryInv, PosInRange
    <2>2. Append(<<>>, src) = <<src>> /\ src \in Addr
      <3>1. src \in Addr /\ <<>> \in Seq(Addr) /\ <<src>> \in Seq(Addr)
        BY <1>9
      <3> QED BY <3>1, AppendIsConcat, ConcatEmptySeq
    <2>3. Split!FirstVisitFrom(src, a)
      BY <1>4, <1>5, <1>6, <1>9, <2>1, <2>2 DEF Split!FirstVisitFrom, ShownAt, From, Left
    <2> QED BY <2>2, <2>3 DEF Split!Next
  <1> QED BY <1>7, <1>8, <1>9

\* A history around its entry at a position.
LEMMA AroundEntry ==
    ASSUME NEW h \in Seq(Addr), NEW m \in Int, NEW p \in Int, NEW n \in Int,
           1 <= m, m <= p + 1, p + 1 <= n, n <= Len(h)
    PROVE  SubSeq(h, m, n) = SubSeq(h, m, p) \o <<h[p + 1]>> \o SubSeq(h, p + 2, n)
  <1>1. Len(h) \in Nat /\ p + 1 - 1 = p /\ p + 1 + 1 = p + 2
    BY LenProperties
  <1>2. SubSeq(h, m, p + 1) = SubSeq(h, m, p + 1 - 1) \o <<h[p + 1]>>
    BY <1>1, SubSeqRecursiveSecond
  <1>3. SubSeq(h, m, p + 1) \o SubSeq(h, p + 1 + 1, n) = SubSeq(h, m, n)
    BY <1>1, ConcatAdjacentSubSeq
  <1> QED BY <1>1, <1>2, <1>3, Zenon

\* A part of a part.
LEMMA PartOfPart ==
    ASSUME NEW h \in Seq(Addr), NEW m \in Int, NEW n \in Int, NEW i \in Int, NEW j \in Int,
           1 <= m, n <= Len(h), 1 <= i, m + j - 1 <= n, m - 1 <= n, 0 <= j
    PROVE  SubSeq(SubSeq(h, m, n), i, j) = SubSeq(h, m + i - 1, m + j - 1)
  <1>1. Len(h) \in Nat
    BY LenProperties
  <1>2. CASE i <= j
    BY <1>1, <1>2, SubSeqOfSubSeq
  <1>3. CASE j < i
    BY <1>3, SubSeqEmpty
  <1> QED BY <1>2, <1>3

\* Showing another entry is a number of steps back or ahead.
LEMMA MoveIsSteps ==
    ASSUME HistoryInv, NEW q \in Int, InRange(history, q), MoveTo(q)
    PROVE  [Split!Next]_(Split!vars)
  <1> DEFINE h == history
             past == SubSeq(h, 1, pos)
             future == SubSeq(h, pos + 2, Len(h))
  <1>1. /\ h \in Seq(Addr) /\ Len(h) \in Nat /\ pos \in Int
        /\ 0 <= q /\ q < Len(h) /\ pos' = q /\ h' = h
    BY LenProperties DEF HistoryInv, TypeOK, InRange, MoveTo
  <1>2. h # <<>> /\ 0 <= pos /\ pos < Len(h)
    BY <1>1, EmptySeq DEF HistoryInv, PosInRange, InRange
  <1>3. Len(past) = pos /\ Len(future) = Len(h) - pos - 1
    BY <1>1, <1>2, PartOfHistory
  <1>o. (IF history = <<>> THEN NoAddr ELSE history[pos + 1]) = h[pos + 1]
    BY <1>2
  <1>n. /\ (IF history = <<>> THEN NoAddr ELSE history[pos + 1])' = h[q + 1]
        /\ SubSeq(history, 1, pos)' = SubSeq(h, 1, q)
        /\ SubSeq(history, pos + 2, Len(history))' = SubSeq(h, q + 2, Len(h))
    BY <1>1, <1>2
  <1>p. past = SubSeq(history, 1, pos) /\ future = SubSeq(history, pos + 2, Len(history))
    OBVIOUS
  <1> HIDE DEF past, future
  <1>4. CASE q = pos
    BY <1>1, <1>4 DEF Split!vars
  <1>5. CASE q < pos
    <2>1. past[q + 1] = h[q + 1]
      BY <1>p, <1>1, <1>2, <1>5, PartOfHistory
    <2>2. SubSeq(past, 1, q) = SubSeq(h, 1, q)
      BY <1>p, <1>1, <1>2, <1>5, PartOfPart
    <2>3. SubSeq(past, q + 2, pos) = SubSeq(h, q + 2, pos)
      BY <1>p, <1>1, <1>2, <1>5, PartOfPart
    <2>4. SubSeq(h, q + 2, Len(h)) = SubSeq(h, q + 2, pos) \o <<h[pos + 1]>> \o future
      <3>1. PICK m \in Int : m = q + 2
        BY <1>1
      <3>2. PICK n \in Int : n = Len(h)
        BY <1>1
      <3>3. 1 <= m /\ m <= pos + 1 /\ pos + 1 <= n /\ n <= Len(h)
        BY <1>1, <1>2, <1>5, <3>1, <3>2
      <3>4. SubSeq(h, m, n) = SubSeq(h, m, pos) \o <<h[pos + 1]>> \o SubSeq(h, pos + 2, n)
        BY <1>1, <3>3, AroundEntry
      <3> QED BY <1>p, <3>1, <3>2, <3>4, Zenon
    <2>5. pos - q \in 1..Len(past) /\ pos - q \in 1..(Len(past) + Len(future))
      BY <1>1, <1>2, <1>3, <1>5
    <2>6. /\ Len(past) - (pos - q) + 1 = q + 1
          /\ Len(past) - (pos - q) + 1 - 1 = q
          /\ Len(past) - (pos - q) + 1 + 1 = q + 2
          /\ Len(past) = pos
      BY <1>1, <1>3
    <2>7. Split!Back(pos - q)
      <3> DEFINE k == Len(past) - (pos - q) + 1
      <3>1. k = q + 1 /\ k - 1 = q /\ k + 1 = q + 2
        BY <2>6
      <3> HIDE DEF k
      <3>2. (IF history = <<>> THEN NoAddr ELSE history[pos + 1])' = past[k]
        BY <1>n, <2>1, <3>1, Zenon
      <3>3. SubSeq(history, 1, pos)' = SubSeq(past, 1, k - 1)
        BY <1>n, <2>2, <3>1, Zenon
      <3>4. SubSeq(history, pos + 2, Len(history))' =
              SubSeq(past, k + 1, Len(past)) \o <<h[pos + 1]>> \o future
        BY <1>n, <2>3, <2>4, <2>6, <3>1, Zenon
      <3>5. SubSeq(history, pos + 2, Len(history))' =
              SubSeq(past, k + 1, Len(past))
              \o <<IF history = <<>> THEN NoAddr ELSE history[pos + 1]>> \o future
        BY <1>o, <3>4, Zenon
      <3> QED BY <2>5, <3>2, <3>3, <3>5, Zenon DEF past, future, k, Split!Back
    <2> QED BY <1>p, <2>5, <2>7, Zenon DEF Split!Next
  <1>6. CASE q > pos
    <2>1. future[q - pos] = h[q + 1]
      BY <1>p, <1>1, <1>2, <1>6, PartOfHistory
    <2>2. SubSeq(future, 1, q - pos - 1) = SubSeq(h, pos + 2, q)
      BY <1>p, <1>1, <1>2, <1>6, PartOfPart
    <2>3. SubSeq(future, q - pos + 1, Len(future)) = SubSeq(h, q + 2, Len(h))
      BY <1>p, <1>1, <1>2, <1>3, <1>6, PartOfPart
    <2>4. SubSeq(h, 1, q) = past \o <<h[pos + 1]>> \o SubSeq(h, pos + 2, q)
      BY <1>1, <1>2, <1>6, <1>p, AroundEntry
    <2>5. q - pos \in 1..Len(future) /\ q - pos \in 1..(Len(past) + Len(future))
      BY <1>1, <1>2, <1>3, <1>6
    <2>6. Split!Ahead(q - pos)
      <3>1. (IF history = <<>> THEN NoAddr ELSE history[pos + 1])' = future[q - pos]
        BY <1>n, <2>1, Zenon
      <3>2. SubSeq(history, 1, pos)' = past \o <<h[pos + 1]>> \o SubSeq(future, 1, q - pos - 1)
        BY <1>n, <2>2, <2>4, Zenon
      <3>3. SubSeq(history, pos + 2, Len(history))' =
              SubSeq(future, q - pos + 1, Len(future))
        BY <1>n, <2>3, Zenon
      <3> QED BY <1>p, <1>o, <2>5, <3>1, <3>2, <3>3, Zenon DEF Split!Ahead
    <2> QED BY <1>p, <2>5, <2>6, Zenon DEF Split!Next
  <1> QED BY <1>1, <1>4, <1>5, <1>6

LEMMA StepIsBrowserStep == HistoryInv /\ [Next]_vars => [Split!Next]_(Split!vars)
  <1> SUFFICES ASSUME HistoryInv, [Next]_vars PROVE [Split!Next]_(Split!vars)
    OBVIOUS
  <1>1. ASSUME UNCHANGED <<history, pos>> PROVE [Split!Next]_(Split!vars)
    BY <1>1 DEF Split!vars
  <1>2. pos \in Int /\ Len(history) \in Nat
    BY LenProperties DEF HistoryInv, TypeOK
  <1>3. ASSUME NEW src \in Addr \cup {NoAddr}, NEW a \in Addr, ViewJumpTo(src, a)
        PROVE  [Split!Next]_(Split!vars)
    BY <1>3, JumpIsVisit
  <1>4. CASE ViewJumpBack
    <2>1. BackPos(pos) \in Int
      BY <1>2 DEF BackPos
    <2>2. CASE InRange(history, BackPos(pos)) /\ MoveTo(BackPos(pos))
      BY <2>1, <2>2, MoveIsSteps
    <2>3. CASE ~InRange(history, BackPos(pos)) /\ pos' = BackPos(pos) /\ UNCHANGED history
      <3>1. BackPos(pos) = pos
        BY <1>2, <2>3 DEF HistoryInv, PosInRange, InRange, BackPos
      <3> QED BY <1>1, <2>3, <3>1
    <2> QED BY <1>4, <2>2, <2>3 DEF ViewJumpBack
  <1>5. CASE ViewJumpForward
    <2>1. ForwardPos(history, pos) \in Int
      BY <1>2 DEF ForwardPos
    <2> QED BY <1>1, <1>5, <2>1, MoveIsSteps DEF ViewJumpForward, IndexError
  <1>6. ASSUME NEW q \in 0..(MaxLen - 1), ViewJumpToPosition(q) PROVE [Split!Next]_(Split!vars)
    <2>1. StepPos(history, pos, q) \in Int
      BY <1>2, HistoryAssumption DEF StepPos
    <2> QED BY <1>1, <1>6, <2>1, MoveIsSteps DEF ViewJumpToPosition, IndexError
  <1>7. CASE UNCHANGED vars
    BY <1>1, <1>7 DEF vars
  <1> QED BY <1>3, <1>4, <1>5, <1>6, <1>7 DEF Next

LEMMA InitIsBrowserInit == Init => Split!Init
  <1> SUFFICES ASSUME Init PROVE Split!Init
    OBVIOUS
  <1>1. SubSeq(history, 1, pos) = <<>>
    BY SubSeqEmpty DEF Init
  <1>2. SubSeq(history, pos + 2, Len(history)) = <<>>
    BY SubSeqEmpty, EmptySeq DEF Init
  <1> QED BY <1>1, <1>2 DEF Init, Split!Init

\* The list and the position of JumpHistory are a past, an address shown and a
\* future at every length: no jump, step or menu entry loses, repeats or
\* reorders an address a browser history would keep.
THEOREM HistoryImplementsBrowser == Spec => ImplementsBrowserHistory
  BY InitIsBrowserInit, StepIsBrowserStep, SpecHistoryInv, PTL
  DEF Spec, ImplementsBrowserHistory, Split!Spec

-----------------------------------------------------------------------------
(***************************************************************************)
(* The disassembly view.  The folds of the linear viewer go over positions *)
(* of a list, its sums over sets of objects.                               *)
(***************************************************************************)
\* One step of Compensate and of PaintFrom.
AboveStep(c, s, t, a) ==
  IF t.start >= 0 \/ ObjToPaintable(c, s, a).kind = "none" THEN t
  ELSE [addr |-> a, start |-> t.start + LinesOf(c, s, a)]
PaintStep(c, s, addr, adjust, t, a) ==
  LET q     == ObjToPaintable(c, s, a)
      line  == AdjustedStart(q, a, addr, t.start, adjust)
      reg   == IF a >= RegionEnd(t.region) THEN RegionFromAddr(a) ELSE t.region
      lines == t.lines + q.lines - line
  IN  IF t.full \/ End(c, a) <= addr \/ q.kind = "none" THEN t
      ELSE IF line > 0 /\ line >= q.lines THEN
        [t EXCEPT !.start = line - q.lines, !.region = reg,
                  !.offset = IF a <= addr THEN @ + End(c, a) - addr
                             ELSE OffsetFromAddr(reg, End(c, a))]
      ELSE
        [t EXCEPT !.start = 0, !.region = reg, !.lines = lines, !.full = lines > Height,
                  !.first = IF line > 0 THEN line ELSE @,
                  !.shown = @ \cup {a}]

\* What a fold does with one more element, and which it takes next.
FoldStep(how, x, v) ==
  IF how.of = "bytes" THEN v + how.q[x].size
  ELSE IF how.of = "above" THEN AboveStep(how.c, how.s, v, how.q[x])
  ELSE IF how.of = "paint" THEN PaintStep(how.c, how.s, how.addr, how.adjust, v, how.q[x])
  ELSE IF how.of = "lines" THEN v + LinesOf(how.c, how.s, x)
  ELSE SelectInstruction(how.c, v, x, FALSE, FALSE)
Picked(how, s) == IF how.of \in {"lines", "select"} THEN CHOOSE x \in s : TRUE ELSE Max(s)
Picks(how, S) == \A s \in SUBSET S : s # {} => Picked(how, s) \in s
IsFold(how, base, S, h) ==
  h = [s \in SUBSET S |-> IF s = {} THEN base
                          ELSE FoldStep(how, Picked(how, s), h[s \ {Picked(how, s)}])]

LEMMA LeastIs ==
  ASSUME NEW S, S \subseteq Nat, S # {}
  PROVE  Min(S) \in S /\ \A x \in S : Min(S) <= x
<1>1. PICK R : R = {ss \in Nat \X Nat : ss[1] < ss[2]}
  OBVIOUS
<1>2. IsWellFoundedOn(R, Nat)
  BY <1>1, NatLessThanWellFounded, Zenon DEF OpToRel
<1>3. PICK x \in S : \A y \in S : <<y, x>> \notin R
  BY <1>2, WFMin
<1>4. ASSUME NEW y \in S PROVE x <= y
  <2>1. x \in Nat /\ y \in Nat /\ <<y, x>> \in Nat \X Nat
    OBVIOUS
  <2>2. ~(y < x)
    BY <1>1, <1>3, <2>1
  <2> QED
    BY <2>1, <2>2
<1> QED
  BY <1>3, <1>4 DEF Min

\* Sets of naturals that have a largest element.
Bounded(S) == S \subseteq Nat /\ \E b \in Nat : \A x \in S : x <= b

LEMMA GreatestIs ==
  ASSUME NEW S, Bounded(S), S # {}
  PROVE  Max(S) \in S /\ Max(S) \in Nat /\ \A x \in S : x <= Max(S)
<1>1. PICK B : B = {b \in Nat : \A x \in S : x <= b}
  OBVIOUS
<1>2. B \subseteq Nat /\ B # {}
  BY <1>1 DEF Bounded
<1>3. PICK m \in B : \A b \in B : m <= b
  BY <1>2, LeastIs
<1>4. m \in Nat /\ \A x \in S : x \in Nat /\ x <= m
  BY <1>1 DEF Bounded
<1>5. m \in S
  <2> SUFFICES ASSUME m \notin S PROVE FALSE
    OBVIOUS
  <2>1. \A x \in S : x <= m - 1
    BY <1>4
  <2>2. m - 1 \in Nat
    BY <1>4, <2>1
  <2>3. m - 1 \in B
    BY <1>1, <2>1, <2>2
  <2> QED
    BY <1>3, <1>4, <2>3
<1> QED
  BY <1>4, <1>5 DEF Max

\* Sets that are built one element at a time.
LEMMA SubsetInduction ==
  ASSUME NEW S, IsFiniteSet(S), NEW Good,
         \A s \in SUBSET S : (\A t \in SUBSET s : t # s => t \in Good) => s \in Good
  PROVE  \A s \in SUBSET S : s \in Good
<1>1. IsWellFoundedOn(StrictSubsetOrdering(S), SUBSET S)
  BY FS_StrictSubsetOrderingWellFounded, FS_FiniteSubsetsOfFinite
<1>2. SUFFICES ASSUME NEW s \in SUBSET S, s \notin Good PROVE FALSE
  OBVIOUS
<1>3. PICK B : B = {t \in SUBSET S : t \notin Good}
  OBVIOUS
<1>4. B \subseteq SUBSET S /\ B # {}
  BY <1>2, <1>3
<1>5. PICK x \in B : \A t \in B : <<t, x>> \notin StrictSubsetOrdering(S)
  BY <1>1, <1>4, WFMin
<1>6. ASSUME NEW t \in SUBSET x, t # x PROVE t \in Good
  <2>1. <<t, x>> \in StrictSubsetOrdering(S)
    BY <1>4, <1>6 DEF StrictSubsetOrdering
  <2> QED
    BY <1>3, <1>4, <1>5, <2>1
<1> QED
  BY <1>3, <1>6

LEMMA FiniteBounded ==
  ASSUME NEW S, S \subseteq Nat, IsFiniteSet(S)
  PROVE  Bounded(S)
<1>1. PICK Good : Good = {s \in SUBSET S : Bounded(s)}
  OBVIOUS
<1>2. ASSUME NEW s \in SUBSET S, \A t \in SUBSET s : t # s => t \in Good
      PROVE  Bounded(s)
  <2>1. CASE s = {}
    BY <2>1 DEF Bounded
  <2>2. CASE s # {}
    <3>1. PICK x \in s : TRUE
      BY <2>2
    <3>2. Bounded(s \ {x})
      <4>1. s \ {x} \in SUBSET s /\ s \ {x} # s
        OBVIOUS
      <4> QED
        BY <1>1, <1>2, <4>1
    <3>3. PICK b \in Nat : \A y \in s \ {x} : y <= b
      BY <3>2 DEF Bounded
    <3>4. x \in Nat /\ \A y \in s : y \in Nat /\ (y = x \/ y <= b)
      BY <3>3
    <3>5. PICK c \in Nat : c = b + x
      BY <3>4
    <3>6. s \subseteq Nat /\ \A y \in s : y <= c
      BY <3>4, <3>5
    <3> QED
      BY <3>5, <3>6 DEF Bounded
  <2> QED
    BY <2>1, <2>2
<1>3. \A s \in SUBSET S : (\A t \in SUBSET s : t # s => t \in Good) => s \in Good
  BY <1>1, <1>2
<1>4. \A s \in SUBSET S : s \in Good
  BY <1>3, SubsetInduction
<1> QED
  BY <1>1, <1>4

LEMMA FoldExists ==
  ASSUME NEW how, NEW base, NEW S, IsFiniteSet(S), Picks(how, S)
  PROVE  \E h : IsFold(how, base, S, h)
<1> DEFINE Up(n) == {s \in SUBSET S : Cardinality(s) <= n}
           Def(n, h) == h = [s \in Up(n) |-> IF s = {} THEN base
                                        ELSE FoldStep(how, Picked(how, s), h[s \ {Picked(how, s)}])]
<1>1. \A s \in SUBSET S : IsFiniteSet(s) /\ Cardinality(s) \in Nat /\ Cardinality(s) <= Cardinality(S)
  BY FS_Subset, FS_CardinalityType
<1>2. Up(Cardinality(S)) = SUBSET S /\ Cardinality(S) \in Nat
  BY <1>1
<1>3. SUFFICES ASSUME ~\E h : Def(Cardinality(S), h) PROVE FALSE
  BY <1>2 DEF IsFold
<1>4. PICK B : B = {n \in Nat : ~\E h : Def(n, h)}
  OBVIOUS
<1>5. B \subseteq Nat /\ B # {}
  BY <1>2, <1>3, <1>4
<1>6. PICK n \in B : \A x \in B : n <= x
  BY <1>5, LeastIs
<1>7. n \in Nat /\ ~\E h : Def(n, h)
  BY <1>4
<1>8. n # 0
  <2> SUFFICES ASSUME n = 0 PROVE FALSE
    OBVIOUS
  <2>1. \A s \in Up(0) : s = {}
    BY <1>1, FS_EmptySet
  <2>2. PICK h : h = [s \in Up(0) |-> base]
    OBVIOUS
  <2>3. Def(0, h)
    BY <2>1, <2>2
  <2> QED
    BY <1>7, <2>3
<1>9. PICK g : Def(n - 1, g)
  <2>1. n - 1 \in Nat /\ n - 1 \notin B
    BY <1>6, <1>7, <1>8
  <2> QED
    BY <1>4, <2>1
<1>10. PICK h : h = [s \in Up(n) |-> IF s = {} THEN base
                                    ELSE FoldStep(how, Picked(how, s), g[s \ {Picked(how, s)}])]
  OBVIOUS
<1>11. ASSUME NEW s \in Up(n), s # {}
       PROVE  h[s \ {Picked(how, s)}] = g[s \ {Picked(how, s)}]
  <2>1. PICK x \in s : x = Picked(how, s)
    BY <1>11 DEF Picks
  <2>2. PICK t : t = s \ {x}
    OBVIOUS
  <2>3. t \in SUBSET S /\ Cardinality(t) = Cardinality(s) - 1
    BY <1>1, <2>2, FS_RemoveElement
  <2>4. t \in Up(n - 1) /\ t \in Up(n)
    BY <1>1, <1>7, <2>3
  <2>5. h[t] = IF t = {} THEN base ELSE FoldStep(how, Picked(how, t), g[t \ {Picked(how, t)}])
    BY <1>10, <2>4
  <2>6. g[t] = IF t = {} THEN base ELSE FoldStep(how, Picked(how, t), g[t \ {Picked(how, t)}])
    BY <1>9, <2>4
  <2> QED
    BY <2>1, <2>2, <2>5, <2>6
<1>12. Def(n, h)
  BY <1>10, <1>11
<1> QED
  BY <1>7, <1>12

LEMMA FoldInduction ==
  ASSUME NEW how, NEW S, IsFiniteSet(S), Picks(how, S), NEW Good, {} \in Good,
         \A s \in SUBSET S : s # {} /\ s \ {Picked(how, s)} \in Good => s \in Good
  PROVE  S \in Good
<1>1. \A s \in SUBSET S : IsFiniteSet(s) /\ Cardinality(s) \in Nat
  BY FS_Subset, FS_CardinalityType
<1>2. PICK B : B = {n \in Nat : \E s \in SUBSET S : s \notin Good /\ n = Cardinality(s)}
  OBVIOUS
<1>3. SUFFICES ASSUME B # {} PROVE FALSE
  BY <1>1, <1>2
<1>4. PICK n \in B : \A x \in B : n <= x
  BY <1>2, <1>3, LeastIs
<1>5. PICK s \in SUBSET S : s \notin Good /\ n = Cardinality(s)
  BY <1>2
<1>6. s # {}
  BY <1>5
<1>7. PICK x \in s : x = Picked(how, s)
  BY <1>6 DEF Picks
<1>8. PICK t : t = s \ {x}
  OBVIOUS
<1>9. t \in SUBSET S /\ Cardinality(t) = n - 1 /\ Cardinality(t) \in Nat /\ n \in Nat
  BY <1>1, <1>5, <1>8, FS_RemoveElement
<1>10. t \notin Good
  BY <1>5, <1>6, <1>7, <1>8
<1>11. n - 1 \in B
  BY <1>2, <1>9, <1>10
<1> QED
  BY <1>4, <1>9, <1>11

\* The values a fold over positions goes through, one position after the other.
IsPassing(how, base, n, g) ==
  g[0] = base /\ \A i \in 1 .. n : g[i] = FoldStep(how, i, g[i - 1])
TakesLast(how, n) == \A S \in SUBSET (1 .. n) : S # {} => Picked(how, S) = Max(S)

LEMMA PositionsTaken ==
  ASSUME NEW how, NEW n \in Nat, TakesLast(how, n)
  PROVE  /\ Picks(how, 1 .. n) /\ IsFiniteSet(1 .. n)
         /\ \A S \in SUBSET (1 .. n) : S # {} => \A i \in S : i <= Max(S)
<1>1. PICK D : D = 1 .. n /\ D \subseteq Nat
  OBVIOUS
<1>2. IsFiniteSet(D)
  BY <1>1, FS_Interval
<1>3. ASSUME NEW S \in SUBSET D, S # {} PROVE Max(S) \in S /\ \A i \in S : i <= Max(S)
  <2>1. S \subseteq Nat /\ \A i \in S : i <= n
    BY <1>1
  <2>2. Bounded(S)
    BY <2>1 DEF Bounded
  <2> QED
    BY <1>3, <2>2, GreatestIs
<1> QED
  BY <1>1, <1>2, <1>3 DEF Picks, TakesLast

LEMMA FoldPasses ==
  ASSUME NEW how, NEW base, NEW n \in Nat, TakesLast(how, n), NEW h, IsFold(how, base, 1 .. n, h)
  PROVE  \E g : IsPassing(how, base, n, g) /\ g[n] = h[1 .. n]
<1>1. PICK g : g = [i \in 0 .. n |-> h[1 .. i]]
  OBVIOUS
<1>2. g[0] = base
  <2>1. 1 .. 0 = {} /\ {} \in SUBSET (1 .. n)
    OBVIOUS
  <2>2. h[{}] = base
    BY <2>1 DEF IsFold
  <2> QED
    BY <1>1, <2>1, <2>2
<1>3. ASSUME NEW i \in 1 .. n PROVE g[i] = FoldStep(how, i, g[i - 1])
  <2>1. PICK S : S = 1 .. i
    OBVIOUS
  <2>2. S \in SUBSET (1 .. n) /\ S # {} /\ i \in S
    <3>1. i \in Nat /\ i >= 1 /\ i <= n
      OBVIOUS
    <3>2. i \in S
      BY <2>1, <3>1
    <3>3. \A j \in S : j \in 1 .. n
      BY <2>1, <3>1
    <3> QED
      BY <3>2, <3>3, Zenon
  <2>3. PICK m : m = Picked(how, S)
    OBVIOUS
  <2>4. m \in S /\ \A j \in S : j <= m
    <3>1. m = Max(S)
      BY <2>2, <2>3 DEF TakesLast
    <3>2. m \in S
      BY <2>2, <2>3, PositionsTaken DEF Picks
    <3> QED
      BY <2>2, <3>1, <3>2, PositionsTaken
  <2>5. m = i
    BY <2>1, <2>2, <2>4
  <2>6. S \ {m} = 1 .. i - 1
    BY <2>1, <2>5
  <2>7. h[S] = FoldStep(how, m, h[S \ {m}])
    BY <2>2, <2>3 DEF IsFold
  <2>8. g[i] = h[S] /\ g[i - 1] = h[1 .. i - 1]
    <3>1. i \in 0 .. n /\ i - 1 \in 0 .. n
      OBVIOUS
    <3> QED
      BY <1>1, <2>1, <3>1
  <2> QED
    BY <2>5, <2>6, <2>7, <2>8
<1> QED
  <2>1. g[n] = h[1 .. n]
    BY <1>1
  <2>2. IsPassing(how, base, n, g)
    BY <1>2, <1>3 DEF IsPassing
  <2> QED
    BY <2>1, <2>2

LEMMA PassingInduction ==
  ASSUME NEW n \in Nat, NEW Good, 0 \in Good, \A i \in 1 .. n : i - 1 \in Good => i \in Good
  PROVE  \A i \in 0 .. n : i \in Good
<1>1. SUFFICES ASSUME NEW x \in 0 .. n, x \notin Good PROVE FALSE
  OBVIOUS
<1>2. PICK B : B = {k \in 0 .. n : k \notin Good}
  OBVIOUS
<1>3. B \subseteq Nat /\ B # {}
  BY <1>1, <1>2
<1>4. PICK k \in B : \A j \in B : k <= j
  BY <1>3, LeastIs
<1>5. k \in 1 .. n
  BY <1>2
<1>6. k - 1 \in 0 .. n /\ ~(k <= k - 1)
  BY <1>5
<1>7. k - 1 \in Good
  BY <1>2, <1>4, <1>6
<1> QED
  BY <1>2, <1>5, <1>7

-----------------------------------------------------------------------------
(***************************************************************************)
(* Regions laid end to end, and the objects in them.                       *)
(***************************************************************************)
\* Where regions begin, in bytes and in addresses.
LEMMA RegionsAre ==
  ASSUME NEW L, L = Len(Regions)
  PROVE  /\ L \in Nat \ {0} /\ DOMAIN Regions = 1 .. L
         /\ \A i \in 1 .. L : Regions[i].addr \in Nat /\ Regions[i].size \in Nat \ {0}
         /\ \A i, j \in 1 .. L : i < j => Regions[i].addr + Regions[i].size <= Regions[j].addr
<1>1. PICK Region : Region = [addr : Nat, size : Nat \ {0}]
  OBVIOUS
<1>2. Regions \in Seq(Region) /\ Regions # <<>>
  BY <1>1, ViewerAssumption
<1>3. L \in Nat /\ DOMAIN Regions = 1 .. L /\ L # 0
  BY <1>2, LenProperties, EmptySeq
<1>4. \A i \in 1 .. L : Regions[i] \in Region
  BY <1>2, ElementOfSeq
<1>5. \A i \in 1 .. L : Regions[i].addr \in Nat /\ Regions[i].size \in Nat \ {0}
  BY <1>1, <1>4
<1> QED
  BY <1>3, <1>5, ViewerAssumption

LEMMA BasePasses ==
  ASSUME NEW L, L = Len(Regions), NEW i \in 1 .. L + 1
  PROVE  \E g : /\ g[0] = 0 /\ Base[i] = g[i - 1]
                /\ \A k \in 1 .. i - 1 : g[k] = g[k - 1] + Regions[k].size
<1>1. L \in Nat \ {0} /\ DOMAIN Regions = 1 .. L
  BY RegionsAre
<1>2. PICK n \in Nat : n = i - 1 /\ n <= L
  BY <1>1
<1>3. PICK q : q = SubSeq(Regions, 1, n)
  OBVIOUS
<1>4. DOMAIN q = 1 .. n /\ \A k \in 1 .. n : q[k] = Regions[k]
  <2>1. PICK R : Regions \in Seq(R)
    BY ViewerAssumption
  <2>2. \A k \in 1 .. n : Regions[k] \in R
    BY <1>1, <1>2, <2>1, ElementOfSeq
  <2>3. q \in Seq(R) /\ Len(q) = n /\ \A k \in 1 .. n : q[k] = Regions[k]
    BY <1>2, <1>3, <2>2, SubSeqProperties
  <2> QED
    BY <2>3, LenProperties
<1>5. PICK how : how = [of |-> "bytes", q |-> q]
  OBVIOUS
<1>6. TakesLast(how, n) /\ \A k, v : FoldStep(how, k, v) = v + q[k].size
  BY <1>5 DEF TakesLast, Picked, FoldStep
<1> DEFINE Def(h) == h = [s \in SUBSET DOMAIN q |->
                            IF s = {} THEN 0 ELSE h[s \ {Max(s)}] + q[Max(s)].size]
<1>7. PICK h : IsFold(how, 0, 1 .. n, h)
  BY <1>6, PositionsTaken, FoldExists
<1>8. ASSUME NEW g PROVE Def(g) <=> IsFold(how, 0, 1 .. n, g)
  <2>1. ASSUME NEW s \in SUBSET (1 .. n)
        PROVE  (IF s = {} THEN 0 ELSE g[s \ {Max(s)}] + q[Max(s)].size)
               = (IF s = {} THEN 0 ELSE FoldStep(how, Picked(how, s), g[s \ {Picked(how, s)}]))
    <3>1. s # {} => Picked(how, s) = Max(s)
      BY <1>6 DEF TakesLast
    <3>2. FoldStep(how, Max(s), g[s \ {Max(s)}]) = g[s \ {Max(s)}] + q[Max(s)].size
      BY <1>6, Zenon
    <3> QED
      BY <3>1, <3>2, Zenon
  <2>2. [s \in SUBSET (1 .. n) |-> IF s = {} THEN 0 ELSE g[s \ {Max(s)}] + q[Max(s)].size]
        = [s \in SUBSET (1 .. n) |->
             IF s = {} THEN 0 ELSE FoldStep(how, Picked(how, s), g[s \ {Picked(how, s)}])]
    BY <2>1
  <2> QED
    BY <1>4, <2>2 DEF IsFold
<1>9. PICK f : f = CHOOSE g : Def(g)
  OBVIOUS
<1>10. IsFold(how, 0, 1 .. n, f)
  BY <1>7, <1>8, <1>9
<1>11. Base[i] = f[1 .. n]
  <2>1. Base[i] = f[DOMAIN q]
    BY <1>1, <1>2, <1>3, <1>9 DEF Base, FoldLeft, MapThenFoldSet
  <2> QED
    BY <1>4, <2>1
<1>12. PICK g : IsPassing(how, 0, n, g) /\ g[n] = f[1 .. n]
  BY <1>6, <1>10, FoldPasses
<1>13. g[0] = 0 /\ \A k \in 1 .. n : g[k] = g[k - 1] + Regions[k].size
  BY <1>4, <1>6, <1>12 DEF IsPassing
<1> QED
  BY <1>2, <1>11, <1>12, <1>13

LEMMA BaseIs ==
  ASSUME NEW L, L = Len(Regions)
  PROVE  /\ \A i \in 1 .. L + 1 : Base[i] \in Nat
         /\ Base[1] = 0 /\ \A i \in 1 .. L : Base[i + 1] = Base[i] + Regions[i].size
<1>1. L \in Nat \ {0} /\ \A i \in 1 .. L : Regions[i].size \in Nat \ {0}
  BY RegionsAre
<1>2. Base[1] = 0
  BY <1>1, BasePasses
<1>3. ASSUME NEW i \in 1 .. L PROVE Base[i + 1] = Base[i] + Regions[i].size
  <2>1. PICK n \in Nat : n = i - 1 /\ n + 1 = i
    BY <1>1
  <2>2. PICK g : /\ g[0] = 0 /\ Base[i] = g[n] /\ \A k \in 1 .. n : g[k] = g[k - 1] + Regions[k].size
    <3>1. i \in 1 .. L + 1
      BY <1>1
    <3>2. PICK g : /\ g[0] = 0 /\ Base[i] = g[i - 1]
                   /\ \A k \in 1 .. i - 1 : g[k] = g[k - 1] + Regions[k].size
      BY <3>1, BasePasses
    <3> QED
      BY <2>1, <3>2
  <2>3. PICK h : /\ h[0] = 0 /\ Base[i + 1] = h[i] /\ \A k \in 1 .. i : h[k] = h[k - 1] + Regions[k].size
    <3>1. i + 1 \in 1 .. L + 1 /\ (i + 1) - 1 = i
      BY <1>1
    <3> QED
      BY <3>1, BasePasses
  <2>4. PICK Good : Good = {k \in 0 .. n : g[k] = h[k]}
    OBVIOUS
  <2>5. 0 \in Good
    BY <2>2, <2>3, <2>4
  <2>6. ASSUME NEW k \in 1 .. n, k - 1 \in Good PROVE k \in Good
    <3>1. g[k] = g[k - 1] + Regions[k].size /\ h[k] = h[k - 1] + Regions[k].size
      BY <2>1, <2>2, <2>3
    <3> QED
      BY <2>4, <2>6, <3>1
  <2>7. \A k \in 0 .. n : k \in Good
    BY <2>5, <2>6, PassingInduction
  <2>8. g[n] = h[n]
    BY <2>4, <2>7
  <2>9. h[i] = h[i - 1] + Regions[i].size
    BY <2>1, <2>3
  <2> QED
    <3>1. h[i - 1] = h[n]
      BY <2>1
    <3> QED
      BY <2>2, <2>3, <2>8, <2>9, <3>1
<1>4. PICK Good : Good = {k \in 0 .. L : Base[k + 1] \in Nat}
  OBVIOUS
<1>5. 0 \in Good
  BY <1>1, <1>2, <1>4
<1>6. ASSUME NEW k \in 1 .. L, k - 1 \in Good PROVE k \in Good
  <2>1. Base[k] \in Nat
    BY <1>4, <1>6
  <2>2. Base[k + 1] \in Nat
    BY <1>1, <1>3, <2>1
  <2> QED
    BY <1>4, <2>2
<1>7. \A k \in 0 .. L : k \in Good
  BY <1>1, <1>5, <1>6, PassingInduction
<1>8. ASSUME NEW i \in 1 .. L + 1 PROVE Base[i] \in Nat
  <2>1. i - 1 \in 0 .. L /\ (i - 1) + 1 = i
    BY <1>1
  <2> QED
    BY <1>4, <1>7, <2>1
<1> QED
  BY <1>2, <1>3, <1>8

\* Bases ascend as addresses do.
LEMMA BasesAscend ==
  ASSUME NEW L, L = Len(Regions), NEW i \in 1 .. L, NEW j \in 1 .. L + 1, i < j
  PROVE  Base[i] + Regions[i].size <= Base[j]
<1>1. L \in Nat \ {0} /\ \A k \in 1 .. L : Regions[k].size \in Nat \ {0}
  BY RegionsAre
<1>2. /\ \A k \in 1 .. L + 1 : Base[k] \in Nat
      /\ \A k \in 1 .. L : Base[k + 1] = Base[k] + Regions[k].size
  BY BaseIs
<1>3. SUFFICES ASSUME ~(Base[i] + Regions[i].size <= Base[j]) PROVE FALSE
  OBVIOUS
<1>4. PICK B : B = {k \in 1 .. L + 1 : i < k /\ ~(Base[i] + Regions[i].size <= Base[k])}
  OBVIOUS
<1>5. B \subseteq Nat /\ B # {}
  BY <1>1, <1>3, <1>4
<1>6. PICK k \in B : \A m \in B : k <= m
  BY <1>5, LeastIs
<1>7. k \in 1 .. L + 1 /\ i < k /\ ~(Base[i] + Regions[i].size <= Base[k])
  BY <1>4
<1>8. k # i + 1
  BY <1>1, <1>2, <1>7
<1>9. PICK m \in 1 .. L : m = k - 1 /\ i < m /\ m + 1 = k /\ m \in 1 .. L + 1
  BY <1>1, <1>7, <1>8
<1>10. Base[k] = Base[m] + Regions[m].size /\ Base[m] \in Nat /\ Regions[m].size \in Nat
  BY <1>1, <1>2, <1>9
<1>11. Base[k] \in Nat /\ Base[i] \in Nat /\ Regions[i].size \in Nat
  BY <1>1, <1>2, <1>7
<1>12. ~(Base[i] + Regions[i].size <= Base[m])
  BY <1>7, <1>10, <1>11
<1>13. m \in B
  BY <1>4, <1>9, <1>12
<1> QED
  BY <1>6, <1>9, <1>13

\* The region of an offset is the last that begins at or before it.
LEMMA OffsetRegionIs ==
  ASSUME NEW L, L = Len(Regions), NEW o \in Int, NEW r, r = RegionFromOffset(o)
  PROVE  /\ o < 0 => r = 0
         /\ o >= 0 => r \in 1 .. L /\ Base[r] <= o /\ \A k \in 1 .. L : Base[k] <= o => k <= r
<1>1. L \in Nat \ {0} /\ DOMAIN Regions = 1 .. L
  BY RegionsAre
<1>2. Base[1] = 0 /\ \A i \in 1 .. L + 1 : Base[i] \in Nat
  BY BaseIs
<1>3. PICK S : S = {0} \cup {i \in 1 .. L : Base[i] <= o}
  OBVIOUS
<1>4. r = Max(S)
  BY <1>1, <1>3 DEF RegionFromOffset
<1>5. Bounded(S) /\ S # {}
  <2>1. \A x \in S : x \in Nat /\ x <= L
    BY <1>1, <1>3
  <2> QED
    BY <1>1, <1>3, <2>1 DEF Bounded
<1>6. r \in S /\ \A x \in S : x <= r
  BY <1>4, <1>5, GreatestIs
<1>7. ASSUME o < 0 PROVE r = 0
  <2>1. \A i \in 1 .. L : ~(Base[i] <= o)
    <3>1. \A i \in 1 .. L : i \in 1 .. L + 1
      BY <1>1
    <3> QED
      BY <1>2, <1>7, <3>1
  <2> QED
    BY <1>3, <1>6, <2>1
<1>8. ASSUME o >= 0 PROVE r \in 1 .. L /\ Base[r] <= o /\ \A k \in 1 .. L : Base[k] <= o => k <= r
  <2>1. 1 \in S
    BY <1>1, <1>2, <1>3, <1>8
  <2>2. r # 0
    BY <1>6, <2>1
  <2>3. r \in 1 .. L /\ Base[r] <= o
    BY <1>3, <1>6, <2>2
  <2>4. \A k \in 1 .. L : Base[k] <= o => k \in S
    BY <1>3
  <2> QED
    BY <1>6, <2>3, <2>4
<1> QED
  BY <1>7, <1>8

\* The region of an address, likewise.
LEMMA AddrRegionIs ==
  ASSUME NEW L, L = Len(Regions), NEW a \in Int, NEW r, r = RegionFromAddr(a)
  PROVE  /\ r \in 0 .. L /\ (r # 0 => Regions[r].addr <= a)
         /\ \A k \in 1 .. L : Regions[k].addr <= a => k <= r
<1>1. L \in Nat \ {0} /\ DOMAIN Regions = 1 .. L
  BY RegionsAre
<1>2. PICK S : S = {0} \cup {i \in 1 .. L : Regions[i].addr <= a}
  OBVIOUS
<1>3. r = Max(S)
  BY <1>1, <1>2 DEF RegionFromAddr
<1>4. Bounded(S) /\ S # {}
  <2>1. \A x \in S : x \in Nat /\ x <= L
    BY <1>1, <1>2
  <2> QED
    BY <1>1, <1>2, <2>1 DEF Bounded
<1>5. r \in S /\ \A x \in S : x <= r
  BY <1>3, <1>4, GreatestIs
<1>6. r \in 0 .. L
  BY <1>1, <1>2, <1>5
<1>7. r # 0 => Regions[r].addr <= a
  BY <1>2, <1>5
<1>8. \A k \in 1 .. L : Regions[k].addr <= a => k \in S
  BY <1>2
<1> QED
  BY <1>5, <1>6, <1>7, <1>8

\* The address at an offset.
AddrOf(o) == AddrFromOffset(RegionFromOffset(o), o)

LEMMA InsideIs ==
  ASSUME NEW L, L = Len(Regions), NEW r \in 1 .. L, NEW a \in Int,
         Regions[r].addr <= a, a < Regions[r].addr + Regions[r].size, NEW o, o = OffsetFromAddr(r, a)
  PROVE  /\ RegionFromAddr(a) = r /\ o \in Nat /\ RegionFromOffset(o) = r /\ AddrOf(o) = a
<1>1. /\ L \in Nat \ {0} /\ Regions[r].addr \in Nat /\ Regions[r].size \in Nat \ {0}
      /\ \A k \in 1 .. L : Regions[k].addr \in Nat
      /\ \A i, j \in 1 .. L : i < j => Regions[i].addr + Regions[i].size <= Regions[j].addr
  BY RegionsAre
<1>2. PICK b \in Nat : b = Base[r]
  <2>1. r \in 1 .. L + 1
    BY <1>1
  <2> QED
    BY <2>1, BaseIs
<1>3. o = b + a - Regions[r].addr
  BY <1>2 DEF OffsetFromAddr
<1>4. o \in Nat /\ b <= o /\ o < b + Regions[r].size
  BY <1>1, <1>3
<1>5. RegionFromAddr(a) = r
  <2>1. PICK q : q = RegionFromAddr(a)
    OBVIOUS
  <2>2. q \in 0 .. L /\ (q # 0 => Regions[q].addr <= a) /\ r <= q
    BY <2>1, AddrRegionIs
  <2>3. ~(r < q)
    <3> SUFFICES ASSUME r < q PROVE FALSE
      OBVIOUS
    <3>1. q \in 1 .. L
      BY <1>1, <2>2
    <3>2. Regions[r].addr + Regions[r].size <= Regions[q].addr /\ Regions[q].addr <= a /\ Regions[q].addr \in Nat
      BY <1>1, <2>2, <3>1
    <3> QED
      BY <1>1, <3>2
  <2> QED
    BY <2>1, <2>2, <2>3
<1>6. RegionFromOffset(o) = r
  <2>1. PICK q : q = RegionFromOffset(o)
    OBVIOUS
  <2>2. q \in 1 .. L /\ Base[q] <= o /\ r <= q
    BY <1>2, <1>4, <2>1, OffsetRegionIs
  <2>3. ~(r < q)
    <3> SUFFICES ASSUME r < q PROVE FALSE
      OBVIOUS
    <3>1. q \in 1 .. L + 1
      BY <1>1, <2>2
    <3>2. b + Regions[r].size <= Base[q]
      BY <1>2, <3>1, BasesAscend
    <3>3. Base[q] \in Nat
      BY <3>1, BaseIs
    <3> QED
      BY <1>1, <1>4, <2>2, <3>2, <3>3
  <2> QED
    BY <2>1, <2>2, <2>3
<1>7. AddrOf(o) = a
  <2>1. AddrOf(o) = Regions[r].addr + o - b
    BY <1>2, <1>6 DEF AddrOf, AddrFromOffset
  <2> QED
    BY <1>1, <1>3, <2>1
<1> QED
  BY <1>4, <1>5, <1>6, <1>7

\* The end of a region is where the next one begins.
LEMMA RegionEndIs ==
  ASSUME NEW L, L = Len(Regions), NEW r \in 1 .. L, NEW o, o = Base[r] + Regions[r].size
  PROVE  /\ o \in Nat
         /\ r < L => AddrOf(o) = Regions[r + 1].addr
         /\ r = L => AddrOf(o) = Regions[r].addr + Regions[r].size
<1>1. /\ L \in Nat \ {0} /\ \A k \in 1 .. L : Regions[k].addr \in Nat /\ Regions[k].size \in Nat \ {0}
  BY RegionsAre
<1>2. r \in 1 .. L + 1 /\ r + 1 \in 1 .. L + 1
  BY <1>1
<1>3. Base[r] \in Nat /\ Base[r + 1] = o /\ o \in Nat
  BY <1>2, BaseIs
<1>4. ASSUME r < L PROVE AddrOf(o) = Regions[r + 1].addr
  <2>1. PICK q \in 1 .. L : q = r + 1
    BY <1>1, <1>4
  <2>2. PICK a \in Nat : a = Regions[q].addr
    BY <1>1
  <2>3. OffsetFromAddr(q, a) = o
    BY <1>3, <2>1, <2>2 DEF OffsetFromAddr
  <2>4. a < Regions[q].addr + Regions[q].size
    BY <1>1, <2>2
  <2>5. AddrOf(o) = a
    BY <2>2, <2>3, <2>4, InsideIs
  <2> QED
    BY <2>1, <2>2, <2>5
<1>5. ASSUME r = L PROVE AddrOf(o) = Regions[r].addr + Regions[r].size
  <2>1. PICK q : q = RegionFromOffset(o)
    OBVIOUS
  <2>2. Base[r] <= o
    BY <1>1, <1>3
  <2>3. q \in 1 .. L /\ r <= q
    <3>1. o \in Int /\ o >= 0
      BY <1>3
    <3>2. q \in 1 .. L /\ \A k \in 1 .. L : Base[k] <= o => k <= q
      BY <2>1, <3>1, OffsetRegionIs
    <3> QED
      BY <2>2, <3>2
  <2>4. q = r
    BY <1>1, <1>5, <2>3
  <2>5. AddrOf(o) = Regions[r].addr + o - Base[r]
    BY <2>1, <2>4 DEF AddrOf, AddrFromOffset
  <2>6. PICK b \in Nat, w \in Nat, a \in Nat : b = Base[r] /\ w = Regions[r].size /\ a = Regions[r].addr
    <3>1. Base[r] \in Nat /\ Regions[r].size \in Nat /\ Regions[r].addr \in Nat
      BY <1>1, <1>3
    <3> QED
      BY <3>1
  <2>7. a + (b + w) - b = a + w
    OBVIOUS
  <2> QED
    BY <2>5, <2>6, <2>7
<1> QED
  BY <1>3, <1>4, <1>5

-----------------------------------------------------------------------------
\* A CFB of the project, and functions of it.
CodeIs(c) == c.cfb \in Versions /\ c.funcs \subseteq FuncsIn(c.cfb)
InRegion(c, o, r) == Regions[r].addr <= o /\ End(c, o) <= Regions[r].addr + Regions[r].size

LEMMA ObjectsAre ==
  ASSUME NEW c, CodeIs(c), NEW L, L = Len(Regions)
  PROVE  /\ IsFiniteSet(DOMAIN Objects(c)) /\ DOMAIN Objects(c) \subseteq Nat
         /\ \A o \in DOMAIN Objects(c) :
              /\ o \in Nat /\ End(c, o) \in Nat /\ o < End(c, o) /\ Objects(c)[o].lines \in Nat
              /\ Objects(c)[o].kind \in {"code", "data", "unknown"}
              /\ \E r \in 1 .. L : InRegion(c, o, r)
         /\ \A o, p \in DOMAIN Objects(c) : o < p => End(c, o) <= p
<1>1. PICK v \in Versions : v = Objects(c)
  BY DEF CodeIs, Objects
<1>2. /\ IsFiniteSet(DOMAIN v) /\ DOMAIN v \subseteq Nat
      /\ \A o \in DOMAIN v : /\ v[o].size \in Nat \ {0} /\ v[o].lines \in Nat
                             /\ v[o].kind \in {"code", "data", "unknown"}
      /\ \A o, p \in DOMAIN v : o < p => o + v[o].size <= p
      /\ \A o \in DOMAIN v : \E r \in Range(Regions) :
           r.addr <= o /\ o + v[o].size <= r.addr + r.size
  BY <1>1, ViewerAssumption
<1>3. \A o : End(c, o) = o + v[o].size
  BY <1>1 DEF End
<1>4. /\ L \in Nat \ {0} /\ DOMAIN Regions = 1 .. L
      /\ \A r \in 1 .. L : Regions[r].addr \in Nat /\ Regions[r].size \in Nat
  BY RegionsAre
<1>5. \A s : s \in Range(Regions) <=> \E r \in 1 .. L : s = Regions[r]
  BY <1>4 DEF Range
<1>6. ASSUME NEW o \in DOMAIN v PROVE \E r \in 1 .. L : InRegion(c, o, r)
  <2>1. PICK s \in Range(Regions) : s.addr <= o /\ o + v[o].size <= s.addr + s.size
    BY <1>2
  <2>2. PICK r \in 1 .. L : s = Regions[r]
    BY <1>5
  <2> QED
    BY <1>3, <2>1, <2>2 DEF InRegion
<1>8. \A o \in DOMAIN v : o \in Nat /\ End(c, o) \in Nat /\ o < End(c, o)
  <2> SUFFICES ASSUME NEW o \in DOMAIN v PROVE o \in Nat /\ End(c, o) \in Nat /\ o < End(c, o)
    OBVIOUS
  <2>1. o \in Nat /\ v[o].size \in Nat \ {0}
    BY <1>2
  <2> QED
    BY <1>3, <2>1
<1>9. \A o, p \in DOMAIN v : o < p => End(c, o) <= p
  BY <1>2, <1>3
<1>10. IsFiniteSet(DOMAIN v) /\ DOMAIN v \subseteq Nat
  BY <1>2
<1>11. \A o \in DOMAIN v : v[o].lines \in Nat /\ v[o].kind \in {"code", "data", "unknown"}
  BY <1>2
<1> QED
  BY <1>1, <1>6, <1>8, <1>9, <1>10, <1>11

\* What lies ahead of the end of an object is the objects after it.
LEMMA AfterIs ==
  ASSUME NEW c, CodeIs(c), NEW L, L = Len(Regions), NEW o \in DOMAIN Objects(c), NEW r \in 1 .. L,
         InRegion(c, o, r), NEW at, at = OffsetFromAddr(r, End(c, o))
  PROVE  /\ at \in Nat
         /\ \A p \in DOMAIN Objects(c) : AddrOf(at) < End(c, p) <=> o < p
<1> DEFINE D == DOMAIN Objects(c)
<1>1. /\ L \in Nat \ {0} /\ \A k \in 1 .. L : Regions[k].addr \in Nat /\ Regions[k].size \in Nat \ {0}
      /\ \A i, j \in 1 .. L : i < j => Regions[i].addr + Regions[i].size <= Regions[j].addr
  BY RegionsAre
<1>2. /\ \A p \in D : p \in Nat /\ End(c, p) \in Nat /\ p < End(c, p)
      /\ \A p, q \in D : p < q => End(c, p) <= q
      /\ \A p \in D : \E k \in 1 .. L : InRegion(c, p, k)
  BY ObjectsAre
<1> HIDE DEF D
<1>3. PICK e \in Nat : e = End(c, o) /\ o < e
  BY <1>2 DEF D
<1>4. o \in D /\ o \in Nat
  BY <1>2 DEF D
<1>5. Regions[r].addr <= o /\ e <= Regions[r].addr + Regions[r].size
  BY <1>3 DEF InRegion
<1>6. \A p \in D : (o < p => e <= p) /\ (~(o < p) => End(c, p) <= e)
  <2> SUFFICES ASSUME NEW p \in D PROVE (o < p => e <= p) /\ (~(o < p) => End(c, p) <= e)
    OBVIOUS
  <2>1. p \in Nat
    BY <1>2
  <2>2. o < p => e <= p
    BY <1>2, <1>3, <1>4
  <2>3. CASE p < o
    <3>1. End(c, p) <= o /\ End(c, p) \in Nat
      BY <1>2, <1>4, <2>3
    <3> QED
      BY <1>3, <1>4, <2>2, <3>1
  <2>4. CASE p = o
    BY <1>3, <2>2, <2>4
  <2> QED
    BY <1>4, <2>1, <2>2, <2>3, <2>4
<1>7. CASE e < Regions[r].addr + Regions[r].size
  <2>1. Regions[r].addr <= e
    BY <1>1, <1>3, <1>4, <1>5
  <2>2. at \in Nat /\ AddrOf(at) = e
    BY <1>3, <1>7, <2>1, InsideIs
  <2>3. \A p \in D : e < End(c, p) <=> o < p
    <3> SUFFICES ASSUME NEW p \in D PROVE e < End(c, p) <=> o < p
      OBVIOUS
    <3>1. p \in Nat /\ End(c, p) \in Nat /\ p < End(c, p)
      BY <1>2
    <3> QED
      BY <1>3, <1>6, <3>1
  <2> QED
    BY <2>2, <2>3 DEF D
<1>8. CASE e = Regions[r].addr + Regions[r].size
  <2>1. at = Base[r] + Regions[r].size
    <3>1. r \in 1 .. L + 1
      BY <1>1
    <3>2. Base[r] \in Nat
      BY <3>1, BaseIs
    <3> QED
      BY <1>1, <1>3, <1>8, <3>2 DEF OffsetFromAddr
  <2>2. /\ at \in Nat
        /\ r < L => AddrOf(at) = Regions[r + 1].addr
        /\ r = L => AddrOf(at) = Regions[r].addr + Regions[r].size
    BY <2>1, RegionEndIs
  <2>3. PICK x \in Nat : x = AddrOf(at) /\ e <= x
    <3>1. CASE r < L
      <4>1. r + 1 \in 1 .. L /\ r < r + 1
        BY <1>1, <3>1
      <4>2. Regions[r + 1].addr \in Nat /\ e <= Regions[r + 1].addr
        BY <1>1, <1>8, <4>1
      <4> QED
        BY <2>2, <3>1, <4>2
    <3>2. CASE r = L
      BY <1>3, <1>8, <2>2, <3>2
    <3> QED
      BY <1>1, <3>1, <3>2
  <2>4. ASSUME NEW p \in D, o < p PROVE x < End(c, p)
    <3>1. p \in Nat /\ End(c, p) \in Nat /\ p < End(c, p) /\ e <= p
      BY <1>2, <1>6, <2>4
    <3>2. PICK k \in 1 .. L : Regions[k].addr <= p /\ End(c, p) <= Regions[k].addr + Regions[k].size
      BY <1>2 DEF InRegion
    <3>3. r < k
      <4>1. k # r
        BY <1>1, <1>3, <1>8, <3>1, <3>2
      <4>2. ~(k < r)
        <5> SUFFICES ASSUME k < r PROVE FALSE
          OBVIOUS
        <5>1. Regions[k].addr + Regions[k].size <= Regions[r].addr
          BY <1>1
        <5>2. Regions[k].addr \in Nat /\ Regions[k].size \in Nat /\ Regions[r].addr \in Nat
          BY <1>1
        <5> QED
          BY <1>4, <1>5, <2>4, <3>1, <3>2, <5>1, <5>2
      <4> QED
        BY <1>1, <4>1, <4>2
    <3>4. r < L /\ r + 1 \in 1 .. L
      BY <1>1, <3>3
    <3>5. Regions[r + 1].addr <= Regions[k].addr
      <4>1. CASE r + 1 = k
        BY <1>1, <4>1
      <4>2. CASE r + 1 < k
        <5>1. Regions[r + 1].addr + Regions[r + 1].size <= Regions[k].addr
          BY <1>1, <3>4, <4>2
        <5>2. Regions[r + 1].addr \in Nat /\ Regions[r + 1].size \in Nat /\ Regions[k].addr \in Nat
          BY <1>1, <3>4
        <5> QED
          BY <5>1, <5>2
      <4> QED
        BY <1>1, <3>3, <4>1, <4>2
    <3>6. x = Regions[r + 1].addr /\ Regions[k].addr \in Nat
      BY <1>1, <2>2, <2>3, <3>4
    <3> QED
      BY <3>1, <3>2, <3>5, <3>6
  <2>5. ASSUME NEW p \in D, ~(o < p) PROVE ~(x < End(c, p))
    <3>1. End(c, p) \in Nat /\ End(c, p) <= e
      BY <1>2, <1>6, <2>5
    <3> QED
      BY <1>3, <2>3, <3>1
  <2> QED
    BY <2>2, <2>3, <2>4, <2>5 DEF D
<1>9. Regions[r].addr + Regions[r].size \in Nat
  BY <1>1
<1> QED
  <2>1. e < Regions[r].addr + Regions[r].size \/ e = Regions[r].addr + Regions[r].size
    BY <1>3, <1>5, <1>9
  <2> QED
    BY <1>7, <1>8, <2>1 DEF D

\* The object at or before an address, which is the only one that may hold it.
LEMMA FloorIs ==
  ASSUME NEW c, CodeIs(c), NEW a \in Int, NEW f, f = FloorAddr(c, a)
  PROVE  /\ f \in Int /\ f <= a
         /\ \A p \in DOMAIN Objects(c) : p < f => End(c, p) <= a
         /\ \A p \in DOMAIN Objects(c) : f <= p => p = f \/ a < p
         /\ (\E p \in DOMAIN Objects(c) : p <= a) => f \in DOMAIN Objects(c)
<1>1. PICK D : D = DOMAIN Objects(c)
  OBVIOUS
<1>2. /\ \A p \in D : p \in Nat /\ End(c, p) \in Nat /\ p < End(c, p)
      /\ \A p, q \in D : p < q => End(c, p) <= q
  BY <1>1, ObjectsAre
<1>3. PICK below : below = {o \in D : o <= a}
  OBVIOUS
<1>4. f = IF below = {} THEN a ELSE Max(below)
  BY <1>1, <1>3 DEF FloorAddr
<1>5. CASE below = {}
  <2>1. \A p \in D : p \in Nat /\ ~(p <= a)
    BY <1>2, <1>3, <1>5
  <2> QED
    BY <1>1, <1>4, <1>5, <2>1
<1>6. CASE below # {}
  <2>1. PICK b \in below : b \in Nat
    BY <1>2, <1>3, <1>6
  <2>2. a \in Nat
    BY <1>3, <2>1
  <2>3. below \subseteq Nat /\ \A p \in below : p <= a
    BY <1>2, <1>3
  <2>4. Bounded(below)
    BY <2>2, <2>3 DEF Bounded
  <2>5. f \in below /\ \A p \in below : p <= f
    BY <1>4, <1>6, <2>4, GreatestIs
  <2>6. f \in D /\ f \in Nat /\ f <= a
    BY <1>2, <1>3, <2>5
  <2>7. ASSUME NEW p \in D, p < f PROVE End(c, p) <= a
    <3>1. End(c, p) <= f /\ End(c, p) \in Nat
      BY <1>2, <2>6, <2>7
    <3> QED
      BY <2>6, <3>1
  <2>8. ASSUME NEW p \in D, f <= p PROVE p = f \/ a < p
    <3>1. p \in Nat
      BY <1>2
    <3>2. p <= a => p <= f
      BY <1>3, <2>5
    <3> QED
      BY <2>2, <2>6, <2>8, <3>1, <3>2
  <2>9. f \in Int /\ f <= a /\ f \in DOMAIN Objects(c)
    BY <1>1, <2>6
  <2>10. \A p \in DOMAIN Objects(c) : p < f => End(c, p) <= a
    BY <1>1, <2>7, Zenon
  <2>11. \A p \in DOMAIN Objects(c) : f <= p => p = f \/ a < p
    BY <1>1, <2>8, Zenon
  <2> QED
    BY <2>9, <2>10, <2>11, Zenon
<1> QED
  BY <1>5, <1>6

\* The elements of a set in ascending or in descending order.
Before(x, y, up) == IF up = "up" THEN x < y ELSE y < x
IsList(q, S, up) ==
  LET n == Cardinality(S) IN
  /\ q \in [1 .. n -> S] /\ \A x \in S : \E i \in 1 .. n : q[i] = x
  /\ \A i, j \in 1 .. n : i < j => Before(q[i], q[j], up)

LEMMA AscendingIs ==
  ASSUME NEW S, S \subseteq Nat, IsFiniteSet(S)
  PROVE  IsList(Ascending(S), S, "up")
<1>1. PICK n \in Nat : n = Cardinality(S)
  BY FS_CardinalityType
<1>2. PICK r : r = [a \in S |-> Cardinality({b \in S : b <= a})]
  OBVIOUS
<1>3. ASSUME NEW a \in S
      PROVE  IsFiniteSet({b \in S : b <= a}) /\ r[a] = Cardinality({b \in S : b <= a}) /\ r[a] \in 1 .. n
  <2>1. PICK T : T = {b \in S : b <= a}
    OBVIOUS
  <2>2. T \in SUBSET S /\ a \in T
    BY <2>1
  <2>3. IsFiniteSet(T) /\ Cardinality(T) <= n /\ Cardinality(T) \in Nat
    BY <1>1, <2>2, FS_Subset, FS_CardinalityType
  <2>4. Cardinality(T) # 0
    BY <2>2, <2>3, FS_EmptySet
  <2> QED
    BY <1>2, <2>1, <2>3, <2>4
<1>4. ASSUME NEW a \in S, NEW b \in S, a < b PROVE r[a] < r[b]
  <2>1. PICK T : T = {x \in S : x <= a}
    OBVIOUS
  <2>2. PICK U : U = {x \in S : x <= b}
    OBVIOUS
  <2>3. \A x \in S : x \in Nat
    OBVIOUS
  <2>4. T \in SUBSET U /\ T # U
    <3>1. b \in U /\ b \notin T
      BY <1>4, <2>1, <2>2, <2>3
    <3>2. \A x \in T : x \in U
      BY <1>4, <2>1, <2>2, <2>3
    <3> QED
      BY <3>1, <3>2
  <2>5. IsFiniteSet(U) /\ r[a] = Cardinality(T) /\ r[b] = Cardinality(U) /\ r[a] \in 1 .. n /\ r[b] \in 1 .. n
    BY <1>3, <2>1, <2>2
  <2>6. Cardinality(T) <= Cardinality(U) /\ (Cardinality(T) = Cardinality(U) => T = U)
    BY <2>4, <2>5, FS_Subset
  <2> QED
    BY <2>4, <2>5, <2>6
<1>5. \A a, b \in S : r[a] = r[b] => a = b
  <2>1. ASSUME NEW a \in S, NEW b \in S, r[a] = r[b] PROVE a = b
    <3>1. r[a] \in 1 .. n /\ r[b] \in 1 .. n
      BY <1>3, Zenon
    <3>2. (a < b => r[a] < r[b]) /\ (b < a => r[b] < r[a])
      BY <1>4, Zenon
    <3>3. ~(a < b) /\ ~(b < a)
      BY <2>1, <3>1, <3>2
    <3>4. a \in Nat /\ b \in Nat
      OBVIOUS
    <3> QED
      BY <3>3, <3>4
  <2> QED
    BY <2>1
<1>6. r \in [S -> 1 .. n]
  BY <1>2, <1>3
<1>7. r \in Injection(S, 1 .. n)
  BY <1>5, <1>6 DEF Injection, IsInjective
<1>8. IsFiniteSet(1 .. n) /\ Cardinality(1 .. n) = n
  BY FS_Interval
<1>9. r \in Surjection(S, 1 .. n)
  BY <1>1, <1>7, <1>8, FS_Injection
<1>10. \A i \in 1 .. n : \E a \in S : r[a] = i
  BY <1>9 DEF Surjection
<1>11. PICK q : q = Ascending(S)
  OBVIOUS
<1>12. ASSUME NEW i \in 1 .. n PROVE q[i] \in S /\ r[q[i]] = i
  <2>1. q[i] = CHOOSE a \in S : Cardinality({b \in S : b <= a}) = i
    BY <1>1, <1>11 DEF Ascending
  <2>2. \E a \in S : Cardinality({b \in S : b <= a}) = i
    BY <1>3, <1>10
  <2>3. q[i] \in S /\ Cardinality({b \in S : b <= q[i]}) = i
    BY <2>1, <2>2
  <2> QED
    BY <1>3, <2>3
<1>13. q \in [1 .. n -> S]
  BY <1>1, <1>11, <1>12 DEF Ascending
<1>14. ASSUME NEW i \in 1 .. n, NEW j \in 1 .. n, i < j PROVE q[i] < q[j]
  <2>1. PICK x \in S, y \in S : x = q[i] /\ y = q[j] /\ r[x] = i /\ r[y] = j
    BY <1>12
  <2>2. ~(y < x) /\ x # y
    BY <1>4, <1>14, <2>1
  <2> QED
    BY <2>1, <2>2
<1>15. ASSUME NEW x \in S PROVE \E i \in 1 .. n : q[i] = x
  <2>1. PICK i \in 1 .. n : i = r[x]
    BY <1>3
  <2>2. q[i] \in S /\ r[q[i]] = i
    BY <1>12
  <2>3. q[i] = x
    BY <1>5, <2>1, <2>2
  <2> QED
    BY <2>3
<1> QED
  BY <1>1, <1>11, <1>13, <1>14, <1>15 DEF IsList, Before

LEMMA ReverseIs ==
  ASSUME NEW S, S \subseteq Nat, IsFiniteSet(S)
  PROVE  IsList(Reverse(Ascending(S)), S, "down")
<1>1. PICK n \in Nat : n = Cardinality(S)
  BY FS_CardinalityType
<1>2. PICK q : q = Ascending(S)
  OBVIOUS
<1>3. /\ q \in [1 .. n -> S] /\ \A x \in S : \E i \in 1 .. n : q[i] = x
      /\ \A i, j \in 1 .. n : i < j => q[i] < q[j]
  BY <1>1, <1>2, AscendingIs DEF IsList, Before
<1>4. Len(q) = n
  <2>1. q \in Seq(S)
    BY <1>3, SeqDef
  <2>2. DOMAIN q = 1 .. n /\ DOMAIN q = 1 .. Len(q) /\ Len(q) \in Nat
    BY <1>3, <2>1, LenProperties
  <2> QED
    BY <2>2
<1>5. PICK p : p = Reverse(q)
  OBVIOUS
<1>6. p = [i \in 1 .. n |-> q[(n - i) + 1]]
  BY <1>4, <1>5 DEF Reverse
<1>7. \A i \in 1 .. n : (n - i) + 1 \in 1 .. n /\ p[i] = q[(n - i) + 1]
  BY <1>6
<1>8. p \in [1 .. n -> S]
  BY <1>3, <1>6, <1>7
<1>9. ASSUME NEW x \in S PROVE \E i \in 1 .. n : p[i] = x
  <2>1. PICK k \in 1 .. n : q[k] = x
    BY <1>3
  <2>2. PICK i \in 1 .. n : i = (n - k) + 1
    OBVIOUS
  <2>3. (n - i) + 1 = k
    BY <2>2
  <2> QED
    BY <1>7, <2>1, <2>3
<1>10. ASSUME NEW i \in 1 .. n, NEW j \in 1 .. n, i < j PROVE p[j] < p[i]
  <2>1. PICK k \in 1 .. n, m \in 1 .. n : k = (n - i) + 1 /\ m = (n - j) + 1
    BY <1>7
  <2>2. m < k
    BY <1>10, <2>1
  <2> QED
    BY <1>3, <1>7, <2>1, <2>2
<1> QED
  BY <1>1, <1>2, <1>5, <1>8, <1>9, <1>10 DEF IsList, Before

\* The first elements of a list are those that come before the next.
FirstOf(q, i) == {q[k] : k \in 1 .. i}

LEMMA FirstIs ==
  ASSUME NEW S, IsFiniteSet(S), NEW q, NEW up, IsList(q, S, up), NEW n, n = Cardinality(S)
  PROVE  /\ n \in Nat /\ DOMAIN q = 1 .. n /\ FirstOf(q, 0) = {}
         /\ \A x : x \in FirstOf(q, n) <=> x \in S
<1>1. n \in Nat
  BY FS_CardinalityType
<1>2. q \in [1 .. n -> S] /\ \A x \in S : \E i \in 1 .. n : q[i] = x
  BY DEF IsList
<1>3. FirstOf(q, 0) = {}
  <2>1. \A k : k \notin 1 .. 0
    OBVIOUS
  <2> QED
    BY <2>1 DEF FirstOf
<1>4. FirstOf(q, n) = S
  BY <1>2 DEF FirstOf
<1> QED
  BY <1>1, <1>2, <1>3, <1>4

LEMMA NextIs ==
  ASSUME NEW S, S \subseteq Nat, IsFiniteSet(S), NEW q, NEW up, IsList(q, S, up),
         NEW n, n = Cardinality(S), NEW i \in 1 .. n
  PROVE  /\ q[i] \in S /\ FirstOf(q, i) = FirstOf(q, i - 1) \cup {q[i]}
         /\ \A x : x \in FirstOf(q, i - 1) <=> x \in S /\ Before(x, q[i], up)
<1>1. n \in Nat
  BY FS_CardinalityType
<1>2. /\ q \in [1 .. n -> S] /\ \A x \in S : \E k \in 1 .. n : q[k] = x
      /\ \A k, j \in 1 .. n : k < j => Before(q[k], q[j], up)
  BY DEF IsList
<1>3. \A k : k \in 1 .. i <=> k \in 1 .. i - 1 \/ k = i
  BY <1>1
<1>4. FirstOf(q, i) = FirstOf(q, i - 1) \cup {q[i]}
  BY <1>3 DEF FirstOf
<1>5. ASSUME NEW x \in FirstOf(q, i - 1) PROVE x \in S /\ Before(x, q[i], up)
  <2>1. PICK k \in 1 .. i - 1 : x = q[k]
    BY <1>5 DEF FirstOf
  <2>2. k \in 1 .. n /\ k < i
    BY <1>1, <2>1
  <2> QED
    BY <1>2, <2>1, <2>2
<1>6. ASSUME NEW x \in S, Before(x, q[i], up) PROVE x \in FirstOf(q, i - 1)
  <2>1. PICK k \in 1 .. n : x = q[k]
    BY <1>2
  <2>2. x \in Nat /\ q[i] \in Nat
    BY <1>2
  <2>3. k # i
    BY <1>6, <2>1, <2>2 DEF Before
  <2>4. ~(i < k)
    <3> SUFFICES ASSUME i < k PROVE FALSE
      OBVIOUS
    <3>1. Before(q[i], x, up)
      BY <1>2, <2>1
    <3> QED
      BY <1>6, <2>2, <3>1 DEF Before
  <2>5. k \in 1 .. i - 1
    BY <1>1, <2>3, <2>4
  <2> QED
    BY <2>1, <2>5 DEF FirstOf
<1> QED
  BY <1>2, <1>4, <1>5, <1>6

-----------------------------------------------------------------------------
(***************************************************************************)
(* What is painted of an object, and how many lines objects have.          *)
(***************************************************************************)
\* Objects of a CFB as they are painted.
Drawable(c, s, a) == ObjToPaintable(c, s, a).kind # "none"
CacheIs(s) ==
  /\ DOMAIN s.cache \subseteq Nat
  /\ \A a \in DOMAIN s.cache : s.cache[a].kind # "none" /\ s.cache[a].lines \in Nat

LEMMA LinesAre ==
  ASSUME NEW c, CodeIs(c), NEW s, CacheIs(s), NEW a \in DOMAIN Objects(c)
  PROVE  LinesOf(c, s, a) \in Nat /\ (~Drawable(c, s, a) => LinesOf(c, s, a) = 0)
<1>1. Objects(c)[a].lines \in Nat /\ Objects(c)[a].kind \in {"code", "data", "unknown"}
  BY ObjectsAre
<1>2. CASE a \in DOMAIN s.cache
  <2>1. ObjToPaintable(c, s, a) = s.cache[a] /\ s.cache[a].kind # "none" /\ s.cache[a].lines \in Nat
    BY <1>2 DEF ObjToPaintable, CacheIs
  <2> QED
    BY <2>1 DEF LinesOf, Drawable
<1>3. CASE a \notin DOMAIN s.cache
  <2>1. PICK q : q = ObjToPaintable(c, s, a)
    OBVIOUS
  <2>2. \/ q = [kind |-> "none", lines |-> 0]
        \/ q = [kind |-> Objects(c)[a].kind, lines |-> Objects(c)[a].lines]
    BY <1>3, <2>1 DEF ObjToPaintable, NotPaintable
  <2>3. q.lines \in Nat /\ (q.kind = "none" => q.lines = 0)
    BY <1>1, <2>2
  <2> QED
    BY <2>1, <2>3 DEF LinesOf, Drawable
<1> QED
  BY <1>2, <1>3

\* The lines of the objects of a set, added in any order.
LinesIn(c, s, S) == FoldSet(LAMBDA a, n : n + LinesOf(c, s, a), 0, S)

LEMMA FoldsAgree ==
  ASSUME NEW how, NEW base, NEW S, IsFiniteSet(S), Picks(how, S), NEW h, IsFold(how, base, S, h),
         NEW T \in SUBSET S, NEW g, IsFold(how, base, T, g)
  PROVE  g[T] = h[T]
<1>1. IsFiniteSet(T) /\ Picks(how, T)
  BY FS_Subset DEF Picks
<1>2. PICK Good : Good = {s \in SUBSET T : g[s] = h[s]}
  OBVIOUS
<1>3. {} \in Good
  BY <1>2 DEF IsFold
<1>4. ASSUME NEW s \in SUBSET T, s # {}, s \ {Picked(how, s)} \in Good PROVE s \in Good
  <2>1. PICK x : x = Picked(how, s)
    OBVIOUS
  <2>2. s \in SUBSET S
    OBVIOUS
  <2>3. g[s] = FoldStep(how, x, g[s \ {x}])
    BY <1>4, <2>1 DEF IsFold
  <2>4. h[s] = FoldStep(how, x, h[s \ {x}])
    BY <1>4, <2>1, <2>2 DEF IsFold
  <2>5. g[s \ {x}] = h[s \ {x}]
    BY <1>2, <1>4, <2>1
  <2> QED
    BY <1>2, <2>3, <2>4, <2>5
<1>5. T \in Good
  BY <1>1, <1>3, <1>4, FoldInduction
<1> QED
  BY <1>2, <1>5

LEMMA LinesFold ==
  ASSUME NEW c, NEW s, NEW S, IsFiniteSet(S), NEW how, how.of = "lines", how.c = c, how.s = s
  PROVE  Picks(how, S) /\ \E h : IsFold(how, 0, S, h) /\ LinesIn(c, s, S) = h[S]
<1>2. /\ \A x, v : FoldStep(how, x, v) = v + LinesOf(c, s, x)
      /\ \A t : Picked(how, t) = CHOOSE x \in t : TRUE
      /\ Picks(how, S)
  BY DEF Picks, Picked, FoldStep
<1> DEFINE Def(h) == h = [t \in SUBSET S |-> IF t = {} THEN 0
                                             ELSE h[t \ {CHOOSE x \in t : TRUE}] + LinesOf(c, s, CHOOSE x \in t : TRUE)]
<1>3. PICK h : IsFold(how, 0, S, h)
  BY <1>2, FoldExists
<1>4. ASSUME NEW g PROVE Def(g) <=> IsFold(how, 0, S, g)
  <2>1. ASSUME NEW t \in SUBSET S
        PROVE  (IF t = {} THEN 0 ELSE g[t \ {CHOOSE x \in t : TRUE}] + LinesOf(c, s, CHOOSE x \in t : TRUE))
               = (IF t = {} THEN 0 ELSE FoldStep(how, Picked(how, t), g[t \ {Picked(how, t)}]))
    BY <1>2, Zenon
  <2>2. [t \in SUBSET S |-> IF t = {} THEN 0
                            ELSE g[t \ {CHOOSE x \in t : TRUE}] + LinesOf(c, s, CHOOSE x \in t : TRUE)]
        = [t \in SUBSET S |-> IF t = {} THEN 0 ELSE FoldStep(how, Picked(how, t), g[t \ {Picked(how, t)}])]
    BY <2>1
  <2> QED
    BY <2>2 DEF IsFold
<1>5. PICK f : f = CHOOSE g : Def(g)
  OBVIOUS
<1>6. IsFold(how, 0, S, f)
  BY <1>3, <1>4, <1>5
<1>7. LinesIn(c, s, S) = f[S]
  BY <1>5 DEF LinesIn, FoldSet, MapThenFoldSet
<1> QED
  BY <1>2, <1>6, <1>7

\* The lines of a set without one of its objects.
LEMMA LinesTake ==
  ASSUME NEW c, CodeIs(c), NEW s, CacheIs(s), NEW how, NEW h, NEW S \in SUBSET DOMAIN Objects(c),
         how.of = "lines", how.c = c, how.s = s, Picks(how, S), IsFold(how, 0, S, h)
  PROVE  \A T \in SUBSET S : h[T] \in Nat /\ \A x \in T : h[T] = h[T \ {x}] + LinesOf(c, s, x)
<1> DEFINE l(x) == LinesOf(c, s, x)
<1>1. \A x \in S : l(x) \in Nat
  BY LinesAre
<1>2. \A x, v : FoldStep(how, x, v) = v + l(x)
  BY DEF FoldStep
<1> HIDE DEF l
<1>3. IsFiniteSet(S)
  <2>1. IsFiniteSet(DOMAIN Objects(c))
    BY ObjectsAre
  <2> QED
    BY <2>1, FS_Subset
<1>4. PICK Good : Good = {T \in SUBSET S : h[T] \in Nat /\ \A x \in T : h[T] = h[T \ {x}] + l(x)}
  OBVIOUS
<1>5. h[{}] = 0
  BY DEF IsFold
<1>6. ASSUME NEW T \in SUBSET S, \A U \in SUBSET T : U # T => U \in Good PROVE T \in Good
  <2>1. CASE T = {}
    BY <1>4, <1>5, <2>1
  <2>2. CASE T # {}
    <3>1. PICK p \in T : p = Picked(how, T)
      BY <2>2 DEF Picks
    <3>2. h[T] = h[T \ {p}] + l(p)
      BY <1>2, <2>2, <3>1 DEF IsFold
    <3>3. T \ {p} \in Good /\ h[T \ {p}] \in Nat
      <4>1. T \ {p} \in SUBSET T /\ T \ {p} # T
        OBVIOUS
      <4>2. T \ {p} \in Good
        BY <1>6, <4>1, Zenon
      <4> QED
        BY <1>4, <4>2
    <3>4. p \in S /\ l(p) \in Nat /\ h[T] \in Nat
      BY <1>1, <3>2, <3>3
    <3>5. ASSUME NEW x \in T, x # p PROVE h[T] = h[T \ {x}] + l(x)
      <4>1. PICK U : U = (T \ {p}) \ {x} /\ U = (T \ {x}) \ {p}
        OBVIOUS
      <4>2. h[T \ {p}] = h[U] + l(x)
        <5>1. x \in T \ {p}
          BY <3>5
        <5> QED
          BY <1>4, <3>3, <4>1, <5>1
      <4>3. T \ {x} \in Good
        <5>1. T \ {x} \in SUBSET T /\ T \ {x} # T
          OBVIOUS
        <5> QED
          BY <1>6, <5>1, Zenon
      <4>4. h[T \ {x}] = h[U] + l(p)
        <5>1. p \in T \ {x}
          BY <3>5
        <5> QED
          BY <1>4, <4>1, <4>3, <5>1
      <4>5. h[U] \in Nat /\ l(x) \in Nat
        <5>1. U \in SUBSET T /\ U # T
          BY <4>1
        <5>2. U \in Good
          BY <1>6, <5>1, Zenon
        <5> QED
          BY <1>1, <1>4, <5>2
      <4> QED
        BY <3>2, <3>4, <4>2, <4>4, <4>5
    <3>6. \A x \in T : h[T] = h[T \ {x}] + l(x)
      BY <3>2, <3>5
    <3> QED
      BY <1>4, <3>4, <3>6
  <2> QED
    BY <2>1, <2>2
<1>7. \A T \in SUBSET S : (\A U \in SUBSET T : U # T => U \in Good) => T \in Good
  BY <1>6
<1>8. \A T \in SUBSET S : T \in Good
  BY <1>3, <1>7, SubsetInduction
<1> QED
  BY <1>4, <1>8 DEF l

\* And with one more.
LEMMA LinesAdd ==
  ASSUME NEW c, CodeIs(c), NEW s, CacheIs(s), NEW S \in SUBSET DOMAIN Objects(c)
  PROVE  /\ LinesIn(c, s, S) \in Nat /\ (S = {} => LinesIn(c, s, S) = 0)
         /\ \A x \in S : LinesIn(c, s, S) = LinesIn(c, s, S \ {x}) + LinesOf(c, s, x)
<1>1. IsFiniteSet(S)
  <2>1. IsFiniteSet(DOMAIN Objects(c))
    BY ObjectsAre
  <2> QED
    BY <2>1, FS_Subset
<1>2. PICK how, h : /\ how.of = "lines" /\ how.c = c /\ how.s = s
                    /\ Picks(how, S) /\ IsFold(how, 0, S, h) /\ LinesIn(c, s, S) = h[S]
  <2>1. PICK how : how.of = "lines" /\ how.c = c /\ how.s = s
    <3>1. PICK how : how = [of |-> "lines", c |-> c, s |-> s]
      OBVIOUS
    <3> QED
      BY <3>1
  <2> QED
    BY <1>1, <2>1, LinesFold
<1>3. h[S] \in Nat /\ \A x \in S : h[S] = h[S \ {x}] + LinesOf(c, s, x)
  BY <1>2, LinesTake
<1>4. S = {} => h[S] = 0
  BY <1>2 DEF IsFold
<1>5. ASSUME NEW x \in S PROVE LinesIn(c, s, S \ {x}) = h[S \ {x}]
  <2>1. PICK T : T = S \ {x}
    OBVIOUS
  <2>2. T \in SUBSET S /\ IsFiniteSet(T)
    BY <1>1, <2>1, FS_Subset
  <2>3. PICK g : IsFold(how, 0, T, g) /\ LinesIn(c, s, T) = g[T]
    BY <1>2, <2>2, LinesFold
  <2>4. g[T] = h[T]
    BY <1>1, <1>2, <2>2, <2>3, FoldsAgree
  <2> QED
    BY <2>1, <2>3, <2>4
<1> QED
  BY <1>2, <1>3, <1>4, <1>5

\* And of two sets that are apart.
LEMMA LinesUnion ==
  ASSUME NEW c, CodeIs(c), NEW s, CacheIs(s), NEW S \in SUBSET DOMAIN Objects(c),
         NEW T \in SUBSET DOMAIN Objects(c), S \cap T = {}
  PROVE  /\ LinesIn(c, s, S \cup T) = LinesIn(c, s, S) + LinesIn(c, s, T)
         /\ (\A x \in T : ~Drawable(c, s, x)) => LinesIn(c, s, T) = 0
<1> DEFINE D == DOMAIN Objects(c)
           f(U) == LinesIn(c, s, U)
           l(x) == LinesOf(c, s, x)
           Zero(U) == \A x \in U : ~Drawable(c, s, x)
<1>1. \A U \in SUBSET D : /\ f(U) \in Nat /\ (U = {} => f(U) = 0)
                          /\ \A x \in U : f(U) = f(U \ {x}) + l(x)
  BY LinesAdd
<1>2. \A x \in D : l(x) \in Nat /\ (~Drawable(c, s, x) => l(x) = 0)
  BY LinesAre
<1>3. IsFiniteSet(T)
  <2>1. IsFiniteSet(D)
    BY ObjectsAre
  <2> QED
    BY <2>1, FS_Subset
<1> HIDE DEF D, f, l
<1>0. S \in SUBSET D /\ T \in SUBSET D
  BY DEF D
<1>4. PICK Good : Good = {U \in SUBSET T : f(S \cup U) = f(S) + f(U) /\ (Zero(U) => f(U) = 0)}
  OBVIOUS
<1>5. ASSUME NEW U \in SUBSET T, \A V \in SUBSET U : V # U => V \in Good PROVE U \in Good
  <2>1. CASE U = {}
    <3>1. U \in SUBSET D /\ f(U) = 0 /\ f(S) \in Nat
      BY <1>0, <1>1, <2>1
    <3>2. f(S \cup U) = f(S)
      <4>1. S \cup U = S
        BY <2>1
      <4> QED
        BY <4>1
    <3>3. f(S \cup U) = f(S) + f(U)
      BY <3>1, <3>2
    <3> QED
      BY <1>4, <3>1, <3>3, Zenon
  <2>2. CASE U # {}
    <3>1. PICK x \in U : TRUE
      BY <2>2
    <3>2. PICK V : V = U \ {x}
      OBVIOUS
    <3>3. V \in Good
      <4>1. V \in SUBSET U /\ V # U
        BY <3>2
      <4> QED
        BY <1>5, <4>1, Zenon
    <3>4. f(S \cup V) = f(S) + f(V) /\ (Zero(V) => f(V) = 0)
      BY <1>4, <3>3
    <3>5. f(U) = f(V) + l(x)
      BY <1>0, <1>1, <3>2
    <3>6. f(S \cup U) = f(S \cup V) + l(x)
      <4>1. (S \cup U) \ {x} = S \cup V /\ x \in S \cup U /\ S \cup U \in SUBSET D
        BY <1>0, <3>2
      <4> QED
        BY <1>1, <4>1
    <3>7. f(S) \in Nat /\ f(V) \in Nat /\ l(x) \in Nat
      <4>1. V \in SUBSET D /\ x \in D
        BY <1>0, <3>2
      <4> QED
        BY <1>0, <1>1, <1>2, <4>1
    <3>8. f(S \cup U) = f(S) + f(U)
      BY <3>4, <3>5, <3>6, <3>7
    <3>9. ASSUME Zero(U) PROVE f(U) = 0
      <4>1. Zero(V) /\ ~Drawable(c, s, x) /\ x \in D
        BY <1>0, <3>2, <3>9
      <4>2. l(x) = 0 /\ f(V) = 0
        BY <1>2, <3>4, <4>1
      <4> QED
        BY <3>5, <4>2
    <3> QED
      BY <1>4, <3>8, <3>9
  <2> QED
    BY <2>1, <2>2
<1>6. \A U \in SUBSET T : (\A V \in SUBSET U : V # U => V \in Good) => U \in Good
  BY <1>5
<1>7. T \in Good
  BY <1>3, <1>6, SubsetInduction
<1> QED
  BY <1>4, <1>7 DEF f

-----------------------------------------------------------------------------
(***************************************************************************)
(* prepare_objects: the first line is looked for in the objects above, then*)
(* objects are passed over until it is reached, then painted.              *)
(***************************************************************************)
\* Passing over the objects of a list, in Compensate.
TopOf(c, s, addr, start, q) ==
  FoldLeft(LAMBDA u, a : With(u, LAMBDA t : AboveStep(c, s, t, a)), [addr |-> addr, start |-> start], q)

\* Compensate by the object it stops at.
LEMMA CompensateIs ==
  ASSUME NEW c, NEW s, NEW addr, NEW start, NEW offset, NEW top,
         top = TopOf(c, s, addr, start, DownFrom(c, addr))
  PROVE  Compensate(c, s, addr, start, offset) =
           IF start >= 0 THEN [addr |-> addr, offset |-> offset, start |-> start]
           ELSE IF top.start < 0 THEN [addr |-> Regions[1].addr, offset |-> Base[1], start |-> 0]
           ELSE [addr |-> top.addr, start |-> top.start,
                 offset |-> OffsetFromAddr(RegionFromAddr(top.addr), top.addr)]
BY DEF Compensate, TopOf, AboveStep

LEMMA AbovePasses ==
  ASSUME NEW c, NEW s, NEW addr, NEW start, NEW q, NEW n \in Nat, DOMAIN q = 1 .. n
  PROVE  \E g : /\ g[0] = [addr |-> addr, start |-> start] /\ TopOf(c, s, addr, start, q) = g[n]
                /\ \A i \in 1 .. n : g[i] = AboveStep(c, s, g[i - 1], q[i])
<1>1. PICK how : how = [of |-> "above", c |-> c, s |-> s, q |-> q]
  OBVIOUS
<1>2. TakesLast(how, n) /\ \A k, v : FoldStep(how, k, v) = AboveStep(c, s, v, q[k])
  BY <1>1 DEF TakesLast, Picked, FoldStep
<1>3. PICK base : base = [addr |-> addr, start |-> start]
  OBVIOUS
<1> DEFINE Wrapped(u, a) == CHOOSE r \in {AboveStep(c, s, x, a) : x \in {u}} : TRUE
           Def(h) == h = [t \in SUBSET DOMAIN q |->
                            IF t = {} THEN base ELSE Wrapped(h[t \ {Max(t)}], q[Max(t)])]
<1>4. \A u, a : Wrapped(u, a) = AboveStep(c, s, u, a)
  <2> SUFFICES ASSUME NEW u, NEW a PROVE Wrapped(u, a) = AboveStep(c, s, u, a)
    OBVIOUS
  <2>1. PICK v : v = AboveStep(c, s, u, a)
    OBVIOUS
  <2>2. {AboveStep(c, s, x, a) : x \in {u}} = {v}
    BY <2>1
  <2> QED
    BY <2>1, <2>2
<1>5. PICK h : IsFold(how, base, 1 .. n, h)
  BY <1>2, PositionsTaken, FoldExists
<1>6. PICK f : f = CHOOSE g : Def(g)
  OBVIOUS
<1>7. TopOf(c, s, addr, start, q) = f[DOMAIN q]
  BY <1>3, <1>6 DEF TopOf, FoldLeft, MapThenFoldSet, With
<1> HIDE DEF Wrapped
<1>8. ASSUME NEW g PROVE Def(g) <=> IsFold(how, base, 1 .. n, g)
  <2>1. ASSUME NEW t \in SUBSET (1 .. n)
        PROVE  (IF t = {} THEN base ELSE Wrapped(g[t \ {Max(t)}], q[Max(t)]))
               = (IF t = {} THEN base ELSE FoldStep(how, Picked(how, t), g[t \ {Picked(how, t)}]))
    <3>1. t # {} => Picked(how, t) = Max(t)
      BY <1>2 DEF TakesLast
    <3>2. FoldStep(how, Max(t), g[t \ {Max(t)}]) = Wrapped(g[t \ {Max(t)}], q[Max(t)])
      BY <1>2, <1>4, Zenon
    <3> QED
      BY <3>1, <3>2, Zenon
  <2>2. [t \in SUBSET (1 .. n) |-> IF t = {} THEN base ELSE Wrapped(g[t \ {Max(t)}], q[Max(t)])]
        = [t \in SUBSET (1 .. n) |->
             IF t = {} THEN base ELSE FoldStep(how, Picked(how, t), g[t \ {Picked(how, t)}])]
    BY <2>1
  <2> QED
    BY <2>2 DEF IsFold
<1>9. IsFold(how, base, 1 .. n, f)
  BY <1>5, <1>6, <1>8
<1>10. PICK g : IsPassing(how, base, n, g) /\ g[n] = f[1 .. n]
  BY <1>2, <1>9, FoldPasses
<1>11. g[0] = base /\ \A i \in 1 .. n : g[i] = AboveStep(c, s, g[i - 1], q[i])
  BY <1>2, <1>10, Zenon DEF IsPassing
<1> QED
  BY <1>3, <1>7, <1>10, <1>11, Zenon

\* Passing over the objects of a list, in PaintFrom.
NothingShown(addr, offset, start, region) ==
  [start |-> start, offset |-> offset, region |-> region, lines |-> 0,
   first |-> 0, full |-> FALSE, shown |-> {}]
PaintOf(c, s, addr, adjust, base, q) ==
  FoldLeft(LAMBDA u, a : With(u, LAMBDA t : PaintStep(c, s, addr, adjust, t, a)), base, q)

\* PaintFrom by the objects it goes over.
LEMMA PaintFromIs ==
  ASSUME NEW c, NEW s, NEW addr, NEW offset, NEW start, NEW region, NEW adjust
  PROVE  PaintFrom(c, s, addr, offset, start, region, adjust)
         = PaintOf(c, s, addr, adjust, NothingShown(addr, offset, start, region), UpFrom(c, addr))
BY DEF PaintFrom, PaintOf, PaintStep, NothingShown

LEMMA PaintPasses ==
  ASSUME NEW c, NEW s, NEW addr, NEW adjust, NEW base, NEW q, NEW n \in Nat, DOMAIN q = 1 .. n
  PROVE  \E g : /\ g[0] = base /\ PaintOf(c, s, addr, adjust, base, q) = g[n]
                /\ \A i \in 1 .. n : g[i] = PaintStep(c, s, addr, adjust, g[i - 1], q[i])
<1>1. PICK how : how = [of |-> "paint", c |-> c, s |-> s, addr |-> addr, adjust |-> adjust, q |-> q]
  OBVIOUS
<1>2. TakesLast(how, n) /\ \A k, v : FoldStep(how, k, v) = PaintStep(c, s, addr, adjust, v, q[k])
  BY <1>1 DEF TakesLast, Picked, FoldStep
<1> DEFINE Wrapped(u, a) == CHOOSE r \in {PaintStep(c, s, addr, adjust, x, a) : x \in {u}} : TRUE
           Def(h) == h = [t \in SUBSET DOMAIN q |->
                            IF t = {} THEN base ELSE Wrapped(h[t \ {Max(t)}], q[Max(t)])]
<1>4. \A u, a : Wrapped(u, a) = PaintStep(c, s, addr, adjust, u, a)
  <2> SUFFICES ASSUME NEW u, NEW a PROVE Wrapped(u, a) = PaintStep(c, s, addr, adjust, u, a)
    OBVIOUS
  <2>1. PICK v : v = PaintStep(c, s, addr, adjust, u, a)
    OBVIOUS
  <2>2. {PaintStep(c, s, addr, adjust, x, a) : x \in {u}} = {v}
    BY <2>1
  <2> QED
    BY <2>1, <2>2
<1>5. PICK h : IsFold(how, base, 1 .. n, h)
  BY <1>2, PositionsTaken, FoldExists
<1>6. PICK f : f = CHOOSE g : Def(g)
  OBVIOUS
<1>7. PaintOf(c, s, addr, adjust, base, q) = f[DOMAIN q]
  BY <1>6 DEF PaintOf, FoldLeft, MapThenFoldSet, With
<1> HIDE DEF Wrapped
<1>8. ASSUME NEW g PROVE Def(g) <=> IsFold(how, base, 1 .. n, g)
  <2>1. ASSUME NEW t \in SUBSET (1 .. n)
        PROVE  (IF t = {} THEN base ELSE Wrapped(g[t \ {Max(t)}], q[Max(t)]))
               = (IF t = {} THEN base ELSE FoldStep(how, Picked(how, t), g[t \ {Picked(how, t)}]))
    <3>1. t # {} => Picked(how, t) = Max(t)
      BY <1>2 DEF TakesLast
    <3>2. FoldStep(how, Max(t), g[t \ {Max(t)}]) = Wrapped(g[t \ {Max(t)}], q[Max(t)])
      BY <1>2, <1>4, Zenon
    <3> QED
      BY <3>1, <3>2, Zenon
  <2>2. [t \in SUBSET (1 .. n) |-> IF t = {} THEN base ELSE Wrapped(g[t \ {Max(t)}], q[Max(t)])]
        = [t \in SUBSET (1 .. n) |->
             IF t = {} THEN base ELSE FoldStep(how, Picked(how, t), g[t \ {Picked(how, t)}])]
    BY <2>1
  <2> QED
    BY <2>2 DEF IsFold
<1>9. IsFold(how, base, 1 .. n, f)
  BY <1>5, <1>6, <1>8
<1>10. PICK g : IsPassing(how, base, n, g) /\ g[n] = f[1 .. n]
  BY <1>2, <1>9, FoldPasses
<1>11. g[0] = base /\ \A i \in 1 .. n : g[i] = PaintStep(c, s, addr, adjust, g[i - 1], q[i])
  BY <1>2, <1>10, Zenon DEF IsPassing
<1> QED
  BY <1>7, <1>10, <1>11, Zenon

\* The first line above an object, counted back over the objects before it.
IsTop(c, s, t, start, B, E) ==
  /\ t.start \in Int
  /\ t.start < 0 => t.start = start + LinesIn(c, s, E)
  /\ t.start >= 0 => /\ t.addr \in E /\ Drawable(c, s, t.addr)
                     /\ t.start < LinesOf(c, s, t.addr)
                     /\ t.start = start + LinesIn(c, s, {o \in B : t.addr <= o})

\* One object further up.
LEMMA AboveKeeps ==
  ASSUME NEW c, CodeIs(c), NEW s, CacheIs(s), NEW start \in Int,
         NEW B \in SUBSET DOMAIN Objects(c), NEW E, NEW a \in B, E = {x \in B : a < x},
         NEW t, IsTop(c, s, t, start, B, E), NEW u, u = AboveStep(c, s, t, a)
  PROVE  IsTop(c, s, u, start, B, E \cup {a})
<1>1. \A x \in B : x \in Nat
  BY ObjectsAre
<1>2. LinesOf(c, s, a) \in Nat /\ (~Drawable(c, s, a) => LinesOf(c, s, a) = 0)
  BY LinesAre
<1>3. PICK F : F = E \cup {a}
  OBVIOUS
<1>4. F \in SUBSET DOMAIN Objects(c) /\ E = F \ {a} /\ a \in F /\ F = {o \in B : a <= o}
  BY <1>1, <1>3
<1>5. PICK m \in Nat, l \in Nat : m = LinesIn(c, s, E) /\ l = LinesOf(c, s, a) /\ LinesIn(c, s, F) = m + l
  <2>1. E \in SUBSET DOMAIN Objects(c)
    BY <1>4
  <2>2. LinesIn(c, s, E) \in Nat
    BY <2>1, LinesAdd
  <2>3. LinesIn(c, s, F) = LinesIn(c, s, E) + LinesOf(c, s, a)
    BY <1>4, LinesAdd
  <2> QED
    BY <1>2, <2>2, <2>3
<1>6. CASE t.start >= 0
  <2>1. u = t
    BY <1>6 DEF AboveStep
  <2>2. ~(t.start < 0) /\ t.addr \in F
    BY <1>3, <1>6 DEF IsTop
  <2> QED
    BY <1>3, <1>6, <2>1, <2>2, Zenon DEF IsTop
<1>7. CASE t.start < 0 /\ ~Drawable(c, s, a)
  <2>1. u = t
    BY <1>7 DEF AboveStep, Drawable
  <2>2. t.start \in Int /\ t.start = start + m
    BY <1>5, <1>7 DEF IsTop
  <2>3. t.start = start + LinesIn(c, s, F)
    BY <1>2, <1>5, <1>7, <2>2
  <2>4. ~(t.start >= 0)
    BY <1>7, <2>2
  <2> QED
    BY <1>3, <2>1, <2>2, <2>3, <2>4, Zenon DEF IsTop
<1>8. CASE t.start < 0 /\ Drawable(c, s, a)
  <2>1. t.start \in Int /\ t.start = start + m
    BY <1>5, <1>8 DEF IsTop
  <2>2. u = [addr |-> a, start |-> t.start + l]
    BY <1>5, <1>8, <2>1 DEF AboveStep, Drawable
  <2>3. u.addr = a /\ u.start = t.start + l
    BY <2>2
  <2>4. u.start \in Int /\ u.start = start + LinesIn(c, s, F) /\ u.start < l
    BY <1>5, <1>8, <2>1, <2>3
  <2>5. {o \in B : u.addr <= o} = F
    BY <1>4, <2>3
  <2> QED
    BY <1>3, <1>4, <1>5, <1>8, <2>3, <2>4, <2>5, Zenon DEF IsTop
<1>9. t.start \in Int
  BY DEF IsTop
<1> QED
  <2>1. t.start >= 0 \/ t.start < 0
    BY <1>9
  <2> QED
    BY <1>6, <1>7, <1>8, <2>1, Zenon

\* Where Compensate stops.
LEMMA TopIs ==
  ASSUME NEW c, CodeIs(c), NEW s, CacheIs(s), NEW addr, NEW start \in Int, start < 0,
         NEW B, B = {o \in DOMAIN Objects(c) : o < FloorAddr(c, addr)}
  PROVE  IsTop(c, s, TopOf(c, s, addr, start, DownFrom(c, addr)), start, B, B)
<1>1. PICK q : q = DownFrom(c, addr)
  OBVIOUS
<1>2. B \subseteq Nat /\ IsFiniteSet(B) /\ B \in SUBSET DOMAIN Objects(c)
  <2>1. IsFiniteSet(DOMAIN Objects(c)) /\ DOMAIN Objects(c) \subseteq Nat
    BY ObjectsAre
  <2>2. B \in SUBSET DOMAIN Objects(c)
    OBVIOUS
  <2> QED
    BY <2>1, <2>2, FS_Subset
<1>3. IsList(q, B, "down")
  BY <1>1, <1>2, ReverseIs DEF DownFrom
<1>4. PICK n : n = Cardinality(B)
  OBVIOUS
<1>5. /\ n \in Nat /\ DOMAIN q = 1 .. n /\ FirstOf(q, 0) = {} /\ FirstOf(q, n) = B
      /\ \A i \in 1 .. n : /\ q[i] \in B /\ FirstOf(q, i) = FirstOf(q, i - 1) \cup {q[i]}
                           /\ \A x : x \in FirstOf(q, i - 1) <=> x \in B /\ Before(x, q[i], "down")
  <2>1. \A i \in 1 .. n : /\ q[i] \in B /\ FirstOf(q, i) = FirstOf(q, i - 1) \cup {q[i]}
                           /\ \A x : x \in FirstOf(q, i - 1) <=> x \in B /\ Before(x, q[i], "down")
    BY <1>2, <1>3, <1>4, NextIs
  <2>2. n \in Nat /\ DOMAIN q = 1 .. n /\ FirstOf(q, 0) = {}
    BY <1>2, <1>3, <1>4, FirstIs
  <2>3. \A x : x \in FirstOf(q, n) <=> x \in B
    BY <1>2, <1>3, <1>4, FirstIs
  <2> QED
    BY <2>1, <2>2, <2>3
<1>6. PICK g : /\ g[0] = [addr |-> addr, start |-> start] /\ TopOf(c, s, addr, start, q) = g[n]
               /\ \A i \in 1 .. n : g[i] = AboveStep(c, s, g[i - 1], q[i])
  BY <1>5, AbovePasses
<1>7. PICK Good : Good = {i \in 0 .. n : IsTop(c, s, g[i], start, B, FirstOf(q, i))}
  OBVIOUS
<1>8. 0 \in Good
  <2>1. LinesIn(c, s, {}) = 0
    BY LinesAdd
  <2>2. g[0].start = start /\ start + 0 = start /\ ~(start >= 0)
    BY <1>6
  <2>3. IsTop(c, s, g[0], start, B, FirstOf(q, 0))
    BY <1>5, <2>1, <2>2, Zenon DEF IsTop
  <2> QED
    BY <1>5, <1>7, <2>3
<1>9. ASSUME NEW i \in 1 .. n, i - 1 \in Good PROVE i \in Good
  <2>1. IsTop(c, s, g[i - 1], start, B, FirstOf(q, i - 1))
    BY <1>7, <1>9
  <2>2. q[i] \in B /\ g[i] = AboveStep(c, s, g[i - 1], q[i]) /\ FirstOf(q, i) = FirstOf(q, i - 1) \cup {q[i]}
    BY <1>5, <1>6
  <2>3. FirstOf(q, i - 1) = {x \in B : q[i] < x}
    BY <1>5 DEF Before
  <2>4. IsTop(c, s, g[i], start, B, FirstOf(q, i - 1) \cup {q[i]})
    BY <1>2, <2>1, <2>2, <2>3, AboveKeeps
  <2>5. i \in 0 .. n
    BY <1>5
  <2> QED
    BY <1>7, <2>2, <2>4, <2>5
<1>10. \A i \in 0 .. n : i \in Good
  BY <1>5, <1>8, <1>9, PassingInduction
<1>11. n \in 0 .. n
  BY <1>5
<1> QED
  BY <1>1, <1>5, <1>6, <1>7, <1>10, <1>11

\* An offset is that of its address.
LEMMA OffsetIs ==
  ASSUME NEW L, L = Len(Regions), NEW o \in Nat, NEW r, r = RegionFromOffset(o), NEW x, x = AddrOf(o)
  PROVE  /\ r \in 1 .. L /\ x \in Nat /\ Regions[r].addr <= x
         /\ \A k \in 1 .. L : Regions[k].addr <= x /\ x < Regions[k].addr + Regions[k].size
              => k = r /\ o = OffsetFromAddr(k, x)
<1>1. /\ L \in Nat \ {0} /\ \A k \in 1 .. L : Regions[k].addr \in Nat /\ Regions[k].size \in Nat \ {0}
      /\ \A i, j \in 1 .. L : i < j => Regions[i].addr + Regions[i].size <= Regions[j].addr
  BY RegionsAre
<1>2. r \in 1 .. L /\ Base[r] <= o /\ \A k \in 1 .. L : Base[k] <= o => k <= r
  BY OffsetRegionIs
<1>3. PICK b \in Nat, a \in Nat, w \in Nat : b = Base[r] /\ a = Regions[r].addr /\ w = Regions[r].size
  <2>1. r \in 1 .. L + 1
    BY <1>1, <1>2
  <2>2. Base[r] \in Nat /\ Regions[r].addr \in Nat /\ Regions[r].size \in Nat
    BY <1>1, <1>2, <2>1, BaseIs
  <2> QED
    BY <2>2
<1>4. x = a + o - b /\ x \in Nat /\ a <= x
  <2>1. x = a + o - b
    BY <1>3 DEF AddrOf, AddrFromOffset
  <2>2. b <= o
    BY <1>2, <1>3
  <2> QED
    BY <2>1, <2>2
<1>5. ASSUME r < L PROVE x < a + w
  <2>1. r + 1 \in 1 .. L /\ r + 1 \in 1 .. L + 1
    BY <1>1, <1>2, <1>5
  <2>2. Base[r + 1] = b + w
    BY <1>2, <1>3, BaseIs
  <2>3. ~(Base[r + 1] <= o)
    BY <1>2, <2>1
  <2>4. ~(b + w <= o)
    BY <2>2, <2>3
  <2> QED
    BY <1>3, <1>4, <2>4
<1>6. ASSUME NEW k \in 1 .. L, Regions[k].addr <= x, x < Regions[k].addr + Regions[k].size
      PROVE  k = r /\ o = OffsetFromAddr(k, x)
  <2>1. PICK ka \in Nat, kw \in Nat : ka = Regions[k].addr /\ kw = Regions[k].size
    <3>1. Regions[k].addr \in Nat /\ Regions[k].size \in Nat
      BY <1>1
    <3> QED
      BY <3>1
  <2>2. ~(k < r)
    <3> SUFFICES ASSUME k < r PROVE FALSE
      OBVIOUS
    <3>1. ka + kw <= a
      BY <1>1, <1>2, <1>3, <2>1
    <3> QED
      BY <1>3, <1>4, <1>6, <2>1, <3>1
  <2>3. ~(r < k)
    <3> SUFFICES ASSUME r < k PROVE FALSE
      OBVIOUS
    <3>1. a + w <= ka
      BY <1>1, <1>2, <1>3, <2>1
    <3>2. x < a + w
      BY <1>1, <1>2, <1>5
    <3> QED
      BY <1>3, <1>4, <1>6, <2>1, <3>1, <3>2
  <2>4. k = r
    BY <1>1, <1>2, <2>2, <2>3
  <2>5. OffsetFromAddr(k, x) = b + x - a
    BY <1>3, <2>4 DEF OffsetFromAddr
  <2> QED
    BY <1>3, <1>4, <2>4, <2>5
<1> QED
  BY <1>2, <1>3, <1>4, <1>6

\* What is still to come from an address on.
Ahead(c, s, x) == {o \in DOMAIN Objects(c) : x < End(c, o) /\ Drawable(c, s, o)}

\* Nothing ahead of an offset is before its region.
LEMMA AheadIs ==
  ASSUME NEW c, CodeIs(c), NEW s, NEW L, L = Len(Regions), NEW o \in Nat, NEW x, x = AddrOf(o)
  PROVE  \A a \in Ahead(c, s, x) : Regions[RegionFromOffset(o)].addr <= a
<1>1. PICK r : r = RegionFromOffset(o)
  OBVIOUS
<1>2. r \in 1 .. L /\ x \in Nat /\ Regions[r].addr <= x
  BY <1>1, OffsetIs
<1>3. /\ L \in Nat /\ \A k \in 1 .. L : Regions[k].addr \in Nat /\ Regions[k].size \in Nat
      /\ \A i, j \in 1 .. L : i < j => Regions[i].addr + Regions[i].size <= Regions[j].addr
  BY RegionsAre
<1>4. ASSUME NEW a \in Ahead(c, s, x) PROVE Regions[r].addr <= a
  <2>1. a \in DOMAIN Objects(c) /\ x < End(c, a)
    BY DEF Ahead
  <2>2. a \in Nat /\ End(c, a) \in Nat /\ \E k \in 1 .. L : InRegion(c, a, k)
    BY <2>1, ObjectsAre
  <2>3. PICK k \in 1 .. L : Regions[k].addr <= a /\ End(c, a) <= Regions[k].addr + Regions[k].size
    BY <2>2 DEF InRegion
  <2>4. PICK ka \in Nat, kw \in Nat, ra \in Nat : ka = Regions[k].addr /\ kw = Regions[k].size /\ ra = Regions[r].addr
    <3>1. Regions[k].addr \in Nat /\ Regions[k].size \in Nat /\ Regions[r].addr \in Nat
      BY <1>2, <1>3
    <3> QED
      BY <3>1
  <2>5. CASE k < r
    <3>1. ka + kw <= ra
      BY <1>2, <1>3, <2>4, <2>5
    <3> QED
      BY <1>2, <2>1, <2>2, <2>3, <2>4, <3>1
  <2>6. CASE r < k
    <3>1. Regions[r].addr + Regions[r].size <= ka /\ Regions[r].size \in Nat
      BY <1>2, <1>3, <2>4, <2>6
    <3>2. ra <= ka
      BY <2>4, <3>1
    <3> QED
      BY <2>2, <2>3, <2>4, <3>2
  <2>7. CASE k = r
    BY <2>3, <2>7
  <2>8. k < r \/ r < k \/ k = r
    BY <1>2, <1>3
  <2> QED
    BY <2>5, <2>6, <2>7, <2>8
<1> QED
  BY <1>1, <1>4

\* What paints from a line below an address, and is not past it at once.
Line(c, s, w, a, start) == AdjustedStart(ObjToPaintable(c, s, a), a, w.addr, start, w.adjust)
Passed(c, s, w, a, start) == Line(c, s, w, a, start) > 0 /\ Line(c, s, w, a, start) >= LinesOf(c, s, a)
Fits(c, s, w) ==
  \A a \in Ahead(c, s, w.addr) :
    (\A o \in Ahead(c, s, w.addr) : a <= o) => ~Passed(c, s, w, a, w.start)
IsWork(w) == w.offset \in Nat /\ w.addr = AddrOf(w.offset) /\ w.start \in Nat
RegionFits(c, s, w, region) ==
  \/ Fits(c, s, w)
  \/ region \in 1 .. Len(Regions) /\ \A a \in Ahead(c, s, w.addr) : Regions[region].addr <= a
IsNext(c, s, w, E, a) ==
  a \in DOMAIN Objects(c) /\ \A o \in Ahead(c, s, w.addr) : o \in E <=> o < a

IsDone(t) ==
  t = [start |-> t.start, offset |-> t.offset, region |-> t.region, lines |-> t.lines,
       first |-> t.first, full |-> t.full, shown |-> t.shown]
(* Among the objects ahead, those passed over: E. *)
Looks(c, s, w, t, E) ==
  LET A == Ahead(c, s, w.addr) IN
  /\ IsDone(t) /\ t.shown = {} /\ t.first = 0 /\ t.full = FALSE
  /\ t.start \in Nat /\ t.offset \in Nat
  /\ \A o : o \in Ahead(c, s, AddrOf(t.offset)) <=> o \in A /\ o \notin E
  /\ A \cap E = {} => t.offset = w.offset /\ t.start = w.start
  /\ Fits(c, s, w) => A \cap E = {}
  /\ ~w.adjust => t.start + LinesIn(c, s, A \cap E) = w.start
  /\ Fits(c, s, w) \/ (t.region \in 1 .. Len(Regions) /\ \A a \in A \ E : Regions[t.region].addr <= a)
(* The first of those that are shown: m. *)
Shows(c, s, w, t, E, m) ==
  LET A == Ahead(c, s, w.addr) IN
  /\ IsDone(t) /\ m \in A /\ m \in E /\ m \in t.shown /\ \A y \in t.shown : m <= y /\ y \in A
  /\ t.start = 0 /\ t.offset \in Nat
  /\ t.first \in Nat /\ (t.first = 0 \/ t.first < LinesOf(c, s, m))
  /\ \A o : o \in Ahead(c, s, AddrOf(t.offset)) <=> o \in A /\ m <= o
  /\ Fits(c, s, w) => \A o \in A : m <= o
  /\ ~w.adjust => t.first + LinesIn(c, s, {o \in A : o < m}) = w.start

\* The first line is adjusted for the slider only.
LEMMA LineIs ==
  ASSUME NEW c, NEW s, NEW w, w.addr \in Nat, NEW a \in Nat, NEW start \in Nat,
         NEW line, line = Line(c, s, w, a, start)
  PROVE  line \in Int /\ (line = start \/ (w.adjust /\ a < w.addr /\ start = 0))
<1>1. LineBytes \in Nat \ {0}
  BY ViewerAssumption
<1>2. PICK i \in Int, j \in Int : i = w.addr \div LineBytes /\ j = a \div LineBytes
  <2>1. w.addr \div LineBytes \in Int /\ a \div LineBytes \in Int
    BY <1>1
  <2> QED
    BY <2>1
<1>3. line = start \/ (line = i - j /\ w.adjust /\ a < w.addr /\ start = 0)
  BY <1>2 DEF Line, AdjustedStart
<1> QED
  BY <1>2, <1>3

\* One object, as a step of PaintFrom takes it.
LEMMA PaintStepIs ==
  ASSUME NEW c, NEW s, NEW w, NEW t, NEW a, NEW line, line = Line(c, s, w, a, t.start),
         NEW u, u = PaintStep(c, s, w.addr, w.adjust, t, a), IsDone(t), ~t.full
  PROVE  /\ End(c, a) <= w.addr \/ ~Drawable(c, s, a) => u = t
         /\ ~(End(c, a) <= w.addr) /\ Drawable(c, s, a) /\ Passed(c, s, w, a, t.start)
              => \E reg : /\ reg = IF a >= RegionEnd(t.region) THEN RegionFromAddr(a) ELSE t.region
                          /\ IsDone(u) /\ u.shown = t.shown /\ u.first = t.first /\ u.full = t.full
                          /\ u.start = line - LinesOf(c, s, a) /\ u.region = reg
                          /\ u.offset = IF a <= w.addr THEN t.offset + End(c, a) - w.addr
                                        ELSE OffsetFromAddr(reg, End(c, a))
<1>1. PICK reg : reg = IF a >= RegionEnd(t.region) THEN RegionFromAddr(a) ELSE t.region
  OBVIOUS
<1>2. PICK to : to = IF a <= w.addr THEN t.offset + End(c, a) - w.addr ELSE OffsetFromAddr(reg, End(c, a))
  OBVIOUS
<1>3. ASSUME End(c, a) <= w.addr \/ ~Drawable(c, s, a) PROVE u = t
  BY <1>3 DEF PaintStep, Drawable
<1>4. ASSUME ~(End(c, a) <= w.addr), Drawable(c, s, a), Passed(c, s, w, a, t.start)
      PROVE  /\ IsDone(u) /\ u.shown = t.shown /\ u.first = t.first /\ u.full = t.full
             /\ u.start = line - LinesOf(c, s, a) /\ u.region = reg /\ u.offset = to
  <2>1. line > 0 /\ line >= LinesOf(c, s, a)
    BY <1>4 DEF Passed
  <2>2. u = [t EXCEPT !.start = line - LinesOf(c, s, a), !.region = reg, !.offset = to]
    BY <1>1, <1>2, <1>4, <2>1 DEF PaintStep, Drawable, Line, LinesOf
  <2> QED
    BY <2>2 DEF IsDone
<1> QED
  BY <1>1, <1>2, <1>3, <1>4

\* And with one that it shows.
LEMMA PaintStepShows ==
  ASSUME NEW c, NEW s, NEW w, NEW t, NEW a, NEW line, line = Line(c, s, w, a, t.start),
         NEW u, u = PaintStep(c, s, w.addr, w.adjust, t, a), IsDone(t), ~t.full,
         ~(End(c, a) <= w.addr), Drawable(c, s, a), ~Passed(c, s, w, a, t.start)
  PROVE  /\ IsDone(u) /\ u.shown = t.shown \cup {a} /\ u.start = 0 /\ u.offset = t.offset
         /\ u.first = IF line > 0 THEN line ELSE t.first
<1>1. ~(line > 0 /\ line >= LinesOf(c, s, a))
  BY DEF Passed
<1>2. PICK reg, lines, full : u = [t EXCEPT !.start = 0, !.region = reg, !.lines = lines, !.full = full,
                                     !.first = IF line > 0 THEN line ELSE @, !.shown = @ \cup {a}]
  BY <1>1 DEF PaintStep, Drawable, Line, LinesOf
<1> QED
  BY <1>2 DEF IsDone

\* The objects ahead, one by one.
LEMMA AheadAre ==
  ASSUME NEW c, CodeIs(c), NEW s, NEW w, IsWork(w), NEW A, A = Ahead(c, s, w.addr)
  PROVE  /\ A \in SUBSET DOMAIN Objects(c) /\ w.addr \in Nat
         /\ \A o \in A : o \in Nat /\ End(c, o) \in Nat /\ o < End(c, o) /\ w.addr < End(c, o) /\ Drawable(c, s, o)
         /\ \A o \in DOMAIN Objects(c) : o \in A <=> ~(End(c, o) <= w.addr) /\ Drawable(c, s, o)
<1>1. w.addr \in Nat
  <2>1. PICK o \in Nat : o = w.offset /\ w.addr = AddrOf(o)
    BY DEF IsWork
  <2>2. AddrOf(o) \in Nat
    BY OffsetIs
  <2> QED
    BY <2>1, <2>2
<1>2. \A o \in DOMAIN Objects(c) : o \in Nat /\ End(c, o) \in Nat /\ o < End(c, o)
  BY ObjectsAre
<1>3. \A o : o \in A <=> o \in DOMAIN Objects(c) /\ w.addr < End(c, o) /\ Drawable(c, s, o)
  BY DEF Ahead
<1>4. \A o \in DOMAIN Objects(c) : w.addr < End(c, o) <=> ~(End(c, o) <= w.addr)
  BY <1>1, <1>2
<1>5. \A o \in DOMAIN Objects(c) : o \in A <=> ~(End(c, o) <= w.addr) /\ Drawable(c, s, o)
  BY <1>3, <1>4, Zenon
<1>6. A \in SUBSET DOMAIN Objects(c)
  BY <1>3
<1> QED
  BY <1>1, <1>2, <1>3, <1>5, <1>6

\* An object behind the first line is passed over.
LEMMA LooksSkips ==
  ASSUME NEW c, NEW s, NEW w, NEW E, NEW a, a \notin Ahead(c, s, w.addr), NEW t, Looks(c, s, w, t, E)
  PROVE  Looks(c, s, w, t, E \cup {a})
<1>1. PICK A : A = Ahead(c, s, w.addr)
  OBVIOUS
<1>2. PICK F : F = E \cup {a}
  OBVIOUS
<1>3. A \cap F = A \cap E /\ A \ F = A \ E
  BY <1>1, <1>2
<1>4. \A o : o \in A => (o \in F <=> o \in E)
  BY <1>1, <1>2
<1>5. Looks(c, s, w, t, F)
  BY <1>1, <1>3, <1>4, Zenon DEF Looks
<1> QED
  BY <1>2, <1>5

\* The object that has the first line is shown.
LEMMA LooksShows ==
  ASSUME NEW c, CodeIs(c), NEW s, CacheIs(s), NEW w, IsWork(w), NEW E, NEW a, IsNext(c, s, w, E, a),
         a \in Ahead(c, s, w.addr), NEW t, Looks(c, s, w, t, E), ~Passed(c, s, w, a, t.start),
         NEW u, u = PaintStep(c, s, w.addr, w.adjust, t, a)
  PROVE  Shows(c, s, w, u, E \cup {a}, a)
<1>1. PICK A : A = Ahead(c, s, w.addr)
  OBVIOUS
<1>2. PICK F : F = E \cup {a}
  OBVIOUS
<1>3. /\ A \in SUBSET DOMAIN Objects(c) /\ w.addr \in Nat
      /\ \A o \in A : o \in Nat
      /\ ~(End(c, a) <= w.addr) /\ Drawable(c, s, a)
  BY <1>1, AheadAre
<1>4. a \in A /\ a \in Nat /\ LinesOf(c, s, a) \in Nat /\ \A o \in A : o \in E <=> o < a
  BY <1>1, <1>3, LinesAre DEF IsNext
<1>5. /\ IsDone(t) /\ t.shown = {} /\ t.first = 0 /\ t.full = FALSE /\ t.start \in Nat /\ t.offset \in Nat
      /\ \A o : o \in Ahead(c, s, AddrOf(t.offset)) <=> o \in A /\ o \notin E
      /\ Fits(c, s, w) => A \cap E = {}
      /\ ~w.adjust => t.start + LinesIn(c, s, A \cap E) = w.start
  BY <1>1, Zenon DEF Looks
<1>6. PICK line : line = Line(c, s, w, a, t.start)
  OBVIOUS
<1>7. line \in Int /\ (line = t.start \/ (w.adjust /\ a < w.addr /\ t.start = 0))
  BY <1>3, <1>4, <1>5, <1>6, LineIs
<1>8. /\ IsDone(u) /\ u.shown = t.shown \cup {a} /\ u.start = 0 /\ u.offset = t.offset
      /\ u.first = IF line > 0 THEN line ELSE t.first
  <2>1. IsDone(t) /\ ~t.full /\ ~(End(c, a) <= w.addr) /\ Drawable(c, s, a)
    BY <1>3, <1>5
  <2> QED
    BY <1>6, <2>1, PaintStepShows
<1>9. u.first \in Nat /\ (u.first = 0 \/ u.first < LinesOf(c, s, a))
  <2>1. ~(line > 0 /\ line >= LinesOf(c, s, a))
    BY <1>6 DEF Passed
  <2> QED
    BY <1>4, <1>5, <1>7, <1>8, <2>1
<1>10. u.shown = {a}
  BY <1>5, <1>8
<1>11. \A o \in A : (o \notin E <=> a <= o)
  BY <1>3, <1>4
<1>12. ASSUME ~w.adjust PROVE u.first + LinesIn(c, s, {o \in A : o < a}) = w.start
  <2>1. u.first = t.start
    BY <1>5, <1>7, <1>8, <1>12
  <2>2. {o \in A : o < a} = A \cap E
    BY <1>4
  <2> QED
    BY <1>5, <1>12, <2>1, <2>2
<1>13. ASSUME Fits(c, s, w) PROVE \A o \in A : a <= o
  BY <1>5, <1>11, <1>13
<1>14. a \in F /\ a \in u.shown /\ \A y \in u.shown : a <= y /\ y \in A
  BY <1>2, <1>4, <1>10
<1>15. u.offset \in Nat /\ \A o : o \in Ahead(c, s, AddrOf(u.offset)) <=> o \in A /\ a <= o
  BY <1>5, <1>8, <1>11, Zenon
<1>16. Shows(c, s, w, u, F, a)
  BY <1>1, <1>4, <1>8, <1>9, <1>12, <1>13, <1>14, <1>15, Zenon DEF Shows
<1> QED
  BY <1>2, <1>16

\* An object too short to have the first line is left behind.
LEMMA LooksPasses ==
  ASSUME NEW c, CodeIs(c), NEW s, CacheIs(s), NEW w, IsWork(w), NEW E, NEW a, IsNext(c, s, w, E, a),
         a \in Ahead(c, s, w.addr), NEW t, Looks(c, s, w, t, E), Passed(c, s, w, a, t.start),
         NEW u, u = PaintStep(c, s, w.addr, w.adjust, t, a)
  PROVE  Looks(c, s, w, u, E \cup {a})
<1>0. PICK L : L = Len(Regions)
  OBVIOUS
<1>1. PICK A : A = Ahead(c, s, w.addr)
  OBVIOUS
<1>2. PICK F : F = E \cup {a}
  OBVIOUS
<1>3. /\ A \in SUBSET DOMAIN Objects(c) /\ w.addr \in Nat
      /\ \A o \in A : o \in Nat /\ End(c, o) \in Nat /\ o < End(c, o) /\ w.addr < End(c, o) /\ Drawable(c, s, o)
      /\ ~(End(c, a) <= w.addr) /\ Drawable(c, s, a)
      /\ \A o \in DOMAIN Objects(c) : o \in A <=> ~(End(c, o) <= w.addr) /\ Drawable(c, s, o)
  BY <1>1, AheadAre
<1>4. a \in A /\ a \in Nat /\ LinesOf(c, s, a) \in Nat /\ \A o \in A : o \in E <=> o < a
  BY <1>1, <1>3, LinesAre DEF IsNext
<1>5. /\ IsDone(t) /\ t.shown = {} /\ t.first = 0 /\ t.full = FALSE /\ t.start \in Nat /\ t.offset \in Nat
      /\ A \cap E = {} => t.offset = w.offset /\ t.start = w.start
      /\ Fits(c, s, w) => A \cap E = {}
      /\ ~w.adjust => t.start + LinesIn(c, s, A \cap E) = w.start
      /\ Fits(c, s, w) \/ (t.region \in 1 .. L /\ \A o \in A \ E : Regions[t.region].addr <= o)
  BY <1>0, <1>1, Zenon DEF Looks
<1>6. PICK line : line = Line(c, s, w, a, t.start)
  OBVIOUS
<1>7. line \in Int /\ (line = t.start \/ (w.adjust /\ a < w.addr /\ t.start = 0)) /\ line >= LinesOf(c, s, a)
  <2>1. line \in Int /\ (line = t.start \/ (w.adjust /\ a < w.addr /\ t.start = 0))
    BY <1>3, <1>4, <1>5, <1>6, LineIs
  <2> QED
    BY <1>6, <2>1 DEF Passed
<1>8. PICK reg : /\ reg = IF a >= RegionEnd(t.region) THEN RegionFromAddr(a) ELSE t.region
                 /\ IsDone(u) /\ u.shown = t.shown /\ u.first = t.first /\ u.full = t.full
                 /\ u.start = line - LinesOf(c, s, a) /\ u.region = reg
                 /\ u.offset = IF a <= w.addr THEN t.offset + End(c, a) - w.addr
                               ELSE OffsetFromAddr(reg, End(c, a))
  <2>1. IsDone(t) /\ ~t.full /\ ~(End(c, a) <= w.addr) /\ Drawable(c, s, a)
    BY <1>3, <1>5
  <2> QED
    BY <1>6, <2>1, PaintStepIs
<1>9. ~Fits(c, s, w)
  <2> SUFFICES ASSUME Fits(c, s, w) PROVE FALSE
    OBVIOUS
  <2>1. A \cap E = {} /\ t.start = w.start
    BY <1>5
  <2>2. \A o \in A : a <= o
    BY <1>3, <1>4, <2>1
  <2> QED
    BY <1>1, <1>4, <2>1, <2>2 DEF Fits
<1>10. t.region \in 1 .. L /\ Regions[t.region].addr <= a
  BY <1>4, <1>5, <1>9
<1>11. PICK k \in 1 .. L : InRegion(c, a, k)
  BY <1>0, <1>3, <1>4, ObjectsAre
<1>12. PICK ka \in Nat, kw \in Nat, ta \in Nat, tw \in Nat :
          /\ ka = Regions[k].addr /\ kw = Regions[k].size
          /\ ta = Regions[t.region].addr /\ tw = Regions[t.region].size
  <2>1. Regions[k].addr \in Nat /\ Regions[k].size \in Nat /\ Regions[t.region].addr \in Nat /\ Regions[t.region].size \in Nat
    BY <1>0, <1>10, <1>11, RegionsAre
  <2> QED
    BY <2>1
<1>13. ka <= a /\ End(c, a) <= ka + kw /\ a < ka + kw /\ a < End(c, a) /\ End(c, a) \in Nat
  <2>1. ka <= a /\ End(c, a) <= ka + kw
    BY <1>11, <1>12 DEF InRegion
  <2>2. a < End(c, a) /\ End(c, a) \in Nat
    BY <1>3, <1>4
  <2> QED
    BY <1>4, <1>12, <2>1, <2>2
<1>14. RegionFromAddr(a) = k
  BY <1>0, <1>4, <1>12, <1>13, InsideIs
<1>15. reg = k
  <2>1. CASE a >= RegionEnd(t.region)
    BY <1>8, <1>14, <2>1
  <2>2. CASE ~(a >= RegionEnd(t.region))
    <3>1. ta <= a /\ a < ta + tw
      BY <1>4, <1>10, <1>12, <2>2 DEF RegionEnd
    <3>2. RegionFromAddr(a) = t.region
      BY <1>0, <1>4, <1>10, <1>12, <3>1, InsideIs
    <3> QED
      BY <1>8, <1>14, <2>2, <3>2
  <2> QED
    BY <2>1, <2>2
<1>16. PICK at : at = OffsetFromAddr(k, End(c, a))
  OBVIOUS
<1>17. u.offset = at
  <2>1. CASE a <= w.addr
    <3>1. \A o \in A : ~(o < a)
      <4> SUFFICES ASSUME NEW o \in A, o < a PROVE FALSE
        OBVIOUS
      <4>1. End(c, o) <= a /\ w.addr < End(c, o) /\ End(c, o) \in Nat
        BY <1>3, <1>4, ObjectsAre
      <4> QED
        BY <1>3, <1>4, <2>1, <4>1
    <3>2. A \cap E = {}
      BY <1>4, <3>1
    <3>3. t.offset = w.offset /\ w.offset \in Nat /\ w.addr = AddrOf(w.offset)
      BY <1>5, <3>2 DEF IsWork
    <3>4. w.addr < End(c, a)
      BY <1>3, <1>4
    <3>5. ka <= w.addr /\ w.addr < ka + kw
      BY <1>3, <1>4, <1>12, <1>13, <2>1, <3>4
    <3>6. w.offset = OffsetFromAddr(k, w.addr)
      BY <1>0, <1>12, <3>3, <3>5, OffsetIs
    <3>7. PICK b \in Nat : b = Base[k]
      <4>1. k \in 1 .. L + 1
        BY <1>0, <1>11, RegionsAre
      <4> QED
        BY <1>0, <4>1, BaseIs
    <3>8. w.offset = b + w.addr - ka /\ at = b + End(c, a) - ka
      BY <1>12, <1>16, <3>6, <3>7 DEF OffsetFromAddr
    <3>9. u.offset = t.offset + End(c, a) - w.addr
      BY <1>8, <2>1
    <3>10. u.offset = w.offset + End(c, a) - w.addr
      BY <3>3, <3>9
    <3> QED
      BY <1>3, <1>12, <1>13, <3>7, <3>8, <3>10
  <2>2. CASE ~(a <= w.addr)
    BY <1>8, <1>15, <1>16, <2>2
  <2> QED
    BY <2>1, <2>2
<1>18. at \in Nat /\ \A p \in DOMAIN Objects(c) : AddrOf(at) < End(c, p) <=> a < p
  <2>1. a \in DOMAIN Objects(c)
    BY <1>3, <1>4
  <2> QED
    BY <1>0, <1>11, <1>16, <2>1, AfterIs
<1>19. \A o \in DOMAIN Objects(c) : a < o /\ Drawable(c, s, o) <=> o \in A /\ o \notin F
  <2> SUFFICES ASSUME NEW o \in DOMAIN Objects(c)
               PROVE  a < o /\ Drawable(c, s, o) <=> o \in A /\ o \notin F
    OBVIOUS
  <2>1. o \in Nat /\ End(c, o) \in Nat /\ o < End(c, o)
    BY ObjectsAre
  <2>2. a < o => End(c, a) <= o
    <3>1. a \in DOMAIN Objects(c)
      BY <1>3, <1>4
    <3> QED
      BY <3>1, ObjectsAre
  <2>3. a < o => ~(End(c, o) <= w.addr)
    <3>1. w.addr < End(c, a)
      BY <1>3, <1>4
    <3> QED
      BY <1>3, <1>13, <2>1, <2>2, <3>1
  <2>4. o \in A => (o \notin F <=> a < o)
    BY <1>2, <1>4, <2>1
  <2> QED
    BY <1>3, <2>3, <2>4
<1>20. \A o : o \in Ahead(c, s, AddrOf(at)) <=> o \in A /\ o \notin F
  <2>1. \A o : o \in Ahead(c, s, AddrOf(at)) <=> o \in DOMAIN Objects(c) /\ AddrOf(at) < End(c, o) /\ Drawable(c, s, o)
    BY DEF Ahead
  <2> QED
    BY <1>3, <1>18, <1>19, <2>1
<1>21. ASSUME ~w.adjust PROVE u.start + LinesIn(c, s, A \cap F) = w.start
  <2>1. line = t.start
    BY <1>7, <1>21
  <2>2. PICK G : G = A \cap F
    OBVIOUS
  <2>3. a \in G /\ G \ {a} = A \cap E /\ G \in SUBSET DOMAIN Objects(c) /\ A \cap E \in SUBSET DOMAIN Objects(c)
    <3>1. a \notin E
      BY <1>4
    <3>2. G \in SUBSET DOMAIN Objects(c) /\ A \cap E \in SUBSET DOMAIN Objects(c)
      BY <1>3, <2>2
    <3>3. a \in G /\ G \ {a} = A \cap E
      BY <1>2, <1>4, <2>2, <3>1
    <3> QED
      BY <3>2, <3>3
  <2>4. LinesIn(c, s, A \cap E) \in Nat
    BY <2>3, LinesAdd
  <2>5. LinesIn(c, s, G) = LinesIn(c, s, A \cap E) + LinesOf(c, s, a)
    BY <2>3, LinesAdd
  <2> QED
    BY <1>4, <1>5, <1>8, <1>21, <2>1, <2>2, <2>4, <2>5
<1>22. u.start \in Nat
  BY <1>4, <1>7, <1>8
<1>23. ~(A \cap F = {})
  BY <1>2, <1>4
<1>24. u.region \in 1 .. L /\ \A o \in A \ F : Regions[u.region].addr <= o
  <2>1. u.region = k
    BY <1>8, <1>15
  <2>2. \A o \in A \ F : a <= o /\ o \in Nat
    BY <1>2, <1>3, <1>4
  <2> QED
    BY <1>4, <1>12, <1>13, <2>1, <2>2
<1>25. IsDone(u) /\ u.shown = {} /\ u.first = 0 /\ u.full = FALSE /\ u.offset \in Nat
  BY <1>5, <1>8, <1>17, <1>18
<1>26. \A o : o \in Ahead(c, s, AddrOf(u.offset)) <=> o \in A /\ o \notin F
  BY <1>17, <1>20
<1>27. Looks(c, s, w, u, F)
  BY <1>0, <1>1, <1>9, <1>21, <1>22, <1>23, <1>24, <1>25, <1>26, Zenon DEF Looks
<1> QED
  BY <1>2, <1>27

\* Once an object is shown it stays the first.
LEMMA ShowsKeeps ==
  ASSUME NEW c, CodeIs(c), NEW s, CacheIs(s), NEW w, IsWork(w), NEW E, NEW a, IsNext(c, s, w, E, a),
         NEW t, NEW m, Shows(c, s, w, t, E, m), NEW u, u = PaintStep(c, s, w.addr, w.adjust, t, a)
  PROVE  Shows(c, s, w, u, E \cup {a}, m)
<1>1. PICK A : A = Ahead(c, s, w.addr)
  OBVIOUS
<1>2. PICK F : F = E \cup {a}
  OBVIOUS
<1>3. /\ A \in SUBSET DOMAIN Objects(c) /\ w.addr \in Nat
      /\ \A o \in A : o \in Nat /\ End(c, o) \in Nat /\ o < End(c, o) /\ w.addr < End(c, o)
      /\ \A o \in DOMAIN Objects(c) : o \in A <=> ~(End(c, o) <= w.addr) /\ Drawable(c, s, o)
  BY <1>1, AheadAre
<1>4. a \in DOMAIN Objects(c) /\ \A o \in A : o \in E <=> o < a
  BY <1>1 DEF IsNext
<1>5. /\ IsDone(t) /\ m \in A /\ m \in E /\ m \in t.shown /\ \A y \in t.shown : m <= y /\ y \in A
      /\ t.start = 0 /\ t.offset \in Nat
      /\ t.first \in Nat /\ (t.first = 0 \/ t.first < LinesOf(c, s, m))
      /\ \A o : o \in Ahead(c, s, AddrOf(t.offset)) <=> o \in A /\ m <= o
      /\ Fits(c, s, w) => \A o \in A : m <= o
      /\ ~w.adjust => t.first + LinesIn(c, s, {o \in A : o < m}) = w.start
  BY <1>1, Zenon DEF Shows
<1>6. ASSUME u = t PROVE Shows(c, s, w, u, F, m)
  <2>1. m \in F
    BY <1>2, <1>5
  <2> QED
    BY <1>1, <1>5, <1>6, <2>1, Zenon DEF Shows
<1>7. CASE t.full \/ a \notin A
  <2>1. t.full \/ End(c, a) <= w.addr \/ ~Drawable(c, s, a)
    BY <1>3, <1>4, <1>7
  <2>2. u = t
    BY <2>1 DEF PaintStep, Drawable
  <2> QED
    BY <1>2, <1>6, <2>2
<1>8. CASE ~t.full /\ a \in A
  <2>1. PICK line : line = Line(c, s, w, a, t.start)
    OBVIOUS
  <2>2. m < a /\ End(c, m) <= a
    <3>1. m < a
      BY <1>4, <1>5
    <3> QED
      BY <1>3, <1>4, <1>5, <3>1, ObjectsAre
  <2>3. ~(a < w.addr)
    <3>1. w.addr < End(c, m) /\ End(c, m) \in Nat
      BY <1>3, <1>5
    <3> QED
      BY <1>3, <1>8, <2>2, <3>1
  <2>4. line = 0
    <3>1. a \in Nat /\ t.start \in Nat
      BY <1>3, <1>5, <1>8
    <3>2. line = t.start \/ (w.adjust /\ a < w.addr /\ t.start = 0)
      BY <1>3, <2>1, <3>1, LineIs
    <3> QED
      BY <1>5, <2>3, <3>2
  <2>5. ~Passed(c, s, w, a, t.start)
    BY <2>1, <2>4 DEF Passed
  <2>6. IsDone(t) /\ ~t.full /\ ~(End(c, a) <= w.addr) /\ Drawable(c, s, a)
    BY <1>3, <1>4, <1>5, <1>8
  <2>7. /\ IsDone(u) /\ u.shown = t.shown \cup {a} /\ u.start = 0 /\ u.offset = t.offset
        /\ u.first = IF line > 0 THEN line ELSE t.first
    <3>1. /\ line = Line(c, s, w, a, t.start) /\ u = PaintStep(c, s, w.addr, w.adjust, t, a)
          /\ IsDone(t) /\ ~t.full /\ ~(End(c, a) <= w.addr) /\ Drawable(c, s, a)
          /\ ~Passed(c, s, w, a, t.start)
      BY <2>1, <2>5, <2>6
    <3> QED
      BY <3>1, PaintStepShows
  <2>8. u.first = t.first
    BY <2>4, <2>7
  <2>9. m \in F /\ m \in u.shown
    BY <1>2, <1>5, <2>7
  <2>10. \A y \in u.shown : m <= y /\ y \in A
    <3>1. m \in Nat /\ a \in Nat
      BY <1>3, <1>5, <1>8
    <3>2. m <= a
      BY <2>2, <3>1
    <3> QED
      BY <1>5, <1>8, <2>7, <3>2
  <2>11. Shows(c, s, w, u, F, m)
    BY <1>1, <1>5, <2>7, <2>8, <2>9, <2>10, Zenon DEF Shows
  <2> QED
    BY <1>2, <2>11
<1> QED
  BY <1>7, <1>8

\* What PaintFrom ends with.
LEMMA PaintIs ==
  ASSUME NEW c, CodeIs(c), NEW s, CacheIs(s), NEW w, IsWork(w), NEW region,
         NEW A, A = Ahead(c, s, w.addr),
         RegionFits(c, s, w, region),
         NEW done, done = PaintFrom(c, s, w.addr, w.offset, w.start, region, w.adjust)
  PROVE  \E E : A \subseteq E /\ (Looks(c, s, w, done, E) \/ \E m : Shows(c, s, w, done, E, m))
<1>1. PICK q : q = UpFrom(c, w.addr)
  OBVIOUS
<1>2. PICK U : U = {o \in DOMAIN Objects(c) : FloorAddr(c, w.addr) <= o}
  OBVIOUS
<1>3. U \subseteq Nat /\ IsFiniteSet(U) /\ U \in SUBSET DOMAIN Objects(c)
  <2>1. IsFiniteSet(DOMAIN Objects(c)) /\ DOMAIN Objects(c) \subseteq Nat
    BY ObjectsAre
  <2>2. U \in SUBSET DOMAIN Objects(c)
    BY <1>2
  <2> QED
    BY <2>1, <2>2, FS_Subset
<1>4. IsList(q, U, "up")
  BY <1>1, <1>2, <1>3, AscendingIs DEF UpFrom
<1>5. PICK n : n = Cardinality(U)
  OBVIOUS
<1>6. \A i \in 1 .. n : /\ q[i] \in U /\ FirstOf(q, i) = FirstOf(q, i - 1) \cup {q[i]}
                        /\ \A x : x \in FirstOf(q, i - 1) <=> x \in U /\ Before(x, q[i], "up")
  BY <1>3, <1>4, <1>5, NextIs
<1>7. /\ n \in Nat /\ DOMAIN q = 1 .. n /\ FirstOf(q, 0) = {}
      /\ \A x : x \in FirstOf(q, n) <=> x \in U
  BY <1>3, <1>4, <1>5, FirstIs
<1>8. PICK base : base = NothingShown(w.addr, w.offset, w.start, region)
  OBVIOUS
<1>9. PICK g : /\ g[0] = base /\ done = g[n]
               /\ \A i \in 1 .. n : g[i] = PaintStep(c, s, w.addr, w.adjust, g[i - 1], q[i])
  <2>1. done = PaintOf(c, s, w.addr, w.adjust, base, q)
    BY <1>1, <1>8, PaintFromIs
  <2> QED
    BY <1>7, <2>1, PaintPasses
<1>10. /\ A \in SUBSET DOMAIN Objects(c) /\ w.addr \in Nat
       /\ \A o \in A : o \in Nat /\ ~(End(c, o) <= w.addr)
  BY AheadAre
<1>11. A \subseteq U
  <2> SUFFICES ASSUME NEW o \in A, o \notin U PROVE FALSE
    OBVIOUS
  <2>1. PICK f : f = FloorAddr(c, w.addr)
    OBVIOUS
  <2>2. f \in Int /\ \A p \in DOMAIN Objects(c) : p < f => End(c, p) <= w.addr
    <3>1. w.addr \in Int
      BY <1>10
    <3> QED
      BY <2>1, <3>1, FloorIs
  <2>3. o \in Nat /\ o \in DOMAIN Objects(c) /\ ~(f <= o)
    BY <1>2, <1>10, <2>1
  <2>4. o < f
    BY <2>2, <2>3
  <2> QED
    BY <1>10, <2>2, <2>3, <2>4
<1> DEFINE Fine(i) == \/ Looks(c, s, w, g[i], FirstOf(q, i))
                      \/ \E m : Shows(c, s, w, g[i], FirstOf(q, i), m)
<1>12. Fine(0)
  <2>1. IsDone(base)
    BY <1>8 DEF IsDone, NothingShown
  <2>2. /\ base.shown = {} /\ base.first = 0 /\ base.full = FALSE
        /\ base.start = w.start /\ base.offset = w.offset /\ base.region = region
    BY <1>8 DEF NothingShown
  <2>3. base.start \in Nat /\ base.offset \in Nat /\ w.addr = AddrOf(base.offset)
    BY <2>2 DEF IsWork
  <2>4. A \cap {} = {} /\ A \ {} = A /\ \A o : o \in A <=> o \in A /\ o \notin {}
    OBVIOUS
  <2>5. base.start + LinesIn(c, s, {}) = w.start
    <3>1. LinesIn(c, s, {}) = 0
      BY LinesAdd
    <3> QED
      BY <2>2, <2>3, <3>1
  <2>6. Ahead(c, s, AddrOf(base.offset)) = A
    BY <2>3
  <2>7. Fits(c, s, w) \/ (base.region \in 1 .. Len(Regions) /\ \A a \in A : Regions[base.region].addr <= a)
    BY <2>2 DEF RegionFits
  <2>8. Looks(c, s, w, base, {})
    BY <2>1, <2>2, <2>3, <2>4, <2>5, <2>6, <2>7, Zenon DEF Looks
  <2> QED
    BY <1>7, <1>9, <2>8
<1>13. ASSUME NEW i \in 1 .. n, Fine(i - 1) PROVE Fine(i)
  <2>1. PICK t, u, a, E : /\ t = g[i - 1] /\ u = g[i] /\ a = q[i] /\ E = FirstOf(q, i - 1)
                          /\ FirstOf(q, i) = E \cup {a} /\ u = PaintStep(c, s, w.addr, w.adjust, t, a)
    BY <1>6, <1>9
  <2>2. a \in DOMAIN Objects(c) /\ \A x \in A : x \in E <=> x < a
    BY <1>3, <1>6, <1>11, <2>1 DEF Before
  <2>3. IsNext(c, s, w, E, a)
    BY <2>2 DEF IsNext
  <2>4. CASE Looks(c, s, w, t, E)
    <3>1. CASE a \notin A
      <4>1. End(c, a) <= w.addr \/ ~Drawable(c, s, a)
        BY <2>2, <3>1, AheadAre
      <4>2. u = t
        BY <2>1, <4>1 DEF PaintStep, Drawable
      <4>3. Looks(c, s, w, u, E \cup {a})
        BY <2>4, <3>1, <4>2, LooksSkips
      <4> QED
        BY <2>1, <4>3
    <3>2. CASE a \in A /\ Passed(c, s, w, a, t.start)
      <4>1. Looks(c, s, w, u, E \cup {a})
        BY <2>1, <2>3, <2>4, <3>2, LooksPasses
      <4> QED
        BY <2>1, <4>1
    <3>3. CASE a \in A /\ ~Passed(c, s, w, a, t.start)
      <4>1. Shows(c, s, w, u, E \cup {a}, a)
        BY <2>1, <2>3, <2>4, <3>3, LooksShows
      <4> QED
        BY <2>1, <4>1
    <3> QED
      BY <3>1, <3>2, <3>3
  <2>5. CASE \E m : Shows(c, s, w, t, E, m)
    <3>1. PICK m : Shows(c, s, w, t, E, m)
      BY <2>5
    <3>2. Shows(c, s, w, u, E \cup {a}, m)
      BY <2>1, <2>3, <3>1, ShowsKeeps
    <3> QED
      BY <2>1, <3>2
  <2> QED
    BY <1>13, <2>1, <2>4, <2>5
<1>14. PICK Good : Good = {i \in 0 .. n : Fine(i)}
  OBVIOUS
<1> HIDE DEF Fine
<1>15. 0 \in Good
  BY <1>7, <1>12, <1>14
<1>16. ASSUME NEW i \in 1 .. n, i - 1 \in Good PROVE i \in Good
  <2>1. i \in 0 .. n /\ Fine(i - 1)
    BY <1>7, <1>14, <1>16
  <2> QED
    BY <1>13, <1>14, <2>1
<1>17. \A i \in 0 .. n : i \in Good
  BY <1>7, <1>15, <1>16, PassingInduction
<1>18. Fine(n)
  <2>1. n \in 0 .. n
    BY <1>7
  <2> QED
    BY <1>14, <1>17, <2>1
<1>19. A \subseteq FirstOf(q, n)
  BY <1>7, <1>11
<1> QED
  BY <1>9, <1>18, <1>19 DEF Fine

PaintedAs(c, s, done) ==
  [offset |-> done.offset, start |-> done.first, shown |-> done.shown,
   cache |-> [a \in done.shown \cup DOMAIN s.cache |-> ObjToPaintable(c, s, a)]]
TopIn(c, s, offset, start) ==
  Compensate(c, s, AddrFromOffset(RegionFromOffset(offset), offset), start, offset)
DoneFrom(c, s, region, adjust, top) == PaintFrom(c, s, top.addr, top.offset, top.start, region, adjust)

\* The cases of PrepareObjects.
LEMMA PrepareIs ==
  ASSUME NEW c, NEW s, NEW at, NEW start, NEW adjust, NEW offset, offset = IF at = NoOffset THEN 0 ELSE at,
         NEW region, region = RegionFromOffset(offset)
  PROVE  PrepareObjects(c, s, at, start, adjust) =
           IF offset = s.offset /\ start = s.start THEN s
           ELSE IF region = 0 THEN [s EXCEPT !.offset = offset]
           ELSE PaintedAs(c, s, DoneFrom(c, s, region, adjust, TopIn(c, s, offset, start)))
<1> DEFINE Inner(top) == CHOOSE r \in {DoneFrom(c, s, region, adjust, x) : x \in {top}} : TRUE
           Outer(done) == CHOOSE r \in {PaintedAs(c, s, x) : x \in {done}} : TRUE
<1>1. \A top : Inner(top) = DoneFrom(c, s, region, adjust, top)
  <2> SUFFICES ASSUME NEW top PROVE Inner(top) = DoneFrom(c, s, region, adjust, top)
    OBVIOUS
  <2>1. PICK v : v = DoneFrom(c, s, region, adjust, top)
    OBVIOUS
  <2>2. {DoneFrom(c, s, region, adjust, x) : x \in {top}} = {v}
    BY <2>1
  <2> QED
    BY <2>1, <2>2
<1>2. \A done : Outer(done) = PaintedAs(c, s, done)
  <2> SUFFICES ASSUME NEW done PROVE Outer(done) = PaintedAs(c, s, done)
    OBVIOUS
  <2>1. PICK v : v = PaintedAs(c, s, done)
    OBVIOUS
  <2>2. {PaintedAs(c, s, x) : x \in {done}} = {v}
    BY <2>1
  <2> QED
    BY <2>1, <2>2
<1>3. PrepareObjects(c, s, at, start, adjust) =
        IF offset = s.offset /\ start = s.start THEN s
        ELSE IF region = 0 THEN [s EXCEPT !.offset = offset]
        ELSE Outer(Inner(TopIn(c, s, offset, start)))
  BY DEF PrepareObjects, With, PaintedAs, DoneFrom, TopIn
<1> HIDE DEF Inner, Outer
<1>4. Outer(Inner(TopIn(c, s, offset, start)))
      = PaintedAs(c, s, DoneFrom(c, s, region, adjust, TopIn(c, s, offset, start)))
  BY <1>1, <1>2
<1> QED
  BY <1>3, <1>4

\* A first line looked for further up is a line of the object it is found in.
LEMMA FirstLineFits ==
  ASSUME NEW c, CodeIs(c), NEW s, CacheIs(s), NEW w, IsWork(w), ~w.adjust,
         \/ w.start = 0
         \/ w.addr \in Ahead(c, s, w.addr) /\ w.start < LinesOf(c, s, w.addr)
  PROVE  Fits(c, s, w)
<1>1. PICK A : A = Ahead(c, s, w.addr)
  OBVIOUS
<1>2. SUFFICES ASSUME NEW a \in A, \A o \in A : a <= o PROVE ~Passed(c, s, w, a, w.start)
  BY <1>1 DEF Fits
<1>3. /\ A \in SUBSET DOMAIN Objects(c) /\ w.addr \in Nat
      /\ \A o \in A : o \in Nat /\ End(c, o) \in Nat /\ o < End(c, o) /\ w.addr < End(c, o)
  BY <1>1, AheadAre
<1>4. LinesOf(c, s, a) \in Nat /\ a \in Nat
  BY <1>3, LinesAre
<1>5. Line(c, s, w, a, w.start) = w.start /\ w.start \in Nat
  BY <1>3, <1>4, LineIs DEF IsWork
<1>6. CASE w.start = 0
  BY <1>5, <1>6 DEF Passed
<1>7. CASE w.addr \in A /\ w.start < LinesOf(c, s, w.addr)
  <2>1. ~(a < w.addr)
    <3> SUFFICES ASSUME a < w.addr PROVE FALSE
      OBVIOUS
    <3>1. End(c, a) <= w.addr
      BY <1>3, <1>7, ObjectsAre
    <3>2. w.addr < End(c, a) /\ End(c, a) \in Nat
      BY <1>3
    <3> QED
      BY <1>3, <3>1, <3>2
  <2>2. a = w.addr
    BY <1>2, <1>3, <1>4, <1>7, <2>1
  <2> QED
    BY <1>4, <1>5, <1>7, <2>2 DEF Passed
<1> QED
  BY <1>1, <1>6, <1>7

\* Where PrepareObjects begins to paint.
WorkOf(top, adjust) == [addr |-> top.addr, offset |-> top.offset, start |-> top.start, adjust |-> adjust]

\* The first line lies in the objects before the one at an offset, or before them all.
StartsAbove(c, s, offset, start, w) ==
  LET B == {o \in DOMAIN Objects(c) : o < FloorAddr(c, AddrOf(offset))} IN
  \/ w.start = 0 /\ w.addr = Regions[1].addr /\ start + LinesIn(c, s, B) < 0
  \/ /\ w.addr \in B /\ Drawable(c, s, w.addr) /\ w.start < LinesOf(c, s, w.addr)
     /\ w.start = start + LinesIn(c, s, {o \in B : w.addr <= o})
\* Where the painting of PrepareObjects starts.
LEMMA WorkIs ==
  ASSUME NEW c, CodeIs(c), NEW s, CacheIs(s), NEW offset \in Nat, NEW start \in Int, NEW adjust,
         start < 0 => ~adjust, NEW region, region = RegionFromOffset(offset),
         NEW top, top = TopIn(c, s, offset, start), NEW w, w = WorkOf(top, adjust)
  PROVE  /\ IsWork(w)
         /\ RegionFits(c, s, w, region)
         /\ (start <= 0 /\ ~adjust => Fits(c, s, w))
         /\ start >= 0 => w.offset = offset /\ w.start = start /\ w.addr = AddrOf(offset)
         /\ start < 0 => StartsAbove(c, s, offset, start, w)
<1>1. PICK L : L = Len(Regions) /\ L \in Nat \ {0}
  BY RegionsAre
<1>2. PICK x : x = AddrOf(offset) /\ x = AddrFromOffset(region, offset)
  BY DEF AddrOf
<1>3. region \in 1 .. L /\ \A a \in Ahead(c, s, x) : Regions[region].addr <= a
  BY <1>1, <1>2, OffsetIs, AheadIs
<1>4. w.addr = top.addr /\ w.offset = top.offset /\ w.start = top.start /\ w.adjust = adjust
  BY DEF WorkOf
<1>5. PICK down : down = TopOf(c, s, x, start, DownFrom(c, x))
  OBVIOUS
<1>6. top = IF start >= 0 THEN [addr |-> x, offset |-> offset, start |-> start]
            ELSE IF down.start < 0 THEN [addr |-> Regions[1].addr, offset |-> Base[1], start |-> 0]
            ELSE [addr |-> down.addr, start |-> down.start,
                  offset |-> OffsetFromAddr(RegionFromAddr(down.addr), down.addr)]
  BY <1>2, <1>5, CompensateIs DEF TopIn
<1>7. CASE start >= 0
  <2>1. w.addr = x /\ w.offset = offset /\ w.start = start
    BY <1>4, <1>6, <1>7
  <2>2. IsWork(w)
    <3>1. start \in Nat
      BY <1>7
    <3>2. w.start \in Nat /\ w.offset \in Nat
      BY <2>1, <3>1
    <3>3. w.addr = AddrOf(w.offset)
      BY <1>2, <2>1
    <3> QED
      BY <3>2, <3>3 DEF IsWork
  <2>3. ASSUME start <= 0, ~adjust PROVE Fits(c, s, w)
    <3>1. w.start = 0 /\ ~w.adjust
      BY <1>4, <1>7, <2>1, <2>3
    <3> QED
      BY <2>2, <3>1, FirstLineFits
  <2>4. ~(start < 0)
    BY <1>7
  <2> QED
    BY <1>1, <1>2, <1>3, <2>1, <2>2, <2>3, <2>4 DEF RegionFits
<1>8. PICK B : B = {o \in DOMAIN Objects(c) : o < FloorAddr(c, x)}
  OBVIOUS
<1>9. CASE start < 0
  <2>1. IsTop(c, s, down, start, B, B)
    BY <1>5, <1>8, <1>9, TopIs
  <2>2. ~(start >= 0) /\ ~w.adjust
    BY <1>4, <1>9
  <2>3. CASE down.start < 0
    <3>1. w.addr = Regions[1].addr /\ w.offset = Base[1] /\ w.start = 0
      BY <1>4, <1>6, <2>2, <2>3
    <3>2. start + LinesIn(c, s, B) < 0
      BY <2>1, <2>3 DEF IsTop
    <3>3. IsWork(w)
      <4>1. Base[1] = 0 /\ 1 \in 1 .. L
        BY <1>1, BaseIs
      <4>2. Regions[1].addr \in Nat /\ Regions[1].size \in Nat \ {0}
        BY <1>1, <4>1, RegionsAre
      <4>3. PICK a \in Nat : a = Regions[1].addr
        BY <4>2
      <4>4. OffsetFromAddr(1, a) = 0
        BY <4>1, <4>3 DEF OffsetFromAddr
      <4>5. AddrOf(0) = a
        <5>1. Regions[1].addr <= a /\ a < Regions[1].addr + Regions[1].size
          BY <4>2, <4>3
        <5> QED
          BY <1>1, <4>1, <4>3, <4>4, <5>1, InsideIs
      <4> QED
        BY <3>1, <4>1, <4>3, <4>5 DEF IsWork
    <3>4. Fits(c, s, w)
      BY <2>2, <3>1, <3>3, FirstLineFits
    <3> QED
      BY <1>2, <1>8, <2>2, <3>1, <3>2, <3>3, <3>4 DEF RegionFits, StartsAbove
  <2>4. CASE ~(down.start < 0)
    <3>1. /\ w.addr = down.addr /\ w.start = down.start
          /\ w.offset = OffsetFromAddr(RegionFromAddr(down.addr), down.addr)
      BY <1>4, <1>6, <2>2, <2>4
    <3>2. /\ w.addr \in B /\ Drawable(c, s, w.addr) /\ w.start \in Nat
          /\ w.start < LinesOf(c, s, w.addr)
          /\ w.start = start + LinesIn(c, s, {o \in B : w.addr <= o})
      <4>1. down.start \in Int /\ down.start >= 0
        BY <2>1, <2>4 DEF IsTop
      <4> QED
        BY <2>1, <3>1, <4>1 DEF IsTop
    <3>3. PICK a \in DOMAIN Objects(c) : a = w.addr
      BY <1>8, <3>2
    <3>4. a \in Nat /\ End(c, a) \in Nat /\ a < End(c, a) /\ \E k \in 1 .. L : InRegion(c, a, k)
      BY <1>1, ObjectsAre
    <3>5. PICK k \in 1 .. L : Regions[k].addr <= a /\ End(c, a) <= Regions[k].addr + Regions[k].size
      BY <3>4 DEF InRegion
    <3>6. PICK ka \in Nat, kw \in Nat : ka = Regions[k].addr /\ kw = Regions[k].size
      <4>1. Regions[k].addr \in Nat /\ Regions[k].size \in Nat
        BY <1>1, RegionsAre
      <4> QED
        BY <4>1
    <3>7. Regions[k].addr <= a /\ a < Regions[k].addr + Regions[k].size
      BY <3>4, <3>5, <3>6
    <3>8. PICK o : o = OffsetFromAddr(k, a)
      OBVIOUS
    <3>9. RegionFromAddr(a) = k /\ o \in Nat /\ AddrOf(o) = a
      BY <1>1, <3>4, <3>7, <3>8, InsideIs
    <3>10. IsWork(w)
      BY <3>1, <3>2, <3>3, <3>8, <3>9 DEF IsWork
    <3>11. w.addr \in Ahead(c, s, w.addr)
      BY <3>2, <3>3, <3>4 DEF Ahead
    <3>12. Fits(c, s, w)
      BY <2>2, <3>2, <3>10, <3>11, FirstLineFits
    <3> QED
      BY <1>2, <1>8, <2>2, <3>2, <3>10, <3>12 DEF RegionFits, StartsAbove
  <2> QED
    BY <2>3, <2>4
<1> QED
  BY <1>7, <1>9

-----------------------------------------------------------------------------
(***************************************************************************)
(* What prepare_objects leaves: the first object shown is the one at the   *)
(* offset, or the next that is painted, with the line at the top in it.    *)
(***************************************************************************)
LinearType(l) ==
  /\ l = [offset |-> l.offset, start |-> l.start, shown |-> l.shown, cache |-> l.cache]
  /\ l.offset \in Int /\ l.start \in Nat /\ l.shown \subseteq DOMAIN l.cache /\ CacheIs(l)
\* m is the first object shown, and of its lines the one at the top is there.
Leads(c, l, A, m) ==
  /\ m \in A /\ m \in l.shown /\ \A y \in l.shown : m <= y
  /\ l.start = 0 \/ l.start < LinesOf(c, l, m)
ShownFirst(c, l) ==
  0 <= l.offset =>
    LET A == Ahead(c, l, AddrOf(l.offset)) IN
    \/ A = {} /\ l.shown = {} /\ l.start = 0
    \/ \E m : Leads(c, l, A, m) /\ \A o \in A : m <= o
LinearOK(c, l) == LinearType(l) /\ ShownFirst(c, l)
PaintsAs(c, s, u) == \A x : ObjToPaintable(c, u, x) = ObjToPaintable(c, s, x)

\* Painting again changes nothing that was painted.
LEMMA PaintedSame ==
  ASSUME NEW c, NEW s, NEW done, NEW u, u = PaintedAs(c, s, done)
  PROVE  PaintsAs(c, s, u)
<1>1. u.cache = [a \in done.shown \cup DOMAIN s.cache |-> ObjToPaintable(c, s, a)]
  BY DEF PaintedAs
<1>2. DOMAIN u.cache = done.shown \cup DOMAIN s.cache
  BY <1>1
<1>3. ASSUME NEW x PROVE ObjToPaintable(c, u, x) = ObjToPaintable(c, s, x)
  <2>1. CASE x \in DOMAIN u.cache
    <3>1. ObjToPaintable(c, u, x) = u.cache[x]
      BY <2>1 DEF ObjToPaintable
    <3>2. u.cache[x] = ObjToPaintable(c, s, x)
      BY <1>1, <1>2, <2>1
    <3> QED
      BY <3>1, <3>2
  <2>2. CASE x \notin DOMAIN u.cache
    <3>1. x \notin DOMAIN s.cache
      BY <1>2, <2>2
    <3> QED
      BY <2>2, <3>1 DEF ObjToPaintable
  <2> QED
    BY <2>1, <2>2
<1> QED
  BY <1>3 DEF PaintsAs

\* The same objects are ahead of the same address.
LEMMA SameAhead ==
  ASSUME NEW c, NEW s, NEW u, PaintsAs(c, s, u)
  PROVE  /\ \A x : LinesOf(c, u, x) = LinesOf(c, s, x) /\ (Drawable(c, u, x) <=> Drawable(c, s, x))
         /\ \A x : Ahead(c, u, x) = Ahead(c, s, x)
<1>1. \A x : LinesOf(c, u, x) = LinesOf(c, s, x) /\ (Drawable(c, u, x) <=> Drawable(c, s, x))
  BY DEF PaintsAs, LinesOf, Drawable
<1>2. ASSUME NEW x PROVE Ahead(c, u, x) = Ahead(c, s, x)
  BY <1>1 DEF Ahead
<1> QED
  BY <1>1, <1>2

\* Objects ahead of an address are ahead of those before it.
LEMMA AheadIn ==
  ASSUME NEW c, CodeIs(c), NEW s, NEW w, IsWork(w), NEW A, A = Ahead(c, s, w.addr)
  PROVE  A \in SUBSET DOMAIN Objects(c) /\ w.addr \in Nat /\ \A o \in A : o \in Nat /\ Drawable(c, s, o)
BY AheadAre

\* What a painted viewer shows of the work it began with.
PaintedFrom(c, s, w, u) ==
  LET A == Ahead(c, s, w.addr) IN
  \/ /\ u.shown = {} /\ u.start = 0 /\ (Fits(c, s, w) => A = {})
     /\ ~w.adjust => LinesIn(c, s, A) <= w.start
  \/ \E m : /\ Leads(c, u, A, m) /\ (Fits(c, s, w) => \A o \in A : m <= o)
            /\ ~w.adjust => u.start + LinesIn(c, s, {o \in A : o < m}) = w.start

\* What is painted begins with the object ahead.
LEMMA PaintedIs ==
  ASSUME NEW c, CodeIs(c), NEW s, LinearType(s), NEW w, IsWork(w), NEW region,
         NEW A, A = Ahead(c, s, w.addr),
         RegionFits(c, s, w, region),
         NEW done, done = PaintFrom(c, s, w.addr, w.offset, w.start, region, w.adjust),
         NEW u, u = PaintedAs(c, s, done)
  PROVE  /\ LinearOK(c, u) /\ PaintsAs(c, s, u) /\ PaintedFrom(c, s, w, u)
<1>1. CacheIs(s)
  BY DEF LinearType
<1>3. PICK E : A \subseteq E /\ (Looks(c, s, w, done, E) \/ \E m : Shows(c, s, w, done, E, m))
  BY <1>1, PaintIs
<1>4. PaintsAs(c, s, u)
  BY PaintedSame
<1>5. u = [offset |-> done.offset, start |-> done.first, shown |-> done.shown, cache |-> u.cache]
      /\ u.cache = [a \in done.shown \cup DOMAIN s.cache |-> ObjToPaintable(c, s, a)]
  BY DEF PaintedAs
<1>6. u.offset = done.offset /\ u.start = done.first /\ u.shown = done.shown
      /\ DOMAIN u.cache = done.shown \cup DOMAIN s.cache
  BY <1>5
<1>7. A \in SUBSET DOMAIN Objects(c) /\ w.addr \in Nat /\ \A o \in A : o \in Nat /\ Drawable(c, s, o)
  BY AheadIn
<1>8. \A o \in A : LinesOf(c, s, o) \in Nat
  BY <1>1, <1>7, LinesAre
<1>9. ASSUME done.shown \subseteq A PROVE CacheIs(u)
  <2>1. ASSUME NEW a \in DOMAIN u.cache
        PROVE  a \in Nat /\ u.cache[a].kind # "none" /\ u.cache[a].lines \in Nat
    <3>1. u.cache[a] = ObjToPaintable(c, s, a)
      BY <1>5, <1>6
    <3>2. CASE a \in DOMAIN s.cache
      <4>1. ObjToPaintable(c, s, a) = s.cache[a]
        BY <3>2 DEF ObjToPaintable
      <4> QED
        BY <1>1, <3>1, <3>2, <4>1 DEF CacheIs
    <3>3. CASE a \in A
      BY <1>7, <1>8, <3>1, <3>3 DEF Drawable, LinesOf
    <3> QED
      BY <1>6, <1>9, <3>2, <3>3
  <2> QED
    BY <2>1 DEF CacheIs
<1>10. /\ \A x : LinesOf(c, u, x) = LinesOf(c, s, x)
       /\ \A x : Ahead(c, u, x) = Ahead(c, s, x)
  BY <1>4, SameAhead
<1>11. CASE Looks(c, s, w, done, E)
  <2>1. /\ done.shown = {} /\ done.first = 0 /\ done.start \in Nat /\ done.offset \in Nat
        /\ \A o : o \in Ahead(c, s, AddrOf(done.offset)) <=> o \in A /\ o \notin E
        /\ Fits(c, s, w) => A \cap E = {}
        /\ ~w.adjust => done.start + LinesIn(c, s, A \cap E) = w.start
    BY <1>11, Zenon DEF Looks
  <2>2. A \cap E = A
    BY <1>3
  <2>3. LinearType(u)
    <3>1. CacheIs(u)
      BY <1>9, <2>1
    <3>2. u.shown \subseteq DOMAIN u.cache
      BY <1>6
    <3> QED
      BY <1>5, <1>6, <2>1, <3>1, <3>2 DEF LinearType
  <2>4. Ahead(c, u, AddrOf(u.offset)) = {}
    BY <1>3, <1>6, <1>10, <2>1
  <2>5. ShownFirst(c, u)
    BY <1>6, <2>1, <2>4 DEF ShownFirst
  <2>6. ~w.adjust => LinesIn(c, s, A) <= w.start
    <3>1. LinesIn(c, s, A) \in Nat
      BY <1>1, <1>7, LinesAdd
    <3>2. ASSUME ~w.adjust PROVE LinesIn(c, s, A) <= w.start
      <4>1. done.start + LinesIn(c, s, A) = w.start
        BY <2>1, <2>2, <3>2
      <4> QED
        BY <2>1, <3>1, <4>1
    <3> QED
      BY <3>2
  <2>7. PaintedFrom(c, s, w, u)
    BY <1>6, <2>1, <2>2, <2>6 DEF PaintedFrom
  <2> QED
    BY <1>4, <2>3, <2>5, <2>7 DEF LinearOK
<1>12. CASE \E m : Shows(c, s, w, done, E, m)
  <2>0. PICK m : Shows(c, s, w, done, E, m)
    BY <1>12
  <2>1. /\ m \in A /\ m \in done.shown /\ \A y \in done.shown : m <= y /\ y \in A
        /\ done.offset \in Nat
        /\ done.first \in Nat /\ (done.first = 0 \/ done.first < LinesOf(c, s, m))
        /\ \A o : o \in Ahead(c, s, AddrOf(done.offset)) <=> o \in A /\ m <= o
        /\ Fits(c, s, w) => \A o \in A : m <= o
        /\ ~w.adjust => done.first + LinesIn(c, s, {o \in A : o < m}) = w.start
    BY <2>0, Zenon DEF Shows
  <2>2. LinearType(u)
    <3>1. CacheIs(u)
      BY <1>9, <2>1
    <3>2. u.shown \subseteq DOMAIN u.cache
      BY <1>6
    <3> QED
      BY <1>5, <1>6, <2>1, <3>1, <3>2 DEF LinearType
  <2>3. m \in u.shown /\ (\A y \in u.shown : m <= y) /\ (u.start = 0 \/ u.start < LinesOf(c, u, m))
    BY <1>6, <1>10, <2>1
  <2>4. Leads(c, u, A, m)
    BY <2>1, <2>3 DEF Leads
  <2>5. PICK H : H = Ahead(c, u, AddrOf(u.offset)) /\ \A o : o \in H <=> o \in A /\ m <= o
    <3>1. Ahead(c, u, AddrOf(u.offset)) = Ahead(c, s, AddrOf(done.offset))
      BY <1>6, <1>10
    <3> QED
      BY <2>1, <3>1
  <2>6. Leads(c, u, H, m) /\ \A o \in H : m <= o
    <3>1. m <= m
      BY <1>7, <2>1
    <3> QED
      BY <2>1, <2>3, <2>5, <3>1 DEF Leads
  <2>7. ShownFirst(c, u)
    BY <2>5, <2>6 DEF ShownFirst
  <2>8. ~w.adjust => u.start + LinesIn(c, s, {o \in A : o < m}) = w.start
    BY <1>6, <2>1
  <2>9. PaintedFrom(c, s, w, u)
    BY <2>1, <2>4, <2>8, Zenon DEF PaintedFrom
  <2> QED
    BY <1>4, <2>2, <2>7, <2>9 DEF LinearOK
<1> QED
  BY <1>3, <1>11, <1>12

\* PrepareObjects, where it paints.
LEMMA PreparePaints ==
  ASSUME NEW c, CodeIs(c), NEW s, LinearType(s), NEW at, NEW start \in Int, NEW adjust, start < 0 => ~adjust,
         NEW offset \in Nat, offset = IF at = NoOffset THEN 0 ELSE at,
         ~(offset = s.offset /\ start = s.start),
         NEW u, u = PrepareObjects(c, s, at, start, adjust),
         NEW w, w = WorkOf(TopIn(c, s, offset, start), adjust)
  PROVE  LinearOK(c, u) /\ PaintsAs(c, s, u) /\ PaintedFrom(c, s, w, u)
<1>1. PICK region : region = RegionFromOffset(offset)
  OBVIOUS
<1>2. region # 0
  <2>1. Len(Regions) \in Nat \ {0} /\ region \in 1 .. Len(Regions)
    BY <1>1, OffsetIs, RegionsAre
  <2> QED
    BY <2>1
<1>3. PICK top : top = TopIn(c, s, offset, start)
  OBVIOUS
<1>4. CacheIs(s)
  BY DEF LinearType
<1>5. w = WorkOf(top, adjust)
  BY <1>3
<1>6. IsWork(w) /\ RegionFits(c, s, w, region)
  <2>1. /\ CodeIs(c) /\ CacheIs(s) /\ offset \in Nat /\ start \in Int /\ (start < 0 => ~adjust)
        /\ region = RegionFromOffset(offset) /\ top = TopIn(c, s, offset, start) /\ w = WorkOf(top, adjust)
    BY <1>1, <1>3, <1>4, <1>5
  <2>2. IsWork(w)
    BY <2>1, WorkIs
  <2>3. RegionFits(c, s, w, region)
    BY <2>1, WorkIs
  <2> QED
    BY <2>2, <2>3
<1>7. PICK done : done = PaintFrom(c, s, w.addr, w.offset, w.start, region, w.adjust)
  OBVIOUS
<1>8. u = PaintedAs(c, s, done)
  <2>1. u = PaintedAs(c, s, DoneFrom(c, s, region, adjust, top))
    BY <1>1, <1>2, <1>3, PrepareIs
  <2>2. DoneFrom(c, s, region, adjust, top) = done
    BY <1>5, <1>7 DEF DoneFrom, WorkOf
  <2> QED
    BY <2>1, <2>2
<1> QED
  BY <1>6, <1>7, <1>8, PaintedIs

\* While the viewer has not taken up new code, it only has its type.
LinearIs(c, l, how) == LinearType(l) /\ (how = "whole" => ShownFirst(c, l))
\* PrepareObjects keeps what belongs together in the viewer.
LEMMA PrepareKeeps ==
  ASSUME NEW c, CodeIs(c), NEW s, NEW how, LinearIs(c, s, how), NEW at \in Int, NEW start \in Int, NEW adjust, start < 0 => ~adjust,
         NEW u, u = PrepareObjects(c, s, at, start, adjust)
  PROVE  LinearIs(c, u, how) /\ PaintsAs(c, s, u)
<1>1. PICK offset \in Int : offset = IF at = NoOffset THEN 0 ELSE at
  OBVIOUS
<1>2. CASE offset = s.offset /\ start = s.start
  <2>1. u = s
    BY <1>1, <1>2, PrepareIs
  <2> QED
    BY <2>1 DEF PaintsAs
<1>3. CASE ~(offset = s.offset /\ start = s.start) /\ offset < 0
  <2>1. RegionFromOffset(offset) = 0
    <3>1. PICK L : L = Len(Regions)
      OBVIOUS
    <3>2. PICK r : r = RegionFromOffset(offset)
      OBVIOUS
    <3>3. offset \in Int /\ offset < 0
      BY <1>3
    <3>4. offset < 0 => r = 0
      BY <3>1, <3>2, <3>3, OffsetRegionIs
    <3> QED
      BY <3>2, <3>3, <3>4
  <2>2. u = [s EXCEPT !.offset = offset]
    BY <1>1, <1>3, <2>1, PrepareIs
  <2>3. u = [offset |-> offset, start |-> s.start, shown |-> s.shown, cache |-> s.cache]
    BY <2>2 DEF LinearIs, LinearType
  <2>4. u.cache = s.cache /\ u.offset = offset /\ ~(0 <= u.offset)
    BY <1>3, <2>3
  <2>5. LinearType(u)
    BY <2>3, <2>4 DEF LinearIs, LinearType, CacheIs
  <2>6. ShownFirst(c, u)
    BY <2>4 DEF ShownFirst
  <2>7. PaintsAs(c, s, u)
    BY <2>4 DEF PaintsAs, ObjToPaintable
  <2> QED
    BY <2>5, <2>6, <2>7 DEF LinearIs
<1>4. CASE ~(offset = s.offset /\ start = s.start) /\ ~(offset < 0)
  <2>1. offset \in Nat
    BY <1>4
  <2>2. PICK w : w = WorkOf(TopIn(c, s, offset, start), adjust)
    OBVIOUS
  <2>3. LinearType(s)
    BY DEF LinearIs
  <2> QED
    BY <1>1, <1>4, <2>1, <2>2, <2>3, PreparePaints DEF LinearIs, LinearOK
<1> QED
  BY <1>2, <1>3, <1>4

\* Going to an address shows what is drawn there.
LEMMA NavigateIs ==
  ASSUME NEW c, CodeIs(c), NEW s, NEW how, LinearIs(c, s, how), NEW a \in Int, NEW u, u = NavigateToAddr(c, s, a)
  PROVE  LinearIs(c, u, how) /\ PaintsAs(c, s, u)
<1>1. PICK L : L = Len(Regions) /\ L \in Nat \ {0}
  BY RegionsAre
<1>2. PICK r : r = RegionFromAddr(a) /\ r \in 0 .. L
  BY <1>1, AddrRegionIs
<1>3. PICK i \in 1 .. L : i = IF r = 0 THEN 1 ELSE r
  BY <1>1, <1>2
<1>4. PICK at \in Int : at = OffsetFromAddr(i, a)
  <2>1. Regions[i].addr \in Nat
    BY <1>1, <1>3, RegionsAre
  <2>2. Base[i] \in Nat
    <3>1. i \in 1 .. L + 1
      BY <1>1, <1>3
    <3> QED
      BY <1>1, <3>1, BaseIs
  <2> QED
    BY <2>1, <2>2 DEF OffsetFromAddr
<1>5. u = PrepareObjects(c, s, at, 0, FALSE)
  BY <1>2, <1>3, <1>4 DEF NavigateToAddr, NavigateTo
<1>6. 0 \in Int /\ (0 < 0 => ~FALSE)
  OBVIOUS
<1> QED
  BY <1>4, <1>5, <1>6, PrepareKeeps

\* and what is painted at that address is then on the screen.
LEMMA NavigateShows ==
  ASSUME NEW c, CodeIs(c), NEW s, LinearOK(c, s), NEW a \in Nat, NEW u, u = NavigateToAddr(c, s, a),
         NEW item \in DOMAIN Objects(c), item <= a, a < End(c, item), Drawable(c, s, item)
  PROVE  item \in u.shown
<1>1. PICK L : L = Len(Regions) /\ L \in Nat \ {0}
  BY RegionsAre
<1>2. item \in Nat /\ End(c, item) \in Nat /\ \E k \in 1 .. L : InRegion(c, item, k)
  BY <1>1, ObjectsAre
<1>3. PICK k \in 1 .. L : Regions[k].addr <= item /\ End(c, item) <= Regions[k].addr + Regions[k].size
  BY <1>2 DEF InRegion
<1>4. Regions[k].addr <= a /\ a < Regions[k].addr + Regions[k].size
  <2>1. PICK ka \in Nat, kw \in Nat : ka = Regions[k].addr /\ kw = Regions[k].size
    <3>1. Regions[k].addr \in Nat /\ Regions[k].size \in Nat
      BY <1>1, RegionsAre
    <3> QED
      BY <3>1
  <2> QED
    BY <1>2, <1>3, <2>1
<1>5. PICK at : at = OffsetFromAddr(k, a)
  OBVIOUS
<1>6. RegionFromAddr(a) = k /\ at \in Nat /\ AddrOf(at) = a
  BY <1>1, <1>4, <1>5, InsideIs
<1>7. at # NoOffset
  BY <1>6 DEF NoOffset
<1>8. u = PrepareObjects(c, s, at, 0, FALSE)
  <2>1. k # 0 /\ k = RegionFromAddr(a) /\ at = OffsetFromAddr(k, a)
    BY <1>1, <1>5, <1>6
  <2>2. PICK i : i = IF k = 0 THEN 1 ELSE k
    OBVIOUS
  <2>3. i = k
    BY <2>1, <2>2
  <2>4. NavigateToAddr(c, s, a) = NavigateTo(c, s, OffsetFromAddr(IF k = 0 THEN 1 ELSE k, a))
    BY <2>1 DEF NavigateToAddr
  <2>5. NavigateToAddr(c, s, a) = NavigateTo(c, s, at)
    BY <2>1, <2>2, <2>3, <2>4
  <2> QED
    BY <2>5 DEF NavigateTo
<1>9. PICK A : A = Ahead(c, s, a)
  OBVIOUS
<1>10. item \in A
  BY <1>9 DEF Ahead
<1>11. \A o \in A : item <= o
  <2> SUFFICES ASSUME NEW o \in A, ~(item <= o) PROVE FALSE
    OBVIOUS
  <2>1. o \in DOMAIN Objects(c) /\ a < End(c, o)
    BY <1>9 DEF Ahead
  <2>2. o \in Nat /\ End(c, o) \in Nat
    BY <2>1, ObjectsAre
  <2>3. End(c, o) <= item
    <3>1. \A x, y \in DOMAIN Objects(c) : x < y => End(c, x) <= y
      BY <1>1, ObjectsAre
    <3>2. o < item
      BY <1>2, <2>2
    <3> QED
      BY <2>1, <3>1, <3>2
  <2> QED
    BY <1>2, <2>1, <2>2, <2>3
<1>12. \A l, m : Leads(c, l, A, m) /\ (\A o \in A : m <= o) => item \in l.shown
  <2> SUFFICES ASSUME NEW l, NEW m, Leads(c, l, A, m), \A o \in A : m <= o PROVE item \in l.shown
    OBVIOUS
  <2>1. m \in A /\ m \in l.shown /\ m <= item /\ item <= m
    BY <1>10, <1>11 DEF Leads
  <2>2. m \in Nat
    BY <1>9, <2>1, ObjectsAre DEF Ahead
  <2>3. m = item
    BY <1>2, <2>1, <2>2
  <2> QED
    BY <2>1, <2>3
<1>13. CASE at = s.offset /\ 0 = s.start
  <2>1. u = s
    <3>1. PICK start : start = 0
      OBVIOUS
    <3>2. PICK adjust : adjust = FALSE
      OBVIOUS
    <3>3. PICK region : region = RegionFromOffset(at)
      OBVIOUS
    <3>4. at = IF at = NoOffset THEN 0 ELSE at
      BY <1>7
    <3>5. PrepareObjects(c, s, at, start, adjust) = s
      <4>1. at = s.offset /\ start = s.start
        BY <1>13, <3>1
      <4> QED
        BY <3>3, <3>4, <4>1, PrepareIs
    <3> QED
      BY <1>8, <3>1, <3>2, <3>5
  <2>2. ShownFirst(c, s) /\ 0 <= s.offset
    BY <1>6, <1>13 DEF LinearOK
  <2>3. \E m : Leads(c, s, A, m) /\ \A o \in A : m <= o
    BY <1>6, <1>9, <1>10, <1>13, <2>2 DEF ShownFirst
  <2> QED
    BY <1>12, <2>1, <2>3
<1>14. CASE ~(at = s.offset /\ 0 = s.start)
  <2>1. PICK start \in Int : start = 0
    OBVIOUS
  <2>2. PICK adjust : adjust = FALSE
    OBVIOUS
  <2>3. PICK region : region = RegionFromOffset(at)
    OBVIOUS
  <2>4. PICK top : top = TopIn(c, s, at, start)
    OBVIOUS
  <2>5. PICK w : w = WorkOf(top, adjust)
    OBVIOUS
  <2>6. PaintedFrom(c, s, w, u) /\ CacheIs(s)
    <3>1. LinearType(s) /\ CacheIs(s)
      BY DEF LinearOK, LinearType
    <3>2. /\ CodeIs(c) /\ LinearType(s) /\ start \in Int /\ (start < 0 => ~adjust) /\ at \in Nat
          /\ at = (IF at = NoOffset THEN 0 ELSE at) /\ ~(at = s.offset /\ start = s.start)
          /\ u = PrepareObjects(c, s, at, start, adjust) /\ w = WorkOf(TopIn(c, s, at, start), adjust)
      BY <1>6, <1>7, <1>8, <1>14, <2>1, <2>2, <2>4, <2>5, <3>1
    <3>3. PaintedFrom(c, s, w, u)
      BY <3>2, PreparePaints
    <3> QED
      BY <3>1, <3>3
  <2>7. Fits(c, s, w) /\ w.addr = a
    <3>1. /\ CodeIs(c) /\ CacheIs(s) /\ at \in Nat /\ start \in Int /\ (start < 0 => ~adjust)
          /\ region = RegionFromOffset(at) /\ top = TopIn(c, s, at, start) /\ w = WorkOf(top, adjust)
      BY <1>6, <2>1, <2>2, <2>3, <2>4, <2>5, <2>6
    <3>2. start <= 0 /\ ~adjust => Fits(c, s, w)
      BY <3>1, WorkIs
    <3>3. start >= 0 => w.offset = at /\ w.start = start /\ w.addr = AddrOf(at)
      BY <3>1, WorkIs
    <3> QED
      BY <1>6, <2>1, <2>2, <3>2, <3>3
  <2>8. \E m : Leads(c, u, A, m) /\ \A o \in A : m <= o
    BY <1>9, <1>10, <2>6, <2>7 DEF PaintedFrom
  <2> QED
    BY <1>12, <2>8
<1> QED
  BY <1>13, <1>14

-----------------------------------------------------------------------------
(***************************************************************************)
(* How far the first line is from the beginning, before and after scrolling.*)
(***************************************************************************)
\* The lines of a set are those of what is drawn of it.
LEMMA LinesSame ==
  ASSUME NEW c, CodeIs(c), NEW s, CacheIs(s), NEW u, CacheIs(u), PaintsAs(c, s, u),
         NEW S \in SUBSET DOMAIN Objects(c)
  PROVE  LinesIn(c, u, S) = LinesIn(c, s, S)
<1>1. PICK Good : \A T : T \in Good <=> T \in SUBSET S /\ LinesIn(c, u, T) = LinesIn(c, s, T)
  <2>1. \E Good : Good = {T \in SUBSET S : LinesIn(c, u, T) = LinesIn(c, s, T)}
    OBVIOUS
  <2> QED
    BY <2>1
<1>2. \A x : LinesOf(c, u, x) = LinesOf(c, s, x)
  BY SameAhead
<1>3. ASSUME NEW T \in SUBSET S, \A V \in SUBSET T : V # T => V \in Good
      PROVE  T \in Good
  <2>1. T \in SUBSET DOMAIN Objects(c)
    OBVIOUS
  <2>2. CASE T = {}
    <3>1. LinesIn(c, u, T) = 0 /\ LinesIn(c, s, T) = 0
      BY <2>1, <2>2, LinesAdd
    <3> QED
      BY <1>1, <3>1
  <2>3. CASE T # {}
    <3>1. PICK x \in T : TRUE
      BY <2>3
    <3>2. PICK V : V = T \ {x} /\ V \in Good
      BY <1>3, <3>1
    <3>3. \A y \in T : LinesIn(c, u, T) = LinesIn(c, u, T \ {y}) + LinesOf(c, u, y)
      BY <2>1, LinesAdd
    <3>4. \A y \in T : LinesIn(c, s, T) = LinesIn(c, s, T \ {y}) + LinesOf(c, s, y)
      BY <2>1, LinesAdd
    <3>5. LinesIn(c, u, V) = LinesIn(c, s, V)
      BY <1>1, <3>2
    <3>6. LinesIn(c, u, T) = LinesIn(c, u, V) + LinesOf(c, u, x)
      BY <3>2, <3>3
    <3>7. LinesIn(c, s, T) = LinesIn(c, s, V) + LinesOf(c, s, x)
      BY <3>2, <3>4
    <3> QED
      BY <1>1, <1>2, <3>5, <3>6, <3>7
  <2> QED
    BY <2>2, <2>3
<1>4. IsFiniteSet(S)
  <2>1. PICK L : L = Len(Regions)
    OBVIOUS
  <2>2. IsFiniteSet(DOMAIN Objects(c))
    BY <2>1, ObjectsAre
  <2> QED
    BY <2>2, FS_Subset
<1>5. \A T \in SUBSET S : T \in Good
  BY <1>3, <1>4, SubsetInduction
<1>6. S \in Good
  BY <1>5
<1> QED
  BY <1>1, <1>6

\* W is S with T apart from it, of which A is drawn.
Joins(c, s, W, S, T, A) ==
  /\ S \in SUBSET DOMAIN Objects(c) /\ T \in SUBSET DOMAIN Objects(c) /\ S \cap T = {}
  /\ \A o : o \in W <=> o \in S \/ o \in T
  /\ \A o : o \in A <=> o \in T /\ Drawable(c, s, o)
LEMMA LinesDrawn ==
  ASSUME NEW c, CodeIs(c), NEW s, CacheIs(s), NEW W, NEW S, NEW T, NEW A, Joins(c, s, W, S, T, A)
  PROVE  LinesIn(c, s, W) = LinesIn(c, s, S) + LinesIn(c, s, A) /\ LinesIn(c, s, A) \in Nat
<1>1. PICK U : U = {o \in T : ~Drawable(c, s, o)}
  OBVIOUS
<1>0. /\ S \in SUBSET DOMAIN Objects(c) /\ T \in SUBSET DOMAIN Objects(c) /\ S \cap T = {}
      /\ \A o : o \in W <=> o \in S \/ o \in T
      /\ \A o : o \in A <=> o \in T /\ Drawable(c, s, o)
  BY DEF Joins
<1>2. A \in SUBSET DOMAIN Objects(c) /\ U \in SUBSET DOMAIN Objects(c) /\ A \cap U = {} /\ A \cup U = T
  BY <1>0, <1>1
<1>3. LinesIn(c, s, T) = LinesIn(c, s, A) + LinesIn(c, s, U)
  BY <1>2, LinesUnion
<1>4. LinesIn(c, s, U) = 0
  <2>1. (\A x \in U : ~Drawable(c, s, x)) => LinesIn(c, s, U) = 0
    BY <1>2, LinesUnion
  <2> QED
    BY <1>1, <2>1
<1>5. LinesIn(c, s, S \cup T) = LinesIn(c, s, S) + LinesIn(c, s, T)
  BY <1>0, LinesUnion
<1>6. LinesIn(c, s, A) \in Nat
  BY <1>2, LinesAdd
<1>7. W = S \cup T
  BY <1>0
<1> QED
  BY <1>3, <1>4, <1>5, <1>6, <1>7

\* The objects before an address, and those from it on that are drawn.
Below(c, m) == {o \in DOMAIN Objects(c) : o < m}
DrawnFrom(c, s, h) == {o \in DOMAIN Objects(c) : h <= o /\ Drawable(c, s, o)}

LEMMA LinesBelow ==
  ASSUME NEW c, CodeIs(c), NEW s, CacheIs(s), NEW h \in Nat, NEW A, A = DrawnFrom(c, s, h)
  PROVE  /\ LinesIn(c, s, Below(c, h)) \in Nat /\ LinesIn(c, s, A) \in Nat
         /\ LinesIn(c, s, DOMAIN Objects(c)) = LinesIn(c, s, Below(c, h)) + LinesIn(c, s, A)
<1>1. PICK D : D = DOMAIN Objects(c) /\ \A o \in D : o \in Nat
  <2>1. PICK L : L = Len(Regions)
    OBVIOUS
  <2>2. \A o \in DOMAIN Objects(c) : o \in Nat
    BY <2>1, ObjectsAre
  <2> QED
    BY <2>2
<1>0. PICK S : S = Below(c, h)
  OBVIOUS
<1>2. S = Below(c, h) /\ \A o : o \in S <=> o \in D /\ o < h
  BY <1>0, <1>1 DEF Below
<1>3. S \in SUBSET DOMAIN Objects(c)
  BY <1>1, <1>2
<1>4. LinesIn(c, s, S) \in Nat
  BY <1>3, LinesAdd
<1>5. LinesIn(c, s, D) = LinesIn(c, s, S) + LinesIn(c, s, A) /\ LinesIn(c, s, A) \in Nat
  <2>1. PICK T : T = {o \in D : h <= o}
    OBVIOUS
  <2>2. S \cap T = {} /\ (\A o : o \in D <=> o \in S \/ o \in T) /\ T \in SUBSET DOMAIN Objects(c)
    BY <1>1, <1>2, <2>1
  <2>3. \A o : o \in A <=> o \in T /\ Drawable(c, s, o)
    BY <1>1, <2>1 DEF DrawnFrom
  <2>4. Joins(c, s, D, S, T, A)
    BY <1>3, <2>2, <2>3 DEF Joins
  <2> QED
    BY <2>4, LinesDrawn
<1> QED
  BY <1>1, <1>2, <1>4, <1>5

\* Lines up to an object.
LEMMA LinesTo ==
  ASSUME NEW c, CodeIs(c), NEW s, CacheIs(s), NEW h \in Nat, NEW m \in Nat, h <= m,
         NEW A, A = DrawnFrom(c, s, h), NEW V, V = {o \in A : o < m}
  PROVE  LinesIn(c, s, Below(c, m)) = LinesIn(c, s, Below(c, h)) + LinesIn(c, s, V)
<1>1. PICK D : D = DOMAIN Objects(c) /\ \A o \in D : o \in Nat
  <2>1. PICK L : L = Len(Regions)
    OBVIOUS
  <2>2. \A o \in DOMAIN Objects(c) : o \in Nat
    BY <2>1, ObjectsAre
  <2> QED
    BY <2>2
<1>2. PICK S : S = Below(c, h)
  OBVIOUS
<1>3. PICK T : T = {o \in D : h <= o /\ o < m}
  OBVIOUS
<1>4. PICK W : W = Below(c, m)
  OBVIOUS
<1>5. \A o : o \in S <=> o \in D /\ o < h
  BY <1>1, <1>2 DEF Below
<1>6. \A o : o \in W <=> o \in D /\ o < m
  BY <1>1, <1>4 DEF Below
<1>7. /\ S \in SUBSET DOMAIN Objects(c) /\ T \in SUBSET DOMAIN Objects(c) /\ S \cap T = {}
      /\ \A o : o \in W <=> o \in S \/ o \in T
  BY <1>1, <1>3, <1>5, <1>6
<1>8. \A o : o \in V <=> o \in T /\ Drawable(c, s, o)
  BY <1>1, <1>3 DEF DrawnFrom
<1>9. Joins(c, s, W, S, T, V)
  BY <1>7, <1>8 DEF Joins
<1> QED
  BY <1>2, <1>4, <1>9, LinesDrawn

\* The first line of a viewer, among those of all objects.
LEMMA TopShown ==
  ASSUME NEW c, CodeIs(c), NEW s, LinearType(s)
  PROVE  /\ Total(c, s) = LinesIn(c, s, DOMAIN Objects(c))
         /\ s.shown = {} => Top(c, s) = LinesIn(c, s, DOMAIN Objects(c)) + s.start
         /\ \A m \in s.shown : (\A y \in s.shown : m <= y) => Top(c, s) = LinesIn(c, s, Below(c, m)) + s.start
<1>1. PICK L : L = Len(Regions)
  OBVIOUS
<1>2. PICK D : D = DOMAIN Objects(c)
  OBVIOUS
<1>3. IsFiniteSet(D) /\ D \subseteq Nat
  BY <1>1, <1>2, ObjectsAre
<1>4. ASSUME NEW m PROVE LinesBetween(c, s, 0, m) = LinesIn(c, s, {a \in D : 0 <= a /\ a < m})
  BY <1>2 DEF LinesBetween, LinesIn
<1>5. {a \in D : 0 <= a /\ a < AllAbove(c)} = D
  <2>1. CASE D = {}
    BY <2>1
  <2>2. CASE D # {}
    <3>1. Bounded(D)
      BY <1>3, FiniteBounded
    <3>2. Max(D) \in Nat /\ \A x \in D : x <= Max(D)
      BY <2>2, <3>1, GreatestIs
    <3>3. PICK n \in Nat : n = Max(D)
      BY <3>2
    <3>4. AllAbove(c) = n + 1
      BY <1>2, <3>3 DEF AllAbove
    <3>5. ASSUME NEW x \in D PROVE 0 <= x /\ x < n + 1
      <4>1. x \in Nat /\ x <= n
        BY <1>3, <3>2, <3>3
      <4> QED
        BY <4>1
    <3> QED
      BY <3>4, <3>5
  <2> QED
    BY <2>1, <2>2
<1>6. LinesBetween(c, s, 0, AllAbove(c)) = LinesIn(c, s, D)
  BY <1>4, <1>5
<1>7. ASSUME s.shown = {} PROVE Top(c, s) = LinesIn(c, s, D) + s.start
  BY <1>6, <1>7 DEF Top
<1>8. ASSUME NEW m \in s.shown, \A y \in s.shown : m <= y
      PROVE  Top(c, s) = LinesIn(c, s, Below(c, m)) + s.start
  <2>1. s.shown \subseteq Nat /\ s.shown # {}
    BY <1>8 DEF LinearType, CacheIs
  <2>2. PICK k : k = Min(s.shown)
    OBVIOUS
  <2>3. k \in s.shown /\ \A x \in s.shown : k <= x
    BY <2>1, <2>2, LeastIs
  <2>4. k = m
    <3>1. k \in Nat /\ m \in Nat /\ k <= m /\ m <= k
      BY <1>8, <2>1, <2>3
    <3> QED
      BY <3>1
  <2>5. Top(c, s) = LinesBetween(c, s, 0, m) + s.start
    BY <2>1, <2>2, <2>4 DEF Top
  <2>6. {a \in D : 0 <= a /\ a < m} = Below(c, m)
    <3>1. \A a \in D : 0 <= a
      BY <1>3
    <3> QED
      BY <1>2, <3>1 DEF Below
  <2> QED
    BY <1>4, <2>5, <2>6
<1> QED
  BY <1>2, <1>6, <1>7, <1>8 DEF Total

\* What is ahead of an address is what begins at h or behind it: h is the object
\* that holds the address, or the address itself.
Holds(c, h, x) == h \in Nat /\ \A o \in DOMAIN Objects(c) : x < End(c, o) <=> h <= o

LEMMA HolderIs ==
  ASSUME NEW c, NEW s, NEW x, NEW h, Holds(c, h, x)
  PROVE  h \in Nat /\ \A o : o \in Ahead(c, s, x) <=> o \in DrawnFrom(c, s, h)
BY DEF Holds, Ahead, DrawnFrom

\* An object holds its own address.
LEMMA ObjectHolds ==
  ASSUME NEW c, CodeIs(c), NEW f \in DOMAIN Objects(c), NEW x \in Nat, f <= x, x < End(c, f)
  PROVE  Holds(c, f, x)
<1>1. PICK L : L = Len(Regions)
  OBVIOUS
<1>2. \A o \in DOMAIN Objects(c) : o \in Nat /\ End(c, o) \in Nat /\ o < End(c, o)
  BY <1>1, ObjectsAre
<1>3. \A o, p \in DOMAIN Objects(c) : o < p => End(c, o) <= p
  BY <1>1, ObjectsAre
<1>4. ASSUME NEW o \in DOMAIN Objects(c) PROVE x < End(c, o) <=> f <= o
  <2>1. o \in Nat /\ End(c, o) \in Nat /\ o < End(c, o) /\ f \in Nat /\ End(c, f) \in Nat
    BY <1>2
  <2>2. (o < f => End(c, o) <= f) /\ (f < o => End(c, f) <= o)
    BY <1>3
  <2> QED
    BY <2>1, <2>2
<1> QED
  BY <1>2, <1>4 DEF Holds

\* Where a viewer stands.
LEMMA TopAt ==
  ASSUME NEW c, CodeIs(c), NEW s, LinearOK(c, s), 0 <= s.offset, NEW h, Holds(c, h, AddrOf(s.offset))
  PROVE  Top(c, s) = LinesIn(c, s, Below(c, h)) + s.start
<1>1. PICK x \in Nat : x = AddrOf(s.offset)
  <2>1. s.offset \in Nat
    BY DEF LinearOK, LinearType
  <2>2. PICK L : L = Len(Regions)
    OBVIOUS
  <2>3. PICK r : r = RegionFromOffset(s.offset)
    OBVIOUS
  <2>4. AddrOf(s.offset) \in Nat
    BY <2>1, <2>2, <2>3, OffsetIs
  <2> QED
    BY <2>4
<1>2. Holds(c, h, x)
  BY <1>1
<1>3. h \in Nat /\ \A o : o \in Ahead(c, s, x) <=> o \in DrawnFrom(c, s, h)
  BY <1>2, HolderIs
<1>4. PICK A : A = DrawnFrom(c, s, h)
  OBVIOUS
<1>5. Ahead(c, s, x) = A
  BY <1>3, <1>4
<1>6. LinearType(s) /\ CacheIs(s) /\ s.start \in Nat
  BY DEF LinearOK, LinearType
<1>7. PICK D : D = DOMAIN Objects(c)
  OBVIOUS
<1>8. /\ LinesIn(c, s, Below(c, h)) \in Nat
      /\ LinesIn(c, s, D) = LinesIn(c, s, Below(c, h)) + LinesIn(c, s, A)
  BY <1>3, <1>4, <1>6, <1>7, LinesBelow
<1>9. ASSUME NEW m \in Nat, h <= m
      PROVE  LinesIn(c, s, Below(c, m)) = LinesIn(c, s, Below(c, h)) + LinesIn(c, s, {o \in A : o < m})
  <2>1. PICK V : V = {o \in A : o < m}
    OBVIOUS
  <2> QED
    BY <1>3, <1>4, <1>6, <1>9, <2>1, LinesTo
<1>10. LinesIn(c, s, {}) = 0
  BY <1>6, LinesAdd
<1>11. \/ A = {} /\ s.shown = {} /\ s.start = 0
       \/ \E m : Leads(c, s, A, m) /\ \A o \in A : m <= o
  BY <1>1, <1>5 DEF LinearOK, ShownFirst
<1>12. CASE A = {} /\ s.shown = {} /\ s.start = 0
  <2>1. s.shown = {} => Top(c, s) = LinesIn(c, s, D) + s.start
    BY <1>6, <1>7, TopShown
  <2> QED
    BY <1>8, <1>10, <1>12, <2>1
<1>13. CASE \E m : Leads(c, s, A, m) /\ \A o \in A : m <= o
  <2>1. PICK m : Leads(c, s, A, m) /\ \A o \in A : m <= o
    BY <1>13
  <2>2. m \in A /\ m \in s.shown /\ \A y \in s.shown : m <= y
    BY <2>1 DEF Leads
  <2>3. m \in Nat /\ h <= m
    <3>1. PICK L : L = Len(Regions)
      OBVIOUS
    <3>2. \A o \in DOMAIN Objects(c) : o \in Nat
      BY <3>1, ObjectsAre
    <3> QED
      BY <1>4, <2>2, <3>2 DEF DrawnFrom
  <2>4. \A k \in s.shown : (\A y \in s.shown : k <= y) => Top(c, s) = LinesIn(c, s, Below(c, k)) + s.start
    BY <1>6, TopShown
  <2>5. Top(c, s) = LinesIn(c, s, Below(c, m)) + s.start
    BY <2>2, <2>4
  <2>6. {o \in A : o < m} = {}
    <3>1. ASSUME NEW o \in A PROVE ~(o < m)
      <4>1. o \in Nat /\ m <= o
        <5>1. PICK L : L = Len(Regions)
          OBVIOUS
        <5>2. \A p \in DOMAIN Objects(c) : p \in Nat
          BY <5>1, ObjectsAre
        <5> QED
          BY <1>4, <2>1, <5>2 DEF DrawnFrom
      <4> QED
        BY <2>3, <4>1
    <3> QED
      BY <3>1
  <2> QED
    BY <1>8, <1>9, <1>10, <2>3, <2>5, <2>6
<1> QED
  BY <1>11, <1>12, <1>13

\* The lesser of two numbers, and the greater.
LEMMA LesserOf ==
  ASSUME NEW a \in Int, NEW b \in Int
  PROVE  Min({a, b}) = IF a <= b THEN a ELSE b
<1>1. PICK S : S = {a, b}
  OBVIOUS
<1>2. PICK k : k = Min(S)
  OBVIOUS
<1>3. \E x \in S : \A y \in S : x <= y
  <2>1. CASE a <= b
    BY <1>1, <2>1
  <2>2. CASE b <= a
    BY <1>1, <2>2
  <2> QED
    BY <2>1, <2>2
<1>4. k \in S /\ \A y \in S : k <= y
  BY <1>2, <1>3 DEF Min
<1>5. (k = a \/ k = b) /\ k <= a /\ k <= b
  BY <1>1, <1>4
<1> QED
  BY <1>1, <1>2, <1>5

LEMMA GreaterOf ==
  ASSUME NEW a \in Int, NEW b \in Int
  PROVE  Max({a, b}) = IF a <= b THEN b ELSE a
<1>1. PICK S : S = {a, b}
  OBVIOUS
<1>2. PICK k : k = Max(S)
  OBVIOUS
<1>3. \E x \in S : \A y \in S : x >= y
  <2>1. CASE a <= b
    BY <1>1, <2>1
  <2>2. CASE b <= a
    BY <1>1, <2>2
  <2> QED
    BY <2>1, <2>2
<1>4. k \in S /\ \A y \in S : k >= y
  BY <1>2, <1>3 DEF Max
<1>5. (k = a \/ k = b) /\ k >= a /\ k >= b
  BY <1>1, <1>4
<1> QED
  BY <1>1, <1>2, <1>5

\* What is painted from a line below an object stands on that line, or at the end.
LEMMA PaintedTop ==
  ASSUME NEW c, CodeIs(c), NEW s, LinearType(s), NEW w, IsWork(w), ~w.adjust,
         NEW h, Holds(c, h, w.addr), NEW u, LinearType(u), PaintsAs(c, s, u), PaintedFrom(c, s, w, u),
         NEW P, P = LinesIn(c, s, Below(c, h)), NEW M, M = LinesIn(c, s, DOMAIN Objects(c))
  PROVE  /\ P \in Nat /\ M \in Nat /\ P <= M
         /\ \/ Top(c, u) = P + w.start /\ P + w.start <= M
            \/ Top(c, u) = M /\ M <= P + w.start
<1>1. PICK D : D = DOMAIN Objects(c) /\ \A o \in D : o \in Nat
  <2>1. PICK L : L = Len(Regions)
    OBVIOUS
  <2>2. \A o \in DOMAIN Objects(c) : o \in Nat
    BY <2>1, ObjectsAre
  <2> QED
    BY <2>2
<1>2. PICK x \in Nat, n \in Nat : x = w.addr /\ n = w.start
  <2>1. PICK A : A = Ahead(c, s, w.addr)
    OBVIOUS
  <2>2. w.addr \in Nat
    BY <2>1, AheadIn
  <2>3. w.start \in Nat
    BY DEF IsWork
  <2> QED
    BY <2>2, <2>3
<1>3. h \in Nat /\ \A o : o \in Ahead(c, s, x) <=> o \in DrawnFrom(c, s, h)
  BY <1>2, HolderIs
<1>4. PICK A : A = DrawnFrom(c, s, h)
  OBVIOUS
<1>5. Ahead(c, s, x) = A
  BY <1>3, <1>4
<1>6. CacheIs(s) /\ CacheIs(u)
  BY DEF LinearType
<1>7. LinesIn(c, s, Below(c, h)) \in Nat /\ LinesIn(c, s, A) \in Nat
      /\ LinesIn(c, s, DOMAIN Objects(c)) = LinesIn(c, s, Below(c, h)) + LinesIn(c, s, A)
  BY <1>3, <1>4, <1>6, LinesBelow
<1>8. PICK Q \in Nat : Q = LinesIn(c, s, A) /\ P \in Nat /\ M = P + Q
  BY <1>7
<1>9. LinesIn(c, u, D) = M
  <2>1. D \in SUBSET DOMAIN Objects(c)
    BY <1>1
  <2> QED
    BY <1>1, <1>6, <2>1, LinesSame
<1>10. \/ u.shown = {} /\ u.start = 0 /\ Q <= n
       \/ \E m : Leads(c, u, A, m) /\ u.start + LinesIn(c, s, {o \in A : o < m}) = n
  BY <1>2, <1>5, <1>8 DEF PaintedFrom
<1>11. CASE u.shown = {} /\ u.start = 0 /\ Q <= n
  <2>1. u.shown = {} => Top(c, u) = LinesIn(c, u, D) + u.start
    BY <1>1, TopShown
  <2>2. Top(c, u) = M
    BY <1>8, <1>9, <1>11, <2>1
  <2> QED
    BY <1>2, <1>8, <1>11, <2>2
<1>12. CASE \E m : Leads(c, u, A, m) /\ u.start + LinesIn(c, s, {o \in A : o < m}) = n
  <2>1. PICK m : Leads(c, u, A, m) /\ u.start + LinesIn(c, s, {o \in A : o < m}) = n
    BY <1>12
  <2>2. m \in A /\ m \in u.shown /\ (\A y \in u.shown : m <= y) /\ (u.start = 0 \/ u.start < LinesOf(c, u, m))
    BY <2>1 DEF Leads
  <2>3. m \in D /\ m \in Nat /\ h <= m
    BY <1>1, <1>4, <2>2 DEF DrawnFrom
  <2>4. PICK V : V = {o \in A : o < m}
    OBVIOUS
  <2>5. LinesIn(c, s, Below(c, m)) = P + LinesIn(c, s, V)
    BY <1>3, <1>4, <1>6, <2>3, <2>4, LinesTo
  <2>6. \A k \in u.shown : (\A y \in u.shown : k <= y) => Top(c, u) = LinesIn(c, u, Below(c, k)) + u.start
    BY TopShown
  <2>7. Top(c, u) = LinesIn(c, u, Below(c, m)) + u.start
    BY <2>2, <2>6
  <2>8. PICK S : S = Below(c, m) /\ S \in SUBSET DOMAIN Objects(c)
    BY DEF Below
  <2>9. LinesIn(c, u, S) = LinesIn(c, s, S)
    BY <1>6, <2>8, LinesSame
  <2>10. V \in SUBSET DOMAIN Objects(c) /\ V \cup {m} \in SUBSET DOMAIN Objects(c)
    BY <1>1, <1>4, <2>3, <2>4 DEF DrawnFrom
  <2>11. LinesIn(c, s, V) \in Nat
    BY <1>6, <2>10, LinesAdd
  <2>12. PICK v \in Nat, k \in Nat : v = LinesIn(c, s, V) /\ k = u.start /\ k + v = n
    BY <2>1, <2>4, <2>11 DEF LinearType
  <2>13. Top(c, u) = P + n
    BY <1>8, <2>5, <2>7, <2>8, <2>9, <2>12
  <2>14. n <= Q
    <3>1. PICK W : W = V \cup {m}
      OBVIOUS
    <3>2. m \in W /\ W \ {m} = V /\ m \notin V
      BY <2>3, <2>4, <3>1
    <3>3. \A y \in W : LinesIn(c, s, W) = LinesIn(c, s, W \ {y}) + LinesOf(c, s, y)
      BY <1>6, <2>10, <3>1, LinesAdd
    <3>4. LinesOf(c, s, m) \in Nat
      BY <1>1, <1>6, <2>3, LinesAre
    <3>5. LinesIn(c, s, W) = v + LinesOf(c, s, m)
      BY <2>12, <3>2, <3>3
    <3>6. PICK R : R = A \ W
      OBVIOUS
    <3>7. W \in SUBSET DOMAIN Objects(c) /\ R \in SUBSET DOMAIN Objects(c) /\ W \cap R = {} /\ W \cup R = A
      BY <1>1, <1>4, <2>2, <2>4, <2>10, <3>1, <3>6 DEF DrawnFrom
    <3>8. LinesIn(c, s, W \cup R) = LinesIn(c, s, W) + LinesIn(c, s, R)
      BY <1>6, <3>7, LinesUnion
    <3>9. LinesIn(c, s, R) \in Nat
      BY <1>6, <3>7, LinesAdd
    <3>10. LinesOf(c, u, m) = LinesOf(c, s, m)
      BY SameAhead
    <3>11. PICK j \in Nat, r \in Nat : j = LinesOf(c, s, m) /\ r = LinesIn(c, s, R)
      BY <3>4, <3>9
    <3>12. Q = v + j + r
      BY <1>8, <3>5, <3>7, <3>8, <3>11
    <3>13. k = 0 \/ k < j
      BY <2>2, <2>12, <3>10, <3>11
    <3> QED
      BY <2>12, <3>12, <3>13
  <2> QED
    BY <1>2, <1>8, <2>13, <2>14
<1> QED
  BY <1>10, <1>11, <1>12

\* What is before an address: the objects before the one at or before it, and
\* that one too when it does not hold the address.
Between(c, s, x) ==
  IF Holding(c, x) = {} THEN LinesBetween(c, s, FloorAddr(c, x), x) ELSE 0
LEMMA HolderAt ==
  ASSUME NEW c, CodeIs(c), NEW s, CacheIs(s), NEW x \in Nat
  PROVE  /\ Between(c, s, x) \in Nat
         /\ \E h : /\ Holds(c, h, x)
                  /\ LinesIn(c, s, Below(c, h)) = LinesIn(c, s, Below(c, FloorAddr(c, x))) + Between(c, s, x)
<1>1. PICK L : L = Len(Regions)
  OBVIOUS
<1>2. \A o \in DOMAIN Objects(c) : o \in Nat /\ End(c, o) \in Nat /\ o < End(c, o)
  BY <1>1, ObjectsAre
<1>3. PICK f : f = FloorAddr(c, x)
  OBVIOUS
<1>4. x \in Int
  OBVIOUS
<1>5. /\ f \in Int /\ f <= x
      /\ \A p \in DOMAIN Objects(c) : p < f => End(c, p) <= x
      /\ \A p \in DOMAIN Objects(c) : f <= p => p = f \/ x < p
  BY <1>3, <1>4, FloorIs
<1>6. PICK S : S = Below(c, f)
  OBVIOUS
<1>7. S \in SUBSET DOMAIN Objects(c)
  BY <1>6 DEF Below
<1>8. LinesIn(c, s, S) \in Nat
  BY <1>7, LinesAdd
<1>9. CASE Holding(c, x) # {}
  <2>1. PICK h \in DOMAIN Objects(c) : h <= x /\ x < End(c, h)
    BY <1>9 DEF Holding
  <2>2. h \in Nat /\ End(c, h) \in Nat
    BY <1>2
  <2>3. ~(h < f)
    <3>1. h < f => End(c, h) <= x
      BY <1>5
    <3> QED
      BY <2>1, <2>2, <3>1
  <2>4. f <= h
    BY <1>5, <2>2, <2>3
  <2>5. h = f \/ x < h
    BY <1>5, <2>4
  <2>6. h = f
    BY <2>1, <2>2, <2>5
  <2>7. Holds(c, f, x)
    BY <2>1, <2>6, ObjectHolds
  <2>8. Between(c, s, x) = 0
    BY <1>9 DEF Between
  <2> QED
    BY <1>3, <1>6, <1>8, <2>7, <2>8
<1>10. CASE Holding(c, x) = {}
  <2>1. \A o \in DOMAIN Objects(c) : ~(o <= x /\ x < End(c, o))
    BY <1>10 DEF Holding
  <2>2. Holds(c, x, x)
    <3>1. ASSUME NEW o \in DOMAIN Objects(c) PROVE x < End(c, o) <=> x <= o
      <4>1. o \in Nat /\ End(c, o) \in Nat /\ o < End(c, o) /\ ~(o <= x /\ x < End(c, o))
        BY <1>2, <2>1
      <4> QED
        BY <4>1
    <3> QED
      BY <3>1 DEF Holds
  <2>3. PICK T : T = {o \in DOMAIN Objects(c) : f <= o /\ o < x}
    OBVIOUS
  <2>4. Between(c, s, x) = LinesIn(c, s, T)
    BY <1>3, <1>10, <2>3 DEF Between, LinesBetween, LinesIn
  <2>5. PICK W : W = Below(c, x)
    OBVIOUS
  <2>6. T \in SUBSET DOMAIN Objects(c) /\ S \cap T = {} /\ S \cup T = W
    <3>1. \A o : o \in S <=> o \in DOMAIN Objects(c) /\ o < f
      BY <1>6 DEF Below
    <3>2. \A o : o \in T <=> o \in DOMAIN Objects(c) /\ f <= o /\ o < x
      BY <2>3
    <3>3. \A o : o \in W <=> o \in DOMAIN Objects(c) /\ o < x
      BY <2>5 DEF Below
    <3>4. \A o : o \in W <=> o \in S \/ o \in T
      BY <1>2, <1>5, <3>1, <3>2, <3>3
    <3>5. \A o : ~(o \in S /\ o \in T)
      BY <1>2, <1>5, <3>1, <3>2
    <3> QED
      BY <3>2, <3>4, <3>5
  <2>7. LinesIn(c, s, S \cup T) = LinesIn(c, s, S) + LinesIn(c, s, T)
    BY <1>7, <2>6, LinesUnion
  <2>8. LinesIn(c, s, T) \in Nat
    BY <2>6, LinesAdd
  <2>9. LinesIn(c, s, Below(c, x)) = LinesIn(c, s, Below(c, f)) + Between(c, s, x)
    BY <1>6, <2>4, <2>5, <2>6, <2>7
  <2> QED
    BY <1>3, <2>2, <2>4, <2>8, <2>9
<1> QED
  BY <1>9, <1>10

\* Nothing is before the first byte of all.
LEMMA FirstHolder ==
  ASSUME NEW c, CodeIs(c)
  PROVE  \E h : Holds(c, h, Regions[1].addr) /\ Below(c, h) = {}
<1>1. PICK L : L = Len(Regions) /\ L \in Nat \ {0}
  BY RegionsAre
<1>2. PICK a : a = Regions[1].addr
  OBVIOUS
<1>3. 1 \in 1 .. L
  BY <1>1
<1>4. a \in Nat /\ Regions[1].size \in Nat \ {0}
  BY <1>1, <1>2, <1>3, RegionsAre
<1>7. \A k \in 1 .. L : a <= Regions[k].addr
  <2>1. ASSUME NEW k \in 1 .. L PROVE a <= Regions[k].addr
    <3>1. CASE k = 1
      BY <1>2, <1>4, <3>1
    <3>2. CASE k # 1
      <4>1. 1 < k
        BY <1>1, <3>2
      <4>2. Regions[1].addr + Regions[1].size <= Regions[k].addr
        <5>1. \A i, j \in 1 .. L : i < j => Regions[i].addr + Regions[i].size <= Regions[j].addr
          BY <1>1, RegionsAre
        <5> QED
          BY <1>3, <4>1, <5>1
      <4>3. Regions[k].addr \in Nat
        BY <1>1, RegionsAre
      <4> QED
        BY <1>2, <1>4, <4>2, <4>3
    <3> QED
      BY <3>1, <3>2
  <2> QED
    BY <2>1
<1>8. ASSUME NEW o \in DOMAIN Objects(c) PROVE a <= o /\ a < End(c, o) /\ ~(o < a)
  <2>1. o \in Nat /\ End(c, o) \in Nat /\ o < End(c, o) /\ \E k \in 1 .. L : InRegion(c, o, k)
    BY <1>1, ObjectsAre
  <2>2. PICK k \in 1 .. L : Regions[k].addr <= o
    BY <2>1 DEF InRegion
  <2>3. Regions[k].addr \in Nat /\ a <= Regions[k].addr
    BY <1>1, <1>7, RegionsAre
  <2> QED
    BY <1>4, <2>1, <2>2, <2>3
<1>9. Below(c, a) = {}
  BY <1>8 DEF Below
<1>10. Holds(c, a, a)
  BY <1>4, <1>8 DEF Holds
<1> QED
  BY <1>2, <1>9, <1>10

\* Scrolling paints, from a line below the object at the top or above it.
LEMMA ScrollPaints ==
  ASSUME NEW c, CodeIs(c), NEW s, LinearOK(c, s), NEW offset \in Nat, offset = s.offset, NEW n \in Int, n # 0,
         NEW start \in Int, start = s.start + n, NEW u, u = Scrolled(c, s, n)
  PROVE  /\ LinearOK(c, u) /\ PaintsAs(c, s, u)
         /\ \E w : /\ IsWork(w) /\ ~w.adjust /\ PaintedFrom(c, s, w, u)
                   /\ start >= 0 => w.offset = offset /\ w.start = start /\ w.addr = AddrOf(offset)
                   /\ start < 0 => StartsAbove(c, s, offset, start, w)
<1>1. PICK adjust : adjust = FALSE
  OBVIOUS
<1>2. LinearType(s) /\ CacheIs(s) /\ s.start \in Nat
  BY DEF LinearOK, LinearType
<1>3. u = PrepareObjects(c, s, offset, start, adjust)
  BY <1>1 DEF Scrolled
<1>4. offset = IF offset = NoOffset THEN 0 ELSE offset
  BY DEF NoOffset
<1>5. ~(offset = s.offset /\ start = s.start)
  BY <1>2
<1>6. PICK top : top = TopIn(c, s, offset, start)
  OBVIOUS
<1>7. PICK w : w = WorkOf(top, adjust)
  OBVIOUS
<1>8. LinearOK(c, u) /\ PaintsAs(c, s, u) /\ PaintedFrom(c, s, w, u)
  <2>1. /\ CodeIs(c) /\ LinearType(s) /\ start \in Int /\ (start < 0 => ~adjust) /\ offset \in Nat
        /\ offset = (IF offset = NoOffset THEN 0 ELSE offset) /\ ~(offset = s.offset /\ start = s.start)
        /\ u = PrepareObjects(c, s, offset, start, adjust) /\ w = WorkOf(TopIn(c, s, offset, start), adjust)
    BY <1>1, <1>2, <1>3, <1>4, <1>5, <1>6, <1>7
  <2> QED
    BY <2>1, PreparePaints
<1>9. PICK region : region = RegionFromOffset(offset)
  OBVIOUS
<1>10. /\ CodeIs(c) /\ CacheIs(s) /\ offset \in Nat /\ start \in Int /\ (start < 0 => ~adjust)
       /\ region = RegionFromOffset(offset) /\ top = TopIn(c, s, offset, start) /\ w = WorkOf(top, adjust)
  BY <1>1, <1>2, <1>6, <1>7, <1>9
<1>11. IsWork(w)
  BY <1>10, WorkIs
<1>12. start >= 0 => w.offset = offset /\ w.start = start /\ w.addr = AddrOf(offset)
  BY <1>10, WorkIs
<1>13. start < 0 => StartsAbove(c, s, offset, start, w)
  BY <1>10, WorkIs
<1>14. ~w.adjust
  BY <1>1, <1>7 DEF WorkOf
<1> QED
  BY <1>8, <1>11, <1>12, <1>13, <1>14

\* Scrolled by some lines, the first line is as many away, or as far as it goes.
LEMMA ScrollIs ==
  ASSUME NEW c, CodeIs(c), NEW s, LinearOK(c, s), 0 <= s.offset, NEW n \in Int, n # 0
  PROVE  ScrollsBy(c, s, n)
<1>1. PICK offset \in Nat : offset = s.offset
  BY DEF LinearOK, LinearType
<1>2. LinearType(s) /\ CacheIs(s) /\ s.start \in Nat
  BY DEF LinearOK, LinearType
<1>4. PICK x : x = AddrOf(offset)
  OBVIOUS
<1>6. x \in Nat
  <2>1. PICK L : L = Len(Regions)
    OBVIOUS
  <2>2. PICK r : r = RegionFromOffset(offset)
    OBVIOUS
  <2> QED
    BY <1>4, <2>1, <2>2, OffsetIs
<1>7. PICK f : f = FloorAddr(c, x)
  OBVIOUS
<1>3. PICK F : F = LinesIn(c, s, Below(c, f))
  OBVIOUS
<1>5. PICK h : Holds(c, h, x) /\ LinesIn(c, s, Below(c, h)) = F + Between(c, s, x)
  BY <1>2, <1>3, <1>6, <1>7, HolderAt
<1>24. F \in Nat
  <2>1. Below(c, f) \in SUBSET DOMAIN Objects(c)
    BY DEF Below
  <2> QED
    BY <1>2, <1>3, <2>1, LinesAdd
<1>8. PICK P : P = LinesIn(c, s, Below(c, h))
  OBVIOUS
<1>9. PICK M : M = LinesIn(c, s, DOMAIN Objects(c))
  OBVIOUS
<1>10. Top(c, s) = P + s.start
  <2>1. 0 <= s.offset /\ Holds(c, h, AddrOf(s.offset))
    BY <1>1, <1>4, <1>5
  <2> QED
    BY <1>8, <2>1, TopAt
<1>11. Total(c, s) = M
  BY <1>2, <1>9, TopShown
<1>12. Below(c, h) \in SUBSET DOMAIN Objects(c)
  BY DEF Below
<1>13. P \in Nat
  BY <1>2, <1>8, <1>12, LinesAdd
<1>14. PICK start \in Int : start = s.start + n
  BY <1>2
<1>25. PICK p \in Nat : p = PassedOver(c, s, n) /\ p = IF start < 0 THEN P - F ELSE 0
  <2>1. Between(c, s, x) \in Nat /\ P = F + Between(c, s, x)
    BY <1>2, <1>5, <1>6, <1>8, HolderAt
  <2>2. PassedOver(c, s, n) = IF start < 0 THEN Between(c, s, x) ELSE 0
    BY <1>1, <1>4, <1>14 DEF PassedOver, AddrAtTop, AddrOf, Between
  <2> QED
    BY <1>13, <1>24, <2>1, <2>2
<1>15. PICK u : u = Scrolled(c, s, n)
  OBVIOUS
<1>16. LinearOK(c, u) /\ PaintsAs(c, s, u)
       /\ \E w : /\ IsWork(w) /\ ~w.adjust /\ PaintedFrom(c, s, w, u)
                 /\ start >= 0 => w.offset = offset /\ w.start = start /\ w.addr = AddrOf(offset)
                 /\ start < 0 => StartsAbove(c, s, offset, start, w)
  BY <1>1, <1>14, <1>15, ScrollPaints
<1>17. PICK w : /\ IsWork(w) /\ ~w.adjust /\ PaintedFrom(c, s, w, u)
                /\ start >= 0 => w.offset = offset /\ w.start = start /\ w.addr = AddrOf(offset)
                /\ start < 0 => StartsAbove(c, s, offset, start, w)
  BY <1>16
<1>18. LinearType(u)
  BY <1>16 DEF LinearOK
<1>19. ASSUME NEW k, Holds(c, k, w.addr), NEW Q, Q = LinesIn(c, s, Below(c, k))
       PROVE  /\ Q \in Nat /\ M \in Nat /\ Q <= M
              /\ \/ Top(c, u) = Q + w.start /\ Q + w.start <= M
                 \/ Top(c, u) = M /\ M <= Q + w.start
  BY <1>2, <1>9, <1>16, <1>17, <1>18, <1>19, PaintedTop
<1>20. ASSUME NEW to \in Int, to = P - p + start, NEW end \in Nat, end = M, NEW top, top = Top(c, u),
              top = IF to < 0 THEN 0 ELSE IF to <= end THEN to ELSE end
       PROVE  Top(c, u) = Max({0, Min({Top(c, s) + n - PassedOver(c, s, n), Total(c, s)})})
  <2>1. Top(c, s) + n - PassedOver(c, s, n) = to
    BY <1>2, <1>10, <1>13, <1>14, <1>20, <1>25
  <2>2. PICK least \in Int : least = Min({to, end}) /\ least = IF to <= end THEN to ELSE end
    BY LesserOf
  <2>3. PICK zero \in Int : zero = 0
    OBVIOUS
  <2>4. Max({zero, least}) = IF zero <= least THEN least ELSE zero
    BY GreaterOf
  <2>5. Max({0, least}) = top
    BY <1>20, <2>2, <2>3, <2>4
  <2> QED
    BY <1>11, <1>20, <2>1, <2>2, <2>5
<1>21. w.start \in Nat
  BY <1>17 DEF IsWork
<1>22. CASE start >= 0
  <2>1. w.start = start /\ Holds(c, h, w.addr)
    BY <1>4, <1>5, <1>17, <1>22
  <2>2. /\ M \in Nat /\ P <= M
        /\ \/ Top(c, u) = P + w.start /\ P + w.start <= M
           \/ Top(c, u) = M /\ M <= P + w.start
    BY <1>8, <1>19, <2>1
  <2>3. PICK to, end, top : to \in Int /\ end \in Nat /\ to = P - p + start /\ end = M /\ top = Top(c, u)
    BY <1>13, <2>2
  <2>5. p = 0
    BY <1>22, <1>25
  <2>4. top = IF to < 0 THEN 0 ELSE IF to <= end THEN to ELSE end
    BY <1>13, <1>22, <2>1, <2>2, <2>3, <2>5
  <2> QED
    BY <1>15, <1>20, <2>3, <2>4 DEF ScrollsBy
<1>23. CASE start < 0
  <2>1. PICK B : B = {o \in DOMAIN Objects(c) : o < f}
    OBVIOUS
  <2>2. B = Below(c, f)
    BY <2>1 DEF Below
  <2>3. \/ w.start = 0 /\ w.addr = Regions[1].addr /\ start + F < 0
        \/ /\ w.addr \in B /\ w.start = start + LinesIn(c, s, {o \in B : w.addr <= o})
    BY <1>3, <1>4, <1>7, <1>17, <1>23, <2>1, <2>2 DEF StartsAbove
  <2>6. P - p = F /\ f \in Int
    <3>1. f \in Int
      BY <1>6, <1>7, FloorIs
    <3> QED
      BY <1>13, <1>23, <1>24, <1>25, <3>1
  <2>4. CASE w.start = 0 /\ w.addr = Regions[1].addr /\ start + F < 0
    <3>1. PICK k : Holds(c, k, w.addr) /\ Below(c, k) = {}
      BY <2>4, FirstHolder
    <3>2. PICK Q : Q = LinesIn(c, s, Below(c, k))
      OBVIOUS
    <3>3. Q = 0
      <4>1. PICK S : S = Below(c, k) /\ S = {} /\ S \in SUBSET DOMAIN Objects(c)
        BY <3>1
      <4>2. S = {} => LinesIn(c, s, S) = 0
        BY <1>2, <4>1, LinesAdd
      <4> QED
        BY <3>2, <4>1, <4>2
    <3>4. /\ Q \in Nat /\ M \in Nat /\ Q <= M
          /\ \/ Top(c, u) = Q + w.start /\ Q + w.start <= M
             \/ Top(c, u) = M /\ M <= Q + w.start
      BY <1>19, <3>1, <3>2
    <3>5. PICK to, end, top : to \in Int /\ end \in Nat /\ to = F + start /\ end = M /\ top = Top(c, u)
      BY <1>24, <3>4
    <3>6. top = IF to < 0 THEN 0 ELSE IF to <= end THEN to ELSE end
      BY <1>24, <2>4, <3>3, <3>4, <3>5
    <3> QED
      BY <1>15, <1>20, <2>6, <3>5, <3>6 DEF ScrollsBy
  <2>5. CASE w.addr \in B /\ w.start = start + LinesIn(c, s, {o \in B : w.addr <= o})
    <3>1. PICK k : k = w.addr
      OBVIOUS
    <3>2. k \in DOMAIN Objects(c) /\ k < f /\ k \in Nat /\ End(c, k) \in Nat /\ k < End(c, k)
      <4>1. PICK L : L = Len(Regions)
        OBVIOUS
      <4>2. k \in DOMAIN Objects(c) /\ k < f
        BY <2>1, <2>5, <3>1
      <4> QED
        BY <4>1, <4>2, ObjectsAre
    <3>3. Holds(c, k, w.addr)
      BY <3>1, <3>2, ObjectHolds
    <3>4. PICK Q : Q = LinesIn(c, s, Below(c, k))
      OBVIOUS
    <3>5. /\ Q \in Nat /\ M \in Nat /\ Q <= M
          /\ \/ Top(c, u) = Q + w.start /\ Q + w.start <= M
             \/ Top(c, u) = M /\ M <= Q + w.start
      BY <1>19, <3>3, <3>4
    <3>6. PICK T : T = {o \in B : k <= o}
      OBVIOUS
    <3>7. PICK S : S = Below(c, k)
      OBVIOUS
    <3>8. \A o \in DOMAIN Objects(c) : o \in Nat
      <4>1. PICK L : L = Len(Regions)
        OBVIOUS
      <4> QED
        BY <4>1, ObjectsAre
    <3>9. S \in SUBSET DOMAIN Objects(c) /\ T \in SUBSET DOMAIN Objects(c) /\ S \cap T = {} /\ S \cup T = B
      <4>1. \A o : o \in S <=> o \in DOMAIN Objects(c) /\ o < k
        BY <3>7 DEF Below
      <4>2. \A o : o \in T <=> o \in DOMAIN Objects(c) /\ o < f /\ k <= o
        BY <2>1, <3>6
      <4>3. \A o : o \in B <=> o \in DOMAIN Objects(c) /\ o < f
        BY <2>1
      <4>4. \A o : o \in B <=> o \in S \/ o \in T
        BY <2>6, <3>2, <3>8, <4>1, <4>2, <4>3
      <4>5. \A o : ~(o \in S /\ o \in T)
        BY <3>2, <3>8, <4>1, <4>2
      <4> QED
        BY <4>1, <4>2, <4>4, <4>5
    <3>10. LinesIn(c, s, S \cup T) = LinesIn(c, s, S) + LinesIn(c, s, T)
      BY <1>2, <3>9, LinesUnion
    <3>11. LinesIn(c, s, T) \in Nat
      BY <1>2, <3>9, LinesAdd
    <3>12. F = Q + LinesIn(c, s, T) /\ w.start = start + LinesIn(c, s, T)
      BY <1>3, <2>2, <2>5, <3>1, <3>4, <3>6, <3>7, <3>9, <3>10
    <3>13. F + start = Q + w.start
      BY <1>24, <1>21, <3>5, <3>11, <3>12
    <3>14. PICK to, end, top : to \in Int /\ end \in Nat /\ to = F + start /\ end = M /\ top = Top(c, u)
      BY <1>24, <3>5
    <3>15. top = IF to < 0 THEN 0 ELSE IF to <= end THEN to ELSE end
      BY <1>21, <3>5, <3>13, <3>14
    <3> QED
      BY <1>15, <1>20, <2>6, <3>14, <3>15 DEF ScrollsBy
  <2> QED
    BY <2>3, <2>4, <2>5
<1> QED
  BY <1>22, <1>23

-----------------------------------------------------------------------------
(***************************************************************************)
(* The view: what is selected, and which function the graph has.           *)
(***************************************************************************)
\* Addresses, functions and kinds of the code.
LEMMA HoldingIs ==
  ASSUME NEW c, CodeIs(c), NEW a, KindAt(c, a) # "none", NEW item, item = ItemAt(c, a)
  PROVE  /\ item \in DOMAIN Objects(c) /\ item \in Nat /\ item <= a /\ a < End(c, item)
         /\ KindAt(c, a) = Objects(c)[item].kind
<1>1. Holding(c, a) # {} /\ KindAt(c, a) = Objects(c)[item].kind
  BY DEF KindAt
<1>2. item \in Holding(c, a)
  BY <1>1 DEF ItemAt
<1>3. PICK L : L = Len(Regions)
  OBVIOUS
<1>4. item \in DOMAIN Objects(c) /\ item <= a /\ a < End(c, item)
  BY <1>2 DEF Holding
<1>5. item \in Nat
  BY <1>3, <1>4, ObjectsAre
<1> QED
  BY <1>1, <1>4, <1>5

LEMMA FuncsAre ==
  ASSUME NEW c, CodeIs(c)
  PROVE  /\ \A f \in c.funcs : f \in Addr /\ f \in Nat /\ f # NoFunc
         /\ \A a : LocateFunction(c, a) \in c.funcs \cup {NoFunc}
<1>1. \A f \in c.funcs : f \in Addr /\ f \in Nat /\ f # NoFunc
  <2> SUFFICES ASSUME NEW f \in c.funcs PROVE f \in Addr /\ f \in Nat /\ f # NoFunc
    OBVIOUS
  <2>1. PICK v \in Versions : v = c.cfb
    BY DEF CodeIs
  <2>2. f \in FuncsIn(v)
    BY <2>1 DEF CodeIs
  <2>3. f # NoFunc /\ \E o \in DOMAIN v : f = v[o].func
    BY <2>2 DEF FuncsIn
  <2>4. \A o \in DOMAIN v : v[o].func \in Addr \cup {NoFunc}
    BY DisassemblyAssumption
  <2>5. Addr \subseteq Nat
    BY DisassemblyAssumption
  <2> QED
    BY <2>3, <2>4, <2>5
<1>2. \A a : LocateFunction(c, a) \in c.funcs \cup {NoFunc}
  BY DEF LocateFunction
<1> QED
  BY <1>1, <1>2

\* The view and its viewer.
ViewType(d) ==
  /\ d = [prefer |-> d.prefer, graph |-> d.graph, func |-> d.func, graphFunc |-> d.graphFunc,
          gone |-> d.gone, focus |-> d.focus, insns |-> d.insns, labels |-> d.labels]
  /\ d.func \in Nat \cup {NoFunc} /\ d.graphFunc \in Nat \cup {NoFunc}
  /\ d.insns \subseteq Nat /\ IsFiniteSet(d.insns)
ViewIs(c, s, how) == s = Here(s.d, s.l) /\ ViewType(s.d) /\ LinearIs(c, s.l, how)
\* A step from s to u, of a viewer that paints as it did.
Keeps(c, s, u, how) == ViewIs(c, u, how) /\ PaintsAs(c, s.l, u.l)

LEMMA KeepsOn ==
  ASSUME NEW c, NEW how, NEW s, NEW t, NEW u, Keeps(c, s, t, how), Keeps(c, t, u, how)
  PROVE  Keeps(c, s, u, how)
BY DEF Keeps, PaintsAs

\* Changes of the view alone, and of the viewer alone.
LEMMA ViewKeeps ==
  ASSUME NEW c, NEW how, NEW s, ViewIs(c, s, how), NEW d, ViewType(d), NEW u, u = [s EXCEPT !.d = d]
  PROVE  Keeps(c, s, u, how) /\ u.d = d /\ u.l = s.l
<1>1. s = [d |-> s.d, l |-> s.l]
  BY DEF ViewIs, Here
<1>2. u = [d |-> d, l |-> s.l]
  BY <1>1
<1>3. u.d = d /\ u.l = s.l
  BY <1>2
<1>4. PaintsAs(c, s.l, u.l)
  BY <1>3 DEF PaintsAs
<1> QED
  BY <1>2, <1>3, <1>4 DEF Keeps, ViewIs, Here

LEMMA ViewerKeeps ==
  ASSUME NEW c, CodeIs(c), NEW how, NEW s, ViewIs(c, s, how), NEW l, LinearIs(c, l, how), PaintsAs(c, s.l, l),
         NEW u, u = [s EXCEPT !.l = l]
  PROVE  Keeps(c, s, u, how) /\ u.d = s.d /\ u.l = l
<1>1. s = [d |-> s.d, l |-> s.l]
  BY DEF ViewIs, Here
<1>2. u = [d |-> s.d, l |-> l]
  BY <1>1
<1> QED
  BY <1>2 DEF Keeps, ViewIs, Here

\* What is chosen of a finite set of selected instructions.
LEMMA SelectedIs ==
  ASSUME NEW c, NEW how, NEW s, ViewIs(c, s, how), s.d.insns # {}
  PROVE  Selected(s) \in s.d.insns /\ Selected(s) \in Nat
BY DEF ViewIs, ViewType, Selected

\* Showing an instruction centres the graph or moves the linear viewer.
LEMMA ShowInstructionIs ==
  ASSUME NEW c, CodeIs(c), NEW how, NEW s, ViewIs(c, s, how), NEW a \in Nat, NEW u, u = ShowInstruction(c, s, a)
  PROVE  /\ Keeps(c, s, u, how) /\ u.d = [s.d EXCEPT !.focus = u.d.focus]
         /\ s.d.graph => u.l = s.l /\ (a \in Inside(c, s.d.graphFunc) => u.d.focus = a)
         /\ ~s.d.graph => u.d = s.d /\ u.l = NavigateToAddr(c, s.l, a)
<1>1. ViewType(s.d) /\ LinearIs(c, s.l, how)
  BY DEF ViewIs
<1>2. s.d = [s.d EXCEPT !.focus = s.d.focus]
  BY <1>1 DEF ViewType
<1>3. CASE ~s.d.graph
  <2>1. PICK l : l = NavigateToAddr(c, s.l, a)
    OBVIOUS
  <2>2. a \in Int
    OBVIOUS
  <2>3. LinearIs(c, l, how) /\ PaintsAs(c, s.l, l)
    BY <1>1, <2>1, <2>2, NavigateIs
  <2>4. u = [s EXCEPT !.l = l]
    BY <1>3, <2>1 DEF ShowInstruction
  <2>5. Keeps(c, s, u, how) /\ u.d = s.d /\ u.l = l
    BY <2>3, <2>4, ViewerKeeps
  <2> QED
    BY <1>2, <1>3, <2>1, <2>5
<1>4. CASE s.d.graph /\ a \in Inside(c, s.d.graphFunc)
  <2>1. PICK d : d = [s.d EXCEPT !.focus = a]
    OBVIOUS
  <2>2. ViewType(d) /\ d.focus = a
    BY <1>1, <2>1 DEF ViewType
  <2>3. u = [s EXCEPT !.d = d]
    <3>1. u = [s EXCEPT !.d.focus = a]
      BY <1>4 DEF ShowInstruction
    <3> QED
      BY <2>1, <3>1
  <2>4. Keeps(c, s, u, how) /\ u.d = d /\ u.l = s.l
    BY <2>2, <2>3, ViewKeeps
  <2> QED
    BY <1>4, <2>1, <2>2, <2>4
<1>5. CASE s.d.graph /\ a \notin Inside(c, s.d.graphFunc)
  <2>1. u = s
    BY <1>5 DEF ShowInstruction
  <2>2. Keeps(c, s, u, how)
    BY <2>1 DEF Keeps, PaintsAs
  <2> QED
    BY <1>2, <1>5, <2>1, <2>2
<1> QED
  BY <1>3, <1>4, <1>5

\* What selecting leaves as it was.
SameGraph(d, e) == e.graph = d.graph /\ e.func = d.func /\ e.graphFunc = d.graphFunc
Selects(c, s, a, unique, visible, u, how) ==
  /\ Keeps(c, s, u, how) /\ SameGraph(s.d, u.d) /\ u.d.labels = {}
  /\ a \in s.d.insns => u.d.insns = s.d.insns /\ u.l = s.l
  /\ a \notin s.d.insns =>
       /\ u.d.insns = IF unique THEN {a} ELSE s.d.insns \cup {a}
       /\ ~visible /\ ~s.d.graph => u.l = NavigateToAddr(c, s.l, a)
       /\ ~visible /\ s.d.graph /\ a \in Inside(c, s.d.graphFunc) => u.d.focus = a
  /\ s.d.graph => u.l = s.l
\* Selecting an instruction also shows it, unless the mouse was on it.
LEMMA SelectInstructionIs ==
  ASSUME NEW c, CodeIs(c), NEW how, NEW s, ViewIs(c, s, how), NEW a \in Nat, NEW unique, NEW visible,
         NEW u, u = SelectInstruction(c, s, a, unique, visible)
  PROVE  Selects(c, s, a, unique, visible, u, how)
<1>1. ViewType(s.d) /\ LinearIs(c, s.l, how)
  BY DEF ViewIs
<1>2. CASE a \in s.d.insns
  <2>1. PICK d : d = [s.d EXCEPT !.labels = {}]
    OBVIOUS
  <2>2. ViewType(d) /\ d.insns = s.d.insns /\ d.labels = {} /\ SameGraph(s.d, d)
    BY <1>1, <2>1 DEF ViewType, SameGraph
  <2>3. u = [s EXCEPT !.d = d]
    <3>1. UnselectAllLabels(s) = [s EXCEPT !.d.labels = {}]
      BY DEF UnselectAllLabels
    <3>2. UnselectAllLabels(s) = [s EXCEPT !.d = d]
      BY <2>1, <3>1
    <3>3. UnselectAllLabels(s).d = d
      BY <1>1, <2>2, <3>2, ViewKeeps
    <3> QED
      BY <1>2, <2>2, <3>2, <3>3 DEF SelectInstruction
  <2>4. Keeps(c, s, u, how) /\ u.d = d /\ u.l = s.l
    BY <2>2, <2>3, ViewKeeps
  <2> QED
    BY <1>2, <2>2, <2>4 DEF Selects
<1>3. CASE a \notin s.d.insns
  <2>1. PICK d0 : d0 = [s.d EXCEPT !.labels = {}]
    OBVIOUS
  <2>2. PICK d : d = [d0 EXCEPT !.insns = IF unique THEN {a} ELSE @ \cup {a}]
    OBVIOUS
  <2>3. PICK N : N = IF unique THEN {a} ELSE s.d.insns \cup {a}
    OBVIOUS
  <2>4. N \subseteq Nat /\ IsFiniteSet(N)
    <3>1. IsFiniteSet({a}) /\ IsFiniteSet(s.d.insns)
      BY <1>1, FS_Singleton DEF ViewType
    <3>2. IsFiniteSet(s.d.insns \cup {a})
      BY <3>1, FS_Union
    <3> QED
      BY <1>1, <2>3, <3>1, <3>2 DEF ViewType
  <2>5. ViewType(d0) /\ d0.insns = s.d.insns
    BY <1>1, <2>1 DEF ViewType
  <2>6. d = [d0 EXCEPT !.insns = N]
    BY <2>2, <2>3, <2>5
  <2>7. ViewType(d) /\ d.insns = N
    BY <2>4, <2>5, <2>6 DEF ViewType
  <2>8. SameGraph(s.d, d) /\ d.labels = {}
    BY <1>1, <2>1, <2>6 DEF ViewType, SameGraph
  <2>9. d.graph = s.d.graph /\ d.graphFunc = s.d.graphFunc
    BY <2>8 DEF SameGraph
  <2>10. PICK v0 : v0 = [s EXCEPT !.d = d0]
    OBVIOUS
  <2>11. PICK v : v = [v0 EXCEPT !.d = d]
    OBVIOUS
  <2>12. Keeps(c, s, v0, how) /\ v0.d = d0 /\ v0.l = s.l
    BY <2>5, <2>10, ViewKeeps
  <2>13. ViewIs(c, v0, how)
    BY <2>12 DEF Keeps
  <2>14. Keeps(c, v0, v, how) /\ v.d = d /\ v.l = v0.l
    BY <2>7, <2>11, <2>13, ViewKeeps
  <2>15. u = IF visible THEN v ELSE ShowInstruction(c, v, a)
    <3>1. UnselectAllLabels(s) = v0
      BY <2>1, <2>10 DEF UnselectAllLabels
    <3>2. a \notin v0.d.insns
      BY <1>3, <2>5, <2>12
    <3>3. v = [v0 EXCEPT !.d.insns = IF unique THEN {a} ELSE @ \cup {a}]
      BY <2>2, <2>11, <2>12
    <3> QED
      BY <3>1, <3>2, <3>3 DEF SelectInstruction
  <2>16. Keeps(c, s, v, how) /\ ViewIs(c, v, how) /\ v.l = s.l
    BY <2>12, <2>14, KeepsOn DEF Keeps
  <2>17. CASE visible
    BY <1>3, <2>3, <2>7, <2>8, <2>14, <2>15, <2>16, <2>17 DEF Selects
  <2>18. CASE ~visible
    <3>1. u = ShowInstruction(c, v, a)
      BY <2>15, <2>18
    <3>2. /\ Keeps(c, v, u, how) /\ u.d = [v.d EXCEPT !.focus = u.d.focus]
          /\ v.d.graph => u.l = v.l /\ (a \in Inside(c, v.d.graphFunc) => u.d.focus = a)
          /\ ~v.d.graph => u.d = v.d /\ u.l = NavigateToAddr(c, v.l, a)
      BY <2>16, <3>1, ShowInstructionIs
    <3>3. Keeps(c, s, u, how)
      BY <2>16, <3>2, KeepsOn
    <3>4. u.d.insns = N
      BY <2>7, <2>14, <3>2 DEF ViewType
    <3>5. SameGraph(s.d, u.d) /\ u.d.labels = {}
      BY <2>7, <2>8, <2>14, <3>2 DEF ViewType, SameGraph
    <3> QED
      BY <1>3, <2>3, <2>9, <2>14, <2>16, <2>18, <3>2, <3>3, <3>4, <3>5 DEF Selects
  <2> QED
    BY <2>17, <2>18
<1> QED
  BY <1>2, <1>3

\* A label that is selected is the only thing selected.
LEMMA SelectLabelIs ==
  ASSUME NEW c, NEW how, NEW s, ViewIs(c, s, how), NEW a, NEW u, u = SelectLabel(s, a)
  PROVE  Keeps(c, s, u, how) /\ SameGraph(s.d, u.d) /\ u.d.insns = {} /\ u.d.labels = {a} /\ u.l = s.l
<1>1. ViewType(s.d)
  BY DEF ViewIs
<1>2. PICK d : d = [s.d EXCEPT !.insns = {}, !.labels = {a}]
  OBVIOUS
<1>3. IsFiniteSet({})
  BY FS_EmptySet
<1>4. ViewType(d)
  BY <1>1, <1>2, <1>3 DEF ViewType
<1>5. u = [s EXCEPT !.d = d]
  <2>1. s = [d |-> s.d, l |-> s.l]
    BY DEF ViewIs, Here
  <2>2. u = [s EXCEPT !.d.insns = {}, !.d.labels = {a}]
    BY DEF SelectLabel
  <2>3. u = [d |-> [[s.d EXCEPT !.insns = {}] EXCEPT !.labels = {a}], l |-> s.l]
    BY <2>1, <2>2
  <2>4. [[s.d EXCEPT !.insns = {}] EXCEPT !.labels = {a}] = d
    BY <1>1, <1>2 DEF ViewType
  <2> QED
    BY <2>1, <2>3, <2>4
<1>6. Keeps(c, s, u, how) /\ u.d = d /\ u.l = s.l
  BY <1>4, <1>5, ViewKeeps
<1>7. SameGraph(s.d, d) /\ d.insns = {} /\ d.labels = {a}
  BY <1>1, <1>2 DEF ViewType, SameGraph
<1> QED
  BY <1>6, <1>7

\* Another function in the graph.
LEMMA SetFunctionIs ==
  ASSUME NEW c, CodeIs(c), NEW how, NEW s, ViewIs(c, s, how), NEW f \in Nat \cup {NoFunc},
         NEW u, u = SetFunctionGraph(ClearSelection([s EXCEPT !.d.func = f]), f)
  PROVE  /\ Keeps(c, s, u, how) /\ u.l = s.l
         /\ u.d.func = f /\ u.d.graphFunc = f /\ u.d.insns = {}
         /\ u.d.graph = s.d.graph /\ u.d.labels = s.d.labels
<1>1. ViewType(s.d)
  BY DEF ViewIs
<1>2. PICK d1 : d1 = [s.d EXCEPT !.func = f]
  OBVIOUS
<1>3. PICK d2 : d2 = [d1 EXCEPT !.insns = {}]
  OBVIOUS
<1>4. IsFiniteSet({})
  BY FS_EmptySet
<1>5. ViewType(d1)
  BY <1>1, <1>2 DEF ViewType
<1>6. ViewType(d2)
  BY <1>3, <1>4, <1>5 DEF ViewType
<1>7. PICK v1 : v1 = [s EXCEPT !.d = d1]
  OBVIOUS
<1>8. PICK v2 : v2 = [v1 EXCEPT !.d = d2]
  OBVIOUS
<1>9. Keeps(c, s, v1, how) /\ v1.d = d1 /\ v1.l = s.l
  BY <1>5, <1>7, ViewKeeps
<1>10. Keeps(c, v1, v2, how) /\ v2.d = d2 /\ v2.l = v1.l
  <2>1. ViewIs(c, v1, how)
    BY <1>9 DEF Keeps
  <2> QED
    BY <1>6, <1>8, <2>1, ViewKeeps
<1>11. Keeps(c, s, v2, how) /\ ViewIs(c, v2, how)
  BY <1>9, <1>10, KeepsOn DEF Keeps
<1>12. u = SetFunctionGraph(v2, f)
  <2>1. v1 = [s EXCEPT !.d.func = f]
    BY <1>2, <1>7
  <2>2. v2 = [v1 EXCEPT !.d.insns = {}]
    BY <1>3, <1>8, <1>9
  <2> QED
    BY <2>1, <2>2 DEF ClearSelection
<1>13. d2.func = f /\ d2.insns = {} /\ d2.graph = s.d.graph /\ d2.labels = s.d.labels
  BY <1>1, <1>2, <1>3 DEF ViewType
<1>14. CASE v2.d.graphFunc = f /\ ~v2.d.gone
  <2>1. u = v2
    BY <1>12, <1>14 DEF SetFunctionGraph
  <2> QED
    BY <1>9, <1>10, <1>11, <1>13, <1>14, <2>1
<1>15. CASE ~(v2.d.graphFunc = f /\ ~v2.d.gone)
  <2>1. PICK d3 : d3 = [d2 EXCEPT !.graphFunc = f, !.gone = FALSE, !.focus = f]
    OBVIOUS
  <2>2. ViewType(d3) /\ d3.graphFunc = f
    BY <1>6, <2>1 DEF ViewType
  <2>3. d3.func = f /\ d3.insns = {} /\ d3.graph = s.d.graph /\ d3.labels = s.d.labels
    BY <1>6, <1>13, <2>1 DEF ViewType
  <2>4. u = [v2 EXCEPT !.d = d3]
    <3>1. u = [v2 EXCEPT !.d = [@ EXCEPT !.graphFunc = f, !.gone = FALSE, !.focus = f]]
      BY <1>12, <1>15 DEF SetFunctionGraph
    <3> QED
      BY <1>10, <2>1, <3>1
  <2>5. Keeps(c, v2, u, how) /\ u.d = d3 /\ u.l = v2.l
    BY <1>11, <2>2, <2>4, ViewKeeps
  <2>6. Keeps(c, s, u, how)
    BY <1>11, <2>5, KeepsOn
  <2> QED
    BY <1>9, <1>10, <2>2, <2>3, <2>5, <2>6
<1> QED
  BY <1>14, <1>15

\* It is displayed in the graph or in the linear viewer.
LEMMA DisplayFunctionIs ==
  ASSUME NEW c, CodeIs(c), NEW how, NEW s, ViewIs(c, s, how), NEW f \in Nat \cup {NoFunc},
         NEW u, u = DisplayFunctionOf(c, s, f)
  PROVE  /\ Keeps(c, s, u, how)
         /\ u.d.func = f /\ u.d.graphFunc = f /\ u.d.insns = {}
         /\ u.d.graph = s.d.graph /\ u.d.labels = s.d.labels
         /\ s.d.graph => u.l = s.l
<1>1. PICK t : t = SetFunctionGraph(ClearSelection([s EXCEPT !.d.func = f]), f)
  OBVIOUS
<1>2. /\ Keeps(c, s, t, how) /\ t.l = s.l
      /\ t.d.func = f /\ t.d.graphFunc = f /\ t.d.insns = {}
      /\ t.d.graph = s.d.graph /\ t.d.labels = s.d.labels
  BY <1>1, SetFunctionIs
<1>3. u = IF ~t.d.graph /\ f # NoFunc THEN [t EXCEPT !.l = NavigateToAddr(c, @, f)] ELSE t
  BY <1>1 DEF DisplayFunctionOf
<1>4. CASE ~t.d.graph /\ f # NoFunc
  <2>1. PICK l : l = NavigateToAddr(c, t.l, f)
    OBVIOUS
  <2>2. ViewIs(c, t, how) /\ f \in Int
    BY <1>2, <1>4 DEF Keeps
  <2>3. LinearIs(c, t.l, how)
    BY <2>2 DEF ViewIs
  <2>4. LinearIs(c, l, how) /\ PaintsAs(c, t.l, l)
    BY <2>1, <2>2, <2>3, NavigateIs
  <2>5. u = [t EXCEPT !.l = l]
    BY <1>3, <1>4, <2>1
  <2>6. Keeps(c, t, u, how) /\ u.d = t.d /\ u.l = l
    BY <2>2, <2>4, <2>5, ViewerKeeps
  <2>7. Keeps(c, s, u, how)
    BY <1>2, <2>6, KeepsOn
  <2> QED
    BY <1>2, <1>4, <2>6, <2>7
<1>5. CASE ~(~t.d.graph /\ f # NoFunc)
  BY <1>2, <1>3, <1>5
<1> QED
  BY <1>4, <1>5

\* Leaving one of the two, at the first selected instruction or at the function.
Switched(s, graph, prefer) == [s EXCEPT !.d.graph = graph, !.d.prefer = prefer]
\* Switching alone changes nothing that is selected or painted.
LEMMA SwitchIs ==
  ASSUME NEW c, CodeIs(c), NEW how, NEW s, ViewIs(c, s, how), NEW graph, NEW prefer,
         NEW u, u = Switched(s, graph, prefer)
  PROVE  /\ Keeps(c, s, u, how) /\ u.l = s.l
         /\ u.d.graph = graph /\ u.d.insns = s.d.insns /\ u.d.labels = s.d.labels /\ u.d.func = s.d.func
<1>1. ViewType(s.d)
  BY DEF ViewIs
<1>2. PICK d : d = [s.d EXCEPT !.graph = graph, !.prefer = prefer]
  OBVIOUS
<1>3. ViewType(d)
  BY <1>1, <1>2 DEF ViewType
<1>4. d.graph = graph /\ d.insns = s.d.insns /\ d.labels = s.d.labels /\ d.func = s.d.func
  BY <1>1, <1>2 DEF ViewType
<1>5. u = [s EXCEPT !.d = d]
  <2>1. s = [d |-> s.d, l |-> s.l]
    BY DEF ViewIs, Here
  <2>2. u = [d |-> [[s.d EXCEPT !.graph = graph] EXCEPT !.prefer = prefer], l |-> s.l]
    BY <2>1 DEF Switched
  <2>3. [[s.d EXCEPT !.graph = graph] EXCEPT !.prefer = prefer] = d
    BY <1>1, <1>2 DEF ViewType
  <2> QED
    BY <2>1, <2>2, <2>3
<1>6. Keeps(c, s, u, how) /\ u.d = d /\ u.l = s.l
  BY <1>3, <1>5, ViewKeeps
<1> QED
  BY <1>4, <1>6

\* The linear viewer takes over.
LEMMA LinearViewerIs ==
  ASSUME NEW c, CodeIs(c), NEW how, NEW s, ViewIs(c, s, how), NEW prefer,
         NEW u, u = DisplayLinearViewer(c, s, prefer)
  PROVE  Keeps(c, s, u, how) /\ ~u.d.graph /\ u.d.insns = s.d.insns
<1>1. PICK graph : graph = FALSE
  OBVIOUS
<1>2. PICK prefers : prefers = (s.d.prefer /\ ~prefer)
  OBVIOUS
<1>3. PICK t : t = Switched(s, graph, prefers)
  OBVIOUS
<1>4. /\ Keeps(c, s, t, how) /\ t.l = s.l
      /\ t.d.graph = graph /\ t.d.insns = s.d.insns /\ t.d.labels = s.d.labels /\ t.d.func = s.d.func
  BY <1>3, SwitchIs
<1>5. t = [s EXCEPT !.d.graph = FALSE, !.d.prefer = @ /\ ~prefer]
  <2>1. s = [d |-> s.d, l |-> s.l] /\ ViewType(s.d)
    BY DEF ViewIs, Here
  <2>2. [[s.d EXCEPT !.graph = FALSE] EXCEPT !.prefer = @ /\ ~prefer]
        = [[s.d EXCEPT !.graph = FALSE] EXCEPT !.prefer = s.d.prefer /\ ~prefer]
    BY <2>1 DEF ViewType
  <2> QED
    BY <1>1, <1>2, <1>3, <2>1, <2>2 DEF Switched
<1>6. u = IF s.d.insns # {} THEN ShowInstruction(c, t, Selected(s))
          ELSE IF s.d.func # NoFunc THEN ShowInstruction(c, t, s.d.func) ELSE t
  BY <1>5 DEF DisplayLinearViewer
<1>7. ViewIs(c, t, how) /\ ~t.d.graph
  BY <1>1, <1>4 DEF Keeps
<1>8. ASSUME NEW a \in Nat, u = ShowInstruction(c, t, a)
      PROVE  Keeps(c, s, u, how) /\ ~u.d.graph /\ u.d.insns = s.d.insns
  <2>1. Keeps(c, t, u, how) /\ (~t.d.graph => u.d = t.d)
    <3>1. CodeIs(c) /\ ViewIs(c, t, how) /\ a \in Nat /\ u = ShowInstruction(c, t, a)
      BY <1>7, <1>8
    <3>2. /\ Keeps(c, t, u, how) /\ u.d = [t.d EXCEPT !.focus = u.d.focus]
          /\ t.d.graph => u.l = t.l /\ (a \in Inside(c, t.d.graphFunc) => u.d.focus = a)
          /\ ~t.d.graph => u.d = t.d /\ u.l = NavigateToAddr(c, t.l, a)
      BY <3>1, ShowInstructionIs
    <3> QED
      BY <3>2
  <2>2. Keeps(c, s, u, how)
    BY <1>4, <2>1, KeepsOn
  <2> QED
    BY <1>4, <1>7, <2>1, <2>2
<1>9. CASE s.d.insns # {}
  BY <1>6, <1>8, <1>9, SelectedIs
<1>10. CASE s.d.insns = {} /\ s.d.func # NoFunc
  <2>1. s.d.func \in Nat
    BY <1>10 DEF ViewIs, ViewType
  <2> QED
    BY <1>6, <1>8, <1>10, <2>1
<1>11. CASE s.d.insns = {} /\ s.d.func = NoFunc
  BY <1>4, <1>6, <1>7, <1>11
<1> QED
  BY <1>9, <1>10, <1>11

-----------------------------------------------------------------------------
(***************************************************************************)
(* Jumps, in the viewer that is shown and after switching to the graph.    *)
(***************************************************************************)
\* A jump that the linear viewer shows, and one that the graph shows.
LinearJump(c, s, a, u, how) ==
  LET item == ItemAt(c, a) IN
  /\ Keeps(c, s, u, how) /\ ~u.d.graph
  /\ KindAt(c, a) = "code" =>
       IF item \in s.d.insns THEN u.d.insns = s.d.insns /\ (~s.d.graph => u.l = s.l)
       ELSE u.d.insns = {item}
  /\ KindAt(c, a) = "data" => u.d.labels = {item} /\ u.d.insns = {}
  /\ KindAt(c, a) \notin {"code", "data"} => u.d.insns = s.d.insns
  /\ how = "whole" /\ KindAt(c, a) # "none" /\ Drawable(c, s.l, item)
     /\ ~(KindAt(c, a) = "code" /\ item \in s.d.insns) => item \in u.l.shown
GraphJump(c, s, a, u, how) ==
  LET f == LocateFunction(c, a)
      item == ItemAt(c, a)
  IN  /\ Keeps(c, s, u, how) /\ u.d.graph /\ KindAt(c, a) = "code"
      /\ u.d.func = f /\ u.d.graphFunc = f /\ u.d.focus = item /\ u.d.insns = {item}

\* What a step navigated to has been shown.
LEMMA WentTo ==
  ASSUME NEW c, CodeIs(c), NEW how, NEW s, ViewIs(c, s, how), NEW a \in Nat,
         NEW u, u = [s EXCEPT !.l = NavigateToAddr(c, @, a)]
  PROVE  /\ Keeps(c, s, u, how) /\ u.d = s.d
         /\ u.l = NavigateToAddr(c, s.l, a)
<1>1. PICK l : l = NavigateToAddr(c, s.l, a)
  OBVIOUS
<1>2. LinearIs(c, s.l, how) /\ a \in Int
  BY DEF ViewIs
<1>3. LinearIs(c, l, how) /\ PaintsAs(c, s.l, l)
  BY <1>1, <1>2, NavigateIs
<1>4. u = [s EXCEPT !.l = l]
  BY <1>1
<1> QED
  BY <1>1, <1>3, <1>4, ViewerKeeps

LEMMA ShownThere ==
  ASSUME NEW c, CodeIs(c), NEW l, LinearIs(c, l, "whole"), NEW a, KindAt(c, a) # "none",
         NEW item, item = ItemAt(c, a), Drawable(c, l, item),
         NEW to \in Nat, to = a \/ to = item, NEW u, u = NavigateToAddr(c, l, to)
  PROVE  item \in u.shown
<1>1. item \in DOMAIN Objects(c) /\ item \in Nat /\ item <= a /\ a < End(c, item)
  BY HoldingIs
<1>2. item <= to /\ to < End(c, item)
  <2>1. PICK L : L = Len(Regions)
    OBVIOUS
  <2>2. item < End(c, item)
    BY <1>1, <2>1, ObjectsAre
  <2> QED
    BY <1>1, <2>2
<1>3. LinearOK(c, l)
  BY DEF LinearIs, LinearOK
<1> QED
  BY <1>1, <1>2, <1>3, NavigateShows

\* A jump within the linear viewer.
LEMMA JumpInLinearIs ==
  ASSUME NEW c, CodeIs(c), NEW how, NEW s, ViewIs(c, s, how), ~s.d.graph, NEW a \in Nat,
         NEW u, u = JumpInLinear(c, s, a)
  PROVE  LinearJump(c, s, a, u, how)
<1>1. PICK item : item = ItemAt(c, a)
  OBVIOUS
<1>2. ViewType(s.d) /\ LinearIs(c, s.l, how)
  BY DEF ViewIs
<1>3. CASE KindAt(c, a) = "code"
  <2>1. PICK unique : unique = TRUE
    OBVIOUS
  <2>2. PICK visible : visible = FALSE
    OBVIOUS
  <2>3. item \in Nat
    BY <1>1, <1>3, HoldingIs
  <2>4. u = SelectInstruction(c, s, item, unique, visible)
    BY <1>1, <1>3, <2>1, <2>2 DEF JumpInLinear
  <2>5. CodeIs(c) /\ ViewIs(c, s, how) /\ item \in Nat /\ u = SelectInstruction(c, s, item, unique, visible)
    BY <2>3, <2>4
  <2>6. Selects(c, s, item, unique, visible, u, how)
    BY <2>5, SelectInstructionIs
  <2>7. ~u.d.graph
    BY <2>6 DEF Selects, SameGraph
  <2>8. ASSUME how = "whole", Drawable(c, s.l, item), item \notin s.d.insns PROVE item \in u.l.shown
    <3>1. u.l = NavigateToAddr(c, s.l, item)
      BY <2>2, <2>6, <2>8 DEF Selects
    <3>2. LinearIs(c, s.l, "whole")
      BY <1>2, <2>8
    <3>3. KindAt(c, a) # "none"
      BY <1>3
    <3> QED
      BY <1>1, <2>3, <2>8, <3>1, <3>2, <3>3, ShownThere
  <2> QED
    BY <1>1, <1>3, <2>1, <2>6, <2>7, <2>8 DEF LinearJump, Selects
<1>4. ASSUME NEW t, Keeps(c, s, t, how), t.d.graph = s.d.graph, t.l = s.l, u = [t EXCEPT !.l = NavigateToAddr(c, @, a)]
      PROVE  /\ Keeps(c, s, u, how) /\ u.d = t.d /\ ~u.d.graph
             /\ how = "whole" /\ KindAt(c, a) # "none" /\ Drawable(c, s.l, item) => item \in u.l.shown
  <2>1. ViewIs(c, t, how)
    BY <1>4 DEF Keeps
  <2>2. Keeps(c, t, u, how) /\ u.d = t.d /\ u.l = NavigateToAddr(c, t.l, a)
    BY <1>4, <2>1, WentTo
  <2>3. Keeps(c, s, u, how)
    BY <1>4, <2>2, KeepsOn
  <2>4. ASSUME how = "whole", KindAt(c, a) # "none", Drawable(c, s.l, item) PROVE item \in u.l.shown
    <3>1. LinearIs(c, s.l, "whole") /\ u.l = NavigateToAddr(c, s.l, a)
      BY <1>2, <1>4, <2>2, <2>4
    <3> QED
      BY <1>1, <2>4, <3>1, ShownThere
  <2> QED
    BY <1>4, <2>2, <2>3, <2>4
<1>5. CASE KindAt(c, a) = "data"
  <2>1. PICK t : t = SelectLabel(s, item)
    OBVIOUS
  <2>2. Keeps(c, s, t, how) /\ SameGraph(s.d, t.d) /\ t.d.insns = {} /\ t.d.labels = {item} /\ t.l = s.l
    BY <2>1, SelectLabelIs
  <2>3. t.d.graph = s.d.graph
    BY <2>2 DEF SameGraph
  <2>4. u = [t EXCEPT !.l = NavigateToAddr(c, @, a)]
    BY <1>1, <1>5, <2>1 DEF JumpInLinear
  <2>5. /\ Keeps(c, s, u, how) /\ u.d = t.d /\ ~u.d.graph
        /\ how = "whole" /\ KindAt(c, a) # "none" /\ Drawable(c, s.l, item) => item \in u.l.shown
    BY <1>4, <2>2, <2>3, <2>4
  <2> QED
    BY <1>1, <1>5, <2>2, <2>5 DEF LinearJump
<1>6. CASE KindAt(c, a) \notin {"code", "data"}
  <2>1. u = [s EXCEPT !.l = NavigateToAddr(c, @, a)]
    BY <1>6 DEF JumpInLinear
  <2>2. Keeps(c, s, s, how)
    BY DEF Keeps, PaintsAs
  <2>3. /\ Keeps(c, s, u, how) /\ u.d = s.d /\ ~u.d.graph
        /\ how = "whole" /\ KindAt(c, a) # "none" /\ Drawable(c, s.l, item) => item \in u.l.shown
    BY <1>4, <2>1, <2>2
  <2> QED
    BY <1>1, <1>6, <2>3 DEF LinearJump
<1> QED
  BY <1>3, <1>5, <1>6

InGraph(c, s, a) == s.d.graph /\ LocateFunction(c, a) # NoFunc
\* A jump ends in the graph if it starts there and the target has a function.
LEMMA JumpFromHereIs ==
  ASSUME NEW c, CodeIs(c), NEW how, NEW s, ViewIs(c, s, how), NEW a \in Nat, NEW u, u = JumpFromHere(c, s, a)
  PROVE  IF InGraph(c, s, a) THEN GraphJump(c, s, a, u, how) ELSE LinearJump(c, s, a, u, how)
<1>1. PICK f : f = LocateFunction(c, a)
  OBVIOUS
<1>2. PICK item : item = ItemAt(c, a)
  OBVIOUS
<1>3. CASE InGraph(c, s, a)
  <2>1. s.d.graph /\ f # NoFunc
    BY <1>1, <1>3 DEF InGraph
  <2>2. f \in Nat /\ f \in Nat \cup {NoFunc}
    BY <1>1, <2>1, FuncsAre
  <2>3. KindAt(c, a) = "code" /\ f = Objects(c)[item].func
    BY <1>1, <1>2, <2>1 DEF LocateFunction
  <2>4. item \in DOMAIN Objects(c) /\ item \in Nat /\ Objects(c)[item].kind = "code"
    BY <1>2, <2>3, HoldingIs
  <2>5. item \in Inside(c, f)
    BY <2>3, <2>4 DEF Inside
  <2>6. PICK t : t = DisplayFunctionOf(c, s, f)
    OBVIOUS
  <2>7. /\ Keeps(c, s, t, how)
        /\ t.d.func = f /\ t.d.graphFunc = f /\ t.d.insns = {}
        /\ t.d.graph = s.d.graph /\ t.d.labels = s.d.labels
        /\ s.d.graph => t.l = s.l
    BY <2>2, <2>6, DisplayFunctionIs
  <2>8. PICK unique : unique = TRUE
    OBVIOUS
  <2>9. PICK visible : visible = FALSE
    OBVIOUS
  <2>10. u = SelectInstruction(c, t, item, unique, visible)
    BY <1>1, <1>2, <2>1, <2>6, <2>8, <2>9 DEF JumpFromHere
  <2>11. ViewIs(c, t, how)
    BY <2>7 DEF Keeps
  <2>12. Selects(c, t, item, unique, visible, u, how)
    BY <2>4, <2>10, <2>11, SelectInstructionIs
  <2>13. Keeps(c, t, u, how) /\ u.d.graph = s.d.graph /\ u.d.func = f /\ u.d.graphFunc = f
         /\ u.d.insns = {item} /\ u.d.focus = item
    BY <2>1, <2>5, <2>7, <2>8, <2>9, <2>12 DEF Selects, SameGraph
  <2>14. Keeps(c, s, u, how)
    BY <2>7, <2>13, KeepsOn
  <2> QED
    BY <1>1, <1>2, <1>3, <2>1, <2>3, <2>13, <2>14 DEF GraphJump
<1>4. CASE ~InGraph(c, s, a)
  <2>1. ~(s.d.graph /\ f # NoFunc)
    BY <1>1, <1>4 DEF InGraph
  <2>2. PICK prefer : prefer = FALSE
    OBVIOUS
  <2>3. PICK t : t = IF s.d.graph THEN DisplayLinearViewer(c, s, prefer) ELSE s
    OBVIOUS
  <2>4. u = JumpInLinear(c, t, a)
    <3>1. u = With(t, LAMBDA x : JumpInLinear(c, x, a))
      BY <1>1, <2>1, <2>2, <2>3 DEF JumpFromHere
    <3>2. u = CHOOSE r \in {JumpInLinear(c, x, a) : x \in {t}} : TRUE
      BY <3>1 DEF With
    <3> QED
      BY <3>2
  <2>5. Keeps(c, s, t, how) /\ ~t.d.graph /\ t.d.insns = s.d.insns
    <3>1. CASE s.d.graph
      BY <2>3, <3>1, LinearViewerIs
    <3>2. CASE ~s.d.graph
      BY <2>3, <3>2 DEF Keeps, PaintsAs
    <3> QED
      BY <3>1, <3>2
  <2>6. ViewIs(c, t, how)
    BY <2>5 DEF Keeps
  <2>7. LinearJump(c, t, a, u, how)
    BY <2>4, <2>5, <2>6, JumpInLinearIs
  <2>8. ~s.d.graph => t.l = s.l
    BY <2>3
  <2>9. Keeps(c, s, u, how)
    BY <2>5, <2>7, KeepsOn DEF LinearJump
  <2>10. Drawable(c, s.l, item) <=> Drawable(c, t.l, item)
    BY <2>5 DEF Keeps, PaintsAs, Drawable
  <2> QED
    BY <1>2, <1>4, <2>5, <2>7, <2>8, <2>9, <2>10 DEF LinearJump
<1> QED
  BY <1>3, <1>4

\* Switching to the graph: t, before what is selected is jumped to.
Switching(c, s, t, u, how) ==
  /\ Keeps(c, s, t, how) /\ t.d.graph /\ t.d.insns = s.d.insns /\ t.l = s.l
  /\ IF s.d.insns = {} THEN Keeps(c, t, u, how) /\ u.d.graph /\ u.d.insns = {} /\ u.l = t.l
     ELSE u = JumpFromHere(c, t, Selected(s))
\* The graph takes over, and shows the selection.
LEMMA DisasmGraphIs ==
  ASSUME NEW c, CodeIs(c), NEW how, NEW s, ViewIs(c, s, how), NEW prefer,
         NEW u, u = DisplayDisasmGraph(c, s, prefer)
  PROVE  \E t : Switching(c, s, t, u, how)
<1>1. PICK graph : graph = TRUE
  OBVIOUS
<1>2. PICK prefers : prefers = (s.d.prefer \/ prefer)
  OBVIOUS
<1>3. PICK t : t = Switched(s, graph, prefers)
  OBVIOUS
<1>4. /\ Keeps(c, s, t, how) /\ t.l = s.l
      /\ t.d.graph = graph /\ t.d.insns = s.d.insns /\ t.d.labels = s.d.labels /\ t.d.func = s.d.func
  BY <1>3, SwitchIs
<1>5. t = [s EXCEPT !.d.graph = TRUE, !.d.prefer = @ \/ prefer]
  <2>1. s = [d |-> s.d, l |-> s.l] /\ ViewType(s.d)
    BY DEF ViewIs, Here
  <2>2. [[s.d EXCEPT !.graph = TRUE] EXCEPT !.prefer = @ \/ prefer]
        = [[s.d EXCEPT !.graph = TRUE] EXCEPT !.prefer = s.d.prefer \/ prefer]
    BY <2>1 DEF ViewType
  <2> QED
    BY <1>1, <1>2, <1>3, <2>1, <2>2 DEF Switched
<1>6. u = IF s.d.insns # {} THEN JumpFromHere(c, t, Selected(s))
          ELSE IF s.d.func # NoFunc THEN ShowInstruction(c, t, s.d.func) ELSE t
  BY <1>5 DEF DisplayDisasmGraph
<1>7. ViewIs(c, t, how) /\ t.d.graph
  BY <1>1, <1>4 DEF Keeps
<1>8. CASE s.d.insns # {}
  BY <1>4, <1>6, <1>7, <1>8 DEF Switching
<1>9. CASE s.d.insns = {} /\ s.d.func # NoFunc
  <2>1. PICK f \in Nat : f = s.d.func
    BY <1>9 DEF ViewIs, ViewType
  <2>2. u = ShowInstruction(c, t, f)
    BY <1>6, <1>9, <2>1
  <2>3. /\ Keeps(c, t, u, how) /\ u.d = [t.d EXCEPT !.focus = u.d.focus]
        /\ t.d.graph => u.l = t.l /\ (f \in Inside(c, t.d.graphFunc) => u.d.focus = f)
        /\ ~t.d.graph => u.d = t.d /\ u.l = NavigateToAddr(c, t.l, f)
    BY <1>7, <2>2, ShowInstructionIs
  <2>4. u.d.graph = t.d.graph /\ u.d.insns = t.d.insns
    BY <1>7, <2>3 DEF ViewIs, ViewType
  <2> QED
    BY <1>4, <1>7, <1>9, <2>3, <2>4 DEF Switching
<1>10. CASE s.d.insns = {} /\ s.d.func = NoFunc
  <2>1. u = t /\ Keeps(c, t, t, how)
    BY <1>6, <1>7, <1>10 DEF Keeps, PaintsAs
  <2> QED
    BY <1>4, <1>7, <1>10, <2>1 DEF Switching
<1> QED
  BY <1>8, <1>9, <1>10

\* A jump keeps what belongs together.
LEMMA FromHereKeeps ==
  ASSUME NEW c, CodeIs(c), NEW how, NEW s, ViewIs(c, s, how), NEW a \in Nat, NEW u, u = JumpFromHere(c, s, a)
  PROVE  Keeps(c, s, u, how)
BY JumpFromHereIs DEF GraphJump, LinearJump

\* So does switching to the graph.
LEMMA DisasmGraphKeeps ==
  ASSUME NEW c, CodeIs(c), NEW how, NEW s, ViewIs(c, s, how), NEW prefer,
         NEW u, u = DisplayDisasmGraph(c, s, prefer)
  PROVE  Keeps(c, s, u, how)
<1>0. PICK t : Switching(c, s, t, u, how)
  BY DisasmGraphIs
<1>1. /\ Keeps(c, s, t, how)
      /\ IF s.d.insns = {} THEN Keeps(c, t, u, how) ELSE u = JumpFromHere(c, t, Selected(s))
  BY <1>0 DEF Switching
<1>2. ViewIs(c, t, how)
  BY <1>1 DEF Keeps
<1>3. Keeps(c, t, u, how)
  <2>1. CASE s.d.insns = {}
    BY <1>1, <2>1
  <2>2. CASE s.d.insns # {}
    <3>1. PICK a \in Nat : a = Selected(s)
      BY <2>2, SelectedIs
    <3> QED
      BY <1>1, <1>2, <2>2, <3>1, FromHereKeeps
  <2> QED
    BY <2>1, <2>2
<1> QED
  BY <1>1, <1>3, KeepsOn

\* jump_to_addr from the graph, if graphs are preferred.
Switches(s) == s.d.prefer /\ ~s.d.graph
LEMMA JumpToAddrIs ==
  ASSUME NEW c, CodeIs(c), NEW how, NEW s, ViewIs(c, s, how), NEW a \in Nat, NEW u, u = JumpToAddr(c, s, a)
  PROVE  /\ Keeps(c, s, u, how)
         /\ \E t : /\ Keeps(c, s, t, how) /\ u = JumpFromHere(c, t, a)
                   /\ IF Switches(s) THEN t = DisplayDisasmGraph(c, s, FALSE) ELSE t = s
<1>1. PICK prefer : prefer = FALSE
  OBVIOUS
<1>2. PICK t : t = IF Switches(s) THEN DisplayDisasmGraph(c, s, prefer) ELSE s
  OBVIOUS
<1>3. u = JumpFromHere(c, t, a)
  <2>1. u = With(t, LAMBDA x : JumpFromHere(c, x, a))
    BY <1>1, <1>2 DEF JumpToAddr, Switches
  <2>2. u = CHOOSE r \in {JumpFromHere(c, x, a) : x \in {t}} : TRUE
    BY <2>1 DEF With
  <2> QED
    BY <2>2
<1>4. Keeps(c, s, t, how)
  <2>1. CASE Switches(s)
    BY <1>2, <2>1, DisasmGraphKeeps
  <2>2. CASE ~Switches(s)
    BY <1>2, <2>2 DEF Keeps, PaintsAs
  <2> QED
    BY <2>1, <2>2
<1>5. Keeps(c, s, u, how)
  <2>1. ViewIs(c, t, how)
    BY <1>4 DEF Keeps
  <2>2. Keeps(c, t, u, how)
    BY <1>3, <2>1, FromHereKeeps
  <2> QED
    BY <1>4, <2>2, KeepsOn
<1> QED
  BY <1>1, <1>2, <1>3, <1>4, <1>5

\* Where a jump ends.
JumpShows(c, s, a, t) ==
  LET f == LocateFunction(c, a)
      item == ItemAt(c, a)
  IN  /\ s.d.prefer /\ f # NoFunc /\ (s.d.graph \/ \A x \in s.d.insns : LocateFunction(c, x) # NoFunc) =>
           t.d.graph /\ t.d.func = f /\ t.d.graphFunc = f /\ t.d.focus = item
      /\ KindAt(c, a) = "code" =>
           IF item \in s.d.insns THEN item \in t.d.insns ELSE t.d.insns = {item}
      /\ KindAt(c, a) = "data" => t.d.labels = {item}
      /\ ~t.d.graph /\ KindAt(c, a) # "none" /\ Drawable(c, s.l, item) /\ item \notin s.d.insns =>
           item \in t.l.shown

\* As it does when the view is not switched first.
LEMMA JumpOnceShows ==
  ASSUME NEW c, CodeIs(c), NEW s, ViewIs(c, s, "whole"), NEW a \in Nat,
         NEW u, u = JumpFromHere(c, s, a)
  PROVE  /\ s.d.graph \/ ~s.d.prefer => JumpShows(c, s, a, u)
         /\ s.d.insns = {} /\ s.d.graph => JumpShows(c, s, a, u)
<1>1. PICK how : how = "whole"
  OBVIOUS
<1>2. CASE InGraph(c, s, a)
  <2>1. GraphJump(c, s, a, u, how)
    BY <1>1, <1>2, JumpFromHereIs
  <2>2. KindAt(c, a) # "data"
    BY <2>1 DEF GraphJump
  <2> QED
    BY <2>1, <2>2 DEF GraphJump, JumpShows
<1>3. CASE ~InGraph(c, s, a)
  <2>1. LinearJump(c, s, a, u, how)
    BY <1>1, <1>3, JumpFromHereIs
  <2> QED
    BY <1>1, <1>3, <2>1 DEF LinearJump, JumpShows, InGraph
<1> QED
  BY <1>2, <1>3

\* Addresses of one instruction are in one function.
LEMMA SameItem ==
  ASSUME NEW c, NEW a, NEW b, KindAt(c, a) = "code", KindAt(c, b) = "code", ItemAt(c, a) = ItemAt(c, b)
  PROVE  LocateFunction(c, a) = LocateFunction(c, b)
BY DEF LocateFunction

\* As it does after the switch to the graph, which itself jumps to the selection.
LEMMA JumpTwiceShows ==
  ASSUME NEW c, CodeIs(c), NEW s, ViewIs(c, s, "whole"), NEW a \in Nat, Switches(s),
         NEW t, t = DisplayDisasmGraph(c, s, FALSE), NEW u, u = JumpFromHere(c, t, a)
  PROVE  JumpShows(c, s, a, u)
<1>1. PICK how : how = "whole"
  OBVIOUS
<1>2. PICK prefer : prefer = FALSE
  OBVIOUS
<1>3. PICK f : f = LocateFunction(c, a)
  OBVIOUS
<1>4. PICK item : item = ItemAt(c, a)
  OBVIOUS
<1>5. ViewIs(c, s, how) /\ t = DisplayDisasmGraph(c, s, prefer)
  BY <1>1, <1>2
<1>0. PICK t0 : Switching(c, s, t0, t, how)
  BY <1>5, DisasmGraphIs
<1>6. /\ Keeps(c, s, t0, how) /\ t0.d.graph /\ t0.d.insns = s.d.insns /\ t0.l = s.l
      /\ IF s.d.insns = {} THEN Keeps(c, t0, t, how) /\ t.d.graph /\ t.d.insns = {} /\ t.l = t0.l
         ELSE t = JumpFromHere(c, t0, Selected(s))
  BY <1>0 DEF Switching
<1>7. Keeps(c, s, t, how)
  BY <1>5, DisasmGraphKeeps
<1>8. ViewIs(c, t, how) /\ (Drawable(c, s.l, item) <=> Drawable(c, t.l, item))
  BY <1>7 DEF Keeps, PaintsAs, Drawable
<1>9. IF InGraph(c, t, a) THEN GraphJump(c, t, a, u, how) ELSE LinearJump(c, t, a, u, how)
  BY <1>8, JumpFromHereIs
<1>10. ~s.d.graph
  BY DEF Switches
<1>11. CASE InGraph(c, t, a)
  <2>1. GraphJump(c, t, a, u, how)
    BY <1>9, <1>11
  <2>2. KindAt(c, a) # "data"
    BY <2>1 DEF GraphJump
  <2> QED
    BY <2>1, <2>2 DEF GraphJump, JumpShows
<1>12. CASE ~InGraph(c, t, a) /\ s.d.insns = {}
  <2>1. LinearJump(c, t, a, u, how)
    BY <1>9, <1>12
  <2>2. f = NoFunc /\ t.d.insns = {}
    BY <1>3, <1>6, <1>12 DEF InGraph
  <2> QED
    BY <1>1, <1>3, <1>4, <1>8, <1>12, <2>1, <2>2 DEF LinearJump, JumpShows
<1>13. CASE ~InGraph(c, t, a) /\ s.d.insns # {}
  <2>1. LinearJump(c, t, a, u, how)
    BY <1>9, <1>13
  <2>2. PICK b \in Nat : b = Selected(s) /\ b \in s.d.insns
    BY <1>5, <1>13, SelectedIs
  <2>3. t = JumpFromHere(c, t0, b)
    BY <1>6, <1>13, <2>2
  <2>4. PICK j : j = ItemAt(c, b)
    OBVIOUS
  <2>5. IF InGraph(c, t0, b) THEN GraphJump(c, t0, b, t, how) ELSE LinearJump(c, t0, b, t, how)
    <3>1. ViewIs(c, t0, how)
      BY <1>6 DEF Keeps
    <3> QED
      BY <2>3, <3>1, JumpFromHereIs
  <2>6. CASE InGraph(c, t0, b)
    <3>1. t.d.graph /\ t.d.insns = {j} /\ KindAt(c, b) = "code" /\ LocateFunction(c, b) # NoFunc
      BY <2>4, <2>5, <2>6 DEF GraphJump, InGraph
    <3>2. f = NoFunc
      BY <1>3, <1>13, <3>1 DEF InGraph
    <3>3. KindAt(c, a) = "code" => item \notin t.d.insns
      BY <1>3, <1>4, <2>4, <3>1, <3>2, SameItem
    <3> QED
      BY <1>1, <1>3, <1>4, <1>8, <2>1, <3>2, <3>3 DEF LinearJump, JumpShows
  <2>7. CASE ~InGraph(c, t0, b)
    <3>1. LinearJump(c, t0, b, t, how)
      BY <2>5, <2>7
    <3>2. LocateFunction(c, b) = NoFunc
      BY <1>6, <2>7 DEF InGraph
    <3>3. ~(s.d.graph \/ \A x \in s.d.insns : LocateFunction(c, x) # NoFunc)
      BY <1>10, <2>2, <3>2
    <3>4. ~t.d.graph
      BY <3>1 DEF LinearJump
    <3>5. \/ t.d.insns = s.d.insns \/ t.d.insns = {}
          \/ t.d.insns = {j} /\ KindAt(c, b) = "code" /\ j \notin s.d.insns
      BY <1>6, <2>4, <3>1 DEF LinearJump
    <3>6. ASSUME KindAt(c, a) = "code", item \notin s.d.insns, item \in t.d.insns
          PROVE  u.d.insns = {item} /\ (Drawable(c, s.l, item) => item \in u.l.shown)
      <4>1. t.d.insns = {j} /\ KindAt(c, b) = "code" /\ j \notin s.d.insns /\ item = j
        BY <3>5, <3>6
      <4>2. u.d.insns = t.d.insns /\ u.l = t.l
        BY <1>4, <2>1, <3>4, <3>6 DEF LinearJump
      <4>3. ASSUME Drawable(c, s.l, item) PROVE item \in t.l.shown
        <5>1. Drawable(c, t0.l, j) /\ KindAt(c, b) # "none" /\ j \notin t0.d.insns
          BY <1>6, <4>1, <4>3
        <5> QED
          BY <1>1, <2>4, <3>1, <4>1, <5>1 DEF LinearJump
      <4> QED
        BY <4>1, <4>2, <4>3
    <3>7. ASSUME KindAt(c, a) = "code"
          PROVE  IF item \in s.d.insns THEN item \in u.d.insns ELSE u.d.insns = {item}
      <4>1. IF item \in t.d.insns THEN u.d.insns = t.d.insns ELSE u.d.insns = {item}
        BY <1>4, <2>1, <3>7 DEF LinearJump
      <4> QED
        BY <3>6, <3>7, <4>1
    <3>8. KindAt(c, a) = "data" => u.d.labels = {item}
      BY <1>4, <2>1 DEF LinearJump
    <3>9. ASSUME KindAt(c, a) # "none", Drawable(c, s.l, item), item \notin s.d.insns
          PROVE  item \in u.l.shown
      <4>1. CASE KindAt(c, a) = "code" /\ item \in t.d.insns
        BY <3>6, <3>9, <4>1
      <4>2. CASE ~(KindAt(c, a) = "code" /\ item \in t.d.insns)
        BY <1>1, <1>4, <1>8, <2>1, <3>9, <4>2 DEF LinearJump
      <4> QED
        BY <4>1, <4>2
    <3> QED
      BY <1>3, <1>4, <3>3, <3>7, <3>8, <3>9 DEF JumpShows
  <2> QED
    BY <2>6, <2>7
<1> QED
  BY <1>11, <1>12, <1>13

\* So any jump shows its target.
LEMMA JumpIs ==
  ASSUME NEW c, CodeIs(c), NEW s, ViewIs(c, s, "whole"), NEW a \in Nat, NEW u, u = JumpToAddr(c, s, a)
  PROVE  JumpShows(c, s, a, u)
<1>1. PICK how : how = "whole"
  OBVIOUS
<1>2. PICK t : /\ u = JumpFromHere(c, t, a)
               /\ IF Switches(s) THEN t = DisplayDisasmGraph(c, s, FALSE) ELSE t = s
  <2>1. CodeIs(c) /\ ViewIs(c, s, how) /\ a \in Nat /\ u = JumpToAddr(c, s, a)
    BY <1>1
  <2>2. \E t : /\ Keeps(c, s, t, how) /\ u = JumpFromHere(c, t, a)
               /\ IF Switches(s) THEN t = DisplayDisasmGraph(c, s, FALSE) ELSE t = s
    BY <2>1, JumpToAddrIs
  <2> QED
    BY <2>2
<1>3. CASE Switches(s)
  BY <1>2, <1>3, JumpTwiceShows
<1>4. CASE ~Switches(s)
  <2>1. s.d.graph \/ ~s.d.prefer
    BY <1>4 DEF Switches
  <2> QED
    BY <1>2, <1>4, <2>1, JumpOnceShows
<1> QED
  BY <1>3, <1>4

-----------------------------------------------------------------------------
(***************************************************************************)
(* Code that changes.                                                      *)
(***************************************************************************)
\* Taking up changed code.
LEMMA IfChangedKeeps ==
  ASSUME NEW c, CodeIs(c), NEW how, NEW s, ViewIs(c, s, how), NEW u, u = ReloadIfChanged(c, s)
  PROVE  Keeps(c, s, u, how)
<1>1. PICK f : f = s.d.graphFunc
  OBVIOUS
<1>2. CASE f = NoFunc \/ ~s.d.gone
  <2>1. u = s
    BY <1>1, <1>2 DEF ReloadIfChanged
  <2> QED
    BY <2>1 DEF Keeps, PaintsAs
<1>3. CASE ~(f = NoFunc \/ ~s.d.gone)
  <2>1. f \in Nat /\ f \in Nat \cup {NoFunc}
    BY <1>1, <1>3 DEF ViewIs, ViewType
  <2>2. CASE f \in c.funcs
    <3>1. u = DisplayFunctionOf(c, s, f)
      BY <1>1, <1>3, <2>2 DEF ReloadIfChanged
    <3> QED
      BY <2>1, <3>1, DisplayFunctionIs
  <2>3. CASE f \notin c.funcs
    <3>1. PICK none \in Nat \cup {NoFunc} : none = NoFunc
      OBVIOUS
    <3>2. PICK t : t = DisplayFunctionOf(c, s, none)
      OBVIOUS
    <3>3. u = JumpToAddr(c, t, f)
      BY <1>1, <1>3, <2>3, <3>1, <3>2 DEF ReloadIfChanged
    <3>4. Keeps(c, s, t, how)
      BY <3>2, DisplayFunctionIs
    <3>5. ViewIs(c, t, how)
      BY <3>4 DEF Keeps
    <3>6. Keeps(c, t, u, how)
      BY <2>1, <3>3, <3>5, JumpToAddrIs
    <3> QED
      BY <3>4, <3>6, KeepsOn
  <2> QED
    BY <2>2, <2>3
<1> QED
  BY <1>2, <1>3

\* The linear viewer, reloaded, needs nothing of what it was.
LEMMA ReloadLinearIs ==
  ASSUME NEW c, CodeIs(c), NEW l, LinearType(l), NEW u, u = ReloadLinear(c, l)
  PROVE  LinearIs(c, u, "whole")
<1>1. PICK how : how = "whole"
  OBVIOUS
<1>2. PICK k : k = [l EXCEPT !.offset = NoOffset, !.start = 0]
  OBVIOUS
<1>3. k = [offset |-> NoOffset, start |-> 0, shown |-> l.shown, cache |-> l.cache]
  BY <1>2 DEF LinearType
<1>4. k.offset = NoOffset /\ k.start = 0 /\ k.shown = l.shown /\ k.cache = l.cache
  BY <1>3
<1>5. LinearType(k)
  BY <1>3, <1>4 DEF LinearType, CacheIs, NoOffset
<1>6. ShownFirst(c, k)
  BY <1>4 DEF ShownFirst, NoOffset
<1>7. LinearIs(c, k, how)
  BY <1>5, <1>6 DEF LinearIs
<1>8. PICK at \in Int : at = l.offset
  BY DEF LinearType
<1>9. PICK start \in Int : start = 0
  OBVIOUS
<1>10. PICK adjust : adjust = FALSE
  OBVIOUS
<1>11. u = PrepareObjects(c, k, at, start, adjust)
  BY <1>2, <1>8, <1>9, <1>10 DEF ReloadLinear
<1>12. start < 0 => ~adjust
  BY <1>9
<1> QED
  BY <1>1, <1>7, <1>11, <1>12, PrepareKeeps

\* Every instruction that was selected is selected again.
Reselect(c, t, a) == SelectInstruction(c, t, a, FALSE, FALSE)
SelectedAgain(c, s, S) == FoldSet(LAMBDA a, t : SelectInstruction(c, t, a, FALSE, FALSE), s, S)

\* Selecting the instructions of a set one after the other.
LEMMA SelectFold ==
  ASSUME NEW c, NEW s, NEW S, IsFiniteSet(S), NEW fold, fold.of = "select", fold.c = c
  PROVE  Picks(fold, S) /\ \E h : IsFold(fold, s, S, h) /\ SelectedAgain(c, s, S) = h[S]
<1>2. /\ \A x, v : FoldStep(fold, x, v) = Reselect(c, v, x)
      /\ \A t : Picked(fold, t) = CHOOSE x \in t : TRUE
      /\ Picks(fold, S)
  BY DEF Picks, Picked, FoldStep, Reselect
<1> DEFINE Def(h) == h = [t \in SUBSET S |-> IF t = {} THEN s
                                             ELSE Reselect(c, h[t \ {CHOOSE x \in t : TRUE}], CHOOSE x \in t : TRUE)]
<1>3. PICK h : IsFold(fold, s, S, h)
  BY <1>2, FoldExists
<1>4. ASSUME NEW g PROVE Def(g) <=> IsFold(fold, s, S, g)
  <2>1. ASSUME NEW t \in SUBSET S
        PROVE  (IF t = {} THEN s ELSE Reselect(c, g[t \ {CHOOSE x \in t : TRUE}], CHOOSE x \in t : TRUE))
               = (IF t = {} THEN s ELSE FoldStep(fold, Picked(fold, t), g[t \ {Picked(fold, t)}]))
    BY <1>2, Zenon
  <2>2. [t \in SUBSET S |-> IF t = {} THEN s
                            ELSE Reselect(c, g[t \ {CHOOSE x \in t : TRUE}], CHOOSE x \in t : TRUE)]
        = [t \in SUBSET S |-> IF t = {} THEN s ELSE FoldStep(fold, Picked(fold, t), g[t \ {Picked(fold, t)}])]
    BY <2>1
  <2> QED
    BY <2>2 DEF IsFold
<1>5. PICK f : f = CHOOSE g : Def(g)
  OBVIOUS
<1>6. IsFold(fold, s, S, f)
  BY <1>3, <1>4, <1>5
<1>7. SelectedAgain(c, s, S) = f[S]
  BY <1>5 DEF SelectedAgain, FoldSet, MapThenFoldSet, Reselect
<1> QED
  BY <1>2, <1>6, <1>7

\* It keeps what belongs together.
LEMMA SelectedAgainKeeps ==
  ASSUME NEW c, CodeIs(c), NEW how, NEW s, ViewIs(c, s, how), NEW S \in SUBSET Nat, IsFiniteSet(S),
         NEW u, u = SelectedAgain(c, s, S)
  PROVE  Keeps(c, s, u, how)
<1>1. PICK fold : fold = [of |-> "select", c |-> c]
  OBVIOUS
<1>2. fold.of = "select" /\ fold.c = c
  BY <1>1
<1>3. Picks(fold, S) /\ \E h : IsFold(fold, s, S, h) /\ SelectedAgain(c, s, S) = h[S]
  BY <1>2, SelectFold
<1>4. PICK h : IsFold(fold, s, S, h) /\ u = h[S]
  BY <1>3
<1>5. PICK Good : Good = {T \in SUBSET S : Keeps(c, s, h[T], how)}
  OBVIOUS
<1>6. h[{}] = s
  BY <1>4 DEF IsFold
<1>7. {} \in Good
  BY <1>5, <1>6 DEF Keeps, PaintsAs
<1>8. ASSUME NEW T \in SUBSET S, T # {}, T \ {Picked(fold, T)} \in Good
      PROVE  T \in Good
  <2>1. PICK x \in T : x = Picked(fold, T)
    BY <1>3, <1>8 DEF Picks
  <2>2. PICK V : V = T \ {x}
    OBVIOUS
  <2>3. PICK v : v = h[V]
    OBVIOUS
  <2>4. Keeps(c, s, v, how)
    BY <1>5, <1>8, <2>1, <2>2, <2>3
  <2>5. h[T] = FoldStep(fold, x, v)
    BY <1>4, <1>8, <2>1, <2>2, <2>3 DEF IsFold
  <2>6. PICK no : no = FALSE
    OBVIOUS
  <2>7. h[T] = SelectInstruction(c, v, x, no, no)
    BY <1>2, <2>5, <2>6 DEF FoldStep
  <2>8. ViewIs(c, v, how) /\ x \in Nat
    BY <2>4 DEF Keeps
  <2>9. PICK w : w = h[T]
    OBVIOUS
  <2>10. Selects(c, v, x, no, no, w, how)
    BY <2>7, <2>8, <2>9, SelectInstructionIs
  <2>11. Keeps(c, s, w, how)
    BY <2>4, <2>10, KeepsOn DEF Selects
  <2> QED
    BY <1>5, <2>9, <2>11
<1>9. S \in Good
  BY <1>3, <1>7, <1>8, FoldInduction
<1> QED
  BY <1>4, <1>5, <1>9

\* So does reloading the graph.
LEMMA ReloadGraphKeeps ==
  ASSUME NEW c, CodeIs(c), NEW how, NEW s, ViewIs(c, s, how), NEW S \in SUBSET Nat, IsFiniteSet(S),
         NEW u, u = ReloadGraph(c, s, S)
  PROVE  Keeps(c, s, u, how)
<1>1. CASE s.d.graphFunc = NoFunc
  BY <1>1 DEF ReloadGraph, Keeps, PaintsAs
<1>2. CASE s.d.graphFunc # NoFunc
  <2>1. PICK d : d = [s.d EXCEPT !.focus = s.d.graphFunc]
    OBVIOUS
  <2>2. ViewType(d)
    BY <2>1 DEF ViewIs, ViewType
  <2>3. PICK t : t = [s EXCEPT !.d = d]
    OBVIOUS
  <2>4. Keeps(c, s, t, how)
    BY <2>2, <2>3, ViewKeeps
  <2>5. t = [s EXCEPT !.d.focus = s.d.graphFunc]
    BY <2>1, <2>3
  <2>6. u = SelectedAgain(c, t, S)
    BY <1>2, <2>5 DEF ReloadGraph, SelectedAgain
  <2>7. ViewIs(c, t, how)
    BY <2>4 DEF Keeps
  <2>8. Keeps(c, t, u, how)
    BY <2>6, <2>7, SelectedAgainKeeps
  <2> QED
    BY <2>4, <2>8, KeepsOn
<1> QED
  BY <1>1, <1>2

\* After reloading the viewer fits the code, whatever the code was before.
LEMMA Reloaded ==
  ASSUME NEW c, CodeIs(c), NEW how, NEW s, ViewIs(c, s, how), NEW u, u = [s EXCEPT !.l = ReloadLinear(c, @)]
  PROVE  ViewIs(c, u, "whole")
<1>1. PICK l : l = ReloadLinear(c, s.l)
  OBVIOUS
<1>2. LinearType(s.l) /\ ViewType(s.d) /\ s = [d |-> s.d, l |-> s.l]
  BY DEF ViewIs, LinearIs, Here
<1>3. LinearIs(c, l, "whole")
  BY <1>1, <1>2, ReloadLinearIs
<1>4. u = [d |-> s.d, l |-> l]
  BY <1>1, <1>2
<1> QED
  BY <1>2, <1>3, <1>4 DEF ViewIs, Here

\* A new CFG leaves a viewer that fits it.
LEMMA CfbEventIs ==
  ASSUME NEW c, CodeIs(c), NEW how, NEW s, ViewIs(c, s, how), NEW u, u = CfbEvent(c, s)
  PROVE  ViewIs(c, u, "whole")
<1>1. PICK t : t = ReloadIfChanged(c, s)
  OBVIOUS
<1>2. u = [t EXCEPT !.l = ReloadLinear(c, @)]
  <2>1. u = CHOOSE r \in {[x EXCEPT !.l = ReloadLinear(c, @)] : x \in {t}} : TRUE
    BY <1>1 DEF CfbEvent, With
  <2> QED
    BY <2>1
<1>3. Keeps(c, s, t, how)
  BY <1>1, IfChangedKeeps
<1>4. ViewIs(c, t, how)
  BY <1>3 DEF Keeps
<1> QED
  BY <1>2, <1>4, Reloaded

ReloadedAs(c, t, S) == IF t.d.graph THEN ReloadGraph(c, t, S) ELSE [t EXCEPT !.l = ReloadLinear(c, @)]
\* So does reloading the view.
LEMMA ReloadViewIs ==
  ASSUME NEW c, CodeIs(c), NEW s, ViewIs(c, s, "whole"), NEW u, u = ReloadView(c, s)
  PROVE  ViewIs(c, u, "whole")
<1>1. PICK how : how = "whole"
  OBVIOUS
<1>2. PICK S : S = s.d.insns /\ S \in SUBSET Nat /\ IsFiniteSet(S)
  BY DEF ViewIs, ViewType
<1>3. PICK d : d = [s.d EXCEPT !.insns = {}]
  OBVIOUS
<1>4. ViewType(d)
  BY <1>3, FS_EmptySet DEF ViewIs, ViewType
<1>5. PICK s0 : s0 = [s EXCEPT !.d = d]
  OBVIOUS
<1>6. Keeps(c, s, s0, how)
  BY <1>1, <1>4, <1>5, ViewKeeps
<1>7. PICK t : t = ReloadIfChanged(c, s0)
  OBVIOUS
<1>8. u = ReloadedAs(c, t, S)
  <2>1. s0 = [s EXCEPT !.d.insns = {}]
    BY <1>3, <1>5
  <2>2. u = CHOOSE r \in {ReloadedAs(c, x, s.d.insns) : x \in {t}} : TRUE
    BY <1>7, <2>1 DEF ReloadView, With, ReloadedAs
  <2> QED
    BY <1>2, <2>2
<1>9. ViewIs(c, s0, how)
  BY <1>6 DEF Keeps
<1>10. Keeps(c, s0, t, how)
  BY <1>7, <1>9, IfChangedKeeps
<1>11. ViewIs(c, t, how)
  BY <1>10 DEF Keeps
<1>12. CASE t.d.graph
  <2>1. u = ReloadGraph(c, t, S)
    BY <1>8, <1>12 DEF ReloadedAs
  <2>2. Keeps(c, t, u, how)
    BY <1>2, <1>11, <2>1, ReloadGraphKeeps
  <2> QED
    BY <1>1, <2>2 DEF Keeps
<1>13. CASE ~t.d.graph
  <2>1. u = [t EXCEPT !.l = ReloadLinear(c, @)]
    BY <1>8, <1>13 DEF ReloadedAs
  <2> QED
    BY <1>11, <2>1, Reloaded
<1> QED
  BY <1>12, <1>13

\* What an undefined function leaves behind is what was shown.
LEMMA UndefinedKeeps ==
  ASSUME NEW c, CodeIs(c), NEW l, LinearIs(c, l, "whole"), NEW k, k.cfb = c.cfb, k.funcs \subseteq c.funcs
  PROVE  CodeIs(k) /\ LinearIs(k, l, "whole")
<1>1. CodeIs(k)
  BY DEF CodeIs
<1>2. LinearType(l) /\ ShownFirst(c, l) /\ CacheIs(l) /\ l.shown \subseteq DOMAIN l.cache
  BY DEF LinearIs, LinearType
<1>3. ASSUME NEW x PROVE Drawable(k, l, x) => Drawable(c, l, x)
  <2>1. CASE x \in DOMAIN l.cache
    BY <2>1 DEF Drawable, ObjToPaintable
  <2>2. CASE x \notin DOMAIN l.cache
    <3>1. PICK o : o = Objects(c)[x] /\ o = Objects(k)[x]
      BY DEF Objects
    <3>2. ASSUME ~Drawable(c, l, x) PROVE ~Drawable(k, l, x)
      <4>1. CASE o.kind = "code" /\ o.func \notin c.funcs
        BY <2>2, <3>1, <4>1 DEF Drawable, ObjToPaintable, NotPaintable
      <4>2. CASE ~(o.kind = "code" /\ o.func \notin c.funcs)
        <5>1. o.kind = "none"
          BY <2>2, <3>1, <3>2, <4>2 DEF Drawable, ObjToPaintable
        <5> QED
          BY <2>2, <3>1, <5>1 DEF Drawable, ObjToPaintable
      <4> QED
        BY <4>1, <4>2
    <3> QED
      BY <3>2
  <2> QED
    BY <2>1, <2>2
<1>4. ASSUME NEW x \in l.shown PROVE Drawable(k, l, x) /\ LinesOf(k, l, x) = LinesOf(c, l, x)
  <2>1. x \in DOMAIN l.cache
    BY <1>2
  <2>2. ObjToPaintable(k, l, x) = l.cache[x] /\ ObjToPaintable(c, l, x) = l.cache[x]
    BY <2>1 DEF ObjToPaintable
  <2> QED
    BY <1>2, <2>1, <2>2 DEF Drawable, LinesOf, CacheIs
<1>5. ShownFirst(k, l)
  <2> SUFFICES ASSUME 0 <= l.offset
               PROVE  LET A == Ahead(k, l, AddrOf(l.offset)) IN
                      \/ A = {} /\ l.shown = {} /\ l.start = 0
                      \/ \E m : Leads(k, l, A, m) /\ \A o \in A : m <= o
    BY DEF ShownFirst
  <2>1. PICK A : A = Ahead(c, l, AddrOf(l.offset))
    OBVIOUS
  <2>2. PICK B : B = Ahead(k, l, AddrOf(l.offset))
    OBVIOUS
  <2>3. B \subseteq A
    BY <1>3, <2>1, <2>2 DEF Ahead, Objects, End
  <2>4. \/ A = {} /\ l.shown = {} /\ l.start = 0
        \/ \E m : Leads(c, l, A, m) /\ \A o \in A : m <= o
    BY <1>2, <2>1 DEF ShownFirst
  <2>5. CASE A = {} /\ l.shown = {} /\ l.start = 0
    BY <2>2, <2>3, <2>5
  <2>6. CASE \E m : Leads(c, l, A, m) /\ \A o \in A : m <= o
    <3>1. PICK m : Leads(c, l, A, m) /\ \A o \in A : m <= o
      BY <2>6
    <3>2. m \in A /\ m \in l.shown
      BY <3>1 DEF Leads
    <3>3. m \in B
      BY <1>4, <2>1, <2>2, <3>2 DEF Ahead, Objects, End
    <3>4. Leads(k, l, B, m) /\ \A o \in B : m <= o
      BY <1>4, <2>3, <3>1, <3>2, <3>3 DEF Leads
    <3> QED
      BY <2>2, <3>4
  <2> QED
    BY <2>4, <2>5, <2>6
<1> QED
  BY <1>1, <1>2, <1>5 DEF LinearIs

-----------------------------------------------------------------------------
(***************************************************************************)
(* The view, its viewer and the code belong together; every handler keeps  *)
(* them so.                                                                *)
(***************************************************************************)
DisassemblyInv == CodeIs(code) /\ ViewIs(code, Current, "whole")

\* What an operation leaves is the next state.
LEMMA BecomeIs ==
  ASSUME NEW c, c = code', CodeIs(c), NEW u, ViewIs(c, u, "whole"), Become(u)
  PROVE  DisassemblyInv'
<1>1. PICK d : d = [u.d EXCEPT !.focus = NoFunc]
  OBVIOUS
<1>2. disasm' = d /\ linear' = u.l
  BY <1>1 DEF Become
<1>3. ViewType(u.d) /\ LinearIs(c, u.l, "whole")
  BY DEF ViewIs
<1>4. ViewType(d)
  BY <1>1, <1>3 DEF ViewType
<1>5. Here(d, u.l).d = d /\ Here(d, u.l).l = u.l
  BY DEF Here
<1>6. ViewIs(c, Here(d, u.l), "whole")
  BY <1>3, <1>4, <1>5 DEF ViewIs
<1>7. Current' = Here(d, u.l)
  BY <1>2 DEF Current, Here
<1> QED
  BY <1>6, <1>7 DEF DisassemblyInv

\* With the code as it is.
LEMMA BecomeKept ==
  ASSUME DisassemblyInv, SameCode, NEW u, Keeps(code, Current, u, "whole"), Become(u)
  PROVE  DisassemblyInv'
<1>1. PICK c : c = code
  OBVIOUS
<1>2. c = code' /\ CodeIs(c) /\ ViewIs(c, u, "whole")
  BY <1>1 DEF SameCode, DisassemblyInv, Keeps
<1> QED
  BY <1>2, BecomeIs

\* One lemma for each handler.
LEMMA JumpKeepsInv ==
  ASSUME DisassemblyInv, SameCode, NEW a \in Nat, Become(JumpToAddr(code, Current, a))
  PROVE  DisassemblyInv'
<1>1. PICK u : u = JumpToAddr(code, Current, a)
  OBVIOUS
<1>2. PICK how : how = "whole"
  OBVIOUS
<1>3. CodeIs(code) /\ ViewIs(code, Current, how)
  BY <1>2 DEF DisassemblyInv
<1>4. Keeps(code, Current, u, how)
  BY <1>1, <1>3, JumpToAddrIs
<1> QED
  BY <1>1, <1>2, <1>4, BecomeKept

LEMMA FunctionKeepsInv ==
  ASSUME DisassemblyInv, SameCode, NEW f \in code.funcs, Become(DisplayFunctionOf(code, Current, f))
  PROVE  DisassemblyInv'
<1>1. PICK u : u = DisplayFunctionOf(code, Current, f)
  OBVIOUS
<1>2. PICK how : how = "whole"
  OBVIOUS
<1>3. CodeIs(code) /\ ViewIs(code, Current, how)
  BY <1>2 DEF DisassemblyInv
<1>4. f \in Nat \cup {NoFunc}
  BY <1>3, FuncsAre
<1>5. Keeps(code, Current, u, how)
  BY <1>1, <1>3, <1>4, DisplayFunctionIs
<1> QED
  BY <1>1, <1>2, <1>5, BecomeKept

LEMMA GoneKeepsInv ==
  ASSUME DisassemblyInv, HistoryInv, SameCode, NEW p \in Int, GoneTo(p)
  PROVE  DisassemblyInv'
<1>1. CASE InRange(history, p)
  <2>1. PICK a : a = history[p + 1]
    OBVIOUS
  <2>2. a \in Addr
    <3>1. Len(history) \in Nat /\ history \in Seq(Addr)
      BY LenProperties DEF HistoryInv, TypeOK
    <3>2. p + 1 \in 1 .. Len(history)
      BY <1>1, <3>1 DEF InRange
    <3> QED
      BY <2>1, <3>1, <3>2, ElementOfSeq
  <2>3. a \in Nat
    BY <2>2, DisassemblyAssumption
  <2>4. Become(JumpToAddr(code, Current, a))
    BY <1>1, <2>1 DEF GoneTo
  <2> QED
    BY <2>3, <2>4, JumpKeepsInv
<1>2. CASE ~InRange(history, p)
  BY <1>2 DEF GoneTo, SameCode, DisassemblyInv, Current
<1> QED
  BY <1>1, <1>2

LEMMA ToggleKeepsInv ==
  ASSUME DisassemblyInv, ToggleView
  PROVE  DisassemblyInv'
<1>1. PICK how : how = "whole"
  OBVIOUS
<1>2. PICK prefer : prefer = TRUE
  OBVIOUS
<1>3. CodeIs(code) /\ ViewIs(code, Current, how)
  BY <1>1 DEF DisassemblyInv
<1>4. SameCode
  BY DEF ToggleView, Handle
<1>5. CASE disasm.graph
  <2>1. PICK u : u = DisplayLinearViewer(code, Current, prefer)
    OBVIOUS
  <2>2. Become(u)
    BY <1>2, <1>5, <2>1 DEF ToggleView, Handle
  <2>3. Keeps(code, Current, u, how)
    BY <1>3, <2>1, LinearViewerIs
  <2> QED
    BY <1>1, <1>4, <2>2, <2>3, BecomeKept
<1>6. CASE ~disasm.graph
  <2>1. PICK u : u = DisplayDisasmGraph(code, Current, prefer)
    OBVIOUS
  <2>2. Become(u)
    BY <1>2, <1>6, <2>1 DEF ToggleView, Handle
  <2>3. Keeps(code, Current, u, how)
    BY <1>3, <2>1, DisasmGraphKeeps
  <2> QED
    BY <1>1, <1>4, <2>2, <2>3, BecomeKept
<1> QED
  BY <1>5, <1>6

\* What the mouse reaches has been drawn.
LEMMA DrawnAre ==
  ASSUME DisassemblyInv
  PROVE  \A a \in DrawnInsns : a \in Nat
<1>1. PICK L : L = Len(Regions)
  OBVIOUS
<1>2. PICK c : c = code /\ CodeIs(c)
  BY DEF DisassemblyInv
<1>3. DOMAIN Objects(c) \subseteq Nat
  BY <1>1, <1>2, ObjectsAre
<1>4. linear.shown \subseteq Nat
  BY DEF DisassemblyInv, ViewIs, LinearIs, LinearType, CacheIs, Current, Here
<1> QED
  BY <1>2, <1>3, <1>4 DEF DrawnInsns, Inside

LEMMA ClickKeepsInv ==
  ASSUME DisassemblyInv, NEW a \in DrawnInsns, NEW unique, ClickInstruction(a, unique)
  PROVE  DisassemblyInv'
<1>1. PICK how : how = "whole"
  OBVIOUS
<1>2. PICK visible : visible = TRUE
  OBVIOUS
<1>3. CodeIs(code) /\ ViewIs(code, Current, how) /\ a \in Nat
  BY <1>1, DrawnAre DEF DisassemblyInv
<1>4. SameCode
  BY DEF ClickInstruction, Handle
<1>5. CASE a \in disasm.insns
  <2>1. PICK u : u = UnselectInstruction(Current, a)
    OBVIOUS
  <2>2. Become(u)
    BY <1>5, <2>1 DEF ClickInstruction, Handle
  <2>3. PICK s : s = Current
    OBVIOUS
  <2>4. PICK d : d = [s.d EXCEPT !.insns = s.d.insns \ {a}]
    OBVIOUS
  <2>5. ViewIs(code, s, how) /\ ViewType(s.d)
    BY <1>3, <2>3 DEF ViewIs
  <2>6. ViewType(d)
    <3>1. IsFiniteSet(s.d.insns \ {a}) /\ s.d.insns \ {a} \subseteq Nat
      BY <2>5, FS_Subset DEF ViewType
    <3> QED
      BY <2>4, <2>5, <3>1 DEF ViewType
  <2>7. u = [s EXCEPT !.d = d]
    <3>1. u = [s EXCEPT !.d.insns = @ \ {a}]
      BY <2>1, <2>3 DEF UnselectInstruction
    <3> QED
      BY <2>4, <3>1
  <2>8. Keeps(code, s, u, how)
    BY <2>5, <2>6, <2>7, ViewKeeps
  <2> QED
    BY <1>1, <1>4, <2>2, <2>3, <2>8, BecomeKept
<1>6. CASE a \notin disasm.insns
  <2>1. PICK u : u = SelectInstruction(code, Current, a, unique, visible)
    OBVIOUS
  <2>2. Become(u)
    BY <1>2, <1>6, <2>1 DEF ClickInstruction, Handle
  <2>3. Selects(code, Current, a, unique, visible, u, how)
    BY <1>3, <2>1, SelectInstructionIs
  <2>4. Keeps(code, Current, u, how)
    BY <2>3 DEF Selects
  <2> QED
    BY <1>1, <1>4, <2>2, <2>4, BecomeKept
<1> QED
  BY <1>5, <1>6

LEMMA LabelKeepsInv ==
  ASSUME DisassemblyInv, NEW a, ClickLabel(a) \/ ToggleLabel(a)
  PROVE  DisassemblyInv'
<1>1. PICK how : how = "whole"
  OBVIOUS
<1>2. ViewIs(code, Current, how)
  BY <1>1 DEF DisassemblyInv
<1>3. SameCode
  BY DEF ClickLabel, ToggleLabel, Handle
<1>4. CASE Become(SelectLabel(Current, a))
  <2>1. PICK u : u = SelectLabel(Current, a)
    OBVIOUS
  <2>2. Keeps(code, Current, u, how)
    BY <1>2, <2>1, SelectLabelIs
  <2> QED
    BY <1>1, <1>3, <1>4, <2>1, <2>2, BecomeKept
<1>5. CASE Become(UnselectLabel(Current, a))
  <2>1. PICK u : u = UnselectLabel(Current, a)
    OBVIOUS
  <2>3. PICK s : s = Current
    OBVIOUS
  <2>4. PICK d : d = [s.d EXCEPT !.labels = s.d.labels \ {a}]
    OBVIOUS
  <2>5. ViewIs(code, s, how) /\ ViewType(s.d)
    BY <1>2, <2>3 DEF ViewIs
  <2>6. ViewType(d)
    BY <2>4, <2>5 DEF ViewType
  <2>7. u = [s EXCEPT !.d = d]
    <3>1. u = [s EXCEPT !.d.labels = @ \ {a}]
      BY <2>1, <2>3 DEF UnselectLabel
    <3> QED
      BY <2>4, <3>1
  <2>8. Keeps(code, s, u, how)
    BY <2>5, <2>6, <2>7, ViewKeeps
  <2> QED
    BY <1>1, <1>3, <1>5, <2>1, <2>3, <2>8, BecomeKept
<1>6. Become(SelectLabel(Current, a)) \/ Become(UnselectLabel(Current, a))
  BY DEF ClickLabel, ToggleLabel, Handle
<1> QED
  BY <1>4, <1>5, <1>6

\* The wheel and the slider prepare the objects again.
LEMMA PreparedKeepsInv ==
  ASSUME DisassemblyInv, SameCode, NEW at \in Int, NEW start \in Int, NEW adjust, start < 0 => ~adjust,
         Become([Current EXCEPT !.l = PrepareObjects(code, @, at, start, adjust)])
  PROVE  DisassemblyInv'
<1>1. PICK how : how = "whole"
  OBVIOUS
<1>2. PICK s : s = Current
  OBVIOUS
<1>3. CodeIs(code) /\ ViewIs(code, s, how) /\ LinearIs(code, s.l, how)
  BY <1>1, <1>2 DEF DisassemblyInv, ViewIs
<1>4. PICK l : l = PrepareObjects(code, s.l, at, start, adjust)
  OBVIOUS
<1>5. LinearIs(code, l, how) /\ PaintsAs(code, s.l, l)
  BY <1>3, <1>4, PrepareKeeps
<1>6. PICK u : u = [s EXCEPT !.l = l]
  OBVIOUS
<1>7. Keeps(code, s, u, how)
  BY <1>3, <1>5, <1>6, ViewerKeeps
<1>8. Become(u)
  BY <1>2, <1>4, <1>6
<1> QED
  BY <1>1, <1>2, <1>7, <1>8, BecomeKept

LEMMA ScrollKeepsInv ==
  ASSUME DisassemblyInv, NEW n \in Int, Scroll(n)
  PROVE  DisassemblyInv'
<1>1. PICK adjust : adjust = FALSE
  OBVIOUS
<1>2. PICK at \in Int : at = linear.offset
  BY DEF DisassemblyInv, ViewIs, LinearIs, LinearType, Current, Here
<1>3. PICK start \in Int : start = linear.start + n
  BY DEF DisassemblyInv, ViewIs, LinearIs, LinearType, Current, Here
<1>4. SameCode
  BY DEF Scroll, Handle
<1>5. Become([Current EXCEPT !.l = PrepareObjects(code, @, at, start, adjust)])
  <2>1. Become([Current EXCEPT !.l = Scrolled(code, @, n)])
    BY DEF Scroll, Handle
  <2>2. Current.l = linear
    BY DEF Current, Here
  <2>3. Scrolled(code, linear, n) = PrepareObjects(code, linear, at, start, adjust)
    BY <1>1, <1>2, <1>3 DEF Scrolled
  <2>4. [Current EXCEPT !.l = Scrolled(code, @, n)] = [Current EXCEPT !.l = PrepareObjects(code, @, at, start, adjust)]
    BY <2>2, <2>3
  <2> QED
    BY <2>1, <2>4
<1>6. start < 0 => ~adjust
  BY <1>1
<1> QED
  BY <1>4, <1>5, <1>6, PreparedKeepsInv

LEMMA SliderKeepsInv ==
  ASSUME DisassemblyInv, NEW offset \in Stops, MoveSlider(offset)
  PROVE  DisassemblyInv'
<1>1. PICK adjust : adjust = TRUE
  OBVIOUS
<1>2. PICK at \in Int : at = offset
  BY DisassemblyAssumption
<1>3. PICK start \in Int : start = 0
  OBVIOUS
<1>4. SameCode
  BY DEF MoveSlider, Handle
<1>5. Become([Current EXCEPT !.l = PrepareObjects(code, @, at, start, adjust)])
  <2>1. Become([Current EXCEPT !.l = PrepareObjects(code, @, offset, 0, TRUE)])
    BY DEF MoveSlider, Handle
  <2> QED
    BY <1>1, <1>2, <1>3, <2>1
<1>6. start < 0 => ~adjust
  BY <1>3
<1> QED
  BY <1>4, <1>5, <1>6, PreparedKeepsInv

LEMMA ReloadKeepsInv ==
  ASSUME DisassemblyInv, Reload
  PROVE  DisassemblyInv'
<1>1. PICK u : u = ReloadView(code, Current)
  OBVIOUS
<1>2. PICK c : c = code /\ c = code'
  BY DEF Reload, Handle, SameCode
<1>3. CodeIs(c) /\ ViewIs(c, Current, "whole") /\ u = ReloadView(c, Current)
  BY <1>1, <1>2 DEF DisassemblyInv
<1>4. ViewIs(c, u, "whole")
  BY <1>3, ReloadViewIs
<1>5. Become(u)
  BY <1>1 DEF Reload, Handle
<1> QED
  BY <1>2, <1>3, <1>4, <1>5, BecomeIs

LEMMA UndefineKeepsInv ==
  ASSUME DisassemblyInv, NEW f, UndefineCode(f)
  PROVE  DisassemblyInv'
<1>1. PICK c : c = code
  OBVIOUS
<1>2. PICK k : k = code'
  OBVIOUS
<1>3. PICK e : e = disasm
  OBVIOUS
<1>4. PICK d : d = disasm'
  OBVIOUS
<1>5. PICK l : l = linear
  OBVIOUS
<1>6. k = [c EXCEPT !.funcs = @ \ {f}] /\ d = [e EXCEPT !.gone = @ \/ e.graphFunc = f] /\ linear' = l
  BY <1>1, <1>2, <1>3, <1>4, <1>5 DEF UndefineCode
<1>7. CodeIs(c) /\ ViewType(e) /\ LinearIs(c, l, "whole")
  BY <1>1, <1>3, <1>5 DEF DisassemblyInv, ViewIs, Current, Here
<1>8. k.cfb = c.cfb /\ k.funcs \subseteq c.funcs
  <2>1. k.cfb = c.cfb
    BY <1>6
  <2>2. k.funcs \subseteq c.funcs
    <3>1. CASE "funcs" \in DOMAIN c
      BY <1>6, <3>1
    <3>2. CASE "funcs" \notin DOMAIN c
      BY <1>6, <3>2
    <3> QED
      BY <3>1, <3>2
  <2> QED
    BY <2>1, <2>2
<1>9. CodeIs(k) /\ LinearIs(k, l, "whole")
  BY <1>7, <1>8, UndefinedKeeps
<1>10. ViewType(d)
  <2>1. PICK g : g = (e.gone \/ e.graphFunc = f)
    OBVIOUS
  <2>2. d = [e EXCEPT !.gone = g]
    BY <1>6, <2>1
  <2> QED
    BY <1>7, <2>2 DEF ViewType
<1>11. Current' = Here(d, l)
  BY <1>4, <1>6 DEF Current, Here
<1>12. Here(d, l).d = d /\ Here(d, l).l = l
  BY DEF Here
<1>13. ViewIs(k, Here(d, l), "whole")
  BY <1>9, <1>10, <1>12 DEF ViewIs
<1> QED
  BY <1>2, <1>9, <1>11, <1>13 DEF DisassemblyInv

LEMMA CfgKeepsInv ==
  ASSUME DisassemblyInv, NEW v \in Versions, CfgGenerated(v)
  PROVE  DisassemblyInv'
<1>1. PICK how : how = "type"
  OBVIOUS
<1>2. PICK c : c = [cfb |-> v, funcs |-> FuncsIn(v)]
  OBVIOUS
<1>3. CodeIs(c)
  BY <1>2 DEF CodeIs
<1>4. PICK s : s = Current
  OBVIOUS
<1>5. ViewIs(c, s, how)
  <2>1. ViewIs(code, s, "whole")
    BY <1>4 DEF DisassemblyInv
  <2> QED
    BY <1>1, <2>1 DEF ViewIs, LinearIs
<1>6. PICK u : u = CfbEvent(c, s)
  OBVIOUS
<1>7. ViewIs(c, u, "whole")
  BY <1>3, <1>5, <1>6, CfbEventIs
<1>8. c = code' /\ Become(u)
  BY <1>2, <1>4, <1>6 DEF CfgGenerated
<1> QED
  BY <1>3, <1>7, <1>8, BecomeIs

\* The view as it is opened.
LEMMA InitDisassemblyInv == DisassemblyInit => DisassemblyInv /\ HistoryInv
<1> SUFFICES ASSUME DisassemblyInit PROVE DisassemblyInv /\ HistoryInv
  OBVIOUS
<1>1. PICK v \in Versions : code = [cfb |-> v, funcs |-> FuncsIn(v)]
  BY DEF DisassemblyInit
<1>2. CodeIs(code)
  BY <1>1 DEF CodeIs
<1>3. PICK l0 : l0 = [offset |-> NoOffset, start |-> 0, shown |-> {}, cache |-> <<>>]
  OBVIOUS
<1>4. l0.offset = NoOffset /\ l0.start = 0 /\ l0.shown = {} /\ l0.cache = <<>>
  BY <1>3
<1>5. DOMAIN <<>> = {}
  OBVIOUS
<1>6. LinearType(l0)
  BY <1>3, <1>4, <1>5 DEF LinearType, CacheIs, NoOffset
<1>7. linear = ReloadLinear(code, l0)
  BY <1>3 DEF DisassemblyInit
<1>8. LinearIs(code, linear, "whole")
  <2>1. PICK c : c = code
    OBVIOUS
  <2>2. PICK u : u = linear
    OBVIOUS
  <2>3. CodeIs(c) /\ LinearType(l0) /\ u = ReloadLinear(c, l0)
    BY <1>2, <1>6, <1>7, <2>1, <2>2
  <2>4. LinearIs(c, u, "whole")
    BY <2>3, ReloadLinearIs
  <2> QED
    BY <2>1, <2>2, <2>4
<1>9. ViewType(disasm)
  BY FS_EmptySet DEF DisassemblyInit, ViewType
<1>10. Current.d = disasm /\ Current.l = linear
  BY DEF Current, Here
<1>11. Current = Here(Current.d, Current.l)
  BY <1>10 DEF Current
<1>12. ViewIs(code, Current, "whole")
  BY <1>8, <1>9, <1>10, <1>11 DEF ViewIs
<1>13. HistoryInv
  BY InitHistoryInv DEF DisassemblyInit
<1> QED
  BY <1>2, <1>12, <1>13 DEF DisassemblyInv

-----------------------------------------------------------------------------
(***************************************************************************)
(* The steps of the view.                                                  *)
(***************************************************************************)
\* The history of the view takes the steps of JumpHistory.
LEMMA StepOfHistory ==
  ASSUME DisassemblyInv, [DisassemblyNext]_viewVars
  PROVE  [Next]_vars
<1>1. ASSUME NoJump PROVE [Next]_vars
  BY <1>1 DEF NoJump, vars
<1>2. \A f \in code.funcs : f \in Addr
  <2>1. PICK c : c = code /\ CodeIs(c)
    BY DEF DisassemblyInv
  <2> QED
    BY <2>1, FuncsAre
<1>3. ASSUME NEW src \in Sources \cup {NoAddr}, NEW a \in Addr, FollowTo(src, a) PROVE [Next]_vars
  <2>1. ViewJumpTo(src, a)
    BY <1>3 DEF FollowTo
  <2>2. src \in Addr \cup {NoAddr}
    BY DEF Sources
  <2> QED
    BY <2>1, <2>2 DEF Next
<1>4. ASSUME NEW f \in code.funcs, DisplayFunction(f) PROVE [Next]_vars
  <2>1. ViewJumpTo(NoAddr, f)
    BY <1>4 DEF DisplayFunction
  <2>2. f \in Addr
    BY <1>2
  <2> QED
    BY <2>1, <2>2 DEF Next
<1>5. CASE GoBack
  BY <1>5 DEF GoBack, Next
<1>6. CASE GoForward
  BY <1>6 DEF GoForward, Next
<1>7. ASSUME NEW q \in 0 .. MaxLen - 1, GoToPosition(q) PROVE [Next]_vars
  BY <1>7 DEF GoToPosition, Next
<1>8. ASSUME NEW s, Handle(s) PROVE [Next]_vars
  BY <1>1, <1>8 DEF Handle
<1>9. CASE ToggleView
  BY <1>8, <1>9 DEF ToggleView
<1>10. ASSUME NEW a, NEW unique, ClickInstruction(a, unique) PROVE [Next]_vars
  BY <1>8, <1>10 DEF ClickInstruction
<1>11. ASSUME NEW a, ClickLabel(a) \/ ToggleLabel(a) PROVE [Next]_vars
  BY <1>8, <1>11 DEF ClickLabel, ToggleLabel
<1>12. CASE Scroll(-2) \/ Scroll(1)
  BY <1>8, <1>12 DEF Scroll
<1>13. ASSUME NEW offset \in Stops, MoveSlider(offset) PROVE [Next]_vars
  BY <1>8, <1>13 DEF MoveSlider
<1>14. CASE Reload
  BY <1>8, <1>14 DEF Reload
<1>15. ASSUME NEW f, UndefineCode(f) PROVE [Next]_vars
  BY <1>1, <1>15 DEF UndefineCode
<1>16. ASSUME NEW v \in Versions, CfgGenerated(v) PROVE [Next]_vars
  BY <1>1, <1>16 DEF CfgGenerated
<1>17. CASE UNCHANGED viewVars
  BY <1>17 DEF viewVars, vars
<1> QED
  BY <1>3, <1>4, <1>5, <1>6, <1>7, <1>9, <1>10, <1>11, <1>12, <1>13, <1>14, <1>15, <1>16, <1>17
  DEF DisassemblyNext

\* Every step of the view.
LEMMA NextDisassemblyInv ==
  ASSUME DisassemblyInv, HistoryInv, [DisassemblyNext]_viewVars
  PROVE  DisassemblyInv'
<1>1. /\ BackPos(pos) \in Int /\ ForwardPos(history, pos) \in Int
      /\ \A q \in 0 .. MaxLen - 1 : StepPos(history, pos, q) \in Int
  <2>1. pos \in Int /\ Len(history) \in Nat
    BY LenProperties DEF HistoryInv, TypeOK
  <2> QED
    BY <2>1, HistoryAssumption DEF BackPos, ForwardPos, StepPos
<1>3. ASSUME NEW src, NEW a \in Addr, FollowTo(src, a) PROVE DisassemblyInv'
  <2>1. a \in Nat
    BY DisassemblyAssumption
  <2> QED
    BY <1>3, <2>1, JumpKeepsInv DEF FollowTo
<1>4. ASSUME NEW f \in code.funcs, DisplayFunction(f) PROVE DisassemblyInv'
  BY <1>4, FunctionKeepsInv DEF DisplayFunction
<1>5. CASE GoBack
  BY <1>1, <1>5, GoneKeepsInv DEF GoBack
<1>6. CASE GoForward
  BY <1>1, <1>6, GoneKeepsInv DEF GoForward
<1>7. ASSUME NEW q \in 0 .. MaxLen - 1, GoToPosition(q) PROVE DisassemblyInv'
  BY <1>1, <1>7, GoneKeepsInv DEF GoToPosition
<1>9. CASE ToggleView
  BY <1>9, ToggleKeepsInv
<1>10. ASSUME NEW a \in DrawnInsns, NEW unique, ClickInstruction(a, unique) PROVE DisassemblyInv'
  BY <1>10, ClickKeepsInv
<1>11. ASSUME NEW a, ClickLabel(a) \/ ToggleLabel(a) PROVE DisassemblyInv'
  BY <1>11, LabelKeepsInv
<1>12. CASE Scroll(-2) \/ Scroll(1)
  <2>1. PICK n \in Int : Scroll(n)
    BY <1>12
  <2> QED
    BY <2>1, ScrollKeepsInv
<1>13. ASSUME NEW offset \in Stops, MoveSlider(offset) PROVE DisassemblyInv'
  BY <1>13, SliderKeepsInv
<1>14. CASE Reload
  BY <1>14, ReloadKeepsInv
<1>15. ASSUME NEW f, UndefineCode(f) PROVE DisassemblyInv'
  BY <1>15, UndefineKeepsInv
<1>16. ASSUME NEW v \in Versions, CfgGenerated(v) PROVE DisassemblyInv'
  BY <1>16, CfgKeepsInv
<1>17. CASE UNCHANGED viewVars
  BY <1>17 DEF viewVars, DisassemblyInv, Current
<1> QED
  BY <1>3, <1>4, <1>5, <1>6, <1>7, <1>9, <1>10, <1>11, <1>12, <1>13, <1>14, <1>15, <1>16, <1>17
  DEF DisassemblyNext

\* So it is always.
LEMMA SpecDisassemblyInv == DisassemblySpec => [](DisassemblyInv /\ HistoryInv)
<1>1. DisassemblyInv /\ HistoryInv /\ [DisassemblyNext]_viewVars => (DisassemblyInv /\ HistoryInv)'
  BY StepOfHistory, NextHistoryInv, NextDisassemblyInv
<1> QED
  BY <1>1, InitDisassemblyInv, PTL DEF DisassemblySpec

\* Whatever the view does besides, its list and its position do what JumpHistory
\* does: the jumps of jump_to, display_function and the history menu are all
\* that writes them.
THEOREM DisassemblyKeepsHistory == DisassemblySpec => Spec
<1>1. DisassemblyInit => Init
  BY DEF DisassemblyInit
<1>2. DisassemblyInv /\ [DisassemblyNext]_viewVars => [Next]_vars
  BY StepOfHistory
<1> QED
  BY <1>1, <1>2, SpecDisassemblyInv, PTL DEF DisassemblySpec, Spec

\* So the view as a whole moves through its history as a browser does: its past,
\* what it shows and what lies ahead (JumpHistory, nav_toolbar.py).
THEOREM DisassemblyImplementsBrowser == DisassemblySpec => ImplementsBrowserHistory
BY DisassemblyKeepsHistory, HistoryImplementsBrowser, PTL

\* A jump ends with its target selected and on the screen, for any regions, any
\* code, any window, any sequence of clicks, jumps, scrolls and changes of the code
\* (_jump_to, select_instruction).  Excepted are a linear viewer held by a selected
\* instruction whose function is gone, and one asked for an instruction that was
\* selected before, to which it does not move.
THEOREM JumpAlwaysShowsTarget == DisassemblySpec => []JumpShowsTarget
<1>1. DisassemblyInv => JumpShowsTarget
  <2> SUFFICES ASSUME DisassemblyInv, NEW a \in Addr \cup DOMAIN Objects(code), NEW t, t = JumpToAddr(code, Current, a)
               PROVE  LET f == LocateFunction(code, a)
                          item == ItemAt(code, a)
                      IN  /\ disasm.prefer /\ f # NoFunc /\ (disasm.graph \/ SelectionInGraphs) =>
                               t.d.graph /\ t.d.func = f /\ t.d.graphFunc = f /\ t.d.focus = item
                          /\ KindAt(code, a) = "code" =>
                               IF item \in disasm.insns THEN item \in t.d.insns ELSE t.d.insns = {item}
                          /\ KindAt(code, a) = "data" => t.d.labels = {item}
                          /\ ~t.d.graph /\ Paintable(a) /\ item \notin disasm.insns =>
                               item \in t.l.shown
    BY DEF JumpShowsTarget
  <2>1. PICK L : L = Len(Regions)
    OBVIOUS
  <2>2. PICK c : c = code /\ CodeIs(c)
    BY DEF DisassemblyInv
  <2>3. PICK s : s = Current
    OBVIOUS
  <2>4. s.d = disasm /\ s.l = linear
    BY <2>3 DEF Current, Here
  <2>5. a \in Nat
    BY <2>1, <2>2, ObjectsAre, DisassemblyAssumption
  <2>6. CodeIs(c) /\ ViewIs(c, s, "whole") /\ t = JumpToAddr(c, s, a)
    BY <2>2, <2>3 DEF DisassemblyInv
  <2>7. JumpShows(c, s, a, t)
    BY <2>5, <2>6, JumpIs
  <2> QED
    BY <2>2, <2>4, <2>7 DEF JumpShows, SelectionInGraphs, Paintable, Drawable
<1> QED
  BY <1>1, SpecDisassemblyInv, PTL

\* Scrolling by any number of lines moves the first line shown by as many, between
\* the first line and a screen that shows no more, in every state of the view
\* (prepare_objects): any regions, any objects apart in them, any height of the
\* window.  Excepted: above a byte of no object, scrolling up passes over the lines
\* of the object before it; and a jump below the first region stops all scrolling.
THEOREM ScrollAlwaysByLines ==
  DisassemblySpec =>
    /\ []ScrollMovesByLines
    /\ [](linear.offset >= 0 => \A n \in Int \ {0} : ScrollsBy(code, linear, n))
<1>1. DisassemblyInv /\ linear.offset >= 0 => \A n \in Int \ {0} : ScrollsBy(code, linear, n)
  <2> SUFFICES ASSUME DisassemblyInv, linear.offset >= 0, NEW n \in Int \ {0}
               PROVE  ScrollsBy(code, linear, n)
    OBVIOUS
  <2>1. CodeIs(code) /\ LinearOK(code, linear)
    BY DEF DisassemblyInv, ViewIs, LinearIs, LinearOK, Current, Here
  <2>2. linear.offset \in Int
    BY <2>1 DEF LinearOK, LinearType
  <2>3. n \in Int /\ n # 0 /\ 0 <= linear.offset
    BY <2>2
  <2> QED
    BY <2>1, <2>3, ScrollIs
<1>2. (linear.offset >= 0 => \A n \in Int \ {0} : ScrollsBy(code, linear, n)) => ScrollMovesByLines
  BY DEF ScrollMovesByLines
<1> QED
  BY <1>1, <1>2, SpecDisassemblyInv, PTL

=============================================================================
