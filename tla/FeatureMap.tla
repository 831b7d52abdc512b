------------------------------ MODULE FeatureMap ------------------------------
(***************************************************************************)
(* The feature map (ui/widgets/qfeature_map.py): a strip that shows, region  *)
(* by region, what each part of the binary is.  While a CFG is recovered the *)
(* job announces the objects it finds on the container of the CFB; the       *)
(* handler runs in the worker thread, adds them to one interval map per      *)
(* level of detail and posts a refresh to the GUI thread.  The container is  *)
(* given the temporary CFB by a posted call and, when the job has finished,  *)
(* the final CFB, from which everything is built again.                      *)
(***************************************************************************)
EXTENDS TaggedIntervals, SequencesExt

CONSTANTS
  BinWidths,    \* bytes in a bin, by level of detail, coarse first, the last one 1
  Binaries,     \* the binaries: [regions, items, tried], see below
  ExternSize,   \* bytes a region that is not shown to scale counts for, 80
  Addr,         \* bound: the addresses there are
  Widths,       \* bound: the widths of the strip, in pixels
  MaxCfgJobs,   \* bound on CFG jobs
  MaxPosted     \* bound on the calls waiting for the GUI thread

(* regions: <<[addr, size, scaled]>>; items: what the final CFB holds, [addr, size, tags];
   tried: what is announced while it is made *)
ASSUME FeatureMapAssumption ==
  /\ BinWidths \in Seq(Nat \ {0}) /\ BinWidths # <<>> /\ BinWidths[Len(BinWidths)] = 1
  /\ \A i \in DOMAIN BinWidths \ {1} : BinWidths[i - 1] % BinWidths[i] = 0
  /\ Widths \subseteq Nat \ {0} /\ Widths # {} /\ Addr \subseteq Nat /\ ExternSize \in Nat \ {0}
  /\ \A b \in DOMAIN Binaries :
       /\ Binaries[b].regions \in Seq([addr : Nat, size : Nat \ {0}, scaled : BOOLEAN])
       /\ IsFiniteSet(Binaries[b].items)
       /\ \A o \in Binaries[b].items \cup Binaries[b].tried :
            /\ o.addr \in Nat /\ o.size \in Nat /\ o.tags # {}
            /\ o.addr .. o.addr + o.size - 1 \subseteq Addr

VARIABLES
  binary,    \* the project, 0 before there is one
  job,       \* [n: CFG jobs so far, on: one is running]
  cfb,       \* the CFB in the container, [made, regions, items]
  maps,      \* _cfb_feature_maps
  content,   \* history: the tags given to each address since the maps were built
  layout,    \* [made: the CFB laid out, regions, width, and the regions' widths and positions]
  hover,     \* _hover_region: [made: the CFB it is of, region]
  pending,   \* _refresh_pending
  stuck,     \* history: pending was left set by a refresh that failed
  recent,    \* less than 1/30 s since _last_refresh_timestamp
  posted     \* the calls posted to the GUI thread

mapVars == <<binary, job, cfb, maps, content, layout, hover, pending, stuck, recent, posted>>

NoCfb == [made |-> <<0, "none">>, regions |-> <<>>, items |-> {}]
NoHover == [made |-> <<0, "none">>, region |-> 0]
NoMaps == [i \in DOMAIN BinWidths |-> NoStops]
NoContent == [a \in Addr |-> {}]
Cfb(kind, items) ==
  [made |-> <<job.n, kind>>, regions |-> Binaries[binary].regions, items |-> items]

-----------------------------------------------------------------------------
(* The layout: regions by address, as wide as their share of the strip *)
Overlap(r, q) == r.addr < q.addr + q.size /\ q.addr < r.addr + r.size
(* sorted by size in reverse, which keeps the order of regions of the same size *)
Larger(rs, i, j) == rs[i].size > rs[j].size \/ (rs[i].size = rs[j].size /\ i < j)
LargestFirst(rs) ==
  CHOOSE q \in [DOMAIN rs -> DOMAIN rs] : \A i, j \in DOMAIN q : i < j => Larger(rs, q[i], q[j])
AddedRegions(rs) ==
  LET Add(S, i) == IF \E q \in S : Overlap(rs[i], q) THEN S ELSE S \cup {rs[i]}
  IN  FoldLeft(Add, {}, LargestFirst(rs))
ByAddr(S) ==
  CHOOSE q \in [1 .. Cardinality(S) -> S] : \A i, j \in DOMAIN q : i < j => q[i].addr < q[j].addr
DisplayedSize(r) == IF r.scaled THEN r.size ELSE ExternSize
(* Python rounds halves to even *)
Round(n, d) ==
  LET q == n \div d
      r == n % d
  IN  IF 2 * r > d \/ (2 * r = d /\ q % 2 = 1) THEN q + 1 ELSE q
RegionWidths(regions, width) ==
  LET Place(t, r) ==
        LET w == Max({Round(DisplayedSize(r) * t.width, t.bytes), 1}) IN
        [bytes |-> t.bytes - DisplayedSize(r), width |-> t.width - w, got |-> Append(t.got, w)]
      bytes == FoldLeft(LAMBDA n, r : n + DisplayedSize(r), 0, regions)
  IN  FoldLeft(Place, [bytes |-> bytes, width |-> width, got |-> <<>>], regions).got
LaidOut(c, width) ==
  LET regions == ByAddr(AddedRegions(c.regions))
      widths == RegionWidths(regions, width)
      at == FoldLeft(LAMBDA p, w : Append(p, Last(p) + w), <<0>>, widths)
  IN  [made |-> c.made, regions |-> regions, width |-> width, widths |-> widths, at |-> at]

(* pixels to addresses and back; a position is x + n / d of a pixel *)
RegionAtPosition(y, x) == Max({0} \cup {i \in DOMAIN y.regions : y.at[i] <= x})
(* int(pos / width * size) is worked out in doubles: where the product should be a whole
   number it may come out just below it, and the byte before is taken (1 / 49 * 49 does);
   any other keeps its whole part, for sizes and widths with a product below 2^51 *)
OffsetsAt(pos, width, size) ==
  LET n == (pos * size) \div width IN
  {n} \cup IF n > 0 /\ (pos * size) % width = 0 THEN {n - 1} ELSE {}
(* not the code: from pixels to bytes at the scale of the whole strip *)
AddrsAtStripScale(y, x) ==
  LET i == RegionAtPosition(y, x)
      r == y.regions[i]
  IN  {r.addr + b : b \in OffsetsAt(x - y.at[i], y.width, r.size)}
AddrsAtPosition(y, x) ==
  LET i == RegionAtPosition(y, x)
      r == y.regions[i]
  IN  {r.addr + b : b \in OffsetsAt(x - y.at[i], y.widths[i], r.size)}
RegionAtAddr(y, a) ==
  LET from == Max({1} \cup {i \in DOMAIN y.regions : y.regions[i].addr < a})
  IN  Min({i \in from .. Len(y.regions) : a <= y.regions[i].addr + y.regions[i].size})
PositionAtAddr(y, a) ==
  LET i == RegionAtAddr(y, a)
      r == y.regions[i]
  IN  [x |-> y.at[i], n |-> y.widths[i] * (a - r.addr), d |-> r.size]

-----------------------------------------------------------------------------
(* The interval maps *)
AddItem(ms, o) == [i \in DOMAIN ms |-> AddInterval(ms[i], o.addr, o.size, o.tags, BinWidths[i])]
(* each level is made from the intervals of the next finer one *)
Coarser(m, w) ==
  FoldSet(LAMBDA r, n : AddInterval(n, r.addr, r.size, r.tags, w), NoStops,
          {r \in IF m = NoStops THEN {} ELSE Between(m, DOMAIN m) : r.tags # {}})
BuildMaps(items) ==
  LET finest == FoldSet(LAMBDA o, m : AddInterval(m, o.addr, o.size, o.tags, 1), NoStops, items)
      Above(ms, i) == <<Coarser(Head(ms), BinWidths[i])>> \o ms
  IN  FoldLeft(Above, <<finest>>, [i \in 1 .. Len(BinWidths) - 1 |-> Len(BinWidths) - i])
WithItem(c, o) == [a \in Addr |-> IF o.addr <= a /\ a < o.addr + o.size THEN c[a] \cup o.tags ELSE c[a]]
ContentOf(items) == FoldSet(LAMBDA o, c : WithItem(c, o), NoContent, items)

(* refresh() lays the regions out first; a region hovered that is not among them
   is a KeyError, and what follows is not done *)
RefreshWith(c, width, h) ==
  /\ layout' = LaidOut(c, width)
  /\ IF h = NoHover \/ h.made = c.made THEN pending' = FALSE /\ stuck' = FALSE /\ recent' = TRUE
     ELSE stuck' = pending /\ UNCHANGED <<pending, recent>>
(* not the code: what was announced stays in the maps *)
ReloadWithoutBuilding(c) ==
  hover' = NoHover /\ UNCHANGED <<maps, content>> /\ RefreshWith(c, layout.width, NoHover)
(* reload(): without a CFB the maps stay as they are *)
ReloadWith(c) ==
  /\ hover' = NoHover /\ RefreshWith(c, layout.width, NoHover)
  /\ IF c = NoCfb THEN UNCHANGED <<maps, content>>
     ELSE maps' = BuildMaps(c.items) /\ content' = ContentOf(c.items)

-----------------------------------------------------------------------------
Init ==
  /\ binary = 0 /\ job = [n |-> 0, on |-> FALSE] /\ cfb = NoCfb
  /\ maps = NoMaps /\ content = NoContent
  /\ layout = LaidOut(NoCfb, Min(Widths)) /\ hover = NoHover
  /\ pending = FALSE /\ stuck = FALSE /\ recent = TRUE /\ posted = <<>>

(* A project is loaded: the containers are reset *)
LoadProject(b) ==
  /\ ~job.on /\ posted = <<>> /\ b # binary /\ binary' = b
  /\ cfb' = NoCfb /\ ReloadWith(NoCfb) /\ UNCHANGED <<job, posted>>

StartCfg ==
  /\ binary # 0 /\ ~job.on /\ posted = <<>> /\ job.n < MaxCfgJobs
  /\ job' = [n |-> job.n + 1, on |-> TRUE]
  /\ UNCHANGED <<binary, cfb, maps, content, layout, hover, pending, stuck, recent, posted>>

Post(calls) == Len(posted \o calls) <= MaxPosted /\ posted' = posted \o calls

(* not the code: a refresh counts as pending though it came too early to be posted *)
AnnounceMarked(o) ==
  /\ maps' = AddItem(maps, o) /\ content' = WithItem(content, o) /\ pending' = TRUE
  /\ IF pending \/ recent THEN UNCHANGED posted ELSE Post(<<"refresh">>)
(* _on_cfb_event(object_added=...), in the worker thread *)
Announce(o) ==
  /\ maps' = AddItem(maps, o) /\ content' = WithItem(content, o)
  /\ IF pending \/ recent THEN UNCHANGED <<pending, posted>>
     ELSE pending' = TRUE /\ Post(<<"refresh">>)

ObjectAdded(o) ==
  /\ job.on /\ o \in Binaries[binary].tried /\ Announce(o)
  /\ UNCHANGED <<binary, job, cfb, layout, hover, stuck, recent>>
Peek ==
  /\ job.on /\ "peek" \notin ToSet(posted) /\ Post(<<"peek">>)
  /\ UNCHANGED <<binary, job, cfb, maps, content, layout, hover, pending, stuck, recent>>
EndCfg(result) ==
  /\ job.on /\ job' = [job EXCEPT !.on = FALSE] /\ Post(result)
  /\ UNCHANGED <<binary, cfb, maps, content, layout, hover, pending, stuck, recent>>
TimePasses ==
  /\ recent /\ recent' = FALSE
  /\ UNCHANGED <<binary, job, cfb, maps, content, layout, hover, pending, stuck, posted>>

(* The GUI thread *)
TakePosted(call) == posted # <<>> /\ Head(posted) = call /\ posted' = Tail(posted)
GuiRefresh ==
  /\ TakePosted("refresh") /\ RefreshWith(cfb, layout.width, hover)
  /\ UNCHANGED <<binary, job, cfb, maps, content, hover>>
GuiPeek ==        \* the CFB peeked at goes on growing; None once the final one is built
  /\ TakePosted("peek") /\ cfb' = Cfb("temporary", {})
  /\ UNCHANGED <<binary, job, maps, content, layout, hover, pending, stuck, recent>>
GuiCfgGenerated ==
  /\ TakePosted("generated") /\ cfb' = Cfb("final", Binaries[binary].items) /\ ReloadWith(cfb')
  /\ UNCHANGED <<binary, job>>
HoverAt(x) ==
  LET i == RegionAtPosition(layout, x) IN
  /\ i # 0 /\ hover' = [made |-> layout.made, region |-> layout.regions[i].addr]
  /\ UNCHANGED <<binary, job, cfb, maps, content, layout, pending, stuck, recent, posted>>
HoverLeave ==
  /\ hover # NoHover /\ hover' = NoHover
  /\ UNCHANGED <<binary, job, cfb, maps, content, layout, pending, stuck, recent, posted>>
Resize(w) ==
  /\ w # layout.width /\ RefreshWith(cfb, w, hover)
  /\ UNCHANGED <<binary, job, cfb, maps, content, hover, posted>>

Next ==
  \/ \E b \in DOMAIN Binaries : LoadProject(b) \/ \E o \in Binaries[b].tried : ObjectAdded(o)
  \/ StartCfg \/ Peek \/ EndCfg(<<>>) \/ EndCfg(<<"generated">>)
  \/ TimePasses \/ GuiRefresh \/ GuiPeek \/ GuiCfgGenerated \/ HoverLeave
  \/ \E x \in 0 .. layout.width - 1 : HoverAt(x)
  \/ \E w \in Widths : Resize(w)
Spec == Init /\ [][Next]_mapVars

-----------------------------------------------------------------------------
(* What is painted of region i when the addresses from low to high are visible, those at
   the left and the right of what is exposed: the level of detail by bytes per pixel, the
   intervals clipped to what is visible. *)
Level(y, i) ==
  LET bpp == y.regions[i].size \div y.widths[i]
      fits == {k \in DOMAIN BinWidths : bpp * 3 >= BinWidths[k]}
  IN  IF fits = {} THEN Len(BinWidths) ELSE Min(fits)
Visible(y, i, low, high) ==
  Max({low, y.regions[i].addr}) .. Min({high, y.regions[i].addr + y.regions[i].size - 1})
Painted(ms, y, i, low, high) ==
  LET seen == Visible(y, i, low, high)
      drawn == {q \in Irange(ms[Level(y, i)], Min(seen), Max(seen)) : q.tags # {}}
  IN  IF seen = {} THEN {}
      ELSE UNION {{<<a, q.tags>> : a \in seen \cap q.addr .. q.addr + q.size - 1} : q \in drawn}

Binned(k, a) == UNION {content[b] : b \in {b \in Addr : RoundDown(b, BinWidths[k]) = RoundDown(a, BinWidths[k])}}

(* "Overlapping intervals will have tag bits OR'd together", "adjacent intervals in the
   interval map have unique tags": however objects overlap, split and merge, whether they
   come one by one or all at once through the finer levels, each level says of each bin
   what was announced in it, in as few stops as that takes. *)
MapsAreCanonical ==
  \A k \in DOMAIN maps :
    /\ \A a \in Addr : TagsAt(maps[k], a) = Binned(k, a)
    /\ \A s \in DOMAIN maps[k] : maps[k][s] # IF s = 0 THEN {} ELSE TagsAt(maps[k], s - 1)

(* Whatever part of the strip is exposed, and however its ends are rounded to bytes, what
   irange returns, clipped, is painted on exactly the bytes between these that were
   announced, with their tags. *)
PaintIsContent ==
  \A i \in DOMAIN layout.regions, l, r \in 0 .. layout.width : l <= r =>
    \A low \in AddrsAtPosition(layout, l), high \in AddrsAtPosition(layout, r) :
      Painted(maps, layout, i, low, high) =
        {e \in {<<a, Binned(Level(layout, i), a)>> : a \in Visible(layout, i, low, high)} :
           e[2] # {}}

(* The byte selected by a click is one drawn where the click was: its left edge is not to
   the right of the mouse, its right edge not to the left.  It may be the byte that ends
   exactly there (see OffsetsAt). *)
ClickComesBack ==
  LET UpToMouse(a, x)   == LET p == PositionAtAddr(layout, a) IN p.x * p.d + p.n <= x * p.d
      FromMouseOn(a, x) == LET p == PositionAtAddr(layout, a) IN p.x * p.d + p.n >= x * p.d
  IN  layout.regions # <<>> => \A x \in 0 .. layout.width - 1 :
        \A a \in AddrsAtPosition(layout, x) : UpToMouse(a, x) /\ FromMouseOn(a + 1, x)

(* Once the last job has delivered its CFB the strip shows that CFB and nothing that was
   announced on the way, laid out in its regions, with no refresh owed. *)
SettledMapIsCfb ==
  (~job.on /\ posted = <<>> /\ cfb.made = <<job.n, "final">>) =>
    content = ContentOf(cfb.items) /\ layout = LaidOut(cfb, layout.width) /\ ~pending

(* While a refresh is marked as pending one is on its way, or else objects announced later
   are not shown before the final CFB: the one way to that is a hover over a region that
   went away with the previous CFB. *)
RefreshIsComing == pending => "refresh" \in ToSet(posted) \/ stuck
=============================================================================
