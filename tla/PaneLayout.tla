----------------------------- MODULE PaneLayout -----------------------------
(***************************************************************************)
(* The split-pane layout: a binary tree of splits whose leaves are panes,  *)
(* each with an ordered group of tabs, and the callbacks of the window     *)
(* that change it.  All of it runs on the UI thread, one callback after    *)
(* the other; every callback ends by showing the changed layout, so the    *)
(* panes, tabs and splitters the user acts on are those of the tree.       *)
(* Positions and sizes are whole pixels, ratios fractions <<pixels, len>>. *)
(***************************************************************************)
EXTENDS Integers, Sequences, FiniteSets, SequencesExt

CONSTANTS
  Sessions,      (* tabs of sessions                                       *)
  Welcome,       (* the welcome tab                                        *)
  NoTab,         (* an empty pane shows no tab: ""                         *)
  MaxId,         (* bound: ids handed out                                  *)
  Sizes,         (* sizes <<w, h>> of the content area                     *)
  Positions      (* positions a splitter is dragged to                     *)

ASSUME WelcomeAssumption == Welcome \notin Sessions
ASSUME NoTabAssumption == NoTab \notin Sessions \cup {Welcome}

VARIABLES
  root, focused, nextId,     (* Layout                                     *)
  rows,          (* tabs_model without its welcome row                     *)
  asSidebar,     (* welcome-as-sidebar mode                                *)
  content,       (* content_size                                           *)
  panicked       (* f32::clamp was given bounds in the wrong order         *)

vars == <<root, focused, nextId, rows, asSidebar, content, panicked>>

Tabs == Sessions \cup {Welcome}
PaneIds == 1 .. MaxId
Splitter == 6
MinPane == 80
Strip == 36

-----------------------------------------------------------------------------
(* The tree.                                                               *)

Leaf(id, tabs, active) ==
  [kind |-> "leaf", id |-> id, tabs |-> tabs, active |-> active]

Split(id, dir, ratio, first, second) ==
  [kind |-> "split", id |-> id, dir |-> dir, ratio |-> ratio,
   first |-> first, second |-> second]

IsLeaf(n) == n.kind = "leaf"
IsEmptyLeaf(n) == IsLeaf(n) /\ n.tabs = <<>>

(* for_each_leaf.                                                          *)
RECURSIVE Leaves(_)
Leaves(n) == IF IsLeaf(n) THEN <<n>> ELSE Leaves(n.first) \o Leaves(n.second)

LeafSet(n) == ToSet(Leaves(n))
LeafIds(n) == {l.id : l \in LeafSet(n)}

(* find_leaf, take_leaf and leaf_mut take the first one in order.          *)
FindLeaf(n, id) == SelectSeq(Leaves(n), LAMBDA l : l.id = id)[1]

(* leaf_of_tab.                                                            *)
Owners(n, t) == SelectSeq(Leaves(n), LAMBDA l : Contains(l.tabs, t))
HasTab(n, t) == Owners(n, t) # <<>>
LeafOfTab(n, t) == Owners(n, t)[1].id

(* put_node.                                                               *)
RECURSIVE PutNode(_, _, _)
PutNode(n, id, new) ==
  CASE IsLeaf(n) -> IF n.id = id THEN new ELSE n
    [] ~IsLeaf(n) /\ id \in LeafIds(n.first) ->
         [n EXCEPT !.first = PutNode(@, id, new)]
    [] OTHER -> [n EXCEPT !.second = PutNode(@, id, new)]

(* set_split_ratio.                                                        *)
RECURSIVE SetSplitRatio(_, _, _)
SetSplitRatio(n, id, r) ==
  CASE IsLeaf(n) -> n
    [] ~IsLeaf(n) /\ n.id = id -> [n EXCEPT !.ratio = r]
    [] OTHER -> [n EXCEPT !.first = SetSplitRatio(@, id, r),
                          !.second = SetSplitRatio(@, id, r)]

(* prune_node: bottom-up, a split with an empty child becomes the other.   *)
RECURSIVE PruneNode(_)
PruneNode(n) ==
  IF IsLeaf(n) THEN n
  ELSE LET first == PruneNode(n.first)
           second == PruneNode(n.second)
       IN CASE IsEmptyLeaf(first)  -> second
            [] IsEmptyLeaf(second) -> first
            [] OTHER -> [n EXCEPT !.first = first, !.second = second]

(* Mutant: the last tab takes the place of the removed one.                *)
Detached_SwapsLast(l, t) ==
  LET rest == [i \in 1 .. Len(l.tabs) - 1 |->
                 IF l.tabs[i] = t THEN Last(l.tabs) ELSE l.tabs[i]] IN
  Leaf(l.id, rest,
       IF l.active # t THEN l.active ELSE IF rest = <<>> THEN NoTab ELSE Last(rest))

(* Taking a tab out of a leaf; the last one of the rest is shown next.     *)
Detached(l, t) ==
  LET rest == Remove(l.tabs, t) IN
  Leaf(l.id, rest,
       IF l.active # t THEN l.active ELSE IF rest = <<>> THEN NoTab ELSE Last(rest))

Attached(l, t) == Leaf(l.id, Append(l.tabs, t), t)

-----------------------------------------------------------------------------
(* The tree flattened to rectangles.                                       *)

Rect(n, x, y, w, h) == [id |-> n.id, x |-> x, y |-> y, w |-> w, h |-> h]

Fraction(len, ratio) == (len * ratio[1]) \div ratio[2]

Room(len) == IF len < Splitter THEN 0 ELSE len - Splitter

RECURSIVE Panes(_, _, _, _, _)
Panes(n, x, y, w, h) ==
  IF IsLeaf(n) THEN {Rect(n, x, y, w, h)}
  ELSE IF n.dir = "horizontal"
       THEN LET fw == Fraction(Room(w), n.ratio) IN
            Panes(n.first, x, y, fw, h)
              \cup Panes(n.second, x + fw + Splitter, y, Room(w) - fw, h)
       ELSE LET fh == Fraction(Room(h), n.ratio) IN
            Panes(n.first, x, y, w, fh)
              \cup Panes(n.second, x, y + fh + Splitter, w, Room(h) - fh)

(* The splitters, each with the start and length of its split's axis.      *)
RECURSIVE Splitters(_, _, _, _, _)
Splitters(n, x, y, w, h) ==
  IF IsLeaf(n) THEN {}
  ELSE IF n.dir = "horizontal"
       THEN LET fw == Fraction(Room(w), n.ratio) IN
            {[id |-> n.id, start |-> x, len |-> w]}
              \cup Splitters(n.first, x, y, fw, h)
              \cup Splitters(n.second, x + fw + Splitter, y, Room(w) - fw, h)
       ELSE LET fh == Fraction(Room(h), n.ratio) IN
            {[id |-> n.id, start |-> y, len |-> h]}
              \cup Splitters(n.first, x, y, w, fh)
              \cup Splitters(n.second, x, y + fh + Splitter, w, Room(h) - fh)

PaneRects == Panes(root, 0, 0, content[1], content[2])
SplitterRects == Splitters(root, 0, 0, content[1], content[2])
-----------------------------------------------------------------------------
(* Layout's operations.                                                    *)

(* prune: focus that pointed at a removed leaf goes to the first one.      *)
Pruned(n, focus) ==
  LET tree == PruneNode(n) IN
  /\ root' = tree
  /\ focused' = IF focus \in LeafIds(tree) THEN focus ELSE Leaves(tree)[1].id

DetachedFrom(n, t) ==
  LET l == FindLeaf(n, LeafOfTab(n, t)) IN PutNode(n, l.id, Detached(l, t))

AttachedTo(n, p, t) == PutNode(n, p, Attached(FindLeaf(n, p), t))

SplitLeaf(p, dir, t, before) ==
  LET from == FindLeaf(root, LeafOfTab(root, t))
      target == FindLeaf(root, p)
      new == Leaf(nextId, <<t>>, t)
      wrapped == PutNode(root, p,
                   IF before THEN Split(nextId + 1, dir, <<1, 2>>, new, target)
                             ELSE Split(nextId + 1, dir, <<1, 2>>, target, new))
  IN /\ nextId <= MaxId
     /\ Pruned(PutNode(wrapped, from.id, Detached(from, t)), nextId)
     /\ nextId' = nextId + 2

MoveTab(t, to) ==
  /\ LeafOfTab(root, t) # to
  /\ Pruned(AttachedTo(DetachedFrom(root, t), to, t), to)
  /\ UNCHANGED nextId

(* Mutant: the pane is left as it is.                                      *)
RemoveTab_NoPrune(t) ==
  /\ root' = DetachedFrom(root, t)
  /\ UNCHANGED <<focused, nextId>>

RemoveTab(t) ==
  /\ Pruned(DetachedFrom(root, t), focused)
  /\ UNCHANGED nextId

AddTab(t, focus) ==
  LET p == IF focus \in LeafIds(root) THEN focus ELSE Leaves(root)[1].id IN
  /\ root' = AttachedTo(root, p, t)
  /\ focused' = focus
  /\ UNCHANGED nextId

(* Selecting a tab of a pane from its strip, from the session list or from *)
(* the welcome button: the pane gets the focus.                            *)
ShowTab(t) ==
  LET l == FindLeaf(root, LeafOfTab(root, t)) IN
  /\ root' = PutNode(root, l.id, Leaf(l.id, l.tabs, t))
  /\ focused' = l.id
  /\ UNCHANGED nextId

-----------------------------------------------------------------------------
(* The window's callbacks.                                                 *)

Init ==
  /\ asSidebar \in BOOLEAN
  /\ root = IF asSidebar THEN Leaf(1, <<>>, NoTab) ELSE Leaf(1, <<Welcome>>, Welcome)
  /\ focused = 1
  /\ nextId = 2
  /\ rows = {}
  /\ content \in Sizes
  /\ panicked = FALSE

windowVars == <<asSidebar, content, panicked>>

OpenSession(t) ==
  /\ t \in Sessions \ rows
  /\ rows' = rows \cup {t}
  /\ AddTab(t, focused)
  /\ UNCHANGED windowVars

(* on_tab_duplicate: the copy lands in the pane of its source.             *)
DuplicateTab(src, t) ==
  /\ src \in rows
  /\ t \in Sessions \ rows
  /\ rows' = rows \cup {t}
  /\ AddTab(t, LeafOfTab(root, src))
  /\ UNCHANGED windowVars

CloseTab(t) ==
  /\ t \in rows
  /\ rows' = rows \ {t}
  /\ RemoveTab(t)
  /\ UNCHANGED windowVars

SelectTab(t) ==
  /\ HasTab(root, t)
  /\ ShowTab(t)
  /\ UNCHANGED <<rows, windowVars>>

FocusPane(p) ==
  /\ focused' = p
  /\ UNCHANGED <<root, nextId, rows, windowVars>>

(* on_pane_tab_reorder: the tab at a place swaps with its neighbour.       *)
ReorderTab(p, i, dir) ==
  LET l == FindLeaf(root, p)
      j == i + dir
  IN /\ {i, j} \subseteq DOMAIN l.tabs
     /\ root' = PutNode(root, p,
                  Leaf(p, [l.tabs EXCEPT ![i] = l.tabs[j], ![j] = l.tabs[i]],
                       l.active))
     /\ UNCHANGED <<focused, nextId, rows, windowVars>>

(* on_pane_split: from the tab's menu, in a pane that has others.          *)
SplitPane(t, dir, before) ==
  /\ HasTab(root, t)
  /\ LET l == FindLeaf(root, LeafOfTab(root, t)) IN
       /\ Len(l.tabs) > 1
       /\ SplitLeaf(l.id, dir, t, before)
  /\ UNCHANGED <<rows, windowVars>>

(* drag_target: panes the pointer can be over, below the tab strip.        *)
DropTargets == {r.id : r \in {q \in PaneRects : q.w > 0 /\ q.h > Strip}}

(* on_tab_drag_drop: on an edge, and in the middle.                        *)
DropOnEdge(t, p, dir, before) ==
  /\ HasTab(root, t)
  /\ SplitLeaf(p, dir, t, before)
  /\ UNCHANGED <<rows, windowVars>>

DropInside(t, p) ==
  /\ HasTab(root, t)
  /\ MoveTab(t, p)
  /\ UNCHANGED <<rows, windowVars>>

(* Mutant: no clamp.                                                       *)
Clamped_Not(d, len) == d

(* set_ratio's clamp to [min, 1 - min] with min = MinPane / len, times len.*)
Clamped(d, len) ==
  IF d < MinPane THEN MinPane ELSE IF d > len - MinPane THEN len - MinPane ELSE d

(* on_splitter_drag; f32::clamp panics when min > max.                     *)
DragSplitter(s, pos) ==
  /\ s.len > 0
  /\ IF MinPane > s.len - MinPane
     THEN panicked' = TRUE /\ UNCHANGED root
     ELSE /\ root' = SetSplitRatio(root, s.id, <<Clamped(pos - s.start, s.len), s.len>>)
          /\ UNCHANGED panicked
  /\ UNCHANGED <<focused, nextId, rows, asSidebar, content>>

ContentResized(size) ==
  /\ content' = size
  /\ content' # content
  /\ UNCHANGED <<root, focused, nextId, rows, asSidebar, panicked>>

(* on_set_welcome_as_sidebar.                                              *)
SetWelcomeAsSidebar(v) ==
  /\ asSidebar' = v
  /\ \/ v /\ HasTab(root, Welcome) /\ RemoveTab(Welcome)
     \/ ~v /\ ~HasTab(root, Welcome) /\ AddTab(Welcome, focused)
  /\ UNCHANGED <<rows, content, panicked>>

Next ==
  /\ ~panicked
  /\ \/ \E t \in Sessions : OpenSession(t) \/ CloseTab(t)
     \/ \E src, t \in Sessions : DuplicateTab(src, t)
     \/ \E t \in Tabs : SelectTab(t)
     \/ \E p \in LeafIds(root) : FocusPane(p)
     \/ \E p \in LeafIds(root), i \in 1 .. Cardinality(Tabs), dir \in {-1, 1} :
          ReorderTab(p, i, dir)
     \/ \E t \in Tabs, dir \in {"horizontal", "vertical"}, before \in BOOLEAN :
          \/ SplitPane(t, dir, before)
          \/ \E p \in DropTargets : DropOnEdge(t, p, dir, before)
     \/ \E t \in Tabs, p \in DropTargets : DropInside(t, p)
     \/ \E s \in SplitterRects, pos \in Positions : DragSplitter(s, pos)
     \/ \E size \in Sizes : ContentResized(size)
     \/ \E v \in BOOLEAN : SetWelcomeAsSidebar(v)

Spec == Init /\ [][Next]_vars

-----------------------------------------------------------------------------
(* Properties.                                                             *)

LeafType == [kind : {"leaf"}, id : PaneIds, tabs : Seq(Tabs), active : Tabs \cup {NoTab}]

RECURSIVE SplitIds(_)
SplitIds(n) ==
  IF IsLeaf(n) THEN <<>> ELSE <<n.id>> \o SplitIds(n.first) \o SplitIds(n.second)

(* Every leaf is one, and no id is used twice in the tree.                 *)
TypeOK ==
  /\ LeafSet(root) \subseteq LeafType
  /\ focused \in PaneIds
  /\ rows \subseteq Sessions
  /\ asSidebar \in BOOLEAN
  /\ panicked \in BOOLEAN
  /\ LET ids == SplitIds(root) \o [i \in DOMAIN Leaves(root) |-> Leaves(root)[i].id]
     IN IsInjective(ids) /\ \A i \in DOMAIN ids : ids[i] < nextId

(* The tree keeps what PaneGroups promises of its panes.                   *)
Groups == INSTANCE PaneGroups WITH
  panes <- [p \in LeafIds(root) |->
              [tabs |-> ToSet(FindLeaf(root, p).tabs),
               active |-> FindLeaf(root, p).active]]

RefinesPaneGroups == Groups!Spec

(* The panes never overlap.                                                *)
Overlap(a, b) ==
  /\ a.x < b.x + b.w /\ b.x < a.x + a.w
  /\ a.y < b.y + b.h /\ b.y < a.y + a.h

PanesDisjoint ==
  \A a, b \in PaneRects : a.id # b.id => ~Overlap(a, b)

(* The tree is one of panes with ids of their own, and what is drawn of it *)
(* fits together, after any drag, split and resize.                        *)
LayoutIsSound == TypeOK /\ PanesDisjoint

(* Only the user's reordering changes the order of two tabs that stay      *)
(* together: opening, closing, moving and splitting keep it.               *)
InOrder(n, a, b) ==
  \E l \in LeafSet(n) : \E i, j \in DOMAIN l.tabs :
    i < j /\ l.tabs[i] = a /\ l.tabs[j] = b

StripsKeepOrder ==
  [][{ToSet(l.tabs) : l \in LeafSet(root)} # {ToSet(l.tabs) : l \in LeafSet(root')}
     => \A a, b \in Tabs : ~(InOrder(root, a, b) /\ InOrder(root', b, a))]_vars
=============================================================================
