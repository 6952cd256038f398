----------------------------- MODULE LiveRanges -----------------------------
(* A live range over the trees of two documents: the mutations of a tree    *)
(* (dom/insertion.rs, dom/adoption.rs, splitText, normalize, replace data), *)
(* the adjustment each owes to the boundary points (dom/range.rs) and the   *)
(* operations of the Range object (bindings/range.rs). Nodes are elements,  *)
(* fragments and texts; a text is its length. The document node, whose      *)
(* content model is stricter, and the copies made by adoption and by        *)
(* extractContents are left out: both remove nodes from the source tree as  *)
(* Remove and DeleteContents do.                                            *)
EXTENDS Integers, Sequences, FiniteSets, SequencesExt

CONSTANTS
    RangeElements,   \* nodes that take children
    Fragments,  \* document fragments: an insertion moves their children
    Texts,      \* character data
    Home,       \* the nodes of the first document; the others are of a second one
    Attributed, \* elements with an attribute node
    Origin,     \* the element where the range starts out
    MaxText     \* bound on the length of a text

Parents == RangeElements \cup Fragments
TreeNodes == Parents \cup Texts
NoNode == "none"

ASSUME RangeAssumption ==
    /\ NoNode \notin TreeNodes
    /\ Parents \cap Texts = {} /\ RangeElements \cap Fragments = {}
    /\ Home \subseteq TreeNodes /\ Attributed \subseteq RangeElements
    /\ Origin \in RangeElements
    /\ MaxText \in Nat

VARIABLES
    tree,   \* [kids, up, len]: children, parent and text length of the nodes
    range   \* [start, end, attr, doc]: the slot and the document that holds it

rangeVars == <<tree, range>>

DocOf(n) == IF n \in Home THEN "home" ELSE "other"

----------------------------------------------------------------------------
(* Trees. *)

Kids(T, p) == IF p \in Texts THEN <<>> ELSE T.kids[p]
ParentOf(T, n) == T.up[n]
IndexOf(T, p, n) == (CHOOSE i \in DOMAIN T.kids[p] : T.kids[p][i] = n) - 1
NextSibling(T, n) ==
    LET p == ParentOf(T, n) IN
    IF p = NoNode \/ IndexOf(T, p, n) + 1 = Len(T.kids[p]) THEN NoNode ELSE T.kids[p][IndexOf(T, p, n) + 2]
NodeLength(T, n) == IF n \in Texts THEN T.len[n] ELSE Len(T.kids[n])

\* A node and its ancestors, innermost first.
Line(T, n) ==
    LET up[x \in TreeNodes] == LET p == ParentOf(T, x) IN IF p = NoNode THEN <<x>> ELSE <<x>> \o up[p]
    IN  up[n]
IsInclusiveAncestor(T, a, n) == Contains(Line(T, n), a)
RootOf(T, n) == Last(Line(T, n))
SameRoot(T, a, b) == RootOf(T, a) = RootOf(T, b)

\* The child of p on the way down to n.
ChildTowards(T, p, n) == CHOOSE c \in ToSet(Kids(T, p)) : IsInclusiveAncestor(T, c, n)
CommonAncestor(T, a, b) ==
    LET line == Line(T, a) IN line[CHOOSE i \in DOMAIN line :
        /\ IsInclusiveAncestor(T, line[i], b)
        /\ \A j \in 1..(i - 1) : ~IsInclusiveAncestor(T, line[j], b)]

\* position: x comes before y in tree order; both have one root.
Before(T, x, y) ==
    IF x.node = y.node THEN x.offset < y.offset
    ELSE LET p == CommonAncestor(T, x.node, y.node)
             index(z) == IndexOf(T, p, ChildTowards(T, p, z.node))
         IN  IF x.node = p THEN x.offset <= index(y)
             ELSE IF y.node = p THEN index(x) < y.offset
             ELSE index(x) < index(y)

----------------------------------------------------------------------------
(* The adjustments of one boundary point. *)

Point(n, k) == [node |-> n, offset |-> k]

AdjustForInsertShort(pt, p, i, count) == IF pt.node = p /\ pt.offset > i + 1 THEN Point(p, pt.offset + count) ELSE pt
AdjustForInsert(pt, p, i, count) == IF pt.node = p /\ pt.offset > i THEN Point(p, pt.offset + count) ELSE pt

AdjustForRemoveShallow(T, pt, p, i, n) ==
    IF pt.node = n THEN Point(p, i)
    ELSE IF pt.node = p /\ pt.offset > i THEN Point(p, pt.offset - 1) ELSE pt
AdjustForRemove(T, pt, p, i, n) ==
    IF IsInclusiveAncestor(T, n, pt.node) THEN Point(p, i)
    ELSE IF pt.node = p /\ pt.offset > i THEN Point(p, pt.offset - 1) ELSE pt

AdjustForReplaceData(pt, n, offset, count, length) ==
    IF pt.node # n \/ pt.offset <= offset THEN pt
    ELSE IF pt.offset <= offset + count THEN Point(n, offset)
    ELSE Point(n, pt.offset + length - count)

AdjustForNormalize(pt, n, dying, p, i, length) ==
    IF pt.node = dying THEN Point(n, pt.offset + length)
    ELSE IF pt.node = p /\ pt.offset = i THEN Point(n, length) ELSE pt

AdjustForSplit(pt, n, new, p, i, offset) ==
    IF pt.node = n /\ pt.offset > offset THEN Point(new, pt.offset - offset)
    ELSE IF pt.node = p /\ pt.offset = i + 1 THEN Point(p, pt.offset + 1) ELSE pt

AdjustForReplaceAll(T, pt, p) == IF IsInclusiveAncestor(T, p, pt.node) THEN Point(p, 0) ELSE pt

----------------------------------------------------------------------------
(* Mutations, as functions on a document state D == [kids, up, len,         *)
(* start, end]. The hooks walk the range table of the document that is mutated, so *)
(* they reach the range only when its slot is there.                        *)

State == [kids |-> tree.kids, up |-> tree.up, len |-> tree.len, start |-> range.start, end |-> range.end, doc |-> range.doc]
Hook(D, n, Adjust(_)) ==
    IF D.doc = DocOf(n) THEN [D EXCEPT !.start = Adjust(@), !.end = Adjust(@)] ELSE D

\* unlink_journaled, detach_for_adopt.
Unlink(D, n) ==
    LET p == ParentOf(D, n) IN
    IF p = NoNode THEN D
    ELSE LET i == IndexOf(D, p, n)
             E == [D EXCEPT !.kids[p] = RemoveAt(@, i + 1), !.up[n] = NoNode]
         IN  Hook(E, n, LAMBDA pt : AdjustForRemove(E, pt, p, i, n))

Adopt(up, p, ns) == [n \in TreeNodes |-> IF n \in ns THEN p ELSE up[n]]
\* place_journaled: an append shifts nothing.
PutBefore(D, p, ns, ref) ==
    LET at == IF ref = NoNode THEN Len(D.kids[p]) ELSE IndexOf(D, p, ref)
    IN  [D EXCEPT !.kids[p] = SubSeq(@, 1, at) \o ns \o SubSeq(@, at + 1, Len(@)), !.up = Adopt(@, p, ToSet(ns))]
Place(D, p, ns, ref) ==
    LET E == PutBefore(D, p, ns, ref) IN
    IF ref = NoNode THEN E
    ELSE Hook(E, p, LAMBDA pt : AdjustForInsert(pt, p, IndexOf(D, p, ref), Len(ns)))

\* adjust_children_leaving: the children leave the fragment one by one.
LeaveFragment(D, f) == FoldLeft(LAMBDA E, n : Unlink(E, n), D, D.kids[f])

\* insert_parsed, splice_parsed.
Inserted(D, p, n, ref) ==
    IF n \in Fragments
    THEN LET moved == D.kids[n] IN Place(LeaveFragment(D, n), p, moved, ref)
    ELSE Place(Unlink(D, n), p, <<n>>, IF ref = n THEN NextSibling(D, n) ELSE ref)

\* replace_parsed; reference is the next sibling of old that is not node.
Replaced(D, p, n, old) ==
    IF n = old THEN Inserted(D, p, n, n)
    ELSE LET next == NextSibling(D, old)
             ref == IF next = n THEN NextSibling(D, n) ELSE next
             moved == IF n \in Fragments THEN D.kids[n] ELSE <<n>>
             E == IF n \in Fragments THEN LeaveFragment(D, n) ELSE Unlink(D, n)
         IN  Place(Unlink(E, old), p, moved, ref)

\* replace_all_with_node, replace_all_journaled.
ReplacedAll(D, p, n) ==
    LET added == IF n = NoNode THEN <<>> ELSE IF n \in Fragments THEN D.kids[n] ELSE <<n>>
        E == IF n \in Fragments THEN LeaveFragment(D, n) ELSE D
        F == Hook(E, p, LAMBDA pt : IF E.kids[p] = <<>> THEN pt ELSE AdjustForReplaceAll(E, pt, p))
        G == FoldLeft(LAMBDA H, c : Unlink(H, c), [F EXCEPT !.kids[p] = <<>>, !.up = Adopt(@, NoNode, ToSet(E.kids[p]))], added)
    IN  [G EXCEPT !.kids[p] = added, !.up = Adopt(@, p, ToSet(added))]

\* replace_character_data.
DataReplaced(D, t, offset, count, length) ==
    LET E == [D EXCEPT !.len[t] = @ - count + length]
    IN  Hook(E, t, LAMBDA pt : AdjustForReplaceData(pt, t, offset, count, length))

\* split_text_node: new takes the tail of t.
SplitAt(D, t, offset, new) ==
    LET p == ParentOf(D, t)
        E == [D EXCEPT !.len[new] = D.len[t] - offset]
    IN  IF p = NoNode THEN DataReplaced(E, t, offset, D.len[t] - offset, 0)
        ELSE LET i == IndexOf(D, p, t)
                 F == Place(E, p, <<new>>, NextSibling(D, t))
                 G == Hook(F, t, LAMBDA pt : AdjustForSplit(pt, t, new, p, i, offset))
             IN  [G EXCEPT !.len[t] = offset]

\* normalize, one container: merged is the text that takes the next ones up.
NormalizedKid(A, p, n) ==
    IF n \notin Texts THEN [A EXCEPT !.merged = NoNode]
    ELSE IF A.D.len[n] = 0 THEN [A EXCEPT !.D = Unlink(@, n)]
    ELSE IF A.merged = NoNode THEN [A EXCEPT !.merged = n]
    ELSE LET length == A.D.len[A.merged]
             i == IndexOf(A.D, p, n)
             E == Hook(A.D, p, LAMBDA pt : AdjustForNormalize(pt, A.merged, n, p, i, length))
         IN  [A EXCEPT !.D = Unlink([E EXCEPT !.len[A.merged] = length + A.D.len[n]], n)]
Normalized(D, p) ==
    FoldLeft(LAMBDA A, n : NormalizedKid(A, p, n), [D |-> D, merged |-> NoNode], D.kids[p]).D

----------------------------------------------------------------------------
(* The operations a script may call. *)

InstallTree(D) ==
    /\ tree' = [kids |-> D.kids, up |-> D.up, len |-> D.len]
    /\ range' = [range EXCEPT !.start = D.start, !.end = D.end]

\* ensure_no_cycle, ensure_parented and the classification of the node.
MayInsert(p, n, ref) ==
    /\ p \in Parents /\ DocOf(p) = DocOf(n)
    /\ ~IsInclusiveAncestor(tree, n, p)
    /\ ref = NoNode \/ Contains(tree.kids[p], ref)

InsertBefore(p, n, ref) == MayInsert(p, n, ref) /\ InstallTree(Inserted(State, p, n, ref))
RangeRemove(n) == n \notin Fragments /\ ParentOf(tree, n) # NoNode /\ InstallTree(Unlink(State, n))
ReplaceChild(p, n, old) == MayInsert(p, n, old) /\ old # NoNode /\ InstallTree(Replaced(State, p, n, old))
ReplaceChildren(p, n) == (n = NoNode \/ MayInsert(p, n, NoNode)) /\ InstallTree(ReplacedAll(State, p, n))
\* ensure_can_move, move_parsed: within one tree, with the range steps of a removal.
RangeMoveBefore(p, n, ref) ==
    /\ MayInsert(p, n, ref)
    /\ n \notin Fragments /\ SameRoot(tree, p, n) /\ ParentOf(tree, n) # NoNode
    /\ InstallTree(Inserted(State, p, n, ref))
ReplaceData(t, offset, count, length) ==
    /\ offset + count <= tree.len[t] /\ tree.len[t] - count + length <= MaxText
    /\ InstallTree(DataReplaced(State, t, offset, count, length))
\* A fresh text is one that nothing refers to.
FreshNode(t) == ParentOf(tree, t) = NoNode /\ t \notin {range.start.node, range.end.node}
SplitText(t, offset, new) ==
    /\ new # t /\ FreshNode(new) /\ DocOf(new) = DocOf(t)
    /\ offset <= tree.len[t]
    /\ InstallTree(SplitAt(State, t, offset, new))
Normalize(p) ==
    /\ \A i \in DOMAIN tree.kids[p] : tree.kids[p][i] \in Texts =>
          \A j \in DOMAIN tree.kids[p] : tree.kids[p][j] \in Texts /\ i # j =>
             tree.len[tree.kids[p][i]] + tree.len[tree.kids[p][j]] <= MaxText
    /\ InstallTree(Normalized(State, p))

----------------------------------------------------------------------------
(* The operations of the Range object; tree points and attributes. *)

\* save: the slot follows the document of the state.
Save(D, attr) ==
    /\ tree' = [kids |-> D.kids, up |-> D.up, len |-> D.len]
    /\ range' = [start |-> D.start, end |-> D.end, attr |-> attr,
                 doc |-> DocOf(IF attr = NoNode THEN D.start.node ELSE attr)]
SavePoints(start, end, attr) == Save([State EXCEPT !.start = start, !.end = end], attr)

\* set_start_point, set_end_point.
StartPoint(pt) ==
    [start |-> pt,
     end |-> IF range.attr # NoNode \/ ~SameRoot(tree, range.start.node, pt.node) \/ Before(tree, range.end, pt)
             THEN pt ELSE range.end]
EndPoint(pt) ==
    [end |-> pt,
     start |-> IF range.attr # NoNode \/ ~SameRoot(tree, range.end.node, pt.node) \/ Before(tree, pt, range.start)
               THEN pt ELSE range.start]

\* check_point and the setters relative to a sibling, which pick such a point.
SetStart(pt) == LET r == StartPoint(pt) IN SavePoints(r.start, r.end, NoNode)
SetEnd(pt) == LET r == EndPoint(pt) IN SavePoints(r.start, r.end, NoNode)
\* RangeState::attribute: the same for either end.
SetAttribute(a) == a \in Attributed /\ SavePoints(Point(a, 0), Point(a, 0), a)
SelectNode(n) ==
    LET p == ParentOf(tree, n) IN
    /\ p # NoNode
    /\ SavePoints(Point(p, IndexOf(tree, p, n)), Point(p, IndexOf(tree, p, n) + 1), range.attr)
SelectNodeContents(n) == SavePoints(Point(n, 0), Point(n, NodeLength(tree, n)), NoNode)
Collapse(toStart) ==
    IF toStart THEN SavePoints(range.start, range.start, range.attr) ELSE SavePoints(range.end, range.end, range.attr)

CollapsePoint(T) ==
    LET s == range.start
        top == ChildTowards(T, CommonAncestor(T, s.node, range.end.node), s.node)
    IN  IF IsInclusiveAncestor(T, s.node, range.end.node) THEN s
        ELSE Point(ParentOf(T, top), IndexOf(T, ParentOf(T, top), top) + 1)
IsContained(T, n) ==
    /\ SameRoot(T, n, range.start.node)
    /\ Before(T, range.start, Point(n, 0)) /\ Before(T, Point(n, NodeLength(T, n)), range.end)
\* collect_contained: the topmost contained nodes.
Doomed(T) == {n \in TreeNodes : IsContained(T, n) /\ (ParentOf(T, n) = NoNode \/ ~IsContained(T, ParentOf(T, n)))}
DeleteContents ==
    LET s == range.start  e == range.end  pt == CollapsePoint(tree)
        A == [State EXCEPT !.start = pt, !.end = pt, !.doc = DocOf(pt.node)]
        B == IF s.node \in Texts THEN DataReplaced(A, s.node, s.offset, A.len[s.node] - s.offset, 0) ELSE A
        C == FoldLeft(LAMBDA F, n : Unlink(F, n), B, SetToSeq(Doomed(tree)))
        E == IF e.node \in Texts THEN DataReplaced(C, e.node, 0, e.offset, 0) ELSE C
    IN  /\ s # e
        /\ IF s.node = e.node /\ s.node \in Texts
           THEN InstallTree(DataReplaced(State, s.node, s.offset, e.offset - s.offset, 0))
           ELSE Save(E, NoNode)

\* insertNode: new is the text a split creates.
RangeInsert(n, new) ==
    LET s == range.start
        split == s.node \in Texts
        p == IF split THEN ParentOf(tree, s.node) ELSE s.node
        target == IF split THEN s.node ELSE IF s.offset < Len(tree.kids[p]) THEN tree.kids[p][s.offset + 1] ELSE NoNode
        A == IF split THEN SplitAt(State, s.node, s.offset, new) ELSE State
        first == IF split THEN new ELSE target
        ref == IF first = n THEN NextSibling(A, n) ELSE first
        B == Inserted(A, p, n, ref)
        end == Point(p, IF ref = NoNode THEN Len(B.kids[p]) ELSE IndexOf(B, p, ref))
    IN  /\ range.attr = NoNode
        /\ n # s.node /\ p # NoNode
        /\ MayInsert(p, n, target)
        /\ split => new \in Texts \ {n} /\ FreshNode(new) /\ DocOf(new) = DocOf(p)
        /\ ~split => new = NoNode
        /\ IF B.start = B.end THEN Save([B EXCEPT !.end = end], NoNode) ELSE InstallTree(B)

----------------------------------------------------------------------------

RangeInit ==
    /\ tree \in [kids : {[p \in Parents |-> <<>>]}, up : {[n \in TreeNodes |-> NoNode]}, len : [Texts -> 0..MaxText]]
    /\ range = [start |-> Point(Origin, 0), end |-> Point(Origin, 0), attr |-> NoNode, doc |-> DocOf(Origin)]

Refs == TreeNodes \cup {NoNode}
Points == [node : TreeNodes, offset : 0..(Cardinality(TreeNodes) + MaxText)]

MutationStep ==
    \/ \E p \in Parents, n \in TreeNodes, ref \in Refs : InsertBefore(p, n, ref)
    \/ \E n \in TreeNodes : RangeRemove(n)
    \/ \E p \in Parents, n \in TreeNodes, old \in TreeNodes : ReplaceChild(p, n, old)
    \/ \E p \in Parents, n \in Refs : ReplaceChildren(p, n)
    \/ \E p \in Parents, n \in TreeNodes, ref \in Refs : RangeMoveBefore(p, n, ref)
DataStep ==
    \/ \E t \in Texts, offset, count, length \in 0..MaxText : ReplaceData(t, offset, count, length)
    \/ \E t, new \in Texts, offset \in 0..MaxText : SplitText(t, offset, new)
    \/ \E p \in Parents : Normalize(p)
RangeStep ==
    \/ \E n \in TreeNodes : \E k \in 0..NodeLength(tree, n) : SetStart(Point(n, k))
    \/ \E n \in TreeNodes : \E k \in 0..NodeLength(tree, n) : SetEnd(Point(n, k))
    \/ \E a \in Attributed : SetAttribute(a)
    \/ \E n \in TreeNodes : SelectNode(n)
    \/ \E n \in TreeNodes : SelectNodeContents(n)
    \/ \E toStart \in BOOLEAN : Collapse(toStart)
    \/ DeleteContents
    \/ \E n \in TreeNodes, new \in Refs : RangeInsert(n, new)

RangeNext == MutationStep \/ DataStep \/ RangeStep
RangeSpec == RangeInit /\ [][RangeNext]_rangeVars

----------------------------------------------------------------------------
(* Properties. *)

\* Type invariant of the trees and the slot: parents and children agree and a
\* fragment has no parent.
RangeTypeOK ==
    /\ tree.len \in [Texts -> 0..MaxText]
    /\ DOMAIN tree.kids = Parents
    /\ \A p \in Parents : ToSet(tree.kids[p]) \subseteq TreeNodes \ Fragments /\ IsInjective(tree.kids[p])
    /\ \A n \in TreeNodes, p \in Parents : tree.up[n] = p <=> Contains(tree.kids[p], n)
    /\ range.start \in Points /\ range.end \in Points
    /\ range.attr \in Attributed \cup {NoNode} /\ range.doc \in {"home", "other"}

\* dom/range.rs: through any sequence of tree mutations, data changes and
\* Range calls the two points of a range with tree points lie in one tree,
\* inside their nodes, and the start is not after the end.
RangeValid ==
    range.attr = NoNode =>
        /\ SameRoot(tree, range.start.node, range.end.node)
        /\ range.start.offset <= NodeLength(tree, range.start.node)
        /\ range.end.offset <= NodeLength(tree, range.end.node)
        /\ ~Before(tree, range.end, range.start)

\* bindings/range.rs save: the slot is in the table of the document of its
\* points, the one the mutation hooks walk.
SlotFollowsPoints == range.attr = NoNode => range.doc = DocOf(range.start.node) /\ range.doc = DocOf(range.end.node)

\* A live range stays a range: in one tree, in bounds, in order and filed with
\* the document whose mutations adjust it.
RangesSafe ==
    RangeTypeOK /\ RangeValid /\ SlotFollowsPoints

\* The nodes in the tree of a point, and those of them that begin in front of it.
Around(T, pt) == LET root == RootOf(T, pt.node) IN {x \in TreeNodes : RootOf(T, x) = root}
Ahead(T, pt, around) == {x \in around : ~Before(T, pt, Point(x, 0))}
Crossing(pt, later) ==
    LET both == Around(tree, pt) \cap Around(tree', later)
        was == Ahead(tree, pt, both)
        is == Ahead(tree', later, both)
    IN  (was \ is) \cup (is \ was)
\* x lies in a subtree the step moves, to another parent or within its own.
MovedWith(x) ==
    \E i \in DOMAIN Line(tree, x) : LET n == Line(tree, x)[i] IN
        \/ ParentOf(tree, n) # ParentOf(tree', n)
        \/ \E p \in Parents, ref \in Refs : InsertBefore(p, n, ref) \/ ReplaceChild(p, n, ref)
        \/ \E p \in Parents : ReplaceChildren(p, n)
        \/ \E new \in Refs : RangeInsert(n, new)
\* The adjust_for_* hooks: a mutation never carries a node across a boundary
\* point, except the nodes it moves itself and, for the end, the rest of what
\* deleteContents cuts.
NothingCrosses ==
    tree'.kids # tree.kids =>
       /\ \A x \in Crossing(range.start, range'.start) : MovedWith(x)
       /\ \A x \in Crossing(range.end, range'.end) : MovedWith(x) \/ DeleteContents

\* The characters of the tree in front of a point.
CharsBefore(T, pt) ==
    LET ahead == {t \in Texts \ {pt.node} : SameRoot(T, t, pt.node) /\ Before(T, Point(t, 0), pt)}
    IN  SumFunctionOnSet(T.len, ahead) + (IF pt.node \in Texts THEN pt.offset ELSE 0)
Reshapes ==
    \/ \E t, new \in Texts, offset \in 0..MaxText : ParentOf(tree, t) # NoNode /\ SplitText(t, offset, new)
    \/ \E p \in Parents : Normalize(p)
\* splitText of a child and normalize rearrange text without moving a point
\* over a character.
CharsKept ==
    \/ tree'.kids = tree.kids
    \/ /\ CharsBefore(tree, range.start) = CharsBefore(tree', range'.start)
       /\ CharsBefore(tree, range.end) = CharsBefore(tree', range'.end)
    \/ ~Reshapes

\* What no mutation does to a live range.
RangeSteps == [NothingCrosses /\ CharsKept]_rangeVars
=============================================================================
