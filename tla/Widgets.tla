------------------------------ MODULE Widgets -------------------------------
(***************************************************************************)
(* The GUI: a tree of widgets under a desktop (widget.cpp, desktop.cpp),   *)
(* how mouse and key events find their widget, and the pointer.            *)
(*                                                                         *)
(* A widget is constructed with its parent and its rectangle, relative to  *)
(* the parent, and shows up once addChild() has put it into the parent's   *)
(* array.  Key and mouse-up events change nothing: where they would go is  *)
(* KeyTarget and Hit.  The definitions that no action uses are wrong: each  *)
(* makes a slip that a property must notice.                               *)
(***************************************************************************)
EXTENDS Integers, Sequences

CONSTANTS
  Desktop,         \* the root
  Windows,         \* the other CompositeWidgets
  Leaves,          \* the Widgets that are no composites
  None,            \* a null pointer
  Parent,          \* constructor arguments of windows and leaves
  Layouts,
  MaxChildren,     \* length of the array children (100 in the source)
  Motions          \* what one mouse event reports, on each axis

Composites == Windows \cup {Desktop}
Children   == Windows \cup Leaves
Widgets    == Composites \cup Leaves

ASSUME WidgetAssumption ==
  /\ Desktop \notin Children /\ Windows \cap Leaves = {} /\ None \notin Widgets
  /\ Parent \in [Children -> Composites]
\* Of any windows one is constructed first, before the others can be its parent,
\* and one last.
ASSUME NestingAssumption ==
  \A W \in SUBSET Windows : W # {} =>
    /\ \E first \in W : Parent[first] \notin W
    /\ \E last \in W : \A w \in W : Parent[w] # last
ASSUME LayoutAssumption ==
  /\ Layouts \subseteq [Widgets -> [x : Int, y : Int, w : Nat, h : Nat]]
  /\ \A box \in Layouts :
       /\ box[Desktop].x = 0 /\ box[Desktop].y = 0
       /\ box[Desktop].w > 0 /\ box[Desktop].h > 0
ASSUME MaxChildrenAssumption == MaxChildren \in Nat
ASSUME MotionAssumption == Motions \subseteq Int

Point == Int \X Int

VARIABLES
  rect,            \* x, y, w, h of every widget
  children,        \* of every composite, in the order they were added
  focussedChild,   \* of every composite
  mouseX, mouseY,  \* the Desktop's pointer
  clicked,         \* history: the last leaf to get a mouse-down
  motion           \* history: who was under the pointer before and after the
                   \* last move, and how often each leaf was told of it

tree == <<rect, children>>
vars == <<tree, focussedChild, mouseX, mouseY, clicked, motion>>

Mouse == <<mouseX, mouseY>>

Untold == [from |-> None, to |-> None, told |-> [l \in Leaves |-> 0]]

Init ==
  /\ rect \in Layouts
  /\ children = [c \in Composites |-> <<>>]
  /\ focussedChild = [c \in Composites |-> None]
  /\ mouseX = rect[Desktop].w \div 2
  /\ mouseY = rect[Desktop].h \div 2
  /\ clicked = None
  /\ motion = Untold

-----------------------------------------------------------------------------
(* Finding the widget at a point.                                          *)

ContainsClosed(w, p) ==
  /\ rect[w].x <= p[1] /\ p[1] <= rect[w].x + rect[w].w
  /\ rect[w].y <= p[2] /\ p[2] <= rect[w].y + rect[w].h

\* containsCoordinate(): the point is relative to the parent.
Contains(w, p) ==
  /\ rect[w].x <= p[1] /\ p[1] < rect[w].x + rect[w].w
  /\ rect[w].y <= p[2] /\ p[2] < rect[w].y + rect[w].h

\* A point relative to the parent of w, made relative to w.
Within(w, p) == <<p[1] - rect[w].x, p[2] - rect[w].y>>

\* The loops over children: the first that contains the point, which is given
\* relative to the composite.
Hits(c, p) == {i \in DOMAIN children[c] : Contains(children[c][i], p)}

FirstHit(c, p) ==
  LET hits == Hits(c, p)
  IN  IF hits = {} THEN None
      ELSE children[c][CHOOSE i \in hits : \A j \in hits : i <= j]

\* The widgets onMouseDown and onMouseUp run through, for a point relative to
\* the parent of w.
Path[w \in Widgets] ==
  [p \in Point |->
     LET child == FirstHit(w, Within(w, p))
     IN  IF w \in Leaves \/ child = None THEN <<w>>
         ELSE <<w>> \o Path[child][Within(w, p)]]

PathAt(p) == Path[Desktop][p]

Hit(p) == PathAt(p)[Len(PathAt(p))]

-----------------------------------------------------------------------------
(* Operations.                                                             *)

\* CompositeWidget::addChild, with each child once.
AddChild(w) ==
  LET c == Parent[w]
  IN  /\ \A i \in DOMAIN children[c] : children[c][i] # w
      /\ children' = IF Len(children[c]) >= MaxChildren
                       THEN children
                       ELSE [children EXCEPT ![c] = Append(@, w)]
      /\ motion' = Untold
      /\ UNCHANGED <<rect, focussedChild, mouseX, mouseY, clicked>>

GetFocusOfParent(path) ==
  [focussedChild EXCEPT ![path[Len(path) - 1]] = path[Len(path)]]

\* Widget::getFocus and CompositeWidget::getFocus: every ancestor of the leaf
\* focusses the next widget on the way down to it.
GetFocus(path) ==
  [c \in Composites |->
     IF \E k \in 1 .. Len(path) - 1 : path[k] = c
       THEN path[CHOOSE k \in 2 .. Len(path) : path[k - 1] = c]
       ELSE focussedChild[c]]

\* Desktop::onMouseDown: only leaves ask for the focus.
OnMouseDown ==
  /\ LET path == PathAt(Mouse)
         w    == path[Len(path)]
     IN  IF w \in Leaves
           THEN focussedChild' = GetFocus(path) /\ clicked' = w
           ELSE UNCHANGED <<focussedChild, clicked>>
  /\ UNCHANGED <<tree, mouseX, mouseY, motion>>

EnteredAnyway(left, entered) == entered

\* The second loop of CompositeWidget::onMouseMove: the child under the new
\* point is told unless the first loop has told it already.
Entered(left, entered) == IF entered = left THEN None ELSE entered

\* CompositeWidget::onMouseMove: how often every leaf is told when w is, for a
\* move from one point to another, both relative to the parent of w.
Told[w \in Widgets] ==
  [move \in Point \X Point |->
     LET old     == Within(w, move[1])
         new     == Within(w, move[2])
         left    == FirstHit(w, old)
         entered == FirstHit(w, new)
         Tell(child, l) == IF child = None THEN 0 ELSE Told[child][<<old, new>>][l]
     IN  [l \in Leaves |->
            IF w \in Leaves THEN (IF w = l THEN 1 ELSE 0)
            ELSE Tell(left, l) + Tell(Entered(left, entered), l)]]

\* x /= 4 truncates towards 0.
Quarter(n) == IF n < 0 THEN -((-n) \div 4) ELSE n \div 4

ClampPastEnd(n, size) == IF n < 0 THEN 0 ELSE IF n > size THEN size - 1 ELSE n

Clamp(n, size) == IF n < 0 THEN 0 ELSE IF n >= size THEN size - 1 ELSE n

\* Desktop::onMouseMove
OnMouseMove(dx, dy) ==
  /\ mouseX' = Clamp(mouseX + Quarter(dx), rect[Desktop].w)
  /\ mouseY' = Clamp(mouseY + Quarter(dy), rect[Desktop].h)
  /\ motion' = [from |-> Hit(Mouse), to |-> Hit(Mouse'),
                told |-> Told[Desktop][<<Mouse, Mouse'>>]]
  /\ UNCHANGED <<tree, focussedChild, clicked>>

Next == \/ \E w \in Children : AddChild(w)
        \/ OnMouseDown
        \/ \E dx, dy \in Motions : OnMouseMove(dx, dy)

Spec == Init /\ [][Next]_vars

-----------------------------------------------------------------------------
(* Where events go, and what is on the screen.                             *)

\* CompositeWidget::onKeyPress and the others: down the chain of focussed
\* children.
KeyTarget[w \in Widgets] ==
  IF w \in Leaves \/ focussedChild[w] = None THEN w ELSE KeyTarget[focussedChild[w]]

\* modelToScreen(): the corner of w on the screen.
Corner[w \in Widgets] ==
  IF w = Desktop THEN [x |-> rect[w].x, y |-> rect[w].y]
  ELSE [x |-> Corner[Parent[w]].x + rect[w].x, y |-> Corner[Parent[w]].y + rect[w].y]

Covers(w, p) ==
  /\ Corner[w].x <= p[1] /\ p[1] < Corner[w].x + rect[w].w
  /\ Corner[w].y <= p[2] /\ p[2] < Corner[w].y + rect[w].h

\* draw(): a composite fills its own rectangle, then draws its children in
\* order.  The widget seen at a point is the last one drawn there.
Seen[w \in Widgets] ==
  [p \in Point |->
     LET Drawn(i) == Seen[children[w][i]][p]
         drawn    == {i \in DOMAIN children[w] : Drawn(i) # None}
     IN  IF w \in Leaves \/ drawn = {} THEN (IF Covers(w, p) THEN w ELSE None)
         ELSE Drawn(CHOOSE i \in drawn : \A j \in drawn : j <= i)]

\* Children lie inside their parents.
Inside(w, box) ==
  /\ rect[w].x >= 0 /\ rect[w].x + rect[w].w <= box.w
  /\ rect[w].y >= 0 /\ rect[w].y + rect[w].h <= box.h

Contained == \A w \in Children : Inside(w, rect[Parent[w]])

\* Two children of one composite, on the way of a click at p, cover that point.
Crowded(c, p) ==
  /\ c \in Composites
  /\ \E i, j \in DOMAIN children[c] :
       i # j /\ Covers(children[c][i], p) /\ Covers(children[c][j], p)

Overlaid(p) == \E k \in DOMAIN PathAt(p) : Crowded(PathAt(p)[k], p)

-----------------------------------------------------------------------------
(* Properties.                                                             *)

\* Every variable holds a value of its type: no composite has more children
\* than fit, and the pointer is on the desktop (the clamps of onMouseMove).
TypeOK ==
  /\ rect \in Layouts
  /\ \A c \in Composites :
       Len(children[c]) <= MaxChildren /\ children[c] \in Seq(Children)
  /\ focussedChild \in [Composites -> Children \cup {None}]
  /\ mouseX \in 0 .. rect[Desktop].w - 1 /\ mouseY \in 0 .. rect[Desktop].h - 1
  /\ clicked \in Leaves \cup {None}
  /\ motion.from \in Widgets \cup {None} /\ motion.to \in Widgets \cup {None}
  /\ motion.told \in [Leaves -> Nat]

\* Keys go to the leaf that was clicked last, whatever else was clicked or
\* focussed in other windows before: getFocus keeps the chains of all
\* composites together.
KeysFollowClicks == clicked # None => KeyTarget[Desktop] = clicked

\* A move is told once to the leaf the pointer leaves and to the one it enters,
\* and to no leaf twice, through any nesting.
MovesTold ==
  /\ \A l \in Leaves : motion.told[l] <= 1
  /\ \A l \in Leaves \cap {motion.from, motion.to} : motion.told[l] = 1

\* When a click goes to the widget that is seen there, although clicks are
\* routed by differences of coordinates to the first match (widget.cpp:97) and
\* drawing adds coordinates and paints the last match over the others: as long
\* as children lie inside their parents, exactly where no two siblings overlap.
\* Where they do, the click always goes to one that is hidden.
ClickHitsSeen ==
  Contained => (Hit(Mouse) = Seen[Desktop][Mouse] <=> ~Overlaid(Mouse))
=============================================================================
