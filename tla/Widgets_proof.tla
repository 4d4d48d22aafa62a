--------------------------- MODULE Widgets_proof ----------------------------
(***************************************************************************)
(* Proofs about the GUI, for any tree of widgets, any layout and any       *)
(* motions of the mouse.  What the model computes by recursion over the    *)
(* tree is well defined because widgets are constructed one after another. *)
(***************************************************************************)
EXTENDS Widgets, WellFoundedInduction, TLAPS

-----------------------------------------------------------------------------
(* Recursion over the tree.                                                *)

\* Every set has an element without R-predecessors in it.
Founded(S, R) ==
  \A T \in SUBSET S : T # {} => \E x \in T : \A y \in T : <<y, x>> \notin R

\* D makes a function of a function, whose value at x depends on no more than
\* the values at the R-predecessors of x.
Stepwise(D, S, V, R) ==
  /\ D \in [[S -> V] -> [S -> V]]
  /\ \A f, g \in [S -> V] : \A x \in S :
       (\A y \in S : <<y, x>> \in R => f[y] = g[y]) => D[f][x] = D[g][x]

\* Then the equation f = D[f] has a solution.
LEMMA Recursion ==
  ASSUME NEW S, NEW V, NEW R, NEW D, V # {}, Founded(S, R), Stepwise(D, S, V, R)
  PROVE  \E f \in [S -> V] : f = D[f]
<1> USE DEF Founded, Stepwise
<1> DEFINE Solves(C, f) ==
      /\ C \in SUBSET S /\ f \in [S -> V]
      /\ \A x \in C : \A y \in S : <<y, x>> \in R => y \in C
      /\ \A x \in C : f[x] = D[f][x]
<1>1. ASSUME NEW C, NEW f, Solves(C, f), NEW B, NEW g, Solves(B, g), NEW z \in C \cap B
      PROVE  f[z] = g[z]
  <2> DEFINE T == {x \in C \cap B : f[x] # g[x]}
  <2> SUFFICES ASSUME T # {} PROVE FALSE
    BY <1>1
  <2>1. PICK x \in T : \A y \in T : <<y, x>> \notin R
    <3>1. T \in SUBSET S
      BY <1>1
    <3>2. QED
      BY <3>1
  <2>2. \A y \in S : <<y, x>> \in R => f[y] = g[y]
    BY <1>1, <2>1
  <2>3. D[f][x] = D[g][x]
    BY <1>1, <2>1, <2>2
  <2>4. QED
    BY <1>1, <2>1, <2>3
<1> DEFINE Value(x, v) == \E C, f : Solves(C, f) /\ x \in C /\ v = f[x]
           U == {x \in S : \E C, f : Solves(C, f) /\ x \in C}
           h == [x \in S |-> IF x \in U THEN CHOOSE v \in V : Value(x, v)
                             ELSE CHOOSE v \in V : TRUE]
<1>2. \A x \in U : \E v \in V : Value(x, v)
  <2> SUFFICES ASSUME NEW x \in U PROVE \E v \in V : Value(x, v)
    OBVIOUS
  <2>1. PICK C, f : Solves(C, f) /\ x \in C
    OBVIOUS
  <2>2. f[x] \in V
    BY <2>1
  <2> HIDE DEF Solves, U
  <2>3. QED
    BY <2>1, <2>2
<1>3. h \in [S -> V] /\ \A x \in U : Value(x, h[x])
  <2>1. U \subseteq S
    OBVIOUS
  <2> HIDE DEF U, Value
  <2>2. QED
    BY <1>2, <2>1
<1>4. ASSUME NEW C, NEW f, Solves(C, f), NEW x \in C
      PROVE  x \in U /\ h[x] = f[x]
  <2>1. x \in U
    BY <1>4
  <2> HIDE DEF h, U
  <2>2. PICK B, g : Solves(B, g) /\ x \in B /\ h[x] = g[x]
    <3> HIDE DEF Solves
    <3>1. QED
      BY <1>3, <2>1
  <2> HIDE DEF Solves
  <2>3. QED
    BY <1>1, <1>4, <2>1, <2>2
<1>5. Solves(U, h)
  <2>1. ASSUME NEW x \in U
        PROVE  h[x] = D[h][x] /\ \A y \in S : <<y, x>> \in R => y \in U
    <3>1. PICK C, f : Solves(C, f) /\ x \in C
      OBVIOUS
    <3> HIDE DEF h, U
    <3>2. \A y \in S : <<y, x>> \in R => y \in U /\ h[y] = f[y]
      BY <1>4, <3>1
    <3>3. D[h][x] = D[f][x]
      BY <1>3, <3>1, <3>2
    <3>4. QED
      BY <1>4, <3>1, <3>2, <3>3
  <2> HIDE DEF h
  <2>2. QED
    BY <1>3, <2>1
<1> HIDE DEF h
<1>6. U = S
  <2> SUFFICES ASSUME S \ U # {} PROVE FALSE
    OBVIOUS
  <2>1. PICK x \in S \ U : \A y \in S \ U : <<y, x>> \notin R
    <3> HIDE DEF U
    <3>1. QED
      OBVIOUS
  <2> DEFINE k == [h EXCEPT ![x] = D[h][x]]
  <2>2. Solves(U \cup {x}, k)
    <3> HIDE DEF U
    <3>1. /\ D[h] \in [S -> V] /\ k \in [S -> V]
          /\ k[x] = D[h][x] /\ \A y \in S \ {x} : k[y] = h[y]
      BY <1>3, <2>1
    <3>2. \A z \in U : \A y \in S : <<y, z>> \in R => y \in U
      BY <1>5
    <3>3. \A y \in S : <<y, x>> \in R => y \in U
      BY <2>1
    <3> HIDE DEF k
    <3>4. D[k][x] = D[h][x]
      BY <1>3, <2>1, <3>1, <3>3
    <3>5. ASSUME NEW z \in U PROVE k[z] = D[k][z]
      <4>1. z \in S /\ z # x /\ h[z] = D[h][z]
        BY <1>5, <2>1
      <4>2. D[k][z] = D[h][z]
        BY <1>3, <2>1, <3>1, <3>2, <4>1
      <4>3. QED
        BY <3>1, <4>1, <4>2
    <3>6. QED
      BY <1>5, <2>1, <3>1, <3>2, <3>3, <3>4, <3>5
  <2> HIDE DEF k
  <2>3. x \in U
    <3> HIDE DEF Solves
    <3>1. QED
      BY <2>1, <2>2
  <2>4. QED
    BY <2>1, <2>3
<1>7. \A x \in S : h[x] = D[h][x]
  <2> HIDE DEF U
  <2>1. QED
    BY <1>5, <1>6
<1>8. QED
  BY <1>3, <1>7

\* One of any widgets was constructed last.
LEMMA LastConstructed ==
  ASSUME NEW T \in SUBSET Widgets, T # {}
  PROVE  \E x \in T : \A y \in T \cap Children : Parent[y] # x
<1>1. \A y \in Children : Parent[y] \in Composites
  BY WidgetAssumption
<1>2. CASE \E x \in T : x \in Leaves
  BY <1>1, <1>2, WidgetAssumption DEF Composites, Children
<1>3. CASE T \cap Leaves = {} /\ T \cap Windows # {}
  <2>1. PICK x \in T \cap Windows : \A y \in T \cap Windows : Parent[y] # x
    BY <1>3, NestingAssumption
  <2>2. QED
    BY <1>3, <2>1 DEF Children
<1>4. CASE T \subseteq {Desktop}
  BY <1>4, WidgetAssumption
<1>5. QED
  BY <1>2, <1>3, <1>4 DEF Widgets, Composites

\* One of any children was constructed first.
LEMMA FirstConstructed ==
  ASSUME NEW T \in SUBSET Children, T # {}
  PROVE  \E x \in T : Parent[x] \notin T
<1>1. \A y \in T : Parent[y] \in Windows \/ Parent[y] \notin T
  BY WidgetAssumption DEF Composites
<1>2. CASE T \cap Windows # {}
  <2>1. PICK x \in T \cap Windows : Parent[x] \notin T \cap Windows
    BY <1>2, NestingAssumption
  <2>2. QED
    BY <1>1, <2>1
<1>3. CASE T \cap Windows = {}
  BY <1>1, <1>3
<1>4. QED
  BY <1>2, <1>3

\* A child before its parent, and a parent before its child.
Below == {p \in Children \X Widgets : Parent[p[1]] = p[2]}
Above == {p \in Widgets \X Children : Parent[p[2]] = p[1]}

\* So recursion down the tree, or up, comes to an end.
LEMMA TreeFounded == Founded(Widgets, Below) /\ Founded(Widgets, Above)
<1>1. Founded(Widgets, Below)
  BY LastConstructed DEF Founded, Below
<1>2. ASSUME NEW T \in SUBSET Widgets, T # {}
      PROVE  \E x \in T : \A y \in T : <<y, x>> \notin Above
  <2>1. CASE Desktop \in T
    BY <2>1, WidgetAssumption DEF Above
  <2>2. CASE Desktop \notin T
    <3>1. T \in SUBSET Children
      BY <2>2 DEF Widgets, Composites, Children
    <3>2. QED
      BY <1>2, <3>1, FirstConstructed DEF Above
  <2>3. QED
    BY <2>1, <2>2
<1>3. QED
  BY <1>1, <1>2 DEF Founded

-----------------------------------------------------------------------------
(* The tree and the focus.                                                 *)

TypeInv ==
  /\ rect \in Layouts
  /\ children \in [Composites -> Seq(Children)]
  /\ \A c \in Composites : Len(children[c]) <= MaxChildren
  /\ focussedChild \in [Composites -> Children \cup {None}]
  /\ mouseX \in 0 .. rect[Desktop].w - 1 /\ mouseY \in 0 .. rect[Desktop].h - 1
  /\ clicked \in Leaves \cup {None}

\* A widget is in the array of its parent only, and once.
TreeInv ==
  \A c \in Composites : \A i \in DOMAIN children[c] :
    /\ Parent[children[c][i]] = c
    /\ \A j \in DOMAIN children[c] : children[c][i] = children[c][j] => i = j

\* A composite focusses a child of its own.
FocusInv ==
  \A c \in Composites : focussedChild[c] # None => Parent[focussedChild[c]] = c

\* Apart from the history of moves.
GuiInv == TypeInv /\ TreeInv /\ FocusInv

\* The sorts of widgets.
LEMMA Sorts ==
  /\ Widgets = Composites \cup Leaves /\ Composites \cap Leaves = {}
  /\ Desktop \in Composites /\ Children \subseteq Widgets /\ Desktop \notin Children
  /\ \A w \in Widgets : w \in Children \/ w = Desktop
  /\ None \notin Widgets /\ None \notin Children
  /\ \A w \in Children : Parent[w] \in Composites
BY WidgetAssumption DEF Widgets, Composites, Children

\* What is known of a box.
LEMMA Boxes ==
  ASSUME NEW box \in Layouts
  PROVE  /\ box[Desktop].x = 0 /\ box[Desktop].y = 0
         /\ box[Desktop].w > 0 /\ box[Desktop].h > 0
         /\ \A w \in Widgets : /\ box[w].x \in Int /\ box[w].y \in Int
                               /\ box[w].w \in Nat /\ box[w].h \in Nat
BY LayoutAssumption

\* A point stays a point.
LEMMA WithinType ==
  ASSUME TypeInv, NEW w \in Widgets, NEW p \in Point
  PROVE  Within(w, p) \in Point
BY Boxes DEF TypeInv, Within, Point

\* A set of natural numbers has a least one.
LEMMA LeastNatural ==
  ASSUME NEW T \in SUBSET Nat, T # {}
  PROVE  \E x \in T : \A y \in T : x <= y
<1> DEFINE R == OpToRel(<, Nat)
<1>1. IsWellFoundedOn(R, Nat)
  BY NatLessThanWellFounded
<1>2. PICK x \in T : \A y \in T : <<y, x>> \notin R
  <2> HIDE DEF R
  <2>1. QED
    BY <1>1, WFMin
<1>3. \A y \in T : ~(y < x)
  BY <1>2 DEF OpToRel
<1>4. QED
  BY <1>3

\* The loop over the children of c ends at one that contains the point, unless
\* none does.
LEMMA HitIsChild ==
  ASSUME TypeInv, TreeInv, NEW c \in Composites, NEW p
  PROVE  IF Hits(c, p) = {} THEN FirstHit(c, p) = None
         ELSE /\ FirstHit(c, p) \in Children /\ Parent[FirstHit(c, p)] = c
              /\ \E i \in Hits(c, p) : /\ FirstHit(c, p) = children[c][i]
                                       /\ \A j \in Hits(c, p) : i <= j
<1>1. CASE Hits(c, p) = {}
  BY <1>1 DEF FirstHit
<1>2. CASE Hits(c, p) # {}
  <2> DEFINE hits == Hits(c, p)
             first == CHOOSE i \in hits : \A j \in hits : i <= j
  <2>1. children[c] \in Seq(Children)
    BY DEF TypeInv
  <2>2. DOMAIN children[c] \subseteq Nat
    BY <2>1
  <2>3. hits \in SUBSET Nat /\ hits # {} /\ hits \subseteq DOMAIN children[c]
    BY <1>2, <2>2 DEF Hits
  <2> HIDE DEF hits
  <2>4. first \in hits /\ \A j \in hits : first <= j
    BY <2>3, LeastNatural
  <2>5. FirstHit(c, p) = children[c][first]
    BY <1>2 DEF FirstHit, hits
  <2> HIDE DEF first
  <2>6. children[c][first] \in Children
    <3>1. first \in DOMAIN children[c]
      BY <2>3, <2>4
    <3>2. QED
      BY <2>1, <3>1
  <2>7. QED
    BY <1>2, <2>3, <2>4, <2>5, <2>6 DEF TreeInv, hits
<1>3. QED
  BY <1>1, <1>2

\* So a hit that is not null is a child.
LEMMA HitBelow ==
  ASSUME TypeInv, TreeInv, NEW w \in Composites, NEW p, FirstHit(w, p) # None
  PROVE  FirstHit(w, p) \in Children /\ Parent[FirstHit(w, p)] = w
BY HitIsChild

-----------------------------------------------------------------------------
(* Keys.                                                                   *)

\* The chain of focussed children ends somewhere.
LEMMA FocusChain ==
  ASSUME NEW focus \in [Composites -> Children \cup {None}],
         \A c \in Composites : focus[c] # None => Parent[focus[c]] = c
  PROVE  \E f \in [Widgets -> Widgets] :
           f = [w \in Widgets |-> IF w \in Leaves \/ focus[w] = None THEN w
                                  ELSE f[focus[w]]]
<1> DEFINE D == [f \in [Widgets -> Widgets] |->
                   [w \in Widgets |-> IF w \in Leaves \/ focus[w] = None THEN w
                                      ELSE f[focus[w]]]]
<1>1. \A w \in Widgets :
        w \notin Leaves /\ focus[w] # None => focus[w] \in Widgets /\ <<focus[w], w>> \in Below
  BY Sorts DEF Below
<1>2. D \in [[Widgets -> Widgets] -> [Widgets -> Widgets]]
  BY <1>1
<1>3. Stepwise(D, Widgets, Widgets, Below)
  BY <1>1, <1>2 DEF Stepwise
<1>4. PICK f \in [Widgets -> Widgets] : f = D[f]
  <2>1. Widgets # {} /\ Founded(Widgets, Below)
    BY Sorts, TreeFounded
  <2> HIDE DEF D
  <2>2. QED
    BY <1>3, <2>1, Recursion
<1>5. QED
  BY <1>4

-----------------------------------------------------------------------------
(* Clicks.                                                                 *)

\* The equation that defines Path.
PathIsDefined ==
  Path = [w \in Widgets |->
            [p \in Point |->
               LET child == FirstHit(w, Within(w, p))
               IN  IF w \in Leaves \/ child = None THEN <<w>>
                   ELSE <<w>> \o Path[child][Within(w, p)]]]

LEMMA PathDefined == GuiInv => PathIsDefined
<1> SUFFICES ASSUME GuiInv PROVE PathIsDefined
  OBVIOUS
<1> DEFINE V == [Point -> Seq(Widgets)]
           D == [f \in [Widgets -> V] |->
                   [w \in Widgets |->
                      [p \in Point |->
                         LET child == FirstHit(w, Within(w, p))
                         IN  IF w \in Leaves \/ child = None THEN <<w>>
                             ELSE <<w>> \o f[child][Within(w, p)]]]]
<1>1. ASSUME NEW w \in Widgets, NEW p \in Point, w \notin Leaves,
             FirstHit(w, Within(w, p)) # None
      PROVE  /\ Within(w, p) \in Point
             /\ FirstHit(w, Within(w, p)) \in Widgets
             /\ <<FirstHit(w, Within(w, p)), w>> \in Below
  BY <1>1, HitBelow, WithinType, Sorts DEF GuiInv, Below
<1>2. D \in [[Widgets -> V] -> [Widgets -> V]]
  <2> SUFFICES ASSUME NEW f \in [Widgets -> V], NEW w \in Widgets, NEW p \in Point
               PROVE  D[f][w][p] \in Seq(Widgets)
    OBVIOUS
  <2>1. CASE w \in Leaves \/ FirstHit(w, Within(w, p)) = None
    BY <2>1
  <2>2. CASE ~(w \in Leaves \/ FirstHit(w, Within(w, p)) = None)
    <3>1. f[FirstHit(w, Within(w, p))][Within(w, p)] \in Seq(Widgets)
      BY <1>1, <2>2
    <3>2. QED
      BY <2>2, <3>1
  <2>3. QED
    BY <2>1, <2>2
<1>3. Stepwise(D, Widgets, V, Below)
  <2> SUFFICES ASSUME NEW f \in [Widgets -> V], NEW g \in [Widgets -> V],
                      NEW w \in Widgets,
                      \A y \in Widgets : <<y, w>> \in Below => f[y] = g[y]
               PROVE  D[f][w] = D[g][w]
    BY <1>2 DEF Stepwise
  <2>1. ASSUME NEW p \in Point
        PROVE  D[f][w][p] = D[g][w][p]
    BY <1>1
  <2>2. QED
    BY <2>1
<1>4. PICK f \in [Widgets -> V] : f = D[f]
  <2>1. Widgets # {} /\ Founded(Widgets, Below) /\ V # {}
    <3>1. [p \in Point |-> <<>>] \in V
      OBVIOUS
    <3>2. QED
      BY <3>1, Sorts, TreeFounded
  <2> HIDE DEF D, V
  <2>2. QED
    BY <1>3, <2>1, Recursion
<1>5. QED
  BY <1>4 DEF Path, PathIsDefined

LEMMA PathUnfolds ==
  ASSUME GuiInv, NEW w \in Widgets, NEW p \in Point,
         NEW child, child = FirstHit(w, Within(w, p))
  PROVE  Path[w][p] = IF w \in Leaves \/ child = None THEN <<w>>
                      ELSE <<w>> \o Path[child][Within(w, p)]
<1>1. PathIsDefined
  BY PathDefined
<1>2. Path[w] = [q \in Point |->
               LET c == FirstHit(w, Within(w, q))
               IN  IF w \in Leaves \/ c = None THEN <<w>>
                   ELSE <<w>> \o Path[c][Within(w, q)]]
  BY <1>1, Zenon DEF PathIsDefined
<1>3. QED
  BY <1>2

\* A way down the tree from w.
Leads(w, path) ==
  /\ path \in Seq(Widgets) /\ Len(path) >= 1 /\ path[1] = w
  /\ \A k \in 1 .. Len(path) - 1 :
       path[k + 1] \in Children /\ Parent[path[k + 1]] = path[k]

\* Clicks go down the tree.
LEMMA PathLeads ==
  ASSUME GuiInv, NEW w \in Widgets, NEW p \in Point
  PROVE  Leads(w, Path[w][p])
<1> DEFINE T == {v \in Widgets : \E q \in Point : ~Leads(v, Path[v][q])}
<1> SUFFICES ASSUME T # {} PROVE FALSE
  OBVIOUS
<1>1. PICK v \in T : \A y \in T \cap Children : Parent[y] # v
  <2> HIDE DEF T
  <2>1. T \in SUBSET Widgets
    BY DEF T
  <2>2. QED
    BY <2>1, LastConstructed
<1>2. PICK q \in Point : ~Leads(v, Path[v][q])
  BY <1>1
<1> DEFINE child == FirstHit(v, Within(v, q))
           rest == Path[child][Within(v, q)]
<1>3. Path[v][q] = IF v \in Leaves \/ child = None THEN <<v>> ELSE <<v>> \o rest
  <2>1. v \in Widgets
    BY <1>1
  <2> HIDE DEF T
  <2>2. QED
    BY <2>1, PathUnfolds
<1>4. v \notin Leaves /\ child # None
  BY <1>1, <1>2, <1>3 DEF Leads
<1>5. child \in Children /\ Parent[child] = v /\ Within(v, q) \in Point
  BY <1>1, <1>4, HitBelow, WithinType, Sorts DEF GuiInv
<1>6. Leads(child, rest)
  BY <1>1, <1>5, Sorts
<1> HIDE DEF child, rest
<1>7. rest \in Seq(Widgets) /\ Len(rest) >= 1 /\ rest[1] = child
  BY <1>6 DEF Leads
<1>8. Path[v][q] = <<v>> \o rest /\ v \in Widgets
  BY <1>1, <1>3, <1>4
<1> DEFINE path == <<v>> \o rest
<1>9. /\ path \in Seq(Widgets) /\ Len(path) = Len(rest) + 1 /\ Len(rest) \in Nat
      /\ path[1] = v /\ \A k \in 1 .. Len(rest) : path[k + 1] = rest[k]
  BY <1>7, <1>8
<1> HIDE DEF path
<1>10. ASSUME NEW k \in 1 .. Len(path) - 1
       PROVE  path[k + 1] \in Children /\ Parent[path[k + 1]] = path[k]
  <2>1. CASE k = 1
    BY <1>5, <1>7, <1>9, <2>1
  <2>2. CASE k # 1
    <3>1. k - 1 \in 1 .. Len(rest) - 1 /\ k \in 1 .. Len(rest)
      BY <1>9, <2>2
    <3>2. path[k + 1] = rest[k] /\ path[k] = rest[k - 1]
      BY <1>9, <3>1
    <3>3. rest[k] \in Children /\ Parent[rest[k]] = rest[k - 1]
      BY <1>6, <3>1 DEF Leads
    <3>4. QED
      BY <3>2, <3>3
  <2>3. QED
    BY <2>1, <2>2
<1>11. QED
  BY <1>2, <1>7, <1>8, <1>9, <1>10 DEF Leads, path

\* No widget is met twice on the way.
LEMMA NoWayBack ==
  ASSUME NEW w, NEW path, Leads(w, path),
         NEW j \in 1 .. Len(path), NEW k \in 1 .. Len(path), path[j] = path[k]
  PROVE  j = k
<1>1. ASSUME NEW a \in 1 .. Len(path), NEW b \in 1 .. Len(path), a < b, path[a] = path[b]
      PROVE  FALSE
  <2> DEFINE T == {path[i] : i \in a + 1 .. b}
  <2>1. \A i \in a .. b - 1 : path[i + 1] \in Children /\ Parent[path[i + 1]] = path[i]
    <3>1. Len(path) \in Nat /\ a .. b - 1 \subseteq 1 .. Len(path) - 1
      BY DEF Leads
    <3>2. QED
      BY <3>1 DEF Leads
  <2>2. \A i \in a + 1 .. b : path[i] \in Widgets
    BY DEF Leads
  <2>3. T \in SUBSET Widgets /\ path[b] \in T
    BY <1>1, <2>2
  <2>4. PICK x \in T : \A y \in T \cap Children : Parent[y] # x
    <3> HIDE DEF T
    <3>1. QED
      BY <2>3, LastConstructed
  <2>5. PICK i \in a + 1 .. b : x = path[i]
    BY <2>4
  <2>6. CASE i < b
    <3>1. path[i + 1] \in T \cap Children /\ Parent[path[i + 1]] = x
      BY <2>1, <2>5, <2>6
    <3>2. QED
      BY <2>4, <3>1
  <2>7. CASE i = b
    <3>1. path[a + 1] \in T \cap Children /\ Parent[path[a + 1]] = x
      BY <1>1, <2>1, <2>5, <2>7
    <3>2. QED
      BY <2>4, <3>1
  <2>8. QED
    BY <2>5, <2>6, <2>7
<1>2. j < k \/ k < j \/ j = k
  BY DEF Leads
<1>3. QED
  BY <1>1, <1>2

\* getFocus() turns the links of a whole way.
LEMMA FocusOnTheWay ==
  ASSUME TypeInv, FocusInv, NEW path, Leads(Desktop, path)
  PROVE  /\ GetFocus(path) \in [Composites -> Children \cup {None}]
         /\ \A c \in Composites :
              GetFocus(path)[c] # None => Parent[GetFocus(path)[c]] = c
         /\ \A k \in 1 .. Len(path) - 1 :
              path[k] \in Composites /\ GetFocus(path)[path[k]] = path[k + 1]
<1>1. path \in Seq(Widgets) /\ Len(path) \in Nat
  BY DEF Leads
<1>2. \A k \in 1 .. Len(path) - 1 : path[k + 1] \in Children /\ Parent[path[k + 1]] = path[k]
  BY DEF Leads
<1>3. ASSUME NEW k \in 1 .. Len(path) - 1
      PROVE  path[k] \in Composites /\ GetFocus(path)[path[k]] = path[k + 1]
  <2>1. path[k] \in Composites
    BY <1>2, Sorts
  <2>2. k + 1 \in 2 .. Len(path) /\ path[(k + 1) - 1] = path[k]
    BY <1>1
  <2>3. ASSUME NEW j \in 2 .. Len(path), path[j - 1] = path[k]
        PROVE  j = k + 1
    <3>1. j - 1 \in 1 .. Len(path) /\ k \in 1 .. Len(path)
      BY <1>1
    <3>2. j - 1 = k
      BY <2>3, <3>1, NoWayBack
    <3>3. QED
      BY <3>2
  <2>4. (CHOOSE j \in 2 .. Len(path) : path[j - 1] = path[k]) = k + 1
    BY <2>2, <2>3
  <2>5. QED
    BY <2>1, <2>4 DEF GetFocus
<1>4. ASSUME NEW c \in Composites, \A k \in 1 .. Len(path) - 1 : path[k] # c
      PROVE  GetFocus(path)[c] = focussedChild[c]
  BY <1>4 DEF GetFocus
<1>5. ASSUME NEW c \in Composites
      PROVE  /\ GetFocus(path)[c] \in Children \cup {None}
             /\ GetFocus(path)[c] # None => Parent[GetFocus(path)[c]] = c
  <2>1. CASE \E k \in 1 .. Len(path) - 1 : path[k] = c
    BY <1>2, <1>3, <2>1
  <2>2. CASE \A k \in 1 .. Len(path) - 1 : path[k] # c
    BY <1>4, <2>2 DEF TypeInv, FocusInv
  <2>3. QED
    BY <2>1, <2>2
<1>6. GetFocus(path) = [c \in Composites |-> GetFocus(path)[c]]
  BY DEF GetFocus
<1>7. QED
  BY <1>3, <1>5, <1>6

LEMMA GuiInitInv == Init => GuiInv
<1> SUFFICES ASSUME Init PROVE GuiInv
  OBVIOUS
<1>1. /\ rect[Desktop].w \in Nat \ {0} /\ rect[Desktop].h \in Nat \ {0}
      /\ rect \in Layouts
  BY Boxes, Sorts DEF Init
<1>2. mouseX \in 0 .. rect[Desktop].w - 1 /\ mouseY \in 0 .. rect[Desktop].h - 1
  <2>1. mouseX = rect[Desktop].w \div 2 /\ mouseY = rect[Desktop].h \div 2
    BY DEF Init
  <2>2. \A n \in Nat \ {0} : n \div 2 \in 0 .. n - 1
    OBVIOUS
  <2>3. QED
    BY <1>1, <2>1, <2>2
<1>3. children \in [Composites -> Seq(Children)] /\ \A c \in Composites : children[c] = <<>>
  BY DEF Init
<1>4. TypeInv
  BY <1>1, <1>2, <1>3, MaxChildrenAssumption DEF Init, TypeInv
<1>5. TreeInv /\ FocusInv
  BY <1>3 DEF Init, TreeInv, FocusInv
<1>6. QED
  BY <1>4, <1>5 DEF GuiInv

LEMMA AddChildGuiInv ==
  ASSUME GuiInv, NEW w \in Children, AddChild(w)
  PROVE  GuiInv'
<1> DEFINE c == Parent[w]
<1>1. c \in Composites /\ children \in [Composites -> Seq(Children)]
  BY Sorts DEF GuiInv, TypeInv
<1>2. CASE Len(children[c]) >= MaxChildren
  <2>1. UNCHANGED <<tree, focussedChild, mouseX, mouseY, clicked>>
    BY <1>2 DEF AddChild, tree
  <2>2. QED
    BY <2>1 DEF GuiInv, TypeInv, TreeInv, FocusInv, tree
<1>3. CASE ~(Len(children[c]) >= MaxChildren)
  <2>1. /\ children' = [children EXCEPT ![c] = Append(@, w)]
        /\ UNCHANGED <<rect, focussedChild, mouseX, mouseY, clicked>>
    BY <1>3 DEF AddChild
  <2>2. /\ children[c] \in Seq(Children) /\ Len(children[c]) < MaxChildren
        /\ Append(children[c], w) \in Seq(Children)
        /\ Len(Append(children[c], w)) <= MaxChildren
    BY <1>1, <1>3, MaxChildrenAssumption
  <2> DEFINE more == Append(children[c], w)
  <2>3. ASSUME NEW i \in DOMAIN more
        PROVE  /\ Parent[more[i]] = c
               /\ \A j \in DOMAIN more : more[i] = more[j] => i = j
    <3>1. \A j \in DOMAIN more :
            \/ j = Len(children[c]) + 1 /\ more[j] = w
            \/ j \in DOMAIN children[c] /\ more[j] = children[c][j]
      BY <2>2
    <3>2. \A j \in DOMAIN children[c] : children[c][j] # w
      BY DEF AddChild
    <3>3. \A j \in DOMAIN children[c] :
            /\ Parent[children[c][j]] = c
            /\ \A k \in DOMAIN children[c] : children[c][j] = children[c][k] => j = k
      BY <1>1 DEF GuiInv, TreeInv
    <3> HIDE DEF more
    <3>4. Parent[w] = c
      OBVIOUS
    <3> HIDE DEF c
    <3>5. QED
      BY <3>1, <3>2, <3>3, <3>4
  <2>4. TypeInv'
    BY <1>1, <2>1, <2>2 DEF GuiInv, TypeInv
  <2>5. TreeInv'
    <3> SUFFICES ASSUME NEW d \in Composites, NEW i \in DOMAIN children'[d]
                 PROVE  /\ Parent[children'[d][i]] = d
                        /\ \A j \in DOMAIN children'[d] :
                             children'[d][i] = children'[d][j] => i = j
      BY DEF TreeInv
    <3> HIDE DEF c
    <3>1. CASE d = c
      BY <1>1, <2>1, <2>3, <3>1
    <3>2. CASE d # c
      BY <1>1, <2>1, <3>2 DEF GuiInv, TreeInv
    <3>3. QED
      BY <3>1, <3>2
  <2>6. FocusInv'
    BY <2>1 DEF GuiInv, FocusInv
  <2>7. QED
    BY <2>4, <2>5, <2>6 DEF GuiInv
<1>4. QED
  BY <1>2, <1>3

\* The pointer is a point, and clicks there lead down from the desktop.
LEMMA MousePath ==
  ASSUME GuiInv
  PROVE  Mouse \in Point /\ Leads(Desktop, PathAt(Mouse)) /\ Hit(Mouse) \in Widgets
<1>1. rect[Desktop].w \in Nat /\ rect[Desktop].h \in Nat
  BY Boxes, Sorts DEF GuiInv, TypeInv
<1>2. Mouse \in Point
  BY <1>1 DEF GuiInv, TypeInv, Mouse, Point
<1>3. Leads(Desktop, PathAt(Mouse))
  BY <1>2, PathLeads, Sorts DEF PathAt
<1>4. QED
  BY <1>2, <1>3 DEF Leads, Hit

LEMMA MouseDownGuiInv == GuiInv /\ OnMouseDown => GuiInv'
<1> SUFFICES ASSUME GuiInv, OnMouseDown PROVE GuiInv'
  OBVIOUS
<1> DEFINE path == PathAt(Mouse)
<1>1. Leads(Desktop, path)
  BY MousePath
<1>2. /\ \/ /\ path[Len(path)] \in Leaves
            /\ focussedChild' = GetFocus(path) /\ clicked' = path[Len(path)]
         \/ UNCHANGED <<focussedChild, clicked>>
      /\ UNCHANGED <<rect, children, mouseX, mouseY>>
  BY DEF OnMouseDown, tree
<1> HIDE DEF path
<1>3. /\ focussedChild' \in [Composites -> Children \cup {None}]
      /\ \A c \in Composites : focussedChild'[c] # None => Parent[focussedChild'[c]] = c
  <2>1. CASE focussedChild' = GetFocus(path)
    BY <1>1, <2>1, FocusOnTheWay DEF GuiInv
  <2>2. CASE UNCHANGED focussedChild
    BY <2>2 DEF GuiInv, TypeInv, FocusInv
  <2>3. QED
    BY <1>2, <2>1, <2>2
<1>4. clicked' \in Leaves \cup {None}
  BY <1>2 DEF GuiInv, TypeInv
<1>5. QED
  BY <1>2, <1>3, <1>4 DEF GuiInv, TypeInv, TreeInv, FocusInv

\* The clamps keep the pointer on the desktop.
LEMMA ClampRange ==
  ASSUME NEW n \in Int, NEW size \in Nat \ {0}
  PROVE  Clamp(n, size) \in 0 .. size - 1
BY DEF Clamp

LEMMA QuarterType ==
  ASSUME NEW n \in Int
  PROVE  Quarter(n) \in Int
BY DEF Quarter

LEMMA MouseMoveGuiInv ==
  ASSUME GuiInv, NEW dx \in Motions, NEW dy \in Motions, OnMouseMove(dx, dy)
  PROVE  GuiInv' /\ Mouse' \in Point
<1>1. /\ rect \in Layouts /\ rect[Desktop].w \in Nat \ {0} /\ rect[Desktop].h \in Nat \ {0}
      /\ mouseX \in Int /\ mouseY \in Int
  BY Boxes, Sorts DEF GuiInv, TypeInv
<1>2. Quarter(dx) \in Int /\ Quarter(dy) \in Int
  BY QuarterType, MotionAssumption
<1>3. mouseX' \in 0 .. rect[Desktop].w - 1 /\ mouseY' \in 0 .. rect[Desktop].h - 1
  <2>1. /\ mouseX' = Clamp(mouseX + Quarter(dx), rect[Desktop].w)
        /\ mouseY' = Clamp(mouseY + Quarter(dy), rect[Desktop].h)
    BY DEF OnMouseMove
  <2>2. mouseX + Quarter(dx) \in Int /\ mouseY + Quarter(dy) \in Int
    BY <1>1, <1>2
  <2>3. QED
    BY <1>1, <2>1, <2>2, ClampRange
<1>4. UNCHANGED <<rect, children, focussedChild, clicked>>
  BY DEF OnMouseMove, tree
<1>5. Mouse' \in Point
  BY <1>1, <1>3 DEF Mouse, Point
<1>6. QED
  BY <1>3, <1>4, <1>5 DEF GuiInv, TypeInv, TreeInv, FocusInv

LEMMA GuiNextInv == GuiInv /\ [Next]_vars => GuiInv'
<1> SUFFICES ASSUME GuiInv, [Next]_vars PROVE GuiInv'
  OBVIOUS
<1>1. CASE Next
  BY <1>1, AddChildGuiInv, MouseDownGuiInv, MouseMoveGuiInv DEF Next
<1>2. CASE UNCHANGED vars
  BY <1>2 DEF vars, tree, GuiInv, TypeInv, TreeInv, FocusInv
<1>3. QED
  BY <1>1, <1>2

\* The tree stays a tree and every focussed child leads to a child, whatever is
\* added, clicked and moved.
THEOREM GuiInvariance == Spec => []GuiInv
<1>1. QED
  BY GuiInitInv, GuiNextInv, PTL DEF Spec

\* Where keys go if these children are focussed.
Follows(target, focus) ==
  \A w \in Widgets :
    target[w] = IF w \in Leaves \/ focus[w] = None THEN w ELSE target[focus[w]]

\* The links of the whole way are turned.
Turned(focus, path) == \A k \in 1 .. Len(path) - 1 : focus[path[k]] = path[k + 1]

\* If the links of a way to a leaf are turned, keys go to the leaf.
LEMMA KeysTakeTheWay ==
  ASSUME NEW focus, NEW target, NEW path, Leads(Desktop, path), path[Len(path)] \in Leaves,
         Follows(target, focus), Turned(focus, path)
  PROVE  target[Desktop] = path[Len(path)]
<1> DEFINE l == path[Len(path)]
           T == {path[k] : k \in {k \in 1 .. Len(path) : target[path[k]] # l}}
<1>1. path \in Seq(Widgets) /\ Len(path) \in Nat \ {0} /\ path[1] = Desktop
  BY DEF Leads
<1>2. SUFFICES ASSUME T # {} PROVE FALSE
  BY <1>1
<1>3. T \in SUBSET Widgets
  BY <1>1
<1>4. PICK x \in T : \A y \in T \cap Children : Parent[y] # x
  <2> HIDE DEF T
  <2>1. QED
    BY <1>2, <1>3, LastConstructed
<1>5. PICK k \in 1 .. Len(path) : x = path[k] /\ target[path[k]] # l
  BY <1>4
<1>6. x \in Widgets
  BY <1>3, <1>4
<1>7. target[x] = IF x \in Leaves \/ focus[x] = None THEN x ELSE target[focus[x]]
  BY <1>6 DEF Follows
<1>8. CASE k = Len(path)
  BY <1>5, <1>7, <1>8
<1>9. CASE k # Len(path)
  <2>1. k \in 1 .. Len(path) - 1
    BY <1>1, <1>9
  <2>2. path[k + 1] \in Children /\ Parent[path[k + 1]] = x /\ focus[x] = path[k + 1]
    BY <1>5, <2>1 DEF Leads, Turned
  <2>3. x \notin Leaves /\ path[k + 1] # None
    BY <2>2, Sorts
  <2>4. target[path[k + 1]] # l /\ k + 1 \in 1 .. Len(path)
    BY <1>5, <1>7, <2>1, <2>2, <2>3
  <2>5. path[k + 1] \in T
    BY <2>4
  <2>6. QED
    BY <1>4, <2>2, <2>5
<1>10. QED
  BY <1>8, <1>9

\* A click on a leaf turns the links of the way to it, and nothing else turns
\* any.
LEMMA KeysNext ==
  ASSUME GuiInv, GuiInv', KeysFollowClicks, [Next]_vars
  PROVE  KeysFollowClicks'
<1>1. Follows(KeyTarget', focussedChild')
  <2>1. \E f \in [Widgets -> Widgets] :
          f = [w \in Widgets |-> IF w \in Leaves \/ focussedChild'[w] = None THEN w
                                 ELSE f[focussedChild'[w]]]
    BY FocusChain DEF GuiInv, TypeInv, FocusInv
  <2>2. KeyTarget' = [w \in Widgets |->
                        IF w \in Leaves \/ focussedChild'[w] = None THEN w
                        ELSE KeyTarget'[focussedChild'[w]]]
    BY <2>1 DEF KeyTarget
  <2>3. QED
    BY <2>2 DEF Follows
<1>2. CASE UNCHANGED <<focussedChild, clicked>>
  <2>1. KeyTarget' = KeyTarget
    BY <1>2 DEF KeyTarget
  <2>2. QED
    BY <1>2, <2>1 DEF KeysFollowClicks
<1>3. CASE OnMouseDown /\ ~UNCHANGED <<focussedChild, clicked>>
  <2> DEFINE path == PathAt(Mouse)
  <2>1. /\ path[Len(path)] \in Leaves
        /\ focussedChild' = GetFocus(path) /\ clicked' = path[Len(path)]
    BY <1>3 DEF OnMouseDown
  <2>2. Leads(Desktop, path)
    BY MousePath
  <2> HIDE DEF path
  <2>3. Turned(focussedChild', path)
    BY <2>1, <2>2, FocusOnTheWay DEF GuiInv, Turned
  <2>4. KeyTarget'[Desktop] = path[Len(path)]
    BY <1>1, <2>1, <2>2, <2>3, KeysTakeTheWay
  <2>5. QED
    BY <2>1, <2>4 DEF KeysFollowClicks
<1>4. QED
  BY <1>2, <1>3 DEF Next, AddChild, OnMouseMove, vars

\* Keys go to the leaf that was clicked last, in any tree of widgets.
THEOREM KeysGoToTheClicked == Spec => []KeysFollowClicks
<1>1. Init => KeysFollowClicks
  BY DEF Init, KeysFollowClicks
<1>2. QED
  BY <1>1, GuiInvariance, KeysNext, PTL DEF Spec

-----------------------------------------------------------------------------
(* Moves.                                                                  *)

\* How often a child is told, or none.
Tell(f, child, old, new, l) == IF child = None THEN 0 ELSE f[child][<<old, new>>][l]

\* How often a composite passes a move on to leaf l.
Passes(f, w, old, new, l) ==
  LET left    == FirstHit(w, old)
      entered == FirstHit(w, new)
  IN  Tell(f, left, old, new, l) + Tell(f, Entered(left, entered), old, new, l)

\* The equation that defines Told.
ToldBy(f) ==
  [w \in Widgets |->
     [move \in Point \X Point |->
        [l \in Leaves |->
           IF w \in Leaves THEN (IF w = l THEN 1 ELSE 0)
           ELSE Passes(f, w, Within(w, move[1]), Within(w, move[2]), l)]]]

Tellings == [Point \X Point -> [Leaves -> Nat]]

\* Who is passed on to is a child.
LEMMA ToldIsBelow ==
  ASSUME GuiInv, NEW w \in Composites, NEW old, NEW new,
         NEW child \in {FirstHit(w, old), Entered(FirstHit(w, old), FirstHit(w, new))},
         child # None
  PROVE  child \in Children /\ child \in Widgets /\ <<child, w>> \in Below
<1>1. child \in {FirstHit(w, old), FirstHit(w, new)}
  BY DEF Entered
<1>2. child \in Children /\ Parent[child] = w
  BY <1>1, HitBelow DEF GuiInv
<1>3. QED
  BY <1>2, Sorts DEF Below

LEMMA PassesType ==
  ASSUME GuiInv, NEW f, NEW w \in Composites,
         NEW old \in Point, NEW new \in Point, NEW l \in Leaves,
         \A y \in Widgets : <<y, w>> \in Below => f[y] \in Tellings
  PROVE  Passes(f, w, old, new, l) \in Nat
<1>1. ASSUME NEW child \in {FirstHit(w, old), Entered(FirstHit(w, old), FirstHit(w, new))}
      PROVE  Tell(f, child, old, new, l) \in Nat
  <2>1. CASE child = None
    BY <2>1 DEF Tell
  <2>2. CASE child # None
    <3>1. child \in Widgets /\ <<child, w>> \in Below
      BY <2>2, ToldIsBelow
    <3>2. f[child] \in Tellings
      BY <3>1
    <3>3. f[child][<<old, new>>] \in [Leaves -> Nat]
      BY <3>2 DEF Tellings
    <3>4. QED
      BY <2>2, <3>3 DEF Tell
  <2>3. QED
    BY <2>1, <2>2
<1>2. QED
  BY <1>1 DEF Passes

LEMMA PassesLocal ==
  ASSUME GuiInv, NEW f, NEW g, NEW w \in Composites, NEW old, NEW new, NEW l,
         \A y \in Widgets : <<y, w>> \in Below => f[y] = g[y]
  PROVE  Passes(f, w, old, new, l) = Passes(g, w, old, new, l)
<1>1. ASSUME NEW child \in {FirstHit(w, old), Entered(FirstHit(w, old), FirstHit(w, new))}
      PROVE  Tell(f, child, old, new, l) = Tell(g, child, old, new, l)
  BY ToldIsBelow DEF Tell
<1>2. QED
  BY <1>1 DEF Passes

\* A widget keeps count if those below it do.
LEMMA ToldByType ==
  ASSUME GuiInv, NEW f, NEW w \in Widgets,
         \A y \in Widgets : <<y, w>> \in Below => f[y] \in Tellings
  PROVE  ToldBy(f)[w] \in Tellings
<1>1. ASSUME NEW o \in Point, NEW n \in Point, NEW l \in Leaves, w \notin Leaves
      PROVE  Passes(f, w, Within(w, o), Within(w, n), l) \in Nat
  BY <1>1, PassesType, WithinType, Sorts DEF GuiInv
<1>2. ASSUME NEW move \in Point \X Point
      PROVE  [l \in Leaves |->
                IF w \in Leaves THEN (IF w = l THEN 1 ELSE 0)
                ELSE Passes(f, w, Within(w, move[1]), Within(w, move[2]), l)]
             \in [Leaves -> Nat]
  <2>1. move[1] \in Point /\ move[2] \in Point
    OBVIOUS
  <2>2. QED
    BY <1>1, <2>1
<1>3. QED
  BY <1>2 DEF ToldBy, Tellings

LEMMA ToldDefined == GuiInv => Told = ToldBy(Told)
<1> SUFFICES ASSUME GuiInv PROVE Told = ToldBy(Told)
  OBVIOUS
<1> DEFINE D == [f \in [Widgets -> Tellings] |-> ToldBy(f)]
<1>1. ASSUME NEW f \in [Widgets -> Tellings]
      PROVE  ToldBy(f) \in [Widgets -> Tellings]
  <2>1. \A w \in Widgets : ToldBy(f)[w] \in Tellings
    BY ToldByType
  <2>2. QED
    BY <2>1 DEF ToldBy
<1>2. ASSUME NEW f, NEW g, NEW w \in Widgets,
             \A y \in Widgets : <<y, w>> \in Below => f[y] = g[y]
      PROVE  ToldBy(f)[w] = ToldBy(g)[w]
  <2>1. CASE w \in Leaves
    BY <2>1 DEF ToldBy
  <2>2. CASE w \notin Leaves
    <3>1. ASSUME NEW o, NEW n, NEW l
          PROVE  Passes(f, w, Within(w, o), Within(w, n), l)
                   = Passes(g, w, Within(w, o), Within(w, n), l)
      BY <1>2, <2>2, PassesLocal, Sorts
    <3>2. QED
      BY <3>1 DEF ToldBy
  <2>3. QED
    BY <2>1, <2>2
<1>3. Stepwise(D, Widgets, Tellings, Below)
  BY <1>1, <1>2 DEF Stepwise
<1>4. PICK f \in [Widgets -> Tellings] : f = D[f]
  <2>1. Widgets # {} /\ Founded(Widgets, Below) /\ Tellings # {}
    <3>1. [move \in Point \X Point |-> [l \in Leaves |-> 0]] \in Tellings
      BY DEF Tellings
    <3>2. QED
      BY <3>1, Sorts, TreeFounded
  <2> HIDE DEF D
  <2>2. QED
    BY <1>3, <2>1, Recursion
<1>5. \E g : g = ToldBy(g)
  BY <1>4
<1>6. QED
  BY <1>5 DEF Told, ToldBy, Passes, Tell

\* v, its parent, and so on up to the desktop.
Ancestors(v) ==
  {w \in Widgets :
     \A T \in SUBSET Widgets :
       v \in T /\ (\A u \in T \cap Children : Parent[u] \in T) => w \in T}

LEMMA AncestorsUp ==
  ASSUME NEW v \in Widgets
  PROVE  v \in Ancestors(v) /\ \A u \in Ancestors(v) \cap Children : Parent[u] \in Ancestors(v)
BY Sorts DEF Ancestors

LEMMA AncestorsDown ==
  ASSUME NEW v \in Widgets, NEW w \in Ancestors(v), w # v
  PROVE  v \in Children /\ w \in Ancestors(Parent[v])
<1>1. CASE v \in Children
  <2> DEFINE T == {v} \cup Ancestors(Parent[v])
  <2>1. Parent[v] \in Widgets
    BY <1>1, Sorts
  <2>2. T \in SUBSET Widgets /\ \A u \in T \cap Children : Parent[u] \in T
    BY <2>1, AncestorsUp DEF Ancestors
  <2> HIDE DEF T
  <2>3. v \in T
    BY DEF T
  <2>4. w \in T
    BY <2>2, <2>3 DEF Ancestors
  <2>5. QED
    BY <1>1, <2>4 DEF T
<1>2. CASE v \notin Children
  <2>1. {v} \in SUBSET Widgets /\ \A u \in {v} \cap Children : Parent[u] \in {v}
    BY <1>2
  <2>2. w \in {v}
    BY <2>1 DEF Ancestors
  <2>3. QED
    BY <2>2
<1>3. QED
  BY <1>1, <1>2

\* No widget contains its parent.
LEMMA NoCycle ==
  ASSUME NEW v \in Children
  PROVE  v \notin Ancestors(Parent[v])
<1> SUFFICES ASSUME v \in Ancestors(Parent[v]) PROVE FALSE
  OBVIOUS
<1> DEFINE T == {x \in Widgets : v \in Ancestors(x) /\ x \in Ancestors(v)}
<1>1. v \in Widgets /\ Parent[v] \in Widgets
  BY Sorts
<1>2. v \in T
  BY <1>1, AncestorsUp
<1>3. ASSUME NEW x \in T
      PROVE  x \in Children /\ Parent[x] \in T
  <2>1. CASE x = v
    BY <1>1, <2>1, AncestorsUp
  <2>2. CASE x # v
    <3>1. x \in Children /\ v \in Ancestors(Parent[x])
      BY <2>2, AncestorsDown
    <3>2. Parent[x] \in Widgets /\ Parent[x] \in Ancestors(v)
      BY <1>1, <3>1, AncestorsUp, Sorts
    <3>3. QED
      BY <3>1, <3>2
  <2>3. QED
    BY <2>1, <2>2
<1>4. QED
  <2> HIDE DEF T
  <2>1. T \in SUBSET Children /\ T # {}
    BY <1>2, <1>3
  <2>2. QED
    BY <1>3, <2>1, FirstConstructed

\* No widget is below two children of one parent.
LEMMA Siblings ==
  ASSUME NEW u \in Children, NEW v \in Children, Parent[u] = Parent[v],
         NEW x \in Widgets, u \in Ancestors(x), v \in Ancestors(x)
  PROVE  u = v
<1> SUFFICES ASSUME u # v PROVE FALSE
  OBVIOUS
<1> DEFINE T == {y \in Widgets : u \in Ancestors(y) /\ v \in Ancestors(y)}
<1>1. ASSUME NEW y \in T
      PROVE  y \in Children /\ Parent[y] \in T
  <2>1. CASE y = u
    BY <2>1, AncestorsDown, NoCycle
  <2>2. CASE y = v
    BY <2>2, AncestorsDown, NoCycle
  <2>3. CASE y # u /\ y # v
    BY <2>3, AncestorsDown, Sorts
  <2>4. QED
    BY <2>1, <2>2, <2>3
<1>2. QED
  <2>1. x \in T
    OBVIOUS
  <2> HIDE DEF T
  <2>2. T \in SUBSET Children /\ T # {}
    BY <1>1, <2>1
  <2>3. QED
    BY <1>1, <2>2, FirstConstructed

\* The widget a click finds at p.
End(w, p) == Path[w][p][Len(Path[w][p])]

LEMMA EndUnfolds ==
  ASSUME GuiInv, NEW w \in Widgets, NEW p \in Point,
         NEW child, child = FirstHit(w, Within(w, p))
  PROVE  End(w, p) = IF w \in Leaves \/ child = None THEN w ELSE End(child, Within(w, p))
<1>1. Path[w][p] = IF w \in Leaves \/ child = None THEN <<w>>
                   ELSE <<w>> \o Path[child][Within(w, p)]
  BY PathUnfolds
<1>2. CASE w \in Leaves \/ child = None
  BY <1>1, <1>2 DEF End
<1>3. CASE ~(w \in Leaves \/ child = None)
  <2> DEFINE rest == Path[child][Within(w, p)]
  <2>1. child \in Widgets /\ Within(w, p) \in Point
    BY <1>3, HitBelow, WithinType, Sorts DEF GuiInv
  <2>2. Leads(child, rest)
    BY <2>1, PathLeads
  <2> HIDE DEF rest
  <2>3. rest \in Seq(Widgets) /\ Len(rest) >= 1
    BY <2>2 DEF Leads
  <2>4. (<<w>> \o rest)[Len(<<w>> \o rest)] = rest[Len(rest)]
    BY <2>3
  <2>5. QED
    BY <1>1, <1>3, <2>4 DEF End, rest
<1>4. QED
  BY <1>2, <1>3

\* Of a move w tells a leaf once or not at all, only a leaf below it, and always
\* the one that the pointer leaves and the one it enters.
Count(w, o, n, l) == Told[w][<<o, n>>][l]

CountsRight(w) ==
  \A o, n \in Point, l \in Leaves :
    /\ Count(w, o, n, l) \in {0, 1}
    /\ Count(w, o, n, l) = 1 => w \in Ancestors(l)
    /\ l = End(w, o) \/ l = End(w, n) => Count(w, o, n, l) = 1

\* Leaves count themselves.
LEMMA LeafCounts ==
  ASSUME GuiInv, NEW w \in Leaves
  PROVE  CountsRight(w)
<1> SUFFICES ASSUME NEW o \in Point, NEW n \in Point, NEW l \in Leaves
             PROVE  /\ Count(w, o, n, l) \in {0, 1}
                    /\ Count(w, o, n, l) = 1 => w \in Ancestors(l)
                    /\ l = End(w, o) \/ l = End(w, n) => Count(w, o, n, l) = 1
  BY DEF CountsRight
<1>1. w \in Widgets /\ l \in Widgets
  BY Sorts
<1>2. Count(w, o, n, l) = IF w = l THEN 1 ELSE 0
  <2>1. Told = ToldBy(Told)
    BY ToldDefined
  <2>2. ToldBy(Told)[w][<<o, n>>][l] = IF w = l THEN 1 ELSE 0
    BY <1>1 DEF ToldBy
  <2>3. QED
    BY <2>1, <2>2 DEF Count
<1>3. End(w, o) = w /\ End(w, n) = w
  BY <1>1, EndUnfolds
<1>4. w \in Ancestors(w)
  BY <1>1, AncestorsUp
<1>5. QED
  BY <1>2, <1>3, <1>4

\* Composites count right if their children do.
LEMMA CompositeCounts ==
  ASSUME GuiInv, NEW w \in Composites,
         \A child \in Children : Parent[child] = w => CountsRight(child)
  PROVE  CountsRight(w)
<1> SUFFICES ASSUME NEW o \in Point, NEW n \in Point, NEW l \in Leaves
             PROVE  /\ Count(w, o, n, l) \in {0, 1}
                    /\ Count(w, o, n, l) = 1 => w \in Ancestors(l)
                    /\ l = End(w, o) \/ l = End(w, n) => Count(w, o, n, l) = 1
  BY DEF CountsRight
<1> DEFINE old     == Within(w, o)
           new     == Within(w, n)
           left    == FirstHit(w, old)
           entered == FirstHit(w, new)
           other   == Entered(left, entered)
           T(child) == Tell(Told, child, old, new, l)
<1>1. w \in Widgets /\ l \in Widgets /\ w \notin Leaves /\ l # w
  BY Sorts
<1>2. old \in Point /\ new \in Point
  BY <1>1, WithinType DEF GuiInv
<1>3. Count(w, o, n, l) = T(left) + T(other)
  <2>1. Told = ToldBy(Told)
    BY ToldDefined
  <2>2. ToldBy(Told)[w][<<o, n>>][l] = Passes(Told, w, old, new, l)
    BY <1>1 DEF ToldBy
  <2>3. QED
    BY <2>1, <2>2 DEF Count, Passes
<1>4. ASSUME NEW child \in {left, entered, other}, child # None
      PROVE  /\ child \in Children /\ Parent[child] = w
             /\ T(child) = Count(child, old, new, l) /\ CountsRight(child)
  <2>1. child \in {left, entered}
    BY <1>4 DEF Entered
  <2>2. child \in Children /\ Parent[child] = w
    BY <1>4, <2>1, HitBelow DEF GuiInv
  <2>3. QED
    BY <1>4, <2>2 DEF Tell, Count
<1>5. T(None) = 0
  BY DEF Tell
<1>6. other = None \/ (other = entered /\ other # left)
  <2> HIDE DEF left, entered
  <2>1. QED
    BY DEF Entered
<1>7. /\ End(w, o) = IF left = None THEN w ELSE End(left, old)
      /\ End(w, n) = IF entered = None THEN w ELSE End(entered, new)
  BY <1>1, EndUnfolds
<1>8. left # entered => other = entered
  BY DEF Entered
<1> HIDE DEF old, new, left, entered, other, T
<1>9. ASSUME NEW child \in {left, entered, other}
      PROVE  T(child) \in {0, 1} /\ (T(child) = 1 => child \in Ancestors(l) /\ child # None)
  <2>1. CASE child = None
    BY <1>5, <2>1
  <2>2. CASE child # None
    BY <1>2, <1>4, <2>2 DEF CountsRight
  <2>3. QED
    BY <2>1, <2>2
<1>10. ~(T(left) = 1 /\ T(other) = 1)
  <2> SUFFICES ASSUME T(left) = 1, T(other) = 1 PROVE FALSE
    OBVIOUS
  <2>1. left \in Ancestors(l) /\ other \in Ancestors(l) /\ left # None /\ other # None
    BY <1>9
  <2>2. /\ left \in Children /\ other \in Children
        /\ Parent[left] = Parent[other] /\ left # other
    BY <1>4, <1>6, <2>1
  <2>3. QED
    BY <1>1, <2>1, <2>2, Siblings
<1>11. Count(w, o, n, l) \in {0, 1}
  BY <1>3, <1>9, <1>10
<1>12. ASSUME Count(w, o, n, l) = 1
       PROVE  w \in Ancestors(l)
  <2>1. PICK child \in {left, other} : T(child) = 1
    BY <1>3, <1>9, <1>12
  <2>2. child \in Ancestors(l) /\ child \in Children /\ Parent[child] = w
    BY <1>4, <1>9, <2>1
  <2>3. QED
    BY <1>1, <2>2, AncestorsUp
<1>13. ASSUME l = End(w, o)
       PROVE  Count(w, o, n, l) = 1
  <2>1. left # None /\ l = End(left, old)
    BY <1>1, <1>7, <1>13
  <2>2. T(left) = 1
    BY <1>2, <1>4, <2>1 DEF CountsRight
  <2>3. QED
    BY <1>3, <1>9, <1>10, <2>2
<1>14. ASSUME l = End(w, n)
       PROVE  Count(w, o, n, l) = 1
  <2>1. entered # None /\ l = End(entered, new)
    BY <1>1, <1>7, <1>14
  <2>2. T(entered) = 1
    BY <1>2, <1>4, <2>1 DEF CountsRight
  <2>3. entered = left \/ entered = other
    BY <1>8
  <2>4. QED
    BY <1>3, <1>9, <1>10, <2>2, <2>3
<1>15. QED
  BY <1>11, <1>12, <1>13, <1>14

LEMMA AllCountRight ==
  ASSUME GuiInv, NEW w \in Widgets
  PROVE  CountsRight(w)
<1> DEFINE T == {v \in Widgets : ~CountsRight(v)}
<1> SUFFICES ASSUME T # {} PROVE FALSE
  OBVIOUS
<1>1. PICK v \in T : \A y \in T \cap Children : Parent[y] # v
  <2>1. T \in SUBSET Widgets
    OBVIOUS
  <2> HIDE DEF T
  <2>2. QED
    BY <2>1, LastConstructed
<1>2. \A child \in Children : Parent[child] = v => CountsRight(child)
  BY <1>1, Sorts
<1>3. QED
  <2>1. v \in Widgets /\ ~CountsRight(v)
    BY <1>1
  <2>2. v \in Leaves \/ v \in Composites
    BY <2>1, Sorts
  <2>3. QED
    BY <1>2, <2>1, <2>2, LeafCounts, CompositeCounts

\* The record of a move is one, and the move was told where it should be.
MotionInv ==
  /\ motion.from \in Widgets \cup {None} /\ motion.to \in Widgets \cup {None}
  /\ motion.told \in [Leaves -> Nat]
  /\ MovesTold

LEMMA UntoldMotion ==
  ASSUME motion = Untold
  PROVE  MotionInv
<1>1. motion.from = None /\ motion.to = None /\ motion.told = [l \in Leaves |-> 0]
  BY DEF Untold
<1>2. None \notin Leaves
  BY Sorts
<1>3. QED
  BY <1>1, <1>2 DEF MotionInv, MovesTold

\* A move is told once to the leaf the pointer leaves and the one it enters.
LEMMA MoveIsTold ==
  ASSUME GuiInv, NEW dx \in Motions, NEW dy \in Motions, OnMouseMove(dx, dy)
  PROVE  MotionInv'
<1>1. Mouse \in Point /\ Mouse' \in Point /\ Desktop \in Widgets
  BY MousePath, MouseMoveGuiInv, Sorts
<1> DEFINE to == Mouse'
           told == Told[Desktop][<<Mouse, to>>]
<1>2. motion' = [from |-> Hit(Mouse), to |-> Hit(to), told |-> told]
  BY DEF OnMouseMove
<1> HIDE DEF to
<1>3. to \in Point
  BY <1>1 DEF to
<1>4. Hit(Mouse) = End(Desktop, Mouse) /\ Hit(to) = End(Desktop, to)
  BY DEF Hit, PathAt, End
<1>5. Hit(Mouse) \in Widgets /\ Hit(to) \in Widgets
  <2>1. Leads(Desktop, Path[Desktop][Mouse]) /\ Leads(Desktop, Path[Desktop][to])
    BY <1>1, <1>3, PathLeads
  <2>2. QED
    BY <2>1 DEF Leads, Hit, PathAt
<1>6. ASSUME NEW l \in Leaves
      PROVE  /\ told[l] \in {0, 1}
             /\ l = Hit(Mouse) \/ l = Hit(to) => told[l] = 1
  BY <1>1, <1>3, <1>4, AllCountRight DEF CountsRight, Count
<1>7. told = [l \in Leaves |-> told[l]]
  <2>1. Told = ToldBy(Told)
    BY ToldDefined
  <2>2. \A f : DOMAIN (ToldBy(f)[Desktop][<<Mouse, to>>]) = Leaves
                /\ ToldBy(f)[Desktop][<<Mouse, to>>]
                     = [l \in Leaves |-> ToldBy(f)[Desktop][<<Mouse, to>>][l]]
    BY <1>1, <1>3 DEF ToldBy
  <2>3. QED
    BY <2>1, <2>2
<1> HIDE DEF told
<1>8. told \in [Leaves -> Nat]
  BY <1>6, <1>7
<1>9. /\ motion'.from = Hit(Mouse) /\ motion'.to = Hit(to) /\ motion'.told = told
  BY <1>2
<1>10. MovesTold'
  BY <1>6, <1>9 DEF MovesTold
<1>11. QED
  BY <1>5, <1>8, <1>9, <1>10 DEF MotionInv

LEMMA MotionNext ==
  ASSUME GuiInv, MotionInv, [Next]_vars
  PROVE  MotionInv'
<1>1. ASSUME NEW w \in Children, AddChild(w)
      PROVE  MotionInv'
  <2>1. motion' = Untold
    BY <1>1 DEF AddChild
  <2>2. motion'.from = None /\ motion'.to = None /\ motion'.told = [l \in Leaves |-> 0]
    BY <2>1 DEF Untold
  <2>3. None \notin Leaves
    BY Sorts
  <2>4. QED
    BY <2>2, <2>3 DEF MotionInv, MovesTold
<1>2. CASE UNCHANGED motion
  BY <1>2 DEF MotionInv, MovesTold
<1>3. QED
  BY <1>1, <1>2, MoveIsTold DEF Next, OnMouseDown, vars

\* Every move has been told as it should.
THEOREM MotionInvariance == Spec => []MotionInv
<1>1. Init => MotionInv
  BY UntoldMotion DEF Init
<1>2. QED
  BY <1>1, GuiInvariance, MotionNext, PTL DEF Spec

\* Every variable has its type, and the clamps keep the pointer on the desktop,
\* for any tree, layout and motions.
THEOREM TypesAreKept == Spec => []TypeOK
<1>1. GuiInv /\ MotionInv => TypeOK
  BY DEF GuiInv, TypeInv, MotionInv, TypeOK
<1>2. QED
  BY <1>1, GuiInvariance, MotionInvariance, PTL

\* A move is told once to the leaf the pointer leaves and to the one it enters,
\* and to no leaf twice, through any nesting.
THEOREM MovesAreTold == Spec => []MovesTold
<1>1. MotionInv => MovesTold
  BY DEF MotionInv
<1>2. QED
  BY <1>1, MotionInvariance, PTL

-----------------------------------------------------------------------------
(* What is on the screen.                                                  *)

Corners == [x : Int, y : Int]

\* The equation that defines Corner.
CornerBy(f) ==
  [w \in Widgets |->
     IF w = Desktop THEN [x |-> rect[w].x, y |-> rect[w].y]
     ELSE [x |-> f[Parent[w]].x + rect[w].x, y |-> f[Parent[w]].y + rect[w].y]]

LEMMA CornerDefined == GuiInv => Corner = CornerBy(Corner)
<1> SUFFICES ASSUME GuiInv PROVE Corner = CornerBy(Corner)
  OBVIOUS
<1> DEFINE D == [f \in [Widgets -> Corners] |-> CornerBy(f)]
<1>1. ASSUME NEW w \in Widgets
      PROVE  /\ rect[w].x \in Int /\ rect[w].y \in Int
             /\ w # Desktop => Parent[w] \in Widgets /\ <<Parent[w], w>> \in Above
  BY Boxes, Sorts DEF GuiInv, TypeInv, Above
<1>2. ASSUME NEW f \in [Widgets -> Corners]
      PROVE  CornerBy(f) \in [Widgets -> Corners]
  <2>1. ASSUME NEW w \in Widgets
        PROVE  CornerBy(f)[w] \in Corners
    <3>1. CASE w = Desktop
      BY <1>1, <3>1 DEF CornerBy, Corners
    <3>2. CASE w # Desktop
      <4>1. f[Parent[w]] \in Corners
        BY <1>1, <3>2
      <4>2. f[Parent[w]].x \in Int /\ f[Parent[w]].y \in Int
        BY <4>1 DEF Corners
      <4>3. CornerBy(f)[w] = [x |-> f[Parent[w]].x + rect[w].x,
                              y |-> f[Parent[w]].y + rect[w].y]
        BY <3>2 DEF CornerBy
      <4>4. f[Parent[w]].x + rect[w].x \in Int /\ f[Parent[w]].y + rect[w].y \in Int
        <5>1. rect[w].x \in Int /\ rect[w].y \in Int
          BY <1>1
        <5>2. \A a, b \in Int : a + b \in Int
          OBVIOUS
        <5>3. QED
          BY <4>2, <5>1, <5>2
      <4>5. QED
        BY <4>3, <4>4 DEF Corners
    <3>3. QED
      BY <3>1, <3>2
  <2>2. QED
    BY <2>1 DEF CornerBy
<1>3. ASSUME NEW f, NEW g, NEW w \in Widgets,
             \A y \in Widgets : <<y, w>> \in Above => f[y] = g[y]
      PROVE  CornerBy(f)[w] = CornerBy(g)[w]
  BY <1>1, <1>3 DEF CornerBy
<1>4. Stepwise(D, Widgets, Corners, Above)
  BY <1>2, <1>3 DEF Stepwise
<1>5. PICK f \in [Widgets -> Corners] : f = D[f]
  <2>1. Widgets # {} /\ Founded(Widgets, Above) /\ Corners # {}
    <3>1. [x |-> 0, y |-> 0] \in Corners
      BY DEF Corners
    <3>2. QED
      BY <3>1, Sorts, TreeFounded
  <2> HIDE DEF D
  <2>2. QED
    BY <1>4, <2>1, Recursion
<1>6. \E g : g = CornerBy(g)
  BY <1>5
<1>7. QED
  BY <1>6 DEF Corner, CornerBy

\* The corner of a child is that of its parent and the offset of the child.
LEMMA CornerUnfolds ==
  ASSUME GuiInv
  PROVE  /\ Corner[Desktop].x = 0 /\ Corner[Desktop].y = 0
         /\ \A w \in Children : /\ Corner[w].x = Corner[Parent[w]].x + rect[w].x
                                /\ Corner[w].y = Corner[Parent[w]].y + rect[w].y
<1>1. Corner = CornerBy(Corner)
  BY CornerDefined
<1>2. \A f : /\ CornerBy(f)[Desktop] = [x |-> rect[Desktop].x, y |-> rect[Desktop].y]
             /\ \A w \in Children :
                  CornerBy(f)[w] = [x |-> f[Parent[w]].x + rect[w].x,
                                    y |-> f[Parent[w]].y + rect[w].y]
  BY Sorts DEF CornerBy
<1>3. rect[Desktop].x = 0 /\ rect[Desktop].y = 0
  BY Boxes DEF GuiInv, TypeInv
<1>4. Corner[Desktop].x = 0 /\ Corner[Desktop].y = 0
  <2>1. Corner[Desktop] = [x |-> rect[Desktop].x, y |-> rect[Desktop].y]
    BY <1>1, <1>2
  <2>2. QED
    BY <1>3, <2>1
<1>5. ASSUME NEW w \in Children
      PROVE  /\ Corner[w].x = Corner[Parent[w]].x + rect[w].x
             /\ Corner[w].y = Corner[Parent[w]].y + rect[w].y
  <2>1. Corner[w] = [x |-> Corner[Parent[w]].x + rect[w].x,
                     y |-> Corner[Parent[w]].y + rect[w].y]
    BY <1>1, <1>2
  <2>2. QED
    BY <2>1
<1>6. QED
  BY <1>4, <1>5

LEMMA CornerType ==
  ASSUME GuiInv, NEW w \in Widgets
  PROVE  Corner[w].x \in Int /\ Corner[w].y \in Int
<1> DEFINE Typed(v) == Corner[v].x \in Int /\ Corner[v].y \in Int
           T == {v \in Widgets : ~Typed(v)}
<1>1. Typed(Desktop)
  BY CornerUnfolds
<1>2. SUFFICES ASSUME T # {} PROVE FALSE
  OBVIOUS
<1>3. T \in SUBSET Children
  BY <1>1, Sorts
<1>4. PICK v \in T : Parent[v] \notin T
  <2> HIDE DEF T
  <2>1. QED
    BY <1>2, <1>3, FirstConstructed
<1>5. v \in Children /\ v \in Widgets /\ Parent[v] \in Widgets
  BY <1>3, <1>4, Sorts
<1>6. Typed(Parent[v])
  BY <1>4, <1>5
<1>7. rect[v].x \in Int /\ rect[v].y \in Int
  BY <1>5, Boxes DEF GuiInv, TypeInv
<1>8. Typed(v)
  BY <1>5, <1>6, <1>7, CornerUnfolds
<1>9. QED
  BY <1>4, <1>8

\* The children that leave something at p, if f says what a widget shows.
Drawings(f, w, p) == {i \in DOMAIN children[w] : f[children[w][i]][p] # None}

\* What the last of them shows.
Greatest(S) == CHOOSE i \in S : \A j \in S : j <= i

LastDrawn(f, w, p) == f[children[w][Greatest(Drawings(f, w, p))]][p]

\* The equation that defines Seen.
SeenBy(f) ==
  [w \in Widgets |->
     [p \in Point |->
        IF w \in Leaves \/ Drawings(f, w, p) = {} THEN (IF Covers(w, p) THEN w ELSE None)
        ELSE LastDrawn(f, w, p)]]

Pictures == [Point -> Widgets \cup {None}]

\* A set of numbers up to n has a greatest one.
LEMMA GreatestNatural ==
  ASSUME NEW n \in Nat, NEW T \in SUBSET (1 .. n), T # {}
  PROVE  \E x \in T : \A y \in T : y <= x
<1> DEFINE R == {n - x : x \in T}
<1>1. R \in SUBSET Nat /\ R # {}
  <2>1. \A x \in T : x \in Nat /\ x <= n /\ n - x \in Nat
    OBVIOUS
  <2>2. QED
    BY <2>1
<1>2. PICK r \in R : \A s \in R : r <= s
  <2> HIDE DEF R
  <2>1. QED
    BY <1>1, LeastNatural
<1>3. PICK x \in T : r = n - x
  BY <1>2
<1>4. ASSUME NEW y \in T
      PROVE  y <= x
  <2>1. n - y \in R
    OBVIOUS
  <2>2. n - x <= n - y /\ x \in Int /\ y \in Int
    BY <1>2, <1>3, <2>1
  <2>3. QED
    BY <2>2
<1>5. QED
  BY <1>4

\* The last to show something is one of the children that do.
LEMMA LastIsDrawn ==
  ASSUME GuiInv, NEW f, NEW w \in Composites, NEW p, Drawings(f, w, p) # {}
  PROVE  \E i \in Drawings(f, w, p) :
           /\ children[w][i] \in Children /\ Parent[children[w][i]] = w
           /\ \A j \in Drawings(f, w, p) : j <= i
           /\ LastDrawn(f, w, p) = f[children[w][i]][p]
<1> DEFINE drawn == Drawings(f, w, p)
           last  == Greatest(drawn)
<1>1. children[w] \in Seq(Children)
  BY DEF GuiInv, TypeInv
<1>2. Len(children[w]) \in Nat /\ DOMAIN children[w] = 1 .. Len(children[w])
  BY <1>1
<1>3. drawn \in SUBSET (1 .. Len(children[w])) /\ drawn # {}
  BY <1>2 DEF Drawings
<1> HIDE DEF drawn
<1>4. last \in drawn /\ \A j \in drawn : j <= last
  BY <1>2, <1>3, GreatestNatural DEF Greatest
<1>5. LastDrawn(f, w, p) = f[children[w][last]][p]
  BY DEF LastDrawn, drawn
<1> HIDE DEF last
<1>6. children[w][last] \in Children /\ Parent[children[w][last]] = w
  BY <1>1, <1>2, <1>3, <1>4 DEF GuiInv, TreeInv
<1>7. QED
  BY <1>4, <1>5, <1>6 DEF drawn

LEMMA SeenDefined == GuiInv => Seen = SeenBy(Seen)
<1> SUFFICES ASSUME GuiInv PROVE Seen = SeenBy(Seen)
  OBVIOUS
<1> DEFINE D == [f \in [Widgets -> Pictures] |-> SeenBy(f)]
<1>1. ASSUME NEW w \in Composites, NEW i \in DOMAIN children[w]
      PROVE  children[w][i] \in Widgets /\ <<children[w][i], w>> \in Below
  <2>1. children[w] \in Seq(Children)
    BY DEF GuiInv, TypeInv
  <2>2. children[w][i] \in Children /\ Parent[children[w][i]] = w
    BY <2>1 DEF GuiInv, TreeInv
  <2>3. QED
    BY <2>2, Sorts DEF Below
<1>2. ASSUME NEW f \in [Widgets -> Pictures]
      PROVE  SeenBy(f) \in [Widgets -> Pictures]
  <2>1. ASSUME NEW w \in Composites, NEW p \in Point, Drawings(f, w, p) # {}
        PROVE  LastDrawn(f, w, p) \in Widgets \cup {None}
    <3>1. PICK i \in Drawings(f, w, p) :
            children[w][i] \in Children /\ LastDrawn(f, w, p) = f[children[w][i]][p]
      BY <2>1, LastIsDrawn
    <3>2. children[w][i] \in Widgets
      BY <3>1, Sorts
    <3>3. f[children[w][i]] \in Pictures
      BY <3>2
    <3>4. QED
      BY <3>1, <3>3 DEF Pictures
  <2>2. ASSUME NEW w \in Widgets, NEW p \in Point
        PROVE  (IF w \in Leaves \/ Drawings(f, w, p) = {}
                  THEN (IF Covers(w, p) THEN w ELSE None) ELSE LastDrawn(f, w, p))
               \in Widgets \cup {None}
    BY <2>1, Sorts
  <2>3. QED
    BY <2>2 DEF SeenBy, Pictures
<1>3. ASSUME NEW f, NEW g, NEW w \in Widgets,
             \A y \in Widgets : <<y, w>> \in Below => f[y] = g[y]
      PROVE  SeenBy(f)[w] = SeenBy(g)[w]
  <2>1. CASE w \in Leaves
    BY <2>1 DEF SeenBy
  <2>2. CASE w \notin Leaves
    <3>1. w \in Composites
      BY <2>2, Sorts
    <3>2. \A i \in DOMAIN children[w] : f[children[w][i]] = g[children[w][i]]
      BY <1>1, <1>3, <3>1
    <3>3. \A p : Drawings(f, w, p) = Drawings(g, w, p)
      BY <3>2 DEF Drawings
    <3>4. ASSUME NEW p, Drawings(f, w, p) # {}
          PROVE  LastDrawn(f, w, p) = LastDrawn(g, w, p)
      <4> DEFINE last == Greatest(Drawings(f, w, p))
      <4>1. children[w] \in Seq(Children)
        BY <3>1 DEF GuiInv, TypeInv
      <4>2. Drawings(f, w, p) \in SUBSET (1 .. Len(children[w])) /\ Len(children[w]) \in Nat
        BY <4>1 DEF Drawings
      <4>3. last \in Drawings(f, w, p)
        BY <3>4, <4>2, GreatestNatural DEF Greatest
      <4>4. last \in DOMAIN children[w]
        BY <4>3 DEF Drawings
      <4>5. LastDrawn(f, w, p) = f[children[w][last]][p]
        BY DEF LastDrawn
      <4>6. LastDrawn(g, w, p) = g[children[w][last]][p]
        BY <3>3 DEF LastDrawn
      <4>7. QED
        BY <3>2, <4>4, <4>5, <4>6
    <3>5. QED
      BY <3>3, <3>4 DEF SeenBy
  <2>3. QED
    BY <2>1, <2>2
<1>4. Stepwise(D, Widgets, Pictures, Below)
  BY <1>2, <1>3 DEF Stepwise
<1>5. PICK f \in [Widgets -> Pictures] : f = D[f]
  <2>1. Widgets # {} /\ Founded(Widgets, Below) /\ Pictures # {}
    <3>1. [p \in Point |-> None] \in Pictures
      BY DEF Pictures
    <3>2. QED
      BY <3>1, Sorts, TreeFounded
  <2> HIDE DEF D
  <2>2. QED
    BY <1>4, <2>1, Recursion
<1>6. \E g : g = SeenBy(g)
  BY <1>5
<1>7. QED
  BY <1>6 DEF Seen, SeenBy, LastDrawn, Drawings, Greatest

LEMMA SeenUnfolds ==
  ASSUME GuiInv, NEW w \in Widgets, NEW p \in Point
  PROVE  Seen[w][p] = IF w \in Leaves \/ Drawings(Seen, w, p) = {}
                        THEN (IF Covers(w, p) THEN w ELSE None)
                      ELSE LastDrawn(Seen, w, p)
<1>1. Seen = SeenBy(Seen)
  BY SeenDefined
<1>2. \A f : SeenBy(f)[w][p] = IF w \in Leaves \/ Drawings(f, w, p) = {}
                                 THEN (IF Covers(w, p) THEN w ELSE None)
                               ELSE LastDrawn(f, w, p)
  BY DEF SeenBy
<1>3. QED
  BY <1>1, <1>2

\* A point of the screen, relative to w and to the parent of w.
Inner(w, p) == <<p[1] - Corner[w].x, p[2] - Corner[w].y>>
Outer(w, p) == <<p[1] - Corner[w].x + rect[w].x, p[2] - Corner[w].y + rect[w].y>>

\* Sums and differences of coordinates agree.
LEMMA Frames ==
  ASSUME GuiInv, NEW w \in Widgets, NEW p \in Point
  PROVE  /\ Inner(w, p) \in Point /\ Outer(w, p) \in Point
         /\ Within(w, Outer(w, p)) = Inner(w, p)
         /\ Covers(w, p) <=> Contains(w, Outer(w, p))
         /\ w \in Children => Outer(w, p) = Inner(Parent[w], p)
<1> DEFINE cx == Corner[w].x
           cy == Corner[w].y
           dx == rect[w].x
           dy == rect[w].y
<1>1. /\ cx \in Int /\ cy \in Int /\ dx \in Int /\ dy \in Int
      /\ rect[w].w \in Int /\ rect[w].h \in Int
  BY CornerType, Boxes DEF GuiInv, TypeInv
<1>2. p = <<p[1], p[2]>> /\ p[1] \in Int /\ p[2] \in Int
  BY DEF Point
<1>3. Inner(w, p) = <<p[1] - cx, p[2] - cy>>
  BY DEF Inner
<1>4. Outer(w, p) = <<p[1] - cx + dx, p[2] - cy + dy>>
  BY DEF Outer
<1>5. Inner(w, p) \in Point /\ Outer(w, p) \in Point
  BY <1>1, <1>2, <1>3, <1>4 DEF Point
<1>6. Within(w, Outer(w, p)) = Inner(w, p)
  <2> DEFINE q == Outer(w, p)
  <2>1. Within(w, q) = <<q[1] - dx, q[2] - dy>>
    BY DEF Within
  <2>2. q[1] = p[1] - cx + dx /\ q[2] = p[2] - cy + dy
    BY <1>4
  <2> HIDE DEF cx, cy, dx, dy, q
  <2>3. q[1] - dx = p[1] - cx /\ q[2] - dy = p[2] - cy
    BY <1>1, <1>2, <2>2
  <2>4. Within(w, q) = <<p[1] - cx, p[2] - cy>>
    BY <2>1, <2>3, Zenon
  <2>5. QED
    BY <1>3, <2>4 DEF q
<1>7. Covers(w, p) <=> Contains(w, Outer(w, p))
  <2>1. Contains(w, Outer(w, p)) <=>
          /\ dx <= p[1] - cx + dx /\ p[1] - cx + dx < dx + rect[w].w
          /\ dy <= p[2] - cy + dy /\ p[2] - cy + dy < dy + rect[w].h
    BY <1>4 DEF Contains
  <2>2. Covers(w, p) <=>
          /\ cx <= p[1] /\ p[1] < cx + rect[w].w
          /\ cy <= p[2] /\ p[2] < cy + rect[w].h
    BY DEF Covers
  <2>3. QED
    BY <1>1, <1>2, <2>1, <2>2
<1>8. ASSUME w \in Children
      PROVE  Outer(w, p) = Inner(Parent[w], p)
  <2> DEFINE px == Corner[Parent[w]].x
             py == Corner[Parent[w]].y
  <2>1. cx = px + dx /\ cy = py + dy /\ px \in Int /\ py \in Int
    BY <1>8, CornerUnfolds, CornerType, Sorts
  <2>2. p[1] - cx + dx = p[1] - px /\ p[2] - cy + dy = p[2] - py
    BY <1>1, <1>2, <2>1
  <2>3. QED
    BY <1>4, <2>2 DEF Inner
<1>9. QED
  BY <1>5, <1>6, <1>7, <1>8

\* Somewhere on the way two siblings cover p.
Crowd(path, p) == \E k \in DOMAIN path : Crowded(path[k], p)

LEMMA CrowdUnfolds ==
  ASSUME NEW w \in Widgets, NEW p
  PROVE  /\ Crowd(<<w>>, p) <=> Crowded(w, p)
         /\ \A rest \in Seq(Widgets) :
              Crowd(<<w>> \o rest, p) <=> (Crowded(w, p) \/ Crowd(rest, p))
<1>1. Crowd(<<w>>, p) <=> Crowded(w, p)
  BY DEF Crowd
<1>2. ASSUME NEW rest \in Seq(Widgets)
      PROVE  Crowd(<<w>> \o rest, p) <=> (Crowded(w, p) \/ Crowd(rest, p))
  <2> DEFINE path == <<w>> \o rest
  <2>1. /\ DOMAIN path = 1 .. Len(rest) + 1 /\ DOMAIN rest = 1 .. Len(rest)
        /\ Len(rest) \in Nat /\ path[1] = w
        /\ \A k \in 1 .. Len(rest) : path[k + 1] = rest[k]
    OBVIOUS
  <2> HIDE DEF path
  <2>2. ASSUME Crowd(path, p) PROVE Crowded(w, p) \/ Crowd(rest, p)
    <3>1. PICK k \in DOMAIN path : Crowded(path[k], p)
      BY <2>2 DEF Crowd
    <3>2. CASE k = 1
      BY <2>1, <3>1, <3>2
    <3>3. CASE k # 1
      <4>1. k - 1 \in 1 .. Len(rest) /\ path[(k - 1) + 1] = path[k]
        BY <2>1, <3>3
      <4>2. Crowded(rest[k - 1], p)
        BY <2>1, <3>1, <4>1
      <4>3. QED
        BY <2>1, <4>1, <4>2 DEF Crowd
    <3>4. QED
      BY <3>2, <3>3
  <2>3. ASSUME Crowded(w, p) PROVE Crowd(path, p)
    <3>1. 1 \in DOMAIN path
      BY <2>1
    <3>2. QED
      BY <2>1, <2>3, <3>1 DEF Crowd
  <2>4. ASSUME Crowd(rest, p) PROVE Crowd(path, p)
    <3>1. PICK k \in DOMAIN rest : Crowded(rest[k], p)
      BY <2>4 DEF Crowd
    <3>2. k + 1 \in DOMAIN path /\ path[k + 1] = rest[k]
      BY <2>1
    <3>3. QED
      BY <3>1, <3>2 DEF Crowd
  <2>5. QED
    BY <2>2, <2>3, <2>4 DEF path
<1>3. QED
  BY <1>1, <1>2

\* At p, w shows itself or something below it, a click finds itself or something
\* below it, and they differ if two siblings on the way cover p; w shows nothing
\* outside of itself.
ShowsRight(w) ==
  \A p \in Point :
    /\ ~Covers(w, p) => Seen[w][p] = None
    /\ Covers(w, p) =>
         /\ Seen[w][p] \in Widgets /\ w \in Ancestors(Seen[w][p])
         /\ End(w, Outer(w, p)) \in Widgets /\ w \in Ancestors(End(w, Outer(w, p)))
         /\ (End(w, Outer(w, p)) = Seen[w][p] <=> ~Crowd(Path[w][Outer(w, p)], p))

LEMMA LeafShows ==
  ASSUME GuiInv, NEW w \in Leaves
  PROVE  ShowsRight(w)
<1>1. w \in Widgets /\ w \notin Composites
  BY Sorts
<1> SUFFICES ASSUME NEW p \in Point
    PROVE  /\ ~Covers(w, p) => Seen[w][p] = None
           /\ Covers(w, p) =>
                /\ Seen[w][p] \in Widgets /\ w \in Ancestors(Seen[w][p])
                /\ End(w, Outer(w, p)) \in Widgets /\ w \in Ancestors(End(w, Outer(w, p)))
                /\ (End(w, Outer(w, p)) = Seen[w][p] <=> ~Crowd(Path[w][Outer(w, p)], p))
  BY DEF ShowsRight
<1>2. Seen[w][p] = IF Covers(w, p) THEN w ELSE None
  BY <1>1, SeenUnfolds
<1>3. Outer(w, p) \in Point
  BY <1>1, Frames
<1>4. End(w, Outer(w, p)) = w /\ Path[w][Outer(w, p)] = <<w>>
  BY <1>1, <1>3, EndUnfolds, PathUnfolds
<1>5. ~Crowd(Path[w][Outer(w, p)], p)
  BY <1>1, <1>4, CrowdUnfolds DEF Crowded
<1>6. QED
  BY <1>1, <1>2, <1>4, <1>5, AncestorsUp

\* A child inside its parent covers no point that the parent does not.
LEMMA InsideCovers ==
  ASSUME GuiInv, Contained, NEW w \in Children, NEW p \in Point, Covers(w, p)
  PROVE  Covers(Parent[w], p)
<1> DEFINE v == Parent[w]
<1>1. w \in Widgets /\ v \in Widgets
  BY Sorts
<1>2. /\ Corner[w].x = Corner[v].x + rect[w].x /\ Corner[w].y = Corner[v].y + rect[w].y
      /\ Corner[v].x \in Int /\ Corner[v].y \in Int
  BY <1>1, CornerUnfolds, CornerType
<1>3. /\ rect[w].x \in Int /\ rect[w].y \in Int /\ rect[w].w \in Int /\ rect[w].h \in Int
      /\ rect[v].w \in Int /\ rect[v].h \in Int
  BY <1>1, Boxes DEF GuiInv, TypeInv
<1>4. /\ rect[w].x >= 0 /\ rect[w].x + rect[w].w <= rect[v].w
      /\ rect[w].y >= 0 /\ rect[w].y + rect[w].h <= rect[v].h
  BY DEF Contained, Inside
<1>5. /\ Corner[w].x <= p[1] /\ p[1] < Corner[w].x + rect[w].w
      /\ Corner[w].y <= p[2] /\ p[2] < Corner[w].y + rect[w].h
      /\ p[1] \in Int /\ p[2] \in Int
  BY DEF Covers, Point
<1>6. QED
  BY <1>2, <1>3, <1>4, <1>5 DEF Covers

LEMMA CompositeShows ==
  ASSUME GuiInv, Contained, NEW w \in Composites,
         \A child \in Children : Parent[child] = w => ShowsRight(child)
  PROVE  ShowsRight(w)
<1> DEFINE Claim(p) ==
      /\ ~Covers(w, p) => Seen[w][p] = None
      /\ Covers(w, p) =>
           /\ Seen[w][p] \in Widgets /\ w \in Ancestors(Seen[w][p])
           /\ End(w, Outer(w, p)) \in Widgets /\ w \in Ancestors(End(w, Outer(w, p)))
           /\ (End(w, Outer(w, p)) = Seen[w][p] <=> ~Crowd(Path[w][Outer(w, p)], p))
<1> SUFFICES ASSUME NEW p \in Point PROVE Claim(p)
  BY DEF ShowsRight
<1> DEFINE here  == Inner(w, p)
           child == FirstHit(w, here)
           drawn == Drawings(Seen, w, p)
<1>1. w \in Widgets /\ w \notin Leaves /\ w # None
  BY Sorts
<1>2. here \in Point /\ Outer(w, p) \in Point /\ Within(w, Outer(w, p)) = here
  BY <1>1, Frames
<1>3. Seen[w][p] = IF drawn = {} THEN (IF Covers(w, p) THEN w ELSE None)
                   ELSE LastDrawn(Seen, w, p)
  BY <1>1, SeenUnfolds
<1>4. End(w, Outer(w, p)) = IF child = None THEN w ELSE End(child, here)
  BY <1>1, <1>2, EndUnfolds
<1>5. Path[w][Outer(w, p)] = IF child = None THEN <<w>> ELSE <<w>> \o Path[child][here]
  BY <1>1, <1>2, PathUnfolds
<1>6. ASSUME NEW v \in Children, Parent[v] = w
      PROVE  /\ Covers(v, p) <=> Contains(v, here)
             /\ Contains(v, here) =>
                  /\ Seen[v][p] \in Widgets /\ v \in Ancestors(Seen[v][p])
                  /\ End(v, here) \in Widgets /\ v \in Ancestors(End(v, here))
                  /\ (End(v, here) = Seen[v][p] <=> ~Crowd(Path[v][here], p))
                  /\ Covers(w, p)
             /\ ~Contains(v, here) => Seen[v][p] = None
             /\ Path[v][here] \in Seq(Widgets)
  <2>1. v \in Widgets
    BY Sorts
  <2>2. Outer(v, p) = here /\ (Covers(v, p) <=> Contains(v, Outer(v, p)))
    BY <1>6, <2>1, Frames
  <2>3. ShowsRight(v)
    BY <1>6
  <2>4. Leads(v, Path[v][here])
    BY <1>2, <2>1, PathLeads
  <2>5. Covers(v, p) => Covers(w, p)
    BY <1>6, InsideCovers
  <2>6. Path[v][here] \in Seq(Widgets)
    BY <2>4 DEF Leads
  <2> HIDE DEF here
  <2>7. QED
    BY <2>2, <2>3, <2>5, <2>6 DEF ShowsRight
<1>7. \A i \in DOMAIN children[w] : children[w][i] \in Children /\ Parent[children[w][i]] = w
  <2>1. children[w] \in Seq(Children)
    BY DEF GuiInv, TypeInv
  <2>2. QED
    BY <2>1 DEF GuiInv, TreeInv
<1> HIDE DEF here
<1>8. drawn = Hits(w, here)
  <2>1. ASSUME NEW i \in DOMAIN children[w]
        PROVE  Seen[children[w][i]][p] # None <=> Contains(children[w][i], here)
    BY <1>6, <1>7, Sorts
  <2>2. QED
    BY <2>1 DEF Drawings, Hits
<1>9. Crowded(w, p) <=> \E i, j \in Hits(w, here) : i # j
  <2>1. ASSUME NEW i \in DOMAIN children[w]
        PROVE  Covers(children[w][i], p) <=> i \in Hits(w, here)
    BY <1>6, <1>7 DEF Hits
  <2>2. Hits(w, here) \subseteq DOMAIN children[w]
    BY DEF Hits
  <2>3. QED
    BY <2>1, <2>2 DEF Crowded
<1>10. CASE Hits(w, here) = {}
  <2>1. child = None
    BY <1>10 DEF FirstHit
  <2>2. Path[w][Outer(w, p)] = <<w>> /\ End(w, Outer(w, p)) = w
    BY <1>4, <1>5, <2>1
  <2>3. ~Crowd(Path[w][Outer(w, p)], p)
    BY <1>1, <1>9, <1>10, <2>2, CrowdUnfolds
  <2>4. Seen[w][p] = IF Covers(w, p) THEN w ELSE None
    BY <1>3, <1>8, <1>10
  <2>5. QED
    BY <1>1, <2>2, <2>3, <2>4, AncestorsUp
<1>11. CASE Hits(w, here) # {}
  <2>1. PICK i \in Hits(w, here) : child = children[w][i] /\ \A k \in Hits(w, here) : i <= k
    BY <1>11, HitIsChild DEF GuiInv
  <2>2. child \in Children /\ Parent[child] = w /\ Contains(child, here) /\ child # None
    BY <1>7, <2>1, Sorts DEF Hits
  <2>3. PICK j \in Hits(w, here) :
          /\ LastDrawn(Seen, w, p) = Seen[children[w][j]][p]
          /\ \A k \in Hits(w, here) : k <= j
    BY <1>8, <1>11, LastIsDrawn
  <2> DEFINE last == children[w][j]
  <2>4. last \in Children /\ Parent[last] = w /\ Contains(last, here)
    BY <1>7, <2>3 DEF Hits
  <2>5. Seen[w][p] = Seen[last][p] /\ End(w, Outer(w, p)) = End(child, here)
    BY <1>3, <1>4, <1>8, <1>11, <2>2, <2>3
  <2>6. /\ Seen[last][p] \in Widgets /\ last \in Ancestors(Seen[last][p])
        /\ End(child, here) \in Widgets /\ child \in Ancestors(End(child, here))
        /\ Covers(w, p)
    BY <1>6, <2>2, <2>4
  <2>7. w \in Ancestors(Seen[last][p]) /\ w \in Ancestors(End(child, here))
    BY <2>2, <2>4, <2>6, AncestorsUp
  <2>8. Crowd(Path[w][Outer(w, p)], p) <=> (Crowded(w, p) \/ Crowd(Path[child][here], p))
    <3>1. Path[w][Outer(w, p)] = <<w>> \o Path[child][here] /\ Path[child][here] \in Seq(Widgets)
      BY <1>5, <1>6, <2>2
    <3>2. QED
      BY <1>1, <3>1, CrowdUnfolds
  <2> HIDE DEF child, last
  <2>9. CASE i = j
    <3>1. ~Crowded(w, p)
      <4>1. i \in Int /\ Hits(w, here) \subseteq Int
        <5>1. children[w] \in Seq(Children)
          BY DEF GuiInv, TypeInv
        <5>2. QED
          BY <5>1 DEF Hits
      <4>2. \A k \in Hits(w, here) : k = i
        BY <2>1, <2>3, <2>9, <4>1
      <4>3. QED
        BY <1>9, <4>2
    <3>2. last = child
      BY <2>1, <2>9 DEF last
    <3>3. End(child, here) = Seen[child][p] <=> ~Crowd(Path[child][here], p)
      BY <1>6, <2>2
    <3>4. QED
      BY <2>5, <2>6, <2>7, <2>8, <3>1, <3>2, <3>3
  <2>10. CASE i # j
    <3>1. Crowded(w, p)
      BY <1>9, <2>10
    <3>2. last # child
      <4>1. i \in DOMAIN children[w] /\ j \in DOMAIN children[w]
        BY DEF Hits
      <4>2. QED
        BY <2>1, <2>10, <4>1 DEF GuiInv, TreeInv, last
    <3>3. End(child, here) # Seen[last][p]
      BY <2>2, <2>4, <2>6, <3>2, Siblings
    <3>4. QED
      BY <2>5, <2>6, <2>7, <2>8, <3>1, <3>3
  <2>11. QED
    BY <2>9, <2>10
<1>12. QED
  BY <1>10, <1>11

LEMMA AllShowRight ==
  ASSUME GuiInv, Contained, NEW w \in Widgets
  PROVE  ShowsRight(w)
<1> DEFINE T == {v \in Widgets : ~ShowsRight(v)}
<1> SUFFICES ASSUME T # {} PROVE FALSE
  OBVIOUS
<1>1. PICK v \in T : \A y \in T \cap Children : Parent[y] # v
  <2>1. T \in SUBSET Widgets
    OBVIOUS
  <2> HIDE DEF T
  <2>2. QED
    BY <2>1, LastConstructed
<1>2. \A child \in Children : Parent[child] = v => ShowsRight(child)
  BY <1>1, Sorts
<1>3. v \in Widgets /\ ~ShowsRight(v)
  BY <1>1
<1>4. v \in Leaves \/ v \in Composites
  BY <1>3, Sorts
<1>5. QED
  BY <1>2, <1>3, <1>4, LeafShows, CompositeShows

\* A click goes to the widget that is seen there exactly where no two siblings on
\* its way overlap, in any layout whose widgets lie inside their parents.
THEOREM ClicksHitTheSeen == Spec => []ClickHitsSeen
<1>1. GuiInv => ClickHitsSeen
  <2> SUFFICES ASSUME GuiInv, Contained
               PROVE  Hit(Mouse) = Seen[Desktop][Mouse] <=> ~Overlaid(Mouse)
    BY DEF ClickHitsSeen
  <2>1. Desktop \in Widgets /\ Mouse \in Point
    BY MousePath, Sorts
  <2>2. /\ rect[Desktop].x = 0 /\ rect[Desktop].y = 0
        /\ rect[Desktop].w \in Int /\ rect[Desktop].h \in Int
    BY <2>1, Boxes DEF GuiInv, TypeInv
  <2>3. Corner[Desktop].x = 0 /\ Corner[Desktop].y = 0
    BY CornerUnfolds
  <2>4. /\ mouseX \in Int /\ 0 <= mouseX /\ mouseX < rect[Desktop].w
        /\ mouseY \in Int /\ 0 <= mouseY /\ mouseY < rect[Desktop].h
    BY <2>2 DEF GuiInv, TypeInv
  <2>5. Covers(Desktop, Mouse)
    BY <2>2, <2>3, <2>4 DEF Covers, Mouse
  <2>6. Outer(Desktop, Mouse) = Mouse
    BY <2>2, <2>3, <2>4 DEF Outer, Mouse
  <2>7. End(Desktop, Mouse) = Seen[Desktop][Mouse] <=> ~Crowd(Path[Desktop][Mouse], Mouse)
    BY <2>1, <2>5, <2>6, AllShowRight DEF ShowsRight
  <2>8. End(Desktop, Mouse) = Hit(Mouse)
    BY DEF End, Hit, PathAt
  <2>9. Crowd(Path[Desktop][Mouse], Mouse) <=> Overlaid(Mouse)
    BY DEF Crowd, Overlaid, PathAt
  <2>10. QED
    BY <2>7, <2>8, <2>9
<1>2. QED
  BY <1>1, GuiInvariance, PTL
=============================================================================
