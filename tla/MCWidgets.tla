----------------------------- MODULE MCWidgets ------------------------------
(***************************************************************************)
(* A desktop with two windows of two leaves and one, and a leaf of its own:*)
(* once with everything in its place, once with the windows overlapping,   *)
(* and once with a leaf that sticks out besides.                           *)
(***************************************************************************)
EXTENDS Widgets

CONSTANTS desktop, win1, win2, a1, a2, b, icon

MCWindows == {win1, win2}
MCLeaves  == {a1, a2, b, icon}

MCParent == [w \in MCWindows \cup MCLeaves |->
               CASE w \in {a1, a2} -> win1
                 [] w = b          -> win2
                 [] OTHER          -> desktop]

Box(x, y, w, h) == [x |-> x, y |-> y, w |-> w, h |-> h]

Tidy == [w \in MCWindows \cup MCLeaves \cup {desktop} |->
           CASE w = desktop -> Box(0, 0, 5, 4)
             [] w = win1    -> Box(1, 1, 2, 3)
             [] w = a1      -> Box(0, 1, 1, 1)
             [] w = a2      -> Box(1, 1, 1, 2)
             [] w = win2    -> Box(3, 0, 2, 2)
             [] w = b       -> Box(1, 1, 1, 1)
             [] w = icon    -> Box(0, 0, 1, 2)]

Stacked == [Tidy EXCEPT ![win2] = Box(2, 1, 2, 2)]
Untidy  == [Stacked EXCEPT ![b] = Box(-1, 0, 2, 2)]

MCLayouts == {Tidy, Stacked, Untidy}
MCMotions == {-9, -3, 4}
=============================================================================
