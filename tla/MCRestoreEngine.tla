-------------------------- MODULE MCRestoreEngine --------------------------
(* Instances of RestoreEngine for TLC. *)
EXTENDS RestoreEngine, TLC

CONSTANTS h1, h2, h3

TwoStanding == <<h1, h2>>

Area(x, width) == [x |-> x, y |-> 0, width |-> width, height |-> 4]

\* Undocked, docked with the second display on the left, and none listed.
DisplayLayouts == {<<Area(0, 6)>>, <<Area(0, 6), Area(-4, 4)>>, <<>>}

\* One window on a display that may be gone, one larger than every display.
Frames == <<[x |-> -4, y |-> 1, width |-> 3, height |-> 2],
            [x |-> 2, y |-> -1, width |-> 9, height |-> 4]>>

\* A saved window may fit none of the windows on screen, the lower one, both, or both and
\* the upper one better; a later window fits either.
Fits == {<<0, 0>>, <<40, 0>>, <<40, 40>>, <<40, 80>>}

Scores ==
    {[w \in Window |-> (h1 :> s[w][1] @@ h2 :> s[w][2] @@ h3 :> 40)] : s \in [Window -> Fits]}

Options(selected, launch, z_order) ==
    [selected |-> selected, launch_missing_apps |-> launch, restore_tabs |-> TRUE,
     restore_z_order |-> z_order, restore_cursor |-> TRUE, restore_focus |-> TRUE,
     restore_workspaces |-> TRUE, dry_run |-> FALSE]

AllRequests ==
    {[Options({1, 2}, TRUE, TRUE) EXCEPT !.restore_focus = FALSE, !.restore_cursor = FALSE],
     Options({2}, TRUE, FALSE), Options({1}, FALSE, FALSE),
     [Options({1, 2}, TRUE, TRUE) EXCEPT !.dry_run = TRUE]}

AllPlatforms == {Abilities, {"move", "z_order", "focus"}}

First == {1}
Second == {2}
ZOrder == <<0, 1>>
==============================================================================
