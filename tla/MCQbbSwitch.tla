---------------------------- MODULE MCQbbSwitch ----------------------------
(***************************************************************************)
(* Small instances of QbbSwitch for TLC: the routings of the runs.         *)
(***************************************************************************)
EXTENDS QbbSwitch

\* Two ingress devices feed device 2, one of them device 2 itself.
RoutesIncast == {<<1, 2>>, <<2, 2>>}

\* Device 1 feeds device 2.
RoutesLine == {<<1, 2>>}

\* Device 1 feeds devices 2 and 3.
RoutesFan == {<<1, 2>>, <<1, 3>>}
=============================================================================
