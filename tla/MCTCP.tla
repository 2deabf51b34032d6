------------------------------- MODULE MCTCP -------------------------------
(***************************************************************************)
(* The instances of TCP that TLC checks.                                   *)
(***************************************************************************)
EXTENDS TCP

Plan(c, s, shut, nonblocking) ==
    [client |-> c, server |-> s, shut |-> shut, nonblocking |-> nonblocking]

(* Two packets that overtake each other, beyond the window, and a FIN that *)
(* overtakes them; data in both directions, two packets one after the      *)
(* other among them; either side or both closing, with data on the way.    *)
MCPlans ==
    {Plan(2, 0, {"client"}, {"client"}), Plan(2, 1, {}, {}),
     Plan(1, 0, Side, {}), Plan(0, 1, Side, {})}
=============================================================================
