-------------------------- MODULE MCMainInterface --------------------------
(* Instances of MainInterface for TLC. *)
EXTENDS MainInterface, TLC

CONSTANTS r1, r2, r3, p1, p2

\* Two writes each: the least with a point where another send can cut in.
TwoSends == r1 :> 2 @@ r2 :> 2
OneSend == r1 :> 1
\* r3 is an empty message.
WithEmpty == r1 :> 2 @@ r2 :> 1 @@ r3 :> 0
Everything == AllTypes
=============================================================================
