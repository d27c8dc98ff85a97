---------------------------- MODULE MCScheduler ----------------------------
(* Instances of the scheduler for TLC. *)
EXTENDS Scheduler

CONSTANTS r1, r2, r3, b1, b2, b3, b4

\* Requests that share their first page.
ShortPrompts == r1 :> <<0, 0, 1>> @@ r2 :> <<0, 0, 0>> @@ r3 :> <<1>>
ShortLimits == r1 :> 2 @@ r2 :> 3 @@ r3 :> 2

\* A long prompt, a copy of its first two pages, and a short stranger.
ThreePrompts == r1 :> <<0, 0, 1, 1, 0>> @@ r2 :> <<0, 0, 1, 1, 1>> @@ r3 :> <<1>>
ThreeLimits == r1 :> 2 @@ r2 :> 3 @@ r3 :> 2
Priorities == r1 :> 0 @@ r2 :> 1 @@ r3 :> 0

\* Two requests that can each grow to the whole cache, and a short one.
GrowingLimits == r1 :> 5 @@ r2 :> 5 @@ r3 :> 2

Symmetry == Permutations(Blocks)
=============================================================================
