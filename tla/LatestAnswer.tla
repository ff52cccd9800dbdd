---------------------------- MODULE LatestAnswer ----------------------------
(***************************************************************************)
(* What a part of a page that shows one answer of the API promises: asked  *)
(* counts what the answer must know (each change of the question and each  *)
(* save of the page), shown is how much of it the answer on the screen     *)
(* knows, 0 when nothing is shown.  A page that keeps its answers in order *)
(* never replaces what it shows by an answer to anything but the present   *)
(* question; ordered says whether it does.                                 *)
(***************************************************************************)
EXTENDS Naturals

VARIABLES asked, shown, ordered
vars == <<asked, shown, ordered>>

Init == asked = 1 /\ shown = 0 /\ ordered \in BOOLEAN

\* The question changes; what was shown stays on the screen or is cleared.
Ask ==
  /\ asked' = asked + 1
  /\ shown' \in {shown, 0}
  /\ UNCHANGED ordered

Answer ==
  /\ shown' = asked
  /\ UNCHANGED <<asked, ordered>>

\* A failure, or a new try, clears the screen.
Forget ==
  /\ shown' = 0
  /\ UNCHANGED <<asked, ordered>>

\* An overtaken answer is shown, or the answer to a save itself.
Late ==
  /\ ~ordered
  /\ asked' \in {asked, asked + 1}
  /\ shown' \in 0..asked'
  /\ UNCHANGED ordered

Next == Ask \/ Answer \/ Forget \/ Late
Spec == Init /\ [][Next]_vars
=============================================================================
