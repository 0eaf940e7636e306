---------------------------- MODULE MCPromotion -----------------------------
(* Instances of Promotion: a Promotion whose spec is edited while          *)
(* something else goes on, and one that is suspended and resumed.          *)
EXTENDS Promotion

CONSTANTS h1, h2

\* One edit, together with a failure or with a suspension.
EditBudgets ==
    {[edit |-> 1, toggle |-> 0, failure |-> 1], [edit |-> 1, toggle |-> 1, failure |-> 0]}

\* A suspension and the resumption after it.
ResumeBudgets == {[edit |-> 0, toggle |-> 2, failure |-> 0]}
=============================================================================
