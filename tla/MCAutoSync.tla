----------------------------- MODULE MCAutoSync -----------------------------
(* Two approvals of one template, with room for one of them in a run, and  *)
(* a template without approvals.  No symmetry: the run checks liveness.    *)
EXTENDS AutoSync

MCTemplateOf == [a \in Approval |-> "p1"]
=============================================================================
