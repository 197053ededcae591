----------------------------- MODULE MCPlanApply -----------------------------
(***************************************************************************)
(* PlanApply for a plan of two publications, the first made from a draft.  *)
(***************************************************************************)
EXTENDS PlanApply, TLC

CONSTANTS t1, t2, a, b, p1, p2

MCOrder == <<t1, t2>>
Entry(action, cand, fingerprint) == [action |-> action, cand |-> cand, fingerprint |-> fingerprint]
MCPlan == (t1 :> Entry("publish", b, 1)) @@ (t2 :> Entry("publish", b, 0))
MCFirst == [t \in {t1, t2} |-> a]
=============================================================================
