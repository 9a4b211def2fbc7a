------------------------------ MODULE RiskDesk ------------------------------
(***************************************************************************)
(* The risk desk by itself, src/desk/desks/risk/rules.py: any plan against *)
(* any open risk, one decision.                                            *)
(***************************************************************************)
EXTENDS RiskRules

CONSTANT Cases      \* plans, each with the open risk it is judged against

ASSUME CaseAssumption == Cases \subseteq Plan \X OpenRisk

VARIABLES proposal, exposure, decision

riskVars == <<proposal, exposure, decision>>

RiskInit ==
    /\ \E case \in Cases : proposal = case[1] /\ exposure = case[2]
    /\ decision = {}

Decide == decision = {} /\ decision' = {Evaluate(proposal, exposure)} /\ UNCHANGED <<proposal, exposure>>

RiskSpec == RiskInit /\ [][Decide]_riskVars

\* Whatever a plan and the open risk, evaluate gives the plan the largest size that
\* fits every cap, or vetoes it for a reason (RiskRules!Largest).
LargestThatFits == \A d \in decision : Largest(proposal, exposure, d)
=============================================================================
