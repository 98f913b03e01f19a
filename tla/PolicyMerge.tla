---------------------------- MODULE PolicyMerge ----------------------------
(***************************************************************************)
(* MergePolicies (api/v1alpha1/policy_merge.go): the loop that folds every *)
(* Policy and ToolPolicy an Agent references into one EffectivePolicy, one *)
(* iteration a step, and Violations, which the Operator evaluates on the   *)
(* result. The Registry ships the same result to runtimes.                 *)
(*                                                                         *)
(* The nil result for an Agent that references nothing is the initial      *)
(* state: it permits everything, as Violations on a nil receiver does.     *)
(***************************************************************************)
EXTENDS PolicyRules, FiniteSets

CONSTANTS
  PolicySpecs,      \* Policy specs: records of three MaybeRules
  ToolPolicySpecs,  \* ToolPolicy specs
  MaxPolicies,      \* bound on the Policies an Agent references
  MaxToolPolicies   \* bound on the ToolPolicies an Agent references

Kinds == {"models", "mcp", "tools"}
PolicySpec == [Kinds -> MaybeRule]
ToolPolicySpec == [rules : Seq(ToolRule), default : Actions \union {"unset"}]

ASSUME PolicySpecsAssumption     == PolicySpecs \subseteq PolicySpec
ASSUME ToolPolicySpecsAssumption == ToolPolicySpecs \subseteq ToolPolicySpec
ASSUME MaxAssumption == MaxPolicies \in Nat /\ MaxToolPolicies \in Nat

VARIABLES
  policies,      \* the Policies merged so far
  toolPolicies,  \* the number of ToolPolicies merged so far
  access,        \* EffectivePolicy.Models, .MCP and .Tools
  toolRules,     \* EffectivePolicy.ToolRules
  defaultAction  \* EffectivePolicy.DefaultToolAction

vars == <<policies, toolPolicies, access, toolRules, defaultAction>>

Init ==
  /\ policies = {}
  /\ toolPolicies = 0
  /\ access = [k \in Kinds |-> NoRule]
  /\ toolRules = <<>>
  /\ defaultAction = "allow"

\* One iteration over policies.
MergePolicy(p) ==
  /\ Cardinality(policies) < MaxPolicies
  /\ policies' = policies \union {p}
  /\ access' = [k \in Kinds |-> MergeAccessRule(access[k], p[k])]
  /\ UNCHANGED <<toolPolicies, toolRules, defaultAction>>

\* Mutants: the default is copied as it is; later rules go first.
CopyDefault(tp) ==
  /\ toolPolicies < MaxToolPolicies
  /\ toolPolicies' = toolPolicies + 1
  /\ toolRules' = toolRules \o tp.rules
  /\ defaultAction' = tp.default
  /\ UNCHANGED <<policies, access>>
PrependRules(tp) ==
  /\ toolPolicies < MaxToolPolicies
  /\ toolPolicies' = toolPolicies + 1
  /\ toolRules' = tp.rules \o toolRules
  /\ defaultAction' = IF tp.default = "deny" THEN "deny" ELSE defaultAction
  /\ UNCHANGED <<policies, access>>

\* One iteration over toolPolicies: an unset default is the CRD's allow, only
\* an explicit deny tightens the merged one.
MergeToolPolicy(tp) ==
  /\ toolPolicies < MaxToolPolicies
  /\ toolPolicies' = toolPolicies + 1
  /\ toolRules' = toolRules \o tp.rules
  /\ defaultAction' = IF tp.default = "deny" THEN "deny" ELSE defaultAction
  /\ UNCHANGED <<policies, access>>

Next == \/ \E p \in PolicySpecs : MergePolicy(p)
        \/ \E tp \in ToolPolicySpecs : MergeToolPolicy(tp)

Spec == Init /\ [][Next]_vars

\* Violations, for one declared name.
DeniedByAccess(k, n) == ~Permits(access[k], n)
DeniedTool(n) == DeniedByAccess("tools", n) \/ ToolRulesDeny(toolRules, defaultAction, n)

-----------------------------------------------------------------------------
(* Properties.                                                             *)

\* Every variable has its type.
TypeOK ==
  /\ policies \subseteq PolicySpecs
  /\ toolPolicies \in Nat
  /\ access \in [Kinds -> MaybeRule]
  /\ toolRules \in Seq(ToolRule)
  /\ defaultAction \in Actions

\* What a set of Policies means: a name is permitted exactly when every one of
\* them permits it. The merge loop computes that in any order of the references
\* and whatever mixture of empty lists, wildcards and disjoint allow lists it
\* meets (mergeAccessRule, intersectOrKeep).
MergeMeansAll ==
  \A k \in Kinds, n \in ObjectNames :
    Permits(access[k], n) <=> \A p \in policies : Permits(p[k], n)

\* "Attaching another Policy can only narrow what an Agent may do": a name the
\* merged policy denies stays denied when one more Policy is merged.
PolicyStepNarrows ==
  toolPolicies' = toolPolicies =>
    /\ \A k \in Kinds, n \in ObjectNames : DeniedByAccess(k, n) => DeniedByAccess(k, n)'
    /\ \A n \in ObjectNames : DeniedTool(n) => DeniedTool(n)'
PolicyOnlyNarrows == [][PolicyStepNarrows]_vars

\* "The first rule matching a tool name applies": the verdict of the first rule
\* that names a tool is not changed by ToolPolicies later in the reference list,
\* whatever they allow, deny or default to (MatchToolRule).
NamedAndDenied(n) ==
  /\ \E i \in 1..Len(toolRules) : toolRules[i].tool = n
  /\ ToolRulesDeny(toolRules, defaultAction, n)
NamedAndAllowed(n) ==
  /\ \E i \in 1..Len(toolRules) : toolRules[i].tool = n
  /\ ~ToolRulesDeny(toolRules, defaultAction, n)
FirstNamedRuleStep ==
  \A n \in ObjectNames : /\ NamedAndDenied(n) => NamedAndDenied(n)'
                         /\ NamedAndAllowed(n) => NamedAndAllowed(n)'
FirstNamedRuleDecides == [][FirstNamedRuleStep]_vars
=============================================================================
