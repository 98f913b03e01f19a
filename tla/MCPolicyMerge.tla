--------------------------- MODULE MCPolicyMerge ---------------------------
(* PolicyMerge with two object names.                                      *)
EXTENDS PolicyMerge

CONSTANTS x, y

\* Allow and deny lists that are empty, overlap, are disjoint or hold "*".
SomeRules == {NoRule} \union
  [allow : {{}, {x}, {y}, {x, y}, {Wildcard}, {x, Wildcard}},
   deny  : {{}, {x}, {Wildcard}}]

\* The three kinds go through the same loop body: models and tools vary.
SomePolicies ==
  { [k \in Kinds |-> IF k = "tools" THEN r ELSE NoRule] : r \in SomeRules }
    \union { [k \in Kinds |-> IF k = "models" THEN r ELSE NoRule] :
               r \in [allow : {{x}}, deny : {{}, {x}}] }

OneRule == { <<[tool |-> n, action |-> a]>> : n \in {x, Wildcard}, a \in Actions }
SomeToolPolicies ==
  [rules : {<<>>} \union OneRule, default : {"unset", "allow", "deny"}]
=============================================================================
