------------------------- MODULE PolicyMergeProofs -------------------------
(***************************************************************************)
(* What merging policies means, for every set of names, every Policy and   *)
(* every ToolPolicy.                                                       *)
(***************************************************************************)
EXTENDS PolicyMerge, TLAPS

\* mergeAccessRule returns a rule.
LEMMA MergeType ==
  ASSUME NEW a \in MaybeRule, NEW b \in MaybeRule
  PROVE  MergeAccessRule(a, b) \in MaybeRule
BY WildcardAssumption, NoRuleAssumption
DEF MergeAccessRule, IntersectOrKeep, MaybeRule, AccessRule

\* The law of mergeAccessRule: the merged rule permits a name exactly when both
\* rules do, through all the cases of intersectOrKeep and the deny-all encoding.
LEMMA MergePermitsBoth ==
  ASSUME NEW a \in MaybeRule, NEW b \in MaybeRule, NEW n \in ObjectNames
  PROVE  Permits(MergeAccessRule(a, b), n) <=> Permits(a, n) /\ Permits(b, n)
<1> USE WildcardAssumption, NoRuleAssumption
<1>1. CASE a = NoRule \/ b = NoRule
  BY <1>1 DEF MergeAccessRule, Permits
<1>2. CASE a # NoRule /\ b # NoRule
  <2> DEFINE allow == IntersectOrKeep(a.allow, b.allow)
             nobody == a.allow # {} /\ b.allow # {} /\ allow = {}
             out == [allow |-> allow,
                     deny  |-> a.deny \union b.deny
                                 \union (IF nobody THEN {Wildcard} ELSE {})]
             In(S) == S \intersect {n, Wildcard} # {}
  <2>1. MergeAccessRule(a, b) = out
    BY <1>2 DEF MergeAccessRule
  <2>2. a \in AccessRule /\ b \in AccessRule /\ out \in AccessRule /\ out # NoRule
    BY <1>2 DEF MaybeRule, AccessRule, IntersectOrKeep
  <2>3. In(out.deny) <=> In(a.deny) \/ In(b.deny) \/ nobody
    BY <2>2 DEF AccessRule
  <2>4. nobody => ~(In(a.allow) /\ In(b.allow))
    BY DEF IntersectOrKeep
  <2>5. ~nobody => ( (allow # {} => In(allow)) <=>
                     (a.allow # {} => In(a.allow)) /\ (b.allow # {} => In(b.allow)) )
    BY DEF IntersectOrKeep
  <2>6. out.allow = allow
    OBVIOUS
  <2> HIDE DEF allow, out
  <2>7. Permits(out, n) <=> ~In(out.deny) /\ (allow # {} => In(allow))
    BY <2>2, <2>6 DEF Permits
  <2>8. Permits(a, n) <=> ~In(a.deny) /\ (a.allow # {} => In(a.allow))
    BY <1>2 DEF Permits
  <2>9. Permits(b, n) <=> ~In(b.deny) /\ (b.allow # {} => In(b.allow))
    BY <1>2 DEF Permits
  <2> QED
    BY <2>1, <2>3, <2>4, <2>5, <2>7, <2>8, <2>9
<1> QED
  BY <1>1, <1>2

-----------------------------------------------------------------------------
\* Every iteration of the merge loop keeps the types.
LEMMA TypeStep == TypeOK /\ [Next]_vars => TypeOK'
<1> SUFFICES ASSUME TypeOK, [Next]_vars PROVE TypeOK'
  OBVIOUS
<1> USE DEF TypeOK
<1>1. ASSUME NEW p \in PolicySpecs, MergePolicy(p) PROVE TypeOK'
  <2>1. \A k \in Kinds : access[k] \in MaybeRule /\ p[k] \in MaybeRule
    BY PolicySpecsAssumption DEF PolicySpec
  <2>2. \A k \in Kinds : MergeAccessRule(access[k], p[k]) \in MaybeRule
    BY <2>1, MergeType
  <2> QED
    BY <1>1, <2>2 DEF MergePolicy
<1>2. ASSUME NEW tp \in ToolPolicySpecs, MergeToolPolicy(tp) PROVE TypeOK'
  <2>1. tp.rules \in Seq(ToolRule)
    BY ToolPolicySpecsAssumption DEF ToolPolicySpec
  <2>2. toolRules' \in Seq(ToolRule)
    BY <1>2, <2>1 DEF MergeToolPolicy
  <2> QED
    BY <1>2, <2>2 DEF MergeToolPolicy, Actions
<1>3. CASE UNCHANGED vars
  BY <1>3 DEF vars
<1> QED
  BY <1>1, <1>2, <1>3 DEF Next

\* Merging one more Policy means conjoining it.
LEMMA MeaningStep == TypeOK /\ MergeMeansAll /\ [Next]_vars => MergeMeansAll'
<1> SUFFICES ASSUME TypeOK, MergeMeansAll, [Next]_vars,
                    NEW k \in Kinds, NEW n \in ObjectNames
             PROVE  Permits(access'[k], n) <=> \A q \in policies' : Permits(q[k], n)
  BY DEF MergeMeansAll
<1>1. Permits(access[k], n) <=> \A q \in policies : Permits(q[k], n)
  BY DEF MergeMeansAll
<1>2. ASSUME NEW p \in PolicySpecs, MergePolicy(p)
      PROVE  Permits(access'[k], n) <=> \A q \in policies' : Permits(q[k], n)
  <2>1. access[k] \in MaybeRule /\ p[k] \in MaybeRule
    BY PolicySpecsAssumption DEF PolicySpec, TypeOK
  <2>2. access'[k] = MergeAccessRule(access[k], p[k]) /\ policies' = policies \union {p}
    BY <1>2 DEF MergePolicy
  <2>3. Permits(access'[k], n) <=> Permits(access[k], n) /\ Permits(p[k], n)
    BY <2>1, <2>2, MergePermitsBoth
  <2> QED
    BY <1>1, <2>2, <2>3
<1>3. ASSUME NEW tp \in ToolPolicySpecs, MergeToolPolicy(tp)
      PROVE  UNCHANGED <<access, policies>>
  BY <1>3 DEF MergeToolPolicy
<1> QED
  BY <1>1, <1>2, <1>3 DEF Next, vars

\* The merged access rules mean the conjunction of the Policies, for any set of
\* names and any Policies, in any order.
THEOREM MergeCorrect == Spec => [](TypeOK /\ MergeMeansAll)
<1>1. Init => TypeOK /\ MergeMeansAll
  <2>1. Init => TypeOK
    BY DEF Init, TypeOK, MaybeRule, Actions
  <2>2. Init => MergeMeansAll
    BY DEF Init, MergeMeansAll, Permits
  <2> QED
    BY <2>1, <2>2
<1> QED
  BY <1>1, TypeStep, MeaningStep, PTL DEF Spec

\* Every variable keeps its type: what is merged stays an access rule, and the
\* default of the tool rules is one of the verdicts.
THEOREM TypeCorrect == Spec => []TypeOK
  BY MergeCorrect, PTL

\* "Attaching another Policy can only narrow what an Agent may do."
THEOREM PolicyNarrows == Spec => PolicyOnlyNarrows
<1>1. TypeOK /\ [Next]_vars => [PolicyStepNarrows]_vars
  <2> SUFFICES ASSUME TypeOK, Next, toolPolicies' = toolPolicies
               PROVE  /\ \A k \in Kinds, n \in ObjectNames :
                           DeniedByAccess(k, n) => DeniedByAccess(k, n)'
                      /\ \A n \in ObjectNames : DeniedTool(n) => DeniedTool(n)'
    BY DEF PolicyStepNarrows
  <2>1. PICK p \in PolicySpecs : MergePolicy(p)
    BY DEF Next, MergeToolPolicy, TypeOK
  <2>2. \A k \in Kinds, n \in ObjectNames : DeniedByAccess(k, n) => DeniedByAccess(k, n)'
    <3> TAKE k \in Kinds, n \in ObjectNames
    <3>1. access[k] \in MaybeRule /\ p[k] \in MaybeRule
      BY PolicySpecsAssumption DEF PolicySpec, TypeOK
    <3>2. access'[k] = MergeAccessRule(access[k], p[k])
      BY <2>1 DEF MergePolicy
    <3> QED
      BY <3>1, <3>2, MergePermitsBoth DEF DeniedByAccess
  <2>3. UNCHANGED <<toolRules, defaultAction>>
    BY <2>1 DEF MergePolicy
  <2> QED
    BY <2>2, <2>3 DEF DeniedTool, Kinds
<1> QED
  BY <1>1, MergeCorrect, PTL DEF Spec, PolicyOnlyNarrows

\* Appending rules after a rule that names the tool changes no verdict on it.
LEMMA AppendKeepsVerdict ==
  ASSUME NEW r \in Seq(ToolRule), NEW s \in Seq(ToolRule),
         NEW n \in ObjectNames, NEW d, NEW e,
         NEW m \in 1..Len(r), r[m].tool = n
  PROVE  ToolRulesDeny(r \o s, e, n) <=> ToolRulesDeny(r, d, n)
<1> DEFINE t == r \o s
           Exact(u, i) == u[i].tool = n /\ \A j \in 1..(i - 1) : u[j].tool # n
<1>1. /\ t \in Seq(ToolRule) /\ Len(t) = Len(r) + Len(s)
      /\ \A i \in 1..Len(r) : i \in 1..Len(t) /\ t[i] = r[i]
  OBVIOUS
<1> HIDE DEF t
<1>2. ASSUME NEW u \in Seq(ToolRule), NEW f, m \in 1..Len(u), u[m].tool = n
      PROVE  ToolRulesDeny(u, f, n) <=>
               \E i \in 1..Len(u) : Exact(u, i) /\ u[i].action = "deny"
  <2>1. ~NoRuleMatches(u, n)
    BY <1>2 DEF NoRuleMatches
  <2>2. ASSUME NEW i \in 1..Len(u) PROVE RuleMatches(u, n, i) <=> Exact(u, i)
    BY <1>2 DEF RuleMatches
  <2> QED
    BY <2>1, <2>2 DEF ToolRulesDeny
<1>3. ASSUME NEW i \in 1..Len(r) PROVE Exact(t, i) <=> Exact(r, i)
  <2>1. \A j \in 1..(i - 1) : j \in 1..Len(r)
    OBVIOUS
  <2>2. t[i] = r[i] /\ \A j \in 1..(i - 1) : t[j] = r[j]
    BY <1>1, <2>1
  <2> QED
    BY <2>2
<1>4. ASSUME NEW i \in 1..Len(t), Exact(t, i) PROVE i \in 1..Len(r)
  BY <1>1, <1>4
<1>5. (\E i \in 1..Len(t) : Exact(t, i) /\ t[i].action = "deny")
        <=> (\E i \in 1..Len(r) : Exact(r, i) /\ r[i].action = "deny")
  BY <1>1, <1>3, <1>4
<1>6. m \in 1..Len(t) /\ t[m].tool = n
  BY <1>1
<1> HIDE DEF Exact
<1> QED
  BY <1>1, <1>2, <1>5, <1>6 DEF t

\* "The first rule matching a tool name applies": ToolPolicies later in the
\* list do not change what the first rule naming a tool decided.
THEOREM FirstNamedRule == Spec => FirstNamedRuleDecides
<1>1. TypeOK /\ [Next]_vars => [FirstNamedRuleStep]_vars
  <2> SUFFICES ASSUME TypeOK, Next, NEW n \in ObjectNames,
                      NEW m \in 1..Len(toolRules), toolRules[m].tool = n
               PROVE  /\ m \in 1..Len(toolRules') /\ toolRules'[m].tool = n
                      /\ ToolRulesDeny(toolRules', defaultAction', n)
                           <=> ToolRulesDeny(toolRules, defaultAction, n)
    BY DEF FirstNamedRuleStep, NamedAndDenied, NamedAndAllowed
  <2>1. ASSUME NEW p \in PolicySpecs, MergePolicy(p)
        PROVE  UNCHANGED <<toolRules, defaultAction>>
    BY <2>1 DEF MergePolicy
  <2>2. ASSUME NEW tp \in ToolPolicySpecs, MergeToolPolicy(tp)
        PROVE  /\ m \in 1..Len(toolRules') /\ toolRules'[m].tool = n
               /\ ToolRulesDeny(toolRules', defaultAction', n)
                    <=> ToolRulesDeny(toolRules, defaultAction, n)
    <3>1. tp.rules \in Seq(ToolRule) /\ toolRules \in Seq(ToolRule)
      BY ToolPolicySpecsAssumption DEF ToolPolicySpec, TypeOK
    <3>2. toolRules' = toolRules \o tp.rules
      BY <2>2 DEF MergeToolPolicy
    <3>3. m \in 1..Len(toolRules') /\ toolRules'[m] = toolRules[m]
      BY <3>1, <3>2
    <3> QED
      BY <3>1, <3>2, <3>3, AppendKeepsVerdict
  <2> QED
    BY <2>1, <2>2 DEF Next
<1> QED
  BY <1>1, MergeCorrect, PTL DEF Spec, FirstNamedRuleDecides
=============================================================================
