---------------------------- MODULE PolicyRules ----------------------------
(***************************************************************************)
(* The operators api/v1alpha1/policy_merge.go is made of. An allow or deny *)
(* list only ever answers membership and emptiness, so it is a set of      *)
(* names; a ToolPolicy's rules are matched in order, so they stay a        *)
(* sequence.                                                               *)
(***************************************************************************)
EXTENDS Integers, Sequences

CONSTANTS
  Names,     \* names a rule may list, Wildcard among them
  Wildcard,  \* "*"
  NoRule     \* a nil *AccessRule

\* type AccessRule
AccessRule == [allow : SUBSET Names, deny : SUBSET Names]
MaybeRule  == AccessRule \union {NoRule}

ASSUME WildcardAssumption == Wildcard \in Names
ASSUME NoRuleAssumption   == NoRule \notin AccessRule

\* The names an object can have: "*" is not a Kubernetes name.
ObjectNames == Names \ {Wildcard}

\* (*AccessRule).Permits: deny wins, a non-empty allow list is exhaustive, "*"
\* matches anything.
Permits(r, name) ==
  r # NoRule =>
    /\ r.deny \intersect {name, Wildcard} = {}
    /\ r.allow # {} => r.allow \intersect {name, Wildcard} # {}

\* intersectOrKeep: an empty list and a list with "*" constrain nothing.
IntersectOrKeep(a, b) ==
  IF a = {} THEN b
  ELSE IF b = {} THEN a
  ELSE IF Wildcard \in a THEN b
  ELSE IF Wildcard \in b THEN a
  ELSE a \intersect b

\* Mutants: disjoint allow lists become an empty, unconstraining one; a later
\* deny list replaces the earlier one.
MergeWithoutDenyAll(into, add) ==
  IF add = NoRule THEN into
  ELSE IF into = NoRule THEN add
  ELSE [allow |-> IntersectOrKeep(into.allow, add.allow),
        deny  |-> into.deny \union add.deny]
MergeReplacingDeny(into, add) ==
  IF add = NoRule THEN into
  ELSE IF into = NoRule THEN add
  ELSE [allow |-> IntersectOrKeep(into.allow, add.allow), deny |-> add.deny]

\* mergeAccessRule: allow lists intersect, deny lists union; two allow lists
\* with nothing in common become a deny-all.
MergeAccessRule(into, add) ==
  IF add = NoRule THEN into
  ELSE IF into = NoRule THEN add
  ELSE LET allow  == IntersectOrKeep(into.allow, add.allow)
           nobody == into.allow # {} /\ add.allow # {} /\ allow = {}
       IN [allow |-> allow,
           deny  |-> into.deny \union add.deny
                       \union (IF nobody THEN {Wildcard} ELSE {})]

\* ToolRule and ToolPolicy; the cap on calls is a runtime concern.
Actions  == {"allow", "deny"}
ToolRule == [tool : Names, action : Actions]

\* MatchToolRule returns rules[i]: the first rule naming the tool or, when no
\* rule names it, the first "*".
RuleMatches(rules, name, i) ==
  /\ i \in 1..Len(rules)
  /\ \/ /\ rules[i].tool = name
        /\ \A j \in 1..(i - 1) : rules[j].tool # name
     \/ /\ rules[i].tool = Wildcard
        /\ \A j \in 1..Len(rules) : rules[j].tool # name
        /\ \A j \in 1..(i - 1) : rules[j].tool # Wildcard

\* MatchToolRule returns nil.
NoRuleMatches(rules, name) ==
  \A i \in 1..Len(rules) : rules[i].tool \notin {name, Wildcard}

\* The verdict of the ToolPolicies on a declared tool.
ToolRulesDeny(rules, default, name) ==
  \/ \E i \in 1..Len(rules) : RuleMatches(rules, name, i) /\ rules[i].action = "deny"
  \/ NoRuleMatches(rules, name) /\ default = "deny"
=============================================================================
