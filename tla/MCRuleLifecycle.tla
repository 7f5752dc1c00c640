-------------------------- MODULE MCRuleLifecycle --------------------------
(***************************************************************************)
(* Small values for the constants of the rule stores.                      *)
(***************************************************************************)
EXTENDS RuleLifecycle

CONSTANTS base, constructor,   \* rules: service.base_class, dependency.constructor
          plain, aliased       \* the imports a base class may be seen with

Draft(rule, variant, status) == [rule |-> rule, variant |-> variant, status |-> status]

\* Nothing learned; a candidate; two active rules; one identity seen with two
\* imports, about equally often or not, which is ambiguous for every decision.
Nothing == {}
OneCandidate == {Draft(base, plain, "candidate")}
TwoActive == {Draft(base, plain, "active"), Draft(constructor, plain, "active")}
TwoImports == {Draft(base, plain, "candidate"), Draft(base, aliased, "candidate")}
UnevenImports == {Draft(base, plain, "active"), Draft(base, aliased, "candidate")}

SomeLists == {OneCandidate, TwoActive, TwoImports}
PlainLists == {Nothing, OneCandidate, TwoActive}
BaseLists == {OneCandidate, TwoImports, UnevenImports}
============================================================================
