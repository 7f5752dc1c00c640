------------------------- MODULE MCSqliteRuleStore -------------------------
(* Model values for SqliteRuleStore: connections and repositories. *)
EXTENDS SqliteRuleStore, MCRuleLifecycle

CONSTANTS one, two,    \* connections
          repo, other  \* repositories

DependencyKinds == {constructor}

\* Odd learning runs read the first repository, even ones the second.
Alternating == [n \in Learns |-> IF n % 2 = 1 THEN repo ELSE other]
============================================================================
