------------------------ MODULE MCPostgresRuleStore ------------------------
(* Model values for PostgresRuleStore: sessions. *)
EXTENDS PostgresRuleStore, MCRuleLifecycle

CONSTANTS one, two
============================================================================
