-------------------------- MODULE MCDevelopmentRun --------------------------
(***************************************************************************)
(* Instances of DevelopmentRun for TLC: paths under app/ and tests/, a     *)
(* path the change policy refuses (.env), a scanned file that .gitignore   *)
(* names, and a planner that may plan some of them.                        *)
(***************************************************************************)
EXTENDS DevelopmentRun

CONSTANTS app, test, env, local, mine, create

OnePath      == {app}
TwoPaths     == {app, test}
GuardedPaths == {app, test, env}
LocalPaths   == {app, local}
NoPaths      == {}
EnvPath      == {env}
LocalPath    == {local}
AppPlan      == {{app}}
SomePlans    == {{app}, {app, test}}
EnvPlans     == {{app}, {app, test}, {app, env}}
OneTask      == {create}
NoRetry      == {0}
OneRetry     == {1}
ZeroOrTwo    == {0, 2}
UpToOneRetry == {0, 1}
Mine         == {mine}
=============================================================================
