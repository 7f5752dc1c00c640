-------------------------- MODULE MCConcurrentRuns --------------------------
(* Three calls over two service objects and two repositories: the first is a *)
(* run, each of the others another run or a resumption of the first.         *)
EXTENDS ConcurrentRuns

CONSTANTS a, b, c, one, two, repo, other, file

Asks(service, repository, resumes) ==
    [service |-> service, repository |-> repository, file |-> file, resumes |-> resumes]

MCRequests ==
    {[call \in Calls |-> CASE call = a -> Asks(one, repo, None)
                           [] call = b -> Asks(sb, IF rb = None THEN other ELSE repo, rb)
                           [] call = c -> Asks(sc, repo, rc)]
        : sb \in Services, sc \in Services, rb \in {None, a}, rc \in {None, a}}
=============================================================================
