\* Two connections decide; one of them learns, and the other retrieves as well.
CONSTANTS
    base = base
    constructor = constructor
    plain = plain
    aliased = aliased
    one = one
    two = two
    repo = repo
    other = other
    NoRepository = NoRepository
    Unscoped = Unscoped
    Scopes = {Unscoped, tenant}
    Rules = {base, constructor}
    Variants = {plain, aliased}
    Repositories = {repo, other}
    RepositoryOf <- Alternating
    DependencyRules <- DependencyKinds
    Learned <- SomeLists
    MaxLearns = 3
    MaxReviews = 1
    Deciders = {one, two}
    Learners = {two}
    Readers = {one}
SPECIFICATION Spec
INVARIANTS
    OneLearnPerScope
    FingerprintCoversRules
    RetrievalIsOfItsRepository
PROPERTIES
    DecisionsHitTheirRule
    CurrentDecisionsKeepPromise
\* The bounds on learning runs and reviews end every behaviour.
CHECK_DEADLOCK FALSE
