\* Two sessions decide about a rule of two tenant scopes; one may read first, the other
\* learns and records reviews.
CONSTANTS
    base = base
    constructor = constructor
    plain = plain
    aliased = aliased
    one = one
    two = two
    Unscoped = Unscoped
    Scopes = {Unscoped, tenant, second}
    Rules = {base}
    Variants = {plain, aliased}
    Learned <- BaseLists
    MaxLearns = 2
    MaxReviews = 1
    Deciders = {one, two}
    Reviewers = {two}
    Learners = {two}
    Readers = {one}
SPECIFICATION Spec
PROPERTIES
    LifecycleIsIrreversible
    KeepsPromise
