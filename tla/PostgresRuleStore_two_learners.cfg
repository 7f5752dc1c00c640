\* Two sessions replace the rules of one scope.
CONSTANTS
    base = base
    constructor = constructor
    plain = plain
    aliased = aliased
    one = one
    two = two
    Unscoped = Unscoped
    Scopes = {Unscoped, tenant}
    Rules = {base, constructor}
    Variants = {plain, aliased}
    Learned <- PlainLists
    MaxLearns = 2
    MaxReviews = 0
    Deciders = {}
    Reviewers = {}
    Learners = {one, two}
    Readers = {}
SPECIFICATION Spec
INVARIANTS
    OneLearnPerScope
