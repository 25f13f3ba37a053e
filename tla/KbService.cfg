\* Every request, with documents removed and re-indexed under it.
SPECIFICATION Spec
CONSTANTS
    d1 = d1
    d2 = d2
    t1 = t1
    open = open
    secret = secret
    Shared = Shared
    Docs = {d1, d2}
    Tenants = {t1}
    Tags = {open, secret}
    Sensitive = {secret}
    Corpus <- MCCorpus
    MaxRev = 2
    Floor = 60
    Said <- Numbers
    EmptyRetrievalRaises = TRUE
INVARIANTS
    TypeOK
    DisclosedIsPermitted
    LocatedUnderItsOwner
    RepliesAreOnRecord
    AnswersAreGrounded
    NothingUnsafeLeaves
    WeakAnswersEscalate
