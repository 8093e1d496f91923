SPECIFICATION Spec
CONSTANTS
    repo = repo
    adapters = adapters
    v1 = v1
    v2 = v2
    weights = weights
    tokenizer = tokenizer
    v1weights = v1weights
    v2weights = v2weights
    v2tokenizer = v2tokenizer
    adapter = adapter
    NoRev = NoRev
    NoGroup = NoGroup
    AdapterGroup = adapters
    Repos <- MCRepos
    Revs <- MCOneRev
    Blobs <- MCBlobs
    Links <- MCOneLinks
    RevOf <- MCRevOf
    Target <- MCTarget
    Group <- MCGroup
    Adapters = {adapter}
    Asked <- MCEverything
    Moving = FALSE
    NetFails = TRUE
    Kills = TRUE
    Prunes = TRUE
    RotKinds = {"rotten"}
    Rottable = {tokenizer}
    Lockable = {}
    HandPaths = {adapter}
INVARIANT TypeOK
PROPERTY OkMeansCurrent RemovesOnlyWritten
