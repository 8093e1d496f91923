SPECIFICATION Spec
CONSTANTS
    repo = repo
    adapters = adapters
    v1 = v1
    v2 = v2
    weights = weights
    tokenizer = tokenizer
    v1weights = v1weights
    v2weights = v2weights
    v2tokenizer = v2tokenizer
    adapter = adapter
    NoRev = NoRev
    NoGroup = NoGroup
    AdapterGroup = adapters
    Repos <- MCRepos
    Revs <- MCRevs
    Blobs <- MCBlobs
    Links <- MCLinks
    RevOf <- MCRevOf
    Target <- MCTarget
    Group <- MCGroup
    Adapters = {}
    Asked <- MCRepoOnly
    Moving = FALSE
    NetFails = TRUE
    Kills = FALSE
    Prunes = TRUE
    RotKinds = {}
    Rottable = {}
    Lockable = {}
    HandPaths = {}
INVARIANT DanglingOnlyByPrune
