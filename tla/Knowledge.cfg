SPECIFICATION SpecAny
CONSTANTS
    upload = upload
    Uploads <- OneUpload
    Batches = 2
    MaxCrashes = 2
    t1 = t1
    t2 = t2
    draft = draft
    book = book
    s1 = s1
    s2 = s2
    p1 = p1
    p2 = p2
    Threads <- TwoThreads
    Namespaces <- TwoNamespaces
    Draft = draft
    Target = book
    Sources <- TwoSources
    Profiles <- TwoProfiles
    Default = p1
    Chunks = 2
    MaxCalls = 3
    Passages = {"a1", "a2", "b1"}
    SourceOf <- SourceIs
    Ordinal <- OrdinalIs
    Notes = {"a2"}
    Words = {"a1", "a2"}
    Supports = {"b1"}
    Limit = 2
    TopK = 2
    PerSource = 1
    MaxEvidence = 1
    MaxSearches = 1
CHECK_DEADLOCK FALSE
INVARIANTS
    PublishedExactlyIfCompleted
    StagedAsLongAsNeeded
    SearchIsTrue
PROPERTIES
    EverythingEnds
    
