\* One repository, two Images: bad manifests, manual edits, a failure.
SPECIFICATION FairSpec
CONSTANTS
    Repos = {r}
    Images = {i, j}
    NoRepo = NoRepo
    MaxCommits = 1
    MaxEdits = 2
    MaxFaults = 1
PROPERTIES
    PrunesOnlyOwn
    SyncRequestHonoured
    CatalogConverges
CHECK_DEADLOCK FALSE
