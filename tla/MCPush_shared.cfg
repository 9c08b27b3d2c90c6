SPECIFICATION Spec
CONSTANTS
    r1 = r1
    r2 = r2
    old = old
    new = new
    j1 = j1
    j2 = j2
    NoRef = NoRef
    NoPlatform = NoPlatform
    Jobs <- MCJobs
    Repos <- MCRepos
    Contents <- MCContents
    Platforms <- MCPlatforms
    PlatformRank <- MCRank
    ImageTags <- MCImageTags
    IndexTags <- MCIndexTags
    ArtifactReqs <- SharedArtifactReqs
    PlanReqs <- SharedPlanReqs
    IndexReqs <- SharedIndexReqs
    MultiReqs <- SharedMultiReqs
INVARIANTS
    StoredComplete
    IndexesPointAtExisting
    Inductive
    PlatformsMatch
    OkMeansPublished
PROPERTIES
    ReleasesAreWhole
