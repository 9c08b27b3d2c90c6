SPECIFICATION Spec
CONSTANTS
    b1 = b1
    b2 = b2
    b3 = b3
    first_tag = first_tag
    second_tag = second_tag
    None = None
    Tags <- MCTags
    Artifacts <- MCArtifacts
    FailOns = {0, 1, 2, 3}
INVARIANTS
    ReadsOfRegistry
    FailsAtStage
PROPERTIES
    WritesOfRegistry
