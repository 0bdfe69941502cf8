CONSTANTS
    NumDma = 2
    Variants = 2
    Limits = {2}
    Available = 2
    SlotLimit = 2
    Modes = {"simulate"}
    Patterns = {"chain"}
    Programs <- MCPrograms
SPECIFICATION PSpec
INVARIANTS
    NextSameIdLinksAll
    StartAfterProtectsBarriers
PROPERTIES
    AssignmentAccepted
    InferenceCompletes
