SPECIFICATION Spec
CONSTANTS
    Layout <- McLayout
    Bits = {0}
    Signature = {0}
    Default = {}
    UpsetChips = {1, 2, 3}
    MaxUpsets = 1
    MaxResets = 0
    MaxSets = 1
INVARIANTS
    SingleChipTolerated
