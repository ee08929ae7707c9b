SPECIFICATION SetupSpec
CONSTANTS
    Chars = {"a", "b", ":"}
    Values <- ShortValues
    Colon = ":"
    End = "NUL"
    MaxLibs = 4
    Names <- ShortValues
    Bases = {0, 8}
    PageSize = 4
    REDIRECTOR_SIZE = 3
    CodeSize = 3
    Zero = Zero
INVARIANTS NearestFound  CutInBounds SplitsProperly SlotsExecutable SlotsUntorn ProtectsOwnPages
