SPECIFICATION Spec
CONSTANTS
    Printable = {"x", "$"}
    Control = {"ctl"}
    Texts <- Prompt
    Counts = {0, 1, 3}
    TabStop = 3
    MaxKeys = 5
    MaxRow = 2
    None = None
INVARIANTS
    TypeOK
    LineIsEdited
    ScreenShowsLine
    PromptKept
