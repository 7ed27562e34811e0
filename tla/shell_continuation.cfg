SPECIFICATION ShellSpec
CONSTANTS
    Literals = {"a"}
    MaxInput = 4
    MaxCommand = 4
    MaxShellTokens = 1
    MaxToken = 2
INVARIANTS
    WordsAreShellWords
CHECK_DEADLOCK FALSE
