CONSTANTS
    MaxLines = 3
    Kinds = {"plain"}
SPECIFICATION FairSpec
PROPERTY WaitReturns
