\* Both programs, up to three lines from each user.
CONSTANTS
    Variants = {"Simple", "NoBloqueante"}
    MaxLines = 3
SPECIFICATION FairSpec
CHECK_DEADLOCK FALSE
INVARIANT OneTurn
PROPERTY PromptComesBack
