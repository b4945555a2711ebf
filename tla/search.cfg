CONSTANTS
    Alphabet <- Letters
    Patterns <- SomePatterns
    Texts <- SomeTexts
    MaxRead = 7
SPECIFICATION FairSpec
INVARIANTS InBounds LongestHeld FindsFirst ReadsConcatenation
PROPERTIES FindReturns
CHECK_DEADLOCK FALSE
