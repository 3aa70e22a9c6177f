\* Patterns of an even length, the default one among them.
SPECIFICATION ScreensSpec
CONSTANTS
    Periods = {2, 4}
    Others <- OthersUsed
    DefaultOthers <- TwoJugglers
    Null = Null
INVARIANT BeginsAtMinuend
