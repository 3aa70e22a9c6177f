\* Two and three jugglers, patterns of up to four beats.
SPECIFICATION ScreensSpec
CONSTANTS
    Periods = {1, 2, 3, 4}
    Others <- OthersUsed
    DefaultOthers <- TwoJugglers
    Null = Null
INVARIANTS
    WidgetsAgree
    RangeMakesSense
    RecreationKeepsParameters
    RequestCarriesForm
    SearchFindsPatterns
    RowShowsPattern
    OrbitsShareClubs
    StartsHoldClubs
