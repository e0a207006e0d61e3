CONSTANTS
    MaxNodes = 3
    Intervals = {0, 1500, 2000}
    MaxDepth = 2
    WvfPins = {1, 2, 3}
    maxPWMs = 2
    WvfWaves <- WvfTones
    WvfDuties <- WvfPwms
    WvfFreqs = {6, 8}
    WvfWord = 20
    WvfAdjust = 1
    WvfShortRuns = FALSE
    WvfFreqAfterStop = FALSE
    TkrFns = {"f", "g"}
    TkrTimes = {1, 2, 3, 5, 9}
    DurationMax = 2
    TkrReattach = FALSE
    ClkWord = 16
    ClkStep = 5
    ClkMaxHi = 6
    MAGIC_1E3_wHI = 5
    MAGIC_1E3_wLO = 6
    ClkDiv = 3
SPECIFICATION TimersSpec
INVARIANTS ListOK EachOnce GrainSound WvfAsRequested WvfPwmList ClkExact TkrAsAsked
PROPERTIES RunEnds WvfReturns
CHECK_DEADLOCK FALSE
