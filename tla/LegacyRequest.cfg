CONSTANTS
    Fallbacks <- MCFallbacks
    Order <- MCOrder
    SavedLevels = {"ok"}
    Configs <- MCConfigs
    MaxEvents = 2
SPECIFICATION LegacySpec
INVARIANT OneTryPerAccount
INVARIANT AsksNoneRuledOut
INVARIANT AnswerIsWhole
INVARIANT NeverBricked
