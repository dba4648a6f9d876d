SPECIFICATION MCSpec
CONSTANTS
    Users = {"serve", "push"}
    NoCommand = NoCommand
    NoCall = NoCall
    Blank = Blank
    Garbled = Garbled
    Floor <- MCFloor
    Frequencies <- MCFrequencies
    FrequencyTexts <- MCFrequencyTexts
    ValueTexts <- MCValueTexts
    Units = {"dBm", "V", "W", "RAW"}
    Windows <- MCWindows
    Attempts = 2
    Hz = {1, 4}
    Threshold = 2
    Top = 3
    MaxActs = 2
    MaxStirs = 2
INVARIANTS OwnAnswers ReadbackTrue FormatReadsBack StatsAgree
PROPERTIES LnaBeforeSweep CommandsEnd
CHECK_DEADLOCK FALSE
