SPECIFICATION vSpec
CONSTANTS
    MaxTriggers = 2
    MaxReady = 2
    Enough = 3
CHECK_DEADLOCK FALSE
PROPERTY BargeInStopsSpeech
