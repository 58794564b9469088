\* Two event sources in a row under fairness: what an open one must do and a closed one may.
SPECIFICATION FairSpec
CONSTANTS
    MaxStreams = 2
    MaxVersions = 2
    MaxTroubles = 2
PROPERTIES OnlyCurrentSpeaks RunsNeverGoBack ClosedStreamsStop Recovers
CHECK_DEADLOCK FALSE
