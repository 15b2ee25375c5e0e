SPECIFICATION Spec
CONSTANTS
    b1 = b1
    b2 = b2
    s1 = s1
    s2 = s2
    s3 = s3
    sms = sms
    signal = signal
    Blasts <- OneBlast
    Subscribers <- Two
    Channels <- BothChannels
    Channel <- Mixed
    EnabledChannels <- BothChannels
    Concurrency = 1
    BatchSize = 1
    MaxRuns = 2
    MaxTroubles = 1
    MaxChanges = 1
    MaxRequests = 1
    NoBlast = NoBlast
    NoChannel = NoChannel
\* Nobody need send or cancel a blast.
CHECK_DEADLOCK FALSE
PROPERTY CancelledIsFinal
