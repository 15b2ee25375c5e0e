SPECIFICATION FairSpec
CONSTANTS
    b1 = b1
    b2 = b2
    s1 = s1
    s2 = s2
    s3 = s3
    sms = sms
    signal = signal
    Blasts <- OneBlast
    Subscribers <- One
    Channels <- BothChannels
    Channel <- BySms
    EnabledChannels <- BothChannels
    Concurrency = 1
    BatchSize = 1
    MaxRuns = 1
    MaxTroubles = 0
    MaxChanges = 1
    MaxRequests = 1
    NoBlast = NoBlast
    NoChannel = NoChannel
\* Nobody need send or cancel a blast.
CHECK_DEADLOCK FALSE
PROPERTY UnsendableBlastFails
