SPECIFICATION FairSpec
CONSTANTS
    b1 = b1
    b2 = b2
    s1 = s1
    s2 = s2
    s3 = s3
    sms = sms
    signal = signal
    Blasts <- TwoBlasts
    Subscribers <- One
    Channels <- SmsOnly
    Channel <- BySms
    EnabledChannels <- SmsOnly
    Concurrency = 1
    BatchSize = 1
    MaxRuns = 1
    MaxTroubles = 1
    MaxChanges = 0
    MaxRequests = 1
    NoBlast = NoBlast
    NoChannel = NoChannel
\* Nobody need send or cancel a blast.
CHECK_DEADLOCK FALSE
PROPERTY SendingEnds
