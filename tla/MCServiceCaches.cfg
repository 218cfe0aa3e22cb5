SPECIFICATION FairSpec
CONSTANTS
    Trx = {t1, t2}
    Sent = {t1}
    Workers = {w1, w2}
    SafeConf = 1
    MaxReorg = 1
    MaxHeight = 4
    KeepFor = 2
    SweepEvery = 3
    Addr = {a1}
    Tokens = {"pax"}
    Unlisted = "none"
    ListLen = 2
    MaxItems = 4
    Lists = {l1, l2}
    NoList = NoList
    Keep = 2
    Claims = {c1, c2}
    Good = {c1}
    Decimals = {2, 3}
    MaxUnits = 1200
INVARIANTS
    AnswersTrue
    Registered
PROPERTIES
    NoResubmission
    Resubmitted
    Watches
