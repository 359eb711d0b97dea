SPECIFICATION Spec
CONSTANTS
    general = general
    random = random
    mention1 = mention1
    mention2 = mention2
    call3 = call3
    phone1 = phone1
    Letters = {m1}
    Tabs = {t1, t2}
    Sends = {s1, s2, s3}
    HourLimit = 1
    DayLimit = 2
    HourLength = 1
    DayLength = 2
    MaxAtOnce = 2
    LastTick = 3
    Mentions = {mention1, mention2}
    Channels = {general, random}
    ChannelOf <- RoomOf
    Rooms = {general, random}
    Theirs = {p1}
    Mine = {q1}
    Nowhere = Nowhere
    Links = {link1, link2}
    Phones = {phone1}
    PhoneOf <- OnePhone
    Limit = 1
    Stops = {stop1}
    Yeses = {yes1}
    WeekLength = 2
    MaxDelay = 1
    Timers = {c1, c2, c3, c4}
    Answers = {a1, a2}
    NoTimer = NoTimer
    Invites = {i1, i2}
    Operators = {o1, o2}
    Tickets = {login1}
    CodeTTL = 1
    TokenTTL = 1
    Vacant = Vacant
    Calls = {call1, call2, call3}
    Emails = {"ann", "bea"}
    EmailOf <- FounderOf
    MaxAttempts = 2
    NoAddress = NoAddress
INVARIANTS
    WorkspaceTypeOK
    OverrunIsBounded
    OnlyFailedFetchesSkip
    RowsBelong
    UsersAreListed
    AccessEnds
    WelcomedMeansReachable
PROPERTIES
    DestroyedWithCause
    ExpiredSpamIsPurged
    MailsAreNews
    AwayMentionsAreMailed
    StopIsRespected
    TextsAreAWeekApart
    OnlyTheLimitSkipsTwice
    BubbleHasItsTime
    KeepsListening
CHECK_DEADLOCK FALSE
