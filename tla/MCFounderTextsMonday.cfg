SPECIFICATION FounderSpec
CONSTANTS
    phone1 = phone1
    Links = {link1}
    Phones = {phone1}
    PhoneOf <- OnePhone
    Limit = 1
    Stops = {stop1}
    Yeses = {yes1}
    WeekLength = 1
    MaxDelay = 0
INVARIANTS
    TextedEveryMonday
CHECK_DEADLOCK FALSE
