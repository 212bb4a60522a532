SPECIFICATION FairSpec
CONSTANTS
    q1 = q1  q2 = q2  q3 = q3  q4 = q4  q5 = q5
    phone = phone
    NoPhone = NoPhone
    Requests = {q1, q2, q3, q4, q5}
    TelegramID <- MCTelegramID
    PhoneNumber <- MCPhoneNumber
    MaxFaults = 1
CHECK_DEADLOCK FALSE
INVARIANTS SomeoneGoesOn OneAccount RefusalsExplained
PROPERTY EveryRequestEnds
