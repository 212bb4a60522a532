SPECIFICATION Spec
CONSTANTS
    q1 = q1  q2 = q2  q3 = q3  q4 = q4  q5 = q5
    phone = phone
    NoPhone = NoPhone
    Requests = {q1, q2}
    TelegramID <- MCTelegramID
    PhoneNumber <- MCPhoneNumber
    MaxFaults = 0
CHECK_DEADLOCK FALSE
INVARIANT TokenHolderPlays
