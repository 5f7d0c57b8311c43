SPECIFICATION FairSpec
CHECK_DEADLOCK FALSE
CONSTANTS
    pat = pat
    kim = kim
    b1 = b1
    b2 = b2
    b3 = b3
    x = x
    y = y
    Undefined = Undefined
    Nobody = Nobody
    NoRow = NoRow
    Persons = {pat, kim}
    Browsers = {b1, b2, b3}
    PersonAt <- WhoIsAt
    Programs = {x, y}
    Years = {1, 2}
    Tells <- Lists
    SuperUsers = {kim}
    InitialAccounts <- Accounts
    InitialPrograms = {y}
    InitialUsers <- LoggedIn
    InitialFlow <- Begun
    MayDo <- WhatTheyDo
    MayYear <- AskFor
    MayFail = TRUE
    Year = 0
    MaxNow = 1
    MaxCalls <- HowOften
INVARIANTS
    SessionsTypeOK
    WelcomedOnce
    ProgramsComeFromFeide
PROPERTIES
    WelcomeIsSent
    YearChangesOnceAYear
