CONSTANTS
    Clients = {"c1", "c2"}
    ClientLedgers = {"m1", "m2", "m3"}
    ClientOf <- MattersOf
    Cushion = "cushion"
    Amounts = {1}
    Caps = {1}
    ClientOutKinds = {"refund"}
    CushionOutKinds = {"cushion_withdrawal"}
    LastDay = 2
    MaxEntries = 3
    MaxHolds = 1
    People = {"first", "second"}
    Parties = {1, 2, 3}
    Alike <- LikeTheMiddle
    MaxMerges = 2
    Hops = 10
    Attorneys = {"lawyer"}
    Clerks = {"clerk"}
    EventDays = {1, 2}
    Court <- CourtRules
    Triggers <- SomeTriggers
    MaxAttempts = 1
    Users = {"ada", "lee", "bo"}
    BaseRoles <- FirmRoles
    FirstOwners = {"lee"}
    FirstRows <- SavedRows
    Screened = {"bo"}
    MatterStaff = {"lee", "bo"}
    Members = {"first", "second"}
    MaxRows = 1
    MaxAsks = 2
    Managers = {"first", "second"}
    MaxVersions = 3
    Stages = 3
    MaxClosings = 2
    Lawyers = {"first", "second"}
    MaxProblems = 2
    Readers = {}
    Matters = {"matter"}
    Mails <- CourtMails
    MonthLedgers = {"a", "b"}
    Postings <- SomePostings
    Statements <- SomeStatements
    NoReference = "none"
    MonthLength = 2
    Early = 1
    DepositDays = 1
    WithdrawalDays = 2
    MaxListed = 2
    LastMonth = 2
    MaxPostings = 3
SPECIFICATION OfficeSpec
INVARIANTS
    TypeOK
    HeldMoneyBacked
    BookIsSumOfLedgers
    ClientMoneyIsItsOwn
    ReversalsExactAndOnce
    MonthsTieToTheBank
    DuplicatesAreFoundTogether
    RightsKeepTheirFloor
    RequestsAreFollowedUp
    SetupsAreReviewed
    LifecycleIsSound
    LettersAreSound
PROPERTIES
    ClosedBooksFrozen
    ConfirmedDatesStand
CHECK_DEADLOCK FALSE
