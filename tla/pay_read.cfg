SPECIFICATION FairSpec
CONSTANTS
    Request = {}
    IdemKey = {}
    Credential = {}
    Price <- MCOnePrice
    Network = {"local"}
    Instance = {i1}
    Retries = 1
    MaxFailures = 2
    MaxRestarts = 1
    Reader = {d1, d2}
CHECK_DEADLOCK FALSE
INVARIANT ReaderPaysForResult
PROPERTY ResultObtained
