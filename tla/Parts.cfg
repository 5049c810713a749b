SPECIFICATION PartsSpec
CONSTANTS
    Characters <- MCCharacters
    WordCharacters <- MCWordCharacters
    Addresses <- MCAddresses
    Limit = 4
    Keep = 2
    MaxChunk = 3
    MaxPrinted = 8
    RateLimit = 2
    RateWindow = 3
    LastTime = 9
    MaxBytes = 4
    RecordSizes = {1, 2, 5}
    MaxRecords = 5
INVARIANTS FirstAddressFound RateBounded LogIsTheEnd
CHECK_DEADLOCK FALSE
