SPECIFICATION NetworkSpec
CONSTANTS
    Origins <- MCOrigins
    SiteOf <- MCSiteOf
    Trustworthy = {"a", "b"}
    Requests <- MCRequests
    Redirections = {"", "unsafe-url"}
    MaxRedirects = 2
    Keys <- MCKeys
    OpaqueKeys = {"o"}
    SizeOf <- MCSizes
    Fetchers = {d1, d2}
    PageRequests <- MCPageRequests
    Heads <- MCHeads
    MaxEntries = 2
    MaxBytes = 2
    MaxVersion = 2
    MaxClock = 1
    MaxFetches = 3
    PrefixOf <- MCPrefixOf
    PublicSuffixes <- MCSuffixes
    CookieLines <- MCLines
    CookieUrls <- MCUrls
    CookieContexts <- MCContexts
    MaxLife = 2
    PerDomain = 2
    MaxCookies = 3
    MaxTime = 1
    Targets = {t1, t2}
    MaxSessions = 2
    InboxSize = 2
    MaxLog = 2
    MaxCommands = 3
    Clients <- ThreeClients
    MaxTabs = 2
    MaxHandles = 3
    MaxDocuments = 2
    MaxScripts = 2
    MaxIssued = 2
    MaxHangups = 1
SYMMETRY PeerSymmetry
INVARIANTS FetchSafe CacheSafe JarSafe CdpSafe WdSafe
 
CHECK_DEADLOCK FALSE
