SPECIFICATION BrowserSpec
CONSTANTS
    browser = browser
    console = console
    Connections <- MCConnections
    Browsers <- MCBrowsers
    Fragile <- MCBrowsers
    Names <- AllNames
    FileNames <- OneFile
    Texts <- OneText
    MaxSessions = 2
    Operations <- MCOperations
    GiveUp = TRUE
INVARIANTS
    BrowserTypeOK
    AnswersFromItsSession
    SessionTracked
PROPERTIES
    ClosesWhatWasNamed
    RequestReturns
