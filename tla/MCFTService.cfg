SPECIFICATION FairSpec
CONSTANTS
    c1 = c1
    c2 = c2
    Clients <- TwoClients
    Pages <- OnePage
    Listing <- MCListing
    Size <- MCSize
    Absent <- MCAbsent
    Faults <- AllFaults
INVARIANTS
    TypeOK
    FilesAreWhole
    ReturnsWhole
PROPERTIES
    GetReturns
