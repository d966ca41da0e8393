SPECIFICATION Spec
CONSTANTS
    c1 = c1
    c2 = c2
    Clients <- OnePage
    Pages <- OnePage
    Listing <- MCListing
    Size <- MCSize
    Absent <- NoName
    Faults <- NoFaults
INVARIANTS
    PageTellsTheTruth
