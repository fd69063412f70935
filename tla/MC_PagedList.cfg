CONSTANTS
    i1 = i1  i2 = i2  i3 = i3  i4 = i4
    Items <- MCItems
    PerPage = 2
    MaxEdits = 2
    MaxRequests = 4
SPECIFICATION Spec
INVARIANT TypeOK
INVARIANT UneditedListingIsExact
PROPERTY PagerTerminates
