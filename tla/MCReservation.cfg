CONSTANTS
    MaxRooms = 2
    MaxNameLength = 4
    MaxSpecialRequest = 3
    Drafts <- AllDrafts
SPECIFICATION ReservationSpec
INVARIANTS ReferencesResolve TermsAreKept ChargedCardIsChecked NothingBookableIsRejected
CHECK_DEADLOCK FALSE
