CONSTANTS
    Instants = {0, 1, 2, 3}
    Fees = {0, 50}
    MaxNights = 3
    MaxListed = 4
    Offered <- AllOffered
SPECIFICATION Spec
INVARIANTS FreePromiseKept NoTermIsLost NeverMoreGenerousThanOffered StayLimitsAgree
PROPERTIES NeverFreeAgain
