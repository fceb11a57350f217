SPECIFICATION Spec
CONSTANTS
    Names = {"a"}
    Counts = {0, 1}
    Cards <- TwoCards
    Orders <- AllOrders
    MaxCalls = 2
INVARIANTS NoSecretIsLogged NoReservationIsInvented
CHECK_DEADLOCK FALSE
