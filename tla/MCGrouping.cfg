CONSTANTS
    MaxInt = 449
    MaxScale = 2
    Hotels <- AllHotels
    Other = 99
SPECIFICATION GroupingSpec
INVARIANTS EveryOfferOnce FromPriceIsLowestOfComparable CheapestAgreesWithGroups ListingDoesNotMatter ConversionKeepsOrder
