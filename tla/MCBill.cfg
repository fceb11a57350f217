CONSTANTS
    MaxInt = 127
    MaxScale = 2
    AmountTexts <- SomeTexts
    Currencies <- Currencies2
    WirePrices <- SomePrices
    RateTexts <- SomeRates
    Counts <- SomeCounts
SPECIFICATION Spec
INVARIANTS BillIsExact TextKeepsValue TaxOrderDoesNotMatter QuoteAndBookingAgree RateIsNearest
