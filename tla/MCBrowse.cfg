SPECIFICATION Spec
CONSTANTS
    MaxInt = 100000
    MaxScale = 3
    Words <- SomeWords
    Numbers = {0, 1, 2, 3}
    LengthOf <- SomeLengths
    Figures = {1, 2, 3, 4, 30}
    MaxPlausibleCapacity = 20
    AmountTexts <- SomeTexts
    Currencies = {"", "EUR", "MNT"}
    OfferIDs <- SomeOfferIDs
    Rates <- SomeRates
    HotelIDs <- TwoHotels
    Facts <- SomeFacts
    CharsIn <- SomeChars
    Blank = {"", "  "}
    PropertyCodes <- TwoHotels
    RateCodes = {"RAC"}
    Codes <- SomeCodes
    MaxHotelIDs = 2
    MaxListedIDs = 3
    CityQueries <- SomeCityQueries
    GeocodeQueries <- SomeGeocodeQueries
    IDsQueries <- SomeIDsQueries
    KeywordQueries <- SomeKeywordQueries
    SearchQueries <- SomeSearchQueries
    ContentQueries <- SomeContentQueries
    Lists <- SomeLists
    Suggestions <- SomeSuggestions
    Offered <- SomeOffers
    OfferIDOf <- SomeIDs
    Dictionaries <- SomeDictionaries
    Published <- SomeContents
INVARIANTS SentIsAcceptable ReverifyShowsWhatSearchShowed CapacityIsStated WhatIsPublishedIsFound
