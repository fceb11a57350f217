SPECIFICATION Spec
CONSTANTS
    Hotels = {h1, h2, h3}
    MaxAttempts = 2
    MaxChanges = 2
    MaxFaults = 1
INVARIANTS AvailabilityIsFound FixturesBelongTogether RequestsAreBounded
