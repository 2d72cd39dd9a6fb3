SPECIFICATION Spec
CONSTANTS
    InitialSubsidy = 5000
    Eras = 16
    MaxGuests = 4
    Intervals <- MCIntervals
    Percents <- MCPercents
    Guests <- MCGuests
    Amounts <- MCAmounts
    MaxHeight = 70
CHECK_DEADLOCK FALSE
INVARIANTS SupplyExact SplitConserves TagSound EvenShareTagged
