\* Two of the three processes that part_c_first_strategy starts.
CONSTANTS
    Readers = {r1, r2}
    Keys = {2, 11, 28, 53}
    MaxInt = 15
    MaxKeys = 2
SPECIFICATION ScanfSpec
PROPERTIES ScannedNumber
