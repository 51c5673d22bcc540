SPECIFICATION OfferSpec
CONSTANTS
    Chairs = {armchair}
    Sofas = {sofa}
    Cushions = 3
    Coord <- Layout
    Shows <- Sights
    MaxSlips = 2
INVARIANTS OfferedSeatIsFree HeadOnViewTrusted FreeSeatIsOffered
CHECK_DEADLOCK FALSE
