SPECIFICATION UpgradeSpec
CONSTANTS
    Versions <- MCVersions
    Base <- MCBase
    Apps = {a1, a2}
    MaxOffers = 2
    MaxFlaps = 2
    NoVersion = NoVersion
INVARIANTS
    UpgradeIsReal
    ReadyWhenChecked
PROPERTY
    UpgradesEnd
CHECK_DEADLOCK FALSE
