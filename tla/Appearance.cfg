SPECIFICATION AppearanceSpec
CONSTANTS
    t1 = t1
    t2 = t2
    Tab = {t1, t2}
    hearthside = hearthside
    meadow = meadow
    Theme = {hearthside, meadow}
    grain = grain
    Clouds = Clouds
    Pattern = {grain, Clouds}
    Plain = Plain
    slow = slow
    fast = fast
    Drift = {slow, fast}
    Gentle = {slow}
    Missing = Missing
    Broken = Broken
    Unknown = Unknown
    Quilt = Quilt
    Default <- MCDefault
    Older <- MCOlder
CONSTRAINT FewChanges
SYMMETRY Symmetry
INVARIANTS
    AppearanceTypeOK
    ReloadKeepsLook
PROPERTIES
    FirstPaintIsFinal
    PickKeepsTheRest
CHECK_DEADLOCK FALSE
