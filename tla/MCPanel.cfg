SPECIFICATION Spec
CONSTANTS
    Credentials = {c1, c2}
    Blank = Blank
    MaxTabBars = 2
    MaxSignIns = 2
    Message = {m1, m2}
    NoText = NoText
    MaxMessages = 3
    k1 = k1
    k2 = k2
    k3 = k3
    all = all
    one = one
    empty = empty
    Key = {k1, k2, k3}
    NoKey = NoKey
    Query = {all, one, empty}
    Matching <- MatchingNames
    Digit = {0, 1, 2, 8}
    ForeignDigit = ForeignDigit
    OtherChar = OtherChar
    Width = 8
    MaxLength = 3
    MaxTyped = 2
INVARIANTS PanelTypeOK PanelNeedsUser RememberedWereAccepted ListIsContext TableAgrees
    TrapsOnlyUnsettled OnlyLargeOrForeign
PROPERTY LoginAnswered
CHECK_DEADLOCK FALSE
