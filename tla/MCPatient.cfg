SPECIFICATION AloneSpec
CONSTANTS
    food = food
    t1 = t1
    t2 = t2
    gifts = gifts
    k1 = k1
    k2 = k2
    photo = photo
    blank = blank
    Category = {food, gifts}
    NoCategory = NoCategory
    Key = {k1, k2}
    NoKey = NoKey
    Text = {t1, t2}
    Picture = {photo, blank}
    NoPicture = NoPicture
    Placeholder = blank
    NoRecord = NoRecord
    CategoryOf <- TwoCategoryOf
    PictureOf <- TwoPictureOf
    View = {v1, v2}
    NoView = NoView
    Popup = {p1}
    Typed <- TypedTooMuch
    OthersWrite = TRUE
    MaxPending = 1
    Pad = TRUE
SYMMETRY Symmetry
CHECK_DEADLOCK FALSE
INVARIANTS PatientUserKeepsSelection ListExact FormTruthfulAlone
