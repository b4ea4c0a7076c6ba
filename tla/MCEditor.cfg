SPECIFICATION FairSpec
CONSTANTS
    food = food
    t1 = t1
    t2 = t2
    gifts = gifts
    k1 = k1
    k2 = k2
    photo = photo
    blank = blank
    Category = {food, gifts}
    NoCategory = NoCategory
    Key = {k1, k2}
    NoKey = NoKey
    Text = {t1}
    Picture = {photo, blank}
    NoPicture = NoPicture
    Placeholder = blank
    NoRecord = NoRecord
    CategoryOf <- TwoCategoryOf
    PictureOf <- TwoPictureOf
    View = {v1, v2}
    NoView = NoView
    Popup = {p1}
    Typed <- TypedText
    OthersWrite = TRUE
    MaxPending = 1
    Pad = TRUE
INVARIANTS Inv TypeOK RecordsKept SelectedIsShown ListCurrent
PROPERTIES WritesWhatIsShown ImplementsCatalogue SpinnerClears SavedPopupCloses
CHECK_DEADLOCK FALSE
