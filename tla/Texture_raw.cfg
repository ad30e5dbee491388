SPECIFICATION TextureSpec
CONSTANTS
    Photo = {p, q}
    MaxEvents = 0
    MaxTime = 2
INVARIANTS RawIsShown
CHECK_DEADLOCK FALSE
