\* One page with two requests at a time, two clicks, three entries.
SPECIFICATION LiveSpec
CONSTANTS
    own = own
    a = a
    b = b
    None = None
    Pages = {1}
    Entries <- MCEntries
    Own = own
    Slots <- MCSlots
    MaxClicks = 2
INVARIANT CarefulLosesNothing
PROPERTIES OnlyTouchedMove BusyEnds
CHECK_DEADLOCK FALSE
