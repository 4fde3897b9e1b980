CONSTANT None = None
SPECIFICATION TreeSpec
INVARIANT LibraryAccepts
CHECK_DEADLOCK FALSE
