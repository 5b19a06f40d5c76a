SPECIFICATION Spec
CONSTANTS
    MaxHosted = 2
    MaxUncreates = 1
    MaxChats = 1
    MaxLosses = 2
INVARIANT CreatesRedriven
CHECK_DEADLOCK FALSE
