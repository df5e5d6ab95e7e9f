\* Every pattern and every name over two characters, up to these lengths.  The
\* function returns, and then nothing is enabled.
CONSTANTS
    Chars      = {a, b}
    Star       = Star
    MaxPattern = 4
    MaxTarget  = 4
SPECIFICATION MCSpec
INVARIANTS WInv DecidesMatches
PROPERTY Terminates
CHECK_DEADLOCK FALSE
