--------------------------------- MODULE Null ---------------------------------
CONSTANT NULL    \* SQL NULL, JavaScript null: no row, no role, no reference
==============================================================================
