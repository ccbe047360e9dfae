\* A character escaped by its code.
SPECIFICATION Spec
CONSTANT TextsFor <- UnicodeOnly
CONSTANT WellFormedFor <- UnicodeOnly
CONSTANT Meaning <- UnicodeWritten
CONSTANT MaxCopies = 4
INVARIANT ValueAsWritten
CHECK_DEADLOCK FALSE
