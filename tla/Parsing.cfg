\* Every kind of text, well formed and not.
SPECIFICATION Spec
CONSTANT TextsFor <- Everything
CONSTANT WellFormedFor <- Recorded
CONSTANT Meaning <- Written
CONSTANT MaxCopies = 4
INVARIANT WithinTheText
INVARIANT VisitsDoNotMatter
INVARIANT UriAsWritten
INVARIANT MessageAsWritten
INVARIANT ValueAsWritten
INVARIANT CopiesTaken
PROPERTY FinalVerdict
CHECK_DEADLOCK FALSE
