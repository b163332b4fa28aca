SPECIFICATION Spec
CONSTANTS
    MaxImages = 2
    MaxLayers = 3
    MaxNodes = 2
    MaxCommands = 3
    MaxChanges = 2
INVARIANTS TypeOK DisplaysAreOwned CreationIsUndone PreviewReportIsTrue
PROPERTIES ClosedWithConsent NeverReplacedUnasked PublishedAfterCleanup PictureIsOfTheSource
CHECK_DEADLOCK FALSE
