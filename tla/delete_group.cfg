SPECIFICATION CommandSpec
CONSTANTS
    MaxImages = 1
    MaxLayers = 2
    MaxNodes = 2
    MaxCommands = 3
    MaxChanges = 0
PROPERTY DeletionLeavesALayer
CHECK_DEADLOCK FALSE
