SPECIFICATION Spec
CONSTANTS
    MaxTalk = 1
    MaxCommands = 2
PROPERTIES
    GivesUpOnlyIfRefused
CHECK_DEADLOCK FALSE
