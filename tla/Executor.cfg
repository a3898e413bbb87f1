SPECIFICATION Spec
CONSTANTS
    Sessions = 10
    Managers = {"none", "systemd", "windows"}
    Commands = {"run", "newstore", "backup", "restore", "scan"}
    MaxBlocks = 3
    MaxBoots = 3
INVARIANTS
    NodeOverSoundStore
    CleanExit
    ReadyWhenServed
PROPERTIES
    StopEnds
CHECK_DEADLOCK FALSE
