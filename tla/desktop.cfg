SPECIFICATION DesktopSpec
CONSTANTS
    Tasks = {t1, t2}
    IssuedCapacity = 1
    TerminalCapacity = 1
    PendingCapacity = 1
    ThrownSends = {1, 2}
    Runs = {r1, r2}
    Old = r2
    MaxPages = 2
    MaxEvents = 2
    MaxLaunches = 3
INVARIANTS TypeOK NoTaskStranded OneTerminal StartsAreNew PagesExact NothingLeft OneDesktop ReleasedWhole ServedByItself
PROPERTIES TasksImplementLife StoppedBeforeRemoval RunSettles LaunchSettles
CHECK_DEADLOCK FALSE
