SPECIFICATION FairSpec

CONSTANTS
    idle = idle
    downloading = downloading
    reboot = reboot
    Operation = {idle, downloading, reboot}
    NeedReboot = reboot
    SignalBuffer = 2
    MaxEarly = 3
    MaxSignals = 4
    MaxRestarts = 1

INVARIANTS
    TypeOK
    NoDeadlock
    DeafWhenOverrun
    RequestJustified

PROPERTIES
    RebootAnnounced
    StatusCaughtUp

CHECK_DEADLOCK FALSE
