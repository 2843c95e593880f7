CONSTANTS
    Launchers = {l1, l2}
    BootFailureThreshold = 2
    MaxRelease = 2
    MaxEvents = 2

SPECIFICATION LauncherSpec

PROPERTY CounterFollowsLaunch
