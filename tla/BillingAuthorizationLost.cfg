\* One subscription and one handler that stops half way.
CONSTANTS
    Hooks = {h1}
    Users = {u1}
    Sweepers = {s1}
    Admins = {a1}
    Plans = {"starter"}
    Starter = "starter"
    AdminActions = {"suspend", "reactivate"}
    Period = 1
    Grace = 1
    SuspendAfter = 2
    DowngradeAfter = 3
    MaxMandates = 1
    MaxEvents = 2
    MaxOps = 2
    MaxFaults = 1
SPECIFICATION FairSpec
PROPERTIES AuthorizedTakesEffect
CHECK_DEADLOCK FALSE
