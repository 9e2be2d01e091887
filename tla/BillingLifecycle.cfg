\* Two deliveries, one user, one sweep, one administrator.
CONSTANTS
    Hooks = {h1, h2}
    Users = {u1}
    Sweepers = {s1}
    Admins = {a1}
    Plans = {"starter"}
    Starter = "starter"
    AdminActions = {"suspend", "reactivate", "mark_past_due", "downgrade_to_free"}
    Period = 1
    Grace = 1
    SuspendAfter = 2
    DowngradeAfter = 3
    MaxMandates = 2
    MaxEvents = 2
    MaxOps = 2
    MaxFaults = 1
SPECIFICATION FairSpec
INVARIANTS
    TypeOK
    EventAppliedOnce
    FeaturesNeedPlan
PROPERTIES
    UnpaidPlanEnds
CHECK_DEADLOCK FALSE
