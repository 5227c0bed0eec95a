SPECIFICATION FairSpec
CONSTANTS
    None = None
    Tabs = {t1, t2}
    Main = t1
    Ttls = {2, 6}
    MaxEvents = 2
INVARIANTS TypeOK OnlySlowCallsExpire
PROPERTIES KeysFollowRotation HouseholdGetsIn WorkerIsServed
