SPECIFICATION MCSpec
CONSTANTS
    r1 = r1
    r2 = r2
    u1 = u1
    u2 = u2
    ana = ana
    bea = bea
    Records = {r1, r2}
    Updaters = {u1, u2}
    Scenarios <- AllScenarios
    Confirmed = {"update", "dedup"}
    Plain = {"list"}
    Detached = {"update"}
    Chats = {"hers", "his"}
    Users = {ana, bea}
    BROADCAST_TRIES = 2
    Scenes <- AllScenes
INVARIANTS
    CleanMeansFresh
    SuppressIsHonoured
    RunsOnceIfConfirmed
PROPERTIES
    Returns
    BotSettles
CHECK_DEADLOCK FALSE
