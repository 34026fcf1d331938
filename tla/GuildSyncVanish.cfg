CONSTANTS
    Guilds = {g1}
    Members = {m1, m2}
    Channels = {c1}
    Roles = {}
    Orphans = {}
    Kinds = {"vanish_syncing", "GUILD_MEMBER_ADD", "GUILD_MEMBER_REMOVE", "MESSAGE_CREATE"}
    Threshold = 2
    MaxEvents = 6
SPECIFICATION Spec
INVARIANT BacklogOnlyWhileSyncing
CHECK_DEADLOCK FALSE
