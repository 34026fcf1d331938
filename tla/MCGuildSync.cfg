CONSTANTS
    Guilds = {g1}
    Members = {m1, m2}
    Channels = {c1}
    Roles = {r1}
    Orphans = {}
    Kinds = {"vanish", "GUILD_MEMBER_ADD", "GUILD_MEMBER_REMOVE", "CHANNEL_CREATE",
             "CHANNEL_DELETE", "GUILD_ROLE_CREATE", "GUILD_UPDATE",
             "GUILD_EMOJI_UPDATE", "MESSAGE_CREATE"}
    Threshold = 2
    MaxEvents = 7
    AnyMembers = {n1}
    AnyChannels = {c1, c2}
    AnyOrphans = {c2}
    AnyKinds = {"vanish_syncing", "late", "CHANNEL_CREATE", "CHANNEL_UPDATE",
             "GUILD_ROLE_CREATE", "GUILD_ROLE_UPDATE", "GUILD_ROLE_DELETE", "MESSAGE_DELETE",
             "TYPING_START"}
    AnyThreshold = 1
    AnyEvents = 5
SPECIFICATION BothSpec
INVARIANTS CacheConverges MessagesDelivered ReadyHasMembers
SYMMETRY Symmetry
CHECK_DEADLOCK FALSE
