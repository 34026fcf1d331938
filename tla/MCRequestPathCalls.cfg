CONSTANTS
    Parts = {"calls", "mentions", "settings", "permissions", "number"}
    r1 = r1  r2 = r2  r3 = r3  b1 = b1  b2 = b2
    Requests <- MCRequests
    Buckets <- MCBuckets
    BucketOf <- MCBucketOf
    NoRequest = NoRequest
    Delays = {1, 2}
    MaxTime = 3
    MaxTries = 2
    MaxLimits = 2
    MaxBreaks = 1
    Producers = {p1, p2}
    Consumers = {c1, c2}
    RingSize = 3
    MaxPushes = 4
    MaxCancels = 1
    Slots = {1, 2}
    Ids = {1, 2}
    Others = {"reply_to", "add_role", "send_with_webhook", "get_invite"}
    Codes = {7}
    Statuses = {200, 404, 409}
    RoleIds = {role1, role2}
    UserIds = {user1, user2}
    MaxIds = 3
    MaxSettings = 4
    WordBits = 4
    Ten = 3
    Chunk = 2
    Base = 2
    BaseChunk = 3
    Words = {0, 1, 8, 15}
    Operands <- Numbers
    MaxValue = 700
SPECIFICATION PathSpec
INVARIANTS
    LimitsStayApart OutcomeIsAnswer MentionsAgree SettingsReadBack
    PermissionsMatch NumberIsExact
CHECK_DEADLOCK FALSE
