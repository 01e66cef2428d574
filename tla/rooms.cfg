SPECIFICATION Spec
CONSTANTS
    ann = ann bob = bob hub = hub m1 = m1 m2 = m2 a1 = a1 a2 = a2 b1 = b1 x = x
    bot = bot none = none
    People = {ann, bob}
    Sessions = {hub, m1, m2}
    Addresses = {a1, a2, b1, x}
    person_for <- MCPersonFor
    Configs <- MCConfigs
    Memberships <- MCMemberships
    Shapes <- MCShapes
    MaxTimeline = 3
    Texts <- MCTexts
    ChunkBytes = 9
    MaxChunks = 2
    Limits = {1, 2}
    MaxPages = 2
INVARIANTS RoutingAgrees HistoryExact ReplyTogether ReplySurvivesSplitting
CHECK_DEADLOCK FALSE
