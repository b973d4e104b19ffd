SPECIFICATION Spec
CONSTANTS
    Installers = {a, b}
    Inodes = {i1, i2, i3, i4, i5}
    NoFile = NoFile
    MaxActs = 2
    MaxDeaths = 1
    Provisioners = {p, q}
    Versions = {1, 2}
    NoBinary = NoBinary
    MaxChanges = 1
    MaxKills = 1
    Sessions = {s, t}
    Nodes = {n}
    Revisions = {r1, r2, r3}
    NoRevision = NoRevision
    MaxRows = 2
    MaxSyncs = 2
    MaxCaptures = 2
    Descendants = {d1, d2}
    Limit = 1
    MaxSent = 2
    one = 1
    Authors = {s1, s2}
    Trees = {t1, t2}
    NPlans = 2
    Statements = {"a", "b", "c", "d", "e", "n"}
    Ids = {"a", "b", "c", "d", "n"}
    Unused = "n"
    Digest <- MCDigest
    Histories <- MCHistories
    Design <- MCDesign
    MaxCommands = 2
    MaxMerges = 1
    Revivals = FALSE
    Sources = {x1, x2, x3, x4}
    None = None
INVARIANTS EarlierSuccessorsAreSeen
CHECK_DEADLOCK FALSE
