\* Two users who register beside one who refers, three referral ids, two
\* requests at a time, an upload and an award.
SPECIFICATION Spec
CONSTANTS
    ann = ann
    ben = ben
    eve = eve
    c1 = c1
    c2 = c2
    x = x
    y = y
    z = z
    Addresses = {ann, ben, eve}
    ReferralIds = {x, y, z}
    SentIds = {y}
    Calls = {c1, c2}
    Known <- MCKnown
    Files <- MCFiles
    ChunkSize = 1
    MaxTimes = 2
    None = None
SYMMETRY MCSymmetry
CONSTRAINT MCFew
INVARIANTS
    TypeOK
    OneUser
    ReferrersFirst
PROPERTIES
    AffiliateKept
    ReferralIdKept
