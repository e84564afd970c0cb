CONSTANTS
    public = public
    private = private
    r1 = r1
    r2 = r2
    s = s
    sh = sh
    v1 = v1
    v2 = v2
    p1 = p1
    i1 = i1
    i2 = i2
    c1 = c1
    c2 = c2
    Chains = {"chia"}
    Resources = {public, private}
    Roots = {r1, r2}
    Salts = {s}
    ShortSalts = {sh}
    NoSalt = NoSalt
    NoRoot = NoRoot
    BadRoot = BadRoot
    NoKey = NoKey
    Texts = {v1, v2, p1}
    Ciphertexts <- MCCiphertexts
    Garbled = Garbled
    Committed <- MCCommitted
    Urns <- PinnedUrn
    Wire <- HonestWire
    NoBytes = NoBytes
    NoArtifacts = NoArtifacts
    NoProof = NoProof
    VisibleHeaders <- AllHeaders
    Instances = {i1}
    Calls = {c1}
    Owner <- OneOwner
    Override <- Ladder
    NoOverride = NoOverride
    DiskUsers = {}
    Remote = "remote"
    Unsteady = {}
    DiskTampering = FALSE
    TransportTimesOut = TRUE
    NoUrn = NoUrn
    Torn = Torn
SPECIFICATION Spec
INVARIANT NotFoundMeansEveryTierAbsent
