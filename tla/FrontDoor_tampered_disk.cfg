CONSTANTS
    public = public
    private = private
    r1 = r1
    r2 = r2
    s = s
    sh = sh
    v1 = v1
    v2 = v2
    p1 = p1
    i1 = i1
    i2 = i2
    c1 = c1
    c2 = c2
    Chains = {"chia"}
    Resources = {public, private}
    Roots = {r1, r2}
    Salts = {s}
    ShortSalts = {sh}
    NoSalt = NoSalt
    NoRoot = NoRoot
    BadRoot = BadRoot
    NoKey = NoKey
    Texts = {v1, v2, p1}
    Ciphertexts <- MCCiphertexts
    Garbled = Garbled
    Committed <- MCCommitted
    Urns <- DoorUrns
    Wire <- TamperedWire
    NoBytes = NoBytes
    NoArtifacts = NoArtifacts
    NoProof = NoProof
    VisibleHeaders <- WasmHeaders
    Instances = {i1}
    Calls = {c1}
    Owner <- OneOwner
    Override <- Ladder
    NoOverride = NoOverride
    DiskUsers = {i1}
    Remote = "remote"
    Unsteady = {"localhost"}
    DiskTampering = TRUE
    TransportTimesOut = TRUE
    NoUrn = NoUrn
    Torn = Torn
    Build = "wasm"
    NoPromise = NoPromise
SPECIFICATION DoorSpec
INVARIANT DoorTypeOK
INVARIANT OnlyContentIsShown
PROPERTY VerdictIsShown
PROPERTY DiskFailureMeansTampering
 
