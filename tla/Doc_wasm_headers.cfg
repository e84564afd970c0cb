CONSTANTS
    public = public
    private = private
    r1 = r1
    r2 = r2
    s = s
    sh = sh
    v1 = v1
    p1 = p1
    Chains = {"chia"}
    Resources = {public, private}
    Roots = {r1, r2}
    Salts = {s}
    ShortSalts = {sh}
    NoSalt = NoSalt
    NoRoot = NoRoot
    BadRoot = BadRoot
    NoKey = NoKey
    Texts = {v1, p1}
    Ciphertexts <- MCCiphertexts
    Garbled = Garbled
    Committed <- MCCommitted
    Urns <- MCUrns
    Wire <- NothingOnTheWire
    NoBytes = NoBytes
    NoArtifacts = NoArtifacts
    NoProof = NoProof
    VisibleHeaders <- WasmHeaders
    Pending = Pending
    NoResponse = NoResponse
SPECIFICATION Spec
INVARIANT RelayedCiphertextIsServed
