------------------------------ MODULE ReadCrypto ------------------------------
(***************************************************************************)
(* The URN, the content identity the caches are keyed by, and the          *)
(* gate-then-decrypt pipeline of src/src/crypto.rs, as pure operators.     *)
(*                                                                         *)
(* Cryptography is symbolic: a ciphertext is the pair of the key that      *)
(* opens it and the bytes it opens to, a generation root commits to a set  *)
(* of ciphertexts, and an inclusion proof names the leaf it is for and the *)
(* root it folds to.  Nobody finds a second preimage, so a proof folds to  *)
(* a root exactly when the root commits to its leaf.                       *)
(***************************************************************************)
EXTENDS FiniteSets

CONSTANTS
    Chains,       \* chain labels the parser accepts (chia, mainnet, testnet...)
    Resources,    \* a store with its effective resource key
    Roots,        \* well-formed generation roots
    Salts,        \* 64-hex secret salts
    ShortSalts,   \* salts the parser extracts and the key derivation rejects
    NoSalt,       \* the URN carries no salt
    NoRoot,       \* the URN (or the response) names no root
    BadRoot,      \* a non-empty root header that is not 64 hex digits
    NoKey,        \* the key of bytes that no URN opens
    Texts,        \* plaintexts
    Ciphertexts,  \* every ciphertext a peer or the disk can hold
    Garbled,      \* a proof that does not decode
    Committed     \* what each root commits to

\* The inputs of the key derivation: the canonical rootless URN and the salt.
Keys == [chain : Chains, resource : Resources, salt : Salts \cup {NoSalt}]

UrnForms == [chain : Chains, resource : Resources,
             root : Roots \cup {NoRoot},
             salt : Salts \cup ShortSalts \cup {NoSalt}]

Proofs == [leaf : Ciphertexts, root : Roots] \cup {Garbled}

\* What a fetch leaves behind to verify it again: cache.rs DiskArtifacts.  The
\* ciphertext is what was served, so it may be any bytes at all.
DiskArtifacts == [ciphertext : Ciphertexts \cup Texts, proof_b64 : Proofs,
                  chunk_lens : {"matching", "inconsistent"}]

ASSUME CryptoAssumption ==
    /\ Ciphertexts \subseteq [key : Keys \cup {NoKey}, text : Texts]
    /\ NoKey \notin Keys
    /\ NoKey \notin [chain : Chains, resource : Resources, salt : ShortSalts]
    /\ Committed \in [Roots -> SUBSET Ciphertexts]
    /\ NoRoot \notin Roots
    /\ BadRoot \notin Roots
    /\ NoRoot # BadRoot
    /\ ShortSalts \cap (Salts \cup {NoSalt}) = {}
    /\ NoSalt \notin Salts
    /\ Garbled \notin [leaf : Ciphertexts, root : Roots]

-----------------------------------------------------------------------------
\* URNs.

Pinned(u) == u.root # NoRoot

KeyOf(u) == [chain |-> u.chain, resource |-> u.resource, salt |-> u.salt]

\* Slips: an identity that forgets the root, or the salt.
ContentId_Rootless(u, root) ==
    [resource |-> u.resource, root |-> CHOOSE r \in Roots : TRUE, salt |-> u.salt]
ContentId_Saltless(u, root) ==
    [resource |-> u.resource, root |-> root, salt |-> NoSalt]

\* The identity storeId:root:resourceKey:salt.  It has no chain label.
ContentId(u, root) ==
    [resource |-> u.resource, root |-> root, salt |-> u.salt]

ContentIds == [resource : Resources, root : Roots \cup {BadRoot},
               salt : Salts \cup ShortSalts \cup {NoSalt}]

-----------------------------------------------------------------------------
\* The gate: the served bytes are the proof's leaf, the proof folds to its root,
\* and that root is the trusted one.
FoldsTo(proof, root) ==
    /\ proof # Garbled
    /\ proof.root = root
    /\ proof.leaf \in Committed[root]

\* Slip: the proof is checked against its own root.
VerifyInclusion_OwnRoot(ciphertext, proof, root) ==
    /\ proof # Garbled
    /\ FoldsTo(proof, proof.root)
    /\ proof.leaf = ciphertext

VerifyInclusion(ciphertext, proof, root) ==
    /\ root \in Roots
    /\ FoldsTo(proof, root)
    /\ proof.leaf = ciphertext

\* AES-GCM-SIV opens every chunk under the URN's key or fails as a whole.
Decrypts(u, ciphertext, chunk_lens) ==
    /\ ciphertext.key = KeyOf(u)
    /\ chunk_lens = "matching"

\* Slip: a proof that does not decode is malformed input, not an integrity failure.
VerifyAndDecrypt_DecodeError(u, art, root) ==
    IF u.salt \in ShortSalts \/ art.proof_b64 = Garbled THEN "Parse"
    ELSE IF ~ VerifyInclusion(art.ciphertext, art.proof_b64, root) THEN "VerifyFailed"
    ELSE IF ~ Decrypts(u, art.ciphertext, art.chunk_lens) THEN "DecryptFailed"
    ELSE "Ok"

\* The verdict of gate-then-decrypt, in the order the code takes its decisions:
\* the salt is parsed before the root, the root before the proof.
VerifyAndDecrypt(u, art, root) ==
    IF u.salt \in ShortSalts THEN "Parse"
    ELSE IF ~ VerifyInclusion(art.ciphertext, art.proof_b64, root) THEN "VerifyFailed"
    ELSE IF ~ Decrypts(u, art.ciphertext, art.chunk_lens) THEN "DecryptFailed"
    ELSE "Ok"

IntegrityVerdicts == {"VerifyFailed", "DecryptFailed"}

-----------------------------------------------------------------------------
\* What the store's publisher committed to: the reference the properties use.

\* The bytes that root commits to for exactly this URN's key.
Authentic(u, root) ==
    {c.text : c \in {d \in Committed[root] : d.key = KeyOf(u)}}

\* The bytes that root commits to for a resource, under any chain label and salt.
Published(resource, root) ==
    {c.text : c \in {d \in Committed[root] :
                        d.key # NoKey /\ d.key.resource = resource}}

\* The bytes a route may hand out for a URN.  The gateway and the disk are opened
\* under the URN's own key; a node's attested plaintext, and what memory keeps of
\* it, is what some root (the URN's, when it pins one) publishes for the resource.
Allowed(u, via) ==
    IF via \in {"rpc", "disk"} THEN Authentic(u, u.root)
    ELSE IF Pinned(u) THEN Published(u.resource, u.root)
    ELSE UNION {Published(u.resource, root) : root \in Roots}
=============================================================================
