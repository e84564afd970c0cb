# dig-urn-resolver, modelled and proved in TLA+

dig-urn-resolver resolves a DIG URN to verified bytes: it asks a ladder of
endpoints (a local DIG node, then the public gateway), verifies and decrypts
what it is given, caches what it has verified, and folds every failure into a
small set of outcomes. This directory holds TLA+ models of that program, the TLC
runs that check them on small instances, and TLAPS proofs of the properties that
matter most, for every value of the constants.

Source paths are relative to the repository root; "resolver.rs" and the like are
files of `src/src/`.

## 1. The system

### Components

| Component | State | Operations | Correct when |
|---|---|---|---|
| **Resolver** (resolver.rs) | per instance: the cached plan, the in-memory cache, an optional disk cache (all `RefCell`s of one thread) | `resolve`: memory, disk, plan, tiers, caching, outcome | bytes are served only if the publisher committed to them; an integrity failure is final; absence and unreachability walk the whole ladder |
| **Ladder** (ladder.rs) | none | `build_plan`, `classify`, `health_ok`, loopback assertion | crypto-free node trust goes to loopback hosts only |
| **In-memory LRU** (cache.rs, `MemoryCache`) | tick, byte count, map | `get`, `put`, `evict` | the byte count is right, both bounds hold, victims are the least recently used, an accepted put is kept |
| **Disk cache** (cache.rs, `DiskCache`; node_fs.rs) | one JSON file per content identity, shared by processes | `get`, `put`, `remove`, all best-effort | what is in a file never decides what is served; a torn file is a miss |
| **Read crypto** (crypto.rs) | none | `verify_inclusion`, then `decrypt` | nothing is decrypted that is not committed to by the trusted root |
| **URN** (urn.rs) | none | parse; `root_hex` | (parser in dig-urn-protocol) |
| **Node fetch** (node.rs) | none | one GET and the classification of its response | attested plaintext is trusted, ciphertext is verified, everything else is refused; only the status means absence |
| **Rpc fetch** (rpc.rs) | cursor, buffer, declared total, proof, chunk plan | windowed `dig.getContent` calls | bounded whatever the gateway sends; an honest gateway is served, and never blamed for a lost call |
| **Transport and errors** (transport.rs, error.rs) | none | one request; the error kinds | |
| **Native transport** (native.rs) | client with timeouts | request, blocking entry points | every request ends |
| **wasm transport** (wasm.rs) | none | request, handing on two headers | |
| **Front door** (wasm.rs `DigNetwork` and free functions, native.rs entry points, pages.rs, images.rs) | settings; nothing kept across calls but what is on disk | `resolve`, `resolve_image_url`, `resolve_with`: a Resolver per call, its outcome turned into a tag, a page, an image or an error | only authentic bytes are shown as content; an integrity verdict reaches the user as one, and nothing else does |
| Content types, npm packaging, examples | none | pure functions, static data | |

### How they interact

`resolve` looks in memory, then on disk (opening what it finds exactly as if it
had been fetched), then builds or reuses a plan and asks its tiers one after the
other. Each tier is node fetch or rpc fetch over the transport; both end in
gate-then-decrypt unless a loopback node attests plaintext. A success goes to
memory when the root is concrete, and to disk when there are artifacts that can be
verified again. Calls of one instance share its plan and memory through
`RefCell`s across awaits; processes share the cache directory. An application calls
the front door, which builds a Resolver for each call and drops it when the call
settles, so between its calls only the cache directory is shared.

### What is hard here

Awaits between the lookup and the store, so calls of one instance interleave;
several processes on one cache directory with non-atomic writes; dropped futures
and crashes at any await or file operation; hosts that come and go under a cached
plan; an untrusted gateway that controls paging; a content identity that has to
separate exactly what must not be confused; one verdict made of several tiers'
different failures, and mapped to an outcome, a tag, a page and an image before anybody
sees it. PROJECT.json `hazards` lists each at its line, with the
properties that would catch it.

## 2. The modules

| Module | Models | Proofs |
|---|---|---|
| `ReadCrypto` | URNs, content identities, `verify_and_decrypt` as pure operators; what a publisher committed to | lemmas in `ResolverProofs` |
| `FetchResults` | the results of one attempt at one endpoint; the responses of a node and their classification | lemmas in `ResolverProofs` |
| `CacheContract` | what a client of the in-memory cache relies on | |
| `Resolver` | `resolve`, plans, the disk cache, several calls, instances and processes | `ResolverProofs` |
| `ResolverProperties` | the properties of `Resolver` | `LadderProofs`, `CacheProofs` |
| `ResolveContract` | what a caller of `resolve` relies on, without ladder or caches | `ContractProofs` |
| `FrontDoor` | what an application calls, and what it gets to see | `FrontDoorProofs` |
| `NodeFetch` | `node::fetch` on its own, through a transport that may hide headers | `NodeFetchProofs` |
| `RpcFetch` | `rpc::fetch`: the paging loop | `RpcFetchProofs` |
| `OneShotFetch` | a gateway fetch as the ladder sees it: one step | `RpcFetchProofs` |
| `MemoryCache` | the LRU with ticks, byte count and eviction | `MemoryCacheProofs` |
| `EvictionLoop` | its `put` taken apart: insertion, every turn of the eviction loop, return | `MemoryCacheProofs` |
| `BoundedCache` | the abstract cache that `MemoryCache` implements | `MemoryCacheProofs` |
| `MCResolver`, `MCFrontDoor`, `MCNodeFetch`, `MCRpcFetch`, `MCMemoryCache` | the instances that TLC checks | |

`Resolver` EXTENDS `FetchResults` and `ReadCrypto`, so the pipeline that a tier, the
disk and the reference definitions use is one. It uses the in-memory cache only
through `CacheContract!Puts`, and `MemoryCache` is shown to implement the same
contract (`ImplementsBoundedCache`). It takes the answers of a gateway from
`GatewayAnswers`; `RpcFetch`, which arrives at them window by window, is shown to be
one step with such a result (`ImplementsOneShot`). The answers of a node are
`NodeResult` applied to every response a node can give. `FrontDoor` EXTENDS
`ResolverProperties`: its steps are the steps of `Resolver` by construction, and a call
that settles or is lost is `Crash` of the one-call instance behind it.

Four refinements connect the modules:

| Detailed | Abstract | Mapping |
|---|---|---|
| `Resolver` | `ResolveContract` | `phase` from `pc`, `asked` is the URN, `answer` the outcome once `pc` is `done`; plans, tiers, caches and files are hidden |
| `RpcFetch` | `OneShotFetch` | the request by its salt and root, the result when the loop has returned |
| `EvictionLoop` | `MemoryCache` | the same variables; what a running put has borrowed is hidden |
| `MemoryCache` | `BoundedCache` | the data of each entry; ticks and byte count are hidden |

Definitions whose comment begins with "Slip" are plausible mistakes in the
definition that follows. Nothing uses them; substituting one shows that a property
notices it (PROJECT.json `mutants`).

### Cryptography

Symbolic. A ciphertext is the pair of the key that opens it and the bytes it opens
to; a root commits to a set of ciphertexts; a proof names its leaf and its root and
folds to that root exactly when the root commits to the leaf. The key is the chain
label, the resource and the salt (the canonical rootless URN and the salt,
crypto.rs:46-58). Collisions, and the merkle and AES code of digstore-core, are
assumed away. `Published(resource, root)` and `Authentic(urn, root)` are the
reference: what the publisher of a root really committed to.

### State and steps of `Resolver`

| Variable | Code |
|---|---|
| `plan_cache`, `memory` | `Resolver.plan`, `Resolver.memory`, per instance |
| `disk` | the files of `cache_path`; `Torn` is a file with no complete entry |
| `pc`, `urn`, `plan`, `tier`, `got`, `outcome` | the locals of one `resolve` future and where it is suspended |
| `up`, `loopback` | the hosts that answer; the local names that resolve to loopback |
| `heard`, `tampered` | history for the properties: the verdicts a call has heard; the files others wrote |

| `pc` | the future is ... |
|---|---|
| `probe` | awaiting a health probe (`build_plan`) |
| `fetch` | awaiting a tier (`fetch_from`) |
| `drop` | about to remove a refused disk entry |
| `write`, `writing` | about to truncate, and to fill, a cache file |
| `done` | ready with its outcome |

An instance is not `Sync` and only an await lets another of its calls run, so an
action is what the code does from one await to the next: `Resolve` runs the lookups and
starts the plan, `ProbeAnswers` settles one probe, `FetchAnswers` settles one tier with
everything that follows it (the next tier, caching, the outcome). File operations are
actions of their own, because another *process* can act in between; while a call is in
the middle of such a segment the other calls of its instance do not run (`Busy`).
`Abandon` (the executor drops the future), `Crash`, `HostChanges` and `Tamper` are the
environment. `std::fs::write` is truncate, then fill, and either half may fail.

### State and steps of `FrontDoor`

`entry` is the function a call is awaiting, `promise` what the last settled one holds: the
outcome tag or error, and what is shown (content, a branded page, a branded image, an error
text). `Build` chooses wasm.rs or native.rs.

| Action | Code |
|---|---|
| `Call` | `do_resolve`, `resolve_with`: a new Resolver starts on a well-formed URN |
| `CallMalformed` | `ParsedUrn::parse` fails before the first lookup |
| `GoOn` | the Resolver's steps |
| `Settle` | the outcome is rendered (`Render`, `ForOutcome`, `ForError`); the Resolver goes, with its plan and memory |
| `Lose` | the caller drops its future, or its process dies |
| `World` | hosts change, others write to the cache directory |

## 3. What TLC checks

All passing runs are exhaustive. Deadlock is checked except in `RpcFetch_any_gateway`,
where a fetch is over when it has returned, and in `MemoryCache_lru`, whose ticks are
bounded by `MaxTick`.

| Run | Instance | What it shows |
|---|---|---|
| `Resolver_interleaving` | one instance, two calls, the whole ladder, two versions of a resource and its rootless tip, six kinds of wire artifacts (honest, other version, other resource, altered, inconsistent chunk lengths, garbled proof), every node response, a local node that comes and goes under the cached plan (432,802 states) | `SuccessIsAuthentic`, `IntegrityNeverMasked`, `ExhaustedLadder`, `RootlessOnlyFromNode`, `MemoryIsImmutable`, `ImplementsContract`, `TypeOK` |
| `Resolver_shared_disk` | two processes on one directory, one with a `dig.local` override and one with a remote override, hosts that come and go, crashes, torn and failing writes (178,940 states) | `MemoryHoldsPublished`, `RoutesAgree`, `TrustedHostsOnly`, `DiskFailureMeansTampering`, `IntactDiskEntryIsServed` |
| `FrontDoor_tampered_disk` | the wasm client under Node (a directory, two visible headers); one private resource with its salt, without one, with an unusable one, and rootless; others write private bytes of two versions, altered bytes and another resource to the directory at any time (163,440 states) | `OnlyContentIsShown`, `VerdictIsShown`, `DiskFailureMeansTampering`, `AnswersAreFresh`, `DoorTypeOK` |
| `Resolver_liveness` | two calls on one instance, a local node that comes and goes, tampering, crashes and dropped futures (131,692 states) | `EveryResolveReturns`, and `WalkAdvances`: no step takes a resolve back to an earlier await |
| `NodeFetch_native` | every response a node can give, five URNs, all headers visible | `UnattestedBytesReverify`, `RelayedCiphertextIsServed`, `OnlyStatusFallsThrough`, `TypeOK` |
| `RpcFetch_any_gateway` | a three-byte resource, three bytes at most, three windows at most, any window at all, any call lost (10,809 states) | `Bounded`, `AbsenceIsImmediate`, `HonestGatewayIsServed`, `HonestGatewayIsNotBlamed`, `ImplementsOneShot`, `EveryFetchEnds`, `TypeOK` |
| `MemoryCache_lru` | three identities, data of one, three and four bytes, two entries and three bytes at most, seven ticks, every turn of the eviction loop a step (5,870 states) | `Accounting`, `LoopAccounting`, `WithinBounds`, `TicksDistinct`, `PutStores`, `EvictsOldest`, `ImplementsMemoryCache`, `ImplementsBoundedCache`, `TypeOK` |

### Why the bounds are enough

- Two calls and two instances are the smallest numbers with which state read before an
  await can be stale after it, and with which a file has another writer. Nothing in
  the code relates three calls. The proofs are for any number of them.
- Two roots, two resources and salts of all three kinds give every way in which two
  identities can differ in one component (two chain labels in `Doc_warm_cache`).
- The front door is checked with one call at a time, because its calls share the disk
  only, and other writers of the disk are in the run. The theorems of `FrontDoorProofs` hold
  for any number.
- The ladder has at most three tiers to probe or ask, all of them present.
- The pager's bounds are met exactly: the resource is the largest that is allowed
  (`Length` is `MaxResource`), and windows declare it, one byte more, one less or nothing;
  it fits the last allowed window, and more may be asked for; offsets repeat, go back and
  overshoot.
- The LRU's two bounds bind one at a time and together: an entry that fills the whole
  budget, one that is larger, and three identities for two places. `MaxTick` stands for
  u64::MAX; the counter does not wrap in the model.

### Fairness

`FairSpec` of `Resolver` assumes weak fairness of the file operations (a polled future
runs to its next await) and, if `TransportTimesOut`, strong fairness of `ProbeAnswers`
and `FetchAnswers`. Strong, because a woken future waits while another call of its
thread is in the middle of a segment (`Busy` disables it again and again), and an
executor polls every woken future in the end. That every request ends is justified by
the connect and request timeouts of the native transport (native.rs:23-26) and by
nothing in the wasm transport. Nobody has to start a call, drop one, crash, or bring a
host up. `FairSpec` of `RpcFetch` assumes weak fairness of an answer or a failure of the
request in flight, for the same reason.

## 4. Where the documentation and the code part

Each is a run that TLC ends with a counterexample; PROJECT.json `findings` quotes the
lines.

| Run | What the code does |
|---|---|
| `Doc_not_found` | An unreachable node followed by an empty gateway gives `NotFound`, which SPEC.md:215 reserves for "after EVERY tier reported absence". Only the last tier decides. `Unreachable` behaves alike (SPEC.md:213; SPEC.md:136 agrees with the code). |
| `Doc_warm_cache` | The content identity has no chain label but the key has: content that fails to decrypt under one label is served from memory once the other label has been resolved (README.md:118, "never weakens fail-closed"). The bytes are still the publisher's. For the same reason an intact disk entry of one label is refused as tampered, and removed, when the other is resolved (resolver.rs:234). |
| `Doc_client_cache` | Every call of a `DigNetwork` builds its own Resolver (wasm.rs:152), so the plan and the in-memory cache, which wasm.rs:262 says are cached per instance, are gone when the call settles. Without a disk a repeated resolve goes to the network again. |
| `Doc_no_timeout` | The wasm transport has no timeout, so a probe that is never answered holds `resolve` for ever (README.md:206, "caught/timed-out"). `EveryProbeEnds` is violated at the first probe of the ladder. |
| `Doc_wasm_headers` | The wasm transport hands on two headers only, so ciphertext relayed by a node is refused as an integrity failure (SPEC.md:315). |

The passing runs use one chain label; `Doc_warm_cache` uses two. One more disagreement
is about encoding only and has no run: wasm.rs:19 and :354 and images.rs:7 call the
branded image an SVG data URI, where `data_uri` (images.rs:110-113) returns a PNG.

## 5. What is proved

TLAPS checks every step, down to the last leaf, for any sets of instances, calls, URNs,
roots, salts, ciphertexts and wire artifacts, any owner and override assignment and any
behaviour of the environment. Every property of a passing run is proved except the two
under "Only model-checked".

Assumptions on the constants: `CryptoAssumption`, `FetchAssumption`,
`ResolverAssumption`, `FrontDoorAssumption` and those of the pager and the LRU (types and
distinctness), and `Attests` in the node's answers: a loopback node that says
X-Dig-Verified tells the truth. There is no assumption on the gateway, a remote override,
or the disk. A theorem that needs more has it as a premise of its own (below).

**`ResolverProofs`**

- `TypeCorrect` (`Spec => []TypeOK`)
- `Authenticity` (`Spec => []SuccessIsAuthentic`): no route, memory included, returns
  bytes that the publisher did not commit to.
- `MemoryIsTrustworthy` (`Spec => []MemoryHoldsPublished`): what memory hits serve
  unverified is what the identity's root publishes.

`SuccessIsAuthentic` is not inductive: a memory hit is authentic only if the entry was, an
entry is only if the result that filled it was, and a call that has left a fetch with bytes
in hand is still to write them. So

    IInv == WalkOK /\ StoreOK /\ EnvOK /\ EntriesOK /\ SuccessIsAuthentic

where `WalkOK` says that a suspended call's tier lies within its plan, `StoreOK` that
memory holds what is published and that files are entries or torn, and `EntriesOK` that a
call about to write or drop a file has the concrete root of a file of its URN. Four
lemmas give what an answer is worth (`OpenedIsAuthentic`, `NodeAnswerIsSound`,
`GatewayAnswerIsSound`, `AnswerIsSound`), one lemma per action gives its preservation.
`OpenedIsAuthentic` is where the gate is used; replacing the gate by a check of the proof
against its own root leaves it unprovable.

**`LadderProofs`**: `NeverMasked` (`IntegrityNeverMasked`), `LadderIsExhausted`
(`ExhaustedLadder`), `RootlessFromNodes` (`RootlessOnlyFromNode`), `TrustStaysLocal`
(`TrustedHostsOnly`). The strengthening `LInv` ties what a call has heard to where it is:
a call that asks its n-th tier has heard n - 1 absences or transport failures and nothing
else (`Asking`), its outcome accounts for everything it heard (`HeardWell`), and every
plan that is cached or walked asks only hosts its instance may ask and, without an
override, ends at the gateway (`TrustedPlan`). The last part is what makes an old plan
harmless.

`NoTierTwice` (`WalkAdvances`) is the safety half of `EveryResolveReturns`: `Progress`, which
is bounded by 8, grows with every step of a call that does not end it, so the ladder cannot
cycle, and a resolve sends at most two probes and asks at most two tiers. It needs `LInv`
(a plan has at most two tiers, and the next one is asked next), and no assumption about timeouts.

**`ContractProofs`**: `KeepsContract` (`Spec => ImplementsContract`). Init maps to Init; a
step of one call maps to `Ask`, `Answer` or `AnswerAtOnce` of that call or to a stutter, a
crash to `Leave`. `IInv` and `LInv` give that every answer is one the contract allows.

**`CacheProofs`**

- `RefusedMeansTampered` (`DiskFailureMeansTampering`) and `WholeFilesAreServed`
  (`IntactDiskEntryIsServed`), under the premise `OneLabel`: URNs that agree on resource
  and salt agree on the chain label. The run `Doc_warm_cache` is what happens without it.
  The invariant `FInv`: what resolvers have written, or are about to write, opens for every
  URN of its identity.
- `WarmIsStrict` (`WarmIsAsStrictAsCold`), under `OneLabel` where no instance trusts a node
  (each has the remote override of the run `Doc_warm_cache`). The run violates the property with
  two labels; the theorem says that nothing else breaks it there. The invariant `WInv`: what memory
  holds is what every URN of the identity opens to under its own key. It needs `LInv`, since
  what keeps a node's plaintext out is the plan. With a node it need not hold: a node
  attests plaintext without knowing the key.
- `CachesAgree` (`RoutesAgree`) and `ContentIsImmutable` (`MemoryIsImmutable`), under
  `OneText`: a root publishes one text per resource. Without it two fetches of one
  identity may rightly differ.

**`FrontDoorProofs`**: `ContentIsAuthentic` (`OnlyContentIsShown`),
`VerdictReachesTheUser` (`VerdictIsShown`: from `HeardWell` through the outcome to the
page), `DoorTypeCorrect`, and, under `OneLabel`, `DoorBlamesTamperingOnly`
(`DiskFailureMeansTampering` for the calls of applications). The lemma `DoorIsResolver`
(`DoorSpec => Spec`, by the shape of `DoorNext`) carries the invariants of `Resolver` over.
`AnswersComeAnew` (`AnswersAreFresh`) is what the front door adds: a call that succeeds was told
its content by a tier it asked, or opened the file as it was then. Its invariant `AllFresh`
is that the memory of an instance is empty between calls, and that a call about to
write was told its result by a tier. A `Settle` that keeps the memory breaks it.

**`NodeFetchProofs`**: `UnattestedReverifies`, `StatusAloneFallsThrough`,
`NodeFetchTypeCorrect`, and `HonestRelayIsServed` (`RelayedCiphertextIsServed`) under the
premise that the transport hides no header; `Doc_wasm_headers` is what happens without it.

**`RpcFetchProofs`**, for any limits, resource length, windows and gateway:
`FetchIsBounded`, `AbsenceOnlyAtOnce`, `TypeCorrect`, `FetchIsOneShot` (`ImplementsOneShot`),
`HonestGateway` (`HonestGatewayIsServed`) and `HonestIsNotBlamed`
(`HonestGatewayIsNotBlamed`). The strengthening `IInv` is that nothing is assembled before
the first window has settled a total, and that every later request follows a positive one;
without it a zero total in a later window would be absence. `HInv` adds where an honest
gateway's paging stands after n windows: the cursor is at the end of what has been
assembled, with no gap and no byte twice, so that none of the checks (bound, overrun, stuck
cursor, missing proof) can fire and the gate accepts what is complete. A lost call leaves
that in place and ends the fetch before the gate.

**`MemoryCacheProofs`**, for any identities, data, sizes and bounds: `AccountingHolds`,
`BoundsHold`, `OrderIsTotal`, `TypeCorrect`, `PutIsKept` (`PutStores`: the newest entry has
the greatest tick and fits alone, so the least threshold never reaches it) and
`IsBoundedCache` (`ImplementsBoundedCache`). The byte total is a cardinality (`Held`), so
that sums need no recursion, and `Put` states an eviction in closed form: the entries up to
the least threshold of `last_used` that suffices.

`LoopIsPut` (`ImplementsMemoryCache`) shows that the loop of `evict` does just that. A victim is
chosen by its tick, so the invariant `JInv` (`LoopInvariant`) is that what the running put has
taken so far are exactly the entries up to some threshold, that no lower threshold suffices,
and that the count is the total of what is left; when the loop condition fails, that
threshold is the least one. `LoopAccountingHolds` (`LoopAccounting`) follows: no turn wraps the
count, and the `break` for want of a victim is never taken with a bound exceeded. `EvictionFollowsUse`
(`EvictsOldest`) compares with the history `older`, which records who was used before whom and
knows nothing of ticks; `JInv` says that the ticks order the entries as the history does.

### Only model-checked

`EveryResolveReturns` and `EveryFetchEnds`: liveness under fairness is beyond the prover. Their
safety halves are proved (`WalkAdvances`, `Bounded`). The violation runs are
TLC's alone.

## 6. What is not modelled

- The merkle fold, AES-GCM-SIV, splitting by chunk lengths and the URN parser: other
  crates, used through their contracts.
- How a base URL's host is parsed (ladder.rs `parsed_host`, which asks the url crate): a
  host is a host.
- A `dig.local` that resolves differently when it is dialled than when it was asserted
  loopback. The code does not check again, so loopback is a constant fact of a run.
- File names: two identities never share one (SHA-256). Roots are compared as roots: a
  node that spells one in another case only costs a cache hit (cache.rs:32).
- Content types (content_type.rs): a pure table of extensions and magic bytes; the label
  is handed to the caller and no decision of the code reads it.
- The markup of pages and images, JSON encodings, the JavaScript reflection of
  node_fs.rs and wasm.rs (modelled by what it may answer: a failure or a result), object
  and data URLs, the blocking runtime of native.rs, the npm build and the examples: no
  state of the system, and no property depends on them.

## 7. Plan

Done: the resolver with its ladder and caches, its contract, the front door, both
fetches, the LRU and its eviction loop; four refinements; the theorems above.

Left:

1. What the other violated properties of section 4 need to hold, as `WarmIsStrict` and
   `HonestRelayIsServed` say it for theirs: `NotFoundMeansEveryTierAbsent` for a plan of one tier.
2. `DiskCache` as a module of its own if the Node and the native backend come to differ;
   today both are the same three best-effort calls.
