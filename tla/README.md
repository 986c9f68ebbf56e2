# TLA+ models of kovri's tunnel endpoint and garlic routing

These modules model parts of the kovri I2P router (sources under `src/src/`).
Each model is written from the C++ code. TLC checks them against safety properties
taken from `spec.md`, from code comments, and from the code's evident intent.

## The system and its parts

| Part | Source | Role | Model |
|------|--------|------|-------|
| Tunnel endpoint | `core/tunnel/TunnelEndpoint.cpp` | Reassembles I2NP messages from the fragments carried in decrypted TunnelData messages, then dispatches each completed message: locally, to a tunnel gateway, or to a router | `TunnelEndpoint` (modelled) |
| Garlic sessions and registry | `core/Garlic.cpp` | Wraps outbound messages in garlic encryption with one-use session tags (ElGamal when none are left), has new tags confirmed by DeliveryStatus acks, pushes our lease-set to peers, and decrypts inbound garlic | `Garlic` (partly) |
| I2NP handling | `core/I2NPProtocol.cpp` | Builds and parses I2NP messages; admits transit tunnels from build requests | `TunnelBuild` (partly: build handling), `I2NPMessage` (the buffer and the constructors of the build path), `TunnelBuildPath` refining `TunnelBuildAbstract` |
| Tunnel hop config | `core/tunnel/TunnelConfig.h` | The chain of hops of a tunnel being built | `TunnelConfig` (partly: the chain) |
| Identities, signatures, NTCP, benchmarks | `core/Identity.h`, `core/crypto/Signature.h`, `core/transport/NTCPSession.h`, `tests/benchmarks/Crypto.cpp` | Data types, cryptography wrappers, declarations, timing loop | not modelled: no state machine, or cryptography |

How the parts interact:
- A garlic message travels to a remote destination through tunnels.
- Its DeliveryStatus clove goes back through one of our inbound tunnels.
- The endpoint of that tunnel reassembles the clove and hands it to `HandleI2NPMessage`.
- The garlic destination then decrypts the clove with the one-shot tag it registered when it wrapped the message.

The models treat the tunnel path between garlic endpoints as a network that loses and reorders messages. Reassembly within a tunnel is the endpoint model's business.

## Modules

### `TunnelEndpoint`, with `MCTunnelEndpoint`

The state corresponds to the `TunnelEndpoint` members:
- `incomplete` is `m_IncompleteMessages`.
- `outOfSequence` is `m_OutOfSequenceFragments`.
- `numReceivedBytes` is `m_NumReceivedBytes`.
- `isInbound` is `m_IsInbound`.
- `dispatched` records what `HandleNextMessage` sent, and where.
- `arrived` is a history of the fragments received.

Fragments are records that abstract the flag byte and its fields. A message's data is the sequence of fragment numbers appended so far, together with its `len` and `maxLen`. This shows both the order of reassembly and the buffer size.

One action, `HandleDecryptedTunnelDataMsg`, takes one tunnel data message of up to `MaxFragmentsPerMsg` fragments. It folds `ProcessFragment` over them, so the whole loop is one step, as in the code. `ProcessFragment`, `HandleFollowOnFragment`, `AddOutOfSequenceFragment`, `HandleOutOfSequenceFragment` and `HandleNextMessage` translate the functions of the same names. `DropCorruptTunnelDataMsg` is the checksum failure, and the case where no zero byte is found.

### `Garlic`, with `MCGarlic`

Our side of the model:
- The registry `sessions` is `m_Sessions`.
- Every session object made so far is in `sess`. Sessions erased from the registry stay alive through `m_CreatedSessions`, as `shared_ptr`s do.
- Each session has a tag pool `m_SessionTags`, pending batches `m_UnconfirmedTagsMsgs`, `m_NumTags`, and the lease-set status, msgID and time.
- `createdSessions` is `m_CreatedSessions`.
- `ourTags` is our `m_Tags`. It holds the one-shot DeliveryStatus tags.

The peer runs the same `HandleGarlicMessage`. Its `m_Tags` (`peerTags`) maps each tag to the key of the session it decrypts. `peerLeaseSet` is the newest version of our lease-set it received.

Tags, message IDs and session keys are fresh numbers; a session's number names its key.

Actions:
- `WrapMessage` is the whole of `GarlicDestination::WrapMessage`:
  - `GetRoutingSession`;
  - tag selection in `WrapSingleMessage`;
  - `CreateAESBlock`'s new-tags rule, with `GenerateSessionTags`;
  - `CreateGarlicPayload`'s lease-set timeout, DeliveryStatus clove and lease-set clove;
  - `CreateDeliveryStatusClove` (no clove without an inbound tunnel) with `SubmitSessionKey`, each its own operator;
  - `DeliveryStatusSent`.

  Whether an inbound tunnel exists is an input.
- `PeerReceiveGarlic` is the peer's `HandleGarlicMessage` / `HandleAESBlock` / `HandleGarlicPayload`.
- `ReceiveDeliveryStatus` is our `HandleGarlicMessage` on the returned clove, followed by `HandleDeliveryStatusMessage` and `MessageConfirmed`.
- `CleanupRoutingSessions` and `SetLeaseSetUpdated` are the registry operations.
- `LoseMessage` and `Tick` are the environment.

### `GarlicThreads`, with `MCGarlicThreads`

This module extends `Garlic` with several application threads. `WrapMessage` may be called from all of them at once (spec 5). `GetRoutingSession` calls `m_Sessions.find` without `m_SessionsMutex`, and takes the mutex only to insert a session it created. So a wrap is split into two steps of a thread:
- `LookupSession` is the unlocked lookup. A hit wraps on the session found (`WrapSingleMessage`) in the same step. A miss moves the thread to `pc = "create"`.
- `InsertSession` makes the session and assigns `m_Sessions[ident]` under the mutex, overwriting whatever another thread put there. It then wraps on the new session.

The other `Garlic` handlers run unchanged between these steps. The history variable `evicted` records the sessions that `CleanupRoutingSessions` erased.

A single thread's lookup and insert together are `Garlic`'s `WrapMessage`, so `ThreadsSpec` has every behaviour of `Spec` and more. For that reason, the tag invariants of `Garlic` (garlic_tags) are checked under `ThreadsSpec` with two threads. They hold even though the race lets two sessions for one destination coexist: each session has its own pool, batches and message IDs.

### `TunnelBuild`

Build messages are posted to the tunnels thread and handled there one at a time, so each handler is one action.
- `transit` is the size of `tunnels.GetTransitTunnels()`. `bogusTransit` counts transit tunnels made from a record that did not decrypt.
- `pendingInbound` and `pendingOutbound` are our own builds, keyed by reply message ID.

The actions are `HandleVariableTunnelBuildMsg` (reply branch or request branch), `HandleTunnelBuildMsg` and `HandleVariableTunnelBuildReplyMsg`. Each request goes through `HandleBuildRequestRecords`. A record is abstracted to two facts: whether it is addressed to us, and whether it decrypts. `AcceptsTunnels`, `IsBandwidthExceeded` and the verdict of `HandleTunnelBuildResponse` are inputs. `CreateTunnel` and `ExpireTransitTunnel` stand for the tunnel manager, whose code is not in the repository's sources.

### `I2NPMessage`

The I2NP message buffer of `I2NPProtocol.cpp` and its framing:
- A message is a record with `buf`, `offset`, `len` and `maxLen`, as in `I2NPMessageBuffer`. The code's byte p is at index p + 1. `NewI2NPMessage(len)` picks the short buffer for less than half its size.
- `FillI2NPMessageHeader` writes the type, the message ID (the reply ID, or a random word), the expiration, the payload size and the checksum byte at `offset`. Multi-byte fields are big-endian (`BigEndian`, written recursively because the 8-byte expiration exceeds TLC's integers).
- `CreateI2NPMessage` copies the payload only if `len + plen < maxLen`, and fills the header either way.
- `CreateTunnelDataMsg` writes the tunnel ID and `TUNNEL_DATA_MSG_SIZE - 4` payload bytes.
- `CreateTunnelGatewayMsg` (the five-argument form) builds the inner message 22 bytes further in, takes its length, moves the offset back, and writes the gateway header and the outer header in front.
- `TypeID`, `MsgID`, `PayloadSize`, `PayloadOf` and `GetI2NPMessageLength` are what `HandleI2NPMessage(buf, len)` and the transports read from the wire.

The SHA-256 byte of the checksum is a constant operator (`MC_Sha256Byte`, the payload length mod 256): no property looks at it. The accessors and the type IDs are declared in `I2NPProtocol.h`, which is not among the sources; their map entries are marked as modelled from the spec.

### `TunnelBuildAbstract`, and `TunnelBuildPath` with `MCTunnelBuildPath`

`TunnelBuildAbstract` states what one tunnel build promises (spec 4.2). Each hop decides once, `accepted` or `refused`, after every hop before it. Once all hops have decided, the originator concludes `established` if every hop accepted and `failed` otherwise.

`TunnelBuildPath` composes the parts that carry one build from end to end:
- `Init` builds the chain with `TunnelConfig`'s `NewTunnelConfig` for every bounded path, inbound or outbound. It makes one record per hop with `CreateBuildRequestRecord` (its flag byte is `HopFlag`) and sends the build to the first hop. `Tunnel::Build` itself is outside the sources.
- `msgs` holds the I2NP messages in flight between routers. At the receiving router, `PutNextMessage` (`I2NPMessagesHandler`) holds a TunnelData message in `dataBatch` (`m_TunnelMsgs`) and a TunnelGateway message in `batch` (`m_TunnelGatewayMsgs`) until `Flush`, which posts the data batch first. It hands any other message to `HandleI2NPMessage(msg)` (`HandleI2NPMessageMsg`), which posts the tunnel-thread types to the router's `queue` (`PostTunnelData`).
- `TunnelThreadStep` is the tunnel thread taking the oldest posted message. A gateway message goes to the reply tunnel. A TunnelData message reaches the endpoint of our inbound reply tunnel, whose local delivery (`EndpointDeliverLocal`, `TunnelEndpoint::HandleNextMessage`) hands the reply back to `HandleI2NPMessage(msg)`, so it is posted to the same queue again. A build message goes to `HandleI2NPMessage(buf, len)`, which dispatches by type, as the code does.
- `HandleVariableTunnelBuildMsg` covers both branches:
  - at us, with a pending inbound tunnel for the message ID, it concludes that tunnel;
  - otherwise `OurRecord` finds the first record addressed to this router. The hop answers it with ret 0 (creating `NewTransit`, flags decoded with `& 0x80` / `& 0x40`) or ret 30, and `Forward` sends the build on. An outbound endpoint instead wraps it for the reply tunnel's gateway.
- `DeliverThroughReplyTunnel` stands for the reply tunnel's hops, which carry the gateway message to us as a TunnelData message; our endpoint then delivers the `VariableTunnelBuildReply` locally. `HandleVariableTunnelBuildReplyMsg` then concludes the pending outbound tunnel.
- `LoseMessage` is the best-effort transport.
- Every message is `[to, wire]`, where `wire` is the bytes `I2NPMessage`'s constructors write. The build is `CreateI2NPMessage(VariableTunnelBuild, <<n>> \o records)`; an outbound endpoint's reply is `CreateTunnelGatewayMsg`; the reply tunnel carries it as `CreateTunnelDataMsg` with local delivery instructions (`LocalDelivery`: flag 0, size, the inner message). The handlers parse these bytes: `HandleI2NPMessage` reads type, message ID and payload from the header, the gateway reads the tunnel ID and inner message from the gateway header, and the endpoint reads the delivery flag and size.

Cryptography is abstracted. A record is readable by the router in its `toPeer` field. An answered record no longer matches any router, which stands for the re-encryption with the reply key. `lastRecords` and `lost` are history variables. The refinement maps `lastRecords[i].ret` to the abstract `decision[i]`, and `tunnel.state` to `outcome`.

### `TunnelConfig`, with `MCTunnelConfig`

The hop chain is a sequence of hop records. `next` and `prev` are indices, with 0 standing for `nullptr`.

The operators translate these code functions:
- the `TunnelHopConfig` constructor;
- `SetNextRouter`, `SetReplyHop`, `SetNext` and `SetPrev`;
- the `TunnelConfig` constructor (`NewTunnelConfig`, which folds `AppendHop` over the peers);
- `GetPeers`, `GetNumHops`, `IsInbound`, `Invert` and `Clone`;
- `Print` (`Render`), the walk along `next` that writes each hop's router and next tunnel ID and stops at the endpoint. Text is abstracted to the sequence of items written.

The one variable, `input`, ranges over every argument list of a bounded size: peers, their random tunnel IDs, a reply tunnel or none, and the ID that `SetNextRouter` draws. The invariants compare the chain that is built with `ReferenceChain`, which defines the chain hop by hop.

## Runs

| Run | cfg | Expect | What it shows |
|-----|-----|--------|---------------|
| endpoint_reassembly | `TunnelEndpointReassembly.cfg` | pass | One fragmented message (ID 1) and unfragmented ones (ID 0, the "no ID" of an unfragmented message), with fragments in any order, duplicated or foreign, for every delivery type and hash on inbound and outbound endpoints: <ul><li>the fragmented message is reassembled in fragment order (`ReassembledInOrder`);</li><li>a parked fragment is never left behind when it is the one expected next (`NoStrandedFragment`).</li></ul> The inbound-tunnel leak guard of `HandleNextMessage` is a single condition of `Route` and no property restates it. |
| endpoint_overflow | `TunnelEndpointOverflow.cfg` | violation | `HandleOutOfSequenceFragment` appends without the maximum-size check: `ReassemblyWithinMaxSize` fails. |
| endpoint_lost_fragment | `TunnelEndpointLostFragment.cfg` | violation | A second parked fragment is dropped, and the message never completes (`AllFragmentsReassembled`). |
| endpoint_replay | `TunnelEndpointReplay.cfg` | violation | Replayed fragments dispatch a completed message again (`NoDuplicateDispatch`). |
| garlic_tags | `GarlicTags.cfg` | pass | Under `ThreadsSpec`: two application threads whose unlocked lookups and inserts interleave with each other and with every other handler, with lost messages and acks, tag expiry on both sides (the peer's second inbound-tag sweep, the first that removes tags, happens at tick 4), cleanup and lease-set updates: <ul><li>no tag is sent twice (`TagUsedOnce`);</li><li>every live pooled tag decrypts at the peer (`PoolTagsKnownToPeer`);</li><li>every pending batch is still confirmable (`BatchesAwaitingAck`);</li><li>a pending batch leaves `m_UnconfirmedTagsMsgs` only by joining the pool on its ack or once expired: an action property (`BatchLeavesOnlyByAckOrExpiry`).</li></ul> |
| garlic_leaseset_stale_ack | `GarlicLeaseSetStaleAck.cfg` | violation | The late ack of an older lease-set submission marks the session `UpToDate` while the peer holds the old lease-set (`LeaseSetUpToDateMeansDelivered`). |
| garlic_threads_registry_race | `GarlicThreadsRegistryRace.cfg` | violation | Two threads both miss in the unlocked lookup, both create a session for the destination, and the second insert replaces the first, so a session leaves the registry without cleanup (`SessionLeavesRegistryOnlyByCleanup`, spec 4.6 and 5). |
| garlic_expired_batch_leak | `GarlicExpiredBatchLeak.cfg` | violation | Under a fair cleanup timer and clock, a session dropped by the inverted cleanup keeps its expired batch's `m_CreatedSessions` entry forever once the ack is lost (`ExpiredBatchForgotten`, spec 5). With the return of `CleanupExpiredTags` corrected, the property holds. |
| tunnel_config_chain | `TunnelConfigChain.cfg` | pass | For all chains of 1 to 3 hops over two routers and two IDs (6720 inputs): <ul><li>the constructor builds the reference chain (`ChainMatchesReference`);</li><li>`SetPrev` gives the links and flags that `SetNext` gives (`SetPrevAgreesWithSetNext`);</li><li>`Invert` reverses peers and direction and replies through the original gateway, and `Clone` keeps the peers and takes its direction from the reply config (`InvertReverses`);</li><li>`Print` shows the path in peer order, each router with its tunnel ID, from us or to us (`RenderShowsPath`).</li></ul> |
| tunnel_build_path | `TunnelBuildPath.cfg` | pass | For every inbound and outbound path of 1 to 3 hops over three routers, with the reply through any router's tunnel and through our own endpoint, each hop admitting or refusing, with messages lost: <ul><li>every hop that admitted holds exactly the transit tunnel of its place in the chain (`TransitMatchesPath`);</li><li>the build implements `TunnelBuildAbstract`: hops answer in path order, once each, even when a router appears twice, and the originator concludes only after all of them (`ImplementsTunnelBuildAbstract`);</li><li>unless a message is lost, the pending tunnel concludes (`BuildConcludes`);</li><li>every length a receiver reads agrees with the bytes sent: each header's size field, and in a TunnelGateway message built in place the gateway header's length and the inner header's size (`FramesAgree`). The mutant that takes the inner length after moving the offset back breaks it.</li></ul> |
| build_admission_cap | `TunnelBuildAdmissionCap.cfg` | violation | With `<= MAX_NUM_TRANSIT_TUNNELS`, a router at the cap still admits a tunnel (`AdmissionCapHonoured`, spec 8.8). |
| build_undecrypted_record | `TunnelBuildUndecryptedRecord.cfg` | violation | The ignored `ElGamalDecrypt` result lets a record that failed to decrypt create a transit tunnel (`NoTransitFromUndecryptedRecord`, spec 7). |

Each property of a passing run has a mutant in `PROJECT.json`: a plausible bug in a mapped definition that TLC catches with the run's own configuration.

## Bounds and why they suffice

**TunnelEndpoint.**
- Message IDs are `{0, 1}`; 0 is the "no ID" of an unfragmented message.
- Follow-on numbers are `{1, 2}`, so a message has up to three fragments. That is enough for every relative order of first fragment, parked fragment and expected follow-on.
- Fragment sizes and buffer sizes are scaled down, with `HeaderRoom + size` just fitting the short buffer. This makes both the in-place path and the reallocating path happen.
- The strict size check (`<`, line 175) is modelled, but no run sets the maximum message size to exactly a reassembled size, so no run shows the one-unit drop; it is listed as a hazard without a property.
- `MaxReceived` is 2 TunnelData messages of up to 2 fragments each. Four fragment slots hold all three fragments of a message in any order, plus one fragment of another message or a duplicate.

**Garlic.**
- One remote destination.
- Batches of 3 tags with a lease-set and 2 without. With integer division, `numTags*2/3` is 2 and 1, so new batches are made both while tags remain and only when the pool is empty.
- The two tag timeouts are separate constants, as in the code (`OUTGOING_` and `INCOMING_TAGS_EXPIRATION_TIMEOUT`, declared in `Garlic.h` and both 15 minutes per the spec).
- `garlic_tags`: both timeouts are 1 tick and the clock runs to 4. The first sweep of an inbound tag table only records its time (`m_LastTagsCleanupTime` starts at 0), so tags are first removed by the second sweep, at tick 4; a sweep that dropped live tags breaks `PoolTagsKnownToPeer`. Pool tags expire before and after an ack. Timeouts of 2 would need the clock to run to 6, which takes more than fifteen minutes to check.
- The violation runs use timeouts of 2 and a clock to 3: their traces need batch expiry, not the peer's sweep.
- At most 2 session objects, so re-creation after cleanup happens, and so does the second session that the registry race creates.
- Two application threads for `GarlicThreads`: that is the fewest that can race.
- 13 fresh identifiers (11 in `garlic_tags`, which keeps it under five minutes), which is enough for the first ElGamal message, its ack, and a tag-prefixed follow-up with a new batch.
- Two lease-set versions.

**TunnelBuildPath.** Three routers, two tunnel IDs and paths of up to three hops: every path, including those of three distinct routers and those that visit a router twice (r1 r2 r1), each reply tunnel, and inbound and outbound. The run reaches about 156,000 distinct states in seconds; four hops give 1.9 million states and take close to two minutes without reaching a new case. One reply message ID is enough, since one build is in flight.

The message sizes are scaled down: `I2NP_MAX_SHORT_MESSAGE_SIZE` 64, `I2NP_MAX_MESSAGE_SIZE` 128 and `TUNNEL_DATA_MSG_SIZE` 28, with a build record as one slot of the buffer. The header and gateway header keep their real sizes (16 and 6 bytes), so every offset computation is the code's; only the room left for payload shrinks. Build messages of up to three records take the short buffer, so the long buffer is never exercised.

Under fairness TLC evaluates `ENABLED` of the tunnel-thread step, and there it recomputes a `LET` value at every use. The byte-building operators therefore bind intermediate buffers once (`Bind`, or `\E x \in {e}` in an action). This keeps the run near one minute.

## Fairness

Two runs assume fairness; the others check safety only. `garlic_expired_batch_leak` uses `FairSpec`, which adds weak fairness on two actions:
- `CleanupRoutingSessions`: the destination runs it on a periodic timer. That timer is outside the repository's sources.
- `Tick`: time passes.

`tunnel_build_path` assumes weak fairness, per router, on `PutNextMessage`, `Flush` and `TunnelThreadStep`. The transport's reactor hands every received message to the handler and flushes it after each read (`NTCPSession::HandleReceived`, declared in `NTCPSession.h`). Each router's tunnel thread handles every message posted to it. `LoseMessage` has no fairness, so `BuildConcludes` is stated "unless a message was lost". Deadlock checking is off for that run, because a build ends.

Acks, peers and the network get no fairness, since messages may be lost. Deadlock checking is off: the endpoint is passive, and the garlic destination may sit idle once every bound is used up.

## Not modelled

- **Threads inside handlers.** `GarlicThreads` splits only `GetRoutingSession`. The unlocked `m_CreatedSessions` accesses of `HandleDeliveryStatusMessage` and the tag-pool accesses of `WrapSingleMessage` remain atomic: they are data races on standard containers, whose outcomes the model does not enumerate. `PROJECT.json` lists them as hazards with notes.
- **Cryptography.** Encryption and hashing are abstracted to "decrypts with the right key". Outside the build path (`I2NPMessage`), byte layout is abstracted to fragment sizes and message fields.
- **Duplicated garlic messages.** The network loses and reorders them but does not duplicate them.
- **The other I2NP constructors.** `CreateDeliveryStatusMsg`, the database lookup, search-reply and store messages, the three-argument and in-place `CreateTunnelGatewayMsg` and `CreateEmptyTunnelDataMsg` are not modelled: no modelled path sends them. The five-argument `CreateTunnelGatewayMsg` copies its payload with no capacity check, and `CreateI2NPMessage` sends a header with an empty payload when the payload does not fit. Both are listed as hazards; the build path's payloads are far below the buffer sizes.
- **Identities (`Identity.h`).** `Tag` equality and order are `memcmp`. `IsZero` tests `SZ/8` 64-bit words. `XORMetric` is a byte array. These are byte operations with no state, and no modelled property turns on them: routers and tags are model values compared for equality. The lazy initialisation in `RoutingDestination::GetElGamalEncryption` is a data race inside one accessor. It is listed as a hazard; showing it would take a violation run of its own.
- **Transit tunnels after the build.** `TunnelBuildPath` follows one build, with one reply message ID. Concurrent builds, the tunnel pool's build timeout and transit-tunnel expiry are in code outside the sources (`Tunnel.cpp`, `TransitTunnel.cpp`).

## Plan

The modules are built in this order:
1. `TunnelEndpoint` (done).
2. `Garlic` (done for atomic handlers).
3. Garlic concurrency: `GetRoutingSession` split into lookup and insert (done); per-session tag-pool races remain.
4. `TunnelBuild` (done: admission and decrypt failure).
5. `TunnelConfig` hop-chain operators, checked against a reference definition (done).
6. A liveness run for created-session entries that are never removed (done).
7. `TunnelBuildPath`, a composed build path refining `TunnelBuildAbstract` (done).
8. Garlic tag invariants checked under two threads, and the `BatchLeavesOnlyByAckOrExpiry` action property (done).
9. The reply of an outbound build through the reply tunnel to our own endpoint and back through `HandleI2NPMessage`, with both handler batches; three routers; `Print` as `Render`, checked by `RenderShowsPath` (done).
10. I2NP message building and parsing in `I2NPProtocol.cpp` (`I2NPMessage`), composed into the build path and checked by `FramesAgree` (done).
11. Next: a passing run of `GarlicThreads` with tag pops and acks split into steps; the `m_CreatedSessions` race of `HandleDeliveryStatusMessage`; the oversized-payload cases of the I2NP constructors.
