# TLA+ models of nimbus.io

This directory holds TLA+ specifications of the nimbus.io storage services under
`src/`, the TLC models that check them, and TLAPS proofs. `PROJECT.json` lists
every component, every run, every mutant, the source lines each definition
translates (`map`), the findings and the hazards.

## 1. The system

nimbus.io stores a file as N erasure-coded segments, one on each node. Every node
runs several single-threaded services. Each service is a *time-queue driven
process*: one loop runs timer callbacks (the ZeroMQ pollster, the
receive-queue dispatcher, state cleaners, retry managers) one at a time. So a
handler runs atomically with respect to the other handlers of its process.
Handlers of different processes, and of different nodes, interleave freely.

| Component | Source | State | Operations | Interacts with |
|---|---|---|---|---|
| Resilient transport client | `src/tools/resilient_client.py` | status (disconnected / handshaking / connected), send queue, one pending message, timers | `queue_message_for_send`, `run` (the three status handlers), `_pollster_callback` (acks), `_disconnect` | a ResilientServer on the peer; used by every service that sends requests |
| Anti-entropy auditor | `src/anti_entropy_server/anti_entropy_server_main.py` | `active-requests` keyed by (collection, timestamp), `retry-list`, `collection-ids`, audit rows in the central DB | `_start_consistency_check`, `_handle_anti_entropy_audit_request`, `_handle_consistency_check` (node side), `_handle_consistency_check_reply` (verdict), `_handle_database_collection_list_reply` | one resilient client per node; ConsistencyCheckStarter, RetryManager, StateCleaner, AuditResultDatabase (these four are not in `src/`) |
| Data reader service | `src/data_reader/data_reader_main.py` | `active-requests`: (client tag, unified id, segment num) -> sequence iterator, counts, timeout | `retrieve-key-start`, `retrieve-key-next` | the web server's and handoff server's resilient clients |
| Handoff forwarder | `src/handoff_server/forwarder_coroutine.py` | the coroutine's position, `sequence`, `completed` | retrieve from the local reader, archive to the writer, report done | data reader, data writer |
| Web data reader client | `src/web_server/data_reader.py` | none | `retrieve_key_start/next`: validate result, size and md5 | data reader |
| Destroyer | `src/web_server/destroyer.py` | a gevent group of pending `destroy_key` calls | `destroy`, `_join` | data writers |
| Listmatcher | `src/web_server/listmatcher.py` | none (pure query) | `list_keys`, `list_versions` | node-local segment table |
| Data slicer | `src/web_server/data_slicer.py` | buffer, remaining | `next` | an uploaded file |
| Listmatch marshalling | `src/messages/database_listmatch.py` | none | marshall / unmarshall | - |

The behaviours that make this hard are the following:
- The client's at-least-once transport: an ack timeout re-sends, and acks can
  arrive late on a new socket.
- The auditor's collation of N replies that may be duplicated, late or missing,
  with timeouts, bounded retries of the same audit row, and explicit audits that
  run beside scheduled ones.
- The reader's iterator table under re-sent requests.
- The forwarder's request, which the reader cannot answer, and the
  destroyer's join timeout.

## 2. Modules

### ResilientClient (`ResilientClient.tla`, `MCResilientClient.tla`)

This module models one client talking to one server.

**State.** `status`, `sendQueue` and `pendingMessage` are the client's fields.
`toServer` is the set of requests on the wire; a request is marked `stale` once
its socket is closed. `toClient` is the set of acks on the wire. `delivered` is
the server's dispatch log. `acked` is the set of messages whose ack the client
processed. `submitted` counts messages queued by the caller. `lost` and
`spurious` are bounded budgets of losses and of timeouts that fire while the ack
is still on its way.

Messages are the integers 1..MaxMessages, queued in order, so order properties
can be stated. The handshake is message 0.

**Actions.** Each action is a whole handler:
- `HandleStatusDisconnected`: `_handle_status_disconnected`, which opens the
  socket and sends the handshake.
- `HandleStatusConnectedIdle`: the max-idle branch of `_handle_status_connected`.
- `HandleStatusConnectedTimeout`: its ack-timeout branch. It puts the pending
  message back at the head of the queue and disconnects.
- `HandleStatusHandshaking`: `_handle_status_handshaking`.
- `QueueMessageForSend`: `queue_message_for_send`.
- `PollsterCallback` / `AckReceived`: `_pollster_callback`, including the
  unknown-ack branches.
- `ServerReceive`: the ResilientServer. It is not in `src/`, so it is modelled
  from spec 4.1. It dispatches business messages and acks requests whose socket
  is still open.
- `LoseRequest` and `LoseAck`: the network.

Timers are abstracted: a timeout may fire whenever its branch's guard holds.
`AckTimeout` allows a timeout while the ack is in flight only within the
`MaxSpurious` budget.

**Abstract specification (`DispatchChannel.tla`).** This is what the
transport promises its caller. Messages are submitted in order. The server
dispatches submitted messages at least once each, and never before the
message submitted just before it. The caller sees each ack once, in
submission order. `ResilientClient` instantiates it as `Channel`, mapping
`submitted`, `delivered` and `acked` to themselves and hiding the rest.
`ImplementsDispatchChannel` is `Channel!Spec`.

### AntiEntropy (`AntiEntropy.tla`, `MCAntiEntropy.tla`)

This module models the auditor on the designated node, together with the
consistency-check handler of every node.

**State.**
- `activeRequests` is the `active-requests` dict, keyed by
  (collection, timestamp). Its value is the `_request_state_tuple`, with
  `client_tag` reduced to a flag `explicit`.
- `retryList` and `collectionIds` are the state dict's entries.
- `auditRows` is the audit table of the central database.
- `checks` and `checkReplies` are messages in flight.
- `auditReplies` holds the replies to explicit audits.
- `clock` is `create_timestamp()`.
- `NodeIndex` gives each node's segment index for each collection, abstracted to
  the status ("A", "T" or none) of each key of `Keys`. `Digest` is the set of
  rows the consistency-check query selects, which stands for the md5 over them.

**Actions.**
- `HandleAntiEntropyAuditRequest` and `HandleConsistencyCheck` are handlers in
  `src/`.
- `HandleConsistencyCheckReply` is a handler in `src/`. Its verdict, `Decide`,
  is split into `ErrorNodes`, `ReplyDigests`, `AuditOk`, `ErrorsOnly`,
  `RetriesLeft` and `ScheduleRetry`, one per test or effect of the code.
- `HandleDatabaseCollectionListReply` is a handler in `src/`.
- `ConsistencyCheckStarter`, `RetryManager`, `StateCleaner` and `SetRow` (the
  AuditResultDatabase) are imported by the auditor but are not in the
  repository, so they follow spec 4.5:
  - The starter audits a known collection that has no active request and no
    pending retry.
  - The retry manager restarts a retry entry with the same row and
    `retry_count + 1`.
  - The state cleaner times out an attempt and counts the missing nodes as error
    replies.
- A consistency-check may be answered twice (the resilient client is
  at-least-once), up to `MaxDuplicates`.

**Abstract specification (`AuditLifecycle.tla`).** This is what the auditor
promises about audit rows, without requests, replies, timeouts or the retry
list:
- an audit opens a row in-progress;
- only an in-progress row is settled (successful, error or wait-for-retry);
- a row is settled successful only for a collection whose nodes agree;
- only a wait-for-retry row goes back in-progress.

`AntiEntropy` instantiates it as `Lifecycle`. It keeps `auditRows` and maps
`agreed` to `AgreedCollections`, the collections on which every node's digest
is equal. `ImplementsAuditLifecycle` is `Lifecycle!Spec`. A late reply from
an attempt that timed out or was replaced would settle a row that is no
longer in progress, and that step has no match in the abstract spec. The code
guards against it twice: the verdict deletes the attempt's key, and a reply
for a node that has already answered is ignored.

### DataReaderService and DataReader (`DataReaderService.tla`, `DataReader.tla`, `MCDataReader.tla`)

`DataReaderService` models the reader service of one node: its state, both
handlers and the state cleaner. `DataReader` extends it with the web server's
`DataReader` client, which retrieves one segment of a key, one conjoined part
at a time. `HandoffForwarder` instantiates the same service for its own
client.

**State.**
- `activeRequests` is the iterator table. Its one key stands for
  (client tag, unified id, segment num), so it does not include the conjoined
  part.
- An entry holds the part, the generator position `genPos`, and the counts
  `sequence_row_count` and `sequence_read_count`. The generator and the read
  count are kept apart because the code keeps them apart.
- `requests` and `replies` are messages in flight.
- The requester has `phase`, `part`, `waitingOn` (the message id of its
  one-shot channel) and `received` (the sequences it was handed). Sequence i of
  part p is the value `<<p, i>>`.
- `RowCount` is the node's database: the number of sequence rows of each part.

**Actions.**
- `HandleRetrieveKeyStart` and `HandleRetrieveKeyNext` are the two handlers,
  with every reply path: invalid-duplicate, no-sequence-rows, exception,
  md5-mismatch, unknown-request, StopIteration and success. They are split into
  `FirstEntry`, `Completed`, `SaveUnlessCompleted`, `Advance` and
  `UnknownRequest`.
- `RetrieveKeyStart` and `ReceiveReply` are the client methods, driven by the
  loop of spec 4.3.
- `DropReply` discards a reply for a channel nobody waits on.
- `StateCleaner` reaps an iterator (`retrieve_timeout`).
- A retrieve-key-start without a `segment-conjoined-part` field (`NoPart`)
  makes `_handle_retrieve_key_start` raise KeyError while it builds its reply
  (line 69). The request is consumed, and nothing is sent or changed. Only the
  forwarder sends such a request; `DataReader` always names the part.
- `Consume` lets the resilient server deliver a request a second time, up to
  `MaxDuplicates`. That is the at-least-once behaviour the client run
  demonstrates.

### HandoffForwarder (`HandoffForwarder.tla`, `MCHandoffForwarder.tla`)

This module models `forwarder_coroutine` on the home node A. The coroutine
retrieves a segment that was handed off to node B from B's reader, and
re-archives it on A's writer. B's reader is `DataReaderService`,
instantiated for the segment's one conjoined part.

**The request it sends.** `QueueRetrieve` builds the coroutine's
retrieve-key-start and retrieve-key-next as lines 30-35 do. They have no
`segment-conjoined-part` field, so the part is `NoPart`. B's handler reads
that field while it builds its reply, raises KeyError, and sends nothing.
The coroutine waits at the yield on line 43, and nothing else resumes it.

**State.**
- `pc` is the yield the coroutine is suspended at: start, the first retrieve,
  the first archive, the loop's retrieve and archive, then done or aborted.
- `sequence` and `completed` are the coroutine's locals.
- `nextId` and `readerWaiting` are the reader client's message ids.
- `toWriter` and `writerReplies` are the archive message and its reply.
- `archived` is what A stores, as pairs <<sequence-num, data>>, and
  `finalized` says whether A finalized the segment.

**Actions.**
- One action runs the coroutine from one yield to the next, fed the reply:
  `Start`, `FirstRetrieveReply`, `FirstArchiveReply`, `NextRetrieveReply`
  and `NextArchiveReply`. `RequestNext` is the loop's `sequence += 1` and its
  retrieve-key-next. A failed `assert` ends the coroutine as `aborted`.
- `DropStaleReply` discards a reader reply for an id the coroutine no longer
  waits on.
- `WriterArchive` is A's writer, from spec 4.2, because the writer is not in
  `src/`.
- `ReaderStep` is one step of B's reader: a handler or the cleaner.

Only `Start`, the reader's KeyError branch, its cleaner and the second
delivery of the request are reachable. The actions after the first yield are
written from the code, but no behaviour of the code as it stands reaches them.

### ListMatcher (`ListMatcher.tla`, `MCListMatcher.tla`)

This module models `list_keys` and `list_versions` as operators of one node's
segment table for one collection. The table is filled by the writer's verbs.

**Data.** A key is a sequence of byte codes. So `like prefix%` is `IsPrefix`,
and `key > marker` and `order by key` are the byte order `KeyLess`, in which a
key comes before its extensions. `str.find` is `Find`, with its 0-based result
and -1. Unified ids and timestamps come from one counter, `clock`, as in the
system, where a later write has both larger. The table holds only rows that
pass the query's join and handoff filters.

**Operators.**
- `SegmentQuery` is the SQL of both queries: where clause, order by and limit.
- `Truncated` and `Page` are `len(result) == request_count` and
  `result[:max_keys]`.
- `KeysStep` and `VersionsStep` are one turn of each loop, folded over the
  page with `FoldLeft`. They keep `prev_key`, and `tombstone_key` with
  `tombstone_unified_id`, as the record `acc`.
- `VersionMarker` is the `int()` parse of the version marker. A string it
  cannot parse, such as the default "", is `NoId` and becomes 0.
- `PrefixSet` and `Listing` are the delimiter branch: `Find` from the end of
  the prefix, and the `delimiter_pos > 0` test.

**Actions.** They are the writer's verbs, from spec 4.2, because the writer is
not in `src/`:
- `ArchiveStart` and `ArchiveEntire` write an active or a final row;
- `ArchiveFinal` and `CancelArchive` change an active row's status;
- `DestroyKey` writes a tombstone for the whole key or for one final version.
  Its guard is `Destroyer.destroy`'s: it refuses a key or version without
  status rows.

**References.** The properties compare each listing with one written from spec
6.3 and 8.3:
- `ReferenceKeys` lists each key whose newest final-or-tombstone row
  (`Decisive`) is final.
- `ReferencePrefixes` cuts each listed key at the first delimiter after the
  query prefix.
- `ReferenceVersions` lists every final row that no newer tombstone of its key
  shadows (`Shadowed`). A tombstone shadows when it is for the whole key or
  names that version.

## 3. Runs

| Run | Config | Checks | Shows |
|---|---|---|---|
| client_safety_liveness | `MCResilientClient.cfg` | TypeOK, NoMessageLost, PredecessorDispatchedFirst, AcksMatchPending, IdleMeansQueueEmpty, EveryMessageAcked, ImplementsDispatchChannel | see the list below |
| client_at_most_once | `MCResilientClient_once.cfg` | AtMostOnceDispatch (violation) | a spurious ack timeout makes the server dispatch a message twice |
| audit_rows | `MCAntiEntropy.cfg` | TypeOK, SuccessMeansAgreement, RowsTracked, AuditsTerminate, ImplementsAuditLifecycle | see the list below |
| audit_one_active | `MCAntiEntropy_one_active.cfg` | AtMostOneActivePerCollection (violation) | an explicit audit runs beside another audit of the same collection |
| audit_tombstones | `MCAntiEntropy_tombstone.cfg` | SuccessMeansIndexesAgree (violation) | indexes that differ by a tombstone compare ok |
| reader_duplicates | `MCDataReader_dup.cfg` | TypeOK, SeqNumMatchesData, CompletedAtLastSequence, RetrievalEnds | with re-sent requests, sequence numbers still match the data, completed is set on exactly the last sequence, and retrievals still end |
| reader_mixed_parts | `MCDataReader_mixed.cfg` | DoneMeansWholePart (violation) | a late duplicate start for another part feeds its data into this part's retrieval |
| forwarder_hangs | `MCHandoffForwarder.cfg` | ForwarderEnds (violation) | the reader never answers the forwarder's retrieve-key-start, so the coroutine waits forever |
| listing | `MCListMatcher.cfg` | ListKeysMatchesReference | see the list below |
| listing_versions | `MCListMatcher_versions.cfg` | VersionsMatchReference (violation) | a version deleted by a destroy-key naming it is still listed |
| listing_prefixes | `MCListMatcher_prefixes.cfg` | PrefixesMatchReference (violation) | under an empty prefix, a key that starts with the delimiter has no prefix listed |

What the larger passing runs show:
- **client_safety_liveness:** no message is lost or reordered across timeouts,
  losses and late acks; a stale ack never reaches the open socket; every message
  is eventually acked; the client implements `DispatchChannel`.
- **audit_rows:** an audit succeeds only when the digests agree; the audit
  rows stay in step with `active-requests` and `retry-list`; every audit row ends successful or error; the auditor implements
  `AuditLifecycle`, so no late or duplicated reply settles a row twice.
- **listing:** in every segment table the writers can build, every
  `list_keys` page is the start of the listing spec 6.3 and 8.3 ask for. It
  holds at most max_keys keys, each key with its newest final version unless a
  newer tombstone dominates it. A page that is not truncated is the whole
  listing. The check covers every prefix, marker and max_keys of the instance.

**Bounds.** The client runs with 3 messages, 1 loss and 1 spurious timeout.
This is enough for:
- a requeue with a message queued behind it (the ordering property);
- a lost handshake or request (the retry paths);
- a late ack on a new socket.

The auditor runs with 2 nodes, 1 collection, 1 key, max_retry_count 1 and
1 duplicate. The key can be active on one node and a tombstone or missing on
the other, so:
- digests can agree, disagree, or agree only because tombstones are not hashed;
- the retry bound is reached;
- a duplicated reply meets a finished attempt.

The passing run (audit_rows) starts one audit and is fair, so it checks
termination together with safety in about 13,000 states. Each row's
termination is independent of the others. With two audits and fairness the run
takes about a quarter of an hour. The two violation runs start two audits, so
that an explicit audit can run beside a scheduled one, or beside a retry.

The reader runs with 2 conjoined parts of up to 3 sequences each. This gives
a start that completes at once, a next that completes, and a next in between.
It also allows:
- 2 retrievals, so an iterator left by the first meets the second;
- 1 duplicate delivery;
- 1 failed read.

The reader's duplicate run also checks `CompletedAtLastSequence`, which is
about the test `sequence_read_count == sequence_row_count` (lines 139 and
207). With up to 3 rows, a start can complete at once, and a next can complete
or be in between. Duplicates, reaps and failed reads then reach both handlers.
`DoneMeansWholePart` is checked only in the mixed-parts run, where a late
duplicate start for another part breaks it.

The forwarder run uses one part of up to 2 sequences, 1 failed read on B,
1 failed archive on A and one duplicate delivery. The hang happens at the
first request, whatever those bounds are. The run does not check deadlock,
because the stuck coroutine has nothing left to do. The property is a liveness
property, so TLC reports the hang as a stuttering behaviour.
The reader runs do not check deadlock. Once the requester has made its
retrievals the reader has nothing to do, and in the real service it waits for
requests.

The list matcher runs with 3 keys ("a", "a/a", "/a" as byte codes), and up to
5 rows from any mix of archive-key-start, archive-key-entire, final, cancel and
destroy-key (whole key or one version). Queries use the prefixes "" and "a",
the markers "" and "a", max_keys 1 and 2, and the delimiter "/". With those:
- "a" is a prefix of "a/a", and the byte order puts "/a" first;
- one key can carry an active, a final and a tombstone row, so a limit of
  max_keys + 1 rows cuts through one key's versions;
- a versioned tombstone can follow the version it names;
- "/a" has its delimiter at position 0 under the prefix "", and "a/a" at
  position 1.
The writer's verbs stop once 5 rows exist, so these runs do not check deadlock.

No run declares a symmetry set. The passing audit run checks liveness, and
symmetry is unsound with it.

**Fairness.**
- The client: weak fairness on its four status handlers, on the pollster
  callback and on the server's receipt. `run` is re-scheduled by the time queue
  every few seconds, and the pollster callback runs whenever the socket is
  readable.
- The auditor: weak fairness on the retry manager, the state cleaner (both
  time-queue tasks that always re-schedule themselves), the node handler and the
  reply handler (the dispatcher drains the receive queue).
- The reader: weak fairness on both handlers (the dispatcher) and on the
  requester's receipt of replies (a greenlet blocked on its channel wakes when
  the reply arrives). The cleaner has no fairness.
- The forwarder: weak fairness on each coroutine step (its driver sends it
  every reply its clients receive), on A's writer and on B's two handlers. B's
  cleaner has no fairness. Under this fairness, a reply would reach the
  coroutine if one were sent. So the hang the run shows is not an artefact of
  the fairness.
- Neither the starter nor explicit requests are fair, because nothing obliges
  them to happen.

**Deadlock** is checked in the client and auditor runs. The collection-list reply is always
possible in the auditor, as the CollectionListRequestor runs periodically.

**Mutants.** Every property of a passing run has a mutant in `PROJECT.json`: a
one-definition change of the kind a bug in that code would be. Examples:
- the requeue at the tail, or dropped;
- the idle guard dropped;
- `>=` turned into `>` in the retry test;
- the digest-count test dropped;
- the `restart_audit` call or the retry-list append missing;
- the reader's completed test made one early;
- `list_keys` not setting `prev_key` on a tombstone, or `truncated` never
  set.

TLC finds each one.

## 4. Findings

- **At-least-once, not at-most-once** (`resilient_client.py:193`). On an ack
  timeout the client re-sends a request the server may already have dispatched.
  The spec claims at-most-once.
- **Explicit audits break "one request per collection"**
  (`anti_entropy_server_main.py:137`). The audit-request handler never looks at
  `active-requests`.
- **Tombstones are not hashed** (`anti_entropy_server_main.py:180`). The query
  keeps only status 'A' rows, against spec 4.5.
- **The forwarder's request cannot be answered** (`forwarder_coroutine.py:30`).
  The coroutine's retrieve-key-start has no `segment-conjoined-part` field
  (and no `client-tag`). `_handle_retrieve_key_start` reads that field while it
  builds its reply (`data_reader_main.py:69`), so it raises KeyError before
  anything is sent. The coroutine waits forever at line 43. Spec 4.4 and
  scenario S6 expect it to forward the segment or abort. Two more bugs lie
  behind this one, and no behaviour reaches them until it is fixed. They are
  read from the code, not checked:
  - archive-key-entire's reply is never looked at (line 96);
  - the loop numbers each archive with its own counter and never reads the
    reply's `sequence-num` (line 117). A re-sent retrieve-key-next advances
    B's iterator twice (`data_reader_main.py:185`), so A would store B's
    sequence 3 as sequence 2.
- **The iterator key has no conjoined part** (`data_reader_main.py:55`). A late
  duplicate start for one part creates the iterator that another part's next
  reads. That needs the state cleaner: the duplicate is refused as
  invalid-duplicate while any iterator holds the key. In TLC's trace, p1's
  first start fails on a read, p2's start creates the iterator, and the
  cleaner reaps it. Then the late duplicate of p1's start creates a p1
  iterator, and p2's next reads from it. The retrieval then completes with
  the wrong part's bytes, and the md5 check passes because the reply
  describes those bytes.
- **A key that starts with the delimiter has no prefix**
  (`listmatcher.py:86`). `delimiter_pos > 0` drops a delimiter found at
  position 0, which happens only under an empty prefix. With the delimiter
  "/", key "/a" yields no prefix, where spec 6.3 lists "/". TLC shows it after
  one write.
- **list_versions lists destroyed versions** (`listmatcher.py:144`). After a
  tombstone with `file_tombstone_unified_id = u`, the loop skips the next row
  whose own `file_tombstone_unified_id` is u, not the row whose `unified_id`
  is u. A version's archived row has no `file_tombstone_unified_id`, so a
  version deleted by name stays in the listing. TLC shows this in two writes:
  archive key "a" as version 1, then destroy version 1. Spec 6.3 says shadowed
  versions are suppressed.

## 5. Proofs

`ResilientClientProofs.tla` proves, for every value of the constants (assuming
only `ConstantsAssumption`):
- `TypeCorrect`: Spec => []TypeOK.
- `NoMessageLostTheorem`.
- `AcksMatchPendingTheorem`.
- `IdleMeansQueueEmptyTheorem`.

All four follow by PTL from `InductiveInvariant`: Spec => []IInv.

**Why IInv is stronger.** `AcksMatchPending` alone is not inductive, because a
request still on the wire could later produce an ack for another message. IInv
adds these conjuncts:
- every non-stale request carries the pending message (`FreshMatchPending`);
- an ack on the wire means every request is stale (`AckExcludesFresh`);
- handshaking holds exactly when the handshake is pending
  (`HandshakingIffHandshake`);
- a disconnected client has nothing pending (`DisconnectedNothingPending`).

**How the step proof is laid out.** `NextIInv` has one step per action, and
under it one step per conjunct the action can change. It rests on three lemmas:
- `FreshRequestType`;
- `DisconnectFacts`: after `_disconnect` every request is stale and no ack
  is left;
- `NothingPendingNothingOnWire`.

`ResilientClientOrderProofs.tla` proves `PredecessorDispatchedFirstTheorem`:
Spec => []PredecessorDispatchedFirst, for every value of the constants. The
server never dispatches a message before the one queued just before it. This
holds across the re-send at the head of the queue after an ack timeout
(`appendleft` in `_handle_status_connected`), stale requests of closed
sockets, handshake timeouts and losses.

**Why OInv is needed.** The property speaks only of `delivered`. A step can be
shown to keep it only if every message that can still reach the server is
*ready*, meaning it is message 1 or its predecessor was dispatched already.
`OrderInvariant` proves Spec => [](IInv /\ OInv), where OInv adds two parts:
- `InFlightReady`: every request on the wire, stale or fresh, and the pending
  message are ready. Every ack on the wire and every accepted ack is of a
  dispatched message.
- `QueueInOrder`: the send queue holds consecutive messages ending at the
  last one submitted. Its head is the pending message plus one, or, when
  nothing is pending, is ready. An empty queue means that the pending message,
  or else the last submitted one, is the newest.

The ack of the pending message makes it dispatched. That is what makes the
head of the queue ready when `_pollster_callback` sends it
(`PollsterCallbackOInv`). A timeout puts the pending message, which is ready,
back at the head (`HandleStatusConnectedTimeoutOInv`). `DispatchReady`
shows that appending a ready message to `delivered` keeps the property.
`NextOInv` has one lemma per action. TLC checked OInv and IInv before they
were proved, on four messages, two losses and two spurious timeouts
(42,441 distinct states).

`ResilientClientChannelProofs.tla` proves `ImplementsDispatchChannelTheorem`:
Spec => ImplementsDispatchChannel, for every value of the constants. The
proof has the usual refinement shape:
- Init => Channel!Init;
- `NextMaps`: IInv /\ OInv /\ AInv /\ [Next]_vars => [Channel!Next]_Channel!vars;
- PTL joins them with Spec => [](IInv /\ OInv /\ AInv).

The server's dispatch maps to `Channel!Dispatch`. This needs the message to
be submitted and ready, and readiness is OInv's `InFlightReady`. An accepted
ack maps to `Channel!Acknowledge`. That needs the acked set to be exactly
the messages before the one being acked.

**Why AInv is needed.** Neither IInv nor OInv says which messages are acked.
AInv states it: `acked` is exactly the messages before `NextUnacked`. That
is the pending message, or else the head of the send queue, or else the next
one to be submitted. AInv also says that no request on the wire, and no
pending message, is beyond `submitted`. So an ack of the pending message is
the next one in order, and a timeout that requeues it leaves `NextUnacked`
where it was. `NextAInv` has one lemma per action. `DisconnectWire` is the
fact that `_disconnect` only marks requests stale. TLC checked
IInv /\ OInv /\ AInv on the same instance as OInv (42,441 distinct states)
before the proof.

`AntiEntropyProofs.tla` proves, for every number of nodes, collections and
keys, and every `MaxRetryCount`, `MaxAudits` and `MaxDuplicates`:
- `RowsTrackedTheorem`: Spec => []RowsTracked.
- `SuccessMeansAgreementTheorem`: Spec => []SuccessMeansAgreement.

Both follow by PTL from `InductiveInvariant`: Spec => []IInv.

**Why IInv is stronger.** IInv adds four things to the three properties.

`TypeInv` is TypeOK with an unbounded clock. TypeOK's bound
`clock <= MaxTimestamp` holds only by counting attempts over all audits, and
the proofs of IInv do not need it. `AntiEntropyClockProofs.tla` proves it
separately (below).

`RowLinks`:
- every active request and every retry entry names an existing row of its own
  collection;
- a row has at most one retry entry.

Without these facts, the RetryManager could restart a row that has a second
retry entry. The verdict could also mark a row of another collection
successful.

The freshness of state keys: every active key's timestamp is at most
`clock`. So the `Put` of a new attempt never overwrites a live request state.

`RepliesFromIndex`: every digest reply, on the wire or recorded, is the
digest of the replying node's index for the request's collection. This is
what lets `SuccessMeansAgreement` follow from the verdict's `AuditOk` test
(lemma `AgreementFromAuditOk`).

**How the step proof is laid out.** `NextIInv` has one case per action. The
actions that share code share a lemma:
- `StartAuditIInv` covers the starter and explicit audits.
- `RestartIInv` covers the RetryManager.
- `DecideIInv` covers the verdict, which both `RecordReplyIInv` (the last
  reply) and `StateCleanerIInv` (a timeout) reach.
- `DecideShape` reduces the four branches of the verdict to one shape.
- `StartAttemptFacts` states what a fresh attempt does to the request table.

`AntiEntropyClockProofs.tla` proves `TypeCorrect`: Spec => []TypeOK for the
auditor, with the clock bound `clock <= MaxAudits * (MaxRetryCount + 1)`.
It follows by PTL from `ClockInvariant`: Spec => [](IInv /\ ClockInv).

**The counting argument.** A slot is a pair (row, retry count) in
`Rows \X (0..MaxRetryCount)`; there are exactly `MaxTimestamp` of them
(`SlotsFinite`). `Consumed` is the set of slots some attempt has used: every
slot of a row that is successful or error, and every count up to the retry
count of the row's active request or retry entry. `ClockInv` says:
- every state key, check and check reply carries a timestamp in `1..clock`
  (`KeysBelowClock`);
- `clock <= Cardinality(Consumed)`.

Every step that advances the clock starts an attempt, and each attempt
uses a slot that was free:
- `start_audit` uses slot 0 of the new row (`StartAuditConsumed`);
- the RetryManager uses slot `retryCount + 1` of a waiting row
  (`RestartConsumed`). That slot is free because of IInv: the row is
  wait-for-retry, no active request carries it, and its only retry entry
  stops at `retryCount` (`RowsTracked`, `RowLinks`).

The verdict never frees a slot (`DecideConsumed`): the row becomes terminal,
or its retry entry takes over the request's count. `StartClockInv` and
`DecideClockInv` turn these facts into the step of `ClockInv`, and
`SlotsGrow` / `SlotsMonotone` are the cardinality facts, from
`FiniteSetTheorems`. ClockInv was model-checked with TLC on the audit
instance before it was proved.

`AntiEntropyLifecycleProofs.tla` proves `ImplementsAuditLifecycleTheorem`:
Spec => ImplementsAuditLifecycle, for every number of nodes, collections and
keys, and every bound. Here IInv is already strong enough, and no new
invariant is needed:
- node indexes never change, so `AgreedCollections` is constant
  (`AgreedStays`);
- a step that leaves `auditRows` alone is a stutter of `Lifecycle`
  (`RowsStay`). This covers the node handler, the collection-list reply,
  and a reply that is ignored or that leaves some node unanswered;
- `start_audit` is `Open` (`StartAuditMaps`);
- the RetryManager's `restart_audit` is `Retry`. `RowLinks` and
  `RowsTracked` show that its row exists and waits for retry
  (`RetryManagerMaps`);
- the verdict is `Settle` of the request's row (`DecideMaps`). `RowsTracked`
  shows the row is in progress, because an active request exists only for an
  in-progress row. `AgreementFromAuditOk` with `RepliesFromIndex` shows the
  collection is agreed when the verdict is successful. Both the last reply
  (`HandleConsistencyCheckReplyMaps`) and the state cleaner's timeout
  (`StateCleanerMaps`) reach it with a request state whose digest replies
  come from the index.

`NextMaps` combines these lemmas, one case per action.

`DataReaderProofs.tla` proves `SeqNumMatchesDataTheorem`:
Spec => []SeqNumMatchesData for the reader service and the DataReader
requester, for every number of parts, sequences, duplicate deliveries and
failed reads (assuming only `ServiceAssumption` and `ClientAssumption`).
It follows by PTL from `InductiveInvariant`: Spec => []IInv.

**Why IInv is stronger.** A successful retrieve-key-next answers with
`sequence_read_count + 1` and the data at the generator's next position.
The two agree only because the iterator kept in active-requests has read as
many sequences as its generator has passed. IInv adds this as `IterInv`,
together with `TypeInv`. `TypeInv` is TypeOK without the bound `MaxId` on
message ids. That bound is not a property of the code: each late duplicate
retrieve-key-start recreates a reaped iterator and lets the requester send
one more retrieve-key-next. TLC finds it exceeded with one part, three
sequences, one retrieval and two duplicates. So `MaxId` only sizes the
instances, and the reader's `TypeOK` stays model-checked. The handler
lemmas are `StartIInv`, `NextHandlerIInv` and `AdvanceFacts`: an iterator
short of its last row advances its position and its read count together.

`DataReaderProofs.tla` also proves `CompletedAtLastSequenceTheorem`:
Spec => []CompletedAtLastSequence. It rests on a second invariant,
`CInv == RowsOfPart /\ CompletedAtLastSequence`, proved inductive relative to
IInv. `RowsOfPart` says that every iterator's `sequence_row_count` is its
part's row count in the database. Without it, a duplicate start could in
principle build an iterator whose row count differs, and completed would then
be set at the wrong sequence. `StartCInv` takes the start handler branch by
branch, because a completed success also leaves the table unchanged. The
failure branches send no success reply. `NextHandlerCInv` does the same for
the next handler, and `ReadFaultKeepsCompleted` for a failed read.

**Left to TLC.**
- Liveness (`EveryMessageAcked`, `AuditsTerminate`, `RetrievalEnds`) is beyond TLAPS here, because it needs ENABLED and
  fairness reasoning. The refinement theorems are about the safety part
  only: neither abstract spec has fairness.
- A counting bound that only sizes the instances: the reader's `TypeOK`
  (message ids).
- The ListMatcher properties. They compare a fold over the sorted query
  result (`FoldLeft` of `KeysStep` over `SetToSortSeq`) with a reference
  listing, for every table the writers can make. Proving that needs
  induction over the rows the fold walks. The library's induction theorems
  take an operator as a parameter, which the installed provers cannot
  instantiate, so these properties stay with TLC.

Every inductive invariant above was model-checked before it was proved:
the auditor's on the instance of the audit runs and on one with two
collections, and the reader's two on the instance of its duplicate run.

## 6. Plan and what is not modelled

Done:
1. ResilientClient, with proofs, including dispatch order.
2. AntiEntropy, with proofs.
3. DataReaderService and DataReader, with the proof of SeqNumMatchesData.
4. HandoffForwarder, composed with DataReaderService and a writer from spec 4.2.
   It shows that the coroutine hangs at its first request.

5. ListMatcher, with the Destroyer's guard.

6. `DispatchChannel`, the abstract transport, refined by ResilientClient.
   TLC checks the refinement and TLAPS proves it.
7. `AuditLifecycle`, the abstract audit-row lifecycle, refined by
   AntiEntropy. TLC checks the refinement and TLAPS proves it.

Seven modules hold theorems: `ResilientClientProofs`,
`ResilientClientOrderProofs`, `ResilientClientChannelProofs`,
`AntiEntropyProofs`, `AntiEntropyClockProofs`, `AntiEntropyLifecycleProofs`,
and `DataReaderProofs`.

Not modelled, and why:
- The Destroyer's greenlets, join timeout and AlreadyInProgress, and the
  DataSlicer. The project has no run left for them. Each further run would
  need one of the twelve, and every existing run checks a distinct question.
- Paging through `list_keys` or `list_versions` page by page. It is
  modelled, but no run checks it, for the same reason.
- The forwarder past its first yield. It is modelled, but unreachable in the
  code as it stands. Once the request names its part, the runs to add are the
  archive-key-entire and sequence-num checks of lines 96 and 117.
- The listmatch marshalling is a pure conversion.
- The simulators and unit tests are not the system.
- The writer, the handoff server (which drives the forwarder), ResilientServer and the Reader class are not
  in `src/`.
- The size and md5 checks that `DataReader` makes on a reply body are not
  modelled. The body is always the row the reply describes.
- The auditor's digest query keeps only status 'A' rows
  (`anti_entropy_server_main.py:180`), so final rows are not hashed either.
  The model's rows have no final status, so this is not checked.
