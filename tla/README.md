# A verification project for hush-server

TLA+ models of the parts of hush-server whose correctness depends on how
requests, goroutines, statements and failures interleave, TLC configurations
that check them on small instances, and TLAPS proofs of the results that matter
most for every instance. Everything is translated from the Go source;
`PROJECT.json` maps each definition to the lines it stands for.

## 1. Inventory

The server is one Go process on one PostgreSQL database, with an optional S3
bucket and a LiveKit server beside it. Transactions never span two calls of the
store, so a handler is a sequence of statements and everything may happen between
two of them. Shared state in memory is limited to the WebSocket hub, the Merkle
tree of the transparency log, the tracker of voice rooms and the cache of the
instance configuration.

| Component | State | Operations | What makes it hard | What makes it correct |
|---|---|---|---|---|
| Link archive plane (`api/link_archives.go`, `db/link_archives.go`, `storage/`) | archive rows, chunk rows, objects in a table or a bucket | init, window, upload, confirm, finalize, manifest, download, ack, delete, purger tick | statements interleave, object and row are written separately, presigned URLs outlive the request, expiry slides, crashes | a finalized archive is what it declared; rows have objects; limits hold; everything is collected in the end |
| Device linking (`api/devices.go`, `db/auth_nonces.go`, `db/device_keys.go`) | single-use nonces (request, code, claim, result), device keys | link-request, -resolve, -verify, -result, certify, revoke, revoke all, nonce purge | two routes to one request, retries, failures between consuming a nonce and using it | a claim adds one device; a device is told it is linked only after it is registered |
| Merkle tree (`transparency/tree.go`) | leaves, fringe, size | Append, Root, Proof, VerifyProof, recovery | sizes that are no powers of two | agrees with RFC 6962 |
| Transparency log (`transparency/service.go`, `db/transparency.go`) | the tree under a mutex, entries, heads | AppendEntry, GetProof, RecoverFromDB | two inserts that fail or crash separately, restarts, proofs read under several locks | receipts stay true; recovery restores the tree of the table |
| Guild membership and moderation (`api/servers.go`, `moderation.go`, `invites.go`, `middleware.go`) | servers, server_members, bans, mutes, invite codes | create, join, claim, leave, role, kick, ban, unban, mute, unmute, delete; the mute check of a message | decisions on levels, bans and counts read earlier | one owner, admins by the owner, bans and mutes hold, invites and caps bounded |
| WebSocket hub (`ws/hub.go`, `client.go`, `handler.go`) | clients, rooms, presence, two goroutines and a channel per connection | register, unregister, subscribe, broadcast, disconnect | snapshots used after the lock is released, closed channels, two writers of a connection, blocking sends | presence matches clients; a kicked user keeps no live subscription; closed connections leave the hub |
| Authentication and sessions (`api/auth.go`, `middleware.go`, `auth/challenge.go`, `db/sessions.go`, `users.go`) | users, sessions, challenge nonces, device keys, connections, instance bans | register, challenge, verify, logout, connect, revoke, ban, unban, purges | a verify, a request or a handshake during a ban or a revocation; invites and the user limit at their last place | one session per challenge; who is banned or revoked is cut off; admission is bounded |
| MLS delivery (`api/mls.go`, `db/mls.go`, `db/mls_groups.go`) | key packages, group info, commits | upload, consume, warn, purge, put, commit, page, delete | concurrent requesters of the last package, the goroutine that warns, group info and commit in two statements, page boundaries | a package is given once; an owner hears of a low supply; a member can catch up |
| Voice rooms (`api/livekit.go`, `webhook.go`, `livekit/`) | the tracker in memory, tokens, LiveKit's rooms, the voice group | token, webhook, evict, destroy the group | lookups that fail open, tokens that outlive bans, webhooks and deletions that come late or get lost | barred users are out; a voice group lives as long as its session |
| Admin accounts, configuration, templates (`api/admin*.go`, `handshake.go`, `db/admin_*.go`, `instance.go`, `service_identity.go`) | operators and their sessions, service identity, configuration and its cache, server templates | claim, login, logout, create, patch, provision, configure, write and delete templates | read, decide and write are separate statements everywhere | there is an owner; one claim; one identity; readers see what is stored |
| Channels and attachments (`api/channels.go`, `attachments.go`, `db/channels.go`, `attachments.go`, `cmd/hush/main.go`) | guilds, the channel tree with positions, attachment rows, objects | create, move, delete, presign, upload, delete, retention, deletion of a guild | eviction by concurrent presigns, trees listed before they are deleted, positions shifted in three statements by what was read | quota; no row without object and no object without row; whole trees; order |
| Discovery, metrics, configuration files, admin UI, deployment | static files, counters | reads | little | not modelled, see section 8 |

The components meet in few places: moderation and device revocation call the
hub; device linking appends to the transparency log and hands the new device to
the link archive plane; the hub asks the database for memberships; an instance
ban reaches into sessions, connections, guilds and voice rooms; the webhook of a
voice room deletes a group of the MLS delivery service (`VoiceRoom` extends
`MlsDelivery` for that reason).

`PROJECT.json` lists the hazards of this code line by line, with the property
that would catch each of them.

## 2. Plan

Done: `LinkArchive` (with `LinkArchiveStore`), `DeviceLink`, `MerkleTree`,
`TransparencyLog` (on `MerkleTree`), `RFC6962`, `Guild`, `Hub`, `Session`, `MlsDelivery`
with the abstract `KeyPackagePool` it implements, `VoiceRoom` (on `MlsDelivery`),
`Admin`, `Channels`; proofs of every safety property the runs check, but for
those that section 6 names.

Left: further abstract specifications (an archive as a write-once object, the log
as an append-only sequence).

## 3. Modules

| Module | Models |
|---|---|
| `LinkArchiveStore` | rows of `link_archives` and `link_archive_chunks` and the SQL on one row |
| `LinkArchive` | the handlers, the object store, the purger, the clock |
| `DeviceLink` | the nonce table, the device keys and the linking handlers |
| `MerkleTree` | the tree algorithms over symbolic hashes |
| `RFC6962` | abstract: the hash and the audit path as RFC 6962, section 2.1, defines them, and leaves appended one by one |
| `TransparencyLog` | the append, its two inserts, restarts, proof requests |
| `Guild` | one guild with its members, sanctions and invites |
| `Hub` | connections with their pumps, the hub's maps, kicks, leaves, revocations |
| `Session` | registration, sign-in, sessions, connections, revocations and instance bans |
| `KeyPackagePool` | abstract: what the delivery service promises about key packages |
| `MlsDelivery` | key packages of a device, group info and commits of a channel |
| `VoiceRoom` | a voice channel: tokens, webhooks, evictions, and its group in `MlsDelivery` |
| `Admin` | operator accounts and sessions, service identity, configuration, templates |
| `Channels` | the channel tree, attachments and their objects |
| `MC...` | the instances TLC checks |
| `...Proofs` | theorems |

Common to the models of handlers: a handler is a *job*, a record with a program
counter `pc` and whatever the handler has read. One action is one SQL statement,
one object-store call or one critical section, because these are the points
between which another goroutine can run. The first action of a handler includes
its parsing, authorisation and first lookup; a request that is refused there
changes nothing and is not a step. `Abandon` ends a job anywhere: it stands for
an error return, a cancelled request context and a crash alike, since all three
keep what was already written. Rows, bodies and tokens are model values or small
records; hashes are symbolic and injective; formatting and logging are left out.

`LinkArchive`. `row`, `chunk`, `blob` are the tables and the store. `PutObject`
keeps the first writer on `postgres_bytea` (ON CONFLICT DO NOTHING) and the last
on `s3`. `PresignedPut` is the device writing to the bucket by itself. History:
`touched`, when a handler last refreshed an archive; `renewed`, the archives
refreshed while an init that means to supersede them is on its way to the DELETE;
`stalled`, archives that lost an advisory transition; `dropped`, keys whose object a
rollback or a broken-off purge has taken, until it is put again.

`DeviceLink`. `nonce` is `auth_nonces` with the four prefixes of the code, and
`ConsumeAuthNonce` its DELETE ... RETURNING. The rest is history: who holds a
claim, how often it was approved, to whom a result was delivered.

`TransparencyLog`. `append` is the holder of the mutex; `faults` remembers which
failures happened, so that properties can say "as long as nothing failed".

`RFC6962`. The two definitions that the comments of `tree.go` refer to, as recursive
functions over runs of the data: `RunHashes(D)[n][i]` is the hash of the `n` data
from index `i`, and `MTH(D)` and `PATH(m, D)` are those of the whole. `added` is
what was appended; the tree is rebuilt from it (`Built`) where a property asks.

`Guild`. `sanction` is the sequence of bans and mutes in the order of
`created_at`. `job.rank` is the actor's level as `RequireGuildMember` read it.
History: `creator`, `founded`, `giver`, `ousted`, `joined`, `excused`.

`Hub`. `conn[c].read` and `.write` are the program counters of the two pumps,
`queued` the length of the channel `send`. A send on a channel that the read
pump has closed panics, and so does a second writer of a connection (the
WebSocket library refuses concurrent writers). `net/http` and the `Recoverer`
middleware catch a panic of a request and therefore of a read pump; in a write
pump and in the goroutine that a kick starts nothing does, and the process
restarts (`CutProcessPanic`). Guilds and channels are rooms of the same kind and
one is modelled. Messages are counted, not told apart.

`Session`. A root key names its user, a session is a row in the order of
creation with the number of bans its request had `seen`, a connection remembers
the session it was opened with. `timer` is the goroutine of `instanceBan` that
disconnects a moment after the ban. `DisconnectDevice` collects its targets, which
then have it among their `closers`, and closes one after the other (`CloseTarget`);
a close frame that meets another writer panics (`ClosePanics`), which ends the
request and leaves the rest open. The same panic on the timer's goroutine ends the
process (`Restart`). `late`, `spared`, `stranded` and `unswept` are history. Other
details of the hub are in `Hub`.

`MlsDelivery`. A package is named by its row and a purged row is marked, so that
`handed` counts over its whole life. `supply` is history since the last upload.
`commit` is in the order of `created_at`; `reader` is a client that asks for what
follows the last epoch it has got. `GivenOnce` is `Pool!PoolSpec`, the
specification of `KeyPackagePool` under the mapping `offered` = regular rows,
`available` = those not consumed and not purged, `given` = `handed`.

`VoiceRoom`. `Checks` are the four lookups of the token handler in their order,
`bar` what each of them looks for; `slipped`, `pass` and `stay` carry the bars
that a request, a token and a stay are excused from because the check was over,
failed open or the bar evicts nobody. LiveKit (`JoinRoom`, `LeaveRoom`, `Hook`) is
external.

`Admin`. `crossed` marks a job that has read what another request has written
since; `excused` collects what such jobs have spoilt. The properties hold outside
of these exceptions, which are therefore exactly the races the code admits.

`Channels`. `orphan`, `over` and `stray` are history: objects nobody will delete,
guilds where a presign broke off before it evicted, channels that outlived their
category. The transaction of `MoveChannel` runs at READ COMMITTED, and each of its
UPDATEs is modelled by that rule: a step takes the statement's snapshot, the rows
that match among what is committed and what the transaction itself has written
(`GapSnapshot`, `RoomSnapshot`); a later step, when no other open transaction holds
one of these rows (`Free`), looks again which of them still match and shifts those
(`CloseGap`, `MakeRoom`). The shifts stay with the job (`down`, `up`) and their
rows locked (`held`) until `PlaceChannel` commits. Moves that wait for each other
are a deadlock, and the database fails one of them (`Deadlocked`). `DeleteServer`
takes the channels and attachments of a guild by cascade, and no object. A move
notes in `crossed` that a channel has come to one of its scopes, or been shifted
there, since it began; a deletion, that a channel has come to the tree it listed.

## 4. Runs

| Run | Checks | Instance |
|---|---|---|
| `archive` | `FinalizedBound`, `RowsHaveObjects`, `AckReady`, `ChunkRowsFrozen`, `LifecycleMonotone`, `SupersedeSparesActive` | one archive, one chunk in the bucket, two candidate bodies with honest and false hashes, presigned URLs, two requests of every kind, purger, faults; 2.6 million states |
| `archive_admission` | `AdmissionHeld`, `EventuallyCollected` | two accounts, two archives of one or two bytes on `postgres_bytea`, one request at a time, under `FairSpec` |
| `link` | `ClaimSingleUse`, `ResultAfterRegistration` | two accounts, two requests that share a code, two claims, two handlers, faults, expiry |
| `log` | `TreeIsRFC6962`, `VerifyExact`, `ReceiptsKept`, `SoundUnlessFaulted` | every sequence of up to seven leaves from two values; the log up to three leaves, one proof request, two restarts, every fault |
| `log_head_lost` | `TreeMatchesLog`, violated | lost heads only |
| `guild` | `SoleOwner`, `AdminsByOwner`, `LimitsHeld`, `BannedIsOut`, `MuteHolds` | roles and invites: three users, one invite, cap one; bans and mutes: two users, two sanctions, one tick; two handlers, faults |
| `hub` | `HubConsistent`, `OutsidersCut`, `EventuallyUnregistered` | two connections of one user on one device, of which one sends messages, buffer of one, one HTTP request at a time, kicks, leaves or revocations, under `Fairness` |
| `session` | `ChallengeOnce`, `BannedIsCut`, `RevokedIsCut`, `AdmissionsBounded` | admission: two users, one invite use, one place; races: one user, two sessions, one connection; cuts: a revocation while several connections are open and being closed; expiry: one session over two ticks; one request signs in while another cuts off, faults, panics, restarts |
| `voice` | `LowIsTold`, `PagingComplete`, `InfoCoversCommits`, `GivenOnce`, `BarredAreOut`, `SessionStartsFresh`, `LiveGroupSpared` | packages: three of them, two requests; commits: three, two writes of group info, page of two; tokens: one user, two sessions, the guild's bar and another; room: two users, three sessions, two webhooks under way, with the voice group; faults, restarts |
| `admin` | `OwnerKept`, `BootstrapOnce`, `SettingsAgree` | two operators, two requests, three templates, two updates of the configuration, faults, restarts |
| `channels` | `GuildQuotaHeld`, `ObjectsFollowRows`, `TreeDeleted`, `MoveKeepsOrder` | quota: two channels, three attachments of one or two bytes under a quota of two; files: a channel and its category, two attachments; order: three channels at three positions, two moves at a time in one guild, statement by statement, or one in two guilds; tree: three channels of one guild, a move that crosses deletions; the other guild may be deleted; faults |
| `moves_collide` | `MovesCollisionFree`, violated | two moves at a time, no faults |

`MCTransparencyLog`, `MCGuild`, `MCHub`, `MCSession`, `MCVoiceRoom`, `MCAdmin` and
`MCChannels` choose a *scenario* in the initial state: a named restriction of the
requests a behaviour makes, so that one run covers several parts of a component
whose product would be too large. A scenario only keeps requests from starting or
bounds counters; the steps themselves are those of the specification.

What they show:

* `FinalizedBound`: the flag is set after the check in another statement; it is
  still right because chunk rows never change while the archive exists
  (`ChunkRowsFrozen`) and never disappear before it.
* `RowsHaveObjects`, `AckReady`: the run has false hashes, failing calls and crashes,
  and the exceptions are exact. Two things take an object from under its row, the
  rollback of another upload or confirm of the index and a purge that broke off
  (`dropped`); one thing keeps a finalized archive from its ack, a transition that
  failed or was never run (`stalled`).
* `SupersedeSparesActive`: with two requests an init purges an archive that another
  request refreshed after the init listed it (`renewed`), and no other active one.
* `EventuallyCollected`: sliding expiry cannot keep an archive alive past its
  hard deadline.
* `ClaimSingleUse`, `ResultAfterRegistration`: consuming the nonce in one atomic
  DELETE is what makes concurrent approvals and retries safe.
* `ReceiptsKept`: whatever fails, the unique `leaf_index` keeps the entry of a
  receipt; whether the tree still agrees with the table is another matter
  (section 7).
* `SoleOwner`, `AdminsByOwner`: stale levels do not allow an escalation, because
  every write is strictly below a rank the actor once had, and no admin can
  write the level of an admin.
* `LimitsHeld`: an invite is never used more often than it may be; the cap is
  soft, and requests in flight overrun it by at most their number minus one.
* `BannedIsOut`: the exceptions (`excused`) are exact: a ban check older than
  the ban, or a removal that failed. No other path leads a banned user in.
* `OutsidersCut`: a kick takes its targets from all registered clients and not
  from the room's subscribers, and therefore also reaches a connection that
  passed its access check before the kick and subscribes after it. Two
  exceptions are in the property: a user who left by `leaveServer` stays
  subscribed, and a panic in the broadcast of a kick loses its
  `DisconnectUser`.
* `EventuallyUnregistered` names the two ways in which a dead connection stays
  in the hub: `Ghost` and `Stuck`.
* `ChallengeOnce`: the nonce is consumed before anything is checked, so that a
  failed verify burns the challenge and no replay gets a session.
* `BannedIsCut`, `RevokedIsCut`: the handlers are not atomic, and the properties
  say exactly who slips through: requests that read before the write they race;
  the sessions that a failed deletion, whose error `instanceBan` ignores, has left
  (`unswept`); and the connections that `DisconnectDevice` had not closed when a
  close frame panicked (`stranded`).
* `GivenOnce`: the UPDATE that skips locked rows is what makes a pool of the
  table. The last resort is no part of the promise.
* `InfoCoversCommits`: whoever sees a commit sees its group info or a later one,
  because the info is stored first; the order of two committers is not kept.
* `SessionStartsFresh`, `LiveGroupSpared`: the voice group survives its session,
  or dies in the middle of the next, only through the late goroutine of an
  earlier session, a failure, or a restart, after which the tracker knows nobody
  and the first leave destroys the group of those who stay.
* `OwnerKept`, `BootstrapOnce`, `SettingsAgree`: each holds unless two requests
  overlap, and fails when they do (section 7).
* `AdmissionHeld`: the limits are soft, and the inits that overtake each other
  overrun them by at most their number minus one; the run has one request at a
  time, for which there is no slack. TLC has also been run on it, and on the
  invariants of its proof, with two workers and three archives.
* `GuildQuotaHeld`: presigns that overlap may evict too much and never too little.
* `ObjectsFollowRows`, `TreeDeleted`: the exceptions in the properties are failed
  deletions, uploads that come late, the windows between the statements of
  `DeleteChannelTree`, the trees that its comment rules out, and the deletion of a
  guild.
* `MoveKeepsOrder`: two moves at a time, and deletions, go on between the statements
  of a move. Its order survives unless a sibling came, or was shifted, in one of its
  scopes since it began; `moves_collide` shows that without this exception two moves
  put two channels at one position.

Each property has a mutant in `PROJECT.json`: an operator that changes one
mapped definition like a plausible bug would, and under which TLC finds the
property violated.

### Bounds

`MaxNow`, `MaxSanctions`, `MaxSize`, `MaxRestarts`, `MaxLeaves`, `MaxSessions`,
`MaxBans`, `MaxEpoch`, `MaxCommits`, `MaxWrites`, `MaxLows`, `MaxHooks`,
`MaxCleaners`, `MaxKeys`, `MaxConfig`, `MaxAtts`, `MaxPos`, the finite sets of
UUIDs, claims, codes, workers and the like, and the scenarios are the bounds. Two handlers in flight
suffice for the races of interest, because each property relates one handler's
earlier read to another's write; three users are a creator, an actor and a
target. Lifetimes of one or two ticks let an expiry fall before, between and
after any two statements. Seven leaves include every shape of a tree of depth up
to three. Three commits and a page of two make a page boundary, within an epoch
too; three sessions of a room are one, its successor and the one a late goroutine
meets; three channels are a category with a channel and one that is moved; a
quota of two and sizes of one and two evict one row, two rows or none. A buffer of one message is empty, not empty and full within two sends.

`CHECK_DEADLOCK FALSE` is in every configuration because the models do stop: the
clock and the supplies of UUIDs, leaves, sanctions and connections are bounded,
and a server without requests does nothing.

Symmetry (users, workers, packages, channels, guilds, operators, templates) is
used only in runs without liveness properties, over sets whose members no
definition names.

### Fairness

`LinkArchive!FairSpec`: the clock advances, `purgeLinkArchivesSupervised`'s
ticker fires, and the loop of a tick goes on; the goroutine runs as long as the
process. Nothing is assumed of handlers.

`Hub!Fairness`: weak fairness of every read pump and every write pump for the
steps that need no input from the peer, which is what the Go scheduler gives a
runnable goroutine. A read on a closed connection returns an error, and one on a
connection without pongs reaches its read deadline. Nothing is assumed of peers
and HTTP requests.

## 5. Proofs

TLAPS checks the following for every value of the constants that satisfies the
modules' ASSUMEs, in particular for any number of handlers, users, archives and
connections. The assumptions are the types of the constants, that `None` is none
of the values it stands beside, and that the sets a proof counts are finite: the
requests in flight of `Guild` and `LinkArchive` (`Workers`, of which there is at
least one), the archives and chunk indices of `LinkArchive`, and the key packages of `MlsDelivery` (`Packages`).

Each invariant theorem follows from `Init => Inv`, `Inv /\ [Next]_vars => Inv'`
with one step per action, and `Inv => P`, combined by PTL; an action property
from the invariant and one step of `Next`. TLC checked the invariants on the
instances of section 4 before they were proved. The recurring difficulty is that
a handler acts on what it read some statements ago, so none of the properties is
inductive as it stands: each invariant says what a request in flight still knows
of the tables, and that no other step takes that from it.

| Module | Theorem | Property | Invariant beside the types |
|---|---|---|---|
| `LinkArchiveProofs` | `FinalizedIsBound` | `FinalizedBound` | `RowsOK`, `JobsHaveArchives`, `WritesInPlan`, `MarksBound` |
| | `ChunksFrozen`, `LifecycleIsMonotone` | `ChunkRowsFrozen`, `LifecycleMonotone` | the same, and what a step may do to a row |
| | `AcksAreReady` | `AckReady` | `AckInv` |
| | `ChunksAreServed` | `RowsHaveObjects` | `ObjectInv` |
| | `SupersedeSpares` | `SupersedeSparesActive` | `SupersedeInv` |
| | `AdmissionHolds` | `AdmissionHeld` | `QuotaInv`, `StagingInv` |
| `IdentityProofs` | `ClaimsAreSingleUse`, `ResultsAfterRegistration` | `ClaimSingleUse`, `ResultAfterRegistration` | `ClaimInv`, `ResultInv` |
| | `ReceiptsAreKept` | `ReceiptsKept` | `AppendStored` |
| | `LogIsSound` | `SoundUnlessFaulted` | `CleanLog` |
| | `ProofVerifies` (for every tree) | | `TreeOK`, the fringe of a tree |
| | `TreeMatchesRFC6962` | `TreeIsRFC6962` | `AddedInv` |
| | `VerifyIsExact` | `VerifyExact` | `AddedInv` |
| | `RootIsMTH`, `ProofIsPATH`, `VerifyUnique` (for every tree) | | `TreeOK` |
| `GuildProofs` | `OwnerIsCreator`, `AdminsAreOwnersChoice` | `SoleOwner`, `AdminsByOwner` | `JobInv`, `OneFounder` |
| | `BannedAreOut`, `MutesHold` | `BannedIsOut`, `MuteHolds` | `SanctionsInv` |
| | `LimitsKept` | `LimitsHeld` | `LimitsInv` |
| `HubProofs` | `HubIsConsistent`, `OutsidersAreCut` | `HubConsistent`, `OutsidersCut` | `Registered`, `ExposedCovered`, `JobsOK` |
| `SessionProofs` | `ChallengesAnsweredOnce` | `ChallengeOnce` | `NonceInv` |
| | `RevokedDevicesCut` | `RevokedIsCut` | none |
| | `BannedAccountsCut` | `BannedIsCut` | `BanInv` |
| | `AdmissionsKept` | `AdmissionsBounded` | `AdmissionInv` |
| `VoiceRoomProofs` | `ImplementsPool` | `GivenOnce` | `PackagesOK` |
| | `OwnerIsTold` | `LowIsTold` | `SuppliesOK` |
| | `PagesAreComplete` | `PagingComplete` | `GroupsOK`, `ReaderOK` |
| | `CommitsAreCovered` | `InfoCoversCommits` | `CoverInv` |
| | `BarredStayOut` | `BarredAreOut` | `GateInv` |
| | `SessionsStartFresh`, `LiveGroupsSpared` | `SessionStartsFresh`, `LiveGroupSpared` | `RoomInv` |
| `AdminProofs` | `OwnersKept` | `OwnerKept` | `OwnerInv` |
| | `BootstrappedOnce` | `BootstrapOnce` | `ClaimInv` |
| | `SettingsKept` | `SettingsAgree` | `CacheInv`, `DefaultInv` |
| `ChannelsProofs` | `ObjectsFollow`, `TreesGoWhole` | `ObjectsFollowRows`, `TreeDeleted` | `Tables`, `JobsOK`, `AttsApart`, `Followed` |
| | `MovesKeepOrder` | `MoveKeepsOrder` | the same and `MoveInv` |
| | `GuildQuotasHold` | `GuildQuotaHeld` | `JobsOwn`, `QuotaInv` |

`TypeCorrect` of `LinkArchive`, `DeviceLink`, `Guild` and `Hub` is a theorem as well;
the other modules' types are part of their invariants.

The arguments:

* Archives. A job that is about to set the flag of finalize must know that the
  binding still holds (`MarksBound`), and it does because the chunk rows it saw are
  frozen. `RowsOK` ties expiry and deadline. `QuotaInv` and `StagingInv` count the
  inits that have passed a check along with the rows, so that an insert only moves
  its row from one side of the sum to the other; a check that passes finds the rows
  below the limit and at most all the other workers passed. None of the following has
  a hypothesis about failures, hashes or overlaps; what may go wrong is recorded in
  history variables, and each proof shows that nothing else can:
  - `AcksAreReady`: an upload token exists only once init has tried its transition,
    and every UPDATE that would have moved the row and failed has put the archive
    into `stalled`. So the state of any other archive arrives (`AckInv`).
  - `ChunksAreServed`: an object that was stored goes only while a job removes its
    archive, or by a rollback. A removal ends with the row, or fails and leaves
    behind in `dropped` what it had taken (`RemovalEnds`); `ObjectInv` carries this to
    the uploads and confirms that are about to insert a row.
  - `SupersedeSpares`: what an init lists was not touched within the grace window;
    whoever touches it later is recorded for exactly the inits that have it on their
    list (`ToSpare`).
* Device keys. `ClaimInv` says that a claim is in one place at a time: in the
  nonce table, in one job, or spent. `ResultInv` says that a job about to store a
  result has registered the device.
* Transparency log. An append in its second phase has its entry in the table
  (`AppendStored`), and no entry is ever replaced. `LogIsSound` needs more, that an
  inclusion proof of any leaf of any tree verifies against the root of that tree
  (`ProofVerifies`). The functions of `MerkleTree` recurse over levels, and the
  library's induction theorems take an operator, so induction is over a set here:
  `NatClosed` shows from the well-foundedness of `Nat` that a set of naturals which
  holds 0 and each successor holds every natural. The recursions and folds are
  shown to exist as one function with one `Body` (`Recursion`) and give a step lemma
  each (`FlattenSteps`, `RestSteps`, ...). `TreeOK` says that the fringe holds the top
  of a complete subtree for every bit of the size; `AppendOK` that an append keeps
  it, `RootIsTop` that `Root` gives the same hash as the topmost row of the levels
  that `Proof` flattens, and `VerifyProof` climbs those rows. `CleanLog` says that
  while nothing has failed the tables have no gap, so that the tree in memory, the
  one `RecoverFromDB` rebuilds (`RecoveredTree`) and the table stand for one sequence
  of leaves.

  For `TreeMatchesRFC6962`, every node of every row of the levels is the RFC's hash of
  the run of data under it (`NodeIsRun`): a node with two children is over a run that
  `Split` divides where the children meet, a promoted one is over the run of its
  only child. So the root is `MTH` (`RootIsMTH`), and climbing from a leaf shows the
  siblings that `Proof` collects to be the audit path (`ProofIsPATH`). What `VerifyProof`
  rejects follows from its loop taken from the root down: hashes are injective, and
  a side of a node that is given determines leaf and path (`VerifyUnique`), so that an
  accepted proof is the tree's own, for the leaf at that index. A hash tells over how
  many leaves it is (`HashSize`), and an added leaf changes the number under some
  sibling of every other leaf (`PathGrows`): a proof and a root of different trees never
  pass. The only hypothesis is the one of `MerkleTree`, that hashes do not collide.
* Guild. `JobInv` bounds what each job may still write: a pending level is below
  the rank that was read, a pending removal does not aim at the owner.
  `OneFounder`: one job at most can make the owner. `SanctionsInv`: the bans or
  mutes in force that a request did not see are newer than its look. `LimitsInv`
  counts the requests that hold a use of an invite and have not joined, and those
  that compared `member_count` and have not incremented it.
* Hub. `Registered`: a connection is in `h.clients` exactly while its read pump is
  between `Register` and the end of `Unregister` (a ghost stays in for ever).
  `ExposedCovered` is `OutsidersCut` extended to connections that passed the access
  check and are not subscribed yet. So the targets a kick takes from `h.clients`
  include every connection that is or can still become a subscriber.
* Sessions. `RevokedIsCut` is inductive: a connection leaves the targets of a request
  only closed, or stranded by its panic. `NonceInv` follows a challenge from its row to the job that consumed it
  and to the session, at each point its only holder. `BanInv` says which sessions a
  ban swept or is about to, and which bans a request had seen to be over.
  `AdmissionInv` counts the requests that hold a use of the invite.
* Key packages and groups. Uploads map to `Offer`, the UPDATE of
  `ConsumeMLSKeyPackage` to `Give`, the purge to `Drop` of the rows nobody was given,
  and every other step to a stutter. For `LowIsTold`, between two uploads the
  packages that are left only get fewer, so that the last count sees too few.
  `CoverInv` is `InfoCoversCommits` extended to the requests between the two
  statements.
* Voice. `GateInv`: a bar set behind the back of a token request is one of the
  checks it has passed. `RoomInv` reads the webhooks under way as the future of the
  tracker: in the end it holds the room (`TrackerSound`, and `TrackerFull` unless a
  restart lost it), so that no departure of the present session looks like the last
  one (`NotTheLast`); and the group of a session that is over has a goroutine, or a
  webhook that will start one, to delete it (`GroupEnds`).
* Operators. A job that nobody crossed still knows the row it has read.
* Channels. The tree that a deletion listed is whole or was entered since; the keys
  it took are those of every older attachment of the tree; what is being unlinked is
  not live; and the row that a failed presign withdraws never had an upload URL
  (`JobOK`, for every job, and kept by every step of the others: `KeepsJob`). For
  `MovesKeepOrder`, `MoveInv` says of a move that nobody has crossed what its two
  snapshots are: while it waits it has listed all that a statement of this moment
  would match and perhaps siblings that have gone since, and what it has shifted is
  what it would shift now; no other transaction holds the same rows (`HeldApart`). So
  when it commits it does what one statement would have done, and the gap it has
  closed is at a position no sibling has: both shifts are one to one on every scope
  of the guild. The list of victims a
  presign evicts is out of date by then; `QuotaInv` therefore looks ahead: whichever
  of the presigns that have listed evict now, what is left exceeds the quota by no
  more than the rows of the other pending presigns weigh.
* Sums. `GuildQuotaHeld` and `AdmissionHeld` speak of iterated sums over sets. `Total`
  is the same sum without recursion, the number of pairs of an element and a number
  up to its size, so that the library's facts about cardinalities apply to it.
  `SumIsTotal` shows that the two agree: of the sets on which they differ, one of
  least cardinality would have an element whose removal leaves them different.

## 6. Only model-checked

* Liveness (`EventuallyCollected`, `EventuallyUnregistered`), which is outside the
  provers' reach together with ENABLED.

## 7. Known deviations

`log_head_lost` is a run because the comment it contradicts is a statement of
safety: `transparency/service.go:155` calls a head that was not persisted a gap
that "is safe". After a restart the tree lacks an entry that the table holds,
the next append takes an index that exists, its INSERT fails, and memory and
table disagree from then on.

`moves_collide` is the other: `db/channels.go:243-244` says that `MoveChannel` shifts
siblings to "maintain a contiguous, collision-free position sequence within each
scope". The make-room of one move sees neither the uncommitted shift of another nor
a reason to wait for it: a sibling that the other is shifting into the new position
is not moved on, and both commit. `MoveKeepsOrder` is what remains.

The modules state further promises of comments that the code does not keep. Each
can be reproduced by checking the definition with the configuration named here.

| Statement | Configuration | What happens |
|---|---|---|
| `RowsHaveObjects` without the rows of `dropped` | `LinkArchive.cfg` | an upload or confirm with a wrong hash for an index that has its chunk rolls back by deleting the key, which holds the earlier upload's object (`link_archives.go:622` "Roll back the backend write"); and a purge that stops between objects and row leaves rows without objects (`link_archives.go:917` says a crash leaves "orphan objects rather than orphan DB rows") |
| `ReadableBytesMatch` | `LinkArchive.cfg`, `Backend = "postgres_bytea"` | an upload stores its object and stops; another body for the index keeps the stored object but inserts its own hash; finalize accepts both (`link_archive_chunk_blobs.go:11`) |
| `AckReady` without the archives of `stalled` | `LinkArchive.cfg` | a failed advisory transition leaves a finalized archive that ack refuses (`link_archives.go:256` "Failure is non-fatal") |
| `AdmissionHeld` with `Overtaking` zero | `LinkArchiveAdmission.cfg`, two workers | two inits count before either inserts (`link_archives.go:66`) |
| `NeverPreempted` | `LinkArchive.cfg`, as a PROPERTY | an init lists an archive, another request refreshes it, and the init deletes it all the same (`link_archives.go:60-61` "so a genuinely-active session is never preempted"); and near the hard deadline the capped expiry does not tell when an archive was touched (the second disjunct of `Abandoned`) |
| `ExpiredStaysExpired` | `LinkArchive.cfg`, as a PROPERTY | a request that looked the archive up before it expired refreshes it afterwards (migration 000031: "rows are unreachable once either has passed") |
| `OrphansRetried` | `LinkArchiveAdmission.cfg`, `Faults = TRUE`, one user and one archive | once the row is gone nothing names an object whose delete failed (`link_archives.go:987` "will retry orphans on its next tick") |
| `FirstScanWins` | `DeviceLink.cfg` | a QR scan and a typed code that arrive together mint a claim each (`devices.go:467` "the first scan wins") |
| `LeavesMatchSize` | `Transparency.cfg` | after a failed entry insert the head counts a leaf that the table does not have (`tree.go:61` "len(hashes) must equal Size()") |
| `ProofsVerify` | `Transparency.cfg` | an append between GetProof's critical sections (`service.go:170`) |
| `Hub!RevokedIsCut` | `Hub.cfg` | a connection that passed `IsDeviceActive` before the revocation registers after `DisconnectDevice` took its targets; `revokeAllDevices` disconnects none (`devices.go:325`, which calls the disconnect best-effort) |

Found while modelling, without a statement to check: `member_count` is never
decremented and does not count the owner (`db/servers.go:198` "-1 on leave");
two concurrent bans make two rows and an unban lifts the newest only; a claim by
a member burns a use of the invite; `createServer` that stops between its
statements leaves a guild without an owner.

The exceptions that the properties of the newer modules name are reachable, and
each is a race or a failure that the code does not close:

* Sessions: a verify between the two statements of `instanceBan` gets a session
  that nothing ends. When the deletion of the sessions fails, the ban is stored all
  the same (`instance.go:181` drops the error, `admin.go:565` logs it), and every older
  session goes on, connections opened with it after the timer included. A close frame
  of `DisconnectDevice` that meets another writer panics (`hub.go:279`), and the
  connections it has not closed stay open although `devices.go:327` wants them gone "so
  it cannot keep streaming messages until the next reconnect" (it calls the disconnect
  best-effort). A recovery by `register` does not look for a ban; an invite
  is used up by a registration that fails afterwards.
* Key packages and commits: an upload that is retried stores its packages twice;
  commits are not kept apart by group type; a page that ends within an epoch
  hides the rest of that epoch from a client that asks for what follows.
* Voice: a token stays valid after a kick or ban, and the evicted user may come
  back with it; a mute and the instance ban of the member route evict nobody;
  every lookup but that of the membership fails open, and a channel that is not
  found skips the guild's checks altogether.
* Operators: two owners who demote each other at once leave none; two claims that
  overlap both succeed; a service identity that a request was given may be
  replaced by an overlapping one; updates that cross leave an old configuration in
  the cache; two writes of a default leave two; a PUT of an unknown template as
  default leaves none.
* Channels: `shiftPositions` does not look at the guild, so that a move shifts the
  channels of other guilds; a channel created during a move may get the position of
  another; `moveChannel` nests categories, which `DeleteChannelTree`
  (`db/channels.go:69`) takes to be impossible, and `createChannel` takes a parent of
  any type and guild; a presign may be answered with a URL whose row a concurrent one
  has just evicted.
* Objects of attachments: `deleteServer` (`servers.go:389`, `db/servers.go:137`) deletes
  the guild's row, the schema's ON DELETE CASCADE takes channels and attachments with
  it, and no object is deleted, without any race or failure. Uploads after the
  deletion of a row, failed deletions and rows inserted between the reading of the
  keys and the DELETE leave objects behind too, although `db/channels.go:28-30`
  promises cleanup "without a race against the cascade". Nothing comes back for any
  of them: the "supervised purger" that `attachments.go:332-334` ("retries the blob
  removal on a schedule"), `attachments.go:233-235`, `db/attachments.go:15` and migration
  000033 ("can verify Backend.Delete success before dropping the row") count on does
  not exist; the only background loop over attachments is the retention loop of
  `cmd/hush/main.go`, which looks at live rows.

## 8. Not modelled

* Guest tokens (no session row), `federated-verify` (refused), MLS credentials,
  pending welcomes (nothing stores one), password changes and resets, attachment
  downloads, message history, typing, read markers, the audit log and listings:
  single reads and writes without a decision that another request can spoil.
* System channels, which no request moves or deletes.
* LiveKit, outside the process; its part in `VoiceRoom` is external.
* Discovery, GIF search, invite pages and the handshake only read. Rate limits,
  headers and metrics are token buckets and header settings; the effect of the
  WebSocket limit on a connection is in `Hub`.
* Configuration files, migrations and start-up are wiring; the cleanup loops of
  `cmd/hush/main.go` are actions of the modules they serve. Federated sessions are
  refused by `RequireAuth` and by the WebSocket handler.
* Cryptography, encodings and the contents of messages.
