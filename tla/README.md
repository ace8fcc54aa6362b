# Models and proofs of CIRCULOOS-identity

TLA+ models of the identity platform in this repository, the TLC runs that check
them, and TLAPS proofs about them. Sources are named from the repository's root.

## 1. The system

An issuer prepares a credential, signs it in a wallet and has the server mint it;
the holder gets a mail with a link and an OTP, claims the credential, keeps it in
a MetaMask snap and presents it to a verifier. Contracts on the Alastria network
say who may issue and what was issued or revoked.

| Part | Code | State it keeps | Operations |
|---|---|---|---|
| Issuance workflow | `apps/issuer/src/services/issuanceService.ts`, `controllers/issueController.ts` | issuances, VCs, VPs, receipts in the store | prepare, mint, finalize, revoke |
| Credential status facet | `apps/contracts/contracts/{facets/CredentialStatus,libraries/LibCredentialStatus.sol}` | a record per VC hash, events | issue, revoke, batchRevoke, update |
| Trusted issuer facet, ownership | `LibTrustedIssuer.sol`, `LibOwnership.sol` | mapping and list of issuers, owner | add, remove, pages, transferOwnership |
| Event index | `apps/issuer/src/services/blockchainSyncService.ts` | indexed credentials and issuers, pending names, sync marks in memory and database | startup, incremental and forced passes, listeners |
| Diamond | `diamond/*.sol`, `LibDiamondCut.sol` | selectors and facets | cut, loupe, fallback |
| Attestation batches (chain) | `LibAttestationBatch.sol` | batches, attesters | submitBatch, verifyInclusion |
| Wallet login | `nonce.service.ts`, `authController.ts` | nonces, sessions | nonce, verify, role |
| Secure tokens and OTPs | `libs/common/src/auth` | revoked tokens, OTPs and attempts | issue, verify, revoke, cleanup |
| Challenges, presentations | `apps/verifier/src/services/challengeService.ts`, `routes/vp.ts` | challenges | generate, validate and consume, clean up |
| Presentation batches | `batchService.ts` | pending VPs, batches, Merkle nodes, mappings | addVP, createBatch, proofs |
| Issuer's database | `libs/common/src/storage/sqljs-storage.ts` | a SQLite database in memory, its file | open and migrate, read, write and save |
| File store | `libs/file-store` | a JSON file per path | writeAtomic, loadAll |
| Hybrid store, issuer cache | `hybridCredentialService.ts`, `trustedIssuerRegistryService.ts` | caches of the chain | sync, read |
| Snap | `apps/snap/src` | the holder's credentials | save, update, delete, export, present |
| Web | `apps/web` | forms, local storage, lists of credentials | calls the servers and the snap |
| Deployment | `docker-compose.yml`, `deploy-diamond.ts`, `dev-runner.mjs`, `blockchain.schema.ts` | a chain in memory, a volume with the diamond's address, a checkpoint | up, deploy, restart, down; services read the address as they start |

How they interact: the servers are single-threaded Node processes; a request
handler runs until it awaits the network or the store, and other handlers run
meanwhile. The servers call the chain by JSON-RPC, learn of its events by queries
and by polling, and send mail. The hard behaviours are therefore handlers that
use after an await what they read before it, steps after which a crash leaves the
store, the chain and the mailbox in disagreement, overlapping or lost
synchronisation, expiry racing an answer, and in the contracts the agreement of
redundant structures (a mapping and a list, storage and events) under any
sequence of transactions. `PROJECT.json` lists them one by one under `hazards`.

### What makes each component correct

| Part | What is hard | What must hold |
|---|---|---|
| Issuance workflow | every handler writes back a row it read before it awaited the registry, the chain or the mail | a credential that is ISSUED has its signed document; proofs come from issuers the registry vouched for; a claim needs the mailed OTP; no state is undone |
| Credential status facet | one record per hash, changed by single and batched transactions, mirrored in events | revocation is for good; batches mean what their loop means; events suffice to rebuild the records |
| Trusted issuer facet | a mapping and a swap-and-pop list that must agree | the list is the mapping; pages cover the list; events suffice to rebuild it |
| Event index | overlapping passes, live listeners, restarts, failed queries, all on the same rows | no block is skipped; the mark never runs ahead of the rows; withdrawals and additions on chain show up and stay |
| Presentations | single use and expiry of challenges; batches made by count, by interval and after failures | one use per challenge; what got a row is kept, batched once and has a proof |
| Diamond | a selector table with packed arrays, cut by batches | selectors route to the facet that was cut in last, and loupe lists them |
| Wallet login, tokens | nonces and tokens consumed by concurrent requests, deleted by timers | one use; an attempt limit that counts; what was asked for is what is answered |
| Claim page | calls that outlive the page, a store that outlives both | wrong codes are counted whatever comes late |
| Wallet page | loads answer the account and the closure they were asked with | the list shown at rest is the connected account's, unless the last load failed or came too late |
| Deployment | a deployer that may stop anywhere, a chain that forgets, a volume that does not | nobody is told of a new diamond that lacks facets or its first issuer |
| Verifier's issuer cache and index | whole files read, awaited upon and written back by passes and listeners | a pass skips nothing, a mark passes nothing unwritten, an answer rests on the registry |
| Issuer's database | the file is emptied and rewritten by every write; several calls open the database at once; a migration may stop in the middle | what was answered is in the file, whole, or the file is unreadable or empty; overlapping starts lose nothing; columns are missing only for a reason |
| File store | a temporary file named after the millisecond | a reader finds a whole object or none unless two writers share a name |
| Snap | read-modify-write of the whole state, with a dialog in between | a call changes what it was asked to change, or what it read too early |

## 2. Modules

| Module | Extends | What it is |
|---|---|---|
| `IssuanceWorkflow` | | the four operations of the issuance service, cut at their awaits |
| `CredentialLifecycle` | | abstract: the four states of a credential on chain, as a client of the contract sees them |
| `CredentialStatus` | `CredentialLifecycle` by INSTANCE | the facet's records and events; refines the lifecycle |
| `TrustedIssuers` | | mapping, list, events and owner of the registry |
| `EventSync` | | passes, listeners and the tables they write |
| `Presentations` | | challenges, routes, batches and Merkle trees of the verifier |
| `FacetTable` | | abstract: a table from selectors to facets, changed by whole cuts |
| `Diamond` | `FacetTable` by INSTANCE | the packed arrays of the diamond, cuts, the fallback, ownership, attestation batches; refines the table |
| `Clock` | | seconds, shared by the next three |
| `WalletLogin` | `Clock` | nonces, logins, roles and sessions |
| `SecureToken`, `SecureOTP` | `Clock` | tokens accepted once; codes under a rate limit |
| `ClaimPage` | | the page behind a mailed link, with its store and its calls |
| `SnapStore` | | the methods of the snap that write |
| `WalletPage` | | the holder's page: two lists, loaded from the snap and from the issuer |
| `Deployment` | | containers, chain, deployer, and the address on its way to the services |
| `IssuerCache` | | the verifier's list of issuers: passes, listeners, file and table |
| `Verification` | `IssuerCache` | `POST /verify` while the cache and the registry change |
| `HybridStore` | | the verifier's index of issuances and revocations |
| `Database` | | the issuer's sql.js adapter: opening, migration, saves of the whole file, crashes in them |
| `FileStore` | | `writeAtomic` and `loadAll` on one path |
| `MC*` | its module or modules | symmetry sets, checks that only TLC can make; `MCContracts`, `MCAccess` and `MCVerifier` put side by side parts that share nothing but a clock |
| `IssuanceWorkflowProofs`, `EventSyncProofs`, `PresentationsProofs`, `DiamondProofs` | its module, TLAPS | theorems |
| `ContractsProofs` | `MCContracts`, TLAPS | theorems about `CredentialStatus`, `TrustedIssuers` and `Deployment`, and about them side by side |
| `AccessProofs` | `MCAccess`, TLAPS | theorems about `WalletLogin`, `SecureToken`, `SecureOTP`, `ClaimPage`, `SnapStore`, `WalletPage` and `Database`, and about them side by side |
| `VerifierProofs` | `MCVerifier`, TLAPS | theorems about `IssuerCache`, `Verification`, `FileStore` and `HybridStore`, and about them side by side |

Definitions under a comment that starts with "Fault:", or in a section of that name, are not part of any
specification. They are plausible mistakes in the code, each of which makes one
property fail when it takes the place of the definition it is a variant of; `PROJECT.json` lists them under `mutants`. They show that the properties depend
on the code and not on the shape of the model.

### IssuanceWorkflow

State: `issuance` (table `issuances`), `vcs` (the document saved under `vc.id`),
`receipts` (the `.onchain` documents), `trusted` and `recorded` (registry and
status facet, as far as the workflow sees them), `req` (the handlers in flight with
the locals that live across an await), `otps`, `now`. `attested` and `handed` are
history: what the registry has answered, and which token and OTP went to whom.

| Code | Actions |
|---|---|
| `prepare` (also `authorizeIssuerAddress`) | `PrepareAuthorize`, `PrepareSave` |
| `mint` | `MintLoad`, `MintTrusted` / `MintRefused`, `MintSaveVC`, `MintSaveRow`, `MintRecorded` / `MintNotRecorded`, `MintSaveReceipt`, `MintMailed` / `MintMailFailed` |
| `finalize` | `ClaimLoad`, `ClaimLoadVC`, `ClaimSaveVP`, `ClaimSaveRow` |
| `revokeCredential` (controller) | `RevokeLoad`, `RevokeSaveRow` |
| surroundings | `TrustChanges`, `Restart`, `Tick` |

`issueCredentialSimplified` is `prepare` and `mint` in one request, the same steps in
the same order, and needs no action of its own.

`StoreYields` is how awaits of the store behave. With the sql.js adapter a promise of
the store settles within the turn that asked, so no other handler runs between two
store calls: `FALSE` is the program as deployed. `TRUE` lets other handlers in at
every await, as the interface `IStorageAdapter` allows and another adapter may do.
The passing run and the proofs take the finer interleaving (the proofs any), so what
they show does not rest on the adapter; the violations take the coarser one, so
they are reachable as deployed.

Assumed: signatures and HMACs cannot be forged, so a signature is the address it
recovers to; nobody but the server submits the hash of a draft, which is not public;
the server runs in production mode, in which `mint` leaves the OTP out of its answer
(`issuanceService.ts:268`); `prepare` always answers with its own, and the model hands that out.

### CredentialLifecycle, CredentialStatus

`CredentialStatus` has `statuses` (`ds.statuses`), the event `log` and the block
`timestamp`. Its actions are the transactions that do not revert:
`IssueCredential`, `RevokeCredential`, `BatchRevokeCredential`,
`UpdateCredentialStatus`, and `NextBlock`. The abstract `CredentialLifecycle` has one
state and one owner per hash and no records, times or events; the refinement mapping
is `LifeOf`, and `FollowsLifecycle` says that every step of the facet, a batch as well,
is a step of the lifecycle or changes none of it. `BatchIsTheLoop` (in the MC module)
checks that the one-step batch, accepted and written as a set, is what the loop of
single revocations with its revert on the first bad hash computes.

### TrustedIssuers

`trustedIssuers` (mapping), `issuerList`, `contractOwner`, `events`. Actions:
`AddTrustedIssuer`, `RemoveTrustedIssuer` (with `SwapAndPop`), `TransferOwnership`;
`GetIssuers` is the paging view, with the overflow of `offset + limit` at `MaxUint`
(the width is a constant; a run has a small one). The run lets the events end, which is
why it does not check deadlock: `MaxEvents` bounds them and nothing else happens.

### EventSync

State: the chain (`log`, `head`), the tables (`creds`, `issuers`, `named`, `pending`,
`dbBlock`), the service's memory (`memBlock`, `syncing`, and the provider's `seen`),
`pass` (each `initializeSync` or `syncIncremental` in flight: its await, its range,
the events still to do), and the listeners (`listeners`, `cursor`, `handlers`).

| Code | Actions |
|---|---|
| `initializeSync`, at startup or forced | `Restart`, `Init`, `StartForced` (to its first await) |
| `syncIncremental` | `StartIncremental`, `NothingNew` |
| `syncHistoricalEvents` | `RangeKnown`, `SyncIssued`, `SyncRevoked`, `FindAdded`, `SyncAdded`, `FindRemoved`, `SyncRemoved`, `Finish`, `Fail` |
| `startEventListeners` | `Deliver`, `RunHandler` |
| `POST /issuers/prepare` | `PrepareIssuer` |
| the network | `Mine`, which emits any events the facets may emit |

A step runs from one answer of the node to the next request: the store answers in
the same turn. The provider's `getBlockNumber` never goes back (`seen`), its polling
of each event filter may miss events but repeats none.

### Presentations

State: the two SQLite databases (`challenges`; `pending`, `batches`, `mapping`), the
clock, what was `drawn` and `signed`, whether the process is `up` and whether it could
start its batch service (`batching`; without one it serves the routes all the same,
`index.ts:213`); `uses` and `queued` are history. better-sqlite3 is synchronous and the handlers await only
promises that are already settled, so a request is one action: `GenerateChallenge`,
`VerifyVP`, `VerifyVPQuick`, `Refuse` (either route, after its challenge was consumed);
timers are `CleanupExpired` and `BatchTimer`. `CreateBatch` is the transaction with
its rollback, and may fail of any error of SQLite; a rejection that nobody catches ends the
process, which `Restart` starts again, as it does after a stop from outside.

A presentation is accepted whatever becomes of its batching (`Queue`): the route logs what
`addVP` throws, before or after its insert, and skips a service that is not there
(`vp.ts:306-318`; `vp-batch-integration.spec.ts:372` wants it so). So an accepted
presentation may never be in a batch. What the verifier can keep is what got a row, and
`QueuedIsKept` says that it does. The service of the challenges is taken as there: without
it the routes check none.

`Levels`, `GenerateProof` and `ComputeMerkleRoot` are the tree, the proof
and the facet's check as functions; hashing is a free pair, so a proof verifies only
if it is the right one. The service hashes with sha256 and the facet with keccak256:
`ProofsVerify` is about the order and the choice of the nodes only, and no root is
submitted to the chain by the code as it is.

`index.ts` starts both services but has the registration of these routes commented
out; at this commit they are served by the tests' server only.

### FacetTable, Diamond

`ds` is the diamond's storage as it is packed: each selector's facet and position, each
facet's selectors and position, the list of facets. A call runs if the fallback finds a
facet and the code there knows the selector (`Runs`, with `Code` a constant). The loops
of `diamondCut` are taken an iteration at a time, so that cuts have any length: `tx` is
the cut in progress, during which nothing else happens, and holds what a revert
restores.

| Code | Actions |
|---|---|
| `diamondCut` | `DiamondCut`, `NextFacetCut`, `AddSelector`, `ReplaceSelector`, `RemoveSelector`, `InitializeDiamondCut`; a failed require is `RevertCut` |
| `transferOwnership` | `TransferOwnership`, to anybody, address(0) included |
| `LibAttestationBatch` | `AddAttester`, `RemoveAttester`, `SubmitBatch` |

`FacetTable` has one table and a draft of it. `FollowsTable` says that what the fallback
looks up changes as such a table does, all of a cut or nothing. `_init` is nothing or
`DiamondInit`, which sets interface ids that no function acts on.

### WalletLogin, SecureToken, SecureOTP

`Clock` counts seconds; each service takes its own steps. `WalletLogin` has the rows of
`siwa_nonces`, the answers given to pages (`challenged`), the sessions in browsers, and
the chain and its index as a login sees them. `VerifySIWA` is one step, since the store
answers within the turn; only the sync that `determineRole` forces for an address that
is not listed comes later (`SyncedLogin`). `GenerateNonce` reads the clock twice, as the
code does. `SecureToken` and `SecureOTP` are the two services of `libs/common/src/auth`,
with their timers; a token's claims may carry their own times, because the caller's
claims are spread last. No server uses these two yet.

### ClaimPage

`step`, `otp`, `otpAttempts` and `isLoading` are the zustand store, which outlives the
page until the document is loaded again; `mount` and the two sign-in flags belong to one
showing of the page; `calls` are requests whose answers still come, whoever sent them.
Actions: `Reload`, `Remount`, `AccountChanges`; `Authenticate`; `EnterOtp`, `ResendOtp`,
`HandleSign`; the timer (`TimerEnds`); and the answers `TokenInfoAnswered`,
`SignInAnswered`, `Resent`, `FinalizeAnswered`, `FinalizeFails`. The issuer's side is
reduced to `claimed` and `expired`, with the order of its checks. `wrong` and
`overlapped` are history: the wrong codes refused since the attempts were reset, and the
claims that may be refused too late to be kept back, because they were sent while another
was under way, or were under way when a resend reset the attempts.

### SnapStore

`vcs` is the stored state, `running` the call each page has in progress with the state
it read. Each method is a read, a dialog where the code asks, and a write of the whole
state (`AskToSave`, `AskToDelete`, `ReadToUpdate`, `ReadToClear`, `Confirm`, `Refuse`,
`Write`). `changed` is history: what others wrote since the read.

### WalletPage

`account` is wagmi's, `snapInstalled` and `snapVCs` are MetaMask's; the rest are the states of `page.tsx` and of `use-circuloos-snap.ts`.
`requests` is the bag of calls without an answer, each with what its closure saw: the account, and
whether the snap was known.

| Code | Actions |
|---|---|
| the effects | `AccountsChanged`, `SnapChecked` |
| `loadSnapCredentials`, `loadBackendCredentials` | `RefreshSnap`, `RefreshBackend` (or the effects), `SnapLoaded`, `BackendLoaded` |
| `handleInstallSnap` | `HandleInstallSnap`, `Installed` |
| `handleSaveToSnap` | `HandleSaveToSnap`, `Installed`, `FullVCFetched`, `SavedToSnap` |
| `handleClearSnap` | `HandleClearSnap`, `SnapCleared` |

`behind` is history: the last call that wrote the list failed, was for another account,
or was the empty list of a closure that had seen no snap. Where it is false and nothing
is under way, `SnapListIsCurrent` holds the list against what the snap holds.

### Deployment

`node`, `boot` and `diamonds` are the chain: how far the diamond at each address is. An
address does not tell its chain: it comes from the creator's account, which is the same on
every chain, and that account's number of transactions, which starts from none on each
(`deploy-diamond.ts:46-56`). So an emptied chain gives the old addresses again, and a volume or a
service may hold the address of a diamond that is only being built. `fresh` is history: who
holds an address that was made on the running chain. `deployer` and `line` the container that runs
`deployDiamond` and where it is, `config` the volume's file, `checkpoint` the deployer's
own, `wanted` what docker compose still has to start, `running` the address each service
resolved.

| Code | Actions |
|---|---|
| `docker compose up`, of all or of some services | `Up`, then `Starts`; `UpHardhat` |
| `restart: unless-stopped` | `Restarts`, `NodeRestarts` |
| `docker compose down` | `Down` |
| `deployDiamond` | `Transacts`, `UpdateCheckpoint`, `CutsConfig`, `SaveToSharedConfig`, or `DeployerFails` anywhere |

A diamond gets any address that this chain has not given yet, since failed runs and the
owner's own transactions move the number on. A chain that is emptied under the deployer lets
it go on: its calls to a diamond that is gone do nothing, or fail if another contract is there.

`Script` is the order of its awaits, and what `PublishedIsComplete` depends on. That property
is about the addresses in `fresh`: the deployer publishes a diamond only when it is complete.
It cannot be about the others (section 5). The env
files it also writes stay in its container, where nothing reads them.

### IssuerCache, Verification

`state` is the file, `rows` the SQL table, `passes` the calls of `sync` with the state they
read, `queue` and `handling` the events given to the listeners. A pass is `BeginSync`,
`QuerySync`, `SaveSync` or `FailSync`; a listener `HandlerReads`, `HandlerWrites`. The
service's `stop` and a crash are `StopCache`. `Verification` adds one request: `PostVerify`
and then `TrustAnswered` or `TrustUnanswered`, with anything of the cache in between.
The signer is compared with `proof.verificationMethod`, and only if there is one
(`verify.ts:124`); `credential.issuer` is compared with nothing. So `SignatureOk` says that a
signature recovers to somebody, and `ValidIsTrusted` that this somebody was trusted, not that
it is the issuer whom the credential names.
`server.onchainService` is read by the route and set nowhere, so the checks behind it
are never made; they are not modelled.

### HybridStore

Per kind of event an index file, files, and a table. A sync is `StartSync`, and for
issuances and then revocations `ReadIndex`, `QueryEvents`, `StoreEvent` and `StoreRow` per
event and `EndSync`; `SyncThrows` ends it anywhere, `Listen` and `ListenerRow` are a listener,
`StopHybrid` a stop or crash. An event is written to its file and then, after an await, tried
in the table (`TryRow`): whatever SQLite throws is ignored (`hybridCredentialService.ts:107-114`),
a revocation without its credential's row among it, and the service may run without a
table. So the mark of an index may pass events without a row, and `IndexIsComplete` claims of
the table only that what it has is in its file. The registries it listens to are not in this repository; they are taken to emit
one event per credential and kind, the issuance first.

### Database, FileStore

`Database` is what lies below one store call of the issuer's models. `file` and `db` are
what the file and `this.db` hold: nothing, no bytes, a part of a database, or a database,
as its columns, whether `issuances` has rows, and the set of calls whose effect is in it.
`jobs` is the microtask queue: the rest of `init` for a call that did not find the
adapter initialized, then the rest of the call itself.

| Code | Actions |
|---|---|
| `init` | `CallMethod` (up to its await), `InitSqlJs` (the module is loaded), `InitSchema` (load or create, tables, columns, indexes) |
| the methods that write | `SaveVC`, `SaveVP`, `SaveIssuance`, `WriteNonce`, `WriteIndex`, `WriteMetadata`, `InsertTrustedIssuerWithMetadata`; which of them a call is shows when it runs |
| `save` | `BeginSave` (`writeFileSync` has emptied the file), `EndSave`, or `SaveThrows` (a full disk) |
| surroundings | `DbCrash`, also inside a save |

A statement throws when the table lacks a column it names. `initSchema` adds nine columns
to tables of older versions; SQLite refuses the two whose default is `strftime('%s', 'now')`
if the table has rows, the exception is caught around all nine, and the indexes after
them may then fail for want of a column, at every start. `answered` is history: the calls
that returned since a start found no data. `close` is called by nothing.

`FileStore` has the `path`, the `temps` (which file each temporary name names), the
`content` of each file, and where each call of `writeAtomic` is: `NameTemp`, `OpenTemp`,
`WriteTemp`, `RenameTemp`, each an await of the code. `LoadAll` is what a reader gets.
`IssuerCache` and `HybridStore` take `writeAtomic` for one step; this module says when it
may be taken so.

## 3. Runs

`tlc -config X.cfg M`, with module and configuration as in `PROJECT.json`.

| Run | Configuration | Question |
|---|---|---|
| `issuance_race` | `IssuanceRace.cfg` | can two requests on one credential, of any kind, interleaved at every await, with crashes, expiry and changes of the registry, lose or forge anything? |
| `contracts` | `Contracts.cfg` | do records and events of the status facet tell the same story, and is it the abstract lifecycle? do mapping, list, pages and events of the issuer registry agree? does the deployer ever publish a diamond half built? |
| `sync_overlap` | `SyncOverlap.cfg` | two passes, the listeners and a failed query at once: is a block skipped, or `isSyncing` left on? |
| `sync_alone` | `SyncAlone.cfg` | one pass at a time, restarted and forced: does it resume without a gap, do withdrawals win over replayed events, does every revocation arrive? |
| `presentations` | `BatchesAndChallenges.cfg` | is a challenge used once, and is every presentation that got a row kept, mapped, proved, and batched unless a repeated one blocks the batch? |
| `diamond` | `DiamondCuts.cfg` | do the diamond's arrays and its fallback agree at each iteration of any cut, do they implement a plain table, and when is a diamond frozen? |
| `access` | `Access.cfg` | logins, tokens, codes, the claim page, the wallet page, the snap and the issuer's database: is anything accepted twice, or too often, or lost or shown beyond what overlapping calls, crashes and full disks explain? |
| `verifier` | `Verifier.cfg` | do passes skip an event, does a mark pass one without a file, do files and tables say what the chain did not, what does a valid answer rest on, and when is a file torn? |
| `revoked_for_good` | `RevokedForGood.cfg` | violated: see finding 1 |
| `sync_readded` | `SyncReadded.cfg` | violated: finding 2 |
| `batch_blocked` | `BatchBlocked.cfg` | violated: finding 3 |
| `temp_shared` | `FileStore.cfg` | violated: finding 4 |

### Bounds

- `issuance_race`: one credential, because no operation touches two; two issuers and
  two holders, so that the wrong one can appear; two handlers, the fewest that race,
  each of which may start again; an expiry of 1 in a time of 2, so that an OTP can be
  alive, dead, and replaced; three OTPs: prepare, mint, and a second mint.
- `contracts`: two hashes and two accounts (own and foreign hashes in one batch), batches
  of up to three (with a repetition), five events, which is a whole life of one hash and
  the beginning of another. For the registry three addresses, so that swap-and-pop moves
  a listed issuer that is neither first nor the one removed; six events: all added, some
  removed and added again; `MaxUint` 7 lets `offset + limit` overflow. The facets share
  no storage, so a behaviour is of one or of the other, or of the deployment: two services,
  which may hold different addresses, two starts of the chain and three addresses of
  diamonds, so that an address is replaced, outlives its chain, and is given again while
  it is still held; services and addresses are symmetric.
- `sync_overlap`: three blocks of one event: one before, one during and one after a
  pass; one credential and one account, since rows do not interact; two passes.
- `sync_alone`: as above with two events in a block, one restart, one forced sync.
- `presentations`: three presentations fill one batch with an odd level below its
  root, and leave room for smaller batches before; one challenge and two holders; a
  time of two with a life of one, so that a challenge expires and is cleaned up.
- `diamond`: three functions and two facets: a removal moves a selector, empties a facet,
  and moves a facet; the diamond's own address, whose functions are immutable, is a
  third; two accounts, one of them not the owner; one batch. The length of a cut is not bounded.
- `access`: for logins two accounts, one of them the admin, two nonces and two logins, so
  that a nonce might serve twice; three seconds with a life of one, so that rows expire
  and are collected while sessions of two last. For tokens two, one of which may be
  revoked. For codes one identifier and two wrong codes in a window of two seconds before
  a block of three. For the page two showings and two calls at once, the fewest that overlap;
  two wrong codes (the code has three). For the snap two credentials and two pages. For the wallet page two
  holders with a credential each and three calls at once: two loads and a save; nonces are
  symmetric, and so are holders with their credentials. For the
  database four calls, so that three wait for `init` or some come after it, and seven sets of
  missing columns: none, all, and what stops the migration early, late or not; ':memory:' or
  a file.
- `verifier`: two issuers and three blocks, so that one is added, removed and added again;
  the pass of `start` and one refresh; one signer. Two credentials and three
  blocks, so that one credential is issued and revoked around the other; one sync of
  `start` and one forced. For the file store three writers, two or all
  of them within one of three milliseconds, or none.

The counters `Max*`, `Restarts`, `Failures` and `Forced` are the only bounds in the
guards. `Contracts.cfg`, `DiamondCuts.cfg`, `Access.cfg`, `Verifier.cfg` and
`FileStore.cfg` do not check deadlock: a registry whose events are full stops, a diamond without owner and without
a way to cut does too, and so do a clock at its bound, a chain that has said all it
can, and writers that are done.

### Fairness

Two specifications assume any. In `EventSync`, `FairSpec` has weak fairness of
`StartIncremental` (the interval set in `index.ts` is never cleared) and of `Proceed`
(ethers answers or fails each request; failures are actions). `RevocationsArrive`
needs no more, since failures, restarts and blocks are finitely many. In
`Presentations`, it is the interval of `startBatchTimer` while the process runs,
the container's restart policy, and that SQLite does not fail for ever: the interval's
batches fail or succeed, and not all of them fail (strong fairness of `BatchMade`). Where
the process could not start its batch service nothing is claimed until a start that can. No user, wallet, issuer or peer is assumed to act.
No liveness is claimed of the issuance workflow: a draft may wait for ever.

## 4. Proofs

All theorems are proved by tlapm from the named assumptions on the constants: the
sets of model values do not overlap, bounds are natural numbers, and what is said
below for `EventSync`. The other theorems assume nothing of a run.

**IssuanceWorkflow.** `IndInv` holds of every behaviour with any number of
credentials, wallets and requests, whether or not the store yields. The safety
properties speak of tables only and are not inductive: a handler about to write
carries the reason why its write is right. `HandlersInv` says what each handler's
place in the code implies of its locals (the row it loaded existed, its signer was
vouched for); `StoredInv`, `AttestedInv`, `ChainInv` and `OtpInv` connect tables,
history and those locals. Theorems: `TypeCorrect`, `IssuedAlwaysStored`,
`ProofsAlwaysAttested`, `RecordedAlwaysIssued`, `ClaimedOnlyByMail`,
`DraftsDoNotReturn`.

**CredentialStatus.** `ImplementsLifecycle` proves the refinement: initial states map
to initial states, and each transaction, a batch of any length included, to a step
of the lifecycle or a stutter. `EventsTellStatus` needs three strengthenings: only a
hash's issuer appears in its events, event times lie in the past, and a hash
never issued has the empty record. `RevocationIsPermanent`, `EventsInOrder` and
`StatusesAreTyped` follow from the same invariant. `BatchesAreLoops`: the one step the model
makes of `batchRevokeCredential` is the library's loop over the hashes, for batches of any
length. What a turn finds in the storage is what the turns before it wrote, so after `k`
turns (`TurnIs`) the loop has reverted just when one of the first `k` hashes was not
changeable or came twice, and else has revoked exactly those.

**TrustedIssuers.** `ListAndMappingAgree`, `EventsTellTrust`, `EventsAlternate`,
`RegistryIsTyped`. The lemma `SwapAndPopRemoves` says what the removal leaves of a list
without repetitions; `RegistryLogStep` how an event keeps the log in agreement with the
mapping. `PagesJoinUp`: after `k` pages a reader has the first `k * limit` issuers, or all
of them (`PageJoins`, `EndOf`), for a list of any length and any size of page.

**EventSync.** `SyncSkipsNothing`: everything up to the mark of memory has its row,
for any credentials, issuers, passes, blocks and failures. The invariant follows
each pass: what lies before its range has rows when the range is fixed, each stage
adds what it has stored, so that the range is complete when `Finish` sets the mark;
rows are never deleted, and a new block lies after every range. The theorem assumes
`MarksAreLeftToPasses`: listeners, or restarts and forced syncs, not both, and no
explicit first block. The assumption is needed. A listener that misses an event and
hears a later one moves the persisted mark past the first; a pass that starts from
that mark (a restart, and also "force", which starts at `startBlock || lastBlock`)
never stores it. `ResumeSkipsNothing` says that without listeners the persisted mark
is sound.

`SyncingEnds` assumes nothing of the run: the pass that turns `isSyncing` off may be
another than the one that turned it on, but whoever leaves a stage turns it off and
whoever enters one turns it on.

`WithdrawalsStay` (`WithdrawalsAreShown`) assumes `OnePassAtATime`. A pass that reads a
range again inserts revoked credentials anew before it revokes them again, so that what is
shown holds between passes only. `SettledInv` says how a pass gets from one such point to
the next: what was withdrawn for good before its range stays shown, since an event in the
range about the same subject would be later; after the second stage what is revoked up to
the range's end is shown; among the removals, those no longer to do. That an update finds
its row is what `IndInv` knows of the stages before, and that an update has something to
find comes from the chain (`LogTells`: nothing is withdrawn that was not given, at any
length of log). The assumption is needed in both parts. With two passes the property
fails, and with a failure and a restart as well: a server whose first pass failed has
the mark 0 in memory, replays the whole chain in its next pass, and if it is restarted in
the middle of that goes on from the persisted mark (see 5).

**Presentations.** `ChallengesAreUsedOnce`, `NothingQueuedIsLost`,
`MappingMatchesTrees`, `TypeCorrect`, for any presentations, holders, challenges and
batch size. A challenge that was used has a row marked used or, after a cleanup, none,
and no row is ever made for a challenge drawn before (`ChallengesInv`). The pending
presentations are distinct and the mapping names no batch still to come
(`BatchesInv`), so a new tree can repeat no leaf and claim no presentation of an older
one. The lemma `CreateBatchKeeps` covers both ways its transaction may end, and `QueueKeeps` those
of an addition that throws.

The proofs of inclusion, for batches of any size. `FullProofsLeadToTheRoot`: a proof with a
sibling on each level leads from its leaf to the root, with no assumption. After `k` levels
the root's computation is at the leaf's ancestor of that level, and the proof that
`GenerateProof` gathered holds the siblings passed so far, in that order; the index is halved
on both sides. `ProofsVerifyExactlyWhenFull` (`ProofsVerify`): it leads there only then. The
way up of a proof that lacks a node has fewer levels than the tree, so it would have to end in
a node below the root; equality would make a leaf the hash of two nodes. That this is not so is
its assumption, `LeavesAreNoHashes`: leaves are keccak256 of a presentation (`vp.ts:133`) and nodes SHA-256 of two
digests, and hashes are taken as free of collisions here as everywhere in the model. The
functions involved are recursive; that each of them has the value its equation gives
(`LevelsAre`, `AncestorsAre`, `ProofIs`, `HashesAre`) is proved by induction.

**Diamond.** `ArraysStayPacked` and `ImplementsTable` hold for any functions, facets and
cuts. `IndInv` carries, besides the packing, where a cut under way stands (`CutInv`):
the next position to append at is the length of the facet's array, and the facet
being filled, which the loupe lists while it may still be empty (`Opened`), is not the one
a replaced selector is taken from. `RemoveFunctionKeeps` is the swap and pop of
selectors and then of facets; `AddFunctionKeeps` the append. A step of a loop maps
to an addition, replacement or removal in the abstract table's draft, a revert throws the draft
away. `FrozenForGood` and `TypeCorrect` follow.

**Deployment.** `NoneHalfBuilt` (`PublishedIsComplete`), for any services, addresses and restarts.
What a volume, checkpoint or service has of the running chain is a complete diamond
(`AllShown`), and the only way in is the deployer's constant. So `DeployerBuilds` follows the
script: from `Diamond` to `addTrustedIssuer` a diamond of this chain is not complete, hence
among nobody's fresh addresses and free to change; from then on it may be published. A
deployer under which the chain was emptied finds no diamond at all, as nobody else makes one,
so its calls change nothing; and a diamond, once complete, stays so until its chain is emptied
(`CompleteStays`), as a new one takes an address that this chain has not given.

**WalletLogin, SecureToken.** `NoncesAreSpentOnce`: a row of the table belongs to the
challenge drawn under its nonce, with its expiry (`RowsAreChallenges`), and a nonce that
let somebody in has a row marked used or none for good (`LoginsAreSpent`).
`RolesEnd`: a session that says issuer ends within one life of the last time its wallet
was listed (`SessionsFade`), because the list is read when the session is opened and a
change of the list marks the time of those that it drops.
`TokensAreUsedOnce`: what was accepted and not revoked is remembered, or has expired.

**SecureOTP.** `GuessingIsSlow`. The limit counts recorded attempts, and records are
dropped by two timers, so the record must stay an upper bound: in every window from now on
there are at least as many attempts on record as codes compared (`GuessesAreCounted`).
A cleanup drops a record only with nothing in the window. The end of a block drops all of
it, and while a block lasts the invariant says that by then the codes have left the
window. That needs `WindowSeconds =< BlockDuration`, which `OtpAssumption` states; the
code has 300 and 900 (`secureOTP.ts:37`). With a longer window the end of a block would give
guesses back.

**ClaimPage.** `WrongCodesAreFew`, for any limit, number of showings and of calls. A
refusal counts when it comes back, so the invariant counts the claims under way as
refused already: `wrong` and they together stay within the limit and `overlapped`
(`CodesAreCounted`). The proof found the property too strong as it first stood: a claim
under way when a resend resets the attempts is refused afterwards and was not in
`overlapped`; it takes two claims under way and a third showing of the page, beyond the
bounds of `access`. TLC confirms the property as it is now with these bounds too.

**SnapStore.** `WritesAreExplained`, an action property, for any credentials and pages.
What a call has read tells, of every credential that nobody wrote since, what the snap
has (`ReadStands`), and no state has two entries for a credential (`Distinct`); so what
a call writes back differs from the snap in its own credential, or in those written
since. `AppendedEntries`, `UpdatedEntries` and `DeletedEntries` are the three ways to
change an array. That a page without a call has no credential to name needs one
(`SnapAssumption`).

**WalletPage.** `ListsAreCurrent`. The invariant is that a list which is neither
current nor known to be behind is being loaded (`CurrentOrLoading`): whatever changes the
account, the snap's content or the page's knowledge of the snap also asks for the list.
`BagAdded` and `BagWithout` are the facts about bags that calls in any order need.

**IssuerCache, Verification.** A pass and a listener write back a file they read before
they waited, so the invariant says of everything that any of them holds what it says of
the file (`Sound`): its records name blocks that are on the chain, and, unless a
listener's write is in it, they are all there is up to its mark. `PassesSkipNone` and
`RecordsFollowTheChain` are its two halves, for any issuers, blocks and number of passes that
overlap. `ValidWasTrusted`, of the signer, whoever the
credential says its issuer is: a request that waits has seen its signer trusted if the registry
trusts it now (`VerificationInv`), so an answer of the registry, whenever it
comes, is one the registry could have given during the request.

**HybridStore.** `IndexesAreComplete`. A sync writes back an index as it read it, with its
events and a new mark, so the index in its hands is held to the same as the one on disk
(`CompleteIndex`); what was kept on disk when it read still is when it writes, since files
are never taken away (`Grows`). Rows come after their files, so whoever is about to try one has
written the file (`filed`).

**Database.** `AnswersAreKept`, `AnswersAreServed`, `ColumnsAreThere`. A save is made of a
database that holds all that was answered (`SavesAll`); after a second init opened a
database of its own it still does, since with a file the file holds it, and in memory no init
is left once a call was answered (`InitsFirst`).

**FileStore.** `TornBySharing`. Without a name that two writers share, a temporary file is its
writer's alone until it is renamed, whole (`OwnTemps`).

**Side by side.** `MCContracts`, `MCAccess` and `MCVerifier` run several parts in one
specification, and the runs check that. `FacetsAreIndependent` and the two
`PartsAreIndependent` say that each part of the composition behaves as its own specification
says: a step of another part is a stutter of it, or, for tokens and codes, a tick of the
clock that they share (`ClockMoves`: whoever moves the clock moves it by one second). Logins are the
exception. Their tick also notes who is listed, so a tick of another part is none of theirs,
and the theorem claims `LoginSpec` only for a composition that runs logins; in any other there
is no login (`NoLogin`). The three theorems `AllIsKept` state every invariant and action
property of these runs of the composed specification itself, and `TypeCorrect` in
`AccessProofs` the types of all seven parts (`AccessTypeOK`).

**Induction over data.** The library's induction theorems take an operator and the provers
cannot instantiate them. Its theorem on minimal elements takes a set, and is enough: a set of
numbers that is not empty has a least member (`LeastNat`), so what holds at 0 and passes from
each number to the next holds up to any bound (`UpTo`, about a set `Good`). The loops of the
contract, the pages, and the trees, proofs and roots of batches are proved with it; they are
written as recursive functions, for which it also gives the existence of a solution. What it
takes is that the formula be about a number, so induction over finite sets or over all
sequences goes by their size.

Proved without a run of their own: `DraftsDoNotReturn`, `EventsInOrder`,
`EventsAlternate`, `ResumeSkipsNothing`, `Invariance`, `FullProofsLeadToTheRoot`, the theorems
of independence, and the type invariants (`TypeCorrect`, `StatusesAreTyped`,
`RegistryIsTyped`) that no run names. Those of the verifier's modules and of `Deployment` are
parts of the inductive invariants above.

Every invariant and action property of the passing runs is stated by a theorem. Checked by TLC
only: liveness (`RevocationsArrive`, `BatchedUnlessBlocked`), which tlapm does not do, and the
four properties that the code violates, whose runs show how.

## 5. Findings

1. **A revocation can be lost** (`revoked_for_good`). `mint` checks the status, awaits
   the registry and writes the row it read before. A revocation in between is
   overwritten with ISSUED. The other half of the same gap: two mints that both pass
   the check leave the first one's mailed OTP dead.
2. **A trusted issuer can stay inactive** (`sync_readded`). A pass stores its range by
   kind of event, additions before removals, not in the order of the chain.
3. **Batching can stop for good** (`batch_blocked`). A presentation accepted again after
   its batch cannot be mapped twice: every later batch rolls back, and the rejection
   that nobody catches ends the process each time.
4. **A file written atomically can be read empty** (`temp_shared`). The temporary name is
   the path and the millisecond: of two writes within one, the second empties the file
   the first is about to rename.

Met on the way, without a run of their own.

Issuer:
- A crash inside `save` leaves the database file empty or torn. The next start takes an
  empty one for a new database, without a word, and cannot open a torn one. A full disk does
  the same while the process goes on, and its next successful save repairs it.
- A migration stopped at a refused column leaves the columns after it out for good, and
  without `holder_address` every start fails at its index.
- A link can be mailed dead. The mail promises 72 hours; `finalize` goes by the draft's
  `expiresAt`, five minutes by default, which `mint` neither checks nor renews
  (`MailedLinkIsLive` does not hold).
- An issuer's name can be lost. The pending name goes to the first of the handlers of one
  `IssuerAdded`; the next replaces the row without it (`NamesStay` does not hold).
- A revocation can stay unseen by the index. `isSyncing` is tested before an await and set
  after it; the slower of two passes inserts anew a credential the faster one had marked
  revoked, and the mark is already past that revocation (with two passes
  `WithdrawalsAreShown` does not hold).
- A server whose first pass failed starts its interval all the same (`index.ts:356`), and
  the next pass reads from block 1, the mark of memory being 0. Stopped between the stages
  of that pass, it leaves credentials revoked long ago valid for good: the next start
  goes on from the persisted mark (with two restarts and one failure
  `WithdrawalsAreShown` does not hold).
- An on-chain hash is never stored in `issuance.credentialHash`, so a revocation in the
  application never reaches the index or the chain.
- A forced sync from an early block that fails after its query for issued credentials
  leaves revoked ones valid. A listener whose `getBlock` fails is an unhandled rejection,
  which ends the server.
- A login whose two readings of the clock fall in different seconds is refused although
  its signature is good (`nonce.service.ts:50`).

Tokens and codes:
- A revoked token is kept as expired now: the next cleanup forgets it, and it is accepted
  again until its own expiry (`TokensAreOnce` therefore leaves revoked tokens out).
- The helper `verifySecureOtp` makes a new service for each call, so its rate limit counts
  nothing.

Web pages and snap:
- After a sign-in that was refused the page signs in again by itself, without end.
- A refused token or a wrong wallet counts as a wrong code. The resend sends nothing. The
  store is not reset between two links.
- When a holder leaves the page during a claim and comes back, the late answer is written
  over the new showing's state, and a second claim sent meanwhile lets one more wrong
  code through, as does one under way when a resend resets the attempts (`overlapped`). An answer of `getTokenInfo` that comes after a success hides
  it. A claim whose answer is lost leaves the page asking to sign what is claimed already.
- A credential saved while the dialog of a deletion is open is lost; one deleted while
  another call is under way may come back. Credentials without id that are saved in one
  millisecond have one id.
- The wallet page may be left with another account's list: a load that was overtaken by a
  change of account writes its answer all the same, and a load that throws leaves the old
  list. The credentials of the issuer are those of the session, not of the account.
- The first credential saved into a fresh snap leaves the list empty until the next
  load: the closure of the click has seen no snap (`page.tsx:194`).
- `create_vp` answers a presentation to be signed; the page sends it to be verified as it is.
- The page `admin/revoke` gives the application's id where the contract takes a hash.

Deployment:
- A service resolves the diamond's address as it starts, from a volume that outlives the
  chain ("Dynamic & Truthful", `blockchain.schema.ts:65`): once the chain was emptied, or
  a second `up` has deployed another diamond, it goes on with an address where nothing is,
  or with the old one. The deployer's account gives the same addresses on every chain
  (`deploy-diamond.ts:46-56`), so the kept address may also be that of the new chain's diamond
  while it lacks facets and its first issuer.
- A shared config cut off in the middle is taken for none, and an issuer without a
  registry trusts every address (`registry.service.ts:38`).
- `dev-runner.mjs` reads `CONFIG.local`, which nothing defines. It looks for the deployer's
  checkpoint where the container cannot have written it, and the image of the web is built
  without the diamond's address.

Verifier:
- While the service of the issuer registry is not up, `POST /verify` leaves its question
  out and may answer that a credential is valid with trust `N/A`. `notExpired` is constant.
  `POST /verify/presentation` asks neither registry nor chain.
- A listener of the issuer cache writes over what a pass saved while it waited for a name;
  an event between the pass of `start` and the binding of the listeners is seen by neither
  until the next pass; the SQL table never learns what passes learn, though the list is
  read from it. A pass that finds an issuer added, removed and added again in one range
  leaves it removed.
- `POST /verify` never compares the signer with `credential.issuer`, and with
  `proof.verificationMethod` only if there is one: a credential that names one trusted issuer and
  is signed by another is valid.
- The table of the index may lack issuances and revocations for good: an error of SQLite is
  ignored while the mark moves on. A revocation whose credential has no row yet is refused by
  the foreign key and never tried again, as is a revocation after an issuance that was lost so. A resync duplicates the index's records. `FileStore.loadAll` answers `{}`
  for a missing file, so the compliance check takes any credential for issued and revoked.
- Both caches start over when the chain is shorter than their mark, but a fresh chain that
  has grown past the mark is read from the mark.

## 6. What is not modelled

`PROJECT.json` gives the reason for each component. In short: signatures, hashes and
encryption (taken as perfect), mail, PDF, QR, logging and configuration (no state of
the protocol), the other SQLite adapters (not configured), the web pages other than the claim and the wallet page (their requests
are the models' inputs), handlers that only read (`get_vcs`, `export_vcs`, `create_vp` in
the snap, statistics and searches in the verifier), `POST /verify/presentation` (no state
and no wait), and the legacy node (repeats the contracts). A large part of the repository
is markup of pages and their documentation, which has no behaviour to model.

## 7. Plan

What is left, in order of importance.

1. The wallet page's way from a challenge through the snap to `POST /vp/verify`, as a
   composition of `WalletPage`, `SnapStore` and `Presentations`; the page of the issuer
   registry.
