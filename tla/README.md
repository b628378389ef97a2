# KyNotes server: TLA+ models and proofs

KyNotes is a self-hosted notebook server. A Go process keeps rows in one SQLite
database and ciphertext in content-addressed files; the browser encrypts every
page, attachment and name before it leaves the device. The server therefore
cannot repair content it loses and cannot check a key it hands out, and the
browser must not trust the server with more than ciphertext. The models cover
the server's files, keys and uploads, and the browser's protocols around them:
queued saves, the key memory, the account's identity, device linking, the
notebook outline and the tab that moves between notebooks.

## 1. Inventory

`src/` is the repository. Two facts about scheduling shape every model.

- SQLite is opened with `_txlock=immediate` (`internal/storage/store.go:72`), so
  a transaction holds the one write lock from its first statement: it is one
  atomic step against other transactions, and everything around it (file moves,
  reads outside it, body streaming) interleaves.
- In the browser a tab runs one piece of JavaScript at a time, from one `await`
  to the next. An IndexedDB transaction and the server's handling of a request
  are one step each; other operations of the tab, other tabs and other devices
  run in between.

| Component | State | Operations | Interacts through | What makes it correct |
|---|---|---|---|---|
| Blob store, `internal/blobstore` | files under `blobs/` and `tmp/` | NewTemp, Write, Finalize (rename), Reopen, Truncate, Delete | handlers and collector | a stored file never changes; its name is its digest |
| Page saves, `httpapi/object_routes.go` | objects, object_versions, conflicts, idempotency_keys | save, conflict, resolve, delete | blob store, team keys, browser queue | an accepted version keeps its bytes, is sealed with a current key and replaces only what its author saw |
| Uploads, `httpapi/upload_routes.go` | upload_sessions, attachments, attachment_refs | start, chunk, finalize, cancel, link, unlink | blob store, collector, team keys | acknowledged bytes are what is stored; live attachments have files |
| Collector, `storage/gc.go`, `app/serve.go` | blobs.unreferenced_since | expire, finish deletions, select, sweep, unmark, mark | everything above; a second process for `gc --now` | sweeps only what nothing needs; sweeps it eventually |
| Notebooks, `httpapi/container_routes.go` | containers | create, rename, delete | memberships, pages, uploads | deletion reaches everything inside |
| Team keys, `httpapi/teamkeys_routes.go`, `device_routes.go` | key_generation, shared_generation, key_envelopes, invitation_envelopes | rotate, put envelope, write gate, admit, remove | members, identities, saves | outsiders never hold the current key |
| Members, `httpapi/collab_routes.go`, `admin_routes.go` | memberships, invitations, comments | invite, accept, approve, remove, administrator's add and remove | team keys | removal is final; only stewards admit |
| Browser queue, `web/src/storage.ts`, `drafts.ts`, `drain.ts`, `stuckEdits.ts`, saves of `main.tsx` | IndexedDB notes and pending, the open page | putDraft, recoverDraft, settleDraft, replaceQueuedSave, send, re-seal, recover, discard | page saves, keys | no edit is lost, applied twice or kept for ever |
| Browser keys, `keyService.ts`, `keyring.ts`, `pins.ts`, `floors.ts`, `outbound.ts` | rings, pins, key memory, floors | key pass, mint, wrap, pin, confirm, invite, gate | team key routes, other tabs | keys come from and go to vouched people only |
| Identity, `identity.ts`, `recovery.ts`, `loginUpgrade.ts`, `RecoveryCode.tsx`, `httpapi/identity_routes.go`, `auth_routes.go` | user_identities, vault record, passwords, recovery codes | create, restore, reset, re-wrap, forget | sessions, other tabs and browsers | the key always has a way back and its copies open |
| Device linking, `linkFlow.ts`, `linking.ts`, `DeviceLink.tsx`, `httpapi/link_routes.go` | link_requests, one-time keys | create, claim, reveal, type, approve, collect, cancel | sessions, identity | one bundle, to the browser that was confirmed |
| Outline, `outline.ts`, `order.ts`, `pages.ts`, moves of `main.tsx` | order keys, levels, parents | place, indent, move, group, delete | page saves, other devices | what shows is what was asked for; no cycle |
| Navigation, `main.tsx`, `loadGate.ts`, `migrate.ts` | shown notebook, list, open page, load tickets | switch, open, create, join, delete, migrate | page saves | a page is only shown and sealed under its own notebook |
| Change feed, sessions, single sign-on, backup, mirror, setup, share links, reminders, rate limit, connector, page editors, administration screens | see `PROJECT.json` | | | not modelled, section 7 |

Hard behaviours: requests that stream while membership, keys and notebooks
change under them; files moved outside transactions; a collector, and possibly a
second one, beside requests; crashes between a file operation and its commit;
retries and duplicates after lost answers; tabs that share one IndexedDB;
functions that continue after an `await` with the state of an older render; a
server that reports less than it did before. `PROJECT.json` lists each at its
line under `hazards`.

## 2. Modules

| Module | Models | Checked by | Proved in |
|---|---|---|---|
| `BlobLifecycle`, `BlobHistory` | saves, uploads, deletion and collector against the blob store | `blob` | `BlobProofs` |
| `TeamKeys` | memberships, generations, envelopes, invitations, streaming saves | `keys` | `TeamKeysProofs` |
| `KeySweep` | the key passes of stewards' browsers over `TeamKeys` | `keys` | |
| `UploadPromise`, `UploadSession` | the chunk protocol and the abstract service it implements | `upload` | `UploadSessionProofs` |
| `SaveSync` | one page between tabs, IndexedDB, server and another device | `save_one_tab`, `save_two_tabs`, `save_lost` | `SaveSyncProofs` |
| `KeyVault` | key passes, pins, key memory and floors of one browser | `key_vault` | `KeyVaultProofs` |
| `IdentityLife` | the account's identity between tabs, vaults and server | `identity` | `IdentityLifeProofs` |
| `DeviceLink` | the linking handshake | `device_link` | `DeviceLinkProofs` |
| `Outline` | order, levels and groups under concurrent moves | `outline` | |
| `NotebookNav` | one tab between notebooks and pages | `navigation`, `navigation_stale_closure` | `NotebookNavProofs` |

The components meet where one models the other's interface. `TeamKeys` and
`BlobLifecycle` each hold a page save, one for its gate and one for its file.
`SaveSync` takes the server's compare-and-set and replay from
`object_routes.go` and one key generation from `KeyVault`'s world (`Rotate`,
`KeyPass`). `NotebookNav` leaves texts and versions to `SaveSync`. `Outline`
uses the same versioned writes and queue as `SaveSync`, per object. `UploadSession` is shown
to implement `UploadPromise` by a refinement mapping.

The `MC` modules name model values, the notebook of each page, the layouts of
tabs over browsers, the starting notebooks of the outline, and symmetry sets.
Symmetry is used over tabs, browsers, requests and bodies, which
no definition tells apart, and in no run that checks a liveness property.

## 3. Modules and the code

### BlobLifecycle

State: `container`, `object`, `versions`, `conflicts`, `attachments`, `refs` and
`previews` are the tables that name a digest; `blobs` is the blobs row with its
`unreferenced_since` mark (`"clear"`, `"fresh"`, or `"aged"` once the retention
period has passed); `files` are the digests with a file. `pc` and `job` say how
far each request handler is, `gcpc`, `todo` and `current` how far each collector
is, and `faults` counts crashes and failed commits up to `MaxFaults`.

A save (`object_routes.go:220-414`) is `BeginSave`, `MoveSave` (Finalize, before
any transaction) and one of `CommitVersion`, `CommitConflict`, `Refuse`,
`ClaimFails`, `CommitFails`. A finalization (`upload_routes.go:280-438`) is
`BeginUpload`, `MoveUpload`, for an attachment `ReadPreview`, and
`CommitPreview` or `CommitAttachment` (which revives a tombstone). Deletion of
pages and notebooks, linking, conflict resolution and preview cancellation are
one transaction each. A collector pass (`gc.go:11-127`) is `GCFinishDeletions`,
`GCSelect`, per candidate `SweepSkip` or `SweepDeleteFile` followed by
`SweepCommit` or `SweepRollback`, then `GCClear` and `GCMark`. `SweepDeleteFile`
opens the sweep's transaction and leaves it open, because the file goes before
the commit; `WriteLockFree` keeps other transactions out meanwhile. `gc --now`
is a second member of `Collectors`.

A digest stands for its bytes. `DeleteContainer` deletes one notebook per step;
the deletion of a team repeats it for the team's notebooks.

### BlobHistory

`BlobLifecycle` with one history variable, `touched`: what content named since
it was last marked. It guards nothing.

### TeamKeys

State: `member` (memberships with role, approval and inviter), `key_generation`
and `shared_generation`, `identity` (identity n of a user is a key pair, 0 none),
`envelopes`, `invitations` with the envelopes they carry, `saves` that stream,
`written` versions, and `held`, every envelope ever served: what a browser was
given once it may keep. Every request is one transaction and one action, except
a save, which checks its gate before the body streams (`BeginSave`) and again in
its transaction (`CommitSave`, `RefuseSave`).

`removeMemberTx`, `admitMemberTx`, `checkWriteGate`, `memberTx` and `isSteward`
keep their names. The server cannot open envelopes, so what an honest browser
sends is part of the model: it only seals keys it holds (`Holds`,
`keyService.ts:85-95`). A revoked membership row is `NoRow`, since admission
overwrites it. Accepted and expired invitations are dropped, so `Blank`, which
asks whether a new notebook is still untouched, allows more deletions of blank
notebooks than the code does. The commenter role acts as viewer here. No route
demotes a member, so neither does the model. Paired devices and disabled
accounts are left out: a disabled sole holder of a key leaves the others waiting,
which `KeysArrive` does not claim otherwise.

### KeySweep

`TeamKeys` with the decisions of `planSweep` and `syncContainerKeys`, one pass of
a steward's browser being one step. `SweepMint` mints the first key, or the next
one when the current generation has no envelope; `SweepWrap` wraps the current
key for a member without it. A pass gives up where the code does:

- the first key waits until the steward's identity is `recoverable`
  (`keyring.ts:235`): a password account always is, one of KySignOn once a
  recovery code is saved (`SaveCode`);
- a KySignOn steward writes only when "share keys" was pressed (`canWrap`,
  `keyService.ts:118-119`); `Sharers` are those who press it;
- a changed key that the user has not confirmed, of somebody the pass would seal
  for or whose envelopes it opens, stops the pass (`keyService.ts:141-148`).
  `changed` holds the pins that a reset has outdated (`ResetPinned`), and
  `ConfirmChange` is the user's yes.

`KeysArrive` says that a member does not wait for ever unless every pass that
could give it the key gives up (`Waiting`). A steward counts whatever envelope
of another steward it would open, so `Trusted` gives up a little more often than
the code, which looks at the stewards whose envelopes it has. `TeamKeys`' own
`Rotate` and `PutEnvelope` stay possible at any time, without fairness: the
server takes them from any client. Pins themselves are `KeyVault`'s.

### UploadPromise and UploadSession

`UploadPromise` is what an upload owes its client: chunks are accepted in order,
an accepted chunk stays what it was, and what is stored is all of them.

`UploadSession` is the code that has to keep it, for one session. State: the
`upload_sessions` row (`status`, `next_chunk`, `expected`; `lapsed` and
`outlived` are its two clocks, the inactivity expiry and the 24-hour lifetime),
the session's file (one inode: `place` says whether it lies at its temporary
path, at its digest's path or nowhere, `file` what it holds, `moved` the digest
it was renamed to), `stored` (`finalized_digest`), the `lock` of `lockUpload`,
and `pc`, `arg` per request. `promised` is a history of what was answered with
success.

A chunk (`upload_routes.go:165-279`) is `SendChunk` (the body is read before the
lock), `LockChunk` or `RefuseChunk`, then `RepeatChunk`, `SkipChunk`,
`DoomChunk` and `DropTemp`, or `OpenChunk` (Reopen and Truncate), `WriteChunk` or
`ShortWrite`, `CountChunk` or `CountFails`. A finalization (280-438) is
`BeginFinalize`, `OverQuota` or `RefuseFinalize`, `HashFile` (Reopen),
`RejectDigest`, `MoveFile`, `ReuseFile` or `MoveFails` (Finalize), and
`CommitFinalize`, `RefuseMoved` or `CommitFails`; it takes no lock. `Cancel` and
the collector's `GCList`, `GCAbort`, `GCExpire` remove the file and set the
status in separate steps. `Crash` ends every request and may leave a chunk half
written.

Sizes are counted in chunks and a digest stands for the content it is computed
from. The size comparison after Reopen (`upload_routes.go:364`) never fails here:
`CountedWhole` shows that a fully counted file is whole. Uploads of zero bytes,
which have no chunk, and a failing fsync are left out. A start whose notebook is
deleted, and whose row is expired, before its file is created (`CreateTemp` after
`GCExpire`) leaves a file that nothing removes; no property forbids that. `GCPurge`, a day after
expiry, waits for requests to end, since a request lasts minutes.

### SaveSync

One page of one notebook. `srv` is the server's page: its log of versions, its
conflict records, the request keys it remembers, its generation, whether it
exists, whether this user may write and why it refuses what it would otherwise
take (`bar`: no session, or no room). `db` is the browser's IndexedDB: `cache`
and at most one `pending` entry, written only by the operators that translate
`storage.ts` (`AfterPutDraft`, `AfterSettle`, `AfterReplace`, `AfterRecover`).
`tab` is what a tab holds in memory; it runs one task of its save chain (`job`)
and one write of a page that is not open (`move`) at a time. A text is the set of
edits in it. A seal number stands for the ciphertext's digest, so two seals of
one text differ, as they do in the code.

A live save is `SaveStart`, `Deliver` or `Lose`, `Answered`; a drain is
`DrainStart`, `DrainWait` or `DrainSend`, the same delivery, `DrainAnswered`;
conflict recovery (`keepConflictCopies`) is `RecoverReload`, `RecoverCopy` or
`RecoverSkip`, `RecoverEnd`. Faults: a tab closed with work in memory, a request
or an answer lost, a storage write refused, the page deleted, the role lost, the
key rotated, the request keys dropped after a day, and a server that refuses
(`Refuse`, until the user signs in again or makes room, `Admit`). A page that is
too large is refused like one for which there is no room. Such an edit stays
queued without a mark (`saveRefusal`, `notes.ts:91-106`) and is sent when there
is room; a replay is answered before the quota is looked at. The other device saves,
deletes and rotates. `durable`, `discarded` and `overlooked` are histories.

Not in the model: clocks that run backwards (the time stamps of drafts follow
the order of sealing), two pages, and the queue of attachment uploads.

### KeyVault

One account's browser, one notebook, one colleague. `srv` is what the server
holds, `backup` the state it may be restored to. `pin` and `ks` are the stored
pin and key memory; each tab has its ring, its sharing floor and at most one
pass. A pass is `BeginPass`, `ReadRow`, `Observe`, `ReadEnvelopes`,
`ReadMembers`, `Open`, then `Confirm` with `SayNo` or `SayYes`, `StorePin`,
`Seal`, `Upload`, `Finish`; `BeginInvite`, `ReadInvitee`, `SendInvite` are an
invitation, `ShowPins` the pin screen, `SealContent` and `SendContent` an upload
behind the gate. `Forge`, `Swap` and `Restore` are what an untrusted server can
do; it cannot seal as an identity whose key it does not hold, so an envelope
carries the identity that sealed it.

### IdentityLife

One account's identity: the server's `row` (listed key, device ID, password copy,
recovery copy), the `pass`word epochs (every new salt is a new epoch, and a copy
opens under its own only), `session`s with their step-ups, one `vault` per
browser, and `tab`s, each inside one flow: sign-in with `upgradeLogin` and
`settlePasswordIdentity`, `settleSSOIdentity` (`SetUp...`), password change
(`Change...`), recovery code (`Prepare`, `TypeBack`, `Save...`), restore, reset,
forgetting the device. Tabs may share a browser, and then share its vault and its
session. `paper` holds the codes the user typed back; `listed` and `givenUp` are
histories.

### DeviceLink

The newcomer's screen `new`, the trusted `tab`s, and the relay's `rows`. A
one-time key is a number; a check code stands for the request and both keys. The
relay may answer with a key of its own (`alter`). Requests of stopped attempts
that are still in flight are `late`. An attempt is `CreateRequest`, `Poll` or
`Collect`, `PollAnswered`, `Reveal`, `RevealAnswered`, `FinishRead`,
`FinishKeep`; the trusted side is `ClaimRequest`, `ClaimAnswered`, the user's
typing, `Approve` and `Approved`. The steps that compare and keep
(`finishNewcomerLink`) are separate, because another tab of the newcomer may set
up a key between them. `ResetIdentity` leaves out that a reset deletes the link
requests (`identity_routes.go:474`) and ends the other sessions (246): the model
lets attempts go on that the code ends, which only adds behaviours. The relay
hands out the bundles it was given, so the sender's key that a bundle names is
compared (`Collect`) but never found to be another one.

### Outline

`srv` holds the newest version of every page, section and group and `seal` the
bytes it was saved from; `view` is the copy each tab loaded and edits. Tabs are of
one browser or of two, and a browser has one `queue` for all its tabs. A tab has
two chains of requests, as in the code: `moveChain`, on which pages that are not
open are moved, and `saveChain`, with the saves of the open page, the changes of
sections and groups and the drains (`Lanes`, `sent`). A request of each may be
under way at once.

A move is `movePage` or `indentPage`, which computes the writes, and then per page
`placePage` or, for the open page, `placeOpenPage` and `saveOpenPage`. A change of
the structure is `moveIntoGroup`, `moveStructure`, `newObject` or `removeGroup`
followed by `updateStructure` per object. Every write queues its draft and sends
it (`writeObject`); the server handles the request in the step that sends it, and
the answer comes back later (`Answered`) or is lost (`Lose`). A drain reads the
queue once (`drainQueue`) and sends entry by entry (`drainNow`). Opening the
notebook again is `leaveNotebook`, which empties the list and reads, an unsent
draft before the server's copy, and `loadContainer`, which shows what was read
with the versions saved since.

A draft is one record here; that it is a cache and a queue entry, which may
differ, is `SaveSync`'s matter, and so are marks that cannot be stored. A queue
entry is not marked gone by a save that finds its object deleted, pages are not
deleted, and a load reads in the step in which the list is emptied. `keyBetween`,
`displayLevels`, `placeBlock`, `groupParents`, `groupMoveAllowed` and `siblings`
keep their names and are computed, not abstracted: with base 4 and keys of at
most three digits instead of base 36 and 512, a few moves exhaust the keys and
make the code renumber. The model starts from six notebooks, among them
ones with equal and missing order keys, a page of a deleted section and groups
that are each other's parent, which earlier partial moves leave behind. `keyBetween` is
RECURSIVE, so this module is checked by TLC only.

### NotebookNav

One tab. `tab` is the state the code reads through references (`selectedRef`,
`loadingContainerID`, `notesRef`, the open page); `calls` are the asynchronous
operations under way, each with the notebook of the render it started in
(`cap`), which is what the code's closures keep; `chain` is `saveChain`. One step
of a call is the code between two awaits. Operations: list and load notebooks,
switch, open, create a page, autosave, create, join, rename and delete a
notebook, read the list after an identity change, reply to a comment, migrate. A
load that has a page to open (a route, or a row of the work queue) opens it with
`selectNote`, which flushes the page that is open by then (`Routed`,
`routeOpened`). The migration of a notebook opened from the work queue begins
here once its page is open. `want` and `hist` are histories: the
notebook last asked for, the origin of each save sealed under another notebook,
and pages opened before their notebook was shown.

## 4. Runs

| Run | Question | Instance |
|---|---|---|
| `blob` | Is every needed file kept, does every use restart retention, and is every unreferenced blob reclaimed, under two concurrent requests and a fault? | two pages, one digest, two handlers, all request kinds, one collector, one fault, fairness |
| `keys` | Do resets, removals and races retire what was held, also under a streaming save; is removal final; does every entitled member get the new key? | two users of KySignOn of whom one shares keys, two identities each, one invitation, four generations, fairness |
| `upload` | Do duplicated, late, torn and interleaved chunks, parallel finalizations, cancellation, deletion, collector and a crash keep the promise? | two requests, two chunks, two bodies, one fault |
| `save_one_tab` | Do edits survive, retries stay quiet and the queue drain? | one tab, the other device, two edits, moves, two generations, any one fault, fairness |
| `save_two_tabs` | Do two tabs on one cache and queue settle only their own edits? | two tabs, two edits, no faults |
| `device_link` | Does the key reach only the confirmed browser, and does every attempt end? | two requests, three one-time keys, one reset, any one fault, fairness |
| `key_vault` | Does only vouched key material come in and go out, and is a retired key never used? | two tabs, two colleague keys, three generations, two passes, any one fault |
| `identity` | Does the identity keep a holder and do its copies open? | two tabs in one or two browsers, three kinds of account, two keys, two passwords, two codes, two faults |
| `outline` | Do concurrent, partial and queued moves show what was asked for? | two tabs in one or two browsers, six starting notebooks, two operations, one drain, one lost message, one open page |
| `navigation` | Are pages shown and sealed under their own notebook whatever overlaps? | three notebooks, three pages, two operations at once, three in all |
| `save_lost` (violation) | Does conflict recovery keep every edit? No | one tab, three edits, one lost message |
| `navigation_stale_closure` (violation) | Is nothing ever flushed through a stale closure? No | as `navigation` |

Bounds. One digest is what it takes for two requests to share a file, two
handlers for a refusal to race a claim. One fault is enough on the server, since
a second one starts from states that one fault or none reaches and every pass is
idempotent; the proofs do not bound it. A removal needs two users; a team with
child notebooks is too large for TLC together with `KeysArrive` and is covered by
the theorems, which hold for any tree of two levels. An upload of two chunks has
a first, a last and one past the end; two requests are a chunk and its duplicate,
a late chunk and a finalization, or two finalizations. In `SaveSync` a conflict
takes two edits, one of them of the other device, and `save_lost` a third.
The one fault of `save_one_tab` matters to `NoOtherEditLost`, `RetryIsQuiet` and
`EditedFromKnownHead`: where pages that are not open are moved or storage writes
fail, a second fault breaks each of them (section 5). Without these two the
theorems hold for any number of faults;
`save_two_tabs` needs a draft that replaces another while its answer is on the
way; two tabs together with faults, rotations and moves are too large for TLC and
are covered by the theorems about the three properties of that run. In `KeyVault` and `IdentityLife` two passes or flows that overlap are the
question; two passwords, two keys and two codes give each flow something to
replace. In `Outline` two operations, of one tab or of two, give every race of
two, with one drain beside them; the starting notebooks supply what longer
histories leave behind (647,042 states). In `NotebookNav`
two operations overlap and a third follows (3,691,115 states); the proofs do not
bound them. In `keys` the account that shares keys has to save a recovery code
before it mints a first key, the other one never writes by a pass of its own, and
either may have pinned the other's replaced key, so each way of giving up happens.
`MaxGeneration`, `MaxIdentities`, `MaxSaves`, `MaxFaults`, `MaxEdits`, `MaxSeals`,
`MaxGen`, `MaxRequests`, `MaxKeys`, `MaxResets`, `MaxPasses`, `MaxEpochs`,
`MaxCodes`, `MaxVisits`, `MaxOps`, `MaxDrains`, `MaxKey`, `MaxDepth`, `MaxCalls` and
`MaxRounds` name every cap. Runs whose user, client or caps may come to an end do
not check deadlock; `blob`, `navigation` and its violation do.

Fairness. The server runs the collector from a ticker (`serve.go:143-156`), so
its next step is weakly fair, and clocks run, so a mark ages (`Retention`).
Requests are not fair: they may stop anywhere. In `keys` the fair steps are those
of a steward's browser, which runs `planSweep` whenever it opens the notebook,
and on KySignOn of one that presses "share keys"; a team whose stewards never
return is not covered. Nobody has to confirm a changed key or to save a recovery
code: `KeysArrive` is about the passes that need neither.
In `save_one_tab` the drain runs every 15 seconds and on every reconnect, so it
starts again and again and, with the network and the keys back between attempts,
sends (strong fairness of `DrainStart` and `DrainSend`); answers arrive, while a
session need not come back nor room be made, and `QueueDrains` claims nothing as
long as the server refuses; a load
or a recovery that has begun ends, and a user who asked to discard is served. In
`device_link` the poll loop, the trusted tab's timer and the relay's expiry run;
the users need not act, which is why an attempt may wait for its user.

## 5. Where code and text disagree

Two runs show a violation and quote the line it contradicts under `findings`.

`save_lost`: a page is in conflict; the user edits on; the save of the new edit
is sent and the request is lost, so the edit is queued without the `conflicted` mark;
the user keeps conflict copies. `keepConflictCopies` (`main.tsx:2564`) looks at
the queue only for marked entries, reloads the page and clears it. The queued edit is
in no conflict record, and the next save of the page replaces its entry.
With one fault `save_one_tab` finds no other way to lose an edit
(`NoOtherEditLost`), but for the move in the list below; `OneTabLosesNothing`
says that moves and failing storage are the only other ways there are in one tab.

`navigation_stale_closure`: `newWorkspace` and `newTeamWorkspace` wait for the
server and open the new notebook with `chooseNotebook`; `joinTeam` and
`afterIdentityChange` (`main.tsx:882-887`, after a key was created, restored,
linked or reset) wait, read the list with `loadContainers` and open a notebook
with `selectContainer`. All of them act through the render they began in. If the
user has opened and edited a page of another notebook meanwhile, leaving it saves
it under the notebook of that old render. The same happens at the end of a load
that has a page to open: `selectNote` (`main.tsx:1665`) flushes, through the
render in which the load began, what the user has opened and edited since the
list was shown. `SealedUnderOwn` and `SavesSealUnderOwn` name these origins
(`create`, `list`, `routed`) and show that no other operation of the model does
so, but for the pages opened early of the next item.

Further disagreements met while modelling, not run here:

- `main.tsx:1907-1908`: the guard of a page creation compares with the notebook
  that is being loaded. A user who left and chose the notebook again, while the
  other one is still shown (its flush waits), gets the new page opened under the
  other notebook, and a switch or autosave seals it there ("never open the new
  page under another one's key"). It takes three operations at once and five in
  all. `OnlyItsOwn` and `SealedUnderOwn` leave such pages out by name (`early`).
- `main.tsx:2364` with 2088: a page that is not open is moved on `moveChain`,
  beside whatever `saveChain` does. While a drain sends an earlier placement of the
  page, a second move is refused at the same version; the drain's answer then
  carries the accepted version onto the entry that shows the second placement. The
  tab holds the server's version with another placement, and its next write is
  accepted over the one on the server without a conflict. A second tab of the
  browser that drains the shared queue (2056) does the same. TLC finds it in ten
  steps. `VersionNamesPlacement` therefore speaks of versions another browser
  stored; what it shows is that a tab never takes another browser's version for a
  placement it has not been shown.
- `main.tsx:2429-2446`: while the write of a group's child waits behind `saveChain`,
  a reload of the notebook brings the child back with its old parent; the write
  then sends the child unchanged, is accepted, and the group is deleted. The child
  shows at the top. `EmptiedBeforeDelete` leaves out a child that the tab itself
  has loaded back into the group, and one whose write was accepted and that
  somebody put back since.
- `main.tsx:2199`: a move of a page that is not open is sent although its local
  copy could not be written; the user is told (`UNCACHED`). A load of the notebook
  that overlaps it has read the old text, and `carryDuringLoad` gives that text the
  move's version, so the next save of the page undoes the move without a conflict.
  If the store has an older conflicted draft of the page, the load shows that
  draft, and the save takes the rest of the newest version with it.
  `NoOtherEditLost` and `EditedFromKnownHead` leave such moves out by name
  (`overlooked`).
- `main.tsx:2210` with `storage.ts:101`: a move whose answer is lost queues its
  item by an unconditional `put`. A newer draft that was queued while the answer
  was awaited is replaced by the older one; a load of the notebook and an edit then
  save over the newer text. It takes two lost messages; `MaxFaults` of
  `save_one_tab` is one.
- `main.tsx:2199`, without a move: two refused storage writes and a lost answer
  make a drain's version reach a load whose cache has no copy of the text, with
  the same effect.
- Two refused storage writes make a retry noisy (`RetryIsQuiet`): settling an
  acknowledged save fails, a live save without a local copy is accepted, and
  the older cached draft is recovered, sent again and conflicts with it.
- `upload_routes.go:422`: the attachment's transaction stores `preview_digest` as
  read before it, without `claimBlob`; a sweep in between leaves a live
  attachment whose preview has no file. `gc.go:96-97`: "Writers check the file
  inside theirs (claimBlob), so a save either commits first and keeps the blob,
  or finds the file gone and fails."
- `gc.go:58`: a file moved before a crash, or before a commit that failed, has
  no blobs row, so no pass selects it. `IMPLEMENTATION_PLAN.md:622-623`: it "is
  exactly what garbage collection reclaims".
- `teamkeys_routes.go:374`: removal from a team's child notebook leaves a pending
  invitation to the team, and accepting it admits to the child again.
  `teamkeys_routes.go:373`: "accepting one must not undo the removal".
- `gc.go:43`: the collector expires a listed session by id alone, also when a
  chunk was accepted or a finalization committed since it was listed.
  `IMPLEMENTATION_PLAN.md:1628-1629`: expiry is counted "from the **last** chunk
  activity".
- `auth_routes.go:397`: a password change ends the session's step-ups, but a
  copy another tab of the same browser had sealed under the old password is
  accepted after that tab steps up again, and then does not open. `CopyOpens`
  leaves two tabs in one browser out.
- `identity_routes.go:268`: a reset is refused only for the key that is listed
  now ("The old key may sit in a stolen browser: resetting to it cuts nothing
  off."). A tab whose reset was accepted, but whose answer was lost, keeps the
  prepared key; if another tab of the same browser, which the accepted reset does
  not sign out, then resets to a third key, the first may try again and bring its
  replaced key back. It takes three keys and a lost answer.
  `ListedOnce` leaves a tab that shares its browser out; the proof attempt is
  what found this.
- `identity.ts:125-128` says that a sign-in keeps the identity by
  compare-and-swap; after a password change `rememberAfter` (`storage.ts:263`)
  and after a reset the store write without comparison.
- `outline.ts:74-106`: a block dropped below a page of a deleted section starts
  at level 0, and a subpage whose level was clamped keeps the clamp;
  `BlockKeepsShape` leaves that place out.

## 6. Proofs

`BlobProofs` proves, for any sets of notebooks, pages, digests,
handlers and collectors and any number of faults, `TypeCorrect`,
`ContentIsNeverLost` (`NeededHasFile`), `ForeignKeysHold` and `SweepIsIsolated`.
The inductive invariant is `BlobInv == TypeOK /\ NeededHasFile /\ ForeignKeys /\
SweptIsUnneeded`. `NeededHasFile` alone is not inductive: in the middle of a
sweep the file is already gone, and only `SweptIsUnneeded` says that nothing
needs that blob until the transaction ends. That in turn rests on the write lock
and on the re-check in `Sweepable`. `ForeignKeys` is what lets a commit conclude
from an existing row that the digest is tracked. Each action has one step, and
under it one step per conjunct that it can disturb.

It also proves `UseRestartsRetention` (`RetentionRestarts`) of `BlobHistory`, from
`BlobInv` and two more conjuncts: what was needed since its mark carries no mark
(`TouchedUnmarked`), and at most one sweep is open, of a blob whose mark is aged
(`SweepsAged`). A mark is set only on what nothing needs, and every commit that
comes to need a blob clears it under the write lock.

`TeamKeysProofs` proves, for any users, notebooks, invitations and bounds,
`KeyTypes`, `OutsidersHoldNoCurrentKey` (`CurrentKeyHolders`),
`EnvelopesStayEntitled`, `InvitersStaySteward` and `SavesAreSealed` (the action
property `SealedFromOutsiders`). The inductive invariant `KeyInv` adds to the
properties that every held envelope's generation was minted (`HeldIsMinted`:
otherwise a later mint could reach a generation an outsider already has), that
invitations only carry envelopes of notebooks in their scope
(`InvitationsInScope`) and that stewards are approved (`StewardsApproved`: a
steward who invites holds the key as a member). From it follows
`RemovalsAreFinal` (`TeamRemovalIsFinal`), which the run checks only for a
notebook that is its own team: a removal from a team deletes the invitations to
it and to its notebooks in the same transaction as the membership.

`UploadSessionProofs` proves, for any requests, chunk count, bodies and number
of faults, `UploadTypes`, `ReceiptsStand`, `StoredFilesNeverChange`
(`BlobImmutable`), `StoredIsExpected` and the refinement `SessionKeepsPromise`.
`UploadInv` adds to the properties: `LockHeld` (a request past the lock has read
the present counter, and while it writes not everything is counted),
`CountedWhole`, `FinalContent` (everything is counted before a file is hashed,
moved or stored, and the hash is the file's), and `NotStarted`. They are what
makes an unlocked finalization safe: a writer implies that chunks are missing, a
finalizer that none is, so the two never meet. Most actions are `QuietStep`s,
which leave file, counter and result alone and are handled by one lemma; writes
and crashes change the file only past the counter (`PastCounterKeeps`). The
refinement maps `accepted` to the file truncated at the counter: `CountChunk` is
`Accept`, `CommitFinalize` is `Store`, every other step stutters.

`NotebookNavProofs` proves, for any notebooks, pages, slots and bounds,
`TabShowsItsOwn` (`OnlyItsOwn`), `SavesSealUnderOwn` (`SealedUnderOwn`),
`LastClickWins` (`LastChoiceShown`) and `MarkerIsCommitPoint`
(`MarkedIsPinned`). The inductive invariant has four parts, proved one on top of
the other. `Types` gives the state its types and every call its shape at each of
its awaits. `Loads` says that tickets are distinct and that the newest load is
the one the tab waits for: the reason why only one load may finish. `Stored` says
that pages live in notebooks that exist, that the notebook being created holds
none, and that a migration pass has every page of its notebook behind it, in its
hands or still to do. `Sealing` adds that a call past its guards still acts for
the notebook it was started in (`Own`): `OnlyItsOwn` alone is not inductive,
because a call may hold a page across an await in which the tab moves on.

`SaveSyncProofs` proves, for any tabs, edits, generations, faults and moves,
`SaveTypes`, `AckedCacheHolds` (`AckedCacheIsVersion`), `ConflictedEntryIsKept`
(`ConflictedIsRecorded`) and `QueueKeepsUntilHeld` (the action property
`AckedIsHeld`). The code settles and replaces queue entries by comparing seals
and versions, never texts, and an answer may arrive after its draft was
re-sealed, replaced or dropped by another tab. So the argument needs to know that
a seal means one text: `SaveInv` is `SaveTyped` together with the existence of a
world (`Worlds`) that fits the state. A world gives every seal drawn so far its
text and has the versions and conflicts of the server, which only grow; it fits
when every draft in the store, in a tab's hands, in a request and behind an
answer the server would replay has the text of its seal, an answer "ok" is backed
by the version it names and an answer "conflict" by a conflict record. The one
copy that is not named by its seal is the cached page an older build left, which
is set apart as `legacy` until it is queued. Each action keeps the world,
extends it by one seal (`Fresh`), by a version (`Filed`) or by a conflict
(`Rejected`), and `Grows` says that what fitted the smaller world fits the larger
one. `SealsNameTexts` states this invariant; the three properties follow from it.

For a user with one tab it proves more: `EditsStartFromTheHead` (the action
property `EditedFromKnownHead`) and `OneTabLosesNothing` (`NoOtherEditLost`).
Their hypothesis `Alone` is one tab, no moves of pages that are not open and no
refused storage write; it is the setting of `save_lost`. The other device, the number of
edits and generations, crashes, lost requests and answers, deletion, lost roles,
rotations, dropped request keys, conflict recovery and discards are unrestricted.
With a second tab, or with moves or refused writes and a second fault, the two
properties are false (section 5), so the hypothesis is not there for the proof's
sake. Two invariants carry the argument. `LoneInv` says that queue, cache, page
and request follow one another: the cache is never behind the queue, the open
page has what the queue has, a draft in a request is the queue's or was settled or
replaced, and every draft and page lacks nothing of the version it is based on
but what a recovery reloaded over (`Seen`). `OneTabFollows` states it.
`NoOtherEditLost` is not inductive even so: whether a step that takes a
draft from the store loses it depends on where else its text is. `KeepInv` adds
this: the newest version holds the earlier ones (`VersionsKept`), a
rejected draft is in a conflict record or a kept copy (`RecordsKept`), and the
open page shows what only the drafts hold (`PageKept`). For `RecordsKept` the world of
`SaveInv` also says that a conflict record has the text of its seal.

`KeyVaultProofs` proves, for any tabs, keys of the colleague, generations, passes
and faults, `VaultTypes`, `KeysAreVouched` (`RingIsVouched`), `KeysGoToPinned`
(`GivenToPinned`), `PassesAgree` (`AgreesWithMemory`), `PinsChangeByConsent`
(`PinReplacedByYes`) and `NothingRetiredLeaves` (`NoRetiredWrite`). `VaultInv`
adds to the types and the properties what is in transit: every envelope on the
server, and in the backup it may be restored to, carries a key its sealer drew
or, where this account sealed it, one this account vouches for (`ServerSafe`), and a pass holds, in each of its phases, a ring that is vouched
for if the pin it is about to store is counted, and a plan that gives keys only
to itself and to the colleague's pinned key (`PassesSafe`). The stored pin is
always one that was pinned. `PinsChangeByConsent` adds `Asked`: a pass that goes
on to replace a pin has the user's yes to exactly that replacement, whatever
another tab stored meanwhile. `NothingRetiredLeaves` adds `FloorsCover`: a tab's
floor, or what it heard on the channel before its floor was loaded, covers every
generation the tab was told of. That a maximum exists is proved from the
well-foundedness of the naturals, by a least counterexample.

`DeviceLinkProofs` proves, for any attempts, one-time keys, tabs, resets and
faults, `LinkTypes`, `KeySealedForTypedCode` (`SealedForTyped`), `KeptKeyWasSent`
(`KeptIsSent`) and the action property `OwnKeyIsKept` (`OwnKeyStays`). The
inductive invariant is `LinkTyped /\ LinkSafe`. `LinkSafe` says that every bundle
in a request row, in an answer under way and on the newcomer's screen was sealed
by a trusted tab (`RowsSafe`, `NewSafe`), and that a claim past its code check
holds the two keys for which the code was typed (`TabSafe`). The relay may
exchange any key of a row; it cannot make a bundle.

`IdentityLifeProofs` proves, for any tabs, browsers, layouts, kinds of account,
bounds and faults, `IdentityTypes`, `IdentityIsHeld` (`SomeoneHolds`),
`PasswordCopyOpens` (`CopyOpens`) and the action properties `KeysAreListedOnce`
(`ListedOnce`) and `CopiesAreReplacedKnowingly` (`CopyReplacedKnowingly`). The
invariant has two layers. `LifeInv` is about keys and copies: beside the types it
says that a recovery copy seals the listed key under a code on paper (`RowSafe`),
that an identity without one has a password copy or, on a single sign-on account,
a vault that keeps the key (`Holders`), and what a tab in the middle of a flow
relies on (`TabsSafe`). The last is what makes `SomeoneHolds` inductive: between
keeping a key and sending it, only the tab knows that the vault still has it. It
is stated of a tab's memory and of the part of the state it is judged by
(`World`); `Grows` says how that part changes under every step of every other
tab, and `SafeGrows` that what was safe stays safe, so each action has to be
looked at for its own tab only. `SessionInv` is about sessions: a tab alone in
its browser that is about to send under a password has the step-up of that
password as long as its session is live, and a prepared key that was ever listed
is listed still, since another browser's reset or password change ends the
session (`OwnSession`). `CopyOpens` and `ListedOnce` follow for tabs that do not
share a browser, and fail for those that do (section 5).

Assumptions are the named ASSUMEs of the component modules: pages have a
notebook, "no digest" is not a digest, a parent has no parent, bounds are
naturals, a first generation exists, special values of an upload are no bodies,
an upload has a chunk, the colleague has a key other than the account's own,
fault kinds are known ones, what exists at the start is of the declared sets.

Only model-checked:

- the liveness properties (`Reclaimed`, `KeysArrive`, `QueueDrains`,
  `AttemptEnds`), since the prover does not do fairness;
- `RetryIsQuiet` of `SaveSync`, and `NoOtherEditLost` and `EditedFromKnownHead`
  with moves or a refused storage write, all with one tab and one fault. With two
  tabs the later save replaces the queued edit of the other, and with two faults
  they fail (section 5), so no theorem can state them over `Tabs` and `MaxFaults`;
- the properties of `Outline`, whose order keys are recursive: what a recursive
  definition computes for every input is out of the prover's reach;
- the violations.

## 7. Not modelled

Everything marked `not_modelled` in `PROJECT.json`, with the reason there: pure
conversion and rendering (page content, editors, administration screens,
cryptography), checks on one row or one table per request (sessions, lockout,
rate limit, share links), sequential maintenance (backup, mirror, setup,
migrations of the schema, reserved cleanup space), and protocols whose other half
is not in the repository (single sign-on, push, the change feed's native
clients). Of the modelled parts: file corruption on disk, power loss that loses
synced data, clock jumps, quota arithmetic, the content of ciphertext, and the
browser's queue of attachment uploads. Cryptography is taken as ideal: who was
served an envelope for its identity can open it, nobody else can.
