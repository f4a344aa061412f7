# TLA+ models of bvcpas

A formal model of the parts of this repository where asynchronous steps of
several actors meet: the WebSocket bridge between mapi and the browser plugin
kiro, the connection keeping of kiro, the bank download worker of mapi, its
revocable sessions, its roles and permissions, its connections to QuickBooks, its
customer support, the page of the web frontend on which clients answer, and the
tokens of the Intuit plugin of mapi_v2. Each model is translated from the source (the exact
lines are in the `map` of `PROJECT.json`), model-checked with TLC on small
instances, and its most important safety properties are proved with TLAPS for
every value of the constants.

## 1. The system and its components

mapi (`apps/mapi`, NestJS, Postgres, Redis) is the backend. kiro (`apps/kiro`) is
a Chrome MV3 extension in the operator's browser which executes commands of mapi
inside bank portals. The web frontend (`apps/bvcpas`) and the MCP server (`apps/mcp`)
call mapi over HTTP. `apps/mapi_v2` is the rewrite of mapi as a kernel with plugins.

| component | state | operations | interacts with | what is hard | what makes it correct |
|---|---|---|---|---|---|
| Plugin bridge (`23-plugin-bridge`) | active transport, `pending` map, a timer per call, per-socket `authenticated` flag | connection, hello, result, close; `send`, timeout | kiro by WebSocket; bank worker and admin endpoints by method calls; sessions to authenticate the hello | hello verified across an await; close, result and timeout in any order; frames lost with a socket | every caller is settled; answers come only from executed commands; only sockets whose hello was accepted carry commands; presence is lost only by its own socket's close |
| kiro, connection keeping (`background.ts`, `bridge-client.ts`, `popup.ts`) | global `client`; per instance `closedByUs`, `ws`, reconnect timers; JWT in storage | worker start, alarm, popup messages, socket events, reconnects | bridge gateway; `chrome.storage`, `chrome.alarms` | worker stopped at any time; storage read across an await; timers nobody cancels; lost messages | connects again while logged in; drops the client after a logout; spares healthy sockets; no zombie clients |
| kiro, command dispatch | none between commands | fetch and DOM executors, routing to a tab | bank portal | browser I/O | (not modelled) |
| Bank worker (`22-bank-worker`) | BullMQ queue with one worker; the portal's session in the browser; data held in memory; files | enqueue, take, list accounts (login), download, save, end of the session; HTTP `list_accounts` | bridge (every access to the bank), disk, database | session shared by jobs of several clients; masks of four digits; HTTP beside the queue; failures at each step; restarts, after which others run before the stalled job | no session leaked, no account of another client but by equal digits, every job reported |
| Bank vault | tables of credentials, accounts, portals | CRUD | bank worker | none: one statement per request | (not modelled) |
| Sessions (`core/auth`, `10-core-auth`) | rows of `user_sessions`, entries of 30 s in Redis, users | verify, login, logout, revoke, revoke all, change and reset of passwords, disabling | every HTTP request and the hello of the bridge | cache filled after a revocation; select-then-update; Redis failures ignored | revoked sessions are refused in the end; a password change puts out older sessions |
| Roles and permissions (`core/permissions`) | roles, their permissions, roles and overrides of users, cache of 15 min | effective permissions, role and override edits, deletion of roles | every guarded request | four statements per read and a fill after them; entries deleted after the change (before it in `deleteRole`); count-then-delete | an entry is what the tables say outside named races; a withdrawn code is refused in the end; a user loses the last role only in a race |
| Connections, token refresh (`21-connections`) and Intuit OAuth (`20-intuit-oauth`) | a row per operator and company; the OAuth state in Redis; the company of each client | authorize, callback, refresh on demand, label, delete, disconnect | Intuit's token endpoint, clients | refresh tokens that rotate and no lock; a refresh writes back the whole row it read; check-then-act on the company | the stored token is good; a refresh changes tokens only; a connection is to its client's company |
| Customer support (`12-customer-support`) | snapshot of uncategorized transactions, answers, follow-ups | sync, answers of clients and operators, writeback, mark of a finished month | QuickBooks, the client's browser | DELETE and INSERT without a transaction; an object sent back whole; rows and answers counted apart; each step may fail | snapshots mix only by overlap; a note marked as synced was posted; no edit in QuickBooks is lost; the mark counts uncategorized rows |
| Public notes page (`bvcpas/modules/16-public-uncats`) | field, debounce timer, `lastSavedRef`, query cache, saves in flight | type, blur, select, save, reload | customer support over HTTP; other tabs, operators and syncs behind it | stale closures; parallel saves; rollback of a whole list; late callbacks and commits; rows that get new ids | notes stay with their transaction; a blur saves; the page shows what mapi has |
| Intuit plugin of mapi_v2 (`plugins/intuit`) | a row per client with its tokens, company and flag; OAuth states in Redis | refresh by requests and by the weekly cron, connect, callback, disconnect | Intuit's token endpoint | the same rotation, two writers, late writes, two states for one client | the stored token is good and not flagged; a client keeps its company |
| Clients, views, call logs, event log; configuration, encryption, metrics; MCP server, other pages, other plugins of mapi_v2 | - | CRUD, read models, pure functions, interfaces | - | none for a model checker, or the same control as a part above | (not modelled) |

All calls of mapi to a bank go `bank worker -> BridgeCommandService.send ->
WebSocket -> kiro -> portal tab` and back. The hello of a socket carries a JWT
whose `jti` is verified by the sessions component. `PROJECT.json` lists the hazards
of each component, with the line where each bites.

## 2. Modules

### `PluginBridge` and `RemoteCall`

`PluginBridge` is `plugin-bridge.gateway.ts` and `bridge-command.service.ts` with
kiro's `handleMessage` at the other end.

| model | code |
|---|---|
| `sock`, `hello` | the ws object of `handleConnection`; the closure's `authenticated` flag and the pending `authenticate()` promise |
| `transport` | `BridgeCommandService.transport` |
| `pending`, `timers` | keys of the `pending` map; the `setTimeout` handles kept in it |
| `outcome`, `via` | the promise `send` returned; the socket it wrote to |
| `down`, `running`, `up`, `executed` | frames in flight to kiro, dispatches in progress, results in flight, number of dispatches of each command (history) |
| `Connect`, `Hello`, `HelloAccepted`, `HelloRefused`, `Close` | `handleConnection` and its handlers |
| `SendRefused`, `Send`, `SendThrows`, `Expire` | the branches of `send` and its timer |
| `Execute`, `Answer`, `ReceiveResult`, `StrayResult` | `BridgeClient.handleMessage`, the result frame at the gateway, a result of a client without a JWT |

`Plugins` are sockets of kiros holding the JWT of an operator, `Strangers` are
sockets of clients without one. Frames of a socket are sets, not sequences: each
carries its own correlation id, so their order is not observable to the properties,
and a set covers every order. A socket says hello once, as kiro does on
`onopen`.

`RemoteCall` is what the rest of mapi may rely on: a call is refused or issued,
settles once, is executed at most once (possibly after its caller was told of the
timeout), and is answered only if it was executed. `PluginBridge` implements it
with the identity on `outcome` and `executed`.

### `KiroClient`

`background.ts` keeps one global `client` and runs `startOrReconnectBridge` when
the worker starts, on the 30 s alarm and on `kiro:reconnect`; each run reads the
storage across an await (`Start`, `ConfigRead`, `Resume`, several at once).
`BridgeClient` instances that were replaced are kept in the model as long as a
socket or a timer of theirs lives. `Connect`, `Disconnect`, `OnClose` are
`connect`, `disconnect` and the `onclose` handler; `ReconnectFires` is the timer of
`scheduleReconnect`; `Sleep` and `Wake` are Chrome stopping and starting the
service worker, which loses every global, socket, timer and promise; `OnMessage`
and `MessageLost` are the popup's messages; `Login`, `Logout`, `Reconnect` its
buttons. `closedByUs`, `ws`, `timers`, `token` are fields of the instance. The
bridge's side of a socket appears only as `SocketOpens`, `PeerCloses`,
`SocketCloses`.

### `BankDownloads` and `JobQueue`

The browser is `tab`, `session` (whose login the portal's session is) and `login`
(submitted, not answered yet). A job goes `waiting -> probing -> login -> polling ->
listed -> fetching -> ending -> closing -> closingTab -> completed/failed`, one
label per await whose order matters; an HTTP `list_accounts` walks through the
listing part of the same path outside the queue. `Take`, `Restart` and `Recover` are
BullMQ: a worker with concurrency 1; a job whose mapi stopped stays among the active
ones of Redis (`stalled`) while the new worker takes the next waiting job, until its
lock has expired and the stalled check puts it in front of the waiting ones, once.
`GetAllAccounts`, `ProbeFails`, `SubmitLogin` are `BankSessionService.listAccounts`;
`ResolveMasks`, `FetchMask`, `FetchFails`, `Save`, `DownloadThrows` the
processor and `BankDownloadService`; `CheckPending`, `EndSession`, `CloseTab`,
`EndSessionFails` the `finally` of `process` with `endSession`;
`LoginAnswered`, `SessionExpires` and `TabClosed` are the bank and the operator.
Deposits share the actions of checks: the code's control is the same.

A job is enqueued with one of `Orders`: the kinds of `BankDownloadJob`, as far as the
control tells them apart. The masks of a job are abstracted to the login they were
taken from. The code looks a mask up by four digits in whatever session is alive:
`Mistaken` names the pairs of logins of which the second shows digits of the first,
and a mask is found there as well (`Showing`, `MaskFound`). "A file of another
client" is `files[j]` with a foreign login; `CrossesOnlyByDigits` says when that can
happen to a job that was given its masks.

`JobQueue` is what whoever enqueues a job may rely on: one job at a time, in order,
reported once; a job whose worker stopped is noticed later, is then put back in front
of those that wait, once, and fails the second time. `BankDownloads` implements it
under a mapping that forgets the bank: `JobState` takes every label between `probing`
and `closingTab` for "active", and `queue`, `active`, `stalls` are read as they are.
`WorkerIsFree` is the concurrency of 1.

### `Sessions`

Each database statement and Redis command is a step. `VerifyMiss`, `VerifyRead`,
`VerifyFill` (with `VerifyHitExpired`, `CacheExpires`) are
`SessionsService.verify` and its cache; `LoginCheck`, `LoginCreate` are
`AuthService.login`; `Revoke`, `StartRevokeAll`, `StartPassword`, `SetPassword`,
`SelectSessions`, `UpdateSessions`, `DeleteEntries` are `revoke`,
`revokeAllForUser` and their callers; `SetStatus` is the administrator's update;
`OperationDies` is a failed statement or a stop of mapi between two of them, after
which nothing takes the operation up again. `under` and `missed` are history
variables: the password version a session comes from, and the sessions that a late
login created or that an operation which stopped was still to put out.

### `Permissions`

`made`, `rolePerms`, `userRoles`, `granted`, `denied` are the tables `roles`,
`role_permissions`, `user_roles` and `user_permissions`; `cached` and `codesIn` are
the keys in Redis. `Miss`, `ReadRoles`, `ReadCodes`, `ReadOverrides`, `Fill` are
`getEffectivePermissionCodes` statement by statement. The administrative calls go
`writing -> selecting -> deleting` (the change, the users concerned, the DEL), and
`deleteRole` `selecting -> emptying -> erasing`. `CallDies` and `RequestDies` cut
any of them short. `touched` and `excused` are history: requests whose rows changed
under them, and users whose entry may be out of date until its TTL. The model lets
roles be made once each and calls be made once each.

### `Connections`

`company` is `clients.qbo_realm_id`, `row[<<user, realm>>]` the row of
`user_connections`. A flow goes `issued -> granted -> found -> stored`, one label
per await of `handleCallback`; a step that fails leaves the state in Redis
(`Fails`), so the callback may be tried again. A refresh goes `posting -> answered`
and `Persist` writes back the whole row as `Resolve` read it. Tokens are not kept
as values: `good` is the set of rows and operations whose refresh token Intuit
takes, which a rotation hands from all holders to one, and `Copy` is the upsert of
a token. `spoilt` collects the connections whose token something befell (a
revocation, an answer that was lost, two operations at once), `older` the refreshes
overtaken by a change of their row, `moved` the clients that were authorised for
another company.

### `IntuitTokens`

The same trade in mapi_v2, where the row is per client, is flagged when a refresh
is refused, where a cron refreshes every row, and where a state remembers the
company a client is connected to (anti-mixup). `Resolve`, `ReadRow`, `Save`, `Flag`
are `getValidAccessToken` and `refresh`, `CronStarts` and `CronNext` are
`refreshAll`, `Connect` and `Callback` are `IntuitOauthService`; `Grants` and
`Refuses` are Intuit's endpoint, whose every status but 2xx counts as a refusal.

### `CustomerSupport` and `Ledger`

One client and one month. `books[t]` is the object in QuickBooks: its account, its
SyncToken and the set of changes made to it. The account says what a report makes of
it: a row of an uncategorized transaction (`"uncat"`, the two categories of the code),
a row to ask the accountant (`"ask"`), or none. `row[t]` is the row in the snapshot
with its sync and category; `answer[t]` the response, with the category it was given
for and the request whose note it has; `full` the mark of the month. A sync goes
`fetching -> fetched -> deleted -> done`, a request `found -> saved -> getting ->
posting -> marking -> done`: the lookup of the row, the upsert (`Upsert`) or the
deletion (`Erase`), the mark, and the writeback (GET, POST with the SyncToken, mark as
synced). Any of them may stop at any step; `Edit` is a bookkeeper in QuickBooks, who
may change the account as well. A writeback gives the transaction an account of the
books; an operator who gives one that is reported again is left out.

The upsert overwrites the note and keeps `synced_to_qbo_at`. `edited` remembers the
transactions whose note was saved over one that was synced or on its way:
`SyncedNoteIsPosted` speaks of all others, and of the note itself, not of any that was
posted before. `Uncats` and `Answered` are the two counts of
`maybeMarkFullyResponded`, each with its category.

`Ledger` is what writebacks and bookkeepers owe the books together, without
SyncTokens or copies: a change is made to one transaction, as a whole, on top of all
made before, once. `CustomerSupport` implements it with `made[t] = books[t].changes`:
a GET, a POST of the whole object and whatever happens in between come to one
atomic change or none.

### `PublicNotes`

The page of a client: `note`, `focus`, `timer`, `lastSaved` are the state and refs
of `PuTransactionDetail`; `cache` the query cache, `save[n]` the n-th `mutate`,
`reload` the refetch, `server` what mapi has. A handler and the effects React
runs after it are one step. The timer keeps the text of the closure it was given,
which is the one of the render before the edit. Whether the effect on the
transaction runs when its object changed but its note did not (its date did) is
left open, as the date is not modelled.

The id of an item is the id of its row, and a sync deletes the rows of the month and
inserts them with new ones (`RowsGo`, `RowsCome`). `rows` says whose rows mapi has,
`cacheRows` whose ids the page has; a save by an id that is gone is answered 404
(`Apply` needs the same rows, `Fail` does not). When a reload or a roll-back brings
other ids, `Show` takes the selected transaction away, with the field and the focus,
opens another one, and what was typed and not saved is lost (`TypedIsLost`). A list
without rows empties the detail. Two simplifications: a sync changes all rows of the
page, not some (a single row that leaves makes the same jump), and which transaction
is selected then is left open (the code takes the first in its order).

A save may fail for the page before, while or after mapi carries it out: `Fail` ends
as `failed` (mapi has done it or never will) or `lost` (it may yet, by `ApplyLate`,
also after the page was through with it). `OtherWrites` is another tab of the client
or an operator. `unseen` remembers the transactions that `Elsewhere` changed since the
page last read the list: no event tells the page of them, and `ShowsServer` excepts
them, and only them.

Names that `CustomerSupport` has as well carry `Page` here (`PageTxns`, `PageSpec`,
`PageTypeOK`), so that one module of proofs extends the page and the service behind it.

## 3. Runs

`intuit` and `connections` are checked for deadlock: there an operation can always
begin. The other cfgs say `CHECK_DEADLOCK FALSE`: callers, operators and Chrome may
stop for ever, and the bounded inputs (commands, clicks, jobs, calls) run out.

| run | question | bounds |
|---|---|---|
| `bridge` | are the records of a call consistent, answers genuine, carriers authenticated, presence kept, every caller settled; is `RemoteCall` implemented | two plugin sockets (an old and a new one), one stranger, two commands: enough for late closes, late results, and one call's result against another's timer |
| `kiro` | does the current client always have a JWT; are healthy sockets spared; does it reconnect; does a logout drop the client | two instances (current and replaced), two sockets, one run of `startOrReconnectBridge` at a time beside the popup, two clicks |
| `bank` | does the conditional close leak a session; when do given masks yield another client's account | two jobs of up to two clients of each kind of order (a step of checks, a client-download of given masks, one of all accounts), two masks each, one HTTP listing, one retry after a restart; one login shows digits of the other, not the other way round |
| `bank_live` | is the worker a serial queue (`JobQueue`), is every job reported | two jobs of one client with two masks, of a kind that isolates failures and one that gives up, so that one of several masks fails |
| `sessions` | are older sessions put out; are revoked sessions and disabled users refused in the end | two sessions of one user, a verification, a login and a revoking operation at a time, three passwords, Redis may fail, one session may expire |
| `permissions` | is an entry what the tables say; is a withdrawn code refused in the end; can the last role be lost | one user, a role of the system and one made by operators, one code, two requests, two calls: enough for a request or a call to run between any two statements of another call |
| `intuit` | is the stored token good; does a client keep its company | two clients, two companies, one request, the cron, one flow: two writers of a row, and a company that another client has |
| `connections` | is the stored token good; does a refresh change anything else; is a connection to its client's company | one operator, two clients, two companies, two labels, two requests, one flow |
| `support` | do snapshots mix, do edits and writebacks come to atomic changes of the books (`Ledger`), is a note marked as synced posted, what does the mark count | two transactions of any account, two requests of any kind, two syncs, one edit, one update of the follow-up: an answer edited during its writeback, a row that changes its category between two syncs |
| `notes` | does a blur save; do notes stay with their transaction; does the page converge to mapi's state | two transactions, an empty note and a text, two edits, two saves, one change of the rows' ids, one note of another writer: two saves of one transaction or of both, each of which may fail, come late or meet a sync |
| `kiro_zombie`, `notes_autosave` | statements of the repository that the code does not keep (section 5) | the smallest that show it |

Every property of a passing run has a mutant in `PROJECT.json`: a variant of a
mapped definition with a plausible slip, under which TLC finds the property
violated. The variants stand beside the definitions they change.

Symmetry is used in safety runs only (action properties and the refinement of
`Ledger` are formulas `[][A]_vars`, checked step by step, so it is sound there). Bounds of the modules:
`MaxTimers` merges the reconnects pending for one instance beyond the first (the
code lets them accumulate; for the properties one or several make no
difference, a timer that fires being a `connect()` whichever it is), `MaxClicks`,
`MaxPasswords`, `Expirable`, and the sets of jobs, runs, sockets, tokens.

### Fairness, and why the code justifies it

- `PluginBridge`: weak fairness of each timer, because `setTimeout` callbacks are
  run by the event loop. Nothing is owed by plugins, sockets or the browser.
- `KiroClient`: strong fairness of storage reads, of the continuation of a run, of
  reconnect timers, of the alarm and worker start, and of message delivery.
  Strong, because Chrome may stop the worker between the two, but stops an idle
  worker only: it does not interrupt every start. Of infinitely many
  attempts to open a socket one succeeds (the network and mapi are not down for
  ever), a close handshake ends. Nothing is owed by the operator, the peer, or
  Chrome's decision to stop the worker.
- `BankDownloads`: weak fairness of `Take`, of the steps of each job and of `Recover`:
  a bridge call settles (`ImplementsRemoteCall`), so each await of a job ends, and a
  mapi that runs again has a worker and BullMQ's periodic stalled check. Nothing is
  owed by the bank, the browser or HTTP callers.
- `Sessions`: TTLs run out and the awaits of a verification end. Nobody has to
  send a request, and the revoking operation may stop half-way.
- `Permissions`: the same, for entries of 15 minutes and the requests of the guard.
  A call owes nothing: it may hang for as long as the database does.
- `PublicNotes`: the timer fires, requests end well or badly, and the list that was
  asked for arrives. The client owes nothing, nor do others, syncs or late commits.
- `Connections`, `IntuitTokens`, `CustomerSupport`: none; a token that was lost stays
  lost until somebody authorises again, and any operation may stop.

## 4. Proofs

TLC checks small instances; the theorems hold for every value of the constants
that satisfies the named `ASSUME`s: the null values are not members of the sets
they complete (`SocketsAssumption`, `NullsAssumption`, `NamesAssumption`),
plugins and strangers are disjoint (`KindsAssumption`), the bounds are numbers of
the right kind (`BoundsAssumption`), kinds of operations do not overlap
(`DistinctAssumption`), the migration made a role of the system
(`SystemAssumption`). Only two sets are assumed finite, because the code counts
them (`FiniteAssumption`): the transactions of a client and the roles.

| module | theorems | inductive invariant, and why it is needed |
|---|---|---|
| `PluginBridge_proof` | `TypeCorrect`, `Bookkeeping`, `NoForgedAnswer`, `Carriers`, `PresenceKept`, `Refinement` (`Spec => Call!Steps`), `SafeToRetry` | `IInv` adds to the checked invariants that an accepted socket is a plugin (`AcceptedArePlugins`), that what kiro runs or sends back was executed (`PluginsAreHonest`), and that a command on its way down was issued, is on the socket `send` chose and was not executed before (`DownWasIssued`). Without them an answer could come from nowhere, or a command could run twice. `SafeToRetry` is drawn from `RemoteCall` alone: what it says of calls holds of whatever implements it |
| `KiroClient_proof` | `TypeCorrect`, `HasToken`, `SocketsSpared`, `LogoutStands` | `OwnSocket`: `ws[i]`, when set, is owned by `i`, and a socket object is free exactly when nobody owns it. Without it `connect()` of one instance might close the socket of another. `LogoutStands` counts the runs that read the JWT before the logout (`LateRuns`): no new ones appear, and a new client uses one up |
| `BankDownloads_proof` | `TypeCorrect`, `OwnAccounts`, `NoLeak`, `WorkerImplementsJobQueue`, `NothingIsStranded` | `OwnAccounts`: the masks of a job with explicit masks are of its own credential, what it holds or wrote is of a login that shows one of them, and whatever is queued has started from its order (`OwnMasks`, `QueueStarted`). `NoLeak`: only the active job is at work (`OneWorks`); after a clean logout nobody is logged in and no login is in flight until the next job is taken, and a session is kept only with a job waiting (`EndsClean`). The refinement needs `Placed`: a job that waits is in the queue, once, and only such jobs are, and the worker's job is the only active one; without it the head of the queue might be a job that was reported, or was queued twice |
| `Sessions_proof` | `TypeCorrect`, `PutOut`, `RevokedForGood` | the sessions an operation must put out exclude its own (`OlderAreOthers`), and between select and update those still alive are among the selected (`OlderAreSelected`), since a row, once created, never becomes alive again. `RevokedForGood` counts the verifications that accepted a session before it was barred (`Late`): no new ones appear, and an entry uses one up |
| `Permissions_proof` | `TypeCorrect`, `Fresh`, `LastRole`, `WithdrawnForGood` | `ReadIsCurrent`: what a request has read at each of its three SELECTs is what the tables say, unless a row of its user changed since; and an entry that is out of date is excused or owed a DEL, which an owing call goes on owing whatever others do (`OwedStays`, `OthersOwe`). `CountedMore`: a revocation about to be written has counted at least two roles. `WithdrawnForGood` counts the requests overtaken by a change (`LateFor`), which have read something (`TouchedHasRead`); that any other request gives back nothing withdrawn is `ReadIsCurrent` |
| `IntuitTokens_proof` | `TypeCorrect`, `CompanyKept`, `TokenGood` | `CompanyInv`: an operation not older than the connection is for the company of the row. `TokenInv`: for a client that nothing befell, at most one operation is at the endpoint, with the good token, nobody else is there for the same company, and the row is good unless an answer is about to be stored over it. Without the clause about others an exchange for another client could take the token of this one away |
| `Connections_proof` | `TypeCorrect`, `Company`, `RefreshKeeps`, `TokenGood` | `CInv`: a client not yet created has no company (`NewHasNoCompany`), and whoever is about to write a connection has a client bound to its company (`WritersAreBound`). `ReadIsCurrent`: a refresh that nothing overtook holds what the row says. `TokenInv` as in `IntuitTokens`, by connection |
| `CustomerSupport_proof` | `TypeCorrect`, `SyncedIsPosted`, `WritebackImplementsLedger`, `NoEditIsLost`, `Mixed`, `Counted` | a request that saved has an answer for good (`SavedHasAnswer`), what a writeback read is the current object or has an older SyncToken (`ReadIsOlder`), what marks an answer was posted (`MarkingIsPosted`) and is of the note saved last unless another was saved over it (`WritingIsLatest`), two syncs that run were both noted (`RunningOverlap`). The refinement adds `PostedOnce`: a request whose change is in the books is past its POST, so no change is made twice. `NoEditIsLost` is drawn from `Ledger` alone. `Counted` compares cardinalities: as many completed answers to uncategorized rows as such rows, and a row without one, leave an answer without its row |
| the same, of `PublicNotes` | `PageTypeCorrect`, `OwnNotes`, `BlurHasSaved`, `RestIsConsistent` | `OwnNotes`: whatever holds a text of a transaction (field, timer, cache, saves with their snapshots, a list just read) holds one typed for it (`TextsAreOwn`). A save that came too late for the page still holds such a text (`Alive`). `BlurHasSaved`: of a transaction outside the named races, at most one save is on its way and has the text of the cache (`OneSave`, `SavedIsCached`), otherwise mapi and a list just read have it (`ReadIsStored`); the field has the text typed last, and `lastSaved` is what the cache has, or a save is on its way that will set it (`FieldIsWanted`, `CachedIsWanted`). `lastSaved` decides whether a blur saves, so without the last two a blur might skip a text nobody has. When other ids come, what was in the field is in the cache, or the transaction is excused (`TidyShow`). `RestIsConsistent` is inductive with the type invariant: whatever leaves the page different from mapi asks for a reload or marks what it changed as unseen |

Refinements are of `RemoteCall`, `JobQueue` and `Ledger`; two theorems
(`SafeToRetry`, `NoEditIsLost`) are then drawn from the abstract specification only.

Only model-checked: liveness, that is the fairness part of `RemoteCall`
(`ImplementsRemoteCall`), `ReconnectsWhileLoggedIn`, `LogoutDropsClient`,
`EveryJobIsReported`, `RevokedIsRefusedInTheEnd`, `WithdrawnIsRefusedInTheEnd` and
`ShowsServerInTheEnd`. They rest on fairness and `ENABLED`, which are out of the
prover's reach. What holds of them without fairness is proved where that says
something: `Refinement`, `LogoutStands`, `NothingIsStranded`, `RevokedForGood`,
`WithdrawnForGood`, `RestIsConsistent` say that what is awaited cannot be undone, or
lost, or that what stands in its way only runs out. `ReconnectsWhileLoggedIn` has no
such half: a client may lose its socket at any time. Every safety and action property
of a passing run is a theorem.

## 5. Where the code and its documentation disagree

Two are runs that TLC ends with a counterexample; the quotes are in `PROJECT.json`.

- `kiro_zombie`: `disconnect()` does not cancel a scheduled reconnect, although
  `background.ts` says it does: a replaced client connects again beside the new one.
- `notes_autosave`: the debounce calls the `flush` of the render before the edit, so
  when the client stops typing it saves the text without the last edit. The last
  text is saved by the blur.

Seen on the way, and not stated as properties because they are known not to hold:

- A socket that closes while its hello is being verified becomes the active
  transport afterwards (`plugin-bridge.gateway.ts:59`). Commands are then written
  into a dead socket until the next hello, and fail by timeout instead of "not
  connected".
- A mask is four digits, and the session that is looked in may be another client's:
  where two clients have accounts with the same digits, a job downloads the other's
  (`chase.adapter.ts:242`). `CrossesOnlyByDigits` says that nothing else does.
- The steps between the login and the `try` of a client-download may throw, and
  then nobody ends the session (`bank-download.queue.ts:115`). Such a session is
  found alive by the next job; when that job asks for all accounts, it downloads
  those of another client (`bank-session.service.ts:117`).
- A login that compared the old password before a reset creates its session after
  the reset revoked the others (`auth.service.ts:89`); such sessions are in `missed`.
- `connect()` is meant to be idempotent, but the close event of an older socket of
  the same instance clears `this.ws`, and the next `connect()` opens a second
  socket beside the newer one. The gateway takes the last hello, so calls work.
- Reconnect timers accumulate for an instance: each close schedules its own.
- An HTTP `list_accounts` and the worker can log in at the same time.
- Checks and deposits count a failed mask as 0 images and complete; the document
  `apps/mapi/docs/flows/bank-download.md` speaks of an error per account.
- The comment of `verify` that a cached session is not revoked does not hold for
  the moments between a revocation's UPDATE and its DEL, or after a late fill. What
  does hold is `RevokedIsRefusedInTheEnd`.
- `deleteRole` deletes the cache entries before the role, so a request in between
  keeps the role's permissions for 15 minutes. Two revocations at once leave a user
  without any role.
- The reconnect endpoint of a client (`client-intuit.controller.ts:47`) leads to a
  callback that overwrites the client's company with whichever was authorised
  (`intuit-oauth.service.ts:176`); hence `moved`. In mapi_v2 two states that were
  issued while a client was not connected expect no company, so the second callback
  may move the client, although the comment of the controller
  (`intuit-client.controller.ts:13`) has the company checked; hence `older`.
- `findActiveForRead` falls back to a connection of another operator, of any scope.
- In mapi_v2 every status of the token endpoint but 2xx, an outage of Intuit
  included, marks the client as needing a new authorisation.
- A refresh takes back a label that was changed while it ran, and brings back a
  connection that was deleted, in mapi_v2 too a row that was disconnected. Nothing
  keeps two refreshes of one token apart: with tokens that rotate the second is
  refused, or a late write stores a spent token; hence `spoilt`.
- An answer that is saved again keeps its `synced_to_qbo_at`, so a new note whose
  writeback fails, or that is saved without one, counts as synced
  (`client-transaction-responses.repository.ts:52`); hence `edited`. The description of
  the endpoint says that a writeback forces `completed=true`
  (`client-transaction-responses.controller.ts:88`); `markSyncedToQbo` does not.
- The mark of a finished month may count answers of transactions that left the
  snapshot or that are to ask the accountant now, and an update of the follow-up writes back the mark it read.
- The page takes the late success of another transaction's save for what was saved
  last, skips a save when the text was edited back while one is on its way, and rolls
  the whole list back when one save fails; a list fetched during a save may show an
  older note, which a blur then stores or deletes.
- A sync while a client types: the next reload brings other ids, another transaction is
  selected, and what was typed since the last save is lost
  (`public-uncats-screen.tsx:47`, `pu-transaction-detail.tsx:58`). A save that mapi
  carries out after the page saw it fail, and a note of another tab or an operator, are
  not shown until the next reload.

## 6. What is left out, and why

- Contents of frames, of bank answers and of files; logging, metrics, formatting:
  no property depends on them. Pacing, the length of the backoff and the status
  record for the popup: delays are arbitrary in the models, which covers every length.
- In `BankDownloads`: a worker that loses its lock while it still runs (its job could
  then run twice at once), which BullMQ's renewal of locks is there to prevent; that
  BullMQ reports the second stall when the job is next taken, not at once; the previews and the step endpoints with `save: false` (they
  change nothing the model keeps), a bank answer of status 200 without a list of
  accounts (the code takes it for an empty list), a restart of mapi while no job is
  active (it only fails HTTP listings, as `ListingThrows` does).
- In `Sessions`: `last_seen_at`, `last_login_at`, mails, creation of users.
- In `Permissions`: names and descriptions, the catalogue of codes.
- In `Connections`: shares and pauses (they filter which connection a read finds),
  connections by API key and the other providers, whose refresh is the same call.
  In `IntuitTokens`: access tokens and their dates (a refresh may begin at any time).
- In `CustomerSupport`: counters of public links (checked and incremented in two
  statements: the limit may be exceeded), screenshots, creation of links, mails.
- In `PublicNotes`: layout, translations, a reload that fails (it replaces the page),
  the two SELECTs of the list as two steps, a row that leaves the list alone (see above).
- The plugins kiro-bridge, bank-credentials and bank-downloader of mapi_v2: ported
  from the modules of mapi that are modelled here.
- Components marked "not modelled" above: one statement per request, pure functions
  or browser I/O.

## 7. Plan

Done, in this order: `PluginBridge` and `RemoteCall`, `KiroClient`, `BankDownloads`,
`Sessions`, `Permissions`, `IntuitTokens`, `Connections`, `CustomerSupport`,
`PublicNotes`; the abstract specifications `Ledger` and `JobQueue`; the proofs about
all of them. Left:

1. Compositions: `BankDownloads` over `PluginBridge` (each await of a job a call of
   the bridge, its outcomes those of `RemoteCall`), and `Sessions` with the
   gateway's `authenticate` (a socket outlives the revocation of its session).
2. An abstract specification of a capability that is withdrawn and then runs out,
   implemented by `Sessions` and by `Permissions`.
3. The bank downloader of mapi_v2 once it differs from mapi's.

Runs stay few, one per question.
