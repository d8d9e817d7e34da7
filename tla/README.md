# SecureMsg, specified

TLA+ specifications of the SecureMsg backend, the TLC runs that check them on
small instances, and theorems about them that TLAPS checks for every value of
the bounds. File and line numbers refer to the repository this directory is
kept beside.

1. [The system](#1-the-system)
2. [How it executes](#2-how-it-executes)
3. [Modules](#3-modules)
4. [Runs](#4-runs)
5. [Disagreements found](#5-disagreements-found)
6. [Proofs](#6-proofs)
7. [Not modelled, and the plan](#7-not-modelled-and-the-plan)

## 1. The system

SecureMsg is the server of an end-to-end encrypted messenger. It stores public
keys, ciphertexts and group membership and never sees a plaintext. It is one
FastAPI process in front of PostgreSQL, and a second process that reports
accesses to secrets to a contract on a blockchain.

| Component | Code | State it keeps | Operations | What makes it correct |
|---|---|---|---|---|
| Group repository | `app/repositories/group.py`, `app/models/group.py` | groups with creator and epoch, members, sender keys waiting to be fetched, group messages, receipts | create a group, add and remove a member, store and fetch keys, store, revoke and acknowledge a message | creator is a member; a key change with every key and every leave; nobody outside holds the current key; a message stays until its audience has it |
| Group endpoints | `app/api/groups.py`, `app/api/deps.py`, `app/schemas/groups.py` | none; what a request has read | one per repository operation, behind `get_current_user` and `require_group_member` | the above, with requests in flight; only the creator removes others |
| Accounts | `app/repositories/user.py`, `app/models/user.py` | users | register, delete | deletion leaves each shared group with a creator and a new epoch, and takes no group in which others remain |
| Login and tokens | `app/api/auth.py`, `app/auth/srp_session.py`, `app/auth/tokens.py` | SRP sessions (memory), blocklist (table), tokens (at the clients) | srp-init, srp-verify, verify-2fa, refresh, logout | sessions and tokens are single-use; no access without the second factor; a token is for whoever proved the password |
| Direct messages | `app/repositories/message.py`, `app/api/messages.py` | messages | send, list, acknowledge, revoke | the inbox limit; a message goes with its receipt or revocation, once |
| Keys | `app/repositories/key_bundle.py`, `app/api/keys.py` | key bundles, one-time prekeys | publish, upload, fetch, count | a one-time prekey is given out once; a bundle is consistent |
| Database access | `app/session.py`, `app/dependencies.py` | engine, pool of 10 + 20 connections, row locks of open transactions | one session per request, one more per check or revocation of a token | every request ends, and gives back what it held |
| Rate limiting | `app/auth/rate_limit.py` | counters of slowapi | 429 | - |
| Audit watcher | `app/audit_watcher.py`, `AuditLog.sol`, its unit in `start.sh` | handles, positions and watches (memory); events on chain | tail, parse, submit | what the chain shows happened, once, in order; every access is on chain |
| Start-up, headers, deployment | `app/main.py`, `app/vault.py`, `app/config.py`, `app/logger.py`, `app/middleware/security.py`, `start.sh`, `scripts/` | - | - | - |

Components interact by calls within a request (endpoint, dependency,
repository), through the tables of one database, and through the rows that
`ondelete="CASCADE"` removes: deleting an account reaches every table, and the
cascade of `groups.creator_id` deletes groups. The watcher shares nothing with
the server but the log files.

What is hard to test here: dependencies of one request between the handlers of
others; objects a session has cached; two ways out of a group with rules of
their own; check-then-insert in two sessions; receipts under READ COMMITTED;
row locks held across the event loop; threads, connections and the loop waiting
for each other; notifications that are merged or lost; nonces of transactions that
are not mined yet; restarts. `PROJECT.json` lists each at its line under "hazards".

## 2. How it executes

What the granularity of the actions follows from:

* `start.sh` runs one uvicorn process. Endpoints are `async def`, call the
  database synchronously and never await, so **the body of an endpoint is
  atomic with respect to other endpoint bodies**.
* The dependencies (`get_current_user`, `require_group_member`,
  `require_preauth_user`, `require_valid_refresh`) are plain functions.
  FastAPI runs them in its thread pool, before the endpoint: **each of their
  statements is a step of its own**, concurrent with other requests.
* slowapi's decorator wraps the endpoint: the limiter counts, and may answer
  429, after the dependencies have run (`reject`).
* All repositories of a request share one session (`repo_dep`; FastAPI caches
  `get_session` per request), with `expire_on_commit=False`. An ORM object the
  session has loaded keeps its attributes, and `SELECT ... FOR UPDATE` without
  `populate_existing` does not renew them. `require_group_member` hands the
  loaded `Group` to the endpoint, so it stays in the identity map. This is why
  `remove_member` takes an `owner` argument in the model, and `add_member`,
  which selects a column (`is_creator`), does not.
* `verify_token` and `revoke_token` open sessions of their own, one after the
  other in the thread of `require_valid_refresh`.
* `get_session` yields: its session is closed after the handler, by a thread of
  the same pool that only the event loop can send. Until then the transaction of a
  handler that did not commit is open, with its connection and its row locks.
  A handler that asks the database again after its commit (`session.refresh` in
  `store_group_message` and `create_group`, the second transaction of
  `publish_bundle`) takes a connection of the pool again, while the loop waits.
* The watcher is a systemd service of its own with one thread. Each call it makes
  to the kernel or to the node is a step; in between lines are written, files
  renamed, transactions mined.
* Anything a repository call raises rolls its transaction back: a failed call
  leaves the tables alone, and is a `reject`.

## 3. Modules

```
GroupLife <------------- implemented by ---- GroupRepository
                                               |      \
                                            GroupApi   GroupRepositoryProofs
                                               |   \          |           \
                                          GroupClients  GroupApiProofs  GroupLifeRefinement

TicketLife <------------ implemented by ---- AuthTokens
                                               |
                                        AuthTokensProofs ---- TicketLifeRefinement

AtomicStorage <--------- implemented by ---- DirectStorage ---- DirectStorageProofs

Server ---- ServerProofs

AuditTrail <------------ implemented by ---- AuditWatcher ---- AuditWatcherProofs
```

Definitions have the names of the code (`create_group`, `_store_skdms` as
`store_keys`, `require_group_member`...); `PROJECT.json` maps each one to its
lines. A definition whose comment begins with MUTANT is a slip the code could
have made, put beside the definition it would replace; it is no part of the
specification and is used only to see that each property notices one.

**GroupLife** says what the life of a group may look like: it is formed with
its creator, its epoch moves (`Rekey`) perhaps with a join, somebody leaves
(`Leave`: the epoch moves and a leaving owner is followed by the lowest id), it
dissolves when at most two are in it.

**GroupRepository** is the group tables. State: the primary keys of `users` and
`groups` with their sequences, `creator` and `epoch` (columns of `groups`),
`members`, `skdms`, `messages`, `receipts`, and one history variable, `keyHeld`:
the newest epoch whose key a user has fetched in a group. One action per
transaction, with all its statements and the cascades it sets off:
`create_user`, `delete_user`, `create_group`, `add_member`, `remove_member`,
`store_skdms`, `pop_skdms_for_user`, `store_group_message`,
`revoke_group_message`, `record_group_receipt`. `Next` runs each with its checks
in one piece, as two requests that do not overlap would. Recipients of keys are
arbitrary sets of users, because the code checks nothing but their foreign key.
A receipt or revocation is accepted under the URL of any group the caller is in,
because the code does not compare the message's group with it. `FairSpec` adds that
a recipient who stays a member acknowledges in the end (`Acknowledge`).

**GroupApi** puts requests in front: `get_current_user`, `load_group` and
`check_member` (the two SELECTs of `require_group_member`) and the endpoint are
steps, and `req` holds what a request has read, the `creator_id` of the cached
`Group` included.

**GroupClients** restricts GroupApi to clients that send keys only to members
they saw when they composed the request. It exists for one question: whether the
README's sentence about removed members holds for clients that follow it.

**TicketLife** says what single use means: a ticket is traded at most once,
accepted never again once spent, and never traded when handed back.

**AuthTokens** is login. State: accounts with names, `sessions`
(`srp_session._sessions`), every token ever issued, which credentials are past
their expiry, the blocklist, requests, and the history `loggedOut`. A token
remembers what it was given for (`from`), whose password was proven (`proven`)
and whether a TOTP code was accepted (`totp`). `verify_token`, `revoke_token`,
`load_preauth_user` and the endpoint of a request are separate steps; `restart`
empties `sessions` and forgets the requests, and may come between any two.
Expiry is an event that may come at any time rather than a clock, so the result
does not depend on the configured lifetimes.

**AtomicStorage** says what the requests about messages and keys promise: a message is sent
or ended, a bundle published, prekeys uploaded, one fetched with a bundle, a group message
posted, acknowledged or revoked, an account deleted, each in one step that finds its accounts
there and its ids not used before. It does not promise that an inbox is
limited, that a group message goes with its last receipt, or that a bundle and its
prekeys appear together, because the code does not keep that (section 5; `publish_bundle`
is two transactions, and so a `Publish` and an `Upload`).

**DirectStorage** is messages between two accounts and to a group, key bundles and
one-time prekeys, on several connections. Each statement is a step and each commit another,
as PostgreSQL runs them at READ COMMITTED; `conn` holds what the open transaction of
a connection has done. A statement sees committed rows only and waits for rows that
others have changed. `publish_bundle` is two transactions, `pop_one_time_prekey`
the subselect, the DELETE and the commit, and `rollback` may end any transaction.
A group message (`posts`, and a row of `receipts` for each who has yet to acknowledge)
is stored by two statements and a commit, and acknowledged by two and a commit: the DELETE of
the receipt, the DELETE of the message if no other receipt is seen
(`OthersOutstanding`), and `commit_receipt`. There is one group and every account is in
it, so that only account deletions change the membership; GroupRepository has the rest.
The histories `ended` and `handedOut` count the answers clients were given, and
`overlapped` the group messages of which two receipts were recorded at once.
This is finer than the server is: its endpoints run one at a time. It is what the
repositories promise by themselves, and what `test_concurrency.py` tests.

**Server** is what requests wait for: the event loop, a thread, a connection, the
row lock of a group. A request goes through the hops its kind has in
`Dependencies`: it waits for the loop, then for a thread, in the thread perhaps for
a connection (`WaitsForConnection`, until `thread_timeout`), and its result waits
for the loop again. Its handler holds the loop (`loop`) for as long as it waits
itself. Kinds differ by what they wait for: a `change` meets the lock of a group's row
(members, keys and messages of a group, deletion of an account), a `plain` request meets none
(reads, receipts, revocations, fetched keys, direct messages, key bundles, a new group),
a `refused` one is a `remove_member` that raises, or finds nobody to remove, after its SELECT
FOR UPDATE and leaves the row locked, and `login` has a handler that makes the first
query itself. What is not under `/groups/{group_id}` has one query in its dependencies, and
begins at the second hop (`FirstHops`). `Answers` is how a handler ends that has a connection: it returns and
leaves its transaction to `close`, or commits, which gives the connection back, and returns; or
it commits and needs the database `"again"`. In that state the loop is still in it, until
there is a connection (`handle_again`; a refresh keeps it until `close`, a commit does not) or
the pool gives up (`handler_timeout`: 500, though the write is committed). Any `plain` or
`change` handler may go there, which is more than the three that do; a model in which more
handlers wait has the behaviours of the code among its own. `close` gives back what the session holds. What a
request does to the tables is left to the other modules. `CanGo` says of a request
that what it waits for is there, by its state and without ENABLED, so that a proof
can speak of deadlock; on an instance TLC found it to be the same as
`ENABLED` of the request's steps.

**AuditTrail** says what the chain may show: accesses that were logged, those of a
source in their order and none twice, reported by one wallet.

**AuditWatcher** is the watcher with what it depends on. State: `log`, the lines of
both files, and the inode each name leads to; of the process its `phase`, and per
file the handle's inode, position and watch (`reader`); inotify's `queue` and the
`batch` that was read from it; the access being submitted (`hand`); the node's
`mempool`, the number of mined transactions (`nonce`) and the contract's `events`.
`open_source` and `add_watch` are two steps per file; `get_transaction_count` and
`send_raw_transaction` are the two calls of `submit_event`. The constant `Fault`
names what may go wrong around it: the process is killed, an OSError ends its loop, the
node does not answer or forgets a transaction, a file is rotated, auditd's rules are
loaded (a record without pid or uid raises ValueError, which ends `run`), others call the
contract.

**GroupRepositoryProofs**, **GroupLifeRefinement**, **GroupApiProofs**,
**AuthTokensProofs**, **TicketLifeRefinement**, **DirectStorageProofs**,
**ServerProofs** and **AuditWatcherProofs** hold the proofs (section 6).
The **MC** modules only declare model values and symmetry.

## 4. Runs

| Run | Specification | Instance | Checks |
|---|---|---|---|
| `group_tables` | `FairSpec` | 3 accounts, 1 group, 1 message, epochs to 3; 128 thousand states | `TypeOK`, `CreatorIsMember`, `CurrentKeyKeptInside`, `PendingKeysNotAhead`, `AudienceOnlyShrinks`, `RemovalPurgesPendingKeys`, `ImplementsGroupLife`, `MessagesGoOrAreStranded` |
| `group_api` | `ApiSpec` | 3 accounts, 1 group, 1 message, epochs to 2, 2 requests; 783 thousand states | `ApiTypeOK`, `NoGroupWithoutMembers`, `PendingKeysNotAhead`, `LeaveChangesKey`, `RemovalPurgesPendingKeys`, `MessageKeptUntilAcknowledged` |
| `auth_tokens` | `AuthSpec` | 2 accounts, 1 name, 5 sessions and tokens, 2 requests; 276 thousand states | `AuthTypeOK`, `OneHeirPerTicket`, `SecondFactorBehindEveryPair`, `ImplementsTicketLife` |
| `direct_storage` | `StorageSpec` | 3 accounts, 2 connections, 1 message, 1 group message, 2 prekeys; 1.68 million states | `StorageTypeOK`, `PrekeyHandedOutOnce`, `EndedOnce`, `NothingOfDeletedAccounts`, `StaysOnlyIfOverlapped`, `GoesWhenAllHaveIt`, `ImplementsAtomicStorage` |
| `server_progress` | `FairServerSpec` | 3 requests of any kind, 2 connections, 2 threads; 262 thousand states | `ServerTypeOK`, `NothingLeaks`, `OnlyRefusalsHoldRows`, `SomebodyGoesOrStuck`, `EveryRequestEnds` |
| `audit_log` | `FairAuditSpec` | 3 lines, 1 rotation, a queue of 2, every fault; 538 thousand states | `AuditTypeOK`, `NoNonceGap`, `ImplementsAuditTrail`, `HeardLinesStayAnnounced`, `HeardLinesAreRead` |
| `group_forced_removal`, `group_account_race`, `group_removed_key`, `auth_same_name`, `direct_inbox`, `audit_dropped` | | | one property each that the code violates (section 5) |

*Bounds.* `MaxUser`, `MaxGroup`, `MaxMessage`, `MaxEpoch`, `MaxAccount`,
`MaxSerial`, `MaxPrekey`, `MaxUpload`, `MaxPost`, `MaxLine` and `MaxRotation` cap sequences
the program lets grow; each is a guard of the action that draws from the sequence.
`PoolSize`, `ThreadLimit` and `MaxQueued` are limits the system itself has, made small. Three accounts are the least with which a group
survives a removal (two must remain), a creator can be followed by either of
two others, and an outsider can be given keys. A group's rows are never read or
written by an operation on another group, except by the deletion of an account
and the receipts under a foreign URL; the proofs cover any number of groups.
Epoch 3 lets a key be handed out, a member leave, and a key be handed out
again. In `AuthTokens` five serials are enough for a session, its pre-auth
token, a pair, a refresh of it, and one more handshake meanwhile; two accounts of
one name in succession are what the account lookup by name is about. In
`DirectStorage` two connections are enough for every wait and every race of the
code, which has no transaction that waits for two others; a third account lets a
message of two parties cross the deletion of either while another sends, and gives a group
message two recipients, whose receipts can overlap. One message and one group
message are enough, since no operation reads two of them; the inbox limit, which does, is
met by two messages in `direct_inbox`. `InboxMax` is 1 where the code has 50000: the count matters only at the limit.
In `Server` three requests for two connections and two threads let every resource run
out while its holders wait for another one: a thread may wait for a connection whose
holders wait for a thread or for the loop, and a handler, before its commit or after it, for
a connection whose holders wait for the loop. One thread would be too few: a handler that
goes on after its commit has given a connection back, and finds none only if two others took
theirs, the second of them in a thread while the loop was in the handler; the only thread
was that of the handler's own dependencies until the loop took their result. A slot is used again when its request
has ended, so executions are as long as they like. In `AuditWatcher` the third line is
the first that can meet a queue of two that is full, and one rotation gives one file
an old and a new inode while the other keeps its own.

*Deadlock* is not checked: with every sequence at its bound these instances
come to rest, which is the bound's doing.

*Symmetry* is used for requests only. User ids are ordered (the lowest is
promoted) and are not symmetric.

*Fairness.* Three specifications state some.

* `FairSpec`, of the group tables: weak fairness of each recipient's `Acknowledge`.
  It is an assumption about clients, which the code cannot enforce. A member who
  leaves, or an account that goes, is not obliged to anything.
* `FairServerSpec`: strong fairness of the loop's steps for each request, because
  asyncio runs its ready callbacks in the order they became ready and anyio's limiter
  hands threads to its waiters in turn, while other handlers keep disabling the step
  in between; weak fairness of each thread and of the handler that is running, because
  the operating system schedules threads. A thread that waits for a connection, or the loop
  that waits for one in a handler, is given one or times out (`pool_timeout`, SQLAlchemy's 30 seconds). The pool hands
  a connection to any waiter, and nobody is obliged to send a request.
* `FairAuditSpec`: weak fairness of `run`, which systemd calls again after ten seconds
  (`Restart=on-failure`, `RestartSec=10`), and of the watcher's own loop. Nobody has
  to mine, write a line, or start a watcher that ended with status 0. Lines are
  bounded, so a file that is written faster than it is read is no behaviour of the model.

The other specifications check safety only.

*What the checked properties say about the code.* The two ways out of a group,
`remove_member` and `delete_user`, promote a successor and move the epoch by
different code; in any order of whole transactions both keep `CreatorIsMember`
and `CurrentKeyKeptInside`, and no group of three disappears at one stroke
(`ImplementsGroupLife`). Between requests in flight less is true: the creator
may be no member and removed members may learn the current key (section 5), yet
the epoch still moves with every leave (`LeaveChangesKey`), a removal, or a leave by an account that stays, still drops
the keys composed before it (`RemovalPurgesPendingKeys`; `delete_user` moves the epoch but leaves such keys to be
fetched, with the old epoch on them), no key waits that the next key of its group would clash with
(`PendingKeysNotAhead`), no group is left empty, and no message goes before
its audience has it. All of the difference is made by requests that overlap: without
them the endpoints do what the tables do (`OneRequestAtATime`, section 6). For tokens, single use survives any number of requests that
pass the blocklist's SELECT together, because the INSERT that follows admits one;
the loser is answered 500, which the model shows as `reject`. Prekeys and direct
messages are taken once because of the row lock of their DELETE and because the answer
comes from RETURNING; rows of an account that goes are kept from coming back by the
share locks of the foreign keys. Statement by statement a group message never goes while
another transaction may yet keep a receipt of it (`GoesWhenAllHaveIt`), which is the
reason why it may stay: two receipts at once each see the other's
(`StaysOnlyIfOverlapped`, section 5). Everything else a client can see of
several connections it could see of requests that are executed one by one
(`ImplementsAtomicStorage`): what a statement has checked still holds at the
commit, although READ COMMITTED does not promise that and no statement checks it again.

A group message whose recipients acknowledge is deleted, unless one of two things
came between (`MessagesGoOrAreStranded`, `StaysForGood`): a recipient left the group,
and their receipt waits for somebody who is not let in any more, or the last one
outstanding deleted the account, and the receipt went by cascade without the
`NOT EXISTS` that would have deleted the message. `README.md` 570 knows neither. A message stored by
a member who is alone in the group has no recipients at all and stays as well.

Requests end, however connections and threads run out, except in one situation that
`EveryRequestEnds` names (`Stuck`). A refused removal leaves its group's row locked until its
session closes; if the loop takes a handler that writes to the same group first, the
handler waits for the lock, the loop waits for the handler, and the close that would
release the lock waits for the loop. No timeout of the code ends it: no
`lock_timeout` or `idle_in_transaction_session_timeout` is set, and the pool's timeout is about connections. `EveryRequestEnds` is stated as: time and again a slot is free, or the loop is stuck; which
is that every request that is admitted ends. That a request ends does not say how: a message,
a group or a key bundle may be committed and the client told 500, when the handler finds no
connection after its commit. `Stuck` is the other
side of "Async-native" (`README.md` 673): the handlers are `async def` around
synchronous queries. `OnlyRefusalsHoldRows` shows that no other handler can
leave such a lock, `SomebodyGoesOrStuck` that there is no other way for requests to wait for each other, and `NothingLeaks` that no way to end, timeouts included, keeps a
connection.

The chain shows accesses that happened, once and in order, however the watcher dies
(`ImplementsAuditTrail`): it starts at the end of its files, so a restart can lose
accesses but not repeat them. What it was told of it reads (`HeardLinesAreRead`),
though notifications are merged and several come in one batch: as long as the process lives, a
line it was told of is before its position, or announced in the queue or the
batch (`HeardLinesStayAnnounced`). The count of mined
transactions as nonce keeps the node from waiting for a nonce nobody will send
(`NoNonceGap`, which counting pending ones would not, as its mutant shows), at the price
of the accesses of `audit_dropped`.

## 5. Disagreements found

Each is the counterexample of one run.

* **`group_forced_removal`**: `remove_member` asks whether the caller is the
  creator of the `Group` its session loaded in the dependency. A creator with two
  requests in flight can leave by one and remove somebody by the other.
* **`group_account_race`**: by the same cached value `remove_member` fails to
  notice that it removes the creator, and promotes nobody. The group then has a
  creator outside it; when that account is deleted, `delete_user` does not count
  the group among its own and the cascade removes it with its members
  (`README.md` 247: only "if the user was the last member"). Neither this nor the one
  before happens without two requests in flight (`PromisesOneAtATime`).
* **`group_removed_key`**: a fetch of keys that was admitted before its sender
  was removed returns, after the removal, a key that another client composed
  before it and that was stored with the new epoch (`README.md` 609). This too takes requests
  that overlap (`KeysInsideOneAtATime`).
* **`auth_same_name`**: an SRP session is bound to a name. If the account is
  deleted and the name registered again before srp-verify, the pre-auth token is
  for the new account. TOTP still stands between it and access.
* **`direct_inbox`**: `store_message` counts and inserts in one statement but under
  no lock, so two connections fill the last place of an inbox twice, which
  `test_concurrency.py` 168 says they do not. The test passes when its threads
  happen to run one after the other; the endpoints of one process always do. Several
  connections take an inbox over its limit by one less than their number and no further
  (`InboxOverrunBounded`), a single one not at all (`OneConnectionKeepsLimit`).
* **`audit_dropped`**: two accesses before a block is mined get the same nonce. The node
  keeps one of the two transactions; if it refuses the second, `submit_event` logs the exception and the
  watcher goes on to the next line. `README.md` 107 says that every access is recorded. In this
  run nothing else goes wrong.

Two last receipts of a group message, recorded by two connections at once, leave it without
any: under READ COMMITTED neither `NOT EXISTS` sees what the other has deleted.
`test_concurrency.py` 469 says "message must be deleted once all recipients acknowledge" of
two threads and passes when they run one after the other. `StaysOnlyIfOverlapped` says that nothing else
keeps such a message while its accounts are there; the endpoints of one process never
overlap.

Seen in the code and not in a run: removing somebody who is not a member answers
204 where `README.md` 512 announces 404; storing keys for a group that has just
been deleted, or for an unknown recipient, answers 500; of two fetches that choose
one prekey, the later answers `null` even if others are in store; a group message
whose last outstanding recipient deletes the account stays, with nobody left who
could fetch or acknowledge it (`README.md` 570).

## 6. Proofs

Proved with TLAPS, for every value of the constants that the assumption of each module
allows: the bounds are natural numbers (`BoundsAssumption`, `AuthBoundsAssumption`,
`StorageBoundsAssumption`; in `AuditBoundsAssumption` the queue has room for one),
the limits of `Server` are positive and its requests finite in number
(`ServerAssumption`), names, accounts, connections and requests are any sets, and
`Fault` is anything. Nothing else is assumed.

| Theorem | Says |
|---|---|
| `TypeCorrect` | `Spec => []TypeOK` |
| `CreatorStaysMember` | `Spec => []CreatorIsMember` |
| `KeysStayInside` | `Spec => []CurrentKeyKeptInside` |
| `EpochsNeverClash` | `Spec => []PendingKeysNotAhead` |
| `TablesImplementGroupLife` | `Spec => ImplementsGroupLife` |
| `AudiencesShrink` | `Spec => AudienceOnlyShrinks` |
| `LeavingPurgesKeys` | `Spec => RemovalPurgesPendingKeys` |
| `ApiTypeCorrect` | `ApiSpec => []ApiTypeOK` |
| `GroupsKeepMembers` | `ApiSpec => []NoGroupWithoutMembers` |
| `LeaversLoseTheKey` | `ApiSpec => LeaveChangesKey` |
| `KeysNeverClash` | `ApiSpec => []PendingKeysNotAhead` |
| `RequestsKeepTheRules` | `ApiSpec => RemovalPurgesPendingKeys /\ AudienceOnlyShrinks` |
| `MessagesKept` | `ApiSpec => MessageKeptUntilAcknowledged` |
| `OneRequestAtATime` | `ApiSpec /\ []OneAtATime => Spec` |
| `KeysInsideOneAtATime` | `ApiSpec /\ []OneAtATime => []CurrentKeyKeptInside` |
| `PromisesOneAtATime` | `ApiSpec /\ []OneAtATime => OnlyCreatorRemovesOthers /\ OnlyLastMemberTakesGroup` |
| `TokenInOneHand` | `AuthSpec => []AuthTypeOK /\ []HoldersAlone` |
| `SingleUse` | `AuthSpec => []OneHeirPerTicket` |
| `SecondFactor` | `AuthSpec => []SecondFactorBehindEveryPair` |
| `TokensImplementTicketLife` | `AuthSpec => ImplementsTicketLife` |
| `StorageCorrect` | `StorageSpec => []StorageTypeOK` |
| `PrekeysGoOnce` | `StorageSpec => []PrekeyHandedOutOnce` |
| `MessagesEndOnce` | `StorageSpec => []EndedOnce` |
| `NothingIsLeft` | `StorageSpec => []NothingOfDeletedAccounts` |
| `PostsGoWhenAllHaveThem` | `StorageSpec => GoesWhenAllHaveIt` |
| `PostsStayOnlyIfOverlapped` | `StorageSpec => []StaysOnlyIfOverlapped` |
| `StorageIsAtomic` | `StorageSpec => ImplementsAtomicStorage` |
| `InboxOverrunBounded` | `StorageSpec => [](` with finitely many connections, but some, each inbox holds at most `InboxMax + Cardinality(Connection) - 1)` |
| `OneConnectionKeepsLimit` | `StorageSpec => []((\E c : Connection = {c}) => InboxWithinLimit)` |
| `LimitsKept` | `ServerSpec => []ServerTypeOK` |
| `EndedHoldNothing` | `ServerSpec => []NothingLeaks` |
| `LocksEndWithHandlers` | `ServerSpec => []OnlyRefusalsHoldRows` |
| `OnlyOneDeadlock` | `ServerSpec => []SomebodyGoesOrStuck` |
| `StuckForGood` | `ServerSpec => [][Stuck => Stuck']_serverVars` |
| `NeverAGap` | `AuditSpec => []NoNonceGap` |
| `WatcherTyped` | `AuditSpec => []AuditTypeOK` |
| `NothingHeardIsForgotten` | `AuditSpec => []HeardLinesStayAnnounced` |
| `WatcherImplementsTrail` | `AuditSpec => ImplementsAuditTrail` |

*The invariant of the tables.* None of `CreatorIsMember`, `CurrentKeyKeptInside`
and `PendingKeysNotAhead` is inductive alone. Removing a member
promotes the lowest of the rest, so `CreatorIsMember` needs the members of a
group to be a set of ids that has a least element (`LeastElement`: every
non-empty set of naturals has one; `MembersFinite`). `CurrentKeyKeptInside` says that
outsiders' keys are older than the epoch; when a member leaves, that is true only
because members' keys were not *newer* than the epoch, which in turn is true of a
key fetched only if it was true of the key waiting (`PendingKeysNotAhead`); and a
group that is created must find no keys under its id, although ids of deleted
groups are cleared rather than forgotten. The last two are
`KeysBelongToGroups`. `GroupInvariant` is the conjunction. There is a lemma per
action, and one (`MessageStepInvariant`) for the actions that touch only accounts
and messages.

*The refinement of GroupLife.* `TablesImplementGroupLife` maps a group id to "unborn", "live"
or "dead" by `groups` and `groupSeq`, and its members, creator and epoch to the
roster, owner and epoch of GroupLife. Each action moves one group and lets
the others rest, except `delete_user`, for which each group is taken by cases:
a sole group dissolves, a shared one takes `Leave`, others rest. The cascade of
`groups.creator_id` never fires in `Spec`: that needs `CreatorIsMember`, which is
where the requests of GroupApi go wrong.

*The invariant of the requests.* `GroupInvariant` does not hold of ApiSpec: with requests in flight
the creator of a group need not be a member (section 5). What holds whatever a handler takes for the
owner is `Tables`: types, `NoGroupWithoutMembers`, and `MessageIds` (an id names one message, a
receipt has its message and is not its sender's). There is one lemma per operation on the tables,
and each proves a `Step`: `Tables` afterwards, a later epoch for whoever left, no older keys, no
new readers. The theorems about ApiSpec and the two about Spec rest on the same
lemmas; of a request they need only that what it has read are ids that were drawn
(`IdsRead`, a part of `ApiTypeOK`), which stays so because sequences only grow
(`SequencesGrow`): what a request has read may be gone, but it is nobody else's.
`PendingKeysNotAhead` holds of requests as well, for a reason that does not mention them:
each operation leaves a key that waited in a group that stays, where the epoch
never goes back, or stamps it with the epoch the group has now (`KeysFollow`).

*Requests that do not overlap.* `OneAtATime` says of a state that at most one request is in
flight; it is a hypothesis about the executions, not about the code. Under it what a
request has read is what the tables hold (`Current`): its dependencies do not write, and
while it is under way nobody else does but a registration. A handler is then the operation of
`Next` with its checks (`HandlerIsOperation`; for `remove_member` this needs
`MembersRegistered`, that members are accounts, which the foreign key promises), and when it
has run nobody is left to be out of date. So `Spec` holds with all that is proved of it, among it
`CurrentKeyKeptInside`, which `group_removed_key` refutes of overlapping requests, and
the sentences that `group_forced_removal` and `group_account_race` refute hold: the
latter by `CreatorIsMember`, since the cascade of `groups.creator_id` then finds
no group that the leaver is not in (`OnlyOwnGroupsGo`).

*The invariant of the tokens.* `OneHeirPerTicket` speaks of tokens that exist;
what keeps the next one from being a second heir is the state of the request
about to issue it. `HoldersAlone` says that a request past `revoke_token` is the
only one to hold its token, which is in the blocklist, not logged out, and
has no heir yet. `NotBlocked` establishes it: the others that passed the SELECT
meet the primary key. `GivenForBlocked` carries it to requests still before the
INSERT: a token that is not blocked cannot have an heir. SRP sessions
have no blocklist and are single-use because they leave `sessions`;
`SerialsNameOneThing` keeps their ids apart from those of tokens. A restart loses
sessions and requests, and with a request only the chance of an heir.
`TicketInvariant` is the conjunction; it was checked by TLC on the instance of
`auth_tokens` before it was proved.

*The refinement of TicketLife.* A ticket is a serial. It is valid while its session
is in `sessions` or its token is outside the blocklist, and spent otherwise;
its heirs are the serials of the tokens given `from` it. The INSERT into the
blocklist is a `Spend`, the endpoint's answer an `Exchange`, and in between
a restart or a 401 may leave a ticket spent for nothing. `TicketInvariant` supplies what
`Exchange` asks: the ticket is spent, has no heir, and was not handed back.

*The invariant of the storage.* What a client is told once depends on what other
connections are about to do. `MessagesOnce` and `PrekeysOnce` follow an id from the
sequence through the open insert, the table and the open delete, and say that it is in one
of these places only: whoever has deleted a row in an open transaction is alone with it
and the row is still in its table, so that the commit finds it and no second
answer can follow. `PrekeysOnce` must not say anything of a prekey that is only *chosen*,
because any number of fetches may have chosen it. `ReferencesHold`, with
`NothingOfDeletedAccounts`, says that what an open insert refers to is there and is not about
to be deleted, which is why a commit never brings back a row of an account that is
gone. `PostsOnce` follows a group message in the same way, and adds that whoever revokes it
is alone with all of its receipts, and that who has found no other receipt is right until
the commit: later messages have later ids. `GoesWhenAllHaveIt` follows from that.
`StorageInvariant` is the conjunction, with types. For `StaysOnlyIfOverlapped`, `PostsAwaited` is
added: a connection that found another receipt, and no other connection at the message, leaves
that receipt to somebody (`OthersWait`), because its row cannot go before its own commit but by a
receipt that overlaps, a revocation that waits for it, or an account.

*The refinement of AtomicStorage.* A transaction is its commit, and every statement before it
a stutter, because a statement changes `conn` and no table. What AtomicStorage
asks of a request was checked by a statement, and `Prepared` says that it is still so at the
commit: sender and recipient are two, the owner of a prekey that was chosen has its bundle
as long as the account is there, a group message was addressed to all accounts but the
sender's, and an account is deleted by one connection. The addressing is what could
have failed, if an account went between the INSERT of its receipt and the commit; the share locks
of the foreign keys and of the group make the deletion wait. With `Prepared` and
`StorageInvariant` there is one lemma for the commits of messages, of keys, of group
messages and of deletions.

*How far an inbox goes over its limit.* `Overrun` counts the messages of an inbox together
with the connections that have inserted one and not committed (`OnTheWay`), and says that
both are less than the limit plus the number of connections. An insert has just seen
room, so that the inbox alone is below the limit, and all connections together have at most
one insert each on the way; a commit moves one from the second count to the first; all else
lets both shrink. On an instance with two connections TLC
reaches the bound, so it cannot be made smaller.

*The invariant of the server.* `NothingLeaks` is about requests that have ended; what
makes it true is what holds while they run. `OwnSessionInThread` says that a refresh
has a connection only inside the thread that opened it, so that `close`, which
does not know of that session, has none to forget; its handler needs none. `SessionInUse` says that a request
that has queried has its connection until its handler gives it back: the handler that locks the row
therefore holds a connection, and gives both back together
(`OnlyRefusalsHoldRows`). A handler that goes on after its commit holds neither (`GoOnKeeps`). The limits rest on facts about finite sets
(`Fewer`, `OneMore`). That there is only one deadlock follows from the same invariant: if the loop is
free, a request waits for a thread only if all are taken (`SomeThread`), and a thread that is taken goes on,
times out, or has a result for the loop; if it is in a handler, that goes on or times out before its
commit and after it, and only the lock of a row keeps it, and whoever has the lock is being closed, or is what `Stuck` says.
`StuckForGood` needs no more than that the steps of threads leave the loop, the holder of
the row and their kinds alone.

*The invariant of the watcher.* `NoNonceGap` needs `NoNonceAhead`: the nonce in hand was once
the number of mined transactions, so it is that number or used up. `AuditTypeOK` needs what a
full queue is full of: once a notification was lost, the last one says so (`Notices`). The refinement needs the order
of three places: on chain before pending (`PendingAreNext`), pending before the access in
hand (`HandIsNext`), everything sent before the position of each open handle
(`SentWereRead`), which a restart only moves forward. A transaction that is mined is then a
`Report` of AuditTrail, a line a `Log`, and every other step a stutter;
`logAccess` turns strangers away. `HeardLinesStayAnnounced` needs `Notices` and that who
is not running has no file open (`AtRest`). A line is announced when it is written or
merged with a notice that waits or is covered by the notice of a loss; it stays so in the batch,
which goes on to the next notice only when the source of the first has been read to its end.

These invariants were checked by TLC, on the instances of the runs or smaller ones, before they were
proved.

*Only model-checked*: the liveness properties `MessagesGoOrAreStranded`, `EveryRequestEnds` and
`HeardLinesAreRead`, since TLAPS does not prove liveness under fairness. GroupClients has no
property that holds, and so none to prove.

## 7. Not modelled, and the plan

Left out of the modules above, because no operation reads it: names, ciphertexts
and the epoch a client writes on a message; paging; the text of answers; the process name and
the hash of an audit event. Taken as correct: SRP, JWT signatures, TOTP, AES-GCM,
slowapi's counters, SQLAlchemy's pool.

Left out of `Server`: the engine singleton, which `init_db` makes before the first
request and only tests reset; the query of `verify-2fa`, which follows the two sessions of a
refresh in the same thread. Left out of `AuditWatcher`: a line
that is read while only half of it is written.

Not modelled at all: start-up, configuration, Vault, logging, security headers,
deployment (no state after start, or constant).

Of the group tables, only messages and receipts are modelled statement by statement; groups,
members and sender keys are one transaction at a time. One hazard is therefore open: two
deletions of accounts that share a group (`user.py` 75). Only two connections outside the
endpoints meet it, since those of one process use one at a time; `test_concurrency.py` 725
deletes two accounts, through the endpoints.

Planned, most important first:

1. **Groups and members statement by statement**, with cascades that wait for each other; its abstract
   specification is `GroupRepository`, which `OneRequestAtATime` already is for the endpoints.
2. **What clients can rely on**: a weaker form of `RemovedMemberLacksCurrentKey` that
   GroupClients keeps.
