# StudySafe: a TLA+ model of the chat system

StudySafe is a chat for study groups: a FastAPI backend over MongoDB that keeps
rooms, public keys and ciphertext, and a React client that encrypts, decrypts
and keeps the fingerprints its user has verified. This directory models the parts
whose correctness depends on the order of steps: the REST and WebSocket handlers
that interleave at every `await`, the documents they share, and the coroutines
of the client.

Paths below are relative to `src/`; `PROJECT.json` maps every definition to the
lines it models.

## Inventory

| Component | State | Operations | Where it is modelled |
|---|---|---|---|
| Room registry: `backend/app/services/room_service.py`, `db/repositories/rooms.py`, `room_keys` | `rooms.member_ids`, `rooms.crypto_epoch`, one `room_keys` document per user | join, leave, register a key, list keys; `keys_rotated` announcements | `RoomRegistry`, abstractly `KeyDirectory` |
| Connection manager: `websocket/manager.py`, `main.py` (`websocket_endpoint`) | a dictionary of sockets per room, the sockets' states | connect (closing a predecessor), disconnect, broadcast, the receive loop | `ConnectionManager` |
| Message relay: `services/message_service.py`, `db/repositories/replay.py`, `messages.py` | `message_replays`, `messages` | check membership, reject replays, store, relay | `MessageRelay`, abstractly `MessageLog` |
| Login: `services/auth_service.py`, `db/repositories/otp.py`, `users.py` | one `otp_codes` document and one `users` document per address | request a code, verify it, create or rename the account | `OtpAuth` |
| Chat room session: `frontend/src/components/chat/ChatRoom.tsx`, `SecurityPanel.tsx`, `TrustBanner.tsx` | key pair, epoch, peers, messages (React state and refs) | mount, rotate, load peers, load the history, receive, send, leave | `RoomSession` (keys and peers), `RoomMessages` (messages and trust by name) |
| Trust store and room keys: `frontend/src/lib/trustStore.ts`, `lib/crypto.ts` (`loadOrCreateRoomKeys`) | `sessionStorage`, and `localStorage` for old trust | verify, unverify, clear, migrate; create or reuse the key pair | `RoomSession`, `RoomMessages` |
| Real-time connection: `frontend/src/lib/websocket.ts` | a socket, a retry counter, a timer, `closed` | connect, reconnect with back-off, close | `RealtimeConnection` |
| Session of a tab: `frontend/src/context/AuthContext.tsx`, `api/client.ts`, `pages/LoginPage.tsx`, `App.tsx`, `ProtectedRoute.tsx`; `backend/app/auth/dependencies.py` | token in `sessionStorage` (or `localStorage`, from an earlier version), the cookie of all tabs, `user`, `loading`, the login form | refresh, request a code, verify it, log out, route | `AuthSession` |
| Shell and list of rooms: `frontend/src/components/layout/AppShell.tsx` | `rooms`, `loading` | load the list, create or join a room and go there | `Workspace` |
| WebCrypto wrappers, rate limiter, e-mail, configuration, logging, dashboard, deployment | | | not modelled; see the end |

### How they interact

A client logs in (`OtpAuth`), creates or joins a room over REST
(`RoomRegistry`), registers a public key for the room's epoch, and opens a
WebSocket (`ConnectionManager`). A frame it sends is checked, stored and relayed
(`MessageRelay`). A join without history and a leave rotate the epoch in the
registry; the router then broadcasts `keys_rotated` through the connection
manager, on which every client of the room makes a new key pair, forgets its
verified fingerprints and registers again.

The components share the database and, inside the one process, the connection
manager. There are no locks and no multi-document transactions: the only
atomicity is a single-document operation of MongoDB and the stretch of a
coroutine between two `await`s. That is what makes the behaviour hard:

- a handler decides on a document that another handler has changed since;
- a handler dies, or the database fails, between two writes;
- a broadcast suspends in the middle of a dictionary that others change;
- entries are removed by user while they belong to a socket;
- two verifications, two first logins or two frames with one id overlap;
- a client works with the epoch, peers or keys it captured before an `await`;
- a handler of a page goes on after its page, its user or its epoch is gone, and
  answers arrive in another order than they were asked for.

### What makes each part correct

- Room registry: a key in the directory belongs to somebody who was a member at
  the key's epoch, or had named it in advance; who left is out of the current epoch;
  who joined
  without history does not stay in the epoch the room had before; a listing is
  of one epoch; every rotation is announced with the epoch it made.
- Connection manager: a served socket leaves the registry only on account of its own
  user's sockets, an ended one is not in it, a client that went away is forgotten.
- Message relay: a message is stored once, what is relayed is stored, in the
  same order; who left the room stops being stored; a refused duplicate was
  accepted before.
- Chat room session: nothing is sent to a peer whose listed fingerprint its user
  has not verified since the last rotation; a key pair serves one epoch; no rotation is
  ignored; a client that has caught up is in the room's epoch.
- Messages on the screen: a rotation takes them off; a message shows once;
  recipients of one name have one fingerprint; trust does not outlive a rotation.
- Session and shell: requests are of the account that is shown, the rooms that are
  listed are its own, and no page or button waits for ever.
- Real-time connection: it is alive, waiting to retry, given up, or closed by its owner.
- Login: wrong guesses are counted and locked, a code is used up, an address has
  one account.

## The plan

In this order, the most important behaviour first:

1. `RoomRegistry` with `KeyDirectory` as its abstract specification (done,
   proved);
2. `ConnectionManager` (done; safety proved, liveness model-checked);
3. `MessageRelay` with `MessageLog` as its abstract specification (done, proved);
4. `OtpAuth` (done, proved);
5. `RealtimeConnection`, and `RoomSession` on top of it: the coroutines of
   `ChatRoom.tsx` split at their awaits, with the trust store and the key pair in
   `sessionStorage`, against a server that rotates, lists and withdraws keys
   (done, proved);
6. `RoomMessages`: history, received and sent messages on the screen, and trust kept
   by display name (done, proved);
7. `AuthSession`, and `Workspace` on top of it: who is signed in, and what the shell
   shows (done; safety proved, liveness model-checked).

What would come next:

- a composition of `RealtimeConnection` with `ConnectionManager`: two tabs of
  one user that take the socket from each other, and whether a connection can
  ever stay up;
- a composition of `RoomSession` with `KeyDirectory` in place of its free
  server: what the registry promises, and what it does not promise about
  announcements and withdrawn keys, is or is not enough for the clients
  (a client that registers between an increment and the delete loses its key,
  and ignores the announcement, whose epoch it has);
- the lists of who is online and who types, and a change of room within one
  `ChatRoom`.

## Modules and the code

Conventions that hold for all of them. An action is what a coroutine does
between two suspension points: one database call or one send, with everything
that is decided from its result. A variable `pc` names the next one. The inputs of
requests are chosen in `Init` or with `\E`; a history variable is one that no
guard reads. Handlers that may die are the elements of `Fallible` (for proofs:
any set). Some definitions are followed or preceded by a *mutant*: the
same operation with a plausible bug, which is in no next-state relation; replacing
the operation by it must break a property.

### RoomRegistry and KeyDirectory

One room. `members`, `epoch` and `keys` are the documents; `JoinFind`,
`JoinAdd`, `Increment`, `ClearKeys`, `JoinReread`, `Announce` are the calls of
`join_room` and its router in order, `LeaveCheck`, `LeavePull`, `Increment`,
`ClearKeys`, `Announce` those of `leave_room`. `held` is the room document a
handler last received and `minted` what `increment_crypto_epoch` returned: that
a leave goes on with a document from before the increment is visible as
`held < minted`. `RegisterMember` .. `RegisterSave` are the calls of
`register_public_key`, `ListMember`, `ListEpoch`, `ListKeys` those of
`list_public_keys`. A rename at a later login changes the name that a
registration is compared with.

`KeyDirectory` is what a client is promised: rotation is one event, the directory
shows keys of the current epoch only, and a key is published only for
somebody who was a member during that epoch or, while a member, had named it in
advance (`Foresee`). `DirectorySpec` says that the registry
implements it with `listed` mapped to the keys of the current epoch.
The delete that follows an increment is then invisible, or withdraws keys that were
registered for the new epoch between the two calls; this is why
`KeyDirectory` needs `Withdraw`.

`register_public_key` takes the epoch from the body (`schemas.py`: any integer from 1)
and reads the room's only after it has checked the membership. A body may therefore name
an epoch that is still to come, be overtaken by the rotation that makes it, and be
accepted; `Claims` are the epochs bodies may name, and the history `ahead` keeps
who, being a member, named which epoch before the room came to it. `Entitled` is
membership at an epoch or such a claim: it is all that the handlers guarantee.

Environment: rooms are not deleted by any code, so the branches for a vanished
room are left out.

### ConnectionManager

One room of the manager, all its sockets and the REST handlers that announce a
rotation. `turn` is the coroutine that runs: an action without an `await` at its
end keeps the turn. `entries` is indexed by the identity of a dictionary
because `connect` and `broadcast` keep a reference to one while `disconnect`
may delete it from `self.rooms` and a third coroutine may create the next.
`Begin`, `Visit`, `Sent`, `SendFailed`, `SizeChanged`, `EndLoop` are
`broadcast`; `SizeChanged` is Python's `RuntimeError: dictionary changed size
during iteration`. `Crash` is the end of an endpoint without `disconnect`: by that error, by
`receive_text` or a reply on a closed socket, or by a database error in
`store_ciphertext` (`Stored`). The endpoint catches `ValidationError`,
`AuthorizationError` and `WebSocketDisconnect` only.

Environment (starlette, as the code uses it): a failed send sets the socket's
application state to DISCONNECTED; `receive_text` on such a socket raises
`RuntimeError`, while one that is already blocked ends in
`WebSocketDisconnect`. The order of dictionary iteration is left open, which
allows more than insertion order does.

`Reconnect` says what clients do: `any` - a second tab or a reconnect while the
server still serves the old socket; `serial` - only after the old endpoint has
ended, though broadcasts may still hold it. `Kinds` are the frames clients send: a typing
notice, a message that is stored, or one that is answered to the sender alone.

### MessageRelay and MessageLog

`Receive`, `CheckMember`, `CheckSeen`, `Remember`, `Stamp`, `Insert`, `Relay`,
`Relayed` are the steps of one frame. `created_at` is a logical clock that may or
may not advance between two documents, as milliseconds do. A user who leaves does not
come back, and a broadcast goes to all sockets of other users: who is
connected is the subject of `ConnectionManager`. A frame without `msg_id` skips
the replay check, as in the code.

`MessageLog` is what the sockets of a room are promised, without the replay ids, the
check and the endpoints: a history to which one document at a time is added, behind
those of its socket, and of which every socket gets each sender's latest document
once. `LogSpec` says that the relay implements it. `messages`, `members` and `inbox` are
mapped as they are, the expired ids to those that may be used again, and the
sockets of the frames in `late` to those that have stored once after the leave.
Receiving, checking and remembering a frame, and the end of an endpoint, are invisible.
`RelayedIsStored` and `RelayKeepsHistoryOrder` are two consequences of it for one
client, proved and in no run; so is, in `RoomRegistry`, `ForeseenAreListed`.

### OtpAuth

One address. `doc` is its document in `otp_codes`, `account` the one in `users`
(unique index on `email`). `Refuse`, `Mismatch` and `Match` are the decisions
`verify` takes on the document it has read, `Inc` and `Delete` what it then does
to the document of the address, whichever that is by then. Codes are numbered,
so two codes of an address are taken as distinct. The rate limits of the routes
count per client address and let several verifications run at once from
different ones: `Width` bounds how many, and the properties are stated in it.

### RealtimeConnection and RoomSession

`RealtimeConnection` is `connectWebSocket`: one action per callback of the
browser (`Opened`, `Lost`, `Due`) and `Close`. Its variables are functions of
the connection, since one visit to a room may make several.

`RoomSession` is one visit of one client to one room. Its coroutines are the
runs of the mounting effect (`Mounts`), of `rotateKeys` (`Rotations`), of
`loadPeers` alone (`Loads`) and of `sendMessage` (`Send`); `pc`, `at`, `bundle` and
`list` are their locals. `BeginSetup`, `Imported`, `Made`, `Register`,
`Fetch`, `Apply` are `setupKeys` with what it calls, shared by the mounting effect
and `rotateKeys` as in the code. `epoch`, `keys` and `peers` each stand for a ref and
the React state that mirrors it: the model does not have the instants between a
`set...` and its render. `Rerun` is a change of `initialEpoch`: `ChatPage`
renders with epoch 1 until it has loaded the room, so in every room of a later epoch
the effect is cleaned up and runs again on the same refs.

Environment: the server is what `KeyDirectory` promises: `Rotate` empties the
listing, `Publish` is another client's registration of a new key under any fingerprint,
`Withdraw` is a delete that comes late. `Announce` may carry any epoch up to
the current one, since a leave announces an older one. Frames are delivered in
order on a socket and lost when it closes. Any REST call may fail, and so may the
import of a stored pair (`NotImported`, which makes a new one) and the making of one
(`Fail` at "make", remembered in `unmade`). An entry of the listing is a record of a
fingerprint and a key: the body of a registration has both, the server lists them as they
came, the trust store looks at the former and `sendMessage` encrypts to the latter.

### RoomMessages

The same visit, from the side of the screen. Its coroutines are the runs of the
mounting effect (`Runs`, each with its connection), `rotateKeys` (`Rotations`),
`handleIncoming` for a message (`Handlers`) and `sendMessage` (`Send`), split at
the awaits where something else may happen in between: `ReadRoom`, `Keyed`,
`Settled`, `HistoryRead`, `Joined` are the effect; `Receive`, `SenderLoaded`,
`Received` a message; `SendMessage`, `SendLoaded`, `Encrypted` one's own. A bubble
is a message of `archive` by its place, with the epoch it was encrypted in, what
`decryptPayload` made of it (`Kinds`) and the run that showed it.

Peers are entries with a user, a name and a fingerprint, because neither display names nor
fingerprints need differ; a listing has one entry for a user (`Listings`). React's
`peers` is the list of entries, `peerMapRef` a `Map` that keeps one for a name, and
the trust store one fingerprint for a name. `session` and `legacy` are the trust
map in `sessionStorage` and in `localStorage`; every read of it moves the latter
to the former (`Render`, which the panel and the banner do), and another tab may
move it to its own (`OtherTab`).

Environment: a request for the listing may be answered by any listing of the others, a ciphertext may open or not, and a message may be of any epoch
up to the server's. `RoomSession` has the server that lists and the key pairs;
here they are left open, so that the two instances stay small. A message that is
stored between the read of the history and the registration of the socket
reaches neither, as in the code.

### AuthSession and Workspace

`AuthSession` is one tab. `token` and `legacy` are its token in `sessionStorage` and
an older one in `localStorage`, `cookie` the HttpOnly cookie that it shares with all
tabs; a token stands for its account. `Acting` is what the server makes of a
request: `_resolve_token` takes the bearer and only without one the cookie. `asked`
is the `getMe` that `refresh` awaits. A handler of `LoginPage` is a task (`doing`,
and `of` for the e-mail of its request); `attached` are those whose `LoginPage` is still
mounted, since React drops the `setState` of the others while `login`, storage and
`navigate` still act. `Target` and `Redirect` are the routes of `App.tsx` with
`ProtectedRoute`.

`Workspace` adds `AppShell`. Every change of the user, of `loading` or of the
path goes through `Render`, which mounts the shell anew (its state is gone and its
effect loads the list), keeps it, or unmounts it. `job` is what a run of `loadRooms`,
`handleCreate` or `handleJoin` awaits and `bearer` whose answer it will get; a list
of rooms is the account it belongs to. Two actions of the same name in the code,
create and join, differ only in their forms and are `Enter`.

Environment: tokens do not expire, and any request may fail. Other tabs set or delete the
cookie and remove an old token from `localStorage`.

## Runs

| Run | Question | Result |
|---|---|---|
| `room_directory` | Is the key directory that of `KeyDirectory`, and are its keys and listings of one epoch and of those entitled to it, and do members, epochs and the announcements of joins agree, when a registration and a listing are overtaken by a join, a leave, a rename, and handlers die? | holds |
| `room_announcement` | Does a leave announce the epoch it made? | violated |
| `socket_overlap` | However a user's sockets overlap, do served endpoints stay in the registry whatever other users' sockets do? | holds |
| `socket_forgotten` | When a user's endpoints follow each other: do ended and vanished sockets leave the registry, and does a served one stay unless a clean-up pops its user? | holds |
| `socket_takeover` | Are overlapping sockets of one user tracked? | violated |
| `relay_frames` | Storage, order, replay and membership of frames with endpoints that die, an id that expires and a user who leaves; is it the log of `MessageLog`? | holds |
| `otp_login` | Counting, locking, use-up and the single account | holds |
| `otp_lockout` | Does a code lock after exactly its limit? | violated |
| `session_rerun` | Overlapping runs of the mounting effect, a rotation, a leave: one epoch per key pair, keys before frames, connections that neither strand nor revive for good and come one at a time, and a key pair of the epoch shown | holds |
| `room_messages` | Do rotations empty the screen and the trust in both storages, do messages show once for each run of the effect, and do recipients of one name have one fingerprint, when coroutines are overtaken and names are not unique? | holds |
| `workspace` | Are requests of the account shown and the rooms listed its own, with late answers, other tabs and reloads; and does every page and button settle? | holds |
| `session_send` | Does a message go only to entries with a verified fingerprint, when answers are stale and a rotation intervenes? | holds |

`CHECK_DEADLOCK FALSE` in all of them: a finite set of requests, frames, sockets or
messages comes to its end, and a signed-out tab may be left as it is.

### Bounds

- Two users: every hazard of the registry is between a user and one other. A
  registration and a listing race one join, which may die, and one leave, which may
  die; the registration may name the epoch that is then still to come.
  Two joins or two leaves of one user that overlap are left to the theorems of `RoomRegistryProofs`,
  which are about the same properties and hold for any number.
- Two display names where a name is compared, one elsewhere.
- Two sockets of one user and one of another; five dictionary identities,
  which is more than the coroutines can refer to at once, so `Fresh` always finds one.
  In `socket_overlap` clients only come and go (`Kinds` is empty), so the broadcasts are those of
  presence and one, of a rotation, that belongs to no socket; in `socket_forgotten` clients
  send frames of every kind.
- Two frames per socket with one id or none: a repeat on one socket, the same
  id on two sockets, and a frame behind the one that dies.
- Three verifications, two in flight, two codes, a limit of 1 (of 2 where the
  documented limit is refuted). The source's limit of 5 only makes traces longer; the
  theorems hold for any limit and width.
- `session_rerun`: two runs of the effect, each with a connection and one
  retry, one rotation, and no peers, who have no part in its properties.
- `session_send`: one peer, registered at most twice, with up to three fingerprints;
  one rotation, two announcements and one `loadPeers` of its own, whose answer may be from
  before the rotation. No retries, which `session_rerun` has. In both the tab starts with or
  without a key pair of an earlier visit. Rotations that overlap are left to the theorems.
- `room_messages`: one message, another's or the user's own; two runs of the effect; one
  rotation; two members of one name, with a fingerprint each, and trust of
  any kind left in either storage. This is what one message needs to meet a
  rotation, a reconnect and a second run; that several messages do not disturb each other,
  and members who share name and fingerprint, are for the theorems.
- `workspace`: two accounts, two handlers of the login page or logouts in flight, two
  loads of the list, one create or join, one reload. Two answers in the wrong order,
  one across a logout and a login of the other account, and one after a reload all occur.
- The epoch, the clock and the codes are unbounded in the specifications and bounded by
  the finitely many requests.

Symmetry is used in `otp_login`, `room_announcement`, `room_messages`, `socket_overlap`
and `room_directory`, for invariants and for properties of single steps that treat the
exchanged values alike: `OnlyOwnSocketsForget` the sockets of a user, `DirectorySpec`
the display names, which `KeyDirectory` treats alike too. Never with liveness.

### Fairness

`socket_forgotten` and `workspace` need it. In `ConnectionManager`, asyncio resumes a coroutine whose
await has completed, and a send completes or fails, so the steps of an endpoint
and of each broadcast are strongly fair: strongly, because an action is
disabled while another coroutine has the turn, again and again. Nothing is assumed of
clients: they may never send, and never go away. `DroppedIsForgotten`
excepts the endpoint that an exception killed, see below.

In `Workspace`, a request that a page awaits is answered or fails (a browser gives up
a connection that does not answer), and React renders a redirect it was given: weak
fairness of `Refreshed` or `RefreshFailed`, of `Redirect`, of each handler of the
form and of each run of the list. The fairness is of the alternatives together: nothing is
assumed of which answer comes, of the user or of other tabs. For a verification it names
`FormFailed` only, because an answer (`Verified`) takes the same request away. A tab
that is reloaded for ever would never settle: `MaxLoads` bounds it.

## Claims that do not hold

The violation runs, with what refutes each claim:

- `RotationAnnouncesNewEpoch` (`README.md:64`): `leave_room` announces the
  document that `$pull` returned, taken before the increment. Every client
  compares the announced epoch with its own, finds it unchanged and does not
  rotate.
- `ActiveIsTracked` with `Reconnect = "any"` (`manager.py:21`): the first
  session of a user is replaced by a second; when the first endpoint ends, its
  `disconnect` pops the entry of the second, which goes on being served and
  receives no broadcast.
- `LockoutAfterLimit` (`README.md:43`): verifications that have all read the
  document before one of them counts compare more guesses than the limit.

More properties are defined in the modules, fail in TLC for the reasons
below, and are in no run. The first two contradict documents, but it takes a client or a
server other than the repository's own to meet them, while the runs above are met by
ours; of most others no document promises exactly what they say.

- `DirectoryListsMembers` (`docs/SECURITY-PLAN.md:63`): a registration whose body names
  the next epoch passes `is_member`, its user leaves, the leave increments the epoch
  and deletes the keys, and then the registration's epoch check succeeds: the key of
  somebody who is not a member is listed as a current one. Our own client names the
  epoch it was told. `ForeseenAreListed` says that there is no other way.
- `EncryptedToVerified` (`README.md:147`, `docs/SECURITY-PLAN.md:62`): an entry that
  keeps a verified fingerprint and has another key passes `allPeersVerified`, and the message
  is encrypted to that key. Our own client registers the fingerprint of its key; the
  document's server is not trusted. `SentToVerified` is what `allPeersVerified` does guarantee.
- `NoHistoryJoinRotates` (`README.md:64` says that a join without history
  increments the epoch): `add_member` has committed when the handler dies before the
  increment; the retry finds a member and does not rotate. `HistoryStaysClosed`
  excepts the user of a join that died.
- `KeyChangeReported`: two registrations of one user for one epoch both find no
  key, then save different ones; the second replaces the first and answers
  `key_changed: false`.
- Recipients with distinct names: two members may have one display name and
  register one fingerprint; both pass `allPeersVerified`, and the message carries two copies of
  one name. `NamesakesShareFingerprint` is what remains true.
- `KeysMatchEpoch` without its exception for `unmade`: `rotateKeys` sets the epoch, then
  the new pair cannot be made, and the client goes on in the new epoch with the old pair.
- `TrackedIsActive`: a broadcast awaits a send, another user's socket
  registers, the iteration raises `RuntimeError` in the broadcasting endpoint,
  and its entry stays until a later broadcast finds it closed.
- `ActiveIsTracked` with `Reconnect = "serial"`: the clean-up at `manager.py:105`
  pops by user id. An endpoint ends in that `RuntimeError`, a broadcast finds its
  socket closed, the user's next socket registers, and the end of the broadcast
  pops that one, which is served without being in the registry.
  `OnlyCleanUpForgets` says that this is the only way, as long as the endpoints of
  a user do not overlap, and `OnlyOwnSocketsForget` which ways there are if they do:
  that of the violation run, this one, and a dictionary that is dropped while `connect`
  awaits the close of the socket it replaces.
- `NoDuplicateStored`: two sockets send the same `msg_id` and both look it up
  before either remembers it. For one socket it does not happen
  (`OneCopyPerSocket`): the endpoint handles one frame at a time.
- `RefusedWasStored`: the id is remembered, the endpoint dies before the insert,
  and a second frame with the id is refused as a duplicate of a message that does
  not exist. `ChatRoom` makes a new id for every message, so its users are
  spared; `RefusedWasAccepted` is what remains true.
- `CaughtUpIsCurrent`: the room rotates after the client has registered its key
  and before its socket is registered (or while it reconnects). The announcement goes to the
  others; the client stays in the old epoch, with its verified fingerprints,
  and goes on sending. `README.md:149` has members re-verify before
  messaging resumes.
- `ListedIsInUse`: two runs of the effect, both without a stored key pair, each
  make one; the later one is in use, the registration of the earlier one may be the
  last to arrive. Peers then encrypt to a key the client has dropped.
- `CancelledIsClosed`: the effect is cleaned up while it loads the history, and
  connects afterwards. `ClosedStaysClosed`: `close()` during a back-off leaves
  the timer, which connects once more (`RevivedAtMostOnce`: only once).
- `NewCodeIsOpen`: a wrong guess is compared with the old code, a new code is
  requested, and the `$inc` counts against the new one.

Seen while the screen and the session were modelled; they follow from the actions named, and no
document promises the contrary in so many words:

- Two runs of the effect (`Rerun`) may show the history twice, and a run that is
  cleaned up in `loadHistory` leaves `wsRef` with its own connection. `ShownOnce` is
  therefore of one run.
- What is stored between the read of the history and the registration of the
  socket, or while the socket reconnects, is on no screen until the room is opened
  again (`Post` with no copy on `wire`).
- A message of the new epoch that arrives while `rotateKeys` awaits its set-up
  is shown, then wiped by the second `setMessages` (`Rotated`). One that was being
  decrypted or encrypted for the old epoch is added after both and stays
  (`RotationForgets` excepts it), and so do those on the screen when the
  effect changes the epoch without an announcement.
- Of two members with one display name, a message reaches none if `peers` lists
  both (one of them is always `changed`, so `allPeersVerified` fails) and one, silently, if the
  list is rebuilt from `peerMapRef`.
- Text of peers that are not verified is decrypted and shown; only sending asks for
  verification. A message that the socket drops is shown as sent (`Encrypted`,
  frame 0). A message of a later epoch is called one of a previous session.
- The form for the code says that it was sent to `email`, which the user may have
  edited while the request was on its way (`EditEmail`).
- A verification that the user gave up is answered late and signs in over whoever is
  signed in (`Verified`); the shell, which is not mounted anew, lists the
  other account's rooms until its list is answered (`replaced`).
- `logout` does not await its request, and the answer may delete the cookie of a
  login that came after (`LoggedOut`). The tab goes on with its token.
- The rest of `handleCreate` or `handleJoin` navigates to its room even if its user has
  signed out or another has signed in (`Navigate`). Two answers to `loadRooms` are
  shown in the order they arrive.
- When a token expires, requests fail one by one, but `user` stays and the login page
  is not shown until a reload.

## Proofs

`RoomRegistryProofs`, `ConnectionManagerProofs`, `MessageRelayProofs`,
`OtpAuthProofs`, `RoomSessionProofs`, `RoomMessagesProofs` and `WorkspaceProofs` hold, for every value of the constants
that satisfies the named assumptions of the module:

- **RoomRegistry.** All its passing safety properties, `ForeseenAreListed`, and that
  it implements `KeyDirectory`. The inductive invariant is `TypeOK`, `HistoryInv`,
  `RegistrarInv`, `KeyHolderWasMember`, `ListingWitnessed`,
  `DepartedAreShutOut`, `ClosedInv` and `JoinAnnouncesNewEpoch`.
  `RegistrarInv` is the heart of it: a registration that passed the membership
  check named an epoch that was still to come, and is in `ahead`, or its user was a
  member at *some* epoch between the claimed one and now; if it then passes the epoch
  check, that interval has one element. `ClosedInv`, which
  strengthens `HistoryStaysClosed`, speaks of barred users who are not members as
  well, since they may be brought back by a join that owes nothing. Refinement: each step of the
  registry is a step of `KeyDirectory` or changes nothing that it shows.
- **ConnectionManager.** `StaleIsClosed` for any reconnects, from `LoopInv`,
  `GoodbyeInv` (an endpoint that has not registered is in no dictionary, one
  that has left is not in the room's) and `CrashedInv`. `OnlyOwnSocketsForget`, for any
  reconnects too, from `OwnInv`: an endpoint that registers without having replaced
  anything does so in the room's dictionary, as nobody runs in between, and whom a broadcast
  holds dead has a closed socket. `OnlyCleanUpForgets`, for `serial` clients, from `SerialInv`: a user
  has one live endpoint at most, and when it enters, all that is left of the user
  in the dictionary is closed. So there is nothing to replace and no `await`
  between `setdefault` and the registration, nobody runs in between, and the entry
  is made in the room's dictionary. The actions that take a socket out of
  that dictionary are then gone through one by one.
- **MessageRelay.** All its passing properties, and that it implements `MessageLog`.
  `ReplayInv` (what
  a socket stored under the id it is handling has expired), `SeenInv`
  (what is remembered is accounted for), `StoredInv`, `ClockInv` and `InboxInv`
  (numbers and stamps grow together, and what is pending is later than what
  arrived), `LateInv` (a socket of a departed user that may still store has not
  stored yet). Refinement adds `RelayInv`: a frame that is being relayed has a
  document, and goes to other users' sockets only. An insert is `Store`: `ClockInv`,
  `ReplayInv` and `LateInv` give its three conditions. A send is `Deliver`, because
  the frame is the last its socket stored and is not yet in the inbox it goes
  to (`InboxInv`). Every other step stutters or is `Leave` or `Forget`.
- **OtpAuth.** All its passing properties. `ProgressInv` ties what a verification was
  told to its place; the bounds on cardinalities follow from partitions: the
  counted wrong guesses are at most `attempts`, at most `Limit` when the last
  comparison was allowed, and the others are in flight, at most `Width`. Guesses
  whose handler died before the `$inc` are left out, as nothing counts them. For
  `Width = 1` this is the documented limit exactly.
- **RealtimeConnection, RoomSession.** All their safety properties. The inductive invariant `SessionInv` is `TypeOK`, `TrustInv`
  (what the trust store holds was verified since the last rotation), `ConnInv` (a
  timer is pending for a dead socket only, and the one that `close()` forgets is used up
  when it fires), `KeysInv` (a run of the effect past `Made` or `Imported` has
  keys, so has one that connected) and `PairInv`, which extends `KeyOfOneEpoch` to pairs
  that are stored or about to be registered: a registration in flight may
  overtake another, and `MatchInv`. The only pair that gains an epoch in a step is the one that is made
  in it (`PairStep`). `SentToVerified` is an action property and follows from
  `TrustInv`, since only `Check` lets a message through, and `Check` compares
  fingerprints; of the keys nothing follows. `KeysMatchEpoch`
  follows from `MatchInv`: until two set-ups have overlapped, one coroutine at most
  is setting up keys; while it prepares a pair, that pair is for the epoch shown, and
  once the pair is in use the two agree, or, if it could not be made, `unmade` holds. The only ones that change the epoch shown
  are a rotation that prepares a pair for it and the effect, which has closed the
  connection there was: each step needs the place of one coroutine and the
  flag `closed` of one connection. `OneConnection` follows from `LoneInv`: a run of
  the effect on its way to a connection finds none that is not closed, and by
  `MatchInv` no other run is on its way.
- **RoomMessages.** All its properties, for any members, names, fingerprints, runs, rotations,
  handlers, messages and old trust. `TypeOK` needs `TaskInv` (a handler that waits
  has a message and a connection, a run that decrypts has its bubbles).
  `NamesakesShareFingerprint` is inductive with it: a list of verified entries agrees with
  the trust map, which has one fingerprint for a name. `TrustEndsWithRotation` needs that a
  rotation clears both storages and that only `Trust` adds. `RotationForgets` follows from
  `ForgetInv`: text on the screen, or pending in a coroutine that no rotation
  has overtaken, is of the epoch the coroutine took, and that is the client's
  unless the effect has changed it. `ShownOnce` follows from `OnceInv`: for each run a
  message is in one place only, on the wire, with a handler or on the screen, and the history
  is read before there is a connection.
- **AuthSession, Workspace.** `TypeOK`, `ActsAsShown` and `ShellListsOwn`.
  `ActsAsShown` is strengthened by: there is a token whenever somebody is shown or
  asked for, and it is theirs, so neither cookie nor old storage is looked at. For
  `ShellListsOwn`, each current run of the list carries the account that is shown, or
  somebody was `replaced`.

Only model-checked: `DroppedIsForgotten`, `PagesSettle` and `SpinnersEnd`, since
liveness under fairness is out of the prover's reach, and the violated claims, which
are refuted by finite traces. No module has a recursive definition, and no
theorem rests on an assumption but the named ones on the constants.

## Not modelled

- Payloads are opaque: ciphertext, IVs and JWKs are never looked into by the
  backend. ECDH, HKDF and AES-GCM (`lib/crypto.ts`) are taken as given.
- `utils/rate_limiter` and the per-route limits: their effect on login is
  `Width`; they change no other state.
- Presence payloads, the lists of who types and who is online and the 30-second
  poll of `useOnlineUsers`: display, but for the `loadPeers` that they trigger,
  which `RoomSession` and `RoomMessages` have. The same holds for the system
  lines among the messages.
- A change of `roomId` under a mounted `ChatRoom`: `ChatPage` gives it no key, so
  the messages of the previous room stay on the screen until the next rotation,
  and a late `getRoom` may name the previous room. Both modules are one visit to one room.
- Namesakes and key pairs together: `RoomSession` takes usernames as distinct,
  `RoomMessages` leaves out what the server lists and which pair is used.
- Expiry of tokens and a second refresh by React's development mode
  (`StrictMode`); a 200 answer whose body cannot be read, which `apiFetch` takes for an empty object.
- The dashboard, whose link is one of the visits in `AuthSession`, avatars and styles.
- E-mail delivery, configuration, logging, security headers, the honeypot,
  health checks, Docker, nginx and CI: input/output and static set-up.
