----------------------------- MODULE RoomSession -----------------------------
(***************************************************************************)
(* One visit of a client to a room: the coroutines of                      *)
(* frontend/src/components/chat/ChatRoom.tsx with the trust store          *)
(* (lib/trustStore.ts) and the room's key pair (loadOrCreateRoomKeys in    *)
(* lib/crypto.ts), both kept in sessionStorage.                            *)
(*                                                                         *)
(* JavaScript runs a coroutine until it awaits, so an action is what one   *)
(* does between two awaits.  The server is what KeyDirectory promises: it  *)
(* rotates, lists keys of its epoch, and may withdraw them.  React state   *)
(* and the ref that mirrors it are one variable.  Key pairs are numbers, in *)
(* the order they are made; 0 is none.  A listing has a fingerprint and a   *)
(* key, which nobody compares: fingerprint n is that of key n.             *)
(***************************************************************************)
EXTENDS RealtimeConnection, Sequences

CONSTANTS
    Peers,      \* the other members of the room
    Me,
    Mounts,     \* the runs of the mounting effect, each with its connection
    First,      \* the one at the start of the visit
    Rotations,  \* coroutines of rotateKeys: a bound on how many overlap
    Loads,      \* coroutines of loadPeers alone: likewise
    Send,       \* the coroutine of sendMessage
    NoOne,
    MaxEpoch,   \* bound: the last epoch
    MaxKeys,    \* bound: peers make a key while there are fewer
    MaxNotices  \* bound: keys_rotated events

Tasks == Mounts \cup Rotations \cup Loads \cup {Send}
Members == Peers \cup {Me}

Disjoint(S, T) == S \cap T = {}

ASSUME SessionAssumption ==
    /\ Me \notin Peers /\ NoOne \notin Mounts
    /\ First \in Mounts /\ Conns = Mounts
    /\ Disjoint(Mounts, Rotations) /\ Disjoint(Mounts \cup Rotations, Loads)
    /\ Send \notin Mounts \cup Rotations \cup Loads

VARIABLES
    serverEpoch,
    listed,     \* what the server lists for a member: a fingerprint and a key
    minted,     \* how many key pairs have been made
    inbox,      \* the epochs of keys_rotated events on the way to a socket
    notices,    \* how many have been sent
    epoch,      \* epochRef.current and cryptoEpoch
    keys,       \* keysRef.current and keys
    peers,      \* peerMapRef.current and peers
    stored,     \* the key pair in sessionStorage
    trust,      \* the verified fingerprints in sessionStorage
    ref,        \* wsRef.current
    cancelled,  \* the runs of the effect that were cleaned up
    pc,         \* what a coroutine does next
    at,         \* its epoch
    bundle,     \* its key pair
    list,       \* the listing of peers that it was answered or encrypts to
    keysEpoch,  \* history: the epoch that keys was made or kept for
    registered, \* history: <<key pair, epoch>> that the server accepted from Me
    verified,   \* history: <<peer, fingerprint>> verified since the last rotateKeys
    overlapped, \* history: two of the coroutines that set keys have overlapped
    unmade      \* history: the last key pair that was due could not be made

server == <<serverEpoch, listed, inbox, notices>>
screen == <<epoch, keys, peers, ref, cancelled>>
storage == <<stored, trust>>
locals == <<at, bundle, list>>
histories == <<keysEpoch, registered, verified, overlapped, unmade>>
client == <<screen, storage, pc, locals, histories>>
vars == <<connVars, server, minted, client>>

Entry == [fp : Nat, key : Nat]
NoEntry == [fp |-> 0, key |-> 0]
Nobody == [p \in Peers |-> NoEntry]
NoPair == [key |-> 0, epoch |-> 0]
Setting == {"room", "make", "import", "register", "fetch", "apply", "history"}
Places == {"idle", "encrypt", "done"} \cup Setting

TypeOK ==
    /\ ConnTypeOK
    /\ serverEpoch \in Nat /\ minted \in Nat /\ notices \in Nat
    /\ listed \in [Members -> Entry]
    /\ inbox \in [Mounts -> Seq(Nat)]
    /\ epoch \in Nat /\ keys \in Nat
    /\ peers \in [Peers -> Entry]
    /\ stored \in [key : Nat, epoch : Nat]
    /\ trust \in [Peers -> Nat]
    /\ ref \in Mounts \cup {NoOne}
    /\ cancelled \subseteq Mounts
    /\ pc \in [Tasks -> Places]
    /\ at \in [Tasks -> Nat] /\ bundle \in [Tasks -> Nat]
    /\ list \in [Tasks -> [Peers -> Entry]]
    /\ keysEpoch \in Nat /\ registered \subseteq Nat \X Nat
    /\ verified \subseteq Peers \X Nat
    /\ overlapped \in BOOLEAN /\ unmade \in BOOLEAN

\* The tab may have been in the room before: then it has a key pair, number 1,
\* that it registered at the epoch of the time.
Init ==
    /\ ConnInit
    /\ serverEpoch = 1
    /\ \/ stored = NoPair /\ registered = {} /\ minted = 0
       \/ stored = [key |-> 1, epoch |-> 1] /\ registered = {<<1, 1>>} /\ minted = 1
    /\ listed = [u \in Members |-> NoEntry]
    /\ inbox = [m \in Mounts |-> <<>>] /\ notices = 0
    /\ epoch = 1 /\ keys = 0 /\ peers = Nobody
    /\ trust = [p \in Peers |-> 0]
    /\ ref = NoOne /\ cancelled = {}
    /\ pc = [t \in Tasks |-> IF t = First THEN "room" ELSE "idle"]
    /\ at = [t \in Tasks |-> 0] /\ bundle = [t \in Tasks |-> 0]
    /\ list = [t \in Tasks |-> Nobody]
    /\ keysEpoch = 0 /\ verified = {}
    /\ overlapped = FALSE /\ unmade = FALSE

Goto(t, from, to) == pc[t] = from /\ pc' = [pc EXCEPT ![t] = to]
Forget(t) ==
    /\ at' = [at EXCEPT ![t] = 0] /\ bundle' = [bundle EXCEPT ![t] = 0]
    /\ list' = [list EXCEPT ![t] = Nobody]
Busy(t) == t \in Mounts \cup Rotations /\ pc[t] \in Setting
Overlap == overlapped' = (overlapped \/ \E t \in Tasks : Busy(t))

-----------------------------------------------------------------------------
(* The server *)

Rotate ==
    /\ serverEpoch < MaxEpoch
    /\ serverEpoch' = serverEpoch + 1
    /\ listed' = [u \in Members |-> NoEntry]
    /\ UNCHANGED <<connVars, minted, inbox, notices, client>>

\* keys_rotated, with the epoch of the room document that its handler holds.
Announce(m, e) ==
    /\ sock[m] = "open" /\ notices < MaxNotices
    /\ notices' = notices + 1
    /\ inbox' = [inbox EXCEPT ![m] = Append(@, e)]
    /\ UNCHANGED <<connVars, serverEpoch, listed, minted, client>>

\* Another client registers a new key, with whatever fingerprint it says: both
\* are fields of the body, stored and listed as they came.
Publish(p) ==
    /\ minted < MaxKeys
    /\ minted' = minted + 1
    /\ \E f \in 1..(minted + 1) :
          listed' = [listed EXCEPT ![p] = [fp |-> f, key |-> minted + 1]]
    /\ UNCHANGED <<connVars, serverEpoch, inbox, notices, client>>

\* delete_all_keys of a rotation runs after its increment.
Withdraw ==
    /\ \E u \in Members : listed[u] # NoEntry
    /\ listed' = [u \in Members |-> NoEntry]
    /\ UNCHANGED <<connVars, serverEpoch, minted, inbox, notices, client>>

-----------------------------------------------------------------------------
(* loadOrCreateRoomKeys, setupKeys, loadPeers *)

\* Mutant: the epoch of the stored pair is not compared.
BeginSetupAnyEpoch(t, e, pair) ==
    /\ at' = [at EXCEPT ![t] = e]
    /\ IF pair.key # 0
       THEN /\ bundle' = [bundle EXCEPT ![t] = pair.key]
            /\ pc' = [pc EXCEPT ![t] = "import"]
            /\ stored' = pair
       ELSE /\ pc' = [pc EXCEPT ![t] = "make"]
            /\ stored' = NoPair
            /\ UNCHANGED bundle

\* Up to the first await: the stored pair is imported, or dropped if it is of
\* another epoch.
BeginSetup(t, e, pair) ==
    /\ at' = [at EXCEPT ![t] = e]
    /\ IF pair.key # 0 /\ pair.epoch = e
       THEN /\ bundle' = [bundle EXCEPT ![t] = pair.key]
            /\ pc' = [pc EXCEPT ![t] = "import"]
            /\ stored' = pair
       ELSE /\ pc' = [pc EXCEPT ![t] = "make"]
            /\ stored' = NoPair
            /\ UNCHANGED bundle

Imported(t) ==
    /\ Goto(t, "import", "register")
    /\ keys' = bundle[t]
    /\ keysEpoch' = at[t] /\ unmade' = FALSE
    /\ UNCHANGED <<connVars, server, minted, epoch, peers, ref, cancelled, storage, locals,
                   registered, verified, overlapped>>

\* importKey refuses the stored pair: what is stored by now is dropped, and a
\* pair is made instead.
NotImported(t) ==
    /\ Goto(t, "import", "make")
    /\ stored' = NoPair
    /\ bundle' = [bundle EXCEPT ![t] = 0]
    /\ UNCHANGED <<connVars, server, minted, screen, trust, at, list, histories>>

\* Mutant: the new pair is stored but not taken into use.
MadeUnused(t) ==
    /\ Goto(t, "make", "register")
    /\ minted' = minted + 1
    /\ bundle' = [bundle EXCEPT ![t] = minted + 1]
    /\ stored' = [key |-> minted + 1, epoch |-> at[t]]
    /\ keys' = IF keys = 0 THEN minted + 1 ELSE keys
    /\ keysEpoch' = IF keys = 0 THEN at[t] ELSE keysEpoch
    /\ unmade' = FALSE
    /\ UNCHANGED <<connVars, server, epoch, peers, ref, cancelled, trust, at, list,
                   registered, verified, overlapped>>

\* generateKeyPair and exportKey are over.
Made(t) ==
    /\ Goto(t, "make", "register")
    /\ minted' = minted + 1
    /\ bundle' = [bundle EXCEPT ![t] = minted + 1]
    /\ stored' = [key |-> minted + 1, epoch |-> at[t]]
    /\ keys' = minted + 1
    /\ keysEpoch' = at[t] /\ unmade' = FALSE
    /\ UNCHANGED <<connVars, server, epoch, peers, ref, cancelled, trust, at, list,
                   registered, verified, overlapped>>

\* The server handles the registration: it refuses any epoch but its own.
Register(t) ==
    /\ \/ /\ at[t] = serverEpoch
          /\ Goto(t, "register", "fetch")
          /\ listed' = [listed EXCEPT ![Me] = [fp |-> bundle[t], key |-> bundle[t]]]
          /\ registered' = registered \cup {<<bundle[t], at[t]>>}
       \/ /\ at[t] # serverEpoch
          /\ Goto(t, "register", IF t \in Mounts THEN "done" ELSE "idle")
          /\ UNCHANGED <<listed, registered>>
    /\ at' = [at EXCEPT ![t] = 0] /\ bundle' = [bundle EXCEPT ![t] = 0]
    /\ UNCHANGED <<connVars, serverEpoch, minted, inbox, notices, screen, storage, list,
                   keysEpoch, verified, overlapped, unmade>>

\* The server answers with the keys of its epoch.
Fetch(t) ==
    /\ Goto(t, "fetch", "apply")
    /\ list' = [list EXCEPT ![t] = [p \in Peers |-> listed[p]]]
    /\ UNCHANGED <<connVars, server, minted, screen, storage, at, bundle, histories>>

\* The answer of loadPeers is shown, whatever was shown or cleared since it was
\* asked for.
Apply(t) ==
    /\ t # Send
    /\ Goto(t, "apply", IF t \in Mounts \ cancelled THEN "history"
                        ELSE IF t \in Mounts THEN "done" ELSE "idle")
    /\ peers' = list[t]
    /\ list' = [list EXCEPT ![t] = Nobody]
    /\ UNCHANGED <<connVars, server, minted, epoch, keys, ref, cancelled, storage, at, bundle,
                   histories>>

\* A REST call fails, or its answer is lost; or no key pair can be made or
\* stored, and the one in use stays although the epoch is a new one.
Fail(t) ==
    /\ pc[t] \in {"room", "make", "register", "fetch", "apply", "history"}
    /\ pc' = [pc EXCEPT ![t] = IF t \in Mounts THEN "done" ELSE "idle"]
    /\ unmade' = (unmade \/ pc[t] = "make")
    /\ Forget(t)
    /\ UNCHANGED <<connVars, server, minted, screen, storage,
                   keysEpoch, registered, verified, overlapped>>

-----------------------------------------------------------------------------
(* The mounting effect *)

\* Mutant: the connection is opened first.
ReadRoomConnectFirst(m) ==
    /\ Goto(m, "room", "history")
    /\ m \notin cancelled
    /\ at' = [at EXCEPT ![m] = serverEpoch]
    /\ epoch' = serverEpoch
    /\ UNCHANGED <<connVars, server, minted, keys, peers, ref, cancelled, storage, bundle, list,
                   histories>>

\* getRoom has answered; a run that was cleaned up stops here.
ReadRoom(m) ==
    /\ pc[m] = "room" /\ m \notin cancelled
    /\ epoch' = serverEpoch
    /\ BeginSetup(m, serverEpoch, stored)
    /\ UNCHANGED <<connVars, server, minted, keys, peers, ref, cancelled, trust, list,
                   histories>>

Stop(m) ==
    /\ m \in cancelled /\ Goto(m, "room", "done")
    /\ UNCHANGED <<connVars, server, minted, screen, storage, locals, histories>>

\* The history is loaded; whether the run was cleaned up is not asked again.
LoadHistory(m) ==
    /\ Goto(m, "history", "done")
    /\ Connect(m)
    /\ ref' = m
    /\ UNCHANGED <<server, minted, epoch, keys, peers, cancelled, storage, locals, histories>>

Current == {m \in Mounts : pc[m] # "idle"} \ cancelled

\* Mutant: what is cleaned up keeps its connection.
CleanUpKeepsOpen ==
    /\ Current # {}
    /\ cancelled' = cancelled \cup Current
    /\ UNCHANGED connVars

CleanUp ==
    /\ Current # {}
    /\ cancelled' = cancelled \cup Current
    /\ IF ref = NoOne THEN UNCHANGED connVars ELSE Close(ref)

\* ChatPage has learnt the room's epoch, e, and passes it on as initialEpoch:
\* the effect is cleaned up and runs again.
Rerun(m, e) ==
    /\ Goto(m, "idle", "room")
    /\ CleanUp /\ Overlap
    /\ epoch' = e
    /\ UNCHANGED <<server, minted, keys, peers, ref, storage, locals,
                   keysEpoch, registered, verified, unmade>>

Unmount ==
    /\ CleanUp
    /\ UNCHANGED <<server, minted, epoch, keys, peers, ref, storage, pc, locals, histories>>

\* handleLeaveRoom, once the server has answered.
LeaveRoom ==
    /\ CleanUp
    /\ stored' = NoPair /\ trust' = [p \in Peers |-> 0]
    /\ UNCHANGED <<server, minted, epoch, keys, peers, ref, pc, locals, histories>>

-----------------------------------------------------------------------------
(* handleIncoming, rotateKeys *)

Take(m) == inbox[m] # <<>> /\ inbox' = [inbox EXCEPT ![m] = Tail(@)]

\* Before there are keys nothing is handled, and the epoch it has is no news.
Ignore(m) ==
    /\ Take(m)
    /\ keys = 0 \/ Head(inbox[m]) = epoch
    /\ UNCHANGED <<connVars, serverEpoch, listed, minted, notices, client>>

\* Mutant: the verified fingerprints are kept.
RotateKeepTrust(m, h) ==
    /\ Take(m)
    /\ keys # 0 /\ Head(inbox[m]) # epoch
    /\ pc[h] = "idle"
    /\ epoch' = Head(inbox[m])
    /\ peers' = Nobody
    /\ verified' = {}
    /\ Overlap
    /\ BeginSetup(h, Head(inbox[m]), NoPair)
    /\ UNCHANGED <<connVars, serverEpoch, listed, minted, notices, keys, ref, cancelled, trust,
                   list, keysEpoch, registered, unmade>>

\* rotateKeys up to its first await.
RotateKeys(m, h) ==
    /\ Take(m)
    /\ keys # 0 /\ Head(inbox[m]) # epoch
    /\ pc[h] = "idle"
    /\ epoch' = Head(inbox[m])
    /\ trust' = [p \in Peers |-> 0] /\ peers' = Nobody
    /\ verified' = {}
    /\ Overlap
    /\ BeginSetup(h, Head(inbox[m]), NoPair)
    /\ UNCHANGED <<connVars, serverEpoch, listed, minted, notices, keys, ref, cancelled, list,
                   keysEpoch, registered, unmade>>

\* presence, system, a message of somebody unknown, or the poll of who is online.
LoadPeers(l) ==
    /\ Goto(l, "idle", "fetch")
    /\ UNCHANGED <<connVars, server, minted, screen, storage, locals, histories>>

-----------------------------------------------------------------------------
(* The user *)

TrustPeer(p) ==
    /\ Current # {} /\ peers[p] # NoEntry
    /\ trust' = [trust EXCEPT ![p] = peers[p].fp]
    /\ verified' = verified \cup {<<p, peers[p].fp>>}
    /\ UNCHANGED <<connVars, server, minted, screen, stored, pc, locals,
                   keysEpoch, registered, overlapped, unmade>>

UntrustPeer(p) ==
    /\ Current # {} /\ trust[p] # 0
    /\ trust' = [trust EXCEPT ![p] = 0]
    /\ UNCHANGED <<connVars, server, minted, screen, stored, pc, locals, histories>>

\* Of an entry, only the fingerprint that comes with it is compared.
AllPeersVerified(shown) ==
    \A p \in Peers : shown[p] # NoEntry => trust[p] # 0 /\ trust[p] = shown[p].fp

\* The message is encrypted to the peers that are shown, with the key pair and
\* the epoch that were there when it was begun; if all are verified, that is.
Check(from, shown, e, k) ==
    IF shown # Nobody /\ AllPeersVerified(shown)
    THEN /\ Goto(Send, from, "encrypt")
         /\ at' = [at EXCEPT ![Send] = e] /\ bundle' = [bundle EXCEPT ![Send] = k]
         /\ list' = [list EXCEPT ![Send] = shown]
    ELSE Goto(Send, from, "idle") /\ Forget(Send)

SendMessage ==
    /\ Current # {}
    /\ keys # 0 /\ ref # NoOne
    /\ sock[ref] = "open"
    /\ IF peers # Nobody THEN Check("idle", peers, epoch, keys)
       ELSE /\ Goto(Send, "idle", "fetch")
            /\ at' = [at EXCEPT ![Send] = epoch] /\ bundle' = [bundle EXCEPT ![Send] = keys]
            /\ UNCHANGED list
    /\ UNCHANGED <<connVars, server, minted, screen, storage, histories>>

SendLoaded ==
    /\ peers' = list[Send]
    /\ Check("apply", list[Send], at[Send], bundle[Send])
    /\ UNCHANGED <<connVars, server, minted, epoch, keys, ref, cancelled, storage,
                   histories>>

\* conn.send: the message goes out or, if the socket has closed since, is
\* dropped; it is shown either way.
Encrypted ==
    /\ Goto(Send, "encrypt", "idle")
    /\ Forget(Send)
    /\ UNCHANGED <<connVars, server, minted, screen, storage, histories>>

-----------------------------------------------------------------------------
(* The browser *)

NoFrames(c) == inbox' = [inbox EXCEPT ![c] = <<>>]
Quietly == UNCHANGED <<serverEpoch, listed, notices, minted, client>>

SocketEvent(c) ==
    \/ Opened(c) /\ UNCHANGED inbox /\ Quietly
    \/ Lost(c) /\ NoFrames(c) /\ Quietly
    \/ Due(c) /\ UNCHANGED inbox /\ Quietly

Setup(t) == Imported(t) \/ NotImported(t) \/ Made(t) \/ Register(t)

Next ==
    \/ Rotate \/ Withdraw
    \/ \E p \in Peers : Publish(p) \/ TrustPeer(p) \/ UntrustPeer(p)
    \/ \E m \in Mounts :
          \/ \E e \in 1..serverEpoch : Announce(m, e) \/ Rerun(m, e)
          \/ ReadRoom(m) \/ Stop(m) \/ LoadHistory(m) \/ Ignore(m) \/ SocketEvent(m)
          \/ \E h \in Rotations : RotateKeys(m, h)
    \/ Unmount \/ LeaveRoom
    \/ \E t \in Mounts \cup Rotations : Setup(t)
    \/ \E t \in Tasks : Fetch(t) \/ Apply(t) \/ Fail(t)
    \/ \E l \in Loads : LoadPeers(l)
    \/ SendMessage \/ SendLoaded \/ Encrypted

Spec == Init /\ [][Next]_vars

-----------------------------------------------------------------------------
(* Properties *)

\* A step that lets a message through.
LetsThrough == pc[Send] # "encrypt" /\ pc'[Send] = "encrypt"

\* Every fingerprint listed with a key that it goes to was verified.
OnlyVerified ==
    LetsThrough =>
        \A p \in Peers : list'[Send][p] # NoEntry => <<p, list'[Send][p].fp>> \in verified

\* A message goes only to entries whose listed fingerprint its user verified
\* after the last rotation that the client began (README: messaging blocked until
\* all peer keys are verified; Verify teammates again).  The peers may be those of
\* an answer from before that rotation, and the rotation may clear them, the trust
\* store and the key pair while the message waits for an answer of its own.
SentToVerified == [][OnlyVerified]_vars

\* What the README says more: the key itself was verified, so that a key put in
\* the place of a verified one is detected.  A listed fingerprint need not be that
\* of the listed key.
EncryptedToVerified ==
    [][LetsThrough =>
          \A p \in Peers :
              list'[Send][p] # NoEntry => <<p, list'[Send][p].key>> \in verified]_vars

\* A key pair is registered at one epoch only, although the tab keeps it in
\* sessionStorage from one visit to the next (crypto.ts: rotate when
\* crypto_epoch changes).
KeyOfOneEpoch ==
    \A a, b \in registered : a[1] = b[1] => a[2] = b[2]

\* No keys_rotated event is ever ignored for want of a key pair: there is one
\* before there is a socket, also when runs of the effect overlap.
OpenHasKeys == \A c \in Conns : sock[c] = "open" => keys # 0

\* As long as runs of the effect and rotations have not overlapped, a connected
\* client that is not setting up keys uses a pair of the epoch that it shows and
\* stamps its messages with, unless the last pair it needed could not be made: then
\* it goes on with the one of the epoch before.
KeysMatchEpoch ==
    /\ ~overlapped /\ ~unmade /\ ref # NoOne
    /\ sock[ref] = "open" /\ ~closed[ref]
    /\ \A t \in Tasks : ~Busy(t)
    => keysEpoch = epoch

\* As long as they have not overlapped either, wsRef names the only connection
\* that nobody has closed: each run of the effect makes one, and finds the one of
\* the run before it closed.
OneConnection ==
    ~overlapped => \A c \in Conns : sock[c] # "none" /\ ~closed[c] => c = ref

\* A run of the effect that was cleaned up leaves no connection behind.
CancelledIsClosed ==
    \A m \in cancelled : sock[m] # "none" => closed[m]

\* A client that is connected, has handled all it was sent and does nothing is
\* in the epoch of the server (README: members must re-verify fingerprints
\* before messaging resumes).
CaughtUpIsCurrent ==
    /\ ref # NoOne /\ sock[ref] = "open" /\ inbox[ref] = <<>>
    /\ \A t \in Tasks : ~Busy(t)
    => epoch = serverEpoch

\* The key pair in use is the one the server lists, if it lists one.
ListedIsInUse ==
    /\ ref # NoOne /\ sock[ref] = "open" /\ listed[Me] # NoEntry
    /\ \A t \in Tasks : ~Busy(t)
    => listed[Me].key = keys
=============================================================================
