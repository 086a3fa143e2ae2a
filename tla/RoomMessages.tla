----------------------------- MODULE RoomMessages -----------------------------
(***************************************************************************)
(* What a visit to a room shows: the messages of ChatRoom.tsx (history,    *)
(* handleIncoming, sendMessage, and the rotations that empty the screen),  *)
(* and the trust in peers that lets one send (lib/trustStore.ts,           *)
(* SecurityPanel, TrustBanner).                                            *)
(*                                                                         *)
(* Peers and trust are kept by display name, and nothing keeps two members *)
(* from having one name, or from registering one fingerprint.  A listing   *)
(* has an entry for every account that registered; a Map keeps one for a    *)
(* name.  A request for the listing may be answered by any, and a           *)
(* ciphertext may open or not: RoomSession has the server that lists, and   *)
(* the key pairs.                                                          *)
(***************************************************************************)
EXTENDS Naturals, Sequences

CONSTANTS
    Others,     \* the accounts of the other members
    Names,      \* their display names
    Prints,     \* fingerprints, as they come with a registration
    Entries,    \* what an account may have registered: a name and a fingerprint
    NoEntry,
    Me,         \* username
    NoPrint,
    NoRun,
    OldTrust,   \* the trust maps that may be left in localStorage
    Runs,       \* of the mounting effect, each with its connection
    First,      \* the one at the start of the visit
    Rotations,  \* coroutines of rotateKeys: a bound on how many overlap
    Handlers,   \* of handleIncoming, for a message: likewise
    Send,       \* the coroutine of sendMessage
    MaxEpoch,   \* bound: the last epoch
    MaxBegun,   \* bound: the messages that others have stored or this client begins
    MaxRounds   \* bound: the rotations that are begun

Setups == Runs \cup Rotations
Tasks == Setups \cup Handlers \cup {Send}

ASSUME MessagesAssumption ==
    /\ Entries \subseteq [user : Others, name : Names, fp : Prints]
    /\ NoEntry \notin Entries
    /\ OldTrust \subseteq [Names -> Prints \cup {NoPrint}]
    /\ Me \notin Names /\ NoPrint \notin Prints /\ NoRun \notin Runs
    /\ First \in Runs /\ Runs \cap Rotations = {} /\ Setups \cap Handlers = {}
    /\ Send \notin Setups \cup Handlers

VARIABLES
    serverEpoch,
    archive,    \* the messages that the server has stored
    wire,       \* those on the way to a connection, by their place in archive
    epoch,      \* epochRef.current and cryptoEpoch
    keyed,      \* whether there is a keysRef.current and keys
    peers,      \* React state: a listing without the user's own entry
    map,        \* peerMapRef.current
    session,    \* the trust map in sessionStorage
    legacy,     \* and in localStorage, where it used to be kept, until it is moved
    messages,   \* React state: what is on the screen
    conn,       \* the connection that a run has made
    ref,        \* wsRef.current, as the run that made it
    cancelled,  \* the runs that were cleaned up
    pc,         \* what a coroutine does next
    at,         \* the epoch it works for
    frame,      \* the message that a handler handles,
    via,        \* and whose connection it came by; or that sendMessage uses
    pending,    \* the bubbles that a coroutine is about to show
    list,       \* the entries that sendMessage encrypts to
    rounds,     \* history: how many rotations have begun
    since,      \* history: the rounds at which a coroutine took its epoch
    begun,      \* history: the messages that others have stored or this client began
    reran,      \* history: the effect has changed the epoch since the last rotation
    verified    \* history: <<name, fingerprint>> verified since the last rotation, if any

server == <<serverEpoch, archive>>
room == <<epoch, keyed>>
listing == <<peers, map>>
trust == <<session, legacy>>
sockets == <<conn, ref, cancelled>>
work == <<at, since>>
cargo == <<frame, via, pending>>
locals == <<work, cargo, list>>
histories == <<rounds, begun, reran, verified>>
vars == <<server, wire, room, listing, trust, messages, sockets, pc, locals, histories>>

\* The trust maps, and the peer maps.
NoMap == [n \in Names |-> NoPrint]
Maps == [Names -> Prints \cup {NoPrint}]
NoPeers == [n \in Names |-> NoEntry]
PeerMaps == [Names -> Entries \cup {NoEntry}]

\* The keys collection has one document for an account in a room.
Listings == {s \in SUBSET Entries : \A d, e \in s : d.user = e.user => d = e}

\* A frame, and what is shown of it: by the history of a run or (live) by way of its
\* connection; late is a history.
Frames == [from : Names \cup {Me}, epoch : Nat, mine : BOOLEAN]
Bubbles == [frame : Nat, epoch : Nat, kind : {"text", "earlier", "own", "failed", "sent"},
            by : Runs, live : BOOLEAN, late : BOOLEAN]

TypeOK ==
    /\ serverEpoch \in Nat
    /\ archive \in Seq(Frames) /\ wire \subseteq Runs \X (1..Len(archive))
    /\ epoch \in Nat /\ keyed \in BOOLEAN
    /\ peers \subseteq Entries /\ map \in PeerMaps
    /\ session \in Maps /\ legacy \in Maps /\ NoMap \in {session, legacy}
    /\ messages \subseteq Bubbles
    /\ conn \in [Runs -> {"none", "open", "down", "closed"}]
    /\ ref \in Runs \cup {NoRun} /\ cancelled \subseteq Runs
    /\ pc \in [Tasks -> {"idle", "room", "keys", "peers", "history", "decrypt", "encrypt", "done"}]
    /\ at \in [Tasks -> Nat] /\ since \in [Tasks -> Nat]
    /\ frame \in [Tasks -> Nat] /\ via \in [Tasks -> Runs \cup {NoRun}]
    /\ pending \in [Tasks -> SUBSET Bubbles]
    /\ list \subseteq Entries
    /\ rounds \in Nat /\ begun \in Nat /\ reran \in BOOLEAN
    /\ verified \subseteq Names \X Prints

\* The visit begins; what was verified in earlier ones is still trusted.
Init ==
    /\ serverEpoch = 1 /\ archive = <<>> /\ wire = {}
    /\ epoch = 1 /\ keyed = FALSE
    /\ peers = {} /\ map = NoPeers
    /\ session \in Maps /\ legacy \in OldTrust /\ NoMap \in {session, legacy}
    /\ messages = {}
    /\ conn = [r \in Runs |-> "none"] /\ ref = NoRun /\ cancelled = {}
    /\ pc = [t \in Tasks |-> IF t = First THEN "room" ELSE "idle"]
    /\ at = [t \in Tasks |-> 0] /\ since = [t \in Tasks |-> 0]
    /\ frame = [t \in Tasks |-> 0] /\ via = [t \in Tasks |-> NoRun]
    /\ pending = [t \in Tasks |-> {}] /\ list = {}
    /\ rounds = 0 /\ begun = 0 /\ reran = FALSE /\ verified = {}

Goto(t, from, to) == pc[t] = from /\ pc' = [pc EXCEPT ![t] = to]

\* The locals of a coroutine, and nothing when it has ended.
Keep(t, e, s) == at' = [at EXCEPT ![t] = e] /\ since' = [since EXCEPT ![t] = s]
Carry(t, i, r, bubbles) ==
    /\ frame' = [frame EXCEPT ![t] = i] /\ via' = [via EXCEPT ![t] = r]
    /\ pending' = [pending EXCEPT ![t] = bubbles]
Forget(t) == Keep(t, 0, 0) /\ Carry(t, 0, NoRun, {})

-----------------------------------------------------------------------------
(* The server and the other members *)

Rotate ==
    /\ serverEpoch < MaxEpoch
    /\ serverEpoch' = serverEpoch + 1
    /\ UNCHANGED <<archive, wire, room, listing, trust, messages, sockets, pc, locals, histories>>

\* Mutant of Post: the relay does not wait for the store.
PostUnstored(n, e, mine) ==
    /\ begun < MaxBegun /\ begun' = begun + 1
    /\ wire' \in {wire} \cup {wire \cup {<<r, Len(archive) + 1>>} : r \in {c \in Runs : conn[c] = "open"}}
    /\ UNCHANGED <<server, room, listing, trust, messages, sockets, pc, locals, rounds, reran, verified>>

\* A message of another member is stored, and relayed to the connection that the
\* server has of this client, if any.  Its sender may lag behind the epoch, and not
\* have encrypted it to this client.
Post(n, e, mine) ==
    /\ begun < MaxBegun /\ begun' = begun + 1
    /\ archive' = Append(archive, [from |-> n, epoch |-> e, mine |-> mine])
    /\ wire' \in {wire} \cup {wire \cup {<<r, Len(archive) + 1>>} : r \in {c \in Runs : conn[c] = "open"}}
    /\ UNCHANGED <<serverEpoch, room, listing, trust, messages, sockets, pc, locals,
                   rounds, reran, verified>>

-----------------------------------------------------------------------------
(* loadPeers *)

\* The Map that is made of a listing keeps the last entry of a name.
MapsOf(answer) ==
    {m \in PeerMaps : \A n \in Names :
        LET named == {e \in answer : e.name = n}
        IN  IF named = {} THEN m[n] = NoEntry ELSE m[n] \in named}

EntriesOf(m) == {e \in Entries : m[e.name] = e}

Listed == \E answer \in Listings : peers' = answer /\ map' \in MapsOf(answer)

\* Asked for by presence, a system event or the poll of who is online.
LoadPeers ==
    /\ Listed
    /\ UNCHANGED <<server, wire, room, trust, messages, sockets, pc, locals, histories>>

-----------------------------------------------------------------------------
(* decryptPayload *)

\* The kinds of bubble that a message may become; none if it is not for this
\* client or of somebody unknown.
Kinds(f, m, e) ==
    IF f.epoch # e THEN {"earlier"}
    ELSE IF f.from = Me THEN {"own"}
    ELSE IF m[f.from] = NoEntry \/ ~f.mine THEN {}
    ELSE {"text", "failed"}

\* What the messages in a set may become: a bubble each, or none.
Decrypted(s, m, e, r, live) ==
    LET shown == {i \in s : Kinds(archive[i], m, e) # {}}
    IN  {{[frame |-> i, epoch |-> archive[i].epoch, kind |-> kind[i], by |-> r,
            live |-> live, late |-> FALSE] : i \in shown} :
         kind \in {f \in [shown -> {"text", "earlier", "own", "failed"}] :
                       \A i \in shown : f[i] \in Kinds(archive[i], m, e)}}

\* Bubbles of a coroutine t are late when a rotation began after it took its epoch.
Show(t, bubbles) == messages' = messages \cup {[b EXCEPT !.late = since[t] < rounds] : b \in bubbles}

-----------------------------------------------------------------------------
(* The mounting effect: setupKeys, loadHistory, connectWebSocket *)

ReadRoom(r) ==
    /\ r \notin cancelled
    /\ Goto(r, "room", "keys")
    /\ epoch' = serverEpoch
    /\ Keep(r, serverEpoch, rounds)
    /\ reran' = (reran \/ epoch # serverEpoch)
    /\ UNCHANGED <<server, wire, keyed, listing, trust, messages, sockets, cargo, list,
                   rounds, begun, verified>>

Stop(r) ==
    /\ r \in cancelled /\ Goto(r, "room", "done")
    /\ UNCHANGED <<server, wire, room, listing, trust, messages, sockets, locals, histories>>

\* loadOrCreateRoomKeys has given a key pair.
Keyed(t) ==
    /\ Goto(t, "keys", "peers")
    /\ keyed' = TRUE
    /\ UNCHANGED <<server, wire, epoch, listing, trust, messages, sockets, locals, histories>>

\* Mutant of Settled: connects before the history is asked for, to miss nothing.
SettledConnected(r) ==
    /\ Goto(r, "peers", "history")
    /\ conn' = [conn EXCEPT ![r] = "down"] /\ ref' = r
    /\ Listed
    /\ UNCHANGED <<server, wire, room, trust, messages, cancelled, locals, histories>>

\* The key is registered and the listing is there.
Settled(r) ==
    /\ IF r \in cancelled
       THEN Goto(r, "peers", "done") /\ Forget(r)
       ELSE Goto(r, "peers", "history") /\ UNCHANGED <<work, cargo>>
    /\ Listed
    /\ UNCHANGED <<server, wire, room, trust, messages, sockets, list, histories>>

\* The history is there; it is decrypted with the keys and the epoch of this run
\* and the Map of this moment.
HistoryRead(r) ==
    /\ Goto(r, "history", "decrypt")
    /\ \E bubbles \in Decrypted(1..Len(archive), map, at[r], r, FALSE) : Carry(r, 0, NoRun, bubbles)
    /\ Keep(r, 0, since[r])
    /\ UNCHANGED <<server, wire, room, listing, trust, messages, sockets, list, histories>>

\* It is shown, and the run connects without asking whether it was cleaned up.
Joined(r) ==
    /\ Goto(r, "decrypt", "done")
    /\ Show(r, pending[r]) /\ Forget(r)
    /\ conn' = [conn EXCEPT ![r] = "down"] /\ ref' = r
    /\ UNCHANGED <<server, wire, room, listing, trust, cancelled, list, histories>>

\* A REST call fails. A run ends with an error; a rotation leaves the screen empty,
\* a message is not shown or not sent.
Fail(t) ==
    /\ pc[t] \in {"room", "keys", "peers", "history"}
    /\ pc' = [pc EXCEPT ![t] = IF t \in Runs THEN "done" ELSE "idle"]
    /\ Forget(t)
    /\ UNCHANGED <<server, wire, room, listing, trust, messages, sockets, list, histories>>

Current == {r \in Runs : pc[r] # "idle"} \ cancelled

\* ChatPage has learnt the room's epoch: the effect is cleaned up and runs again.
Rerun(r, e) ==
    /\ Goto(r, "idle", "room")
    /\ cancelled' = cancelled \cup Current
    /\ conn' = IF ref = NoRun THEN conn ELSE [conn EXCEPT ![ref] = "closed"]
    /\ wire' = {w \in wire : w[1] # ref}
    /\ epoch' = e
    /\ reran' = (reran \/ epoch # e)
    /\ UNCHANGED <<server, keyed, listing, trust, messages, ref, locals, rounds, begun, verified>>

-----------------------------------------------------------------------------
(* lib/trustStore.ts, SecurityPanel, TrustBanner *)

LoadTrust == IF session # NoMap THEN session ELSE legacy

\* loadTrust comes before it, which moves what is in localStorage only.
SaveTrust(m) == session' = m /\ legacy' = NoMap

\* Mutant of ClearRoomTrust: only sessionStorage is cleared.
ClearSessionTrust == session' = NoMap /\ UNCHANGED legacy

ClearRoomTrust == session' = NoMap /\ legacy' = NoMap

\* Mutant of PeerTrustStatus: a record is enough.
AnyRecord(e) == IF LoadTrust[e.name] = NoPrint THEN "unverified" ELSE "verified"

PeerTrustStatus(e) ==
    IF LoadTrust[e.name] = NoPrint THEN "unverified"
    ELSE IF LoadTrust[e.name] # e.fp THEN "changed"
    ELSE "verified"

AllPeersVerified(shown) == \A e \in shown : PeerTrustStatus(e) = "verified"

\* The panel and the banner read the trust map, and so move it.
Render ==
    /\ peers # {} /\ legacy # NoMap
    /\ SaveTrust(LoadTrust)
    /\ UNCHANGED <<server, wire, room, listing, messages, sockets, pc, locals, histories>>

\* Another tab has moved the old map to its own sessionStorage.
OtherTab ==
    /\ legacy # NoMap /\ legacy' = NoMap
    /\ UNCHANGED <<server, wire, room, listing, session, messages, sockets, pc, locals, histories>>

\* The button of a peer that is not verified, and the one of a peer that is.
Trust(e) ==
    /\ e \in peers /\ PeerTrustStatus(e) # "verified"
    /\ SaveTrust([LoadTrust EXCEPT ![e.name] = e.fp])
    /\ verified' = IF rounds = 0 THEN {} ELSE verified \cup {<<e.name, e.fp>>}
    /\ UNCHANGED <<server, wire, room, listing, messages, sockets, pc, locals, rounds, begun, reran>>

Untrust(e) ==
    /\ e \in peers /\ PeerTrustStatus(e) = "verified"
    /\ SaveTrust([LoadTrust EXCEPT ![e.name] = NoPrint])
    /\ UNCHANGED <<server, wire, room, listing, messages, sockets, pc, locals, histories>>

-----------------------------------------------------------------------------
(* handleIncoming, rotateKeys *)

\* Mutant of RotateKeys: the screen is emptied by Rotated only.
RotateKeysShown(t, e) ==
    /\ rounds < MaxRounds
    /\ \E r \in Runs : conn[r] = "open"
    /\ keyed /\ e # epoch
    /\ Goto(t, "idle", "keys")
    /\ ClearRoomTrust
    /\ epoch' = e
    /\ peers' = {} /\ map' = NoPeers
    /\ rounds' = rounds + 1 /\ reran' = FALSE /\ verified' = {}
    /\ Keep(t, e, 0)
    /\ UNCHANGED <<server, wire, keyed, messages, sockets, cargo, list, begun>>

\* keys_rotated with another epoch, up to the first await.
RotateKeys(t, e) ==
    /\ rounds < MaxRounds
    /\ \E r \in Runs : conn[r] = "open"
    /\ keyed /\ e # epoch
    /\ Goto(t, "idle", "keys")
    /\ ClearRoomTrust
    /\ epoch' = e
    /\ messages' = {} /\ peers' = {} /\ map' = NoPeers
    /\ rounds' = rounds + 1 /\ reran' = FALSE /\ verified' = {}
    /\ Keep(t, e, 0)
    /\ UNCHANGED <<server, wire, keyed, sockets, cargo, list, begun>>

\* setupKeys is over: what was shown since the rotation began is lost.
Rotated(t) ==
    /\ Goto(t, "peers", "idle") /\ Forget(t)
    /\ Listed
    /\ messages' = {}
    /\ UNCHANGED <<server, wire, room, trust, sockets, list, histories>>

\* The rest of handleIncoming, once the sender is known or asked for.
Decrypt(h, from, i, m, r) ==
    IF archive[i].from = Me \/ m[archive[i].from] = NoEntry \/ ~archive[i].mine
    THEN Goto(h, from, "idle") /\ Forget(h)
    ELSE /\ Goto(h, from, "decrypt")
         /\ \E bubbles \in Decrypted({i}, m, epoch, r, TRUE) : Carry(h, 0, NoRun, bubbles)
         /\ Keep(h, 0, rounds)

\* Before there are keys nothing is handled.
Ignore(w) ==
    /\ w \in wire /\ wire' = wire \ {w}
    /\ ~keyed
    /\ UNCHANGED <<server, room, listing, trust, messages, sockets, pc, locals, histories>>

Receive(h, r, i) ==
    /\ <<r, i>> \in wire /\ wire' = wire \ {<<r, i>>}
    /\ keyed
    /\ IF archive[i].from # Me /\ map[archive[i].from] # NoEntry
       THEN Decrypt(h, "idle", i, map, r)
       ELSE Goto(h, "idle", "peers") /\ Keep(h, 0, 0) /\ Carry(h, i, r, {})
    /\ UNCHANGED <<server, room, listing, trust, messages, sockets, list, histories>>

SenderLoaded(h) ==
    /\ pc[h] = "peers"
    /\ Listed
    /\ Decrypt(h, "peers", frame[h], map', via[h])
    /\ UNCHANGED <<server, wire, room, trust, messages, sockets, list, histories>>

Received(h) ==
    /\ Goto(h, "decrypt", "idle")
    /\ Show(h, pending[h]) /\ Forget(h)
    /\ UNCHANGED <<server, wire, room, listing, trust, sockets, list, histories>>

-----------------------------------------------------------------------------
(* sendMessage *)

\* The message is encrypted to the entries in shown, if there are some and all are
\* verified, with the epoch e and the connection r of when it was begun.
Check(from, shown, e, r, s) ==
    IF shown # {} /\ AllPeersVerified(shown)
    THEN Goto(Send, from, "encrypt") /\ list' = shown /\ Keep(Send, e, s) /\ Carry(Send, 0, r, {})
    ELSE Goto(Send, from, "idle") /\ list' = {} /\ Forget(Send)

SendMessage ==
    /\ keyed /\ ref # NoRun /\ conn[ref] = "open"
    /\ begun < MaxBegun /\ begun' = begun + 1
    /\ IF peers # {} THEN Check("idle", peers, epoch, ref, rounds)
       ELSE IF EntriesOf(map) # {} THEN Check("idle", EntriesOf(map), epoch, ref, rounds)
       ELSE /\ Goto(Send, "idle", "peers") /\ list' = {}
            /\ Keep(Send, epoch, rounds) /\ Carry(Send, 0, ref, {})
    /\ UNCHANGED <<server, wire, room, listing, trust, messages, sockets, rounds, reran, verified>>

SendLoaded ==
    /\ Listed
    /\ Check("peers", EntriesOf(map'), at[Send], via[Send], since[Send])
    /\ UNCHANGED <<server, wire, room, trust, messages, sockets, histories>>

\* The message goes out or, if the socket has gone, is dropped; it is shown either
\* way.  Frame 0 is one that was dropped.
Encrypted ==
    /\ Goto(Send, "encrypt", "idle") /\ list' = {} /\ Forget(Send)
    /\ LET sent == conn[via[Send]] = "open"
       IN  /\ archive' = IF sent THEN Append(archive, [from |-> Me, epoch |-> at[Send], mine |-> FALSE])
                         ELSE archive
           /\ Show(Send, {[frame |-> IF sent THEN Len(archive) + 1 ELSE 0, epoch |-> at[Send],
                           kind |-> "sent", by |-> via[Send], live |-> TRUE, late |-> FALSE]})
    /\ UNCHANGED <<serverEpoch, wire, room, listing, trust, sockets, histories>>

-----------------------------------------------------------------------------
(* The browser *)

Opened(r) ==
    /\ conn[r] = "down" /\ conn' = [conn EXCEPT ![r] = "open"]
    /\ UNCHANGED <<server, wire, room, listing, trust, messages, ref, cancelled, pc, locals, histories>>

\* What was on the way is lost; the connection is made again.
Lost(r) ==
    /\ conn[r] = "open" /\ conn' = [conn EXCEPT ![r] = "down"]
    /\ wire' = {w \in wire : w[1] # r}
    /\ UNCHANGED <<server, room, listing, trust, messages, ref, cancelled, pc, locals, histories>>

Next ==
    \/ Rotate \/ LoadPeers \/ Render \/ OtherTab \/ SendMessage \/ SendLoaded \/ Encrypted
    \/ \E n \in Names, e \in 1..serverEpoch, mine \in BOOLEAN : Post(n, e, mine)
    \/ \E r \in Runs :
          \/ ReadRoom(r) \/ Stop(r) \/ Settled(r) \/ HistoryRead(r) \/ Joined(r)
          \/ Opened(r) \/ Lost(r)
          \/ \E e \in 1..serverEpoch : Rerun(r, e)
    \/ \E t \in Rotations : Rotated(t) \/ \E e \in 1..serverEpoch : RotateKeys(t, e)
    \/ \E t \in Setups : Keyed(t)
    \/ \E t \in Tasks : Fail(t)
    \/ \E w \in wire : Ignore(w) \/ \E h \in Handlers : Receive(h, w[1], w[2])
    \/ \E h \in Handlers : SenderLoaded(h) \/ Received(h)
    \/ \E e \in Entries : Trust(e) \/ Untrust(e)

Spec == Init /\ [][Next]_vars

-----------------------------------------------------------------------------
(* Properties *)

Read == {m \in messages : m.kind \in {"text", "sent"}}

\* A rotation takes the readable messages of earlier epochs off the screen (README:
\* keys rotate).  What is left of them had taken its epoch before the rotation
\* began and was shown after, or the effect has changed the epoch without one.
RotationForgets == \A m \in Read : m.epoch = epoch \/ reran \/ m.late

\* One run of the effect, with its history and its connection, shows a message
\* once, although the history is read while others write it and the connection is
\* made after.  Two runs may show it twice.
ShownOnce ==
    \A m, n \in messages :
        m.frame # 0 /\ m.frame = n.frame /\ m.by = n.by => m = n

\* Members of one name get a message together only if their fingerprints are one
\* too: the trust store has one record for the name.  Decrypting takes the first
\* copy for a name, so of two with different keys one would find the other's copy.
\* Members that share name and fingerprint get two copies of one name.
NamesakesShareFingerprint == \A d, e \in list : d.name = e.name => d.fp = e.fp

\* What is trusted after a rotation was verified after it, wherever the browser
\* keeps it (README: Verify teammates again).
TrustEndsWithRotation ==
    rounds > 0 => \A n \in Names : LoadTrust[n] # NoPrint => <<n, LoadTrust[n]>> \in verified
=============================================================================
